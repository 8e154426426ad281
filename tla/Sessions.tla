------------------------------ MODULE Sessions ------------------------------
(***************************************************************************)
(* The life of one session id: pages join and connect, the session is made *)
(* or restored from the database, users go idle, and the background tasks  *)
(* mark and remove users and archive the session.  rust/app/src/users.rs,  *)
(* sessions.rs, background.rs, websocket.rs and db.rs.                      *)
(*                                                                         *)
(* None of this is a transaction.  Joining, checking for idle users and    *)
(* archiving are procedures of several steps over the session map, the     *)
(* server of a session and the database, and each may find that what it    *)
(* has read is no longer so.  `orderly` records whether that could happen: *)
(* it holds until one procedure starts while another is under way, or a    *)
(* user is marked inactive while connected.                                *)
(***************************************************************************)
EXTENDS Integers, Sequences, FiniteSets

CONSTANTS
  Pages,            \* browser pages that open the session
  UserIds, NoUser,
  Background,       \* mark_remove_inactive_users_all_sessions
  MaxJoins,         \* bound: joins of all pages
  MaxEdits          \* bound: edits of all pages

ASSUME SessionsAssumption ==
  /\ Background \notin Pages
  /\ NoUser \notin UserIds
  /\ MaxJoins \in Nat
  /\ MaxEdits \in Nat

VARIABLES
  registered,       \* the session the map has for the id, or NoSession
  text,             \* of each session that was made: the edits in its document
  stored,           \* the row of the id in the table of documents, or NoRow
  user,             \* of each user id: whose session it is in, and its activity
  page,             \* of each page: how far, its user id, its session
  archiver,         \* how far archive_remove_empty_sessions is
  check,            \* how far each check for idle users is
  joins, edits,     \* how many there were
  panicked,         \* some task has panicked
  orderly           \* procedures have not overlapped so far

storeVars == <<registered, text, stored>>
taskVars  == <<archiver, check>>
vars == <<storeVars, user, page, taskVars, joins, edits, panicked, orderly>>

-----------------------------------------------------------------------------
NoSession == 0
NoRow == {0}

Made  == 1..Len(text)
Edits == 1..MaxEdits

Checkers == Pages \cup {Background}

JoinState == {"finding", "restoring", "creating", "registeringRow", "registeringNew",
              "getting", "reading", "storing", "adding", "joined", "entering"}

NotChecking == [at |-> "asleep", of |-> NoSession, mark |-> {}, remove |-> {}, self |-> FALSE]

Row == (SUBSET Edits) \cup {NoRow}

User == [of : Nat, active : BOOLEAN, idle : {"unknown", "recent", "late", "long"}]

Page == [at : {"away", "connected"} \cup JoinState, id : {NoUser} \cup UserIds, of : Nat,
         row : Row]

Check == [at : {"asleep", "checking", "dead"}, of : Nat, mark : SUBSET UserIds,
          remove : SUBSET UserIds, self : BOOLEAN]

TypeOK ==
  /\ registered \in {NoSession} \cup Made
  /\ text \in Seq(SUBSET Edits)
  /\ stored \in Row
  /\ user \in [UserIds -> User]
  /\ page \in [Pages -> Page]
  /\ archiver \in {"asleep", "archiving", "removing"}
  /\ check \in [Checkers -> Check]
  /\ joins \in 0..MaxJoins
  /\ edits \in 0..MaxEdits
  /\ panicked \in BOOLEAN
  /\ orderly \in BOOLEAN

Init ==
  /\ registered = NoSession
  /\ text = <<>>
  /\ stored = NoRow
  /\ user = [i \in UserIds |-> [of |-> NoSession, active |-> FALSE, idle |-> "unknown"]]
  /\ page = [p \in Pages |-> [at |-> "away", id |-> NoUser, of |-> NoSession, row |-> NoRow]]
  /\ archiver = "asleep"
  /\ check = [c \in Checkers |-> NotChecking]
  /\ joins = 0
  /\ edits = 0
  /\ panicked = FALSE
  /\ orderly = TRUE

-----------------------------------------------------------------------------
Joining == {p \in Pages : page[p].at \in JoinState}

Connected == {p \in Pages : page[p].at = "connected"}

Checking == {c \in Checkers : check[c].at = "checking"}

\* A procedure starts, while no other is under way or it is the end of order.
Starts == orderly' = (orderly /\ Joining = {} /\ Checking = {} /\ archiver = "asleep")

UsersOf(s) == {i \in UserIds : user[i].of = s /\ s # NoSession}

ActiveUsers(s) == {i \in UsersOf(s) : user[i].active}

\* The check in the background iterates over the map, and holds the lock of the
\* shard while it waits for a server: nobody inserts or removes.
MapWritable == Background \notin Checking

\* The text the next one to open the session will find.
Served == IF registered = NoSession THEN stored ELSE text[registered]

-----------------------------------------------------------------------------
(* Joining: get_or_create_session, handle_user_join, handle_websocket      *)

Goes(p, from, to) == /\ page[p].at = from
                     /\ page' = [page EXCEPT ![p].at = to]

\* The page has no connection; it remembers its user id.
Gone(p) == [page EXCEPT ![p] = [@ EXCEPT !.at = "away", !.of = NoSession, !.row = NoRow]]

\* The page asks to join; the database is read first.
ReadRow(p) ==
  /\ page[p].at = "away"
  /\ joins < MaxJoins
  /\ joins' = joins + 1
  /\ page' = [page EXCEPT ![p] = [@ EXCEPT !.at = "finding", !.row = stored]]
  /\ Starts
  /\ UNCHANGED <<storeVars, user, taskVars, edits, panicked>>

\* Fault: the database is not looked at.
FindInMap(p) ==
  /\ Goes(p, "finding", "creating")
  /\ UNCHANGED <<storeVars, user, taskVars, joins, edits, panicked, orderly>>

\* A session is restored if the map has none and the database has.
FindSession(p) ==
  /\ Goes(p, "finding", IF registered = NoSession /\ page[p].row # NoRow
                        THEN "restoring" ELSE "creating")
  /\ UNCHANGED <<storeVars, user, taskVars, joins, edits, panicked, orderly>>

\* Both ways look at the map again.
ContainsKey(p) ==
  /\ \/ Goes(p, "restoring", IF registered = NoSession THEN "registeringRow" ELSE "getting")
     \/ Goes(p, "creating", IF registered = NoSession THEN "registeringNew" ELSE "getting")
  /\ UNCHANGED <<storeVars, user, taskVars, joins, edits, panicked, orderly>>

Register(doc) == /\ MapWritable
                 /\ text' = Append(text, doc)
                 /\ registered' = Len(text) + 1
                 /\ UNCHANGED stored

\* A new session replaces what the map has by now.
InsertSession(p) ==
  /\ \/ Goes(p, "registeringRow", "getting") /\ Register(page[p].row)
     \/ Goes(p, "registeringNew", "getting") /\ Register({})
  /\ UNCHANGED <<user, taskVars, joins, edits, panicked, orderly>>

\* The request ends in a panic if the session is gone again.
GetSession(p) ==
  /\ page[p].at = "getting"
  /\ page' = [page EXCEPT ![p] = [@ EXCEPT !.of = registered, !.row = NoRow,
                !.at = IF registered = NoSession THEN "away" ELSE "reading"]]
  /\ panicked' = (panicked \/ registered = NoSession)
  /\ UNCHANGED <<storeVars, user, taskVars, joins, edits, orderly>>

ReadDocument(p) ==
  /\ page[p].at = "reading"
  /\ page' = [page EXCEPT ![p] = [@ EXCEPT !.at = "storing", !.row = text[page[p].of]]]
  /\ UNCHANGED <<storeVars, user, taskVars, joins, edits, panicked, orderly>>

StoreDocument(p) ==
  /\ page[p].at = "storing"
  /\ page' = [page EXCEPT ![p] = [@ EXCEPT !.at = "adding", !.row = NoRow]]
  /\ stored' = page[p].row
  /\ UNCHANGED <<registered, text, user, taskVars, joins, edits, panicked, orderly>>

\* An id nobody has had: which one makes no difference.
NewIds ==
  LET unused == {i \in UserIds : user[i].idle = "unknown"}
  IN IF unused = {} THEN {} ELSE {CHOOSE i \in unused : TRUE}

Known(p) == page[p].id \in UsersOf(page[p].of)

\* Fault: a user who comes back stays inactive.
AddNewUser(p) ==
  /\ page[p].at = "adding"
  /\ \E id \in IF Known(p) THEN {page[p].id} ELSE NewIds :
       /\ page' = [page EXCEPT ![p] = [@ EXCEPT !.at = "joined", !.id = id, !.of = NoSession]]
       /\ user' = [user EXCEPT ![id] = [of |-> page[p].of, active |-> ~Known(p), idle |-> "recent"]]
  /\ UNCHANGED <<storeVars, taskVars, joins, edits, panicked, orderly>>

\* The user the page remembers is active again if the session knows it, which is
\* looked up first, and nobody else gives the session that user; else there is a
\* new user.
AddUser(p) ==
  /\ page[p].at = "adding"
  /\ \E id \in IF Known(p) THEN {page[p].id} ELSE NewIds :
       /\ page' = [page EXCEPT ![p] = [@ EXCEPT !.at = "joined", !.id = id, !.of = NoSession]]
       /\ user' = [user EXCEPT ![id] = [of |-> page[p].of, active |-> TRUE, idle |-> "recent"]]
  /\ UNCHANGED <<storeVars, taskVars, joins, edits, panicked, orderly>>

\* The page opens its connection: the session must be in the map, and the user
\* in the session, or the task panics.
OpenConnection(p) ==
  /\ page[p].at = "joined"
  /\ page' = [page EXCEPT ![p] = [@ EXCEPT !.of = registered,
                !.at = IF registered = NoSession THEN "away" ELSE "entering"]]
  /\ panicked' = (panicked \/ registered = NoSession)
  /\ UNCHANGED <<storeVars, user, taskVars, joins, edits, orderly>>

EnterSession(p) ==
  /\ page[p].at = "entering"
  /\ page' = IF Known(p) THEN [page EXCEPT ![p].at = "connected"] ELSE Gone(p)
  /\ panicked' = (panicked \/ ~Known(p))
  /\ UNCHANGED <<storeVars, user, taskVars, joins, edits, orderly>>

\* The page is closed between joining and connecting.
Abandon(p) ==
  /\ page[p].at = "joined"
  /\ page' = Gone(p)
  /\ UNCHANGED <<storeVars, user, taskVars, joins, edits, panicked, orderly>>

-----------------------------------------------------------------------------
(* A connection: handle_messages, which does nothing else during a check   *)

Attends(p) == p \in Connected \ Checking

Edit(p) ==
  /\ Attends(p)
  /\ edits < MaxEdits
  /\ edits' = edits + 1
  /\ text' = [text EXCEPT ![page[p].of] = @ \cup {edits + 1}]
  /\ UNCHANGED <<registered, stored, user, page, taskVars, joins, panicked, orderly>>

\* The task panics if the user of the page has been removed.
Answers(p, activity) ==
  /\ Attends(p)
  /\ user' = IF Known(p) THEN [user EXCEPT ![page[p].id] = activity] ELSE user
  /\ panicked' = (panicked \/ ~Known(p))

Pong(p) ==
  /\ Answers(p, [of |-> page[p].of, active |-> TRUE, idle |-> "recent"])
  /\ page' = IF Known(p) THEN page ELSE Gone(p)
  /\ UNCHANGED <<storeVars, taskVars, joins, edits, orderly>>

\* Fault: the last one to leave takes the session with them.
CloseLast(p) ==
  /\ Answers(p, [user[page[p].id] EXCEPT !.active = FALSE])
  /\ page' = Gone(p)
  /\ registered' = IF ActiveUsers(registered) = {page[p].id} THEN NoSession ELSE registered
  /\ UNCHANGED <<text, stored, taskVars, joins, edits, orderly>>

Close(p) ==
  /\ Answers(p, [user[page[p].id] EXCEPT !.active = FALSE])
  /\ page' = Gone(p)
  /\ UNCHANGED <<storeVars, taskVars, joins, edits, orderly>>

\* The connection fails: the user is not told off.
LoseConnection(p) ==
  /\ Attends(p)
  /\ page' = Gone(p)
  /\ UNCHANGED <<storeVars, user, taskVars, joins, edits, panicked, orderly>>

-----------------------------------------------------------------------------
(* Checks: mark_remove_inactive_users, in the background and by connections *)

IsConnected(i) == \E p \in Connected : page[p].id = i

\* Time passes without a pong.  Joining takes less than MARK_INACTIVE_USER_SEC,
\* and a connection less than REMOVE_INACTIVE_USERS_SEC to find itself late.
GetIdle(i) ==
  /\ user[i].of # NoSession
  /\ \A p \in Joining : page[p].id # i
  /\ \/ user[i].idle = "recent" /\ user' = [user EXCEPT ![i].idle = "late"]
     \/ /\ user[i].idle = "late"
        /\ ~IsConnected(i)
        /\ user' = [user EXCEPT ![i].idle = "long"]
  /\ UNCHANGED <<storeVars, page, taskVars, joins, edits, panicked, orderly>>

CollectIdle(c, s) ==
  LET late == {i \in UsersOf(s) : user[i].idle \in {"late", "long"}}
  IN /\ check[c].at = "asleep"
     /\ late # {}
     /\ check' = [check EXCEPT ![c] =
          [at |-> "checking", of |-> s, mark |-> late,
           remove |-> {i \in late : user[i].idle = "long"},
           self |-> c \in Pages /\ page[c].id \in late]]
     /\ Starts
     /\ UNCHANGED <<storeVars, user, page, archiver, joins, edits, panicked>>

StartCheck(c) == \/ c = Background /\ CollectIdle(c, registered)
                 \/ c \in Connected /\ CollectIdle(c, page[c].of)

\* One user after the other; the server is not locked in between.
MarkInactive(c, i) ==
  /\ check[c].at = "checking"
  /\ i \in check[c].mark \cap UsersOf(check[c].of)
  /\ user' = [user EXCEPT ![i].active = FALSE]
  /\ check' = [check EXCEPT ![c].mark = @ \ {i}]
  /\ orderly' = (orderly /\ \A p \in Connected : page[p].id = i => p = c)
  /\ UNCHANGED <<storeVars, page, archiver, joins, edits, panicked>>

RemoveUser(c, i) ==
  /\ check[c].at = "checking"
  /\ check[c].mark = {}
  /\ i \in check[c].remove \cap UsersOf(check[c].of)
  /\ user' = [user EXCEPT ![i].of = NoSession, ![i].active = FALSE]
  /\ check' = [check EXCEPT ![c].remove = @ \ {i}]
  /\ UNCHANGED <<storeVars, page, archiver, joins, edits, panicked, orderly>>

\* A user to mark or remove has been removed by somebody else: the unwrap panics,
\* and the task is no more, in the background for good.
CheckPanics(c) ==
  /\ check[c].at = "checking"
  /\ \E i \in IF check[c].mark # {} THEN check[c].mark ELSE check[c].remove :
        i \notin UsersOf(check[c].of)
  /\ panicked' = TRUE
  /\ check' = [check EXCEPT ![c] = [NotChecking EXCEPT
                 !.at = IF c = Background THEN "dead" ELSE "asleep"]]
  /\ page' = IF c \in Pages THEN Gone(c) ELSE page
  /\ UNCHANGED <<storeVars, user, archiver, joins, edits, orderly>>

\* A connection that has found itself late ends.
EndCheck(c) ==
  /\ check[c].at = "checking"
  /\ check[c].mark = {} /\ check[c].remove = {}
  /\ check' = [check EXCEPT ![c] = NotChecking]
  /\ page' = IF c \in Pages /\ check[c].self THEN Gone(c) ELSE page
  /\ UNCHANGED <<storeVars, user, archiver, joins, edits, panicked, orderly>>

-----------------------------------------------------------------------------
(* Archiving: archive_remove_empty_sessions                                *)

\* Fault: a session without any users is not looked at.
CollectAbandoned ==
  /\ archiver = "asleep"
  /\ registered # NoSession
  /\ UsersOf(registered) # {}
  /\ ActiveUsers(registered) = {}
  /\ archiver' = "archiving"
  /\ Starts
  /\ UNCHANGED <<storeVars, user, page, check, joins, edits, panicked>>

\* The session has no active users.
CollectEmpty ==
  /\ archiver = "asleep"
  /\ registered # NoSession
  /\ ActiveUsers(registered) = {}
  /\ archiver' = "archiving"
  /\ Starts
  /\ UNCHANGED <<storeVars, user, page, check, joins, edits, panicked>>

\* Whatever session the map has now is archived, and then whatever it has is
\* removed.
ArchiveDocument ==
  /\ archiver = "archiving"
  /\ registered # NoSession
  /\ archiver' = "removing"
  /\ stored' = text[registered]
  /\ UNCHANGED <<registered, text, user, page, check, joins, edits, panicked, orderly>>

RemoveSession ==
  /\ archiver = "removing"
  /\ MapWritable
  /\ archiver' = "asleep"
  /\ registered' = NoSession
  /\ UNCHANGED <<text, stored, user, page, check, joins, edits, panicked, orderly>>

Archive == CollectEmpty \/ ArchiveDocument \/ RemoveSession

-----------------------------------------------------------------------------
Join(p) == \/ FindSession(p)
           \/ ContainsKey(p)
           \/ InsertSession(p)
           \/ GetSession(p)
           \/ ReadDocument(p)
           \/ StoreDocument(p)
           \/ AddUser(p)
           \/ OpenConnection(p)
           \/ EnterSession(p)

Serve(p) == \/ Edit(p)
            \/ Pong(p)
            \/ Close(p)
            \/ LoseConnection(p)

Proceed(c) == \/ \E i \in UserIds : MarkInactive(c, i) \/ RemoveUser(c, i)
              \/ CheckPanics(c)
              \/ EndCheck(c)

Next == \/ \E p \in Pages : ReadRow(p) \/ Join(p) \/ Abandon(p) \/ Serve(p)
        \/ \E i \in UserIds : GetIdle(i)
        \/ \E c \in Checkers : StartCheck(c) \/ Proceed(c)
        \/ Archive

Spec == Init /\ [][Next]_vars

\* The runtime runs every task that can run, the tasks in the background come
\* round again, and users who are away get idle.
Fairness == /\ \A p \in Pages : WF_vars(Join(p))
            /\ \A c \in Checkers : WF_vars(Proceed(c))
            /\ WF_vars(StartCheck(Background))
            /\ \A i \in UserIds : WF_vars(~IsConnected(i) /\ GetIdle(i))
            /\ WF_vars(Archive)

FairSpec == Spec /\ Fairness

-----------------------------------------------------------------------------
(* Properties                                                              *)

\* What the archiver has found in the map is there when it comes back to archive
\* it (the unwrap in archive_remove_empty_sessions does not panic): whatever else
\* goes on, nobody else takes a session out of the map.
ArchiverFindsSession == archiver # "asleep" => registered # NoSession

\* What the documentation says of archiving, and the code does not do: the text
\* of a session is kept.  Every edit ever made is in what the next one to open
\* the session will find.
TextSurvives == 1..edits \subseteq Served

\* Connected pages are served by the session others will join, and their users
\* are in it.
ConnectionsAreServed ==
  \A p \in Connected : page[p].of = registered /\ page[p].id \in UsersOf(registered)

\* As long as joins, checks and archiving come one after the other, each of them
\* keeps the text of the session and the connections to it, and no task panics.
OrderlyIsSafe == orderly => TextSurvives /\ ConnectionsAreServed /\ ~panicked

\* A session that everybody has left is archived in the end, however they left
\* and whatever has raced before, unless the check in the background has died.
LeftIsArchived ==
  <>[](Joining \cup Connected = {} /\ check[Background].at # "dead")
    => <>[](registered = NoSession)

-----------------------------------------------------------------------------
(* The inductive invariant: TypeOK, ArchiverFindsSession and these          *)

\* A page that works on a session has one that was made, and one that restores a
\* session has its document.
HeldInv ==
  \A p \in Pages :
    /\ page[p].at \in {"reading", "storing", "adding", "entering", "connected"}
         => page[p].of \in Made
    /\ page[p].at \in {"restoring", "registeringRow"} => page[p].row # NoRow

\* No two pages have one user, and an id in use has been given out.
IdsInv ==
  /\ \A p \in Pages : page[p].id # NoUser => user[page[p].id].idle # "unknown"
  /\ \A p, q \in Pages : page[p].id = page[q].id /\ page[p].id # NoUser => p = q
  /\ \A i \in UserIds : user[i].of # NoSession => user[i].idle # "unknown"

\* One procedure at a time.
OneProcedure ==
  /\ \A p, q \in Joining : p = q
  /\ \A c, d \in Checking : c = d
  /\ Joining # {} => Checking = {} /\ archiver = "asleep"
  /\ Checking # {} => archiver = "asleep"

\* What a join has read is still so.
JoinInv(p) ==
  LET at == page[p].at
      row == page[p].row
  IN /\ at \in {"finding", "restoring", "registeringRow"} => row = stored
     /\ at = "creating" => registered # NoSession \/ stored = NoRow
     /\ at \in {"restoring", "registeringRow", "registeringNew"} => registered = NoSession
     /\ at = "registeringNew" => stored = NoRow
     /\ at \in {"getting", "reading", "storing", "adding", "joined", "entering"}
          => registered # NoSession
     /\ at \in {"reading", "storing", "adding", "entering"} => page[p].of = registered
     /\ at \in {"joined", "entering"} =>
          /\ page[p].id \in ActiveUsers(registered)
          /\ user[page[p].id].idle = "recent"

\* A connected user is in the session, and active unless its own connection has
\* found it late and is about to end.
ConnectionInv(p) ==
  /\ page[p].of = registered
  /\ page[p].id \in UsersOf(registered)
  /\ user[page[p].id].idle # "long"
  /\ user[page[p].id].active \/ (p \in Checking /\ check[p].self)

\* The users a check has still to mark and remove are in the session, those to
\* remove are not connected, and a connection knows whether it is late itself.
CheckInv(c) ==
  /\ check[c].mark \cup check[c].remove \subseteq UsersOf(check[c].of)
  /\ \A p \in Connected : page[p].id \notin check[c].remove
  /\ c \in Connected /\ page[c].id \in check[c].mark => check[c].self

\* Nobody is connected to a session that is archived, and it is archived before
\* it is removed.
ArchiveInv ==
  /\ archiver # "asleep" => Connected = {}
  /\ archiver = "removing" => stored = text[registered]

Order == /\ OneProcedure
         /\ \A p \in Joining : JoinInv(p)
         /\ \A p \in Connected : ConnectionInv(p)
         /\ \A c \in Checking : CheckInv(c)
         /\ ArchiveInv
         /\ TextSurvives
         /\ ~panicked

OrderInv == orderly => Order

IInv == TypeOK /\ ArchiverFindsSession /\ HeldInv /\ IdsInv /\ OrderInv
=============================================================================
