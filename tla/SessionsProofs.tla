--------------------------- MODULE SessionsProofs ---------------------------
(***************************************************************************)
(* What joining, checking and archiving guarantee, for any pages, users,   *)
(* joins and edits.                                                        *)
(***************************************************************************)
EXTENDS Sessions, SequenceTheorems, TLAPS

\* The initial states satisfy the invariant.
LEMMA InitInv == Init => IInv
<1> SUFFICES ASSUME Init PROVE IInv
  OBVIOUS
<1> USE SessionsAssumption DEF Init
<1>1. TypeOK
  <2>1. text \in Seq(SUBSET Edits) /\ Len(text) = 0
    OBVIOUS
  <2>2. user \in [UserIds -> User]
    BY DEF User, NoSession
  <2>3. page \in [Pages -> Page]
    BY DEF Page, Row, NoSession
  <2>4. check \in [Checkers -> Check]
    BY DEF Check, NotChecking, NoSession
  <2>5. panicked \in BOOLEAN /\ orderly \in BOOLEAN
    BY Zenon
  <2>6. registered \in {NoSession} \cup Made /\ stored \in Row /\ archiver = "asleep"
        /\ joins \in 0..MaxJoins /\ edits \in 0..MaxEdits
    BY DEF Row
  <2> QED BY <2>1, <2>2, <2>3, <2>4, <2>5, <2>6, Zenon DEF TypeOK
<1>2. ArchiverFindsSession /\ HeldInv /\ IdsInv
  BY DEF ArchiverFindsSession, HeldInv, IdsInv, NoSession
<1>3. Order
  <2>1. Joining = {} /\ Connected = {} /\ Checking = {}
    BY DEF Joining, Connected, Checking, JoinState, NotChecking
  <2>2. TextSurvives
    <3>1. 1..edits = {}
      OBVIOUS
    <3> QED BY <3>1 DEF TextSurvives
  <2> QED BY <2>1, <2>2 DEF Order, OneProcedure, ArchiveInv
<1> QED BY <1>1, <1>2, <1>3 DEF IInv, OrderInv

-----------------------------------------------------------------------------
(* Types                                                                   *)


\* A page whose state changes; a page with nothing but its id; a page with one
\* of the rows there are.
LEMMA PageFields ==
  ASSUME TypeOK, NEW p \in Pages
  PROVE  /\ \A at \in {"away", "connected"} \cup JoinState :
               [page EXCEPT ![p].at = at] \in [Pages -> Page]
         /\ Gone(p) \in [Pages -> Page]
         /\ \A at \in {"away", "connected"} \cup JoinState, row \in Row :
               [page EXCEPT ![p] = [@ EXCEPT !.at = at, !.row = row]] \in [Pages -> Page]
<1>1. page \in [Pages -> Page] /\ NoRow \in Row /\ NoSession \in Nat
  BY DEF TypeOK, Row, NoSession
<1> QED BY <1>1 DEF Page, Gone

\* The same for users and checks.
LEMMA UserFields ==
  ASSUME TypeOK, NEW i \in UserIds
  PROVE  /\ \A b \in BOOLEAN : [user EXCEPT ![i].active = b] \in [UserIds -> User]
         /\ \A idle \in {"recent", "late", "long"} :
               [user EXCEPT ![i].idle = idle] \in [UserIds -> User]
         /\ \A of \in Nat :
               [user EXCEPT ![i] = [of |-> of, active |-> TRUE, idle |-> "recent"]]
                 \in [UserIds -> User]
<1>1. user \in [UserIds -> User]
  BY DEF TypeOK
<1> QED BY <1>1 DEF User

LEMMA CheckFields ==
  ASSUME TypeOK, NEW c \in Checkers
  PROVE  /\ [check EXCEPT ![c] = NotChecking] \in [Checkers -> Check]
         /\ \A i \in UserIds : /\ [check EXCEPT ![c].mark = @ \ {i}] \in [Checkers -> Check]
                               /\ [check EXCEPT ![c].remove = @ \ {i}] \in [Checkers -> Check]
<1>1. check \in [Checkers -> Check]
  BY DEF TypeOK
<1> QED BY <1>1 DEF Check, NotChecking, NoSession

\* Every action keeps the types of the variables.
LEMMA TypeStep == TypeOK /\ HeldInv /\ [Next]_vars => TypeOK'
<1> SUFFICES ASSUME TypeOK, HeldInv, [Next]_vars PROVE TypeOK'
  OBVIOUS
<1> USE SessionsAssumption DEF storeVars, taskVars
<1>typ. /\ registered \in {NoSession} \cup Made /\ text \in Seq(SUBSET Edits)
        /\ stored \in Row /\ user \in [UserIds -> User] /\ page \in [Pages -> Page]
        /\ check \in [Checkers -> Check] /\ edits \in 0..MaxEdits
  BY DEF TypeOK
<1>1. ASSUME NEW p \in Pages, ReadRow(p) PROVE TypeOK'
  <2>1. page' \in [Pages -> Page]
    BY <1>typ, <1>1, PageFields DEF ReadRow, JoinState
  <2> QED BY <1>1, <2>1 DEF ReadRow, Starts, Made, TypeOK
<1>2. ASSUME NEW p \in Pages, FindSession(p) PROVE TypeOK'
  <2>1. page' \in [Pages -> Page]
    BY <1>typ, <1>2, PageFields DEF FindSession, Goes, JoinState
  <2> QED BY <1>2, <2>1 DEF FindSession, Made, TypeOK
<1>3. ASSUME NEW p \in Pages, ContainsKey(p) PROVE TypeOK'
  <2>1. page' \in [Pages -> Page]
    <3>1. PICK at \in JoinState : Goes(p, page[p].at, at)
      BY <1>typ, <1>3 DEF ContainsKey, Goes, JoinState
    <3> QED BY <3>1, PageFields DEF Goes
  <2> QED BY <1>3, <2>1 DEF ContainsKey, Made, TypeOK
<1>4. ASSUME NEW p \in Pages, InsertSession(p) PROVE TypeOK'
  <2>1. page' \in [Pages -> Page]
    <3>1. page' = [page EXCEPT ![p].at = "getting"]
      BY <1>4 DEF InsertSession, Goes
    <3> QED BY <3>1, PageFields DEF JoinState
  <2>2. page[p].at = "registeringRow" => page[p].row \in SUBSET Edits
    BY <1>typ DEF HeldInv, Page, Row
  <2>3. PICK doc \in SUBSET Edits : Register(doc)
    BY <1>typ, <1>4, <2>2 DEF InsertSession, Goes
  <2>4. text' \in Seq(SUBSET Edits) /\ registered' = Len(text')
    BY <1>typ, <2>3 DEF Register
  <2>5. Len(text') = Len(text) + 1
    BY <1>typ, <2>3 DEF Register
  <2>6. registered' \in Made'
    BY <2>4, <2>5 DEF Made
  <2> QED BY <1>4, <2>1, <2>3, <2>4, <2>6 DEF InsertSession, Register, TypeOK
<1>5. ASSUME NEW p \in Pages, GetSession(p) PROVE TypeOK'
  <2>1. page' \in [Pages -> Page]
    <3>1. registered \in Nat
      BY <1>typ DEF Made, NoSession
    <3>2. PICK at \in {"away", "reading"} :
            page' = [page EXCEPT ![p] = [@ EXCEPT !.of = registered, !.row = NoRow, !.at = at]]
      BY <1>5 DEF GetSession
    <3> QED BY <1>typ, <3>1, <3>2 DEF JoinState, Page, Row
  <2> QED BY <1>5, <2>1 DEF GetSession, Made, TypeOK
<1>6. ASSUME NEW p \in Pages, ReadDocument(p) PROVE TypeOK'
  <2>1. page[p].of \in 1..Len(text)
    BY <1>typ, <1>6 DEF ReadDocument, HeldInv, Made
  <2>2. text[page[p].of] \in SUBSET Edits
    BY <1>typ, <2>1, ElementOfSeq
  <2>3. text[page[p].of] \in Row
    BY <2>2 DEF Row
  <2>4. page' \in [Pages -> Page]
    BY <1>typ, <1>6, <2>3, PageFields DEF ReadDocument, JoinState
  <2> QED BY <1>6, <2>4 DEF ReadDocument, Made, TypeOK
<1>7. ASSUME NEW p \in Pages, StoreDocument(p) PROVE TypeOK'
  <2>1. page' \in [Pages -> Page]
    BY <1>typ, <1>7, PageFields DEF StoreDocument, JoinState, Row
  <2>2. stored' \in Row
    BY <1>typ, <1>7 DEF StoreDocument, Page
  <2> QED BY <1>7, <2>1, <2>2 DEF StoreDocument, Made, TypeOK
<1>8. ASSUME NEW p \in Pages, AddUser(p) PROVE TypeOK'
  <2>1. PICK id \in UserIds :
          /\ page' = [page EXCEPT ![p] = [@ EXCEPT !.at = "joined", !.id = id, !.of = NoSession]]
          /\ user' = [user EXCEPT ![id] = [of |-> page[p].of, active |-> TRUE, idle |-> "recent"]]
    BY <1>8 DEF AddUser, NewIds, Known, UsersOf
  <2>2. page' \in [Pages -> Page]
    BY <1>typ, <2>1 DEF JoinState, Page, NoSession
  <2>3. user' \in [UserIds -> User]
    BY <1>typ, <2>1, UserFields DEF Page
  <2> QED BY <1>8, <2>2, <2>3 DEF AddUser, Made, TypeOK
<1>9. ASSUME NEW p \in Pages, OpenConnection(p) PROVE TypeOK'
  <2>1. page' \in [Pages -> Page]
    <3>1. registered \in Nat
      BY <1>typ DEF Made, NoSession
    <3>2. PICK at \in {"away", "entering"} :
            page' = [page EXCEPT ![p] = [@ EXCEPT !.of = registered, !.at = at]]
      BY <1>9 DEF OpenConnection
    <3> QED BY <1>typ, <3>1, <3>2 DEF JoinState, Page
  <2> QED BY <1>9, <2>1 DEF OpenConnection, Made, TypeOK
<1>10. ASSUME NEW p \in Pages, EnterSession(p) PROVE TypeOK'
  <2>1. page' \in [Pages -> Page]
    BY <1>typ, <1>10, PageFields DEF EnterSession
  <2> QED BY <1>10, <2>1 DEF EnterSession, Made, TypeOK
<1>11. ASSUME NEW p \in Pages, Abandon(p) PROVE TypeOK'
  BY <1>11, PageFields DEF Abandon, Made, TypeOK
<1>12. ASSUME NEW p \in Pages, Edit(p) PROVE TypeOK'
  <2>1. edits + 1 \in Edits
    BY <1>typ, <1>12 DEF Edit, Edits
  <2>2. page[p].of \in 1..Len(text)
    BY <1>12 DEF Edit, Attends, Connected, HeldInv, Made
  <2>3. text[page[p].of] \cup {edits + 1} \in SUBSET Edits
    BY <1>typ, <2>1, <2>2, ElementOfSeq
  <2>4. text' \in Seq(SUBSET Edits) /\ Len(text') = Len(text)
    BY <1>typ, <1>12, <2>2, <2>3, ExceptSeq DEF Edit
  <2> QED BY <1>12, <2>1, <2>4 DEF Edit, Edits, Made, TypeOK
<1>13. ASSUME NEW p \in Pages, Pong(p) PROVE TypeOK'
  <2>1. page' \in [Pages -> Page]
    BY <1>typ, <1>13, PageFields DEF Pong
  <2>2. user' \in [UserIds -> User]
    BY <1>typ, <1>13 DEF Pong, Answers, Known, UsersOf, Page, User
  <2> QED BY <1>13, <2>1, <2>2 DEF Pong, Answers, Made, TypeOK
<1>14. ASSUME NEW p \in Pages, Close(p) PROVE TypeOK'
  <2>1. page' \in [Pages -> Page]
    BY <1>typ, <1>14, PageFields DEF Close
  <2>2. user' \in [UserIds -> User]
    BY <1>typ, <1>14, UserFields DEF Close, Answers, Known, UsersOf
  <2> QED BY <1>14, <2>1, <2>2 DEF Close, Answers, Made, TypeOK
<1>15. ASSUME NEW p \in Pages, LoseConnection(p) PROVE TypeOK'
  BY <1>15, PageFields DEF LoseConnection, Made, TypeOK
<1>16. ASSUME NEW i \in UserIds, GetIdle(i) PROVE TypeOK'
  <2>1. user' \in [UserIds -> User]
    <3>1. \/ user' = [user EXCEPT ![i].idle = "late"]
          \/ user' = [user EXCEPT ![i].idle = "long"]
      BY <1>16 DEF GetIdle
    <3> QED BY <3>1, UserFields
  <2> QED BY <1>16, <2>1 DEF GetIdle, Made, TypeOK
<1>17. ASSUME NEW c \in Checkers, StartCheck(c) PROVE TypeOK'
  <2>1. PICK s \in Nat : CollectIdle(c, s)
    BY <1>typ, <1>17 DEF StartCheck, Connected, Made, NoSession, Page
  <2>2. check' \in [Checkers -> Check]
    BY <1>typ, <2>1 DEF CollectIdle, Check, UsersOf
  <2> QED BY <2>1, <2>2 DEF CollectIdle, Starts, Made, TypeOK
<1>18. ASSUME NEW c \in Checkers, NEW i \in UserIds, MarkInactive(c, i) PROVE TypeOK'
  <2>1. user' \in [UserIds -> User]
    BY <1>typ, <1>18 DEF MarkInactive, User
  <2>2. check' \in [Checkers -> Check]
    BY <1>typ, <1>18 DEF MarkInactive, Check
  <2> QED BY <1>18, <2>1, <2>2 DEF MarkInactive, Made, TypeOK
<1>19. ASSUME NEW c \in Checkers, NEW i \in UserIds, RemoveUser(c, i) PROVE TypeOK'
  <2>1. user' \in [UserIds -> User]
    BY <1>typ, <1>19 DEF RemoveUser, User, NoSession
  <2>2. check' \in [Checkers -> Check]
    BY <1>typ, <1>19 DEF RemoveUser, Check
  <2> QED BY <1>19, <2>1, <2>2 DEF RemoveUser, Made, TypeOK
<1>20. ASSUME NEW c \in Checkers, CheckPanics(c) PROVE TypeOK'
  <2>1. page' \in [Pages -> Page]
    BY <1>typ, <1>20, PageFields DEF CheckPanics
  <2>2. check' \in [Checkers -> Check]
    BY <1>typ, <1>20 DEF CheckPanics, Check, NotChecking, NoSession
  <2> QED BY <1>20, <2>1, <2>2 DEF CheckPanics, Made, TypeOK
<1>21. ASSUME NEW c \in Checkers, EndCheck(c) PROVE TypeOK'
  <2>1. page' \in [Pages -> Page]
    BY <1>typ, <1>21, PageFields DEF EndCheck
  <2>2. check' \in [Checkers -> Check]
    BY <1>typ, <1>21 DEF EndCheck, Check, NotChecking, NoSession
  <2> QED BY <1>21, <2>1, <2>2 DEF EndCheck, Made, TypeOK
<1>22. CASE Archive
  <2>1. stored' \in Row
    BY <1>typ, <1>22 DEF Archive, CollectEmpty, ArchiveDocument, RemoveSession, Made, Row
  <2> QED BY <1>22, <2>1 DEF Archive, CollectEmpty, ArchiveDocument, RemoveSession, Starts, Made, TypeOK
<1>23. CASE UNCHANGED vars
  BY <1>23 DEF vars, Made, TypeOK
<1> QED
  BY <1>1, <1>2, <1>3, <1>4, <1>5, <1>6, <1>7, <1>8, <1>9, <1>10, <1>11, <1>12, <1>13,
     <1>14, <1>15, <1>16, <1>17, <1>18, <1>19, <1>20, <1>21, <1>22, <1>23
     DEF Next, Join, Serve, Proceed

-----------------------------------------------------------------------------
(* The archiver, sessions in use and user ids                              *)

\* Nobody else takes a session out of the map.
LEMMA ArchiverStep ==
  TypeOK /\ ArchiverFindsSession /\ [Next]_vars => ArchiverFindsSession'
<1> SUFFICES ASSUME TypeOK, ArchiverFindsSession, [Next]_vars PROVE ArchiverFindsSession'
  OBVIOUS
<1> USE DEF ArchiverFindsSession, storeVars, taskVars
<1>1. ASSUME NEW p \in Pages, InsertSession(p) PROVE ArchiverFindsSession'
  <2>1. registered' = Len(text) + 1
    BY <1>1 DEF InsertSession, Register
  <2> QED BY <2>1, LenProperties DEF NoSession, TypeOK
<1>2. ASSUME NEW p \in Pages, ReadRow(p) \/ FindSession(p) \/ ContainsKey(p) \/ GetSession(p)
                             \/ ReadDocument(p) \/ StoreDocument(p) \/ AddUser(p)
      PROVE  ArchiverFindsSession'
  BY <1>2 DEF ReadRow, FindSession, ContainsKey, GetSession, ReadDocument, StoreDocument, AddUser
<1>3. ASSUME NEW p \in Pages, OpenConnection(p) \/ EnterSession(p) \/ Abandon(p) \/ Serve(p)
      PROVE  ArchiverFindsSession'
  BY <1>3 DEF OpenConnection, EnterSession, Abandon, Serve, Edit, Pong, Close, LoseConnection
<1>4. ASSUME NEW i \in UserIds, GetIdle(i) PROVE ArchiverFindsSession'
  BY <1>4 DEF GetIdle
<1>5. ASSUME NEW c \in Checkers, StartCheck(c) \/ Proceed(c) PROVE ArchiverFindsSession'
  BY <1>5 DEF StartCheck, CollectIdle, Proceed, MarkInactive, RemoveUser, CheckPanics, EndCheck
<1>6. CASE Archive
  BY <1>6 DEF Archive, CollectEmpty, ArchiveDocument, RemoveSession
<1>7. CASE UNCHANGED vars
  BY <1>7 DEF vars
<1> QED BY <1>1, <1>2, <1>3, <1>4, <1>5, <1>6, <1>7 DEF Next, Join

\* Sessions that were made stay made.
LEMMA MadeStep == TypeOK /\ HeldInv /\ [Next]_vars => Made \subseteq Made'
<1> SUFFICES ASSUME TypeOK, HeldInv, [Next]_vars PROVE Made \subseteq Made'
  OBVIOUS
<1> USE DEF storeVars, taskVars
<1>1. ASSUME NEW p \in Pages, InsertSession(p) PROVE Made \subseteq Made'
  <2>1. PICK doc \in Row : text' = Append(text, doc)
    BY <1>1 DEF InsertSession, Register, TypeOK, Page, Row
  <2>2. text \in Seq(Row)
    BY DEF TypeOK, Row
  <2> QED BY <2>1, <2>2 DEF Made
<1>2. ASSUME NEW p \in Pages, Edit(p) PROVE Made \subseteq Made'
  <2>1. Len(text') = Len(text) \/ DOMAIN text' = DOMAIN text
    BY <1>2 DEF Edit
  <2>2. text \in Seq(SUBSET Edits) /\ text' \in Seq(SUBSET Edits)
    BY TypeStep DEF TypeOK
  <2> QED BY <2>1, <2>2 DEF Made
<1>3. UNCHANGED text \/ (\E p \in Pages : InsertSession(p) \/ Edit(p))
  <2>1. ASSUME NEW p \in Pages, ReadRow(p) \/ FindSession(p) \/ ContainsKey(p) \/ GetSession(p)
                   \/ ReadDocument(p) \/ StoreDocument(p) \/ AddUser(p) \/ OpenConnection(p)
        PROVE  UNCHANGED text
    BY <2>1 DEF ReadRow, FindSession, ContainsKey, GetSession, ReadDocument, StoreDocument,
                AddUser, OpenConnection
  <2>2. ASSUME NEW p \in Pages, EnterSession(p) \/ Abandon(p) \/ Pong(p) \/ Close(p)
                                \/ LoseConnection(p)
        PROVE  UNCHANGED text
    BY <2>2 DEF EnterSession, Abandon, Pong, Close, LoseConnection
  <2>3. ASSUME NEW i \in UserIds, GetIdle(i) PROVE UNCHANGED text
    BY <2>3 DEF GetIdle
  <2>4. ASSUME NEW c \in Checkers, StartCheck(c) \/ Proceed(c) PROVE UNCHANGED text
    BY <2>4 DEF StartCheck, CollectIdle, Proceed, MarkInactive, RemoveUser, CheckPanics, EndCheck
  <2>5. CASE Archive
    BY <2>5 DEF Archive, CollectEmpty, ArchiveDocument, RemoveSession
  <2>6. CASE UNCHANGED vars
    BY <2>6 DEF vars
  <2> QED BY <2>1, <2>2, <2>3, <2>4, <2>5, <2>6 DEF Next, Join, Serve
<1> QED BY <1>1, <1>2, <1>3 DEF Made

-----------------------------------------------------------------------------
(* What actions do to pages, users and checks, field by field              *)

Becomes(p, at, id, of, row) ==
  /\ \A q \in Pages : q # p => page'[q] = page[q]
  /\ page'[p].at = at
  /\ page'[p].id = id
  /\ page'[p].of = of
  /\ page'[p].row = row

UserBecomes(i, of, active, idle) ==
  /\ \A j \in UserIds : j # i => user'[j] = user[j]
  /\ user'[i].of = of
  /\ user'[i].active = active
  /\ user'[i].idle = idle

CheckBecomes(c, at, of, mark, remove, self) ==
  /\ \A d \in Checkers : d # c => check'[d] = check[d]
  /\ check'[c].at = at
  /\ check'[c].of = of
  /\ check'[c].mark = mark
  /\ check'[c].remove = remove
  /\ check'[c].self = self

\* A page that goes from one step to another.
LEMMA GoesEffect ==
  ASSUME TypeOK, NEW p \in Pages, NEW from, NEW to, Goes(p, from, to)
  PROVE  page[p].at = from /\ Becomes(p, to, page[p].id, page[p].of, page[p].row)
<1>1. page \in [Pages -> Page]
  BY DEF TypeOK
<1> QED BY <1>1 DEF Goes, Becomes, Page

\* A page that has lost its connection.
LEMMA GoneEffect ==
  ASSUME TypeOK, NEW p \in Pages, page' = Gone(p)
  PROVE  Becomes(p, "away", page[p].id, NoSession, NoRow)
<1>1. page \in [Pages -> Page]
  BY DEF TypeOK
<1> QED BY <1>1 DEF Gone, Becomes, Page

\* The steps of joining.
LEMMA ReadRowEffect ==
  ASSUME TypeOK, NEW p \in Pages, ReadRow(p)
  PROVE  Becomes(p, "finding", page[p].id, page[p].of, stored)
<1>1. page \in [Pages -> Page]
  BY DEF TypeOK
<1> QED BY <1>1 DEF ReadRow, Becomes, Page

LEMMA GetSessionEffect ==
  ASSUME TypeOK, NEW p \in Pages, GetSession(p)
  PROVE  Becomes(p, IF registered = NoSession THEN "away" ELSE "reading", page[p].id,
                 registered, NoRow)
<1>1. page \in [Pages -> Page]
  BY DEF TypeOK
<1> QED BY <1>1 DEF GetSession, Becomes, Page

LEMMA ReadDocumentEffect ==
  ASSUME TypeOK, NEW p \in Pages, ReadDocument(p)
  PROVE  Becomes(p, "storing", page[p].id, page[p].of, text[page[p].of])
<1>1. page \in [Pages -> Page]
  BY DEF TypeOK
<1> QED BY <1>1 DEF ReadDocument, Becomes, Page

LEMMA StoreDocumentEffect ==
  ASSUME TypeOK, NEW p \in Pages, StoreDocument(p)
  PROVE  Becomes(p, "adding", page[p].id, page[p].of, NoRow)
<1>1. page \in [Pages -> Page]
  BY DEF TypeOK
<1> QED BY <1>1 DEF StoreDocument, Becomes, Page

LEMMA AddUserEffect ==
  ASSUME TypeOK, NEW p \in Pages, AddUser(p)
  PROVE  \E id \in UserIds :
            /\ \/ id = page[p].id /\ user[id].of = page[p].of /\ page[p].of # NoSession
               \/ user[id].idle = "unknown"
            /\ Becomes(p, "joined", id, NoSession, page[p].row)
            /\ UserBecomes(id, page[p].of, TRUE, "recent")
<1>1. page \in [Pages -> Page] /\ user \in [UserIds -> User]
  BY DEF TypeOK
<1>2. PICK id \in UserIds :
        /\ page' = [page EXCEPT ![p] = [@ EXCEPT !.at = "joined", !.id = id, !.of = NoSession]]
        /\ user' = [user EXCEPT ![id] = [of |-> page[p].of, active |-> TRUE, idle |-> "recent"]]
        /\ \/ id = page[p].id /\ page[p].id \in UsersOf(page[p].of)
           \/ user[id].idle = "unknown"
  BY DEF AddUser, NewIds, Known, UsersOf
<1> QED BY <1>1, <1>2 DEF Becomes, UserBecomes, UsersOf, Page, User

LEMMA OpenConnectionEffect ==
  ASSUME TypeOK, NEW p \in Pages, OpenConnection(p)
  PROVE  Becomes(p, IF registered = NoSession THEN "away" ELSE "entering", page[p].id,
                 registered, page[p].row)
<1>1. page \in [Pages -> Page]
  BY DEF TypeOK
<1> QED BY <1>1 DEF OpenConnection, Becomes, Page

LEMMA EnterSessionEffect ==
  ASSUME TypeOK, NEW p \in Pages, EnterSession(p)
  PROVE  IF Known(p) THEN Becomes(p, "connected", page[p].id, page[p].of, page[p].row)
                     ELSE Becomes(p, "away", page[p].id, NoSession, NoRow)
<1>1. page \in [Pages -> Page]
  BY DEF TypeOK
<1>2. CASE ~Known(p)
  BY <1>2, GoneEffect DEF EnterSession
<1>3. CASE Known(p)
  BY <1>1, <1>3 DEF EnterSession, Becomes, Page
<1> QED BY <1>2, <1>3

\* The connection of a page.
LEMMA PongEffect ==
  ASSUME TypeOK, NEW p \in Pages, Pong(p)
  PROVE  IF Known(p) THEN UserBecomes(page[p].id, page[p].of, TRUE, "recent") /\ UNCHANGED page
         ELSE UNCHANGED user /\ Becomes(p, "away", page[p].id, NoSession, NoRow)
<1>1. user \in [UserIds -> User]
  BY DEF TypeOK
<1>2. CASE ~Known(p)
  BY <1>2, GoneEffect DEF Pong, Answers
<1>3. CASE Known(p)
  BY <1>1, <1>3 DEF Pong, Answers, UserBecomes, Known, UsersOf, User
<1> QED BY <1>2, <1>3

LEMMA CloseEffect ==
  ASSUME TypeOK, NEW p \in Pages, Close(p)
  PROVE  /\ Becomes(p, "away", page[p].id, NoSession, NoRow)
         /\ IF Known(p) THEN UserBecomes(page[p].id, page[p].of, FALSE, user[page[p].id].idle)
                        ELSE UNCHANGED user
<1>1. user \in [UserIds -> User]
  BY DEF TypeOK
<1>2. Becomes(p, "away", page[p].id, NoSession, NoRow)
  BY GoneEffect DEF Close
<1>3. CASE Known(p)
  <2>1. page[p].id \in UserIds /\ user[page[p].id].of = page[p].of
    BY <1>3 DEF Known, UsersOf
  <2>2. user' = [user EXCEPT ![page[p].id] = [@ EXCEPT !.active = FALSE]]
    BY <1>3 DEF Close, Answers
  <2> QED BY <1>1, <1>2, <1>3, <2>1, <2>2 DEF UserBecomes, User
<1> QED BY <1>2, <1>3 DEF Close, Answers

\* Time and checks.
LEMMA GetIdleEffect ==
  ASSUME TypeOK, NEW i \in UserIds, GetIdle(i)
  PROVE  \E idle \in {"late", "long"} :
            /\ UserBecomes(i, user[i].of, user[i].active, idle)
            /\ idle = "long" => ~IsConnected(i)
<1>1. user \in [UserIds -> User]
  BY DEF TypeOK
<1>2. CASE user' = [user EXCEPT ![i].idle = "late"]
  BY <1>1, <1>2 DEF UserBecomes, User
<1>3. CASE user' = [user EXCEPT ![i].idle = "long"] /\ ~IsConnected(i)
  BY <1>1, <1>3 DEF UserBecomes, User
<1> QED BY <1>2, <1>3 DEF GetIdle

LEMMA CollectIdleEffect ==
  ASSUME TypeOK, NEW c \in Checkers, NEW s, CollectIdle(c, s)
  PROVE  \E mark, remove \in SUBSET UsersOf(s) :
            /\ CheckBecomes(c, "checking", s, mark, remove, c \in Pages /\ page[c].id \in mark)
            /\ \A i \in remove : user[i].idle = "long"
<1>1. check \in [Checkers -> Check]
  BY DEF TypeOK
<1> DEFINE late == {i \in UsersOf(s) : user[i].idle \in {"late", "long"}}
           long == {i \in late : user[i].idle = "long"}
<1>2. check' = [check EXCEPT ![c] = [at |-> "checking", of |-> s, mark |-> late, remove |-> long,
                                     self |-> c \in Pages /\ page[c].id \in late]]
  BY DEF CollectIdle
<1>3. CheckBecomes(c, "checking", s, late, long, c \in Pages /\ page[c].id \in late)
  <2> HIDE DEF late, long
  <2> QED BY <1>1, <1>2 DEF CheckBecomes
<1>4. late \in SUBSET UsersOf(s) /\ long \in SUBSET UsersOf(s)
  OBVIOUS
<1> QED BY <1>3, <1>4

LEMMA MarkInactiveEffect ==
  ASSUME TypeOK, NEW c \in Checkers, NEW i \in UserIds, MarkInactive(c, i)
  PROVE  /\ UserBecomes(i, user[i].of, FALSE, user[i].idle)
         /\ CheckBecomes(c, "checking", check[c].of, check[c].mark \ {i}, check[c].remove,
                         check[c].self)
<1>1. user \in [UserIds -> User] /\ check \in [Checkers -> Check]
  BY DEF TypeOK
<1>2. UserBecomes(i, user[i].of, FALSE, user[i].idle)
  BY <1>1 DEF MarkInactive, UserBecomes, User
<1>3. CheckBecomes(c, "checking", check[c].of, check[c].mark \ {i}, check[c].remove, check[c].self)
  BY <1>1 DEF MarkInactive, CheckBecomes, Check
<1> QED BY <1>2, <1>3

LEMMA RemoveUserEffect ==
  ASSUME TypeOK, NEW c \in Checkers, NEW i \in UserIds, RemoveUser(c, i)
  PROVE  /\ UserBecomes(i, NoSession, FALSE, user[i].idle)
         /\ CheckBecomes(c, "checking", check[c].of, check[c].mark, check[c].remove \ {i},
                         check[c].self)
<1>1. user \in [UserIds -> User] /\ check \in [Checkers -> Check]
  BY DEF TypeOK
<1>2. UserBecomes(i, NoSession, FALSE, user[i].idle)
  BY <1>1 DEF RemoveUser, UserBecomes, User
<1>3. CheckBecomes(c, "checking", check[c].of, check[c].mark, check[c].remove \ {i}, check[c].self)
  BY <1>1 DEF RemoveUser, CheckBecomes, Check
<1> QED BY <1>2, <1>3

LEMMA EndCheckEffect ==
  ASSUME TypeOK, NEW c \in Checkers, EndCheck(c)
  PROVE  /\ CheckBecomes(c, "asleep", NoSession, {}, {}, FALSE)
         /\ IF c \in Pages /\ check[c].self
            THEN Becomes(c, "away", page[c].id, NoSession, NoRow) ELSE UNCHANGED page
<1>1. check \in [Checkers -> Check]
  BY DEF TypeOK
<1>2. CheckBecomes(c, "asleep", NoSession, {}, {}, FALSE)
  BY <1>1 DEF EndCheck, CheckBecomes, NotChecking
<1>3. CASE c \in Pages /\ check[c].self
  BY <1>2, <1>3, GoneEffect DEF EndCheck
<1> QED BY <1>2, <1>3 DEF EndCheck

-----------------------------------------------------------------------------
(* Sessions in use, and ids                                                *)

\* A page that works on a session has one.
LEMMA HeldStep == TypeOK /\ HeldInv /\ [Next]_vars => HeldInv'
<1> SUFFICES ASSUME TypeOK, HeldInv, [Next]_vars PROVE HeldInv'
  OBVIOUS
<1> DEFINE Held(p) == /\ page'[p].at \in {"reading", "storing", "adding", "entering", "connected"}
                           => page'[p].of \in Made
                      /\ page'[p].at \in {"restoring", "registeringRow"} => page'[p].row # NoRow
           Holds == \A p \in Pages : Held(p)
<1>1. UNCHANGED page => Holds
  BY DEF HeldInv
<1>2. ASSUME NEW p \in Pages, NEW id, NEW of, NEW row, NEW at, Becomes(p, at, id, of, row),
             at \in {"reading", "storing", "adding", "entering", "connected"} => of \in Made,
             at \in {"restoring", "registeringRow"} => row # NoRow
      PROVE  Holds
  BY <1>2 DEF HeldInv, Becomes
<1>3. registered \in {NoSession} \cup Made
  BY DEF TypeOK
<1> HIDE DEF Holds
<1>4. ASSUME NEW p \in Pages, ReadRow(p) PROVE Holds
  BY <1>2, <1>4, ReadRowEffect
<1>5. ASSUME NEW p \in Pages, FindSession(p) PROVE Holds
  <2>1. PICK to : Becomes(p, to, page[p].id, page[p].of, page[p].row)
                  /\ \/ to = "restoring" /\ page[p].row # NoRow
                     \/ to = "creating"
    BY <1>5, GoesEffect DEF FindSession
  <2> QED BY <1>2, <2>1
<1>6. ASSUME NEW p \in Pages, ContainsKey(p) PROVE Holds
  <2>1. PICK to : Becomes(p, to, page[p].id, page[p].of, page[p].row)
                  /\ \/ to = "registeringRow" /\ page[p].at = "restoring"
                     \/ to \in {"registeringNew", "getting"}
    BY <1>6, GoesEffect DEF ContainsKey
  <2> QED BY <1>2, <2>1 DEF HeldInv
<1>7. ASSUME NEW p \in Pages, InsertSession(p) PROVE Holds
  <2>1. Becomes(p, "getting", page[p].id, page[p].of, page[p].row)
    BY <1>7, GoesEffect DEF InsertSession
  <2> QED BY <1>2, <2>1
<1>8. ASSUME NEW p \in Pages, GetSession(p) PROVE Holds
  BY <1>2, <1>3, <1>8, GetSessionEffect
<1>9. ASSUME NEW p \in Pages, ReadDocument(p) PROVE Holds
  <2>1. page[p].of \in Made
    BY <1>9 DEF ReadDocument, HeldInv
  <2> QED BY <1>2, <1>9, <2>1, ReadDocumentEffect
<1>10. ASSUME NEW p \in Pages, StoreDocument(p) PROVE Holds
  <2>1. page[p].of \in Made
    BY <1>10 DEF StoreDocument, HeldInv
  <2> QED BY <1>2, <1>10, <2>1, StoreDocumentEffect
<1>11. ASSUME NEW p \in Pages, AddUser(p) PROVE Holds
  BY <1>2, <1>11, AddUserEffect
<1>12. ASSUME NEW p \in Pages, OpenConnection(p) PROVE Holds
  BY <1>2, <1>3, <1>12, OpenConnectionEffect
<1>13. ASSUME NEW p \in Pages, EnterSession(p) PROVE Holds
  <2>1. page[p].of \in Made
    BY <1>13 DEF EnterSession, HeldInv
  <2> QED BY <1>2, <1>13, <2>1, EnterSessionEffect
<1>14. ASSUME NEW p \in Pages, Abandon(p) \/ LoseConnection(p) PROVE Holds
  BY <1>2, <1>14, GoneEffect DEF Abandon, LoseConnection
<1>15. ASSUME NEW p \in Pages, Pong(p) PROVE Holds
  BY <1>1, <1>2, <1>15, PongEffect
<1>16. ASSUME NEW p \in Pages, Close(p) PROVE Holds
  BY <1>2, <1>16, CloseEffect
<1>17. ASSUME NEW c \in Checkers, CheckPanics(c) \/ EndCheck(c) PROVE Holds
  <2>1. UNCHANGED page \/ (c \in Pages /\ page' = Gone(c))
    BY <1>17 DEF CheckPanics, EndCheck
  <2> QED BY <1>1, <1>2, <2>1, GoneEffect
<1>18. UNCHANGED page
       \/ (\E p \in Pages : ReadRow(p) \/ Join(p) \/ Abandon(p) \/ Pong(p) \/ Close(p)
                             \/ LoseConnection(p))
       \/ (\E c \in Checkers : CheckPanics(c) \/ EndCheck(c))
  <2>1. ASSUME NEW p \in Pages, Edit(p) PROVE UNCHANGED page
    BY <2>1 DEF Edit
  <2>2. ASSUME NEW i \in UserIds, GetIdle(i) PROVE UNCHANGED page
    BY <2>2 DEF GetIdle
  <2>3. ASSUME NEW c \in Checkers, StartCheck(c) PROVE UNCHANGED page
    BY <2>3 DEF StartCheck, CollectIdle
  <2>4. ASSUME NEW c \in Checkers, NEW i \in UserIds, MarkInactive(c, i) \/ RemoveUser(c, i)
        PROVE  UNCHANGED page
    BY <2>4 DEF MarkInactive, RemoveUser
  <2>5. CASE Archive
    BY <2>5 DEF Archive, CollectEmpty, ArchiveDocument, RemoveSession
  <2>6. CASE UNCHANGED vars
    BY <2>6 DEF vars
  <2> QED BY <2>1, <2>2, <2>3, <2>4, <2>5, <2>6 DEF Next, Serve, Proceed
<1>19. Holds
  BY <1>1, <1>4, <1>5, <1>6, <1>7, <1>8, <1>9, <1>10, <1>11, <1>12, <1>13, <1>14, <1>15, <1>16,
     <1>17, <1>18 DEF Join
<1> QED BY <1>19, MadeStep DEF Holds, HeldInv

\* The ids of pages and users change when a user is added, and then only to a
\* new one.
LEMMA IdsStep == TypeOK /\ IdsInv /\ [Next]_vars => IdsInv'
<1> SUFFICES ASSUME TypeOK, IdsInv, [Next]_vars PROVE IdsInv'
  OBVIOUS
<1> USE SessionsAssumption DEF storeVars, taskVars
<1> DEFINE SamePages == \A p \in Pages : page'[p].id = page[p].id
           SameUsers == \A i \in UserIds :
                          /\ user[i].idle # "unknown" => user'[i].idle # "unknown"
                          /\ user'[i].of # NoSession => user'[i].idle # "unknown"
<1>1. \A p \in Pages : page[p].id \in {NoUser} \cup UserIds
  BY DEF TypeOK, Page
<1>2. SamePages /\ SameUsers => IdsInv'
  BY <1>1 DEF IdsInv
<1>3. UNCHANGED page => SamePages
  OBVIOUS
<1>4. ASSUME NEW p \in Pages, NEW of, NEW row, NEW at, Becomes(p, at, page[p].id, of, row)
      PROVE  SamePages
  BY <1>4 DEF Becomes
<1>5. UNCHANGED user => SameUsers
  BY DEF IdsInv
<1>6. ASSUME NEW i \in UserIds, NEW of, NEW active, NEW idle, UserBecomes(i, of, active, idle),
             idle # "unknown"
      PROVE  SameUsers
  BY <1>6 DEF UserBecomes, IdsInv
<1> HIDE DEF SamePages, SameUsers
<1>7. ASSUME NEW p \in Pages, AddUser(p) PROVE IdsInv'
  <2>1. PICK id \in UserIds :
            /\ id = page[p].id \/ user[id].idle = "unknown"
            /\ Becomes(p, "joined", id, NoSession, page[p].row)
            /\ UserBecomes(id, page[p].of, TRUE, "recent")
    BY <1>7, AddUserEffect
  <2>2. SameUsers
    BY <1>6, <2>1
  <2>3. \A q \in Pages : q # p => page[q].id # id
    BY <2>1 DEF IdsInv
  <2> QED BY <1>1, <2>1, <2>2, <2>3 DEF SameUsers, IdsInv, Becomes, UserBecomes
<1>8. ASSUME NEW p \in Pages, ReadRow(p) \/ FindSession(p) \/ ContainsKey(p) \/ InsertSession(p)
                             \/ GetSession(p) \/ ReadDocument(p) \/ StoreDocument(p)
      PROVE  IdsInv'
  <2>1. SamePages
    <3>1. CASE FindSession(p) \/ ContainsKey(p) \/ InsertSession(p)
      BY <1>4, <3>1, GoesEffect DEF FindSession, ContainsKey, InsertSession
    <3> QED BY <1>4, <1>8, <3>1, ReadRowEffect, GetSessionEffect, ReadDocumentEffect,
               StoreDocumentEffect
  <2>2. UNCHANGED user
    BY <1>8 DEF ReadRow, FindSession, ContainsKey, InsertSession, GetSession, ReadDocument,
                StoreDocument
  <2> QED BY <1>2, <1>5, <2>1, <2>2
<1>9. ASSUME NEW p \in Pages, OpenConnection(p) \/ EnterSession(p) \/ Abandon(p)
                             \/ LoseConnection(p) \/ Edit(p)
      PROVE  IdsInv'
  <2>1. SamePages
    <3>1. CASE Abandon(p) \/ LoseConnection(p)
      BY <1>4, <3>1, GoneEffect DEF Abandon, LoseConnection
    <3>2. CASE Edit(p)
      BY <1>3, <3>2 DEF Edit
    <3> QED BY <1>4, <1>9, <3>1, <3>2, OpenConnectionEffect, EnterSessionEffect
  <2>2. UNCHANGED user
    BY <1>9 DEF OpenConnection, EnterSession, Abandon, LoseConnection, Edit
  <2> QED BY <1>2, <1>5, <2>1, <2>2
<1>10. ASSUME NEW p \in Pages, Pong(p) \/ Close(p) PROVE IdsInv'
  <2>1. SamePages
    BY <1>3, <1>4, <1>10, PongEffect, CloseEffect
  <2>2. SameUsers
    <3>1. CASE Known(p)
      <4>1. page[p].id \in UserIds /\ user[page[p].id].idle # "unknown"
        BY <3>1 DEF Known, UsersOf, IdsInv
      <4> QED BY <1>6, <1>10, <3>1, <4>1, PongEffect, CloseEffect
    <3> QED BY <1>5, <1>10, <3>1, PongEffect, CloseEffect
  <2> QED BY <1>2, <2>1, <2>2
<1>11. ASSUME NEW i \in UserIds, GetIdle(i) PROVE IdsInv'
  <2>1. SameUsers
    BY <1>6, <1>11, GetIdleEffect
  <2> QED BY <1>2, <1>3, <1>11, <2>1 DEF GetIdle
<1>12. ASSUME NEW c \in Checkers, StartCheck(c) PROVE IdsInv'
  BY <1>2, <1>3, <1>5, <1>12 DEF StartCheck, CollectIdle
<1>13. ASSUME NEW c \in Checkers, NEW i \in UserIds, MarkInactive(c, i) \/ RemoveUser(c, i)
       PROVE  IdsInv'
  <2>1. user[i].idle # "unknown"
    BY <1>13 DEF MarkInactive, RemoveUser, UsersOf, IdsInv
  <2>2. SameUsers
    BY <1>6, <1>13, <2>1, MarkInactiveEffect, RemoveUserEffect
  <2>3. SamePages
    BY <1>3, <1>13 DEF MarkInactive, RemoveUser
  <2> QED BY <1>2, <2>2, <2>3
<1>14. ASSUME NEW c \in Checkers, CheckPanics(c) \/ EndCheck(c) PROVE IdsInv'
  <2>1. UNCHANGED page \/ (c \in Pages /\ page' = Gone(c))
    BY <1>14 DEF CheckPanics, EndCheck
  <2>2. SamePages
    BY <1>3, <1>4, <2>1, GoneEffect
  <2> QED BY <1>2, <1>5, <1>14, <2>2 DEF CheckPanics, EndCheck
<1>15. CASE Archive
  BY <1>2, <1>3, <1>5, <1>15 DEF Archive, CollectEmpty, ArchiveDocument, RemoveSession
<1>16. CASE UNCHANGED vars
  BY <1>2, <1>3, <1>5, <1>16 DEF vars
<1> QED BY <1>7, <1>8, <1>9, <1>10, <1>11, <1>12, <1>13, <1>14, <1>15, <1>16
           DEF Next, Join, Serve, Proceed

-----------------------------------------------------------------------------
(* Order: joins                                                            *)

\* With nobody else under way, what one page does to itself keeps the order if
\* what it knows is so, and the connections and the text are kept.
LEMMA JoinFrame ==
  ASSUME Order, NEW p \in Pages, NEW at, NEW id, NEW of, NEW row, Becomes(p, at, id, of, row),
         Joining \subseteq {p}, p \notin Connected, Checking = {}, archiver = "asleep",
         UNCHANGED taskVars,
         at \in JoinState => JoinInv(p)',
         at = "connected" => ConnectionInv(p)',
         \A q \in Connected : page'[q] = page[q] => ConnectionInv(q)',
         TextSurvives', ~panicked'
  PROVE  Order'
<1>1. Checking' = {} /\ archiver' = "asleep"
  BY DEF Checking, taskVars
<1>2. Joining' \subseteq {p} /\ (p \in Joining' => at \in JoinState)
  BY DEF Joining, Becomes
<1>3. \A q \in Connected' : ConnectionInv(q)'
  <2> SUFFICES ASSUME NEW q \in Connected' PROVE ConnectionInv(q)'
    OBVIOUS
  <2>1. CASE q = p
    BY <2>1 DEF Connected, Becomes
  <2>2. CASE q # p
    <3>1. q \in Pages /\ page'[q] = page[q] /\ q \in Connected
      BY <2>2 DEF Connected, Becomes
    <3> QED BY <3>1
  <2> QED BY <2>1, <2>2
<1>4. OneProcedure'
  BY <1>1, <1>2 DEF OneProcedure
<1>5. \A q \in Joining' : JoinInv(q)'
  BY <1>2
<1>6. ArchiveInv'
  BY <1>1 DEF ArchiveInv
<1> QED BY <1>1, <1>3, <1>4, <1>5, <1>6 DEF Order

\* The session of a connection is in the map.
LEMMA ConnectedSession ==
  ASSUME Order, NEW p \in Connected
  PROVE  /\ registered # NoSession
         /\ page[p].of = registered
         /\ page[p].id \in UserIds
         /\ user[page[p].id].of = registered
  BY DEF Order, ConnectionInv, UsersOf

\* A join under way is the only procedure there is.
LEMMA JoiningAlone ==
  ASSUME Order, NEW p \in Pages, page[p].at \in JoinState
  PROVE  /\ Joining \subseteq {p} /\ p \notin Connected /\ Checking = {} /\ archiver = "asleep"
         /\ JoinInv(p)
<1>1. p \in Joining /\ p \notin Connected
  BY DEF Joining, Connected, JoinState
<1> QED BY <1>1 DEF Order, OneProcedure

\* The steps of a join keep the order.
LEMMA JoinOrder ==
  ASSUME TypeOK, HeldInv, IdsInv, Order, orderly', NEW p \in Pages,
         ReadRow(p) \/ Join(p) \/ Abandon(p)
  PROVE  Order'
<1> USE DEF storeVars, taskVars
<1> DEFINE Settled == \A q \in Connected : page'[q] = page[q] => ConnectionInv(q)'
<1>1. UNCHANGED <<registered, user, check>> => Settled
  BY DEF Order, ConnectionInv, UsersOf, Checking
<1>2. UNCHANGED <<registered, text, edits, stored>> => TextSurvives'
  BY DEF Order, TextSurvives, Served
<1>3. ~panicked
  BY DEF Order
<1> HIDE DEF Settled
<1>4. ASSUME NEW at, NEW id, NEW of, NEW row, Becomes(p, at, id, of, row),
             page[p].at \in JoinState \/ ReadRow(p), UNCHANGED taskVars,
             at \in JoinState => JoinInv(p)', at = "connected" => ConnectionInv(p)',
             Settled, TextSurvives', ~panicked'
      PROVE  Order'
  <2>1. Joining \subseteq {p} /\ p \notin Connected /\ Checking = {} /\ archiver = "asleep"
    BY <1>4, JoiningAlone DEF ReadRow, Starts, Connected
  <2> QED BY <1>4, <2>1, JoinFrame DEF Settled
<1>5. CASE ReadRow(p)
  <2>1. Becomes(p, "finding", page[p].id, page[p].of, stored)
    BY <1>5, ReadRowEffect
  <2>2. JoinInv(p)'
    BY <1>5, <2>1 DEF ReadRow, Becomes, JoinInv
  <2> QED BY <1>1, <1>2, <1>3, <1>4, <1>5, <2>1, <2>2 DEF ReadRow
<1>6. CASE FindSession(p)
  <2>1. PICK to : /\ to = IF registered = NoSession /\ page[p].row # NoRow
                          THEN "restoring" ELSE "creating"
                  /\ Becomes(p, to, page[p].id, page[p].of, page[p].row)
                  /\ page[p].at = "finding"
    BY <1>6, GoesEffect DEF FindSession
  <2>2. JoinInv(p)
    BY <2>1, JoiningAlone DEF JoinState
  <2>3. JoinInv(p)'
    BY <1>6, <2>1, <2>2 DEF FindSession, Becomes, JoinInv
  <2> QED BY <1>1, <1>2, <1>3, <1>4, <1>6, <2>1, <2>3 DEF FindSession, JoinState
<1>7. CASE ContainsKey(p)
  <2>1. PICK from, to : /\ from = "restoring" =>
                              to = IF registered = NoSession THEN "registeringRow" ELSE "getting"
                        /\ from # "restoring" =>
                              to = IF registered = NoSession THEN "registeringNew" ELSE "getting"
                        /\ Becomes(p, to, page[p].id, page[p].of, page[p].row)
                        /\ page[p].at = from
                        /\ from \in {"restoring", "creating"}
    BY <1>7, GoesEffect DEF ContainsKey
  <2>2. JoinInv(p)
    BY <2>1, JoiningAlone DEF JoinState
  <2>3. JoinInv(p)'
    BY <1>7, <2>1, <2>2 DEF ContainsKey, Becomes, JoinInv
  <2> QED BY <1>1, <1>2, <1>3, <1>4, <1>7, <2>1, <2>3 DEF ContainsKey, JoinState
<1>8. CASE InsertSession(p)
  <2>1. PICK from, doc : /\ Becomes(p, "getting", page[p].id, page[p].of, page[p].row)
                         /\ page[p].at = from
                         /\ Register(doc)
                         /\ \/ from = "registeringRow" /\ doc = page[p].row
                            \/ from = "registeringNew" /\ doc = {}
    BY <1>8, GoesEffect DEF InsertSession
  <2>2. JoinInv(p)
    BY <2>1, JoiningAlone DEF JoinState
  <2>3. registered = NoSession
    BY <2>1, <2>2 DEF JoinInv
  <2>4. Len(text) \in Nat /\ registered' = Len(text) + 1 /\ text' = Append(text, doc)
    BY <2>1 DEF Register, TypeOK
  <2>5. registered' # NoSession
    BY <2>4 DEF NoSession
  <2>6. Served' = doc
    BY <2>4, <2>5 DEF Served, TypeOK
  <2>7. 1..edits \subseteq stored
    BY <2>3 DEF Order, TextSurvives, Served
  <2>8. 1..edits \subseteq doc
    <3>1. CASE from = "registeringRow"
      BY <2>1, <2>2, <2>7, <3>1 DEF JoinInv
    <3>2. CASE from = "registeringNew"
      <4>1. stored = {0}
        BY <2>1, <2>2, <3>2 DEF JoinInv, NoRow
      <4>2. edits \in Nat /\ 1 \notin 1..edits
        BY <2>7, <4>1, SessionsAssumption DEF TypeOK
      <4> QED BY <4>2
    <3> QED BY <2>1, <3>1, <3>2
  <2>9. TextSurvives'
    BY <1>8, <2>6, <2>8 DEF TextSurvives, InsertSession
  <2>10. Settled
    BY <2>3, ConnectedSession DEF Settled
  <2>11. JoinInv(p)'
    BY <2>1, <2>5 DEF Becomes, JoinInv
  <2> QED BY <1>3, <1>4, <1>8, <2>1, <2>9, <2>10, <2>11 DEF InsertSession, JoinState
<1>9. CASE GetSession(p)
  <2>1. page[p].at = "getting" /\ JoinInv(p)
    BY <1>9, JoiningAlone DEF GetSession, JoinState
  <2>2. registered # NoSession
    BY <2>1 DEF JoinInv
  <2>3. Becomes(p, "reading", page[p].id, registered, NoRow)
    BY <1>9, <2>2, GetSessionEffect
  <2>4. JoinInv(p)'
    BY <1>9, <2>2, <2>3 DEF GetSession, Becomes, JoinInv
  <2> QED BY <1>1, <1>2, <1>3, <1>4, <1>9, <2>1, <2>2, <2>3, <2>4 DEF GetSession, JoinState
<1>10. CASE ReadDocument(p)
  <2>1. page[p].at = "reading" /\ JoinInv(p)
    BY <1>10, JoiningAlone DEF ReadDocument, JoinState
  <2>2. Becomes(p, "storing", page[p].id, page[p].of, text[page[p].of])
    BY <1>10, ReadDocumentEffect
  <2>3. JoinInv(p)'
    BY <1>10, <2>1, <2>2 DEF ReadDocument, Becomes, JoinInv
  <2> QED BY <1>1, <1>2, <1>3, <1>4, <1>10, <2>1, <2>2, <2>3 DEF ReadDocument, JoinState
<1>11. CASE StoreDocument(p)
  <2>1. page[p].at = "storing" /\ JoinInv(p)
    BY <1>11, JoiningAlone DEF StoreDocument, JoinState
  <2>2. Becomes(p, "adding", page[p].id, page[p].of, NoRow)
    BY <1>11, StoreDocumentEffect
  <2>3. JoinInv(p)'
    BY <1>11, <2>1, <2>2 DEF StoreDocument, Becomes, JoinInv
  <2>4. TextSurvives'
    BY <1>11, <2>1 DEF StoreDocument, JoinInv, Order, TextSurvives, Served
  <2> QED BY <1>1, <1>3, <1>4, <1>11, <2>1, <2>2, <2>3, <2>4 DEF StoreDocument, JoinState
<1>12. CASE AddUser(p)
  <2>1. page[p].at = "adding" /\ JoinInv(p)
    BY <1>12, JoiningAlone DEF AddUser, JoinState
  <2>2. PICK id \in UserIds :
            /\ id = page[p].id \/ user[id].idle = "unknown"
            /\ Becomes(p, "joined", id, NoSession, page[p].row)
            /\ UserBecomes(id, page[p].of, TRUE, "recent")
    BY <1>12, AddUserEffect
  <2>3. registered # NoSession /\ page[p].of = registered
    BY <2>1 DEF JoinInv
  <2>4. JoinInv(p)'
    BY <1>12, <2>2, <2>3 DEF AddUser, Becomes, UserBecomes, JoinInv, ActiveUsers, UsersOf
  <2>5. Settled
    <3> SUFFICES ASSUME NEW q \in Connected, page'[q] = page[q] PROVE ConnectionInv(q)'
      BY DEF Settled
    <3>1. q \in Pages /\ q # p /\ page[q].id \in UserIds
      BY <2>1, ConnectedSession DEF Connected
    <3>2. page[q].id # id
      BY <2>2, <3>1, SessionsAssumption DEF IdsInv
    <3>3. ConnectionInv(q)
      BY DEF Order
    <3> QED BY <1>12, <2>2, <3>1, <3>2, <3>3
            DEF AddUser, UserBecomes, ConnectionInv, UsersOf, Checking
  <2> QED BY <1>2, <1>3, <1>4, <1>12, <2>1, <2>2, <2>4, <2>5 DEF AddUser, JoinState
<1>13. CASE OpenConnection(p)
  <2>1. page[p].at = "joined" /\ JoinInv(p)
    BY <1>13, JoiningAlone DEF OpenConnection, JoinState
  <2>2. registered # NoSession
    BY <2>1 DEF JoinInv
  <2>3. Becomes(p, "entering", page[p].id, registered, page[p].row)
    BY <1>13, <2>2, OpenConnectionEffect
  <2>4. JoinInv(p)'
    BY <1>13, <2>1, <2>2, <2>3 DEF OpenConnection, Becomes, JoinInv, ActiveUsers, UsersOf
  <2>5. ~panicked' /\ UNCHANGED <<storeVars, user, taskVars, edits>>
    BY <1>3, <1>13, <2>2 DEF OpenConnection
  <2>6. Settled /\ TextSurvives'
    BY <1>1, <1>2, <2>5
  <2> QED BY <1>4, <2>1, <2>3, <2>4, <2>5, <2>6 DEF JoinState
<1>14. CASE EnterSession(p)
  <2>1. page[p].at = "entering" /\ JoinInv(p)
    BY <1>14, JoiningAlone DEF EnterSession, JoinState
  <2>2. Known(p)
    BY <2>1 DEF JoinInv, Known, ActiveUsers
  <2>3. Becomes(p, "connected", page[p].id, page[p].of, page[p].row)
    BY <1>14, <2>2, EnterSessionEffect
  <2>4. ConnectionInv(p)'
    BY <1>14, <2>1, <2>3
       DEF EnterSession, Becomes, JoinInv, ConnectionInv, ActiveUsers, UsersOf
  <2> QED BY <1>1, <1>2, <1>3, <1>4, <1>14, <2>1, <2>2, <2>3, <2>4 DEF EnterSession, JoinState
<1>15. CASE Abandon(p)
  <2>1. Becomes(p, "away", page[p].id, NoSession, NoRow)
    BY <1>15, GoneEffect DEF Abandon
  <2> QED BY <1>1, <1>2, <1>3, <1>4, <1>15, <2>1 DEF Abandon, JoinState
<1> QED BY <1>5, <1>6, <1>7, <1>8, <1>9, <1>10, <1>11, <1>12, <1>13, <1>14, <1>15 DEF Join

-----------------------------------------------------------------------------
(* Order: connections and idle users                                       *)

\* Connections that end, and users that stay in their sessions, keep the order
\* if joins and the other connections do.
LEMMA ServeFrame ==
  ASSUME Order,
         UNCHANGED <<registered, stored, taskVars>>, ~panicked',
         \A q \in Pages : page'[q] # page[q] => q \in Connected /\ page'[q].at = "away",
         \A i \in UserIds : user'[i].of = user[i].of,
         \A q \in Connected : page'[q] = page[q] => ConnectionInv(q)',
         \A q \in Joining : page[q].at \in {"joined", "entering"} =>
            \A i \in ActiveUsers(registered) : i = page[q].id => user'[i] = user[i],
         archiver = "removing" => UNCHANGED text,
         TextSurvives'
  PROVE  Order'
<1> USE DEF taskVars
<1>1. Joining' = Joining /\ Connected' \subseteq Connected /\ Checking' = Checking
      /\ \A q \in Joining \cup Connected' : page'[q] = page[q]
  BY DEF Joining, Connected, Checking, JoinState
<1>2. OneProcedure'
  BY <1>1 DEF Order, OneProcedure
<1>3. ASSUME NEW q \in Joining' PROVE JoinInv(q)'
  <2>1. q \in Joining /\ page'[q] = page[q] /\ JoinInv(q)
    BY <1>1, <1>3 DEF Order
  <2>2. page[q].at \in {"joined", "entering"} =>
           page[q].id \in ActiveUsers(registered)' /\ user'[page[q].id].idle = "recent"
    BY <2>1 DEF JoinInv, ActiveUsers, UsersOf
  <2> QED BY <2>1, <2>2 DEF JoinInv
<1>4. \A q \in Connected' : ConnectionInv(q)'
  BY <1>1
<1>5. ASSUME NEW c \in Checking' PROVE CheckInv(c)'
  <2>1. CheckInv(c) /\ UNCHANGED check
    BY <1>1, <1>5 DEF Order
  <2>2. UsersOf(check[c].of)' = UsersOf(check[c].of)
    BY <2>1 DEF UsersOf
  <2> QED BY <1>1, <2>1, <2>2 DEF CheckInv
<1>6. ArchiveInv'
  BY <1>1 DEF Order, ArchiveInv
<1> QED BY <1>2, <1>3, <1>4, <1>5, <1>6 DEF Order

\* What a connection does keeps the order.
LEMMA ServeOrder ==
  ASSUME TypeOK, TypeOK', IdsInv, Order, NEW p \in Pages, Serve(p)
  PROVE  Order'
<1> USE DEF storeVars, taskVars
<1>1. p \in Connected /\ p \notin Checking
  BY DEF Serve, Edit, Pong, Close, LoseConnection, Answers, Attends
<1>2. /\ page[p].id \in UserIds /\ user[page[p].id].of = page[p].of
      /\ page[p].of = registered /\ registered # NoSession
  BY <1>1, ConnectedSession
<1>3. Known(p)
  BY <1>2 DEF Known, UsersOf
<1>4. \A q \in Pages : q # p => page[q].id # page[p].id
  BY <1>1, <1>2, SessionsAssumption DEF IdsInv
<1>5. archiver = "asleep" /\ p \notin Joining
  BY <1>1 DEF Order, ArchiveInv, Connected, Joining, JoinState
<1>6. ASSUME NEW q \in Connected PROVE q \in Pages /\ page[q].id \in UserIds /\ ConnectionInv(q)
  BY <1>6, ConnectedSession DEF Order, Connected
<1>7. ASSUME UNCHANGED <<registered, text, stored, edits>> PROVE TextSurvives'
  BY <1>7 DEF Order, TextSurvives, Served
<1>8. CASE Edit(p)
  <2>1. text \in Seq(SUBSET Edits) /\ registered \in DOMAIN text
    BY <1>2 DEF TypeOK, Made, NoSession
  <2>2. Served' = Served \cup {edits + 1}
    BY <1>2, <1>8, <2>1 DEF Edit, Served
  <2>3. TextSurvives'
    BY <1>8, <2>2 DEF Edit, Order, TextSurvives, TypeOK
  <2>4. \A q \in Connected : ConnectionInv(q)'
    BY <1>6, <1>8 DEF Edit, ConnectionInv, UsersOf, Checking
  <2> QED BY <1>5, <1>8, <2>3, <2>4, ServeFrame DEF Edit, Order
<1>9. CASE Pong(p)
  <2>1. UserBecomes(page[p].id, page[p].of, TRUE, "recent") /\ UNCHANGED page
    BY <1>3, <1>9, PongEffect
  <2>2. UNCHANGED <<storeVars, taskVars, edits>> /\ ~panicked'
    BY <1>3, <1>9 DEF Pong, Answers, Order
  <2>3. \A i \in UserIds : user'[i].of = user[i].of
    BY <1>2, <2>1 DEF UserBecomes
  <2>4. \A q \in Connected : ConnectionInv(q)'
    BY <1>2, <1>4, <1>6, <2>1, <2>2, <2>3 DEF UserBecomes, ConnectionInv, UsersOf, Checking
  <2>5. \A q \in Joining : \A i \in UserIds : i = page[q].id => user'[i] = user[i]
    BY <1>4, <1>5, <2>1 DEF UserBecomes, Joining
  <2> QED BY <1>5, <1>7, <2>1, <2>2, <2>3, <2>4, <2>5, ServeFrame DEF ActiveUsers, UsersOf
<1>10. CASE Close(p)
  <2>1. /\ UserBecomes(page[p].id, page[p].of, FALSE, user[page[p].id].idle)
        /\ Becomes(p, "away", page[p].id, NoSession, NoRow)
    BY <1>3, <1>10, CloseEffect
  <2>2. UNCHANGED <<storeVars, taskVars, edits>> /\ ~panicked'
    BY <1>3, <1>10 DEF Close, Answers, Order
  <2>3. \A i \in UserIds : user'[i].of = user[i].of
    BY <1>2, <2>1 DEF UserBecomes
  <2>4. page'[p] # page[p] /\ \A q \in Pages : q # p => page'[q] = page[q]
    BY <1>1, <2>1 DEF Becomes, Connected
  <2>5. \A q \in Connected : page'[q] = page[q] => ConnectionInv(q)'
    BY <1>4, <1>6, <2>1, <2>2, <2>3, <2>4 DEF UserBecomes, ConnectionInv, UsersOf, Checking
  <2>6. \A q \in Joining : \A i \in UserIds : i = page[q].id => user'[i] = user[i]
    BY <1>4, <1>5, <2>1 DEF UserBecomes, Joining
  <2>7. \A q \in Pages : page'[q] # page[q] => q \in Connected /\ page'[q].at = "away"
    BY <1>1, <2>1 DEF Becomes
  <2> QED BY <1>5, <1>7, <2>2, <2>3, <2>5, <2>6, <2>7, ServeFrame DEF ActiveUsers, UsersOf
<1>11. CASE LoseConnection(p)
  <2>1. Becomes(p, "away", page[p].id, NoSession, NoRow)
    BY <1>11, GoneEffect DEF LoseConnection
  <2>2. \A q \in Connected : page'[q] = page[q] => ConnectionInv(q)'
    BY <1>6, <1>11 DEF LoseConnection, ConnectionInv, UsersOf, Checking
  <2>3. \A q \in Pages : page'[q] # page[q] => q \in Connected /\ page'[q].at = "away"
    BY <1>1, <2>1 DEF Becomes
  <2> QED BY <1>5, <1>7, <1>11, <2>2, <2>3, ServeFrame DEF LoseConnection, Order
<1> QED BY <1>8, <1>9, <1>10, <1>11 DEF Serve

\* A user who gets idle keeps the order.
LEMMA IdleOrder ==
  ASSUME TypeOK, Order, NEW i \in UserIds, GetIdle(i)
  PROVE  Order'
<1> USE DEF storeVars, taskVars
<1>1. PICK idle \in {"late", "long"} : /\ UserBecomes(i, user[i].of, user[i].active, idle)
                                       /\ idle = "long" => ~IsConnected(i)
  BY GetIdleEffect
<1>2. \A j \in UserIds : user'[j].of = user[j].of /\ user'[j].active = user[j].active
  BY <1>1 DEF UserBecomes
<1>3. \A q \in Joining : page[q].id # i
  BY DEF GetIdle
<1>4. ASSUME NEW q \in Connected PROVE ConnectionInv(q)'
  <2>1. ConnectionInv(q) /\ page[q].id \in UserIds
    BY ConnectedSession DEF Order
  <2>2. user'[page[q].id].idle # "long"
    BY <1>1, <2>1 DEF UserBecomes, IsConnected, ConnectionInv
  <2> QED BY <1>2, <2>1, <2>2 DEF GetIdle, ConnectionInv, UsersOf, Checking
<1>5. TextSurvives'
  BY DEF GetIdle, Order, TextSurvives, Served
<1>6. \A q \in Joining : \A j \in UserIds : j = page[q].id => user'[j] = user[j]
  BY <1>1, <1>3 DEF UserBecomes
<1> QED BY <1>2, <1>4, <1>5, <1>6, ServeFrame DEF GetIdle, ActiveUsers, UsersOf, Order

-----------------------------------------------------------------------------
(* Order: checks for idle users                                            *)

\* With nobody joining and nothing being archived, what one checker does keeps
\* the order if connections do.
LEMMA CheckFrame ==
  ASSUME Order, NEW c \in Checkers, Checking \subseteq {c},
         NEW at, NEW of, NEW mark, NEW remove, NEW self,
         CheckBecomes(c, at, of, mark, remove, self),
         at = "checking" => CheckInv(c)',
         Joining = {}, archiver = "asleep",
         UNCHANGED <<storeVars, archiver, edits>>, ~panicked',
         \A q \in Pages : page'[q] # page[q] => page'[q].at = "away",
         \A q \in Connected : page'[q] = page[q] => ConnectionInv(q)'
  PROVE  Order'
<1> USE DEF storeVars
<1>1. Joining' = {} /\ Connected' \subseteq Connected
      /\ \A q \in Connected' : page'[q] = page[q]
  BY DEF Joining, Connected, JoinState
<1>2. Checking' \subseteq {c} /\ (c \in Checking' => at = "checking")
  BY DEF Checking, CheckBecomes
<1>3. OneProcedure'
  BY <1>1, <1>2 DEF OneProcedure
<1>4. ArchiveInv' /\ TextSurvives'
  BY DEF Order, ArchiveInv, TextSurvives, Served
<1> QED BY <1>1, <1>2, <1>3, <1>4 DEF Order

\* A check under way is the only procedure there is.
LEMMA CheckingAlone ==
  ASSUME Order, NEW c \in Checkers, check[c].at = "checking"
  PROVE  c \in Checking /\ Checking \subseteq {c} /\ Joining = {} /\ archiver = "asleep"
         /\ CheckInv(c)
<1>1. c \in Checking
  BY DEF Checking
<1> QED BY <1>1 DEF Order, OneProcedure

\* The steps of a check keep the order.
LEMMA CheckOrder ==
  ASSUME TypeOK, IdsInv, Order, orderly', NEW c \in Checkers, StartCheck(c) \/ Proceed(c)
  PROVE  Order'
<1> USE DEF storeVars, taskVars
<1>1. ASSUME NEW q \in Connected
      PROVE  q \in Pages /\ page[q].id \in UserIds /\ ConnectionInv(q)
  BY <1>1, ConnectedSession DEF Order, Connected
<1>2. CASE StartCheck(c)
  <2>1. PICK s : CollectIdle(c, s)
    BY <1>2 DEF StartCheck
  <2>2. PICK mark, remove \in SUBSET UsersOf(s) :
            /\ CheckBecomes(c, "checking", s, mark, remove, c \in Pages /\ page[c].id \in mark)
            /\ \A i \in remove : user[i].idle = "long"
    BY <2>1, CollectIdleEffect
  <2>3. Joining = {} /\ Checking = {} /\ archiver = "asleep"
    BY <2>1 DEF CollectIdle, Starts
  <2>4. UNCHANGED <<storeVars, user, page, archiver, edits>> /\ ~panicked'
    BY <2>1 DEF CollectIdle, Order
  <2>5. ASSUME NEW q \in Connected PROVE ConnectionInv(q)'
    BY <1>1, <2>3, <2>4 DEF ConnectionInv, UsersOf
  <2>6. CheckInv(c)'
    <3>1. \A q \in Connected : page[q].id \notin remove
      BY <1>1, <2>2 DEF ConnectionInv
    <3>2. c \in Connected /\ page[c].id \in mark => check'[c].self
      BY <1>1, <2>2 DEF CheckBecomes
    <3>3. Connected' = Connected /\ UsersOf(s)' = UsersOf(s)
      BY <2>4 DEF Connected, UsersOf
    <3>4. check'[c].of = s /\ check'[c].mark = mark /\ check'[c].remove = remove
      BY <2>2 DEF CheckBecomes
    <3> QED BY <2>2, <2>4, <3>1, <3>2, <3>3, <3>4 DEF CheckInv
  <2>7. \A q \in Pages : page'[q] = page[q]
    BY <2>4
  <2>8. ASSUME NEW self, CheckBecomes(c, "checking", s, mark, remove, self) PROVE Order'
    BY <2>3, <2>4, <2>5, <2>6, <2>7, <2>8, CheckFrame
  <2> QED BY <2>2, <2>8
<1>3. ASSUME NEW i \in UserIds, MarkInactive(c, i) PROVE Order'
  <2>1. /\ UserBecomes(i, user[i].of, FALSE, user[i].idle)
        /\ CheckBecomes(c, "checking", check[c].of, check[c].mark \ {i}, check[c].remove,
                        check[c].self)
    BY <1>3, MarkInactiveEffect
  <2>2. /\ c \in Checking /\ Checking \subseteq {c} /\ Joining = {} /\ archiver = "asleep"
        /\ CheckInv(c)
    BY <1>3, CheckingAlone DEF MarkInactive
  <2>3. \A j \in UserIds : user'[j].of = user[j].of /\ user'[j].idle = user[j].idle
    BY <2>1 DEF UserBecomes
  <2>4. c \in Checking' /\ check'[c].self = check[c].self
    BY <2>1 DEF CheckBecomes, Checking
  <2>5. ASSUME NEW q \in Connected PROVE ConnectionInv(q)'
    <3>1. CASE page[q].id = i
      <4>1. q = c /\ i \in check[c].mark
        BY <1>3, <3>1 DEF MarkInactive
      <4>2. check[c].self
        BY <2>2, <3>1, <4>1 DEF CheckInv
      <4> QED BY <1>1, <1>3, <2>3, <2>4, <4>1, <4>2 DEF MarkInactive, ConnectionInv, UsersOf
    <3>2. CASE page[q].id # i
      <4>1. user'[page[q].id] = user[page[q].id]
        BY <1>1, <2>1, <3>2 DEF UserBecomes
      <4>2. q \in Checking /\ check[q].self => q \in Checking' /\ check'[q].self
        BY <2>2, <2>4
      <4> QED BY <1>1, <1>3, <2>3, <4>1, <4>2 DEF MarkInactive, ConnectionInv, UsersOf
    <3> QED BY <3>1, <3>2
  <2>6. CheckInv(c)'
    <3>1. UsersOf(check[c].of)' = UsersOf(check[c].of) /\ Connected' = Connected
      BY <1>3, <2>1, <2>3 DEF MarkInactive, UsersOf, Connected, CheckBecomes
    <3> QED BY <1>3, <2>1, <2>2, <3>1 DEF CheckInv, CheckBecomes, MarkInactive
  <2> QED BY <1>3, <2>1, <2>2, <2>5, <2>6, CheckFrame DEF MarkInactive, Order
<1>4. ASSUME NEW i \in UserIds, RemoveUser(c, i) PROVE Order'
  <2>1. /\ UserBecomes(i, NoSession, FALSE, user[i].idle)
        /\ CheckBecomes(c, "checking", check[c].of, check[c].mark, check[c].remove \ {i},
                        check[c].self)
    BY <1>4, RemoveUserEffect
  <2>2. /\ c \in Checking /\ Checking \subseteq {c} /\ Joining = {} /\ archiver = "asleep"
        /\ CheckInv(c)
    BY <1>4, CheckingAlone DEF RemoveUser
  <2>3. check[c].mark = {} /\ i \in check[c].remove /\ UNCHANGED page
    BY <1>4 DEF RemoveUser
  <2>4. c \in Checking' /\ check'[c].self = check[c].self
    BY <2>1 DEF CheckBecomes, Checking
  <2>5. ASSUME NEW q \in Connected PROVE ConnectionInv(q)'
    <3>1. page[q].id # i
      BY <2>2, <2>3 DEF CheckInv
    <3>2. user'[page[q].id] = user[page[q].id]
      BY <1>1, <2>1, <3>1 DEF UserBecomes
    <3>3. q \in Checking /\ check[q].self => q \in Checking' /\ check'[q].self
      BY <2>2, <2>4
    <3> QED BY <1>1, <1>4, <3>2, <3>3 DEF RemoveUser, ConnectionInv, UsersOf
  <2>6. CheckInv(c)'
    <3>1. UsersOf(check[c].of) \ {i} \subseteq UsersOf(check[c].of)'
      BY <2>1 DEF UsersOf, UserBecomes, CheckBecomes
    <3>2. Connected' = Connected
      BY <2>3 DEF Connected
    <3> QED BY <2>1, <2>2, <2>3, <3>1, <3>2 DEF CheckInv, CheckBecomes
  <2> QED BY <1>4, <2>1, <2>2, <2>5, <2>6, CheckFrame DEF RemoveUser, Order
<1>5. ASSUME CheckPanics(c) PROVE FALSE
  <2>1. CheckInv(c)
    BY <1>5, CheckingAlone DEF CheckPanics
  <2> QED BY <1>5, <2>1 DEF CheckPanics, CheckInv
<1>6. CASE EndCheck(c)
  <2>1. /\ CheckBecomes(c, "asleep", NoSession, {}, {}, FALSE)
        /\ IF c \in Pages /\ check[c].self
           THEN Becomes(c, "away", page[c].id, NoSession, NoRow) ELSE UNCHANGED page
    BY <1>6, EndCheckEffect
  <2>2. Checking \subseteq {c} /\ Joining = {} /\ archiver = "asleep"
    BY <1>6, CheckingAlone DEF EndCheck
  <2>3. \A q \in Pages : page'[q] # page[q] => page'[q].at = "away"
    BY <2>1 DEF Becomes
  <2>4. ASSUME NEW q \in Connected, page'[q] = page[q] PROVE ConnectionInv(q)'
    <3>1. ~(q = c /\ check[c].self)
      BY <1>1, <2>1, <2>4 DEF Becomes, Connected
    <3>2. user[page[q].id].active
      BY <1>1, <2>2, <3>1 DEF ConnectionInv
    <3> QED BY <1>1, <1>6, <2>4, <3>2 DEF EndCheck, ConnectionInv, UsersOf
  <2>5. UNCHANGED <<storeVars, archiver, edits>> /\ ~panicked'
    BY <1>6 DEF EndCheck, Order
  <2>6. ASSUME NEW self, CheckBecomes(c, "asleep", NoSession, {}, {}, self) PROVE Order'
    BY <2>2, <2>3, <2>4, <2>5, <2>6, CheckFrame
  <2> QED BY <2>1, <2>6
<1> QED BY <1>2, <1>3, <1>4, <1>5, <1>6 DEF Proceed

-----------------------------------------------------------------------------
(* Order: archiving                                                        *)

\* The steps of archiving keep the order.
LEMMA ArchiveOrder ==
  ASSUME TypeOK, ArchiverFindsSession, Order, orderly', Archive
  PROVE  Order'
<1> USE DEF storeVars, taskVars
<1>1. Joining = {} /\ Checking = {} /\ Connected = {}
  <2>1. CASE CollectEmpty
    <3>1. Joining = {} /\ Checking = {}
      BY <2>1 DEF CollectEmpty, Starts
    <3>2. ASSUME NEW q \in Connected PROVE FALSE
      <4>1. page[q].id \in ActiveUsers(registered)
        BY <3>1 DEF Order, ConnectionInv, ActiveUsers
      <4> QED BY <2>1, <4>1 DEF CollectEmpty
    <3> QED BY <3>1, <3>2
  <2>2. CASE archiver # "asleep"
    BY <2>2 DEF Order, OneProcedure, ArchiveInv
  <2> QED BY <2>1, <2>2 DEF Archive, ArchiveDocument, RemoveSession
<1>2. UNCHANGED <<user, page, check, edits, panicked>>
  BY DEF Archive, CollectEmpty, ArchiveDocument, RemoveSession
<1>3. Joining' = {} /\ Checking' = {} /\ Connected' = {}
  BY <1>1, <1>2 DEF Joining, Checking, Connected
<1>4. Served' = Served
  BY DEF Archive, CollectEmpty, ArchiveDocument, RemoveSession, Served, Order, ArchiveInv,
         ArchiverFindsSession
<1>5. archiver' = "removing" => stored' = text'[registered']
  BY DEF Archive, CollectEmpty, ArchiveDocument, RemoveSession
<1>6. TextSurvives' /\ ~panicked'
  BY <1>2, <1>4 DEF Order, TextSurvives
<1> QED BY <1>3, <1>5, <1>6 DEF Order, OneProcedure, ArchiveInv

-----------------------------------------------------------------------------
(* The theorems                                                            *)

\* Every step keeps the order, or is the end of it.
LEMMA OrderStep ==
  TypeOK /\ TypeOK' /\ ArchiverFindsSession /\ HeldInv /\ IdsInv /\ OrderInv /\ [Next]_vars
    => OrderInv'
<1> SUFFICES ASSUME TypeOK, TypeOK', ArchiverFindsSession, HeldInv, IdsInv, OrderInv,
                    [Next]_vars, orderly'
             PROVE  Order'
  BY DEF OrderInv
<1> USE DEF storeVars, taskVars
<1>1. Order
  <2>1. ASSUME NEW p \in Pages, ReadRow(p) \/ Join(p) \/ Abandon(p) \/ Serve(p) PROVE orderly
    BY <2>1 DEF ReadRow, Starts, Join, FindSession, ContainsKey, InsertSession, GetSession,
                ReadDocument, StoreDocument, AddUser, OpenConnection, EnterSession, Abandon,
                Serve, Edit, Pong, Close, LoseConnection
  <2>2. ASSUME NEW i \in UserIds, GetIdle(i) PROVE orderly
    BY <2>2 DEF GetIdle
  <2>3. ASSUME NEW c \in Checkers, StartCheck(c) \/ Proceed(c) PROVE orderly
    BY <2>3 DEF StartCheck, CollectIdle, Starts, Proceed, MarkInactive, RemoveUser, CheckPanics,
                EndCheck
  <2>4. ASSUME Archive PROVE orderly
    BY <2>4 DEF Archive, CollectEmpty, ArchiveDocument, RemoveSession, Starts
  <2>5. ASSUME UNCHANGED vars PROVE orderly
    BY <2>5 DEF vars
  <2> QED BY <2>1, <2>2, <2>3, <2>4, <2>5 DEF Next, OrderInv
<1>2. CASE UNCHANGED vars
  BY <1>1, <1>2 DEF vars, Order, OneProcedure, JoinInv, ConnectionInv, CheckInv, ArchiveInv,
                    TextSurvives, Served, Joining, Connected, Checking, ActiveUsers, UsersOf
<1> QED BY <1>1, <1>2, JoinOrder, ServeOrder, IdleOrder, CheckOrder, ArchiveOrder DEF Next

\* The invariant holds in every reachable state: types, the archiver's session,
\* the sessions pages work on, the ids they have, and the order.
THEOREM Invariance == Spec => []IInv
<1>1. Init => IInv
  BY InitInv
<1>2. IInv /\ [Next]_vars => IInv'
  BY TypeStep, ArchiverStep, HeldStep, IdsStep, OrderStep DEF IInv
<1> QED BY <1>1, <1>2, PTL DEF Spec

\* The archiver never panics on a session that is gone: nobody else takes one
\* out of the map.
THEOREM ArchiverSafe == Spec => []ArchiverFindsSession
<1>1. IInv => ArchiverFindsSession
  BY DEF IInv
<1> QED BY <1>1, Invariance, PTL

\* As long as joins, checks and archiving come one after the other, no text is
\* lost, connections are served by the session in the map, and no task panics.
THEOREM OrderlySafe == Spec => []OrderlyIsSafe
<1>1. IInv => OrderlyIsSafe
  BY DEF IInv, OrderInv, Order, OrderlyIsSafe, ConnectionsAreServed, ConnectionInv
<1> QED BY <1>1, Invariance, PTL
=============================================================================
