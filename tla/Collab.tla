-------------------------------- MODULE Collab --------------------------------
(***************************************************************************)
(* Collaborative editing of one document: the Server of                    *)
(* rust/components/src/server, the Clients of rust/components/src/client   *)
(* and the websocket connection between each client and the server.        *)
(*                                                                         *)
(* A Client lives as long as a page.  A user may have several pages, one   *)
(* after the other (a reload keeps the user's id) or at once, and the      *)
(* server's task for the connection of a page may outlive it.              *)
(*                                                                         *)
(* The server orders the operations of all clients into one history of     *)
(* document states.  The task that had an operation accepted then reads    *)
(* the id of the current state and broadcasts, each in a step of its own,  *)
(* so that tasks may overlap; and a task subscribes to the broadcasts some *)
(* time before it takes the snapshot that its client starts with.  What    *)
(* comes of either is kept in the history variable disturbed.  A client    *)
(* shows its own edits at once; those the server has not sent back yet are *)
(* its bridge, which leads from the last server state it received to the   *)
(* document it shows.  One operation of a client is outstanding at a time. *)
(*                                                                         *)
(* What operations are and how they are transformed and composed is left   *)
(* to the constants, which TextOps (through MCCollabText) instantiates.    *)
(***************************************************************************)
EXTENDS Integers, Sequences, FiniteSets

CONSTANTS
  Clients,          \* pages, each with a Client, and their connections
  Users,            \* the ids of users
  User,             \* the user of each page
  Doc,              \* documents
  Op,               \* TextOperations
  InitDoc,          \* the document of state 0, empty or restored
  Size(_),          \* length of a document
  InLen(_),         \* input_length of an operation
  OutLen(_),        \* output_length of an operation
  Apply(_, _),      \* document after an operation
  Transform(_, _),  \* the pair transform returns, the first argument having
                    \* happened first
  Compose(_, _),    \* one operation for two consecutive ones
  Edits(_),         \* what a user may do to a document
  MaxDocChars,      \* MAX_DOC_CHARS
  EditBudget        \* bound: edits each client makes

ASSUME UserAssumption == User \in [Clients -> Users]

ASSUME BudgetAssumption == EditBudget \in [Clients -> Nat]

VARIABLES
  \* the server
  log,                \* states 1, 2, ... of the document with the operation
                      \* and the id that led to each
  kept,               \* the state ids still in document_states
  users, activeUsers, \* users, and those with activity.active
  userDocStates,      \* user_doc_states
  \* connections
  open,               \* the server's task of the connection runs
  starting,           \* it has subscribed to the broadcasts and not yet sent
                      \* the snapshot
  applied,            \* the update it is about to broadcast, if any
  toServer, toClient, \* messages under way
  lapsed,             \* history: since the connection opened its user was not
                      \* active all the time or had another connection
  disturbed,          \* history: since the connection opened, broadcasts have
                      \* overlapped while the client listened, or its snapshot
                      \* holds what is still to come
  \* clients
  status,             \* absent, opening (until the socket is open), joining
                      \* (until the snapshot), synced, panicked, closed (by
                      \* the page, which stays)
  document, lastServerStateId, clientBridge,
  edits               \* edits made, which number their ids

serverVars == <<log, kept, users, activeUsers, userDocStates>>
connVars   == <<open, starting, applied, toServer, toClient, lapsed, disturbed>>
clientVars == <<status, document, lastServerStateId, clientBridge, edits>>
vars       == <<serverVars, connVars, clientVars>>

-----------------------------------------------------------------------------
Id        == Clients \X (Nat \ {0})
LogEntry  == [id : Id, op : Op, document : Doc]
ClientOp  == [id : Id, op : Op, state : {"Unsent", "Pending"}]
ClientMsg == [id : Id, op : Op, state : Nat]
UpdateMsg == [kind : {"RemoteUpdate"}, id : Id, op : Op, state : Nat]
ServerMsg == UpdateMsg \cup [kind : {"Snapshot"}, document : Doc, state : Nat]

\* The state of an update whose task has not read the server's again.
NotRead == 0

Cur      == Len(log)
DocAt(k) == IF k = 0 THEN InitDoc ELSE log[k].document

TypeOK ==
  /\ log \in Seq(LogEntry)
  /\ kept \in SUBSET (0..Cur)
  /\ users \in SUBSET Users
  /\ activeUsers \in SUBSET users
  /\ userDocStates \in [Users -> 0..Cur]
  /\ open \in [Clients -> BOOLEAN]
  /\ starting \in SUBSET Clients
  /\ applied \in [Clients -> Seq(UpdateMsg)]
  /\ toServer \in [Clients -> Seq(ClientMsg)]
  /\ toClient \in [Clients -> Seq(ServerMsg)]
  /\ lapsed \in SUBSET Clients
  /\ disturbed \in SUBSET Clients
  /\ status \in [Clients -> {"absent", "opening", "joining", "synced", "panicked", "closed"}]
  /\ document \in [Clients -> Doc]
  /\ lastServerStateId \in [Clients -> Nat]
  /\ clientBridge \in [Clients -> Seq(ClientOp)]
  /\ edits \in [Clients -> Nat]

Init ==
  /\ log = <<>>
  /\ kept = {0}
  /\ users = {}
  /\ activeUsers = {}
  /\ userDocStates = [u \in Users |-> 0]
  /\ open = [c \in Clients |-> FALSE]
  /\ starting = {}
  /\ applied = [c \in Clients |-> <<>>]
  /\ toServer = [c \in Clients |-> <<>>]
  /\ toClient = [c \in Clients |-> <<>>]
  /\ lapsed = {}
  /\ disturbed = {}
  /\ status = [c \in Clients |-> "absent"]
  /\ document = [c \in Clients |-> InitDoc]
  /\ lastServerStateId = [c \in Clients |-> 0]
  /\ clientBridge = [c \in Clients |-> <<>>]
  /\ edits = [c \in Clients |-> 0]

-----------------------------------------------------------------------------
(* Joining and leaving                                                     *)

\* A new user is added at the current state, a returning one keeps the state it
\* had.
AddUser(u) ==
  /\ users' = users \cup {u}
  /\ userDocStates' = IF u \in users THEN userDocStates
                      ELSE [userDocStates EXCEPT ![u] = Cur]

\* A page joins: its user becomes active.  That ~open[c] says only that a page is
\* not taken for an earlier one whose task still runs; the user may have others.
Join(c) ==
  /\ status[c] = "absent"
  /\ ~open[c]
  /\ AddUser(User[c])
  /\ activeUsers' = activeUsers \cup {User[c]}
  /\ status' = [status EXCEPT ![c] = "opening"]
  /\ UNCHANGED <<log, kept, connVars, document, lastServerStateId, clientBridge, edits>>

\* The other connections of the user of c.
Others(c) == {d \in Clients \ {c} : open[d] /\ User[d] = User[c]}

\* The socket opens: the task of the connection starts and subscribes to the
\* broadcasts.
Connect(c) ==
  /\ status[c] = "opening"
  /\ open' = [open EXCEPT ![c] = TRUE]
  /\ starting' = starting \cup {c}
  /\ lapsed' = IF User[c] \in activeUsers /\ Others(c) = {}
               THEN lapsed ELSE lapsed \cup {c} \cup Others(c)
  /\ disturbed' = disturbed \ {c}
  /\ status' = [status EXCEPT ![c] = "joining"]
  /\ UNCHANGED <<serverVars, applied, toServer, toClient, document, lastServerStateId,
                 clientBridge, edits>>

\* The tasks between applying an operation and broadcasting it.
Late == {d \in Clients : applied[d] # <<>>}

\* The snapshot is taken, and sent before what has been broadcast since the
\* subscription: an update of that, or one that is still to be broadcast, is in
\* the snapshot and comes again.
SendSnapshot(c) ==
  /\ c \in starting
  /\ starting' = starting \ {c}
  /\ toClient' = [toClient EXCEPT ![c] =
        IF status[c] = "joining"
        THEN <<[kind |-> "Snapshot", document |-> DocAt(Cur), state |-> Cur]>> \o @ ELSE @]
  /\ disturbed' = IF status[c] = "joining" /\ (toClient[c] # <<>> \/ Late # {})
                  THEN disturbed \cup {c} ELSE disturbed
  /\ UNCHANGED <<serverVars, open, applied, toServer, lapsed, clientVars>>

\* A snapshot replaces the document; the bridge stays as it is.
ReceiveSnapshot(c) ==
  /\ status[c] = "joining"
  /\ c \notin starting
  /\ toClient[c] # <<>>
  /\ status' = [status EXCEPT ![c] = "synced"]
  /\ document' = [document EXCEPT ![c] = Head(toClient[c]).document]
  /\ lastServerStateId' = [lastServerStateId EXCEPT ![c] = Head(toClient[c]).state]
  /\ toClient' = [toClient EXCEPT ![c] = Tail(@)]
  /\ UNCHANGED <<serverVars, open, starting, applied, toServer, lapsed, disturbed,
                 clientBridge, edits>>

\* The page closes or reloads and the Client is gone.  What it has sent may
\* still arrive.
Leave(c) ==
  /\ status[c] # "absent"
  /\ status' = [status EXCEPT ![c] = "absent"]
  /\ document' = [document EXCEPT ![c] = InitDoc]
  /\ lastServerStateId' = [lastServerStateId EXCEPT ![c] = 0]
  /\ clientBridge' = [clientBridge EXCEPT ![c] = <<>>]
  /\ toClient' = [toClient EXCEPT ![c] = <<>>]
  /\ UNCHANGED <<serverVars, open, starting, applied, toServer, lapsed, disturbed, edits>>

\* The task of the connection waits for something to happen.
Waiting(c) == open[c] /\ c \notin starting /\ applied[c] = <<>>

EndConnection(c) == /\ open' = [open EXCEPT ![c] = FALSE]
                    /\ toServer' = [toServer EXCEPT ![c] = <<>>]

\* A user becomes inactive, whichever pages it has.
Deactivate(u) ==
  /\ activeUsers' = activeUsers \ {u}
  /\ lapsed' = {c \in Clients : open'[c] /\ (c \in lapsed \/ User[c] = u)}

\* The close frame, the last thing the client sends, reaches the server, which
\* marks the user even if there is another page by now.
HandleClose(c) ==
  /\ Waiting(c)
  /\ status[c] \in {"absent", "closed"}
  /\ toServer[c] = <<>>
  /\ EndConnection(c)
  /\ Deactivate(User[c])
  /\ UNCHANGED <<log, kept, users, userDocStates, starting, applied, toClient, disturbed,
                 clientVars>>

\* Reading or sending fails, or the broadcast receiver lags: the task ends and
\* the user stays active.
LoseConnection(c) ==
  /\ Waiting(c)
  /\ EndConnection(c)
  /\ lapsed' = lapsed \ {c}
  /\ UNCHANGED <<serverVars, starting, applied, toClient, disturbed, clientVars>>

\* Three pings without a pong, found by another connection or in the background.
MarkInactive(u) ==
  /\ u \in activeUsers
  /\ UNCHANGED open
  /\ Deactivate(u)
  /\ UNCHANGED <<log, kept, users, userDocStates, starting, applied, toServer, toClient,
                 disturbed, clientVars>>

\* The same found by a connection of the user, which closes.
CheckInactive(c) ==
  /\ Waiting(c)
  /\ EndConnection(c)
  /\ Deactivate(User[c])
  /\ UNCHANGED <<log, kept, users, userDocStates, starting, applied, toClient, disturbed,
                 clientVars>>

Pong(c) ==
  /\ Waiting(c)
  /\ User[c] \notin activeUsers
  /\ activeUsers' = activeUsers \cup {User[c]}
  /\ UNCHANGED <<log, kept, users, userDocStates, connVars, clientVars>>

-----------------------------------------------------------------------------
(* Editing                                                                 *)

\* Fault: a message is sent a second time in case the first is lost.
SendTwice(c, id, op, state) ==
  LET m == [id |-> id, op |-> op, state |-> state]
  IN  toServer' = [toServer EXCEPT ![c] = IF open[c] THEN @ \o <<m, m>> ELSE @]

\* A message is sent only while the socket is open, and dropped otherwise.
Send(c, id, op, state) ==
  toServer' = [toServer EXCEPT ![c] =
     IF open[c] THEN Append(@, [id |-> id, op |-> op, state |-> state]) ELSE @]

\* Fault: every operation is sent at once.
NothingAwaited(c) == TRUE

NothingOutstanding(c) == clientBridge[c] = <<>>

\* The editor changes: the document and the bridge follow at once.  The only
\* operation of the bridge is sent, one behind others waits.
Edit(c, op) ==
  LET id == <<c, edits[c] + 1>>
      first == NothingOutstanding(c)
  IN  /\ edits[c] < EditBudget[c]
      /\ OutLen(op) <= MaxDocChars
      /\ edits' = [edits EXCEPT ![c] = @ + 1]
      /\ document' = [document EXCEPT ![c] = Apply(@, op)]
      /\ clientBridge' = [clientBridge EXCEPT ![c] =
            Append(@, [id |-> id, op |-> op,
                       state |-> IF first THEN "Pending" ELSE "Unsent"])]
      /\ IF first THEN Send(c, id, op, lastServerStateId[c])
                  ELSE UNCHANGED toServer
      /\ UNCHANGED <<serverVars, open, starting, applied, toClient, lapsed, disturbed,
                     status, lastServerStateId>>

LocalEdit(c) == /\ status[c] = "synced"
                /\ \E op \in Edits(document[c]) : Edit(c, op)

\* The editor accepts input before the snapshot has arrived.
EarlyEdit(c) == /\ status[c] = "joining"
                /\ \E op \in Edits(document[c]) : Edit(c, op)

\* A limit of update_document is exceeded, or the Client has panicked: the page
\* closes the socket and receives nothing more.
RejectEdit(c) ==
  /\ status[c] \in {"synced", "panicked"}
  /\ status' = [status EXCEPT ![c] = "closed"]
  /\ toClient' = [toClient EXCEPT ![c] = <<>>]
  /\ UNCHANGED <<serverVars, open, starting, applied, toServer, lapsed, disturbed, document,
                 lastServerStateId, clientBridge, edits>>

-----------------------------------------------------------------------------
(* The server applies an operation                                         *)

\* The composition of the operations after state k, or nothing if compose
\* rejects one of them.
Composed(k) ==
  LET upTo[n \in (k+1)..Cur] ==
        IF n = k+1 THEN {log[n].op}
        ELSE {Compose(a, log[n].op) :
                a \in {b \in upTo[n-1] : OutLen(b) = InLen(log[n].op)}}
  IN  upTo[Cur]

\* Fault: an operation is taken as it comes.
NotRebased(m) == {m.op}

\* The operation of m for the current state: nothing if a state after the one
\* it was made for is gone, or the operations do not fit.
Rebased(m) ==
  CASE m.state = Cur -> {m.op}
    [] m.state < Cur /\ (m.state+1)..Cur \subseteq kept ->
         {Transform(a, m.op)[2] :
            a \in {b \in Composed(m.state) : InLen(b) = InLen(m.op)}}
    [] OTHER -> {}

Applicable(m) == {op \in Rebased(m) : InLen(op) = Size(DocAt(Cur))}

\* Fault: nothing is forwarded until the client has received its snapshot.
ListeningOnceSynced(c) == open[c] /\ status[c] = "synced"

\* Connections that forward what is broadcast to a client that reads it.
Listening(c) == open[c] /\ status[c] \in {"joining", "synced"}

\* The task of c has the operation accepted, which it is to broadcast.
ApplyClientOperation(c) ==
  /\ Waiting(c)
  /\ toServer[c] # <<>>
  /\ LET m == Head(toServer[c])
     IN  \E op \in Applicable(m) :
           /\ log' = Append(log, [id |-> m.id, op |-> op,
                                  document |-> Apply(DocAt(Cur), op)])
           /\ kept' = kept \cup {Cur + 1}
           /\ userDocStates' = [userDocStates EXCEPT ![User[c]] = m.state]
           /\ applied' = [applied EXCEPT ![c] =
                <<[kind |-> "RemoteUpdate", id |-> m.id, op |-> op, state |-> NotRead]>>]
  /\ toServer' = [toServer EXCEPT ![c] = Tail(@)]
  /\ disturbed' = IF Late = {} THEN disturbed
                  ELSE disturbed \cup {d \in Clients : Listening(d)}
  /\ UNCHANGED <<users, activeUsers, open, starting, toClient, lapsed, clientVars>>

\* It asks for the current state, which others may have moved on.
ReadStateId(c) ==
  /\ applied[c] # <<>>
  /\ applied[c][1].state = NotRead
  /\ applied' = [applied EXCEPT ![c] = <<[@[1] EXCEPT !.state = Cur]>>]
  /\ UNCHANGED <<serverVars, open, starting, toServer, toClient, lapsed, disturbed, clientVars>>

\* It broadcasts to whoever has subscribed by now.
Broadcast(c) ==
  /\ applied[c] # <<>>
  /\ applied[c][1].state # NotRead
  /\ toClient' = [d \in Clients |-> IF Listening(d) THEN Append(toClient[d], applied[c][1])
                                                    ELSE toClient[d]]
  /\ applied' = [applied EXCEPT ![c] = <<>>]
  /\ UNCHANGED <<serverVars, open, starting, toServer, lapsed, disturbed, clientVars>>

\* The error is unwrapped: the connection's task panics, the user stays active.
RejectClientOperation(c) ==
  /\ Waiting(c)
  /\ toServer[c] # <<>>
  /\ Applicable(Head(toServer[c])) = {}
  /\ EndConnection(c)
  /\ lapsed' = lapsed \ {c}
  /\ UNCHANGED <<serverVars, starting, applied, toClient, disturbed, clientVars>>

\* Fault: those who are not active are asked.
PruneToInactive ==
  /\ kept' = {k \in kept : k = Cur \/ \E u \in users \ activeUsers : userDocStates[u] <= k}
  /\ kept' # kept
  /\ UNCHANGED <<log, users, activeUsers, userDocStates, connVars, clientVars>>

\* Forget the states before the oldest one of an active user, but the last.
PruneDocumentStates ==
  /\ kept' = {k \in kept : k = Cur \/ \E u \in activeUsers : userDocStates[u] <= k}
  /\ kept' # kept
  /\ UNCHANGED <<log, users, activeUsers, userDocStates, connVars, clientVars>>

-----------------------------------------------------------------------------
(* A client receives an operation                                          *)

\* Fault: the client's operations count as the earlier ones.
PassingAfter(op, bridge) ==
  LET at[i \in 0..Len(bridge)] ==
        IF i = 0 THEN op ELSE Transform(bridge[i].op, at[i-1])[2]
  IN  at

\* Fault: only the outstanding operation is passed, those that wait are not.
PassingOutstanding(op, bridge) ==
  [i \in 0..Len(bridge) |-> IF i = 0 THEN op ELSE Transform(op, bridge[1].op)[1]]

\* The operation of the server as it passes each operation of the bridge.
Passing(op, bridge) ==
  LET at[i \in 0..Len(bridge)] ==
        IF i = 0 THEN op ELSE Transform(at[i-1], bridge[i].op)[1]
  IN  at

\* The lengths transform and apply unwrap.
Fits(op, bridge, doc) ==
  /\ \A i \in 1..Len(bridge) : InLen(Passing(op, bridge)[i-1]) = InLen(bridge[i].op)
  /\ InLen(Passing(op, bridge)[Len(bridge)]) = Size(doc)

Update(c) == Head(toClient[c])

ToReceive(c) == /\ status[c] = "synced"
                /\ toClient[c] # <<>>

IsAck(c) == /\ clientBridge[c] # <<>>
            /\ clientBridge[c][1].id = Update(c).id

\* Fault: the state of the message is not taken over.
ReceivedWithoutState(c) ==
  /\ toClient' = [toClient EXCEPT ![c] = Tail(@)]
  /\ UNCHANGED <<serverVars, open, starting, applied, lapsed, disturbed, edits, lastServerStateId>>

Received(c) ==
  /\ lastServerStateId' = [lastServerStateId EXCEPT ![c] = Update(c).state]
  /\ toClient' = [toClient EXCEPT ![c] = Tail(@)]
  /\ UNCHANGED <<serverVars, open, starting, applied, lapsed, disturbed, edits>>

\* A panic: the Client stays borrowed and every later call fails.
Panic(c) ==
  /\ status' = [status EXCEPT ![c] = "panicked"]
  /\ UNCHANGED <<serverVars, connVars, document, lastServerStateId, clientBridge, edits>>

\* Fault: an acknowledgement does not release the next operation.
ReceiveAckOnly(c) ==
  /\ ToReceive(c)
  /\ IsAck(c)
  /\ clientBridge[c][1].op = Update(c).op
  /\ clientBridge' = [clientBridge EXCEPT ![c] = Tail(@)]
  /\ Received(c)
  /\ UNCHANGED <<toServer, status, document>>

\* The server's form of the outstanding operation is the client's: the bridge
\* loses it, and the next operation is sent.
ReceiveAck(c) ==
  /\ ToReceive(c)
  /\ IsAck(c)
  /\ clientBridge[c][1].op = Update(c).op
  /\ LET rest == Tail(clientBridge[c])
     IN  IF rest = <<>>
           THEN /\ clientBridge' = [clientBridge EXCEPT ![c] = <<>>]
                /\ UNCHANGED toServer
           ELSE /\ clientBridge' = [clientBridge EXCEPT ![c] =
                                       [rest EXCEPT ![1].state = "Pending"]]
                /\ Send(c, rest[1].id, rest[1].op, Update(c).state)
  /\ Received(c)
  /\ UNCHANGED <<status, document>>

\* It is another operation than the client's.
ReceiveWrongAck(c) ==
  /\ ToReceive(c)
  /\ IsAck(c)
  /\ clientBridge[c][1].op # Update(c).op
  /\ Panic(c)

\* An operation of another client passes the bridge and changes the document.
ReceiveRemoteUpdate(c) ==
  /\ ToReceive(c)
  /\ ~IsAck(c)
  /\ LET op     == Update(c).op
         bridge == clientBridge[c]
         pass   == Passing(op, bridge)
     IN  IF Fits(op, bridge, document[c])
           THEN /\ document' = [document EXCEPT ![c] = Apply(@, pass[Len(bridge)])]
                /\ clientBridge' = [clientBridge EXCEPT ![c] =
                     [i \in 1..Len(bridge) |->
                        [bridge[i] EXCEPT !.op = Transform(pass[i-1], @)[2]]]]
                /\ Received(c)
                /\ UNCHANGED <<toServer, status>>
           ELSE Panic(c)

-----------------------------------------------------------------------------
ServerNext == \/ \E c \in Clients : \/ SendSnapshot(c)
                                    \/ ApplyClientOperation(c)
                                    \/ RejectClientOperation(c)
                                    \/ ReadStateId(c)
                                    \/ Broadcast(c)
                                    \/ HandleClose(c)
                                    \/ LoseConnection(c)
                                    \/ CheckInactive(c)
                                    \/ Pong(c)
              \/ \E u \in Users : MarkInactive(u)
              \/ PruneDocumentStates

ClientNext == \E c \in Clients : \/ Join(c)
                                 \/ Connect(c)
                                 \/ ReceiveSnapshot(c)
                                 \/ LocalEdit(c)
                                 \/ RejectEdit(c)
                                 \/ ReceiveAck(c)
                                 \/ ReceiveWrongAck(c)
                                 \/ ReceiveRemoteUpdate(c)
                                 \/ Leave(c)

Next == ServerNext \/ ClientNext

\* Users who wait for the document before they type.
Spec == Init /\ [][Next]_vars

\* Users who stay: no connection ends and nobody is marked inactive.
SteadyNext == \E c \in Clients : \/ Join(c)
                                 \/ Connect(c)
                                 \/ SendSnapshot(c)
                                 \/ ReceiveSnapshot(c)
                                 \/ LocalEdit(c)
                                 \/ ApplyClientOperation(c)
                                 \/ RejectClientOperation(c)
                                 \/ ReadStateId(c)
                                 \/ Broadcast(c)
                                 \/ ReceiveAck(c)
                                 \/ ReceiveWrongAck(c)
                                 \/ ReceiveRemoteUpdate(c)

SteadySpec == Init /\ [][SteadyNext]_vars

\* Users who type before the document has arrived.
EarlySpec == Init /\ [][Next \/ \E c \in Clients : EarlyEdit(c)]_vars

-----------------------------------------------------------------------------
(* Properties                                                              *)

\* Document d after the operations of a bridge, and after each of them.
Along(d, bridge) ==
  LET at[i \in 0..Len(bridge)] ==
        IF i = 0 THEN d ELSE Apply(at[i-1], bridge[i].op)
  IN  at

Leads(d, bridge, e) ==
  /\ \A i \in 1..Len(bridge) : InLen(bridge[i].op) = Size(Along(d, bridge)[i-1])
  /\ Along(d, bridge)[Len(bridge)] = e

\* A client that listens to broadcasts in the order of the history: no two tasks
\* were between applying and broadcasting at once since it subscribed, and
\* nothing that its snapshot holds came after it.
Undisturbed(c) == status[c] = "synced" /\ c \notin disturbed

\* The comment on client_bridge: it is the series of operations that transforms
\* the server's state, the last one received, to the client's.  Hence a client
\* with an empty bridge that has received every state shows the server's
\* document.  It holds of a client as long as no broadcasts have overlapped and
\* nothing of its snapshot has come again.
BridgeInv ==
  \A c \in Clients : Undisturbed(c) =>
    /\ lastServerStateId[c] <= Cur
    /\ Leads(DocAt(lastServerStateId[c]), clientBridge[c], document[c])

\* The length mismatches that the comments in apply_server_message say never
\* happen: whatever arrives at a client fits its bridge and its document, as
\* long as no broadcasts have overlapped and nothing of its snapshot has come
\* again.
TransformNeverFails ==
  \A c \in Clients : Undisturbed(c) /\ ToReceive(c) /\ ~IsAck(c) =>
    Fits(Update(c).op, clientBridge[c], document[c])

\* The comment and the assertion in try_ack_client_op: a client receives the
\* states one after the other.  A client that no overlap has disturbed, and to
\* which nothing of its snapshot has come again, does: it is sent the history after
\* its last state without a gap; and while its connection is open nothing is missing but
\* the operation, at most one, that a task has still to broadcast.
NoGap ==
  \A c \in Clients : Undisturbed(c) =>
    /\ \A i \in 1..Len(toClient[c]) :
         /\ toClient[c][i].state = lastServerStateId[c] + i
         /\ toClient[c][i].id = log[lastServerStateId[c] + i].id
    /\ open[c] => lastServerStateId[c] + Len(toClient[c]) + Cardinality(Late) = Cur

\* Single outstanding update: of a connected client's operations the first one
\* of the bridge, and no other, is under way, in exactly one place: to the
\* server, accepted and about to be broadcast, or on its way back.  Overlaps do
\* not change that.
SingleOutstanding ==
  \A c \in Clients : status[c] = "synced" =>
    LET bridge == clientBridge[c]
        sent   == toServer[c]
        back   == {i \in 1..Len(toClient[c]) : toClient[c][i].id[1] = c}
    IN  /\ \A i \in 1..Len(bridge) : bridge[i].state = "Pending" <=> i = 1
        /\ Len(sent) + Len(applied[c]) + Cardinality(back) <= 1
        /\ \A i \in 1..Len(sent) : bridge # <<>> /\ sent[i].id = bridge[1].id
        /\ applied[c] # <<>> => bridge # <<>> /\ applied[c][1].id = bridge[1].id
        /\ \A i \in back : bridge # <<>> /\ toClient[c][i].id = bridge[1].id
        /\ open[c] /\ bridge # <<>> => sent # <<>> \/ applied[c] # <<>> \/ back # {}

\* Pruning forgets a beginning of the history and never its end, so that what is
\* left can be composed, and the comments in apply_client_operation hold: the
\* state an operation was made for is a state the server knows, together with
\* every one after it.  This is for a user who, since the connection opened, has
\* been active and had no other connection, and for a client that no overlap and
\* no repeated update has disturbed.
BaseAvailable ==
  /\ \E oldest \in 0..Cur : kept = oldest..Cur
  /\ \A c \in Clients \ (lapsed \cup disturbed) : open[c] =>
       \A i \in 1..Len(toServer[c]) :
         /\ toServer[c][i].state <= Cur
         /\ (toServer[c][i].state + 1)..Cur \subseteq kept

\* When nothing is under way any more, to or from a connected client or in a task,
\* its edits are all accepted and it shows the server's document, unless an
\* overlap or an update of its snapshot that came again has disturbed it.  Nothing
\* is left waiting for an acknowledgement or a send that does not come.
AgreesAtRest ==
  Late = {} => \A c \in Clients :
    open[c] /\ Undisturbed(c) /\ toServer[c] = <<>> /\ toClient[c] = <<>> =>
      clientBridge[c] = <<>> /\ document[c] = DocAt(Cur)

\* The comment and the panic in try_ack_client_op: when an operation comes back,
\* the server has transformed it as the client has.  No overlap is needed to
\* break it.
AckMatches ==
  \A c \in Clients : Undisturbed(c) /\ ToReceive(c) /\ IsAck(c) =>
    clientBridge[c][1].op = Update(c).op

-----------------------------------------------------------------------------
(* The inductive invariant behind BridgeInv, NoGap and TransformNeverFails *)

\* Every operation of the history applies to the state before it.
LogInv ==
  \A k \in 1..Cur : /\ InLen(log[k].op) = Size(DocAt(k-1))
                    /\ log[k].document = Apply(DocAt(k-1), log[k].op)

SnapshotOf(k) == [kind |-> "Snapshot", document |-> DocAt(k), state |-> k]
UpdateOf(k) == [kind |-> "RemoteUpdate", id |-> log[k].id, op |-> log[k].op, state |-> k]

\* The update that the task of c is to broadcast is that of state k, the id of
\* which it may not have read yet.
Broadcasts(c, k) == /\ applied[c][1].id = log[k].id
                    /\ applied[c][1].op = log[k].op
                    /\ applied[c][1].state \in {NotRead, k}

\* The state before the first message on its way to c.
Seen(c) == IF status[c] = "joining" THEN Head(toClient[c]).state - 1
                                    ELSE lastServerStateId[c]

\* What is on its way to a client is the history after what it has seen,
Follows(c) ==
  /\ \A i \in 1..Len(toClient[c]) :
       (i = 1 /\ status[c] = "joining") \/ toClient[c][i] = UpdateOf(Seen(c) + i)
  /\ Seen(c) + Len(toClient[c]) <= Cur

\* all of it, but for the last operation if that is still to be broadcast.
AllSent(c) ==
  \/ Late = {} /\ Seen(c) + Len(toClient[c]) = Cur
  \/ \E d \in Clients : /\ Late = {d} /\ Broadcasts(d, Cur)
                        /\ Seen(c) + Len(toClient[c]) + 1 = Cur

InOrder(c) == Follows(c) /\ (open[c] => AllSent(c))

\* Who is sent the history in order, the snapshot first.
Attending(c) == /\ status[c] \in {"joining", "synced"}
                /\ c \notin starting
                /\ c \notin disturbed

DownInv == \A c \in Clients : Attending(c) => InOrder(c)

\* Whatever comes, a snapshot comes first, and after it nothing but updates.
Streams(c) ==
  /\ status[c] = "joining" /\ c \notin starting =>
       toClient[c] # <<>> /\ \E k \in 0..Cur : toClient[c][1] = SnapshotOf(k)
  /\ status[c] \in {"joining", "synced"} =>
       \A i \in 1..Len(toClient[c]) :
         (i = 1 /\ status[c] = "joining" /\ c \notin starting) \/ toClient[c][i] \in UpdateMsg
  /\ status[c] \in {"absent", "opening"} => toClient[c] = <<>>

\* The task of a connection that is starting has done nothing else yet, and a task
\* broadcasts one update at a time.
TaskInv(c) ==
  /\ applied[c] # <<>> => Len(applied[c]) = 1
  /\ c \in starting \/ applied[c] # <<>> => open[c]
  /\ c \in starting => applied[c] = <<>> /\ status[c] \in {"absent", "joining"}
  /\ status[c] = "opening" => ~open[c]

StreamInv == \A c \in Clients : Streams(c) /\ TaskInv(c)

\* Nothing is edited before the snapshot.
IdleInv == \A c \in Clients :
  status[c] \in {"absent", "opening", "joining"} => clientBridge[c] = <<>>

\* A connection belongs to a user the server knows.
UserInv == \A c \in Clients : open[c] \/ status[c] = "opening" => User[c] \in users

SyncInv == TypeOK /\ LogInv /\ StreamInv /\ DownInv /\ IdleInv /\ UserInv /\ BridgeInv

-----------------------------------------------------------------------------
(* The inductive invariant behind SingleOutstanding and SharedLog          *)

\* The operation is in the history.
Accepted(id) == \E k \in 1..Cur : log[k].id = id

\* The history holds edits that were made, none of them twice.
LogIdInv ==
  \A k \in 1..Cur : /\ log[k].id[2] <= edits[log[k].id[1]]
                    /\ \A j \in 1..Cur : log[j].id = log[k].id => j = k

\* At most one operation is on its way to the server, over a connection that is
\* open: an edit that is not in the history, the first of the client's bridge.
SentInv(c) ==
  /\ Len(toServer[c]) <= 1
  /\ toServer[c] # <<>> =>
       LET m == Head(toServer[c])
       IN  /\ open[c] /\ status[c] \notin {"opening", "joining"} /\ m.state <= Cur
           /\ m.id[1] = c /\ m.id[2] <= edits[c] /\ ~Accepted(m.id)
           /\ status[c] # "absent" => clientBridge[c] # <<>> /\ clientBridge[c][1].id = m.id
           /\ Undisturbed(c) => m.state <= lastServerStateId[c]

\* The bridge is the last edits of the client; only the first may be accepted.
OwnInv(c) ==
  /\ \A i \in 1..Len(clientBridge[c]) :
       clientBridge[c][i].id = <<c, edits[c] - Len(clientBridge[c]) + i>>
  /\ \A i \in 2..Len(clientBridge[c]) : ~Accepted(clientBridge[c][i].id)

\* What is broadcast is accepted before, and no state is sent that is not reached.
\* A task broadcasts what its own client has sent.
AcceptedInv(c) ==
  /\ applied[c] # <<>> => LET m == applied[c][1]
                          IN  m.id[1] = c /\ Accepted(m.id) /\ m.state <= Cur
  /\ \A i \in 1..Len(toClient[c]) :
       /\ toClient[c][i].state <= Cur
       /\ toClient[c][i] \in UpdateMsg => Accepted(toClient[c][i].id)
  /\ lastServerStateId[c] <= Cur

\* The messages to c with an operation of its own.
OwnUpdates(c) == {i \in 1..Len(toClient[c]) : toClient[c][i] \in UpdateMsg /\ toClient[c][i].id[1] = c}

\* An operation of a client is in one place, and is the first of its bridge.
FlightInv(c) ==
  /\ status[c] = "joining" => OwnUpdates(c) = {} /\ applied[c] = <<>>
  /\ status[c] = "synced" =>
       LET bridge == clientBridge[c]
       IN  /\ \A i \in 1..Len(bridge) : bridge[i].state = "Pending" <=> i = 1
           /\ applied[c] # <<>> => bridge # <<>> /\ applied[c][1].id = bridge[1].id
           /\ \A i \in OwnUpdates(c) : bridge # <<>> /\ toClient[c][i].id = bridge[1].id
           /\ \A i, j \in OwnUpdates(c) : i = j
           /\ toServer[c] # <<>> => applied[c] = <<>> /\ OwnUpdates(c) = {}
           /\ applied[c] # <<>> => OwnUpdates(c) = {}
           /\ open[c] /\ bridge # <<>> =>
                toServer[c] # <<>> \/ applied[c] # <<>> \/ OwnUpdates(c) # {}

OrderInv == LogIdInv /\ \A c \in Clients : SentInv(c) /\ OwnInv(c) /\ AcceptedInv(c) /\ FlightInv(c)

-----------------------------------------------------------------------------
(* The inductive invariant behind BaseAvailable                            *)

\* Nothing but a beginning of the history is forgotten.
KeptInv == Cur \in kept /\ \A j \in kept : j..Cur \subseteq kept

\* States that an operation of c may be made for, now or later.
Bases(c) == {toServer[c][i].state : i \in 1..Len(toServer[c])}
              \cup (IF status[c] = "synced" THEN {lastServerStateId[c]} ELSE {})
              \cup (IF status[c] = "joining" /\ c \notin starting
                    THEN {Head(toClient[c]).state} ELSE {})

\* Pruning asks for the state a user's last operation was made for.  Whoever has
\* not lapsed is asked and has one connection; and the next operation of a client
\* that is not disturbed is made for no earlier state.
BaseInv == \A c \in Clients \ lapsed : open[c] =>
             /\ User[c] \in activeUsers
             /\ Others(c) = {}
             /\ c \notin disturbed =>
                  \A k \in Bases(c) : userDocStates[User[c]] <= k /\ (k+1)..Cur \subseteq kept

IInv == SyncInv /\ OrderInv /\ KeptInv /\ BaseInv

-----------------------------------------------------------------------------
(* What it implements                                                      *)

Ids(s) == [i \in 1..Len(s) |-> s[i].id]

\* The edits of c that may still be accepted, the first of which may have been.
Owed(c) == LET ids == Ids(IF status[c] = "absent" THEN toServer[c] ELSE clientBridge[c])
           IN  IF ids # <<>> /\ Accepted(ids[1]) THEN Tail(ids) ELSE ids

\* The abstract log, and what of it each client still owes.
Abstract == INSTANCE SharedLog WITH
  log      <- Ids(log),
  pending  <- [c \in Clients |-> Owed(c)],
  made     <- edits,
  position <- [c \in Clients |->
                 IF status[c] \in {"absent", "opening", "joining"} \/ c \in disturbed
                 THEN -1 ELSE lastServerStateId[c]]

\* Every edit takes effect at most once and in its client's order, and a client
\* sees the history entry by entry until broadcasts overlap or something of its
\* snapshot comes again: the protocol implements SharedLog.
ImplementsSharedLog == Abstract!Spec

=============================================================================
