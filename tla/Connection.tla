------------------------------ MODULE Connection ------------------------------
(***************************************************************************)
(* The tasks of the websocket connections of one session, at the steps at  *)
(* which they let go of a lock: rust/app/src/websocket.rs.                 *)
(*                                                                         *)
(* An operation is applied under the server's lock, the id of the state is *)
(* read again, and then the update is broadcast; a connection subscribes,  *)
(* and takes its snapshot later.  Collab has these steps and says what     *)
(* they do to documents; here are those around them, the order and the     *)
(* numbers of updates, the configuration and who is shown as active.  The  *)
(* broadcast channel is a queue for every receiver.  A page lives with one *)
(* connection, since it never reconnects; a reload is another page of the  *)
(* same user.  What is sent to a page is taken to arrive at once: the      *)
(* socket keeps the order, and a page only reacts.  Documents and          *)
(* operations are numbers: operation n is the one that led to state n.     *)
(***************************************************************************)
EXTENDS Integers, Sequences, FiniteSets

CONSTANTS
  Users,
  Conns, UserOf,    \* connections, and whose they are
  Configs,          \* run configurations
  InitConfig,       \* RunConfig::default
  None,
  Capacity,         \* messages the broadcast channel keeps for a receiver
  Budgets           \* bounds: in each behaviour the updates that pages send, the
                    \* configurations they choose, and whether timers fire

ASSUME ConnectionAssumption ==
  /\ UserOf \in [Conns -> Users]
  /\ InitConfig \in Configs
  /\ Capacity \in Nat \ {0}
  /\ Budgets \subseteq [updates : Nat, choices : Nat, timers : BOOLEAN]

VARIABLES
  \* the session
  stateId,          \* current_state_id of the server
  config,           \* run_config
  active,           \* users with activity.active
  late,             \* users whose last_activity is too long ago
  \* the tasks
  at,               \* how far the task of a connection is
  held,             \* what it has read
  queue,            \* what its receiver has not read yet
  marking,          \* the background: users it has found late
  toServer,         \* what pages have sent
  \* the pages
  page,             \* none, live, gone
  snapshotId,       \* the state of its snapshot, -1 before it
  shownConfig, shownUsers,
  budget,           \* bound: what is left of one of Budgets
  \* history
  published,        \* the updates that have been broadcast
  from,             \* how many when the connection subscribed
  overlapped,       \* operations applied while another was on its way to bcast
  crossed           \* two changes of the configuration have overlapped

sessionVars == <<stateId, config, active, late>>
taskVars    == <<at, held, queue, marking>>
pageVars    == <<page, snapshotId, shownConfig, shownUsers, budget>>
history     == <<published, from, overlapped, crossed>>
vars        == <<sessionVars, taskVars, toServer, pageVars, history>>

-----------------------------------------------------------------------------
UpdateMsg(n, id) == [kind |-> "Update", op |-> n, state |-> id]
ConfigMsg(c)     == [kind |-> "Config", config |-> c]
UsersMsg(s)      == [kind |-> "UserList", users |-> s]

UpdateMsgs    == [kind : {"Update"}, op : Nat, state : Nat]
ConfigMsgs    == [kind : {"Config"}, config : Configs]
BroadcastMsgs == UpdateMsgs \cup ConfigMsgs \cup [kind : {"UserList"}, users : SUBSET Users]
PageMsgs      == [kind : {"Update", "Pong", "Close"}] \cup ConfigMsgs

Starting  == {"subscribed", "configured", "greeted", "listed"}
InHandler == {"applied", "numbered", "choosing", "closing", "leaving", "checking"}

\* A receiver exists from the subscription to the end of the task.
Receiving(k) == at[k] \in Starting \cup {"open"} \cup InHandler

\* An operation that is applied and not broadcast yet.
InFlight(k) == at[k] \in {"applied", "numbered"}
OpOf(k) == IF at[k] = "applied" THEN held[k] ELSE held[k].op

\* The page has a socket that is open.
Connected(k) == page[k] = "live" /\ Receiving(k)
Present(u)   == \E k \in Conns : UserOf[k] = u /\ page[k] = "live" /\ at[k] # "closed"

TypeOK ==
  /\ stateId \in Nat
  /\ config \in Configs
  /\ active \subseteq Users /\ late \subseteq Users
  /\ at \in [Conns -> {"unused", "joined", "open", "closed"} \cup Starting \cup InHandler]
  /\ DOMAIN held = Conns
  /\ \A k \in Conns :
       /\ at[k] \in {"configured", "choosing"} => held[k] \in Configs
       /\ at[k] \in {"listed", "leaving", "checking"} => held[k] \in SUBSET Users
       /\ at[k] = "applied" => held[k] \in Nat
       /\ at[k] = "numbered" => held[k] \in [op : Nat, state : Nat]
  /\ queue \in [Conns -> Seq(BroadcastMsgs)]
  /\ marking \subseteq Users
  /\ toServer \in [Conns -> Seq(PageMsgs)]
  /\ page \in [Conns -> {"none", "live", "gone"}]
  /\ snapshotId \in [Conns -> Nat \cup {-1}]
  /\ shownConfig \in [Conns -> Configs] /\ shownUsers \in [Conns -> SUBSET Users]
  /\ budget \in [updates : Nat, choices : Nat, timers : BOOLEAN]
  /\ published \in Seq(UpdateMsgs)
  /\ from \in [Conns -> Nat]
  /\ overlapped \subseteq Nat /\ crossed \in BOOLEAN

Init ==
  /\ stateId = 0
  /\ config = InitConfig
  /\ active = {} /\ late = {}
  /\ at = [k \in Conns |-> "unused"]
  /\ held = [k \in Conns |-> None]
  /\ queue = [k \in Conns |-> <<>>]
  /\ marking = {}
  /\ toServer = [k \in Conns |-> <<>>]
  /\ page = [k \in Conns |-> "none"]
  /\ snapshotId = [k \in Conns |-> -1]
  /\ shownConfig = [k \in Conns |-> InitConfig]
  /\ shownUsers = [k \in Conns |-> {}]
  /\ budget \in Budgets
  /\ published = <<>>
  /\ from = [k \in Conns |-> 0]
  /\ overlapped = {} /\ crossed = FALSE

-----------------------------------------------------------------------------
(* Opening connection k                                                    *)

Goto(k, where, what) == /\ at' = [at EXCEPT ![k] = where]
                        /\ held' = [held EXCEPT ![k] = what]

\* The user joins, or rejoins after a reload, and is active.
JoinSession(k) ==
  /\ at[k] = "unused"
  /\ ~\E j \in Conns : UserOf[j] = UserOf[k] /\ page[j] = "live"
  /\ page' = [page EXCEPT ![k] = "live"]
  /\ Goto(k, "joined", None)
  /\ active' = active \cup {UserOf[k]}
  /\ late' = late \ {UserOf[k]}
  /\ UNCHANGED <<stateId, config, queue, marking, toServer, snapshotId,
                 shownConfig, shownUsers, budget, history>>

\* The connection becomes a receiver of the broadcasts of its session.
Subscribe(k) ==
  /\ at[k] = "joined"
  /\ Goto(k, "subscribed", None)
  /\ from' = [from EXCEPT ![k] = Len(published)]
  /\ UNCHANGED <<sessionVars, queue, marking, toServer, pageVars, published, overlapped,
                 crossed>>

\* The run configuration is read for the snapshot, before the server is locked.
ReadConfig(k) ==
  /\ at[k] = "subscribed"
  /\ Goto(k, "configured", config)
  /\ UNCHANGED <<sessionVars, queue, marking, toServer, pageVars, history>>

\* The server stays locked for reading while the snapshot and the users are sent.
SendSnapshot(k) ==
  /\ at[k] = "configured"
  /\ Goto(k, "greeted", None)
  /\ IF page[k] = "live"
       THEN /\ snapshotId' = [snapshotId EXCEPT ![k] = stateId]
            /\ shownConfig' = [shownConfig EXCEPT ![k] = held[k]]
            /\ shownUsers' = [shownUsers EXCEPT ![k] = active]
       ELSE UNCHANGED <<snapshotId, shownConfig, shownUsers>>
  /\ UNCHANGED <<sessionVars, queue, marking, toServer, page, budget, history>>

\* Fault: the task subscribes once the snapshot is sent.
SubscribeLate(k) ==
  /\ \/ at[k] = "greeted" /\ Goto(k, "listed", active)
     \/ at[k] = "closing" /\ Goto(k, "leaving", active)
  /\ queue' = [queue EXCEPT ![k] = <<>>]
  /\ from' = [from EXCEPT ![k] = Len(published)]
  /\ UNCHANGED <<sessionVars, marking, toServer, pageVars, published, overlapped, crossed>>

\* broadcast_user_list reads the active users and then sends them.
ReadUserList(k) ==
  /\ \/ at[k] = "greeted" /\ Goto(k, "listed", active)
     \/ at[k] = "closing" /\ Goto(k, "leaving", active)
  /\ UNCHANGED <<sessionVars, queue, marking, toServer, pageVars, history>>

\* The task ends and drops its receiver and its half of the socket.
Ends(k) == /\ Goto(k, "closed", None)
           /\ toServer' = [toServer EXCEPT ![k] = <<>>]

Enqueued(m) == [k \in Conns |-> IF Receiving(k) THEN Append(queue[k], m) ELSE queue[k]]

Broadcast(m) == queue' = Enqueued(m)

\* The list of a joining user goes out before its messages are handled, that of
\* a leaving one last.
BroadcastUserList(k) ==
  /\ \/ /\ at[k] = "listed"
        /\ Goto(k, "open", None)
        /\ Broadcast(UsersMsg(held[k]))
        /\ UNCHANGED toServer
     \/ /\ at[k] = "leaving"
        /\ Ends(k)
        /\ queue' = [Enqueued(UsersMsg(held[k])) EXCEPT ![k] = <<>>]
  /\ UNCHANGED <<sessionVars, marking, pageVars, history>>

-----------------------------------------------------------------------------
(* Messages of the page                                                    *)

Take(k, kind) == /\ at[k] = "open"
                 /\ toServer[k] # <<>>
                 /\ Head(toServer[k]).kind = kind
                 /\ toServer' = [toServer EXCEPT ![k] = Tail(@)]

\* Those that are on their way to bcast overlap the operation applied now.
Overlaps(n) == LET others == {OpOf(j) : j \in {i \in Conns : InFlight(i)}}
               IN  IF others = {} THEN {} ELSE others \cup {n}

\* The server is locked for the operation only.
ApplyUpdate(k) ==
  /\ Take(k, "Update")
  /\ stateId' = stateId + 1
  /\ Goto(k, "applied", stateId + 1)
  /\ overlapped' = overlapped \cup Overlaps(stateId + 1)
  /\ UNCHANGED <<config, active, late, queue, marking, pageVars, published, from, crossed>>

\* Fault: the id of the state that the next operation will lead to.
ReadNextId(k) ==
  /\ at[k] = "applied"
  /\ Goto(k, "numbered", [op |-> held[k], state |-> stateId + 1])
  /\ UNCHANGED <<sessionVars, queue, marking, toServer, pageVars, history>>

\* The id of the update is that of the state the server is at when it is read.
ReadStateId(k) ==
  /\ at[k] = "applied"
  /\ Goto(k, "numbered", [op |-> held[k], state |-> stateId])
  /\ UNCHANGED <<sessionVars, queue, marking, toServer, pageVars, history>>

BroadcastUpdate(k) ==
  /\ at[k] = "numbered"
  /\ Broadcast(UpdateMsg(held[k].op, held[k].state))
  /\ published' = Append(published, UpdateMsg(held[k].op, held[k].state))
  /\ Goto(k, "open", None)
  /\ UNCHANGED <<sessionVars, marking, toServer, pageVars, from, overlapped, crossed>>

SetRunConfig(k) ==
  /\ Take(k, "Config")
  /\ config' = Head(toServer[k]).config
  /\ Goto(k, "choosing", Head(toServer[k]).config)
  /\ crossed' = (crossed \/ \E j \in Conns : at[j] = "choosing")
  /\ UNCHANGED <<stateId, active, late, queue, marking, pageVars, published,
                 from, overlapped>>

\* Fault: the page that chose is left out, since it shows its choice already.
BroadcastToOthers(k) ==
  /\ at[k] = "choosing"
  /\ queue' = [Enqueued(ConfigMsg(held[k])) EXCEPT ![k] = queue[k]]
  /\ Goto(k, "open", None)
  /\ UNCHANGED <<sessionVars, marking, toServer, pageVars, history>>

BroadcastConfig(k) ==
  /\ at[k] = "choosing"
  /\ Broadcast(ConfigMsg(held[k]))
  /\ Goto(k, "open", None)
  /\ UNCHANGED <<sessionVars, marking, toServer, pageVars, history>>

\* Fault: a pong says when the user was there, not that it is.
PongWithoutActive(k) ==
  /\ Take(k, "Pong")
  /\ late' = late \ {UserOf[k]}
  /\ UNCHANGED <<stateId, config, active, taskVars, pageVars, history>>

Pong(k) ==
  /\ Take(k, "Pong")
  /\ active' = active \cup {UserOf[k]}
  /\ late' = late \ {UserOf[k]}
  /\ UNCHANGED <<stateId, config, taskVars, pageVars, history>>

\* The close frame marks the user inactive, whatever connections it has besides.
Close(k) ==
  /\ Take(k, "Close")
  /\ active' = active \ {UserOf[k]}
  /\ Goto(k, "closing", None)
  /\ UNCHANGED <<stateId, config, late, queue, marking, pageVars, history>>

\* The stream of the socket ends without a close frame.
StreamEnds(k) ==
  /\ at[k] = "open"
  /\ Ends(k)
  /\ queue' = [queue EXCEPT ![k] = <<>>]
  /\ UNCHANGED <<sessionVars, marking, pageVars, history>>

-----------------------------------------------------------------------------
(* Broadcasts, pings and checks                                            *)

\* A receiver that has fallen behind gets an error.
Lagged(k) == Len(queue[k]) > Capacity

\* What page k shows after message m.
Show(k, m) ==
  /\ shownConfig' = IF m.kind = "Config" /\ page[k] = "live"
                      THEN [shownConfig EXCEPT ![k] = m.config] ELSE shownConfig
  /\ shownUsers' = IF m.kind = "UserList" /\ page[k] = "live"
                      THEN [shownUsers EXCEPT ![k] = m.users] ELSE shownUsers

Forward(k) ==
  /\ at[k] = "open"
  /\ queue[k] # <<>>
  /\ ~Lagged(k)
  /\ queue' = [queue EXCEPT ![k] = Tail(@)]
  /\ Show(k, Head(queue[k]))
  /\ UNCHANGED <<sessionVars, at, held, marking, toServer, page, snapshotId, budget, history>>

ForwardFails(k) ==
  /\ at[k] = "open"
  /\ queue[k] # <<>>
  /\ Lagged(k) \/ page[k] = "gone"
  /\ Ends(k)
  /\ queue' = [queue EXCEPT ![k] = <<>>]
  /\ UNCHANGED <<sessionVars, marking, pageVars, history>>

\* Bound: one pong of a connection is under way at a time.
PingDue(k) == /\ budget.timers
              /\ at[k] = "open"
              /\ page[k] = "live"
              /\ \A i \in 1..Len(toServer[k]) : toServer[k][i].kind # "Pong"

\* The browser answers a ping.
Answer(k) == toServer' = [toServer EXCEPT ![k] = Append(@, [kind |-> "Pong"])]

\* Fault: the list of users is left to the broadcasts.
PingOnly(k) ==
  /\ PingDue(k)
  /\ Answer(k)
  /\ UNCHANGED <<sessionVars, taskVars, pageVars, history>>

\* A ping and, past the broadcasts that wait, the list of users.
SendPing(k) ==
  /\ PingDue(k)
  /\ Answer(k)
  /\ Show(k, UsersMsg(active))
  /\ UNCHANGED <<sessionVars, taskVars, page, snapshotId, budget, history>>

\* A check finds late users and then marks them, whoever has come back since.
CheckInactive(k) ==
  /\ budget.timers
  /\ at[k] = "open"
  /\ late # {}
  /\ Goto(k, "checking", late)
  /\ UNCHANGED <<sessionVars, queue, marking, toServer, pageVars, history>>

\* A connection whose own user was late closes.
MarkInactive(k) ==
  /\ at[k] = "checking"
  /\ active' = active \ held[k]
  /\ IF UserOf[k] \in held[k]
       THEN Ends(k) /\ queue' = [queue EXCEPT ![k] = <<>>]
       ELSE Goto(k, "open", None) /\ UNCHANGED <<toServer, queue>>
  /\ UNCHANGED <<stateId, config, late, marking, pageVars, history>>

\* The check in the background.
BackgroundCheck ==
  /\ marking = {}
  /\ late # {}
  /\ marking' = late
  /\ UNCHANGED <<sessionVars, at, held, queue, toServer, pageVars, history>>

BackgroundMark ==
  /\ marking # {}
  /\ active' = active \ marking
  /\ marking' = {}
  /\ UNCHANGED <<stateId, config, late, at, held, queue, toServer, pageVars, history>>

\* Time passes for a user who has no page that answers pings.
GoLate(u) ==
  /\ budget.timers
  /\ u \notin late
  /\ \E k \in Conns : UserOf[k] = u /\ at[k] # "unused"
  /\ ~Present(u)
  /\ late' = late \cup {u}
  /\ UNCHANGED <<stateId, config, active, taskVars, toServer, pageVars, history>>

-----------------------------------------------------------------------------
(* The page of connection k                                                *)

ToServer(k, m) == toServer' = [toServer EXCEPT ![k] = Append(@, m)]

SendUpdate(k) ==
  /\ Connected(k)
  /\ snapshotId[k] # -1
  /\ budget.updates > 0
  /\ budget' = [budget EXCEPT !.updates = @ - 1]
  /\ ToServer(k, [kind |-> "Update"])
  /\ UNCHANGED <<sessionVars, taskVars, page, snapshotId, shownConfig, shownUsers, history>>

\* A choice shows at once.
ChooseConfig(k) ==
  /\ Connected(k)
  /\ snapshotId[k] # -1
  /\ budget.choices > 0
  /\ budget' = [budget EXCEPT !.choices = @ - 1]
  /\ \E c \in Configs \ {shownConfig[k]} :
       /\ shownConfig' = [shownConfig EXCEPT ![k] = c]
       /\ ToServer(k, ConfigMsg(c))
  /\ UNCHANGED <<sessionVars, taskVars, page, snapshotId, shownUsers, history>>

\* The page closes or reloads, with or without a close frame.
Leave(k) ==
  /\ page[k] = "live"
  /\ page' = [page EXCEPT ![k] = "gone"]
  /\ snapshotId' = [snapshotId EXCEPT ![k] = -1]
  /\ shownConfig' = [shownConfig EXCEPT ![k] = InitConfig]
  /\ shownUsers' = [shownUsers EXCEPT ![k] = {}]
  /\ \/ Receiving(k) /\ ToServer(k, [kind |-> "Close"])
     \/ UNCHANGED toServer
  /\ UNCHANGED <<sessionVars, taskVars, budget, history>>

-----------------------------------------------------------------------------
Open(k) == Subscribe(k) \/ ReadConfig(k) \/ SendSnapshot(k)

\* The branches of the select of handle_messages, and how they go on.
Handle(k) == ApplyUpdate(k) \/ SetRunConfig(k) \/ Pong(k) \/ Close(k) \/ StreamEnds(k)
Finish(k) == \/ ReadStateId(k) \/ BroadcastUpdate(k) \/ BroadcastConfig(k)
             \/ ReadUserList(k) \/ BroadcastUserList(k)
             \/ MarkInactive(k)
Pass(k)   == Forward(k) \/ ForwardFails(k)

Page(k) == JoinSession(k) \/ SendUpdate(k) \/ ChooseConfig(k) \/ Leave(k)

Next == \/ \E k \in Conns : \/ Open(k) \/ Handle(k) \/ Finish(k) \/ Pass(k)
                            \/ SendPing(k) \/ CheckInactive(k) \/ Page(k)
        \/ \E u \in Users : GoLate(u)
        \/ BackgroundCheck \/ BackgroundMark

Spec == Init /\ [][Next]_vars

\* The runtime runs every task; select takes a ready branch at random, so that
\* one that is ready time and again is taken; timers of pings and checks fire.
Fairness ==
  /\ \A k \in Conns :
       /\ WF_vars(Open(k)) /\ WF_vars(Finish(k))
       /\ SF_vars(ApplyUpdate(k) \/ SetRunConfig(k) \/ Pong(k) \/ Close(k))
       /\ SF_vars(Pass(k)) /\ SF_vars(SendPing(k)) /\ SF_vars(CheckInactive(k))
  /\ \A u \in Users : WF_vars(GoLate(u))
  /\ WF_vars(BackgroundCheck) /\ WF_vars(BackgroundMark)

FairSpec == Spec /\ Fairness

-----------------------------------------------------------------------------
(* Properties                                                              *)

\* Updates are broadcast under their own number and in their order, but for
\* those that two connections apply before either has broadcast: the state id is
\* read again and the channel is entered without the server's lock.
OrderedUnlessOverlapped ==
  \A i \in 1..Len(published) : published[i].op \notin overlapped =>
    /\ published[i].state = published[i].op
    /\ \A j \in 1..(i-1) : published[j].op < published[i].op

\* What is not in the snapshot of a page is broadcast after the page's connection
\* has subscribed, or will be: nothing is missed between snapshot and updates.
NothingMissed ==
  \A k \in Conns : snapshotId[k] # -1 =>
    \A n \in (snapshotId[k]+1)..stateId :
      \/ \E j \in Conns : InFlight(j) /\ OpOf(j) = n
      \/ \E i \in (from[k]+1)..Len(published) : published[i].op = n

\* Every operation is broadcast once: it is on its way or has been broadcast, and
\* operations on their way at the same time are known to overlap.
FlightInv ==
  /\ \A k \in Conns : InFlight(k) =>
       /\ OpOf(k) \in 1..stateId
       /\ \A i \in 1..Len(published) : published[i].op # OpOf(k)
       /\ OpOf(k) \notin overlapped =>
            /\ OpOf(k) = stateId
            /\ at[k] = "numbered" => held[k].state = stateId
  /\ \A j, k \in Conns : InFlight(j) /\ InFlight(k) /\ j # k =>
       OpOf(j) # OpOf(k) /\ OpOf(j) \in overlapped
  /\ \A i \in 1..Len(published) : published[i].op \in 1..stateId
  /\ \A i, j \in 1..Len(published) : i # j => published[i].op # published[j].op

\* A connection that has not subscribed has no snapshot.
SubscribedInv ==
  \A k \in Conns : /\ from[k] <= Len(published)
                   /\ at[k] \in {"unused", "joined"} => snapshotId[k] = -1

NoConfig(msgs) == \A i \in 1..Len(msgs) : msgs[i].kind # "Config"

\* The newest configuration among messages.
NewestConfig(msgs, c) == \E i \in 1..Len(msgs) :
                           /\ msgs[i] = ConfigMsg(c)
                           /\ \A j \in (i+1)..Len(msgs) : msgs[j].kind # "Config"

\* The session's configuration is on its way to connection k, or has arrived: its
\* task has read it, its page shows it or has since chosen another.
Informed(k) ==
  \/ NewestConfig(queue[k], config)
  \/ /\ NoConfig(queue[k])
     /\ at[k] = "configured" => held[k] = config
     /\ at[k] \notin {"subscribed", "configured"} /\ page[k] = "live" /\ NoConfig(toServer[k])
          => shownConfig[k] = config

\* Every connection is informed, or the one task that has stored a configuration
\* is about to broadcast it.
ConfigInv ==
  /\ \A k \in Conns : ~Receiving(k) => queue[k] = <<>>
  /\ ~crossed => \/ \E k \in Conns : /\ at[k] = "choosing" /\ held[k] = config
                                     /\ \A j \in Conns \ {k} : at[j] # "choosing"
                 \/ \A k \in Conns : /\ at[k] # "choosing"
                                     /\ Receiving(k) => Informed(k)

\* The inductive invariant.
IInv == /\ TypeOK /\ FlightInv /\ SubscribedInv /\ OrderedUnlessOverlapped /\ NothingMissed
        /\ ConfigInv

\* Nothing that could change what page k shows of the configuration is under way.
ConfigQuiet(k) ==
  /\ at[k] = "open"
  /\ queue[k] = <<>>
  /\ \A j \in Conns : /\ at[j] # "choosing"
                      /\ \A i \in 1..Len(toServer[j]) : toServer[j][i].kind # "Config"

\* Pages show the configuration of the session, whenever they joined and
\* whoever changes it, unless two changes have overlapped: then the last one that
\* is stored need not be the last one that is broadcast.
ConfigAgrees ==
  ~crossed => \A k \in Conns :
    Connected(k) /\ ConfigQuiet(k) => shownConfig[k] = config

\* The users whose pages are there are the active ones in the end, although the
\* close of a page that reloads comes after its user has joined again, and a
\* check may mark who has come back since it looked.
ActivityConverges ==
  budget.timers => <>[](/\ \A k \in Conns : Connected(k) /\ at[k] = "open" => UserOf[k] \in active
                        /\ \A u \in active : Present(u))

\* In the end every page shows the active users, although lists are read and sent
\* in separate steps, and those of the pings overtake those that are broadcast.
UserListsConverge ==
  budget.timers =>
    <>[](\A k \in Conns : Connected(k) /\ at[k] = "open" => shownUsers[k] = active)
=============================================================================
