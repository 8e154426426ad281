------------------------------ MODULE SimNetwork ------------------------------
(***************************************************************************)
(* The network the tests of the repository simulate, with the server and   *)
(* the clients as its components: rust/components/src/network/mod.rs,      *)
(* ServerNetwork of server/mod.rs and ClientNetwork of client/mod.rs.      *)
(*                                                                         *)
(* One loop fires events by time.  A test adds components, schedules edits *)
(* and late joiners, and runs the loop until no event is left; it may do   *)
(* so again.  The events are in a BinaryHeap, modelled here as the library *)
(* has it, since the order it gives to events of one instant is what the   *)
(* tests rest on.  An operation is named by its client and a number, and a *)
(* document is the set of the operations in it.                            *)
(***************************************************************************)
EXTENDS Integers, Sequences, FiniteSets

Sets == INSTANCE FiniteSetsExt
Seqs == INSTANCE SequencesExt

CONSTANTS
  Server, Clients,  \* component ids
  NoTime,
  Delays,           \* the delays of messages
  MaxTime,          \* bound: when edits and late joiners are scheduled
  MaxEdits          \* bound: edits of all clients

ASSUME SimNetworkAssumption ==
  /\ Server \notin Clients
  /\ Delays \subseteq Nat
  /\ NoTime \notin Nat
  /\ MaxTime \in Nat /\ MaxEdits \in Nat

VARIABLES
  networkState,     \* Initializing, Running, Stopped
  tickTime,         \* the time of the events the tick under way fires
  clock, events,
  components,       \* that are added
  clientIds,        \* the clients among them, in that order
  delay,            \* component_metadata: of messages from and to each client
  log,              \* the server: the operations applied, one for each state
  document, lastServerStateId, clientBridge,    \* of each client
  edits,            \* edits scheduled for each client
  panicked,         \* a debug_assert has failed
  tied              \* history: two updates were due at one client at one time

testVars    == <<networkState, tickTime, clock>>
networkVars == <<components, clientIds>>
clientVars  == <<document, lastServerStateId, clientBridge>>
vars        == <<testVars, networkVars, clientVars, edits, delay, events, log, panicked, tied>>

-----------------------------------------------------------------------------
(* Events                                                                  *)

Local(c, op, time)  == [kind |-> "Local", dest |-> c, op |-> op, time |-> time]
LateJoiner(c, time) == [kind |-> "LateJoiner", dest |-> c, time |-> time]
Remote(from, to, op, state, time) ==
  [kind |-> "Remote", source |-> from, dest |-> to, op |-> op, state |-> state, time |-> time]
Snapshot(c, doc, state, time) ==
  [kind |-> "Snapshot", dest |-> c, document |-> doc, state |-> state, time |-> time]

Delay(from, to) == IF to = Server THEN delay[from].toServer ELSE delay[to].toClient

\* When a message sent now arrives.
ReceiveTime(from, to) == clock' + Delay(from, to)

\* Fault: a snapshot has no precedence.
NoPrecedence(e) == 1

\* A snapshot comes before what else happens at its time.
NetworkMessageOrder(e) == IF e.kind = "Snapshot" THEN 0 ELSE 1

Before(e, f) == \/ e.time < f.time
                \/ e.time = f.time /\ NetworkMessageOrder(e) < NetworkMessageOrder(f)

(* The heap: the children of i are 2 * i and 2 * i + 1. *)
Parent(i) == i \div 2

\* What is at j moves to the hole, and the hole to j.
MoveTo(s, j) == [heap |-> [s.heap EXCEPT ![s.hole] = s.heap[j]], hole |-> j]

\* The hole goes up as long as e comes before what is there.
Climb(s, e) == IF s.hole > 1 /\ Before(e, s.heap[Parent(s.hole)])
                 THEN MoveTo(s, Parent(s.hole)) ELSE s

\* It goes down to the child that comes first, the right one if neither does.
Descend(s) ==
  LET left  == 2 * s.hole
      first == IF left < Len(s.heap) /\ ~Before(s.heap[left], s.heap[left + 1])
                 THEN left + 1 ELSE left
  IN  IF left <= Len(s.heap) THEN MoveTo(s, first) ELSE s

\* The loops end before they have gone through the heap.
SiftUp(s, e) ==
  LET at[n \in 0..Len(s.heap)] == IF n = 0 THEN s ELSE Climb(at[n-1], e)
      top == at[Len(s.heap)]
  IN  [top.heap EXCEPT ![top.hole] = e]

SiftDownToBottom(s) ==
  LET at[n \in 0..Len(s.heap)] == IF n = 0 THEN s ELSE Descend(at[n-1])
  IN  at[Len(s.heap)]

Push(heap, e) == SiftUp([heap |-> Append(heap, e), hole |-> Len(heap) + 1], e)

\* The last event takes the place of the first, goes down to the bottom, and up
\* from there.
Pop(heap) ==
  LET rest == Seqs!Front(heap)
  IN  IF rest = <<>> THEN <<>>
      ELSE SiftUp(SiftDownToBottom([heap |-> rest, hole |-> 1]), heap[Len(heap)])

PushAll(heap, new) ==
  LET pushed[n \in 0..Len(new)] == IF n = 0 THEN heap ELSE Push(pushed[n-1], new[n])
  IN  pushed[Len(new)]

-----------------------------------------------------------------------------
Init ==
  /\ networkState = "Initializing"
  /\ tickTime = NoTime
  /\ clock = 0
  /\ events = <<>>
  /\ components = {}
  /\ clientIds = <<>>
  /\ delay \in [Clients -> [toServer : Delays, toClient : Delays]]
  /\ log = <<>>
  /\ document = [c \in Clients |-> {}]
  /\ lastServerStateId = [c \in Clients |-> 0]
  /\ clientBridge = [c \in Clients |-> <<>>]
  /\ edits = [c \in Clients |-> 0]
  /\ panicked = FALSE
  /\ tied = FALSE

-----------------------------------------------------------------------------
(* The test                                                                *)

\* Nothing runs: a test may call the network.
Idle == tickTime = NoTime /\ ~panicked

Ticking == tickTime # NoTime /\ ~panicked

\* Clients that are to join.
Expected == {events[i].dest : i \in {j \in DOMAIN events : events[j].kind = "LateJoiner"}}

AddServer ==
  /\ Idle
  /\ networkState = "Initializing"
  /\ Server \notin components
  /\ components' = components \cup {Server}
  /\ UNCHANGED <<testVars, clientIds, clientVars, edits, delay, events, log, panicked, tied>>

AddComponent(c) ==
  /\ Server \in components /\ c \notin components
  /\ components' = components \cup {c}
  /\ clientIds' = Append(clientIds, c)

\* The snapshot of a client that is there from the start has no delay.
SnapshotTime(c, lateJoiner) == IF lateJoiner THEN ReceiveTime(Server, c) ELSE clock'

NewClient(c, lateJoiner) ==
  Snapshot(c, Seqs!ToSet(log), Len(log), SnapshotTime(c, lateJoiner))

AddComponentSod(c) ==
  /\ Idle
  /\ networkState = "Initializing"
  /\ c \notin Expected
  /\ AddComponent(c)
  /\ UNCHANGED <<testVars, clientVars, edits, delay, log, panicked, tied>>
  /\ events' = Push(events, NewClient(c, FALSE))

ScheduleLocalMessage(c, time) ==
  /\ Idle
  /\ c \in components
  /\ Sets!MapThenSumSet(LAMBDA d : edits[d], Clients) < MaxEdits
  /\ edits' = [edits EXCEPT ![c] = @ + 1]
  /\ events' = Push(events, Local(c, <<c, edits'[c]>>, time))
  /\ UNCHANGED <<testVars, networkVars, clientVars, delay, log, panicked, tied>>

ScheduleLateJoiner(c, time) ==
  /\ Idle
  /\ c \notin components \cup Expected
  /\ events' = Push(events, LateJoiner(c, time))
  /\ UNCHANGED <<testVars, networkVars, clientVars, edits, delay, log, panicked, tied>>

\* run: the first tick, and one after another as long as there are events.
Run ==
  /\ Idle
  /\ Server \in components
  /\ events # <<>>
  /\ tickTime' = events[1].time
  /\ UNCHANGED <<networkState, clock, networkVars, clientVars, edits, delay, events, log,
                 panicked, tied>>

NextTick ==
  /\ Ticking
  /\ events # <<>>
  /\ events[1].time # tickTime
  /\ networkState' = "Running"
  /\ tickTime' = events[1].time
  /\ UNCHANGED <<clock, networkVars, clientVars, edits, delay, events, log, panicked, tied>>

Stop ==
  /\ Ticking
  /\ events = <<>>
  /\ networkState' = "Stopped"
  /\ tickTime' = NoTime
  /\ UNCHANGED <<clock, networkVars, clientVars, edits, delay, events, log, panicked, tied>>

-----------------------------------------------------------------------------
(* The loop                                                                *)

\* The first event is of kind and due.
Due(kind) == /\ Ticking
             /\ events # <<>>
             /\ events[1].kind = kind
             /\ events[1].time = tickTime

SameDelivery(e, f) == /\ e.kind = "Remote" /\ f.kind = "Remote"
                      /\ e.dest = f.dest /\ e.dest # Server
                      /\ e.time = f.time

\* The first event is taken, and new ones are scheduled in turn.
Fire(new) ==
  LET rest == Pop(events)
  IN  /\ clock' = tickTime
      /\ events' = PushAll(rest, new)
      /\ tied' = (tied \/ \E i \in DOMAIN rest, j \in DOMAIN new : SameDelivery(rest[i], new[j]))
      /\ UNCHANGED <<networkState, tickTime, delay, edits>>

FireLateJoiner ==
  LET c == events[1].dest
  IN  /\ Due("LateJoiner")
      /\ AddComponent(c)
      /\ Fire(<<NewClient(c, TRUE)>>)
      /\ UNCHANGED <<clientVars, log, panicked>>

\* The document is replaced; the bridge is not.
RecvSnapshot ==
  LET e == events[1]
  IN  /\ Due("Snapshot")
      /\ document' = [document EXCEPT ![e.dest] = e.document]
      /\ panicked' = (lastServerStateId[e.dest] # 0)
      /\ lastServerStateId' = [lastServerStateId EXCEPT ![e.dest] = e.state]
      /\ Fire(<<>>)
      /\ UNCHANGED <<networkVars, clientBridge, log>>

\* What a client sends to the server.
ScheduleRemoteMessage(c, op, state) ==
  Remote(c, Server, op, state, ReceiveTime(c, Server))

\* An edit goes to the server at once if it is the only one in the bridge.
LocalUpdate ==
  LET e == events[1]
      c == e.dest
  IN  /\ Due("Local")
      /\ document' = [document EXCEPT ![c] = @ \cup {e.op}]
      /\ clientBridge' = [clientBridge EXCEPT ![c] = Append(@, e.op)]
      /\ Fire(IF clientBridge[c] = <<>>
                THEN <<ScheduleRemoteMessage(c, e.op, lastServerStateId[c])>>
                ELSE <<>>)
      /\ UNCHANGED <<networkVars, lastServerStateId, log, panicked>>

\* Fault: the sender is left out.
BroadcastToOthers(e) ==
  LET others == SelectSeq(clientIds, LAMBDA c : c # e.source)
  IN  [i \in DOMAIN others |->
         Remote(Server, others[i], e.op, Len(log) + 1, ReceiveTime(Server, others[i]))]

\* The new state goes to all clients, the sender as well.
Broadcast(e) ==
  [i \in DOMAIN clientIds |->
     Remote(Server, clientIds[i], e.op, Len(log) + 1, ReceiveTime(Server, clientIds[i]))]

ServerRemoteUpdate ==
  LET e == events[1]
  IN  /\ Due("Remote")
      /\ e.dest = Server
      /\ panicked' = (e.state > Len(log))
      /\ log' = Append(log, e.op)
      /\ Fire(Broadcast(e))
      /\ UNCHANGED <<networkVars, clientVars>>

\* Updates are taken in the order of the states or not at all.
ReceivesNext(e) ==
  /\ Due("Remote")
  /\ e.dest # Server
  /\ e.state = lastServerStateId[e.dest] + 1

Acknowledges(e) == clientBridge[e.dest] # <<>> /\ Head(clientBridge[e.dest]) = e.op

\* The first operation of the bridge is done; the next one is sent.
ReceiveAck ==
  LET e == events[1]
      c == e.dest
  IN  /\ ReceivesNext(e)
      /\ Acknowledges(e)
      /\ clientBridge' = [clientBridge EXCEPT ![c] = Tail(@)]
      /\ lastServerStateId' = [lastServerStateId EXCEPT ![c] = e.state]
      /\ Fire(IF clientBridge'[c] = <<>> THEN <<>>
              ELSE <<ScheduleRemoteMessage(c, Head(clientBridge'[c]), e.state)>>)
      /\ UNCHANGED <<networkVars, document, log, panicked>>

ReceiveRemoteUpdate ==
  LET e == events[1]
      c == e.dest
  IN  /\ ReceivesNext(e)
      /\ ~Acknowledges(e)
      /\ document' = [document EXCEPT ![c] = @ \cup {e.op}]
      /\ lastServerStateId' = [lastServerStateId EXCEPT ![c] = e.state]
      /\ Fire(<<>>)
      /\ UNCHANGED <<networkVars, clientBridge, log, panicked>>

ReceiveOutOfOrder ==
  /\ Due("Remote")
  /\ events[1].dest # Server
  /\ events[1].state # lastServerStateId[events[1].dest] + 1
  /\ panicked' = TRUE
  /\ Fire(<<>>)
  /\ UNCHANGED <<networkVars, clientVars, log>>

-----------------------------------------------------------------------------
Test == \/ AddServer \/ Run
        \/ \E c \in Clients : \/ AddComponentSod(c)
                              \/ \E t \in 0..MaxTime : \/ ScheduleLocalMessage(c, t)
                                                       \/ ScheduleLateJoiner(c, t)

Tick == \/ NextTick \/ Stop
        \/ FireLateJoiner \/ RecvSnapshot \/ LocalUpdate
        \/ ServerRemoteUpdate \/ ReceiveAck \/ ReceiveRemoteUpdate \/ ReceiveOutOfOrder

Next == Test \/ Tick

Spec == Init /\ [][Next]_vars

-----------------------------------------------------------------------------
(* Properties                                                              *)

Synchronized(c) == /\ document[c] = Seqs!ToSet(log)
                   /\ lastServerStateId[c] = Len(log)
                   /\ clientBridge[c] = <<>>

\* No operation is in the log twice.
Once(s) == \A i, j \in DOMAIN s : s[i] = s[j] => i = j

\* What a test may rely on: when the network stops, every client that has been
\* added is at the server's state with nothing left to send, and every edit is in
\* it, once; and no assertion fails on the way, unless two updates were due at one
\* client at one instant.
RunsAgree ==
  /\ networkState = "Stopped" /\ events = <<>> /\ Idle =>
       /\ \A c \in components \ {Server} : Synchronized(c)
       /\ Seqs!ToSet(log) = UNION {{c} \X (1..edits[c]) : c \in Clients}
       /\ Once(log)
  /\ panicked => tied

-----------------------------------------------------------------------------
(* What the documentation says, and the code does not do                   *)

\* A comment of the client: it "receives each server message sequentially".
ReceivedSequentially == ~panicked
=============================================================================
