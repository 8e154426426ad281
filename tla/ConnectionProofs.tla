--------------------------- MODULE ConnectionProofs ---------------------------
(***************************************************************************)
(* What pages are told about the document, for any users, connections,     *)
(* broadcast capacity and bounds.                                          *)
(***************************************************************************)
EXTENDS Connection, TLAPS

States == {"unused", "joined", "open", "closed"} \cup Starting \cup InHandler

\* What a task that is at a holds.
Holds(a, h) ==
  /\ a \in {"configured", "choosing"} => h \in Configs
  /\ a \in {"listed", "leaving", "checking"} => h \in SUBSET Users
  /\ a = "applied" => h \in Nat
  /\ a = "numbered" => h \in [op : Nat, state : Nat]

TaskInv == /\ at \in [Conns -> States]
           /\ DOMAIN held = Conns
           /\ \A k \in Conns : Holds(at[k], held[k])

\* The types of the other variables.
Others ==
  /\ stateId \in Nat
  /\ config \in Configs
  /\ active \subseteq Users /\ late \subseteq Users
  /\ queue \in [Conns -> Seq(BroadcastMsgs)]
  /\ marking \subseteq Users
  /\ toServer \in [Conns -> Seq(PageMsgs)]
  /\ page \in [Conns -> {"none", "live", "gone"}]
  /\ snapshotId \in [Conns -> Nat \cup {-1}]
  /\ shownConfig \in [Conns -> Configs] /\ shownUsers \in [Conns -> SUBSET Users]
  /\ budget \in [updates : Nat, choices : Nat, timers : BOOLEAN]
  /\ published \in Seq(UpdateMsgs)
  /\ from \in [Conns -> Nat]
  /\ overlapped \subseteq Nat /\ crossed \in BOOLEAN

\* The two parts of TypeOK.
LEMMA Types == TypeOK <=> TaskInv /\ Others
  BY DEF TypeOK, TaskInv, Others, Holds, States

-----------------------------------------------------------------------------
(* Types                                                                   *)

\* A task that goes on holds what it should.
LEMMA GotoTyped ==
  ASSUME TaskInv, NEW k \in Conns, NEW a \in States, NEW h, Goto(k, a, h), Holds(a, h)
  PROVE  TaskInv'
<1>1. at' = [at EXCEPT ![k] = a] /\ held' = [held EXCEPT ![k] = h]
  BY DEF Goto
<1>2. at' \in [Conns -> States] /\ DOMAIN held' = Conns
  BY <1>1 DEF TaskInv
<1>3. ASSUME NEW j \in Conns PROVE Holds(at'[j], held'[j])
  <2>1. CASE j = k
    BY <1>1, <2>1 DEF TaskInv
  <2>2. CASE j # k
    BY <1>1, <2>2 DEF TaskInv
  <2> QED BY <2>1, <2>2
<1> QED BY <1>2, <1>3 DEF TaskInv

\* So does one that stays where it is.
LEMMA StayTyped == TaskInv /\ UNCHANGED <<at, held>> => TaskInv'
  BY DEF TaskInv

\* What is broadcast is typed in every queue.
LEMMA EnqueuedTyped ==
  ASSUME Others, NEW m \in BroadcastMsgs
  PROVE  Enqueued(m) \in [Conns -> Seq(BroadcastMsgs)]
  BY DEF Others, Enqueued

\* The messages that are sent.
LEMMA MessagesTyped ==
  /\ \A n, i \in Nat : UpdateMsg(n, i) \in UpdateMsgs
  /\ \A c \in Configs : ConfigMsg(c) \in ConfigMsgs
  /\ \A s \in SUBSET Users : UsersMsg(s) \in BroadcastMsgs
  BY DEF UpdateMsg, UpdateMsgs, ConfigMsg, ConfigMsgs, UsersMsg, BroadcastMsgs

\* What a connection takes from its page, and what that leaves.
LEMMA TakeTyped ==
  ASSUME Others, NEW k \in Conns, NEW kind, Take(k, kind)
  PROVE  /\ toServer' \in [Conns -> Seq(PageMsgs)]
         /\ Head(toServer[k]) \in PageMsgs
         /\ kind = "Config" => Head(toServer[k]).config \in Configs
<1>1. toServer[k] \in Seq(PageMsgs) /\ toServer[k] # <<>>
  BY DEF Others, Take
<1>2. Head(toServer[k]) \in PageMsgs /\ Tail(toServer[k]) \in Seq(PageMsgs)
  BY <1>1
<1>3. toServer' \in [Conns -> Seq(PageMsgs)]
  BY <1>2 DEF Take, Others
<1>4. ASSUME kind = "Config" PROVE Head(toServer[k]).config \in Configs
  BY <1>2, <1>4 DEF PageMsgs, ConfigMsgs, Take
<1> QED BY <1>2, <1>3, <1>4

\* What a page sends is typed.
LEMMA SendTyped ==
  ASSUME Others, NEW k \in Conns, NEW m \in PageMsgs
  PROVE  [toServer EXCEPT ![k] = Append(@, m)] \in [Conns -> Seq(PageMsgs)]
  BY DEF Others

\* A task that ends holds nothing.
LEMMA EndsTyped ==
  ASSUME TaskInv, Others, NEW k \in Conns, Ends(k)
  PROVE  TaskInv' /\ toServer' \in [Conns -> Seq(PageMsgs)]
<1>1. Goto(k, "closed", None) /\ "closed" \in States /\ Holds("closed", None)
  BY DEF Ends, States, Holds
<1>2. TaskInv'
  BY <1>1, GotoTyped
<1>3. toServer' \in [Conns -> Seq(PageMsgs)]
  BY DEF Ends, Others
<1> QED BY <1>2, <1>3

\* What a page shows is typed.
LEMMA ShowTyped ==
  ASSUME Others, NEW k \in Conns, NEW m \in BroadcastMsgs, Show(k, m)
  PROVE  shownConfig' \in [Conns -> Configs] /\ shownUsers' \in [Conns -> SUBSET Users]
<1>1. m.kind = "Config" => m.config \in Configs
  BY DEF BroadcastMsgs, ConfigMsgs, UpdateMsgs
<1>2. m.kind = "UserList" => m.users \in SUBSET Users
  BY DEF BroadcastMsgs, ConfigMsgs, UpdateMsgs
<1>3. shownConfig' \in [Conns -> Configs]
  BY <1>1 DEF Show, Others
<1>4. shownUsers' \in [Conns -> SUBSET Users]
  BY <1>2 DEF Show, Others
<1> QED BY <1>3, <1>4

\* Every action keeps the types of the variables.
LEMMA TypedStep == TypeOK /\ [Next]_vars => TypeOK'
<1> SUFFICES ASSUME TaskInv, Others, [Next]_vars PROVE TaskInv' /\ Others'
  BY Types, PTL
<1> USE DEF sessionVars, taskVars, pageVars, history
<1>1. ASSUME NEW k \in Conns, JoinSession(k) PROVE TaskInv' /\ Others'
  <2>1. Goto(k, "joined", None) /\ "joined" \in States /\ Holds("joined", None)
    BY <1>1 DEF JoinSession, States, Starting, InHandler, Holds, Others, TaskInv
  <2>2. TaskInv'
    BY <2>1, GotoTyped
  <2>3. Others'
    <3>1. UserOf[k] \in Users
      BY ConnectionAssumption
    <3>2. active' \subseteq Users /\ late' \subseteq Users
      BY <1>1, <3>1 DEF JoinSession, Others
    <3>3. page' \in [Conns -> {"none", "live", "gone"}]
      BY <1>1 DEF JoinSession, Others
    <3> QED BY <1>1, <3>2, <3>3 DEF JoinSession, Others
  <2> QED BY <2>2, <2>3
<1>2. ASSUME NEW k \in Conns, Subscribe(k) PROVE TaskInv' /\ Others'
  <2>1. Goto(k, "subscribed", None) /\ "subscribed" \in States /\ Holds("subscribed", None)
    BY <1>2 DEF Subscribe, States, Starting, InHandler, Holds, Others, TaskInv
  <2>2. TaskInv'
    BY <2>1, GotoTyped
  <2>3. Others'
    BY <1>2 DEF Subscribe, Others
  <2> QED BY <2>2, <2>3
<1>3. ASSUME NEW k \in Conns, ReadConfig(k) PROVE TaskInv' /\ Others'
  <2>1. Goto(k, "configured", config) /\ "configured" \in States /\ Holds("configured", config)
    BY <1>3 DEF ReadConfig, States, Starting, InHandler, Holds, Others, TaskInv
  <2>2. TaskInv'
    BY <2>1, GotoTyped
  <2>3. Others'
    BY <1>3 DEF ReadConfig, Others
  <2> QED BY <2>2, <2>3
<1>4. ASSUME NEW k \in Conns, SendSnapshot(k) PROVE TaskInv' /\ Others'
  <2>1. Goto(k, "greeted", None) /\ "greeted" \in States /\ Holds("greeted", None)
    BY <1>4 DEF SendSnapshot, States, Starting, InHandler, Holds, Others, TaskInv
  <2>2. TaskInv'
    BY <2>1, GotoTyped
  <2>3. Others'
    <3>1. held[k] \in Configs
      BY <1>4 DEF SendSnapshot, TaskInv, Holds
    <3>2. CASE page[k] = "live"
      <4>1. shownUsers' = [shownUsers EXCEPT ![k] = active]
        BY <1>4, <3>2 DEF SendSnapshot
      <4>2. shownUsers' \in [Conns -> SUBSET Users]
        BY <4>1 DEF Others
      <4>3. /\ snapshotId' = [snapshotId EXCEPT ![k] = stateId]
            /\ shownConfig' = [shownConfig EXCEPT ![k] = held[k]]
        BY <1>4, <3>2 DEF SendSnapshot
      <4>4. snapshotId' \in [Conns -> Nat \cup {-1}]
        BY <4>3 DEF Others
      <4>5. shownConfig' \in [Conns -> Configs]
        BY <3>1, <4>3 DEF Others
      <4> QED BY <1>4, <4>2, <4>4, <4>5 DEF SendSnapshot, Others
    <3>3. CASE page[k] # "live"
      BY <1>4, <3>3 DEF SendSnapshot, Others
    <3> QED BY <3>2, <3>3
  <2> QED BY <2>2, <2>3
<1>5. ASSUME NEW k \in Conns, ReadUserList(k) PROVE TaskInv' /\ Others'
  <2>1. Goto(k, "listed", active) \/ Goto(k, "leaving", active)
    BY <1>5 DEF ReadUserList
  <2>2. /\ "listed" \in States /\ Holds("listed", active)
        /\ "leaving" \in States /\ Holds("leaving", active)
    BY DEF States, Starting, InHandler, Holds, Others
  <2>3. TaskInv'
    BY <2>1, <2>2, GotoTyped
  <2>4. Others'
    BY <1>5 DEF ReadUserList, Others
  <2> QED BY <2>3, <2>4
<1>6. ASSUME NEW k \in Conns, BroadcastUserList(k) PROVE TaskInv' /\ Others'
  <2>1. Enqueued(UsersMsg(held[k])) \in [Conns -> Seq(BroadcastMsgs)]
    <3>1. UsersMsg(held[k]) \in BroadcastMsgs
      BY <1>6, MessagesTyped DEF BroadcastUserList, TaskInv, Holds
    <3> QED BY <3>1, EnqueuedTyped
  <2>2. CASE at[k] = "listed"
    <3>1. Goto(k, "open", None) /\ "open" \in States /\ Holds("open", None)
      BY <1>6, <2>2 DEF BroadcastUserList, States, Starting, InHandler, Holds
    <3>2. TaskInv'
      BY <3>1, GotoTyped
    <3>3. Others'
      BY <1>6, <2>1, <2>2 DEF BroadcastUserList, Broadcast, Others
    <3> QED BY <3>2, <3>3
  <2>3. CASE at[k] = "leaving"
    <3>1. TaskInv' /\ toServer' \in [Conns -> Seq(PageMsgs)]
      BY <1>6, <2>3, EndsTyped DEF BroadcastUserList
    <3>2. queue' \in [Conns -> Seq(BroadcastMsgs)]
      <4>1. queue' = [Enqueued(UsersMsg(held[k])) EXCEPT ![k] = <<>>]
        BY <1>6, <2>3 DEF BroadcastUserList
      <4> QED BY <2>1, <4>1
    <3> QED BY <1>6, <3>1, <3>2 DEF BroadcastUserList, Others
  <2> QED BY <1>6, <2>2, <2>3 DEF BroadcastUserList
<1>7. ASSUME NEW k \in Conns, ApplyUpdate(k) PROVE TaskInv' /\ Others'
  <2>1. Goto(k, "applied", stateId + 1) /\ "applied" \in States /\ Holds("applied", stateId + 1)
    BY <1>7 DEF ApplyUpdate, States, Starting, InHandler, Holds, Others, TaskInv
  <2>2. TaskInv'
    BY <2>1, GotoTyped
  <2>3. Others'
    <3>1. toServer' \in [Conns -> Seq(PageMsgs)]
      BY <1>7, TakeTyped DEF ApplyUpdate
    <3>2. Overlaps(stateId + 1) \subseteq Nat
      BY DEF Overlaps, OpOf, InFlight, TaskInv, Holds, Others
    <3>3. stateId' = stateId + 1 /\ overlapped' = overlapped \cup Overlaps(stateId + 1)
      BY <1>7 DEF ApplyUpdate
    <3>4. stateId' \in Nat
      BY <3>3 DEF Others
    <3>5. overlapped' \subseteq Nat
      BY <3>2, <3>3 DEF Others
    <3> QED BY <1>7, <3>1, <3>4, <3>5 DEF ApplyUpdate, Others
  <2> QED BY <2>2, <2>3
<1>8. ASSUME NEW k \in Conns, ReadStateId(k) PROVE TaskInv' /\ Others'
  <2>1. Goto(k, "numbered", [op |-> held[k], state |-> stateId]) /\ "numbered" \in States /\ Holds("numbered", [op |-> held[k], state |-> stateId])
    BY <1>8 DEF ReadStateId, States, Starting, InHandler, Holds, Others, TaskInv
  <2>2. TaskInv'
    BY <2>1, GotoTyped
  <2>3. Others'
    BY <1>8 DEF ReadStateId, Others
  <2> QED BY <2>2, <2>3
<1>9. ASSUME NEW k \in Conns, BroadcastUpdate(k) PROVE TaskInv' /\ Others'
  <2>1. Goto(k, "open", None) /\ "open" \in States /\ Holds("open", None)
    BY <1>9 DEF BroadcastUpdate, States, Starting, InHandler, Holds, Others, TaskInv
  <2>2. TaskInv'
    BY <2>1, GotoTyped
  <2>3. Others'
    <3>1. UpdateMsg(held[k].op, held[k].state) \in UpdateMsgs
      BY <1>9, MessagesTyped DEF BroadcastUpdate, TaskInv, Holds
    <3>2. queue' \in [Conns -> Seq(BroadcastMsgs)]
      BY <1>9, <3>1, EnqueuedTyped DEF BroadcastUpdate, Broadcast, BroadcastMsgs
    <3>3. published' \in Seq(UpdateMsgs)
      BY <1>9, <3>1 DEF BroadcastUpdate, Others
    <3> QED BY <1>9, <3>2, <3>3 DEF BroadcastUpdate, Others
  <2> QED BY <2>2, <2>3
<1>10. ASSUME NEW k \in Conns, SetRunConfig(k) PROVE TaskInv' /\ Others'
  <2>1. Goto(k, "choosing", Head(toServer[k]).config) /\ "choosing" \in States /\ Holds("choosing", Head(toServer[k]).config)
    BY <1>10, TakeTyped DEF SetRunConfig, States, Starting, InHandler, Holds, Others, TaskInv
  <2>2. TaskInv'
    BY <2>1, GotoTyped
  <2>3. Others'
    BY <1>10, TakeTyped DEF SetRunConfig, Others
  <2> QED BY <2>2, <2>3
<1>11. ASSUME NEW k \in Conns, BroadcastConfig(k) PROVE TaskInv' /\ Others'
  <2>1. Goto(k, "open", None) /\ "open" \in States /\ Holds("open", None)
    BY <1>11 DEF BroadcastConfig, States, Starting, InHandler, Holds, Others, TaskInv
  <2>2. TaskInv'
    BY <2>1, GotoTyped
  <2>3. Others'
    <3>1. ConfigMsg(held[k]) \in BroadcastMsgs
      BY <1>11, MessagesTyped DEF BroadcastConfig, TaskInv, Holds, BroadcastMsgs
    <3>2. queue' \in [Conns -> Seq(BroadcastMsgs)]
      BY <1>11, <3>1, EnqueuedTyped DEF BroadcastConfig, Broadcast
    <3> QED BY <1>11, <3>2 DEF BroadcastConfig, Others
  <2> QED BY <2>2, <2>3
<1>12. ASSUME NEW k \in Conns, Pong(k) PROVE TaskInv' /\ Others'
  <2>1. TaskInv'
    BY <1>12, StayTyped DEF Pong
  <2>2. Others'
    BY <1>12, TakeTyped, ConnectionAssumption DEF Pong, Others
  <2> QED BY <2>1, <2>2
<1>13. ASSUME NEW k \in Conns, Close(k) PROVE TaskInv' /\ Others'
  <2>1. Goto(k, "closing", None) /\ "closing" \in States /\ Holds("closing", None)
    BY <1>13 DEF Close, States, Starting, InHandler, Holds, Others, TaskInv
  <2>2. TaskInv'
    BY <2>1, GotoTyped
  <2>3. Others'
    BY <1>13, TakeTyped DEF Close, Others
  <2> QED BY <2>2, <2>3
<1>14. ASSUME NEW k \in Conns, StreamEnds(k) PROVE TaskInv' /\ Others'
  BY <1>14, EndsTyped DEF StreamEnds, Others
<1>15. ASSUME NEW k \in Conns, Forward(k) PROVE TaskInv' /\ Others'
  <2>1. TaskInv'
    BY <1>15, StayTyped DEF Forward
  <2>2. Others'
    <3>1. queue[k] \in Seq(BroadcastMsgs) /\ queue[k] # <<>>
      BY <1>15 DEF Forward, Others
    <3>2. Head(queue[k]) \in BroadcastMsgs /\ Tail(queue[k]) \in Seq(BroadcastMsgs)
      BY <3>1
    <3>3. shownConfig' \in [Conns -> Configs] /\ shownUsers' \in [Conns -> SUBSET Users]
      BY <1>15, <3>2, ShowTyped DEF Forward
    <3>4. queue' \in [Conns -> Seq(BroadcastMsgs)]
      BY <1>15, <3>2 DEF Forward, Others
    <3> QED BY <1>15, <3>3, <3>4 DEF Forward, Others
  <2> QED BY <2>1, <2>2
<1>16. ASSUME NEW k \in Conns, ForwardFails(k) PROVE TaskInv' /\ Others'
  BY <1>16, EndsTyped DEF ForwardFails, Others
<1>17. ASSUME NEW k \in Conns, SendPing(k) PROVE TaskInv' /\ Others'
  <2>1. TaskInv'
    BY <1>17, StayTyped DEF SendPing
  <2>2. Others'
    <3>1. toServer' \in [Conns -> Seq(PageMsgs)]
      BY <1>17, SendTyped DEF SendPing, Answer, PageMsgs
    <3>2. shownConfig' \in [Conns -> Configs] /\ shownUsers' \in [Conns -> SUBSET Users]
      BY <1>17, MessagesTyped, ShowTyped DEF SendPing, Others
    <3> QED BY <1>17, <3>1, <3>2 DEF SendPing, Others
  <2> QED BY <2>1, <2>2
<1>18. ASSUME NEW k \in Conns, CheckInactive(k) PROVE TaskInv' /\ Others'
  <2>1. Goto(k, "checking", late) /\ "checking" \in States /\ Holds("checking", late)
    BY <1>18 DEF CheckInactive, States, Starting, InHandler, Holds, Others, TaskInv
  <2>2. TaskInv'
    BY <2>1, GotoTyped
  <2>3. Others'
    BY <1>18 DEF CheckInactive, Others
  <2> QED BY <2>2, <2>3
<1>19. ASSUME NEW k \in Conns, MarkInactive(k) PROVE TaskInv' /\ Others'
  <2>1. CASE UserOf[k] \in held[k]
    <3>1. TaskInv' /\ toServer' \in [Conns -> Seq(PageMsgs)]
      BY <1>19, <2>1, EndsTyped DEF MarkInactive
    <3>2. queue' = [queue EXCEPT ![k] = <<>>] /\ active' = active \ held[k]
      BY <1>19, <2>1 DEF MarkInactive
    <3>3. queue' \in [Conns -> Seq(BroadcastMsgs)]
      BY <3>2 DEF Others
    <3>4. active' \subseteq Users
      BY <3>2 DEF Others
    <3> QED BY <1>19, <3>1, <3>3, <3>4 DEF MarkInactive, Others
  <2>2. CASE UserOf[k] \notin held[k]
    <3>1. Goto(k, "open", None) /\ "open" \in States /\ Holds("open", None)
      BY <1>19, <2>2 DEF MarkInactive, States, Starting, InHandler, Holds
    <3>2. TaskInv'
      BY <3>1, GotoTyped
    <3>3. Others'
      BY <1>19, <2>2 DEF MarkInactive, Others
    <3> QED BY <3>2, <3>3
  <2> QED BY <2>1, <2>2
<1>20. ASSUME BackgroundCheck \/ BackgroundMark PROVE TaskInv' /\ Others'
  BY <1>20, StayTyped DEF BackgroundCheck, BackgroundMark, Others
<1>21. ASSUME NEW u \in Users, GoLate(u) PROVE TaskInv' /\ Others'
  BY <1>21, StayTyped DEF GoLate, Others
<1>22. ASSUME NEW k \in Conns, SendUpdate(k) PROVE TaskInv' /\ Others'
  <2>1. TaskInv'
    BY <1>22, StayTyped DEF SendUpdate
  <2>2. Others'
    <3>1. toServer' \in [Conns -> Seq(PageMsgs)]
      BY <1>22, SendTyped DEF SendUpdate, ToServer, PageMsgs
    <3>2. budget' \in [updates : Nat, choices : Nat, timers : BOOLEAN]
      <4>1. budget.updates \in Nat /\ budget.updates > 0 /\ budget.updates - 1 \in Nat
        BY <1>22 DEF SendUpdate, Others
      <4>2. budget' = [budget EXCEPT !.updates = budget.updates - 1]
        BY <1>22 DEF SendUpdate
      <4> QED BY <4>1, <4>2 DEF Others
    <3> QED BY <1>22, <3>1, <3>2 DEF SendUpdate, Others
  <2> QED BY <2>1, <2>2
<1>23. ASSUME NEW k \in Conns, ChooseConfig(k) PROVE TaskInv' /\ Others'
  <2>1. TaskInv'
    BY <1>23, StayTyped DEF ChooseConfig
  <2>2. Others'
    <3>1. PICK c \in Configs : /\ shownConfig' = [shownConfig EXCEPT ![k] = c]
                               /\ ToServer(k, ConfigMsg(c))
      BY <1>23 DEF ChooseConfig
    <3>2. toServer' \in [Conns -> Seq(PageMsgs)]
      BY <3>1, SendTyped, MessagesTyped DEF ToServer, PageMsgs
    <3>3. budget' \in [updates : Nat, choices : Nat, timers : BOOLEAN]
      <4>1. budget.choices \in Nat /\ budget.choices > 0 /\ budget.choices - 1 \in Nat
        BY <1>23 DEF ChooseConfig, Others
      <4>2. budget' = [budget EXCEPT !.choices = budget.choices - 1]
        BY <1>23 DEF ChooseConfig
      <4> QED BY <4>1, <4>2 DEF Others
    <3> QED BY <1>23, <3>1, <3>2, <3>3 DEF ChooseConfig, Others
  <2> QED BY <2>1, <2>2
<1>24. ASSUME NEW k \in Conns, Leave(k) PROVE TaskInv' /\ Others'
  <2>1. TaskInv'
    BY <1>24, StayTyped DEF Leave
  <2>2. Others'
    <3>1. toServer' \in [Conns -> Seq(PageMsgs)]
      <4>1. [kind |-> "Close"] \in PageMsgs
        BY DEF PageMsgs
      <4>2. toServer' = [toServer EXCEPT ![k] = Append(@, [kind |-> "Close"])] \/ UNCHANGED toServer
        BY <1>24 DEF Leave, ToServer
      <4>3. CASE UNCHANGED toServer
        BY <4>3 DEF Others
      <4> QED BY <4>1, <4>2, <4>3, SendTyped
    <3> QED BY <1>24, <3>1, ConnectionAssumption DEF Leave, Others
  <2> QED BY <2>1, <2>2
<1>25. ASSUME UNCHANGED vars PROVE TaskInv' /\ Others'
  BY <1>25 DEF vars, TaskInv, Others
<1> QED
  BY <1>1, <1>2, <1>3, <1>4, <1>5, <1>6, <1>7, <1>8, <1>9, <1>10, <1>11, <1>12,
     <1>13, <1>14, <1>15, <1>16, <1>17, <1>18, <1>19, <1>20, <1>21, <1>22,
     <1>23, <1>24, <1>25
     DEF Next, Open, Handle, Finish, Pass, Page

-----------------------------------------------------------------------------
(* The history of updates                                                  *)

Flight == {"applied", "numbered"}

\* Steps that neither apply nor broadcast an operation.
Quiet ==
  /\ UNCHANGED <<stateId, published, overlapped>>
  /\ \A j \in Conns : \/ at'[j] = at[j] /\ held'[j] = held[j]
                      \/ at[j] \notin Flight /\ at'[j] \notin Flight

\* Steps after which a connection has a snapshot of a state it has subscribed
\* before, if any.
Settled ==
  /\ UNCHANGED from
  /\ \A j \in Conns : /\ at'[j] \in {"unused", "joined"} => at[j] \in {"unused", "joined"}
                      /\ \/ snapshotId'[j] \in {snapshotId[j], -1}
                         \/ /\ snapshotId'[j] = stateId
                            /\ at'[j] \notin {"unused", "joined"}

\* They leave the order of updates alone.
LEMMA QuietFlight ==
  ASSUME FlightInv, OrderedUnlessOverlapped, Quiet
  PROVE  FlightInv' /\ OrderedUnlessOverlapped'
<1>1. ASSUME NEW j \in Conns, InFlight(j)'
      PROVE  InFlight(j) /\ OpOf(j)' = OpOf(j) /\ at'[j] = at[j] /\ held'[j] = held[j]
  BY <1>1 DEF Quiet, Flight, InFlight, OpOf
<1>2. FlightInv'
  BY <1>1 DEF FlightInv, Quiet
<1>3. OrderedUnlessOverlapped'
  BY DEF OrderedUnlessOverlapped, Quiet
<1> QED BY <1>2, <1>3

\* And what pages miss.
LEMMA QuietMissed ==
  ASSUME TypeOK, SubscribedInv, NothingMissed, Quiet, Settled
  PROVE  SubscribedInv' /\ NothingMissed'
<1>1. ASSUME NEW j \in Conns, InFlight(j) PROVE InFlight(j)' /\ OpOf(j)' = OpOf(j)
  BY <1>1 DEF Quiet, Flight, InFlight, OpOf
<1>2. SubscribedInv'
  BY DEF SubscribedInv, Quiet, Settled
<1>3. ASSUME NEW k \in Conns, snapshotId'[k] # -1, NEW n \in (snapshotId'[k] + 1)..stateId'
      PROVE  \/ \E j \in Conns : InFlight(j)' /\ OpOf(j)' = n
             \/ \E i \in (from'[k] + 1)..Len(published') : published'[i].op = n
  <2>1. stateId \in Nat /\ snapshotId'[k] # stateId /\ stateId' = stateId
    BY <1>3 DEF TypeOK, Quiet
  <2>2. snapshotId'[k] = snapshotId[k] /\ snapshotId[k] # -1
    BY <1>3, <2>1 DEF Settled
  <2>3. \/ \E j \in Conns : InFlight(j) /\ OpOf(j) = n
        \/ \E i \in (from[k] + 1)..Len(published) : published[i].op = n
    BY <1>3, <2>1, <2>2 DEF NothingMissed
  <2> QED BY <1>1, <2>3 DEF Quiet, Settled
<1> QED BY <1>2, <1>3 DEF NothingMissed

\* Subscribing changes what a connection without a snapshot will be sent.
LEMMA SubscribeStep ==
  ASSUME IInv, NEW k \in Conns, Subscribe(k)
  PROVE  FlightInv' /\ OrderedUnlessOverlapped' /\ SubscribedInv' /\ NothingMissed'
<1> USE DEF sessionVars, taskVars, pageVars
<1>1. Quiet /\ UNCHANGED snapshotId
  BY DEF Subscribe, Goto, Quiet, Flight, IInv, TypeOK
<1>2. FlightInv' /\ OrderedUnlessOverlapped'
  BY <1>1, QuietFlight DEF IInv
<1>3. /\ at[k] = "joined" /\ snapshotId[k] = -1
      /\ from' = [from EXCEPT ![k] = Len(published)]
  BY DEF Subscribe, IInv, SubscribedInv
<1>4. \A j \in Conns \ {k} : at'[j] = at[j] /\ from'[j] = from[j]
  BY <1>3 DEF Subscribe, Goto, IInv, TypeOK
<1>5. from'[k] = Len(published) /\ Len(published) \in Nat
  BY <1>3 DEF IInv, TypeOK
<1>6. SubscribedInv'
  BY <1>1, <1>3, <1>4, <1>5 DEF SubscribedInv, IInv, Quiet
<1>7. \A j \in Conns : InFlight(j) => InFlight(j)' /\ OpOf(j)' = OpOf(j)
  BY <1>1 DEF Quiet, Flight, InFlight, OpOf
<1>8. NothingMissed'
  BY <1>1, <1>3, <1>4, <1>7 DEF NothingMissed, IInv, Quiet
<1> QED BY <1>2, <1>6, <1>8

\* An operation is applied: it is the last one, and overlaps those in flight.
LEMMA ApplyStep ==
  ASSUME IInv, NEW k \in Conns, ApplyUpdate(k)
  PROVE  FlightInv' /\ OrderedUnlessOverlapped' /\ SubscribedInv' /\ NothingMissed'
<1> USE DEF sessionVars, taskVars, pageVars
<1>1. /\ at[k] = "open" /\ at' = [at EXCEPT ![k] = "applied"]
      /\ held' = [held EXCEPT ![k] = stateId + 1]
      /\ stateId \in Nat /\ stateId' = stateId + 1
      /\ overlapped' = overlapped \cup Overlaps(stateId + 1)
      /\ UNCHANGED <<published, from, snapshotId>>
  BY DEF ApplyUpdate, Take, Goto, IInv, TypeOK
<1>2. /\ at'[k] = "applied" /\ held'[k] = stateId + 1
      /\ \A j \in Conns \ {k} : at'[j] = at[j] /\ held'[j] = held[j]
  BY <1>1 DEF IInv, TypeOK
<1>3. InFlight(k)' /\ OpOf(k)' = stateId + 1 /\ ~InFlight(k)
  BY <1>1, <1>2 DEF InFlight, OpOf
<1>4. \A j \in Conns \ {k} : InFlight(j)' = InFlight(j) /\ OpOf(j)' = OpOf(j)
  BY <1>2 DEF InFlight, OpOf
<1>5. ASSUME NEW j \in Conns \ {k}, InFlight(j)
      PROVE  OpOf(j) \in overlapped' /\ stateId + 1 \in overlapped'
  <2>1. InFlight(j)
    BY <1>5
  <2>2. OpOf(j) \in {OpOf(l) : l \in {i \in Conns : InFlight(i)}}
    BY <2>1
  <2> QED BY <1>1, <2>2 DEF Overlaps
<1>6. FlightInv'
  <2>1. ASSUME NEW j \in Conns, InFlight(j)'
        PROVE  /\ OpOf(j)' \in 1..stateId'
               /\ \A i \in 1..Len(published') : published'[i].op # OpOf(j)'
               /\ OpOf(j)' \notin overlapped' =>
                    /\ OpOf(j)' = stateId'
                    /\ at'[j] = "numbered" => held'[j].state = stateId'
    <3>1. CASE j = k
      BY <1>1, <1>2, <1>3, <3>1 DEF FlightInv, IInv
    <3>2. CASE j # k
      <4>1. InFlight(j) /\ OpOf(j)' = OpOf(j) /\ OpOf(j) \in overlapped'
        BY <1>4, <1>5, <2>1, <3>2
      <4>2. OpOf(j) \in 1..stateId /\ \A i \in 1..Len(published) : published[i].op # OpOf(j)
        BY <4>1 DEF FlightInv, IInv
      <4> QED BY <1>1, <4>1, <4>2
    <3> QED BY <3>1, <3>2
  <2>2. ASSUME NEW i \in Conns, NEW j \in Conns, InFlight(i)', InFlight(j)', i # j
        PROVE  OpOf(i)' # OpOf(j)' /\ OpOf(i)' \in overlapped'
    <3>1. CASE i = k
      <4>1. InFlight(j) /\ OpOf(j)' = OpOf(j) /\ OpOf(j) \in 1..stateId
        BY <1>4, <2>2, <3>1 DEF FlightInv, IInv
      <4> QED BY <1>1, <1>3, <1>5, <2>2, <3>1, <4>1
    <3>2. CASE j = k
      <4>1. InFlight(i) /\ OpOf(i)' = OpOf(i) /\ OpOf(i) \in 1..stateId
        BY <1>4, <2>2, <3>2 DEF FlightInv, IInv
      <4> QED BY <1>1, <1>3, <1>5, <2>2, <3>2, <4>1
    <3>3. CASE i # k /\ j # k
      <4>1. InFlight(i) /\ InFlight(j) /\ OpOf(i)' = OpOf(i) /\ OpOf(j)' = OpOf(j)
        BY <1>4, <2>2, <3>3
      <4> QED BY <1>1, <2>2, <4>1 DEF FlightInv, IInv
    <3> QED BY <3>1, <3>2, <3>3
  <2>3. \A i \in 1..Len(published) : published[i].op \in 1..(stateId + 1)
    BY <1>1 DEF FlightInv, IInv
  <2> QED BY <1>1, <2>1, <2>2, <2>3 DEF FlightInv, IInv
<1>7. OrderedUnlessOverlapped'
  BY <1>1 DEF OrderedUnlessOverlapped, IInv
<1>8. SubscribedInv'
  BY <1>1, <1>2 DEF SubscribedInv, IInv
<1>9. NothingMissed'
  <2> SUFFICES ASSUME NEW l \in Conns, snapshotId[l] # -1,
                      NEW n \in (snapshotId[l] + 1)..(stateId + 1)
               PROVE  \/ \E j \in Conns : InFlight(j)' /\ OpOf(j)' = n
                      \/ \E i \in (from[l] + 1)..Len(published) : published[i].op = n
    BY <1>1 DEF NothingMissed
  <2>1. CASE n = stateId + 1
    BY <1>3, <2>1
  <2>2. CASE n # stateId + 1
    <3>1. n \in (snapshotId[l] + 1)..stateId
      BY <1>1, <2>2 DEF IInv, TypeOK
    <3> QED BY <1>3, <1>4, <3>1 DEF NothingMissed, IInv
  <2> QED BY <2>1, <2>2
<1> QED BY <1>6, <1>7, <1>8, <1>9

\* The id is read: that of the operation, unless another one was applied.
LEMMA ReadStep ==
  ASSUME IInv, NEW k \in Conns, ReadStateId(k)
  PROVE  FlightInv' /\ OrderedUnlessOverlapped' /\ SubscribedInv' /\ NothingMissed'
<1> USE DEF sessionVars, taskVars, pageVars, history
<1>1. /\ at[k] = "applied" /\ at' = [at EXCEPT ![k] = "numbered"]
      /\ held' = [held EXCEPT ![k] = [op |-> held[k], state |-> stateId]]
      /\ UNCHANGED <<stateId, published, overlapped, from, snapshotId>>
  BY DEF ReadStateId, Goto
<1>2. /\ at'[k] = "numbered" /\ held'[k] = [op |-> held[k], state |-> stateId]
      /\ \A j \in Conns \ {k} : at'[j] = at[j] /\ held'[j] = held[j]
  BY <1>1 DEF IInv, TypeOK
<1>3. \A j \in Conns : InFlight(j)' = InFlight(j) /\ OpOf(j)' = OpOf(j)
  BY <1>1, <1>2 DEF InFlight, OpOf
<1>4. FlightInv'
  <2>1. ASSUME NEW j \in Conns, InFlight(j), OpOf(j) \notin overlapped, at'[j] = "numbered"
        PROVE  held'[j].state = stateId
    BY <1>2, <2>1 DEF FlightInv, IInv
  <2> QED BY <1>1, <1>3, <2>1 DEF FlightInv, IInv
<1>5. OrderedUnlessOverlapped'
  BY <1>1 DEF OrderedUnlessOverlapped, IInv
<1>6. SubscribedInv'
  BY <1>1, <1>2 DEF SubscribedInv, IInv
<1>7. NothingMissed'
  BY <1>1, <1>3 DEF NothingMissed, IInv
<1> QED BY <1>4, <1>5, <1>6, <1>7

\* The update is broadcast: it has its own number and comes last, unless it
\* overlapped another one.
LEMMA BroadcastStep ==
  ASSUME IInv, NEW k \in Conns, BroadcastUpdate(k)
  PROVE  FlightInv' /\ OrderedUnlessOverlapped' /\ SubscribedInv' /\ NothingMissed'
<1> USE DEF sessionVars, pageVars
<1> DEFINE m == UpdateMsg(held[k].op, held[k].state)
<1>1. /\ at[k] = "numbered" /\ at' = [at EXCEPT ![k] = "open"]
      /\ held' = [held EXCEPT ![k] = None]
      /\ published' = Append(published, m) /\ published \in Seq(UpdateMsgs)
      /\ UNCHANGED <<stateId, overlapped, from, snapshotId>>
  BY DEF BroadcastUpdate, Goto, IInv, TypeOK
<1>2. /\ at'[k] = "open"
      /\ \A j \in Conns \ {k} : at'[j] = at[j] /\ held'[j] = held[j]
  BY <1>1 DEF IInv, TypeOK
<1>3. InFlight(k) /\ ~InFlight(k)' /\ m.op = OpOf(k) /\ m.state = held[k].state
  BY <1>1, <1>2 DEF InFlight, OpOf, UpdateMsg
<1>4. \A j \in Conns \ {k} : InFlight(j)' = InFlight(j) /\ OpOf(j)' = OpOf(j)
  BY <1>2 DEF InFlight, OpOf
<1> HIDE DEF m
<1>5. /\ Len(published) \in Nat /\ Len(published') = Len(published) + 1
      /\ published'[Len(published) + 1] = m
      /\ \A i \in 1..Len(published) : published'[i] = published[i]
  BY <1>1
<1>6. /\ OpOf(k) \in 1..stateId
      /\ \A i \in 1..Len(published) : published[i].op # OpOf(k)
      /\ \A j \in Conns \ {k} : InFlight(j) => OpOf(j) # OpOf(k)
  BY <1>3 DEF FlightInv, IInv
<1>7. FlightInv'
  <2>1. ASSUME NEW j \in Conns, InFlight(j)'
        PROVE  /\ OpOf(j)' \in 1..stateId
               /\ \A i \in 1..Len(published') : published'[i].op # OpOf(j)'
               /\ OpOf(j)' \notin overlapped =>
                    /\ OpOf(j)' = stateId
                    /\ at'[j] = "numbered" => held'[j].state = stateId
    <3>1. j # k /\ InFlight(j) /\ OpOf(j)' = OpOf(j) /\ OpOf(j) # OpOf(k)
      BY <1>3, <1>4, <1>6, <2>1
    <3>2. \A i \in 1..Len(published') : published'[i].op # OpOf(j)
      BY <1>3, <1>5, <3>1 DEF FlightInv, IInv
    <3> QED BY <1>2, <3>1, <3>2 DEF FlightInv, IInv
  <2>2. ASSUME NEW i \in Conns, NEW j \in Conns, InFlight(i)', InFlight(j)', i # j
        PROVE  OpOf(i)' # OpOf(j)' /\ OpOf(i)' \in overlapped
    BY <1>3, <1>4, <2>2 DEF FlightInv, IInv
  <2>3. \A i \in 1..Len(published') : published'[i].op \in 1..stateId
    BY <1>3, <1>5, <1>6 DEF FlightInv, IInv
  <2>4. \A i, j \in 1..Len(published') : i # j => published'[i].op # published'[j].op
    BY <1>3, <1>5, <1>6 DEF FlightInv, IInv
  <2> QED BY <1>1, <2>1, <2>2, <2>3, <2>4 DEF FlightInv
<1>8. OrderedUnlessOverlapped'
  <2> SUFFICES ASSUME NEW i \in 1..Len(published'), published'[i].op \notin overlapped
               PROVE  /\ published'[i].state = published'[i].op
                      /\ \A j \in 1..(i-1) : published'[j].op < published'[i].op
    BY <1>1 DEF OrderedUnlessOverlapped
  <2>1. CASE i \in 1..Len(published)
    BY <1>5, <2>1 DEF OrderedUnlessOverlapped, IInv
  <2>2. CASE i = Len(published) + 1
    <3>1. published'[i] = m /\ OpOf(k) = stateId /\ m.state = stateId
      BY <1>1, <1>3, <1>5, <2>2 DEF FlightInv, IInv
    <3>2. ASSUME NEW j \in 1..Len(published) PROVE published'[j].op < stateId
      <4>1. published[j].op \in 1..stateId /\ published[j].op # stateId /\ stateId \in Nat
        BY <1>6, <3>1 DEF FlightInv, IInv, TypeOK
      <4> QED BY <1>5, <4>1
    <3> QED BY <1>3, <1>5, <2>2, <3>1, <3>2
  <2> QED BY <1>5, <2>1, <2>2
<1>9. SubscribedInv'
  BY <1>1, <1>2, <1>5 DEF SubscribedInv, IInv, TypeOK
<1>10. NothingMissed'
  <2> SUFFICES ASSUME NEW l \in Conns, snapshotId[l] # -1, NEW n \in (snapshotId[l] + 1)..stateId
               PROVE  \/ \E j \in Conns : InFlight(j)' /\ OpOf(j)' = n
                      \/ \E i \in (from[l] + 1)..Len(published') : published'[i].op = n
    BY <1>1 DEF NothingMissed
  <2>1. from[l] \in Nat /\ from[l] <= Len(published)
    BY DEF IInv, TypeOK, SubscribedInv
  <2>2. CASE n = OpOf(k)
    BY <1>3, <1>5, <2>1, <2>2
  <2>3. CASE \E j \in Conns \ {k} : InFlight(j) /\ OpOf(j) = n
    BY <1>4, <2>3
  <2>4. CASE \E i \in (from[l] + 1)..Len(published) : published[i].op = n
    BY <1>5, <2>1, <2>4
  <2> QED BY <2>2, <2>3, <2>4 DEF NothingMissed, IInv
<1> QED BY <1>7, <1>8, <1>9, <1>10

\* All other steps are quiet.
LEMMA QuietSteps ==
  ASSUME IInv,
         \/ \E k \in Conns :
              \/ JoinSession(k) \/ ReadConfig(k) \/ SendSnapshot(k) \/ ReadUserList(k)
              \/ BroadcastUserList(k) \/ SetRunConfig(k) \/ BroadcastConfig(k) \/ Pong(k)
              \/ Close(k) \/ StreamEnds(k) \/ Pass(k) \/ SendPing(k) \/ CheckInactive(k)
              \/ MarkInactive(k) \/ SendUpdate(k) \/ ChooseConfig(k) \/ Leave(k)
         \/ \E u \in Users : GoLate(u)
         \/ BackgroundCheck \/ BackgroundMark \/ UNCHANGED vars
  PROVE  Quiet /\ Settled
<1> USE DEF Flight, sessionVars, taskVars, pageVars, history, IInv, TypeOK
<1>1. ASSUME NEW k \in Conns,
             \/ JoinSession(k) \/ ReadConfig(k) \/ CheckInactive(k) \/ SetRunConfig(k)
             \/ BroadcastConfig(k) \/ Close(k) \/ ReadUserList(k)
      PROVE  Quiet /\ Settled
  BY <1>1 DEF JoinSession, ReadConfig, CheckInactive, SetRunConfig, BroadcastConfig, Close,
     ReadUserList, Goto, Take, Quiet, Settled
<1>2. ASSUME NEW k \in Conns, SendSnapshot(k) PROVE Quiet /\ Settled
  BY <1>2 DEF SendSnapshot, Goto, Quiet, Settled
<1>3. ASSUME NEW k \in Conns, \/ BroadcastUserList(k) \/ StreamEnds(k) \/ ForwardFails(k)
                              \/ MarkInactive(k)
      PROVE  Quiet /\ Settled
  BY <1>3 DEF BroadcastUserList, StreamEnds, ForwardFails, MarkInactive, Ends, Goto,
     Quiet, Settled
<1>4. ASSUME NEW k \in Conns, \/ Pong(k) \/ Forward(k) \/ SendPing(k) \/ SendUpdate(k)
                              \/ ChooseConfig(k)
      PROVE  Quiet /\ Settled
  BY <1>4 DEF Pong, Forward, SendPing, SendUpdate, ChooseConfig, Quiet, Settled
<1>5. ASSUME NEW k \in Conns, Leave(k) PROVE Quiet /\ Settled
  BY <1>5 DEF Leave, Quiet, Settled
<1>6. ASSUME NEW u \in Users, GoLate(u) PROVE Quiet /\ Settled
  BY <1>6 DEF GoLate, Quiet, Settled
<1>7. ASSUME BackgroundCheck \/ BackgroundMark \/ UNCHANGED vars PROVE Quiet /\ Settled
  BY <1>7 DEF BackgroundCheck, BackgroundMark, vars, Quiet, Settled
<1> QED BY <1>1, <1>2, <1>3, <1>4, <1>5, <1>6, <1>7 DEF Pass

-----------------------------------------------------------------------------
(* The configuration                                                       *)

\* Configurations among messages, of which one is added or the first is taken.
LEMMA ConfigAppended ==
  ASSUME NEW S, NEW msgs \in Seq(S), NEW m, NEW c
  PROVE  /\ m = ConfigMsg(c) => NewestConfig(Append(msgs, m), c)
         /\ m.kind # "Config" /\ NewestConfig(msgs, c) => NewestConfig(Append(msgs, m), c)
         /\ m.kind # "Config" /\ NoConfig(msgs) => NoConfig(Append(msgs, m))
         /\ NoConfig(Append(msgs, m)) => NoConfig(msgs) /\ m.kind # "Config"
<1>1. /\ Len(msgs) \in Nat /\ Len(Append(msgs, m)) = Len(msgs) + 1
      /\ Append(msgs, m)[Len(msgs) + 1] = m
      /\ \A i \in 1..Len(msgs) : Append(msgs, m)[i] = msgs[i]
  OBVIOUS
<1>2. \A i \in 1..(Len(msgs) + 1) : i = Len(msgs) + 1 \/ i \in 1..Len(msgs)
  BY <1>1
<1>3. Len(msgs) + 1 \in 1..(Len(msgs) + 1) /\ 1..Len(msgs) \subseteq 1..(Len(msgs) + 1)
  BY <1>1
<1>4. ASSUME m = ConfigMsg(c) PROVE NewestConfig(Append(msgs, m), c)
  <2>1. ((Len(msgs) + 1) + 1)..(Len(msgs) + 1) = {}
    BY <1>1
  <2> QED BY <1>1, <1>3, <1>4, <2>1 DEF NewestConfig
<1>5. ASSUME m.kind # "Config", NewestConfig(msgs, c) PROVE NewestConfig(Append(msgs, m), c)
  <2>1. PICK i \in 1..Len(msgs) : /\ msgs[i] = ConfigMsg(c)
                                  /\ \A j \in (i+1)..Len(msgs) : msgs[j].kind # "Config"
    BY <1>5 DEF NewestConfig
  <2>2. ASSUME NEW j \in (i+1)..(Len(msgs) + 1) PROVE Append(msgs, m)[j].kind # "Config"
    <3>1. j = Len(msgs) + 1 \/ (j \in (i+1)..Len(msgs) /\ j \in 1..Len(msgs))
      BY <1>1
    <3> QED BY <1>1, <1>5, <2>1, <3>1
  <2> QED BY <1>1, <1>3, <2>1, <2>2 DEF NewestConfig
<1>6. m.kind # "Config" /\ NoConfig(msgs) => NoConfig(Append(msgs, m))
  BY <1>1, <1>2 DEF NoConfig
<1>7. NoConfig(Append(msgs, m)) => NoConfig(msgs) /\ m.kind # "Config"
  BY <1>1, <1>3 DEF NoConfig
<1> QED BY <1>4, <1>5, <1>6, <1>7

LEMMA ConfigTaken ==
  ASSUME NEW S, NEW msgs \in Seq(S), msgs # <<>>, NEW c
  PROVE  /\ NewestConfig(msgs, c) => \/ NewestConfig(Tail(msgs), c)
                                     \/ Head(msgs) = ConfigMsg(c) /\ NoConfig(Tail(msgs))
         /\ NoConfig(msgs) => Head(msgs).kind # "Config" /\ NoConfig(Tail(msgs))
         /\ Head(msgs).kind # "Config" /\ NoConfig(Tail(msgs)) => NoConfig(msgs)
<1>1. /\ Len(msgs) \in Nat /\ Len(msgs) >= 1 /\ Len(Tail(msgs)) = Len(msgs) - 1
      /\ Head(msgs) = msgs[1]
      /\ \A i \in 1..(Len(msgs) - 1) : Tail(msgs)[i] = msgs[i + 1]
  OBVIOUS
<1>2. \A i \in 1..Len(msgs) : i = 1 \/ i - 1 \in 1..(Len(msgs) - 1)
  BY <1>1
<1>3. \A i \in 1..(Len(msgs) - 1) : i + 1 \in 1..Len(msgs)
  BY <1>1
<1>4. ASSUME NewestConfig(msgs, c)
      PROVE  \/ NewestConfig(Tail(msgs), c)
             \/ Head(msgs) = ConfigMsg(c) /\ NoConfig(Tail(msgs))
  <2>1. PICK i \in 1..Len(msgs) : /\ msgs[i] = ConfigMsg(c)
                                  /\ \A j \in (i+1)..Len(msgs) : msgs[j].kind # "Config"
    BY <1>4 DEF NewestConfig
  <2>2. CASE i = 1
    <3>1. \A j \in 1..(Len(msgs) - 1) : j + 1 \in (i+1)..Len(msgs)
      BY <1>1, <2>2
    <3> QED BY <1>1, <2>1, <2>2, <3>1 DEF NoConfig
  <2>3. CASE i # 1
    <3>1. i - 1 \in 1..(Len(msgs) - 1) /\ (i - 1) + 1 = i
      BY <1>1, <2>3
    <3>2. \A j \in ((i-1)+1)..(Len(msgs) - 1) :
            j \in 1..(Len(msgs) - 1) /\ j + 1 \in (i+1)..Len(msgs)
      BY <1>1, <3>1
    <3> QED BY <1>1, <2>1, <3>1, <3>2 DEF NewestConfig
  <2> QED BY <2>2, <2>3
<1>5. NoConfig(msgs) => Head(msgs).kind # "Config" /\ NoConfig(Tail(msgs))
  BY <1>1, <1>3 DEF NoConfig
<1>6. ASSUME Head(msgs).kind # "Config", NoConfig(Tail(msgs)) PROVE NoConfig(msgs)
  <2> SUFFICES ASSUME NEW i \in 1..Len(msgs) PROVE msgs[i].kind # "Config"
    BY DEF NoConfig
  <2>1. CASE i = 1
    BY <1>1, <1>6, <2>1
  <2>2. CASE i # 1
    <3>1. i - 1 \in 1..(Len(msgs) - 1) /\ (i - 1) + 1 = i
      BY <1>1, <2>2
    <3> QED BY <1>1, <1>6, <3>1 DEF NoConfig
  <2> QED BY <2>1, <2>2
<1> QED BY <1>4, <1>5, <1>6

\* The step is not about the configuration that d's page knows or will be told.
Calm(d) ==
  /\ \/ at'[d] = at[d] /\ held'[d] = held[d]
     \/ at[d] \notin {"subscribed", "configured"} /\ at'[d] \notin {"subscribed", "configured"}
  /\ Receiving(d)' => Receiving(d)
  /\ page'[d] = "live" /\ NoConfig(toServer'[d]) =>
       page[d] = "live" /\ NoConfig(toServer[d]) /\ shownConfig'[d] = shownConfig[d]
  /\ \/ queue'[d] = queue[d]
     \/ \E m : m.kind # "Config" /\ queue'[d] = Append(queue[d], m)

LEMMA CalmInformed ==
  ASSUME TypeOK, NEW d \in Conns, config' = config, Calm(d), Informed(d)
  PROVE  Informed(d)'
<1>1. queue[d] \in Seq(BroadcastMsgs)
  BY DEF TypeOK
<1>2. /\ NewestConfig(queue[d], config) => NewestConfig(queue'[d], config)
      /\ NoConfig(queue[d]) => NoConfig(queue'[d])
  <2>1. CASE queue'[d] = queue[d]
    BY <2>1
  <2>2. CASE \E m : m.kind # "Config" /\ queue'[d] = Append(queue[d], m)
    <3>1. PICK m : m.kind # "Config" /\ queue'[d] = Append(queue[d], m)
      BY <2>2
    <3> QED BY <1>1, <3>1, ConfigAppended
  <2> QED BY <2>1, <2>2 DEF Calm
<1>3. config' = config /\ (page'[d] = "live" /\ NoConfig(toServer'[d]) =>
        page[d] = "live" /\ NoConfig(toServer[d]) /\ shownConfig'[d] = shownConfig[d])
  BY DEF Calm
<1>4. CASE NewestConfig(queue[d], config)
  BY <1>2, <1>3, <1>4 DEF Informed
<1>5. CASE ~NewestConfig(queue[d], config)
  BY <1>2, <1>3, <1>5 DEF Informed, Calm
<1> QED BY <1>4, <1>5

\* A step that neither stores nor broadcasts a configuration keeps ConfigInv if it
\* keeps every connection informed.
LEMMA ConfigKept ==
  ASSUME TypeOK, ConfigInv, config' = config, crossed' = crossed,
         \A d \in Conns : /\ at'[d] = "choosing" <=> at[d] = "choosing"
                          /\ at[d] = "choosing" => held'[d] = held[d]
                          /\ ~Receiving(d)' => queue'[d] = <<>>
                          /\ \/ ~Receiving(d)'
                             \/ Calm(d)
                             \/ (Receiving(d) => Informed(d)) => Informed(d)'
  PROVE  ConfigInv'
<1>1. CASE \E k \in Conns : /\ at[k] = "choosing" /\ held[k] = config
                            /\ \A j \in Conns \ {k} : at[j] # "choosing"
  <2>1. PICK k \in Conns : /\ at[k] = "choosing" /\ held[k] = config
                           /\ \A j \in Conns \ {k} : at[j] # "choosing"
    BY <1>1
  <2>2. /\ at'[k] = "choosing" /\ held'[k] = config'
        /\ \A j \in Conns \ {k} : at'[j] # "choosing"
    BY <2>1
  <2> QED BY <2>2 DEF ConfigInv
<1>2. CASE \A k \in Conns : /\ at[k] # "choosing"
                            /\ Receiving(k) => Informed(k)
  <2>1. ASSUME NEW k \in Conns, Receiving(k)' PROVE Informed(k)'
    BY <1>2, <2>1, CalmInformed DEF Calm
  <2> QED BY <1>2, <2>1 DEF ConfigInv
<1>3. CASE crossed
  BY <1>3 DEF ConfigInv
<1> QED BY <1>1, <1>2, <1>3 DEF ConfigInv

\* The steps of opening connections inform them.
LEMMA OpenConfig ==
  ASSUME TypeOK, ConfigInv, NEW k \in Conns, Open(k)
  PROVE  ConfigInv'
<1> USE DEF sessionVars, taskVars, pageVars, history
<1>1. /\ config' = config /\ crossed' = crossed /\ queue' = queue /\ toServer' = toServer
      /\ page' = page
      /\ at[k] \in {"joined", "subscribed", "configured"}
      /\ at'[k] \in {"subscribed", "configured", "greeted"}
      /\ \A d \in Conns \ {k} : at'[d] = at[d] /\ held'[d] = held[d]
                                /\ shownConfig'[d] = shownConfig[d]
  BY DEF Open, Subscribe, ReadConfig, SendSnapshot, Goto, TypeOK
<1>2. \A d \in Conns \ {k} : /\ Calm(d)
                             /\ Receiving(d)' = Receiving(d)
  BY <1>1 DEF Calm, Receiving
<1>3. Receiving(k)' /\ (Receiving(k) <=> at[k] # "joined")
  BY <1>1 DEF Receiving, Starting, InHandler
<1>4. (Receiving(k) => Informed(k)) => Informed(k)'
  <2>1. CASE Subscribe(k)
    <3>1. at[k] = "joined" /\ at'[k] = "subscribed"
      BY <2>1 DEF Subscribe, Goto, TypeOK
    <3>2. queue'[k] = <<>>
      BY <1>1, <1>3, <3>1 DEF ConfigInv
    <3>3. NoConfig(queue'[k])
      BY <3>2 DEF NoConfig
    <3> QED BY <3>1, <3>3 DEF Informed
  <2>2. CASE ReadConfig(k)
    <3>1. at[k] = "subscribed" /\ at'[k] = "configured" /\ held'[k] = config
      BY <2>2 DEF ReadConfig, Goto, TypeOK
    <3> QED BY <1>1, <1>3, <3>1 DEF Informed
  <2>3. CASE SendSnapshot(k)
    <3>1. /\ at[k] = "configured" /\ at'[k] = "greeted"
          /\ page[k] = "live" => shownConfig'[k] = held[k]
      BY <2>3 DEF SendSnapshot, Goto, TypeOK
    <3> QED BY <1>1, <1>3, <3>1 DEF Informed
  <2> QED BY <2>1, <2>2, <2>3 DEF Open
<1>5. \A d \in Conns : ~Receiving(d)' => queue'[d] = <<>>
  BY <1>1, <1>2, <1>3 DEF ConfigInv
<1> QED BY <1>1, <1>2, <1>3, <1>4, <1>5, ConfigKept

\* The page shows what was the oldest in the queue.
LEMMA ForwardConfig ==
  ASSUME TypeOK, ConfigInv, NEW k \in Conns, Forward(k)
  PROVE  ConfigInv'
<1> USE DEF sessionVars, pageVars, history
<1>1. /\ config' = config /\ crossed' = crossed /\ toServer' = toServer
      /\ page' = page /\ at' = at /\ held' = held /\ at[k] = "open"
      /\ queue[k] # <<>> /\ queue[k] \in Seq(BroadcastMsgs) /\ queue'[k] = Tail(queue[k])
      /\ \A d \in Conns \ {k} : queue'[d] = queue[d] /\ shownConfig'[d] = shownConfig[d]
  BY DEF Forward, Show, TypeOK
<1>2. shownConfig'[k] = IF Head(queue[k]).kind = "Config" /\ page[k] = "live"
                          THEN Head(queue[k]).config ELSE shownConfig[k]
  BY DEF Forward, Show, TypeOK
<1>3. \A d \in Conns \ {k} : Calm(d)
  BY <1>1 DEF Calm, Receiving
<1>4. Receiving(k) /\ \A d \in Conns : Receiving(d)' = Receiving(d)
  BY <1>1 DEF Receiving
<1>5. ASSUME Informed(k) PROVE Informed(k)'
  <2>1. CASE NewestConfig(Tail(queue[k]), config)
    BY <1>1, <2>1 DEF Informed
  <2>2. CASE Head(queue[k]) = ConfigMsg(config) /\ NoConfig(Tail(queue[k]))
    <3>1. Head(queue[k]).kind = "Config" /\ Head(queue[k]).config = config
      BY <2>2 DEF ConfigMsg
    <3> QED BY <1>1, <1>2, <2>2, <3>1 DEF Informed
  <2>3. CASE NoConfig(queue[k])
    <3>1. Head(queue[k]).kind # "Config" /\ NoConfig(Tail(queue[k]))
      BY <1>1, <2>3, ConfigTaken
    <3>2. \/ NewestConfig(queue[k], config)
          \/ page[k] = "live" /\ NoConfig(toServer[k]) => shownConfig[k] = config
      BY <1>1, <1>5 DEF Informed
    <3>3. ~NewestConfig(queue[k], config)
      BY <2>3 DEF NewestConfig, NoConfig, ConfigMsg
    <3> QED BY <1>1, <1>2, <3>1, <3>2, <3>3 DEF Informed
  <2> QED BY <1>1, <1>5, <2>1, <2>2, <2>3, ConfigTaken DEF Informed
<1>6. \A d \in Conns : ~Receiving(d)' => queue'[d] = <<>>
  BY <1>1, <1>4 DEF ConfigInv
<1> QED BY <1>1, <1>3, <1>4, <1>5, <1>6, ConfigKept

\* The one task that stores a configuration broadcasts it, as long as two changes
\* have not overlapped.
LEMMA StoreConfig ==
  ASSUME TypeOK, ConfigInv, NEW k \in Conns, SetRunConfig(k)
  PROVE  ConfigInv'
<1> USE DEF pageVars, history
<1>1. /\ at[k] = "open" /\ at'[k] = "choosing" /\ held'[k] = config'
      /\ queue' = queue
      /\ \A d \in Conns \ {k} : at'[d] = at[d]
      /\ crossed' = (crossed \/ \E j \in Conns : at[j] = "choosing")
  BY DEF SetRunConfig, Take, Goto, TypeOK
<1>2. \A d \in Conns : Receiving(d)' = Receiving(d)
  BY <1>1 DEF Receiving, InHandler
<1>3. \A d \in Conns : ~Receiving(d)' => queue'[d] = <<>>
  BY <1>1, <1>2 DEF ConfigInv
<1> QED BY <1>1, <1>3 DEF ConfigInv

LEMMA AnnounceConfig ==
  ASSUME TypeOK, ConfigInv, NEW k \in Conns, BroadcastConfig(k)
  PROVE  ConfigInv'
<1> USE DEF sessionVars, pageVars, history
<1>1. /\ at[k] = "choosing" /\ at'[k] = "open" /\ config' = config /\ crossed' = crossed
      /\ \A d \in Conns \ {k} : at'[d] = at[d]
      /\ \A d \in Conns : queue'[d] = IF Receiving(d) THEN Append(queue[d], ConfigMsg(held[k]))
                                                      ELSE queue[d]
  BY DEF BroadcastConfig, Broadcast, Enqueued, Goto, TypeOK
<1>2. \A d \in Conns : Receiving(d)' = Receiving(d)
  BY <1>1 DEF Receiving, InHandler
<1>3. \A d \in Conns : ~Receiving(d)' => queue'[d] = <<>>
  BY <1>1, <1>2 DEF ConfigInv
<1>4. ASSUME ~crossed
      PROVE  \A d \in Conns : at'[d] # "choosing" /\ (Receiving(d)' => Informed(d)')
  <2>1. held[k] = config /\ \A j \in Conns \ {k} : at[j] # "choosing"
    BY <1>1, <1>4 DEF ConfigInv
  <2>2. ASSUME NEW d \in Conns, Receiving(d) PROVE NewestConfig(queue'[d], config')
    <3>1. queue[d] \in Seq(BroadcastMsgs) /\ queue'[d] = Append(queue[d], ConfigMsg(config))
      BY <1>1, <2>1, <2>2 DEF TypeOK
    <3> QED BY <1>1, <3>1, ConfigAppended
  <2> QED BY <1>1, <1>2, <2>1, <2>2 DEF Informed
<1> QED BY <1>1, <1>3, <1>4 DEF ConfigInv

\* What is broadcast besides is no configuration.
LEMMA OtherMessages ==
  /\ \A n, i : UpdateMsg(n, i).kind # "Config"
  /\ \A s : UsersMsg(s).kind # "Config"
BY DEF UpdateMsg, UsersMsg

\* What a page sends or a task takes, unless it is a configuration, leaves the
\* configurations that are on their way.
LEMMA TakeOther ==
  ASSUME TypeOK, NEW k \in Conns, NEW kind, kind # "Config", Take(k, kind)
  PROVE  \A d \in Conns : NoConfig(toServer'[d]) => NoConfig(toServer[d])
<1>1. toServer[k] \in Seq(PageMsgs) /\ toServer[k] # <<>> /\ Head(toServer[k]).kind = kind
  BY DEF Take, TypeOK
<1>2. toServer' = [toServer EXCEPT ![k] = Tail(@)]
  BY DEF Take
<1>3. NoConfig(Tail(toServer[k])) => NoConfig(toServer[k])
  BY <1>1, ConfigTaken
<1> QED BY <1>2, <1>3 DEF TypeOK

LEMMA SendOther ==
  ASSUME TypeOK, NEW k \in Conns, NEW m, toServer' = [toServer EXCEPT ![k] = Append(@, m)]
  PROVE  \A d \in Conns : NoConfig(toServer'[d]) => NoConfig(toServer[d]) /\ (d = k => m.kind # "Config")
<1>1. toServer[k] \in Seq(PageMsgs)
  BY DEF TypeOK
<1>2. NoConfig(Append(toServer[k], m)) => NoConfig(toServer[k]) /\ m.kind # "Config"
  BY <1>1, ConfigAppended
<1> QED BY <1>2 DEF TypeOK

\* A step of the task of connection k, or of its page, that is not about the
\* configuration: what it leaves of the queues and of what pages have sent.
LEMMA ConfigCalm ==
  ASSUME TypeOK, ConfigInv, NEW k \in Conns, config' = config, crossed' = crossed,
         \A d \in Conns \ {k} : /\ at'[d] = at[d] /\ held'[d] = held[d]
                                /\ page'[d] = page[d] /\ shownConfig'[d] = shownConfig[d],
         at[k] \notin {"subscribed", "configured", "choosing"} \/ UNCHANGED <<at, held>>,
         at'[k] \notin {"subscribed", "configured", "choosing"} \/ UNCHANGED <<at, held>>,
         Receiving(k)' => Receiving(k),
         Receiving(k)' /\ page'[k] = "live" /\ NoConfig(toServer'[k]) =>
           page[k] = "live" /\ shownConfig'[k] = shownConfig[k],
         \A d \in Conns : Receiving(d)' /\ NoConfig(toServer'[d]) => NoConfig(toServer[d]),
         \A d \in Conns : \/ ~Receiving(d)' /\ queue'[d] = <<>>
                          \/ (Receiving(d) => Receiving(d)') /\ queue'[d] = queue[d]
                          \/ /\ Receiving(d)'
                             /\ \E m : m.kind # "Config" /\ queue'[d] = Append(queue[d], m)
  PROVE  ConfigInv'
<1>1. \A d \in Conns \ {k} : Receiving(d)' <=> Receiving(d)
  BY DEF Receiving
<1>2. ASSUME NEW d \in Conns PROVE ~Receiving(d)' => queue'[d] = <<>>
  BY <1>1 DEF ConfigInv
<1>3. ASSUME NEW d \in Conns, Receiving(d)' PROVE Calm(d)
  <2>1. \/ at'[d] = at[d] /\ held'[d] = held[d]
        \/ at[d] \notin {"subscribed", "configured"} /\ at'[d] \notin {"subscribed", "configured"}
    OBVIOUS
  <2>2. page'[d] = "live" /\ NoConfig(toServer'[d]) =>
          page[d] = "live" /\ NoConfig(toServer[d]) /\ shownConfig'[d] = shownConfig[d]
    BY <1>3
  <2>3. \/ queue'[d] = queue[d]
        \/ \E m : m.kind # "Config" /\ queue'[d] = Append(queue[d], m)
    BY <1>3
  <2>4. Receiving(d)' => Receiving(d)
    BY <1>1
  <2> QED BY <2>1, <2>2, <2>3, <2>4 DEF Calm
<1>4. \A d \in Conns : /\ at'[d] = "choosing" <=> at[d] = "choosing"
                       /\ at[d] = "choosing" => held'[d] = held[d]
  OBVIOUS
<1> QED BY <1>2, <1>3, <1>4, ConfigKept

\* Every action leaves the connections informed, or the task that informs them.
LEMMA ConfigStep ==
  ASSUME TypeOK, ConfigInv, [Next]_vars
  PROVE  ConfigInv'
<1> USE DEF sessionVars, taskVars, pageVars, history
<1>1. ASSUME NEW k \in Conns, Open(k) \/ Forward(k) \/ SetRunConfig(k) \/ BroadcastConfig(k)
      PROVE  ConfigInv'
  BY <1>1, OpenConfig, ForwardConfig, StoreConfig, AnnounceConfig
<1>2. ASSUME NEW k \in Conns, JoinSession(k) PROVE ConfigInv'
  <2>1. ~Receiving(k) /\ ~Receiving(k)'
    BY <1>2 DEF JoinSession, Goto, Receiving, Starting, InHandler, TypeOK
  <2>2. /\ at[k] \notin {"subscribed", "configured", "choosing"}
        /\ at'[k] \notin {"subscribed", "configured", "choosing"}
        /\ \A d \in Conns \ {k} : /\ at'[d] = at[d] /\ held'[d] = held[d]
                                  /\ page'[d] = page[d] /\ shownConfig'[d] = shownConfig[d]
        /\ config' = config /\ crossed' = crossed /\ queue' = queue /\ toServer' = toServer
    BY <1>2 DEF JoinSession, Goto, TypeOK
  <2>3. \A d \in Conns : Receiving(d) => Receiving(d)'
    BY <2>1, <2>2 DEF Receiving
  <2> QED BY <2>1, <2>2, <2>3, ConfigCalm
<1>3. ASSUME NEW k \in Conns, ReadUserList(k) \/ ReadStateId(k) \/ CheckInactive(k)
      PROVE  ConfigInv'
  <2>1. /\ at[k] \in {"greeted", "closing", "applied", "open"}
        /\ at'[k] \in {"listed", "leaving", "numbered", "checking"}
        /\ \A d \in Conns \ {k} : at'[d] = at[d] /\ held'[d] = held[d]
        /\ config' = config /\ crossed' = crossed /\ queue' = queue /\ toServer' = toServer
        /\ page' = page /\ shownConfig' = shownConfig
    BY <1>3 DEF ReadUserList, ReadStateId, CheckInactive, Goto, TypeOK
  <2>2. \A d \in Conns : Receiving(d)' <=> Receiving(d)
    BY <2>1 DEF Receiving, Starting, InHandler
  <2> QED BY <2>1, <2>2, ConfigCalm
<1>4. ASSUME NEW k \in Conns, ApplyUpdate(k) \/ Close(k) PROVE ConfigInv'
  <2>1. /\ at[k] = "open" /\ at'[k] \in {"applied", "closing"}
        /\ \A d \in Conns \ {k} : at'[d] = at[d] /\ held'[d] = held[d]
        /\ config' = config /\ crossed' = crossed /\ queue' = queue
        /\ page' = page /\ shownConfig' = shownConfig
    BY <1>4 DEF ApplyUpdate, Close, Take, Goto, TypeOK
  <2>2. \A d \in Conns : Receiving(d)' <=> Receiving(d)
    BY <2>1 DEF Receiving, InHandler
  <2>3. \A d \in Conns : NoConfig(toServer'[d]) => NoConfig(toServer[d])
    BY <1>4, TakeOther DEF ApplyUpdate, Close
  <2> QED BY <2>1, <2>2, <2>3, ConfigCalm
<1>5. ASSUME NEW k \in Conns, Pong(k) PROVE ConfigInv'
  <2>1. \A d \in Conns : NoConfig(toServer'[d]) => NoConfig(toServer[d])
    BY <1>5, TakeOther DEF Pong
  <2>2. /\ UNCHANGED <<at, held, config, crossed, queue, page, shownConfig>>
        /\ \A d \in Conns : Receiving(d)' <=> Receiving(d)
    BY <1>5 DEF Pong, Receiving
  <2> QED BY <2>1, <2>2, ConfigCalm
<1>6. ASSUME NEW k \in Conns, BroadcastUpdate(k) \/ (at[k] = "listed" /\ BroadcastUserList(k))
      PROVE  ConfigInv'
  <2>1. PICK m : /\ m.kind # "Config"
                 /\ queue' = Enqueued(m)
    BY <1>6, OtherMessages DEF BroadcastUpdate, BroadcastUserList, Broadcast
  <2>2. /\ at[k] \in {"numbered", "listed"} /\ at'[k] = "open"
        /\ \A d \in Conns \ {k} : at'[d] = at[d] /\ held'[d] = held[d]
        /\ config' = config /\ crossed' = crossed /\ toServer' = toServer
        /\ page' = page /\ shownConfig' = shownConfig
    BY <1>6 DEF BroadcastUpdate, BroadcastUserList, Goto, TypeOK
  <2>3. \A d \in Conns : Receiving(d)' <=> Receiving(d)
    BY <2>2 DEF Receiving, Starting, InHandler
  <2>4. \A d \in Conns : queue'[d] = IF Receiving(d) THEN Append(queue[d], m) ELSE queue[d]
    BY <2>1 DEF Enqueued
  <2> QED BY <2>1, <2>2, <2>3, <2>4, ConfigCalm
<1>7. ASSUME NEW k \in Conns, \/ at[k] = "leaving" /\ BroadcastUserList(k)
                              \/ StreamEnds(k) \/ ForwardFails(k)
                              \/ MarkInactive(k) /\ Ends(k)
      PROVE  ConfigInv'
  <2>1. PICK m : /\ m.kind # "Config"
                 /\ \/ queue' = [Enqueued(m) EXCEPT ![k] = <<>>]
                    \/ queue' = [queue EXCEPT ![k] = <<>>]
    <3>1. CASE at[k] = "leaving" /\ BroadcastUserList(k)
      BY <3>1, OtherMessages DEF BroadcastUserList
    <3>2. CASE StreamEnds(k) \/ ForwardFails(k)
      BY <3>2, OtherMessages DEF StreamEnds, ForwardFails
    <3>3. CASE MarkInactive(k) /\ Ends(k)
      <4>1. at'[k] # "open"
        BY <3>3 DEF Ends, Goto, TypeOK
      <4>2. queue' = [queue EXCEPT ![k] = <<>>]
        BY <3>3, <4>1 DEF MarkInactive, Goto, TypeOK
      <4> QED BY <4>2, OtherMessages
    <3> QED BY <1>7, <3>1, <3>2, <3>3
  <2>2. /\ at[k] \in {"leaving", "open", "checking"} /\ at'[k] = "closed"
        /\ \A d \in Conns \ {k} : /\ at'[d] = at[d] /\ held'[d] = held[d]
                                  /\ toServer'[d] = toServer[d]
        /\ config' = config /\ crossed' = crossed /\ page' = page /\ shownConfig' = shownConfig
    BY <1>7 DEF BroadcastUserList, StreamEnds, ForwardFails, MarkInactive, Ends, Goto, TypeOK
  <2>3. ~Receiving(k)' /\ \A d \in Conns \ {k} : Receiving(d)' <=> Receiving(d)
    BY <2>2 DEF Receiving, Starting, InHandler
  <2>4. /\ queue'[k] = <<>>
        /\ \A d \in Conns \ {k} : \/ queue'[d] = queue[d]
                                  \/ Receiving(d) /\ queue'[d] = Append(queue[d], m)
    BY <2>1 DEF Enqueued, TypeOK
  <2> QED BY <2>1, <2>2, <2>3, <2>4, ConfigCalm
<1>8. ASSUME NEW k \in Conns, MarkInactive(k), ~Ends(k) PROVE ConfigInv'
  <2>1. /\ at[k] = "checking" /\ at'[k] = "open"
        /\ \A d \in Conns \ {k} : at'[d] = at[d] /\ held'[d] = held[d]
        /\ config' = config /\ crossed' = crossed /\ queue' = queue /\ toServer' = toServer
        /\ page' = page /\ shownConfig' = shownConfig
    BY <1>8 DEF MarkInactive, Goto, TypeOK
  <2>2. \A d \in Conns : Receiving(d)' <=> Receiving(d)
    BY <2>1 DEF Receiving, InHandler
  <2> QED BY <2>1, <2>2, ConfigCalm
<1>9. ASSUME NEW k \in Conns, SendPing(k) \/ SendUpdate(k) PROVE ConfigInv'
  <2>1. shownConfig' = shownConfig
    BY <1>9 DEF SendPing, SendUpdate, Show, UsersMsg
  <2>2. /\ UNCHANGED <<at, held, config, crossed, queue, page>>
        /\ \A d \in Conns : Receiving(d)' <=> Receiving(d)
    BY <1>9 DEF SendPing, SendUpdate, Receiving
  <2>3. \A d \in Conns : NoConfig(toServer'[d]) => NoConfig(toServer[d])
    BY <1>9, SendOther DEF SendPing, Answer, SendUpdate, ToServer
  <2> QED BY <2>1, <2>2, <2>3, ConfigCalm
<1>10. ASSUME NEW k \in Conns, ChooseConfig(k) PROVE ConfigInv'
  <2>1. PICK c \in Configs : /\ shownConfig' = [shownConfig EXCEPT ![k] = c]
                             /\ toServer' = [toServer EXCEPT ![k] = Append(@, ConfigMsg(c))]
    BY <1>10 DEF ChooseConfig, ToServer
  <2>2. /\ UNCHANGED <<at, held, config, crossed, queue, page>>
        /\ \A d \in Conns : Receiving(d)' <=> Receiving(d)
    BY <1>10 DEF ChooseConfig, Receiving
  <2>3. ~NoConfig(toServer'[k]) /\ \A d \in Conns : NoConfig(toServer'[d]) => NoConfig(toServer[d])
    <3>1. PICK m : m = ConfigMsg(c)
      OBVIOUS
    <3>2. m.kind = "Config"
      BY <3>1 DEF ConfigMsg
    <3>3. toServer' = [toServer EXCEPT ![k] = Append(@, m)]
      BY <2>1, <3>1
    <3> QED BY <3>2, <3>3, SendOther
  <2>4. \A d \in Conns \ {k} : shownConfig'[d] = shownConfig[d]
    BY <2>1 DEF TypeOK
  <2> QED BY <2>2, <2>3, <2>4, ConfigCalm
<1>11. ASSUME NEW k \in Conns, Leave(k) PROVE ConfigInv'
  <2>1. page'[k] = "gone" /\ \A d \in Conns \ {k} : /\ page'[d] = page[d]
                                                    /\ shownConfig'[d] = shownConfig[d]
    BY <1>11 DEF Leave, TypeOK
  <2>2. /\ UNCHANGED <<at, held, config, crossed, queue>>
        /\ \A d \in Conns : Receiving(d)' <=> Receiving(d)
    BY <1>11 DEF Leave, Receiving
  <2>3. \A d \in Conns : NoConfig(toServer'[d]) => NoConfig(toServer[d])
    BY <1>11, SendOther DEF Leave, ToServer
  <2> QED BY <2>1, <2>2, <2>3, ConfigCalm
<1>12. ASSUME \/ \E u \in Users : GoLate(u)
              \/ BackgroundCheck \/ BackgroundMark \/ UNCHANGED vars
       PROVE  ConfigInv'
  <2>1. UNCHANGED <<at, held, config, crossed, queue, page, shownConfig, toServer>>
    BY <1>12 DEF GoLate, BackgroundCheck, BackgroundMark, vars
  <2> QED BY <2>1 DEF ConfigInv, Informed, Receiving
<1>13. ASSUME NEW k \in Conns, BroadcastUserList(k) PROVE at[k] = "listed" \/ at[k] = "leaving"
  BY <1>13 DEF BroadcastUserList
<1>14. ASSUME NEW k \in Conns, Handle(k) \/ Finish(k) PROVE ConfigInv'
  <2>1. CASE ApplyUpdate(k) \/ Close(k)
    BY <1>4, <2>1
  <2>2. CASE SetRunConfig(k) \/ BroadcastConfig(k)
    BY <1>1, <2>2
  <2>3. CASE Pong(k)
    BY <1>5, <2>3
  <2>4. CASE StreamEnds(k)
    BY <1>7, <2>4
  <2>5. CASE ReadStateId(k) \/ ReadUserList(k)
    BY <1>3, <2>5
  <2>6. CASE BroadcastUpdate(k) \/ BroadcastUserList(k)
    BY <1>6, <1>7, <1>13, <2>6
  <2>7. CASE MarkInactive(k)
    BY <1>7, <1>8, <2>7
  <2> QED BY <1>14, <2>1, <2>2, <2>3, <2>4, <2>5, <2>6, <2>7 DEF Handle, Finish
<1>15. ASSUME NEW k \in Conns, \/ Open(k) \/ Pass(k) \/ SendPing(k) \/ CheckInactive(k)
                               \/ Page(k)
       PROVE  ConfigInv'
  <2>1. CASE Open(k) \/ Forward(k)
    BY <1>1, <2>1
  <2>2. CASE ForwardFails(k)
    BY <1>7, <2>2
  <2>3. CASE SendPing(k) \/ SendUpdate(k)
    BY <1>9, <2>3
  <2>4. CASE CheckInactive(k)
    BY <1>3, <2>4
  <2>5. CASE JoinSession(k) \/ ChooseConfig(k) \/ Leave(k)
    BY <1>2, <1>10, <1>11, <2>5
  <2> QED BY <1>15, <2>1, <2>2, <2>3, <2>4, <2>5 DEF Pass, Page
<1> QED BY <1>12, <1>14, <1>15 DEF Next

-----------------------------------------------------------------------------
\* IInv holds initially.
LEMMA InitInv == Init => IInv
<1> SUFFICES ASSUME Init PROVE IInv
  OBVIOUS
<1>1. TypeOK
  <2>1. TaskInv
    BY DEF Init, TaskInv, States, Holds
  <2>2. /\ <<>> \in Seq(BroadcastMsgs) /\ <<>> \in Seq(PageMsgs) /\ <<>> \in Seq(UpdateMsgs)
        /\ budget \in [updates : Nat, choices : Nat, timers : BOOLEAN]
    BY ConnectionAssumption DEF Init
  <2>3. Others
    BY <2>2, ConnectionAssumption DEF Init, Others
  <2> QED BY <2>1, <2>3, Types
<1>2. FlightInv /\ SubscribedInv /\ OrderedUnlessOverlapped /\ NothingMissed
  BY DEF Init, FlightInv, InFlight, SubscribedInv, OrderedUnlessOverlapped, NothingMissed
<1>3. ConfigInv
  <2>1. \A k \in Conns : ~Receiving(k) /\ at[k] # "choosing" /\ queue[k] = <<>>
    BY DEF Init, Receiving, Starting, InHandler
  <2> QED BY <2>1 DEF ConfigInv
<1> QED BY <1>1, <1>2, <1>3 DEF IInv

\* Every step keeps IInv.
LEMMA StepInv == IInv /\ [Next]_vars => IInv'
<1> SUFFICES ASSUME IInv, [Next]_vars PROVE IInv'
  OBVIOUS
<1>1. TypeOK' /\ ConfigInv'
  BY TypedStep, ConfigStep DEF IInv
<1>2. CASE \E k \in Conns : Subscribe(k)
  BY <1>1, <1>2, SubscribeStep DEF IInv
<1>3. CASE \E k \in Conns : ApplyUpdate(k)
  BY <1>1, <1>3, ApplyStep DEF IInv
<1>4. CASE \E k \in Conns : ReadStateId(k)
  BY <1>1, <1>4, ReadStep DEF IInv
<1>5. CASE \E k \in Conns : BroadcastUpdate(k)
  BY <1>1, <1>5, BroadcastStep DEF IInv
<1>6. CASE ~\E k \in Conns : \/ Subscribe(k) \/ ApplyUpdate(k) \/ ReadStateId(k)
                             \/ BroadcastUpdate(k)
  <2>1. Quiet /\ Settled
    BY <1>6, QuietSteps DEF Next, Open, Handle, Finish, Page
  <2> QED BY <1>1, <2>1, QuietFlight, QuietMissed DEF IInv
<1> QED BY <1>2, <1>3, <1>4, <1>5, <1>6

\* The invariant holds for any users, connections, capacity and bounds.
THEOREM Invariance == Spec => []IInv
<1>1. Init => IInv
  BY InitInv
<1>2. IInv /\ [Next]_vars => IInv'
  BY StepInv
<1> QED BY <1>1, <1>2, PTL DEF Spec

\* Updates are broadcast under their own number and in their order, unless they
\* overlap: apply_client_operation, current_state_id and bcast of handle_text_message.
THEOREM UpdatesOrdered == Spec => []OrderedUnlessOverlapped
<1>1. IInv => OrderedUnlessOverlapped
  BY DEF IInv
<1> QED BY <1>1, Invariance, PTL

\* Between snapshot and updates nothing is missed: handle_websocket subscribes
\* before it reads the document.
THEOREM UpdatesComplete == Spec => []NothingMissed
<1>1. IInv => NothingMissed
  BY DEF IInv
<1> QED BY <1>1, Invariance, PTL

\* Pages show the configuration of the session unless two changes of it overlap:
\* set_run_config and bcast of handle_text_message, and the snapshot that
\* handle_websocket sends after it has subscribed.
THEOREM ConfigurationAgrees == Spec => []ConfigAgrees
<1>1. IInv => ConfigAgrees
  <2> SUFFICES ASSUME IInv, ~crossed, NEW k \in Conns, Connected(k), ConfigQuiet(k)
               PROVE  shownConfig[k] = config
    BY DEF ConfigAgrees
  <2>1. /\ Receiving(k) /\ page[k] = "live" /\ at[k] = "open" /\ queue[k] = <<>>
        /\ \A j \in Conns : at[j] # "choosing"
        /\ NoConfig(toServer[k])
    BY DEF Connected, ConfigQuiet, NoConfig
  <2>2. Informed(k)
    BY <2>1 DEF IInv, ConfigInv
  <2>3. ~NewestConfig(queue[k], config)
    BY <2>1 DEF NewestConfig
  <2> QED BY <2>1, <2>2, <2>3 DEF Informed
<1> QED BY <1>1, Invariance, PTL

=============================================================================
