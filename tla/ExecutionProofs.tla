--------------------------- MODULE ExecutionProofs ---------------------------
(***************************************************************************)
(* What the run flag of a session guarantees, for any number of requests,  *)
(* sessions, permits and responses.                                        *)
(***************************************************************************)
EXTENDS Execution, FiniteSetTheorems, TLAPS

\* A run that has not ended has no result, and before it streams it has sent
\* nothing.
ResultInv ==
  \A r \in Runs :
    /\ task[r] \in {"none", "acquiring", "announcing", "awaitingPermit", "starting", "streaming"}
         => result[r] = "none"
    /\ task[r] \in {"none", "acquiring", "announcing", "awaitingPermit", "starting"}
         => sent[r] = 0

\* The runs of a session that hold its lock, or hold it no more because they
\* have panicked.
Holders(s) == {r \in RunsOf(s) : Accepted(r) \/ task[r] = "panicked"}

\* Pages that are gone show nothing.
ListenersInv == \A s \in Sessions : ~hasListeners[s] => status[s] = "none"

IInv == /\ TypeOK /\ ResultInv /\ ListenersInv
        /\ LockIsHeld /\ OverlapBounded /\ ContainersHavePermits /\ ShownRunExists

-----------------------------------------------------------------------------
\* The sets OverlapBounded counts are finite.
LEMMA Finite ==
  ASSUME NEW s \in Sessions
  PROVE  /\ IsFiniteSet(Holders(s)) /\ IsFiniteSet(Refused(s))
         /\ Cardinality(Holders(s)) \in Nat /\ Cardinality(Refused(s)) \in Nat
<1>1. Holders(s) \in SUBSET Runs /\ Refused(s) \in SUBSET Runs
  BY DEF Holders, Refused, RunsOf
<1>2. IsFiniteSet(Holders(s)) /\ IsFiniteSet(Refused(s))
  BY <1>1, FS_Subset, ExecutionAssumption
<1> QED BY <1>2, FS_CardinalityType

\* Permits are counted in a finite set.
LEMMA PermittedFinite == IsFiniteSet(Permitted) /\ Cardinality(Permitted) \in Nat
<1>1. Permitted \in SUBSET Runs
  BY DEF Permitted
<1>2. IsFiniteSet(Permitted)
  BY <1>1, FS_Subset, ExecutionAssumption
<1> QED BY <1>2, FS_CardinalityType

\* The initial states satisfy the invariant.
LEMMA InitInv == Init => IInv
<1> SUFFICES ASSUME Init PROVE IInv
  OBVIOUS
<1>1. Permitted = {}
  BY DEF Init, Permitted
<1>2. TypeOK
  BY <1>1, FS_EmptySet, ExecutionAssumption DEF Init, TypeOK, TaskState, Result, HandlerState
<1>3. ResultInv /\ ListenersInv /\ LockIsHeld /\ ContainersHavePermits /\ ShownRunExists
  BY DEF Init, ResultInv, ListenersInv, LockIsHeld, ContainersHavePermits, Containers,
         ShownRunExists
<1>4. OverlapBounded
  <2> SUFFICES ASSUME NEW s \in Sessions
               PROVE  Cardinality(Holders(s)) <= Cardinality(Refused(s))
                                                  + (IF isRunning[s] THEN 1 ELSE 0)
    BY DEF OverlapBounded, Holders
  <2>1. Holders(s) = {} /\ ~isRunning[s]
    BY DEF Init, Holders, Accepted, RunsOf
  <2> QED BY <2>1, Finite, FS_EmptySet
<1> QED BY <1>2, <1>3, <1>4 DEF IInv

-----------------------------------------------------------------------------
(* Types                                                                   *)

\* The types of the variables: TypeOK without the bound on the permits.
Typed ==
  /\ isRunning \in [Sessions -> BOOLEAN]
  /\ hasListeners \in [Sessions -> BOOLEAN]
  /\ status \in [Sessions -> {"none", "RunStarted", "RunEnded"}]
  /\ codeOutput \in [Sessions -> [command : Runs \cup {NoRun},
                                  from : Runs \cup {NoRun}, upTo : Nat]]
  /\ task \in [Runs -> TaskState]
  /\ result \in [Runs -> Result]
  /\ produced \in [Runs -> 0..MaxResponses]
  /\ ended \in [Runs -> BOOLEAN]
  /\ sent \in [Runs -> Nat]
  /\ received \in [Runs -> Nat]
  /\ handler \in [Runs -> HandlerState]

\* The two parts of TypeOK.
LEMMA Types == TypeOK <=> Typed /\ Cardinality(Permitted) <= Permits
  BY DEF TypeOK, Typed

\* Every action keeps the types of the variables.
LEMMA TypedStep == Typed /\ [Next]_vars => Typed'
<1> SUFFICES ASSUME Typed, [Next]_vars PROVE Typed'
  OBVIOUS
<1> USE ExecutionAssumption DEF Typed, sessionVars, taskVars, containerVars
<1>1. ASSUME NEW r \in Runs, Request(r) PROVE Typed'
  BY <1>1 DEF Request, Goes, TaskState, HandlerState
<1>2. ASSUME NEW r \in Runs, TryAcquireCodeLock(r) PROVE Typed'
  BY <1>2 DEF TryAcquireCodeLock, Goes, TaskState
<1>3. ASSUME NEW r \in Runs, ConcurrentCompilation(r) PROVE Typed'
  BY <1>3 DEF ConcurrentCompilation, Goes, TaskState, Result
<1>4. ASSUME NEW r \in Runs, AnnounceStart(r) PROVE Typed'
  BY <1>4 DEF AnnounceStart, Goes, BroadcastStatus, TaskState
<1>5. ASSUME NEW r \in Runs, GetPermit(r) PROVE Typed'
  BY <1>5 DEF GetPermit, Goes, TaskState
<1>6. ASSUME NEW r \in Runs, StartFails(r) PROVE Typed'
  BY <1>6 DEF StartFails, Goes, TaskState, Result
<1>7. ASSUME NEW r \in Runs, Start(r) PROVE Typed'
  BY <1>7 DEF Start, Goes, TaskState
<1>8. ASSUME NEW r \in Runs, StreamResponse(r) PROVE Typed'
  BY <1>8 DEF StreamResponse
<1>9. ASSUME NEW r \in Runs, EndStream(r) PROVE Typed'
  BY <1>9 DEF EndStream, Goes, TaskState, Result
<1>10. ASSUME NEW r \in Runs, OutputTooLarge(r) PROVE Typed'
  BY <1>10 DEF OutputTooLarge, Goes, TaskState, Result
<1>11. ASSUME NEW r \in Runs, DropNotifier(r) PROVE Typed'
  BY <1>11 DEF DropNotifier, Goes, TaskState
<1>12. ASSUME NEW r \in Runs, DropPanics(r) PROVE Typed'
  BY <1>12 DEF DropPanics, Goes, TaskState
<1>13. ASSUME NEW r \in Runs, AnnounceEnd(r) PROVE Typed'
  BY <1>13 DEF AnnounceEnd, Goes, BroadcastStatus, TaskState
<1>14. ASSUME NEW r \in Runs, Produce(r) PROVE Typed'
  BY <1>14 DEF Produce
<1>15. ASSUME NEW r \in Runs, Exit(r) PROVE Typed'
  BY <1>15 DEF Exit
<1>16. ASSUME NEW r \in Runs, SetCodeOutputState(r) PROVE Typed'
  BY <1>16 DEF SetCodeOutputState, HandlerGoes, HandlerState
<1>17. ASSUME NEW r \in Runs, Receive(r) PROVE Typed'
  <2>1. SessionOf[r] \in Sessions /\ received[r] + 1 \in Nat
    OBVIOUS
  <2>2. [command |-> codeOutput[SessionOf[r]].command, from |-> r, upTo |-> received[r] + 1]
          \in [command : Runs \cup {NoRun}, from : Runs \cup {NoRun}, upTo : Nat]
    BY <2>1
  <2>3. codeOutput' \in [Sessions -> [command : Runs \cup {NoRun},
                                      from : Runs \cup {NoRun}, upTo : Nat]]
    BY <1>17, <2>1, <2>2 DEF Receive
  <2>4. received' \in [Runs -> Nat] /\ handler' \in [Runs -> HandlerState]
    BY <1>17, <2>1 DEF Receive, HandlerGoes, HandlerState
  <2> QED BY <1>17, <2>3, <2>4 DEF Receive
<1>18. ASSUME NEW r \in Runs, ChannelClosed(r) PROVE Typed'
  BY <1>18 DEF ChannelClosed, HandlerGoes, HandlerState
<1>19. ASSUME NEW r \in Runs, Join(r) PROVE Typed'
  BY <1>19 DEF Join, HandlerGoes, HandlerState
<1>20. ASSUME NEW s \in Sessions, LastUserLeaves(s) PROVE Typed'
  BY <1>20 DEF LastUserLeaves
<1>21. ASSUME NEW s \in Sessions, SomebodyJoins(s) PROVE Typed'
  BY <1>21 DEF SomebodyJoins
<1>22. CASE UNCHANGED vars
  BY <1>22 DEF vars
<1> QED
  BY <1>1, <1>2, <1>3, <1>4, <1>5, <1>6, <1>7, <1>8, <1>9, <1>10, <1>11, <1>12, <1>13, <1>14, <1>15, <1>16, <1>17, <1>18, <1>19, <1>20, <1>21, <1>22
  DEF Next, RunCode, HandleExecution

-----------------------------------------------------------------------------
(* Steps that do not concern the flag                                      *)

\* The steps of containers, handlers and users change no task, result or flag,
\* send nothing, and no container that has exited starts again.
Aside == /\ UNCHANGED <<isRunning, task, result, sent>>
         /\ \A r \in Runs : ended[r] => ended'[r]

\* The other steps are those of run_code, and the request.
LEMMA StepKinds ==
  ASSUME Typed, [Next]_vars
  PROVE  Aside \/ \E r \in Runs : Request(r) \/ RunCode(r)
<1>1. ASSUME NEW r \in Runs, Produce(r) \/ Exit(r) \/ HandleExecution(r) PROVE Aside
  BY <1>1 DEF Aside, Produce, Exit, HandleExecution, SetCodeOutputState, Receive, ChannelClosed,
              Join, HandlerGoes, taskVars, containerVars, sessionVars, Typed
<1>2. ASSUME NEW s \in Sessions, LastUserLeaves(s) \/ SomebodyJoins(s) PROVE Aside
  BY <1>2 DEF Aside, LastUserLeaves, SomebodyJoins, taskVars, containerVars
<1>3. CASE UNCHANGED vars
  BY <1>3 DEF Aside, vars, taskVars, containerVars, sessionVars
<1> QED BY <1>1, <1>2, <1>3 DEF Next

\* The bound on the permits is kept: only GetPermit adds a permit.
LEMMA PermitStep ==
  ASSUME Typed, Cardinality(Permitted) <= Permits, [Next]_vars
  PROVE  Cardinality(Permitted') <= Permits
<1>1. ASSUME NEW r \in Runs, GetPermit(r) PROVE Cardinality(Permitted') <= Permits
  <2>1. Permitted' = Permitted \cup {r} /\ r \notin Permitted
    BY <1>1 DEF GetPermit, Goes, Permitted, Typed
  <2>2. Cardinality(Permitted') = Cardinality(Permitted) + 1
    BY <2>1, PermittedFinite, FS_AddElement
  <2> QED BY <1>1, <2>2, PermittedFinite, ExecutionAssumption DEF GetPermit
<1>2. ASSUME Permitted' \subseteq Permitted PROVE Cardinality(Permitted') <= Permits
  <2>1. Cardinality(Permitted') <= Cardinality(Permitted) /\ IsFiniteSet(Permitted')
    BY <1>2, PermittedFinite, FS_Subset
  <2>2. Cardinality(Permitted') \in Nat
    BY <2>1, FS_CardinalityType
  <2> QED BY <2>1, <2>2, PermittedFinite, ExecutionAssumption
<1>3. CASE Aside
  BY <1>2, <1>3 DEF Aside, Permitted
<1>4. ASSUME NEW r \in Runs, Request(r) \/ RunCode(r), ~GetPermit(r)
      PROVE  Permitted' \subseteq Permitted
  BY <1>4 DEF RunCode, Request, TryAcquireCodeLock, ConcurrentCompilation, AnnounceStart, StartFails, Start, StreamResponse, EndStream, OutputTooLarge, DropNotifier, DropPanics, AnnounceEnd,
              Goes, Permitted, Typed, taskVars
<1> QED BY <1>1, <1>2, <1>3, <1>4, StepKinds

\* TypeOK is kept.
LEMMA TypeStep == TypeOK /\ [Next]_vars => TypeOK'
<1>1. TypeOK /\ [Next]_vars => Typed'
  BY Types, TypedStep
<1>2. TypeOK /\ [Next]_vars => Cardinality(Permitted') <= Permits
  BY Types, PermitStep
<1> QED BY <1>1, <1>2 DEF TypeOK, Typed

\* What a run has sent and returned follows its task.
LEMMA ResultStep ==
  ASSUME Typed, ResultInv, [Next]_vars
  PROVE  ResultInv'
<1> USE DEF Typed, ResultInv, taskVars, sessionVars, containerVars
<1>1. ASSUME NEW r \in Runs, Request(r) PROVE ResultInv'
  BY <1>1 DEF Request, Goes
<1>2. ASSUME NEW r \in Runs, TryAcquireCodeLock(r) PROVE ResultInv'
  BY <1>2 DEF TryAcquireCodeLock, Goes
<1>3. ASSUME NEW r \in Runs, ConcurrentCompilation(r) PROVE ResultInv'
  BY <1>3 DEF ConcurrentCompilation, Goes
<1>4. ASSUME NEW r \in Runs, AnnounceStart(r) PROVE ResultInv'
  BY <1>4 DEF AnnounceStart, Goes
<1>5. ASSUME NEW r \in Runs, GetPermit(r) PROVE ResultInv'
  BY <1>5 DEF GetPermit, Goes
<1>6. ASSUME NEW r \in Runs, StartFails(r) PROVE ResultInv'
  BY <1>6 DEF StartFails, Goes
<1>7. ASSUME NEW r \in Runs, Start(r) PROVE ResultInv'
  BY <1>7 DEF Start, Goes
<1>8. ASSUME NEW r \in Runs, StreamResponse(r) PROVE ResultInv'
  BY <1>8 DEF StreamResponse, Goes
<1>9. ASSUME NEW r \in Runs, EndStream(r) PROVE ResultInv'
  BY <1>9 DEF EndStream, Goes
<1>10. ASSUME NEW r \in Runs, OutputTooLarge(r) PROVE ResultInv'
  BY <1>10 DEF OutputTooLarge, Goes
<1>11. ASSUME NEW r \in Runs, DropNotifier(r) PROVE ResultInv'
  BY <1>11 DEF DropNotifier, Goes
<1>12. ASSUME NEW r \in Runs, DropPanics(r) PROVE ResultInv'
  BY <1>12 DEF DropPanics, Goes
<1>13. ASSUME NEW r \in Runs, AnnounceEnd(r) PROVE ResultInv'
  BY <1>13 DEF AnnounceEnd, Goes
<1>14. CASE Aside
  BY <1>14 DEF Aside
<1> QED
  BY <1>1, <1>2, <1>3, <1>4, <1>5, <1>6, <1>7, <1>8, <1>9, <1>10, <1>11, <1>12, <1>13, <1>14, StepKinds DEF RunCode

\* A container that runs keeps its permit until it exits, or has written too much.
LEMMA ContainerStep ==
  ASSUME Typed, ResultInv, ContainersHavePermits, [Next]_vars
  PROVE  ContainersHavePermits'
<1> USE DEF Typed, ResultInv, ContainersHavePermits, Containers, Permitted, taskVars, sessionVars, containerVars
<1>1. ASSUME NEW r \in Runs, Request(r) PROVE ContainersHavePermits'
  BY <1>1 DEF Request, Goes
<1>2. ASSUME NEW r \in Runs, TryAcquireCodeLock(r) PROVE ContainersHavePermits'
  BY <1>2 DEF TryAcquireCodeLock, Goes
<1>3. ASSUME NEW r \in Runs, ConcurrentCompilation(r) PROVE ContainersHavePermits'
  BY <1>3 DEF ConcurrentCompilation, Goes
<1>4. ASSUME NEW r \in Runs, AnnounceStart(r) PROVE ContainersHavePermits'
  BY <1>4 DEF AnnounceStart, Goes
<1>5. ASSUME NEW r \in Runs, GetPermit(r) PROVE ContainersHavePermits'
  BY <1>5 DEF GetPermit, Goes
<1>6. ASSUME NEW r \in Runs, StartFails(r) PROVE ContainersHavePermits'
  BY <1>6 DEF StartFails, Goes
<1>7. ASSUME NEW r \in Runs, Start(r) PROVE ContainersHavePermits'
  BY <1>7 DEF Start, Goes
<1>8. ASSUME NEW r \in Runs, StreamResponse(r) PROVE ContainersHavePermits'
  BY <1>8 DEF StreamResponse, Goes
<1>9. ASSUME NEW r \in Runs, EndStream(r) PROVE ContainersHavePermits'
  BY <1>9 DEF EndStream, Goes
<1>10. ASSUME NEW r \in Runs, OutputTooLarge(r) PROVE ContainersHavePermits'
  BY <1>10 DEF OutputTooLarge, Goes
<1>11. ASSUME NEW r \in Runs, DropNotifier(r) PROVE ContainersHavePermits'
  BY <1>11 DEF DropNotifier, Goes
<1>12. ASSUME NEW r \in Runs, DropPanics(r) PROVE ContainersHavePermits'
  BY <1>12 DEF DropPanics, Goes
<1>13. ASSUME NEW r \in Runs, AnnounceEnd(r) PROVE ContainersHavePermits'
  BY <1>13 DEF AnnounceEnd, Goes
<1>14. CASE Aside
  BY <1>14 DEF Aside
<1> QED
  BY <1>1, <1>2, <1>3, <1>4, <1>5, <1>6, <1>7, <1>8, <1>9, <1>10, <1>11, <1>12, <1>13, <1>14, StepKinds DEF RunCode

\* The flag is set with a holder, and cleared before the holder goes.
LEMMA LockStep ==
  ASSUME Typed, ResultInv, LockIsHeld, [Next]_vars
  PROVE  LockIsHeld'
<1> USE DEF Typed, ResultInv, LockIsHeld, Accepted, RunsOf, taskVars, sessionVars, containerVars
<1>1. ASSUME NEW r \in Runs, Request(r) PROVE LockIsHeld'
  BY <1>1 DEF Request, Goes
<1>2. ASSUME NEW r \in Runs, TryAcquireCodeLock(r) PROVE LockIsHeld'
  BY <1>2 DEF TryAcquireCodeLock, Goes
<1>3. ASSUME NEW r \in Runs, ConcurrentCompilation(r) PROVE LockIsHeld'
  BY <1>3 DEF ConcurrentCompilation, Goes
<1>4. ASSUME NEW r \in Runs, AnnounceStart(r) PROVE LockIsHeld'
  BY <1>4 DEF AnnounceStart, Goes
<1>5. ASSUME NEW r \in Runs, GetPermit(r) PROVE LockIsHeld'
  BY <1>5 DEF GetPermit, Goes
<1>6. ASSUME NEW r \in Runs, StartFails(r) PROVE LockIsHeld'
  BY <1>6 DEF StartFails, Goes
<1>7. ASSUME NEW r \in Runs, Start(r) PROVE LockIsHeld'
  BY <1>7 DEF Start, Goes
<1>8. ASSUME NEW r \in Runs, StreamResponse(r) PROVE LockIsHeld'
  BY <1>8 DEF StreamResponse, Goes
<1>9. ASSUME NEW r \in Runs, EndStream(r) PROVE LockIsHeld'
  BY <1>9 DEF EndStream, Goes
<1>10. ASSUME NEW r \in Runs, OutputTooLarge(r) PROVE LockIsHeld'
  BY <1>10 DEF OutputTooLarge, Goes
<1>11. ASSUME NEW r \in Runs, DropNotifier(r) PROVE LockIsHeld'
  BY <1>11 DEF DropNotifier, Goes
<1>12. ASSUME NEW r \in Runs, DropPanics(r) PROVE LockIsHeld'
  BY <1>12 DEF DropPanics, Goes
<1>13. ASSUME NEW r \in Runs, AnnounceEnd(r) PROVE LockIsHeld'
  BY <1>13 DEF AnnounceEnd, Goes
<1>14. CASE Aside
  BY <1>14 DEF Aside
<1> QED
  BY <1>1, <1>2, <1>3, <1>4, <1>5, <1>6, <1>7, <1>8, <1>9, <1>10, <1>11, <1>12, <1>13, <1>14, StepKinds DEF RunCode

-----------------------------------------------------------------------------
(* The count of holders and refused requests                               *)

\* The bound for one session.
Bounded(s) == Cardinality(Holders(s)) <= Cardinality(Refused(s)) + (IF isRunning[s] THEN 1 ELSE 0)

\* The sets and the flag of s stay.
Same(s) == /\ Holders(s)' = Holders(s)
           /\ Refused(s)' = Refused(s)
           /\ isRunning'[s] = isRunning[s]

\* Most steps change neither the sets of a session nor its flag.
LEMMA SameStep ==
  ASSUME Typed, ResultInv, NEW s \in Sessions, NEW r \in Runs, Request(r) \/ RunCode(r),
         ~ (SessionOf[r] = s /\ (TryAcquireCodeLock(r) \/ DropNotifier(r) \/ DropPanics(r)))
  PROVE  Same(s)
<1> USE DEF Typed, ResultInv, Same, Holders, Refused, Accepted, RunsOf, taskVars, sessionVars,
            containerVars
<1>1. CASE Request(r)
  BY <1>1 DEF Request, Goes
<1>2. CASE TryAcquireCodeLock(r)
  BY <1>2 DEF TryAcquireCodeLock, Goes
<1>3. CASE ConcurrentCompilation(r)
  BY <1>3 DEF ConcurrentCompilation, Goes
<1>4. CASE AnnounceStart(r)
  BY <1>4 DEF AnnounceStart, Goes
<1>5. CASE GetPermit(r)
  BY <1>5 DEF GetPermit, Goes
<1>6. CASE StartFails(r)
  BY <1>6 DEF StartFails, Goes
<1>7. CASE Start(r)
  BY <1>7 DEF Start, Goes
<1>8. CASE StreamResponse(r)
  BY <1>8 DEF StreamResponse
<1>9. CASE EndStream(r)
  BY <1>9 DEF EndStream, Goes
<1>10. CASE OutputTooLarge(r)
  BY <1>10 DEF OutputTooLarge, Goes
<1>11. CASE DropNotifier(r)
  <2>1. SessionOf[r] # s
    BY <1>11
  <2>2. isRunning'[s] = isRunning[s]
    BY <1>11, <2>1 DEF DropNotifier
  <2>3. \A t \in RunsOf(s) : task'[t] = task[t] /\ result'[t] = result[t]
    BY <1>11, <2>1 DEF DropNotifier, Goes
  <2> QED BY <2>2, <2>3
<1>12. CASE DropPanics(r)
  BY <1>12 DEF DropPanics, Goes
<1>13. CASE AnnounceEnd(r)
  BY <1>13 DEF AnnounceEnd, Goes
<1> QED
  BY <1>1, <1>2, <1>3, <1>4, <1>5, <1>6, <1>7, <1>8, <1>9, <1>10, <1>11, <1>12, <1>13 DEF RunCode

\* Taking the flag adds a holder and sets the flag.
LEMMA AcquireStep ==
  ASSUME Typed, NEW r \in Runs, TryAcquireCodeLock(r), Bounded(SessionOf[r])
  PROVE  Bounded(SessionOf[r])'
<1> DEFINE s == SessionOf[r]
<1>1. s \in Sessions
  BY ExecutionAssumption
<1>2. Holders(s)' = Holders(s) \cup {r} /\ r \notin Holders(s) /\ Refused(s)' = Refused(s)
  BY DEF TryAcquireCodeLock, Goes, Typed, Holders, Refused, Accepted, RunsOf
<1>3. ~isRunning[s] /\ isRunning'[s]
  BY <1>1 DEF TryAcquireCodeLock, Typed
<1>4. Cardinality(Holders(s)') = Cardinality(Holders(s)) + 1
  BY <1>1, <1>2, Finite, FS_AddElement
<1> QED BY <1>1, <1>2, <1>3, <1>4, Finite DEF Bounded

\* The notifier of a holder clears the flag of the holder; that of a refused
\* request clears the flag of another run, and is counted.
LEMMA DropStep ==
  ASSUME Typed, NEW r \in Runs, DropNotifier(r), Bounded(SessionOf[r])
  PROVE  Bounded(SessionOf[r])'
<1> DEFINE s == SessionOf[r]
<1>1. s \in Sessions
  BY ExecutionAssumption
<1>2. isRunning[s] /\ ~isRunning'[s]
  BY <1>1 DEF DropNotifier, Typed
<1>3. CASE result[r] = "concurrentCompilation"
  <2>1. /\ Holders(s)' = Holders(s)
        /\ Refused(s)' = Refused(s) \cup {r}
        /\ r \notin Refused(s)
    BY <1>3 DEF DropNotifier, Goes, Typed, Holders, Refused, Accepted, RunsOf, taskVars
  <2>2. Cardinality(Refused(s)') = Cardinality(Refused(s)) + 1
    BY <1>1, <2>1, Finite, FS_AddElement
  <2> QED BY <1>1, <1>2, <2>1, <2>2, Finite DEF Bounded
<1>4. CASE result[r] # "concurrentCompilation"
  <2>1. /\ Holders(s)' = Holders(s) \ {r}
        /\ Refused(s)' = Refused(s)
        /\ r \in Holders(s)
    BY <1>4 DEF DropNotifier, Goes, Typed, Holders, Refused, Accepted, RunsOf, taskVars
  <2>2. Cardinality(Holders(s)') = Cardinality(Holders(s)) - 1
    BY <1>1, <2>1, Finite, FS_RemoveElement
  <2> QED BY <1>1, <1>2, <2>1, <2>2, Finite DEF Bounded
<1> QED BY <1>3, <1>4

\* A holder that panics is counted still; a refused request that panics is
\* counted on both sides.
LEMMA PanicStep ==
  ASSUME Typed, NEW r \in Runs, DropPanics(r), Bounded(SessionOf[r])
  PROVE  Bounded(SessionOf[r])'
<1> DEFINE s == SessionOf[r]
<1>1. s \in Sessions
  BY ExecutionAssumption
<1>2. isRunning' = isRunning
  BY DEF DropPanics, sessionVars
<1>3. CASE result[r] = "concurrentCompilation"
  <2>1. /\ Holders(s)' = Holders(s) \cup {r} /\ r \notin Holders(s)
        /\ Refused(s)' = Refused(s) \cup {r} /\ r \notin Refused(s)
    BY <1>3 DEF DropPanics, Goes, Typed, Holders, Refused, Accepted, RunsOf
  <2>2. /\ Cardinality(Holders(s)') = Cardinality(Holders(s)) + 1
        /\ Cardinality(Refused(s)') = Cardinality(Refused(s)) + 1
    BY <1>1, <2>1, Finite, FS_AddElement
  <2> QED BY <1>1, <1>2, <2>2, Finite DEF Bounded
<1>4. CASE result[r] # "concurrentCompilation"
  <2>1. Holders(s)' = Holders(s) /\ Refused(s)' = Refused(s)
    BY <1>4 DEF DropPanics, Goes, Typed, Holders, Refused, Accepted, RunsOf
  <2> QED BY <1>2, <2>1 DEF Bounded
<1> QED BY <1>3, <1>4

\* Every step keeps the bound in every session.
LEMMA OverlapStep ==
  ASSUME Typed, ResultInv, OverlapBounded, [Next]_vars
  PROVE  OverlapBounded'
<1> SUFFICES ASSUME NEW s \in Sessions PROVE Bounded(s)'
  BY DEF OverlapBounded, Bounded, Holders
<1>1. Bounded(s)
  BY DEF OverlapBounded, Bounded, Holders
<1>2. ASSUME Same(s) PROVE Bounded(s)'
  BY <1>1, <1>2 DEF Bounded, Same
<1>3. CASE Aside
  BY <1>2, <1>3 DEF Aside, Same, Holders, Refused, Accepted, RunsOf
<1>4. ASSUME NEW r \in Runs, Request(r) \/ RunCode(r) PROVE Bounded(s)'
  <2>1. CASE SessionOf[r] = s /\ TryAcquireCodeLock(r)
    BY <1>1, <2>1, AcquireStep
  <2>2. CASE SessionOf[r] = s /\ DropNotifier(r)
    BY <1>1, <2>2, DropStep
  <2>3. CASE SessionOf[r] = s /\ DropPanics(r)
    BY <1>1, <2>3, PanicStep
  <2>4. CASE ~ (SessionOf[r] = s /\ (TryAcquireCodeLock(r) \/ DropNotifier(r) \/ DropPanics(r)))
    BY <1>2, <1>4, <2>4, SameStep
  <2> QED BY <2>1, <2>2, <2>3, <2>4
<1> QED BY <1>3, <1>4, StepKinds

-----------------------------------------------------------------------------
(* What pages show                                                         *)

\* Steps that neither tell pages anything nor change who will announce an end.
Silent == /\ UNCHANGED <<hasListeners, status>>
          /\ \A r \in Runs : EndOutstanding(r) => EndOutstanding(r)'

\* A start is announced by a run that has its end to announce, which it does last.
LEMMA ShownStep ==
  ASSUME Typed, ListenersInv, ShownRunExists, [Next]_vars
  PROVE  ListenersInv' /\ ShownRunExists'
<1> USE DEF Typed, ListenersInv, ShownRunExists, EndOutstanding, RunsOf
<1>1. CASE Silent
  BY <1>1 DEF Silent
<1>2. ASSUME NEW r \in Runs, Produce(r) \/ Exit(r) \/ HandleExecution(r) PROVE Silent
  BY <1>2 DEF Silent, Produce, Exit, HandleExecution, SetCodeOutputState, Receive, ChannelClosed,
              Join, taskVars, sessionVars
<1>3. ASSUME NEW r \in Runs, AnnounceStart(r) PROVE ListenersInv' /\ ShownRunExists'
  BY <1>3, ExecutionAssumption DEF AnnounceStart, Goes, BroadcastStatus
<1>4. ASSUME NEW r \in Runs, AnnounceEnd(r) PROVE ListenersInv' /\ ShownRunExists'
  BY <1>4, ExecutionAssumption DEF AnnounceEnd, Goes, BroadcastStatus
<1>5. ASSUME NEW r \in Runs, Request(r) \/ RunCode(r), ~AnnounceStart(r), ~AnnounceEnd(r)
      PROVE  Silent
  BY <1>5 DEF Silent, RunCode, Request, TryAcquireCodeLock, ConcurrentCompilation, GetPermit,
              StartFails, Start, StreamResponse, EndStream, OutputTooLarge, DropNotifier,
              DropPanics, Goes, taskVars, sessionVars
<1>6. ASSUME NEW s \in Sessions, LastUserLeaves(s) \/ SomebodyJoins(s)
      PROVE  ListenersInv' /\ ShownRunExists'
  BY <1>6 DEF LastUserLeaves, SomebodyJoins, taskVars
<1>7. CASE UNCHANGED vars
  BY <1>7 DEF vars, taskVars, sessionVars
<1> QED BY <1>1, <1>2, <1>3, <1>4, <1>5, <1>6, <1>7 DEF Next

-----------------------------------------------------------------------------
(* Theorems                                                                *)

\* Types, results, the flag, the permits, the pages: an invariant of the runs of a server,
\* for any number of requests, sessions, permits and responses, whoever panics.
THEOREM Invariance == Spec => []IInv
<1>1. IInv /\ [Next]_vars => IInv'
  <2> SUFFICES ASSUME IInv, [Next]_vars PROVE IInv'
    OBVIOUS
  <2>1. Typed /\ ResultInv
    BY Types DEF IInv
  <2>2. TypeOK'
    BY TypeStep DEF IInv
  <2>3. ResultInv' /\ LockIsHeld' /\ OverlapBounded' /\ ContainersHavePermits'
    BY <2>1, ResultStep, LockStep, OverlapStep, ContainerStep DEF IInv
  <2>4. ListenersInv' /\ ShownRunExists'
    BY <2>1, ShownStep DEF IInv
  <2> QED BY <2>2, <2>3, <2>4 DEF IInv
<1> QED BY <1>1, InitInv, PTL DEF Spec

\* Every variable keeps its type, and never more permits are out than there are.
THEOREM TypeCorrect == Spec => []TypeOK
<1>1. IInv => TypeOK
  BY DEF IInv
<1> QED BY <1>1, Invariance, PTL

\* The drop of a notifier never leaves a session locked with nobody to unlock it
\* (runner.rs, RunProgressNotifier::drop).
THEOREM LockHeld == Spec => []LockIsHeld
<1>1. IInv => LockIsHeld
  BY DEF IInv
<1> QED BY <1>1, Invariance, PTL

\* Runs that overlap in a session, and tasks that panic, are as many as refused
\* requests at most, and one (runner.rs, run_code).
THEOREM OverlapLimited == Spec => []OverlapBounded
<1>1. IInv => OverlapBounded
  BY DEF IInv
<1> QED BY <1>1, Invariance, PTL

\* A permit is kept as long as the container runs, unless its output is too large
\* (container.rs, ContainerFactory::create_container).
THEOREM PermitsHeld == Spec => []ContainersHavePermits
<1>1. IInv => ContainersHavePermits
  BY DEF IInv
<1> QED BY <1>1, Invariance, PTL

\* While pages show a running program there is a run that will announce its end,
\* or one that has panicked (runner.rs, bcast_code_run_started and _finished).
THEOREM ShownRuns == Spec => []ShownRunExists
<1>1. IInv => ShownRunExists
  BY DEF IInv
<1> QED BY <1>1, Invariance, PTL

=============================================================================
