------------------------------ MODULE Execution ------------------------------
(***************************************************************************)
(* Running the code of a session: rust/app/src/execute/runner.rs, the      *)
(* handler of a request in rust/app/src/websocket.rs, and the containers   *)
(* of rust/sandbox/src/container.rs.                                       *)
(*                                                                         *)
(* A request has two tasks.  run_code takes the run flag of the session,   *)
(* waits for one of the permits all sessions share, starts a container and *)
(* streams its responses into a bounded channel; when it returns, however  *)
(* it returns, its RunProgressNotifier is dropped, which clears the flag.  *)
(* The handler reads the channel, stores the output in the session and     *)
(* broadcasts it, then joins the first task.                               *)
(***************************************************************************)
EXTENDS Integers, FiniteSets

CONSTANTS
  Runs,             \* requests to run code
  Sessions,
  SessionOf,        \* the session of each request
  NoRun,
  Permits,          \* MAX_CONCURRENT_CONTAINERS
  ChannelLimit,     \* CONTAINER_RESPONSE_MSG_LIMIT
  MaxResponses,     \* bound: responses of one container
  SessionsEmpty     \* whether all users of a session may leave

ASSUME ExecutionAssumption ==
  /\ SessionOf \in [Runs -> Sessions]
  /\ NoRun \notin Runs
  /\ IsFiniteSet(Runs)
  /\ Permits \in Nat \ {0}
  /\ ChannelLimit \in Nat \ {0}
  /\ MaxResponses \in Nat
  /\ SessionsEmpty \in BOOLEAN

VARIABLES
  \* sessions
  isRunning,        \* the flag of the ConcurrentRunChecker
  hasListeners,     \* some connection of the session receives broadcasts
  status,           \* the last RunStateUpdate its pages have been sent
  codeOutput,       \* code_output_state: the command, and whose output how far
  \* run_code tasks
  task,             \* how far
  result,           \* what it returns
  \* containers, and the responses on their way
  produced, ended,  \* responses of the container, and whether it has exited
  sent, received,   \* responses put into and taken from the channel
  handler           \* how far the handler is

sessionVars   == <<isRunning, hasListeners, status, codeOutput>>
taskVars      == <<task, result>>
containerVars == <<produced, ended>>
vars == <<sessionVars, taskVars, containerVars, sent, received, handler>>

-----------------------------------------------------------------------------
TaskState == {"none", "acquiring", "announcing", "awaitingPermit", "starting",
              "streaming", "dropping", "announcingEnd", "over", "panicked"}

Result == {"none", "exited", "failed", "outputTooLarge", "concurrentCompilation"}

HandlerState == {"none", "resetting", "receiving", "joining", "over", "panicked"}

RunsOf(s) == {r \in Runs : SessionOf[r] = s}

\* Runs with a permit, which is given back with the container.
Permitted == {r \in Runs : task[r] \in {"starting", "streaming"}}

\* Containers that have started and not exited.
Containers == {r \in Runs : sent[r] >= 1 /\ ~ended[r]}

TypeOK ==
  /\ isRunning \in [Sessions -> BOOLEAN]
  /\ hasListeners \in [Sessions -> BOOLEAN]
  /\ status \in [Sessions -> {"none", "RunStarted", "RunEnded"}]
  /\ codeOutput \in [Sessions -> [command : Runs \cup {NoRun},
                                  from : Runs \cup {NoRun}, upTo : Nat]]
  /\ task \in [Runs -> TaskState]
  /\ result \in [Runs -> Result]
  /\ produced \in [Runs -> 0..MaxResponses]
  /\ ended \in [Runs -> BOOLEAN]
  /\ sent \in [Runs -> Nat]
  /\ received \in [Runs -> Nat]
  /\ handler \in [Runs -> HandlerState]
  /\ Cardinality(Permitted) <= Permits

Init ==
  /\ isRunning = [s \in Sessions |-> FALSE]
  /\ hasListeners = [s \in Sessions |-> TRUE]
  /\ status = [s \in Sessions |-> "none"]
  /\ codeOutput = [s \in Sessions |-> [command |-> NoRun, from |-> NoRun, upTo |-> 0]]
  /\ task = [r \in Runs |-> "none"]
  /\ result = [r \in Runs |-> "none"]
  /\ produced = [r \in Runs |-> 0]
  /\ ended = [r \in Runs |-> FALSE]
  /\ sent = [r \in Runs |-> 0]
  /\ received = [r \in Runs |-> 0]
  /\ handler = [r \in Runs |-> "none"]

-----------------------------------------------------------------------------
(* The run_code task                                                       *)

Goes(r, from, to) == /\ task[r] = from
                     /\ task' = [task EXCEPT ![r] = to]

\* A broadcast reaches the pages there are.
BroadcastStatus(s, update) ==
  status' = IF hasListeners[s] THEN [status EXCEPT ![s] = update] ELSE status

\* A user presses the button: both tasks are spawned.
Request(r) ==
  /\ hasListeners[SessionOf[r]]
  /\ Goes(r, "none", "acquiring")
  /\ handler' = [handler EXCEPT ![r] = "resetting"]
  /\ UNCHANGED <<sessionVars, result, containerVars, sent, received>>

\* Fault: the flag is set, whatever it was.
SetCodeLock(r) ==
  /\ Goes(r, "acquiring", "announcing")
  /\ isRunning' = [isRunning EXCEPT ![SessionOf[r]] = TRUE]
  /\ UNCHANGED <<hasListeners, status, codeOutput, result, containerVars,
                 sent, received, handler>>

\* The flag is taken.
TryAcquireCodeLock(r) ==
  /\ ~isRunning[SessionOf[r]]
  /\ Goes(r, "acquiring", "announcing")
  /\ isRunning' = [isRunning EXCEPT ![SessionOf[r]] = TRUE]
  /\ UNCHANGED <<hasListeners, status, codeOutput, result, containerVars,
                 sent, received, handler>>

\* The flag is taken already: run_code returns, and drops the notifier it has
\* built before.
ConcurrentCompilation(r) ==
  /\ isRunning[SessionOf[r]]
  /\ Goes(r, "acquiring", "dropping")
  /\ result' = [result EXCEPT ![r] = "concurrentCompilation"]
  /\ UNCHANGED <<sessionVars, containerVars, sent, received, handler>>

AnnounceStart(r) ==
  /\ Goes(r, "announcing", "awaitingPermit")
  /\ BroadcastStatus(SessionOf[r], "RunStarted")
  /\ UNCHANGED <<isRunning, hasListeners, codeOutput, result, containerVars,
                 sent, received, handler>>

\* Fault: permits are not counted.
StartUnasked(r) ==
  /\ Goes(r, "awaitingPermit", "starting")
  /\ UNCHANGED <<sessionVars, result, containerVars, sent, received, handler>>

GetPermit(r) ==
  /\ Cardinality(Permitted) < Permits
  /\ Goes(r, "awaitingPermit", "starting")
  /\ UNCHANGED <<sessionVars, result, containerVars, sent, received, handler>>

\* The container does not start.
StartFails(r) ==
  /\ Goes(r, "starting", "dropping")
  /\ result' = [result EXCEPT ![r] = "failed"]
  /\ UNCHANGED <<sessionVars, containerVars, sent, received, handler>>

\* The container is up.  The first response, made by run_code itself, clears the
\* output.
Start(r) ==
  /\ Goes(r, "starting", "streaming")
  /\ sent' = [sent EXCEPT ![r] = 1]
  /\ UNCHANGED <<sessionVars, result, containerVars, received, handler>>

\* The container: it responds, and exits by itself or is killed after a time.
Produce(r) ==
  /\ task[r] = "streaming"
  /\ ~ended[r]
  /\ produced[r] < MaxResponses
  /\ produced' = [produced EXCEPT ![r] = @ + 1]
  /\ UNCHANGED <<sessionVars, taskVars, ended, sent, received, handler>>

Exit(r) ==
  /\ r \in Containers
  /\ ended' = [ended EXCEPT ![r] = TRUE]
  /\ UNCHANGED <<sessionVars, taskVars, produced, sent, received, handler>>

\* A response is put into the channel when there is room.
StreamResponse(r) ==
  /\ task[r] = "streaming"
  /\ sent[r] - 1 < produced[r]
  /\ sent[r] - received[r] < ChannelLimit
  /\ sent' = [sent EXCEPT ![r] = @ + 1]
  /\ UNCHANGED <<sessionVars, taskVars, containerVars, received, handler>>

\* Fault: the end of the output is taken for the end of the container.
EndOfOutput(r) ==
  /\ sent[r] - 1 = produced[r]
  /\ Goes(r, "streaming", "dropping")
  /\ result' = [result EXCEPT ![r] = "exited"]
  /\ UNCHANGED <<sessionVars, containerVars, sent, received, handler>>

\* Every response is sent, the tasks of the container are joined and it has
\* exited: run_code returns, and drops the container with the permit first.
EndStream(r) ==
  /\ ended[r]
  /\ sent[r] - 1 = produced[r]
  /\ Goes(r, "streaming", "dropping")
  /\ result' = [result EXCEPT ![r] = "exited"]
  /\ UNCHANGED <<sessionVars, containerVars, sent, received, handler>>

\* A response is too large: reading ends, run_code returns, and the container is
\* dropped, which does not kill it.
OutputTooLarge(r) ==
  /\ sent[r] - 1 = produced[r]
  /\ Goes(r, "streaming", "dropping")
  /\ result' = [result EXCEPT ![r] = "outputTooLarge"]
  /\ UNCHANGED <<sessionVars, containerVars, sent, received, handler>>

\* Fault: the end is announced and the flag stays.
DropWithoutClearing(r) ==
  /\ isRunning[SessionOf[r]]
  /\ Goes(r, "dropping", "announcingEnd")
  /\ UNCHANGED <<sessionVars, result, containerVars, sent, received, handler>>

\* Dropping the notifier clears the flag, whoever has set it.
DropNotifier(r) ==
  /\ isRunning[SessionOf[r]]
  /\ Goes(r, "dropping", "announcingEnd")
  /\ isRunning' = [isRunning EXCEPT ![SessionOf[r]] = FALSE]
  /\ UNCHANGED <<hasListeners, status, codeOutput, result, containerVars,
                 sent, received, handler>>

\* It is clear: the unwrap in the assertion panics and nothing is announced.
DropPanics(r) ==
  /\ ~isRunning[SessionOf[r]]
  /\ Goes(r, "dropping", "panicked")
  /\ UNCHANGED <<sessionVars, result, containerVars, sent, received, handler>>

\* Fault: the end of a run that has failed is not announced.
AnnounceSuccess(r) ==
  /\ Goes(r, "announcingEnd", "over")
  /\ IF result[r] = "failed" THEN UNCHANGED status
                             ELSE BroadcastStatus(SessionOf[r], "RunEnded")
  /\ UNCHANGED <<isRunning, hasListeners, codeOutput, result, containerVars,
                 sent, received, handler>>

AnnounceEnd(r) ==
  /\ Goes(r, "announcingEnd", "over")
  /\ BroadcastStatus(SessionOf[r], "RunEnded")
  /\ UNCHANGED <<isRunning, hasListeners, codeOutput, result, containerVars,
                 sent, received, handler>>

-----------------------------------------------------------------------------
(* The handler of the request                                              *)

HandlerGoes(r, from, to) == /\ handler[r] = from
                            /\ handler' = [handler EXCEPT ![r] = to]

\* The output of the session is reset, accepted or not.
SetCodeOutputState(r) ==
  /\ HandlerGoes(r, "resetting", "receiving")
  /\ codeOutput' = [codeOutput EXCEPT ![SessionOf[r]] =
                      [command |-> r, from |-> NoRun, upTo |-> 0]]
  /\ UNCHANGED <<isRunning, hasListeners, status, taskVars, containerVars, sent, received>>

\* A response becomes the output of the session and is broadcast.  Without
\* anybody to receive it the loop ends; the channel stays open.
Receive(r) ==
  /\ received[r] < sent[r]
  /\ HandlerGoes(r, "receiving", IF hasListeners[SessionOf[r]] THEN "receiving" ELSE "joining")
  /\ received' = [received EXCEPT ![r] = @ + 1]
  /\ codeOutput' = [codeOutput EXCEPT ![SessionOf[r]] =
                      [command |-> @.command, from |-> r, upTo |-> received[r] + 1]]
  /\ UNCHANGED <<isRunning, hasListeners, status, taskVars, containerVars, sent>>

\* Fault: a panicked task leaves its end of the channel open.
ClosedByReturn(r) ==
  /\ task[r] = "over"
  /\ received[r] = sent[r]
  /\ HandlerGoes(r, "receiving", "joining")
  /\ UNCHANGED <<sessionVars, taskVars, containerVars, sent, received>>

\* The channel is closed, by the end of the other task, and empty.
ChannelClosed(r) ==
  /\ task[r] \in {"over", "panicked"}
  /\ received[r] = sent[r]
  /\ HandlerGoes(r, "receiving", "joining")
  /\ UNCHANGED <<sessionVars, taskVars, containerVars, sent, received>>

Join(r) ==
  /\ task[r] \in {"over", "panicked"}
  /\ HandlerGoes(r, "joining", task[r])
  /\ UNCHANGED <<sessionVars, taskVars, containerVars, sent, received>>

-----------------------------------------------------------------------------
\* The last connection of a session ends; somebody opens the page again.
LastUserLeaves(s) ==
  /\ SessionsEmpty
  /\ hasListeners[s]
  /\ hasListeners' = [hasListeners EXCEPT ![s] = FALSE]
  /\ status' = [status EXCEPT ![s] = "none"]
  /\ UNCHANGED <<isRunning, codeOutput, taskVars, containerVars, sent, received, handler>>

SomebodyJoins(s) ==
  /\ ~hasListeners[s]
  /\ hasListeners' = [hasListeners EXCEPT ![s] = TRUE]
  /\ UNCHANGED <<isRunning, status, codeOutput, taskVars, containerVars,
                 sent, received, handler>>

-----------------------------------------------------------------------------
RunCode(r) == \/ TryAcquireCodeLock(r)
              \/ ConcurrentCompilation(r)
              \/ AnnounceStart(r)
              \/ GetPermit(r)
              \/ StartFails(r)
              \/ Start(r)
              \/ StreamResponse(r)
              \/ EndStream(r)
              \/ OutputTooLarge(r)
              \/ DropNotifier(r)
              \/ DropPanics(r)
              \/ AnnounceEnd(r)

HandleExecution(r) == \/ SetCodeOutputState(r)
                      \/ Receive(r)
                      \/ ChannelClosed(r)
                      \/ Join(r)

Next == \/ \E r \in Runs : \/ Request(r)
                           \/ RunCode(r)
                           \/ Produce(r)
                           \/ Exit(r)
                           \/ HandleExecution(r)
        \/ \E s \in Sessions : LastUserLeaves(s) \/ SomebodyJoins(s)

Spec == Init /\ [][Next]_vars

\* The runtime runs every task that can run, and a container is killed in the
\* end.  The semaphore serves in order, and no run asks twice.
Fairness == \A r \in Runs : /\ WF_vars(RunCode(r))
                            /\ WF_vars(Exit(r))
                            /\ WF_vars(HandleExecution(r))

FairSpec == Spec /\ Fairness

-----------------------------------------------------------------------------
(* Properties                                                              *)

\* Runs that have taken the flag and not yet given it back.
Accepted(r) == \/ task[r] \in {"announcing", "awaitingPermit", "starting", "streaming"}
               \/ task[r] = "dropping" /\ result[r] # "concurrentCompilation"

\* Refused requests whose notifier is gone.
Refused(s) == {r \in RunsOf(s) : /\ result[r] = "concurrentCompilation"
                                 /\ task[r] # "dropping"}

\* Runs that have announced their start and not their end, and requests that are
\* refused: all that will announce an end or have panicked.
EndOutstanding(r) ==
  task[r] \in {"awaitingPermit", "starting", "streaming", "dropping", "announcingEnd", "panicked"}

\* A session is never locked by a run that is over: while the flag is set, a run
\* that has taken it is still there to clear it, whatever panicked before.
LockIsHeld == \A s \in Sessions : isRunning[s] => \E r \in RunsOf(s) : Accepted(r)

\* What the flag is worth: each refused request lets at most one more run in, or
\* makes one task panic.  As long as nobody is refused there is one run at a
\* time and no panic.
OverlapBounded ==
  \A s \in Sessions :
    Cardinality({r \in RunsOf(s) : Accepted(r) \/ task[r] = "panicked"})
      <= Cardinality(Refused(s)) + (IF isRunning[s] THEN 1 ELSE 0)

\* A container that runs has a permit, or has written too much.
ContainersHavePermits ==
  \A r \in Containers : r \in Permitted \/ result[r] = "outputTooLarge"

\* While pages show a running program, and disable its button, some run of the
\* session has its end still to announce, or has panicked.
ShownRunExists ==
  \A s \in Sessions : status[s] = "RunStarted" => \E r \in RunsOf(s) : EndOutstanding(r)

\* Every request is answered: its handler ends, and so does the run.
RequestsEnd ==
  \A r \in Runs : task[r] # "none" ~> handler[r] \in {"over", "panicked"}

-----------------------------------------------------------------------------
(* What the documentation says, and the code does not do                   *)

\* README: one execution per session at a time.
OneExecution ==
  \A s \in Sessions : Cardinality({r \in RunsOf(s) : task[r] = "streaming"}) <= 1

\* The comment on the join in handle_execution: it is over at once, the channel
\* being closed.
JoinsInTheEnd == \A r \in Runs : handler[r] = "joining" ~> handler[r] \in {"over", "panicked"}
=============================================================================
