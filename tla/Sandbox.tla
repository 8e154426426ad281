------------------------------- MODULE Sandbox -------------------------------
(***************************************************************************)
(* One run in a container: the application's side of its standard streams  *)
(* (rust/sandbox/src/container.rs), the runner in the container            *)
(* (bin/runner.rs, runner.rs), and the program it runs.                    *)
(*                                                                         *)
(* The program writes to two streams.  A task of the runner for each       *)
(* appends what it reads to one response and sends a copy of it; a writer  *)
(* puts the copies on the runner's standard output.  A task of the         *)
(* application decodes them, and stream_responses hands them on.  Output   *)
(* is counted.  Every hand-over, wait and end is a step.                   *)
(*                                                                         *)
(* A query, for the version of a compiler, is a run whose output is        *)
(* collected instead, and read when the container has ended.               *)
(***************************************************************************)
EXTENDS Naturals, Sequences, FiniteSets

CONSTANTS
  Plans,           \* bounds: in each behaviour whether it is a query, how many
                   \* messages are sent, how much is written to each stream
  Limit,           \* STDOUT_ERR_BYTE_LIMIT
  RunnerCapacity,  \* IO_COMPONENT_CHANNEL_SIZE in the runner
  AppCapacity,     \* IO_COMPONENT_CHANNEL_SIZE in the application
  Cut              \* a frame that was cut when its writer was killed

ASSUME SandboxAssumption ==
  /\ Plans \subseteq [query : BOOLEAN, messages : 1..2, out : Nat, err : Nat]
  /\ Limit \in Nat
  /\ \A p \in Plans : p.query => p.messages = 1 /\ p.out <= Limit /\ p.err <= Limit
  /\ RunnerCapacity \in Nat \ {0} /\ AppCapacity \in Nat \ {0}
  /\ Cut \notin [out : Nat, err : Nat, exit : BOOLEAN]

VARIABLES
  \* the program
  program,     \* none, running, ended
  exit,        \* how it has ended: none, code, signal
  written,     \* what it has written, of each stream
  unread,      \* and what is still in the pipe
  \* the runner
  runner,      \* its process: up, or how it ended
  main,        \* what its main task is doing
  inbox,       \* stdin_rx: messages that wait, and whether it is open
  stdinReader, \* reading, ended, failed
  reader,      \* the task of each stream of the program
  hand,        \* what the task has read, or the copy it is sending
  response,    \* the response all append to
  lock,        \* who has locked it
  runnerOut,   \* the channel to the writer
  writer,      \* receiving, writing, ok, failed
  frame,       \* what it is writing
  \* between the two
  stdinPipe,   \* messages on the way to the runner
  stdoutPipe,  \* frames on the way back
  \* the application
  app,         \* what run_code, or the query, is doing
  outcome,     \* of it
  plan, sent,  \* one of Plans; messages that have been sent
  stdinTx,     \* the sender of the container's messages is there
  childIn,     \* messages that wait for the stdin task
  tasks,       \* the state of the three tasks
  joinable,    \* the tasks that have ended, in order
  decoded,     \* the response the stdout task holds
  childOut,    \* the channel of responses
  received,    \* the response stream_responses holds
  consumer,    \* the receiver of stream_responses' channel is there
  delivered,   \* the last response it was handed, or that was collected
  answered     \* a response was collected

programVars == <<program, exit, written, unread>>
readerVars  == <<reader, hand, response, lock, runnerOut>>
writerVars  == <<writer, frame>>
runnerVars  == <<runner, main, inbox, stdinReader, readerVars, writerVars>>
taskVars    == <<childIn, tasks, joinable, decoded, childOut>>
endVars     == <<consumer, delivered, answered>>
appVars     == <<app, outcome, plan, sent, stdinTx, taskVars, received, endVars>>
vars        == <<programVars, runnerVars, stdinPipe, stdoutPipe, appVars>>

Streams   == {"out", "err"}
Responses == [out : Nat, err : Nat, exit : BOOLEAN]
Nothing   == [out |-> 0, err |-> 0, exit |-> FALSE]

Up        == runner = "up"
AppTasks  == {"stdout", "stdin", "stderr"}
InProcess == {"running", "sending"}

TypeOK ==
  /\ program \in {"none", "running", "ended"} /\ exit \in {"none", "code", "signal"}
  /\ written \in [Streams -> Nat] /\ unread \in [Streams -> Nat]
  /\ runner \in {"up", "ok", "error", "panicked", "killed"}
  /\ main \in {"listening", "running", "waiting", "sending", "handled", "failed"}
  /\ inbox \in [messages : Nat, open : BOOLEAN]
  /\ stdinReader \in {"reading", "ended", "failed"}
  /\ reader \in [Streams -> {"none", "reading", "locking", "sending", "done", "failed"}]
  /\ hand \in [Streams -> Responses]
  /\ response \in Responses
  /\ lock \in Streams \cup {"main", "free"}
  /\ runnerOut \in Seq(Responses) /\ Len(runnerOut) <= RunnerCapacity
  /\ writer \in {"receiving", "writing", "ok", "failed"} /\ frame \in Responses
  /\ stdinPipe \in Nat /\ stdoutPipe \in Seq(Responses \cup {Cut})
  /\ app \in {"sending", "streaming", "handing", "collecting", "joining", "waiting",
            "returned"}
  /\ outcome \in {"none", "ok", "nonZero", "ioError", "gone", "sendError", "insufficient"}
  /\ plan \in Plans /\ sent \in 0..plan.messages /\ stdinTx \in BOOLEAN /\ childIn \in Nat
  /\ tasks \in [AppTasks -> InProcess \cup {"ok", "failed", "aborted"}]
  /\ joinable \in Seq(AppTasks)
  /\ decoded \in Responses /\ received \in Responses /\ delivered \in Responses
  /\ childOut \in Seq(Responses) /\ Len(childOut) <= AppCapacity
  /\ consumer \in BOOLEAN /\ answered \in BOOLEAN

Init ==
  /\ program = "none" /\ exit = "none"
  /\ written = [s \in Streams |-> 0] /\ unread = [s \in Streams |-> 0]
  /\ runner = "up" /\ main = "listening"
  /\ inbox = [messages |-> 0, open |-> TRUE] /\ stdinReader = "reading"
  /\ reader = [s \in Streams |-> "none"] /\ hand = [s \in Streams |-> Nothing]
  /\ response = Nothing /\ lock = "free" /\ runnerOut = <<>>
  /\ writer = "receiving" /\ frame = Nothing
  /\ stdinPipe = 0 /\ stdoutPipe = <<>>
  /\ app = "sending" /\ outcome = "none" /\ plan \in Plans /\ sent = 0
  /\ stdinTx = TRUE /\ childIn = 0
  /\ tasks = [t \in AppTasks |-> "running"] /\ joinable = <<>>
  /\ decoded = Nothing /\ childOut = <<>> /\ received = Nothing
  /\ consumer = TRUE /\ delivered = Nothing /\ answered = FALSE

-----------------------------------------------------------------------------
(* The program                                                             *)

\* Bound: the plan.
Write(s) ==
  /\ program = "running"
  /\ written[s] < plan[s]
  /\ reader[s] \notin {"done", "failed"}
  /\ written' = [written EXCEPT ![s] = @ + 1]
  /\ unread' = [unread EXCEPT ![s] = @ + 1]
  /\ UNCHANGED <<program, exit, runnerVars, stdinPipe, stdoutPipe, appVars>>

ProgramEnds ==
  /\ program = "running"
  /\ program' = "ended"
  /\ exit' \in {"code", "signal"}
  /\ UNCHANGED <<written, unread, runnerVars, stdinPipe, stdoutPipe, appVars>>

-----------------------------------------------------------------------------
(* The runner: messages                                                    *)

\* A message after the first finds the receiver closed, if it comes late.
ReadMessage ==
  /\ Up
  /\ stdinReader = "reading"
  /\ stdinPipe > 0
  /\ stdinPipe' = stdinPipe - 1
  /\ IF inbox.open
       THEN inbox' = [inbox EXCEPT !.messages = @ + 1] /\ UNCHANGED stdinReader
       ELSE stdinReader' = "failed" /\ UNCHANGED inbox
  /\ UNCHANGED <<programVars, runner, main, readerVars, writerVars, stdoutPipe, appVars>>

StdinEnds ==
  /\ Up
  /\ stdinReader = "reading"
  /\ stdinPipe = 0
  /\ tasks["stdin"] \notin InProcess
  /\ stdinReader' = "ended"
  /\ UNCHANGED <<programVars, runner, main, inbox, readerVars, writerVars, stdinPipe,
                 stdoutPipe, appVars>>

\* The runner takes one message.  The program may fail to start.
StartProgram ==
  /\ Up
  /\ main = "listening"
  /\ inbox.messages > 0
  /\ inbox' = [inbox EXCEPT !.messages = @ - 1]
  /\ \/ /\ main' = "running"
        /\ program' = "running"
        /\ reader' = [s \in Streams |-> "reading"]
     \/ /\ main' = "failed"
        /\ UNCHANGED <<program, reader>>
  /\ UNCHANGED <<exit, written, unread, runner, stdinReader, hand, response, lock, runnerOut,
                 writerVars, stdinPipe, stdoutPipe, appVars>>

\* The end of a query that was given up before its message was written.
NoMessage ==
  /\ Up
  /\ main = "listening"
  /\ inbox.messages = 0
  /\ stdinReader = "ended"
  /\ main' = "handled"
  /\ UNCHANGED <<programVars, runner, inbox, stdinReader, readerVars, writerVars, stdinPipe,
                 stdoutPipe, appVars>>

-----------------------------------------------------------------------------
(* The runner: the two streams of the program                              *)

ReadOutput(s) ==
  /\ Up
  /\ reader[s] = "reading"
  /\ \E n \in 1..unread[s] : /\ hand' = [hand EXCEPT ![s] = [Nothing EXCEPT ![s] = n]]
                             /\ unread' = [unread EXCEPT ![s] = @ - n]
  /\ reader' = [reader EXCEPT ![s] = "locking"]
  /\ UNCHANGED <<program, exit, written, runner, main, inbox, stdinReader, response, lock,
                 runnerOut, writerVars, stdinPipe, stdoutPipe, appVars>>

OutputEnds(s) ==
  /\ Up
  /\ reader[s] = "reading"
  /\ unread[s] = 0
  /\ program = "ended"
  /\ reader' = [reader EXCEPT ![s] = "done"]
  /\ UNCHANGED <<programVars, runner, main, inbox, stdinReader, hand, response, lock, runnerOut,
                 writerVars, stdinPipe, stdoutPipe, appVars>>

\* What is read is appended, and a copy taken.
Appended(s) ==
  /\ Up
  /\ reader[s] = "locking"
  /\ lock = "free"
  /\ response' = [response EXCEPT ![s] = @ + hand[s][s]]
  /\ hand' = [hand EXCEPT ![s] = response']
  /\ reader' = [reader EXCEPT ![s] = "sending"]
  /\ UNCHANGED <<programVars, runner, main, inbox, stdinReader, runnerOut, writerVars,
                 stdinPipe, stdoutPipe, appVars>>

\* Fault: the lock is let go before the copy is sent.
AppendBriefly(s) == Appended(s) /\ UNCHANGED lock

AppendOutput(s) == Appended(s) /\ lock' = s

\* The copy is sent under the lock, when there is room.
SendOutput(s) ==
  /\ Up
  /\ reader[s] = "sending"
  /\ lock' = "free"
  /\ IF writer = "failed"
       THEN reader' = [reader EXCEPT ![s] = "failed"] /\ UNCHANGED runnerOut
       ELSE /\ Len(runnerOut) < RunnerCapacity
            /\ runnerOut' = Append(runnerOut, hand[s])
            /\ reader' = [reader EXCEPT ![s] = "reading"]
  /\ hand' = [hand EXCEPT ![s] = Nothing]
  /\ UNCHANGED <<programVars, runner, main, inbox, stdinReader, response, writerVars,
                 stdinPipe, stdoutPipe, appVars>>

JoinReaders ==
  /\ Up
  /\ main = "running"
  /\ \A s \in Streams : reader[s] \in {"done", "failed"}
  /\ main' = "waiting"
  /\ UNCHANGED <<programVars, runner, inbox, stdinReader, readerVars, writerVars, stdinPipe,
                 stdoutPipe, appVars>>

\* The exit code, which a signal does not leave, is part of the last response.
RecordExit ==
  /\ Up
  /\ main = "waiting"
  /\ program = "ended"
  /\ lock = "free"
  /\ lock' = "main"
  /\ response' = [response EXCEPT !.exit = exit = "code"]
  /\ main' = "sending"
  /\ UNCHANGED <<programVars, runner, inbox, stdinReader, reader, hand, runnerOut, writerVars,
                 stdinPipe, stdoutPipe, appVars>>

\* Fault: the last response does not wait for room.
SendExitAtOnce ==
  /\ Up
  /\ main = "sending"
  /\ lock' = "free"
  /\ runnerOut' = Append(runnerOut, response)
  /\ inbox' = [inbox EXCEPT !.open = FALSE]
  /\ main' = "handled"
  /\ UNCHANGED <<programVars, runner, stdinReader, reader, hand, response, writerVars,
                 stdinPipe, stdoutPipe, appVars>>

\* After the last response no message is received, and no sender is left.
SendExit ==
  /\ Up
  /\ main = "sending"
  /\ lock' = "free"
  /\ IF writer = "failed"
       THEN main' = "failed" /\ UNCHANGED <<inbox, runnerOut>>
       ELSE /\ Len(runnerOut) < RunnerCapacity
            /\ runnerOut' = Append(runnerOut, response)
            /\ inbox' = [inbox EXCEPT !.open = FALSE]
            /\ main' = "handled"
  /\ UNCHANGED <<programVars, runner, stdinReader, reader, hand, response, writerVars,
                 stdinPipe, stdoutPipe, appVars>>

-----------------------------------------------------------------------------
(* The runner: its output and its end                                      *)

TakeResponse ==
  /\ Up
  /\ writer = "receiving"
  /\ runnerOut # <<>>
  /\ writer' = "writing"
  /\ frame' = Head(runnerOut)
  /\ runnerOut' = Tail(runnerOut)
  /\ UNCHANGED <<programVars, runner, main, inbox, stdinReader, reader, hand, response, lock,
                 stdinPipe, stdoutPipe, appVars>>

\* Bound: the pipe holds one frame.  Writing fails once nobody reads.
WriteFrame ==
  /\ Up
  /\ writer = "writing"
  /\ IF tasks["stdout"] \in InProcess
       THEN /\ stdoutPipe = <<>>
            /\ stdoutPipe' = <<frame>>
            /\ writer' = "receiving"
            /\ UNCHANGED runnerOut
       ELSE /\ writer' = "failed"
            /\ runnerOut' = <<>>
            /\ UNCHANGED stdoutPipe
  /\ frame' = Nothing
  /\ UNCHANGED <<programVars, runner, main, inbox, stdinReader, reader, hand, response, lock,
                 stdinPipe, appVars>>

Handled == main \in {"handled", "failed"}

WriterEnds ==
  /\ Up
  /\ writer = "receiving"
  /\ runnerOut = <<>>
  /\ Handled
  /\ writer' = "ok"
  /\ UNCHANGED <<programVars, runner, main, inbox, stdinReader, readerVars, frame, stdinPipe,
                 stdoutPipe, appVars>>

ExitStatus == IF main = "failed" \/ writer = "failed" THEN "error"
              ELSE IF stdinReader = "reading" THEN "ok" ELSE "panicked"

\* The runner ends with its writer.  It asserts that the task that reads its
\* input is there to be aborted.
RunnerEnds ==
  /\ Up
  /\ Handled
  /\ writer \in {"ok", "failed"}
  /\ runner' = ExitStatus
  /\ UNCHANGED <<programVars, main, inbox, stdinReader, readerVars, writerVars, stdinPipe,
                 stdoutPipe, appVars>>

\* The container is killed at the end of its time, between frames or within one.
Kill ==
  /\ Up
  /\ runner' = "killed"
  /\ IF program = "running"
       THEN program' = "ended" /\ exit' = "signal"
       ELSE UNCHANGED <<program, exit>>
  /\ \/ /\ writer = "writing" /\ tasks["stdout"] \in InProcess
        /\ stdoutPipe' = Append(stdoutPipe, Cut)
     \/ UNCHANGED stdoutPipe
  /\ UNCHANGED <<written, unread, main, inbox, stdinReader, readerVars, writerVars, stdinPipe,
                 appVars>>

-----------------------------------------------------------------------------
(* The application: the three tasks of create_child_io                     *)

\* Task t ends; it can be joined.
TaskEnds(t, how) == /\ tasks' = [tasks EXCEPT ![t] = how]
                    /\ joinable' = Append(joinable, t)

WriteMessage ==
  /\ tasks["stdin"] = "running"
  /\ childIn > 0
  /\ childIn' = childIn - 1
  /\ IF Up
       THEN stdinPipe' = stdinPipe + 1 /\ UNCHANGED <<tasks, joinable>>
       ELSE TaskEnds("stdin", "failed") /\ UNCHANGED stdinPipe
  /\ UNCHANGED <<programVars, runnerVars, stdoutPipe, app, outcome, plan, sent, stdinTx,
                 decoded, childOut, received, endVars>>

StdinTaskEnds ==
  /\ tasks["stdin"] = "running"
  /\ childIn = 0
  /\ ~stdinTx
  /\ TaskEnds("stdin", "ok")
  /\ UNCHANGED <<programVars, runnerVars, stdinPipe, stdoutPipe, app, outcome, plan, sent,
                 stdinTx, childIn, decoded, childOut, received, endVars>>

\* Fault: a response of just the limit is too large.
AtLimit(r) == \E s \in Streams : r[s] >= Limit

TooLarge(r) == \E s \in Streams : r[s] > Limit

\* Part of a frame is waited for until the pipe is closed.
FrameReady == stdoutPipe # <<>> /\ (Head(stdoutPipe) = Cut => ~Up)

DecodeFrame ==
  /\ tasks["stdout"] = "running"
  /\ FrameReady
  /\ stdoutPipe' = Tail(stdoutPipe)
  /\ IF Head(stdoutPipe) = Cut \/ TooLarge(Head(stdoutPipe))
       THEN TaskEnds("stdout", "failed") /\ UNCHANGED decoded
       ELSE /\ tasks' = [tasks EXCEPT !["stdout"] = "sending"]
            /\ decoded' = Head(stdoutPipe)
            /\ UNCHANGED joinable
  /\ UNCHANGED <<programVars, runnerVars, stdinPipe, app, outcome, plan, sent, stdinTx,
                 childIn, childOut, received, endVars>>

SendDecoded ==
  /\ tasks["stdout"] = "sending"
  /\ Len(childOut) < AppCapacity
  /\ childOut' = Append(childOut, decoded)
  /\ tasks' = [tasks EXCEPT !["stdout"] = "running"]
  /\ decoded' = Nothing
  /\ UNCHANGED <<programVars, runnerVars, stdinPipe, stdoutPipe, app, outcome, plan, sent,
                 stdinTx, childIn, joinable, received, endVars>>

\* Standard output and error end with the container.
OutputTaskEnds(t) ==
  /\ t # "stdin"
  /\ tasks[t] = "running"
  /\ ~Up
  /\ t = "stdout" => stdoutPipe = <<>>
  /\ TaskEnds(t, "ok")
  /\ UNCHANGED <<programVars, runnerVars, stdinPipe, stdoutPipe, app, outcome, plan, sent,
                 stdinTx, childIn, decoded, childOut, received, endVars>>

-----------------------------------------------------------------------------
(* The application: sending, streaming, joining, waiting                   *)

\* The container is dropped with what it holds: tasks are aborted, nobody reads.
\* The process goes on.
Returns(how) ==
  /\ app' = "returned"
  /\ outcome' = how
  /\ stdinTx' = FALSE
  /\ tasks' = [t \in AppTasks |-> IF tasks[t] \in InProcess THEN "aborted" ELSE tasks[t]]
  /\ childIn' = 0 /\ joinable' = <<>> /\ decoded' = Nothing /\ childOut' = <<>>

\* Fault: the messages are the last, so that the sender is dropped with them.
SendAndClose ==
  /\ app = "sending"
  /\ childIn' = plan.messages
  /\ sent' = plan.messages
  /\ stdinTx' = FALSE
  /\ app' = IF plan.query THEN "collecting" ELSE "streaming"
  /\ UNCHANGED <<programVars, runnerVars, stdinPipe, stdoutPipe, outcome, plan, tasks, joinable,
                 decoded, childOut, received, endVars>>

SendMessage ==
  /\ app = "sending"
  /\ IF tasks["stdin"] = "running"
       THEN /\ childIn' = childIn + 1
            /\ sent' = sent + 1
            /\ app' = IF sent' < plan.messages THEN "sending"
                      ELSE IF plan.query THEN "collecting" ELSE "streaming"
            /\ UNCHANGED <<outcome, stdinTx, tasks, joinable, decoded, childOut>>
       ELSE Returns("sendError") /\ UNCHANGED sent
  /\ UNCHANGED <<programVars, runnerVars, stdinPipe, stdoutPipe, plan, received, endVars>>

ReceiveResponse ==
  /\ app = "streaming"
  /\ childOut # <<>>
  /\ received' = Head(childOut)
  /\ childOut' = Tail(childOut)
  /\ app' = "handing"
  /\ UNCHANGED <<programVars, runnerVars, stdinPipe, stdoutPipe, outcome, plan, sent, stdinTx,
                 childIn, tasks, joinable, decoded, endVars>>

HandOn ==
  /\ app = "handing"
  /\ received' = Nothing
  /\ IF consumer
       THEN /\ delivered' = received
            /\ app' = "streaming"
            /\ UNCHANGED <<outcome, stdinTx, taskVars>>
       ELSE Returns("gone") /\ UNCHANGED delivered
  /\ UNCHANGED <<programVars, runnerVars, stdinPipe, stdoutPipe, plan, sent, consumer, answered>>

OutputClosed ==
  /\ app = "streaming"
  /\ childOut = <<>>
  /\ tasks["stdout"] \notin InProcess
  /\ app' = "joining"
  /\ UNCHANGED <<programVars, runnerVars, stdinPipe, stdoutPipe, outcome, plan, sent, stdinTx,
                 taskVars, received, endVars>>

\* Fault: the sender is kept, and the task that waits for messages with it.
JoinTaskOnly ==
  /\ app = "joining"
  /\ joinable # <<>>
  /\ joinable' = Tail(joinable)
  /\ UNCHANGED <<programVars, runnerVars, stdinPipe, stdoutPipe, app, outcome, plan, sent,
                 stdinTx, childIn, tasks, decoded, childOut, received, endVars>>

\* The first task that is joined lets the one that waits for messages end.  A
\* failure ends the joining.
JoinTask ==
  /\ app = "joining"
  /\ joinable # <<>>
  /\ IF tasks[Head(joinable)] = "failed"
       THEN Returns("ioError")
       ELSE /\ joinable' = Tail(joinable)
            /\ stdinTx' = FALSE
            /\ UNCHANGED <<app, outcome, childIn, tasks, decoded, childOut>>
  /\ UNCHANGED <<programVars, runnerVars, stdinPipe, stdoutPipe, plan, sent, received, endVars>>

TasksJoined ==
  /\ app = "joining"
  /\ joinable = <<>>
  /\ \A t \in AppTasks : tasks[t] \notin InProcess
  /\ app' = "waiting"
  /\ UNCHANGED <<programVars, runnerVars, stdinPipe, stdoutPipe, outcome, plan, sent, stdinTx,
                 taskVars, received, endVars>>

ExitOutcome == IF runner = "ok" THEN "ok" ELSE "nonZero"

\* A version is read from the last response, if there is one.
QueryOutcome ==
  IF ExitOutcome = "ok" /\ ~answered THEN "insufficient" ELSE ExitOutcome

WaitChild ==
  /\ app = "waiting"
  /\ ~Up
  /\ Returns(IF plan.query THEN QueryOutcome ELSE ExitOutcome)
  /\ UNCHANGED <<programVars, runnerVars, stdinPipe, stdoutPipe, plan, sent, received, endVars>>

\* The receiver of the responses goes away.
ConsumerLeaves ==
  /\ ~plan.query
  /\ consumer
  /\ outcome = "none"
  /\ consumer' = FALSE
  /\ UNCHANGED <<programVars, runnerVars, stdinPipe, stdoutPipe, app, outcome, plan, sent,
                 stdinTx, taskVars, received, delivered, answered>>

-----------------------------------------------------------------------------
(* The application: a query                                                *)

Collect ==
  /\ app = "collecting"
  /\ childOut # <<>>
  /\ delivered' = Head(childOut)
  /\ answered' = TRUE
  /\ childOut' = Tail(childOut)
  /\ UNCHANGED <<programVars, runnerVars, stdinPipe, stdoutPipe, app, outcome, plan, sent,
                 stdinTx, childIn, tasks, joinable, decoded, received, consumer>>

\* No task is joined, and the sender is kept.
Collected ==
  /\ app = "collecting"
  /\ childOut = <<>>
  /\ tasks["stdout"] \notin InProcess
  /\ app' = "waiting"
  /\ UNCHANGED <<programVars, runnerVars, stdinPipe, stdoutPipe, outcome, plan, sent, stdinTx,
                 taskVars, received, endVars>>

\* The request that asked is dropped, with all it waits for.
QueryDropped ==
  /\ plan.query
  /\ outcome = "none"
  /\ consumer' = FALSE
  /\ Returns("gone")
  /\ UNCHANGED <<programVars, runnerVars, stdinPipe, stdoutPipe, plan, sent, received,
                 delivered, answered>>

-----------------------------------------------------------------------------
Readers == \E s \in Streams : ReadOutput(s) \/ OutputEnds(s) \/ SendOutput(s)
Main    == StartProgram \/ NoMessage \/ JoinReaders \/ RecordExit \/ SendExit \/ RunnerEnds
Writer  == TakeResponse \/ WriteFrame \/ WriterEnds
Stdin   == ReadMessage \/ StdinEnds
Stdout  == DecodeFrame \/ SendDecoded \/ OutputTaskEnds("stdout")
RunCode == SendMessage \/ ReceiveResponse \/ HandOn \/ OutputClosed \/ JoinTask \/ TasksJoined
           \/ WaitChild \/ Collect \/ Collected

Next == \/ \E s \in Streams : Write(s) \/ AppendOutput(s)
        \/ ProgramEnds \/ Kill \/ ConsumerLeaves \/ QueryDropped
        \/ Readers \/ Main \/ Writer \/ Stdin
        \/ Stdout \/ WriteMessage \/ StdinTaskEnds \/ OutputTaskEnds("stderr") \/ RunCode

Spec == Init /\ [][Next]_vars

\* Tasks that can run do; the lock goes to whoever waits for it.  Nothing is
\* assumed of the program, of the limit of its time, and of the consumer.
Fairness ==
  /\ \A s \in Streams : /\ WF_vars(ReadOutput(s) \/ OutputEnds(s) \/ SendOutput(s))
                        /\ SF_vars(AppendOutput(s))
  /\ WF_vars(Main) /\ WF_vars(Writer) /\ WF_vars(Stdin)
  /\ WF_vars(Stdout) /\ WF_vars(WriteMessage \/ StdinTaskEnds)
  /\ WF_vars(OutputTaskEnds("stderr")) /\ WF_vars(RunCode)

FairSpec == Spec /\ Fairness

-----------------------------------------------------------------------------
(* Properties                                                              *)

\* The runner's assertion, that the task reading its input has not ended, holds
\* unless a second message comes late or the application has given up.
AssertionHolds ==
  runner = "panicked" => stdinReader = "failed" \/ outcome \in {"ioError", "gone"}

Cause == \/ \E s \in Streams : written[s] > Limit
         \/ runner = "killed" \/ main = "failed"
         \/ ~consumer
         \/ plan.messages > 1

\* A run that starts, writes no more than the limit and is not killed, and whose
\* receiver stays, is not told to have failed.
FailureHasCause ==
  outcome \in {"nonZero", "ioError", "gone", "sendError", "insufficient"} => Cause

\* The message the runner has taken, if it has.
Taken == IF main = "listening" \/ (main = "handled" /\ inbox.open) THEN 0 ELSE 1

\* No message is made up on its way; only a second one can be late.
MessageInv ==
  /\ sent <= plan.messages
  /\ childIn + stdinPipe + inbox.messages + Taken <= sent
  /\ app = "sending" => sent < plan.messages
  /\ ~inbox.open => main = "handled"
  /\ stdinReader = "failed" => plan.messages > 1

GivenUp == outcome \in {"ioError", "gone"}

\* The runner's input stays open until it ends or is given up.
StdinInv ==
  /\ Up => (stdinTx /\ tasks["stdin"] = "running") \/ GivenUp
  /\ stdinReader = "ended" => GivenUp
  /\ main = "handled" /\ inbox.open => stdinReader = "ended"
  /\ runner = "panicked" => stdinReader # "reading"
  /\ app = "sending" => stdinTx
  /\ tasks["stdin"] = "ok" => ~stdinTx
  /\ tasks["stdin"] # "sending"

\* Who has ended, and what has been left.
ReturnInv ==
  /\ outcome # "none" <=> app = "returned"
  /\ outcome \in {"ok", "nonZero", "sendError", "insufficient"} => ~Up
  /\ app = "returned" => \A t \in AppTasks : tasks[t] \notin InProcess
  /\ \A t \in AppTasks : tasks[t] = "aborted" => app = "returned"
  /\ \A t \in AppTasks : tasks[t] = "ok" /\ t # "stdin" => ~Up

\* A task that can be joined has ended: with the runner, if it has not failed.
JoinInv ==
  \A i \in 1..Len(joinable) :
    /\ tasks[joinable[i]] \in {"ok", "failed"}
    /\ tasks[joinable[i]] = "ok" => ~Up

Within(r) == \A s \in Streams : r[s] <= written[s]

\* What the tasks of the runner have, and what it has sent, has been written.
OutputInv ==
  /\ \A s \in Streams :
       response[s] + unread[s] + (IF reader[s] = "locking" THEN hand[s][s] ELSE 0) = written[s]
  /\ \A s \in Streams : Within(hand[s])
  /\ Within(frame)

SentInv ==
  /\ \A i \in 1..Len(runnerOut) : Within(runnerOut[i])
  /\ \A i \in 1..Len(stdoutPipe) : \/ (stdoutPipe[i] = Cut /\ runner = "killed")
                                   \/ (stdoutPipe[i] # Cut /\ Within(stdoutPipe[i]))

\* Whatever fails has a cause, and makes others fail.
CauseInv ==
  /\ \A t \in AppTasks : tasks[t] = "failed" => Cause
  /\ writer = "failed" => Cause
  /\ runner \notin {"up", "ok"} => Cause

\* The runner's output is complete when its writer ends.
WriterInv ==
  /\ main # "running" => \A s \in Streams : reader[s] \in {"none", "done", "failed"}
  /\ writer = "ok" => Handled /\ runnerOut = <<>>
  /\ runner = "ok" => main = "handled" /\ writer = "ok"

\* The response to a query is on its way until it is there.
AnswerInv ==
  /\ tasks["stdout"] = "ok" => stdoutPipe = <<>>
  /\ app \in {"joining", "waiting"} => childOut = <<>> /\ tasks["stdout"] \notin InProcess
  /\ plan.query => app \notin {"streaming", "handing", "joining"}
  /\ plan.query /\ main = "handled" /\ outcome = "none" =>
       \/ Cause \/ answered
       \/ runnerOut # <<>> \/ writer = "writing" \/ stdoutPipe # <<>>
       \/ tasks["stdout"] = "sending" \/ childOut # <<>>

\* Types, and what ends and failures depend on.
EndsInv == /\ TypeOK /\ MessageInv /\ StdinInv /\ ReturnInv /\ JoinInv /\ OutputInv
           /\ SentInv /\ CauseInv /\ WriterInv /\ AnswerInv /\ FailureHasCause

\* The response that tells everything.
Complete == [out |-> written["out"], err |-> written["err"], exit |-> exit = "code"]

\* The response is complete when it has the exit code, unless nobody reads it.
ExitInv ==
  /\ exit = "none" <=> program # "ended"
  /\ main = "listening" => program = "none"
  /\ \A s \in Streams : reader[s] = "done" => program = "ended" /\ unread[s] = 0
  /\ \A s \in Streams : reader[s] = "failed" => writer = "failed"
  /\ main \in {"waiting", "sending"} => \A s \in Streams : reader[s] \in {"done", "failed"}
  /\ main \in {"listening", "running", "waiting"} => ~response.exit
  /\ main = "sending" /\ writer # "failed" => exit # "none" /\ response = Complete

\* A copy of the response is the response until it is sent.
LockInv ==
  /\ \A s \in Streams : reader[s] = "sending" => lock = s /\ hand[s] = response
  /\ main = "sending" => lock = "main"

\* A failure of a task is found when it is joined, and what a query cannot read
\* has been cut.
FailedInv ==
  /\ \A s \in Streams : written[s] <= plan[s]
  /\ app = "collecting" => plan.query
  /\ plan.query /\ tasks["stdout"] = "failed" => runner = "killed"
  /\ ~plan.query /\ outcome = "none" =>
       \A t \in AppTasks :
         /\ app = "waiting" => tasks[t] = "ok"
         /\ tasks[t] = "failed" => \E i \in 1..Len(joinable) : joinable[i] = t

\* The responses on their way, in order, the one delivered last first.
Slot(there, r) == IF there THEN <<r>> ELSE <<>>

Piped == IF Up THEN stdoutPipe \o (Slot(writer = "writing", frame) \o runnerOut)
               ELSE stdoutPipe

Unhanded == IF tasks["stdout"] \in InProcess
              THEN childOut \o (Slot(tasks["stdout"] = "sending", decoded) \o Piped)
              ELSE childOut

Way == <<delivered>> \o (Slot(app = "handing", received) \o Unhanded)

Before(r, q) == r.out <= q.out /\ r.err <= q.err /\ (r.exit => q.exit)

\* What r is about to be delivered.
Deliverable(r) == /\ Before(r, response)
                  /\ r.exit => exit # "none" /\ r = Complete

Ordered(w) == \A i, j \in 1..Len(w) :
                i <= j /\ w[i] # Cut /\ w[j] # Cut => Before(w[i], w[j])

WayInv == outcome = "none" =>
            Ordered(Way) /\ \A i \in 1..Len(Way) : Way[i] # Cut => Deliverable(Way[i])

\* The last is the complete one, if the runner has sent all and nothing is lost.
LastInv ==
  /\ main = "handled" /\ ~inbox.open => exit # "none"
  /\ /\ main = "handled" /\ ~inbox.open
     /\ outcome = "none" /\ tasks["stdout"] # "failed" /\ runner \in {"up", "ok"}
     => Way[Len(Way)] = Complete

DeliveryInv == ExitInv /\ LockInv /\ FailedInv /\ WayInv /\ LastInv

\* The inductive invariant.
IInv == EndsInv /\ DeliveryInv

\* Once the program ends, so does streaming, and so does the container: the chain
\* of full channels, held locks and tasks that wait for one another resolves,
\* whoever fails.
StreamEnds ==
  <>[](program = "ended" \/ Handled) => <>(outcome # "none" /\ ~Up)

\* What is delivered grows, is never ahead of the program, and is all of it when
\* streaming succeeds: OutputStream.
Stream == INSTANCE OutputStream WITH
            outcome <- IF outcome \in {"none", "ok"} THEN outcome ELSE "failed"

ImplementsOutputStream == Stream!Spec
=============================================================================
