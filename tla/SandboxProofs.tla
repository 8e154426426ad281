---------------------------- MODULE SandboxProofs ----------------------------
(***************************************************************************)
(* Runs and queries, for any plans, limit and channels: the program in the *)
(* container does not stop on its assertion, no run fails without a cause, *)
(* and streaming the output of a run, or collecting that of a query,       *)
(* implements OutputStream: what is delivered grows, is never ahead of the *)
(* program, and is all of it on success.                                   *)
(***************************************************************************)
EXTENDS Sandbox, SequenceTheorems, TLAPS

USE DEF programVars, readerVars, writerVars, runnerVars, taskVars, endVars, appVars, Up,
        InProcess

\* TypeOK, by the kind of value.
ScalarTypes ==
  /\ program \in {"none", "running", "ended"} /\ exit \in {"none", "code", "signal"}
  /\ runner \in {"up", "ok", "error", "panicked", "killed"}
  /\ main \in {"listening", "running", "waiting", "sending", "handled", "failed"}
  /\ stdinReader \in {"reading", "ended", "failed"}
  /\ lock \in Streams \cup {"main", "free"}
  /\ writer \in {"receiving", "writing", "ok", "failed"}
  /\ stdinPipe \in Nat
  /\ app \in {"sending", "streaming", "handing", "collecting", "joining", "waiting",
            "returned"}
  /\ outcome \in {"none", "ok", "nonZero", "ioError", "gone", "sendError", "insufficient"}
  /\ plan \in Plans /\ sent \in 0..plan.messages /\ childIn \in Nat

BooleanTypes == stdinTx \in BOOLEAN /\ consumer \in BOOLEAN /\ answered \in BOOLEAN

RecordTypes ==
  /\ inbox \in [messages : Nat, open : BOOLEAN]
  /\ response \in Responses /\ frame \in Responses
  /\ decoded \in Responses /\ received \in Responses /\ delivered \in Responses

FunctionTypes ==
  /\ written \in [Streams -> Nat] /\ unread \in [Streams -> Nat]
  /\ reader \in [Streams -> {"none", "reading", "locking", "sending", "done", "failed"}]
  /\ hand \in [Streams -> Responses]
  /\ tasks \in [AppTasks -> InProcess \cup {"ok", "failed", "aborted"}]

RunnerOutType == runnerOut \in Seq(Responses) /\ Len(runnerOut) <= RunnerCapacity
StdoutType    == stdoutPipe \in Seq(Responses \cup {Cut})
JoinableType  == joinable \in Seq(AppTasks)
ChildOutType  == childOut \in Seq(Responses) /\ Len(childOut) <= AppCapacity

SequenceTypes == RunnerOutType /\ StdoutType /\ JoinableType /\ ChildOutType

LEMMA Types ==
  TypeOK <=> ScalarTypes /\ BooleanTypes /\ RecordTypes /\ FunctionTypes /\ SequenceTypes
  BY DEF TypeOK, ScalarTypes, BooleanTypes, RecordTypes, FunctionTypes, SequenceTypes,
         RunnerOutType, StdoutType, JoinableType, ChildOutType

-----------------------------------------------------------------------------
(* Responses and sequences                                                 *)

\* The amount of a stream in a response.
LEMMA Amount == ASSUME NEW r \in Responses, NEW s \in Streams PROVE r[s] \in Nat
  BY DEF Responses, Streams

\* A response with another amount of a stream, or with an exit code.
LEMMA Changed ==
  ASSUME NEW r \in Responses, NEW s \in Streams, NEW n \in Nat
  PROVE  /\ [r EXCEPT ![s] = n] \in Responses
         /\ [r EXCEPT ![s] = n][s] = n
         /\ \A q \in Streams : q # s => [r EXCEPT ![s] = n][q] = r[q]
  BY DEF Responses, Streams

LEMMA ExitChanged ==
  ASSUME NEW r \in Responses, NEW b \in BOOLEAN
  PROVE  /\ [r EXCEPT !.exit = b] \in Responses
         /\ \A q \in Streams : [r EXCEPT !.exit = b][q] = r[q]
  BY DEF Responses, Streams

LEMMA Capacities == RunnerCapacity \in Nat /\ AppCapacity \in Nat
  BY SandboxAssumption

LEMMA NothingTyped ==
  Nothing \in Responses /\ \A s \in Streams : Nothing[s] = 0
  BY DEF Nothing, Responses, Streams

\* The first element of a sequence, and the others.
LEMMA First ==
  ASSUME NEW R, NEW q \in Seq(R), q # <<>>
  PROVE  Head(q) \in R /\ Head(q) = q[1] /\ 1 \in 1..Len(q)
  OBVIOUS

LEMMA Rest ==
  ASSUME NEW R, NEW q \in Seq(R), q # <<>>
  PROVE  /\ Tail(q) \in Seq(R) /\ Len(Tail(q)) <= Len(q) /\ Len(q) \in Nat
         /\ \A i \in 1..Len(Tail(q)) : Tail(q)[i] = q[i + 1] /\ i + 1 \in 1..Len(q)
  OBVIOUS

\* Sequences of no element, of one, and of one more.
LEMMA Empty == ASSUME NEW R PROVE <<>> \in Seq(R) /\ Len(<<>>) = 0
  OBVIOUS

LEMMA Single == ASSUME NEW R, NEW e \in R PROVE <<e>> \in Seq(R)
  OBVIOUS

LEMMA OneMore ==
  ASSUME NEW R, NEW q \in Seq(R), NEW e \in R
  PROVE  /\ Append(q, e) \in Seq(R) /\ Len(Append(q, e)) = Len(q) + 1 /\ Len(q) \in Nat
         /\ \A i \in 1..Len(Append(q, e)) : \/ i \in 1..Len(q) /\ Append(q, e)[i] = q[i]
                                            \/ Append(q, e)[i] = e
  OBVIOUS

\* What a stream's task has read, and what is appended to the response.
LEMMA OutputRead ==
  ASSUME FunctionTypes, NEW s \in Streams, ReadOutput(s)
  PROVE  \E n \in 1..unread[s] :
           /\ hand' = [hand EXCEPT ![s] = [Nothing EXCEPT ![s] = n]]
           /\ unread' = [unread EXCEPT ![s] = @ - n]
           /\ hand'[s] \in Responses /\ hand'[s][s] = n
           /\ \A q \in Streams : q # s => hand'[s][q] = 0
<1>1. PICK n \in 1..unread[s] : /\ hand' = [hand EXCEPT ![s] = [Nothing EXCEPT ![s] = n]]
                                /\ unread' = [unread EXCEPT ![s] = @ - n]
  BY DEF ReadOutput
<1>2. n \in Nat /\ hand'[s] = [Nothing EXCEPT ![s] = n]
  BY <1>1 DEF FunctionTypes
<1>3. [Nothing EXCEPT ![s] = n] \in Responses /\ [Nothing EXCEPT ![s] = n][s] = n
  BY <1>2, NothingTyped, Changed
<1>4. \A q \in Streams : q # s => [Nothing EXCEPT ![s] = n][q] = Nothing[q]
  BY <1>2, NothingTyped, Changed
<1> QED BY <1>1, <1>2, <1>3, <1>4, NothingTyped

LEMMA OutputAppended ==
  ASSUME FunctionTypes, RecordTypes, NEW s \in Streams, Appended(s)
  PROVE  /\ response' \in Responses
         /\ response'[s] = response[s] + hand[s][s]
         /\ \A q \in Streams : q # s => response'[q] = response[q]
<1>1. response[s] \in Nat /\ hand[s][s] \in Nat
  BY Amount DEF FunctionTypes, RecordTypes
<1>2. response' = [response EXCEPT ![s] = response[s] + hand[s][s]]
  BY DEF Appended
<1>3. PICK n \in Nat : n = response[s] + hand[s][s]
  BY <1>1
<1>4. response \in Responses /\ response' = [response EXCEPT ![s] = n]
  BY <1>2, <1>3 DEF RecordTypes
<1>5. /\ response' \in Responses
      /\ response'[s] = n
      /\ \A q \in Streams : q # s => response'[q] = response[q]
  BY <1>4 DEF Responses, Streams
<1> QED BY <1>3, <1>5

LEMMA ExitRecorded ==
  ASSUME RecordTypes, RecordExit
  PROVE  response' \in Responses /\ \A q \in Streams : response'[q] = response[q]
<1>1. response' = [response EXCEPT !.exit = exit = "code"]
  BY DEF RecordExit
<1>2. (exit = "code") \in BOOLEAN /\ response \in Responses
  BY DEF RecordTypes
<1> QED BY <1>1, <1>2, ExitChanged

-----------------------------------------------------------------------------
(* Types                                                                   *)

LEMMA TypeInit == Init => TypeOK
<1> SUFFICES ASSUME Init PROVE TypeOK
  OBVIOUS
<1>1. ScalarTypes
  BY SandboxAssumption DEF Init, ScalarTypes
<1>5. BooleanTypes
  BY DEF Init, BooleanTypes
<1>2. RecordTypes
  BY NothingTyped DEF Init, RecordTypes
<1>3. FunctionTypes
  BY NothingTyped DEF Init, FunctionTypes, AppTasks
<1>4. SequenceTypes
  BY SandboxAssumption DEF Init, SequenceTypes, RunnerOutType, StdoutType, JoinableType,
     ChildOutType
<1> QED BY <1>1, <1>2, <1>3, <1>4, <1>5, Types

\* A message that is sent is one of the plan.
LEMMA ScalarStep == ScalarTypes /\ MessageInv /\ Next => ScalarTypes'
<1> SUFFICES ASSUME ScalarTypes /\ MessageInv, Next PROVE ScalarTypes'
  OBVIOUS
<1>1. ASSUME NEW s \in Streams, AppendOutput(s) PROVE ScalarTypes'
  BY <1>1 DEF AppendOutput, Appended, ScalarTypes
<1>2. ASSUME NEW s \in Streams, SendOutput(s) PROVE ScalarTypes'
  BY <1>2 DEF SendOutput, ScalarTypes
<1>3. CASE ProgramEnds
  BY <1>3 DEF ProgramEnds, ScalarTypes
<1>4. CASE Kill
  BY <1>4 DEF Kill, ScalarTypes
<1>5. CASE QueryDropped
  BY <1>5 DEF QueryDropped, Returns, ScalarTypes
<1>6. CASE StartProgram
  BY <1>6 DEF StartProgram, ScalarTypes
<1>7. CASE NoMessage
  BY <1>7 DEF NoMessage, ScalarTypes
<1>8. CASE JoinReaders
  BY <1>8 DEF JoinReaders, ScalarTypes
<1>9. CASE RecordExit
  BY <1>9 DEF RecordExit, ScalarTypes
<1>10. CASE SendExit
  BY <1>10 DEF SendExit, ScalarTypes
<1>11. CASE RunnerEnds
  BY <1>11 DEF RunnerEnds, ExitStatus, Handled, ScalarTypes
<1>12. CASE TakeResponse
  BY <1>12 DEF TakeResponse, ScalarTypes
<1>13. CASE WriteFrame
  BY <1>13 DEF WriteFrame, ScalarTypes
<1>14. CASE WriterEnds
  BY <1>14 DEF WriterEnds, Handled, ScalarTypes
<1>15. CASE ReadMessage
  BY <1>15 DEF ReadMessage, ScalarTypes
<1>16. CASE StdinEnds
  BY <1>16 DEF StdinEnds, ScalarTypes
<1>17. CASE WriteMessage
  BY <1>17 DEF WriteMessage, TaskEnds, ScalarTypes
<1>18. CASE SendMessage
  BY <1>18, SandboxAssumption DEF SendMessage, Returns, MessageInv, ScalarTypes
<1>19. CASE ReceiveResponse
  BY <1>19 DEF ReceiveResponse, ScalarTypes
<1>20. CASE HandOn
  BY <1>20 DEF HandOn, Returns, ScalarTypes
<1>21. CASE OutputClosed
  BY <1>21 DEF OutputClosed, ScalarTypes
<1>22. CASE JoinTask
  BY <1>22 DEF JoinTask, Returns, ScalarTypes
<1>23. CASE TasksJoined
  BY <1>23 DEF TasksJoined, ScalarTypes
<1>24. CASE WaitChild
  BY <1>24 DEF WaitChild, Returns, QueryOutcome, ExitOutcome, ScalarTypes
<1>25. CASE Collected
  BY <1>25 DEF Collected, ScalarTypes
<1>26. CASE \/ \E s \in Streams : Write(s) \/ ReadOutput(s) \/ OutputEnds(s)
            \/ ConsumerLeaves \/ DecodeFrame \/ SendDecoded \/ StdinTaskEnds \/ Collect
            \/ OutputTaskEnds("stdout") \/ OutputTaskEnds("stderr")
  BY <1>26 DEF Write, ReadOutput, OutputEnds, ConsumerLeaves, DecodeFrame, SendDecoded,
        StdinTaskEnds, Collect, OutputTaskEnds, TaskEnds, FrameReady, ScalarTypes
<1> QED BY <1>1, <1>2, <1>3, <1>4, <1>5, <1>6, <1>7, <1>8, <1>9, <1>10, <1>11, <1>12,
        <1>13, <1>14, <1>15, <1>16, <1>17, <1>18, <1>19, <1>20, <1>21, <1>22, <1>23,
        <1>24, <1>25, <1>26
     DEF Next, Readers, Main, Writer, Stdin, Stdout, RunCode

LEMMA BooleanStep == BooleanTypes /\ Next => BooleanTypes'
<1> SUFFICES ASSUME BooleanTypes, Next PROVE BooleanTypes'
  OBVIOUS
<1>1. CASE ConsumerLeaves
  BY <1>1 DEF ConsumerLeaves, BooleanTypes
<1>2. CASE QueryDropped
  BY <1>2 DEF QueryDropped, Returns, BooleanTypes
<1>3. CASE SendMessage
  BY <1>3 DEF SendMessage, Returns, BooleanTypes
<1>4. CASE HandOn
  BY <1>4 DEF HandOn, Returns, BooleanTypes
<1>5. CASE JoinTask
  BY <1>5 DEF JoinTask, Returns, BooleanTypes
<1>6. CASE WaitChild
  BY <1>6 DEF WaitChild, Returns, BooleanTypes
<1>7. CASE Collect
  BY <1>7 DEF Collect, BooleanTypes
<1>8. CASE \/ \E s \in Streams : Write(s) \/ AppendOutput(s) \/ ReadOutput(s)
                 \/ OutputEnds(s) \/ SendOutput(s)
           \/ ProgramEnds \/ Kill \/ StartProgram \/ NoMessage \/ JoinReaders \/ RecordExit
           \/ SendExit \/ RunnerEnds \/ TakeResponse
           \/ WriteFrame \/ WriterEnds \/ ReadMessage
           \/ StdinEnds \/ DecodeFrame \/ SendDecoded
           \/ WriteMessage \/ StdinTaskEnds \/ ReceiveResponse
           \/ OutputClosed \/ TasksJoined \/ Collected
           \/ OutputTaskEnds("stdout") \/ OutputTaskEnds("stderr")
  BY <1>8 DEF Write, AppendOutput, ReadOutput, OutputEnds, SendOutput, ProgramEnds,
        Kill, StartProgram, NoMessage, JoinReaders, RecordExit, SendExit, RunnerEnds,
        TakeResponse, WriteFrame, WriterEnds, ReadMessage, StdinEnds, DecodeFrame,
        SendDecoded, WriteMessage, StdinTaskEnds, ReceiveResponse, OutputClosed,
        TasksJoined, Collected, OutputTaskEnds, ExitStatus, Handled, FrameReady,
        TaskEnds, Appended, BooleanTypes
<1> QED BY <1>1, <1>2, <1>3, <1>4, <1>5, <1>6, <1>7, <1>8
     DEF Next, Readers, Main, Writer, Stdin, Stdout, RunCode

\* A response stays one whatever is appended to it.
LEMMA RecordStep == RecordTypes /\ FunctionTypes /\ SequenceTypes /\ Next => RecordTypes'
<1> SUFFICES ASSUME RecordTypes /\ FunctionTypes /\ SequenceTypes, Next PROVE RecordTypes'
  OBVIOUS
<1>1. ASSUME NEW s \in Streams, AppendOutput(s) PROVE RecordTypes'
  BY <1>1, OutputAppended DEF AppendOutput, Appended, RecordTypes
<1>2. CASE QueryDropped
  BY <1>2, NothingTyped DEF QueryDropped, Returns, RecordTypes
<1>3. CASE StartProgram
  BY <1>3 DEF StartProgram, RecordTypes
<1>4. CASE RecordExit
  BY <1>4, ExitRecorded DEF RecordExit, RecordTypes
<1>5. CASE SendExit
  BY <1>5 DEF SendExit, RecordTypes
<1>6. CASE TakeResponse
  BY <1>6, First DEF TakeResponse, SequenceTypes, RunnerOutType, RecordTypes
<1>7. CASE WriteFrame
  BY <1>7, NothingTyped DEF WriteFrame, RecordTypes
<1>8. CASE ReadMessage
  BY <1>8 DEF ReadMessage, RecordTypes
<1>9. CASE DecodeFrame
  BY <1>9, First DEF DecodeFrame, TaskEnds, FrameReady, SequenceTypes, StdoutType,
        RecordTypes
<1>10. CASE SendDecoded
  BY <1>10, NothingTyped DEF SendDecoded, RecordTypes
<1>11. CASE SendMessage
  BY <1>11, NothingTyped DEF SendMessage, Returns, RecordTypes
<1>12. CASE ReceiveResponse
  BY <1>12, First DEF ReceiveResponse, SequenceTypes, ChildOutType, RecordTypes
<1>13. CASE HandOn
  BY <1>13, NothingTyped DEF HandOn, Returns, RecordTypes
<1>14. CASE JoinTask
  BY <1>14, NothingTyped DEF JoinTask, Returns, RecordTypes
<1>15. CASE WaitChild
  BY <1>15, NothingTyped DEF WaitChild, Returns, RecordTypes
<1>16. CASE Collect
  BY <1>16, First DEF Collect, SequenceTypes, ChildOutType, RecordTypes
<1>17. CASE \/ \E s \in Streams : Write(s) \/ ReadOutput(s) \/ OutputEnds(s)
                  \/ SendOutput(s)
            \/ ProgramEnds \/ Kill \/ ConsumerLeaves
            \/ NoMessage \/ JoinReaders \/ RunnerEnds
            \/ WriterEnds \/ StdinEnds \/ WriteMessage
            \/ StdinTaskEnds \/ OutputClosed \/ TasksJoined
            \/ Collected
            \/ OutputTaskEnds("stdout") \/ OutputTaskEnds("stderr")
  BY <1>17 DEF Write, ReadOutput, OutputEnds, SendOutput, ProgramEnds, Kill,
        ConsumerLeaves, NoMessage, JoinReaders, RunnerEnds, WriterEnds, StdinEnds,
        WriteMessage, StdinTaskEnds, OutputClosed, TasksJoined, Collected,
        OutputTaskEnds, ExitStatus, Handled, TaskEnds, RecordTypes
<1> QED BY <1>1, <1>2, <1>3, <1>4, <1>5, <1>6, <1>7, <1>8, <1>9, <1>10, <1>11, <1>12,
        <1>13, <1>14, <1>15, <1>16, <1>17
     DEF Next, Readers, Main, Writer, Stdin, Stdout, RunCode

LEMMA FunctionStep == FunctionTypes /\ RecordTypes /\ Next => FunctionTypes'
<1> SUFFICES ASSUME FunctionTypes /\ RecordTypes, Next PROVE FunctionTypes'
  OBVIOUS
<1>1. ASSUME NEW s \in Streams, Write(s) PROVE FunctionTypes'
  BY <1>1 DEF Write, FunctionTypes
<1>2. ASSUME NEW s \in Streams, AppendOutput(s) PROVE FunctionTypes'
  BY <1>2, OutputAppended DEF AppendOutput, Appended, RecordTypes, FunctionTypes
<1>3. ASSUME NEW s \in Streams, ReadOutput(s) PROVE FunctionTypes'
  <2>1. PICK n \in 1..unread[s] :
          /\ hand' = [hand EXCEPT ![s] = [Nothing EXCEPT ![s] = n]]
          /\ unread' = [unread EXCEPT ![s] = @ - n]
          /\ hand'[s] \in Responses /\ hand'[s][s] = n
          /\ \A q \in Streams : q # s => hand'[s][q] = 0
    BY <1>3, OutputRead
  <2>2. hand' \in [Streams -> Responses]
    BY <2>1 DEF FunctionTypes
  <2>3. unread' \in [Streams -> Nat]
    <3>1. unread[s] \in Nat /\ unread[s] - n \in Nat
      BY DEF FunctionTypes
    <3> QED BY <2>1, <3>1 DEF FunctionTypes
  <2> QED BY <1>3, <2>2, <2>3 DEF ReadOutput, FunctionTypes
<1>4. ASSUME NEW s \in Streams, OutputEnds(s) PROVE FunctionTypes'
  BY <1>4 DEF OutputEnds, FunctionTypes
<1>5. ASSUME NEW s \in Streams, SendOutput(s) PROVE FunctionTypes'
  BY <1>5, NothingTyped DEF SendOutput, FunctionTypes
<1>6. CASE QueryDropped
  BY <1>6 DEF QueryDropped, Returns, FunctionTypes
<1>7. CASE StartProgram
  BY <1>7 DEF StartProgram, FunctionTypes
<1>8. CASE DecodeFrame
  BY <1>8 DEF DecodeFrame, TaskEnds, FrameReady, FunctionTypes
<1>9. CASE SendDecoded
  BY <1>9 DEF SendDecoded, FunctionTypes
<1>10. CASE WriteMessage
  BY <1>10 DEF WriteMessage, TaskEnds, FunctionTypes
<1>11. CASE StdinTaskEnds
  BY <1>11 DEF StdinTaskEnds, TaskEnds, FunctionTypes
<1>12. CASE SendMessage
  BY <1>12 DEF SendMessage, Returns, FunctionTypes
<1>13. CASE HandOn
  BY <1>13 DEF HandOn, Returns, FunctionTypes
<1>14. CASE JoinTask
  BY <1>14 DEF JoinTask, Returns, FunctionTypes
<1>15. CASE WaitChild
  BY <1>15 DEF WaitChild, Returns, FunctionTypes
<1>16. ASSUME NEW t \in {"stdout", "stderr"}, OutputTaskEnds(t) PROVE FunctionTypes'
  BY <1>16 DEF OutputTaskEnds, TaskEnds, FunctionTypes
<1>17. CASE \/ ProgramEnds \/ Kill \/ ConsumerLeaves
            \/ NoMessage \/ JoinReaders \/ RecordExit
            \/ SendExit \/ RunnerEnds \/ TakeResponse
            \/ WriteFrame \/ WriterEnds \/ ReadMessage
            \/ StdinEnds \/ ReceiveResponse \/ OutputClosed
            \/ TasksJoined \/ Collect \/ Collected
  BY <1>17 DEF ProgramEnds, Kill, ConsumerLeaves, NoMessage, JoinReaders, RecordExit,
        SendExit, RunnerEnds, TakeResponse, WriteFrame, WriterEnds, ReadMessage,
        StdinEnds, ReceiveResponse, OutputClosed, TasksJoined, Collect, Collected,
        ExitStatus, Handled, FunctionTypes
<1> QED BY <1>1, <1>2, <1>3, <1>4, <1>5, <1>6, <1>7, <1>8, <1>9, <1>10, <1>11, <1>12,
        <1>13, <1>14, <1>15, <1>16, <1>17
     DEF Next, Readers, Main, Writer, Stdin, Stdout, RunCode

\* A channel that is left.
LEMMA RunnerOutCleared == runnerOut' = <<>> => RunnerOutType'
  BY Capacities DEF RunnerOutType

LEMMA ChildOutCleared == childOut' = <<>> => ChildOutType'
  BY Capacities DEF ChildOutType

LEMMA RunnerOutStep ==
  RunnerOutType /\ RecordTypes /\ FunctionTypes /\ Next
  => RunnerOutType'
<1> SUFFICES ASSUME RunnerOutType /\ RecordTypes /\ FunctionTypes, Next
             PROVE  RunnerOutType'
  OBVIOUS
<1>1. ASSUME NEW s \in Streams, SendOutput(s) PROVE RunnerOutType'
  <2>2. hand[s] \in Responses
    BY DEF FunctionTypes
  <2>1. \/ UNCHANGED runnerOut
        \/ Len(runnerOut) < RunnerCapacity /\ runnerOut' = Append(runnerOut, hand[s])
    BY <1>1 DEF SendOutput
  <2> QED BY <2>1, <2>2, OneMore, Capacities DEF RunnerOutType
<1>2. CASE SendExit
  <2>2. response \in Responses
    BY DEF RecordTypes
  <2>1. \/ UNCHANGED runnerOut
        \/ Len(runnerOut) < RunnerCapacity /\ runnerOut' = Append(runnerOut, response)
    BY <1>2 DEF SendExit
  <2> QED BY <2>1, <2>2, OneMore, Capacities DEF RunnerOutType
<1>3. CASE TakeResponse
  <2>1. runnerOut # <<>> /\ runnerOut' = Tail(runnerOut)
    BY <1>3 DEF TakeResponse
  <2> QED BY <2>1, Rest, Capacities DEF RunnerOutType
<1>4. CASE WriteFrame
  <2>1. runnerOut' = runnerOut \/ runnerOut' = <<>>
    BY <1>4 DEF WriteFrame
  <2> QED BY <2>1, RunnerOutCleared DEF RunnerOutType
<1>5. CASE \/ \E s \in Streams : Write(s) \/ AppendOutput(s) \/ ReadOutput(s)
                 \/ OutputEnds(s)
           \/ ProgramEnds \/ Kill \/ ConsumerLeaves
           \/ QueryDropped \/ StartProgram \/ NoMessage
           \/ JoinReaders \/ RecordExit \/ RunnerEnds
           \/ WriterEnds \/ ReadMessage \/ StdinEnds
           \/ DecodeFrame \/ SendDecoded \/ WriteMessage
           \/ StdinTaskEnds \/ SendMessage \/ ReceiveResponse
           \/ HandOn \/ OutputClosed \/ JoinTask \/ TasksJoined \/ WaitChild \/ Collect
           \/ Collected
           \/ OutputTaskEnds("stdout") \/ OutputTaskEnds("stderr")
  BY <1>5 DEF Write, AppendOutput, ReadOutput, OutputEnds, ProgramEnds, Kill,
        ConsumerLeaves, QueryDropped, StartProgram, NoMessage, JoinReaders, RecordExit,
        RunnerEnds, WriterEnds, ReadMessage, StdinEnds, DecodeFrame, SendDecoded,
        WriteMessage, StdinTaskEnds, SendMessage, ReceiveResponse, HandOn, OutputClosed,
        JoinTask, TasksJoined, WaitChild, Collect, Collected, OutputTaskEnds,
        ExitStatus, FrameReady, Appended, Returns, TaskEnds, Handled, RunnerOutType
<1> QED BY <1>1, <1>2, <1>3, <1>4, <1>5
     DEF Next, Readers, Main, Writer, Stdin, Stdout, RunCode

LEMMA StdoutStep == StdoutType /\ RecordTypes /\ Next => StdoutType'
<1> SUFFICES ASSUME StdoutType /\ RecordTypes, Next PROVE StdoutType'
  OBVIOUS
<1>1. CASE Kill
  BY <1>1, OneMore DEF Kill, StdoutType
<1>2. CASE WriteFrame
  <2>2. frame \in Responses
    BY DEF RecordTypes
  <2>1. stdoutPipe' = stdoutPipe \/ stdoutPipe' = <<frame>>
    BY <1>2 DEF WriteFrame
  <2> QED BY <2>1, <2>2, Single DEF StdoutType
<1>3. CASE DecodeFrame
  BY <1>3, Rest DEF DecodeFrame, TaskEnds, FrameReady, StdoutType
<1>4. CASE \/ \E s \in Streams : Write(s) \/ AppendOutput(s) \/ ReadOutput(s)
                 \/ OutputEnds(s) \/ SendOutput(s)
           \/ ProgramEnds \/ ConsumerLeaves \/ QueryDropped
           \/ StartProgram \/ NoMessage \/ JoinReaders
           \/ RecordExit \/ SendExit \/ RunnerEnds
           \/ TakeResponse \/ WriterEnds \/ ReadMessage
           \/ StdinEnds \/ SendDecoded \/ WriteMessage
           \/ StdinTaskEnds \/ SendMessage \/ ReceiveResponse
           \/ HandOn \/ OutputClosed \/ JoinTask \/ TasksJoined \/ WaitChild \/ Collect
           \/ Collected
           \/ OutputTaskEnds("stdout") \/ OutputTaskEnds("stderr")
  BY <1>4 DEF Write, AppendOutput, ReadOutput, OutputEnds, SendOutput, ProgramEnds,
        ConsumerLeaves, QueryDropped, StartProgram, NoMessage, JoinReaders, RecordExit,
        SendExit, RunnerEnds, TakeResponse, WriterEnds, ReadMessage, StdinEnds,
        SendDecoded, WriteMessage, StdinTaskEnds, SendMessage, ReceiveResponse, HandOn,
        OutputClosed, JoinTask, TasksJoined, WaitChild, Collect, Collected,
        OutputTaskEnds, ExitStatus, Appended, Returns, TaskEnds, Handled, StdoutType
<1> QED BY <1>1, <1>2, <1>3, <1>4
     DEF Next, Readers, Main, Writer, Stdin, Stdout, RunCode

LEMMA JoinableStep == JoinableType /\ Next => JoinableType'
<1> SUFFICES ASSUME JoinableType, Next PROVE JoinableType'
  OBVIOUS
<1>1. CASE QueryDropped
  <2>1. joinable' = joinable \/ joinable' = <<>>
    BY <1>1 DEF QueryDropped, Returns
  <2> QED BY <2>1, Empty DEF JoinableType
<1>2. CASE DecodeFrame
  <2>1. joinable' = joinable \/ joinable' = Append(joinable, "stdout")
    BY <1>2 DEF DecodeFrame, TaskEnds, FrameReady
  <2> QED BY <2>1, OneMore DEF JoinableType, AppTasks
<1>3. CASE WriteMessage
  <2>1. joinable' = joinable \/ joinable' = Append(joinable, "stdin")
    BY <1>3 DEF WriteMessage, TaskEnds
  <2> QED BY <2>1, OneMore DEF JoinableType, AppTasks
<1>4. CASE StdinTaskEnds
  <2>1. joinable' = joinable \/ joinable' = Append(joinable, "stdin")
    BY <1>4 DEF StdinTaskEnds, TaskEnds
  <2> QED BY <2>1, OneMore DEF JoinableType, AppTasks
<1>5. CASE SendMessage
  <2>1. joinable' = joinable \/ joinable' = <<>>
    BY <1>5 DEF SendMessage, Returns
  <2> QED BY <2>1, Empty DEF JoinableType
<1>6. CASE HandOn
  <2>1. joinable' = joinable \/ joinable' = <<>>
    BY <1>6 DEF HandOn, Returns
  <2> QED BY <2>1, Empty DEF JoinableType
<1>7. CASE JoinTask
  <2>1. \/ joinable' = <<>>
        \/ joinable # <<>> /\ joinable' = Tail(joinable)
    BY <1>7 DEF JoinTask, Returns
  <2> QED BY <2>1, Empty, Rest DEF JoinableType
<1>8. CASE WaitChild
  <2>1. joinable' = joinable \/ joinable' = <<>>
    BY <1>8 DEF WaitChild, Returns
  <2> QED BY <2>1, Empty DEF JoinableType
<1>9. ASSUME NEW t \in {"stdout", "stderr"}, OutputTaskEnds(t) PROVE JoinableType'
  <2>1. joinable' = joinable \/ joinable' = Append(joinable, t)
    BY <1>9 DEF OutputTaskEnds, TaskEnds
  <2> QED BY <2>1, OneMore DEF JoinableType, AppTasks
<1>10. CASE \/ \E s \in Streams : Write(s) \/ AppendOutput(s) \/ ReadOutput(s)
                  \/ OutputEnds(s) \/ SendOutput(s)
            \/ ProgramEnds \/ Kill \/ ConsumerLeaves
            \/ StartProgram \/ NoMessage \/ JoinReaders
            \/ RecordExit \/ SendExit \/ RunnerEnds
            \/ TakeResponse \/ WriteFrame \/ WriterEnds
            \/ ReadMessage \/ StdinEnds \/ SendDecoded
            \/ ReceiveResponse \/ OutputClosed \/ TasksJoined
            \/ Collect \/ Collected
  BY <1>10 DEF Write, AppendOutput, ReadOutput, OutputEnds, SendOutput, ProgramEnds,
        Kill, ConsumerLeaves, StartProgram, NoMessage, JoinReaders, RecordExit,
        SendExit, RunnerEnds, TakeResponse, WriteFrame, WriterEnds, ReadMessage,
        StdinEnds, SendDecoded, ReceiveResponse, OutputClosed, TasksJoined, Collect,
        Collected, ExitStatus, Handled, Appended, JoinableType
<1> QED BY <1>1, <1>2, <1>3, <1>4, <1>5, <1>6, <1>7, <1>8, <1>9, <1>10
     DEF Next, Readers, Main, Writer, Stdin, Stdout, RunCode

LEMMA ChildOutStep == ChildOutType /\ RecordTypes /\ Next => ChildOutType'
<1> SUFFICES ASSUME ChildOutType /\ RecordTypes, Next PROVE ChildOutType'
  OBVIOUS
<1>1. CASE QueryDropped
  <2>1. childOut' = childOut \/ childOut' = <<>>
    BY <1>1 DEF QueryDropped, Returns
  <2> QED BY <2>1, ChildOutCleared DEF ChildOutType
<1>2. CASE SendDecoded
  <2>2. decoded \in Responses
    BY DEF RecordTypes
  <2>1. Len(childOut) < AppCapacity /\ childOut' = Append(childOut, decoded)
    BY <1>2 DEF SendDecoded
  <2> QED BY <2>1, <2>2, OneMore, Capacities DEF ChildOutType
<1>3. CASE SendMessage
  <2>1. childOut' = childOut \/ childOut' = <<>>
    BY <1>3 DEF SendMessage, Returns
  <2> QED BY <2>1, ChildOutCleared DEF ChildOutType
<1>4. CASE ReceiveResponse
  <2>1. childOut # <<>> /\ childOut' = Tail(childOut)
    BY <1>4 DEF ReceiveResponse
  <2> QED BY <2>1, Rest, Capacities DEF ChildOutType
<1>5. CASE HandOn
  <2>1. childOut' = childOut \/ childOut' = <<>>
    BY <1>5 DEF HandOn, Returns
  <2> QED BY <2>1, ChildOutCleared DEF ChildOutType
<1>6. CASE JoinTask
  <2>1. childOut' = childOut \/ childOut' = <<>>
    BY <1>6 DEF JoinTask, Returns
  <2> QED BY <2>1, ChildOutCleared DEF ChildOutType
<1>7. CASE WaitChild
  <2>1. childOut' = childOut \/ childOut' = <<>>
    BY <1>7 DEF WaitChild, Returns
  <2> QED BY <2>1, ChildOutCleared DEF ChildOutType
<1>8. CASE Collect
  <2>1. childOut # <<>> /\ childOut' = Tail(childOut)
    BY <1>8 DEF Collect
  <2> QED BY <2>1, Rest, Capacities DEF ChildOutType
<1>9. CASE \/ \E s \in Streams : Write(s) \/ AppendOutput(s) \/ ReadOutput(s)
                 \/ OutputEnds(s) \/ SendOutput(s)
           \/ ProgramEnds \/ Kill \/ ConsumerLeaves
           \/ StartProgram \/ NoMessage \/ JoinReaders
           \/ RecordExit \/ SendExit \/ RunnerEnds
           \/ TakeResponse \/ WriteFrame \/ WriterEnds
           \/ ReadMessage \/ StdinEnds \/ DecodeFrame
           \/ WriteMessage \/ StdinTaskEnds \/ OutputClosed
           \/ TasksJoined \/ Collected
           \/ OutputTaskEnds("stdout") \/ OutputTaskEnds("stderr")
  BY <1>9 DEF Write, AppendOutput, ReadOutput, OutputEnds, SendOutput, ProgramEnds,
        Kill, ConsumerLeaves, StartProgram, NoMessage, JoinReaders, RecordExit,
        SendExit, RunnerEnds, TakeResponse, WriteFrame, WriterEnds, ReadMessage,
        StdinEnds, DecodeFrame, WriteMessage, StdinTaskEnds, OutputClosed, TasksJoined,
        Collected, OutputTaskEnds, ExitStatus, Handled, FrameReady, TaskEnds, Appended,
        ChildOutType
<1> QED BY <1>1, <1>2, <1>3, <1>4, <1>5, <1>6, <1>7, <1>8, <1>9
     DEF Next, Readers, Main, Writer, Stdin, Stdout, RunCode

LEMMA TypeStep == TypeOK /\ MessageInv /\ Next => TypeOK'
<1> SUFFICES ASSUME TypeOK, MessageInv, Next PROVE TypeOK'
  OBVIOUS
<1>1. /\ ScalarTypes /\ BooleanTypes /\ RecordTypes /\ FunctionTypes
      /\ RunnerOutType /\ StdoutType /\ JoinableType /\ ChildOutType /\ SequenceTypes
  BY Types DEF SequenceTypes
<1>2. ScalarTypes' /\ BooleanTypes' /\ RecordTypes' /\ FunctionTypes'
  BY <1>1, ScalarStep, BooleanStep, RecordStep, FunctionStep
<1>3. SequenceTypes'
  BY <1>1, RunnerOutStep, StdoutStep, JoinableStep, ChildOutStep DEF SequenceTypes
<1>4. (ScalarTypes /\ BooleanTypes /\ RecordTypes /\ FunctionTypes /\ SequenceTypes)'
      <=> TypeOK'
  BY Types, PTL
<1> QED BY <1>2, <1>3, <1>4

-----------------------------------------------------------------------------
(* Messages                                                                *)

LEMMA Planned == ScalarTypes => plan.messages \in Nat
  BY SandboxAssumption DEF ScalarTypes

LEMMA MessageStep == ScalarTypes /\ RecordTypes /\ MessageInv /\ Next => MessageInv'
<1> SUFFICES ASSUME ScalarTypes /\ RecordTypes /\ MessageInv, Next PROVE MessageInv'
  OBVIOUS
<1>1. CASE QueryDropped
  BY <1>1, Planned DEF QueryDropped, Returns, Taken, ScalarTypes, RecordTypes,
        MessageInv
<1>2. CASE StartProgram
  BY <1>2, Planned DEF StartProgram, Taken, ScalarTypes, RecordTypes, MessageInv
<1>3. CASE NoMessage
  BY <1>3, Planned DEF NoMessage, Taken, ScalarTypes, RecordTypes, MessageInv
<1>4. CASE JoinReaders
  BY <1>4, Planned DEF JoinReaders, Taken, ScalarTypes, RecordTypes, MessageInv
<1>5. CASE RecordExit
  BY <1>5, Planned DEF RecordExit, Taken, ScalarTypes, RecordTypes, MessageInv
<1>6. CASE SendExit
  BY <1>6, Planned DEF SendExit, Taken, ScalarTypes, RecordTypes, MessageInv
<1>7. CASE ReadMessage
  BY <1>7, Planned DEF ReadMessage, Taken, ScalarTypes, RecordTypes, MessageInv
<1>8. CASE StdinEnds
  BY <1>8, Planned DEF StdinEnds, Taken, ScalarTypes, RecordTypes, MessageInv
<1>9. CASE WriteMessage
  BY <1>9, Planned DEF WriteMessage, TaskEnds, Taken, ScalarTypes, RecordTypes,
        MessageInv
<1>10. CASE SendMessage
  BY <1>10, Planned DEF SendMessage, Returns, Taken, ScalarTypes, RecordTypes,
        MessageInv
<1>11. CASE ReceiveResponse
  BY <1>11, Planned DEF ReceiveResponse, Taken, ScalarTypes, RecordTypes, MessageInv
<1>12. CASE HandOn
  BY <1>12, Planned DEF HandOn, Returns, Taken, ScalarTypes, RecordTypes, MessageInv
<1>13. CASE OutputClosed
  BY <1>13, Planned DEF OutputClosed, Taken, ScalarTypes, RecordTypes, MessageInv
<1>14. CASE JoinTask
  BY <1>14, Planned DEF JoinTask, Returns, Taken, ScalarTypes, RecordTypes, MessageInv
<1>15. CASE TasksJoined
  BY <1>15, Planned DEF TasksJoined, Taken, ScalarTypes, RecordTypes, MessageInv
<1>16. CASE WaitChild
  BY <1>16, Planned DEF WaitChild, Returns, Taken, ScalarTypes, RecordTypes, MessageInv
<1>17. CASE Collected
  BY <1>17, Planned DEF Collected, Taken, ScalarTypes, RecordTypes, MessageInv
<1>18. CASE \/ \E s \in Streams : Write(s) \/ AppendOutput(s) \/ ReadOutput(s)
                  \/ OutputEnds(s) \/ SendOutput(s)
            \/ ProgramEnds \/ Kill \/ ConsumerLeaves
            \/ RunnerEnds \/ TakeResponse \/ WriteFrame
            \/ WriterEnds \/ DecodeFrame \/ SendDecoded \/ StdinTaskEnds \/ Collect
            \/ OutputTaskEnds("stdout") \/ OutputTaskEnds("stderr")
  BY <1>18 DEF Write, AppendOutput, ReadOutput, OutputEnds, SendOutput, ProgramEnds,
        Kill, ConsumerLeaves, RunnerEnds, TakeResponse, WriteFrame, WriterEnds,
        DecodeFrame, SendDecoded, StdinTaskEnds, Collect, OutputTaskEnds, ExitStatus,
        Handled, FrameReady, TaskEnds, Appended, MessageInv, Taken
<1> QED BY <1>1, <1>2, <1>3, <1>4, <1>5, <1>6, <1>7, <1>8, <1>9, <1>10, <1>11, <1>12,
        <1>13, <1>14, <1>15, <1>16, <1>17, <1>18
     DEF Next, Readers, Main, Writer, Stdin, Stdout, RunCode

-----------------------------------------------------------------------------
(* The input of the runner                                                 *)

\* The task that is joined next.
LEMMA FirstJoined ==
  ASSUME JoinableType, JoinInv, joinable # <<>>
  PROVE  /\ Head(joinable) \in AppTasks
         /\ tasks[Head(joinable)] \in {"ok", "failed"}
         /\ tasks[Head(joinable)] = "ok" => ~Up
<1>1. Head(joinable) \in AppTasks /\ Head(joinable) = joinable[1] /\ 1 \in 1..Len(joinable)
  BY First DEF JoinableType
<1>2. \A i \in 1..Len(joinable) : /\ tasks[joinable[i]] \in {"ok", "failed"}
                                  /\ tasks[joinable[i]] = "ok" => ~Up
  BY DEF JoinInv
<1>3. tasks[joinable[1]] \in {"ok", "failed"} /\ (tasks[joinable[1]] = "ok" => ~Up)
  BY <1>1, <1>2
<1> QED BY <1>1, <1>3

LEMMA StdinStep ==
  RecordTypes /\ FunctionTypes /\ SequenceTypes /\ MessageInv /\ ReturnInv /\ JoinInv /\
  StdinInv /\ Next
  => StdinInv'
<1> SUFFICES ASSUME RecordTypes /\ FunctionTypes /\ SequenceTypes /\ MessageInv /\
                    ReturnInv /\ JoinInv /\ StdinInv, Next
             PROVE  StdinInv'
  OBVIOUS
<1>1. CASE Kill
  BY <1>1 DEF Kill, GivenUp, StdinInv
<1>2. CASE QueryDropped
  BY <1>2 DEF QueryDropped, Returns, GivenUp, ReturnInv, AppTasks, StdinInv
<1>3. CASE StartProgram
  BY <1>3 DEF StartProgram, GivenUp, StdinInv
<1>4. CASE NoMessage
  BY <1>4 DEF NoMessage, GivenUp, MessageInv, StdinInv
<1>5. CASE JoinReaders
  BY <1>5 DEF JoinReaders, GivenUp, StdinInv
<1>6. CASE RecordExit
  BY <1>6 DEF RecordExit, GivenUp, StdinInv
<1>7. CASE SendExit
  BY <1>7 DEF SendExit, GivenUp, RecordTypes, StdinInv
<1>8. CASE RunnerEnds
  BY <1>8 DEF RunnerEnds, ExitStatus, Handled, GivenUp, StdinInv
<1>9. CASE ReadMessage
  BY <1>9 DEF ReadMessage, GivenUp, StdinInv
<1>10. CASE StdinEnds
  BY <1>10 DEF StdinEnds, GivenUp, StdinInv
<1>11. CASE DecodeFrame
  BY <1>11 DEF DecodeFrame, TaskEnds, FrameReady, GivenUp, FunctionTypes, AppTasks,
        StdinInv
<1>12. CASE SendDecoded
  BY <1>12 DEF SendDecoded, GivenUp, FunctionTypes, AppTasks, StdinInv
<1>13. CASE WriteMessage
  BY <1>13 DEF WriteMessage, TaskEnds, GivenUp, FunctionTypes, AppTasks, StdinInv
<1>14. CASE StdinTaskEnds
  BY <1>14 DEF StdinTaskEnds, TaskEnds, GivenUp, FunctionTypes, AppTasks, StdinInv
<1>15. CASE SendMessage
  BY <1>15 DEF SendMessage, Returns, GivenUp, ReturnInv, AppTasks, StdinInv
<1>16. CASE ReceiveResponse
  BY <1>16 DEF ReceiveResponse, GivenUp, StdinInv
<1>17. CASE HandOn
  BY <1>17 DEF HandOn, Returns, GivenUp, ReturnInv, AppTasks, StdinInv
<1>18. CASE OutputClosed
  BY <1>18 DEF OutputClosed, GivenUp, StdinInv
<1>19. CASE JoinTask
  <2>1. CASE tasks[Head(joinable)] = "failed"
    BY <1>19, <2>1 DEF JoinTask, Returns, AppTasks, GivenUp, ReturnInv, StdinInv
  <2>2. CASE tasks[Head(joinable)] # "failed"
    <3>1. ~Up
      BY <1>19, <2>2, FirstJoined DEF JoinTask, SequenceTypes
    <3> QED BY <1>19, <2>2, <3>1 DEF JoinTask, GivenUp, StdinInv
  <2> QED BY <2>1, <2>2
<1>20. CASE TasksJoined
  BY <1>20 DEF TasksJoined, GivenUp, StdinInv
<1>21. CASE WaitChild
  BY <1>21 DEF WaitChild, Returns, GivenUp, ReturnInv, AppTasks, StdinInv
<1>22. CASE Collected
  BY <1>22 DEF Collected, GivenUp, StdinInv
<1>23. ASSUME NEW t \in {"stdout", "stderr"}, OutputTaskEnds(t) PROVE StdinInv'
  BY <1>23 DEF OutputTaskEnds, TaskEnds, GivenUp, FunctionTypes, AppTasks, StdinInv
<1>24. CASE \/ \E s \in Streams : Write(s) \/ AppendOutput(s) \/ ReadOutput(s)
                  \/ OutputEnds(s) \/ SendOutput(s)
            \/ ProgramEnds \/ ConsumerLeaves \/ TakeResponse
            \/ WriteFrame \/ WriterEnds \/ Collect
  BY <1>24 DEF Write, AppendOutput, ReadOutput, OutputEnds, SendOutput, ProgramEnds,
        ConsumerLeaves, TakeResponse, WriteFrame, WriterEnds, Collect, Handled,
        Appended, StdinInv, GivenUp
<1> QED BY <1>1, <1>2, <1>3, <1>4, <1>5, <1>6, <1>7, <1>8, <1>9, <1>10, <1>11, <1>12,
        <1>13, <1>14, <1>15, <1>16, <1>17, <1>18, <1>19, <1>20, <1>21, <1>22, <1>23,
        <1>24
     DEF Next, Readers, Main, Writer, Stdin, Stdout, RunCode

-----------------------------------------------------------------------------
(* Tasks that have ended                                                   *)

LEMMA ReturnStep == FunctionTypes /\ StdinInv /\ ReturnInv /\ Next => ReturnInv'
<1> SUFFICES ASSUME FunctionTypes /\ StdinInv /\ ReturnInv, Next PROVE ReturnInv'
  OBVIOUS
<1>1. CASE Kill
  BY <1>1 DEF Kill, FunctionTypes, AppTasks, ReturnInv
<1>2. CASE QueryDropped
  BY <1>2 DEF QueryDropped, Returns, FunctionTypes, AppTasks, ReturnInv
<1>3. CASE RunnerEnds
  BY <1>3 DEF RunnerEnds, ExitStatus, Handled, FunctionTypes, AppTasks, ReturnInv
<1>4. CASE DecodeFrame
  BY <1>4 DEF DecodeFrame, TaskEnds, FrameReady, FunctionTypes, AppTasks, ReturnInv
<1>5. CASE SendDecoded
  BY <1>5 DEF SendDecoded, FunctionTypes, AppTasks, ReturnInv
<1>6. CASE WriteMessage
  BY <1>6 DEF WriteMessage, TaskEnds, FunctionTypes, AppTasks, ReturnInv
<1>7. CASE StdinTaskEnds
  BY <1>7 DEF StdinTaskEnds, TaskEnds, FunctionTypes, AppTasks, StdinInv, GivenUp,
        ReturnInv
<1>8. CASE SendMessage
  BY <1>8 DEF SendMessage, Returns, FunctionTypes, AppTasks, StdinInv, GivenUp,
        ReturnInv
<1>9. CASE ReceiveResponse
  BY <1>9 DEF ReceiveResponse, FunctionTypes, AppTasks, ReturnInv
<1>10. CASE HandOn
  BY <1>10 DEF HandOn, Returns, FunctionTypes, AppTasks, ReturnInv
<1>11. CASE OutputClosed
  BY <1>11 DEF OutputClosed, FunctionTypes, AppTasks, ReturnInv
<1>12. CASE JoinTask
  BY <1>12 DEF JoinTask, Returns, FunctionTypes, AppTasks, ReturnInv
<1>13. CASE TasksJoined
  BY <1>13 DEF TasksJoined, FunctionTypes, AppTasks, ReturnInv
<1>14. CASE WaitChild
  BY <1>14 DEF WaitChild, Returns, FunctionTypes, AppTasks, QueryOutcome, ExitOutcome,
        ReturnInv
<1>15. CASE Collected
  BY <1>15 DEF Collected, FunctionTypes, AppTasks, ReturnInv
<1>16. ASSUME NEW t \in {"stdout", "stderr"}, OutputTaskEnds(t) PROVE ReturnInv'
  BY <1>16 DEF OutputTaskEnds, TaskEnds, FunctionTypes, AppTasks, ReturnInv
<1>17. CASE \/ \E s \in Streams : Write(s) \/ AppendOutput(s) \/ ReadOutput(s)
                  \/ OutputEnds(s) \/ SendOutput(s)
            \/ ProgramEnds \/ ConsumerLeaves \/ StartProgram
            \/ NoMessage \/ JoinReaders \/ RecordExit
            \/ SendExit \/ TakeResponse \/ WriteFrame
            \/ WriterEnds \/ ReadMessage \/ StdinEnds
            \/ Collect
  BY <1>17 DEF Write, AppendOutput, ReadOutput, OutputEnds, SendOutput, ProgramEnds,
        ConsumerLeaves, StartProgram, NoMessage, JoinReaders, RecordExit, SendExit,
        TakeResponse, WriteFrame, WriterEnds, ReadMessage, StdinEnds, Collect, Handled,
        Appended, ReturnInv
<1> QED BY <1>1, <1>2, <1>3, <1>4, <1>5, <1>6, <1>7, <1>8, <1>9, <1>10, <1>11, <1>12,
        <1>13, <1>14, <1>15, <1>16, <1>17
     DEF Next, Readers, Main, Writer, Stdin, Stdout, RunCode

\* A task that ends can be joined.
LEMMA EndedJoins ==
  ASSUME FunctionTypes, JoinableType, JoinInv,
         NEW t \in AppTasks, tasks[t] = "running", NEW how \in {"ok", "failed"},
         how = "ok" => ~Up, TaskEnds(t, how), UNCHANGED runner
  PROVE  JoinInv'
<1>1. SUFFICES ASSUME NEW i \in 1..Len(joinable')
               PROVE  /\ tasks'[joinable'[i]] \in {"ok", "failed"}
                      /\ tasks'[joinable'[i]] = "ok" => ~Up
  BY DEF JoinInv
<1>2. tasks' = [tasks EXCEPT ![t] = how] /\ joinable' = Append(joinable, t)
  BY DEF TaskEnds
<1>3. CASE i \in 1..Len(joinable) /\ joinable'[i] = joinable[i]
  <2>1. /\ tasks[joinable[i]] \in {"ok", "failed"}
        /\ tasks[joinable[i]] = "ok" => ~Up
    BY <1>3 DEF JoinInv
  <2>2. tasks'[joinable[i]] = tasks[joinable[i]]
    BY <1>2, <2>1 DEF FunctionTypes
  <2> QED BY <1>3, <2>1, <2>2
<1>4. CASE joinable'[i] = t
  BY <1>2, <1>4 DEF FunctionTypes
<1>5. (i \in 1..Len(joinable) /\ joinable'[i] = joinable[i]) \/ joinable'[i] = t
  BY <1>1, <1>2, OneMore DEF JoinableType
<1> QED BY <1>3, <1>4, <1>5

\* Nothing is left to join.
LEMMA NoneJoins == joinable' = <<>> => JoinInv'
  BY DEF JoinInv

\* What has ended can be joined whatever the others do.
LEMMA StillJoins ==
  ASSUME JoinableType, JoinInv, UNCHANGED <<joinable, runner>>,
         \A u \in AppTasks : tasks[u] \in {"ok", "failed"} => tasks'[u] = tasks[u]
  PROVE  JoinInv'
<1>1. \A i \in 1..Len(joinable) : joinable[i] \in AppTasks
  BY DEF JoinableType
<1> QED BY <1>1 DEF JoinInv

LEMMA JoinStep ==
  FunctionTypes /\ SequenceTypes /\ StdinInv /\ ReturnInv /\ JoinInv /\ Next
  => JoinInv'
<1> SUFFICES ASSUME FunctionTypes /\ SequenceTypes /\ StdinInv /\ ReturnInv /\
                    JoinInv, Next
             PROVE  JoinInv'
  OBVIOUS
<1>1. CASE Kill
  BY <1>1 DEF Kill, JoinInv
<1>2. CASE QueryDropped
  <2>1. joinable' = <<>> \/ UNCHANGED <<joinable, tasks, runner>>
    BY <1>2 DEF QueryDropped, Returns
  <2> QED BY <2>1, NoneJoins DEF JoinInv
<1>3. CASE RunnerEnds
  BY <1>3 DEF RunnerEnds, ExitStatus, Handled, JoinInv
<1>4. CASE DecodeFrame
  <2>1. CASE TaskEnds("stdout", "failed")
    BY <1>4, <2>1, EndedJoins DEF DecodeFrame, AppTasks, SequenceTypes
  <2>2. CASE tasks' = [tasks EXCEPT !["stdout"] = "sending"] /\ UNCHANGED joinable
    <3>1. \A u \in AppTasks : tasks[u] # "running" => tasks'[u] = tasks[u]
      BY <2>2, <1>4 DEF FunctionTypes, DecodeFrame
    <3> QED BY <1>4, <2>2, <3>1, StillJoins DEF DecodeFrame, SequenceTypes
  <2> QED BY <1>4, <2>1, <2>2 DEF DecodeFrame
<1>5. CASE SendDecoded
  <2>1. \A u \in AppTasks : tasks[u] # "sending" => tasks'[u] = tasks[u]
    BY <1>5 DEF FunctionTypes, SendDecoded
  <2> QED BY <1>5, <2>1, StillJoins DEF SendDecoded, SequenceTypes
<1>6. CASE WriteMessage
  <2>1. \/ UNCHANGED <<tasks, joinable>>
        \/ \E how \in {"ok", "failed"} : TaskEnds("stdin", how) /\ (how = "ok" => ~Up)
    BY <1>6 DEF WriteMessage
  <2>2. tasks["stdin"] = "running" /\ UNCHANGED runner
    BY <1>6 DEF WriteMessage
  <2> QED BY <2>1, <2>2, EndedJoins DEF JoinInv, AppTasks, SequenceTypes
<1>7. CASE StdinTaskEnds
  <2>1. \E how \in {"ok", "failed"} : TaskEnds("stdin", how) /\ (how = "ok" => ~Up)
    BY <1>7 DEF StdinTaskEnds, StdinInv, GivenUp, ReturnInv, AppTasks
  <2>2. tasks["stdin"] = "running" /\ UNCHANGED runner
    BY <1>7 DEF StdinTaskEnds
  <2> QED BY <2>1, <2>2, EndedJoins DEF JoinInv, AppTasks, SequenceTypes
<1>8. CASE SendMessage
  <2>1. joinable' = <<>> \/ UNCHANGED <<joinable, tasks, runner>>
    BY <1>8 DEF SendMessage, Returns
  <2> QED BY <2>1, NoneJoins DEF JoinInv
<1>9. CASE HandOn
  <2>1. joinable' = <<>> \/ UNCHANGED <<joinable, tasks, runner>>
    BY <1>9 DEF HandOn, Returns
  <2> QED BY <2>1, NoneJoins DEF JoinInv
<1>10. CASE JoinTask
  <2>1. \/ joinable' = <<>>
        \/ joinable # <<>> /\ joinable' = Tail(joinable) /\ UNCHANGED <<tasks, runner>>
    BY <1>10 DEF JoinTask, Returns
  <2>2. CASE joinable # <<>> /\ joinable' = Tail(joinable) /\ UNCHANGED <<tasks, runner>>
    <3>1. \A i \in 1..Len(joinable') : joinable'[i] = joinable[i + 1]
                                     /\ i + 1 \in 1..Len(joinable)
      BY <2>2, Rest DEF SequenceTypes, JoinableType
    <3> QED BY <2>2, <3>1 DEF JoinInv
  <2> QED BY <2>1, <2>2, NoneJoins
<1>11. CASE WaitChild
  <2>1. joinable' = <<>> \/ UNCHANGED <<joinable, tasks, runner>>
    BY <1>11 DEF WaitChild, Returns
  <2> QED BY <2>1, NoneJoins DEF JoinInv
<1>12. ASSUME NEW t \in {"stdout", "stderr"}, OutputTaskEnds(t) PROVE JoinInv'
  <2>1. \E how \in {"ok", "failed"} : TaskEnds(t, how) /\ (how = "ok" => ~Up)
    BY <1>12 DEF OutputTaskEnds
  <2>2. tasks[t] = "running" /\ UNCHANGED runner
    BY <1>12 DEF OutputTaskEnds
  <2> QED BY <2>1, <2>2, EndedJoins DEF JoinInv, AppTasks, SequenceTypes
<1>13. CASE \/ \E s \in Streams : Write(s) \/ AppendOutput(s) \/ ReadOutput(s)
                  \/ OutputEnds(s) \/ SendOutput(s)
            \/ ProgramEnds \/ ConsumerLeaves \/ StartProgram
            \/ NoMessage \/ JoinReaders \/ RecordExit
            \/ SendExit \/ TakeResponse \/ WriteFrame
            \/ WriterEnds \/ ReadMessage \/ StdinEnds
            \/ ReceiveResponse \/ OutputClosed \/ TasksJoined \/ Collect \/ Collected
  BY <1>13 DEF Write, AppendOutput, ReadOutput, OutputEnds, SendOutput, ProgramEnds,
        ConsumerLeaves, StartProgram, NoMessage, JoinReaders, RecordExit, SendExit,
        TakeResponse, WriteFrame, WriterEnds, ReadMessage, StdinEnds, ReceiveResponse,
        OutputClosed, TasksJoined, Collect, Collected, Handled, Appended, JoinInv
<1> QED BY <1>1, <1>2, <1>3, <1>4, <1>5, <1>6, <1>7, <1>8, <1>9, <1>10, <1>11, <1>12,
        <1>13
     DEF Next, Readers, Main, Writer, Stdin, Stdout, RunCode

-----------------------------------------------------------------------------
(* Causes                                                                  *)

\* A cause stays one.
LEMMA CauseStays == FunctionTypes /\ Cause /\ Next => Cause'
<1> SUFFICES ASSUME FunctionTypes /\ Cause, Next PROVE Cause'
  OBVIOUS
<1>1. ASSUME NEW s \in Streams, Write(s) PROVE Cause'
  BY <1>1, SandboxAssumption DEF Write, FunctionTypes, Cause
<1>2. CASE Kill
  BY <1>2 DEF Kill, Cause
<1>3. CASE ConsumerLeaves
  BY <1>3 DEF ConsumerLeaves, Cause
<1>4. CASE QueryDropped
  BY <1>4 DEF QueryDropped, Returns, Cause
<1>5. CASE StartProgram
  BY <1>5 DEF StartProgram, Cause
<1>6. CASE NoMessage
  BY <1>6 DEF NoMessage, Cause
<1>7. CASE JoinReaders
  BY <1>7 DEF JoinReaders, Cause
<1>8. CASE RecordExit
  BY <1>8 DEF RecordExit, Cause
<1>9. CASE SendExit
  BY <1>9 DEF SendExit, Cause
<1>10. CASE RunnerEnds
  BY <1>10 DEF RunnerEnds, ExitStatus, Handled, Cause
<1>11. CASE \/ \E s \in Streams : AppendOutput(s) \/ ReadOutput(s) \/ OutputEnds(s)
                  \/ SendOutput(s)
            \/ ProgramEnds \/ TakeResponse \/ WriteFrame
            \/ WriterEnds \/ ReadMessage \/ StdinEnds
            \/ DecodeFrame \/ SendDecoded \/ WriteMessage
            \/ StdinTaskEnds \/ SendMessage \/ ReceiveResponse
            \/ HandOn \/ OutputClosed \/ JoinTask \/ TasksJoined \/ WaitChild \/ Collect
            \/ Collected
            \/ OutputTaskEnds("stdout") \/ OutputTaskEnds("stderr")
  BY <1>11 DEF AppendOutput, ReadOutput, OutputEnds, SendOutput, ProgramEnds,
        TakeResponse, WriteFrame, WriterEnds, ReadMessage, StdinEnds, DecodeFrame,
        SendDecoded, WriteMessage, StdinTaskEnds, SendMessage, ReceiveResponse, HandOn,
        OutputClosed, JoinTask, TasksJoined, WaitChild, Collect, Collected,
        OutputTaskEnds, Handled, FrameReady, Appended, Returns, TaskEnds, Cause
<1> QED BY <1>1, <1>2, <1>3, <1>4, <1>5, <1>6, <1>7, <1>8, <1>9, <1>10, <1>11
     DEF Next, Readers, Main, Writer, Stdin, Stdout, RunCode

\* Tasks, the writer and the runner fail in turn.
LEMMA CauseStep ==
  TypeOK /\ MessageInv /\ StdinInv /\ ReturnInv /\ SentInv /\ CauseInv /\ WriterInv /\
  FailureHasCause /\ Next
  => CauseInv'
<1> SUFFICES ASSUME TypeOK /\ MessageInv /\ StdinInv /\ ReturnInv /\ SentInv /\
                    CauseInv /\ WriterInv /\ FailureHasCause, Next
             PROVE  CauseInv'
  OBVIOUS
<1> ScalarTypes /\ RecordTypes /\ FunctionTypes /\ SequenceTypes
  BY Types
<1>0. Cause => Cause'
  BY CauseStays
<1>1. CASE Kill
  <2>1. Cause'
    BY <1>1 DEF Kill, Cause
  <2> QED BY <1>1, <1>0, <2>1 DEF Kill, CauseInv
<1>2. CASE QueryDropped
  BY <1>2, <1>0 DEF QueryDropped, Returns, FunctionTypes, AppTasks, CauseInv
<1>3. CASE RunnerEnds
  <2>1. CASE main = "failed" \/ writer = "failed"
    <3>1. Cause'
      BY <1>0, <2>1 DEF CauseInv, Cause
    <3> QED BY <1>3, <1>0, <3>1 DEF RunnerEnds, CauseInv
  <2>2. CASE main # "failed" /\ writer # "failed" /\ stdinReader = "reading"
    BY <1>3, <1>0, <2>2 DEF RunnerEnds, ExitStatus, CauseInv
  <2>3. CASE stdinReader # "reading"
    <3>1. stdinReader = "failed" => Cause
      BY DEF MessageInv, Cause
    <3>2. stdinReader = "ended" => Cause
      BY DEF StdinInv, GivenUp, FailureHasCause
    <3>3. Cause'
      BY <1>0, <2>3, <3>1, <3>2 DEF ScalarTypes
    <3> QED BY <1>3, <1>0, <3>3 DEF RunnerEnds, CauseInv
  <2> QED BY <2>1, <2>2, <2>3
<1>4. CASE TakeResponse
  BY <1>4, <1>0 DEF TakeResponse, FunctionTypes, AppTasks, CauseInv
<1>5. CASE WriteFrame
  <2>1. CASE tasks["stdout"] \in InProcess
    BY <1>5, <1>0, <2>1 DEF WriteFrame, CauseInv
  <2>2. CASE tasks["stdout"] \notin InProcess
    <3>1. tasks["stdout"] \in {"ok", "failed", "aborted"}
      BY <2>2 DEF FunctionTypes, AppTasks
    <3>2. tasks["stdout"] # "ok"
      BY <1>5 DEF WriteFrame, ReturnInv, AppTasks
    <3>3. ASSUME tasks["stdout"] = "failed" PROVE Cause'
      BY <1>0, <3>3 DEF CauseInv, AppTasks
    <3>4. ASSUME tasks["stdout"] = "aborted" PROVE Cause'
      <4>1. outcome # "none" /\ Up
        BY <1>5, <3>4 DEF ReturnInv, AppTasks, WriteFrame
      <4>2. outcome \in {"ioError", "gone"}
        BY <4>1 DEF ReturnInv, ScalarTypes
      <4> QED BY <1>0, <4>2 DEF FailureHasCause
    <3>5. Cause'
      BY <3>1, <3>2, <3>3, <3>4
    <3> QED BY <1>5, <2>2, <3>5 DEF WriteFrame, CauseInv
  <2> QED BY <2>1, <2>2
<1>6. CASE WriterEnds
  BY <1>6, <1>0 DEF WriterEnds, Handled, FunctionTypes, AppTasks, CauseInv
<1>7. CASE DecodeFrame
  <2>1. CASE tasks'["stdout"] = "failed"
    <3>1. Head(stdoutPipe) = stdoutPipe[1] /\ 1 \in 1..Len(stdoutPipe)
      BY <1>7, First DEF DecodeFrame, FrameReady, SequenceTypes, StdoutType
    <3>2. runner = "killed" \/ Within(Head(stdoutPipe))
      BY <3>1 DEF SentInv
    <3>3. Head(stdoutPipe) = Cut => runner = "killed"
      BY <3>1 DEF SentInv
    <3>4. ASSUME runner = "killed" PROVE Cause'
      BY <1>0, <3>4 DEF Cause
    <3>5. ASSUME Head(stdoutPipe) # Cut, Within(Head(stdoutPipe)) PROVE Cause'
      <4>1. TooLarge(Head(stdoutPipe))
        BY <1>7, <2>1, <3>5 DEF DecodeFrame, FunctionTypes, AppTasks
      <4>2. Head(stdoutPipe) \in Responses
        BY <1>7, <3>5, First DEF DecodeFrame, FrameReady, SequenceTypes, StdoutType
      <4>3. PICK s \in Streams : Head(stdoutPipe)[s] > Limit
        BY <4>1 DEF TooLarge
      <4>4. Head(stdoutPipe)[s] \in Nat /\ Head(stdoutPipe)[s] <= written[s]
        BY <3>5, <4>2, Amount DEF Within
      <4>5. written[s] > Limit
        BY <4>3, <4>4, SandboxAssumption DEF FunctionTypes
      <4> QED BY <4>5, <1>0 DEF Cause
    <3>6. Cause'
      BY <3>2, <3>3, <3>4, <3>5
    <3> QED BY <1>7, <1>0, <3>6 DEF DecodeFrame, CauseInv
  <2>2. CASE tasks'["stdout"] # "failed"
    BY <1>7, <1>0, <2>2 DEF DecodeFrame, TaskEnds, CauseInv, FunctionTypes, AppTasks
  <2> QED BY <2>1, <2>2
<1>8. CASE SendDecoded
  BY <1>8, <1>0 DEF SendDecoded, FunctionTypes, AppTasks, CauseInv
<1>9. CASE WriteMessage
  <2>1. CASE Up
    BY <1>9, <1>0, <2>1 DEF WriteMessage, CauseInv
  <2>2. CASE ~Up
    <3>1. ASSUME runner # "ok" PROVE Cause'
      BY <1>0, <2>2, <3>1 DEF CauseInv
    <3>2. ASSUME runner = "ok" PROVE Cause'
      <4>1. main = "handled" /\ outcome = "none" /\ childIn > 0
        BY <1>9, <3>2 DEF WriterInv, WriteMessage, ReturnInv, AppTasks
      <4>2. ~inbox.open
        BY <4>1 DEF StdinInv, GivenUp
      <4>3. Taken = 1
        BY <4>1, <4>2 DEF Taken
      <4>4. inbox.messages \in Nat
        BY DEF RecordTypes
      <4>5. plan.messages > 1
        BY <4>1, <4>3, <4>4, Planned DEF MessageInv, ScalarTypes
      <4> QED BY <1>0, <4>5 DEF Cause
    <3>3. Cause'
      BY <3>1, <3>2
    <3> QED BY <1>9, <2>2, <3>3 DEF WriteMessage, CauseInv
  <2> QED BY <2>1, <2>2
<1>10. CASE StdinTaskEnds
  BY <1>10, <1>0 DEF StdinTaskEnds, TaskEnds, FunctionTypes, AppTasks, CauseInv
<1>11. CASE SendMessage
  BY <1>11, <1>0 DEF SendMessage, Returns, FunctionTypes, AppTasks, CauseInv
<1>12. CASE HandOn
  BY <1>12, <1>0 DEF HandOn, Returns, FunctionTypes, AppTasks, CauseInv
<1>13. CASE JoinTask
  BY <1>13, <1>0 DEF JoinTask, Returns, FunctionTypes, AppTasks, CauseInv
<1>14. CASE WaitChild
  BY <1>14, <1>0 DEF WaitChild, Returns, FunctionTypes, AppTasks, CauseInv
<1>15. ASSUME NEW t \in {"stdout", "stderr"}, OutputTaskEnds(t) PROVE CauseInv'
  BY <1>15, <1>0 DEF OutputTaskEnds, TaskEnds, FunctionTypes, AppTasks, CauseInv
<1>16. CASE \/ \E s \in Streams : Write(s) \/ AppendOutput(s) \/ ReadOutput(s)
                  \/ OutputEnds(s) \/ SendOutput(s)
            \/ ProgramEnds \/ ConsumerLeaves \/ StartProgram
            \/ NoMessage \/ JoinReaders \/ RecordExit
            \/ SendExit \/ ReadMessage \/ StdinEnds
            \/ ReceiveResponse \/ OutputClosed \/ TasksJoined
            \/ Collect \/ Collected
  BY <1>16, <1>0 DEF Write, AppendOutput, ReadOutput, OutputEnds, SendOutput, ProgramEnds,
        ConsumerLeaves, StartProgram, NoMessage, JoinReaders, RecordExit, SendExit,
        ReadMessage, StdinEnds, ReceiveResponse, OutputClosed, TasksJoined, Collect,
        Collected, Appended, CauseInv
<1> QED BY <1>1, <1>2, <1>3, <1>4, <1>5, <1>6, <1>7, <1>8, <1>9, <1>10, <1>11, <1>12,
        <1>13, <1>14, <1>15, <1>16
     DEF Next, Readers, Main, Writer, Stdin, Stdout, RunCode

-----------------------------------------------------------------------------
(* Output                                                                  *)

LEMMA WriterStep == FunctionTypes /\ WriterInv /\ Next => WriterInv'
<1> SUFFICES ASSUME FunctionTypes /\ WriterInv, Next PROVE WriterInv'
  OBVIOUS
<1>1. ASSUME NEW s \in Streams, AppendOutput(s) PROVE WriterInv'
  BY <1>1 DEF AppendOutput, Appended, FunctionTypes, Handled, WriterInv
<1>2. ASSUME NEW s \in Streams, ReadOutput(s) PROVE WriterInv'
  BY <1>2 DEF ReadOutput, FunctionTypes, Handled, WriterInv
<1>3. ASSUME NEW s \in Streams, OutputEnds(s) PROVE WriterInv'
  BY <1>3 DEF OutputEnds, FunctionTypes, Handled, WriterInv
<1>4. ASSUME NEW s \in Streams, SendOutput(s) PROVE WriterInv'
  BY <1>4 DEF SendOutput, FunctionTypes, Handled, WriterInv
<1>5. CASE Kill
  BY <1>5 DEF Kill, FunctionTypes, Handled, WriterInv
<1>6. CASE StartProgram
  BY <1>6 DEF StartProgram, FunctionTypes, Handled, WriterInv
<1>7. CASE NoMessage
  BY <1>7 DEF NoMessage, FunctionTypes, Handled, WriterInv
<1>8. CASE JoinReaders
  BY <1>8 DEF JoinReaders, FunctionTypes, Handled, WriterInv
<1>9. CASE RecordExit
  BY <1>9 DEF RecordExit, FunctionTypes, Handled, WriterInv
<1>10. CASE SendExit
  BY <1>10 DEF SendExit, FunctionTypes, Handled, WriterInv
<1>11. CASE RunnerEnds
  BY <1>11 DEF RunnerEnds, ExitStatus, Handled, FunctionTypes, WriterInv
<1>12. CASE TakeResponse
  BY <1>12 DEF TakeResponse, FunctionTypes, Handled, WriterInv
<1>13. CASE WriteFrame
  BY <1>13 DEF WriteFrame, FunctionTypes, Handled, WriterInv
<1>14. CASE WriterEnds
  BY <1>14 DEF WriterEnds, Handled, FunctionTypes, WriterInv
<1>15. CASE \/ \E s \in Streams : Write(s)
            \/ ProgramEnds \/ ConsumerLeaves \/ QueryDropped
            \/ ReadMessage \/ StdinEnds \/ DecodeFrame
            \/ SendDecoded \/ WriteMessage \/ StdinTaskEnds
            \/ SendMessage \/ ReceiveResponse \/ HandOn
            \/ OutputClosed \/ JoinTask \/ TasksJoined \/ WaitChild \/ Collect \/ Collected
            \/ OutputTaskEnds("stdout") \/ OutputTaskEnds("stderr")
  BY <1>15 DEF Write, ProgramEnds, ConsumerLeaves, QueryDropped, ReadMessage, StdinEnds,
        DecodeFrame, SendDecoded, WriteMessage, StdinTaskEnds, SendMessage,
        ReceiveResponse, HandOn, OutputClosed, JoinTask, TasksJoined, WaitChild,
        Collect, Collected, OutputTaskEnds, FrameReady, Returns, TaskEnds, WriterInv,
        Handled
<1> QED BY <1>1, <1>2, <1>3, <1>4, <1>5, <1>6, <1>7, <1>8, <1>9, <1>10, <1>11, <1>12,
        <1>13, <1>14, <1>15
     DEF Next, Readers, Main, Writer, Stdin, Stdout, RunCode

\* What the program has written only grows.
LEMMA WrittenGrows ==
  ASSUME FunctionTypes, FunctionTypes', Next
  PROVE  \A s \in Streams : /\ written[s] \in Nat /\ written'[s] \in Nat
                            /\ written[s] <= written'[s]
<1>1. \A s \in Streams : written[s] \in Nat /\ written'[s] \in Nat
  BY DEF FunctionTypes
<1>2. ASSUME NEW q \in Streams, Write(q)
      PROVE  \A s \in Streams : written[s] <= written'[s]
  BY <1>1, <1>2 DEF Write, FunctionTypes
<1>3. CASE UNCHANGED written
  BY <1>1, <1>3
<1>4. UNCHANGED written \/ \E q \in Streams : Write(q)
  BY DEF Next, Readers, Main, Writer, Stdin, Stdout, RunCode, AppendOutput, Appended,
         ReadOutput, OutputEnds, SendOutput, ProgramEnds, Kill, ConsumerLeaves,
         QueryDropped, StartProgram, NoMessage, JoinReaders, RecordExit, SendExit,
         RunnerEnds, TakeResponse, WriteFrame, WriterEnds, ReadMessage, StdinEnds, DecodeFrame,
         SendDecoded,
         OutputTaskEnds, WriteMessage, StdinTaskEnds, SendMessage, ReceiveResponse, HandOn,
         OutputClosed, JoinTask, TasksJoined, WaitChild, Collect, Collected
<1> QED BY <1>1, <1>2, <1>3, <1>4

\* A response that has been written still is.
LEMMA StaysWithin ==
  ASSUME FunctionTypes, FunctionTypes', Next, NEW r \in Responses, Within(r)
  PROVE  \A s \in Streams : r[s] <= written'[s]
<1>1. \A s \in Streams : r[s] \in Nat /\ r[s] <= written[s]
  BY Amount DEF Within
<1> QED BY <1>1, WrittenGrows

\* What a stream's tasks have of what it has written.
Accounted == \A s \in Streams :
  response[s] + unread[s] + (IF reader[s] = "locking" THEN hand[s][s] ELSE 0) = written[s]

LEMMA OutputParts ==
  OutputInv <=> Accounted /\ (\A s \in Streams : Within(hand[s])) /\ Within(frame)
  BY DEF OutputInv, Accounted

LEMMA StaysAccounted ==
  ASSUME FunctionTypes, RecordTypes, Accounted, UNCHANGED <<response, unread, written>>,
         \A q \in Streams : /\ reader'[q] = "locking" <=> reader[q] = "locking"
                            /\ reader'[q] = "locking" => hand'[q] = hand[q]
  PROVE  Accounted'
<1>1. ASSUME NEW q \in Streams
      PROVE  response'[q] + unread'[q]
               + (IF reader'[q] = "locking" THEN hand'[q][q] ELSE 0) = written'[q]
  <2>1. response[q] + unread[q]
          + (IF reader[q] = "locking" THEN hand[q][q] ELSE 0) = written[q]
    BY DEF Accounted
  <2>2. /\ response[q] \in Nat /\ unread[q] \in Nat /\ hand[q][q] \in Nat
        /\ written[q] \in Nat
    BY Amount DEF RecordTypes, FunctionTypes
  <2>3. CASE reader'[q] = "locking"
    BY <2>1, <2>3
  <2>4. CASE reader'[q] # "locking"
    BY <2>1, <2>2, <2>4
  <2> QED BY <2>3, <2>4
<1> QED BY <1>1 DEF Accounted

LEMMA AccountStep ==
  FunctionTypes /\ RecordTypes /\ WriterInv /\ Accounted /\ Next
  => Accounted'
<1> SUFFICES ASSUME FunctionTypes /\ RecordTypes /\ WriterInv /\ Accounted, Next
             PROVE  Accounted'
  OBVIOUS
<1>0. \A s \in Streams : /\ response[s] \in Nat /\ unread[s] \in Nat /\ written[s] \in Nat
                         /\ hand[s][s] \in Nat
  BY Amount DEF RecordTypes, FunctionTypes
<1>1. ASSUME NEW s \in Streams, Write(s) PROVE Accounted'
  BY <1>1, <1>0 DEF Write, FunctionTypes, Accounted
<1>2. ASSUME NEW s \in Streams, AppendOutput(s) PROVE Accounted'
  <2>1. /\ response'[s] = response[s] + hand[s][s]
        /\ \A q \in Streams : q # s => response'[q] = response[q]
    BY <1>2, OutputAppended DEF AppendOutput
  <2>2. /\ reader[s] = "locking" /\ reader'[s] = "sending"
        /\ \A q \in Streams : q # s => reader'[q] = reader[q] /\ hand'[q] = hand[q]
    BY <1>2 DEF AppendOutput, Appended, FunctionTypes
  <2> QED BY <1>2, <1>0, <2>1, <2>2 DEF AppendOutput, Appended, Accounted
<1>3. ASSUME NEW s \in Streams, ReadOutput(s) PROVE Accounted'
  <2>1. PICK n \in 1..unread[s] :
          /\ hand' = [hand EXCEPT ![s] = [Nothing EXCEPT ![s] = n]]
          /\ unread' = [unread EXCEPT ![s] = @ - n]
          /\ hand'[s] \in Responses /\ hand'[s][s] = n
          /\ \A q \in Streams : q # s => hand'[s][q] = 0
    BY <1>3, OutputRead
  <2>2. /\ reader[s] = "reading" /\ reader'[s] = "locking" /\ unread'[s] = unread[s] - n
        /\ \A q \in Streams : q # s => /\ reader'[q] = reader[q] /\ hand'[q] = hand[q]
                                       /\ unread'[q] = unread[q]
    BY <1>3, <2>1 DEF ReadOutput, FunctionTypes
  <2>3. n \in Nat /\ n <= unread[s] /\ hand'[s][s] = n
    BY <1>0, <2>1
  <2> QED BY <1>3, <1>0, <2>2, <2>3 DEF ReadOutput, Accounted
<1>4. ASSUME NEW s \in Streams, OutputEnds(s) PROVE Accounted'
  <2>1. \A q \in Streams : /\ reader'[q] = "locking" <=> reader[q] = "locking"
                           /\ reader'[q] = "locking" => hand'[q] = hand[q]
    BY <1>4 DEF OutputEnds, FunctionTypes, WriterInv
  <2>2. UNCHANGED <<response, unread, written>>
    BY <1>4 DEF OutputEnds
  <2> QED BY <2>1, <2>2, StaysAccounted
<1>5. ASSUME NEW s \in Streams, SendOutput(s) PROVE Accounted'
  <2>1. \A q \in Streams : /\ reader'[q] = "locking" <=> reader[q] = "locking"
                           /\ reader'[q] = "locking" => hand'[q] = hand[q]
    BY <1>5 DEF SendOutput, FunctionTypes, WriterInv
  <2>2. UNCHANGED <<response, unread, written>>
    BY <1>5 DEF SendOutput
  <2> QED BY <2>1, <2>2, StaysAccounted
<1>6. CASE StartProgram
  <2>1. \A q \in Streams : /\ reader'[q] = "locking" <=> reader[q] = "locking"
                           /\ reader'[q] = "locking" => hand'[q] = hand[q]
    BY <1>6 DEF StartProgram, FunctionTypes, WriterInv
  <2>2. UNCHANGED <<response, unread, written>>
    BY <1>6 DEF StartProgram
  <2> QED BY <2>1, <2>2, StaysAccounted
<1>7. CASE RecordExit
  BY <1>7, <1>0, ExitRecorded DEF RecordExit, Accounted
<1>8. CASE \/ ProgramEnds \/ Kill \/ ConsumerLeaves
           \/ QueryDropped \/ NoMessage \/ JoinReaders
           \/ SendExit \/ RunnerEnds \/ TakeResponse
           \/ WriteFrame \/ WriterEnds \/ ReadMessage
           \/ StdinEnds \/ DecodeFrame \/ SendDecoded
           \/ WriteMessage \/ StdinTaskEnds \/ SendMessage
           \/ ReceiveResponse \/ HandOn \/ OutputClosed
           \/ JoinTask \/ TasksJoined \/ WaitChild
           \/ Collect \/ Collected
           \/ OutputTaskEnds("stdout") \/ OutputTaskEnds("stderr")
  BY <1>8 DEF ProgramEnds, Kill, ConsumerLeaves, QueryDropped, NoMessage, JoinReaders,
        SendExit, RunnerEnds, TakeResponse, WriteFrame, WriterEnds, ReadMessage,
        StdinEnds, DecodeFrame, SendDecoded, WriteMessage, StdinTaskEnds, SendMessage,
        ReceiveResponse, HandOn, OutputClosed, JoinTask, TasksJoined, WaitChild,
        Collect, Collected, OutputTaskEnds, ExitStatus, Handled, FrameReady, Returns,
        TaskEnds, Accounted
<1> QED BY <1>1, <1>2, <1>3, <1>4, <1>5, <1>6, <1>7, <1>8
     DEF Next, Readers, Main, Writer, Stdin, Stdout, RunCode

\* What a task holds, and what is being written.
Held == \A s \in Streams : Within(hand[s])

LEMMA HeldStep ==
  FunctionTypes /\ FunctionTypes' /\ RecordTypes /\ Accounted /\ Held /\ Next
  => Held'
<1> SUFFICES ASSUME FunctionTypes /\ FunctionTypes' /\ RecordTypes /\ Accounted /\
                    Held, Next
             PROVE  Held'
  OBVIOUS
<1>0. \A q \in Streams : /\ written[q] \in Nat /\ written'[q] \in Nat
                         /\ written[q] <= written'[q]
  BY WrittenGrows
<1>a. \A q, s \in Streams : hand[s][q] \in Nat /\ response[s] \in Nat /\ unread[s] \in Nat
  BY Amount DEF FunctionTypes, RecordTypes
<1>1. ASSUME NEW s \in Streams, Write(s) PROVE Held'
  BY <1>1, <1>0, <1>a DEF Write, Held, Within
<1>2. ASSUME NEW s \in Streams, AppendOutput(s) PROVE Held'
  <2>1. /\ response'[s] = response[s] + hand[s][s]
        /\ \A q \in Streams : q # s => response'[q] = response[q]
    BY <1>2, OutputAppended DEF AppendOutput
  <2>2. /\ reader[s] = "locking" /\ UNCHANGED written /\ hand'[s] = response'
        /\ \A q \in Streams : q # s => hand'[q] = hand[q]
    BY <1>2 DEF AppendOutput, Appended, FunctionTypes
  <2>3. \A q \in Streams : response'[q] <= written[q]
    BY <1>0, <1>a, <2>1, <2>2 DEF Accounted
  <2> QED BY <2>2, <2>3 DEF Held, Within
<1>3. ASSUME NEW s \in Streams, ReadOutput(s) PROVE Held'
  <2>1. PICK n \in 1..unread[s] :
          /\ hand' = [hand EXCEPT ![s] = [Nothing EXCEPT ![s] = n]]
          /\ unread' = [unread EXCEPT ![s] = @ - n]
          /\ hand'[s] \in Responses /\ hand'[s][s] = n
          /\ \A q \in Streams : q # s => hand'[s][q] = 0
    BY <1>3, OutputRead
  <2>2. UNCHANGED written /\ \A q \in Streams : q # s => hand'[q] = hand[q]
    BY <1>3, <2>1 DEF ReadOutput, FunctionTypes
  <2>3. n <= unread[s] /\ unread[s] <= written[s] /\ n \in Nat
    BY <1>0, <1>a, <2>1, <1>3 DEF Accounted, ReadOutput
  <2>4. \A q \in Streams : hand'[s][q] <= written[q]
    BY <1>0, <1>a, <2>1, <2>3
  <2> QED BY <2>2, <2>4 DEF Held, Within
<1>4. ASSUME NEW s \in Streams, SendOutput(s) PROVE Held'
  <2>1. /\ hand'[s] = Nothing /\ UNCHANGED written
        /\ \A q \in Streams : q # s => hand'[q] = hand[q]
    BY <1>4 DEF SendOutput, FunctionTypes
  <2> QED BY <2>1, <1>0, NothingTyped DEF Held, Within
<1>5. CASE \/ \E s \in Streams : OutputEnds(s)
           \/ ProgramEnds \/ Kill \/ ConsumerLeaves
           \/ QueryDropped \/ StartProgram \/ NoMessage
           \/ JoinReaders \/ RecordExit \/ SendExit
           \/ RunnerEnds \/ TakeResponse \/ WriteFrame
           \/ WriterEnds \/ ReadMessage \/ StdinEnds
           \/ DecodeFrame \/ SendDecoded \/ WriteMessage
           \/ StdinTaskEnds \/ SendMessage \/ ReceiveResponse
           \/ HandOn \/ OutputClosed \/ JoinTask
           \/ TasksJoined \/ WaitChild \/ Collect \/ Collected
           \/ OutputTaskEnds("stdout") \/ OutputTaskEnds("stderr")
  BY <1>5 DEF OutputEnds, ProgramEnds, Kill, ConsumerLeaves, QueryDropped, StartProgram,
        NoMessage, JoinReaders, RecordExit, SendExit, RunnerEnds, TakeResponse,
        WriteFrame, WriterEnds, ReadMessage, StdinEnds, DecodeFrame, SendDecoded,
        WriteMessage, StdinTaskEnds, SendMessage, ReceiveResponse, HandOn, OutputClosed,
        JoinTask, TasksJoined, WaitChild, Collect, Collected, OutputTaskEnds,
        ExitStatus, Handled, FrameReady, Returns, TaskEnds, Held, Within
<1> QED BY <1>1, <1>2, <1>3, <1>4, <1>5
     DEF Next, Readers, Main, Writer, Stdin, Stdout, RunCode

\* The response has been written.
LEMMA ResponseWithin ==
  ASSUME FunctionTypes, RecordTypes, Accounted
  PROVE  Within(response)
<1>1. \A s \in Streams : /\ response[s] \in Nat /\ unread[s] \in Nat /\ written[s] \in Nat
                         /\ hand[s][s] \in Nat
  BY Amount DEF RecordTypes, FunctionTypes
<1> QED BY <1>1 DEF Accounted, Within

LEMMA OutputStep ==
  /\ FunctionTypes /\ FunctionTypes' /\ RecordTypes /\ RunnerOutType
  /\ OutputInv /\ SentInv /\ WriterInv /\ Next
  => OutputInv'
<1> SUFFICES ASSUME FunctionTypes, FunctionTypes', RecordTypes, RunnerOutType, OutputInv,
                    SentInv, WriterInv, Next
             PROVE  OutputInv'
  OBVIOUS
<1>1. Accounted /\ Held /\ Within(frame)
  BY OutputParts DEF Held
<1>2. Accounted' /\ Held'
  BY <1>1, AccountStep, HeldStep
<1>3. CASE TakeResponse
  <2>1. frame' = runnerOut[1] /\ 1 \in 1..Len(runnerOut) /\ UNCHANGED written
    BY <1>3, First DEF TakeResponse, RunnerOutType
  <2>2. Within(runnerOut[1])
    BY <2>1 DEF SentInv
  <2>3. Within(frame)'
    BY <2>1, <2>2 DEF Within
  <2> QED BY <1>2, <2>3 DEF OutputInv, Accounted, Held
<1>4. CASE WriteFrame
  <2>1. Within(frame)'
    BY <1>4, NothingTyped DEF WriteFrame, Within, FunctionTypes
  <2> QED BY <1>2, <2>1 DEF OutputInv, Accounted, Held
<1>5. CASE UNCHANGED frame
  <2>1. Within(frame)'
    BY <1>1, <1>5, StaysWithin DEF Within, RecordTypes
  <2> QED BY <1>2, <2>1 DEF OutputInv, Accounted, Held
<1>6. TakeResponse \/ WriteFrame \/ UNCHANGED frame
  BY DEF Next, Readers, Main, Writer, Stdin, Stdout, RunCode, Write, AppendOutput,
         Appended, ReadOutput, OutputEnds, SendOutput, ProgramEnds, Kill, ConsumerLeaves,
         QueryDropped, StartProgram, NoMessage, JoinReaders, RecordExit, SendExit,
         RunnerEnds, WriterEnds, ReadMessage, StdinEnds, DecodeFrame, SendDecoded,
         OutputTaskEnds, WriteMessage, StdinTaskEnds, SendMessage, ReceiveResponse,
         HandOn, OutputClosed, JoinTask, TasksJoined, WaitChild, Collect, Collected
<1> QED BY <1>3, <1>4, <1>5, <1>6

\* A pipe whose first frame is read.
LEMMA SentRest ==
  ASSUME StdoutType, SentInv, stdoutPipe # <<>>, stdoutPipe' = Tail(stdoutPipe),
         UNCHANGED <<runnerOut, runner, written>>
  PROVE  SentInv'
<1>1. \A i \in 1..Len(stdoutPipe') : stdoutPipe'[i] = stdoutPipe[i + 1]
                                     /\ i + 1 \in 1..Len(stdoutPipe)
  BY Rest DEF StdoutType
<1> QED BY <1>1 DEF SentInv, Within

LEMMA SentStep ==
  FunctionTypes /\ FunctionTypes' /\ RecordTypes /\ RunnerOutType /\ StdoutType /\
  OutputInv /\ SentInv /\ Next
  => SentInv'
<1> SUFFICES ASSUME FunctionTypes /\ FunctionTypes' /\ RecordTypes /\ RunnerOutType /\
                    StdoutType /\ OutputInv /\ SentInv, Next
             PROVE  SentInv'
  OBVIOUS
<1>0. \A q \in Streams : /\ written[q] \in Nat /\ written'[q] \in Nat
                         /\ written[q] <= written'[q]
  BY WrittenGrows
<1>1. ASSUME NEW s \in Streams, Write(s) PROVE SentInv'
  <2>1. \A i \in 1..Len(runnerOut) : runnerOut[i] \in Responses
    BY DEF RunnerOutType
  <2>2. ASSUME NEW i \in 1..Len(runnerOut) PROVE Within(runnerOut[i])'
    BY <1>1, <2>1, StaysWithin DEF SentInv, Write, Within
  <2>3. \A i \in 1..Len(stdoutPipe) : stdoutPipe[i] \in Responses \cup {Cut}
    BY DEF StdoutType
  <2>4. ASSUME NEW i \in 1..Len(stdoutPipe), stdoutPipe[i] # Cut
        PROVE  Within(stdoutPipe[i])'
    BY <1>1, <2>3, <2>4, StaysWithin DEF SentInv, Write, Within
  <2> QED BY <1>1, <2>2, <2>4 DEF SentInv, Write
<1>2. ASSUME NEW s \in Streams, SendOutput(s) PROVE SentInv'
  <2>1. hand[s] \in Responses /\ Within(hand[s])
    BY DEF FunctionTypes, OutputInv
  <2>2. \/ UNCHANGED runnerOut
        \/ runnerOut' = Append(runnerOut, hand[s])
    BY <1>2 DEF SendOutput
  <2>3. UNCHANGED <<stdoutPipe, runner, written>>
    BY <1>2 DEF SendOutput
  <2>4. CASE runnerOut' = Append(runnerOut, hand[s])
    <3>1. \A i \in 1..Len(runnerOut') :
            \/ i \in 1..Len(runnerOut) /\ runnerOut'[i] = runnerOut[i]
            \/ runnerOut'[i] = hand[s]
      BY <2>1, <2>4, OneMore DEF RunnerOutType
    <3> QED BY <2>1, <2>3, <3>1 DEF SentInv, Within
  <2>5. CASE UNCHANGED runnerOut
    BY <2>3, <2>5 DEF SentInv, Within
  <2> QED BY <2>2, <2>4, <2>5
<1>3. CASE Kill
  <2>1. /\ runner' = "killed" /\ UNCHANGED <<runnerOut, written>>
        /\ UNCHANGED stdoutPipe \/ stdoutPipe' = Append(stdoutPipe, Cut)
    BY <1>3 DEF Kill
  <2>2. \A i \in 1..Len(stdoutPipe) : stdoutPipe[i] = Cut \/ Within(stdoutPipe[i])
    BY DEF SentInv
  <2>3. \A i \in 1..Len(stdoutPipe') : \/ i \in 1..Len(stdoutPipe) /\ stdoutPipe'[i] = stdoutPipe[i]
                                       \/ stdoutPipe'[i] = Cut
    BY <2>1, OneMore DEF StdoutType
  <2> QED BY <2>1, <2>2, <2>3 DEF SentInv, Within
<1>4. CASE SendExit
  <2>1. response \in Responses /\ Within(response)
    BY ResponseWithin, OutputParts DEF RecordTypes
  <2>2. \/ UNCHANGED runnerOut
        \/ runnerOut' = Append(runnerOut, response)
    BY <1>4 DEF SendExit
  <2>3. UNCHANGED <<stdoutPipe, runner, written>>
    BY <1>4 DEF SendExit
  <2>4. CASE runnerOut' = Append(runnerOut, response)
    <3>1. \A i \in 1..Len(runnerOut') :
            \/ i \in 1..Len(runnerOut) /\ runnerOut'[i] = runnerOut[i]
            \/ runnerOut'[i] = response
      BY <2>1, <2>4, OneMore DEF RunnerOutType
    <3> QED BY <2>1, <2>3, <3>1 DEF SentInv, Within
  <2>5. CASE UNCHANGED runnerOut
    BY <2>3, <2>5 DEF SentInv, Within
  <2> QED BY <2>2, <2>4, <2>5
<1>5. CASE RunnerEnds
  BY <1>5 DEF RunnerEnds, SentInv, Within
<1>6. CASE TakeResponse
  <2>1. /\ runnerOut # <<>> /\ runnerOut' = Tail(runnerOut)
        /\ UNCHANGED <<stdoutPipe, runner, written>>
    BY <1>6 DEF TakeResponse
  <2>2. \A i \in 1..Len(runnerOut') : runnerOut'[i] = runnerOut[i + 1]
                                      /\ i + 1 \in 1..Len(runnerOut)
    BY <2>1, Rest DEF RunnerOutType
  <2> QED BY <2>1, <2>2 DEF SentInv, Within
<1>7. CASE WriteFrame
  <2>1. /\ UNCHANGED <<runner, written>>
        /\ \/ stdoutPipe' = <<frame>> /\ UNCHANGED runnerOut
           \/ runnerOut' = <<>> /\ UNCHANGED stdoutPipe
    BY <1>7 DEF WriteFrame
  <2>2. CASE stdoutPipe' = <<frame>> /\ UNCHANGED runnerOut
    <3>1. frame # Cut /\ Within(frame)
      BY SandboxAssumption DEF RecordTypes, OutputInv, Responses
    <3>2. \A i \in 1..Len(stdoutPipe') : stdoutPipe'[i] = frame
      BY <2>2
    <3> QED BY <2>1, <2>2, <3>1, <3>2 DEF SentInv, Within
  <2>3. CASE runnerOut' = <<>> /\ UNCHANGED stdoutPipe
    BY <2>1, <2>3 DEF SentInv, Within
  <2> QED BY <2>1, <2>2, <2>3
<1>8. CASE DecodeFrame
  <2>1. /\ stdoutPipe # <<>> /\ stdoutPipe' = Tail(stdoutPipe)
        /\ UNCHANGED <<runnerOut, runner, written>>
    BY <1>8 DEF DecodeFrame, FrameReady
  <2> QED BY <2>1, SentRest
<1>9. CASE \/ \E s \in Streams : AppendOutput(s) \/ ReadOutput(s) \/ OutputEnds(s)
           \/ ProgramEnds \/ ConsumerLeaves \/ QueryDropped
           \/ StartProgram \/ NoMessage \/ JoinReaders
           \/ RecordExit \/ WriterEnds \/ ReadMessage
           \/ StdinEnds \/ SendDecoded \/ WriteMessage
           \/ StdinTaskEnds \/ SendMessage \/ ReceiveResponse
           \/ HandOn \/ OutputClosed \/ JoinTask
           \/ TasksJoined \/ WaitChild \/ Collect \/ Collected
           \/ OutputTaskEnds("stdout") \/ OutputTaskEnds("stderr")
  BY <1>9 DEF AppendOutput, ReadOutput, OutputEnds, ProgramEnds, ConsumerLeaves,
        QueryDropped, StartProgram, NoMessage, JoinReaders, RecordExit, WriterEnds,
        ReadMessage, StdinEnds, SendDecoded, WriteMessage, StdinTaskEnds, SendMessage,
        ReceiveResponse, HandOn, OutputClosed, JoinTask, TasksJoined, WaitChild,
        Collect, Collected, OutputTaskEnds, Appended, Returns, TaskEnds, Handled,
        SentInv, Within
<1> QED BY <1>1, <1>2, <1>3, <1>4, <1>5, <1>6, <1>7, <1>8, <1>9
     DEF Next, Readers, Main, Writer, Stdin, Stdout, RunCode

-----------------------------------------------------------------------------
(* Answers and outcomes                                                    *)

\* Something has been added.
LEMMA NotEmpty ==
  ASSUME NEW R, NEW q \in Seq(R), NEW e \in R
  PROVE  Append(q, e) # <<>>
<1>1. Len(Append(q, e)) = Len(q) + 1 /\ Len(q) \in Nat
  BY OneMore
<1>2. Len(<<>>) = 0
  BY Empty
<1> QED BY <1>1, <1>2

LEMMA AnswerStep ==
  RecordTypes /\ FunctionTypes /\ SequenceTypes /\ StdinInv /\ ReturnInv /\ CauseInv' /\
  AnswerInv /\ Next
  => AnswerInv'
<1> SUFFICES ASSUME RecordTypes /\ FunctionTypes /\ SequenceTypes /\ StdinInv /\
                    ReturnInv /\ CauseInv' /\ AnswerInv, Next
             PROVE  AnswerInv'
  OBVIOUS
<1>0. Cause => Cause'
  BY CauseStays
<1>1. ASSUME NEW s \in Streams, SendOutput(s) PROVE AnswerInv'
  <2>1. runnerOut' # <<>> \/ UNCHANGED runnerOut
    BY <1>1, NotEmpty DEF SendOutput, SequenceTypes, RunnerOutType, FunctionTypes
  <2> QED BY <1>1, <2>1, <1>0 DEF SendOutput, AnswerInv
<1>2. CASE Kill
  <2>1. Cause'
    BY <1>2 DEF Kill, Cause
  <2>2. tasks["stdout"] # "ok"
    BY <1>2 DEF Kill, ReturnInv, AppTasks
  <2> QED BY <1>2, <2>1, <2>2 DEF Kill, AnswerInv
<1>3. CASE QueryDropped
  BY <1>3, <1>0 DEF QueryDropped, Returns, FunctionTypes, AppTasks, ReturnInv, AnswerInv
<1>4. CASE StartProgram
  BY <1>4, <1>0 DEF StartProgram, FunctionTypes, AppTasks, AnswerInv
<1>5. CASE NoMessage
  BY <1>5, <1>0 DEF NoMessage, StdinInv, GivenUp, AnswerInv
<1>6. CASE JoinReaders
  BY <1>6, <1>0 DEF JoinReaders, FunctionTypes, AppTasks, AnswerInv
<1>7. CASE RecordExit
  BY <1>7, <1>0 DEF RecordExit, FunctionTypes, AppTasks, AnswerInv
<1>8. CASE SendExit
  <2>1. runnerOut' # <<>> \/ main' = "failed"
    BY <1>8, NotEmpty DEF SendExit, SequenceTypes, RunnerOutType, RecordTypes
  <2> QED BY <1>8, <2>1, <1>0 DEF SendExit, AnswerInv
<1>9. CASE TakeResponse
  BY <1>9, <1>0 DEF TakeResponse, FunctionTypes, AppTasks, AnswerInv
<1>10. CASE WriteFrame
  <2>1. CASE tasks["stdout"] \in InProcess
    BY <1>10, <1>0, <2>1 DEF WriteFrame, AnswerInv
  <2>2. CASE tasks["stdout"] \notin InProcess
    <3>1. Cause'
      BY <1>10, <2>2 DEF WriteFrame, CauseInv
    <3> QED BY <1>10, <2>2, <3>1 DEF WriteFrame, AnswerInv
  <2> QED BY <2>1, <2>2
<1>11. CASE WriterEnds
  BY <1>11, <1>0 DEF WriterEnds, Handled, FunctionTypes, AppTasks, AnswerInv
<1>12. CASE DecodeFrame
  <2>1. tasks'["stdout"] = "failed" => Cause'
    BY DEF CauseInv, AppTasks
  <2>2. tasks'["stdout"] \in {"failed", "sending"}
    BY <1>12 DEF DecodeFrame, TaskEnds, FunctionTypes, AppTasks
  <2> QED BY <1>12, <1>0, <2>1, <2>2 DEF DecodeFrame, AnswerInv
<1>13. CASE SendDecoded
  <2>1. childOut' # <<>>
    BY <1>13, NotEmpty DEF SendDecoded, SequenceTypes, ChildOutType, RecordTypes
  <2> QED BY <1>13, <2>1, <1>0 DEF SendDecoded, AnswerInv, FunctionTypes, AppTasks
<1>14. CASE WriteMessage
  BY <1>14, <1>0 DEF WriteMessage, TaskEnds, FunctionTypes, AppTasks, AnswerInv
<1>15. CASE StdinTaskEnds
  BY <1>15, <1>0 DEF StdinTaskEnds, TaskEnds, FunctionTypes, AppTasks, AnswerInv
<1>16. CASE SendMessage
  BY <1>16, <1>0 DEF SendMessage, Returns, FunctionTypes, AppTasks, ReturnInv, AnswerInv
<1>17. CASE ReceiveResponse
  BY <1>17, <1>0 DEF ReceiveResponse, FunctionTypes, AppTasks, AnswerInv
<1>18. CASE HandOn
  BY <1>18, <1>0 DEF HandOn, Returns, FunctionTypes, AppTasks, ReturnInv, AnswerInv
<1>19. CASE OutputClosed
  BY <1>19, <1>0 DEF OutputClosed, FunctionTypes, AppTasks, AnswerInv
<1>20. CASE JoinTask
  BY <1>20, <1>0 DEF JoinTask, Returns, FunctionTypes, AppTasks, ReturnInv, AnswerInv
<1>21. CASE TasksJoined
  BY <1>21, <1>0 DEF TasksJoined, FunctionTypes, AppTasks, AnswerInv
<1>22. CASE WaitChild
  BY <1>22, <1>0 DEF WaitChild, Returns, FunctionTypes, AppTasks, ReturnInv, AnswerInv
<1>23. CASE Collect
  BY <1>23, <1>0 DEF Collect, FunctionTypes, AppTasks, AnswerInv
<1>24. CASE Collected
  BY <1>24, <1>0 DEF Collected, FunctionTypes, AppTasks, AnswerInv
<1>25. ASSUME NEW t \in {"stdout", "stderr"}, OutputTaskEnds(t) PROVE AnswerInv'
  BY <1>25, <1>0 DEF OutputTaskEnds, TaskEnds, FunctionTypes, AppTasks, AnswerInv
<1>26. CASE \/ \E s \in Streams : Write(s) \/ AppendOutput(s) \/ ReadOutput(s)
                  \/ OutputEnds(s)
            \/ ProgramEnds \/ ConsumerLeaves \/ RunnerEnds \/ ReadMessage \/ StdinEnds
  BY <1>26, <1>0 DEF Write, AppendOutput, ReadOutput, OutputEnds, ProgramEnds, ConsumerLeaves,
        RunnerEnds, ReadMessage, StdinEnds, ExitStatus, Handled, Appended, AnswerInv
<1> QED BY <1>1, <1>2, <1>3, <1>4, <1>5, <1>6, <1>7, <1>8, <1>9, <1>10, <1>11, <1>12,
        <1>13, <1>14, <1>15, <1>16, <1>17, <1>18, <1>19, <1>20, <1>21, <1>22, <1>23,
        <1>24, <1>25, <1>26
     DEF Next, Readers, Main, Writer, Stdin, Stdout, RunCode

LEMMA FailureStep ==
  FunctionTypes /\ SequenceTypes /\ StdinInv /\ ReturnInv /\ JoinInv /\ CauseInv /\
  WriterInv /\ AnswerInv /\ FailureHasCause /\ Next
  => FailureHasCause'
<1> SUFFICES ASSUME FunctionTypes /\ SequenceTypes /\ StdinInv /\ ReturnInv /\
                    JoinInv /\ CauseInv /\ WriterInv /\ AnswerInv /\
                    FailureHasCause, Next
             PROVE  FailureHasCause'
  OBVIOUS
<1>0. Cause => Cause'
  BY CauseStays
<1>1. CASE QueryDropped
  BY <1>1, <1>0 DEF QueryDropped, Returns, Cause, FailureHasCause
<1>2. CASE SendMessage
  <2>1. CASE tasks["stdin"] = "running"
    BY <1>2, <1>0, <2>1 DEF SendMessage, FailureHasCause
  <2>2. CASE tasks["stdin"] # "running"
    <3>1. tasks["stdin"] = "failed"
      BY <1>2, <2>2 DEF SendMessage, FunctionTypes, AppTasks, StdinInv, ReturnInv
    <3>2. Cause
      BY <3>1 DEF CauseInv, AppTasks
    <3> QED BY <1>2, <1>0, <3>2 DEF SendMessage, FailureHasCause
  <2> QED BY <2>1, <2>2
<1>3. CASE HandOn
  <2>1. CASE consumer
    BY <1>3, <1>0, <2>1 DEF HandOn, FailureHasCause
  <2>2. CASE ~consumer
    <3>1. Cause
      BY <2>2 DEF Cause
    <3> QED BY <1>3, <1>0, <3>1 DEF HandOn, FailureHasCause
  <2> QED BY <2>1, <2>2
<1>4. CASE JoinTask
  <2>1. CASE tasks[Head(joinable)] = "failed"
    <3>1. Cause
      BY <1>4, <2>1, FirstJoined DEF JoinTask, CauseInv, SequenceTypes
    <3> QED BY <1>0, <3>1 DEF FailureHasCause
  <2>2. CASE tasks[Head(joinable)] # "failed"
    BY <1>4, <1>0, <2>2 DEF JoinTask, FailureHasCause
  <2> QED BY <2>1, <2>2
<1>5. CASE WaitChild
  <2>1. CASE runner # "ok"
    <3>1. Cause
      BY <1>5, <2>1 DEF WaitChild, CauseInv
    <3> QED BY <1>0, <3>1 DEF FailureHasCause
  <2>2. CASE runner = "ok" /\ ~(plan.query /\ ~answered)
    BY <1>5, <2>2 DEF WaitChild, Returns, QueryOutcome, ExitOutcome, FailureHasCause
  <2>3. CASE runner = "ok" /\ plan.query /\ ~answered
    <3>1. main = "handled" /\ writer = "ok" /\ runnerOut = <<>>
      BY <2>3 DEF WriterInv
    <3>2. outcome = "none" /\ childOut = <<>> /\ tasks["stdout"] \notin InProcess
      BY <1>5 DEF WaitChild, ReturnInv, AnswerInv
    <3>3. tasks["stdout"] # "aborted"
      BY <1>5 DEF WaitChild, ReturnInv, AppTasks
    <3>4. tasks["stdout"] = "failed" \/ tasks["stdout"] = "ok"
      BY <3>2, <3>3 DEF FunctionTypes, AppTasks
    <3>5. tasks["stdout"] = "ok" => stdoutPipe = <<>>
      BY DEF AnswerInv
    <3>6. tasks["stdout"] = "failed" => Cause
      BY DEF CauseInv, AppTasks
    <3>7. Cause
      BY <2>3, <3>1, <3>2, <3>4, <3>5, <3>6 DEF AnswerInv
    <3> QED BY <1>0, <3>7 DEF FailureHasCause
  <2> QED BY <2>1, <2>2, <2>3
<1>6. CASE \/ \E s \in Streams : Write(s) \/ AppendOutput(s) \/ ReadOutput(s)
                 \/ OutputEnds(s) \/ SendOutput(s)
           \/ ProgramEnds \/ Kill \/ ConsumerLeaves
           \/ StartProgram \/ NoMessage \/ JoinReaders
           \/ RecordExit \/ SendExit \/ RunnerEnds
           \/ TakeResponse \/ WriteFrame \/ WriterEnds
           \/ ReadMessage \/ StdinEnds \/ DecodeFrame
           \/ SendDecoded \/ WriteMessage \/ StdinTaskEnds
           \/ ReceiveResponse \/ OutputClosed \/ TasksJoined \/ Collect \/ Collected
           \/ OutputTaskEnds("stdout") \/ OutputTaskEnds("stderr")
  BY <1>6, <1>0 DEF Write, AppendOutput, ReadOutput, OutputEnds, SendOutput, ProgramEnds,
        Kill, ConsumerLeaves, StartProgram, NoMessage, JoinReaders, RecordExit,
        SendExit, RunnerEnds, TakeResponse, WriteFrame, WriterEnds, ReadMessage,
        StdinEnds, DecodeFrame, SendDecoded, WriteMessage, StdinTaskEnds,
        ReceiveResponse, OutputClosed, TasksJoined, Collect, Collected, OutputTaskEnds,
        ExitStatus, Handled, FrameReady, TaskEnds, Appended, FailureHasCause
<1> QED BY <1>1, <1>2, <1>3, <1>4, <1>5, <1>6
     DEF Next, Readers, Main, Writer, Stdin, Stdout, RunCode

-----------------------------------------------------------------------------
(* The invariant                                                           *)

LEMMA InitInv == Init => EndsInv
<1> SUFFICES ASSUME Init PROVE EndsInv
  OBVIOUS
<1>1. TypeOK
  BY TypeInit
<1>2. MessageInv
  BY SandboxAssumption DEF Init, MessageInv, Taken
<1>3. StdinInv /\ ReturnInv /\ JoinInv
  BY DEF Init, StdinInv, GivenUp, ReturnInv, JoinInv, AppTasks
<1>4. OutputInv
  BY NothingTyped DEF Init, OutputInv, Within
<1>5. SentInv /\ CauseInv /\ WriterInv /\ AnswerInv /\ FailureHasCause
  BY DEF Init, SentInv, CauseInv, WriterInv, AnswerInv, FailureHasCause, AppTasks
<1> QED BY <1>1, <1>2, <1>3, <1>4, <1>5 DEF EndsInv

LEMMA NextInv == EndsInv /\ Next => EndsInv'
<1> SUFFICES ASSUME EndsInv, Next PROVE EndsInv'
  OBVIOUS
<1>1. /\ TypeOK /\ MessageInv /\ StdinInv /\ ReturnInv /\ JoinInv /\ OutputInv /\ SentInv
      /\ CauseInv /\ WriterInv /\ AnswerInv /\ FailureHasCause
  BY DEF EndsInv
<1>2. TypeOK'
  BY <1>1, TypeStep
<1>3. /\ ScalarTypes /\ RecordTypes /\ FunctionTypes /\ SequenceTypes
      /\ RunnerOutType /\ StdoutType
  BY <1>1, Types DEF SequenceTypes
<1>4. FunctionTypes'
  BY <1>1, <1>3, FunctionStep
<1>5. MessageInv' /\ StdinInv' /\ ReturnInv' /\ JoinInv'
  BY <1>1, <1>3, MessageStep, StdinStep, ReturnStep, JoinStep
<1>6. OutputInv' /\ SentInv'
  BY <1>1, <1>3, <1>4, OutputStep, SentStep
<1>7. CauseInv' /\ WriterInv'
  BY <1>1, <1>3, CauseStep, WriterStep
<1>8. AnswerInv' /\ FailureHasCause'
  BY <1>1, <1>3, <1>7, AnswerStep, FailureStep
<1> QED BY <1>2, <1>5, <1>6, <1>7, <1>8 DEF EndsInv

LEMMA StutterInv == EndsInv /\ UNCHANGED vars => EndsInv'
<1> SUFFICES ASSUME EndsInv, UNCHANGED vars PROVE EndsInv'
  OBVIOUS
<1>1. /\ TypeOK' /\ MessageInv' /\ StdinInv' /\ ReturnInv' /\ JoinInv'
  BY DEF EndsInv, vars, TypeOK, MessageInv, Taken, StdinInv, GivenUp, ReturnInv, JoinInv
<1>2. OutputInv' /\ SentInv' /\ CauseInv' /\ WriterInv'
  BY DEF EndsInv, vars, OutputInv, Within, SentInv, CauseInv, Cause, WriterInv, Handled
<1>3. AnswerInv' /\ FailureHasCause'
  BY DEF EndsInv, vars, AnswerInv, Cause, FailureHasCause
<1> QED BY <1>1, <1>2, <1>3 DEF EndsInv

\* The invariant holds in every behaviour, of any plans, limit and capacities.
THEOREM Invariance == Spec => []EndsInv
<1>1. EndsInv /\ [Next]_vars => EndsInv'
  BY NextInv, StutterInv
<1> QED BY InitInv, <1>1, PTL DEF Spec

\* The runner stops on its assertion (bin/runner.rs) only when a second message
\* came late or the application has given the run up.
THEOREM AssertionSafe == Spec => []AssertionHolds
<1>1. EndsInv => AssertionHolds
  BY DEF EndsInv, StdinInv, GivenUp, AssertionHolds, TypeOK
<1> QED BY Invariance, <1>1, PTL

\* What run_code and the query for a version report as failed has a cause: too
\* much output, a kill, a program that did not start, a receiver that left, or a
\* second message.
THEOREM FailuresHaveCause == Spec => []FailureHasCause
<1>1. EndsInv => FailureHasCause
  BY DEF EndsInv
<1> QED BY Invariance, <1>1, PTL

-----------------------------------------------------------------------------
(* The last response                                                       *)

\* A program that has ended has written what it writes.
LEMMA Frozen ==
  ASSUME ExitInv, Next, exit # "none"
  PROVE  UNCHANGED <<exit, written>> /\ Complete' = Complete
<1>1. program = "ended"
  BY DEF ExitInv
<1>2. UNCHANGED <<exit, written>>
  BY <1>1 DEF Next, Readers, Main, Writer, Stdin, Stdout, RunCode, Write, AppendOutput,
     Appended, ReadOutput, OutputEnds, SendOutput, ProgramEnds, Kill, ConsumerLeaves,
     QueryDropped, StartProgram, NoMessage, JoinReaders, RecordExit, SendExit, RunnerEnds,
     TakeResponse, WriteFrame, WriterEnds, ReadMessage, StdinEnds, DecodeFrame,
     SendDecoded, OutputTaskEnds, WriteMessage, StdinTaskEnds, SendMessage,
     ReceiveResponse, HandOn, OutputClosed, JoinTask, TasksJoined, WaitChild, Collect,
     Collected
<1> QED BY <1>2 DEF Complete

LEMMA ExitStep ==
  ScalarTypes /\ FunctionTypes /\ RecordTypes /\ WriterInv /\ Accounted /\ ExitInv /\
  Next
  => ExitInv'
<1> SUFFICES ASSUME ScalarTypes /\ FunctionTypes /\ RecordTypes /\ WriterInv /\
                    Accounted /\ ExitInv, Next
             PROVE  ExitInv'
  OBVIOUS
<1>1. ASSUME NEW s \in Streams, Write(s) PROVE ExitInv'
  <2>1. /\ program = "running" /\ reader[s] \notin {"done", "failed"}
        /\ unread' = [unread EXCEPT ![s] = @ + 1]
        /\ UNCHANGED <<program, exit, reader, main, response, writer>>
    BY <1>1 DEF Write
  <2>2. main \notin {"waiting", "sending"} /\ \A q \in Streams : reader[q] # "done"
    BY <2>1 DEF ExitInv
  <2> QED BY <2>1, <2>2 DEF ExitInv
<1>2. ASSUME NEW s \in Streams, AppendOutput(s) PROVE ExitInv'
  <2>1. \A q \in Streams : /\ reader'[q] = "done" <=> reader[q] = "done"
                           /\ reader'[q] = "failed" <=> reader[q] = "failed"
    BY <1>2 DEF AppendOutput, Appended, FunctionTypes
  <2>2. reader[s] = "locking" /\ response'.exit = response.exit
    BY <1>2 DEF AppendOutput, Appended, RecordTypes, Responses, Streams
  <2>3. main \notin {"waiting", "sending"}
    BY <2>2 DEF ExitInv
  <2>4. UNCHANGED <<program, exit, unread, main, writer, written>>
    BY <1>2 DEF AppendOutput, Appended
  <2> QED BY <2>1, <2>2, <2>3, <2>4 DEF ExitInv
<1>3. ASSUME NEW s \in Streams, ReadOutput(s) PROVE ExitInv'
  <2>1. PICK n \in 1..unread[s] : unread' = [unread EXCEPT ![s] = @ - n]
    BY <1>3, OutputRead
  <2>2. /\ reader[s] = "reading" /\ reader' = [reader EXCEPT ![s] = "locking"]
        /\ UNCHANGED <<program, exit, main, response, writer, written>>
    BY <1>3 DEF ReadOutput
  <2>3. main \notin {"waiting", "sending"}
    BY <2>2 DEF ExitInv
  <2>4. Complete' = Complete
    BY <2>2 DEF Complete
  <2> QED BY <2>1, <2>2, <2>3, <2>4 DEF ExitInv, FunctionTypes
<1>4. ASSUME NEW s \in Streams, OutputEnds(s) PROVE ExitInv'
  <2>1. /\ reader[s] \in {"reading", "sending"}
        /\ UNCHANGED <<main, unread, written, exit, response, writer, program>>
        /\ \A q \in Streams : q # s => reader'[q] = reader[q]
        /\ \/ reader'[s] = "done" /\ program = "ended" /\ unread[s] = 0
           \/ reader'[s] = "reading"
           \/ reader'[s] = "failed" /\ writer = "failed"
    BY <1>4 DEF OutputEnds, FunctionTypes
  <2>2. main \notin {"waiting", "sending"}
    BY <2>1 DEF ExitInv
  <2> QED BY <2>1, <2>2 DEF ExitInv
<1>5. ASSUME NEW s \in Streams, SendOutput(s) PROVE ExitInv'
  <2>1. /\ reader[s] \in {"reading", "sending"}
        /\ UNCHANGED <<main, unread, written, exit, response, writer, program>>
        /\ \A q \in Streams : q # s => reader'[q] = reader[q]
        /\ \/ reader'[s] = "done" /\ program = "ended" /\ unread[s] = 0
           \/ reader'[s] = "reading"
           \/ reader'[s] = "failed" /\ writer = "failed"
    BY <1>5 DEF SendOutput, FunctionTypes
  <2>2. main \notin {"waiting", "sending"}
    BY <2>1 DEF ExitInv
  <2> QED BY <2>1, <2>2 DEF ExitInv
<1>6. CASE ProgramEnds
  BY <1>6 DEF ProgramEnds, Complete, ExitInv
<1>7. CASE Kill
  BY <1>7 DEF Kill, Complete, ExitInv
<1>8. CASE StartProgram
  <2>1. /\ main = "listening" /\ main' \in {"running", "failed"}
        /\ UNCHANGED <<exit, unread, written, response, writer>>
        /\ \/ program' = "running" /\ reader' = [q \in Streams |-> "reading"]
           \/ UNCHANGED <<program, reader>>
    BY <1>8 DEF StartProgram
  <2>2. exit = "none" /\ program # "ended"
    BY <2>1 DEF ExitInv
  <2> QED BY <2>1, <2>2 DEF ExitInv
<1>9. CASE NoMessage
  BY <1>9 DEF NoMessage, Complete, ExitInv
<1>10. CASE JoinReaders
  BY <1>10 DEF JoinReaders, Complete, ExitInv
<1>11. CASE RecordExit
  <2>1. /\ main = "waiting" /\ main' = "sending" /\ program = "ended"
        /\ response' = [response EXCEPT !.exit = exit = "code"]
        /\ UNCHANGED <<program, exit, written, unread, reader, hand, writer>>
    BY <1>11 DEF RecordExit
  <2>2. ASSUME writer # "failed" PROVE response' = Complete
    <3>1. \A q \in Streams : reader[q] = "done" /\ unread[q] = 0
      BY <2>1, <2>2 DEF ExitInv
    <3>2. \A q \in Streams : response[q] + unread[q] + 0 = written[q]
      BY <3>1 DEF Accounted
    <3>3. response["out"] = written["out"] /\ response["err"] = written["err"]
      BY <3>1, <3>2 DEF FunctionTypes, RecordTypes, Responses, Streams
    <3> QED BY <2>1, <3>3 DEF Complete, RecordTypes, Responses
  <2>3. exit # "none"
    BY <2>1 DEF ExitInv
  <2>4. Complete' = Complete
    BY <2>1 DEF Complete
  <2> QED BY <2>1, <2>2, <2>3, <2>4 DEF ExitInv
<1>12. CASE SendExit
  BY <1>12 DEF SendExit, Complete, ExitInv
<1>13. CASE TakeResponse
  BY <1>13 DEF TakeResponse, Complete, ExitInv
<1>14. CASE WriteFrame
  BY <1>14 DEF WriteFrame, Complete, ExitInv
<1>15. CASE WriterEnds
  BY <1>15 DEF WriterEnds, Handled, Complete, ExitInv
<1>16. CASE \/ ConsumerLeaves \/ QueryDropped \/ RunnerEnds
            \/ ReadMessage \/ StdinEnds \/ DecodeFrame
            \/ SendDecoded \/ WriteMessage \/ StdinTaskEnds
            \/ SendMessage \/ ReceiveResponse \/ HandOn
            \/ OutputClosed \/ JoinTask \/ TasksJoined \/ WaitChild \/ Collect \/ Collected
            \/ OutputTaskEnds("stdout") \/ OutputTaskEnds("stderr")
  BY <1>16 DEF ConsumerLeaves, QueryDropped, RunnerEnds, ReadMessage, StdinEnds,
        DecodeFrame, SendDecoded, WriteMessage, StdinTaskEnds, SendMessage,
        ReceiveResponse, HandOn, OutputClosed, JoinTask, TasksJoined, WaitChild,
        Collect, Collected, OutputTaskEnds, ExitStatus, Returns, FrameReady, TaskEnds,
        Handled, ExitInv, Complete
<1> QED BY <1>1, <1>2, <1>3, <1>4, <1>5, <1>6, <1>7, <1>8, <1>9, <1>10, <1>11, <1>12,
        <1>13, <1>14, <1>15, <1>16
     DEF Next, Readers, Main, Writer, Stdin, Stdout, RunCode

LEMMA LockStep == FunctionTypes /\ RecordTypes /\ LockInv /\ Next => LockInv'
<1> SUFFICES ASSUME FunctionTypes /\ RecordTypes /\ LockInv, Next PROVE LockInv'
  OBVIOUS
<1>1. ASSUME NEW s \in Streams, AppendOutput(s) PROVE LockInv'
  <2>1. /\ lock = "free" /\ lock' = s /\ UNCHANGED main
        /\ response' = [response EXCEPT ![s] = @ + hand[s][s]]
        /\ hand' = [hand EXCEPT ![s] = response']
        /\ reader' = [reader EXCEPT ![s] = "sending"]
    BY <1>1 DEF AppendOutput, Appended
  <2>2. main # "sending" /\ \A q \in Streams : reader[q] # "sending"
    BY <2>1 DEF LockInv, Streams
  <2> QED BY <2>1, <2>2 DEF LockInv, FunctionTypes
<1>2. ASSUME NEW s \in Streams, ReadOutput(s) PROVE LockInv'
  <2>1. /\ reader'[s] # "sending" /\ UNCHANGED <<main, response, lock>>
        /\ \A q \in Streams : q # s => reader'[q] = reader[q] /\ hand'[q] = hand[q]
    BY <1>2 DEF ReadOutput, FunctionTypes
  <2> QED BY <2>1 DEF LockInv
<1>3. ASSUME NEW s \in Streams, OutputEnds(s) PROVE LockInv'
  <2>1. /\ reader'[s] # "sending" /\ UNCHANGED <<main, response, lock>>
        /\ \A q \in Streams : q # s => reader'[q] = reader[q] /\ hand'[q] = hand[q]
    BY <1>3 DEF OutputEnds, FunctionTypes
  <2> QED BY <2>1 DEF LockInv
<1>4. ASSUME NEW s \in Streams, SendOutput(s) PROVE LockInv'
  <2>1. /\ reader[s] = "sending" /\ reader'[s] # "sending" /\ UNCHANGED <<main, response>>
        /\ \A q \in Streams : q # s => reader'[q] = reader[q] /\ hand'[q] = hand[q]
    BY <1>4 DEF SendOutput, FunctionTypes
  <2>2. lock = s /\ \A q \in Streams : q # s => reader[q] # "sending"
    BY <2>1 DEF LockInv, Streams
  <2>3. main # "sending"
    BY <2>2 DEF LockInv, Streams
  <2> QED BY <2>1, <2>2, <2>3 DEF LockInv
<1>5. CASE StartProgram
  <2>1. /\ main' # "sending" /\ UNCHANGED <<hand, lock, response>>
        /\ reader' = [q \in Streams |-> "reading"] \/ UNCHANGED reader
    BY <1>5 DEF StartProgram
  <2> QED BY <2>1 DEF LockInv
<1>6. CASE NoMessage
  BY <1>6 DEF NoMessage, LockInv
<1>7. CASE JoinReaders
  BY <1>7 DEF JoinReaders, LockInv
<1>8. CASE RecordExit
  <2>1. lock = "free" /\ lock' = "main" /\ UNCHANGED <<reader, hand>>
    BY <1>8 DEF RecordExit
  <2>2. \A q \in Streams : reader[q] # "sending"
    BY <2>1 DEF LockInv, Streams
  <2> QED BY <2>1, <2>2 DEF LockInv
<1>9. CASE SendExit
  <2>1. lock = "main" /\ main' # "sending" /\ UNCHANGED <<reader, hand, response>>
    BY <1>9 DEF SendExit, LockInv
  <2>2. \A q \in Streams : reader[q] # "sending"
    BY <2>1 DEF LockInv, Streams
  <2> QED BY <2>1, <2>2 DEF LockInv
<1>10. CASE \/ \E s \in Streams : Write(s)
            \/ ProgramEnds \/ Kill \/ ConsumerLeaves
            \/ QueryDropped \/ RunnerEnds \/ TakeResponse
            \/ WriteFrame \/ WriterEnds \/ ReadMessage
            \/ StdinEnds \/ DecodeFrame \/ SendDecoded
            \/ WriteMessage \/ StdinTaskEnds \/ SendMessage
            \/ ReceiveResponse \/ HandOn \/ OutputClosed
            \/ JoinTask \/ TasksJoined \/ WaitChild \/ Collect \/ Collected
            \/ OutputTaskEnds("stdout") \/ OutputTaskEnds("stderr")
  BY <1>10 DEF Write, ProgramEnds, Kill, ConsumerLeaves, QueryDropped, RunnerEnds,
        TakeResponse, WriteFrame, WriterEnds, ReadMessage, StdinEnds, DecodeFrame,
        SendDecoded, WriteMessage, StdinTaskEnds, SendMessage, ReceiveResponse, HandOn,
        OutputClosed, JoinTask, TasksJoined, WaitChild, Collect, Collected,
        OutputTaskEnds, ExitStatus, Returns, FrameReady, TaskEnds, Handled, LockInv
<1> QED BY <1>1, <1>2, <1>3, <1>4, <1>5, <1>6, <1>7, <1>8, <1>9, <1>10
     DEF Next, Readers, Main, Writer, Stdin, Stdout, RunCode

\* What FailedInv says of a run: a failed task is among those to be joined.
InLine(t) == \E i \in 1..Len(joinable) : joinable[i] = t

FoundInv == ~plan.query /\ outcome = "none" =>
              \A t \in AppTasks : /\ app = "waiting" => tasks[t] = "ok"
                                  /\ tasks[t] = "failed" => InLine(t)

\* What it says of a query.
CutInv ==
  /\ \A s \in Streams : written[s] <= plan[s]
  /\ app = "collecting" => plan.query
  /\ plan.query /\ tasks["stdout"] = "failed" => runner = "killed"

LEMMA FailedParts == FailedInv <=> CutInv /\ FoundInv
  BY DEF FailedInv, CutInv, FoundInv, InLine

\* Tasks that have been waiting to be joined still are when one more does.
LEMMA EndedFound ==
  ASSUME FunctionTypes, JoinableType, FoundInv, UNCHANGED <<plan, outcome, app>>,
         NEW t \in AppTasks, tasks[t] = "running", NEW how \in {"ok", "failed"},
         TaskEnds(t, how)
  PROVE  FoundInv'
<1>1. SUFFICES ASSUME ~plan.query, outcome = "none", NEW u \in AppTasks
               PROVE  /\ app = "waiting" => tasks'[u] = "ok"
                      /\ tasks'[u] = "failed" => InLine(u)'
  BY DEF FoundInv
<1>2. tasks' = [tasks EXCEPT ![t] = how] /\ joinable' = Append(joinable, t)
  BY DEF TaskEnds
<1>3. /\ Len(joinable') = Len(joinable) + 1 /\ Len(joinable) \in Nat
      /\ joinable'[Len(joinable) + 1] = t
      /\ \A i \in 1..Len(joinable) : joinable'[i] = joinable[i]
  BY <1>2 DEF JoinableType
<1>4. app # "waiting"
  BY <1>1 DEF FoundInv
<1>5. CASE u = t
  <2>1. Len(joinable) + 1 \in 1..Len(joinable')
    BY <1>3
  <2> QED BY <1>3, <1>4, <1>5, <2>1 DEF InLine
<1>6. CASE u # t
  <2>1. tasks'[u] = tasks[u]
    BY <1>2, <1>6 DEF FunctionTypes
  <2>2. ASSUME NEW i \in 1..Len(joinable), joinable[i] = u PROVE InLine(u)'
    <3>1. i \in 1..Len(joinable') /\ joinable'[i] = u
      BY <1>3, <2>2
    <3> QED BY <3>1 DEF InLine
  <2> QED BY <1>1, <1>4, <2>1, <2>2 DEF FoundInv, InLine
<1> QED BY <1>5, <1>6

\* Nothing fails and none is joined.
LEMMA StillFound ==
  ASSUME FoundInv, UNCHANGED <<plan, joinable>>, outcome' = "none" => outcome = "none",
         app' = "waiting" => app = "waiting" \/ plan.query,
         \A u \in AppTasks : /\ tasks'[u] = "failed" => tasks[u] = "failed"
                             /\ tasks[u] = "ok" => tasks'[u] = "ok"
  PROVE  FoundInv'
  BY DEF FoundInv, InLine

LEMMA FoundStep ==
  FunctionTypes /\ SequenceTypes /\ ReturnInv /\ CutInv /\ FoundInv /\ Next
  => FoundInv'
<1> SUFFICES ASSUME FunctionTypes /\ SequenceTypes /\ ReturnInv /\ CutInv /\
                    FoundInv, Next
             PROVE  FoundInv'
  OBVIOUS
<1>1. CASE QueryDropped
  <2>1. \/ outcome' # "none"
        \/ app' # "waiting" /\ UNCHANGED <<plan, outcome, tasks, joinable>>
    BY <1>1 DEF QueryDropped, Returns
  <2> QED BY <2>1, StillFound DEF FoundInv
<1>2. CASE DecodeFrame
  <2>1. tasks["stdout"] = "running" /\ UNCHANGED <<plan, outcome, app>>
    BY <1>2 DEF DecodeFrame
  <2>2. CASE TaskEnds("stdout", "failed")
    BY <2>1, <2>2, EndedFound DEF AppTasks, SequenceTypes
  <2>3. CASE tasks' = [tasks EXCEPT !["stdout"] = "sending"] /\ UNCHANGED joinable
    BY <2>1, <2>3, StillFound DEF FunctionTypes
  <2> QED BY <1>2, <2>2, <2>3 DEF DecodeFrame
<1>3. CASE SendDecoded
  <2>1. /\ UNCHANGED <<plan, outcome, app, joinable>>
        /\ \A u \in AppTasks : /\ tasks'[u] = "failed" => tasks[u] = "failed"
                               /\ tasks[u] = "ok" => tasks'[u] = "ok"
    BY <1>3 DEF SendDecoded, FunctionTypes
  <2> QED BY <2>1, StillFound
<1>4. CASE WriteMessage
  <2>1. /\ \/ \E how \in {"ok", "failed"} : TaskEnds("stdin", how)
           \/ UNCHANGED <<tasks, joinable>>
        /\ tasks["stdin"] = "running" /\ UNCHANGED <<plan, outcome, app>>
    BY <1>4 DEF WriteMessage
  <2> QED BY <2>1, EndedFound, StillFound DEF AppTasks, SequenceTypes
<1>5. CASE StdinTaskEnds
  <2>1. /\ \/ \E how \in {"ok", "failed"} : TaskEnds("stdin", how)
           \/ UNCHANGED <<tasks, joinable>>
        /\ tasks["stdin"] = "running" /\ UNCHANGED <<plan, outcome, app>>
    BY <1>5 DEF StdinTaskEnds
  <2> QED BY <2>1, EndedFound, StillFound DEF AppTasks, SequenceTypes
<1>6. CASE SendMessage
  <2>1. \/ outcome' # "none"
        \/ app' # "waiting" /\ UNCHANGED <<plan, outcome, tasks, joinable>>
    BY <1>6 DEF SendMessage, Returns
  <2> QED BY <2>1, StillFound DEF FoundInv
<1>7. CASE ReceiveResponse
  <2>1. UNCHANGED <<plan, outcome, tasks, joinable>> /\ (app' # "waiting" \/ plan.query)
    BY <1>7 DEF ReceiveResponse
  <2> QED BY <2>1, StillFound
<1>8. CASE HandOn
  <2>1. \/ outcome' # "none"
        \/ app' # "waiting" /\ UNCHANGED <<plan, outcome, tasks, joinable>>
    BY <1>8 DEF HandOn, Returns
  <2> QED BY <2>1, StillFound DEF FoundInv
<1>9. CASE OutputClosed
  <2>1. UNCHANGED <<plan, outcome, tasks, joinable>> /\ (app' # "waiting" \/ plan.query)
    BY <1>9 DEF OutputClosed
  <2> QED BY <2>1, StillFound
<1>10. CASE JoinTask
  <2>1. CASE outcome' # "none"
    BY <2>1 DEF FoundInv
  <2>2. CASE /\ joinable # <<>> /\ tasks[Head(joinable)] # "failed"
             /\ joinable' = Tail(joinable) /\ app' = "joining"
             /\ UNCHANGED <<plan, outcome, tasks>>
    <3>1. SUFFICES ASSUME ~plan.query, outcome = "none", NEW u \in AppTasks,
                          tasks[u] = "failed"
                   PROVE  InLine(u)'
      BY <2>2 DEF FoundInv
    <3>2. PICK i \in 1..Len(joinable) : joinable[i] = u
      BY <3>1 DEF FoundInv, InLine
    <3>3. i # 1 /\ Len(joinable) \in Nat
      BY <2>2, <3>1, <3>2, First DEF SequenceTypes, JoinableType
    <3>4. i - 1 \in 1..Len(joinable') /\ joinable'[i - 1] = joinable[i]
      BY <2>2, <3>2, <3>3 DEF SequenceTypes, JoinableType
    <3> QED BY <3>2, <3>4 DEF InLine
  <2>3. \/ outcome' # "none"
        \/ /\ joinable # <<>> /\ tasks[Head(joinable)] # "failed"
           /\ joinable' = Tail(joinable) /\ app' = "joining"
           /\ UNCHANGED <<plan, outcome, tasks>>
    BY <1>10 DEF JoinTask, Returns
  <2> QED BY <2>1, <2>2, <2>3
<1>11. CASE TasksJoined
  <2>1. /\ app = "joining" /\ joinable = <<>>
        /\ \A u \in AppTasks : tasks[u] \notin InProcess
        /\ UNCHANGED <<plan, outcome, tasks, joinable>>
    BY <1>11 DEF TasksJoined
  <2>2. \A u \in AppTasks : tasks[u] # "aborted"
    BY <2>1 DEF ReturnInv
  <2>3. \A u \in AppTasks : ~InLine(u)
    BY <2>1 DEF InLine
  <2>4. \A u \in AppTasks : tasks[u] \in {"ok", "failed"}
    BY <2>1, <2>2 DEF FunctionTypes
  <2> QED BY <2>1, <2>3, <2>4 DEF FoundInv
<1>12. CASE WaitChild
  <2>1. \/ outcome' # "none"
        \/ app' # "waiting" /\ UNCHANGED <<plan, outcome, tasks, joinable>>
    BY <1>12 DEF WaitChild, Returns, QueryOutcome, ExitOutcome
  <2> QED BY <2>1, StillFound DEF FoundInv
<1>13. CASE Collected
  <2>1. UNCHANGED <<plan, outcome, tasks, joinable>> /\ (app' # "waiting" \/ plan.query)
    BY <1>13 DEF Collected, CutInv
  <2> QED BY <2>1, StillFound
<1>14. ASSUME NEW t \in {"stdout", "stderr"}, OutputTaskEnds(t) PROVE FoundInv'
  <2>1. /\ \/ \E how \in {"ok", "failed"} : TaskEnds(t, how)
           \/ UNCHANGED <<tasks, joinable>>
        /\ tasks[t] = "running" /\ UNCHANGED <<plan, outcome, app>>
    BY <1>14 DEF OutputTaskEnds
  <2> QED BY <2>1, EndedFound, StillFound DEF AppTasks, SequenceTypes
<1>15. CASE \/ \E s \in Streams : Write(s) \/ AppendOutput(s) \/ ReadOutput(s)
                  \/ OutputEnds(s) \/ SendOutput(s)
            \/ ProgramEnds \/ Kill \/ ConsumerLeaves
            \/ StartProgram \/ NoMessage \/ JoinReaders
            \/ RecordExit \/ SendExit \/ RunnerEnds
            \/ TakeResponse \/ WriteFrame \/ WriterEnds
            \/ ReadMessage \/ StdinEnds \/ Collect
  BY <1>15 DEF Write, AppendOutput, ReadOutput, OutputEnds, SendOutput, ProgramEnds,
        Kill, ConsumerLeaves, StartProgram, NoMessage, JoinReaders, RecordExit,
        SendExit, RunnerEnds, TakeResponse, WriteFrame, WriterEnds, ReadMessage,
        StdinEnds, Collect, ExitStatus, Handled, Appended, FoundInv, InLine
<1> QED BY <1>1, <1>2, <1>3, <1>4, <1>5, <1>6, <1>7, <1>8, <1>9, <1>10, <1>11, <1>12,
        <1>13, <1>14, <1>15
     DEF Next, Readers, Main, Writer, Stdin, Stdout, RunCode

LEMMA CutStep ==
  ScalarTypes /\ FunctionTypes /\ SequenceTypes /\ SentInv /\ CutInv /\ Next
  => CutInv'
<1> SUFFICES ASSUME ScalarTypes /\ FunctionTypes /\ SequenceTypes /\ SentInv /\
                    CutInv, Next
             PROVE  CutInv'
  OBVIOUS
<1>1. ASSUME NEW s \in Streams, Write(s) PROVE CutInv'
  <2>1. /\ written[s] < plan[s]
        /\ written' = [written EXCEPT ![s] = @ + 1]
        /\ UNCHANGED <<plan, app, tasks, runner>>
    BY <1>1 DEF Write
  <2>2. plan[s] \in Nat /\ written[s] \in Nat
    BY SandboxAssumption DEF ScalarTypes, FunctionTypes, Streams
  <2> QED BY <2>1, <2>2 DEF CutInv, FunctionTypes
<1>2. CASE Kill
  <2>1. UNCHANGED <<plan, written, app, tasks>> /\ (runner' = "killed" \/ runner # "killed")
    BY <1>2 DEF Kill
  <2> QED BY <2>1 DEF CutInv
<1>3. CASE QueryDropped
  <2>1. /\ UNCHANGED <<plan, written, runner>>
        /\ tasks'["stdout"] = "failed" => tasks["stdout"] = "failed"
        /\ app' # "collecting" \/ UNCHANGED app \/ plan.query
    BY <1>3 DEF QueryDropped, Returns, FunctionTypes, AppTasks
  <2> QED BY <2>1 DEF CutInv
<1>4. CASE RunnerEnds
  <2>1. UNCHANGED <<plan, written, app, tasks>> /\ (runner' = "killed" \/ runner # "killed")
    BY <1>4 DEF RunnerEnds
  <2> QED BY <2>1 DEF CutInv
<1>5. CASE DecodeFrame
  <2>1. UNCHANGED <<plan, app, written, runner>>
    BY <1>5 DEF DecodeFrame
  <2>2. ASSUME plan.query, tasks'["stdout"] = "failed" PROVE runner = "killed"
    <3>1. /\ Head(stdoutPipe) = Cut \/ TooLarge(Head(stdoutPipe))
          /\ stdoutPipe # <<>>
      BY <1>5, <2>2 DEF DecodeFrame, FrameReady, FunctionTypes, AppTasks
    <3>2. /\ Head(stdoutPipe) = stdoutPipe[1]
          /\ 1 \in 1..Len(stdoutPipe)
          /\ Head(stdoutPipe) \in Responses \cup {Cut}
      BY <3>1, First DEF SequenceTypes, StdoutType
    <3>3. CASE Head(stdoutPipe) = Cut
      BY <3>2, <3>3 DEF SentInv
    <3>4. CASE Head(stdoutPipe) # Cut
      <4>1. PICK q \in Streams : Head(stdoutPipe)[q] > Limit
        BY <3>1, <3>4 DEF TooLarge
      <4>2. Head(stdoutPipe)[q] <= written[q] /\ written[q] <= plan[q]
        BY <3>2, <3>4 DEF SentInv, Within, CutInv
      <4>3. plan[q] <= Limit /\ plan[q] \in Nat /\ Limit \in Nat
        BY <2>2, SandboxAssumption DEF ScalarTypes, Streams
      <4>4. Head(stdoutPipe)[q] \in Nat /\ written[q] \in Nat
        BY <3>2, <3>4, Amount DEF FunctionTypes
      <4> QED BY <4>1, <4>2, <4>3, <4>4
    <3> QED BY <3>3, <3>4
  <2> QED BY <2>1, <2>2 DEF CutInv
<1>6. CASE SendDecoded
  <2>1. /\ UNCHANGED <<plan, written, runner>>
        /\ tasks'["stdout"] = "failed" => tasks["stdout"] = "failed"
        /\ app' # "collecting" \/ UNCHANGED app \/ plan.query
    BY <1>6 DEF SendDecoded, FunctionTypes, AppTasks
  <2> QED BY <2>1 DEF CutInv
<1>7. CASE WriteMessage
  <2>1. /\ UNCHANGED <<plan, written, runner>>
        /\ tasks'["stdout"] = "failed" => tasks["stdout"] = "failed"
        /\ app' # "collecting" \/ UNCHANGED app \/ plan.query
    BY <1>7 DEF WriteMessage, TaskEnds, FunctionTypes, AppTasks
  <2> QED BY <2>1 DEF CutInv
<1>8. CASE StdinTaskEnds
  <2>1. /\ UNCHANGED <<plan, written, runner>>
        /\ tasks'["stdout"] = "failed" => tasks["stdout"] = "failed"
        /\ app' # "collecting" \/ UNCHANGED app \/ plan.query
    BY <1>8 DEF StdinTaskEnds, TaskEnds, FunctionTypes, AppTasks
  <2> QED BY <2>1 DEF CutInv
<1>9. CASE SendMessage
  <2>1. /\ UNCHANGED <<plan, written, runner>>
        /\ tasks'["stdout"] = "failed" => tasks["stdout"] = "failed"
        /\ app' # "collecting" \/ UNCHANGED app \/ plan.query
    BY <1>9 DEF SendMessage, Returns, FunctionTypes, AppTasks
  <2> QED BY <2>1 DEF CutInv
<1>10. CASE ReceiveResponse
  BY <1>10 DEF ReceiveResponse, CutInv
<1>11. CASE HandOn
  <2>1. /\ UNCHANGED <<plan, written, runner>>
        /\ tasks'["stdout"] = "failed" => tasks["stdout"] = "failed"
        /\ app' # "collecting" \/ UNCHANGED app \/ plan.query
    BY <1>11 DEF HandOn, Returns, FunctionTypes, AppTasks
  <2> QED BY <2>1 DEF CutInv
<1>12. CASE OutputClosed
  BY <1>12 DEF OutputClosed, CutInv
<1>13. CASE JoinTask
  <2>1. /\ UNCHANGED <<plan, written, runner>>
        /\ tasks'["stdout"] = "failed" => tasks["stdout"] = "failed"
        /\ app' # "collecting" \/ UNCHANGED app \/ plan.query
    BY <1>13 DEF JoinTask, Returns, FunctionTypes, AppTasks
  <2> QED BY <2>1 DEF CutInv
<1>14. CASE TasksJoined
  BY <1>14 DEF TasksJoined, CutInv
<1>15. CASE WaitChild
  <2>1. /\ UNCHANGED <<plan, written, runner>>
        /\ tasks'["stdout"] = "failed" => tasks["stdout"] = "failed"
        /\ app' # "collecting" \/ UNCHANGED app \/ plan.query
    BY <1>15 DEF WaitChild, Returns, FunctionTypes, AppTasks
  <2> QED BY <2>1 DEF CutInv
<1>16. CASE Collected
  BY <1>16 DEF Collected, CutInv
<1>17. ASSUME NEW t \in {"stdout", "stderr"}, OutputTaskEnds(t) PROVE CutInv'
  <2>1. /\ UNCHANGED <<plan, written, runner>>
        /\ tasks'["stdout"] = "failed" => tasks["stdout"] = "failed"
        /\ app' # "collecting" \/ UNCHANGED app \/ plan.query
    BY <1>17 DEF OutputTaskEnds, TaskEnds, FunctionTypes, AppTasks
  <2> QED BY <2>1 DEF CutInv
<1>18. CASE \/ \E s \in Streams : AppendOutput(s) \/ ReadOutput(s) \/ OutputEnds(s)
                  \/ SendOutput(s)
            \/ ProgramEnds \/ ConsumerLeaves \/ StartProgram
            \/ NoMessage \/ JoinReaders \/ RecordExit
            \/ SendExit \/ TakeResponse \/ WriteFrame
            \/ WriterEnds \/ ReadMessage \/ StdinEnds
            \/ Collect
  BY <1>18 DEF AppendOutput, ReadOutput, OutputEnds, SendOutput, ProgramEnds,
        ConsumerLeaves, StartProgram, NoMessage, JoinReaders, RecordExit, SendExit,
        TakeResponse, WriteFrame, WriterEnds, ReadMessage, StdinEnds, Collect, Handled,
        Appended, CutInv
<1> QED BY <1>1, <1>2, <1>3, <1>4, <1>5, <1>6, <1>7, <1>8, <1>9, <1>10, <1>11, <1>12,
        <1>13, <1>14, <1>15, <1>16, <1>17, <1>18
     DEF Next, Readers, Main, Writer, Stdin, Stdout, RunCode

-----------------------------------------------------------------------------
(* Sequences                                                               *)

\* Nothing on either side.
LEMMA WithNothing ==
  ASSUME NEW R, NEW a \in Seq(R)
  PROVE  <<>> \o a = a /\ a \o <<>> = a
  BY ConcatEmptySeq

\* An element goes from the end of one sequence to the front of what follows.
LEMMA MovesOn ==
  ASSUME NEW R, NEW a \in Seq(R), NEW b \in Seq(R), NEW e \in R
  PROVE  Append(a, e) \o b = a \o (<<e>> \o b)
<1>1. <<e>> \in Seq(R)
  BY Single
<1>2. Append(a, e) = a \o <<e>>
  BY AppendIsConcat
<1> QED BY <1>1, <1>2, ConcatAssociative

\* The first element, and the others.
LEMMA FirstAndRest ==
  ASSUME NEW R, NEW a \in Seq(R), a # <<>>
  PROVE  <<Head(a)>> \o Tail(a) = a
<1>1. Head(a) \in R /\ Tail(a) \in Seq(R)
  BY First, Rest
<1>2. <<Head(a)>> \in Seq(R)
  BY <1>1, Single
<1>3. /\ Len(<<Head(a)>> \o Tail(a)) = Len(a)
      /\ \A i \in 1..Len(a) : (<<Head(a)>> \o Tail(a))[i] = a[i]
  BY <1>1
<1>4. <<Head(a)>> \o Tail(a) \in Seq(R)
  BY <1>1, <1>2, ConcatProperties
<1> QED BY <1>3, <1>4, SeqEqual

LEMMA RestOfFirst ==
  ASSUME NEW R, NEW a \in Seq(R), NEW e \in R
  PROVE  /\ Tail(<<e>> \o a) = a
         /\ Len(<<e>> \o a) = Len(a) + 1 /\ Len(a) \in Nat
         /\ (<<e>> \o a)[1] = e
         /\ \A i \in 1..Len(a) : (<<e>> \o a)[i + 1] = a[i]
<1>1. /\ <<e>> \in Seq(R) /\ Len(<<e>>) = 1 /\ <<e>>[1] = e /\ Len(a) \in Nat
  BY Single
<1>2. /\ <<e>> \o a \in Seq(R) /\ Len(<<e>> \o a) = Len(a) + 1
      /\ (<<e>> \o a)[1] = e
      /\ \A i \in 1..Len(a) : (<<e>> \o a)[i + 1] = a[i]
  BY <1>1
<1>3. Tail(<<e>> \o a) \in Seq(R) /\ Len(Tail(<<e>> \o a)) = Len(a)
      /\ \A i \in 1..Len(a) : Tail(<<e>> \o a)[i] = a[i]
  BY <1>1, <1>2
<1> QED BY <1>1, <1>2, <1>3, SeqEqual

\* What is appended behind is appended to the whole.
LEMMA AtTheEnd ==
  ASSUME NEW R, NEW a \in Seq(R), NEW b \in Seq(R), NEW e \in R
  PROVE  a \o Append(b, e) = Append(a \o b, e)
<1>1. <<e>> \in Seq(R) /\ a \o b \in Seq(R)
  BY Single, ConcatProperties
<1>2. Append(b, e) = b \o <<e>> /\ Append(a \o b, e) = (a \o b) \o <<e>>
  BY <1>1, AppendIsConcat
<1> QED BY <1>1, <1>2, ConcatAssociative

\* A sequence that is cut short: the front of another, with Cut for what is not whole.
Shorter(w, v) == \A i \in 1..Len(w) : w[i] = Cut \/ (i \in 1..Len(v) /\ w[i] = v[i])

LEMMA ShorterBehind ==
  ASSUME NEW R, NEW a \in Seq(R), NEW b \in Seq(R), NEW c \in Seq(R), Shorter(b, c)
  PROVE  Shorter(a \o b, a \o c)
<1>1. /\ Len(a) \in Nat /\ Len(b) \in Nat /\ Len(c) \in Nat
      /\ Len(a \o b) = Len(a) + Len(b) /\ Len(a \o c) = Len(a) + Len(c)
  BY ConcatProperties, LenProperties
<1>2. ASSUME NEW i \in 1..Len(a \o b)
      PROVE  (a \o b)[i] = Cut \/ (i \in 1..Len(a \o c) /\ (a \o b)[i] = (a \o c)[i])
  <2>1. CASE i <= Len(a)
    <3>1. (a \o b)[i] = a[i] /\ (a \o c)[i] = a[i]
      BY <1>1, <2>1
    <3> QED BY <1>1, <2>1, <3>1
  <2>2. CASE i > Len(a)
    <3>1. (a \o b)[i] = b[i - Len(a)] /\ i - Len(a) \in 1..Len(b)
      BY <1>1, <2>2
    <3>2. b[i - Len(a)] = Cut
            \/ (i - Len(a) \in 1..Len(c) /\ b[i - Len(a)] = c[i - Len(a)])
      BY <3>1 DEF Shorter
    <3>3. i - Len(a) \in 1..Len(c) => i \in 1..Len(a \o c) /\ (a \o c)[i] = c[i - Len(a)]
      BY <1>1, <2>2
    <3> QED BY <3>1, <3>2, <3>3
  <2> QED BY <1>1, <2>1, <2>2
<1> QED BY <1>2 DEF Shorter

LEMMA ShorterFront ==
  ASSUME NEW R, NEW a \in Seq(R), NEW b \in Seq(R)
  PROVE  Shorter(a, a \o b) /\ Shorter(Append(a, Cut), a \o b)
<1>1. /\ Len(a) \in Nat /\ Len(b) \in Nat /\ Len(a \o b) = Len(a) + Len(b)
      /\ \A i \in 1..Len(a) : (a \o b)[i] = a[i]
  BY ConcatProperties, LenProperties
<1>2. /\ Len(Append(a, Cut)) = Len(a) + 1
      /\ \A i \in 1..Len(a) : Append(a, Cut)[i] = a[i]
      /\ Append(a, Cut)[Len(a) + 1] = Cut
  BY <1>1
<1> QED BY <1>1, <1>2 DEF Shorter

-----------------------------------------------------------------------------
(* The way of a response                                                   *)

Frames == Responses \cup {Cut}

LEMMA SlotTyped ==
  ASSUME NEW there, NEW r \in Frames PROVE Slot(there, r) \in Seq(Frames)
  BY Empty, Single DEF Slot

\* What is to come, and the parts it is made of.
Arriving == Slot(tasks["stdout"] = "sending", decoded) \o Piped
Ahead    == Slot(app = "handing", received) \o Unhanded

WayTypes ==
  /\ stdoutPipe \in Seq(Frames) /\ runnerOut \in Seq(Frames)
  /\ Slot(writer = "writing", frame) \in Seq(Frames)
  /\ Slot(writer = "writing", frame) \o runnerOut \in Seq(Frames)
  /\ Piped \in Seq(Frames)
  /\ Slot(tasks["stdout"] = "sending", decoded) \in Seq(Frames)
  /\ Arriving \in Seq(Frames)
  /\ childOut \in Seq(Frames) /\ Unhanded \in Seq(Frames)
  /\ Slot(app = "handing", received) \in Seq(Frames)
  /\ Ahead \in Seq(Frames)
  /\ delivered \in Frames /\ <<delivered>> \in Seq(Frames)
  /\ Way \in Seq(Frames)

LEMMA WayTyped == RecordTypes /\ SequenceTypes => WayTypes
<1> SUFFICES ASSUME RecordTypes, SequenceTypes PROVE WayTypes
  OBVIOUS
<1>1. stdoutPipe \in Seq(Frames)
  BY DEF SequenceTypes, StdoutType, Frames
<1>2. runnerOut \in Seq(Frames) /\ childOut \in Seq(Frames)
  BY SeqMonotonic DEF SequenceTypes, RunnerOutType, ChildOutType, Frames
<1>3. /\ Slot(writer = "writing", frame) \in Seq(Frames)
      /\ Slot(tasks["stdout"] = "sending", decoded) \in Seq(Frames)
      /\ Slot(app = "handing", received) \in Seq(Frames)
  BY SlotTyped DEF RecordTypes, Frames
<1>4. Slot(writer = "writing", frame) \o runnerOut \in Seq(Frames)
  BY <1>2, <1>3, ConcatProperties
<1>5. Piped \in Seq(Frames)
  BY <1>1, <1>4, ConcatProperties DEF Piped
<1>6. Arriving \in Seq(Frames)
  BY <1>3, <1>5, ConcatProperties DEF Arriving
<1>7. Unhanded \in Seq(Frames)
  BY <1>2, <1>6, ConcatProperties DEF Unhanded, Arriving
<1>8. Ahead \in Seq(Frames)
  BY <1>3, <1>7, ConcatProperties DEF Ahead
<1>9. delivered \in Frames /\ <<delivered>> \in Seq(Frames)
  BY Single DEF RecordTypes, Frames
<1>10. Way \in Seq(Frames)
  BY <1>8, <1>9, ConcatProperties DEF Way, Ahead
<1> QED BY <1>1, <1>2, <1>3, <1>4, <1>5, <1>6, <1>7, <1>8, <1>9, <1>10 DEF WayTypes

\* What the application holds is as it was.
AppHolds == <<delivered, app, received, childOut, tasks["stdout"], decoded>>

\* What happens to what is piped happens to the whole way, if it is read.
LEMMA PipedStays ==
  ASSUME UNCHANGED AppHolds, Piped' = Piped \/ tasks["stdout"] \notin InProcess
  PROVE  Way' = Way
<1>1. Unhanded' = Unhanded
  BY DEF Unhanded, AppHolds, Slot
<1> QED BY <1>1 DEF Way, AppHolds, Slot

LEMMA PipedGrows ==
  ASSUME WayTypes, UNCHANGED AppHolds, NEW r \in Frames,
         tasks["stdout"] \in InProcess, Piped' = Append(Piped, r)
  PROVE  Way' = Append(Way, r)
<1>0. /\ Slot(tasks["stdout"] = "sending", decoded) \in Seq(Frames) /\ Piped \in Seq(Frames)
      /\ childOut \in Seq(Frames) /\ Arriving \in Seq(Frames)
      /\ Slot(app = "handing", received) \in Seq(Frames) /\ Unhanded \in Seq(Frames)
      /\ <<delivered>> \in Seq(Frames) /\ Ahead \in Seq(Frames)
  BY DEF WayTypes
<1>1. Arriving' = Append(Arriving, r)
  <2>1. Arriving' = Slot(tasks["stdout"] = "sending", decoded) \o Append(Piped, r)
    BY DEF Arriving, AppHolds, Slot
  <2>2. Slot(tasks["stdout"] = "sending", decoded) \o Append(Piped, r)
          = Append(Slot(tasks["stdout"] = "sending", decoded) \o Piped, r)
    BY <1>0, AtTheEnd
  <2> QED BY <2>1, <2>2 DEF Arriving
<1>2. Unhanded' = Append(Unhanded, r)
  <2>1. Unhanded' = childOut \o Append(Arriving, r)
    BY <1>1 DEF Unhanded, Arriving, AppHolds
  <2>2. childOut \o Append(Arriving, r) = Append(childOut \o Arriving, r)
    BY <1>0, AtTheEnd
  <2> QED BY <2>1, <2>2 DEF Unhanded, Arriving
<1>3. Ahead' = Append(Ahead, r)
  <2>1. Ahead' = Slot(app = "handing", received) \o Append(Unhanded, r)
    BY <1>2 DEF Ahead, AppHolds, Slot
  <2>2. Slot(app = "handing", received) \o Append(Unhanded, r)
          = Append(Slot(app = "handing", received) \o Unhanded, r)
    BY <1>0, AtTheEnd
  <2> QED BY <2>1, <2>2 DEF Ahead
<1>4. Way' = <<delivered>> \o Append(Ahead, r) /\ Way = <<delivered>> \o Ahead
  BY <1>3 DEF Way, Ahead, AppHolds
<1>5. <<delivered>> \o Append(Ahead, r) = Append(<<delivered>> \o Ahead, r)
  BY <1>0, AtTheEnd
<1> QED BY <1>4, <1>5

\* Whatever is lost of what waits is lost of the whole.
LEMMA UnhandedShrinks ==
  ASSUME WayTypes, WayTypes', UNCHANGED <<delivered, app, received>>,
         Shorter(Unhanded', Unhanded)
  PROVE  Shorter(Way', Way)
<1>1. Unhanded \in Seq(Frames) /\ Unhanded' \in Seq(Frames)
  BY DEF WayTypes
<1>2. Slot(app = "handing", received) \in Seq(Frames) /\ <<delivered>> \in Seq(Frames)
      /\ Ahead \in Seq(Frames) /\ Ahead' \in Seq(Frames)
  BY DEF WayTypes
<1>3. Ahead' = Slot(app = "handing", received) \o Unhanded'
  BY DEF Ahead, Slot
<1>4. Shorter(Ahead', Ahead)
  BY <1>1, <1>2, <1>3, ShorterBehind DEF Ahead
<1>5. Way' = <<delivered>> \o Ahead' /\ Way = <<delivered>> \o Ahead
  BY DEF Way, Ahead
<1> QED BY <1>2, <1>4, <1>5, ShorterBehind

LEMMA PipedShrinks ==
  ASSUME WayTypes, WayTypes', UNCHANGED AppHolds, Shorter(Piped', Piped)
  PROVE  Shorter(Way', Way)
<1>1. Piped \in Seq(Frames) /\ Piped' \in Seq(Frames)
  BY DEF WayTypes
<1>2. /\ Slot(tasks["stdout"] = "sending", decoded) \in Seq(Frames)
      /\ childOut \in Seq(Frames) /\ Unhanded \in Seq(Frames)
      /\ Arriving \in Seq(Frames) /\ Arriving' \in Seq(Frames)
  BY DEF WayTypes
<1>3. Arriving' = Slot(tasks["stdout"] = "sending", decoded) \o Piped'
  BY DEF Arriving, AppHolds, Slot
<1>4. Shorter(Arriving', Arriving)
  BY <1>1, <1>2, <1>3, ShorterBehind DEF Arriving
<1>5. CASE tasks["stdout"] \in InProcess
  <2>1. Unhanded' = childOut \o Arriving' /\ Unhanded = childOut \o Arriving
    BY <1>5 DEF Unhanded, Arriving, AppHolds
  <2>2. Shorter(Unhanded', Unhanded)
    BY <1>2, <1>4, <2>1, ShorterBehind
  <2> QED BY <2>2, UnhandedShrinks DEF AppHolds
<1>6. CASE tasks["stdout"] \notin InProcess
  <2>1. Way' = Way
    BY <1>6, PipedStays
  <2> QED BY <2>1 DEF Shorter
<1> QED BY <1>5, <1>6

\* What the runner sends is piped behind the rest.
LEMMA RunnerSends ==
  ASSUME WayTypes, Up, UNCHANGED <<runner, stdoutPipe, writer, frame>>, NEW r \in Frames,
         runnerOut' = Append(runnerOut, r)
  PROVE  Piped' = Append(Piped, r)
<1>0. /\ Slot(writer = "writing", frame) \in Seq(Frames) /\ runnerOut \in Seq(Frames)
      /\ Slot(writer = "writing", frame) \o runnerOut \in Seq(Frames)
      /\ stdoutPipe \in Seq(Frames)
  BY DEF WayTypes
<1>1. Piped' = stdoutPipe \o (Slot(writer = "writing", frame) \o Append(runnerOut, r))
  BY DEF Piped, Slot
<1>2. Slot(writer = "writing", frame) \o Append(runnerOut, r)
        = Append(Slot(writer = "writing", frame) \o runnerOut, r)
  BY <1>0, AtTheEnd
<1>3. stdoutPipe \o Append(Slot(writer = "writing", frame) \o runnerOut, r)
        = Append(stdoutPipe \o (Slot(writer = "writing", frame) \o runnerOut), r)
  BY <1>0, AtTheEnd
<1> QED BY <1>1, <1>2, <1>3 DEF Piped

\* What a step may do to the way: a response comes to it at the end, or leaves it in
\* front, or it is cut short for good.
Sends   == /\ Way' = Append(Way, response)
           /\ Deliverable(response)
           /\ main' = "handled" => exit # "none" /\ response = Complete
HandsOn == Way' = Tail(Way) /\ Len(Way) > 1
Loses   == /\ Shorter(Way', Way)
           /\ runner' \notin {"up", "ok"} \/ tasks'["stdout"] = "failed"

Moves == outcome' = "none" => Way' = Way \/ Sends \/ HandsOn \/ Loses

\* The runner sends.
LEMMA SendMoves ==
  ASSUME WayTypes, RecordTypes, Up, UNCHANGED AppHolds,
         UNCHANGED <<stdoutPipe, writer, frame>>, UNCHANGED runner, Deliverable(response),
         main' = "handled" => exit # "none" /\ response = Complete,
         runnerOut' = Append(runnerOut, response)
  PROVE  Moves
<1>1. response \in Frames
  BY DEF RecordTypes, Frames
<1>2. Piped' = Append(Piped, response)
  BY <1>1, RunnerSends
<1>3. CASE tasks["stdout"] \in InProcess
  BY <1>1, <1>2, <1>3, PipedGrows DEF Moves, Sends
<1>4. CASE tasks["stdout"] \notin InProcess
  BY <1>4, PipedStays DEF Moves
<1> QED BY <1>3, <1>4

\* The response is before itself.
LEMMA BeforeItself == RecordTypes => Before(response, response)
  BY DEF RecordTypes, Responses, Before

\* The application takes the first response that waits.
LEMMA UnhandedHead ==
  ASSUME WayTypes, WayTypes', Arriving' = Arriving, UNCHANGED tasks,
         childOut # <<>>, childOut' = Tail(childOut)
  PROVE  Unhanded = <<Head(childOut)>> \o Unhanded'
<1>1. childOut \in Seq(Frames) /\ childOut' \in Seq(Frames) /\ Arriving \in Seq(Frames)
  BY DEF WayTypes
<1>2. <<Head(childOut)>> \in Seq(Frames) /\ <<Head(childOut)>> \o childOut' = childOut
  BY <1>1, First, Single, FirstAndRest
<1>3. (<<Head(childOut)>> \o childOut') \o Arriving
        = <<Head(childOut)>> \o (childOut' \o Arriving)
  BY <1>1, <1>2, ConcatAssociative
<1>4. CASE tasks["stdout"] \in InProcess
  BY <1>2, <1>3, <1>4 DEF Unhanded, Arriving
<1>5. CASE tasks["stdout"] \notin InProcess
  BY <1>2, <1>5 DEF Unhanded
<1> QED BY <1>4, <1>5

\* The receiver is handed the response that is first on the way.
LEMMA HandOnMoves ==
  ASSUME WayTypes, WayTypes', RecordTypes, HandOn, outcome' = "none"
  PROVE  HandsOn
<1>0. delivered' = received /\ app' = "streaming" /\ UNCHANGED taskVars
  BY DEF HandOn, Returns
<1>1. /\ app = "handing"
      /\ UNCHANGED <<stdoutPipe, runner, writer, frame, runnerOut>>
  BY DEF HandOn
<1>2. Unhanded' = Unhanded
  BY <1>0, <1>1 DEF Unhanded, Piped, Slot
<1>3. /\ Way = <<delivered>> \o (<<received>> \o Unhanded)
      /\ Way' = <<received>> \o (<<>> \o Unhanded)
  BY <1>0, <1>1, <1>2 DEF Way, Slot
<1>4. <<received>> \in Seq(Frames) /\ Unhanded \in Seq(Frames) /\ delivered \in Frames
  BY <1>1 DEF WayTypes, Slot
<1>5. <<received>> \o Unhanded \in Seq(Frames) /\ <<>> \o Unhanded = Unhanded
  BY <1>4, ConcatProperties, WithNothing
<1>6. received \in Frames
  BY DEF RecordTypes, Frames
<1>7. Len(<<received>> \o Unhanded) = Len(Unhanded) + 1 /\ Len(Unhanded) \in Nat
  BY <1>4, <1>6, RestOfFirst
<1>8. Tail(Way) = <<received>> \o Unhanded /\ Len(Way) = Len(<<received>> \o Unhanded) + 1
  BY <1>3, <1>4, <1>5, RestOfFirst
<1> QED BY <1>3, <1>5, <1>7, <1>8 DEF HandsOn

\* So is a query.
LEMMA CollectMoves ==
  ASSUME WayTypes, WayTypes', RecordTypes, Collect
  PROVE  HandsOn
<1>1. /\ app = "collecting" /\ app' = app /\ childOut # <<>>
      /\ delivered' = Head(childOut) /\ childOut' = Tail(childOut)
      /\ UNCHANGED <<tasks, decoded, stdoutPipe, runner, writer, frame, runnerOut>>
  BY DEF Collect
<1>2. Arriving' = Arriving
  BY <1>1 DEF Arriving, Piped, Slot
<1>3. Unhanded = <<Head(childOut)>> \o Unhanded'
  BY <1>1, <1>2, UnhandedHead
<1>4. /\ Way = <<delivered>> \o (<<>> \o Unhanded)
      /\ Way' = <<Head(childOut)>> \o (<<>> \o Unhanded')
  BY <1>1 DEF Way, Slot
<1>5. <<>> \o Unhanded = Unhanded /\ <<>> \o Unhanded' = Unhanded'
  BY WithNothing DEF WayTypes
<1>6. Unhanded \in Seq(Frames) /\ delivered \in Frames /\ Unhanded' \in Seq(Frames)
  BY DEF WayTypes
<1>7. Head(childOut) \in Frames
  BY <1>1, First DEF WayTypes
<1>8. Len(Unhanded) = Len(Unhanded') + 1 /\ Len(Unhanded') \in Nat
  BY <1>3, <1>6, <1>7, RestOfFirst
<1>9. Tail(Way) = Unhanded /\ Len(Way) = Len(Unhanded) + 1
  BY <1>4, <1>5, <1>6, RestOfFirst
<1> QED BY <1>3, <1>4, <1>5, <1>8, <1>9 DEF HandsOn

\* Nothing else happens to the way.
LEMMA WayMoves ==
  WayTypes /\ WayTypes' /\ FunctionTypes /\ RecordTypes /\ WriterInv /\ ExitInv /\
  LockInv /\ Next
  => Moves
<1> SUFFICES ASSUME WayTypes /\ WayTypes' /\ FunctionTypes /\ RecordTypes /\
                    WriterInv /\ ExitInv /\ LockInv, Next
             PROVE  Moves
  OBVIOUS
<1>1. ASSUME NEW s \in Streams, SendOutput(s) PROVE Moves
  <2>1. CASE UNCHANGED runnerOut
    BY <1>1, <2>1, PipedStays DEF SendOutput, AppHolds, Piped, Slot, Moves
  <2>2. CASE runnerOut' = Append(runnerOut, hand[s])
    <3>1. main = "running" /\ main' = "running"
      BY <1>1 DEF SendOutput, WriterInv
    <3>2. ~response.exit /\ hand[s] = response
      BY <1>1, <3>1 DEF SendOutput, ExitInv, LockInv
    <3>3. Deliverable(response)
      BY <3>2, BeforeItself DEF Deliverable
    <3>4. /\ Up /\ UNCHANGED AppHolds /\ UNCHANGED <<stdoutPipe, writer, frame>>
          /\ UNCHANGED runner
      BY <1>1 DEF SendOutput, AppHolds
    <3> QED BY <2>2, <3>1, <3>2, <3>3, <3>4, SendMoves
  <2> QED BY <1>1, <2>1, <2>2 DEF SendOutput
<1>2. CASE Kill
  <2>1. /\ Up /\ runner' = "killed" /\ UNCHANGED AppHolds
        /\ stdoutPipe' = stdoutPipe \/ stdoutPipe' = Append(stdoutPipe, Cut)
    BY <1>2 DEF Kill, AppHolds
  <2>2. /\ Piped = stdoutPipe \o (Slot(writer = "writing", frame) \o runnerOut)
        /\ Piped' = stdoutPipe'
    BY <2>1 DEF Piped
  <2>3. /\ stdoutPipe \in Seq(Frames)
        /\ Slot(writer = "writing", frame) \o runnerOut \in Seq(Frames)
    BY DEF WayTypes
  <2>4. Shorter(Piped', Piped)
    BY <2>1, <2>2, <2>3, ShorterFront
  <2> QED BY <2>1, <2>4, PipedShrinks DEF Moves, Loses
<1>3. CASE QueryDropped
  <2>1. \/ outcome' # "none"
        \/ /\ app # "handing" /\ app' # "handing"
           /\ UNCHANGED <<delivered, childOut, tasks, decoded, stdoutPipe, runner>>
           /\ UNCHANGED <<writer, frame, runnerOut>>
    BY <1>3 DEF QueryDropped, Returns
  <2>2. outcome' # "none" \/ Unhanded' = Unhanded
    BY <2>1 DEF Unhanded, Piped, Slot
  <2> QED BY <2>1, <2>2 DEF Moves, Way, Slot
<1>4. CASE SendExit
  <2>1. CASE UNCHANGED runnerOut
    BY <1>4, <2>1, PipedStays DEF SendExit, AppHolds, Piped, Slot, Moves
  <2>2. CASE writer # "failed" /\ runnerOut' = Append(runnerOut, response)
    <3>1. exit # "none" /\ response = Complete
      BY <1>4, <2>2 DEF SendExit, ExitInv
    <3>2. Deliverable(response)
      BY <3>1, BeforeItself DEF Deliverable
    <3>3. /\ Up /\ UNCHANGED AppHolds /\ UNCHANGED <<stdoutPipe, writer, frame>>
          /\ UNCHANGED runner
      BY <1>4 DEF SendExit, AppHolds
    <3> QED BY <2>2, <3>1, <3>2, <3>3, SendMoves
  <2> QED BY <1>4, <2>1, <2>2 DEF SendExit
<1>5. CASE RunnerEnds
  <2>1. /\ Up /\ runner' # "up" /\ writer \in {"ok", "failed"} /\ UNCHANGED AppHolds
        /\ UNCHANGED <<stdoutPipe, writer, frame, runnerOut>>
    BY <1>5 DEF RunnerEnds, ExitStatus, AppHolds
  <2>2. Piped = stdoutPipe \o (<<>> \o runnerOut) /\ Piped' = stdoutPipe
    BY <2>1 DEF Piped, Slot
  <2>3. /\ stdoutPipe \in Seq(Frames) /\ runnerOut \in Seq(Frames)
        /\ <<>> \o runnerOut = runnerOut
    BY WithNothing DEF WayTypes
  <2>4. CASE writer = "ok"
    <3>1. runnerOut = <<>>
      BY <2>4 DEF WriterInv
    <3>2. Piped' = Piped
      BY <2>2, <2>3, <3>1, WithNothing
    <3> QED BY <2>1, <3>2, PipedStays DEF Moves
  <2>5. CASE writer = "failed"
    <3>1. runner' \notin {"up", "ok"}
      BY <1>5, <2>5 DEF RunnerEnds, ExitStatus
    <3>2. Shorter(Piped', Piped)
      BY <2>2, <2>3, ShorterFront
    <3> QED BY <2>1, <3>1, <3>2, PipedShrinks DEF Moves, Loses
  <2> QED BY <2>1, <2>4, <2>5
<1>6. CASE TakeResponse
  <2>1. /\ Up /\ writer = "receiving" /\ writer' = "writing" /\ runnerOut # <<>>
        /\ frame' = Head(runnerOut) /\ runnerOut' = Tail(runnerOut)
        /\ UNCHANGED <<runner, stdoutPipe>> /\ UNCHANGED AppHolds
    BY <1>6 DEF TakeResponse, AppHolds
  <2>2. <<>> \o runnerOut = <<Head(runnerOut)>> \o Tail(runnerOut)
    <3>1. runnerOut \in Seq(Frames) /\ runnerOut # <<>>
      BY <2>1 DEF WayTypes
    <3>2. <<>> \o runnerOut = runnerOut
      BY <3>1, WithNothing
    <3>3. <<Head(runnerOut)>> \o Tail(runnerOut) = runnerOut
      BY <3>1, FirstAndRest
    <3> QED BY <3>2, <3>3, Zenon
  <2>3. Piped' = Piped
    BY <2>1, <2>2 DEF Piped, Slot
  <2> QED BY <2>1, <2>3, PipedStays DEF Moves
<1>7. CASE WriteFrame
  <2>1. UNCHANGED AppHolds /\ UNCHANGED runner /\ Up /\ writer = "writing"
    BY <1>7 DEF WriteFrame, AppHolds
  <2>2. CASE tasks["stdout"] \in InProcess
    <3>1. /\ stdoutPipe = <<>> /\ stdoutPipe' = <<frame>> /\ writer' = "receiving"
          /\ UNCHANGED runnerOut
      BY <1>7, <2>2 DEF WriteFrame
    <3>2. /\ Piped = <<>> \o (<<frame>> \o runnerOut)
          /\ Piped' = <<frame>> \o (<<>> \o runnerOut)
      BY <2>1, <3>1 DEF Piped, Slot
    <3>3. <<frame>> \o runnerOut \in Seq(Frames) /\ runnerOut \in Seq(Frames)
      BY <2>1 DEF WayTypes, Slot
    <3>4. Piped' = Piped
      BY <3>2, <3>3, WithNothing
    <3> QED BY <2>1, <3>4, PipedStays DEF Moves
  <2>3. CASE tasks["stdout"] \notin InProcess
    BY <2>1, <2>3, PipedStays DEF Moves
  <2> QED BY <2>2, <2>3
<1>8. CASE WriterEnds
  <2>1. UNCHANGED AppHolds /\ Piped' = Piped
    BY <1>8 DEF WriterEnds, AppHolds, Piped, Slot
  <2> QED BY <2>1, PipedStays DEF Moves
<1>9. CASE DecodeFrame
  <2>1. /\ tasks["stdout"] = "running" /\ UNCHANGED <<delivered, app, received, childOut>>
        /\ UNCHANGED <<runner, writer, frame, runnerOut>>
        /\ stdoutPipe # <<>> /\ stdoutPipe' = Tail(stdoutPipe)
    BY <1>9 DEF DecodeFrame, FrameReady
  <2>2. CASE tasks' = [tasks EXCEPT !["stdout"] = "failed"]
    <3>1. tasks'["stdout"] = "failed"
      BY <2>2 DEF FunctionTypes, AppTasks
    <3>2. Unhanded' = childOut /\ Unhanded = childOut \o Arriving
      BY <2>1, <3>1 DEF Unhanded, Arriving
    <3>3. childOut \in Seq(Frames) /\ Arriving \in Seq(Frames)
      BY DEF WayTypes
    <3>4. Shorter(Unhanded', Unhanded)
      BY <3>2, <3>3, ShorterFront
    <3> QED BY <2>1, <3>1, <3>4, UnhandedShrinks DEF Moves, Loses
  <2>3. CASE tasks' = [tasks EXCEPT !["stdout"] = "sending"] /\ decoded' = Head(stdoutPipe)
    <3>1. tasks'["stdout"] = "sending"
      BY <2>3 DEF FunctionTypes, AppTasks
    <3>2. stdoutPipe \in Seq(Frames) /\ stdoutPipe' \in Seq(Frames)
      BY DEF WayTypes
    <3>3. Head(stdoutPipe) \in Frames /\ <<Head(stdoutPipe)>> \in Seq(Frames)
      BY <2>1, <3>2, First, Single
    <3>4. stdoutPipe = <<Head(stdoutPipe)>> \o Tail(stdoutPipe)
      BY <2>1, <3>2, FirstAndRest
    <3>5. Piped \in Seq(Frames) /\ <<>> \o Piped = Piped
      BY WithNothing DEF WayTypes
    <3>6. Piped = <<Head(stdoutPipe)>> \o Piped'
      <4>1. CASE Up
        <5>1. Slot(writer = "writing", frame) \o runnerOut \in Seq(Frames)
          BY DEF WayTypes
        <5> DEFINE rest == Slot(writer = "writing", frame) \o runnerOut
        <5>2. /\ Piped = (<<Head(stdoutPipe)>> \o Tail(stdoutPipe)) \o rest
              /\ Piped' = Tail(stdoutPipe) \o rest
          BY <2>1, <3>4, <4>1 DEF Piped, Slot
        <5>3. (<<Head(stdoutPipe)>> \o Tail(stdoutPipe)) \o rest
                = <<Head(stdoutPipe)>> \o (Tail(stdoutPipe) \o rest)
          BY <2>1, <3>2, <3>3, <5>1, ConcatAssociative, SMTT(30)
        <5> QED BY <5>2, <5>3
      <4>2. CASE ~Up
        BY <2>1, <3>4, <4>2 DEF Piped
      <4> QED BY <4>1, <4>2
    <3>7. Unhanded' = childOut \o (<<Head(stdoutPipe)>> \o Piped')
      BY <2>1, <2>3, <3>1 DEF Unhanded, Slot
    <3>8. Unhanded = childOut \o (<<>> \o Piped)
      BY <2>1 DEF Unhanded, Slot
    <3>9. Unhanded' = Unhanded
      BY <3>5, <3>6, <3>7, <3>8
    <3> QED BY <2>1, <3>9 DEF Moves, Way, Slot
  <2> QED BY <1>9, <2>2, <2>3 DEF DecodeFrame, TaskEnds
<1>10. CASE SendDecoded
  <2>1. /\ tasks["stdout"] = "sending" /\ childOut' = Append(childOut, decoded)
        /\ UNCHANGED <<delivered, app, received, stdoutPipe>>
        /\ UNCHANGED <<runner, writer, frame, runnerOut>>
        /\ tasks' = [tasks EXCEPT !["stdout"] = "running"]
    BY <1>10 DEF SendDecoded
  <2>2. tasks'["stdout"] = "running"
    BY <2>1 DEF FunctionTypes, AppTasks
  <2>3. childOut \in Seq(Frames) /\ decoded \in Frames /\ Piped \in Seq(Frames)
    BY DEF WayTypes, RecordTypes, Frames
  <2>4. Piped' = Piped
    BY <2>1 DEF Piped, Slot
  <2>5. /\ Unhanded = childOut \o (<<decoded>> \o Piped)
        /\ Unhanded' = Append(childOut, decoded) \o (<<>> \o Piped)
    BY <2>1, <2>2, <2>4 DEF Unhanded, Slot
  <2>6. Unhanded' = Unhanded
    BY <2>3, <2>5, WithNothing, MovesOn
  <2> QED BY <2>1, <2>6 DEF Moves, Way, Slot
<1>11. CASE WriteMessage
  <2>1. UNCHANGED AppHolds /\ Piped' = Piped
    BY <1>11 DEF WriteMessage, TaskEnds, FunctionTypes, AppTasks, AppHolds, Piped, Slot
  <2> QED BY <2>1, PipedStays DEF Moves
<1>12. CASE StdinTaskEnds
  <2>1. UNCHANGED AppHolds /\ Piped' = Piped
    BY <1>12 DEF StdinTaskEnds, TaskEnds, FunctionTypes, AppTasks, AppHolds, Piped, Slot
  <2> QED BY <2>1, PipedStays DEF Moves
<1>13. CASE SendMessage
  <2>1. \/ outcome' # "none"
        \/ /\ app # "handing" /\ app' # "handing"
           /\ UNCHANGED <<delivered, childOut, tasks, decoded, stdoutPipe, runner>>
           /\ UNCHANGED <<writer, frame, runnerOut>>
    BY <1>13 DEF SendMessage, Returns
  <2>2. outcome' # "none" \/ Unhanded' = Unhanded
    BY <2>1 DEF Unhanded, Piped, Slot
  <2> QED BY <2>1, <2>2 DEF Moves, Way, Slot
<1>14. CASE ReceiveResponse
  <2>1. /\ app = "streaming" /\ app' = "handing" /\ childOut # <<>>
        /\ received' = Head(childOut) /\ childOut' = Tail(childOut)
        /\ UNCHANGED <<delivered, tasks, decoded, stdoutPipe>>
        /\ UNCHANGED <<runner, writer, frame, runnerOut>>
    BY <1>14 DEF ReceiveResponse
  <2>2. Arriving' = Arriving
    BY <2>1 DEF Arriving, Piped, Slot
  <2>3. Unhanded = <<Head(childOut)>> \o Unhanded'
    BY <2>1, <2>2, UnhandedHead
  <2>4. /\ Way = <<delivered>> \o (<<>> \o Unhanded)
        /\ Way' = <<delivered>> \o (<<Head(childOut)>> \o Unhanded')
    BY <2>1 DEF Way, Slot
  <2>5. <<>> \o Unhanded = Unhanded
    BY WithNothing DEF WayTypes
  <2> QED BY <2>3, <2>4, <2>5 DEF Moves
<1>15. CASE HandOn
  BY <1>15, HandOnMoves DEF Moves
<1>16. CASE OutputClosed
  <2>1. \/ outcome' # "none"
        \/ /\ app # "handing" /\ app' # "handing"
           /\ UNCHANGED <<delivered, childOut, tasks, decoded, stdoutPipe, runner>>
           /\ UNCHANGED <<writer, frame, runnerOut>>
    BY <1>16 DEF OutputClosed
  <2>2. outcome' # "none" \/ Unhanded' = Unhanded
    BY <2>1 DEF Unhanded, Piped, Slot
  <2> QED BY <2>1, <2>2 DEF Moves, Way, Slot
<1>17. CASE JoinTask
  <2>1. \/ outcome' # "none"
        \/ /\ app # "handing" /\ app' # "handing"
           /\ UNCHANGED <<delivered, childOut, tasks, decoded, stdoutPipe, runner>>
           /\ UNCHANGED <<writer, frame, runnerOut>>
    BY <1>17 DEF JoinTask, Returns
  <2>2. outcome' # "none" \/ Unhanded' = Unhanded
    BY <2>1 DEF Unhanded, Piped, Slot
  <2> QED BY <2>1, <2>2 DEF Moves, Way, Slot
<1>18. CASE TasksJoined
  <2>1. \/ outcome' # "none"
        \/ /\ app # "handing" /\ app' # "handing"
           /\ UNCHANGED <<delivered, childOut, tasks, decoded, stdoutPipe, runner>>
           /\ UNCHANGED <<writer, frame, runnerOut>>
    BY <1>18 DEF TasksJoined
  <2>2. outcome' # "none" \/ Unhanded' = Unhanded
    BY <2>1 DEF Unhanded, Piped, Slot
  <2> QED BY <2>1, <2>2 DEF Moves, Way, Slot
<1>19. CASE WaitChild
  <2>1. \/ outcome' # "none"
        \/ /\ app # "handing" /\ app' # "handing"
           /\ UNCHANGED <<delivered, childOut, tasks, decoded, stdoutPipe, runner>>
           /\ UNCHANGED <<writer, frame, runnerOut>>
    BY <1>19 DEF WaitChild, Returns, QueryOutcome, ExitOutcome
  <2>2. outcome' # "none" \/ Unhanded' = Unhanded
    BY <2>1 DEF Unhanded, Piped, Slot
  <2> QED BY <2>1, <2>2 DEF Moves, Way, Slot
<1>20. CASE Collect
  BY <1>20, CollectMoves DEF Moves
<1>21. CASE Collected
  <2>1. \/ outcome' # "none"
        \/ /\ app # "handing" /\ app' # "handing"
           /\ UNCHANGED <<delivered, childOut, tasks, decoded, stdoutPipe, runner>>
           /\ UNCHANGED <<writer, frame, runnerOut>>
    BY <1>21 DEF Collected
  <2>2. outcome' # "none" \/ Unhanded' = Unhanded
    BY <2>1 DEF Unhanded, Piped, Slot
  <2> QED BY <2>1, <2>2 DEF Moves, Way, Slot
<1>22. ASSUME NEW t \in {"stdout", "stderr"}, OutputTaskEnds(t) PROVE Moves
  <2>1. CASE t = "stderr"
    <3>1. UNCHANGED AppHolds /\ Piped' = Piped
      BY <1>22, <2>1 DEF OutputTaskEnds, TaskEnds, FunctionTypes, AppTasks, AppHolds, Piped,
                            Slot
    <3> QED BY <3>1, PipedStays DEF Moves
  <2>2. CASE t = "stdout"
    <3>1. /\ tasks["stdout"] = "running" /\ tasks'["stdout"] = "ok"
          /\ ~Up /\ stdoutPipe = <<>>
          /\ UNCHANGED <<delivered, app, received, childOut>>
      BY <1>22, <2>2 DEF OutputTaskEnds, TaskEnds, FunctionTypes, AppTasks
    <3>2. Unhanded = childOut \o (<<>> \o <<>>) /\ Unhanded' = childOut
      BY <3>1 DEF Unhanded, Piped, Slot
    <3>3. childOut \in Seq(Frames) /\ <<>> \in Seq(Frames)
      BY Empty DEF WayTypes
    <3>4. Unhanded' = Unhanded
      BY <3>2, <3>3, WithNothing, SMTT(30)
    <3> QED BY <3>1, <3>4 DEF Moves, Way, Slot
  <2> QED BY <1>22, <2>1, <2>2
<1>23. CASE \/ \E s \in Streams : Write(s) \/ AppendOutput(s) \/ ReadOutput(s)
                  \/ OutputEnds(s)
            \/ ProgramEnds \/ ConsumerLeaves \/ StartProgram
            \/ NoMessage \/ JoinReaders \/ RecordExit
            \/ ReadMessage \/ StdinEnds
  BY <1>23 DEF Write, AppendOutput, ReadOutput, OutputEnds, ProgramEnds, ConsumerLeaves,
        StartProgram, NoMessage, JoinReaders, RecordExit, ReadMessage, StdinEnds,
        Appended, Moves, Way, Unhanded, Piped, Slot, AppHolds
<1> QED BY <1>1, <1>2, <1>3, <1>4, <1>5, <1>6, <1>7, <1>8, <1>9, <1>10, <1>11, <1>12,
        <1>13, <1>14, <1>15, <1>16, <1>17, <1>18, <1>19, <1>20, <1>21, <1>22, <1>23
     DEF Next, Readers, Main, Writer, Stdin, Stdout, RunCode

-----------------------------------------------------------------------------
(* What is on the way is in order, and can be delivered                    *)

\* The response only grows.
Grows == Before(response, response')

LEMMA StaysGrown == RecordTypes /\ UNCHANGED response => Grows
  BY DEF RecordTypes, Responses, Before, Grows

LEMMA GrowStep == FunctionTypes /\ RecordTypes /\ ExitInv /\ Next => Grows
<1> SUFFICES ASSUME FunctionTypes /\ RecordTypes /\ ExitInv, Next PROVE Grows
  OBVIOUS
<1>1. ASSUME NEW s \in Streams, AppendOutput(s) PROVE Grows
  <2>1. response' = [response EXCEPT ![s] = response[s] + hand[s][s]]
    BY <1>1 DEF AppendOutput, Appended
  <2>2. response[s] \in Nat /\ hand[s][s] \in Nat
    BY Amount DEF RecordTypes, FunctionTypes
  <2> QED BY <2>1, <2>2 DEF Grows, Before, RecordTypes, Responses, Streams
<1>2. CASE RecordExit
  <2>1. response' = [response EXCEPT !.exit = exit = "code"] /\ ~response.exit
    BY <1>2 DEF RecordExit, ExitInv
  <2> QED BY <2>1 DEF Grows, Before, RecordTypes, Responses
<1>3. CASE \/ \E s \in Streams : Write(s) \/ ReadOutput(s) \/ OutputEnds(s)
                 \/ SendOutput(s)
           \/ ProgramEnds \/ Kill \/ ConsumerLeaves
           \/ QueryDropped \/ StartProgram \/ NoMessage
           \/ JoinReaders \/ SendExit \/ RunnerEnds
           \/ TakeResponse \/ WriteFrame \/ WriterEnds
           \/ ReadMessage \/ StdinEnds \/ DecodeFrame
           \/ SendDecoded \/ WriteMessage \/ StdinTaskEnds
           \/ SendMessage \/ ReceiveResponse \/ HandOn
           \/ OutputClosed \/ JoinTask \/ TasksJoined
           \/ WaitChild \/ Collect \/ Collected
           \/ OutputTaskEnds("stdout") \/ OutputTaskEnds("stderr")
  BY <1>3, StaysGrown DEF Write, ReadOutput, OutputEnds, SendOutput, ProgramEnds, Kill,
        ConsumerLeaves, QueryDropped, StartProgram, NoMessage, JoinReaders, SendExit,
        RunnerEnds, TakeResponse, WriteFrame, WriterEnds, ReadMessage, StdinEnds,
        DecodeFrame, SendDecoded, WriteMessage, StdinTaskEnds, SendMessage,
        ReceiveResponse, HandOn, OutputClosed, JoinTask, TasksJoined, WaitChild,
        Collect, Collected, OutputTaskEnds, Returns, TaskEnds, ExitStatus, FrameReady,
        Handled
<1> QED BY <1>1, <1>2, <1>3
     DEF Next, Readers, Main, Writer, Stdin, Stdout, RunCode

\* What could be delivered still can be.
LEMMA DeliverableStays ==
  ASSUME FunctionTypes, RecordTypes, RecordTypes', ExitInv, Next,
         NEW r \in Responses, Deliverable(r)
  PROVE  /\ Before(r, response')
         /\ r.exit => exit' # "none" /\ r = Complete'
<1>1. Before(r, response')
  <2>1. Before(r, response) /\ Before(response, response')
    BY GrowStep DEF Deliverable, Grows
  <2> QED BY <2>1 DEF Before, RecordTypes, Responses
<1>2. r.exit => exit' # "none" /\ r = Complete'
  BY Frozen DEF Deliverable
<1> QED BY <1>1, <1>2

\* WayInv, of a sequence.
Good(w) == /\ Ordered(w)
           /\ \A i \in 1..Len(w) : w[i] # Cut => Deliverable(w[i])

LEMMA GoodWay == WayInv <=> (outcome = "none" => Good(Way))
  BY DEF WayInv, Good

\* What is on the way, in the state after a step.
LEMMA GoodLater ==
  ASSUME FunctionTypes, RecordTypes, RecordTypes', ExitInv, Next,
         NEW w \in Seq(Frames), Good(w)
  PROVE  \A i \in 1..Len(w) : w[i] # Cut =>
           /\ Before(w[i], response')
           /\ w[i].exit => exit' # "none" /\ w[i] = Complete'
<1>1. SUFFICES ASSUME NEW i \in 1..Len(w), w[i] # Cut
               PROVE  /\ Before(w[i], response')
                      /\ w[i].exit => exit' # "none" /\ w[i] = Complete'
  OBVIOUS
<1>2. w[i] \in Responses /\ Deliverable(w[i])
  BY <1>1 DEF Good, Frames
<1> QED BY <1>2, DeliverableStays

LEMMA GoodStep ==
  ASSUME FunctionTypes, RecordTypes, RecordTypes', WayTypes, WayTypes', ExitInv, Next,
         Good(Way), Way' = Way \/ Sends \/ HandsOn \/ Loses
  PROVE  Good(Way)'
<1>1. \A i \in 1..Len(Way) : Way[i] # Cut =>
        /\ Before(Way[i], response')
        /\ Way[i].exit => exit' # "none" /\ Way[i] = Complete'
  BY GoodLater DEF WayTypes
<1>2. Ordered(Way) /\ Way \in Seq(Frames) /\ Way' \in Seq(Frames) /\ Len(Way) \in Nat
  BY LenProperties DEF Good, WayTypes
<1>3. SUFFICES /\ \A i, j \in 1..Len(Way') :
                    i <= j /\ Way'[i] # Cut /\ Way'[j] # Cut => Before(Way'[i], Way'[j])
               /\ \A i \in 1..Len(Way') : Way'[i] # Cut =>
                    /\ Before(Way'[i], response')
                    /\ Way'[i].exit => exit' # "none" /\ Way'[i] = Complete'
  BY DEF Good, Ordered, Deliverable
<1>4. CASE Way' = Way
  BY <1>1, <1>2, <1>4 DEF Ordered
<1>5. CASE Sends
  <2>1. /\ Len(Way') = Len(Way) + 1
        /\ \A i \in 1..Len(Way) : Way'[i] = Way[i]
        /\ Way'[Len(Way) + 1] = response
    BY <1>2, <1>5 DEF Sends
  <2>2. \A i \in 1..Len(Way') : i \in 1..Len(Way) \/ i = Len(Way) + 1
    BY <1>2, <2>1
  <2>3. /\ Before(response, response')
        /\ response.exit => exit' # "none" /\ response = Complete'
    BY <1>5, DeliverableStays DEF Sends, RecordTypes
  <2>4. \A i \in 1..Len(Way) : Way[i] # Cut => Before(Way[i], response)
    BY DEF Good, Deliverable
  <2>5. Before(response, response)
    BY BeforeItself
  <2>6. \A i \in 1..Len(Way) : ~(Len(Way) + 1 <= i)
    BY <1>2
  <2>7. ASSUME NEW i \in 1..Len(Way'), NEW j \in 1..Len(Way'), i <= j,
               Way'[i] # Cut, Way'[j] # Cut
        PROVE  Before(Way'[i], Way'[j])
    <3>1. CASE j \in 1..Len(Way)
      <4>1. i \in 1..Len(Way)
        BY <1>2, <2>7, <3>1
      <4> QED BY <1>2, <2>1, <2>7, <3>1, <4>1 DEF Ordered
    <3>2. CASE j = Len(Way) + 1
      BY <2>1, <2>2, <2>4, <2>5, <2>7, <3>2
    <3> QED BY <2>2, <2>7, <3>1, <3>2
  <2>8. ASSUME NEW i \in 1..Len(Way'), Way'[i] # Cut
        PROVE  /\ Before(Way'[i], response')
               /\ Way'[i].exit => exit' # "none" /\ Way'[i] = Complete'
    BY <1>1, <2>1, <2>2, <2>3, <2>8
  <2> QED BY <2>7, <2>8
<1>6. CASE HandsOn
  <2>1. Way # <<>> /\ Way' = Tail(Way)
    BY <1>2, <1>6 DEF HandsOn
  <2>2. /\ \A i \in 1..Len(Way') : Way'[i] = Way[i + 1] /\ i + 1 \in 1..Len(Way)
        /\ Len(Way') \in Nat
    BY <1>2, <2>1, Rest, LenProperties
  <2>3. \A i, j \in 1..Len(Way') : i <= j => i + 1 <= j + 1
    BY <2>2
  <2> QED BY <1>1, <1>2, <2>2, <2>3 DEF Ordered
<1>7. CASE Loses
  <2>1. \A i \in 1..Len(Way') : Way'[i] # Cut => i \in 1..Len(Way) /\ Way'[i] = Way[i]
    BY <1>7 DEF Loses, Shorter
  <2> QED BY <1>1, <1>2, <2>1 DEF Ordered
<1> QED BY <1>4, <1>5, <1>6, <1>7

\* Streaming that has come to an end does not begin again.
LEMMA OutcomeStays ==
  ASSUME Next, outcome' = "none" PROVE outcome = "none"
  BY DEF Next, Readers, Main, Writer, Stdin, Stdout, RunCode, Write, AppendOutput,
     Appended, ReadOutput, OutputEnds, SendOutput, ProgramEnds, Kill, ConsumerLeaves,
     QueryDropped, StartProgram, NoMessage, JoinReaders, RecordExit, SendExit, RunnerEnds,
     TakeResponse, WriteFrame, WriterEnds, ReadMessage, StdinEnds, DecodeFrame,
     SendDecoded, OutputTaskEnds, WriteMessage, StdinTaskEnds, SendMessage,
     ReceiveResponse, HandOn, OutputClosed, JoinTask, TasksJoined, WaitChild, Collect,
     Collected, Returns, QueryOutcome, ExitOutcome

LEMMA WayStep ==
  FunctionTypes /\ RecordTypes /\ RecordTypes' /\ WayTypes /\ WayTypes' /\ WriterInv /\
  ExitInv /\ LockInv /\ WayInv /\ Next
  => WayInv'
<1> SUFFICES ASSUME FunctionTypes, RecordTypes, RecordTypes', WayTypes, WayTypes',
                    WriterInv, ExitInv, LockInv, WayInv, Next, outcome' = "none"
             PROVE  Good(Way)'
  BY DEF WayInv, Good
<1>1. Way' = Way \/ Sends \/ HandsOn \/ Loses
  BY WayMoves DEF Moves
<1>2. Good(Way)
  BY OutcomeStays, GoodWay
<1> QED BY <1>1, <1>2, GoodStep

-----------------------------------------------------------------------------
(* The last on the way is complete                                         *)

\* What is lost stays lost: a runner that has ended, and a task that has failed.
LEMMA RunnerEnded ==
  ASSUME Next, runner' \in {"up", "ok"} PROVE runner \in {"up", "ok"}
  BY DEF Next, Readers, Main, Writer, Stdin, Stdout, RunCode, Write, AppendOutput,
     Appended, ReadOutput, OutputEnds, SendOutput, ProgramEnds, Kill, ConsumerLeaves,
     QueryDropped, StartProgram, NoMessage, JoinReaders, RecordExit, SendExit, RunnerEnds,
     ExitStatus, TakeResponse, WriteFrame, WriterEnds, ReadMessage, StdinEnds, DecodeFrame,
     SendDecoded, OutputTaskEnds, WriteMessage, StdinTaskEnds, SendMessage,
     ReceiveResponse, HandOn, OutputClosed, JoinTask, TasksJoined, WaitChild, Collect,
     Collected

LEMMA TaskFailed ==
  ASSUME FunctionTypes, Next, tasks["stdout"] = "failed" PROVE tasks'["stdout"] = "failed"
  BY DEF Next, Readers, Main, Writer, Stdin, Stdout, RunCode, Write, AppendOutput,
     Appended, ReadOutput, OutputEnds, SendOutput, ProgramEnds, Kill, ConsumerLeaves,
     QueryDropped, StartProgram, NoMessage, JoinReaders, RecordExit, SendExit, RunnerEnds,
     ExitStatus, TakeResponse, WriteFrame, WriterEnds, ReadMessage, StdinEnds, DecodeFrame,
     SendDecoded, OutputTaskEnds, WriteMessage, StdinTaskEnds, SendMessage,
     ReceiveResponse, HandOn, OutputClosed, JoinTask, TasksJoined, WaitChild, Collect,
     Collected,
     Returns, TaskEnds, FunctionTypes, AppTasks

\* The runner has sent all when it has sent the exit code.
LEMMA AllSent ==
  ASSUME MessageInv, RecordTypes, Next, main' = "handled", ~inbox'.open
  PROVE  (main = "handled" /\ ~inbox.open) \/ (SendExit /\ writer # "failed")
<1>1. CASE UNCHANGED inbox
  <2>1. main = "handled"
    BY <1>1 DEF MessageInv
  <2> QED BY <1>1, <2>1
<1>2. CASE ReadMessage
  <2>1. inbox'.open = inbox.open /\ UNCHANGED main
    BY <1>2 DEF ReadMessage, RecordTypes
  <2> QED BY <2>1
<1>3. CASE StartProgram
  BY <1>3 DEF StartProgram
<1>4. CASE SendExit
  BY <1>4 DEF SendExit
<1>5. UNCHANGED inbox \/ ReadMessage \/ StartProgram \/ SendExit
  BY DEF Next, Readers, Main, Writer, Stdin, Stdout, RunCode, Write, AppendOutput,
     Appended, ReadOutput, OutputEnds, SendOutput, ProgramEnds, Kill, ConsumerLeaves,
     QueryDropped, NoMessage, JoinReaders, RecordExit, RunnerEnds, TakeResponse,
     WriteFrame, WriterEnds, StdinEnds, DecodeFrame, SendDecoded, OutputTaskEnds,
     WriteMessage, StdinTaskEnds, SendMessage, ReceiveResponse, HandOn, OutputClosed,
     JoinTask, TasksJoined, WaitChild, Collect, Collected, Returns
<1> QED BY <1>1, <1>2, <1>3, <1>4, <1>5

\* The response that has the exit code joins the others.
LEMMA ExitSent ==
  ASSUME WayTypes, FunctionTypes, RecordTypes, ReturnInv, SendExit, writer # "failed",
         outcome = "none", tasks["stdout"] # "failed"
  PROVE  Way' = Append(Way, response)
<1>1. /\ Up /\ UNCHANGED AppHolds /\ UNCHANGED <<stdoutPipe, writer, frame>>
      /\ UNCHANGED runner /\ runnerOut' = Append(runnerOut, response)
  BY DEF SendExit, AppHolds
<1>2. tasks["stdout"] # "ok" /\ tasks["stdout"] # "aborted"
  BY <1>1 DEF ReturnInv, AppTasks
<1>3. tasks["stdout"] \in InProcess
  BY <1>2 DEF FunctionTypes, AppTasks
<1>4. response \in Frames
  BY DEF RecordTypes, Frames
<1> QED BY <1>1, <1>3, <1>4, RunnerSends, PipedGrows

\* The complete response stays the last, unless something is lost.
LEMMA LastStep ==
  FunctionTypes /\ RecordTypes /\ WayTypes /\ WayTypes' /\ MessageInv /\ ReturnInv /\
  WriterInv /\ ExitInv /\ LockInv /\ LastInv /\ Next
  => LastInv'
<1> SUFFICES ASSUME FunctionTypes, RecordTypes, WayTypes, WayTypes', MessageInv, ReturnInv,
                    WriterInv, ExitInv, LockInv, LastInv, Next,
                    main' = "handled", ~inbox'.open
             PROVE  /\ exit' # "none"
                    /\ outcome' = "none" /\ tasks'["stdout"] # "failed"
                         /\ runner' \in {"up", "ok"}
                       => Way'[Len(Way')] = Complete'
  BY DEF LastInv
<1>1. exit # "none" /\ (SendExit /\ writer # "failed" => response = Complete)
  BY AllSent DEF LastInv, SendExit, ExitInv
<1>2. UNCHANGED exit /\ Complete' = Complete
  BY <1>1, Frozen
<1>3. SUFFICES ASSUME outcome' = "none", tasks'["stdout"] # "failed",
                      runner' \in {"up", "ok"}
               PROVE  Way'[Len(Way')] = Complete
  BY <1>1, <1>2
<1>4. /\ outcome = "none" /\ tasks["stdout"] # "failed" /\ runner \in {"up", "ok"}
      /\ Way \in Seq(Frames) /\ Len(Way) \in Nat
  BY <1>3, OutcomeStays, TaskFailed, RunnerEnded, LenProperties DEF WayTypes
<1>5. CASE Way' = Append(Way, response) /\ response = Complete
  BY <1>4, <1>5
<1>6. CASE SendExit /\ writer # "failed"
  BY <1>1, <1>4, <1>5, <1>6, ExitSent
<1>7. CASE main = "handled" /\ ~inbox.open
  <2>1. Way[Len(Way)] = Complete
    BY <1>4, <1>7 DEF LastInv
  <2>2. CASE Way' = Way
    BY <2>1, <2>2
  <2>3. CASE HandsOn
    <3>1. Way # <<>> /\ Len(Way) > 1
      BY <1>4, <2>3 DEF HandsOn
    <3>2. Len(Tail(Way)) = Len(Way) - 1 /\ Tail(Way)[Len(Way) - 1] = Way[Len(Way)]
      BY <1>4, <3>1
    <3> QED BY <2>1, <2>3, <3>2 DEF HandsOn
  <2>4. CASE Sends
    BY <1>5, <2>4 DEF Sends
  <2>5. ~Loses
    BY <1>3 DEF Loses
  <2>6. Way' = Way \/ Sends \/ HandsOn \/ Loses
    BY <1>3, WayMoves DEF Moves
  <2> QED BY <2>2, <2>3, <2>4, <2>5, <2>6
<1> QED BY <1>6, <1>7, AllSent

-----------------------------------------------------------------------------
(* The invariant                                                           *)

LEMMA InitDelivery == Init => DeliveryInv
<1> SUFFICES ASSUME Init PROVE DeliveryInv
  OBVIOUS
<1>1. ExitInv /\ LockInv
  BY DEF Init, ExitInv, LockInv, Nothing
<1>2. FailedInv
  <2>1. plan["out"] \in Nat /\ plan["err"] \in Nat
    BY SandboxAssumption DEF Init
  <2> QED BY <2>1 DEF Init, FailedInv, AppTasks, Streams
<1>3. Way = <<Nothing>>
  <2>1. <<>> \in Seq(Frames) /\ <<>> \o <<>> = <<>>
    BY Empty, WithNothing
  <2>2. Piped = <<>>
    BY <2>1 DEF Init, Piped, Slot
  <2>3. Unhanded = <<>>
    <3>1. childOut = <<>> /\ tasks["stdout"] = "running"
      BY DEF Init, AppTasks
    <3> QED BY <2>1, <2>2, <3>1 DEF Unhanded, Slot
  <2>4. Way = <<Nothing>> \o <<>>
    BY <2>1, <2>3 DEF Init, Way, Slot
  <2>5. <<Nothing>> \in Seq(Frames)
    BY NothingTyped, Single DEF Frames
  <2> QED BY <2>4, <2>5, WithNothing
<1>4. Deliverable(Nothing) /\ Before(Nothing, Nothing)
  BY DEF Init, Deliverable, Before, Nothing
<1>5. WayInv
  BY <1>3, <1>4 DEF WayInv, Ordered
<1>6. LastInv
  BY DEF Init, LastInv
<1> QED BY <1>1, <1>2, <1>5, <1>6 DEF DeliveryInv

\* Each part from the others, in the order they depend on one another.
LEMMA DeliveryStep == EndsInv /\ EndsInv' /\ DeliveryInv /\ Next => DeliveryInv'
<1> SUFFICES ASSUME EndsInv, EndsInv', DeliveryInv, Next PROVE DeliveryInv'
  OBVIOUS
<1>1. /\ ScalarTypes /\ RecordTypes /\ FunctionTypes /\ SequenceTypes
      /\ MessageInv /\ ReturnInv /\ SentInv /\ WriterInv /\ Accounted
  BY Types, OutputParts DEF EndsInv
<1>2. TypeOK' => RecordTypes' /\ SequenceTypes'
  BY Types, PTL
<1>3. RecordTypes' /\ SequenceTypes'
  BY <1>2 DEF EndsInv
<1>4. RecordTypes' /\ SequenceTypes' => WayTypes'
  BY WayTyped, PTL
<1>5. WayTypes /\ WayTypes'
  BY <1>1, <1>3, <1>4, WayTyped
<1>6. ExitInv /\ LockInv /\ CutInv /\ FoundInv /\ WayInv /\ LastInv
  BY FailedParts DEF DeliveryInv
<1>7. ExitInv' /\ LockInv'
  BY <1>1, <1>6, ExitStep, LockStep
<1>8. CutInv' /\ FoundInv'
  BY <1>1, <1>6, CutStep, FoundStep
<1>9. CutInv' /\ FoundInv' => FailedInv'
  BY FailedParts, PTL
<1>10. WayInv'
  BY <1>1, <1>3, <1>5, <1>6, WayStep
<1>11. LastInv'
  BY <1>1, <1>5, <1>6, LastStep
<1> QED BY <1>7, <1>8, <1>9, <1>10, <1>11 DEF DeliveryInv

LEMMA DeliveryStutter == DeliveryInv /\ UNCHANGED vars => DeliveryInv'
<1> SUFFICES ASSUME DeliveryInv, UNCHANGED vars PROVE DeliveryInv'
  OBVIOUS
<1>1. ExitInv' /\ LockInv' /\ FailedInv'
  BY DEF DeliveryInv, vars, ExitInv, Complete, LockInv, FailedInv
<1>2. Way' = Way /\ Complete' = Complete
  BY DEF vars, Way, Unhanded, Piped, Slot, Complete
<1>3. WayInv'
  BY <1>2 DEF DeliveryInv, vars, WayInv, Ordered, Deliverable
<1>4. LastInv'
  BY <1>2 DEF DeliveryInv, vars, LastInv
<1> QED BY <1>1, <1>3, <1>4 DEF DeliveryInv

\* The inductive invariant holds in every behaviour.
THEOREM StreamInvariance == Spec => []IInv
<1>1. Init => IInv
  BY InitInv, InitDelivery DEF IInv
<1>2. EndsInv /\ [Next]_vars => EndsInv'
  BY NextInv, StutterInv
<1>3. IInv /\ [Next]_vars => IInv'
  BY <1>2, DeliveryStep, DeliveryStutter DEF IInv
<1> QED BY <1>1, <1>3, PTL DEF Spec

-----------------------------------------------------------------------------
(* The promise                                                             *)

\* What is delivered next extends what was delivered last, and has been written.
LEMMA Extends ==
  ASSUME RecordTypes, FunctionTypes, OutputInv, WayTypes, WayInv, outcome = "none",
         HandsOn, delivered' \in Responses, Way[1] = delivered, Way'[1] = delivered'
  PROVE  \/ exit # "none" /\ delivered' = Complete
         \/ /\ ~delivered.exit
            /\ delivered' \in [out  : delivered.out .. written["out"],
                               err  : delivered.err .. written["err"],
                               exit : {FALSE}]
<1>1. Way \in Seq(Frames) /\ Way # <<>> /\ Len(Way) > 1
  BY DEF WayTypes, HandsOn
<1>2. Way'[1] = Way[2] /\ 1 \in 1..Len(Way) /\ 2 \in 1..Len(Way)
  BY <1>1 DEF HandsOn
<1>3. delivered \in Responses /\ delivered # Cut /\ delivered' # Cut
  BY SandboxAssumption DEF RecordTypes, Responses
<1>4. Before(delivered, delivered') /\ Deliverable(delivered')
  BY <1>2, <1>3 DEF WayInv, Ordered
<1>5. \A s \in Streams : response[s] <= written[s]
  BY ResponseWithin, OutputParts DEF Within
<1>6. delivered'.exit => exit # "none" /\ delivered' = Complete
  BY <1>4 DEF Deliverable
<1>7. /\ delivered'.out <= response.out /\ delivered'.err <= response.err
      /\ response.out <= written["out"] /\ response.err <= written["err"]
  BY <1>4, <1>5 DEF Deliverable, Before, Streams
<1>8. /\ written["out"] \in Nat /\ written["err"] \in Nat
      /\ response.out \in Nat /\ response.err \in Nat
  BY DEF RecordTypes, FunctionTypes, Responses, Streams
<1>9. ASSUME ~delivered'.exit
      PROVE  /\ ~delivered.exit
             /\ delivered' \in [out  : delivered.out .. written["out"],
                                err  : delivered.err .. written["err"],
                                exit : {FALSE}]
  <2>1. ~delivered.exit
    BY <1>4, <1>9 DEF Before
  <2>2. /\ delivered.out \in Nat /\ delivered'.out \in Nat
        /\ delivered.err \in Nat /\ delivered'.err \in Nat
        /\ delivered'.exit \in BOOLEAN
    BY <1>3 DEF Responses
  <2>3. /\ delivered'.out \in delivered.out .. written["out"]
        /\ delivered'.err \in delivered.err .. written["err"]
        /\ delivered'.exit \in {FALSE}
    <3>1. delivered.out <= delivered'.out /\ delivered.err <= delivered'.err
      BY <1>4 DEF Before
    <3>2. delivered'.out <= written["out"] /\ delivered'.err <= written["err"]
      BY <1>7, <1>8, <2>2
    <3>3. ASSUME NEW a \in Nat, NEW b \in Nat, NEW c \in Nat, a <= b, b <= c
          PROVE  b \in a .. c
      BY <3>3
    <3>4. /\ delivered'.out \in delivered.out .. written["out"]
          /\ delivered'.err \in delivered.err .. written["err"]
      BY <1>8, <2>2, <3>1, <3>2, <3>3
    <3> QED BY <1>9, <2>2, <3>4
  <2> QED BY <2>1, <2>3 DEF Responses
<1> QED BY <1>6, <1>9

\* The first on the way is what was delivered last.
LEMMA WayFirst == WayTypes => Way[1] = delivered
<1> SUFFICES ASSUME WayTypes PROVE Way[1] = delivered
  OBVIOUS
<1>1. Way = <<delivered>> \o Ahead
  BY DEF Way, Ahead
<1>2. Ahead \in Seq(Frames) /\ delivered \in Frames
  BY DEF WayTypes
<1> QED BY <1>1, <1>2, RestOfFirst

\* A run that succeeds has delivered all.
LEMMA Succeeds ==
  ASSUME IInv, WaitChild, outcome' = "ok"
  PROVE  exit # "none" /\ delivered = Complete
<1>1. /\ MessageInv /\ StdinInv /\ ReturnInv /\ WriterInv /\ AnswerInv /\ TypeOK
      /\ FailedInv /\ LastInv
  BY DEF IInv, EndsInv, DeliveryInv
<1>2. app = "waiting" /\ runner = "ok"
  BY DEF WaitChild, Returns, QueryOutcome, ExitOutcome
<1>3. outcome = "none" /\ ~GivenUp
  BY <1>1, <1>2 DEF ReturnInv, GivenUp
<1>4. main = "handled" /\ ~inbox.open
  BY <1>1, <1>2, <1>3 DEF WriterInv, StdinInv
<1>5. childOut = <<>> /\ tasks["stdout"] \notin InProcess
  BY <1>1, <1>2 DEF AnswerInv
<1>6. tasks["stdout"] # "failed"
  BY <1>1, <1>2, <1>3 DEF FailedInv, AppTasks
<1>7. Way = <<delivered>>
  BY <1>2, <1>5 DEF Way, Slot, Unhanded
<1>8. exit # "none" /\ Way[Len(Way)] = Complete
  BY <1>1, <1>2, <1>3, <1>4, <1>6 DEF LastInv
<1> QED BY <1>7, <1>8

\* The first state.
LEMMA InitMaps == Init => Stream!Init
  BY DEF Init, Stream!Init, Stream!Streams, Stream!Nothing, Streams, Nothing

\* Streaming fails.
LEMMA FailMaps ==
  ASSUME outcome = "none", outcome' \notin {"none", "ok"},
         UNCHANGED <<written, exit, delivered>>
  PROVE  Stream!Fail
  BY DEF Stream!Fail

LEMMA NothingMaps ==
  ASSUME UNCHANGED <<written, exit, delivered, outcome>>
  PROVE  UNCHANGED Stream!vars
  BY DEF Stream!vars

\* A response is delivered.
LEMMA DeliverMaps ==
  ASSUME IInv, IInv', Next, HandsOn, outcome = "none",
         UNCHANGED <<written, exit, outcome>>
  PROVE  Stream!Deliver
<1>1. RecordTypes /\ FunctionTypes /\ SequenceTypes /\ OutputInv /\ WayInv
  BY Types DEF IInv, EndsInv, DeliveryInv
<1>2. TypeOK' => RecordTypes' /\ SequenceTypes'
  BY Types, PTL
<1>3. RecordTypes' /\ SequenceTypes' => WayTypes'
  BY WayTyped, PTL
<1>4. WayTypes' => (Way[1] = delivered)'
  BY WayFirst, PTL
<1>5. RecordTypes' /\ SequenceTypes'
  BY <1>2 DEF IInv, EndsInv
<1>6. /\ WayTypes /\ Way[1] = delivered /\ Way'[1] = delivered'
      /\ delivered' \in Responses
  BY <1>1, <1>3, <1>4, <1>5, WayTyped, WayFirst DEF RecordTypes
<1>7. \/ exit # "none" /\ delivered' = Complete
      \/ /\ ~delivered.exit
         /\ delivered' \in [out  : delivered.out .. written["out"],
                            err  : delivered.err .. written["err"],
                            exit : {FALSE}]
  BY <1>1, <1>6, Extends
<1> QED BY <1>7 DEF Stream!Deliver, Stream!Complete, Complete

\* A step does what the promise allows, or nothing that it tells of.
Maps == Stream!Next \/ UNCHANGED Stream!vars

LEMMA NextMaps == IInv /\ IInv' /\ Next => Maps
<1> SUFFICES ASSUME IInv /\ IInv', Next PROVE Maps
  OBVIOUS
<1>0. ExitInv /\ ReturnInv /\ WayTypes /\ WayTypes' /\ RecordTypes
  <2>1. TypeOK' => RecordTypes' /\ SequenceTypes'
    BY Types, PTL
  <2>2. RecordTypes' /\ SequenceTypes' => WayTypes'
    BY WayTyped, PTL
  <2> QED BY <2>1, <2>2, Types, WayTyped DEF IInv, EndsInv, DeliveryInv
<1>1. ASSUME NEW s \in Streams, Write(s) PROVE Maps
  <2>1. exit = "none" /\ s \in Stream!Streams
    BY <1>1, <1>0 DEF Write, ExitInv, Stream!Streams, Streams
  <2>2. /\ written' = [written EXCEPT ![s] = @ + 1]
        /\ UNCHANGED <<exit, delivered, outcome>>
    BY <1>1 DEF Write
  <2> QED BY <2>1, <2>2 DEF Maps, Stream!Next, Stream!Write
<1>2. CASE ProgramEnds
  <2>1. exit = "none"
    BY <1>2, <1>0 DEF ProgramEnds, ExitInv
  <2> QED BY <1>2, <2>1 DEF ProgramEnds, Maps, Stream!Next, Stream!End
<1>3. CASE Kill
  <2>1. CASE program = "running"
    <3>1. exit = "none"
      BY <2>1, <1>0 DEF ExitInv
    <3> QED BY <1>3, <2>1, <3>1 DEF Kill, Maps, Stream!Next, Stream!End
  <2>2. CASE program # "running"
    BY <1>3, <2>2, NothingMaps DEF Kill, Maps
  <2> QED BY <2>1, <2>2
<1>4. CASE QueryDropped
  <2>1. \/ UNCHANGED <<written, exit, delivered, outcome>>
        \/ /\ outcome = "none" /\ outcome' \notin {"none", "ok"}
           /\ UNCHANGED <<written, exit, delivered>>
    BY <1>4, <1>0 DEF QueryDropped, Returns, ReturnInv
  <2> QED BY <2>1, NothingMaps, FailMaps DEF Maps, Stream!Next
<1>5. CASE SendMessage
  <2>1. \/ UNCHANGED <<written, exit, delivered, outcome>>
        \/ /\ outcome = "none" /\ outcome' \notin {"none", "ok"}
           /\ UNCHANGED <<written, exit, delivered>>
    BY <1>5, <1>0 DEF SendMessage, Returns, ReturnInv
  <2> QED BY <2>1, NothingMaps, FailMaps DEF Maps, Stream!Next
<1>6. CASE HandOn
  <2>0. outcome = "none"
    BY <1>6, <1>0 DEF HandOn, ReturnInv
  <2>1. CASE outcome' = "none"
    <3>1. HandsOn
      BY <1>6, <1>0, <2>1, HandOnMoves
    <3>2. UNCHANGED <<written, exit, outcome>>
      BY <1>6, <2>0, <2>1 DEF HandOn
    <3> QED BY <2>0, <3>1, <3>2, DeliverMaps DEF Maps, Stream!Next
  <2>2. CASE outcome' # "none"
    BY <1>6, <2>0, <2>2, FailMaps DEF HandOn, Returns, Maps, Stream!Next
  <2> QED BY <2>1, <2>2
<1>7. CASE JoinTask
  <2>1. \/ UNCHANGED <<written, exit, delivered, outcome>>
        \/ /\ outcome = "none" /\ outcome' \notin {"none", "ok"}
           /\ UNCHANGED <<written, exit, delivered>>
    BY <1>7, <1>0 DEF JoinTask, Returns, ReturnInv
  <2> QED BY <2>1, NothingMaps, FailMaps DEF Maps, Stream!Next
<1>8. CASE WaitChild
  <2>0. /\ outcome = "none" /\ outcome' # "none" /\ UNCHANGED <<written, exit, delivered>>
    BY <1>8, <1>0 DEF WaitChild, Returns, QueryOutcome, ExitOutcome, ReturnInv
  <2>1. CASE outcome' = "ok"
    <3>1. exit # "none" /\ delivered = Complete
      BY <1>8, <2>1, Succeeds
    <3> QED BY <2>0, <2>1, <3>1
       DEF Maps, Stream!Next, Stream!Succeed, Stream!Complete, Complete
  <2>2. CASE outcome' # "ok"
    BY <2>0, <2>2, FailMaps DEF Maps, Stream!Next
  <2> QED BY <2>1, <2>2
<1>9. CASE Collect
  <2>1. outcome = "none" /\ UNCHANGED <<written, exit, outcome>>
    BY <1>9, <1>0 DEF Collect, ReturnInv
  <2>2. HandsOn
    BY <1>9, <1>0, CollectMoves
  <2> QED BY <2>1, <2>2, DeliverMaps DEF Maps, Stream!Next
<1>10. CASE \/ \E s \in Streams : AppendOutput(s) \/ ReadOutput(s) \/ OutputEnds(s)
                  \/ SendOutput(s)
            \/ ConsumerLeaves \/ StartProgram \/ NoMessage
            \/ JoinReaders \/ RecordExit \/ SendExit
            \/ RunnerEnds \/ TakeResponse \/ WriteFrame
            \/ WriterEnds \/ ReadMessage \/ StdinEnds
            \/ DecodeFrame \/ SendDecoded \/ WriteMessage
            \/ StdinTaskEnds \/ ReceiveResponse \/ OutputClosed
            \/ TasksJoined \/ Collected
            \/ OutputTaskEnds("stdout") \/ OutputTaskEnds("stderr")
  BY <1>10, NothingMaps
  DEF AppendOutput, ReadOutput, OutputEnds, SendOutput, ConsumerLeaves,
        StartProgram, NoMessage, JoinReaders, RecordExit, SendExit, RunnerEnds,
        TakeResponse, WriteFrame, WriterEnds, ReadMessage, StdinEnds, DecodeFrame,
        SendDecoded, WriteMessage, StdinTaskEnds, ReceiveResponse, OutputClosed,
        TasksJoined, Collected, OutputTaskEnds, ExitStatus, FrameReady, TaskEnds,
        Handled, Appended, Maps
<1> QED BY <1>1, <1>2, <1>3, <1>4, <1>5, <1>6, <1>7, <1>8, <1>9, <1>10
     DEF Next, Readers, Main, Writer, Stdin, Stdout, RunCode

\* What run_code streams, and what a query for a version collects, is what the
\* program has written: it grows, is never ahead of it, and is all of it, with the
\* exit code, when they succeed.
THEOREM StreamImplements == Spec => ImplementsOutputStream
<1>1. IInv /\ IInv' /\ [Next]_vars => [Stream!Next]_Stream!vars
  <2>1. UNCHANGED vars => UNCHANGED Stream!vars
    BY NothingMaps DEF vars
  <2> QED BY <2>1, NextMaps DEF Maps
<1> QED BY <1>1, InitMaps, StreamInvariance, PTL
     DEF Spec, Stream!Spec, ImplementsOutputStream
===============================================================================
