----------------------------- MODULE OutputStream -----------------------------
(***************************************************************************)
(* What streaming the output of a program promises: what is delivered      *)
(* grows, is never ahead of the program, and is all of it when streaming   *)
(* succeeds.                                                               *)
(***************************************************************************)
EXTENDS Naturals

VARIABLES
  written,     \* what the program has written, to each of its streams
  exit,        \* how it has ended, if it has
  delivered,   \* the response delivered last
  outcome      \* of streaming: none, ok or failed

vars == <<written, exit, delivered, outcome>>

Streams == {"out", "err"}
Nothing == [out |-> 0, err |-> 0, exit |-> FALSE]

\* The response that tells everything.
Complete == [out |-> written["out"], err |-> written["err"], exit |-> exit = "code"]

Init == /\ written = [s \in Streams |-> 0]
        /\ exit = "none"
        /\ delivered = Nothing
        /\ outcome = "none"

Write == /\ exit = "none"
         /\ \E s \in Streams : written' = [written EXCEPT ![s] = @ + 1]
         /\ UNCHANGED <<exit, delivered, outcome>>

End == /\ exit = "none"
       /\ exit' \in {"code", "signal"}
       /\ UNCHANGED <<written, delivered, outcome>>

\* A response extends the one before; only a complete one has an exit code.
Deliver ==
  /\ outcome = "none"
  /\ \/ /\ exit # "none"
        /\ delivered' = Complete
     \/ /\ ~delivered.exit
        /\ delivered' \in [out  : delivered.out .. written["out"],
                           err  : delivered.err .. written["err"],
                           exit : {FALSE}]
  /\ UNCHANGED <<written, exit, outcome>>

Succeed == /\ outcome = "none"
           /\ exit # "none"
           /\ delivered = Complete
           /\ outcome' = "ok"
           /\ UNCHANGED <<written, exit, delivered>>

Fail == /\ outcome = "none"
        /\ outcome' = "failed"
        /\ UNCHANGED <<written, exit, delivered>>

Next == Write \/ End \/ Deliver \/ Succeed \/ Fail

Spec == Init /\ [][Next]_vars
=============================================================================
