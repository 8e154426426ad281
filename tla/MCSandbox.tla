------------------------------- MODULE MCSandbox -------------------------------
(***************************************************************************)
(* Sandbox with programs that write too much to one stream, that write to  *)
(* both, and with a second message; and a query.                           *)
(***************************************************************************)
EXTENDS Sandbox

SmallPlans == {[query |-> FALSE, messages |-> 1, out |-> 2, err |-> 1],
               [query |-> FALSE, messages |-> 2, out |-> 1, err |-> 1],
               [query |-> TRUE,  messages |-> 1, out |-> 1, err |-> 0]}
=============================================================================
