----------------------------- MODULE MCExecution -----------------------------
(***************************************************************************)
(* Execution with two or three requests in one session, or with one in     *)
(* each of two sessions that share a permit.                               *)
(***************************************************************************)
EXTENDS Execution, TLC

CONSTANTS r1, r2, r3, s1, s2

OneSession == (r1 :> s1) @@ (r2 :> s1) @@ (r3 :> s1)

TwoRuns == (r1 :> s1) @@ (r2 :> s1)

Apart == (r1 :> s1) @@ (r2 :> s2)

Requests == Permutations({r1, r2, r3})
=============================================================================
