----------------------------- MODULE MCConnection -----------------------------
(***************************************************************************)
(* Connection with two users, one of whom may reload its page.             *)
(***************************************************************************)
EXTENDS Connection, TLC

CONSTANTS a1, a2, b1, ann, bob

TwoUsers == [k \in Conns |-> IF k = b1 THEN bob ELSE ann]

\* What one behaviour is about.
Updating  == [updates |-> 2, choices |-> 0, timers |-> FALSE]
Choosing  == [updates |-> 0, choices |-> 2, timers |-> FALSE]
Both      == [updates |-> 1, choices |-> 1, timers |-> FALSE]
Attending == [updates |-> 0, choices |-> 0, timers |-> TRUE]

Changes    == {Updating, Choosing, Both}
Attendance == {Attending}
=============================================================================
