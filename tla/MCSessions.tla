----------------------------- MODULE MCSessions -----------------------------
(***************************************************************************)
(* Sessions with two pages.                                                *)
(***************************************************************************)
EXTENDS Sessions, TLC

CONSTANTS p1, p2

Opens == Permutations({p1, p2})
=============================================================================
