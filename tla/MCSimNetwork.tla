----------------------------- MODULE MCSimNetwork -----------------------------
(***************************************************************************)
(* SimNetwork with two or three clients.                                   *)
(***************************************************************************)
EXTENDS SimNetwork

CONSTANTS c1, c2, c3
=============================================================================
