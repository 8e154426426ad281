------------------------------- MODULE MCCollab -------------------------------
(***************************************************************************)
(* Collab with the smallest operations that satisfy the laws of CollabLaws *)
(* and that do not commute: a document is one of two values, an operation  *)
(* writes one of them or moves only the cursor.                            *)
(***************************************************************************)
EXTENDS CollabLaws, TLC

CONSTANTS Values, a1, a2, b1, u1, u2,
          Cursor        \* the operation that writes nothing

OneSize(d) == 1

Write(d, op) == IF op = Cursor THEN d ELSE op

\* A write that happened first does nothing after one that comes later.
LaterWins(first, second) ==
  <<IF second = Cursor THEN first ELSE Cursor, second>>

Combine(first, second) == IF second = Cursor THEN first ELSE second

WriteOps == Values \cup {Cursor}

\* Users change the document.
Changes(d) == Values \ {d}

\* A user with a page and another one or its reload, and a second user.
Pages == (a1 :> u1) @@ (a2 :> u1) @@ (b1 :> u2)

OneOneTwo == (a1 :> 1) @@ (a2 :> 1) @@ (b1 :> 2)

AValue == CHOOSE v \in Values : TRUE

\* A behaviour has one page of each user, each opened once, or two pages of one
\* user that come and go.
VARIABLES pages,   \* the pages that may still be opened
          once     \* an opened page is not opened again

CastInit == /\ Init
            /\ \/ pages = {a1, b1} /\ once = TRUE
               \/ pages = {a1, a2} /\ once = FALSE

Opened == {c \in Clients : status[c] = "absent" /\ status'[c] # "absent"}

CastNext == /\ Next
            /\ Opened \subseteq pages
            /\ pages' = IF once THEN pages \ Opened ELSE pages
            /\ UNCHANGED once

CastSpec == CastInit /\ [][CastNext]_<<vars, pages, once>>
=============================================================================
