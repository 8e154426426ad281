------------------------------- MODULE Cursors -------------------------------
(***************************************************************************)
(* What an operation does to the cursors of other users:                   *)
(* rust/components/src/network/cursor.rs.  A cursor is a range of places   *)
(* between characters, place k to the right of the k-th; anchor and head   *)
(* are its ends.                                                           *)
(***************************************************************************)
EXTENDS TextOps

Cursor(n) == {c \in [from : 0..n, to : 0..n, anchor : 0..n, head : 0..n] :
                /\ c.from <= c.to
                /\ {c.anchor, c.head} = {c.from, c.to}}

Least(m, n) == IF m < n THEN m ELSE n

\* Fault: an insertion at the cursor is after it.
StrictlyBefore(idx, c) == idx < c.from

\* An insertion at place idx is before the range, also at its start.
Before(idx, c) == idx <= c.from

\* Fault: an insertion at the end of the range is in the range.
InsideToEnd(idx, c) == c.from < idx /\ idx <= c.to

\* It is in the range; at its end it is after it.
Inside(idx, c) == c.from < idx /\ idx < c.to

\* What an operation that starts at place idx of the old document does to the
\* range r.from..r.to, and to the length it is expected to have.
Shift(r, c, idx, o) ==
  CASE o.kind = "Retain" -> r
    [] IsInsert(o) /\ Before(idx, c) ->
         [r EXCEPT !.from = @ + Width(o), !.to = @ + Width(o)]
    [] IsInsert(o) /\ Inside(idx, c) ->
         [r EXCEPT !.to = @ + Width(o), !.highlight = @ + Width(o)]
    [] o.kind = "Delete" /\ idx <= c.from ->
         [from      |-> r.from - Least(o.count, c.from - idx),
          to        |-> r.to - Least(o.count, c.to - idx),
          highlight |-> IF c.from <= idx + o.count
                          THEN r.highlight - Least(r.highlight, idx + o.count - c.from)
                          ELSE r.highlight]
    [] o.kind = "Delete" /\ c.from < idx /\ idx <= c.to ->
         LET n == Least(o.count, c.to - idx)
         IN  [r EXCEPT !.to = @ - n, !.highlight = @ - n]
    [] OTHER -> r

\* The range after the whole operation.
Shifted(ops, c) ==
  LET after[n \in 0..Len(ops)] ==
        IF n = 0 THEN [from |-> c.from, to |-> c.to, highlight |-> c.to - c.from]
        ELSE Shift(after[n-1], c, InputLength(SubSeq(ops, 1, n-1)), ops[n])
  IN  after[Len(ops)]

\* transform_cursor, for a cursor that is in the document.
TransformCursor(ops, c) ==
  LET r == Shifted(ops, c)
  IN  IF c.anchor = c.from
        THEN [from |-> r.from, to |-> r.to, anchor |-> r.from, head |-> r.to]
        ELSE [from |-> r.from, to |-> r.to, anchor |-> r.to, head |-> r.from]
=============================================================================
