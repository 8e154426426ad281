------------------------------- MODULE TextOps -------------------------------
(***************************************************************************)
(* The operational transformation algorithms of rust/transforms: what a    *)
(* TextOperation does to a document, how two concurrent operations are     *)
(* transformed against each other, and how two consecutive ones are        *)
(* composed.  A document is a sequence of characters.  An operation is the *)
(* sequence of its compound operations; input_length and output_length,    *)
(* which from_ops stores, are computed from it.                            *)
(*                                                                         *)
(* The loops of the code walk two iterators whose heads are replaced by    *)
(* what is left of them.  Here the pair of remaining sequences is the      *)
(* argument of a recursive function.                                       *)
(***************************************************************************)
EXTENDS Integers, Sequences

CONSTANT Alphabet       \* the characters of documents

Text == Seq(Alphabet)

Retain(n) == [kind |-> "Retain", count |-> n]
Delete(n) == [kind |-> "Delete", count |-> n]
Insert(s) == [kind |-> "Insert", text |-> s]

\* No constructor in the code produces an empty compound operation.
CompoundOp == [kind : {"Retain", "Delete"}, count : Nat \ {0}]
                \cup [kind : {"Insert"}, text : Text \ {<<>>}]

IsInsert(o) == o.kind = "Insert"

\* Characters of the input (of the inserted text for an insertion) an
\* operation covers.
Width(o) == IF IsInsert(o) THEN Len(o.text) ELSE o.count

OpOutputLen(o) == IF o.kind = "Delete" THEN 0 ELSE Width(o)

ExpectedInputSize(o) == IF IsInsert(o) THEN 0 ELSE o.count

\* from_ops infers both lengths from the operations.
InputLength(ops) ==
  LET sum[n \in 0..Len(ops)] ==
        IF n = 0 THEN 0 ELSE sum[n-1] + ExpectedInputSize(ops[n])
  IN  sum[Len(ops)]

OutputLength(ops) ==
  LET sum[n \in 0..Len(ops)] ==
        IF n = 0 THEN 0 ELSE sum[n-1] + OpOutputLen(ops[n])
  IN  sum[Len(ops)]

-----------------------------------------------------------------------------
\* What is left of an operation after its first n characters.
Drop(o, n) == CASE IsInsert(o)        -> Insert(SubSeq(o.text, n+1, Len(o.text)))
                [] o.kind = "Retain" -> Retain(o.count - n)
                [] o.kind = "Delete" -> Delete(o.count - n)

\* What is left to walk of ops after n characters of its head.
Rest(ops, n) == IF n = Width(Head(ops))
                  THEN Tail(ops)
                  ELSE <<Drop(Head(ops), n)>> \o Tail(ops)

Shorter(o1, o2) == IF Width(o1) < Width(o2) THEN Width(o1) ELSE Width(o2)

\* Fault: of two insertions the later one remains.
MergeLater(o1, o2) == IF IsInsert(o1) THEN o2 ELSE [o1 EXCEPT !.count = @ + o2.count]

\* Consecutive operations of one kind become one.
Merge(o1, o2) == IF IsInsert(o1) THEN Insert(o1.text \o o2.text)
                                 ELSE [o1 EXCEPT !.count = @ + o2.count]

\* done with one operation more at its end.
Extended(done, o) == IF done # <<>> /\ done[Len(done)].kind = o.kind
                       THEN [done EXCEPT ![Len(done)] = Merge(@, o)]
                       ELSE Append(done, o)

Condense(ops) ==
  LET run[n \in 0..Len(ops)] == IF n = 0 THEN <<>> ELSE Extended(run[n-1], ops[n])
  IN  run[Len(ops)]

-----------------------------------------------------------------------------
\* apply: None of the operations reaches past the text when the lengths match,
\* which apply checks first.
CanApply(text, ops) == Len(text) = InputLength(ops)

TextApply(text, ops) ==
  LET \* at[n] is what the first n operations have read and written
      at[n \in 0..Len(ops)] ==
        IF n = 0 THEN [read |-> 0, out |-> <<>>]
        ELSE LET prev == at[n-1]
                 o    == ops[n]
             IN  [read |-> prev.read + ExpectedInputSize(o),
                  out  |-> prev.out \o
                             CASE IsInsert(o)        -> o.text
                               [] o.kind = "Delete" -> <<>>
                               [] o.kind = "Retain" ->
                                    SubSeq(text, prev.read + 1,
                                                 prev.read + o.count)]
  IN  at[Len(ops)].out

-----------------------------------------------------------------------------
\* transform: ops1 is the server's operation and "happens before" ops2, so an
\* insertion of ops1 precedes one of ops2 at the same place.
CanTransform(ops1, ops2) == InputLength(ops1) = InputLength(ops2)

\* Fault: what the second operation retains of a deletion stays retained.
OverlapRetains(k1, k2, n) ==
  CASE k1 = "Retain" /\ k2 = "Retain" -> <<<<Retain(n)>>, <<Retain(n)>>>>
    [] k1 = "Delete" /\ k2 = "Delete" -> <<<<>>, <<>>>>
    [] k1 = "Delete" /\ k2 = "Retain" -> <<<<Delete(n)>>, <<Retain(n)>>>>
    [] k1 = "Retain" /\ k2 = "Delete" -> <<<<>>, <<Delete(n)>>>>

\* What one step over an overlap of n characters gives to each result.
Overlap(k1, k2, n) ==
  CASE k1 = "Retain" /\ k2 = "Retain" -> <<<<Retain(n)>>, <<Retain(n)>>>>
    [] k1 = "Delete" /\ k2 = "Delete" -> <<<<>>, <<>>>>
    [] k1 = "Delete" /\ k2 = "Retain" -> <<<<Delete(n)>>, <<>>>>
    [] k1 = "Retain" /\ k2 = "Delete" -> <<<<>>, <<Delete(n)>>>>

\* One round of the loop over what is left of both operations; walk is what the
\* further rounds give.
TransformRound(walk, p) ==
  LET o1 == Head(p[1])
      o2 == Head(p[2])
      n  == Shorter(o1, o2)
      inserts1 == p[1] # <<>> /\ IsInsert(o1)
      inserts2 == p[2] # <<>> /\ IsInsert(o2)
      Emit(step, rest) == <<step[1] \o rest[1], step[2] \o rest[2]>>
  IN  CASE inserts1 ->
             Emit(<<<<o1>>, <<Retain(Width(o1))>>>>, walk[<<Tail(p[1]), p[2]>>])
        [] ~inserts1 /\ inserts2 ->
             Emit(<<<<Retain(Width(o2))>>, <<o2>>>>, walk[<<p[1], Tail(p[2])>>])
        [] ~inserts1 /\ ~inserts2 /\ p[1] # <<>> /\ p[2] # <<>> ->
             Emit(Overlap(o1.kind, o2.kind, n), walk[<<Rest(p[1], n), Rest(p[2], n)>>])
        \* At the end of both: operations of one input length end together.
        [] OTHER -> <<<<>>, <<>>>>

TransformOps ==
  LET walk[p \in Seq(CompoundOp) \X Seq(CompoundOp)] == TransformRound(walk, p)
  IN  walk

\* Fault: the second operation counts as the earlier one.
TransformSecondFirst(ops1, ops2) ==
  LET both == TransformOps[<<ops2, ops1>>]
  IN  <<Condense(both[2]), Condense(both[1])>>

TextTransform(ops1, ops2) ==
  LET both == TransformOps[<<ops1, ops2>>]
  IN  <<Condense(both[1]), Condense(both[2])>>

-----------------------------------------------------------------------------
\* compose: one operation for ops1 followed by ops2.  The remainder of a
\* retention longer than the insertion it meets continues as a deletion, as in
\* the code.
CanCompose(ops1, ops2) == OutputLength(ops1) = InputLength(ops2)

\* Fault: the remainder of the retention is dropped.
RestOfRetainDropped(ops2, n) == Tail(ops2)

RestOfRetain(ops2, n) == IF n = Width(Head(ops2))
                           THEN Tail(ops2)
                           ELSE <<Delete(Head(ops2).count - n)>> \o Tail(ops2)

\* One round of the loop over what is left of both operations.
ComposeRound(walk, p) ==
  LET o1 == Head(p[1])
      o2 == Head(p[2])
      n  == Shorter(o1, o2)
      deletes1 == p[1] # <<>> /\ o1.kind = "Delete"
      inserts2 == p[2] # <<>> /\ IsInsert(o2)
      meet     == p[1] # <<>> /\ p[2] # <<>> /\ ~deletes1 /\ ~inserts2
  IN  CASE p[1] = <<>> -> p[2]
        [] deletes1 -> <<o1>> \o walk[<<Tail(p[1]), p[2]>>]
        [] p[1] # <<>> /\ ~deletes1 /\ p[2] = <<>> -> p[1]
        [] p[1] # <<>> /\ ~deletes1 /\ inserts2 -> <<o2>> \o walk[<<p[1], Tail(p[2])>>]
        [] meet /\ IsInsert(o1) /\ o2.kind = "Delete" ->
             walk[<<Rest(p[1], n), Rest(p[2], n)>>]
        [] meet /\ IsInsert(o1) /\ o2.kind = "Retain" ->
             <<Insert(SubSeq(o1.text, 1, n))>> \o walk[<<Rest(p[1], n), RestOfRetain(p[2], n)>>]
        [] meet /\ o1.kind = "Retain" ->
             <<[o2 EXCEPT !.count = n]>> \o walk[<<Rest(p[1], n), Rest(p[2], n)>>]

ComposeOps ==
  LET walk[p \in Seq(CompoundOp) \X Seq(CompoundOp)] == ComposeRound(walk, p)
  IN  walk

TextCompose(ops1, ops2) == ComposeOps[<<ops1, ops2>>]

=============================================================================
