----------------------------- MODULE MCCollabText -----------------------------
(***************************************************************************)
(* Collab with the operations of TextOps: users insert and delete single   *)
(* characters.                                                             *)
(***************************************************************************)
EXTENDS Collab, TextOps, TLC

CONSTANTS c1, c2, u1, u2

TextDoc == Seq(Alphabet \cup {"x"})
TextOp  == Seq(CompoundOp)

TextSize(d) == Len(d)

Keep(n) == IF n = 0 THEN <<>> ELSE <<Retain(n)>>

\* What text_updates_to_text_operation makes of one change of the editor.
Insertions(d) == {Keep(p) \o <<Insert(<<a>>)>> \o Keep(Len(d) - p) :
                    p \in 0..Len(d), a \in Alphabet}
Deletions(d)  == {Keep(p) \o <<Delete(1)>> \o Keep(Len(d) - p - 1) :
                    p \in 0..(Len(d) - 1)}
TextEdits(d) == Insertions(d) \cup Deletions(d)

OneChar == <<"x">>

OwnPages == (c1 :> u1) @@ (c2 :> u2)

TwoAndOne == (c1 :> 2) @@ (c2 :> 1)

TwoEach == (c1 :> 2) @@ (c2 :> 2)

-----------------------------------------------------------------------------
Count(a, d) == Cardinality({i \in DOMAIN d : d[i] = a})

\* The panic in try_ack_client_op: where the operation that comes back is not
\* the client's, though no overlap and no repeated update has disturbed the
\* client, the two disagree about places only.  Both fit the document before, and
\* keep, insert and delete the same characters.
AckDiffersInPlaceOnly ==
  \A c \in Clients : Undisturbed(c) /\ ToReceive(c) /\ IsAck(c) =>
    LET before == DocAt(Update(c).state - 1)
        mine   == clientBridge[c][1].op
    IN  /\ InLen(mine) = Size(before)
        /\ \A a \in Alphabet \cup {"x"} :
             Count(a, Apply(before, mine)) = Count(a, Apply(before, Update(c).op))
=============================================================================
