----------------------------- MODULE TextUpdates -----------------------------
(***************************************************************************)
(* Between the editor and operations: the changes the editor reports, as   *)
(* an operation; an operation, as changes for the editor; and the          *)
(* operation that leads from one document to another.                      *)
(* rust/transforms/src/xforms.rs and ops.rs.                               *)
(*                                                                         *)
(* The editor counts in units of UTF-16, two for some characters; the code *)
(* counts characters.  Neither the page nor the code converts.             *)
(***************************************************************************)
EXTENDS TextOps

Seqs == INSTANCE SequencesExt

CONSTANT Wide           \* the characters that are two units

\* The document as the editor has it, in units.
Units(s) == Seqs!FlattenSeq([i \in DOMAIN s |-> IF s[i] \in Wide
                                                  THEN <<<<s[i], 1>>, <<s[i], 2>>>>
                                                  ELSE <<<<s[i], 1>>>>])

\* A change replaces what is between two places of the old document.
Update(from, to, s) == [from |-> from, to |-> to, text |-> s]

\* The editor applies changes, whose places are all in the old document.
Dispatch(units, updates) ==
  LET ReadBefore(n) == IF n = 1 THEN 0 ELSE updates[n-1].to
  IN  Seqs!FlattenSeq([n \in 1..Len(updates) |->
                          SubSeq(units, ReadBefore(n) + 1, updates[n].from)
                            \o Units(updates[n].text)])
        \o SubSeq(units, ReadBefore(Len(updates) + 1) + 1, Len(units))

-----------------------------------------------------------------------------
Some(o) == IF Width(o) > 0 THEN <<o>> ELSE <<>>

\* Fault: a deletion comes before the insertion at the same place, and the place
\* is not kept.
ConvertFromStart(updates, prevDocLen) ==
  Seqs!FlattenSeq([n \in DOMAIN updates |->
                     Some(Retain(updates[n].from)) \o Some(Insert(updates[n].text))
                       \o Some(Delete(updates[n].to - updates[n].from))])
    \o Some(Retain(prevDocLen - IF updates = <<>> THEN 0 ELSE updates[Len(updates)].to))

\* What the changes leave alone is retained; an insertion comes before the
\* deletion at the same place.
TextUpdatesToTextOperation(updates, prevDocLen) ==
  LET ReadBefore(n) == IF n = 1 THEN 0 ELSE updates[n-1].to
  IN  Seqs!FlattenSeq([n \in DOMAIN updates |->
                         Some(Retain(updates[n].from - ReadBefore(n)))
                           \o Some(Insert(updates[n].text))
                           \o Some(Delete(updates[n].to - updates[n].from))])
        \o Some(Retain(prevDocLen - ReadBefore(Len(updates) + 1)))

\* Fault: a deletion does not move the place of what follows.
UpdatesBesideDeletions(ops) ==
  Seqs!FlattenSeq([n \in DOMAIN ops |->
    LET idx == InputLength(SelectSeq(SubSeq(ops, 1, n-1), LAMBDA o : o.kind = "Retain"))
    IN  CASE IsInsert(ops[n])         -> <<Update(idx, idx, ops[n].text)>>
          [] ops[n].kind = "Delete" -> <<Update(idx, idx + ops[n].count, <<>>)>>
          [] ops[n].kind = "Retain" -> <<>>])

\* One change for each insertion and deletion.
TextOperationTextUpdates(ops) ==
  Seqs!FlattenSeq([n \in DOMAIN ops |->
    LET idx == InputLength(SubSeq(ops, 1, n-1))
    IN  CASE IsInsert(ops[n])         -> <<Update(idx, idx, ops[n].text)>>
          [] ops[n].kind = "Delete" -> <<Update(idx, idx + ops[n].count, <<>>)>>
          [] ops[n].kind = "Retain" -> <<>>])

\* What the editor reports when its user does ops to s: in units, and with
\* changes that touch as one.
Reported(s, ops) ==
  LET updates  == TextOperationTextUpdates(ops)
      place(k) == Len(Units(SubSeq(s, 1, k)))
      report[n \in 0..Len(updates)] ==
        IF n = 0 THEN <<>>
        ELSE LET u    == Update(place(updates[n].from), place(updates[n].to), updates[n].text)
                 last == Len(report[n-1])
             IN  IF last > 0 /\ report[n-1][last].to = u.from
                   THEN [report[n-1] EXCEPT ![last] = Update(@.from, u.to, @.text \o u.text)]
                   ELSE Append(report[n-1], u)
  IN  report[Len(updates)]

-----------------------------------------------------------------------------
(* edit_ops                                                                *)

\* Characters an operation inserts or deletes.
CharsChanged(ops) ==
  LET sum[n \in 0..Len(ops)] ==
        IF n = 0 THEN 0 ELSE sum[n-1] + IF ops[n].kind = "Retain" THEN 0 ELSE Width(ops[n])
  IN  sum[Len(ops)]

\* The order of the entries of the matrix.
Cheaper(ops1, ops2) == CharsChanged(ops1) < CharsChanged(ops2)

\* The matrix of the edit distance: operations of one character that lead from
\* the first p[1] of s to the first p[2] of t.  Of two that cost the same, the
\* one that ends with an insertion.
Matrix(s, t) ==
  LET dp[p \in (0..Len(s)) \X (0..Len(t))] ==
        LET i == p[1]
            j == p[2]
            Deleted  == Append(dp[<<i-1, j>>], Delete(1))
            Inserted == Append(dp[<<i, j-1>>], Insert(<<t[j]>>))
        IN  CASE i = 0 /\ j = 0 -> <<>>
              [] i = 0 /\ j > 0 -> Inserted
              [] i > 0 /\ j = 0 -> Deleted
              [] i > 0 /\ j > 0 /\ s[i] = t[j] -> Append(dp[<<i-1, j-1>>], Retain(1))
              [] OTHER -> IF Cheaper(dp[<<i-1, j>>], dp[<<i, j-1>>]) THEN Deleted ELSE Inserted
  IN  dp

\* Operations of one character as operations of several.
OpsToCompoundOps(ops) == Condense(ops)

CommonPrefix(s, t) == Len(Seqs!LongestCommonPrefix({s, t}))

After(s, n) == SubSeq(s, n + 1, Len(s))

\* Fault: what both end with is looked for in the whole documents.
EndRetainsOfAll(s, t) == CommonPrefix(Seqs!Reverse(s), Seqs!Reverse(t))

\* What both end with, after what both begin with.
EndRetains(s, t) ==
  LET start == CommonPrefix(s, t)
  IN  CommonPrefix(Seqs!Reverse(After(s, start)), Seqs!Reverse(After(t, start)))

\* Only what is between is compared.
EditOps(s, t) ==
  LET start == CommonPrefix(s, t)
      end   == EndRetains(s, t)
      m     == SubSeq(s, start + 1, Len(s) - end)
      n     == SubSeq(t, start + 1, Len(t) - end)
  IN  Some(Retain(start)) \o OpsToCompoundOps(Matrix(m, n)[<<Len(m), Len(n)>>]) \o Some(Retain(end))
=============================================================================
