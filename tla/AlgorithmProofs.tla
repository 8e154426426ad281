--------------------------- MODULE AlgorithmProofs ---------------------------
(***************************************************************************)
(* Theorems about the algorithms that MCTextOps evaluates, for documents,  *)
(* operations, cursors and requests of any size: transform leads both      *)
(* users to one document, keeps what they meant and which text comes       *)
(* first, a wrong composition is too short, a cursor follows its text, the *)
(* editor and the client keep one document, and what the bucket of         *)
(* RateLimiter limits.                                                     *)
(***************************************************************************)
EXTENDS MCTextOps, Recursion

-----------------------------------------------------------------------------
(* Lengths and application, one operation after the other                  *)

Operations == Seq(CompoundOp)

LEMMA Sizes ==
  ASSUME NEW o \in CompoundOp
  PROVE  /\ Width(o) \in Nat \ {0}
         /\ ExpectedInputSize(o) \in Nat
         /\ IsInsert(o) => o.text \in Text /\ ExpectedInputSize(o) = 0
         /\ ~IsInsert(o) => /\ o.kind \in {"Retain", "Delete"} /\ o.count \in Nat \ {0}
                            /\ ExpectedInputSize(o) = o.count /\ Width(o) = o.count
  BY DEF CompoundOp, Width, ExpectedInputSize, IsInsert, Text

IsInputSum(f, q) ==
  f = [n \in 0..Len(q) |-> IF n = 0 THEN 0 ELSE f[n-1] + ExpectedInputSize(q[n])]

\* The length of the input is a sum.
LEMMA InputSum ==
  ASSUME NEW q \in Operations
  PROVE  \E f : IsInputSum(f, q) /\ InputLength(q) = f[Len(q)]
<1> DEFINE step == [n \in 1..Len(q) |-> [y \in Nat |-> y + ExpectedInputSize(q[n])]]
<1>1. Len(q) \in Nat /\ \A n \in 1..Len(q) : ExpectedInputSize(q[n]) \in Nat
  BY Sizes DEF Operations
<1>2. step \in [1..Len(q) -> [Nat -> Nat]]
  BY <1>1
<1>3. PICK f : f \in Folds(Len(q), Nat, 0, step)
  <2>1. \A x \in Nat : Folds(Len(q), Nat, x, step) # {}
    <3> HIDE DEF step
    <3> QED BY <1>1, <1>2, FoldExists, Zenon
  <2> HIDE DEF step
  <2> QED BY <2>1
<1>4. \A n \in 0..Len(q) : f[n] = IF n = 0 THEN 0 ELSE f[n-1] + ExpectedInputSize(q[n])
  <2>1. f \in [0..Len(q) -> Nat] /\ f[0] = 0 /\ \A n \in 1..Len(q) : f[n] = step[n][f[n-1]]
    BY <1>3 DEF Folds
  <2>2. ASSUME NEW n \in 1..Len(q) PROVE f[n] = f[n-1] + ExpectedInputSize(q[n])
    <3>1. f[n-1] \in Nat
      <4> HIDE DEF step
      <4> QED BY <1>1, <2>1
    <3> QED BY <2>1, <3>1
  <2> HIDE DEF step
  <2> QED BY <1>1, <2>1, <2>2
<1>5. IsInputSum(f, q)
  BY <1>3, <1>4 DEF Folds, IsInputSum
<1> QED BY <1>5 DEF InputLength, IsInputSum

LEMMA InputSumStep ==
  ASSUME NEW f, NEW q \in Operations, IsInputSum(f, q)
  PROVE  f[0] = 0 /\ \A n \in 1..Len(q) : f[n] = f[n-1] + ExpectedInputSize(q[n])
<1>1. Len(q) \in Nat
  BY DEF Operations
<1> QED BY <1>1 DEF IsInputSum

LEMMA InputLengthType ==
  ASSUME NEW q \in Operations
  PROVE  InputLength(q) \in Nat
<1>1. Len(q) \in Nat /\ \A n \in 1..Len(q) : ExpectedInputSize(q[n]) \in Nat
  BY Sizes DEF Operations
<1>2. PICK f : IsInputSum(f, q) /\ InputLength(q) = f[Len(q)]
  BY InputSum
<1>3. f[0] = 0 /\ \A n \in 1..Len(q) : f[n] = f[n-1] + ExpectedInputSize(q[n])
  BY <1>2, InputSumStep
<1>4. f[0] \in Nat /\ \A n \in 1..Len(q) : f[n-1] \in Nat => f[n] \in Nat
  BY <1>1, <1>3
<1>5. \A n \in 0..Len(q) : f[n] \in Nat
  BY <1>1, <1>4, FoldTyped
<1> QED BY <1>1, <1>2, <1>5

LEMMA InputLengthAppend ==
  ASSUME NEW q \in Operations, NEW o \in CompoundOp
  PROVE  InputLength(Append(q, o)) = InputLength(q) + ExpectedInputSize(o)
<1> DEFINE r == Append(q, o)
<1>1. /\ r \in Operations /\ Len(q) \in Nat /\ Len(r) = Len(q) + 1
      /\ r[Len(q) + 1] = o /\ \A n \in 1..Len(q) : r[n] = q[n]
  BY AppendProperties DEF Operations
<1>2. PICK f : IsInputSum(f, q) /\ InputLength(q) = f[Len(q)]
  BY InputSum
<1> HIDE DEF r
<1>3. PICK g : IsInputSum(g, r) /\ InputLength(r) = g[Len(r)]
  BY <1>1, InputSum
<1>4. f[0] = 0 /\ \A n \in 1..Len(q) : f[n] = f[n-1] + ExpectedInputSize(q[n])
  BY <1>1, <1>2 DEF IsInputSum
<1>5. g[0] = 0 /\ \A n \in 1..Len(r) : g[n] = g[n-1] + ExpectedInputSize(r[n])
  BY <1>1, <1>3 DEF IsInputSum
<1>6. SameSteps(f, g, Len(q))
  BY <1>1, <1>4, <1>5 DEF SameSteps
<1>7. SameValues(f, g, Len(q))
  BY <1>1, <1>6, Alike
<1>8. g[Len(r)] = g[Len(q)] + ExpectedInputSize(o)
  BY <1>1, <1>5
<1> QED BY <1>1, <1>2, <1>3, <1>7, <1>8 DEF r, SameValues

LEMMA InputLengthEmpty == InputLength(<<>>) = 0
<1>1. <<>> \in Operations /\ Len(<<>>) = 0
  BY EmptySeq DEF Operations
<1>2. PICK f : IsInputSum(f, <<>>) /\ InputLength(<<>>) = f[Len(<<>>)]
  BY <1>1, InputSum
<1> QED BY <1>1, <1>2 DEF IsInputSum

\* What is read never passes the whole.
LEMMA SumsGrow ==
  ASSUME NEW q \in Operations, NEW f, IsInputSum(f, q)
  PROVE  \A n \in 0..Len(q) : f[n] \in Nat /\ f[n] <= f[Len(q)]
<1>1. Len(q) \in Nat /\ \A n \in 1..Len(q) : ExpectedInputSize(q[n]) \in Nat
  BY Sizes DEF Operations
<1>2. f[0] = 0 /\ \A n \in 1..Len(q) : f[n] = f[n-1] + ExpectedInputSize(q[n])
  BY <1>1 DEF IsInputSum
<1>3. f[0] \in Nat /\ \A n \in 1..Len(q) : f[n-1] \in Nat => f[n] \in Nat
  BY <1>1, <1>2
<1>4. \A n \in 0..Len(q) : f[n] \in Nat
  BY <1>1, <1>3, FoldTyped
<1> DEFINE S == {n \in Nat : n <= Len(q) => \A m \in 0..n : f[m] <= f[n]}
<1>5. 0 \in S
  BY <1>4
<1>6. ASSUME NEW n \in Nat, n \in S PROVE n+1 \in S
  <2> SUFFICES ASSUME n+1 <= Len(q), NEW m \in 0..(n+1) PROVE f[m] <= f[n+1]
    OBVIOUS
  <2>1. n+1 \in 1..Len(q) /\ n \in 0..Len(q) /\ n+1 \in 0..Len(q) /\ m \in 0..Len(q) /\ (n+1)-1 = n
    BY <1>1
  <2>2. f[n+1] = f[n] + ExpectedInputSize(q[n+1])
    BY <1>2, <2>1
  <2>3. f[n] <= f[n+1]
    BY <1>1, <1>4, <2>1, <2>2
  <2>4. m # n+1 => f[m] <= f[n]
    BY <1>1, <1>6, <2>1
  <2> QED BY <1>4, <2>1, <2>3, <2>4
<1>7. Nat \subseteq S
  <2> HIDE DEF S
  <2> QED BY <1>5, <1>6, Induction
<1> QED BY <1>1, <1>4, <1>7

\* What o writes once r characters of s have been read.
Written(s, r, o) == CASE IsInsert(o)        -> o.text
                      [] o.kind = "Delete" -> <<>>
                      [] o.kind = "Retain" -> SubSeq(s, r + 1, r + o.count)

LEMMA WrittenType ==
  ASSUME NEW s \in Text, NEW r \in Nat, NEW o \in CompoundOp,
         r + ExpectedInputSize(o) <= Len(s)
  PROVE  Written(s, r, o) \in Text
<1>1. CASE IsInsert(o)
  <2>1. Written(s, r, o) = o.text
    BY <1>1 DEF Written, IsInsert
  <2> QED BY <1>1, <2>1, Sizes
<1>2. CASE o.kind = "Delete"
  BY <1>2, EmptySeq DEF Written, IsInsert, Text
<1>3. CASE o.kind = "Retain"
  <2>1. o.count \in Nat /\ ExpectedInputSize(o) = o.count
    BY <1>3, Sizes DEF IsInsert
  <2>2. SubSeq(s, r + 1, r + o.count) \in Text
    BY <2>1 DEF Text
  <2> QED BY <1>3, <2>2 DEF Written, IsInsert
<1> QED BY <1>1, <1>2, <1>3, Sizes

IsApplied(f, s, q) ==
  f = [n \in 0..Len(q) |->
         IF n = 0 THEN [read |-> 0, out |-> <<>>]
         ELSE [read |-> f[n-1].read + ExpectedInputSize(q[n]),
               out  |-> f[n-1].out \o Written(s, f[n-1].read, q[n])]]

LEMMA AppliedStep ==
  ASSUME NEW f, NEW s, NEW q \in Operations, IsApplied(f, s, q), NEW n \in 1..Len(q)
  PROVE  f[n] = [read |-> f[n-1].read + ExpectedInputSize(q[n]),
                 out  |-> f[n-1].out \o Written(s, f[n-1].read, q[n])]
<1> DEFINE next(i) == [read |-> f[i-1].read + ExpectedInputSize(q[i]),
                       out  |-> f[i-1].out \o Written(s, f[i-1].read, q[i])]
<1>1. f = [i \in 0..Len(q) |-> IF i = 0 THEN [read |-> 0, out |-> <<>>] ELSE next(i)]
  BY DEF IsApplied
<1>2. n \in 0..Len(q) /\ n # 0
  BY DEF Operations
<1> HIDE DEF next
<1>3. f[n] = next(n)
  BY <1>1, <1>2
<1> QED BY <1>3 DEF next

\* Application goes from one operation to the next.
LEMMA ApplySteps ==
  ASSUME NEW s \in Text, NEW q \in Operations, InputLength(q) <= Len(s)
  PROVE  \E f : /\ IsApplied(f, s, q)
                /\ f[Len(q)].read = InputLength(q)
                /\ f[Len(q)].out \in Text
                /\ TextApply(s, q) = f[Len(q)].out
<1>1. /\ Len(q) \in Nat /\ Len(s) \in Nat
      /\ \A n \in 1..Len(q) : q[n] \in CompoundOp /\ ExpectedInputSize(q[n]) \in Nat
  BY Sizes DEF Operations, Text
<1>2. PICK g : IsInputSum(g, q) /\ InputLength(q) = g[Len(q)]
  BY InputSum
<1>3. g[0] = 0 /\ \A n \in 1..Len(q) : g[n] = g[n-1] + ExpectedInputSize(q[n])
  BY <1>2, InputSumStep
<1>4. \A n \in 0..Len(q) : g[n] \in Nat /\ g[n] <= Len(s)
  <2>1. \A n \in 0..Len(q) : g[n] \in Nat /\ g[n] <= g[Len(q)]
    BY <1>2, SumsGrow
  <2>2. g[Len(q)] \in Nat
    BY <1>2, InputLengthType
  <2> QED BY <1>1, <1>2, <2>1, <2>2
<1> DEFINE V == [read : Nat, out : Text]
           w(n) == Written(s, g[n-1], q[n])
           step == [n \in 1..Len(q) |-> [y \in V |-> [read |-> g[n], out |-> y.out \o w(n)]]]
           x == [read |-> 0, out |-> <<>>]
<1>5. ASSUME NEW n \in 1..Len(q) PROVE w(n) \in Text
  <2>1. n-1 \in 0..Len(q) /\ n \in 0..Len(q) /\ q[n] \in CompoundOp
    BY <1>1
  <2>2. g[n-1] \in Nat /\ g[n] <= Len(s) /\ g[n] = g[n-1] + ExpectedInputSize(q[n])
    BY <1>3, <1>4, <2>1
  <2> QED BY <2>1, <2>2, WrittenType
<1>6. step \in [1..Len(q) -> [V -> V]]
  <2>1. ASSUME NEW n \in 1..Len(q), NEW y \in V
        PROVE  [read |-> g[n], out |-> y.out \o w(n)] \in V
    <3>1. y.out \o w(n) \in Text
      BY <1>5, ConcatProperties DEF Text
    <3>2. g[n] \in Nat
      BY <1>1, <1>4
    <3> HIDE DEF w
    <3> QED BY <3>1, <3>2
  <2> HIDE DEF V, w
  <2> QED BY <2>1
<1>7. x \in V
  BY EmptySeq DEF Text
<1>8. PICK f : f \in Folds(Len(q), V, x, step)
  <2> HIDE DEF V, x, step
  <2> QED BY <1>1, <1>6, <1>7, FoldExists
<1>9. f \in [0..Len(q) -> V] /\ f[0] = x /\ \A n \in 1..Len(q) : f[n] = step[n][f[n-1]]
  <2> HIDE DEF V, x, step
  <2> QED BY <1>8 DEF Folds
<1>10. ASSUME NEW n \in 1..Len(q)
       PROVE  f[n] = [read |-> g[n], out |-> f[n-1].out \o w(n)]
  <2>1. f[n-1] \in V
    <3> HIDE DEF V, x, step, w
    <3> QED BY <1>1, <1>9
  <2> HIDE DEF V, w
  <2> QED BY <1>9, <2>1
<1>11. ASSUME NEW n \in 0..Len(q) PROVE f[n].read = g[n]
  <2>1. CASE n = 0
    BY <1>3, <1>9, <2>1
  <2>2. CASE n # 0
    <3>1. n \in 1..Len(q)
      BY <1>1, <2>2
    <3>2. f[n] = [read |-> g[n], out |-> f[n-1].out \o w(n)]
      BY <1>10, <3>1
    <3> QED BY <3>2
  <2> QED BY <2>1, <2>2
<1>12. \A n \in 0..Len(q) : f[n] = IF n = 0 THEN [read |-> 0, out |-> <<>>]
         ELSE [read |-> f[n-1].read + ExpectedInputSize(q[n]),
               out  |-> f[n-1].out \o Written(s, f[n-1].read, q[n])]
  <2>1. ASSUME NEW n \in 1..Len(q)
        PROVE  f[n] = [read |-> f[n-1].read + ExpectedInputSize(q[n]),
                       out  |-> f[n-1].out \o Written(s, f[n-1].read, q[n])]
    <3>1. f[n-1].read = g[n-1] /\ g[n] = g[n-1] + ExpectedInputSize(q[n])
      BY <1>1, <1>3, <1>11
    <3> QED BY <1>10, <3>1
  <2>2. f[0] = [read |-> 0, out |-> <<>>]
    BY <1>9
  <2>3. \A n \in 0..Len(q) : n = 0 \/ n \in 1..Len(q)
    BY <1>1
  <2> QED BY <2>1, <2>2, <2>3
<1>13. IsApplied(f, s, q)
  <2>1. f = [n \in 0..Len(q) |-> f[n]]
    <3> HIDE DEF V
    <3> QED BY <1>9
  <2> QED BY <1>12, <2>1 DEF IsApplied
<1>14. f[Len(q)].read = InputLength(q) /\ f[Len(q)].out \in Text
  <2>1. f[Len(q)] \in V /\ Len(q) \in 0..Len(q)
    BY <1>1, <1>9, SMTT(30)
  <2> QED BY <1>2, <1>11, <2>1
<1> HIDE DEF V, x, step, w
<1>15. PICK h : IsApplied(h, s, q) /\ TextApply(s, q) = h[Len(q)].out
  BY <1>13 DEF TextApply, IsApplied, Written
<1>16. SameSteps(f, h, Len(q))
  <2>1. f[0] = h[0]
    BY <1>1, <1>13, <1>15 DEF IsApplied
  <2>2. ASSUME NEW n \in 1..Len(q), f[n-1] = h[n-1] PROVE f[n] = h[n]
    <3>1. f[n] = [read |-> f[n-1].read + ExpectedInputSize(q[n]),
                  out  |-> f[n-1].out \o Written(s, f[n-1].read, q[n])]
      BY <1>13, AppliedStep
    <3>2. h[n] = [read |-> h[n-1].read + ExpectedInputSize(q[n]),
                  out  |-> h[n-1].out \o Written(s, h[n-1].read, q[n])]
      BY <1>15, AppliedStep
    <3> QED BY <2>2, <3>1, <3>2, Zenon
  <2> QED BY <2>1, <2>2 DEF SameSteps
<1>17. SameValues(f, h, Len(q))
  BY <1>1, <1>16, Alike
<1>18. f[Len(q)] = h[Len(q)]
  BY <1>1, <1>17 DEF SameValues
<1> QED BY <1>13, <1>14, <1>15, <1>18

LEMMA ApplyType ==
  ASSUME NEW s \in Text, NEW q \in Operations, InputLength(q) <= Len(s)
  PROVE  TextApply(s, q) \in Text
  BY ApplySteps

LEMMA ApplyEmpty ==
  ASSUME NEW s \in Text
  PROVE  TextApply(s, <<>>) = <<>>
<1>1. <<>> \in Operations /\ Len(<<>>) = 0 /\ InputLength(<<>>) <= Len(s)
  BY EmptySeq, InputLengthEmpty DEF Operations, Text
<1>2. PICK f : IsApplied(f, s, <<>>) /\ TextApply(s, <<>>) = f[Len(<<>>)].out
  BY <1>1, ApplySteps
<1> QED BY <1>1, <1>2 DEF IsApplied

LEMMA ApplyAppend ==
  ASSUME NEW s \in Text, NEW q \in Operations, NEW o \in CompoundOp,
         InputLength(q) + ExpectedInputSize(o) <= Len(s)
  PROVE  TextApply(s, Append(q, o)) = TextApply(s, q) \o Written(s, InputLength(q), o)
<1> DEFINE r == Append(q, o)
<1>1. /\ r \in Operations /\ Len(q) \in Nat /\ Len(r) = Len(q) + 1
      /\ r[Len(q) + 1] = o /\ \A n \in 1..Len(q) : r[n] = q[n]
  BY AppendProperties DEF Operations
<1>2. /\ InputLength(r) = InputLength(q) + ExpectedInputSize(o)
      /\ InputLength(q) <= Len(s) /\ InputLength(r) <= Len(s)
  BY InputLengthAppend, InputLengthType, Sizes DEF Text
<1>3. PICK f : /\ IsApplied(f, s, q) /\ TextApply(s, q) = f[Len(q)].out
               /\ f[Len(q)].read = InputLength(q)
  BY <1>2, ApplySteps
<1> HIDE DEF r
<1>4. PICK g : IsApplied(g, s, r) /\ TextApply(s, r) = g[Len(r)].out
  BY <1>1, <1>2, ApplySteps
<1>5. f[0] = g[0]
  BY <1>1, <1>3, <1>4 DEF IsApplied
<1>6. ASSUME NEW n \in 1..Len(q), f[n-1] = g[n-1] PROVE f[n] = g[n]
  <2>1. n \in 0..Len(q) /\ n \in 0..Len(r) /\ n # 0 /\ r[n] = q[n]
    BY <1>1
  <2>2. n \in 1..Len(r)
    BY <1>1
  <2>3. f[n] = [read |-> f[n-1].read + ExpectedInputSize(q[n]),
                out  |-> f[n-1].out \o Written(s, f[n-1].read, q[n])]
    BY <1>3, AppliedStep
  <2>4. g[n] = [read |-> g[n-1].read + ExpectedInputSize(r[n]),
                out  |-> g[n-1].out \o Written(s, g[n-1].read, r[n])]
    <3>1. r \in Operations /\ IsApplied(g, s, r)
      BY <1>1, <1>4
    <3> QED BY <2>2, <3>1, AppliedStep, ZenonT(40)
  <2> QED BY <1>6, <2>1, <2>3, <2>4, Zenon
<1>7. SameValues(f, g, Len(q))
  BY <1>1, <1>5, <1>6, Alike DEF SameSteps
<1>8. g[Len(q)] = f[Len(q)]
  BY <1>1, <1>7 DEF SameValues
<1>9. g[Len(r)].out = g[Len(q)].out \o Written(s, g[Len(q)].read, o)
  <2>1. Len(r) \in 1..Len(r) /\ Len(r) - 1 = Len(q) /\ r[Len(r)] = o
    BY <1>1
  <2>2. g[Len(r)] = [read |-> g[Len(r)-1].read + ExpectedInputSize(r[Len(r)]),
                     out  |-> g[Len(r)-1].out \o Written(s, g[Len(r)-1].read, r[Len(r)])]
    BY <1>1, <1>4, <2>1, AppliedStep
  <2> DEFINE w == g[Len(r)-1].out \o Written(s, g[Len(r)-1].read, r[Len(r)])
             k == g[Len(r)-1].read + ExpectedInputSize(r[Len(r)])
  <2>3. g[Len(r)] = [read |-> k, out |-> w]
    BY <2>2
  <2>4. g[Len(r)].out = w
    <3> HIDE DEF w, k
    <3> QED BY <2>3
  <2> QED BY <2>1, <2>4, Zenon
<1> QED BY <1>3, <1>4, <1>8, <1>9 DEF r

-----------------------------------------------------------------------------
(* What a sequence of operations in two parts does to a text in two parts  *)

LEMMA InputLengthConcat ==
  ASSUME NEW p \in Operations, NEW q \in Operations
  PROVE  InputLength(p \o q) = InputLength(p) + InputLength(q)
<1> DEFINE S == {d \in Operations : InputLength(p \o d) = InputLength(p) + InputLength(d)}
<1>1. <<>> \in S
  <2>1. p \o <<>> = p /\ <<>> \in Operations
    BY ConcatEmptySeq, EmptySeq DEF Operations
  <2> QED BY <2>1, InputLengthEmpty, InputLengthType
<1>2. ASSUME NEW d \in Operations, d \in S, NEW o \in CompoundOp PROVE Append(d, o) \in S
  <2>1. p \o d \in Operations /\ Append(d, o) \in Operations
    BY ConcatProperties, AppendProperties DEF Operations
  <2>2. p \o Append(d, o) = Append(p \o d, o)
    BY DEF Operations
  <2>3. InputLength(Append(p \o d, o)) = InputLength(p \o d) + ExpectedInputSize(o)
    BY <2>1, InputLengthAppend
  <2>4. InputLength(Append(d, o)) = InputLength(d) + ExpectedInputSize(o)
    BY InputLengthAppend
  <2>5. InputLength(p) \in Nat /\ InputLength(d) \in Nat /\ ExpectedInputSize(o) \in Nat
    BY InputLengthType, Sizes
  <2>6. InputLength(p \o d) = InputLength(p) + InputLength(d)
    BY <1>2
  <2>7. InputLength(p \o Append(d, o)) = InputLength(p) + InputLength(Append(d, o))
    BY <2>2, <2>3, <2>4, <2>5, <2>6
  <2> QED BY <2>1, <2>7
<1>3. Operations \subseteq S
  <2> HIDE DEF S
  <2> QED BY <1>1, <1>2, SequenceInduction DEF Operations
<1> QED BY <1>3

\* What an operation retains of one part of a text does not depend on the other.
LEMMA WrittenLeft ==
  ASSUME NEW u \in Text, NEW v \in Text, NEW r \in Nat, NEW o \in CompoundOp,
         r + ExpectedInputSize(o) <= Len(u)
  PROVE  Written(u \o v, r, o) = Written(u, r, o)
<1>1. CASE o.kind = "Retain"
  <2>1. o.count \in Nat \ {0} /\ ExpectedInputSize(o) = o.count
    BY <1>1, Sizes DEF IsInsert
  <2>2. SubSeq(u \o v, r + 1, r + o.count) = SubSeq(u, r + 1, r + o.count)
    BY <2>1, SubSeqOfConcat1 DEF Text
  <2> QED BY <1>1, <2>2 DEF Written, IsInsert
<1>2. CASE o.kind # "Retain"
  BY <1>2, Sizes DEF Written
<1> QED BY <1>1, <1>2

LEMMA WrittenRight ==
  ASSUME NEW u \in Text, NEW v \in Text, NEW r \in Nat, NEW o \in CompoundOp,
         r + ExpectedInputSize(o) <= Len(v)
  PROVE  Written(u \o v, Len(u) + r, o) = Written(v, r, o)
<1>1. CASE o.kind = "Retain"
  <2>1. o.count \in Nat \ {0} /\ ExpectedInputSize(o) = o.count /\ Len(u) \in Nat /\ Len(v) \in Nat
    BY <1>1, Sizes DEF IsInsert, Text
  <2> DEFINE m == Len(u) + r + 1
             n == Len(u) + r + o.count
  <2>2. m \in Len(u)+1..Len(u)+Len(v) /\ n \in Len(u)+1..Len(u)+Len(v)
    BY <2>1
  <2>3. SubSeq(u \o v, m, n) = SubSeq(v, m - Len(u), n - Len(u))
    <3> HIDE DEF m, n
    <3> QED BY <2>2, SubSeqOfConcat2 DEF Text
  <2>4. m - Len(u) = r + 1 /\ n - Len(u) = r + o.count
    BY <2>1
  <2> QED BY <1>1, <2>3, <2>4 DEF Written, IsInsert
<1>2. CASE o.kind # "Retain"
  BY <1>2, Sizes DEF Written
<1> QED BY <1>1, <1>2

\* Operations see no further than they read.
LEMMA ApplyLeft ==
  ASSUME NEW u \in Text, NEW v \in Text, NEW p \in Operations, InputLength(p) <= Len(u)
  PROVE  TextApply(u \o v, p) = TextApply(u, p)
<1> DEFINE S == {d \in Operations : InputLength(d) <= Len(u) => TextApply(u \o v, d) = TextApply(u, d)}
<1>1. u \o v \in Text /\ Len(u \o v) = Len(u) + Len(v) /\ Len(u) \in Nat /\ Len(v) \in Nat
  BY ConcatProperties DEF Text
<1>2. <<>> \in S
  BY <1>1, ApplyEmpty, EmptySeq DEF Operations
<1>3. ASSUME NEW d \in Operations, d \in S, NEW o \in CompoundOp PROVE Append(d, o) \in S
  <2>1. /\ Append(d, o) \in Operations
        /\ InputLength(Append(d, o)) = InputLength(d) + ExpectedInputSize(o)
        /\ InputLength(d) \in Nat /\ ExpectedInputSize(o) \in Nat
    BY AppendProperties, InputLengthAppend, InputLengthType, Sizes DEF Operations
  <2>2. ASSUME InputLength(Append(d, o)) <= Len(u)
        PROVE  TextApply(u \o v, Append(d, o)) = TextApply(u, Append(d, o))
    <3>1. /\ InputLength(d) + ExpectedInputSize(o) <= Len(u)
          /\ InputLength(d) + ExpectedInputSize(o) <= Len(u \o v)
          /\ InputLength(d) <= Len(u)
      BY <1>1, <2>1, <2>2
    <3>2. TextApply(u \o v, Append(d, o)) = TextApply(u \o v, d) \o Written(u \o v, InputLength(d), o)
      BY <1>1, <3>1, ApplyAppend
    <3>3. TextApply(u, Append(d, o)) = TextApply(u, d) \o Written(u, InputLength(d), o)
      BY <3>1, ApplyAppend
    <3>4. Written(u \o v, InputLength(d), o) = Written(u, InputLength(d), o)
      BY <2>1, <3>1, WrittenLeft
    <3>5. TextApply(u \o v, d) = TextApply(u, d)
      BY <1>3, <3>1
    <3> QED BY <3>2, <3>3, <3>4, <3>5, Zenon
  <2> QED BY <2>1, <2>2
<1>4. Operations \subseteq S
  <2> HIDE DEF S
  <2> QED BY <1>2, <1>3, SequenceInduction DEF Operations
<1> QED BY <1>4

LEMMA OperationsAssociative ==
  ASSUME NEW p \in Operations, NEW q \in Operations, NEW r \in Operations
  PROVE  (p \o q) \o r = p \o (q \o r)
  BY ConcatAssociative DEF Operations

LEMMA TextsAssociative ==
  ASSUME NEW s \in Text, NEW t \in Text, NEW u \in Text
  PROVE  (s \o t) \o u = s \o (t \o u)
  BY ConcatAssociative DEF Text

LEMMA ApplyConcat ==
  ASSUME NEW u \in Text, NEW v \in Text, NEW p \in Operations, NEW q \in Operations,
         InputLength(p) = Len(u), InputLength(q) <= Len(v)
  PROVE  TextApply(u \o v, p \o q) = TextApply(u, p) \o TextApply(v, q)
<1> DEFINE Law(d) == TextApply(u \o v, p \o d) = TextApply(u, p) \o TextApply(v, d)
           S == {d \in Operations : InputLength(d) <= Len(v) => Law(d)}
<1>1. u \o v \in Text /\ Len(u \o v) = Len(u) + Len(v) /\ Len(u) \in Nat /\ Len(v) \in Nat
  BY ConcatProperties DEF Text
<1>2. TextApply(u, p) \in Text
  BY <1>1, ApplyType
<1>3. <<>> \in S
  <2>1. p \o <<>> = p /\ <<>> \in Operations
    BY ConcatEmptySeq, EmptySeq DEF Operations
  <2>2. TextApply(u, p) \o <<>> = TextApply(u, p)
    BY <1>2, ConcatEmptySeq DEF Text
  <2>3. TextApply(u \o v, p) = TextApply(u, p) /\ TextApply(v, <<>>) = <<>>
    BY <1>1, ApplyLeft, ApplyEmpty
  <2> QED BY <2>1, <2>2, <2>3
<1>4. ASSUME NEW d \in Operations, d \in S, NEW o \in CompoundOp PROVE Append(d, o) \in S
  <2>1. /\ Append(d, o) \in Operations /\ p \o d \in Operations
        /\ InputLength(Append(d, o)) = InputLength(d) + ExpectedInputSize(o)
        /\ InputLength(d) \in Nat /\ ExpectedInputSize(o) \in Nat
        /\ InputLength(p \o d) = Len(u) + InputLength(d)
    BY AppendProperties, ConcatProperties, InputLengthAppend, InputLengthConcat, InputLengthType,
       Sizes DEF Operations
  <2>2. p \o Append(d, o) = Append(p \o d, o)
    BY DEF Operations
  <2>3. ASSUME InputLength(Append(d, o)) <= Len(v)
        PROVE  Law(Append(d, o))
    <3> DEFINE r == InputLength(d)
               w == Written(v, r, o)
    <3>1. /\ r + ExpectedInputSize(o) <= Len(v) /\ r <= Len(v) /\ r \in Nat
          /\ InputLength(p \o d) + ExpectedInputSize(o) <= Len(u \o v)
      BY <1>1, <2>1, <2>3
    <3>2. TextApply(u \o v, Append(p \o d, o))
            = TextApply(u \o v, p \o d) \o Written(u \o v, Len(u) + r, o)
      <4> DEFINE k == InputLength(p \o d)
      <4>1. p \o d \in Operations /\ u \o v \in Text /\ k + ExpectedInputSize(o) <= Len(u \o v)
        BY <1>1, <2>1, <3>1
      <4>2. TextApply(u \o v, Append(p \o d, o))
              = TextApply(u \o v, p \o d) \o Written(u \o v, k, o)
        BY <4>1, ApplyAppend
      <4>3. k = Len(u) + r
        BY <2>1
      <4> QED BY <4>2, <4>3, Zenon
    <3>3. TextApply(v, Append(d, o)) = TextApply(v, d) \o w
      BY <3>1, ApplyAppend
    <3>4. Written(u \o v, Len(u) + r, o) = w
      BY <3>1, WrittenRight
    <3>5. Law(d)
      BY <1>4, <3>1
    <3>6. TextApply(v, d) \in Text /\ w \in Text
      BY <3>1, ApplyType, WrittenType
    <3>7. (TextApply(u, p) \o TextApply(v, d)) \o w = TextApply(u, p) \o (TextApply(v, d) \o w)
      <4> HIDE DEF w, Law
      <4> QED BY <1>2, <3>6, TextsAssociative, Zenon
    <3> QED BY <2>2, <3>2, <3>3, <3>4, <3>5, <3>7, Zenon
  <2> HIDE DEF Law
  <2> QED BY <2>1, <2>3
<1>5. Operations \subseteq S
  <2> HIDE DEF S
  <2> QED BY <1>3, <1>4, SequenceInduction DEF Operations
<1> QED BY <1>5

\* One operation on the text it is made for.
LEMMA ApplyOne ==
  ASSUME NEW s \in Text, NEW o \in CompoundOp, ExpectedInputSize(o) = Len(s)
  PROVE  /\ <<o>> \in Operations /\ InputLength(<<o>>) = Len(s)
         /\ TextApply(s, <<o>>) = CASE IsInsert(o)        -> o.text
                                    [] o.kind = "Delete" -> <<>>
                                    [] o.kind = "Retain" -> s
<1>1. <<o>> = Append(<<>>, o) /\ <<>> \in Operations /\ <<o>> \in Operations
  BY EmptySeq DEF Operations
<1>2. InputLength(<<o>>) = 0 + ExpectedInputSize(o) /\ ExpectedInputSize(o) \in Nat
  BY <1>1, InputLengthAppend, InputLengthEmpty, Sizes
<1>3. TextApply(s, <<o>>) = TextApply(s, <<>>) \o Written(s, 0, o)
  <2>1. ASSUME NEW none, none = <<>>
        PROVE  TextApply(s, Append(none, o)) = TextApply(s, none) \o Written(s, InputLength(none), o)
    <3>1. none \in Operations /\ InputLength(none) + ExpectedInputSize(o) <= Len(s)
      BY <1>1, <1>2, <2>1, InputLengthEmpty DEF Text
    <3> QED BY <3>1, ApplyAppend
  <2>2. TextApply(s, Append(<<>>, o)) = TextApply(s, <<>>) \o Written(s, InputLength(<<>>), o)
    BY <2>1, Zenon
  <2> QED BY <1>1, <2>2, InputLengthEmpty
<1>4. Written(s, 0, o) \in Text
  BY <1>2, WrittenType
<1>5. TextApply(s, <<o>>) = Written(s, 0, o)
  BY <1>3, <1>4, ApplyEmpty, ConcatEmptySeq DEF Text
<1>6. o.kind = "Retain" => Written(s, 0, o) = s
  <2>1. o.kind = "Retain" => o.count = Len(s) /\ ~IsInsert(o)
    BY Sizes DEF IsInsert
  <2>2. SubSeq(s, 1, Len(s)) = s
    BY SubSeqFull DEF Text
  <2> QED BY <2>1, <2>2 DEF Written, IsInsert
<1> QED BY <1>1, <1>2, <1>5, <1>6, Sizes DEF Written, IsInsert

-----------------------------------------------------------------------------
(* What is left of a sequence of operations                                *)

LEMMA ThreeParts ==
  ASSUME NEW s \in Text, NEW a \in Nat, NEW b \in Nat, a <= b, b <= Len(s)
  PROVE  InThree(s, a, b, Text)
BY SplitInThree, Zenon DEF Text

LEMMA SplitText ==
  ASSUME NEW s \in Text, NEW n \in 0..Len(s)
  PROVE  \E u, v \in Text : s = u \o v /\ Len(u) = n /\ Len(v) = Len(s) - n
<1>1. n \in Nat /\ n <= n /\ n <= Len(s)
  BY DEF Text
<1>2. InThree(s, n, n, Text)
  BY <1>1, ThreeParts, Zenon
<1> QED BY <1>2 DEF InThree

LEMMA OneOperation ==
  ASSUME NEW o \in CompoundOp
  PROVE  <<o>> \in Operations /\ InputLength(<<o>>) = ExpectedInputSize(o)
<1>1. <<o>> = Append(<<>>, o) /\ <<>> \in Operations /\ <<o>> \in Operations
  BY EmptySeq DEF Operations
<1>2. ASSUME NEW none \in Operations, none = <<>>
      PROVE  InputLength(Append(none, o)) = 0 + ExpectedInputSize(o)
  BY <1>2, InputLengthAppend, InputLengthEmpty
<1>3. InputLength(Append(<<>>, o)) = 0 + ExpectedInputSize(o)
  BY <1>1, <1>2, Zenon
<1> QED BY <1>1, <1>3, Sizes

LEMMA FirstOperation ==
  ASSUME NEW q \in Operations, q # <<>>
  PROVE  /\ Head(q) \in CompoundOp /\ Tail(q) \in Operations
         /\ q = <<Head(q)>> \o Tail(q) /\ <<Head(q)>> \in Operations
         /\ Len(Tail(q)) = Len(q) - 1
         /\ InputLength(q) = ExpectedInputSize(Head(q)) + InputLength(Tail(q))
<1>1. /\ Head(q) \in CompoundOp /\ Tail(q) \in Operations /\ Len(Tail(q)) = Len(q) - 1
      /\ q = <<Head(q)>> \o Tail(q)
  BY DEF Operations
<1>2. <<Head(q)>> \in Operations /\ InputLength(<<Head(q)>>) = ExpectedInputSize(Head(q))
  BY <1>1, OneOperation
<1>4. InputLength(<<Head(q)>> \o Tail(q)) = InputLength(<<Head(q)>>) + InputLength(Tail(q))
  BY <1>1, <1>2, InputLengthConcat
<1> QED BY <1>1, <1>2, <1>4, Zenon

LEMMA ApplyFirst ==
  ASSUME NEW u \in Text, NEW v \in Text, NEW o \in CompoundOp, NEW t \in Operations,
         ExpectedInputSize(o) = Len(u), InputLength(t) <= Len(v)
  PROVE  /\ <<o>> \o t \in Operations
         /\ TextApply(u \o v, <<o>> \o t) = TextApply(u, <<o>>) \o TextApply(v, t)
<1>1. <<o>> \in Operations /\ InputLength(<<o>>) = Len(u)
  BY ApplyOne
<1> QED BY <1>1, ApplyConcat, ConcatProperties DEF Operations

\* What is left once a deletion or retention is dropped in part.
LEMMA Dropped ==
  ASSUME NEW o \in CompoundOp, ~IsInsert(o), NEW n \in 1..(o.count - 1)
  PROVE  /\ Drop(o, n) \in CompoundOp /\ ~IsInsert(Drop(o, n))
         /\ Drop(o, n).kind = o.kind /\ ExpectedInputSize(Drop(o, n)) = o.count - n
<1>1. o.kind \in {"Retain", "Delete"} /\ o.count \in Nat \ {0}
  BY Sizes
<1>2. Drop(o, n) = [kind |-> o.kind, count |-> o.count - n]
  BY <1>1 DEF Drop, IsInsert, Retain, Delete
<1> QED BY <1>1, <1>2 DEF CompoundOp, IsInsert, ExpectedInputSize

LEMMA RestType ==
  ASSUME NEW q \in Operations, q # <<>>, ~IsInsert(Head(q)), NEW n \in 1..Width(Head(q))
  PROVE  /\ Rest(q, n) \in Operations /\ Len(Rest(q, n)) <= Len(q)
         /\ InputLength(Rest(q, n)) = InputLength(q) - n
<1> DEFINE o == Head(q)
           t == Tail(q)
<1>1. /\ o \in CompoundOp /\ t \in Operations /\ Len(t) = Len(q) - 1 /\ Len(q) \in Nat
      /\ InputLength(q) = ExpectedInputSize(o) + InputLength(t) /\ InputLength(t) \in Nat
  <2>1. /\ o \in CompoundOp /\ t \in Operations /\ Len(t) = Len(q) - 1
        /\ InputLength(q) = ExpectedInputSize(o) + InputLength(t)
    BY FirstOperation
  <2>2. Len(q) \in Nat
    BY DEF Operations
  <2> HIDE DEF o, t
  <2> QED BY <2>1, <2>2, InputLengthType
<1>2. o.count \in Nat \ {0} /\ Width(o) = o.count /\ ExpectedInputSize(o) = o.count
  BY <1>1, Sizes
<1>3. CASE n = Width(o)
  <2>1. Rest(q, n) = t
    BY <1>3 DEF Rest
  <2> HIDE DEF o, t
  <2> QED BY <1>1, <1>2, <1>3, <2>1
<1>4. CASE n # Width(o)
  <2> DEFINE d == Drop(o, n)
  <2>1. d \in CompoundOp /\ ExpectedInputSize(d) = o.count - n
    BY <1>1, <1>2, <1>4, Dropped
  <2>2. Rest(q, n) = <<d>> \o t
    BY <1>4 DEF Rest
  <2> HIDE DEF d, o, t
  <2>3. <<d>> \o t \in Operations /\ Len(<<d>> \o t) = Len(q) /\ <<d>> \in Operations
    BY <1>1, <2>1 DEF Operations
  <2>4. InputLength(<<d>> \o t) = InputLength(<<d>>) + InputLength(t)
    BY <1>1, <2>3, InputLengthConcat
  <2>5. InputLength(<<d>>) = o.count - n
    BY <2>1, OneOperation
  <2> QED BY <1>1, <1>2, <2>2, <2>3, <2>4, <2>5
<1> QED BY <1>3, <1>4

\* What a deletion or a retention leaves of the text it covers.
Kept(o, u) == IF o.kind = "Retain" THEN u ELSE <<>>

LEMMA ApplyRest ==
  ASSUME NEW q \in Operations, q # <<>>, ~IsInsert(Head(q)), NEW n \in 1..Width(Head(q)),
         NEW u \in Text, NEW v \in Text, Len(u) = n, Len(v) = InputLength(q) - n
  PROVE  TextApply(u \o v, q) = Kept(Head(q), u) \o TextApply(v, Rest(q, n))
<1> DEFINE o == Head(q)
           t == Tail(q)
<1>1. /\ o \in CompoundOp /\ t \in Operations /\ q = <<o>> \o t
      /\ InputLength(q) = ExpectedInputSize(o) + InputLength(t) /\ InputLength(t) \in Nat
  BY FirstOperation, InputLengthType
<1>2. /\ o.count \in Nat \ {0} /\ Width(o) = o.count /\ ExpectedInputSize(o) = o.count
      /\ ~IsInsert(o) /\ o.kind \in {"Retain", "Delete"} /\ n \in 1..o.count
  BY <1>1, Sizes
<1>3. CASE n = Width(o)
  <2>1. Rest(q, n) = t
    BY <1>3 DEF Rest
  <2> HIDE DEF o, t
  <2>2. ExpectedInputSize(o) = Len(u) /\ InputLength(t) <= Len(v)
    BY <1>1, <1>2, <1>3 DEF Text
  <2>3. TextApply(u \o v, <<o>> \o t) = TextApply(u, <<o>>) \o TextApply(v, t)
    BY <1>1, <2>2, ApplyFirst
  <2>4. TextApply(u, <<o>>) = Kept(o, u)
    BY <1>1, <1>2, <2>2, ApplyOne DEF Kept
  <2> QED BY <1>1, <2>1, <2>3, <2>4, Zenon DEF o
<1>4. CASE n # Width(o)
  <2> DEFINE d == Drop(o, n)
             c == o.count - n
  <2>1. d \in CompoundOp /\ ExpectedInputSize(d) = c /\ ~IsInsert(d) /\ d.kind = o.kind
    BY <1>1, <1>2, <1>4, Dropped
  <2>2. Rest(q, n) = <<d>> \o t
    BY <1>4 DEF Rest
  <2>3. c \in Nat /\ c \in 0..Len(v) /\ Len(v) = c + InputLength(t)
    <3> HIDE DEF d, o, t
    <3> QED BY <1>1, <1>2, <1>4
  <2> HIDE DEF d, c, o, t
  <2>4. PICK v1, v2 \in Text : v = v1 \o v2 /\ Len(v1) = c /\ Len(v2) = Len(v) - c
    BY <2>3, SplitText
  <2>5. InputLength(t) <= Len(v2) /\ InputLength(t) \in Nat
    BY <1>1, <2>3, <2>4
  <2>6. TextApply(v1 \o v2, <<d>> \o t) = TextApply(v1, <<d>>) \o TextApply(v2, t)
    <3>1. ExpectedInputSize(d) = Len(v1)
      BY <2>1, <2>4
    <3>2. d \in CompoundOp /\ t \in Operations /\ InputLength(t) <= Len(v2)
      BY <1>1, <2>1, <2>5
    <3>3. v1 \in Text /\ v2 \in Text
      BY <2>4
    <3> QED BY <3>1, <3>2, <3>3, ApplyFirst, ZenonT(40)
  <2>7. u \o v1 \in Text /\ Len(u \o v1) = ExpectedInputSize(o)
    <3>1. u \o v1 \in Text /\ Len(u \o v1) = Len(u) + Len(v1)
      BY <2>4, ConcatProperties DEF Text
    <3> QED BY <1>2, <2>4, <3>1 DEF c
  <2>8. TextApply((u \o v1) \o v2, <<o>> \o t) = TextApply(u \o v1, <<o>>) \o TextApply(v2, t)
    <3>1. o \in CompoundOp /\ t \in Operations /\ InputLength(t) <= Len(v2)
      BY <1>1, <2>5
    <3>2. u \o v1 \in Text /\ v2 \in Text /\ ExpectedInputSize(o) = Len(u \o v1)
      BY <2>4, <2>7
    <3> QED BY <3>1, <3>2, ApplyFirst, ZenonT(40)
  <2>9. u \o v = (u \o v1) \o v2
    <3>1. v1 \in Text /\ v2 \in Text /\ v = v1 \o v2
      BY <2>4
    <3>2. (u \o v1) \o v2 = u \o (v1 \o v2)
      BY <3>1, TextsAssociative, ZenonT(40)
    <3> QED BY <3>1, <3>2, Zenon
  <2>10. TextApply(v2, t) \in Text
    BY <1>1, <2>5, ApplyType
  <2>11. CASE o.kind = "Retain"
    <3>1. TextApply(v1, <<d>>) = v1
      BY <2>1, <2>4, <2>11, ApplyOne
    <3>2. TextApply(u \o v1, <<o>>) = u \o v1
      BY <1>1, <1>2, <2>7, <2>11, ApplyOne
    <3>3. (u \o v1) \o TextApply(v2, t) = u \o (v1 \o TextApply(v2, t))
      <4>1. v1 \in Text
        BY <2>4
      <4> QED BY <2>10, <4>1, TextsAssociative, ZenonT(40)
    <3>4. Kept(o, u) = u
      BY <2>11 DEF Kept
    <3> QED BY <1>1, <2>2, <2>4, <2>6, <2>8, <2>9, <3>1, <3>2, <3>3, <3>4, Zenon DEF o
  <2>12. CASE o.kind = "Delete"
    <3>1. TextApply(v1, <<d>>) = <<>>
      BY <2>1, <2>4, <2>12, ApplyOne
    <3>2. TextApply(u \o v1, <<o>>) = <<>>
      BY <1>1, <1>2, <2>7, <2>12, ApplyOne
    <3>3. <<>> \o TextApply(v2, t) = TextApply(v2, t)
      BY <2>10, ConcatEmptySeq DEF Text
    <3>4. Kept(o, u) = <<>>
      BY <2>12 DEF Kept
    <3> QED BY <1>1, <2>2, <2>4, <2>6, <2>8, <2>9, <3>1, <3>2, <3>3, <3>4, Zenon DEF o
  <2> QED BY <1>2, <2>11, <2>12
<1> QED BY <1>3, <1>4

-----------------------------------------------------------------------------
(* The loop of transform ends: every round leaves less to walk             *)

LEMMA Nothing ==
  /\ <<>> \in Text /\ <<>> \in Operations /\ Len(<<>>) = 0
  /\ InputLength(<<>>) = 0 /\ TextApply(<<>>, <<>>) = <<>>
  BY EmptySeq, InputLengthEmpty, ApplyEmpty DEF Text, Operations

LEMMA RetainType ==
  ASSUME NEW n \in Nat \ {0}
  PROVE  /\ Retain(n) \in CompoundOp /\ ~IsInsert(Retain(n)) /\ Retain(n).kind = "Retain"
         /\ ExpectedInputSize(Retain(n)) = n
         /\ Delete(n) \in CompoundOp /\ ~IsInsert(Delete(n)) /\ Delete(n).kind = "Delete"
         /\ ExpectedInputSize(Delete(n)) = n
  BY DEF Retain, Delete, CompoundOp, IsInsert, ExpectedInputSize

Pairs == Operations \X Operations

Size(p) == InputLength(p[1]) + Len(p[1]) + Len(p[2])

Inserts(q) == q # <<>> /\ IsInsert(Head(q))

LEMMA SizeType ==
  ASSUME NEW p \in Pairs
  PROVE  /\ p[1] \in Operations /\ p[2] \in Operations /\ p = <<p[1], p[2]>>
         /\ InputLength(p[1]) \in Nat /\ Len(p[1]) \in Nat /\ Len(p[2]) \in Nat
         /\ Size(p) \in Nat
<1>1. p[1] \in Operations /\ p[2] \in Operations /\ p = <<p[1], p[2]>>
  BY DEF Pairs
<1>2. InputLength(p[1]) \in Nat /\ Len(p[1]) \in Nat /\ Len(p[2]) \in Nat
  BY <1>1, InputLengthType DEF Operations
<1> QED BY <1>1, <1>2 DEF Size

LEMMA PairType ==
  ASSUME NEW q \in Operations, NEW r \in Operations
  PROVE  <<q, r>> \in Pairs /\ Size(<<q, r>>) = InputLength(q) + Len(q) + Len(r)
  BY DEF Pairs, Size

\* After an insertion of the first operation.
After1(p) == <<Tail(p[1]), p[2]>>

\* After an insertion of the second.
After2(p) == <<p[1], Tail(p[2])>>

Overlapping(p) == Shorter(Head(p[1]), Head(p[2]))

\* After what both cover.
AfterBoth(p) == <<Rest(p[1], Overlapping(p)), Rest(p[2], Overlapping(p))>>

LEMMA Smaller1 ==
  ASSUME NEW p \in Pairs, Inserts(p[1])
  PROVE  After1(p) \in Pairs /\ Size(After1(p)) < Size(p)
<1>1. p[1] \in Operations /\ p[2] \in Operations /\ p[1] # <<>> /\ IsInsert(Head(p[1]))
  BY SizeType DEF Inserts
<1>2. /\ Tail(p[1]) \in Operations /\ Len(Tail(p[1])) = Len(p[1]) - 1
      /\ InputLength(p[1]) = ExpectedInputSize(Head(p[1])) + InputLength(Tail(p[1]))
      /\ Head(p[1]) \in CompoundOp
  BY <1>1, FirstOperation
<1>3. ExpectedInputSize(Head(p[1])) = 0
  BY <1>1, <1>2, Sizes
<1>4. InputLength(Tail(p[1])) \in Nat
  BY <1>2, InputLengthType
<1>5. Size(After1(p)) = InputLength(Tail(p[1])) + Len(Tail(p[1])) + Len(p[2])
  BY <1>1, <1>2, PairType DEF After1
<1>6. Size(After1(p)) < Size(p)
  BY <1>2, <1>3, <1>4, <1>5, SizeType DEF Size
<1> QED BY <1>1, <1>2, <1>6, PairType DEF After1

LEMMA Smaller2 ==
  ASSUME NEW p \in Pairs, Inserts(p[2])
  PROVE  After2(p) \in Pairs /\ Size(After2(p)) < Size(p)
<1>1. p[1] \in Operations /\ p[2] \in Operations /\ p[2] # <<>>
  BY SizeType DEF Inserts
<1>2. Tail(p[2]) \in Operations /\ Len(Tail(p[2])) = Len(p[2]) - 1
  BY <1>1, FirstOperation
<1>3. Size(After2(p)) = InputLength(p[1]) + Len(p[1]) + Len(Tail(p[2]))
  BY <1>1, <1>2, PairType DEF After2
<1>4. Size(After2(p)) < Size(p)
  BY <1>2, <1>3, SizeType DEF Size
<1> QED BY <1>1, <1>2, <1>4, PairType DEF After2

Overlaps(p) == ~Inserts(p[1]) /\ ~Inserts(p[2]) /\ p[1] # <<>> /\ p[2] # <<>>

LEMMA OverlapType ==
  ASSUME NEW p \in Pairs, Overlaps(p)
  PROVE  /\ p[1] \in Operations /\ p[1] # <<>> /\ ~IsInsert(Head(p[1])) /\ Head(p[1]) \in CompoundOp
         /\ p[2] \in Operations /\ p[2] # <<>> /\ ~IsInsert(Head(p[2])) /\ Head(p[2]) \in CompoundOp
         /\ Overlapping(p) \in Nat \ {0}
         /\ Overlapping(p) \in 1..Width(Head(p[1]))
         /\ Overlapping(p) \in 1..Width(Head(p[2]))
<1>1. /\ p[1] \in Operations /\ p[1] # <<>> /\ ~IsInsert(Head(p[1]))
      /\ p[2] \in Operations /\ p[2] # <<>> /\ ~IsInsert(Head(p[2]))
  BY SizeType DEF Overlaps, Inserts
<1>2. Head(p[1]) \in CompoundOp /\ Head(p[2]) \in CompoundOp
  BY <1>1, FirstOperation
<1>3. Width(Head(p[1])) \in Nat \ {0} /\ Width(Head(p[2])) \in Nat \ {0}
  BY <1>2, Sizes
<1> QED BY <1>1, <1>2, <1>3 DEF Overlapping, Shorter

LEMMA SmallerBoth ==
  ASSUME NEW p \in Pairs, Overlaps(p)
  PROVE  AfterBoth(p) \in Pairs /\ Size(AfterBoth(p)) < Size(p)
<1> DEFINE n == Overlapping(p)
           r1 == Rest(p[1], n)
           r2 == Rest(p[2], n)
<1>1. /\ r1 \in Operations /\ Len(r1) <= Len(p[1]) /\ InputLength(r1) = InputLength(p[1]) - n
      /\ r2 \in Operations /\ Len(r2) <= Len(p[2]) /\ n \in Nat \ {0}
  BY OverlapType, RestType
<1>2. /\ InputLength(r1) \in Nat /\ Len(r1) \in Nat /\ Len(r2) \in Nat
  <2> HIDE DEF r1, r2
  <2> QED BY <1>1, InputLengthType DEF Operations
<1>3. AfterBoth(p) = <<r1, r2>>
  BY DEF AfterBoth
<1> HIDE DEF n, r1, r2
<1>4. Size(<<r1, r2>>) = InputLength(r1) + Len(r1) + Len(r2) /\ <<r1, r2>> \in Pairs
  BY <1>1, PairType
<1>5. Size(p) = InputLength(p[1]) + Len(p[1]) + Len(p[2])
  BY DEF Size
<1>6. Size(<<r1, r2>>) < Size(p)
  <2>1. InputLength(p[1]) \in Nat /\ Len(p[1]) \in Nat /\ Len(p[2]) \in Nat
    BY SizeType
  <2>2. InputLength(r1) + Len(r1) + Len(r2) < InputLength(p[1]) + Len(p[1]) + Len(p[2])
    <3>1. InputLength(r1) < InputLength(p[1])
      BY <1>1, <1>2, <2>1
    <3>2. Len(r1) <= Len(p[1]) /\ Len(r2) <= Len(p[2])
      BY <1>1
    <3> QED BY <1>2, <2>1, <3>1, <3>2, SMTT(40)
  <2> QED BY <1>4, <1>5, <2>2
<1> QED BY <1>3, <1>4, <1>6, Zenon

Emitted(step, rest) == <<step[1] \o rest[1], step[2] \o rest[2]>>

\* What each kind of round gives.
LEMMA RoundInsert1 ==
  ASSUME NEW walk, NEW p, Inserts(p[1])
  PROVE  TransformRound(walk, p)
           = Emitted(<<<<Head(p[1])>>, <<Retain(Width(Head(p[1])))>>>>, walk[After1(p)])
  BY ZenonT(30) DEF TransformRound, Inserts, Emitted, After1

LEMMA RoundInsert2 ==
  ASSUME NEW walk, NEW p, ~Inserts(p[1]), Inserts(p[2])
  PROVE  TransformRound(walk, p)
           = Emitted(<<<<Retain(Width(Head(p[2])))>>, <<Head(p[2])>>>>, walk[After2(p)])
  BY ZenonT(30) DEF TransformRound, Inserts, Emitted, After2

LEMMA RoundOverlap ==
  ASSUME NEW walk, NEW p, Overlaps(p)
  PROVE  TransformRound(walk, p)
           = Emitted(Overlap(Head(p[1]).kind, Head(p[2]).kind, Overlapping(p)), walk[AfterBoth(p)])
  BY ZenonT(30) DEF TransformRound, Inserts, Emitted, AfterBoth, Overlapping, Overlaps

Finished(p) == ~Inserts(p[1]) /\ ~Inserts(p[2]) /\ ~Overlaps(p)

LEMMA RoundEnd ==
  ASSUME NEW walk, NEW p, Finished(p)
  PROVE  TransformRound(walk, p) = <<<<>>, <<>>>>
  BY DEF TransformRound, Inserts, Overlaps, Finished

\* A round depends on nothing but what is left after it.
LEMMA RoundLocal ==
  ASSUME NEW p \in Pairs, NEW f, NEW g, \A q \in Pairs : Size(q) < Size(p) => f[q] = g[q]
  PROVE  TransformRound(f, p) = TransformRound(g, p)
<1>1. CASE Inserts(p[1])
  <2>1. f[After1(p)] = g[After1(p)]
    BY <1>1, Smaller1
  <2> QED BY <1>1, <2>1, RoundInsert1, Zenon
<1>2. CASE ~Inserts(p[1]) /\ Inserts(p[2])
  <2>1. f[After2(p)] = g[After2(p)]
    BY <1>2, Smaller2
  <2> DEFINE step == <<<<Retain(Width(Head(p[2])))>>, <<Head(p[2])>>>>
  <2>2. ASSUME NEW h PROVE TransformRound(h, p) = Emitted(step, h[After2(p)])
    BY <1>2, RoundInsert2
  <2> HIDE DEF step
  <2> QED BY <2>1, <2>2, Zenon
<1>3. CASE Overlaps(p)
  <2>1. f[AfterBoth(p)] = g[AfterBoth(p)]
    BY <1>3, SmallerBoth
  <2> QED BY <1>3, <2>1, RoundOverlap, Zenon
<1>4. CASE Finished(p)
  BY <1>4, RoundEnd, Zenon
<1> QED BY <1>1, <1>2, <1>3, <1>4 DEF Finished

LEMMA EmittedType ==
  ASSUME NEW step \in Pairs, NEW rest \in Pairs
  PROVE  Emitted(step, rest) \in Pairs
<1>1. /\ step[1] \in Operations /\ step[2] \in Operations
      /\ rest[1] \in Operations /\ rest[2] \in Operations
  BY DEF Pairs
<1>2. step[1] \o rest[1] \in Operations /\ step[2] \o rest[2] \in Operations
  BY <1>1, ConcatProperties DEF Operations
<1> QED BY <1>2, PairType DEF Emitted

LEMMA OverlapPair ==
  ASSUME NEW k1 \in {"Retain", "Delete"}, NEW k2 \in {"Retain", "Delete"}, NEW n \in Nat \ {0}
  PROVE  Overlap(k1, k2, n) \in Pairs
<1> DEFINE r == Retain(n)
           d == Delete(n)
<1>1. r \in CompoundOp /\ d \in CompoundOp
  BY RetainType
<1> HIDE DEF r, d
<1>2. <<r>> \in Operations /\ <<d>> \in Operations /\ <<>> \in Operations
  BY <1>1, OneOperation, Nothing
<1>3. Overlap(k1, k2, n) \in {<<<<r>>, <<r>>>>, <<<<>>, <<>>>>, <<<<d>>, <<>>>>, <<<<>>, <<d>>>>}
  BY DEF Overlap, r, d
<1>4. /\ <<<<r>>, <<r>>>> \in Pairs /\ <<<<>>, <<>>>> \in Pairs
      /\ <<<<d>>, <<>>>> \in Pairs /\ <<<<>>, <<d>>>> \in Pairs
  BY <1>2, PairType
<1> QED BY <1>3, <1>4

LEMMA RoundType ==
  ASSUME NEW p \in Pairs, NEW f \in [Pairs -> Pairs]
  PROVE  TransformRound(f, p) \in Pairs
<1>1. ASSUME NEW o \in CompoundOp
      PROVE  <<o>> \in Operations /\ <<Retain(Width(o))>> \in Operations
  <2> DEFINE r == Retain(Width(o))
  <2>1. r \in CompoundOp
    BY <1>1, Sizes, RetainType
  <2> HIDE DEF r
  <2>2. <<o>> \in Operations /\ <<r>> \in Operations
    BY <2>1, OneOperation
  <2> QED BY <2>2 DEF r
<1>2. CASE Inserts(p[1])
  <2> DEFINE step == <<<<Head(p[1])>>, <<Retain(Width(Head(p[1])))>>>>
  <2>1. step \in Pairs /\ f[After1(p)] \in Pairs
    BY <1>1, <1>2, SizeType, FirstOperation, PairType, Smaller1 DEF Inserts
  <2>2. TransformRound(f, p) = Emitted(step, f[After1(p)])
    BY <1>2, RoundInsert1
  <2> HIDE DEF step
  <2> QED BY <2>1, <2>2, EmittedType
<1>3. CASE ~Inserts(p[1]) /\ Inserts(p[2])
  <2> DEFINE step == <<<<Retain(Width(Head(p[2])))>>, <<Head(p[2])>>>>
  <2>1. step \in Pairs /\ f[After2(p)] \in Pairs
    BY <1>1, <1>3, SizeType, FirstOperation, PairType, Smaller2 DEF Inserts
  <2>2. TransformRound(f, p) = Emitted(step, f[After2(p)])
    BY <1>3, RoundInsert2
  <2> HIDE DEF step
  <2> QED BY <2>1, <2>2, EmittedType
<1>4. CASE Overlaps(p)
  <2> DEFINE step == Overlap(Head(p[1]).kind, Head(p[2]).kind, Overlapping(p))
  <2>1. step \in Pairs /\ f[AfterBoth(p)] \in Pairs
    BY <1>4, OverlapType, Sizes, OverlapPair, SmallerBoth
  <2>2. TransformRound(f, p) = Emitted(step, f[AfterBoth(p)])
    BY <1>4, RoundOverlap
  <2> HIDE DEF step
  <2> QED BY <2>1, <2>2, EmittedType
<1>5. CASE Finished(p)
  BY <1>5, RoundEnd, Nothing, PairType
<1> QED BY <1>2, <1>3, <1>4, <1>5 DEF Finished

\* transform is defined for all operations: TransformOps is what its rounds give.
LEMMA TransformDefined ==
  ASSUME NEW p \in Pairs
  PROVE  TransformOps[p] = TransformRound(TransformOps, p)
<1> DEFINE M == [q \in Pairs |-> Size(q)]
           R == [f \in [Pairs -> Pairs] |-> [q \in Pairs |-> TransformRound(f, q)]]
<1>1. M \in [Pairs -> Nat] /\ R \in [[Pairs -> Pairs] -> [Pairs -> Pairs]]
  BY SizeType, RoundType
<1>2. Descends(R, Pairs, Pairs, M)
  <2> SUFFICES ASSUME NEW f \in [Pairs -> Pairs], NEW g \in [Pairs -> Pairs], NEW q \in Pairs,
                      \A r \in Pairs : M[r] < M[q] => f[r] = g[r]
               PROVE  TransformRound(f, q) = TransformRound(g, q)
    BY DEF Descends
  <2>1. \A r \in Pairs : Size(r) < Size(q) => f[r] = g[r]
    OBVIOUS
  <2> HIDE DEF M, R
  <2> QED BY <2>1, RoundLocal
<1>3. \E f \in [Pairs -> Pairs] : f = R[f]
  <2>1. Pairs # {}
    BY Nothing DEF Pairs
  <2> HIDE DEF M, R
  <2>2. Recursive(R, Pairs, Pairs, M)
    BY <1>1, <1>2, <2>1 DEF Recursive
  <2>3. HasSolution(R, Pairs, Pairs)
    BY <2>2, SolutionExists, Zenon
  <2> QED BY <2>3 DEF HasSolution
<1>4. \E f : f = [q \in Pairs |-> TransformRound(f, q)]
  BY <1>3, Zenon
<1>5. TransformOps = CHOOSE f : f = [q \in Pairs |-> TransformRound(f, q)]
  BY Zenon DEF TransformOps, Pairs, Operations
<1>6. TransformOps = [q \in Pairs |-> TransformRound(TransformOps, q)]
  BY <1>4, <1>5, Zenon
<1> QED BY <1>6, Zenon

-----------------------------------------------------------------------------
(* transform converges                                                     *)

\* e2 leads from the document x1 where e1 leads from x2.
Meet(x1, x2, e1, e2) ==
  /\ e1 \in Operations /\ e2 \in Operations
  /\ InputLength(e2) = Len(x1) /\ InputLength(e1) = Len(x2)
  /\ TextApply(x1, e2) = TextApply(x2, e1)

LEMMA Joined ==
  ASSUME NEW u1 \in Text, NEW u2 \in Text, NEW v1 \in Text, NEW v2 \in Text,
         NEW e1, NEW e2, NEW w1, NEW w2, Meet(u1, u2, e1, e2), Meet(v1, v2, w1, w2)
  PROVE  Meet(u1 \o v1, u2 \o v2, e1 \o w1, e2 \o w2)
<1>1. /\ e1 \in Operations /\ e2 \in Operations /\ w1 \in Operations /\ w2 \in Operations
      /\ InputLength(e2) = Len(u1) /\ InputLength(e1) = Len(u2)
      /\ InputLength(w2) = Len(v1) /\ InputLength(w1) = Len(v2)
      /\ TextApply(u1, e2) = TextApply(u2, e1) /\ TextApply(v1, w2) = TextApply(v2, w1)
  BY DEF Meet
<1>2. e1 \o w1 \in Operations /\ e2 \o w2 \in Operations
  BY <1>1, ConcatProperties DEF Operations
<1>3. /\ InputLength(e2 \o w2) = Len(u1) + Len(v1) /\ InputLength(e1 \o w1) = Len(u2) + Len(v2)
  BY <1>1, InputLengthConcat
<1>4. Len(u1 \o v1) = Len(u1) + Len(v1) /\ Len(u2 \o v2) = Len(u2) + Len(v2)
  BY ConcatProperties DEF Text
<1>5. InputLength(w2) <= Len(v1) /\ InputLength(w1) <= Len(v2)
  BY <1>1, InputLengthType
<1>6. TextApply(u1 \o v1, e2 \o w2) = TextApply(u1, e2) \o TextApply(v1, w2)
  <2>1. /\ e2 \in Operations /\ w2 \in Operations
        /\ InputLength(e2) = Len(u1) /\ InputLength(w2) <= Len(v1)
    BY <1>1, <1>5
  <2> QED BY <2>1, ApplyConcat
<1>7. TextApply(u2 \o v2, e1 \o w1) = TextApply(u2, e1) \o TextApply(v2, w1)
  <2>1. /\ e1 \in Operations /\ w1 \in Operations
        /\ InputLength(e1) = Len(u2) /\ InputLength(w1) <= Len(v2)
    BY <1>1, <1>5
  <2> QED BY <2>1, ApplyConcat
<1>8. TextApply(u1 \o v1, e2 \o w2) = TextApply(u2 \o v2, e1 \o w1)
  BY <1>1, <1>6, <1>7, Zenon
<1> QED BY <1>2, <1>3, <1>4, <1>8 DEF Meet

\* An insertion and the retention of what it inserts.
LEMMA InsertionMeets ==
  ASSUME NEW o \in CompoundOp, IsInsert(o)
  PROVE  /\ Meet(o.text, <<>>, <<o>>, <<Retain(Width(o))>>)
         /\ Meet(<<>>, o.text, <<Retain(Width(o))>>, <<o>>)
<1>1. /\ o.text \in Text /\ ExpectedInputSize(o) = 0 /\ Width(o) \in Nat \ {0}
      /\ Width(o) = Len(o.text)
  BY Sizes DEF Width
<1> DEFINE r == Retain(Width(o))
<1>2. /\ r \in CompoundOp /\ ~IsInsert(r) /\ r.kind = "Retain"
      /\ ExpectedInputSize(r) = Len(o.text)
  BY <1>1, RetainType
<1> HIDE DEF r
<1>3. /\ <<r>> \in Operations /\ InputLength(<<r>>) = Len(o.text)
      /\ TextApply(o.text, <<r>>) = o.text
  BY <1>1, <1>2, ApplyOne
<1>4. /\ <<o>> \in Operations /\ InputLength(<<o>>) = 0
      /\ TextApply(<<>>, <<o>>) = o.text
  <2>1. ASSUME NEW none, none = <<>>
        PROVE  /\ <<o>> \in Operations /\ InputLength(<<o>>) = Len(none)
               /\ TextApply(none, <<o>>) = o.text
    <3>1. none \in Text /\ Len(none) = 0 /\ ExpectedInputSize(o) = Len(none)
      BY <1>1, <2>1, Nothing
    <3> QED BY <1>1, <3>1, ApplyOne DEF IsInsert
  <2> QED BY <2>1, Nothing, Zenon
<1>5. /\ Meet(o.text, <<>>, <<o>>, <<r>>)
      /\ Meet(<<>>, o.text, <<r>>, <<o>>)
  BY <1>3, <1>4, Nothing, Zenon DEF Meet
<1> QED BY <1>5 DEF r

LEMMA ApplyInsertion ==
  ASSUME NEW s \in Text, NEW q \in Operations, Inserts(q), InputLength(q) = Len(s)
  PROVE  /\ Head(q) \in CompoundOp /\ IsInsert(Head(q)) /\ Head(q).text \in Text
         /\ Tail(q) \in Operations /\ InputLength(Tail(q)) = Len(s)
         /\ TextApply(s, q) = Head(q).text \o TextApply(s, Tail(q))
<1> DEFINE o == Head(q)
           t == Tail(q)
<1>1. /\ o \in CompoundOp /\ IsInsert(o) /\ t \in Operations /\ q = <<o>> \o t
      /\ InputLength(q) = ExpectedInputSize(o) + InputLength(t)
  BY FirstOperation DEF Inserts
<1> HIDE DEF o, t
<1>2. ExpectedInputSize(o) = 0 /\ o.text \in Text /\ InputLength(t) \in Nat
  BY <1>1, Sizes, InputLengthType
<1>3. InputLength(t) = Len(s) /\ InputLength(t) <= Len(s)
  BY <1>1, <1>2
<1>4. TextApply(<<>> \o s, <<o>> \o t) = TextApply(<<>>, <<o>>) \o TextApply(s, t)
  <2>1. ASSUME NEW none, none = <<>>
        PROVE  TextApply(none \o s, <<o>> \o t) = TextApply(none, <<o>>) \o TextApply(s, t)
    <3>1. none \in Text /\ ExpectedInputSize(o) = Len(none)
      BY <1>2, <2>1, Nothing
    <3>2. o \in CompoundOp /\ t \in Operations /\ InputLength(t) <= Len(s)
      BY <1>1, <1>3
    <3> QED BY <3>1, <3>2, ApplyFirst, Zenon
  <2> QED BY <2>1, Zenon
<1>5. TextApply(<<>>, <<o>>) = o.text
  <2>1. ASSUME NEW none, none = <<>> PROVE TextApply(none, <<o>>) = o.text
    <3>1. none \in Text /\ ExpectedInputSize(o) = Len(none)
      BY <1>2, <2>1, Nothing
    <3> QED BY <1>1, <3>1, ApplyOne DEF IsInsert
  <2> QED BY <2>1, Zenon
<1>6. <<>> \o s = s
  BY ConcatEmptySeq DEF Text
<1>7. TextApply(s, q) = o.text \o TextApply(s, t)
  BY <1>1, <1>4, <1>5, <1>6, Zenon
<1> QED BY <1>1, <1>2, <1>3, <1>7 DEF o, t

\* What one step over an overlap gives leads what is left of the overlap by the
\* one to what is left by the other.
LEMMA OverlapMeets ==
  ASSUME NEW o1 \in CompoundOp, NEW o2 \in CompoundOp, ~IsInsert(o1), ~IsInsert(o2),
         NEW u \in Text, Len(u) \in Nat \ {0}
  PROVE  LET e == Overlap(o1.kind, o2.kind, Len(u))
         IN  Meet(Kept(o1, u), Kept(o2, u), e[1], e[2])
<1> DEFINE r == Retain(Len(u))
           d == Delete(Len(u))
           e == Overlap(o1.kind, o2.kind, Len(u))
<1>1. /\ <<r>> \in Operations /\ InputLength(<<r>>) = Len(u) /\ TextApply(u, <<r>>) = u
  <2>1. r \in CompoundOp /\ ~IsInsert(r) /\ r.kind = "Retain" /\ ExpectedInputSize(r) = Len(u)
    BY RetainType
  <2> HIDE DEF r
  <2> QED BY <2>1, ApplyOne
<1>2. /\ <<d>> \in Operations /\ InputLength(<<d>>) = Len(u) /\ TextApply(u, <<d>>) = <<>>
  <2>1. d \in CompoundOp /\ ~IsInsert(d) /\ d.kind = "Delete" /\ ExpectedInputSize(d) = Len(u)
    BY RetainType
  <2> HIDE DEF d
  <2> QED BY <2>1, ApplyOne
<1>3. o1.kind \in {"Retain", "Delete"} /\ o2.kind \in {"Retain", "Delete"}
  BY Sizes
<1>4. CASE o1.kind = "Retain" /\ o2.kind = "Retain"
  <2>1. e[1] = <<r>> /\ e[2] = <<r>> /\ Kept(o1, u) = u /\ Kept(o2, u) = u
    BY <1>4 DEF Overlap, Kept
  <2> HIDE DEF r, d, e
  <2>2. Meet(u, u, <<r>>, <<r>>)
    BY <1>1 DEF Meet
  <2> QED BY <2>1, <2>2 DEF e
<1>5. CASE o1.kind = "Delete" /\ o2.kind = "Delete"
  <2>1. e[1] = <<>> /\ e[2] = <<>> /\ Kept(o1, u) = <<>> /\ Kept(o2, u) = <<>>
    BY <1>5 DEF Overlap, Kept
  <2> HIDE DEF r, d, e
  <2>2. Meet(<<>>, <<>>, <<>>, <<>>)
    BY Nothing, Zenon DEF Meet
  <2> QED BY <2>1, <2>2 DEF e
<1>6. CASE o1.kind = "Delete" /\ o2.kind = "Retain"
  <2>1. e[1] = <<d>> /\ e[2] = <<>> /\ Kept(o1, u) = <<>> /\ Kept(o2, u) = u
    BY <1>6 DEF Overlap, Kept
  <2> HIDE DEF r, d, e
  <2>2. Meet(<<>>, u, <<d>>, <<>>)
    BY <1>2, Nothing, Zenon DEF Meet
  <2> QED BY <2>1, <2>2 DEF e
<1>7. CASE o1.kind = "Retain" /\ o2.kind = "Delete"
  <2>1. e[1] = <<>> /\ e[2] = <<d>> /\ Kept(o1, u) = u /\ Kept(o2, u) = <<>>
    BY <1>7 DEF Overlap, Kept
  <2> HIDE DEF r, d, e
  <2>2. Meet(u, <<>>, <<>>, <<d>>)
    BY <1>2, Nothing, Zenon DEF Meet
  <2> QED BY <2>1, <2>2 DEF e
<1> QED BY <1>3, <1>4, <1>5, <1>6, <1>7

\* Both operations of p can be applied to s.
BothApply(s, p) == InputLength(p[1]) = Len(s) /\ InputLength(p[2]) = Len(s)

Converges(s, p, w) == Meet(TextApply(s, p[1]), TextApply(s, p[2]), w[1], w[2])

LEMMA BothType ==
  ASSUME NEW s \in Text, NEW p \in Pairs, BothApply(s, p)
  PROVE  TextApply(s, p[1]) \in Text /\ TextApply(s, p[2]) \in Text
<1>1. InputLength(p[1]) <= Len(s) /\ InputLength(p[2]) <= Len(s)
  BY SizeType DEF BothApply
<1> QED BY <1>1, ApplyType, SizeType

LEMMA Insert1Converges ==
  ASSUME NEW s \in Text, NEW p \in Pairs, BothApply(s, p), Inserts(p[1]), NEW w,
         BothApply(s, After1(p)) => Converges(s, After1(p), w)
  PROVE  Converges(s, p, Emitted(<<<<Head(p[1])>>, <<Retain(Width(Head(p[1])))>>>>, w))
<1> DEFINE o == Head(p[1])
           r == Retain(Width(o))
           x1 == TextApply(s, Tail(p[1]))
           x2 == TextApply(s, p[2])
<1>1. /\ o \in CompoundOp /\ IsInsert(o) /\ o.text \in Text
      /\ Tail(p[1]) \in Operations /\ InputLength(Tail(p[1])) = Len(s)
      /\ TextApply(s, p[1]) = o.text \o x1
  BY ApplyInsertion, SizeType DEF BothApply
<1>2. BothApply(s, After1(p)) /\ After1(p) \in Pairs
  BY <1>1, Smaller1 DEF BothApply, After1
<1>3. x1 \in Text /\ x2 \in Text
  BY <1>2, BothType DEF After1
<1>4. Meet(x1, x2, w[1], w[2])
  BY <1>2 DEF Converges, After1
<1>5. Meet(o.text, <<>>, <<o>>, <<r>>)
  BY <1>1, InsertionMeets
<1> HIDE DEF o, r, x1, x2
<1>6. Meet(o.text \o x1, <<>> \o x2, <<o>> \o w[1], <<r>> \o w[2])
  BY <1>1, <1>3, <1>4, <1>5, Nothing, Joined, Zenon
<1>7. <<>> \o x2 = x2
  BY <1>3, ConcatEmptySeq DEF Text
<1>8. Meet(TextApply(s, p[1]), x2, <<o>> \o w[1], <<r>> \o w[2])
  BY <1>1, <1>6, <1>7, Zenon
<1> QED BY <1>8 DEF Converges, Emitted, o, r, x2

LEMMA Insert2Converges ==
  ASSUME NEW s \in Text, NEW p \in Pairs, BothApply(s, p), Inserts(p[2]), NEW w,
         BothApply(s, After2(p)) => Converges(s, After2(p), w)
  PROVE  Converges(s, p, Emitted(<<<<Retain(Width(Head(p[2])))>>, <<Head(p[2])>>>>, w))
<1> DEFINE o == Head(p[2])
           r == Retain(Width(o))
           x1 == TextApply(s, p[1])
           x2 == TextApply(s, Tail(p[2]))
<1>1. /\ o \in CompoundOp /\ IsInsert(o) /\ o.text \in Text
      /\ Tail(p[2]) \in Operations /\ InputLength(Tail(p[2])) = Len(s)
      /\ TextApply(s, p[2]) = o.text \o x2
  BY ApplyInsertion, SizeType DEF BothApply
<1>2. BothApply(s, After2(p)) /\ After2(p) \in Pairs
  BY <1>1, Smaller2 DEF BothApply, After2
<1>3. x1 \in Text /\ x2 \in Text
  BY <1>2, BothType DEF After2
<1>4. Meet(x1, x2, w[1], w[2])
  BY <1>2 DEF Converges, After2
<1>5. Meet(<<>>, o.text, <<r>>, <<o>>)
  BY <1>1, InsertionMeets
<1> HIDE DEF o, r, x1, x2
<1>6. Meet(<<>> \o x1, o.text \o x2, <<r>> \o w[1], <<o>> \o w[2])
  BY <1>1, <1>3, <1>4, <1>5, Nothing, Joined, Zenon
<1>7. <<>> \o x1 = x1
  BY <1>3, ConcatEmptySeq DEF Text
<1>8. Meet(x1, TextApply(s, p[2]), <<r>> \o w[1], <<o>> \o w[2])
  BY <1>1, <1>6, <1>7, Zenon
<1> QED BY <1>8 DEF Converges, Emitted, o, r, x1

LEMMA OverlapConverges ==
  ASSUME NEW s \in Text, NEW p \in Pairs, BothApply(s, p), Overlaps(p), NEW w,
         \A v \in Text : BothApply(v, AfterBoth(p)) => Converges(v, AfterBoth(p), w)
  PROVE  Converges(s, p, Emitted(Overlap(Head(p[1]).kind, Head(p[2]).kind, Overlapping(p)), w))
<1> DEFINE o1 == Head(p[1])
           o2 == Head(p[2])
           n  == Overlapping(p)
           r1 == Rest(p[1], n)
           r2 == Rest(p[2], n)
           e  == Overlap(o1.kind, o2.kind, n)
<1>1. /\ p[1] \in Operations /\ p[1] # <<>> /\ ~IsInsert(o1) /\ o1 \in CompoundOp
      /\ p[2] \in Operations /\ p[2] # <<>> /\ ~IsInsert(o2) /\ o2 \in CompoundOp
      /\ n \in Nat \ {0} /\ n \in 1..Width(o1) /\ n \in 1..Width(o2)
  BY OverlapType
<1>2. /\ r1 \in Operations /\ InputLength(r1) = Len(s) - n
      /\ r2 \in Operations /\ InputLength(r2) = Len(s) - n
  BY <1>1, RestType DEF BothApply
<1>3. n \in 0..Len(s)
  <2>1. InputLength(r1) \in Nat /\ Len(s) \in Nat
    BY <1>2, InputLengthType DEF Text
  <2> HIDE DEF n, r1
  <2> QED BY <1>1, <1>2, <2>1
<1>4. PICK u, v \in Text : s = u \o v /\ Len(u) = n /\ Len(v) = Len(s) - n
  BY <1>3, SplitText
<1>5. BothApply(v, AfterBoth(p))
  BY <1>2, <1>4 DEF BothApply, AfterBoth
<1>6. Meet(TextApply(v, r1), TextApply(v, r2), w[1], w[2])
  BY <1>5 DEF Converges, AfterBoth
<1>7. TextApply(v, r1) \in Text /\ TextApply(v, r2) \in Text
  BY <1>2, <1>5, BothType, SmallerBoth DEF AfterBoth
<1>8. Meet(Kept(o1, u), Kept(o2, u), e[1], e[2])
  BY <1>1, <1>4, OverlapMeets
<1>9. Kept(o1, u) \in Text /\ Kept(o2, u) \in Text
  BY Nothing DEF Kept
<1>10. /\ TextApply(u \o v, p[1]) = Kept(o1, u) \o TextApply(v, r1)
       /\ TextApply(u \o v, p[2]) = Kept(o2, u) \o TextApply(v, r2)
  <2>1. Len(v) = InputLength(p[1]) - n /\ Len(v) = InputLength(p[2]) - n /\ Len(u) = n
    BY <1>4 DEF BothApply
  <2>2. u \in Text /\ v \in Text
    BY <1>4
  <2>3. TextApply(u \o v, p[1]) = Kept(o1, u) \o TextApply(v, r1)
    <3>1. p[1] \in Operations /\ p[1] # <<>> /\ ~IsInsert(Head(p[1])) /\ n \in 1..Width(Head(p[1]))
      BY <1>1
    <3> HIDE DEF n
    <3> QED BY <2>1, <2>2, <3>1, ApplyRest, ZenonT(40)
  <2>4. TextApply(u \o v, p[2]) = Kept(o2, u) \o TextApply(v, r2)
    <3>1. p[2] \in Operations /\ p[2] # <<>> /\ ~IsInsert(Head(p[2])) /\ n \in 1..Width(Head(p[2]))
      BY <1>1
    <3> HIDE DEF n
    <3> QED BY <2>1, <2>2, <3>1, ApplyRest, ZenonT(40)
  <2> QED BY <2>3, <2>4
<1> HIDE DEF o1, o2, n, r1, r2, e
<1>11. Meet(Kept(o1, u) \o TextApply(v, r1), Kept(o2, u) \o TextApply(v, r2),
            e[1] \o w[1], e[2] \o w[2])
  BY <1>6, <1>7, <1>8, <1>9, Joined
<1>12. Meet(TextApply(s, p[1]), TextApply(s, p[2]), e[1] \o w[1], e[2] \o w[2])
  BY <1>4, <1>10, <1>11, Zenon
<1> QED BY <1>12 DEF Converges, Emitted, o1, o2, n, e

LEMMA ReadsSomething ==
  ASSUME NEW q \in Operations, q # <<>>, ~Inserts(q)
  PROVE  InputLength(q) # 0
<1>1. /\ Head(q) \in CompoundOp /\ Tail(q) \in Operations
      /\ InputLength(q) = ExpectedInputSize(Head(q)) + InputLength(Tail(q)) /\ ~IsInsert(Head(q))
  BY FirstOperation DEF Inserts
<1> QED BY <1>1, Sizes, InputLengthType

LEMMA EndConverges ==
  ASSUME NEW s \in Text, NEW p \in Pairs, BothApply(s, p), Finished(p)
  PROVE  Converges(s, p, <<<<>>, <<>>>>)
<1>1. p[1] \in Operations /\ p[2] \in Operations /\ ~Inserts(p[1]) /\ ~Inserts(p[2])
  BY SizeType DEF Finished
<1>2. p[1] = <<>> \/ p[2] = <<>>
  BY DEF Finished, Overlaps
<1>3. Len(s) = 0
  BY <1>2, InputLengthEmpty DEF BothApply
<1>4. p[1] = <<>> /\ p[2] = <<>>
  BY <1>1, <1>3, ReadsSomething DEF BothApply
<1>5. s = <<>>
  BY <1>3 DEF Text
<1>6. Meet(<<>>, <<>>, <<>>, <<>>)
  BY Nothing, Zenon DEF Meet
<1>7. TextApply(s, p[1]) = <<>> /\ TextApply(s, p[2]) = <<>>
  BY <1>4, <1>5, Nothing, Zenon
<1> QED BY <1>6, <1>7 DEF Converges

\* The walk of transform converges, by induction over what is left to walk.
LEMMA WalkConverges ==
  ASSUME NEW s \in Text, NEW p \in Pairs, BothApply(s, p)
  PROVE  Converges(s, p, TransformOps[p])
<1> DEFINE All(q) == \A t \in Text : BothApply(t, q) => Converges(t, q, TransformOps[q])
           S == {j \in Nat : \A q \in Pairs : Size(q) <= j => All(q)}
<1>1. ASSUME NEW q \in Pairs, \A r \in Pairs : Size(r) < Size(q) => All(r)
      PROVE  All(q)
  <2> SUFFICES ASSUME NEW t \in Text, BothApply(t, q)
               PROVE  Converges(t, q, TransformRound(TransformOps, q))
    BY TransformDefined
  <2>1. CASE Inserts(q[1])
    <3> DEFINE w == TransformOps[After1(q)]
    <3>1. BothApply(t, After1(q)) => Converges(t, After1(q), w)
      BY <1>1, <2>1, Smaller1
    <3> HIDE DEF w
    <3>2. Converges(t, q, Emitted(<<<<Head(q[1])>>, <<Retain(Width(Head(q[1])))>>>>, w))
      BY <2>1, <3>1, Insert1Converges
    <3> QED BY <2>1, <3>2, RoundInsert1, Zenon DEF w
  <2>2. CASE ~Inserts(q[1]) /\ Inserts(q[2])
    <3> DEFINE w == TransformOps[After2(q)]
    <3>1. BothApply(t, After2(q)) => Converges(t, After2(q), w)
      BY <1>1, <2>2, Smaller2
    <3> HIDE DEF w
    <3>2. Converges(t, q, Emitted(<<<<Retain(Width(Head(q[2])))>>, <<Head(q[2])>>>>, w))
      BY <2>2, <3>1, Insert2Converges
    <3>3. TransformRound(TransformOps, q)
            = Emitted(<<<<Retain(Width(Head(q[2])))>>, <<Head(q[2])>>>>, w)
      BY <2>2, RoundInsert2 DEF w
    <3> QED BY <3>2, <3>3, Zenon
  <2>3. CASE Overlaps(q)
    <3> DEFINE w == TransformOps[AfterBoth(q)]
               e == Overlap(Head(q[1]).kind, Head(q[2]).kind, Overlapping(q))
    <3>1. \A v \in Text : BothApply(v, AfterBoth(q)) => Converges(v, AfterBoth(q), w)
      BY <1>1, <2>3, SmallerBoth
    <3>2. TransformRound(TransformOps, q) = Emitted(e, w)
      BY <2>3, RoundOverlap
    <3> HIDE DEF w
    <3>3. Converges(t, q, Emitted(e, w))
      BY <2>3, <3>1, OverlapConverges
    <3> QED BY <3>2, <3>3, Zenon
  <2>4. CASE Finished(q)
    BY <2>4, EndConverges, RoundEnd, Zenon
  <2> QED BY <2>1, <2>2, <2>3, <2>4 DEF Finished
<1> HIDE DEF All
<1>2. 0 \in S
  <2> SUFFICES ASSUME NEW q \in Pairs, Size(q) <= 0 PROVE All(q)
    OBVIOUS
  <2>1. \A r \in Pairs : ~(Size(r) < Size(q))
    BY SizeType
  <2> QED BY <1>1, <2>1
<1>3. ASSUME NEW j \in Nat, j \in S PROVE j+1 \in S
  <2> SUFFICES ASSUME NEW q \in Pairs, Size(q) <= j+1 PROVE All(q)
    OBVIOUS
  <2>1. ASSUME NEW r \in Pairs, Size(r) < Size(q) PROVE All(r)
    <3>1. Size(r) <= j
      BY <2>1, SizeType
    <3> QED BY <1>3, <3>1
  <2> QED BY <1>1, <2>1
<1>4. Nat \subseteq S
  <2> HIDE DEF S
  <2> QED BY <1>2, <1>3, Induction
<1>5. All(p)
  BY <1>4, SizeType
<1> QED BY <1>5 DEF All

-----------------------------------------------------------------------------
(* What an operation makes of a document: its length and what is new in it *)

LEMMA OutputSizes ==
  ASSUME NEW o \in CompoundOp
  PROVE  OpOutputLen(o) \in Nat
  BY Sizes DEF OpOutputLen

IsOutputSum(f, q) ==
  f = [n \in 0..Len(q) |-> IF n = 0 THEN 0 ELSE f[n-1] + OpOutputLen(q[n])]

\* So is the length of the output.
LEMMA OutputSum ==
  ASSUME NEW q \in Operations
  PROVE  \E f : IsOutputSum(f, q) /\ OutputLength(q) = f[Len(q)]
<1> DEFINE step == [n \in 1..Len(q) |-> [y \in Nat |-> y + OpOutputLen(q[n])]]
<1>1. Len(q) \in Nat /\ \A n \in 1..Len(q) : OpOutputLen(q[n]) \in Nat
  BY OutputSizes DEF Operations
<1>2. step \in [1..Len(q) -> [Nat -> Nat]]
  BY <1>1
<1>3. PICK f : f \in Folds(Len(q), Nat, 0, step)
  <2>1. \A x \in Nat : Folds(Len(q), Nat, x, step) # {}
    <3> HIDE DEF step
    <3> QED BY <1>1, <1>2, FoldExists, Zenon
  <2> HIDE DEF step
  <2> QED BY <2>1
<1>4. \A n \in 0..Len(q) : f[n] = IF n = 0 THEN 0 ELSE f[n-1] + OpOutputLen(q[n])
  <2>1. f \in [0..Len(q) -> Nat] /\ f[0] = 0 /\ \A n \in 1..Len(q) : f[n] = step[n][f[n-1]]
    BY <1>3 DEF Folds
  <2>2. ASSUME NEW n \in 1..Len(q) PROVE f[n] = f[n-1] + OpOutputLen(q[n])
    <3>1. f[n-1] \in Nat
      <4> HIDE DEF step
      <4> QED BY <1>1, <2>1
    <3> QED BY <2>1, <3>1
  <2> HIDE DEF step
  <2> QED BY <1>1, <2>1, <2>2
<1>5. IsOutputSum(f, q)
  BY <1>3, <1>4 DEF Folds, IsOutputSum
<1> QED BY <1>5 DEF OutputLength, IsOutputSum

LEMMA OutputSumStep ==
  ASSUME NEW f, NEW q \in Operations, IsOutputSum(f, q)
  PROVE  f[0] = 0 /\ \A n \in 1..Len(q) : f[n] = f[n-1] + OpOutputLen(q[n])
<1>1. Len(q) \in Nat
  BY DEF Operations
<1> QED BY <1>1 DEF IsOutputSum

LEMMA OutputLengthType ==
  ASSUME NEW q \in Operations
  PROVE  OutputLength(q) \in Nat
<1>1. Len(q) \in Nat /\ \A n \in 1..Len(q) : OpOutputLen(q[n]) \in Nat
  BY OutputSizes DEF Operations
<1>2. PICK f : IsOutputSum(f, q) /\ OutputLength(q) = f[Len(q)]
  BY OutputSum
<1>3. f[0] = 0 /\ \A n \in 1..Len(q) : f[n] = f[n-1] + OpOutputLen(q[n])
  BY <1>2, OutputSumStep
<1>4. f[0] \in Nat /\ \A n \in 1..Len(q) : f[n-1] \in Nat => f[n] \in Nat
  BY <1>1, <1>3
<1>5. \A n \in 0..Len(q) : f[n] \in Nat
  BY <1>1, <1>4, FoldTyped
<1> QED BY <1>1, <1>2, <1>5

LEMMA OutputLengthAppend ==
  ASSUME NEW q \in Operations, NEW o \in CompoundOp
  PROVE  OutputLength(Append(q, o)) = OutputLength(q) + OpOutputLen(o)
<1> DEFINE r == Append(q, o)
<1>1. /\ r \in Operations /\ Len(q) \in Nat /\ Len(r) = Len(q) + 1
      /\ r[Len(q) + 1] = o /\ \A n \in 1..Len(q) : r[n] = q[n]
  BY AppendProperties DEF Operations
<1>2. PICK f : IsOutputSum(f, q) /\ OutputLength(q) = f[Len(q)]
  BY OutputSum
<1> HIDE DEF r
<1>3. PICK g : IsOutputSum(g, r) /\ OutputLength(r) = g[Len(r)]
  BY <1>1, OutputSum
<1>4. f[0] = 0 /\ \A n \in 1..Len(q) : f[n] = f[n-1] + OpOutputLen(q[n])
  BY <1>1, <1>2 DEF IsOutputSum
<1>5. g[0] = 0 /\ \A n \in 1..Len(r) : g[n] = g[n-1] + OpOutputLen(r[n])
  BY <1>1, <1>3 DEF IsOutputSum
<1>6. SameSteps(f, g, Len(q))
  BY <1>1, <1>4, <1>5 DEF SameSteps
<1>7. SameValues(f, g, Len(q))
  BY <1>1, <1>6, Alike
<1>8. g[Len(r)] = g[Len(q)] + OpOutputLen(o)
  BY <1>1, <1>5
<1> QED BY <1>1, <1>2, <1>3, <1>7, <1>8 DEF r, SameValues

LEMMA OutputLengthEmpty == OutputLength(<<>>) = 0
<1>1. <<>> \in Operations /\ Len(<<>>) = 0
  BY EmptySeq DEF Operations
<1>2. PICK f : IsOutputSum(f, <<>>) /\ OutputLength(<<>>) = f[Len(<<>>)]
  BY <1>1, OutputSum
<1> QED BY <1>1, <1>2 DEF IsOutputSum

LEMMA OutputLengthConcat ==
  ASSUME NEW p \in Operations, NEW q \in Operations
  PROVE  OutputLength(p \o q) = OutputLength(p) + OutputLength(q)
<1> DEFINE S == {d \in Operations : OutputLength(p \o d) = OutputLength(p) + OutputLength(d)}
<1>1. <<>> \in S
  <2>1. p \o <<>> = p /\ <<>> \in Operations
    BY ConcatEmptySeq, EmptySeq DEF Operations
  <2> QED BY <2>1, OutputLengthEmpty, OutputLengthType
<1>2. ASSUME NEW d \in Operations, d \in S, NEW o \in CompoundOp PROVE Append(d, o) \in S
  <2>1. p \o d \in Operations /\ Append(d, o) \in Operations
    BY ConcatProperties, AppendProperties DEF Operations
  <2>2. p \o Append(d, o) = Append(p \o d, o)
    BY DEF Operations
  <2>3. OutputLength(Append(p \o d, o)) = OutputLength(p \o d) + OpOutputLen(o)
    BY <2>1, OutputLengthAppend
  <2>4. OutputLength(Append(d, o)) = OutputLength(d) + OpOutputLen(o)
    BY OutputLengthAppend
  <2>5. OutputLength(p) \in Nat /\ OutputLength(d) \in Nat /\ OpOutputLen(o) \in Nat
    BY OutputLengthType, OutputSizes
  <2>6. OutputLength(p \o d) = OutputLength(p) + OutputLength(d)
    BY <1>2
  <2>7. OutputLength(p \o Append(d, o)) = OutputLength(p) + OutputLength(Append(d, o))
    BY <2>2, <2>3, <2>4, <2>5, <2>6
  <2> QED BY <2>1, <2>7
<1>3. Operations \subseteq S
  <2> HIDE DEF S
  <2> QED BY <1>1, <1>2, SequenceInduction DEF Operations
<1> QED BY <1>3

InsertedBy(o) == IF IsInsert(o) THEN o.text ELSE <<>>

LEMMA InsertedByType ==
  ASSUME NEW o \in CompoundOp
  PROVE  InsertedBy(o) \in Text
  BY Sizes, Nothing DEF InsertedBy

IsInsertedText(f, q) ==
  f = [n \in 0..Len(q) |-> IF n = 0 THEN <<>> ELSE f[n-1] \o InsertedBy(q[n])]

\* And the text it inserts is put together likewise.
LEMMA InsertedRun ==
  ASSUME NEW q \in Operations
  PROVE  \E f : IsInsertedText(f, q) /\ Inserted(q) = f[Len(q)]
<1> DEFINE step == [n \in 1..Len(q) |-> [y \in Text |-> y \o InsertedBy(q[n])]]
<1>1. Len(q) \in Nat /\ \A n \in 1..Len(q) : InsertedBy(q[n]) \in Text
  BY InsertedByType DEF Operations
<1>2. step \in [1..Len(q) -> [Text -> Text]]
  <2>1. \A n \in 1..Len(q), y \in Text : y \o InsertedBy(q[n]) \in Text
    BY <1>1, ConcatProperties DEF Text
  <2> QED BY <2>1
<1>3. PICK f : f \in Folds(Len(q), Text, <<>>, step)
  <2>1. \A x \in Text : Folds(Len(q), Text, x, step) # {}
    <3> HIDE DEF step
    <3> QED BY <1>1, <1>2, FoldExists, Zenon
  <2>2. Folds(Len(q), Text, <<>>, step) # {}
    <3> HIDE DEF step
    <3> QED BY <2>1, Nothing, Zenon
  <2> HIDE DEF step
  <2> QED BY <2>2
<1>4. \A n \in 0..Len(q) : f[n] = IF n = 0 THEN <<>> ELSE f[n-1] \o InsertedBy(q[n])
  <2>1. f \in [0..Len(q) -> Text] /\ f[0] = <<>> /\ \A n \in 1..Len(q) : f[n] = step[n][f[n-1]]
    <3> HIDE DEF step
    <3> QED BY <1>3, Zenon DEF Folds
  <2>2. ASSUME NEW n \in 1..Len(q) PROVE f[n] = f[n-1] \o InsertedBy(q[n])
    <3>1. f[n-1] \in Text
      <4> HIDE DEF step
      <4> QED BY <1>1, <2>1
    <3> QED BY <2>1, <3>1
  <2>3. \A n \in 0..Len(q) : n = 0 \/ (n # 0 /\ n \in 1..Len(q))
    BY <1>1
  <2> HIDE DEF step
  <2> QED BY <2>1, <2>2, <2>3, Zenon
<1>5. IsInsertedText(f, q)
  <2>1. f = [n \in 0..Len(q) |-> f[n]]
    <3> HIDE DEF step
    <3> QED BY <1>3 DEF Folds
  <2> HIDE DEF step
  <2> QED BY <1>4, <2>1, Zenon DEF IsInsertedText
<1> QED BY <1>5, Zenon DEF Inserted, IsInsertedText, InsertedBy

LEMMA InsertedStep ==
  ASSUME NEW f, NEW q \in Operations, IsInsertedText(f, q)
  PROVE  f[0] = <<>> /\ \A n \in 1..Len(q) : f[n] = f[n-1] \o InsertedBy(q[n])
<1>1. Len(q) \in Nat
  BY DEF Operations
<1> QED BY <1>1 DEF IsInsertedText

LEMMA InsertedType ==
  ASSUME NEW q \in Operations
  PROVE  Inserted(q) \in Text
<1>1. Len(q) \in Nat /\ \A n \in 1..Len(q) : InsertedBy(q[n]) \in Text
  BY InsertedByType DEF Operations
<1>2. PICK f : IsInsertedText(f, q) /\ Inserted(q) = f[Len(q)]
  BY InsertedRun
<1>3. f[0] = <<>> /\ \A n \in 1..Len(q) : f[n] = f[n-1] \o InsertedBy(q[n])
  BY <1>2, InsertedStep
<1>4. f[0] \in Text /\ \A n \in 1..Len(q) : f[n-1] \in Text => f[n] \in Text
  <2>1. f[0] \in Text
    BY <1>3, EmptySeq DEF Text
  <2>2. \A u, v \in Text : u \o v \in Text
    BY ConcatProperties DEF Text
  <2> QED BY <1>1, <1>3, <2>1, <2>2, Zenon
<1>5. \A n \in 0..Len(q) : f[n] \in Text
  BY <1>1, <1>4, FoldTyped
<1> QED BY <1>1, <1>2, <1>5

LEMMA InsertedAppend ==
  ASSUME NEW q \in Operations, NEW o \in CompoundOp
  PROVE  Inserted(Append(q, o)) = Inserted(q) \o InsertedBy(o)
<1> DEFINE r == Append(q, o)
<1>1. /\ r \in Operations /\ Len(q) \in Nat /\ Len(r) = Len(q) + 1
      /\ r[Len(q) + 1] = o /\ \A n \in 1..Len(q) : r[n] = q[n]
  BY AppendProperties DEF Operations
<1>2. PICK f : IsInsertedText(f, q) /\ Inserted(q) = f[Len(q)]
  BY InsertedRun
<1> HIDE DEF r
<1>3. PICK g : IsInsertedText(g, r) /\ Inserted(r) = g[Len(r)]
  BY <1>1, InsertedRun
<1>4. f[0] = <<>> /\ \A n \in 1..Len(q) : f[n] = f[n-1] \o InsertedBy(q[n])
  BY <1>2, InsertedStep
<1>5. g[0] = <<>> /\ \A n \in 1..Len(r) : g[n] = g[n-1] \o InsertedBy(r[n])
  BY <1>1, <1>3, InsertedStep
<1>6. ASSUME NEW n \in 1..Len(q), f[n-1] = g[n-1] PROVE f[n] = g[n]
  <2>1. n \in 1..Len(r) /\ r[n] = q[n]
    BY <1>1
  <2>2. f[n] = f[n-1] \o InsertedBy(q[n]) /\ g[n] = g[n-1] \o InsertedBy(r[n])
    BY <1>4, <1>5, <2>1, Zenon
  <2> QED BY <1>6, <2>1, <2>2, Zenon
<1>7. SameValues(f, g, Len(q))
  BY <1>1, <1>4, <1>5, <1>6, Alike DEF SameSteps
<1>8. g[Len(r)] = g[Len(q)] \o InsertedBy(o)
  <2>1. Len(r) \in 1..Len(r) /\ Len(r) - 1 = Len(q) /\ r[Len(r)] = o
    BY <1>1
  <2>2. g[Len(r)] = g[Len(r)-1] \o InsertedBy(r[Len(r)])
    BY <1>5, <2>1, Zenon
  <2> QED BY <2>1, <2>2, Zenon
<1>9. f[Len(q)] = g[Len(q)]
  BY <1>1, <1>7 DEF SameValues
<1> QED BY <1>2, <1>3, <1>8, <1>9, Zenon DEF r

LEMMA InsertedEmpty == Inserted(<<>>) = <<>>
<1>1. PICK f : IsInsertedText(f, <<>>) /\ Inserted(<<>>) = f[Len(<<>>)]
  BY Nothing, InsertedRun
<1>2. f[0] = <<>>
  BY <1>1, Nothing, InsertedStep
<1> QED BY <1>1, <1>2, Nothing

LEMMA InsertedConcat ==
  ASSUME NEW p \in Operations, NEW q \in Operations
  PROVE  Inserted(p \o q) = Inserted(p) \o Inserted(q)
<1> DEFINE S == {d \in Operations : Inserted(p \o d) = Inserted(p) \o Inserted(d)}
<1>1. <<>> \in S
  <2>1. p \o <<>> = p /\ <<>> \in Operations
    BY ConcatEmptySeq, EmptySeq DEF Operations
  <2>2. Inserted(p) \o <<>> = Inserted(p)
    BY InsertedType, ConcatEmptySeq DEF Text
  <2> QED BY <2>1, <2>2, InsertedEmpty
<1>2. ASSUME NEW d \in Operations, d \in S, NEW o \in CompoundOp PROVE Append(d, o) \in S
  <2>1. p \o d \in Operations /\ Append(d, o) \in Operations
    BY ConcatProperties, AppendProperties DEF Operations
  <2>2. p \o Append(d, o) = Append(p \o d, o)
    BY DEF Operations
  <2>3. Inserted(Append(p \o d, o)) = Inserted(p \o d) \o InsertedBy(o)
    BY <2>1, InsertedAppend
  <2>4. Inserted(Append(d, o)) = Inserted(d) \o InsertedBy(o)
    BY InsertedAppend
  <2>5. Inserted(p) \in Text /\ Inserted(d) \in Text /\ InsertedBy(o) \in Text
    BY InsertedType, InsertedByType
  <2>6. Inserted(p \o d) = Inserted(p) \o Inserted(d)
    BY <1>2
  <2>7. (Inserted(p) \o Inserted(d)) \o InsertedBy(o) = Inserted(p) \o (Inserted(d) \o InsertedBy(o))
    BY <2>5, TextsAssociative
  <2>8. Inserted(p \o Append(d, o)) = Inserted(p) \o Inserted(Append(d, o))
    BY <2>2, <2>3, <2>4, <2>6, <2>7, Zenon
  <2> QED BY <2>1, <2>8
<1>3. Operations \subseteq S
  <2> HIDE DEF S
  <2> QED BY <1>1, <1>2, SequenceInduction DEF Operations
<1> QED BY <1>3

\* apply writes as many characters as output_length says.
LEMMA WrittenLength ==
  ASSUME NEW s \in Text, NEW r \in Nat, NEW o \in CompoundOp,
         r + ExpectedInputSize(o) <= Len(s)
  PROVE  Len(Written(s, r, o)) = OpOutputLen(o)
<1>1. CASE IsInsert(o)
  <2>1. Written(s, r, o) = o.text /\ o.kind # "Delete"
    BY <1>1 DEF Written, IsInsert
  <2> QED BY <1>1, <2>1 DEF OpOutputLen, Width
<1>2. CASE o.kind = "Delete"
  <2>1. Written(s, r, o) = <<>> /\ OpOutputLen(o) = 0
    BY <1>2 DEF Written, IsInsert, OpOutputLen
  <2> QED BY <2>1, Nothing
<1>3. CASE o.kind = "Retain"
  <2> DEFINE c == o.count
  <2>1. c \in Nat \ {0} /\ ExpectedInputSize(o) = c /\ Width(o) = c
    BY <1>3, Sizes DEF IsInsert
  <2>2. Written(s, r, o) = SubSeq(s, r + 1, r + c) /\ OpOutputLen(o) = c
    BY <1>3, <2>1 DEF Written, IsInsert, OpOutputLen
  <2> HIDE DEF c
  <2>3. r + c <= Len(s) /\ s \in Seq(Alphabet) /\ Len(s) \in Nat
    BY <2>1 DEF Text
  <2>4. Len(SubSeq(s, r + 1, r + c)) = c
    BY <2>1, <2>3
  <2> QED BY <2>2, <2>4
<1> QED BY <1>1, <1>2, <1>3, Sizes

LEMMA ApplyLength ==
  ASSUME NEW s \in Text, NEW q \in Operations, InputLength(q) <= Len(s)
  PROVE  Len(TextApply(s, q)) = OutputLength(q)
<1> DEFINE S == {d \in Operations : InputLength(d) <= Len(s) => Len(TextApply(s, d)) = OutputLength(d)}
<1>1. <<>> \in S
  BY Nothing, ApplyEmpty, OutputLengthEmpty
<1>2. ASSUME NEW d \in Operations, d \in S, NEW o \in CompoundOp PROVE Append(d, o) \in S
  <2>1. /\ Append(d, o) \in Operations
        /\ InputLength(Append(d, o)) = InputLength(d) + ExpectedInputSize(o)
        /\ InputLength(d) \in Nat /\ ExpectedInputSize(o) \in Nat
    BY AppendProperties, InputLengthAppend, InputLengthType, Sizes DEF Operations
  <2>2. ASSUME InputLength(Append(d, o)) <= Len(s)
        PROVE  Len(TextApply(s, Append(d, o))) = OutputLength(Append(d, o))
    <3> DEFINE w == Written(s, InputLength(d), o)
               x == TextApply(s, d)
    <3>1. InputLength(d) + ExpectedInputSize(o) <= Len(s) /\ InputLength(d) <= Len(s)
      <4>1. Len(s) \in Nat
        BY DEF Text
      <4> QED BY <2>1, <2>2, <4>1
    <3>2. TextApply(s, Append(d, o)) = x \o w
      BY <3>1, ApplyAppend
    <3>3. Len(x) = OutputLength(d) /\ Len(w) = OpOutputLen(o) /\ x \in Text /\ w \in Text
      BY <1>2, <2>1, <3>1, WrittenLength, WrittenType, ApplyType
    <3> HIDE DEF w, x
    <3>4. Len(x \o w) = Len(x) + Len(w)
      BY <3>3, ConcatProperties DEF Text
    <3> QED BY <3>2, <3>3, <3>4, OutputLengthAppend
  <2> QED BY <2>1, <2>2
<1>3. Operations \subseteq S
  <2> HIDE DEF S
  <2> QED BY <1>1, <1>2, SequenceInduction DEF Operations
<1> QED BY <1>3

LEMMA OutputOne ==
  ASSUME NEW o \in CompoundOp, NEW t \in Operations
  PROVE  /\ <<o>> \o t \in Operations
         /\ InputLength(<<o>> \o t) = ExpectedInputSize(o) + InputLength(t)
         /\ OutputLength(<<o>> \o t) = OpOutputLen(o) + OutputLength(t)
<1> DEFINE q == <<o>> \o t
<1>1. <<o>> \in Operations /\ InputLength(<<o>>) = ExpectedInputSize(o)
  BY OneOperation
<1>2. q \in Operations
  BY <1>1, ConcatProperties DEF Operations
<1>3. InputLength(q) = ExpectedInputSize(o) + InputLength(t)
  BY <1>1, InputLengthConcat
<1>4. OutputLength(q) = OutputLength(<<o>>) + OutputLength(t)
  BY <1>1, OutputLengthConcat
<1>5. OutputLength(Append(<<>>, o)) = OutputLength(<<>>) + OpOutputLen(o)
  BY Nothing, OutputLengthAppend
<1>6. Append(<<>>, o) = <<o>>
  OBVIOUS
<1>7. OutputLength(<<o>>) = OpOutputLen(o)
  BY <1>5, <1>6, OutputLengthEmpty, OutputSizes
<1> QED BY <1>2, <1>3, <1>4, <1>7

LEMMA OutputFirst ==
  ASSUME NEW q \in Operations, q # <<>>
  PROVE  OutputLength(q) = OpOutputLen(Head(q)) + OutputLength(Tail(q))
<1>1. Head(q) \in CompoundOp /\ Tail(q) \in Operations /\ q = <<Head(q)>> \o Tail(q)
  BY FirstOperation
<1>2. OutputLength(<<Head(q)>> \o Tail(q)) = OpOutputLen(Head(q)) + OutputLength(Tail(q))
  BY <1>1, OutputOne
<1> QED BY <1>1, <1>2, Zenon

-----------------------------------------------------------------------------
(* Condensing changes nothing of what an operation does                    *)

\* r does what q does.
Equivalent(q, r) ==
  /\ r \in Operations /\ InputLength(r) = InputLength(q)
  /\ OutputLength(r) = OutputLength(q) /\ Inserted(r) = Inserted(q)
  /\ \A s \in Text : InputLength(q) <= Len(s) => TextApply(s, r) = TextApply(s, q)

LEMMA MergeType ==
  ASSUME NEW o1 \in CompoundOp, NEW o2 \in CompoundOp, o1.kind = o2.kind
  PROVE  /\ Merge(o1, o2) \in CompoundOp /\ Merge(o1, o2).kind = o1.kind
         /\ ExpectedInputSize(Merge(o1, o2)) = ExpectedInputSize(o1) + ExpectedInputSize(o2)
         /\ OpOutputLen(Merge(o1, o2)) = OpOutputLen(o1) + OpOutputLen(o2)
         /\ InsertedBy(Merge(o1, o2)) = InsertedBy(o1) \o InsertedBy(o2)
<1>1. CASE IsInsert(o1)
  <2>1. IsInsert(o2) /\ o1.text \in Text \ {<<>>} /\ o2.text \in Text \ {<<>>}
    BY <1>1 DEF IsInsert, CompoundOp
  <2>2. o1.text \o o2.text \in Text \ {<<>>} /\ Len(o1.text \o o2.text) = Len(o1.text) + Len(o2.text)
    BY <2>1, ConcatProperties, ConcatEqualIffEmpty DEF Text
  <2>3. Merge(o1, o2) = [kind |-> "Insert", text |-> o1.text \o o2.text]
    BY <1>1 DEF Merge, Insert
  <2> DEFINE t == o1.text \o o2.text
  <2> HIDE DEF t
  <2>4. [kind |-> "Insert", text |-> t] \in CompoundOp
    BY <2>2 DEF CompoundOp, t
  <2>5. OpOutputLen(Merge(o1, o2)) = OpOutputLen(o1) + OpOutputLen(o2)
    BY <1>1, <2>1, <2>2, <2>3 DEF IsInsert, OpOutputLen, Width, t
  <2>6. IsInsert(Merge(o1, o2)) /\ Merge(o1, o2).text = t
    <3>1. Merge(o1, o2) = [kind |-> "Insert", text |-> t]
      BY <2>3 DEF t
    <3>2. Merge(o1, o2).kind = "Insert" /\ Merge(o1, o2).text = t
      BY <3>1
    <3> QED BY <3>2, Zenon DEF IsInsert
  <2>7. InsertedBy(Merge(o1, o2)) = InsertedBy(o1) \o InsertedBy(o2)
    BY <1>1, <2>1, <2>6, Zenon DEF InsertedBy, t
  <2>8. ExpectedInputSize(Merge(o1, o2)) = 0 /\ ExpectedInputSize(o1) = 0 /\ ExpectedInputSize(o2) = 0
    BY <1>1, <2>1, <2>6, Zenon DEF ExpectedInputSize
  <2>9. Merge(o1, o2).kind = o1.kind
    BY <1>1, <2>6 DEF IsInsert
  <2>10. Merge(o1, o2) \in CompoundOp
    BY <2>3, <2>4 DEF t
  <2>11. ExpectedInputSize(Merge(o1, o2)) = ExpectedInputSize(o1) + ExpectedInputSize(o2)
    BY <2>8
  <2> QED BY <2>5, <2>7, <2>9, <2>10, <2>11, Zenon
<1>2. CASE ~IsInsert(o1)
  <2>1. /\ o1 \in [kind : {"Retain", "Delete"}, count : Nat \ {0}]
        /\ o2 \in [kind : {"Retain", "Delete"}, count : Nat \ {0}]
    BY <1>2 DEF IsInsert, CompoundOp
  <2>2. Merge(o1, o2) = [o1 EXCEPT !.count = @ + o2.count]
    BY <1>2 DEF Merge
  <2>3. Merge(o1, o2) = [kind |-> o1.kind, count |-> o1.count + o2.count]
    BY <2>1, <2>2
  <2>4. InsertedBy(Merge(o1, o2)) = InsertedBy(o1) \o InsertedBy(o2)
    <3>1. ~IsInsert(Merge(o1, o2)) /\ ~IsInsert(o2)
      BY <1>2, <2>3 DEF IsInsert
    <3>2. <<>> \o <<>> = <<>>
      BY ConcatEmptySeq, Nothing, Zenon DEF Text
    <3> QED BY <1>2, <3>1, <3>2, Zenon DEF InsertedBy
  <2>5. OpOutputLen(Merge(o1, o2)) = OpOutputLen(o1) + OpOutputLen(o2)
    BY <2>1, <2>3 DEF OpOutputLen, Width, IsInsert
  <2> QED BY <2>1, <2>3, <2>4, <2>5 DEF CompoundOp, ExpectedInputSize, IsInsert
<1> QED BY <1>1, <1>2

LEMMA WrittenMerged ==
  ASSUME NEW s \in Text, NEW r \in Nat, NEW o1 \in CompoundOp, NEW o2 \in CompoundOp,
         o1.kind = o2.kind,
         r + ExpectedInputSize(o1) + ExpectedInputSize(o2) <= Len(s)
  PROVE  Written(s, r, Merge(o1, o2))
           = Written(s, r, o1) \o Written(s, r + ExpectedInputSize(o1), o2)
<1> DEFINE m == Merge(o1, o2)
<1>1. m \in CompoundOp /\ m.kind = o1.kind
  BY MergeType
<1>2. CASE o1.kind = "Insert"
  <2>1. m.text = o1.text \o o2.text
    BY <1>2 DEF Merge, Insert, IsInsert
  <2> HIDE DEF m
  <2> QED BY <1>1, <1>2, <2>1 DEF Written, IsInsert, m
<1>3. CASE o1.kind = "Delete"
  <2> HIDE DEF m
  <2>1. Written(s, r, m) = <<>> /\ Written(s, r, o1) = <<>>
        /\ Written(s, r + ExpectedInputSize(o1), o2) = <<>>
    BY <1>1, <1>3 DEF Written, IsInsert
  <2>2. <<>> \o <<>> = <<>>
    BY ConcatEmptySeq, Nothing, Zenon DEF Text
  <2> QED BY <2>1, <2>2, Zenon DEF m
<1>4. CASE o1.kind = "Retain"
  <2> DEFINE c1 == o1.count
             c2 == o2.count
  <2>1. c1 \in Nat \ {0} /\ c2 \in Nat \ {0} /\ m.count = c1 + c2
        /\ ExpectedInputSize(o1) = c1 /\ ExpectedInputSize(o2) = c2
    <3>1. ~IsInsert(o1) /\ ~IsInsert(o2)
      BY <1>4 DEF IsInsert
    <3>2. o1 \in [kind : {"Retain", "Delete"}, count : Nat \ {0}]
      BY <3>1 DEF IsInsert, CompoundOp
    <3>3. m.count = c1 + c2
      BY <3>1, <3>2 DEF Merge
    <3> QED BY <3>1, <3>3, Sizes
  <2> HIDE DEF m, c1, c2
  <2>2. /\ Written(s, r, m) = SubSeq(s, r + 1, r + (c1 + c2))
        /\ Written(s, r, o1) = SubSeq(s, r + 1, r + c1)
        /\ Written(s, r + c1, o2) = SubSeq(s, (r + c1) + 1, (r + c1) + c2)
    BY <1>1, <1>4, <2>1 DEF Written, IsInsert, c1, c2
  <2>3. /\ r + 1 \in 1..Len(s) + 1 /\ r + c1 \in (r + 1) - 1..Len(s)
        /\ r + (c1 + c2) \in r + c1..Len(s) /\ (r + c1) + c2 = r + (c1 + c2)
        /\ s \in Seq(Alphabet)
    BY <2>1 DEF Text
  <2>4. SubSeq(s, r + 1, r + c1) \o SubSeq(s, (r + c1) + 1, r + (c1 + c2))
          = SubSeq(s, r + 1, r + (c1 + c2))
    BY <2>3, ConcatAdjacentSubSeq
  <2> QED BY <2>1, <2>2, <2>3, <2>4 DEF m
<1> QED BY <1>2, <1>3, <1>4, Sizes DEF IsInsert

\* What condense does at the end of what it has done.
LEMMA ExtendedForms ==
  ASSUME NEW d \in Operations, NEW o \in CompoundOp
  PROVE  \/ Extended(d, o) = Append(d, o)
         \/ \E c \in Operations, e \in CompoundOp :
              d = Append(c, e) /\ e.kind = o.kind /\ Extended(d, o) = Append(c, Merge(e, o))
<1>1. CASE d = <<>> \/ d[Len(d)].kind # o.kind
  BY <1>1 DEF Extended
<1>2. CASE d # <<>> /\ d[Len(d)].kind = o.kind
  <2>1. PICK c \in Operations, e \in CompoundOp : d = Append(c, e)
    BY <1>2, SequenceEmptyOrAppend DEF Operations
  <2>2. d[Len(d)] = e /\ Len(d) = Len(c) + 1 /\ Len(c) \in Nat
    BY <2>1, AppendProperties DEF Operations
  <2> DEFINE m == Merge(e, o)
  <2>3. m \in CompoundOp
    BY <1>2, <2>2, MergeType
  <2>4. Extended(d, o) = [d EXCEPT ![Len(d)] = m]
    BY <1>2, <2>2 DEF Extended
  <2> HIDE DEF m
  <2>5. [d EXCEPT ![Len(d)] = m] = Append(c, m)
    <3> DEFINE x == [d EXCEPT ![Len(d)] = m]
               a == Append(c, m)
    <3>1. /\ x \in Seq(CompoundOp) /\ Len(x) = Len(c) + 1
          /\ \A i \in 1..Len(c) + 1 : x[i] = IF i = Len(c) + 1 THEN m ELSE d[i]
      BY <2>2, <2>3, ExceptSeq DEF Operations
    <3>2. /\ a \in Seq(CompoundOp) /\ Len(a) = Len(c) + 1
          /\ a[Len(c) + 1] = m /\ \A i \in 1..Len(c) : a[i] = c[i]
      BY <2>3, AppendProperties DEF Operations
    <3>3. \A i \in 1..Len(c) : d[i] = c[i]
      BY <2>1, AppendProperties DEF Operations
    <3> HIDE DEF x, a
    <3>4. \A i \in 1..Len(x) : x[i] = a[i]
      BY <2>2, <3>1, <3>2, <3>3
    <3>5. x = a
      BY <3>1, <3>2, <3>4, SeqEqual
    <3> QED BY <3>5 DEF x, a
  <2> QED BY <1>2, <2>1, <2>2, <2>4, <2>5 DEF m
<1> QED BY <1>1, <1>2

LEMMA ExtendedType ==
  ASSUME NEW d \in Operations, NEW o \in CompoundOp
  PROVE  Extended(d, o) \in Operations
<1>1. CASE Extended(d, o) = Append(d, o)
  BY <1>1, AppendProperties DEF Operations
<1>2. ASSUME NEW c \in Operations, NEW e \in CompoundOp, e.kind = o.kind,
             Extended(d, o) = Append(c, Merge(e, o))
      PROVE  Extended(d, o) \in Operations
  BY <1>2, MergeType, AppendProperties DEF Operations
<1> QED BY <1>1, <1>2, ExtendedForms

IsRun(f, q) == f = [n \in 0..Len(q) |-> IF n = 0 THEN <<>> ELSE Extended(f[n-1], q[n])]

LEMMA CondenseRun ==
  ASSUME NEW q \in Operations
  PROVE  \E f : IsRun(f, q) /\ Condense(q) = f[Len(q)]
<1> DEFINE step == [n \in 1..Len(q) |-> [y \in Operations |-> Extended(y, q[n])]]
<1>1. Len(q) \in Nat /\ \A n \in 1..Len(q) : q[n] \in CompoundOp
  BY DEF Operations
<1>2. step \in [1..Len(q) -> [Operations -> Operations]]
  BY <1>1, ExtendedType
<1>3. PICK f : f \in Folds(Len(q), Operations, <<>>, step)
  <2>1. \A x \in Operations : Folds(Len(q), Operations, x, step) # {}
    <3> HIDE DEF step
    <3> QED BY <1>1, <1>2, FoldExists, Zenon
  <2>2. Folds(Len(q), Operations, <<>>, step) # {}
    <3> HIDE DEF step
    <3> QED BY <2>1, Nothing, Zenon
  <2> HIDE DEF step
  <2> QED BY <2>2
<1>4. \A n \in 0..Len(q) : f[n] = IF n = 0 THEN <<>> ELSE Extended(f[n-1], q[n])
  <2>1. f \in [0..Len(q) -> Operations] /\ f[0] = <<>>
        /\ \A n \in 1..Len(q) : f[n] = step[n][f[n-1]]
    <3> HIDE DEF step
    <3> QED BY <1>3, Zenon DEF Folds
  <2>2. ASSUME NEW n \in 1..Len(q) PROVE f[n] = Extended(f[n-1], q[n])
    <3>1. f[n-1] \in Operations
      <4> HIDE DEF step
      <4> QED BY <1>1, <2>1
    <3> QED BY <2>1, <3>1
  <2> HIDE DEF step
  <2> QED BY <1>1, <2>1, <2>2
<1>5. IsRun(f, q)
  <2>1. f = [n \in 0..Len(q) |-> f[n]]
    <3> HIDE DEF step
    <3> QED BY <1>3 DEF Folds
  <2> HIDE DEF step
  <2> QED BY <1>4, <2>1, Zenon DEF IsRun
<1> QED BY <1>5, Zenon DEF Condense, IsRun

LEMMA RunStep ==
  ASSUME NEW f, NEW q \in Operations, IsRun(f, q)
  PROVE  f[0] = <<>> /\ \A n \in 1..Len(q) : f[n] = Extended(f[n-1], q[n])
<1>1. Len(q) \in Nat
  BY DEF Operations
<1> QED BY <1>1 DEF IsRun

LEMMA CondenseEmpty == Condense(<<>>) = <<>>
<1>1. PICK f : IsRun(f, <<>>) /\ Condense(<<>>) = f[Len(<<>>)]
  BY Nothing, CondenseRun
<1>2. f[0] = <<>>
  BY <1>1, Nothing, RunStep
<1> QED BY <1>1, <1>2, Nothing

LEMMA CondenseAppend ==
  ASSUME NEW q \in Operations, NEW o \in CompoundOp
  PROVE  Condense(Append(q, o)) = Extended(Condense(q), o)
<1> DEFINE r == Append(q, o)
<1>1. /\ r \in Operations /\ Len(q) \in Nat /\ Len(r) = Len(q) + 1
      /\ r[Len(q) + 1] = o /\ \A n \in 1..Len(q) : r[n] = q[n]
  BY AppendProperties DEF Operations
<1>2. PICK f : IsRun(f, q) /\ Condense(q) = f[Len(q)]
  BY CondenseRun
<1> HIDE DEF r
<1>3. PICK g : IsRun(g, r) /\ Condense(r) = g[Len(r)]
  BY <1>1, CondenseRun
<1>4. f[0] = <<>> /\ \A n \in 1..Len(q) : f[n] = Extended(f[n-1], q[n])
  BY <1>2, RunStep
<1>5. g[0] = <<>> /\ \A n \in 1..Len(r) : g[n] = Extended(g[n-1], r[n])
  BY <1>1, <1>3, RunStep
<1>6. SameSteps(f, g, Len(q))
  BY <1>1, <1>4, <1>5 DEF SameSteps
<1>7. SameValues(f, g, Len(q))
  BY <1>1, <1>6, Alike
<1>8. g[Len(r)] = Extended(g[Len(q)], o)
  BY <1>1, <1>5
<1> QED BY <1>1, <1>2, <1>3, <1>7, <1>8 DEF r, SameValues

LEMMA EquivalentAppend ==
  ASSUME NEW q \in Operations, NEW d, Equivalent(q, d), NEW o \in CompoundOp
  PROVE  Equivalent(Append(q, o), Append(d, o))
<1>1. /\ d \in Operations /\ InputLength(d) = InputLength(q)
      /\ OutputLength(d) = OutputLength(q) /\ Inserted(d) = Inserted(q)
  BY DEF Equivalent
<1>2. Append(q, o) \in Operations /\ Append(d, o) \in Operations
  BY <1>1, AppendProperties DEF Operations
<1>3. /\ InputLength(Append(q, o)) = InputLength(q) + ExpectedInputSize(o)
      /\ InputLength(Append(d, o)) = InputLength(q) + ExpectedInputSize(o)
  BY <1>1, InputLengthAppend
<1>4. ASSUME NEW s \in Text, InputLength(Append(q, o)) <= Len(s)
      PROVE  TextApply(s, Append(d, o)) = TextApply(s, Append(q, o))
  <2>1. InputLength(q) + ExpectedInputSize(o) <= Len(s) /\ InputLength(q) <= Len(s)
    BY <1>3, <1>4, InputLengthType, Sizes DEF Text
  <2>2. TextApply(s, Append(q, o)) = TextApply(s, q) \o Written(s, InputLength(q), o)
    BY <2>1, ApplyAppend
  <2>3. TextApply(s, Append(d, o)) = TextApply(s, d) \o Written(s, InputLength(d), o)
    BY <1>1, <2>1, ApplyAppend
  <2>4. TextApply(s, d) = TextApply(s, q)
    BY <2>1 DEF Equivalent
  <2> QED BY <1>1, <2>2, <2>3, <2>4
<1>5. /\ OutputLength(Append(d, o)) = OutputLength(Append(q, o))
      /\ Inserted(Append(d, o)) = Inserted(Append(q, o))
  BY <1>1, OutputLengthAppend, InsertedAppend
<1> QED BY <1>2, <1>3, <1>4, <1>5 DEF Equivalent

LEMMA EquivalentMerged ==
  ASSUME NEW c \in Operations, NEW e \in CompoundOp, NEW o \in CompoundOp, e.kind = o.kind
  PROVE  Equivalent(Append(Append(c, e), o), Append(c, Merge(e, o)))
<1> DEFINE m == Merge(e, o)
           a == Append(c, e)
<1>1. /\ m \in CompoundOp /\ ExpectedInputSize(m) = ExpectedInputSize(e) + ExpectedInputSize(o)
      /\ OpOutputLen(m) = OpOutputLen(e) + OpOutputLen(o)
      /\ InsertedBy(m) = InsertedBy(e) \o InsertedBy(o)
  BY MergeType
<1>2. a \in Operations /\ Append(c, m) \in Operations /\ Append(a, o) \in Operations
  BY <1>1, AppendProperties DEF Operations
<1>3. InputLength(a) = InputLength(c) + ExpectedInputSize(e)
  BY InputLengthAppend
<1>4. /\ InputLength(c) \in Nat /\ ExpectedInputSize(e) \in Nat /\ ExpectedInputSize(o) \in Nat
  BY InputLengthType, Sizes
<1>5. ASSUME NEW s \in Text,
             InputLength(c) + ExpectedInputSize(e) + ExpectedInputSize(o) <= Len(s)
      PROVE  TextApply(s, Append(c, m)) = TextApply(s, Append(a, o))
  <2> DEFINE r  == InputLength(c)
             w1 == Written(s, r, e)
             w2 == Written(s, r + ExpectedInputSize(e), o)
  <2>1. /\ r \in Nat /\ r <= Len(s) /\ r + ExpectedInputSize(e) <= Len(s)
        /\ r + ExpectedInputSize(m) <= Len(s) /\ r + ExpectedInputSize(e) \in Nat
        /\ InputLength(a) + ExpectedInputSize(o) <= Len(s)
    <3> HIDE DEF m, a
    <3> QED BY <1>1, <1>3, <1>4, <1>5 DEF Text
  <2>2. TextApply(s, a) = TextApply(s, c) \o w1
    BY <2>1, ApplyAppend
  <2>3. TextApply(s, Append(a, o)) = TextApply(s, a) \o Written(s, InputLength(a), o)
    <3> HIDE DEF a
    <3> QED BY <1>2, <2>1, ApplyAppend
  <2>4. TextApply(s, Append(c, m)) = TextApply(s, c) \o Written(s, r, m)
    <3> HIDE DEF m
    <3> QED BY <1>1, <2>1, ApplyAppend
  <2>5. Written(s, r, m) = w1 \o w2
    BY <1>5, <2>1, WrittenMerged
  <2>6. TextApply(s, c) \in Text /\ w1 \in Text /\ w2 \in Text
    <3>1. (r + ExpectedInputSize(e)) + ExpectedInputSize(o) <= Len(s)
      BY <1>5
    <3> QED BY <2>1, <3>1, ApplyType, WrittenType
  <2> HIDE DEF m, a, r, w1, w2
  <2>7. (TextApply(s, c) \o w1) \o w2 = TextApply(s, c) \o (w1 \o w2)
    BY <2>6, TextsAssociative
  <2>8. Written(s, InputLength(a), o) = w2
    BY <1>3 DEF w2, r
  <2> QED BY <2>2, <2>3, <2>4, <2>5, <2>7, <2>8, Zenon
<1> HIDE DEF m, a
<1>6. /\ InputLength(Append(a, o)) = InputLength(c) + ExpectedInputSize(e) + ExpectedInputSize(o)
      /\ InputLength(Append(c, m)) = InputLength(c) + ExpectedInputSize(e) + ExpectedInputSize(o)
  BY <1>1, <1>2, <1>3, <1>4, InputLengthAppend
<1>7. OutputLength(Append(c, m)) = OutputLength(Append(a, o))
  <2>1. /\ OutputLength(Append(c, m)) = OutputLength(c) + OpOutputLen(m)
        /\ OutputLength(Append(a, o)) = OutputLength(a) + OpOutputLen(o)
    BY <1>1, <1>2, OutputLengthAppend
  <2>2. OutputLength(a) = OutputLength(c) + OpOutputLen(e)
    BY OutputLengthAppend DEF a
  <2> QED BY <1>1, <2>1, <2>2, OutputLengthType, OutputSizes
<1>8. Inserted(Append(c, m)) = Inserted(Append(a, o))
  <2>1. /\ Inserted(Append(c, m)) = Inserted(c) \o InsertedBy(m)
        /\ Inserted(Append(a, o)) = Inserted(a) \o InsertedBy(o)
    BY <1>1, <1>2, InsertedAppend
  <2>2. Inserted(a) = Inserted(c) \o InsertedBy(e)
    BY InsertedAppend DEF a
  <2>3. (Inserted(c) \o InsertedBy(e)) \o InsertedBy(o) = Inserted(c) \o (InsertedBy(e) \o InsertedBy(o))
    BY InsertedType, InsertedByType, TextsAssociative
  <2> QED BY <1>1, <2>1, <2>2, <2>3, Zenon
<1>9. Equivalent(Append(a, o), Append(c, m))
  BY <1>2, <1>5, <1>6, <1>7, <1>8 DEF Equivalent
<1> QED BY <1>9 DEF a, m

LEMMA EquivalentTransitive ==
  ASSUME NEW q, NEW d, NEW r, Equivalent(q, d), Equivalent(d, r)
  PROVE  Equivalent(q, r)
  BY DEF Equivalent

\* A condensed operation does the same.
LEMMA CondenseSame ==
  ASSUME NEW q \in Operations
  PROVE  Equivalent(q, Condense(q))
<1> DEFINE S == {d \in Operations : Equivalent(d, Condense(d))}
<1>1. <<>> \in S
  <2>1. Equivalent(<<>>, <<>>)
    BY Nothing DEF Equivalent
  <2> QED BY <2>1, Nothing, CondenseEmpty
<1>2. ASSUME NEW d \in Operations, d \in S, NEW o \in CompoundOp PROVE Append(d, o) \in S
  <2> DEFINE k == Condense(d)
  <2>1. Equivalent(d, k) /\ k \in Operations /\ Condense(Append(d, o)) = Extended(k, o)
    BY <1>2, CondenseAppend DEF Equivalent
  <2>2. Append(d, o) \in Operations
    BY AppendProperties DEF Operations
  <2> HIDE DEF k
  <2>3. Equivalent(Append(d, o), Append(k, o))
    BY <2>1, EquivalentAppend
  <2>4. CASE Extended(k, o) = Append(k, o)
    BY <2>1, <2>2, <2>3, <2>4
  <2>5. ASSUME NEW c \in Operations, NEW e \in CompoundOp, k = Append(c, e), e.kind = o.kind,
               Extended(k, o) = Append(c, Merge(e, o))
        PROVE  Append(d, o) \in S
    <3>1. Equivalent(Append(k, o), Extended(k, o))
      BY <2>5, EquivalentMerged
    <3>2. Equivalent(Append(d, o), Extended(k, o))
      BY <2>3, <3>1, EquivalentTransitive
    <3> QED BY <2>1, <2>2, <3>2
  <2>6. \/ Extended(k, o) = Append(k, o)
        \/ \E c \in Operations, e \in CompoundOp :
             k = Append(c, e) /\ e.kind = o.kind /\ Extended(k, o) = Append(c, Merge(e, o))
    BY <2>1, ExtendedForms
  <2> HIDE DEF S
  <2> QED BY <2>4, <2>5, <2>6
<1>3. Operations \subseteq S
  <2> HIDE DEF S
  <2> QED BY <1>1, <1>2, SequenceInduction DEF Operations
<1> QED BY <1>3

-----------------------------------------------------------------------------
(* What transform keeps of both users' edits                               *)

DeletedBy(o) == IF o.kind = "Delete" THEN o.count ELSE 0

LEMMA DeletedByType ==
  ASSUME NEW o \in CompoundOp
  PROVE  /\ DeletedBy(o) \in Nat
         /\ DeletedBy(o) = ExpectedInputSize(o) - (OpOutputLen(o) - Len(InsertedBy(o)))
<1>1. CASE IsInsert(o)
  <2>1. /\ o.kind # "Delete" /\ ExpectedInputSize(o) = 0 /\ o.text \in Text
        /\ OpOutputLen(o) = Len(o.text) /\ InsertedBy(o) = o.text
    BY <1>1, Sizes DEF IsInsert, OpOutputLen, Width, InsertedBy
  <2>2. Len(o.text) \in Nat
    BY <2>1 DEF Text
  <2> QED BY <2>1, <2>2 DEF DeletedBy
<1>2. CASE ~IsInsert(o)
  <2>1. /\ o.kind \in {"Retain", "Delete"} /\ o.count \in Nat \ {0}
        /\ ExpectedInputSize(o) = o.count /\ Width(o) = o.count /\ InsertedBy(o) = <<>>
    BY <1>2, Sizes DEF InsertedBy
  <2> QED BY <2>1, Nothing DEF DeletedBy, OpOutputLen
<1> QED BY <1>1, <1>2

LEMMA DeletedType ==
  ASSUME NEW q \in Operations
  PROVE  Deleted(q) \in Int /\ Inserted(q) \in Text
<1>1. Len(Inserted(q)) \in Nat
  BY InsertedType DEF Text
<1> QED BY <1>1, InputLengthType, OutputLengthType, InsertedType DEF Deleted

LEMMA IntentEmpty == Inserted(<<>>) = <<>> /\ Deleted(<<>>) = 0
  BY InsertedEmpty, InputLengthEmpty, OutputLengthEmpty, Nothing DEF Deleted

LEMMA IntentConcat ==
  ASSUME NEW p \in Operations, NEW q \in Operations
  PROVE  /\ p \o q \in Operations
         /\ Inserted(p \o q) = Inserted(p) \o Inserted(q)
         /\ Deleted(p \o q) = Deleted(p) + Deleted(q)
<1>1. p \o q \in Operations
  BY ConcatProperties DEF Operations
<1>2. /\ InputLength(p \o q) = InputLength(p) + InputLength(q)
      /\ OutputLength(p \o q) = OutputLength(p) + OutputLength(q)
      /\ Inserted(p \o q) = Inserted(p) \o Inserted(q)
  BY InputLengthConcat, OutputLengthConcat, InsertedConcat
<1>3. /\ Len(Inserted(p \o q)) = Len(Inserted(p)) + Len(Inserted(q))
      /\ Len(Inserted(p)) \in Nat /\ Len(Inserted(q)) \in Nat
  BY <1>2, InsertedType, ConcatProperties DEF Text
<1>4. /\ InputLength(p) \in Nat /\ InputLength(q) \in Nat
      /\ OutputLength(p) \in Nat /\ OutputLength(q) \in Nat
  BY InputLengthType, OutputLengthType
<1>5. Deleted(p \o q) = Deleted(p) + Deleted(q)
  BY <1>2, <1>3, <1>4 DEF Deleted
<1> QED BY <1>1, <1>2, <1>5

LEMMA IntentOne ==
  ASSUME NEW o \in CompoundOp
  PROVE  <<o>> \in Operations /\ Inserted(<<o>>) = InsertedBy(o) /\ Deleted(<<o>>) = DeletedBy(o)
<1>1. <<o>> = Append(<<>>, o) /\ <<>> \in Operations
  BY EmptySeq DEF Operations
<1>2. <<o>> \in Operations /\ InputLength(<<o>>) = ExpectedInputSize(o)
  BY OneOperation
<1>3. OutputLength(Append(<<>>, o)) = OutputLength(<<>>) + OpOutputLen(o)
  BY <1>1, OutputLengthAppend
<1>4. Inserted(Append(<<>>, o)) = Inserted(<<>>) \o InsertedBy(o)
  BY <1>1, InsertedAppend
<1>5. <<>> \o InsertedBy(o) = InsertedBy(o)
  BY InsertedByType, ConcatEmptySeq DEF Text
<1>6. Inserted(<<o>>) = InsertedBy(o)
  BY <1>1, <1>4, <1>5, InsertedEmpty
<1>7. OutputLength(<<o>>) = OpOutputLen(o)
  BY <1>1, <1>3, OutputLengthEmpty, OutputSizes
<1> QED BY <1>2, <1>6, <1>7, DeletedByType DEF Deleted

LEMMA IntentFirst ==
  ASSUME NEW q \in Operations, q # <<>>
  PROVE  /\ Head(q) \in CompoundOp /\ Tail(q) \in Operations
         /\ Inserted(q) = InsertedBy(Head(q)) \o Inserted(Tail(q))
         /\ Deleted(q) = DeletedBy(Head(q)) + Deleted(Tail(q))
<1>1. /\ Head(q) \in CompoundOp /\ Tail(q) \in Operations
      /\ q = <<Head(q)>> \o Tail(q) /\ <<Head(q)>> \in Operations
  BY FirstOperation
<1> DEFINE h == <<Head(q)>>
           t == Tail(q)
<1>2. Inserted(h \o t) = Inserted(h) \o Inserted(t) /\ Deleted(h \o t) = Deleted(h) + Deleted(t)
  BY <1>1, IntentConcat
<1>3. Inserted(h) = InsertedBy(Head(q)) /\ Deleted(h) = DeletedBy(Head(q))
  BY <1>1, IntentOne
<1> QED BY <1>1, <1>2, <1>3, Zenon

\* What is not walked yet of a deletion is still to be deleted.
DeletedOf(o, n) == IF o.kind = "Delete" THEN n ELSE 0

LEMMA IntentRest ==
  ASSUME NEW q \in Operations, q # <<>>, ~IsInsert(Head(q)), NEW n \in 1..Width(Head(q))
  PROVE  /\ Inserted(Rest(q, n)) = Inserted(q)
         /\ Deleted(q) = DeletedOf(Head(q), n) + Deleted(Rest(q, n))
<1> DEFINE o == Head(q)
           t == Tail(q)
           d == Drop(o, n)
<1>1. /\ o \in CompoundOp /\ t \in Operations
      /\ Inserted(q) = InsertedBy(o) \o Inserted(t) /\ Deleted(q) = DeletedBy(o) + Deleted(t)
  BY IntentFirst
<1>2. InsertedBy(o) = <<>> /\ <<>> \o Inserted(t) = Inserted(t)
  BY <1>1, InsertedType, ConcatEmptySeq DEF InsertedBy, Text
<1>3. Width(o) = o.count /\ o.count \in Nat \ {0} /\ Deleted(t) \in Int
  BY <1>1, Sizes, DeletedType
<1>4. CASE n = Width(o)
  <2>1. Rest(q, n) = t
    BY <1>4 DEF Rest
  <2> HIDE DEF o, t
  <2> QED BY <1>1, <1>2, <1>3, <1>4, <2>1 DEF DeletedBy, DeletedOf, o
<1>5. CASE n # Width(o)
  <2>1. Rest(q, n) = <<d>> \o t
    BY <1>5 DEF Rest
  <2>2. n \in 1..(o.count - 1)
    <3> HIDE DEF o
    <3> QED BY <1>3, <1>5 DEF o
  <2>3. /\ d \in CompoundOp /\ ~IsInsert(d) /\ d.kind = o.kind
        /\ ExpectedInputSize(d) = o.count - n
    <3> HIDE DEF o
    <3> QED BY <1>1, <2>2, Dropped DEF o
  <2> HIDE DEF o, t, d
  <2>4. d.count = o.count - n /\ InsertedBy(d) = <<>>
    BY <2>3 DEF ExpectedInputSize, InsertedBy
  <2>5. /\ <<d>> \in Operations /\ Inserted(<<d>>) = <<>> /\ Deleted(<<d>>) = DeletedBy(d)
    BY <2>3, <2>4, IntentOne
  <2>6. /\ Inserted(<<d>> \o t) = Inserted(<<d>>) \o Inserted(t)
        /\ Deleted(<<d>> \o t) = Deleted(<<d>>) + Deleted(t)
    BY <1>1, <2>5, IntentConcat
  <2>7. DeletedBy(o) = DeletedOf(o, n) + DeletedBy(d)
    BY <1>3, <2>2, <2>3, <2>4 DEF DeletedBy, DeletedOf
  <2>8. Deleted(q) = DeletedOf(o, n) + Deleted(Rest(q, n))
    <3>1. DeletedOf(o, n) \in Int /\ DeletedBy(d) \in Int
      BY <2>2, <2>3, DeletedByType DEF DeletedOf
    <3> QED BY <1>1, <1>3, <2>1, <2>5, <2>6, <2>7, <3>1
  <2>9. Inserted(Rest(q, n)) = Inserted(q)
    BY <1>1, <1>2, <2>1, <2>5, <2>6, Zenon
  <2> QED BY <2>8, <2>9 DEF o
<1> QED BY <1>4, <1>5

\* w inserts what p inserts and deletes no more, and after either of p's
\* operations what both delete is gone.
KeepsIntent(p, w) ==
  /\ w[1] \in Operations /\ w[2] \in Operations
  /\ Inserted(w[1]) = Inserted(p[1]) /\ Inserted(w[2]) = Inserted(p[2])
  /\ Deleted(w[1]) <= Deleted(p[1]) /\ Deleted(w[2]) <= Deleted(p[2])
  /\ Deleted(p[1]) + Deleted(w[2]) = Deleted(p[2]) + Deleted(w[1])

\* A round gives e and leaves q of p: d1 and d2 are what it takes of the
\* deletions of p.
RoundKeeps(p, q, e, d1, d2) ==
  /\ q \in Pairs /\ e[1] \in Operations /\ e[2] \in Operations /\ d1 \in Nat /\ d2 \in Nat
  /\ Inserted(p[1]) = Inserted(e[1]) \o Inserted(q[1])
  /\ Inserted(p[2]) = Inserted(e[2]) \o Inserted(q[2])
  /\ Deleted(p[1]) = d1 + Deleted(q[1]) /\ Deleted(e[1]) <= d1
  /\ Deleted(p[2]) = d2 + Deleted(q[2]) /\ Deleted(e[2]) <= d2
  /\ d1 + Deleted(e[2]) = d2 + Deleted(e[1])

LEMMA KeepsOn ==
  ASSUME NEW p, NEW q, NEW e, NEW d1, NEW d2, NEW w, RoundKeeps(p, q, e, d1, d2), KeepsIntent(q, w)
  PROVE  KeepsIntent(p, Emitted(e, w))
<1> DEFINE v1 == e[1] \o w[1]
           v2 == e[2] \o w[2]
<1>1. /\ w[1] \in Operations /\ w[2] \in Operations
      /\ Inserted(w[1]) = Inserted(q[1]) /\ Inserted(w[2]) = Inserted(q[2])
      /\ Deleted(w[1]) <= Deleted(q[1]) /\ Deleted(w[2]) <= Deleted(q[2])
      /\ Deleted(q[1]) + Deleted(w[2]) = Deleted(q[2]) + Deleted(w[1])
  BY DEF KeepsIntent
<1>2. /\ e[1] \in Operations /\ e[2] \in Operations /\ d1 \in Nat /\ d2 \in Nat
      /\ q[1] \in Operations /\ q[2] \in Operations
  BY SizeType DEF RoundKeeps
<1>3. /\ v1 \in Operations /\ Inserted(v1) = Inserted(e[1]) \o Inserted(w[1])
      /\ Deleted(v1) = Deleted(e[1]) + Deleted(w[1])
      /\ v2 \in Operations /\ Inserted(v2) = Inserted(e[2]) \o Inserted(w[2])
      /\ Deleted(v2) = Deleted(e[2]) + Deleted(w[2])
  BY <1>1, <1>2, IntentConcat
<1>4. /\ Deleted(w[1]) \in Int /\ Deleted(w[2]) \in Int /\ Deleted(q[1]) \in Int
      /\ Deleted(q[2]) \in Int /\ Deleted(e[1]) \in Int /\ Deleted(e[2]) \in Int
  BY <1>1, <1>2, DeletedType
<1> HIDE DEF v1, v2
<1>5. Inserted(v1) = Inserted(p[1]) /\ Inserted(v2) = Inserted(p[2])
  BY <1>1, <1>3, Zenon DEF RoundKeeps
<1>6. /\ Deleted(p[1]) = d1 + Deleted(q[1]) /\ Deleted(e[1]) <= d1
      /\ Deleted(p[2]) = d2 + Deleted(q[2]) /\ Deleted(e[2]) <= d2
      /\ d1 + Deleted(e[2]) = d2 + Deleted(e[1])
  BY DEF RoundKeeps
<1>7. /\ Deleted(v1) <= Deleted(p[1]) /\ Deleted(v2) <= Deleted(p[2])
      /\ Deleted(p[1]) + Deleted(v2) = Deleted(p[2]) + Deleted(v1)
  <2>1. Deleted(v1) = Deleted(e[1]) + Deleted(w[1]) /\ Deleted(v2) = Deleted(e[2]) + Deleted(w[2])
    BY <1>3
  <2>2. /\ Deleted(w[1]) <= Deleted(q[1]) /\ Deleted(w[2]) <= Deleted(q[2])
        /\ Deleted(q[1]) + Deleted(w[2]) = Deleted(q[2]) + Deleted(w[1])
    BY <1>1
  <2>3. d1 \in Int /\ d2 \in Int
    BY <1>2
  <2>4. /\ Deleted(e[1]) + Deleted(w[1]) <= d1 + Deleted(q[1])
        /\ Deleted(e[2]) + Deleted(w[2]) <= d2 + Deleted(q[2])
    BY <1>4, <1>6, <2>2, <2>3
  <2>5. (d1 + Deleted(q[1])) + (Deleted(e[2]) + Deleted(w[2]))
          = (d2 + Deleted(q[2])) + (Deleted(e[1]) + Deleted(w[1]))
    BY <1>4, <1>6, <2>2, <2>3
  <2> QED BY <1>6, <2>1, <2>4, <2>5, Zenon
<1>8. KeepsIntent(p, <<v1, v2>>)
  BY <1>3, <1>5, <1>7 DEF KeepsIntent
<1> QED BY <1>8 DEF Emitted, v1, v2

\* An insertion is taken over, and the other operation retains it.
LEMMA InsertionIntent ==
  ASSUME NEW o \in CompoundOp, IsInsert(o), NEW r, r = Retain(Width(o))
  PROVE  /\ <<o>> \in Operations /\ Inserted(<<o>>) = InsertedBy(o) /\ Deleted(<<o>>) = 0
         /\ <<r>> \in Operations /\ Inserted(<<r>>) = <<>> /\ Deleted(<<r>>) = 0
<1>1. DeletedBy(o) = 0
  BY DEF DeletedBy, IsInsert
<1>2. r \in CompoundOp /\ ~IsInsert(r) /\ r.kind = "Retain"
  BY Sizes, RetainType
<1>3. InsertedBy(r) = <<>> /\ DeletedBy(r) = 0
  BY <1>2 DEF InsertedBy, DeletedBy
<1> QED BY <1>1, <1>2, <1>3, IntentOne

LEMMA Insert1Keeps ==
  ASSUME NEW p \in Pairs, Inserts(p[1]),
         NEW r, r = Retain(Width(Head(p[1])))
  PROVE  RoundKeeps(p, After1(p), <<<<Head(p[1])>>, <<r>>>>, 0, 0)
<1> DEFINE o == Head(p[1])
           t == Tail(p[1])
<1>1. /\ p[1] \in Operations /\ p[2] \in Operations /\ IsInsert(o) /\ o \in CompoundOp
      /\ t \in Operations
      /\ Inserted(p[1]) = InsertedBy(o) \o Inserted(t) /\ Deleted(p[1]) = DeletedBy(o) + Deleted(t)
  BY SizeType, IntentFirst DEF Inserts
<1>2. /\ <<o>> \in Operations /\ Inserted(<<o>>) = InsertedBy(o) /\ Deleted(<<o>>) = 0
      /\ <<r>> \in Operations /\ Inserted(<<r>>) = <<>> /\ Deleted(<<r>>) = 0
  BY <1>1, InsertionIntent
<1>3. <<>> \o Inserted(p[2]) = Inserted(p[2])
  BY <1>1, InsertedType, ConcatEmptySeq DEF Text
<1>4. Deleted(t) \in Int /\ Deleted(p[2]) \in Int /\ DeletedBy(o) = 0
  BY <1>1, DeletedType DEF DeletedBy, IsInsert
<1>5. After1(p) = <<t, p[2]>> /\ After1(p) \in Pairs
  BY Smaller1 DEF After1
<1> HIDE DEF o, t
<1> DEFINE e == <<<<o>>, <<r>>>>
           q == <<t, p[2]>>
<1>6. e[1] = <<o>> /\ e[2] = <<r>> /\ q[1] = t /\ q[2] = p[2] /\ q \in Pairs
  BY <1>5
<1>7. /\ Deleted(p[1]) = 0 + Deleted(t) /\ Deleted(<<o>>) <= 0
      /\ Deleted(p[2]) = 0 + Deleted(p[2]) /\ Deleted(<<r>>) <= 0
      /\ 0 + Deleted(<<r>>) = 0 + Deleted(<<o>>) /\ 0 \in Nat
  BY <1>1, <1>2, <1>4
<1>8. /\ Inserted(p[1]) = Inserted(<<o>>) \o Inserted(t)
      /\ Inserted(p[2]) = Inserted(<<r>>) \o Inserted(p[2])
  BY <1>1, <1>2, <1>3, Zenon
<1> HIDE DEF e, q
<1>9. RoundKeeps(p, q, e, 0, 0)
  BY <1>2, <1>6, <1>7, <1>8, Zenon DEF RoundKeeps
<1> QED BY <1>5, <1>9, Zenon DEF o, e, q

LEMMA Insert2Keeps ==
  ASSUME NEW p \in Pairs, Inserts(p[2]),
         NEW r, r = Retain(Width(Head(p[2])))
  PROVE  RoundKeeps(p, After2(p), <<<<r>>, <<Head(p[2])>>>>, 0, 0)
<1> DEFINE o == Head(p[2])
           t == Tail(p[2])
<1>1. /\ p[1] \in Operations /\ p[2] \in Operations /\ IsInsert(o) /\ o \in CompoundOp
      /\ t \in Operations
      /\ Inserted(p[2]) = InsertedBy(o) \o Inserted(t) /\ Deleted(p[2]) = DeletedBy(o) + Deleted(t)
  BY SizeType, IntentFirst DEF Inserts
<1>2. /\ <<o>> \in Operations /\ Inserted(<<o>>) = InsertedBy(o) /\ Deleted(<<o>>) = 0
      /\ <<r>> \in Operations /\ Inserted(<<r>>) = <<>> /\ Deleted(<<r>>) = 0
  BY <1>1, InsertionIntent
<1>3. <<>> \o Inserted(p[1]) = Inserted(p[1])
  BY <1>1, InsertedType, ConcatEmptySeq DEF Text
<1>4. Deleted(t) \in Int /\ Deleted(p[1]) \in Int /\ DeletedBy(o) = 0
  BY <1>1, DeletedType DEF DeletedBy, IsInsert
<1>5. After2(p) = <<p[1], t>> /\ After2(p) \in Pairs
  BY Smaller2 DEF After2
<1> HIDE DEF o, t
<1> DEFINE e == <<<<r>>, <<o>>>>
           q == <<p[1], t>>
<1>6. e[1] = <<r>> /\ e[2] = <<o>> /\ q[1] = p[1] /\ q[2] = t /\ q \in Pairs
  BY <1>5
<1>7. /\ Deleted(p[1]) = 0 + Deleted(p[1]) /\ Deleted(<<r>>) <= 0
      /\ Deleted(p[2]) = 0 + Deleted(t) /\ Deleted(<<o>>) <= 0
      /\ 0 + Deleted(<<o>>) = 0 + Deleted(<<r>>) /\ 0 \in Nat
  BY <1>1, <1>2, <1>4
<1>8. /\ Inserted(p[1]) = Inserted(<<r>>) \o Inserted(p[1])
      /\ Inserted(p[2]) = Inserted(<<o>>) \o Inserted(t)
  BY <1>1, <1>2, <1>3, Zenon
<1> HIDE DEF e, q
<1>9. RoundKeeps(p, q, e, 0, 0)
  BY <1>2, <1>6, <1>7, <1>8, Zenon DEF RoundKeeps
<1> QED BY <1>5, <1>9, Zenon DEF o, e, q

\* Of what both cover, one of two deletions is enough.
LEMMA OverlapIntent ==
  ASSUME NEW o1 \in CompoundOp, ~IsInsert(o1), NEW o2 \in CompoundOp, ~IsInsert(o2),
         NEW n \in Nat \ {0}, NEW e, e = Overlap(o1.kind, o2.kind, n)
  PROVE  /\ e[1] \in Operations /\ Inserted(e[1]) = <<>> /\ Deleted(e[1]) <= DeletedOf(o1, n)
         /\ e[2] \in Operations /\ Inserted(e[2]) = <<>> /\ Deleted(e[2]) <= DeletedOf(o2, n)
         /\ DeletedOf(o1, n) + Deleted(e[2]) = DeletedOf(o2, n) + Deleted(e[1])
<1>1. o1.kind \in {"Retain", "Delete"} /\ o2.kind \in {"Retain", "Delete"}
  BY Sizes
<1> DEFINE r == Retain(n)
           d == Delete(n)
<1>2. d.count = n
  BY DEF Delete
<1>3. /\ r \in CompoundOp /\ ~IsInsert(r) /\ r.kind = "Retain"
      /\ d \in CompoundOp /\ ~IsInsert(d) /\ d.kind = "Delete"
  BY RetainType
<1> HIDE DEF r, d
<1>4. /\ <<r>> \in Operations /\ Inserted(<<r>>) = <<>> /\ Deleted(<<r>>) = 0
      /\ <<d>> \in Operations /\ Inserted(<<d>>) = <<>> /\ Deleted(<<d>>) = n
      /\ <<>> \in Operations /\ Inserted(<<>>) = <<>> /\ Deleted(<<>>) = 0
  <2>1. InsertedBy(r) = <<>> /\ DeletedBy(r) = 0 /\ InsertedBy(d) = <<>> /\ DeletedBy(d) = n
    BY <1>2, <1>3 DEF InsertedBy, DeletedBy
  <2> QED BY <1>3, <2>1, IntentOne, IntentEmpty, Nothing
<1>5. CASE o1.kind = "Retain" /\ o2.kind = "Retain"
  <2>1. e[1] = <<r>> /\ e[2] = <<r>> /\ DeletedOf(o1, n) = 0 /\ DeletedOf(o2, n) = 0
    BY <1>5 DEF Overlap, DeletedOf, r, d
  <2> QED BY <1>4, <2>1
<1>6. CASE o1.kind = "Delete" /\ o2.kind = "Delete"
  <2>1. e[1] = <<>> /\ e[2] = <<>> /\ DeletedOf(o1, n) = n /\ DeletedOf(o2, n) = n
    BY <1>6 DEF Overlap, DeletedOf
  <2> QED BY <1>4, <2>1
<1>7. CASE o1.kind = "Delete" /\ o2.kind = "Retain"
  <2>1. e[1] = <<d>> /\ e[2] = <<>> /\ DeletedOf(o1, n) = n /\ DeletedOf(o2, n) = 0
    BY <1>7 DEF Overlap, DeletedOf, r, d
  <2> QED BY <1>4, <2>1
<1>8. CASE o1.kind = "Retain" /\ o2.kind = "Delete"
  <2>1. e[1] = <<>> /\ e[2] = <<d>> /\ DeletedOf(o1, n) = 0 /\ DeletedOf(o2, n) = n
    BY <1>8 DEF Overlap, DeletedOf, r, d
  <2> QED BY <1>4, <2>1
<1> QED BY <1>1, <1>5, <1>6, <1>7, <1>8

LEMMA OverlapKeeps ==
  ASSUME NEW p \in Pairs, Overlaps(p)
  PROVE  RoundKeeps(p, AfterBoth(p), Overlap(Head(p[1]).kind, Head(p[2]).kind, Overlapping(p)),
                    DeletedOf(Head(p[1]), Overlapping(p)), DeletedOf(Head(p[2]), Overlapping(p)))
<1> DEFINE o1 == Head(p[1])
           o2 == Head(p[2])
           n  == Overlapping(p)
           r1 == Rest(p[1], n)
           r2 == Rest(p[2], n)
           e  == Overlap(o1.kind, o2.kind, n)
<1>1. /\ p[1] \in Operations /\ p[1] # <<>> /\ ~IsInsert(o1) /\ o1 \in CompoundOp
      /\ p[2] \in Operations /\ p[2] # <<>> /\ ~IsInsert(o2) /\ o2 \in CompoundOp
      /\ n \in Nat \ {0} /\ n \in 1..Width(o1) /\ n \in 1..Width(o2)
  BY OverlapType
<1>2. /\ Inserted(r1) = Inserted(p[1]) /\ Deleted(p[1]) = DeletedOf(o1, n) + Deleted(r1)
      /\ Inserted(r2) = Inserted(p[2]) /\ Deleted(p[2]) = DeletedOf(o2, n) + Deleted(r2)
  <2> HIDE DEF n
  <2> QED BY <1>1, IntentRest
<1>3. /\ e[1] \in Operations /\ Inserted(e[1]) = <<>> /\ Deleted(e[1]) <= DeletedOf(o1, n)
      /\ e[2] \in Operations /\ Inserted(e[2]) = <<>> /\ Deleted(e[2]) <= DeletedOf(o2, n)
      /\ DeletedOf(o1, n) + Deleted(e[2]) = DeletedOf(o2, n) + Deleted(e[1])
  <2> HIDE DEF n, o1, o2
  <2> QED BY <1>1, OverlapIntent
<1>4. AfterBoth(p) = <<r1, r2>> /\ AfterBoth(p) \in Pairs
  BY SmallerBoth DEF AfterBoth
<1>5. DeletedOf(o1, n) \in Nat /\ DeletedOf(o2, n) \in Nat
  <2> HIDE DEF n
  <2> QED BY <1>1 DEF DeletedOf
<1>6. <<>> \o Inserted(p[1]) = Inserted(p[1]) /\ <<>> \o Inserted(p[2]) = Inserted(p[2])
  BY <1>1, InsertedType, ConcatEmptySeq DEF Text
<1> HIDE DEF o1, o2, n, r1, r2, e
<1>7. RoundKeeps(p, <<r1, r2>>, e, DeletedOf(o1, n), DeletedOf(o2, n))
  BY <1>2, <1>3, <1>4, <1>5, <1>6 DEF RoundKeeps
<1> QED BY <1>4, <1>7, Zenon DEF e, n, o1, o2

LEMMA EndKeeps ==
  ASSUME NEW p \in Pairs, InputLength(p[1]) = InputLength(p[2]), Finished(p)
  PROVE  KeepsIntent(p, <<<<>>, <<>>>>)
<1>1. p[1] \in Operations /\ p[2] \in Operations /\ ~Inserts(p[1]) /\ ~Inserts(p[2])
  BY SizeType DEF Finished
<1>2. p[1] = <<>> \/ p[2] = <<>>
  BY DEF Finished, Overlaps
<1>3. InputLength(p[1]) = 0 /\ InputLength(p[2]) = 0
  BY <1>2, InputLengthEmpty
<1>4. p[1] = <<>> /\ p[2] = <<>>
  BY <1>1, <1>3, ReadsSomething
<1> QED BY <1>4, IntentEmpty, Nothing DEF KeepsIntent

\* The walk of transform keeps what both users meant, by the same induction.
LEMMA WalkKeeps ==
  ASSUME NEW p \in Pairs, InputLength(p[1]) = InputLength(p[2])
  PROVE  KeepsIntent(p, TransformOps[p])
<1> DEFINE Matched(q) == InputLength(q[1]) = InputLength(q[2])
           S == {j \in Nat : \A q \in Pairs : Size(q) <= j /\ Matched(q) => KeepsIntent(q, TransformOps[q])}
<1>1. ASSUME NEW q \in Pairs, Matched(q),
             \A r \in Pairs : Size(r) < Size(q) /\ Matched(r) => KeepsIntent(r, TransformOps[r])
      PROVE  KeepsIntent(q, TransformOps[q])
  <2> SUFFICES KeepsIntent(q, TransformRound(TransformOps, q))
    BY TransformDefined
  <2>1. q[1] \in Operations /\ q[2] \in Operations /\ InputLength(q[1]) \in Nat
    BY SizeType
  <2>2. CASE Inserts(q[1])
    <3> DEFINE w == TransformOps[After1(q)]
               r == Retain(Width(Head(q[1])))
    <3>1. InputLength(q[1]) = InputLength(Tail(q[1]))
      <4>1. /\ Head(q[1]) \in CompoundOp /\ IsInsert(Head(q[1])) /\ Tail(q[1]) \in Operations
            /\ InputLength(q[1]) = ExpectedInputSize(Head(q[1])) + InputLength(Tail(q[1]))
        BY <2>1, <2>2, FirstOperation DEF Inserts
      <4> QED BY <4>1, Sizes, InputLengthType
    <3>2. Matched(After1(q))
      BY <1>1, <3>1 DEF After1
    <3>3. KeepsIntent(After1(q), w)
      BY <1>1, <2>2, <3>2, Smaller1
    <3> HIDE DEF w
    <3>4. RoundKeeps(q, After1(q), <<<<Head(q[1])>>, <<r>>>>, 0, 0)
      BY <2>2, Insert1Keeps
    <3>5. KeepsIntent(q, Emitted(<<<<Head(q[1])>>, <<r>>>>, w))
      BY <3>3, <3>4, KeepsOn
    <3> QED BY <2>2, <3>5, RoundInsert1, Zenon DEF w
  <2>3. CASE ~Inserts(q[1]) /\ Inserts(q[2])
    <3> DEFINE w == TransformOps[After2(q)]
               r == Retain(Width(Head(q[2])))
    <3>1. InputLength(q[2]) = InputLength(Tail(q[2]))
      <4>1. /\ Head(q[2]) \in CompoundOp /\ IsInsert(Head(q[2])) /\ Tail(q[2]) \in Operations
            /\ InputLength(q[2]) = ExpectedInputSize(Head(q[2])) + InputLength(Tail(q[2]))
        BY <2>1, <2>3, FirstOperation DEF Inserts
      <4> QED BY <4>1, Sizes, InputLengthType
    <3>2. Matched(After2(q))
      BY <1>1, <3>1 DEF After2
    <3>3. KeepsIntent(After2(q), w)
      BY <1>1, <2>3, <3>2, Smaller2
    <3>4. TransformRound(TransformOps, q) = Emitted(<<<<r>>, <<Head(q[2])>>>>, w)
      BY <2>3, RoundInsert2
    <3> HIDE DEF w
    <3>5. RoundKeeps(q, After2(q), <<<<r>>, <<Head(q[2])>>>>, 0, 0)
      BY <2>3, Insert2Keeps
    <3>6. KeepsIntent(q, Emitted(<<<<r>>, <<Head(q[2])>>>>, w))
      BY <3>3, <3>5, KeepsOn
    <3> QED BY <3>4, <3>6, Zenon
  <2>4. CASE Overlaps(q)
    <3> DEFINE w == TransformOps[AfterBoth(q)]
               n == Overlapping(q)
               e == Overlap(Head(q[1]).kind, Head(q[2]).kind, n)
    <3>1. Matched(AfterBoth(q))
      <4>1. /\ InputLength(Rest(q[1], n)) = InputLength(q[1]) - n
            /\ InputLength(Rest(q[2], n)) = InputLength(q[2]) - n
        BY <2>4, OverlapType, RestType
      <4> HIDE DEF n
      <4> QED BY <1>1, <4>1 DEF AfterBoth, n
    <3>2. KeepsIntent(AfterBoth(q), w)
      BY <1>1, <2>4, <3>1, SmallerBoth
    <3>3. TransformRound(TransformOps, q) = Emitted(e, w)
      BY <2>4, RoundOverlap
    <3>4. RoundKeeps(q, AfterBoth(q), e, DeletedOf(Head(q[1]), n), DeletedOf(Head(q[2]), n))
      BY <2>4, OverlapKeeps
    <3> HIDE DEF w, e, n
    <3>5. KeepsIntent(q, Emitted(e, w))
      BY <3>2, <3>4, KeepsOn
    <3> QED BY <3>3, <3>5, Zenon
  <2>5. CASE Finished(q)
    BY <1>1, <2>5, EndKeeps, RoundEnd, Zenon
  <2> QED BY <2>2, <2>3, <2>4, <2>5 DEF Finished
<1> HIDE DEF Matched
<1>2. 0 \in S
  <2> SUFFICES ASSUME NEW q \in Pairs, Size(q) <= 0, Matched(q) PROVE KeepsIntent(q, TransformOps[q])
    OBVIOUS
  <2>1. \A r \in Pairs : ~(Size(r) < Size(q))
    BY SizeType
  <2> QED BY <1>1, <2>1
<1>3. ASSUME NEW j \in Nat, j \in S PROVE j+1 \in S
  <2> SUFFICES ASSUME NEW q \in Pairs, Size(q) <= j+1, Matched(q) PROVE KeepsIntent(q, TransformOps[q])
    OBVIOUS
  <2>1. ASSUME NEW r \in Pairs, Size(r) < Size(q), Matched(r) PROVE KeepsIntent(r, TransformOps[r])
    <3>1. Size(r) <= j
      BY <2>1, SizeType
    <3> QED BY <1>3, <2>1, <3>1
  <2> QED BY <1>1, <2>1
<1>4. Nat \subseteq S
  <2> HIDE DEF S
  <2> QED BY <1>2, <1>3, Induction
<1>5. Size(p) \in S /\ Size(p) <= Size(p) /\ Matched(p)
  BY <1>4, SizeType DEF Matched
<1> QED BY <1>5

-----------------------------------------------------------------------------
(* compose                                                                 *)

\* After part of an insertion its rest remains.
LEMMA RestOfInsertion ==
  ASSUME NEW q \in Operations, Inserts(q), NEW n \in 1..Width(Head(q))
  PROVE  LET part == SubSeq(Head(q).text, 1, n)
         IN  /\ part \in Text \ {<<>>} /\ Len(part) = n
             /\ Rest(q, n) \in Operations /\ Len(Rest(q, n)) <= Len(q)
             /\ InputLength(Rest(q, n)) = InputLength(q)
             /\ OutputLength(q) = n + OutputLength(Rest(q, n))
             /\ \A s \in Text : InputLength(q) = Len(s) =>
                  TextApply(s, q) = part \o TextApply(s, Rest(q, n))
<1> DEFINE o == Head(q)
           t == Tail(q)
           x == o.text
           part == SubSeq(x, 1, n)
<1>1. /\ o \in CompoundOp /\ t \in Operations /\ IsInsert(o) /\ q = <<o>> \o t
      /\ InputLength(q) = ExpectedInputSize(o) + InputLength(t) /\ Len(t) = Len(q) - 1
      /\ OutputLength(q) = OpOutputLen(o) + OutputLength(t)
  BY FirstOperation, OutputFirst DEF Inserts
<1>2. /\ x \in Text /\ Len(x) \in Nat \ {0} /\ Width(o) = Len(x) /\ ExpectedInputSize(o) = 0
      /\ OpOutputLen(o) = Len(x)
  BY <1>1, Sizes DEF Width, OpOutputLen, IsInsert
<1>3. n \in 1..Len(x)
  BY <1>2
<1>4. InputLength(t) \in Nat /\ OutputLength(t) \in Nat /\ Len(q) \in Nat /\ Len(t) \in Nat
  <2> HIDE DEF t, o
  <2>1. Len(q) \in Nat /\ Len(t) \in Nat
    BY <1>1 DEF Operations
  <2> QED BY <1>1, <2>1, InputLengthType, OutputLengthType
<1>5. InputLength(q) = InputLength(t)
  BY <1>1, <1>2, <1>4
<1>6. ASSUME NEW s \in Text, InputLength(q) = Len(s)
      PROVE  TextApply(s, q) = x \o TextApply(s, t)
  BY <1>1, <1>6, ApplyInsertion DEF Inserts
<1>7. part \in Text \ {<<>>} /\ Len(part) = n
  <2>1. x \in Seq(Alphabet) /\ n \in 1..Len(x)
    BY <1>2, <1>3 DEF Text
  <2> HIDE DEF x
  <2>2. SubSeq(x, 1, n) \in Seq(Alphabet) /\ Len(SubSeq(x, 1, n)) = n
    BY <2>1
  <2> QED BY <2>1, <2>2, Nothing DEF Text
<1>8. CASE n = Len(x)
  <2>1. Rest(q, n) = t
    BY <1>2, <1>8 DEF Rest
  <2>2. part = x
    <3>1. x \in Seq(Alphabet) /\ n = Len(x)
      BY <1>2, <1>8 DEF Text
    <3> HIDE DEF x
    <3> QED BY <3>1
  <2> HIDE DEF o, t, x, part
  <2>3. OutputLength(q) = n + OutputLength(t) /\ Len(t) <= Len(q)
    BY <1>1, <1>2, <1>4, <1>8
  <2> QED BY <1>1, <1>5, <1>6, <1>7, <2>1, <2>2, <2>3 DEF part, x, o
<1>9. CASE n # Len(x)
  <2> DEFINE y == SubSeq(x, n+1, Len(x))
             d == Insert(y)
             r == <<d>> \o t
  <2>1. Rest(q, n) = r
    <3>1. Drop(o, n) = d
      BY <1>1 DEF Drop, IsInsert
    <3> HIDE DEF y, d
    <3> QED BY <1>2, <1>9, <3>1 DEF Rest
  <2>2. y \in Text \ {<<>>} /\ Len(y) = Len(x) - n
    <3>1. x \in Seq(Alphabet) /\ n \in 1..Len(x) /\ n # Len(x)
      BY <1>2, <1>3, <1>9 DEF Text
    <3> HIDE DEF x
    <3>2. SubSeq(x, n+1, Len(x)) \in Seq(Alphabet) /\ Len(SubSeq(x, n+1, Len(x))) = Len(x) - n
      BY <3>1
    <3> DEFINE z == SubSeq(x, n+1, Len(x))
    <3> HIDE DEF z
    <3>3. Len(z) # 0 /\ z \in Text
      BY <3>1, <3>2 DEF z, Text
    <3>4. z # <<>>
      BY <3>3
    <3> QED BY <3>2, <3>3, <3>4 DEF y, z
  <2>3. x = part \o y
    <3>1. x \in Seq(Alphabet) /\ n \in 1..Len(x)
      BY <1>2, <1>3 DEF Text
    <3> HIDE DEF x
    <3>2. SubSeq(x, 1, n) \o SubSeq(x, n+1, Len(x)) = SubSeq(x, 1, Len(x))
      BY <3>1, ConcatAdjacentSubSeq
    <3> QED BY <3>1, <3>2
  <2> HIDE DEF y
  <2>4. d \in CompoundOp /\ IsInsert(d) /\ d.text = y
    BY <2>2 DEF CompoundOp, Insert, IsInsert
  <2> HIDE DEF d, o, t, x, part
  <2>5. ExpectedInputSize(d) = 0 /\ OpOutputLen(d) = Len(x) - n
    BY <2>2, <2>4 DEF ExpectedInputSize, OpOutputLen, Width, IsInsert
  <2>6. r \in Operations /\ InputLength(r) = InputLength(t)
        /\ OutputLength(r) = (Len(x) - n) + OutputLength(t)
    <3>1. /\ r \in Operations /\ InputLength(r) = ExpectedInputSize(d) + InputLength(t)
          /\ OutputLength(r) = OpOutputLen(d) + OutputLength(t)
      BY <1>1, <2>4, OutputOne
    <3> HIDE DEF r
    <3> QED BY <1>4, <2>5, <3>1
  <2>7. Len(r) = Len(q) /\ Head(r) = d /\ Tail(r) = t /\ r # <<>>
    BY <1>1, <2>4 DEF Operations
  <2> HIDE DEF r
  <2>8. Len(r) <= Len(q) /\ InputLength(r) = InputLength(q) /\ OutputLength(q) = n + OutputLength(r)
    BY <1>1, <1>2, <1>3, <1>4, <1>5, <2>6, <2>7
  <2>9. ASSUME NEW s \in Text, InputLength(q) = Len(s)
        PROVE  TextApply(s, q) = part \o TextApply(s, r)
    <3>1. TextApply(s, r) = y \o TextApply(s, t)
      <4>1. Inserts(r) /\ InputLength(r) = Len(s)
        BY <2>4, <2>7, <2>8, <2>9 DEF Inserts
      <4>2. TextApply(s, r) = Head(r).text \o TextApply(s, Tail(r))
        BY <2>6, <4>1, ApplyInsertion
      <4> QED BY <2>4, <2>7, <4>2, Zenon
    <3>2. TextApply(s, t) \in Text
      <4>1. InputLength(t) <= Len(s)
        BY <1>4, <1>5, <2>9
      <4> QED BY <1>1, <4>1, ApplyType
    <3>3. (part \o y) \o TextApply(s, t) = part \o (y \o TextApply(s, t))
      <4>1. part \in Text /\ y \in Text
        BY <1>7, <2>2
      <4> QED BY <3>2, <4>1, TextsAssociative, Zenon
    <3>4. TextApply(s, q) = x \o TextApply(s, t)
      BY <1>6, <2>9
    <3> QED BY <2>3, <3>1, <3>3, <3>4, Zenon
  <2> QED BY <1>7, <2>1, <2>6, <2>8, <2>9 DEF part, x, o
<1> QED BY <1>8, <1>9

LEMMA OutputRest ==
  ASSUME NEW q \in Operations, q # <<>>, ~IsInsert(Head(q)), NEW n \in 1..Width(Head(q))
  PROVE  OutputLength(q) = (IF Head(q).kind = "Delete" THEN 0 ELSE n) + OutputLength(Rest(q, n))
<1> DEFINE o == Head(q)
           t == Tail(q)
           d == Drop(o, n)
<1>1. /\ o \in CompoundOp /\ t \in Operations /\ OutputLength(t) \in Nat
      /\ OutputLength(q) = OpOutputLen(o) + OutputLength(t)
  BY FirstOperation, OutputFirst, OutputLengthType
<1>2. Width(o) = o.count /\ o.count \in Nat \ {0} /\ ~IsInsert(o) /\ n \in 1..o.count
  BY <1>1, Sizes
<1>3. CASE n = Width(o)
  <2>1. Rest(q, n) = t
    BY <1>3 DEF Rest
  <2> HIDE DEF t
  <2> QED BY <1>1, <1>2, <1>3, <2>1 DEF OpOutputLen
<1>4. CASE n # Width(o)
  <2>1. Rest(q, n) = <<d>> \o t
    BY <1>4 DEF Rest
  <2>2. /\ d \in CompoundOp /\ ~IsInsert(d) /\ d.kind = o.kind /\ Width(d) = o.count - n
    <3>1. n \in 1..(o.count - 1)
      <4> HIDE DEF o
      <4> QED BY <1>2, <1>4 DEF o
    <3>2. d \in CompoundOp /\ ~IsInsert(d) /\ d.kind = o.kind /\ ExpectedInputSize(d) = o.count - n
      BY <1>1, <1>2, <3>1, Dropped
    <3> HIDE DEF d, o
    <3> QED BY <3>2 DEF Width, ExpectedInputSize
  <2> HIDE DEF d, o, t
  <2>3. OutputLength(<<d>> \o t) = OpOutputLen(d) + OutputLength(t)
    BY <1>1, <2>2, OutputOne
  <2> QED BY <1>1, <1>2, <2>1, <2>2, <2>3 DEF OpOutputLen, o
<1> QED BY <1>3, <1>4

\* What RestOfRetain leaves is the rest where the retention ends, and shorter where
\* it does not.
LEMMA RestOfRetainType ==
  ASSUME NEW q \in Operations, q # <<>>, Head(q).kind = "Retain", NEW n \in 1..Width(Head(q))
  PROVE  /\ RestOfRetain(q, n) \in Operations /\ Len(RestOfRetain(q, n)) <= Len(q)
         /\ InputLength(RestOfRetain(q, n)) = InputLength(q) - n
         /\ OutputLength(RestOfRetain(q, n)) + n <= OutputLength(q)
         /\ OutputLength(RestOfRetain(q, n)) + n = OutputLength(q)
              => RestOfRetain(q, n) = Rest(q, n)
<1> DEFINE o == Head(q)
           t == Tail(q)
           d == Delete(o.count - n)
<1>1. /\ o \in CompoundOp /\ t \in Operations /\ OutputLength(t) \in Nat /\ InputLength(t) \in Nat
      /\ OutputLength(q) = OpOutputLen(o) + OutputLength(t)
      /\ InputLength(q) = ExpectedInputSize(o) + InputLength(t) /\ Len(t) = Len(q) - 1
      /\ Len(q) \in Nat
  <2>1. Len(q) \in Nat
    BY DEF Operations
  <2> QED BY <2>1, FirstOperation, OutputFirst, OutputLengthType, InputLengthType
<1>2. /\ Width(o) = o.count /\ o.count \in Nat \ {0} /\ ~IsInsert(o) /\ n \in 1..o.count
      /\ ExpectedInputSize(o) = o.count /\ OpOutputLen(o) = o.count
  BY <1>1, Sizes DEF IsInsert, OpOutputLen
<1>3. CASE n = Width(o)
  <2>1. Rest(q, n) = t /\ RestOfRetain(q, n) = t
    BY <1>3 DEF Rest, RestOfRetain
  <2> HIDE DEF o, t
  <2> QED BY <1>1, <1>2, <1>3, <2>1
<1>4. CASE n # Width(o)
  <2> DEFINE r == <<d>> \o t
  <2>1. RestOfRetain(q, n) = r
    BY <1>4 DEF RestOfRetain
  <2>2. o.count - n \in Nat \ {0}
    <3> HIDE DEF o
    <3> QED BY <1>2, <1>4 DEF o
  <2>3. d \in CompoundOp /\ ExpectedInputSize(d) = o.count - n /\ OpOutputLen(d) = 0
    BY <2>2, RetainType DEF OpOutputLen
  <2> HIDE DEF d, o, t
  <2>4. /\ r \in Operations /\ InputLength(r) = (o.count - n) + InputLength(t)
        /\ OutputLength(r) = 0 + OutputLength(t)
    BY <1>1, <2>3, OutputOne
  <2>5. Len(r) = Len(t) + 1
    BY <1>1, <2>3 DEF Operations
  <2> HIDE DEF r
  <2>6. Len(r) <= Len(q)
    BY <1>1, <2>5
  <2>7. InputLength(r) = InputLength(q) - n /\ OutputLength(r) + n < OutputLength(q)
    BY <1>1, <1>2, <2>2, <2>4, SMTT(40)
  <2>8. OutputLength(r) + n # OutputLength(q) /\ OutputLength(r) + n <= OutputLength(q)
    <3>1. OutputLength(r) \in Nat /\ OutputLength(q) \in Nat /\ n \in Nat
      BY <1>2, <2>4, OutputLengthType
    <3> QED BY <2>7, <3>1
  <2> QED BY <2>1, <2>4, <2>6, <2>7, <2>8, Zenon
<1> QED BY <1>3, <1>4

Deletes(q) == q # <<>> /\ Head(q).kind = "Delete"

\* A round of compose reads from both operations.
BothRead(p) == p[1] # <<>> /\ p[2] # <<>> /\ ~Deletes(p[1]) /\ ~Inserts(p[2])

\* A retention longer than the insertion it meets.
AfterRetention(p) == <<Rest(p[1], Overlapping(p)), RestOfRetain(p[2], Overlapping(p))>>

Cut(p)  == BothRead(p) /\ IsInsert(Head(p[1])) /\ Head(p[2]).kind = "Delete"
Take(p) == BothRead(p) /\ IsInsert(Head(p[1])) /\ Head(p[2]).kind = "Retain"
Pass(p) == BothRead(p) /\ Head(p[1]).kind = "Retain"

\* What each kind of round of compose gives.
LEMMA ComposeEnd1 ==
  ASSUME NEW walk, NEW p, p[1] = <<>>
  PROVE  ComposeRound(walk, p) = p[2]
  BY DEF ComposeRound

LEMMA ComposeDelete ==
  ASSUME NEW walk, NEW p, Deletes(p[1])
  PROVE  ComposeRound(walk, p) = <<Head(p[1])>> \o walk[After1(p)]
  BY DEF ComposeRound, Deletes, After1

LEMMA ComposeEnd2 ==
  ASSUME NEW walk, NEW p, p[1] # <<>>, ~Deletes(p[1]), p[2] = <<>>
  PROVE  ComposeRound(walk, p) = p[1]
  BY SMTT(30) DEF ComposeRound, Deletes

LEMMA ComposeInsert ==
  ASSUME NEW walk, NEW p, p[1] # <<>>, ~Deletes(p[1]), Inserts(p[2])
  PROVE  ComposeRound(walk, p) = <<Head(p[2])>> \o walk[After2(p)]
  BY DEF ComposeRound, Deletes, Inserts, After2

LEMMA ComposeCut ==
  ASSUME NEW walk, NEW p, Cut(p)
  PROVE  ComposeRound(walk, p) = walk[AfterBoth(p)]
  BY SMTT(30) DEF ComposeRound, Cut, BothRead, Deletes, Inserts, IsInsert, AfterBoth, Overlapping

LEMMA ComposeTake ==
  ASSUME NEW walk, NEW p, Take(p)
  PROVE  ComposeRound(walk, p)
           = <<Insert(SubSeq(Head(p[1]).text, 1, Overlapping(p)))>> \o walk[AfterRetention(p)]
  BY ZenonT(30) DEF ComposeRound, Take, BothRead, Deletes, Inserts, IsInsert, AfterRetention, Overlapping

LEMMA ComposePass ==
  ASSUME NEW walk, NEW p, Pass(p)
  PROVE  ComposeRound(walk, p)
           = <<[Head(p[2]) EXCEPT !.count = Overlapping(p)]>> \o walk[AfterBoth(p)]
  BY DEF ComposeRound, Pass, BothRead, Deletes, Inserts, IsInsert, AfterBoth, Overlapping

\* There is no other round.
LEMMA ComposeCases ==
  ASSUME NEW p \in Pairs
  PROVE  \/ p[1] = <<>>
         \/ Deletes(p[1])
         \/ p[1] # <<>> /\ ~Deletes(p[1]) /\ p[2] = <<>>
         \/ p[1] # <<>> /\ ~Deletes(p[1]) /\ Inserts(p[2])
         \/ Cut(p) \/ Take(p) \/ Pass(p)
<1> SUFFICES ASSUME BothRead(p) PROVE Cut(p) \/ Take(p) \/ Pass(p)
  BY DEF BothRead
<1>1. /\ p[1] \in Operations /\ p[2] \in Operations /\ p[1] # <<>> /\ p[2] # <<>>
  BY SizeType DEF BothRead
<1>2. Head(p[1]) \in CompoundOp /\ Head(p[2]) \in CompoundOp
  BY <1>1, FirstOperation
<1>3. /\ IsInsert(Head(p[1])) \/ Head(p[1]).kind \in {"Retain", "Delete"}
      /\ IsInsert(Head(p[2])) \/ Head(p[2]).kind \in {"Retain", "Delete"}
  BY <1>2, Sizes
<1> QED BY <1>1, <1>3 DEF BothRead, Cut, Take, Pass, Deletes, Inserts

ComposeSize(p) == OutputLength(p[1]) + Len(p[1]) + Len(p[2])

LEMMA ComposeSizeType ==
  ASSUME NEW p \in Pairs
  PROVE  /\ OutputLength(p[1]) \in Nat /\ Len(p[1]) \in Nat /\ Len(p[2]) \in Nat
         /\ ComposeSize(p) \in Nat
<1>1. OutputLength(p[1]) \in Nat /\ Len(p[1]) \in Nat /\ Len(p[2]) \in Nat
  BY SizeType, OutputLengthType
<1> QED BY <1>1 DEF ComposeSize

LEMMA ReadType ==
  ASSUME NEW p \in Pairs, BothRead(p)
  PROVE  /\ p[1] \in Operations /\ p[1] # <<>> /\ Head(p[1]) \in CompoundOp
         /\ Head(p[1]).kind # "Delete"
         /\ p[2] \in Operations /\ p[2] # <<>> /\ Head(p[2]) \in CompoundOp
         /\ ~IsInsert(Head(p[2]))
         /\ Overlapping(p) \in Nat \ {0}
         /\ Overlapping(p) \in 1..Width(Head(p[1]))
         /\ Overlapping(p) \in 1..Width(Head(p[2]))
<1>1. /\ p[1] \in Operations /\ p[1] # <<>> /\ Head(p[1]).kind # "Delete"
      /\ p[2] \in Operations /\ p[2] # <<>> /\ ~IsInsert(Head(p[2]))
  BY SizeType DEF BothRead, Deletes, Inserts
<1>2. Head(p[1]) \in CompoundOp /\ Head(p[2]) \in CompoundOp
  BY <1>1, FirstOperation
<1>3. Width(Head(p[1])) \in Nat \ {0} /\ Width(Head(p[2])) \in Nat \ {0}
  BY <1>2, Sizes
<1> QED BY <1>1, <1>2, <1>3 DEF Overlapping, Shorter

\* What is left of the first operation writes that much less.
LEMMA FirstRest ==
  ASSUME NEW p \in Pairs, BothRead(p)
  PROVE  LET r == Rest(p[1], Overlapping(p))
         IN  /\ r \in Operations /\ Len(r) <= Len(p[1])
             /\ OutputLength(p[1]) = Overlapping(p) + OutputLength(r)
<1> DEFINE n == Overlapping(p)
           q == p[1]
<1>1. /\ q \in Operations /\ q # <<>> /\ Head(q).kind # "Delete" /\ n \in 1..Width(Head(q))
  BY ReadType
<1> HIDE DEF n, q
<1>2. CASE IsInsert(Head(q))
  BY <1>1, <1>2, RestOfInsertion DEF Inserts, n, q
<1>3. CASE ~IsInsert(Head(q))
  <2>1. Rest(q, n) \in Operations /\ Len(Rest(q, n)) <= Len(q)
    BY <1>1, <1>3, RestType
  <2>2. OutputLength(q) = n + OutputLength(Rest(q, n))
    BY <1>1, <1>3, OutputRest
  <2> QED BY <2>1, <2>2 DEF n, q
<1> QED BY <1>2, <1>3

LEMMA ComposeSmaller ==
  ASSUME NEW p \in Pairs
  PROVE  /\ Deletes(p[1]) => After1(p) \in Pairs /\ ComposeSize(After1(p)) < ComposeSize(p)
         /\ Inserts(p[2]) => After2(p) \in Pairs /\ ComposeSize(After2(p)) < ComposeSize(p)
         /\ BothRead(p) => AfterBoth(p) \in Pairs /\ ComposeSize(AfterBoth(p)) < ComposeSize(p)
         /\ Take(p) => AfterRetention(p) \in Pairs /\ ComposeSize(AfterRetention(p)) < ComposeSize(p)
<1>1. /\ p[1] \in Operations /\ p[2] \in Operations
      /\ OutputLength(p[1]) \in Nat /\ Len(p[1]) \in Nat /\ Len(p[2]) \in Nat
  BY SizeType, ComposeSizeType
<1>2. ASSUME NEW a \in Operations, NEW b \in Operations,
             OutputLength(a) + Len(a) + Len(b) < OutputLength(p[1]) + Len(p[1]) + Len(p[2])
      PROVE  <<a, b>> \in Pairs /\ ComposeSize(<<a, b>>) < ComposeSize(p)
  BY <1>2, PairType DEF ComposeSize
<1>3. ASSUME Deletes(p[1]) PROVE After1(p) \in Pairs /\ ComposeSize(After1(p)) < ComposeSize(p)
  <2> DEFINE t == Tail(p[1])
  <2>1. /\ t \in Operations /\ Len(t) = Len(p[1]) - 1 /\ Head(p[1]) \in CompoundOp
        /\ OutputLength(p[1]) = OpOutputLen(Head(p[1])) + OutputLength(t)
    BY <1>1, <1>3, FirstOperation, OutputFirst DEF Deletes
  <2>2. OpOutputLen(Head(p[1])) = 0
    BY <1>3 DEF Deletes, OpOutputLen
  <2> HIDE DEF t
  <2>3. OutputLength(t) \in Nat /\ Len(t) \in Nat
    BY <2>1, OutputLengthType DEF Operations
  <2>4. OutputLength(t) + Len(t) + Len(p[2]) < OutputLength(p[1]) + Len(p[1]) + Len(p[2])
    BY <1>1, <2>1, <2>2, <2>3
  <2> QED BY <1>1, <1>2, <2>1, <2>4 DEF After1, t
<1>4. ASSUME Inserts(p[2]) PROVE After2(p) \in Pairs /\ ComposeSize(After2(p)) < ComposeSize(p)
  <2> DEFINE t == Tail(p[2])
  <2>1. t \in Operations /\ Len(t) = Len(p[2]) - 1
    BY <1>1, <1>4, FirstOperation DEF Inserts
  <2> HIDE DEF t
  <2>2. OutputLength(p[1]) + Len(p[1]) + Len(t) < OutputLength(p[1]) + Len(p[1]) + Len(p[2])
    BY <1>1, <2>1
  <2> QED BY <1>1, <1>2, <2>1, <2>2 DEF After2, t
<1>5. ASSUME BothRead(p), NEW b \in Operations, Len(b) <= Len(p[2])
      PROVE  /\ <<Rest(p[1], Overlapping(p)), b>> \in Pairs
             /\ ComposeSize(<<Rest(p[1], Overlapping(p)), b>>) < ComposeSize(p)
  <2> DEFINE n == Overlapping(p)
             a == Rest(p[1], n)
  <2>1. /\ a \in Operations /\ Len(a) <= Len(p[1]) /\ OutputLength(p[1]) = n + OutputLength(a)
        /\ n \in Nat \ {0}
    BY <1>5, FirstRest, ReadType
  <2> HIDE DEF n, a
  <2>2. OutputLength(a) \in Nat /\ Len(a) \in Nat /\ Len(b) \in Nat
    BY <1>5, <2>1, OutputLengthType DEF Operations
  <2>3. OutputLength(a) + Len(a) + Len(b) < OutputLength(p[1]) + Len(p[1]) + Len(p[2])
    <3>1. Len(p[1]) \in Nat /\ Len(p[2]) \in Nat
      BY <1>1 DEF Operations
    <3>2. OutputLength(a) < OutputLength(p[1])
      BY <2>1, <2>2
    <3>3. Len(a) <= Len(p[1]) /\ Len(b) <= Len(p[2]) /\ OutputLength(p[1]) \in Nat
      BY <1>1, <1>5, <2>1, OutputLengthType
    <3> QED BY <2>2, <3>1, <3>2, <3>3
  <2> QED BY <1>2, <1>5, <2>1, <2>3 DEF a, n
<1>6. ASSUME BothRead(p) PROVE AfterBoth(p) \in Pairs /\ ComposeSize(AfterBoth(p)) < ComposeSize(p)
  <2> DEFINE b == Rest(p[2], Overlapping(p))
  <2>1. b \in Operations /\ Len(b) <= Len(p[2])
    BY <1>6, ReadType, RestType
  <2> HIDE DEF b
  <2>2. /\ <<Rest(p[1], Overlapping(p)), b>> \in Pairs
        /\ ComposeSize(<<Rest(p[1], Overlapping(p)), b>>) < ComposeSize(p)
    BY <1>5, <1>6, <2>1
  <2> QED BY <2>2 DEF AfterBoth, b
<1>7. ASSUME Take(p)
      PROVE  AfterRetention(p) \in Pairs /\ ComposeSize(AfterRetention(p)) < ComposeSize(p)
  <2> DEFINE b == RestOfRetain(p[2], Overlapping(p))
  <2>1. b \in Operations /\ Len(b) <= Len(p[2])
    BY <1>7, ReadType, RestOfRetainType DEF Take
  <2> HIDE DEF b
  <2>2. /\ <<Rest(p[1], Overlapping(p)), b>> \in Pairs
        /\ ComposeSize(<<Rest(p[1], Overlapping(p)), b>>) < ComposeSize(p)
    BY <1>5, <1>7, <2>1 DEF Take
  <2> QED BY <2>2 DEF AfterRetention, b
<1> QED BY <1>3, <1>4, <1>6, <1>7

LEMMA PassedType ==
  ASSUME NEW o \in CompoundOp, ~IsInsert(o), NEW n \in Nat \ {0}
  PROVE  LET c == [o EXCEPT !.count = n]
         IN  /\ c \in CompoundOp /\ ~IsInsert(c) /\ c.kind = o.kind
             /\ ExpectedInputSize(c) = n
             /\ OpOutputLen(c) = IF o.kind = "Delete" THEN 0 ELSE n
<1>1. o \in [kind : {"Retain", "Delete"}, count : Nat \ {0}]
  BY DEF CompoundOp, IsInsert
<1>2. [o EXCEPT !.count = n] = [kind |-> o.kind, count |-> n]
  BY <1>1
<1> DEFINE c == [kind |-> o.kind, count |-> n]
<1>3. c \in CompoundOp /\ c.kind = o.kind /\ c.count = n
  BY <1>1 DEF CompoundOp
<1> HIDE DEF c
<1>4. ~IsInsert(c)
  BY <1>3 DEF IsInsert
<1>5. ExpectedInputSize(c) = n /\ OpOutputLen(c) = IF o.kind = "Delete" THEN 0 ELSE n
  BY <1>3, <1>4 DEF ExpectedInputSize, OpOutputLen, Width
<1> QED BY <1>2, <1>3, <1>4, <1>5 DEF c

LEMMA TakenType ==
  ASSUME NEW s \in Text \ {<<>>}
  PROVE  /\ Insert(s) \in CompoundOp /\ IsInsert(Insert(s)) /\ Insert(s).text = s
         /\ ExpectedInputSize(Insert(s)) = 0 /\ OpOutputLen(Insert(s)) = Len(s)
  BY DEF Insert, CompoundOp, IsInsert, ExpectedInputSize, OpOutputLen, Width

LEMMA ComposeTyped ==
  ASSUME NEW p \in Pairs, NEW f \in [Pairs -> Operations]
  PROVE  ComposeRound(f, p) \in Operations
<1>1. p[1] \in Operations /\ p[2] \in Operations
  BY SizeType
<1>2. CASE p[1] = <<>>
  BY <1>1, <1>2, ComposeEnd1
<1>3. CASE Deletes(p[1])
  <2>1. Head(p[1]) \in CompoundOp /\ f[After1(p)] \in Operations
    BY <1>1, <1>3, FirstOperation, ComposeSmaller DEF Deletes
  <2>2. <<Head(p[1])>> \o f[After1(p)] \in Operations
    BY <2>1, OutputOne
  <2> QED BY <1>3, <2>2, ComposeDelete
<1>4. CASE p[1] # <<>> /\ ~Deletes(p[1]) /\ p[2] = <<>>
  BY <1>1, <1>4, ComposeEnd2
<1>5. CASE p[1] # <<>> /\ ~Deletes(p[1]) /\ Inserts(p[2])
  <2>1. Head(p[2]) \in CompoundOp /\ f[After2(p)] \in Operations
    BY <1>1, <1>5, FirstOperation, ComposeSmaller DEF Inserts
  <2>2. <<Head(p[2])>> \o f[After2(p)] \in Operations
    BY <2>1, OutputOne
  <2> QED BY <1>5, <2>2, ComposeInsert
<1>6. CASE Cut(p)
  <2>1. f[AfterBoth(p)] \in Operations
    BY <1>6, ComposeSmaller DEF Cut
  <2> QED BY <1>6, <2>1, ComposeCut
<1>7. CASE Take(p)
  <2> DEFINE part == SubSeq(Head(p[1]).text, 1, Overlapping(p))
  <2>1. part \in Text \ {<<>>}
    BY <1>7, ReadType, RestOfInsertion DEF Take, Inserts
  <2>2. f[AfterRetention(p)] \in Operations
    BY <1>7, ComposeSmaller
  <2> HIDE DEF part
  <2>3. <<Insert(part)>> \o f[AfterRetention(p)] \in Operations
    BY <2>1, <2>2, TakenType, OutputOne
  <2> QED BY <1>7, <2>3, ComposeTake DEF part
<1>8. CASE Pass(p)
  <2> DEFINE c == [Head(p[2]) EXCEPT !.count = Overlapping(p)]
  <2>1. c \in CompoundOp
    BY <1>8, ReadType, PassedType DEF Pass
  <2>2. f[AfterBoth(p)] \in Operations
    BY <1>8, ComposeSmaller DEF Pass
  <2> HIDE DEF c
  <2>3. <<c>> \o f[AfterBoth(p)] \in Operations
    BY <2>1, <2>2, OutputOne
  <2> QED BY <1>8, <2>3, ComposePass DEF c
<1> QED BY <1>2, <1>3, <1>4, <1>5, <1>6, <1>7, <1>8, ComposeCases

LEMMA ComposeLocal ==
  ASSUME NEW p \in Pairs, NEW f, NEW g,
         \A q \in Pairs : ComposeSize(q) < ComposeSize(p) => f[q] = g[q]
  PROVE  ComposeRound(f, p) = ComposeRound(g, p)
<1>1. CASE p[1] = <<>>
  BY <1>1, ComposeEnd1, Zenon
<1>2. CASE Deletes(p[1])
  <2>1. f[After1(p)] = g[After1(p)]
    BY <1>2, ComposeSmaller
  <2> QED BY <1>2, <2>1, ComposeDelete, Zenon
<1>3. CASE p[1] # <<>> /\ ~Deletes(p[1]) /\ p[2] = <<>>
  BY <1>3, ComposeEnd2, Zenon
<1>4. CASE p[1] # <<>> /\ ~Deletes(p[1]) /\ Inserts(p[2])
  <2>1. f[After2(p)] = g[After2(p)]
    BY <1>4, ComposeSmaller
  <2>2. ASSUME NEW h PROVE ComposeRound(h, p) = <<Head(p[2])>> \o h[After2(p)]
    BY <1>4, ComposeInsert
  <2> QED BY <2>1, <2>2, Zenon
<1>5. CASE Cut(p)
  <2>1. f[AfterBoth(p)] = g[AfterBoth(p)]
    BY <1>5, ComposeSmaller DEF Cut
  <2> QED BY <1>5, <2>1, ComposeCut, Zenon
<1>6. CASE Take(p)
  <2>1. f[AfterRetention(p)] = g[AfterRetention(p)]
    BY <1>6, ComposeSmaller
  <2> QED BY <1>6, <2>1, ComposeTake, Zenon
<1>7. CASE Pass(p)
  <2>1. f[AfterBoth(p)] = g[AfterBoth(p)]
    BY <1>7, ComposeSmaller DEF Pass
  <2> QED BY <1>7, <2>1, ComposePass, Zenon
<1> QED BY <1>1, <1>2, <1>3, <1>4, <1>5, <1>6, <1>7, ComposeCases

\* compose is defined for all operations.
LEMMA ComposeDefined ==
  ASSUME NEW p \in Pairs
  PROVE  ComposeOps[p] = ComposeRound(ComposeOps, p)
<1> DEFINE M == [q \in Pairs |-> ComposeSize(q)]
           R == [f \in [Pairs -> Operations] |-> [q \in Pairs |-> ComposeRound(f, q)]]
<1>1. M \in [Pairs -> Nat] /\ R \in [[Pairs -> Operations] -> [Pairs -> Operations]]
  BY ComposeSizeType, ComposeTyped
<1>2. Descends(R, Pairs, Operations, M)
  <2> SUFFICES ASSUME NEW f \in [Pairs -> Operations], NEW g \in [Pairs -> Operations],
                      NEW q \in Pairs, \A r \in Pairs : M[r] < M[q] => f[r] = g[r]
               PROVE  ComposeRound(f, q) = ComposeRound(g, q)
    BY DEF Descends
  <2>1. \A r \in Pairs : ComposeSize(r) < ComposeSize(q) => f[r] = g[r]
    OBVIOUS
  <2> HIDE DEF M, R
  <2> QED BY <2>1, ComposeLocal
<1>3. \E f \in [Pairs -> Operations] : f = R[f]
  <2>1. Operations # {}
    BY Nothing
  <2> HIDE DEF M, R
  <2>2. Recursive(R, Pairs, Operations, M)
    BY <1>1, <1>2, <2>1 DEF Recursive
  <2>3. HasSolution(R, Pairs, Operations)
    BY <2>2, SolutionExists, Zenon
  <2> QED BY <2>3 DEF HasSolution
<1>4. \E f : f = [q \in Pairs |-> ComposeRound(f, q)]
  BY <1>3, Zenon
<1>5. ComposeOps = CHOOSE f : f = [q \in Pairs |-> ComposeRound(f, q)]
  BY Zenon DEF ComposeOps, Pairs, Operations
<1>6. ComposeOps = [q \in Pairs |-> ComposeRound(ComposeOps, q)]
  BY <1>4, <1>5, Zenon
<1> QED BY <1>6, Zenon

\* Both operations of p follow one another.
Fits(p) == OutputLength(p[1]) = InputLength(p[2])

\* w reads what the first operation of p reads; if it also writes as much as the
\* second one, it does what the two do one after the other.
Composes(p, w) ==
  /\ w \in Operations /\ InputLength(w) = InputLength(p[1])
  /\ OutputLength(w) <= OutputLength(p[2])
  /\ OutputLength(w) = OutputLength(p[2]) =>
       \A s \in Text : InputLength(p[1]) = Len(s) =>
         TextApply(s, w) = TextApply(TextApply(s, p[1]), p[2])

LEMMA ApplyHead ==
  ASSUME NEW u \in Text, NEW v \in Text, NEW o \in CompoundOp, ~IsInsert(o), NEW t \in Operations,
         ExpectedInputSize(o) = Len(u), InputLength(t) <= Len(v)
  PROVE  TextApply(u \o v, <<o>> \o t) = Kept(o, u) \o TextApply(v, t)
<1>1. TextApply(u \o v, <<o>> \o t) = TextApply(u, <<o>>) \o TextApply(v, t)
  BY ApplyFirst
<1>2. TextApply(u, <<o>>) = Kept(o, u)
  BY ApplyOne, Sizes DEF Kept
<1> QED BY <1>1, <1>2

LEMMA ApplyInserted ==
  ASSUME NEW s \in Text, NEW o \in CompoundOp, IsInsert(o), NEW t \in Operations,
         InputLength(t) = Len(s)
  PROVE  TextApply(s, <<o>> \o t) = o.text \o TextApply(s, t)
<1> DEFINE q == <<o>> \o t
<1>1. q \in Operations /\ InputLength(q) = ExpectedInputSize(o) + InputLength(t)
  BY OutputOne
<1>2. ExpectedInputSize(o) = 0 /\ InputLength(t) \in Nat
  BY Sizes, InputLengthType
<1>3. q # <<>> /\ Head(q) = o /\ Tail(q) = t
  BY DEF Operations
<1> HIDE DEF q
<1>4. Inserts(q) /\ InputLength(q) = Len(s)
  BY <1>1, <1>2, <1>3 DEF Inserts
<1>5. TextApply(s, q) = Head(q).text \o TextApply(s, Tail(q))
  BY <1>1, <1>4, ApplyInsertion
<1> QED BY <1>3, <1>5 DEF q

LEMMA DeleteComposes ==
  ASSUME NEW p \in Pairs, Fits(p), Deletes(p[1]), NEW w, Fits(After1(p)) => Composes(After1(p), w)
  PROVE  Composes(p, <<Head(p[1])>> \o w)
<1> DEFINE o == Head(p[1])
           t == Tail(p[1])
           z == <<o>> \o w
<1>1. /\ p[1] \in Operations /\ p[2] \in Operations /\ o \in CompoundOp /\ t \in Operations
      /\ p[1] = <<o>> \o t /\ InputLength(p[1]) = ExpectedInputSize(o) + InputLength(t)
      /\ OutputLength(p[1]) = OpOutputLen(o) + OutputLength(t) /\ o.kind = "Delete"
  BY SizeType, FirstOperation, OutputFirst DEF Deletes
<1> HIDE DEF o, t
<1>2. /\ ~IsInsert(o) /\ OpOutputLen(o) = 0 /\ ExpectedInputSize(o) \in Nat
      /\ OutputLength(t) \in Nat /\ InputLength(t) \in Nat
  BY <1>1, Sizes, OutputLengthType, InputLengthType DEF OpOutputLen, IsInsert
<1>3. Composes(<<t, p[2]>>, w)
  <2>1. OutputLength(t) = InputLength(p[2])
    BY <1>1, <1>2 DEF Fits
  <2>2. After1(p) = <<t, p[2]>>
    BY DEF After1, t
  <2>3. Fits(<<t, p[2]>>)
    BY <2>1 DEF Fits
  <2> QED BY <2>2, <2>3
<1>4. /\ w \in Operations /\ InputLength(w) = InputLength(t) /\ OutputLength(w) <= OutputLength(p[2])
      /\ OutputLength(w) \in Nat
      /\ OutputLength(w) = OutputLength(p[2]) =>
           \A s \in Text : InputLength(t) = Len(s) =>
             TextApply(s, w) = TextApply(TextApply(s, t), p[2])
  BY <1>3, OutputLengthType DEF Composes
<1>5. /\ z \in Operations /\ InputLength(z) = ExpectedInputSize(o) + InputLength(w)
      /\ OutputLength(z) = OpOutputLen(o) + OutputLength(w)
  BY <1>1, <1>4, OutputOne
<1>6. InputLength(z) = InputLength(p[1]) /\ OutputLength(z) = OutputLength(w)
  <2> HIDE DEF z
  <2> QED BY <1>1, <1>2, <1>4, <1>5
<1>7. ASSUME OutputLength(w) = OutputLength(p[2]), NEW s \in Text, InputLength(p[1]) = Len(s)
      PROVE  TextApply(s, z) = TextApply(TextApply(s, p[1]), p[2])
  <2>1. ExpectedInputSize(o) \in 0..Len(s)
    BY <1>1, <1>2, <1>7 DEF Text
  <2>2. PICK u, v \in Text : /\ s = u \o v /\ Len(u) = ExpectedInputSize(o)
                             /\ Len(v) = Len(s) - ExpectedInputSize(o)
    BY <2>1, SplitText
  <2>3. Len(v) = InputLength(t) /\ InputLength(t) <= Len(v) /\ InputLength(w) <= Len(v)
    BY <1>1, <1>2, <1>4, <1>7, <2>2
  <2>4. /\ TextApply(u \o v, <<o>> \o t) = Kept(o, u) \o TextApply(v, t)
        /\ TextApply(u \o v, <<o>> \o w) = Kept(o, u) \o TextApply(v, w)
    <3>1. /\ o \in CompoundOp /\ ~IsInsert(o) /\ t \in Operations /\ w \in Operations
          /\ ExpectedInputSize(o) = Len(u) /\ InputLength(t) <= Len(v) /\ InputLength(w) <= Len(v)
      BY <1>1, <1>2, <1>4, <2>2, <2>3
    <3>2. u \in Text /\ v \in Text
      BY <2>2
    <3>3. TextApply(u \o v, <<o>> \o t) = Kept(o, u) \o TextApply(v, t)
      BY <3>1, <3>2, ApplyHead
    <3>4. TextApply(u \o v, <<o>> \o w) = Kept(o, u) \o TextApply(v, w)
      BY <3>1, <3>2, ApplyHead
    <3> QED BY <3>3, <3>4
  <2>5. Kept(o, u) = <<>>
    BY <1>1 DEF Kept
  <2>6. TextApply(v, t) \in Text /\ TextApply(v, w) \in Text
    BY <1>1, <1>4, <2>3, ApplyType
  <2>7. <<>> \o TextApply(v, t) = TextApply(v, t) /\ <<>> \o TextApply(v, w) = TextApply(v, w)
    BY <2>6, ConcatEmptySeq DEF Text
  <2>8. TextApply(v, w) = TextApply(TextApply(v, t), p[2])
    BY <1>4, <1>7, <2>3
  <2>9. TextApply(s, z) = TextApply(v, w) /\ TextApply(s, p[1]) = TextApply(v, t)
    BY <1>1, <2>2, <2>4, <2>5, <2>7, Zenon
  <2> QED BY <2>8, <2>9, Zenon
<1> HIDE DEF z
<1>8. Composes(p, z)
  BY <1>4, <1>5, <1>6, <1>7 DEF Composes
<1> QED BY <1>8 DEF z, o

LEMMA InsertComposes ==
  ASSUME NEW p \in Pairs, Fits(p), Inserts(p[2]), NEW w, Fits(After2(p)) => Composes(After2(p), w)
  PROVE  Composes(p, <<Head(p[2])>> \o w)
<1> DEFINE o == Head(p[2])
           t == Tail(p[2])
           z == <<o>> \o w
<1>1. /\ p[1] \in Operations /\ p[2] \in Operations /\ o \in CompoundOp /\ t \in Operations
      /\ p[2] = <<o>> \o t /\ InputLength(p[2]) = ExpectedInputSize(o) + InputLength(t)
      /\ OutputLength(p[2]) = OpOutputLen(o) + OutputLength(t) /\ IsInsert(o)
  BY SizeType, FirstOperation, OutputFirst DEF Inserts
<1> HIDE DEF o, t
<1>2. /\ ExpectedInputSize(o) = 0 /\ OpOutputLen(o) \in Nat /\ OutputLength(t) \in Nat
      /\ InputLength(t) \in Nat /\ InputLength(p[1]) \in Nat
  BY <1>1, Sizes, OutputSizes, OutputLengthType, InputLengthType
<1>3. OutputLength(p[1]) = InputLength(t)
  BY <1>1, <1>2 DEF Fits
<1>4. Composes(<<p[1], t>>, w)
  BY <1>3 DEF Fits, After2, t
<1>5. /\ w \in Operations /\ InputLength(w) = InputLength(p[1]) /\ OutputLength(w) <= OutputLength(t)
      /\ OutputLength(w) \in Nat
      /\ OutputLength(w) = OutputLength(t) =>
           \A s \in Text : InputLength(p[1]) = Len(s) =>
             TextApply(s, w) = TextApply(TextApply(s, p[1]), t)
  BY <1>4, OutputLengthType DEF Composes
<1>6. /\ z \in Operations /\ InputLength(z) = ExpectedInputSize(o) + InputLength(w)
      /\ OutputLength(z) = OpOutputLen(o) + OutputLength(w)
  BY <1>1, <1>5, OutputOne
<1>7. /\ InputLength(z) = InputLength(p[1]) /\ OutputLength(z) <= OutputLength(p[2])
      /\ OutputLength(z) = OutputLength(p[2]) => OutputLength(w) = OutputLength(t)
  <2> HIDE DEF z
  <2> QED BY <1>1, <1>2, <1>5, <1>6
<1>8. ASSUME OutputLength(w) = OutputLength(t), NEW s \in Text, InputLength(p[1]) = Len(s)
      PROVE  TextApply(s, z) = TextApply(TextApply(s, p[1]), p[2])
  <2> DEFINE x == TextApply(s, p[1])
  <2>1. x \in Text /\ Len(x) = OutputLength(p[1])
    <3>1. InputLength(p[1]) <= Len(s)
      BY <1>2, <1>8
    <3> QED BY <1>1, <3>1, ApplyType, ApplyLength
  <2> HIDE DEF x
  <2>2. TextApply(x, <<o>> \o t) = o.text \o TextApply(x, t)
    BY <1>1, <1>3, <2>1, ApplyInserted
  <2>3. TextApply(s, <<o>> \o w) = o.text \o TextApply(s, w)
    BY <1>1, <1>5, <1>8, ApplyInserted
  <2>4. TextApply(s, w) = TextApply(x, t)
    BY <1>5, <1>8 DEF x
  <2> QED BY <1>1, <2>2, <2>3, <2>4, Zenon DEF x
<1> HIDE DEF z
<1>9. Composes(p, z)
  BY <1>6, <1>7, <1>8 DEF Composes
<1> QED BY <1>9 DEF z, o

LEMMA CutComposes ==
  ASSUME NEW p \in Pairs, Fits(p), Cut(p), NEW w,
         Fits(AfterBoth(p)) => Composes(AfterBoth(p), w)
  PROVE  Composes(p, w)
<1> DEFINE n  == Overlapping(p)
           r1 == Rest(p[1], n)
           r2 == Rest(p[2], n)
           part == SubSeq(Head(p[1]).text, 1, n)
<1>1. /\ p[1] \in Operations /\ p[2] \in Operations /\ p[2] # <<>> /\ Head(p[2]).kind = "Delete"
      /\ ~IsInsert(Head(p[2])) /\ Inserts(p[1]) /\ n \in Nat \ {0}
      /\ n \in 1..Width(Head(p[1])) /\ n \in 1..Width(Head(p[2]))
  BY ReadType DEF Cut, Inserts
<1> HIDE DEF n
<1>2. /\ part \in Text \ {<<>>} /\ Len(part) = n /\ r1 \in Operations
      /\ InputLength(r1) = InputLength(p[1]) /\ OutputLength(p[1]) = n + OutputLength(r1)
      /\ \A s \in Text : InputLength(p[1]) = Len(s) =>
           TextApply(s, p[1]) = part \o TextApply(s, r1)
  BY <1>1, RestOfInsertion
<1>3. r2 \in Operations /\ InputLength(r2) = InputLength(p[2]) - n
  BY <1>1, RestType
<1>4. OutputLength(r2) = OutputLength(p[2])
  BY <1>1, <1>3, OutputRest, OutputLengthType
<1> HIDE DEF r1, r2, part
<1>5. OutputLength(r1) = InputLength(r2)
  <2>1. OutputLength(p[1]) = InputLength(p[2])
    BY DEF Fits
  <2>2. n \in Nat /\ OutputLength(r1) \in Nat
    BY <1>1, <1>2, OutputLengthType
  <2>3. InputLength(r2) = (n + OutputLength(r1)) - n
    BY <1>2, <1>3, <2>1
  <2> QED BY <2>2, <2>3
<1>6. Composes(<<r1, r2>>, w)
  <2>1. AfterBoth(p) = <<r1, r2>>
    BY DEF AfterBoth, r1, r2, n
  <2>2. Fits(<<r1, r2>>)
    BY <1>5 DEF Fits
  <2> QED BY <2>1, <2>2
<1>7. /\ w \in Operations /\ InputLength(w) = InputLength(r1) /\ OutputLength(w) <= OutputLength(r2)
      /\ OutputLength(w) = OutputLength(r2) =>
           \A s \in Text : InputLength(r1) = Len(s) =>
             TextApply(s, w) = TextApply(TextApply(s, r1), r2)
  BY <1>6 DEF Composes
<1>8. ASSUME OutputLength(w) = OutputLength(p[2]), NEW s \in Text, InputLength(p[1]) = Len(s)
      PROVE  TextApply(s, w) = TextApply(TextApply(s, p[1]), p[2])
  <2> DEFINE y == TextApply(s, r1)
  <2>1. y \in Text /\ Len(y) = OutputLength(r1)
    <3>1. InputLength(r1) <= Len(s)
      BY <1>2, <1>8, InputLengthType
    <3> QED BY <1>2, <3>1, ApplyType, ApplyLength
  <2>2. TextApply(s, w) = TextApply(y, r2)
    BY <1>2, <1>4, <1>7, <1>8
  <2>3. TextApply(s, p[1]) = part \o y
    BY <1>2, <1>8
  <2> HIDE DEF y
  <2>4. TextApply(part \o y, p[2]) = Kept(Head(p[2]), part) \o TextApply(y, r2)
    <3>1. Len(y) = InputLength(p[2]) - n
      BY <1>3, <1>5, <2>1
    <3> QED BY <1>1, <1>2, <2>1, <3>1, ApplyRest DEF r2
  <2>5. Kept(Head(p[2]), part) = <<>>
    BY <1>1 DEF Kept
  <2>6. <<>> \o TextApply(y, r2) = TextApply(y, r2)
    <3>1. InputLength(r2) <= Len(y)
      BY <1>3, <1>5, <2>1, InputLengthType
    <3> QED BY <1>3, <2>1, <3>1, ApplyType, ConcatEmptySeq DEF Text
  <2> QED BY <2>2, <2>3, <2>4, <2>5, <2>6, Zenon
<1> QED BY <1>2, <1>4, <1>7, <1>8 DEF Composes

LEMMA TakeComposes ==
  ASSUME NEW p \in Pairs, Fits(p), Take(p), NEW w,
         Fits(AfterRetention(p)) => Composes(AfterRetention(p), w)
  PROVE  Composes(p, <<Insert(SubSeq(Head(p[1]).text, 1, Overlapping(p)))>> \o w)
<1> DEFINE n  == Overlapping(p)
           r1 == Rest(p[1], n)
           r2 == RestOfRetain(p[2], n)
           part == SubSeq(Head(p[1]).text, 1, n)
           o  == Insert(part)
           z  == <<o>> \o w
<1>1. /\ p[1] \in Operations /\ p[2] \in Operations /\ p[2] # <<>> /\ Head(p[2]).kind = "Retain"
      /\ ~IsInsert(Head(p[2])) /\ Inserts(p[1]) /\ n \in Nat \ {0}
      /\ n \in 1..Width(Head(p[1])) /\ n \in 1..Width(Head(p[2]))
  BY ReadType DEF Take, Inserts
<1> HIDE DEF n
<1>2. /\ part \in Text \ {<<>>} /\ Len(part) = n /\ r1 \in Operations
      /\ InputLength(r1) = InputLength(p[1]) /\ OutputLength(p[1]) = n + OutputLength(r1)
      /\ \A s \in Text : InputLength(p[1]) = Len(s) =>
           TextApply(s, p[1]) = part \o TextApply(s, r1)
  BY <1>1, RestOfInsertion
<1>3. /\ r2 \in Operations /\ InputLength(r2) = InputLength(p[2]) - n
      /\ OutputLength(r2) + n <= OutputLength(p[2])
      /\ OutputLength(r2) + n = OutputLength(p[2]) => r2 = Rest(p[2], n)
  BY <1>1, RestOfRetainType
<1> HIDE DEF r1, r2, part
<1>4. o \in CompoundOp /\ IsInsert(o) /\ o.text = part /\ ExpectedInputSize(o) = 0 /\ OpOutputLen(o) = n
  BY <1>2, TakenType
<1>5. OutputLength(r1) = InputLength(r2)
  <2>1. OutputLength(p[1]) = InputLength(p[2])
    BY DEF Fits
  <2>2. n \in Nat /\ OutputLength(r1) \in Nat
    BY <1>1, <1>2, OutputLengthType
  <2>3. InputLength(r2) = (n + OutputLength(r1)) - n
    BY <1>2, <1>3, <2>1
  <2> QED BY <2>2, <2>3
<1>6. Composes(<<r1, r2>>, w)
  <2>1. AfterRetention(p) = <<r1, r2>>
    BY DEF AfterRetention, r1, r2, n
  <2>2. Fits(<<r1, r2>>)
    BY <1>5 DEF Fits
  <2> QED BY <2>1, <2>2
<1>7. /\ w \in Operations /\ InputLength(w) = InputLength(r1) /\ OutputLength(w) <= OutputLength(r2)
      /\ OutputLength(w) \in Nat /\ OutputLength(r2) \in Nat
      /\ OutputLength(w) = OutputLength(r2) =>
           \A s \in Text : InputLength(r1) = Len(s) =>
             TextApply(s, w) = TextApply(TextApply(s, r1), r2)
  BY <1>3, <1>6, OutputLengthType DEF Composes
<1> HIDE DEF o
<1>8. z \in Operations /\ InputLength(z) = InputLength(w) /\ OutputLength(z) = n + OutputLength(w)
  <2>1. /\ z \in Operations /\ InputLength(z) = ExpectedInputSize(o) + InputLength(w)
        /\ OutputLength(z) = OpOutputLen(o) + OutputLength(w)
    BY <1>4, <1>7, OutputOne
  <2> HIDE DEF z
  <2> QED BY <1>4, <1>7, <2>1, InputLengthType
<1>9. /\ OutputLength(z) <= OutputLength(p[2])
      /\ OutputLength(z) = OutputLength(p[2]) =>
           OutputLength(w) = OutputLength(r2) /\ r2 = Rest(p[2], n)
  <2> HIDE DEF z
  <2>1. OutputLength(p[2]) \in Nat
    BY <1>1, OutputLengthType
  <2> QED BY <1>1, <1>3, <1>7, <1>8, <2>1
<1>10. ASSUME OutputLength(z) = OutputLength(p[2]), NEW s \in Text, InputLength(p[1]) = Len(s)
       PROVE  TextApply(s, z) = TextApply(TextApply(s, p[1]), p[2])
  <2> DEFINE y == TextApply(s, r1)
  <2>1. y \in Text /\ Len(y) = OutputLength(r1)
    <3>1. InputLength(r1) <= Len(s)
      BY <1>2, <1>10, InputLengthType
    <3> QED BY <1>2, <3>1, ApplyType, ApplyLength
  <2>2. TextApply(s, w) = TextApply(y, r2)
    BY <1>2, <1>7, <1>9, <1>10
  <2>3. TextApply(s, p[1]) = part \o y
    BY <1>2, <1>10
  <2>4. TextApply(s, z) = part \o TextApply(s, w)
    <3>1. InputLength(w) = Len(s)
      BY <1>2, <1>7, <1>10
    <3>2. TextApply(s, <<o>> \o w) = o.text \o TextApply(s, w)
      BY <1>4, <1>7, <3>1, ApplyInserted
    <3> QED BY <1>4, <3>2, Zenon
  <2> HIDE DEF y, z
  <2>5. TextApply(part \o y, p[2]) = Kept(Head(p[2]), part) \o TextApply(y, Rest(p[2], n))
    <3>1. Len(y) = InputLength(p[2]) - n
      BY <1>3, <1>5, <2>1
    <3> QED BY <1>1, <1>2, <2>1, <3>1, ApplyRest
  <2>6. Kept(Head(p[2]), part) = part
    BY <1>1 DEF Kept
  <2>7. Rest(p[2], n) = r2
    BY <1>9, <1>10
  <2> QED BY <2>2, <2>3, <2>4, <2>5, <2>6, <2>7, Zenon
<1> HIDE DEF z
<1>11. Composes(p, z)
  BY <1>2, <1>7, <1>8, <1>9, <1>10 DEF Composes
<1> QED BY <1>11 DEF z, o, part, n

LEMMA PassComposes ==
  ASSUME NEW p \in Pairs, Fits(p), Pass(p), NEW w,
         Fits(AfterBoth(p)) => Composes(AfterBoth(p), w)
  PROVE  Composes(p, <<[Head(p[2]) EXCEPT !.count = Overlapping(p)]>> \o w)
<1> DEFINE n  == Overlapping(p)
           o1 == Head(p[1])
           o2 == Head(p[2])
           r1 == Rest(p[1], n)
           r2 == Rest(p[2], n)
           c  == [o2 EXCEPT !.count = n]
           z  == <<c>> \o w
           written == IF o2.kind = "Delete" THEN 0 ELSE n
<1>1. /\ p[1] \in Operations /\ p[1] # <<>> /\ o1 \in CompoundOp /\ o1.kind = "Retain"
      /\ ~IsInsert(o1)
      /\ p[2] \in Operations /\ p[2] # <<>> /\ o2 \in CompoundOp /\ ~IsInsert(o2)
      /\ n \in Nat \ {0} /\ n \in 1..Width(o1) /\ n \in 1..Width(o2)
  BY ReadType DEF Pass, IsInsert
<1> HIDE DEF n
<1>2. /\ r1 \in Operations /\ InputLength(r1) = InputLength(p[1]) - n
      /\ OutputLength(p[1]) = n + OutputLength(r1)
      /\ r2 \in Operations /\ InputLength(r2) = InputLength(p[2]) - n
      /\ OutputLength(p[2]) = written + OutputLength(r2)
  BY <1>1, RestType, OutputRest
<1>3. /\ c \in CompoundOp /\ ~IsInsert(c) /\ c.kind = o2.kind /\ ExpectedInputSize(c) = n
      /\ OpOutputLen(c) = written
  <2> HIDE DEF o2
  <2> QED BY <1>1, PassedType DEF o2
<1> HIDE DEF r1, r2, o1, o2, c
<1>4. /\ OutputLength(r1) \in Nat /\ InputLength(r1) \in Nat
      /\ OutputLength(r2) \in Nat /\ InputLength(r2) \in Nat /\ written \in Nat
      /\ InputLength(p[1]) \in Nat /\ InputLength(p[2]) \in Nat
  BY <1>1, <1>2, OutputLengthType, InputLengthType
<1> HIDE DEF written
<1>5. OutputLength(r1) = InputLength(r2)
  <2>1. OutputLength(p[1]) = InputLength(p[2])
    BY DEF Fits
  <2>2. n \in Nat
    BY <1>1
  <2>3. InputLength(r2) = (n + OutputLength(r1)) - n
    BY <1>2, <2>1
  <2> QED BY <1>4, <2>2, <2>3
<1>6. Composes(<<r1, r2>>, w)
  <2>1. AfterBoth(p) = <<r1, r2>>
    BY DEF AfterBoth, r1, r2, n
  <2>2. Fits(<<r1, r2>>)
    BY <1>5 DEF Fits
  <2> QED BY <2>1, <2>2
<1>7. /\ w \in Operations /\ InputLength(w) = InputLength(r1) /\ OutputLength(w) <= OutputLength(r2)
      /\ OutputLength(w) \in Nat
      /\ OutputLength(w) = OutputLength(r2) =>
           \A s \in Text : InputLength(r1) = Len(s) =>
             TextApply(s, w) = TextApply(TextApply(s, r1), r2)
  BY <1>6, OutputLengthType DEF Composes
<1>8. /\ z \in Operations /\ InputLength(z) = n + InputLength(w)
      /\ OutputLength(z) = written + OutputLength(w)
  BY <1>3, <1>7, OutputOne
<1>9. /\ InputLength(z) = InputLength(p[1]) /\ OutputLength(z) <= OutputLength(p[2])
      /\ OutputLength(z) = OutputLength(p[2]) => OutputLength(w) = OutputLength(r2)
  <2> HIDE DEF z
  <2> QED BY <1>1, <1>2, <1>4, <1>7, <1>8, SMTT(40)
<1>10. ASSUME OutputLength(z) = OutputLength(p[2]), NEW s \in Text, InputLength(p[1]) = Len(s)
       PROVE  TextApply(s, z) = TextApply(TextApply(s, p[1]), p[2])
  <2>1. n \in 0..Len(s)
    BY <1>1, <1>2, <1>4, <1>10
  <2>2. PICK u, v \in Text : s = u \o v /\ Len(u) = n /\ Len(v) = Len(s) - n
    BY <2>1, SplitText
  <2>3. Len(v) = InputLength(r1) /\ InputLength(r1) <= Len(v) /\ InputLength(w) <= Len(v)
        /\ Len(v) = InputLength(p[1]) - n
    BY <1>2, <1>4, <1>7, <1>10, <2>2
  <2> DEFINE y == TextApply(v, r1)
  <2>4. y \in Text /\ Len(y) = OutputLength(r1) /\ Len(y) = InputLength(p[2]) - n
    BY <1>2, <1>5, <2>3, ApplyType, ApplyLength
  <2>5. TextApply(u \o v, p[1]) = Kept(o1, u) \o y
    <3>1. p[1] \in Operations /\ p[1] # <<>> /\ ~IsInsert(Head(p[1])) /\ n \in 1..Width(Head(p[1]))
      BY <1>1 DEF o1
    <3>2. u \in Text /\ v \in Text /\ Len(u) = n /\ Len(v) = InputLength(p[1]) - n
      BY <2>2, <2>3
    <3>3. TextApply(u \o v, p[1]) = Kept(Head(p[1]), u) \o TextApply(v, Rest(p[1], n))
      BY <3>1, <3>2, ApplyRest, ZenonT(40)
    <3> QED BY <3>3 DEF r1, o1
  <2>6. Kept(o1, u) = u
    BY <1>1 DEF Kept
  <2> HIDE DEF y
  <2>7. TextApply(u \o y, p[2]) = Kept(o2, u) \o TextApply(y, r2)
    <3>1. ~IsInsert(Head(p[2])) /\ n \in 1..Width(Head(p[2]))
      BY <1>1 DEF o2
    <3>2. p[2] \in Operations /\ p[2] # <<>>
      BY <1>1
    <3>3. u \in Text /\ Len(u) = n /\ y \in Text /\ Len(y) = InputLength(p[2]) - n
      BY <2>2, <2>4
    <3>4. TextApply(u \o y, p[2]) = Kept(Head(p[2]), u) \o TextApply(y, Rest(p[2], n))
      BY <3>1, <3>2, <3>3, ApplyRest, ZenonT(40)
    <3> QED BY <3>4 DEF r2, o2
  <2>8. TextApply(u \o v, <<c>> \o w) = Kept(c, u) \o TextApply(v, w)
    <3>1. ExpectedInputSize(c) = Len(u) /\ InputLength(w) <= Len(v)
      BY <1>3, <2>2, <2>3
    <3>2. c \in CompoundOp /\ ~IsInsert(c) /\ w \in Operations /\ u \in Text /\ v \in Text
      BY <1>3, <1>7, <2>2
    <3> QED BY <3>1, <3>2, ApplyHead
  <2>9. Kept(c, u) = Kept(o2, u)
    BY <1>3 DEF Kept
  <2>10. TextApply(v, w) = TextApply(y, r2)
    BY <1>7, <1>9, <1>10, <2>3 DEF y
  <2> QED BY <2>2, <2>5, <2>6, <2>7, <2>8, <2>9, <2>10, Zenon
<1> HIDE DEF z
<1>11. Composes(p, z)
  BY <1>8, <1>9, <1>10 DEF Composes
<1> QED BY <1>11 DEF z, c, o2, n

LEMMA EndComposes ==
  ASSUME NEW p \in Pairs, Fits(p)
  PROVE  /\ p[1] = <<>> => Composes(p, p[2])
         /\ p[1] # <<>> /\ ~Deletes(p[1]) => p[2] # <<>>
<1>1. p[1] \in Operations /\ p[2] \in Operations
  BY SizeType
<1>2. ASSUME p[1] = <<>> PROVE Composes(p, p[2])
  <2>1. InputLength(p[1]) = 0 /\ InputLength(p[2]) = 0
    BY <1>2, InputLengthEmpty, OutputLengthEmpty DEF Fits
  <2>2. ASSUME NEW s \in Text, InputLength(p[1]) = Len(s)
        PROVE  TextApply(s, p[2]) = TextApply(TextApply(s, p[1]), p[2])
    <3>1. s = <<>>
      BY <2>1, <2>2 DEF Text
    <3>2. TextApply(s, p[1]) = s
      BY <1>2, <3>1, Nothing, Zenon
    <3> QED BY <3>2, Zenon
  <2>3. OutputLength(p[2]) \in Nat
    BY <1>1, OutputLengthType
  <2> QED BY <1>1, <2>1, <2>2, <2>3 DEF Composes
<1>3. ASSUME p[1] # <<>>, ~Deletes(p[1]) PROVE p[2] # <<>>
  <2>1. /\ Head(p[1]) \in CompoundOp /\ Tail(p[1]) \in Operations
        /\ OutputLength(p[1]) = OpOutputLen(Head(p[1])) + OutputLength(Tail(p[1]))
        /\ Head(p[1]).kind # "Delete"
    BY <1>1, <1>3, FirstOperation, OutputFirst DEF Deletes
  <2>2. OpOutputLen(Head(p[1])) \in Nat \ {0} /\ OutputLength(Tail(p[1])) \in Nat
    BY <2>1, Sizes, OutputLengthType DEF OpOutputLen
  <2>3. OutputLength(p[1]) # 0
    BY <2>1, <2>2
  <2> QED BY <2>3, InputLengthEmpty DEF Fits
<1> QED BY <1>2, <1>3

\* The walk of compose, by induction over what is left to walk.
LEMMA WalkComposes ==
  ASSUME NEW p \in Pairs, Fits(p)
  PROVE  Composes(p, ComposeOps[p])
<1> DEFINE All(q) == Fits(q) => Composes(q, ComposeOps[q])
           S == {j \in Nat : \A q \in Pairs : ComposeSize(q) <= j => All(q)}
<1>1. ASSUME NEW q \in Pairs, \A r \in Pairs : ComposeSize(r) < ComposeSize(q) => All(r)
      PROVE  All(q)
  <2> SUFFICES ASSUME Fits(q) PROVE Composes(q, ComposeRound(ComposeOps, q))
    BY ComposeDefined
  <2>1. CASE q[1] = <<>>
    BY <2>1, EndComposes, ComposeEnd1
  <2>2. CASE Deletes(q[1])
    <3> DEFINE w == ComposeOps[After1(q)]
    <3>1. Fits(After1(q)) => Composes(After1(q), w)
      BY <1>1, <2>2, ComposeSmaller
    <3>2. ComposeRound(ComposeOps, q) = <<Head(q[1])>> \o w
      BY <2>2, ComposeDelete
    <3> HIDE DEF w
    <3> QED BY <2>2, <3>1, <3>2, DeleteComposes
  <2>3. CASE q[1] # <<>> /\ ~Deletes(q[1]) /\ Inserts(q[2])
    <3> DEFINE w == ComposeOps[After2(q)]
    <3>1. Fits(After2(q)) => Composes(After2(q), w)
      BY <1>1, <2>3, ComposeSmaller
    <3>2. ComposeRound(ComposeOps, q) = <<Head(q[2])>> \o w
      BY <2>3, ComposeInsert
    <3> HIDE DEF w
    <3> QED BY <2>3, <3>1, <3>2, InsertComposes
  <2>4. CASE Cut(q)
    <3> DEFINE w == ComposeOps[AfterBoth(q)]
    <3>1. Fits(AfterBoth(q)) => Composes(AfterBoth(q), w)
      BY <1>1, <2>4, ComposeSmaller DEF Cut
    <3>2. ComposeRound(ComposeOps, q) = w
      BY <2>4, ComposeCut
    <3> HIDE DEF w
    <3> QED BY <2>4, <3>1, <3>2, CutComposes
  <2>5. CASE Take(q)
    <3> DEFINE w == ComposeOps[AfterRetention(q)]
               i == Insert(SubSeq(Head(q[1]).text, 1, Overlapping(q)))
    <3>1. Fits(AfterRetention(q)) => Composes(AfterRetention(q), w)
      BY <1>1, <2>5, ComposeSmaller
    <3>2. ComposeRound(ComposeOps, q) = <<i>> \o w
      BY <2>5, ComposeTake
    <3> HIDE DEF w
    <3>3. Composes(q, <<i>> \o w)
      BY <2>5, <3>1, TakeComposes
    <3> QED BY <3>2, <3>3, Zenon
  <2>6. CASE Pass(q)
    <3> DEFINE w == ComposeOps[AfterBoth(q)]
               c == [Head(q[2]) EXCEPT !.count = Overlapping(q)]
    <3>1. Fits(AfterBoth(q)) => Composes(AfterBoth(q), w)
      BY <1>1, <2>6, ComposeSmaller DEF Pass
    <3>2. ComposeRound(ComposeOps, q) = <<c>> \o w
      BY <2>6, ComposePass
    <3> HIDE DEF w
    <3>3. Composes(q, <<c>> \o w)
      BY <2>6, <3>1, PassComposes
    <3> QED BY <3>2, <3>3, Zenon
  <2>7. ~(q[1] # <<>> /\ ~Deletes(q[1]) /\ q[2] = <<>>)
    BY EndComposes
  <2> QED BY <2>1, <2>2, <2>3, <2>4, <2>5, <2>6, <2>7, ComposeCases
<1> HIDE DEF All
<1>2. 0 \in S
  <2> SUFFICES ASSUME NEW q \in Pairs, ComposeSize(q) <= 0 PROVE All(q)
    OBVIOUS
  <2>1. \A r \in Pairs : ~(ComposeSize(r) < ComposeSize(q))
    BY ComposeSizeType
  <2> QED BY <1>1, <2>1
<1>3. ASSUME NEW j \in Nat, j \in S PROVE j+1 \in S
  <2> SUFFICES ASSUME NEW q \in Pairs, ComposeSize(q) <= j+1 PROVE All(q)
    OBVIOUS
  <2>1. ASSUME NEW r \in Pairs, ComposeSize(r) < ComposeSize(q) PROVE All(r)
    <3>1. ComposeSize(r) <= j
      BY <2>1, ComposeSizeType
    <3> QED BY <1>3, <3>1
  <2> QED BY <1>1, <2>1
<1>4. Nat \subseteq S
  <2> HIDE DEF S
  <2> QED BY <1>2, <1>3, Induction
<1>5. ComposeSize(p) \in S /\ ComposeSize(p) <= ComposeSize(p)
  BY <1>4, ComposeSizeType
<1>6. All(p)
  BY <1>5
<1> QED BY <1>6 DEF All

\* What compose returns for two operations that follow one another reads what the
\* first one reads and writes at most what the second one writes; if it writes as
\* much, it does what the two do one after the other (xforms.rs states this law
\* without the condition; compose loses part of a retention when it does not hold).
THEOREM ComposesUnlessShorter ==
  ASSUME NEW ops1 \in Operations, NEW ops2 \in Operations, CanCompose(ops1, ops2)
  PROVE  Composes(<<ops1, ops2>>, TextCompose(ops1, ops2))
<1> DEFINE p == <<ops1, ops2>>
<1>1. p \in Pairs /\ p[1] = ops1 /\ p[2] = ops2
  BY PairType
<1>2. Fits(p)
  BY <1>1 DEF Fits, CanCompose
<1> HIDE DEF p
<1>3. Composes(p, ComposeOps[p])
  BY <1>1, <1>2, WalkComposes
<1> QED BY <1>3 DEF p, TextCompose

-----------------------------------------------------------------------------
(* Which of two insertions at one place comes first                        *)

\* The document after both operations, the first one applied as it is.
Merged(s, p) == TextApply(TextApply(s, p[1]), TransformOps[p][2])

\* Two operations that begin alike, with c, which inserts nothing, and then both
\* insert; the first one does not insert twice in a row.
InsertAfter(c, o1, t1, o2, t2) ==
  /\ c \in Operations /\ \A i \in DOMAIN c : ~IsInsert(c[i])
  /\ o1 \in CompoundOp /\ IsInsert(o1) /\ t1 \in Operations /\ ~Inserts(t1)
  /\ o2 \in CompoundOp /\ IsInsert(o2) /\ t2 \in Operations

Both(c, o1, t1, o2, t2) == <<c \o (<<o1>> \o t1), c \o (<<o2>> \o t2)>>

\* u comes n characters after the start of m.
Stands(m, n, u) == \E x, z \in Text : m = x \o (u \o z) /\ Len(x) = n

LEMMA HeadOfOne ==
  ASSUME NEW o \in CompoundOp, NEW t \in Operations
  PROVE  /\ <<o>> \o t \in Operations /\ <<o>> \o t # <<>>
         /\ Head(<<o>> \o t) = o /\ Tail(<<o>> \o t) = t
<1>1. <<o>> \o t \in Operations
  BY OutputOne
<1> QED BY <1>1 DEF Operations

\* Two insertions where both operations begin: the text of the first comes first.
LEMMA FirstInsertions ==
  ASSUME NEW s \in Text, NEW o1 \in CompoundOp, NEW t1 \in Operations,
         NEW o2 \in CompoundOp, NEW t2 \in Operations, IsInsert(o1), IsInsert(o2), ~Inserts(t1),
         BothApply(s, <<<<o1>> \o t1, <<o2>> \o t2>>)
  PROVE  Stands(Merged(s, <<<<o1>> \o t1, <<o2>> \o t2>>), 0, o1.text \o o2.text)
<1> DEFINE q1 == <<o1>> \o t1
           q2 == <<o2>> \o t2
           p  == <<q1, q2>>
           w  == TransformOps[<<t1, t2>>]
           r1 == Retain(Width(o1))
           r2 == Retain(Width(o2))
           y  == TextApply(s, t1)
<1>1. /\ q1 \in Operations /\ q1 # <<>> /\ Head(q1) = o1 /\ Tail(q1) = t1
      /\ q2 \in Operations /\ q2 # <<>> /\ Head(q2) = o2 /\ Tail(q2) = t2
      /\ InputLength(q1) = ExpectedInputSize(o1) + InputLength(t1)
      /\ InputLength(q2) = ExpectedInputSize(o2) + InputLength(t2)
  BY HeadOfOne, OutputOne
<1>2. /\ InputLength(t1) \in Nat /\ InputLength(t2) \in Nat
      /\ ExpectedInputSize(o1) = 0 /\ ExpectedInputSize(o2) = 0
      /\ o1.text \in Text /\ o2.text \in Text
      /\ Width(o1) \in Nat \ {0} /\ Width(o1) = Len(o1.text)
  BY InputLengthType, Sizes DEF Width
<1>3. InputLength(q1) = Len(s) /\ InputLength(q2) = Len(s)
  BY DEF BothApply
<1> HIDE DEF q1, q2
<1>4. InputLength(t1) = Len(s) /\ InputLength(t2) = Len(s) /\ InputLength(t1) <= Len(s)
  BY <1>1, <1>2, <1>3
<1>5. <<q1, q2>> \in Pairs /\ <<t1, q2>> \in Pairs /\ <<t1, t2>> \in Pairs
  BY <1>1, PairType
<1>6. TransformOps[p] = Emitted(<<<<o1>>, <<r1>>>>, TransformOps[<<t1, q2>>])
  <2>1. Inserts(p[1]) /\ Head(p[1]) = o1 /\ After1(p) = <<t1, q2>>
    BY <1>1 DEF Inserts, After1
  <2>2. TransformOps[p] = TransformRound(TransformOps, p)
    BY <1>5, TransformDefined
  <2> HIDE DEF p
  <2>3. TransformRound(TransformOps, p)
          = Emitted(<<<<Head(p[1])>>, <<Retain(Width(Head(p[1])))>>>>, TransformOps[After1(p)])
    BY <2>1, RoundInsert1
  <2> QED BY <2>1, <2>2, <2>3, Zenon
<1>7. TransformOps[<<t1, q2>>] = Emitted(<<<<r2>>, <<o2>>>>, w)
  <2> DEFINE g == <<t1, q2>>
  <2>1. ~Inserts(g[1]) /\ Inserts(g[2]) /\ Head(g[2]) = o2 /\ After2(g) = <<t1, t2>>
    BY <1>1 DEF Inserts, After2
  <2>2. TransformOps[g] = TransformRound(TransformOps, g)
    BY <1>5, TransformDefined
  <2> HIDE DEF g
  <2>3. TransformRound(TransformOps, g)
          = Emitted(<<<<Retain(Width(Head(g[2])))>>, <<Head(g[2])>>>>, TransformOps[After2(g)])
    BY <2>1, RoundInsert2
  <2>4. TransformOps[g] = Emitted(<<<<r2>>, <<o2>>>>, w)
    BY <2>1, <2>2, <2>3, Zenon
  <2> QED BY <2>4 DEF g
<1> HIDE DEF w, r2
<1>8. TransformOps[p][2] = <<r1>> \o (<<o2>> \o w[2])
  BY <1>6, <1>7 DEF Emitted
<1>9. Converges(s, <<t1, t2>>, w)
  BY <1>4, <1>5, WalkConverges DEF BothApply, w
<1>10. y \in Text /\ w[2] \in Operations /\ InputLength(w[2]) = Len(y)
  BY <1>4, <1>9, ApplyType DEF Converges, Meet
<1>11. TextApply(s, q1) = o1.text \o y
  BY <1>4, ApplyInserted DEF q1
<1>12. TextApply(y, <<o2>> \o w[2]) = o2.text \o TextApply(y, w[2])
  BY <1>10, ApplyInserted
<1>13. TextApply(o1.text \o y, <<r1>> \o (<<o2>> \o w[2]))
         = o1.text \o TextApply(y, <<o2>> \o w[2])
  <2>1. /\ r1 \in CompoundOp /\ ~IsInsert(r1) /\ r1.kind = "Retain"
        /\ ExpectedInputSize(r1) = Len(o1.text)
    BY <1>2, RetainType
  <2>2. /\ <<o2>> \o w[2] \in Operations /\ InputLength(<<o2>> \o w[2]) = 0 + InputLength(w[2])
        /\ InputLength(w[2]) \in Nat
    BY <1>2, <1>10, OutputOne, InputLengthType
  <2>3. InputLength(<<o2>> \o w[2]) <= Len(y)
    BY <1>10, <2>2
  <2> HIDE DEF r1, y
  <2> DEFINE t == <<o2>> \o w[2]
  <2>4. t \in Operations /\ InputLength(t) <= Len(y)
    BY <2>2, <2>3
  <2> HIDE DEF t
  <2>5. TextApply(o1.text \o y, <<r1>> \o t) = Kept(r1, o1.text) \o TextApply(y, t)
    <3>1. o1.text \in Text /\ y \in Text
      BY <1>2, <1>10
    <3> QED BY <2>1, <2>4, <3>1, ApplyHead, Zenon
  <2>6. Kept(r1, o1.text) = o1.text
    BY <2>1 DEF Kept
  <2> QED BY <2>5, <2>6 DEF t
<1> HIDE DEF y
<1>14. Merged(s, p) = o1.text \o (o2.text \o TextApply(y, w[2]))
  BY <1>8, <1>11, <1>12, <1>13 DEF Merged
<1>15. TextApply(y, w[2]) \in Text
  <2>1. InputLength(w[2]) <= Len(y)
    BY <1>10, InputLengthType
  <2> QED BY <1>10, <2>1, ApplyType
<1> DEFINE z == TextApply(y, w[2])
<1> HIDE DEF z
<1>16. Merged(s, p) = (o1.text \o o2.text) \o z
  BY <1>2, <1>14, <1>15, TextsAssociative DEF z
<1>17. (o1.text \o o2.text) \o z \in Text
  BY <1>2, <1>15, ConcatProperties DEF Text, z
<1>18. Merged(s, p) = <<>> \o ((o1.text \o o2.text) \o z)
  BY <1>16, <1>17, ConcatEmptySeq DEF Text
<1>19. <<>> \in Text /\ z \in Text /\ Len(<<>>) = 0
  BY <1>15, Nothing DEF z
<1> QED BY <1>18, <1>19 DEF Stands, q1, q2

\* What both operations retain or delete before they insert makes no difference.
LEMMA LaterInsertions ==
  ASSUME NEW s \in Text, NEW o \in CompoundOp, ~IsInsert(o),
         NEW q1 \in Operations, NEW q2 \in Operations, NEW n \in Nat, NEW m \in Text,
         BothApply(s, <<<<o>> \o q1, <<o>> \o q2>>),
         \A v \in Text : BothApply(v, <<q1, q2>>) => Stands(Merged(v, <<q1, q2>>), n, m)
  PROVE  Stands(Merged(s, <<<<o>> \o q1, <<o>> \o q2>>), OpOutputLen(o) + n, m)
<1> DEFINE a1 == <<o>> \o q1
           a2 == <<o>> \o q2
           p  == <<a1, a2>>
           k  == Width(o)
           w  == TransformOps[<<q1, q2>>]
           e  == Overlap(o.kind, o.kind, k)
<1>1. /\ a1 \in Operations /\ a1 # <<>> /\ Head(a1) = o /\ Tail(a1) = q1
      /\ a2 \in Operations /\ a2 # <<>> /\ Head(a2) = o /\ Tail(a2) = q2
      /\ InputLength(a1) = ExpectedInputSize(o) + InputLength(q1)
      /\ InputLength(a2) = ExpectedInputSize(o) + InputLength(q2)
  BY HeadOfOne, OutputOne
<1>2. /\ InputLength(q1) \in Nat /\ InputLength(q2) \in Nat
      /\ k \in Nat \ {0} /\ ExpectedInputSize(o) = k /\ o.kind \in {"Retain", "Delete"}
  BY InputLengthType, Sizes
<1>3. InputLength(a1) = Len(s) /\ InputLength(a2) = Len(s) /\ Len(s) \in Nat
  BY DEF BothApply, Text
<1> HIDE DEF a1, a2, k
<1>4. k \in 0..Len(s)
  BY <1>1, <1>2, <1>3
<1>5. PICK u \in Text, v \in Text : s = u \o v /\ Len(u) = k /\ Len(v) = Len(s) - k
  BY <1>4, SplitText
<1>6. InputLength(q1) = Len(v) /\ InputLength(q2) = Len(v) /\ InputLength(q1) <= Len(v)
  BY <1>1, <1>2, <1>3, <1>5
<1>7. <<a1, a2>> \in Pairs /\ <<q1, q2>> \in Pairs /\ BothApply(v, <<q1, q2>>)
  BY <1>1, <1>6, PairType DEF BothApply
<1>8. TransformOps[p] = Emitted(e, w)
  <2>1. Overlaps(p) /\ Head(p[1]).kind = o.kind /\ Head(p[2]).kind = o.kind
    BY <1>1 DEF Overlaps, Inserts
  <2>2. Overlapping(p) = k
    BY <1>1, <1>2 DEF Overlapping, Shorter, k
  <2>3. Rest(a1, k) = q1 /\ Rest(a2, k) = q2
    BY <1>1 DEF Rest, k
  <2>4. AfterBoth(p) = <<q1, q2>>
    BY <2>2, <2>3 DEF AfterBoth
  <2>5. TransformOps[p] = TransformRound(TransformOps, p)
    BY <1>7, TransformDefined
  <2> HIDE DEF p
  <2>6. TransformRound(TransformOps, p)
          = Emitted(Overlap(Head(p[1]).kind, Head(p[2]).kind, Overlapping(p)), TransformOps[AfterBoth(p)])
    BY <2>1, RoundOverlap
  <2> QED BY <2>1, <2>2, <2>4, <2>5, <2>6, Zenon
<1> HIDE DEF w, e
<1>9. TransformOps[p][2] = e[2] \o w[2]
  <2>1. Emitted(e, w)[2] = e[2] \o w[2]
    BY DEF Emitted
  <2> HIDE DEF p
  <2> QED BY <1>8, <2>1, Zenon
<1> DEFINE kept == Kept(o, u)
           y    == TextApply(v, q1)
<1>10. TextApply(s, a1) = kept \o y
  <2>1. ExpectedInputSize(o) = Len(u)
    BY <1>2, <1>5
  <2> QED BY <1>5, <1>6, <2>1, ApplyHead DEF a1
<1>11. Meet(kept, kept, e[1], e[2])
  <2>1. Len(u) \in Nat \ {0} /\ e = Overlap(o.kind, o.kind, Len(u))
    BY <1>2, <1>5 DEF e
  <2> HIDE DEF e
  <2> QED BY <2>1, OverlapMeets
<1>12. /\ kept \in Text /\ Len(kept) = OpOutputLen(o)
  BY <1>2, <1>5, Nothing DEF Kept, OpOutputLen, k
<1>13. TextApply(kept, e[2]) = kept
  <2>1. CASE o.kind = "Retain"
    <3>1. Retain(k) \in CompoundOp /\ Retain(k).kind = "Retain" /\ ExpectedInputSize(Retain(k)) = Len(u)
      BY <1>2, <1>5, RetainType
    <3> DEFINE r == Retain(k)
    <3>2. e[2] = <<r>> /\ kept = u
      BY <2>1 DEF e, Overlap, Kept
    <3> HIDE DEF kept
    <3>3. r \in CompoundOp /\ ~IsInsert(r) /\ r.kind = "Retain" /\ ExpectedInputSize(r) = Len(u)
      BY <3>1 DEF IsInsert
    <3> HIDE DEF r
    <3>4. TextApply(u, <<r>>) = u
      BY <3>3, ApplyOne
    <3> QED BY <3>2, <3>4
  <2>2. CASE o.kind = "Delete"
    <3>1. e[2] = <<>> /\ kept = <<>>
      BY <2>2 DEF e, Overlap, Kept
    <3> HIDE DEF kept
    <3> QED BY <3>1, Nothing, Zenon
  <2> QED BY <1>2, <2>1, <2>2
<1>14. Converges(v, <<q1, q2>>, w)
  BY <1>7, WalkConverges DEF w
<1>15. y \in Text /\ w[2] \in Operations /\ InputLength(w[2]) = Len(y)
  BY <1>6, <1>14, ApplyType DEF Converges, Meet
<1> HIDE DEF y, kept
<1>16. TextApply(kept \o y, e[2] \o w[2]) = kept \o TextApply(y, w[2])
  <2> DEFINE e2 == e[2]
             w2 == w[2]
  <2>1. e2 \in Operations /\ InputLength(e2) = Len(kept)
    BY <1>11 DEF Meet
  <2>2. w2 \in Operations /\ InputLength(w2) = Len(y) /\ kept \in Text /\ y \in Text
    BY <1>12, <1>15
  <2>3. TextApply(kept, e2) = kept
    BY <1>13
  <2> HIDE DEF e2, w2
  <2>4. InputLength(w2) <= Len(y)
    BY <2>2, InputLengthType
  <2>5. TextApply(kept \o y, e2 \o w2) = TextApply(kept, e2) \o TextApply(y, w2)
    BY <2>1, <2>2, <2>4, ApplyConcat
  <2> QED BY <2>3, <2>5 DEF e2, w2
<1>17. Merged(s, p) = kept \o Merged(v, <<q1, q2>>)
  <2>1. Merged(v, <<q1, q2>>) = TextApply(y, w[2])
    BY DEF Merged, y, w
  <2>2. Merged(s, p) = TextApply(kept \o y, e[2] \o w[2])
    BY <1>9, <1>10 DEF Merged
  <2> QED BY <1>16, <2>1, <2>2
<1>18. PICK x \in Text, z \in Text : Merged(v, <<q1, q2>>) = x \o (m \o z) /\ Len(x) = n
  BY <1>7 DEF Stands
<1>19. m \o z \in Text /\ kept \o x \in Text /\ Len(kept \o x) = Len(kept) + Len(x)
  BY <1>12, ConcatProperties DEF Text
<1>20. Merged(s, p) = (kept \o x) \o (m \o z)
  <2>1. (kept \o x) \o (m \o z) = kept \o (x \o (m \o z))
    BY <1>12, <1>19, TextsAssociative, ZenonT(40)
  <2> QED BY <1>17, <1>18, <2>1, Zenon
<1>21. Len(kept \o x) = OpOutputLen(o) + n
  BY <1>12, <1>18, <1>19
<1> QED BY <1>19, <1>20, <1>21 DEF Stands, a1, a2

\* After any beginning that inserts nothing, by induction over its length.
LEMMA InsertionsStand ==
  ASSUME NEW c, NEW o1, NEW t1, NEW o2, NEW t2, InsertAfter(c, o1, t1, o2, t2),
         NEW s \in Text, BothApply(s, Both(c, o1, t1, o2, t2))
  PROVE  Stands(Merged(s, Both(c, o1, t1, o2, t2)), OutputLength(c), o1.text \o o2.text)
<1> DEFINE b == o1.text \o o2.text
           Law(d) == \A t \in Text : BothApply(t, Both(d, o1, t1, o2, t2)) =>
                       Stands(Merged(t, Both(d, o1, t1, o2, t2)), OutputLength(d), b)
           S == {n \in Nat : \A d \in Operations :
                   Len(d) = n /\ (\A i \in DOMAIN d : ~IsInsert(d[i])) => Law(d)}
<1>1. /\ o1 \in CompoundOp /\ IsInsert(o1) /\ t1 \in Operations /\ ~Inserts(t1)
      /\ o2 \in CompoundOp /\ IsInsert(o2) /\ t2 \in Operations
  BY DEF InsertAfter
<1> DEFINE r1 == <<o1>> \o t1
           r2 == <<o2>> \o t2
<1>2. r1 \in Operations /\ r2 \in Operations /\ b \in Text
  BY <1>1, HeadOfOne, Sizes, ConcatProperties DEF Text
<1>3. Law(<<>>)
  <2> SUFFICES ASSUME NEW t \in Text, BothApply(t, Both(<<>>, o1, t1, o2, t2))
               PROVE  Stands(Merged(t, Both(<<>>, o1, t1, o2, t2)), OutputLength(<<>>), b)
    OBVIOUS
  <2>1. Both(<<>>, o1, t1, o2, t2) = <<r1, r2>>
    BY <1>2, ConcatEmptySeq DEF Both, Operations
  <2> HIDE DEF b
  <2>2. BothApply(t, <<r1, r2>>)
    BY <2>1
  <2>3. Stands(Merged(t, <<r1, r2>>), 0, b)
    BY <1>1, <2>2, FirstInsertions DEF b
  <2> QED BY <2>1, <2>3, OutputLengthEmpty, Zenon
<1>4. 0 \in S
  <2> SUFFICES ASSUME NEW d \in Operations, Len(d) = 0 PROVE Law(d)
    OBVIOUS
  <2>1. d = <<>>
    BY DEF Operations
  <2> HIDE DEF Law
  <2> QED BY <1>3, <2>1
<1>5. ASSUME NEW n \in Nat, n \in S PROVE n+1 \in S
  <2> SUFFICES ASSUME NEW d \in Operations, Len(d) = n+1, \A i \in DOMAIN d : ~IsInsert(d[i]),
                      NEW t \in Text, BothApply(t, Both(d, o1, t1, o2, t2))
               PROVE  Stands(Merged(t, Both(d, o1, t1, o2, t2)), OutputLength(d), b)
    OBVIOUS
  <2> DEFINE o == Head(d)
             e == Tail(d)
  <2>1. /\ o \in CompoundOp /\ e \in Operations /\ d = <<o>> \o e /\ Len(e) = n /\ <<o>> \in Operations
        /\ OutputLength(d) = OpOutputLen(o) + OutputLength(e)
    <3>1. d # <<>>
      BY DEF Operations
    <3> QED BY <3>1, FirstOperation, OutputFirst
  <2>2. ~IsInsert(o) /\ \A i \in DOMAIN e : ~IsInsert(e[i])
    <3>1. 1 \in DOMAIN d /\ o = d[1] /\ \A i \in DOMAIN e : i+1 \in DOMAIN d /\ e[i] = d[i+1]
      BY DEF Operations
    <3> QED BY <3>1
  <2> HIDE DEF o, e
  <2>3. Law(e)
    BY <1>5, <2>1, <2>2
  <2> DEFINE q1 == e \o r1
             q2 == e \o r2
  <2>4. q1 \in Operations /\ q2 \in Operations /\ Both(e, o1, t1, o2, t2) = <<q1, q2>>
    BY <1>2, <2>1, ConcatProperties DEF Both, Operations
  <2>5. Both(d, o1, t1, o2, t2) = <<<<o>> \o q1, <<o>> \o q2>>
    <3>1. (<<o>> \o e) \o r1 = <<o>> \o q1 /\ (<<o>> \o e) \o r2 = <<o>> \o q2
      BY <1>2, <2>1, ConcatAssociative DEF Operations
    <3> QED BY <2>1, <3>1 DEF Both
  <2> HIDE DEF q1, q2, r1, r2, b
  <2>6. \A v \in Text : BothApply(v, <<q1, q2>>) => Stands(Merged(v, <<q1, q2>>), OutputLength(e), b)
    BY <2>3, <2>4
  <2>7. BothApply(t, <<<<o>> \o q1, <<o>> \o q2>>) /\ OutputLength(e) \in Nat
    BY <2>1, <2>5, OutputLengthType
  <2>8. Stands(Merged(t, <<<<o>> \o q1, <<o>> \o q2>>), OpOutputLen(o) + OutputLength(e), b)
    BY <1>2, <2>1, <2>2, <2>4, <2>6, <2>7, LaterInsertions
  <2> QED BY <2>1, <2>5, <2>8
<1>6. Nat \subseteq S
  <2> HIDE DEF S
  <2> QED BY <1>4, <1>5, Induction
<1>7. c \in Operations /\ (\A i \in DOMAIN c : ~IsInsert(c[i])) /\ Len(c) \in Nat
  BY DEF InsertAfter, Operations
<1>8. Law(c)
  <2> HIDE DEF Law
  <2> QED BY <1>6, <1>7
<1> QED BY <1>8

\* When two operations of any size insert at one place, both documents have the
\* text of the first operation first, the one the server has applied: transform's
\* rule for concurrent insertions.
THEOREM InsertionOrder ==
  ASSUME NEW c, NEW o1, NEW t1, NEW o2, NEW t2, InsertAfter(c, o1, t1, o2, t2),
         NEW s \in Text, NEW ops1, NEW ops2,
         ops1 = c \o (<<o1>> \o t1), ops2 = c \o (<<o2>> \o t2),
         CanApply(s, ops1), CanApply(s, ops2)
  PROVE  Stands(TextApply(TextApply(s, ops1), TextTransform(ops1, ops2)[2]),
                OutputLength(c), o1.text \o o2.text)
<1> DEFINE p == <<ops1, ops2>>
           w == TransformOps[p]
           x == TextApply(s, ops1)
<1>1. p = Both(c, o1, t1, o2, t2) /\ BothApply(s, p)
  BY DEF Both, BothApply, CanApply
<1>2. ops1 \in Operations /\ ops2 \in Operations
  <2>1. <<o1>> \o t1 \in Operations /\ <<o2>> \o t2 \in Operations /\ c \in Operations
    BY HeadOfOne DEF InsertAfter
  <2> QED BY <2>1, ConcatProperties DEF Operations
<1>3. Stands(Merged(s, p), OutputLength(c), o1.text \o o2.text)
  <2> HIDE DEF p
  <2> QED BY <1>1, InsertionsStand
<1>4. Converges(s, p, w)
  BY <1>1, <1>2, PairType, WalkConverges
<1>5. x \in Text /\ w[2] \in Operations /\ InputLength(w[2]) = Len(x) /\ InputLength(w[2]) <= Len(x)
  <2>1. InputLength(ops1) <= Len(s)
    BY <1>2, InputLengthType DEF CanApply
  <2>2. x \in Text
    BY <1>2, <2>1, ApplyType
  <2>3. w[2] \in Operations /\ InputLength(w[2]) = Len(x)
    <3> HIDE DEF w
    <3> QED BY <1>4 DEF Converges, Meet
  <2> HIDE DEF w, x
  <2> QED BY <2>2, <2>3, InputLengthType
<1>6. TextTransform(ops1, ops2)[2] = Condense(w[2])
  BY DEF TextTransform
<1>7. Merged(s, p) = TextApply(x, w[2])
  BY DEF Merged
<1> HIDE DEF w, x, p
<1>8. TextApply(x, Condense(w[2])) = TextApply(x, w[2])
  BY <1>5, CondenseSame DEF Equivalent
<1>9. Stands(TextApply(x, TextTransform(ops1, ops2)[2]), OutputLength(c), o1.text \o o2.text)
  BY <1>3, <1>6, <1>7, <1>8, Zenon
<1> QED BY <1>9 DEF x

LEMMA StandsThere ==
  ASSUME NEW m, NEW n \in Nat, NEW u \in Text, Stands(m, n, u)
  PROVE  SubSeq(m, n + 1, n + Len(u)) = u
<1>1. PICK x \in Text, z \in Text : m = x \o (u \o z) /\ Len(x) = n
  BY DEF Stands
<1>2. x \in Seq(Alphabet) /\ u \in Seq(Alphabet) /\ z \in Seq(Alphabet) /\ Len(u) \in Nat
  BY DEF Text
<1> DEFINE v == SubSeq(x \o (u \o z), n + 1, n + Len(u))
<1>3. v \in Seq(Alphabet) /\ Len(v) = Len(u) /\ \A i \in 1..Len(u) : v[i] = u[i]
  BY <1>1, <1>2, SMTT(20)
<1> HIDE DEF v
<1>4. v = u
  BY <1>2, <1>3, SeqEqual
<1> QED BY <1>1, <1>4 DEF v

LEMMA PartsOfConcat ==
  ASSUME NEW c \in Operations, NEW d \in Operations
  PROVE  /\ c \o d \in Seq(CompoundOp) /\ Len(c \o d) = Len(c) + Len(d)
         /\ \A j \in 1..Len(c) : (c \o d)[j] = c[j]
         /\ \A j \in 1..Len(d) : (c \o d)[Len(c) + j] = d[j]
  BY DEF Operations

LEMMA PartsOfCons ==
  ASSUME NEW T, NEW e \in T, NEW d \in Seq(T)
  PROVE  /\ <<e>> \o d \in Seq(T) /\ Len(<<e>> \o d) = 1 + Len(d) /\ (<<e>> \o d)[1] = e
         /\ \A j \in 1..Len(d) : (<<e>> \o d)[1 + j] = d[j]
  OBVIOUS

\* A sequence of operations is what comes before the one at i, that one, and what
\* comes after it.
LEMMA Around ==
  ASSUME NEW q \in Operations, NEW i \in 1..Len(q)
  PROVE  LET c == SubSeq(q, 1, i-1)
             t == SubSeq(q, i+1, Len(q))
         IN  /\ c \in Operations /\ Len(c) = i-1 /\ \A j \in 1..(i-1) : c[j] = q[j]
             /\ t \in Operations /\ q[i] \in CompoundOp /\ q = c \o (<<q[i]>> \o t)
             /\ t # <<>> => i+1 \in 1..Len(q) /\ Head(t) = q[i+1]
<1> DEFINE c == SubSeq(q, 1, i-1)
           t == SubSeq(q, i+1, Len(q))
           r == c \o (<<q[i]>> \o t)
<1>1. /\ Len(q) \in Nat /\ i \in 1..Len(q) /\ \A j \in 1..Len(q) : q[j] \in CompoundOp
  BY DEF Operations
<1>2. c \in Seq(CompoundOp) /\ Len(c) = i-1 /\ \A j \in 1..(i-1) : c[j] = q[j]
  BY <1>1 DEF Operations
<1>3. t \in Seq(CompoundOp) /\ Len(t) = Len(q) - i /\ \A j \in 1..(Len(q) - i) : t[j] = q[i+j]
  BY <1>1 DEF Operations
<1> HIDE DEF c, t
<1>4. t # <<>> => i+1 \in 1..Len(q) /\ Head(t) = q[i+1]
  <2> SUFFICES ASSUME t # <<>> PROVE i+1 \in 1..Len(q) /\ Head(t) = q[i+1]
    OBVIOUS
  <2>1. Len(t) # 0 /\ Head(t) = t[1]
    BY <1>3
  <2>2. 1 \in 1..(Len(q) - i) /\ i+1 \in 1..Len(q)
    BY <1>1, <1>3, <2>1
  <2> QED BY <1>3, <2>1, <2>2 DEF Operations
<1> DEFINE d == <<q[i]>> \o t
<1>5. d \in Seq(CompoundOp) /\ Len(d) = 1 + (Len(q) - i) /\ d[1] = q[i]
      /\ \A j \in 1..(Len(q) - i) : d[1 + j] = t[j]
  <2> HIDE DEF r
  <2>1. q[i] \in CompoundOp /\ t \in Seq(CompoundOp)
    BY <1>1, <1>3
  <2>2. /\ d \in Seq(CompoundOp) /\ Len(d) = 1 + Len(t) /\ d[1] = q[i]
        /\ \A j \in 1..Len(t) : d[1 + j] = t[j]
    BY <2>1, PartsOfCons
  <2> QED BY <1>3, <2>2, Zenon
<1> HIDE DEF d
<1>7. /\ c \o d \in Seq(CompoundOp) /\ Len(c \o d) = Len(q)
      /\ \A j \in 1..(i-1) : (c \o d)[j] = c[j]
      /\ \A j \in 1..(1 + (Len(q) - i)) : (c \o d)[(i-1) + j] = d[j]
  <2>1. /\ c \o d \in Seq(CompoundOp) /\ Len(c \o d) = Len(c) + Len(d)
        /\ \A j \in 1..Len(c) : (c \o d)[j] = c[j]
        /\ \A j \in 1..Len(d) : (c \o d)[Len(c) + j] = d[j]
    <3>1. c \in Operations /\ d \in Operations
      BY <1>2, <1>5 DEF Operations
    <3> HIDE DEF r
    <3> QED BY <3>1, PartsOfConcat
  <2>2. Len(c) + Len(d) = Len(q)
    <3> HIDE DEF r
    <3> QED BY <1>1, <1>2, <1>5
  <2> QED BY <1>2, <1>5, <2>1, <2>2
<1>8. ASSUME NEW j \in 1..Len(q) PROVE r[j] = q[j]
  <2>1. CASE j < i
    <3>1. j \in 1..(i-1)
      BY <1>1, <2>1
    <3> QED BY <1>2, <1>7, <3>1 DEF d
  <2>2. CASE j = i
    <3>1. 1 \in 1..(1 + (Len(q) - i)) /\ (i-1) + 1 = j
      BY <1>1, <2>2
    <3> QED BY <1>5, <1>7, <2>2, <3>1 DEF d
  <2>3. CASE i < j
    <3> DEFINE k == j - i
    <3>1. k \in 1..(Len(q) - i) /\ 1+k \in 1..(1 + (Len(q) - i)) /\ (i-1) + (1+k) = j /\ i+k = j
      BY <1>1, <2>3
    <3> HIDE DEF k
    <3>2. (c \o d)[(i-1) + (1+k)] = d[1+k] /\ d[1+k] = t[k] /\ t[k] = q[i+k]
      BY <1>3, <1>5, <1>7, <3>1
    <3> QED BY <3>1, <3>2 DEF d
  <2> HIDE DEF r
  <2> QED BY <1>1, <2>1, <2>2, <2>3
<1>9. r \in Seq(CompoundOp) /\ Len(r) = Len(q)
  BY <1>7 DEF d
<1> HIDE DEF r
<1>6. r = q
  BY <1>8, <1>9, SeqEqual DEF Operations
<1> QED BY <1>1, <1>2, <1>3, <1>4, <1>6 DEF Operations, c, t, r

-----------------------------------------------------------------------------
(* Where an operation leaves a cursor                                      *)

\* What a sequence of operations reads is the sum up to its last.
LEMMA PrefixLength ==
  ASSUME NEW q \in Operations, NEW g, IsInputSum(g, q), NEW n \in 0..Len(q)
  PROVE  InputLength(SubSeq(q, 1, n)) = g[n]
<1> DEFINE d == SubSeq(q, 1, n)
<1>1. d \in Operations /\ Len(d) = n /\ n \in Nat /\ \A i \in 1..n : d[i] = q[i]
  BY DEF Operations
<1> HIDE DEF d
<1>2. PICK f : IsInputSum(f, d) /\ InputLength(d) = f[Len(d)]
  BY <1>1, InputSum
<1>3. f[0] = 0 /\ \A i \in 1..n : f[i] = f[i-1] + ExpectedInputSize(q[i])
  BY <1>1, <1>2, InputSumStep
<1>4. g[0] = 0 /\ \A i \in 1..n : g[i] = g[i-1] + ExpectedInputSize(q[i])
  <2>1. g[0] = 0 /\ \A i \in 1..Len(q) : g[i] = g[i-1] + ExpectedInputSize(q[i])
    BY InputSumStep
  <2>2. \A i \in 1..n : i \in 1..Len(q)
    BY <1>1 DEF Operations
  <2> QED BY <2>1, <2>2
<1>5. SameValues(f, g, n)
  BY <1>1, <1>3, <1>4, Alike DEF SameSteps
<1> QED BY <1>1, <1>2, <1>5 DEF SameValues, d

\* What o writes in Traced once r characters have been read.
Traces(o, r) == CASE IsInsert(o)        -> [k \in 1..Width(o) |-> 2 * r + 1]
                  [] o.kind = "Delete" -> <<>>
                  [] o.kind = "Retain" -> [k \in 1..o.count |-> 2 * (r + k)]

LEMMA TracesType ==
  ASSUME NEW o \in CompoundOp, NEW r \in Nat
  PROVE  /\ Traces(o, r) \in Seq(Nat) /\ Len(Traces(o, r)) = IF o.kind = "Delete" THEN 0 ELSE Width(o)
         /\ IsInsert(o) => \A k \in 1..Width(o) : Traces(o, r)[k] = 2 * r + 1
         /\ o.kind = "Retain" => \A k \in 1..Width(o) : Traces(o, r)[k] = 2 * (r + k)
<1>1. Width(o) \in Nat \ {0}
  BY Sizes
<1>2. CASE IsInsert(o)
  <2>1. Traces(o, r) = [k \in 1..Width(o) |-> 2 * r + 1] /\ o.kind # "Delete" /\ o.kind # "Retain"
    BY <1>2 DEF Traces, IsInsert
  <2> QED BY <1>1, <1>2, <2>1
<1>3. CASE o.kind = "Delete"
  BY <1>3, EmptySeq DEF Traces, IsInsert
<1>4. CASE o.kind = "Retain"
  <2>1. Traces(o, r) = [k \in 1..Width(o) |-> 2 * (r + k)] /\ ~IsInsert(o)
    BY <1>4, Sizes DEF Traces, IsInsert
  <2> QED BY <1>1, <1>4, <2>1
<1> QED BY <1>2, <1>3, <1>4, Sizes

\* The fold of Traced: g sums what is read.
IsTraced(h, q, g) ==
  h[0] = <<>> /\ \A n \in 1..Len(q) : h[n] = h[n-1] \o Traces(q[n], g[n-1])

\* The operations of Traced.
Marked(q) == [n \in DOMAIN q |->
                IF IsInsert(q[n])
                  THEN Insert([k \in DOMAIN q[n].text |-> 2 * InputLength(SubSeq(q, 1, n-1)) + 1])
                  ELSE q[n]]

Places == [i \in DOMAIN text |-> 2 * i]

LEMMA MarkedOne ==
  ASSUME text \in Text, NEW q \in Operations, NEW g, IsInputSum(g, q), NEW n \in 1..Len(q),
         g[n-1] \in Nat, g[n] <= Len(text), g[n] = g[n-1] + ExpectedInputSize(q[n])
  PROVE  /\ ExpectedInputSize(Marked(q)[n]) = ExpectedInputSize(q[n])
         /\ Written(Places, g[n-1], Marked(q)[n]) = Traces(q[n], g[n-1])
<1> DEFINE o == q[n]
           m == Marked(q)[n]
           r == g[n-1]
<1>1. o \in CompoundOp /\ Len(text) \in Nat /\ n-1 \in 0..Len(q) /\ n \in DOMAIN q
  BY DEF Operations, Text
<1>2. InputLength(SubSeq(q, 1, n-1)) = r
  BY <1>1, PrefixLength
<1>3. m = IF IsInsert(o) THEN Insert([k \in DOMAIN o.text |-> 2 * r + 1]) ELSE o
  BY <1>1, <1>2 DEF Marked
<1> HIDE DEF o, m, r
<1>4. CASE IsInsert(o)
  <2> DEFINE t == [k \in DOMAIN o.text |-> 2 * r + 1]
  <2>1. m = [kind |-> "Insert", text |-> t]
    BY <1>3, <1>4 DEF Insert
  <2>2. DOMAIN o.text = 1..Width(o)
    BY <1>1, <1>4, Sizes DEF Width, Text
  <2>3. t = Traces(o, r)
    <3>1. Traces(o, r) = [k \in 1..Width(o) |-> 2 * r + 1]
      BY <1>4 DEF Traces, IsInsert
    <3> QED BY <2>2, <3>1, Zenon
  <2> HIDE DEF t
  <2> QED BY <1>4, <2>1, <2>3 DEF ExpectedInputSize, Written, IsInsert, o, m, r
<1>5. CASE o.kind = "Delete"
  BY <1>3, <1>5 DEF Written, Traces, IsInsert, o, m, r
<1>6. CASE o.kind = "Retain"
  <2>1. m = o /\ Traces(o, r) = [k \in 1..o.count |-> 2 * (r + k)]
        /\ Written(Places, r, m) = SubSeq(Places, r + 1, r + o.count)
    BY <1>3, <1>6 DEF Written, Traces, IsInsert
  <2>2. o.count \in Nat \ {0} /\ r \in Nat /\ r + o.count <= Len(text)
    BY <1>1, <1>6, Sizes DEF IsInsert, o, r
  <2>3. Places \in Seq(Nat) /\ Len(Places) = Len(text) /\ \A i \in 1..Len(text) : Places[i] = 2 * i
    BY DEF Places, Text
  <2> DEFINE a == SubSeq(Places, r + 1, r + o.count)
             b == [k \in 1..o.count |-> 2 * (r + k)]
  <2>4. a \in Seq(Nat) /\ Len(a) = o.count /\ \A k \in 1..o.count : a[k] = 2 * (r + k)
    <3> HIDE DEF Places
    <3>1. ASSUME NEW i \in (r + 1)..(r + o.count) PROVE Places[i] \in Nat /\ Places[i] = 2 * i
      <4> HIDE DEF o, r
      <4>1. Len(text) \in Nat /\ i \in Nat
        BY <2>2, LenProperties DEF Text
      <4>2. i \in 1..Len(text)
        BY <2>2, <4>1
      <4>3. Places[i] = 2 * i
        BY <2>3, <4>2
      <4> QED BY <4>1, <4>3
    <3>2. /\ a \in Seq(Nat) /\ Len(a) = IF r + 1 <= r + o.count THEN (r + o.count) - (r + 1) + 1 ELSE 0
          /\ \A k \in 1..((r + o.count) - (r + 1) + 1) : a[k] = Places[(r + 1) + k - 1]
      BY <2>2, <3>1, SubSeqProperties
    <3> HIDE DEF a
    <3>3. ASSUME NEW k \in 1..o.count PROVE a[k] = 2 * (r + k)
      <4>1. /\ k \in 1..((r + o.count) - (r + 1) + 1) /\ (r + 1) + k - 1 = r + k
            /\ r + k \in (r + 1)..(r + o.count)
        BY <2>2
      <4> QED BY <3>1, <3>2, <4>1
    <3> QED BY <2>2, <3>2, <3>3
  <2>5. b \in Seq(Nat) /\ Len(b) = o.count /\ \A k \in 1..o.count : b[k] = 2 * (r + k)
    BY <2>2
  <2> HIDE DEF a, b
  <2>6. a = b
    BY <2>4, <2>5, SeqEqual
  <2> QED BY <2>1, <2>6 DEF a, b, o, m, r
<1> QED BY <1>1, <1>4, <1>5, <1>6, Sizes DEF o

\* Traced goes from one operation to the next.
LEMMA TracedSteps ==
  ASSUME text \in Text, NEW q \in Operations, InputLength(q) = Len(text), NEW g, IsInputSum(g, q),
         InputLength(q) = g[Len(q)]
  PROVE  \E h : IsTraced(h, q, g) /\ Traced(q) = h[Len(q)]
<1>1. /\ Len(q) \in Nat /\ Len(text) \in Nat
      /\ \A n \in 1..Len(q) : q[n] \in CompoundOp /\ ExpectedInputSize(q[n]) \in Nat
  <2>1. Len(q) \in Nat /\ \A n \in 1..Len(q) : q[n] \in CompoundOp
    BY DEF Operations
  <2>2. Len(text) \in Nat
    BY InputLengthType
  <2> QED BY <2>1, <2>2, Sizes
<1>2. g[0] = 0 /\ \A n \in 1..Len(q) : g[n] = g[n-1] + ExpectedInputSize(q[n])
  BY InputSumStep
<1>3. \A n \in 0..Len(q) : g[n] \in Nat /\ g[n] <= Len(text)
  BY SumsGrow
<1> DEFINE M == Marked(q)
           w(n) == Traces(q[n], g[n-1])
           V == Seq(Nat)
           step == [n \in 1..Len(q) |-> [y \in V |-> y \o w(n)]]
<1>4. ASSUME NEW n \in 1..Len(q)
      PROVE  /\ w(n) \in V /\ ExpectedInputSize(M[n]) = ExpectedInputSize(q[n])
             /\ Written(Places, g[n-1], M[n]) = w(n)
  <2>1. g[n-1] \in Nat /\ g[n] <= Len(text) /\ g[n] = g[n-1] + ExpectedInputSize(q[n])
        /\ q[n] \in CompoundOp
    BY <1>1, <1>2, <1>3
  <2>2. w(n) \in V
    BY <2>1, TracesType
  <2> QED BY <2>1, <2>2, MarkedOne
<1>5. step \in [1..Len(q) -> [V -> V]]
  <2>1. ASSUME NEW n \in 1..Len(q), NEW y \in V PROVE y \o w(n) \in V
    <3>1. w(n) \in Seq(Nat) /\ y \in Seq(Nat)
      BY <1>4
    <3> HIDE DEF w
    <3> QED BY <3>1, ConcatProperties
  <2> HIDE DEF V, w
  <2> QED BY <2>1
<1>6. PICK e : e \in Folds(Len(q), V, <<>>, step)
  <2>1. <<>> \in V
    BY EmptySeq
  <2> HIDE DEF V, step
  <2> QED BY <1>1, <1>5, <2>1, FoldExists
<1>7. e[0] = <<>> /\ \A n \in 1..Len(q) : e[n] = e[n-1] \o w(n)
  <2>1. e \in [0..Len(q) -> V] /\ e[0] = <<>> /\ \A n \in 1..Len(q) : e[n] = step[n][e[n-1]]
    <3> HIDE DEF V, step
    <3> QED BY <1>6 DEF Folds
  <2>2. ASSUME NEW n \in 1..Len(q) PROVE e[n] = e[n-1] \o w(n)
    <3>1. e[n-1] \in V
      <4> HIDE DEF V, step
      <4> QED BY <1>1, <2>1
    <3> HIDE DEF V, w
    <3> QED BY <2>1, <3>1
  <2> QED BY <2>1, <2>2
<1> HIDE DEF V, step
<1> DEFINE At(f, n) == IF n = 0 THEN [read |-> 0, out |-> <<>>]
                       ELSE [read |-> f[n-1].read + ExpectedInputSize(M[n]),
                             out  |-> f[n-1].out \o Written(Places, f[n-1].read, M[n])]
           f == [n \in 0..Len(q) |-> [read |-> g[n], out |-> e[n]]]
<1>8. f = [n \in 0..Len(q) |-> At(f, n)]
  <2>1. ASSUME NEW n \in 0..Len(q) PROVE [read |-> g[n], out |-> e[n]] = At(f, n)
    <3>1. CASE n = 0
      BY <1>2, <1>7, <3>1
    <3>2. CASE n # 0
      <4>1. n \in 1..Len(q) /\ n-1 \in 0..Len(q)
        BY <1>1, <3>2
      <4>2. f[n-1] = [read |-> g[n-1], out |-> e[n-1]]
        BY <4>1
      <4>3. f[n-1].read = g[n-1] /\ f[n-1].out = e[n-1]
        <5> HIDE DEF f
        <5> QED BY <4>2
      <4> HIDE DEF f, w, M
      <4>4. g[n] = f[n-1].read + ExpectedInputSize(M[n])
        BY <1>2, <1>4, <4>1, <4>3
      <4>5. e[n] = f[n-1].out \o Written(Places, f[n-1].read, M[n])
        BY <1>4, <1>7, <4>1, <4>3, Zenon
      <4> QED BY <3>2, <4>4, <4>5
    <3> QED BY <3>1, <3>2
  <2> HIDE DEF At
  <2> QED BY <2>1, Zenon
<1>9. Len(M) = Len(q)
  <2>1. DOMAIN M = 1..Len(q)
    BY SMTT(30) DEF Marked, Operations
  <2> HIDE DEF M
  <2> QED BY <1>1, <2>1
<1>10. \E a : a = [n \in 0..Len(M) |-> At(a, n)] /\ TextApply(Places, M) = a[Len(M)].out
  <2>1. \E a : a = [n \in 0..Len(M) |-> At(a, n)]
    <3> HIDE DEF At, f, M
    <3> QED BY <1>8, <1>9, Zenon
  <2> HIDE DEF M
  <2> QED BY <2>1 DEF TextApply, Written
<1>11. PICK a : a = [n \in 0..Len(q) |-> At(a, n)] /\ TextApply(Places, M) = a[Len(q)].out
  <2> HIDE DEF At, M
  <2> QED BY <1>9, <1>10, Zenon
<1>12. a[0] = [read |-> 0, out |-> <<>>] /\ \A n \in 1..Len(q) : a[n] = At(a, n)
  <2>1. \A n \in 0..Len(q) : a[n] = At(a, n)
    <3> HIDE DEF At
    <3> QED BY <1>11, Zenon
  <2>2. 0 \in 0..Len(q) /\ \A n \in 1..Len(q) : n \in 0..Len(q)
    BY <1>1
  <2> QED BY <2>1, <2>2
<1> DEFINE h == [n \in 0..Len(q) |-> a[n].out]
           S == {n \in Nat : n <= Len(q) => a[n].read = g[n]}
<1>13. ASSUME NEW n \in 1..Len(q), a[n-1].read = g[n-1]
       PROVE  a[n].read = g[n] /\ a[n].out = a[n-1].out \o w(n)
  <2>1. a[n] = [read |-> a[n-1].read + ExpectedInputSize(M[n]),
                out  |-> a[n-1].out \o Written(Places, a[n-1].read, M[n])]
    <3>1. n # 0
      BY <1>1
    <3>2. a[n] = At(a, n)
      <4> HIDE DEF At
      <4> QED BY <1>12
    <3> QED BY <3>1, <3>2, Zenon
  <2>2. /\ ExpectedInputSize(M[n]) = ExpectedInputSize(q[n])
        /\ Written(Places, a[n-1].read, M[n]) = w(n)
    BY <1>4, <1>13
  <2> HIDE DEF M, w
  <2> QED BY <1>2, <1>13, <2>1, <2>2
<1>14. 0 \in S
  BY <1>2, <1>12
<1>15. ASSUME NEW n \in Nat, n \in S PROVE n+1 \in S
  <2> SUFFICES ASSUME n+1 <= Len(q) PROVE a[n+1].read = g[n+1]
    OBVIOUS
  <2>1. n+1 \in 1..Len(q) /\ (n+1)-1 = n /\ a[n].read = g[n]
    BY <1>1, <1>15
  <2> QED BY <1>13, <2>1
<1>16. Nat \subseteq S
  <2> HIDE DEF S
  <2> QED BY <1>14, <1>15, Induction
<1>17. IsTraced(h, q, g)
  <2>1. h[0] = <<>>
    BY <1>1, <1>12
  <2>2. ASSUME NEW n \in 1..Len(q) PROVE h[n] = h[n-1] \o w(n)
    <3>1. n \in 0..Len(q) /\ n-1 \in 0..Len(q) /\ n-1 \in Nat /\ n-1 <= Len(q)
      BY <1>1
    <3>2. h[n] = a[n].out /\ h[n-1] = a[n-1].out
      BY <3>1
    <3>3. a[n-1].read = g[n-1]
      BY <1>16, <3>1
    <3> HIDE DEF h, w
    <3> QED BY <1>13, <3>2, <3>3
  <2> HIDE DEF h
  <2> QED BY <2>1, <2>2 DEF IsTraced
<1>18. Traced(q) = h[Len(q)]
  <2>1. Traced(q) = TextApply(Places, M)
    BY DEF Traced, Places, Marked
  <2> QED BY <1>1, <1>11, <2>1
<1> QED BY <1>17, <1>18

Ranges == [from : Int, to : Int, highlight : Int]

\* Characters between place idx and place e after it.
Ahead(e, idx) == IF idx < e THEN e - idx ELSE 0

\* How far o at place idx moves the end e of a range, when an insertion there is
\* before the end as long as it is traced to b at most.
Moved(e, b, idx, o) ==
  CASE IsInsert(o)        -> IF 2 * idx + 1 <= b THEN Width(o) ELSE 0
    [] o.kind = "Retain" -> 0
    [] o.kind = "Delete" -> 0 - Least(Width(o), Ahead(e, idx))

\* The last trace before the end of c.
Last(c) == IF c.from < c.to THEN 2 * c.to ELSE 2 * c.from + 1

\* What Shift does to the two ends, as long as it knows what is highlighted.
LEMMA ShiftMoves ==
  ASSUME NEW r \in Ranges, NEW c, c.from \in Nat, c.to \in Nat, c.from <= c.to,
         NEW idx \in Nat, NEW o \in CompoundOp
  PROVE  /\ Shift(r, c, idx, o) \in Ranges
         /\ Shift(r, c, idx, o).from = r.from + Moved(c.from, 2 * c.from + 1, idx, o)
         /\ Shift(r, c, idx, o).to = r.to + Moved(c.to, Last(c), idx, o)
         /\ r.highlight = r.to - r.from /\ (idx <= c.from => r.to - r.from = c.to - c.from)
              => Shift(r, c, idx, o).highlight = Shift(r, c, idx, o).to - Shift(r, c, idx, o).from
<1> DEFINE x == Shift(r, c, idx, o)
           a == r.from
           b == r.to
           l == r.highlight
           i == c.from
           j == c.to
           w == Width(o)
           m1 == Moved(c.from, 2 * c.from + 1, idx, o)
           m2 == Moved(c.to, Last(c), idx, o)
<1>1. /\ a \in Int /\ b \in Int /\ l \in Int /\ i \in Nat /\ j \in Nat /\ i <= j /\ w \in Nat \ {0}
      /\ r = [from |-> a, to |-> b, highlight |-> l]
  BY Sizes DEF Ranges
<1>2. CASE IsInsert(o)
  <2>1. o.kind # "Retain" /\ o.kind # "Delete"
    BY <1>2 DEF IsInsert
  <2>2. /\ m1 = IF 2 * idx + 1 <= 2 * i + 1 THEN w ELSE 0
        /\ m2 = IF 2 * idx + 1 <= (IF i < j THEN 2 * j ELSE 2 * i + 1) THEN w ELSE 0
    BY <1>2, <2>1 DEF Moved, Last
  <2>3. CASE idx <= i
    <3>1. x = [r EXCEPT !.from = @ + w, !.to = @ + w]
      BY <1>2, <2>1, <2>3, <1>1 DEF Shift, Before, Inside
    <3>2. x = [from |-> a + w, to |-> b + w, highlight |-> l]
      <4> HIDE DEF x, w
      <4> QED BY <1>1, <3>1
    <3>3. m1 = w /\ m2 = w
      <4> HIDE DEF m1, m2, w, i, j
      <4> QED BY <1>1, <2>2, <2>3
    <3> HIDE DEF x, w, m1, m2, i, j
    <3>4. /\ x \in Ranges /\ x.from = a + m1 /\ x.to = b + m2
          /\ l = b - a => x.highlight = x.to - x.from
      BY <1>1, <3>2, <3>3 DEF Ranges
    <3> QED BY <3>4 DEF x, m1, m2
  <2>4. CASE i < idx /\ idx < j
    <3>1. x = [r EXCEPT !.to = @ + w, !.highlight = @ + w]
      BY <1>1, <1>2, <2>1, <2>4 DEF Shift, Before, Inside
    <3>2. x = [from |-> a, to |-> b + w, highlight |-> l + w]
      <4> HIDE DEF x, w
      <4> QED BY <1>1, <3>1
    <3>3. m1 = 0 /\ m2 = w
      <4> HIDE DEF m1, m2, w, i, j
      <4> QED BY <1>1, <2>2, <2>4
    <3> HIDE DEF x, w, m1, m2, i, j
    <3>4. /\ x \in Ranges /\ x.from = a + m1 /\ x.to = b + m2
          /\ l = b - a => x.highlight = x.to - x.from
      BY <1>1, <3>2, <3>3 DEF Ranges
    <3> QED BY <3>4 DEF x, m1, m2
  <2>5. CASE i < idx /\ j <= idx
    <3>1. x = r
      BY <1>1, <1>2, <2>1, <2>5 DEF Shift, Before, Inside
    <3>3. m1 = 0 /\ m2 = 0
      <4> HIDE DEF m1, m2, w, i, j
      <4> QED BY <1>1, <2>2, <2>5
    <3> HIDE DEF x, w, m1, m2, i, j
    <3>4. /\ x \in Ranges /\ x.from = a + m1 /\ x.to = b + m2
          /\ l = b - a => x.highlight = x.to - x.from
      BY <1>1, <3>1, <3>3 DEF Ranges
    <3> QED BY <3>4 DEF x, m1, m2
  <2> QED BY <1>1, <2>3, <2>4, <2>5
<1>3. CASE o.kind = "Retain"
  <2>1. x = r /\ m1 = 0 /\ m2 = 0
    BY <1>3 DEF Shift, Moved, IsInsert
  <2> HIDE DEF x, w, m1, m2, i, j
  <2>2. /\ x \in Ranges /\ x.from = a + m1 /\ x.to = b + m2
        /\ l = b - a => x.highlight = x.to - x.from
    BY <1>1, <2>1
  <2> QED BY <2>2 DEF x, m1, m2
<1>4. CASE o.kind = "Delete"
  <2>1. ~IsInsert(o) /\ w = o.count
    BY <1>4 DEF IsInsert, Width
  <2>2. m1 = 0 - Least(w, Ahead(i, idx)) /\ m2 = 0 - Least(w, Ahead(j, idx))
    BY <1>4, <2>1 DEF Moved
  <2>3. CASE idx <= i
    <3>1. x = [from      |-> a - Least(w, i - idx),
               to        |-> b - Least(w, j - idx),
               highlight |-> IF i <= idx + w THEN l - Least(l, idx + w - i) ELSE l]
      BY <1>4, <2>1, <2>3 DEF Shift
    <3> HIDE DEF x, w, m1, m2, i, j
    <3>2. Ahead(i, idx) = i - idx /\ Ahead(j, idx) = j - idx
      BY <1>1, <2>3 DEF Ahead
    <3>3. Least(w, i - idx) \in Int /\ Least(w, j - idx) \in Int /\ Least(l, idx + w - i) \in Int
      BY <1>1 DEF Least
    <3>4. /\ m1 = 0 - Least(w, i - idx) /\ m2 = 0 - Least(w, j - idx)
      BY <2>2, <3>2
    <3>5. x \in Ranges /\ x.from = a + m1 /\ x.to = b + m2
      <4> DEFINE z == IF i <= idx + w THEN l - Least(l, idx + w - i) ELSE l
      <4>1. z \in Int
        BY <1>1, <3>3
      <4> HIDE DEF z
      <4>2. x = [from |-> a - Least(w, i - idx), to |-> b - Least(w, j - idx), highlight |-> z]
        BY <3>1 DEF z
      <4> QED BY <1>1, <3>3, <3>4, <4>1, <4>2 DEF Ranges
    <3>6. ASSUME l = b - a, b - a = j - i PROVE x.highlight = x.to - x.from
      <4>1. x.highlight = IF i <= idx + w THEN l - Least(l, idx + w - i) ELSE l
        BY <3>1
      <4>2. x.from = a - Least(w, i - idx) /\ x.to = b - Least(w, j - idx)
        BY <3>1
      <4>3. CASE i <= idx + w
        <5>1. Least(w, i - idx) = i - idx
          BY <1>1, <2>3, <4>3 DEF Least
        <5>2. Least(w, j - idx) = Least(l, idx + w - i) + (i - idx)
          BY <1>1, <2>3, <3>6, <4>3 DEF Least
        <5> QED BY <1>1, <3>3, <3>6, <4>1, <4>2, <4>3, <5>1, <5>2
      <4>4. CASE ~(i <= idx + w)
        <5>1. Least(w, i - idx) = w /\ Least(w, j - idx) = w
          BY <1>1, <2>3, <4>4 DEF Least
        <5> QED BY <1>1, <3>6, <4>1, <4>2, <4>4, <5>1
      <4> QED BY <4>3, <4>4
    <3> QED BY <2>3, <3>5, <3>6 DEF x, m1, m2, i, j
  <2>4. CASE i < idx /\ idx <= j
    <3>1. x = [r EXCEPT !.to = @ - Least(w, j - idx), !.highlight = @ - Least(w, j - idx)]
      BY <1>1, <1>4, <2>1, <2>4 DEF Shift
    <3> HIDE DEF x, w, m1, m2, i, j
    <3>2. x = [from |-> a, to |-> b - Least(w, j - idx), highlight |-> l - Least(w, j - idx)]
      BY <1>1, <3>1
    <3>3. Ahead(i, idx) = 0 /\ Ahead(j, idx) = j - idx
      BY <1>1, <2>4 DEF Ahead
    <3>4. m1 = 0 /\ m2 = 0 - Least(w, j - idx) /\ Least(w, j - idx) \in Int
      BY <1>1, <2>2, <3>3 DEF Least
    <3>5. /\ x \in Ranges /\ x.from = a + m1 /\ x.to = b + m2
          /\ l = b - a => x.highlight = x.to - x.from
      BY <1>1, <3>2, <3>4 DEF Ranges
    <3> QED BY <3>5 DEF x, m1, m2
  <2>5. CASE j < idx
    <3>1. x = r
      BY <1>1, <1>4, <2>1, <2>5 DEF Shift
    <3> HIDE DEF x, w, m1, m2, i, j
    <3>2. Ahead(i, idx) = 0 /\ Ahead(j, idx) = 0
      BY <1>1, <2>5 DEF Ahead
    <3>3. m1 = 0 /\ m2 = 0
      BY <1>1, <2>2, <3>2 DEF Least
    <3>4. /\ x \in Ranges /\ x.from = a + m1 /\ x.to = b + m2
          /\ l = b - a => x.highlight = x.to - x.from
      BY <1>1, <3>1, <3>3 DEF Ranges
    <3> QED BY <3>4 DEF x, m1, m2
  <2> QED BY <1>1, <2>3, <2>4, <2>5
<1> QED BY <1>2, <1>3, <1>4, Sizes

\* A traced document of which idx characters have been read: e is the end of a range
\* that is at place x as long as nothing changes what follows.
EndAt(t, x, e, b, idx) ==
  /\ t \in Seq(Nat) /\ \A k \in 1..Len(t) : t[k] <= 2 * idx + 1
  /\ Divided(t, x - Ahead(e, idx), b)

ReadThen(idx, o) == idx + ExpectedInputSize(o)

\* How many traces more are before the end once o has been read.
Passed(e, b, idx, o) == Moved(e, b, idx, o) + Ahead(e, idx) - Ahead(e, ReadThen(idx, o))

\* What o writes is divided where it moves the end.
LEMMA TracesDivided ==
  ASSUME NEW o \in CompoundOp, NEW idx \in Nat, NEW e \in Nat, NEW b \in {2 * e, 2 * e + 1}
  PROVE  /\ Divided(Traces(o, idx), Passed(e, b, idx, o), b)
         /\ Passed(e, b, idx, o) > 0 => 2 * idx + 1 <= b
         /\ \A k \in 1..Len(Traces(o, idx)) : Traces(o, idx)[k] <= 2 * ReadThen(idx, o) + 1
<1> DEFINE d == ReadThen(idx, o)
           u == Traces(o, idx)
           w == Width(o)
           j == Passed(e, b, idx, o)
<1>1. /\ u \in Seq(Nat) /\ Len(u) = IF o.kind = "Delete" THEN 0 ELSE w
      /\ IsInsert(o) => \A k \in 1..w : u[k] = 2 * idx + 1
      /\ o.kind = "Retain" => \A k \in 1..w : u[k] = 2 * (idx + k)
      /\ w \in Nat \ {0} /\ b \in Nat
  <2>1. w \in Nat \ {0} /\ b \in Nat
    BY Sizes
  <2> HIDE DEF w
  <2> QED BY <2>1, TracesType DEF w
<1>2. ~IsInsert(o) => d = idx + w
  BY Sizes DEF ReadThen
<1>3. IsInsert(o) => d = idx
  BY Sizes DEF ReadThen
<1>7. j = Moved(e, b, idx, o) + Ahead(e, idx) - Ahead(e, d)
  BY DEF Passed
<1>4. CASE IsInsert(o)
  <2>1. o.kind # "Delete" /\ o.kind # "Retain"
    BY <1>4 DEF IsInsert
  <2>2. j = IF 2 * idx + 1 <= b THEN w ELSE 0
    <3>1. Moved(e, b, idx, o) = IF 2 * idx + 1 <= b THEN w ELSE 0
      BY <1>4, <2>1 DEF Moved
    <3>2. Ahead(e, d) = Ahead(e, idx) /\ Ahead(e, idx) \in Int
      BY <1>3, <1>4 DEF Ahead
    <3> HIDE DEF w, d, j
    <3> QED BY <1>1, <1>7, <3>1, <3>2
  <2> HIDE DEF u, w, j, d
  <2>3. Len(u) = w /\ \A k \in 1..w : u[k] = 2 * idx + 1
    BY <1>1, <1>4, <2>1
  <2>4. Divided(u, j, b) /\ (j > 0 => 2 * idx + 1 <= b)
    BY <1>1, <2>2, <2>3 DEF Divided
  <2>5. \A k \in 1..Len(u) : u[k] <= 2 * d + 1
    BY <1>3, <1>4, <2>3
  <2> QED BY <2>4, <2>5 DEF u, j, d
<1>5. CASE o.kind = "Delete"
  <2>1. ~IsInsert(o)
    BY <1>5 DEF IsInsert
  <2>2. j = 0
    <3>1. Moved(e, b, idx, o) = 0 - Least(w, Ahead(e, idx))
      BY <1>5, <2>1 DEF Moved
    <3> DEFINE a1 == Ahead(e, idx)
               a2 == Ahead(e, d)
    <3>2. a1 = (IF idx < e THEN e - idx ELSE 0) /\ a2 = (IF idx + w < e THEN e - (idx + w) ELSE 0)
      BY <1>2, <2>1 DEF Ahead
    <3> HIDE DEF w, d, a1, a2
    <3>3. Least(w, a1) = a1 - a2 /\ a1 \in Int /\ a2 \in Int
      BY <1>1, <3>2 DEF Least
    <3> HIDE DEF j
    <3> QED BY <1>7, <3>1, <3>3 DEF a1, a2
  <2> HIDE DEF u, w, j, d
  <2>3. Len(u) = 0
    BY <1>1, <1>5
  <2> QED BY <2>2, <2>3 DEF Divided, u, j, d
<1>6. CASE o.kind = "Retain"
  <2>1. ~IsInsert(o)
    BY <1>6 DEF IsInsert
  <2>2. j = Ahead(e, idx) - Ahead(e, d)
    <3>1. Moved(e, b, idx, o) = 0
      BY <1>6, <2>1 DEF Moved
    <3>2. Ahead(e, idx) \in Int
      BY DEF Ahead
    <3>3. d \in Nat
      BY <1>1, <1>2, <2>1
    <3> HIDE DEF j, d
    <3>4. Ahead(e, d) \in Int
      BY <3>3 DEF Ahead
    <3> QED BY <1>7, <3>1, <3>2, <3>4
  <2>3. d = idx + w
    BY <1>2, <2>1
  <2> HIDE DEF u, w, j, d
  <2>4. Len(u) = w /\ \A k \in 1..w : u[k] = 2 * (idx + k)
    BY <1>1, <1>6
  <2>5. \A k \in 1..w : u[k] <= b <=> idx + k <= e
    BY <1>1, <2>4
  <2>6. j \in 0..w /\ (j > 0 => idx < e) /\ \A k \in 1..w : k <= j <=> idx + k <= e
    <3>1. Ahead(e, idx) = IF idx < e THEN e - idx ELSE 0
      BY DEF Ahead
    <3>2. Ahead(e, d) = IF idx + w < e THEN e - (idx + w) ELSE 0
      BY <2>3 DEF Ahead
    <3> QED BY <1>1, <2>2, <3>1, <3>2
  <2>7. Divided(u, j, b)
    BY <2>4, <2>5, <2>6 DEF Divided
  <2>8. j > 0 => 2 * idx + 1 <= b
    BY <1>1, <2>6
  <2>9. \A k \in 1..Len(u) : u[k] <= 2 * d + 1
    BY <1>1, <2>3, <2>4
  <2> QED BY <2>7, <2>8, <2>9 DEF u, j, d
<1> QED BY <1>4, <1>5, <1>6, Sizes

\* An operation moves an end to where the traced document is divided.
LEMMA EndStep ==
  ASSUME NEW o \in CompoundOp, NEW idx \in Nat, NEW e \in Nat, NEW b \in {2 * e, 2 * e + 1},
         NEW t, NEW x \in Int, EndAt(t, x, e, b, idx)
  PROVE  EndAt(t \o Traces(o, idx), x + Moved(e, b, idx, o), e, b, ReadThen(idx, o))
<1> DEFINE d == ReadThen(idx, o)
           u == Traces(o, idx)
           m == Moved(e, b, idx, o)
           a1 == Ahead(e, idx)
           a2 == Ahead(e, d)
           j == Passed(e, b, idx, o)
<1>1. /\ Divided(u, j, b) /\ (j > 0 => 2 * idx + 1 <= b)
      /\ \A k \in 1..Len(u) : u[k] <= 2 * d + 1
  BY TracesDivided
<1>2. d \in Nat /\ idx <= d /\ u \in Seq(Nat) /\ a1 \in Int /\ b \in Nat
  <2>1. d \in Nat /\ idx <= d
    BY Sizes DEF ReadThen
  <2>2. a1 \in Int /\ b \in Nat
    BY DEF Ahead
  <2> QED BY <2>1, <2>2, TracesType
<1>3. a2 \in Int /\ m \in Int
  <2>1. a2 \in Int
    <3> HIDE DEF d
    <3> QED BY <1>2 DEF Ahead
  <2>2. m \in Int
    BY <1>2, Sizes DEF Moved, Least, IsInsert
  <2> QED BY <2>1, <2>2
<1> HIDE DEF d, u, m, a1, a2
<1>4. /\ t \in Seq(Nat) /\ \A k \in 1..Len(t) : t[k] <= 2 * idx + 1
      /\ Divided(t, x - a1, b)
  BY DEF EndAt, a1
<1>5. j > 0 => x - a1 = Len(t)
  <2> SUFFICES ASSUME j > 0 PROVE x - a1 = Len(t)
    OBVIOUS
  <2>1. 2 * idx + 1 <= b
    BY <1>1
  <2> DEFINE f == x - a1
             m1 == 2 * idx + 1
  <2>2. m1 \in Nat /\ m1 <= b /\ b \in Nat
    BY <1>2, <2>1
  <2>3. t \in Seq(Nat) /\ Divided(t, f, b) /\ \A k \in 1..Len(t) : t[k] <= m1
    BY <1>4
  <2> HIDE DEF f, m1
  <2>4. f = Len(t)
    BY <2>2, <2>3, DividedAtEnd
  <2> QED BY <2>4 DEF f
<1> HIDE DEF j
<1>6. Divided(t \o u, (x - a1) + j, b)
  BY <1>1, <1>2, <1>4, <1>5, DividedOn
<1>7. (x - a1) + j = (x + m) - a2
  <2>1. j = m + a1 - a2
    BY DEF Passed, j, m, a1, a2, d
  <2> QED BY <1>2, <1>3, <2>1
<1>8. t \o u \in Seq(Nat) /\ \A k \in 1..Len(t \o u) : (t \o u)[k] <= 2 * d + 1
  <2> DEFINE v == t \o u
  <2>1. /\ v \in Seq(Nat) /\ Len(v) = Len(t) + Len(u) /\ Len(t) \in Nat /\ Len(u) \in Nat
        /\ \A k \in 1..(Len(t) + Len(u)) : v[k] = IF k <= Len(t) THEN t[k] ELSE u[k - Len(t)]
    BY <1>2, <1>4, NatsJoined
  <2> HIDE DEF v
  <2>2. ASSUME NEW k \in 1..Len(v) PROVE v[k] <= 2 * d + 1
    <3>1. CASE k <= Len(t)
      <4>1. k \in 1..Len(t) /\ v[k] = t[k]
        BY <2>1, <3>1
      <4>3. t[k] \in Nat
        BY <1>4, <4>1
      <4>2. t[k] <= 2 * idx + 1
        BY <1>4, <4>1
      <4> QED BY <1>2, <4>1, <4>2, <4>3
    <3>2. CASE ~(k <= Len(t))
      <4>1. k - Len(t) \in 1..Len(u) /\ v[k] = u[k - Len(t)]
        BY <2>1, <3>2
      <4> QED BY <1>1, <4>1
    <3> QED BY <3>1, <3>2
  <2> QED BY <2>1, <2>2 DEF v
<1> QED BY <1>6, <1>7, <1>8 DEF EndAt, d, u, m, a2

\* The fold of Shifted.
IsShifted(r, q, c, g) ==
  /\ r[0] = [from |-> c.from, to |-> c.to, highlight |-> c.to - c.from]
  /\ \A n \in 1..Len(q) : r[n] \in Ranges /\ r[n] = Shift(r[n-1], c, g[n-1], q[n])

\* Shifted goes from one operation to the next.
LEMMA ShiftedSteps ==
  ASSUME NEW q \in Operations, NEW g, IsInputSum(g, q),
         NEW c, c.from \in Nat, c.to \in Nat, c.from <= c.to
  PROVE  \E r : IsShifted(r, q, c, g) /\ Shifted(q, c) = r[Len(q)]
<1>1. Len(q) \in Nat /\ \A n \in 1..Len(q) : q[n] \in CompoundOp
  BY DEF Operations
<1>2. \A n \in 0..Len(q) : g[n] \in Nat /\ InputLength(SubSeq(q, 1, n)) = g[n]
  BY SumsGrow, PrefixLength
<1> DEFINE V == Ranges
           x == [from |-> c.from, to |-> c.to, highlight |-> c.to - c.from]
           step == [n \in 1..Len(q) |-> [y \in V |-> Shift(y, c, g[n-1], q[n])]]
           At(f, n) == IF n = 0 THEN x ELSE Shift(f[n-1], c, InputLength(SubSeq(q, 1, n-1)), q[n])
<1>3. x \in V
  BY DEF Ranges
<1>4. ASSUME NEW n \in 1..Len(q)
      PROVE  n-1 \in 0..Len(q) /\ g[n-1] \in Nat /\ InputLength(SubSeq(q, 1, n-1)) = g[n-1]
  BY <1>1, <1>2
<1>5. step \in [1..Len(q) -> [V -> V]]
  <2>1. ASSUME NEW n \in 1..Len(q), NEW y \in V PROVE Shift(y, c, g[n-1], q[n]) \in V
    BY <1>1, <1>4, ShiftMoves
  <2> HIDE DEF V
  <2> QED BY <2>1
<1>6. PICK f : f \in Folds(Len(q), V, x, step)
  <2> HIDE DEF V, x, step
  <2> QED BY <1>1, <1>3, <1>5, FoldExists
<1>7. f \in [0..Len(q) -> V] /\ f[0] = x /\ \A n \in 1..Len(q) : f[n] = step[n][f[n-1]]
  <2> HIDE DEF V, x, step
  <2> QED BY <1>6 DEF Folds
<1>8. ASSUME NEW n \in 0..Len(q) PROVE f[n] = At(f, n)
  <2>1. CASE n = 0
    <3> HIDE DEF x
    <3> QED BY <1>7, <2>1
  <2>2. CASE n # 0
    <3>1. n \in 1..Len(q)
      BY <1>1, <2>2
    <3>2. f[n-1] \in V
      <4> HIDE DEF V, x, step
      <4> QED BY <1>4, <1>7, <3>1
    <3>3. f[n] = step[n][f[n-1]]
      <4> HIDE DEF V, x, step
      <4> QED BY <1>7, <3>1
    <3>4. f[n] = Shift(f[n-1], c, g[n-1], q[n])
      <4> HIDE DEF V, x
      <4> QED BY <3>1, <3>2, <3>3, Zenon
    <3>5. InputLength(SubSeq(q, 1, n-1)) = g[n-1]
      BY <1>4, <3>1
    <3> HIDE DEF V, x, step
    <3> QED BY <2>2, <3>4, <3>5, Zenon
  <2> QED BY <2>1, <2>2
<1> HIDE DEF V, x, step
<1>9. f = [n \in 0..Len(q) |-> At(f, n)]
  <2> HIDE DEF At
  <2>1. f = [n \in 0..Len(q) |-> f[n]]
    BY <1>7
  <2> QED BY <1>8, <2>1, Zenon
<1>10. \E r : r = [n \in 0..Len(q) |-> At(r, n)] /\ Shifted(q, c) = r[Len(q)]
  BY <1>9 DEF Shifted, x
<1>11. PICK r : r = [n \in 0..Len(q) |-> At(r, n)] /\ Shifted(q, c) = r[Len(q)]
  <2> HIDE DEF At
  <2> QED BY <1>10
<1>12. \A n \in 0..Len(q) : r[n] = At(r, n)
  <2> HIDE DEF At
  <2> QED BY <1>11, Zenon
<1>13. r[0] = x
  BY <1>1, <1>12
<1>14. ASSUME NEW n \in 1..Len(q) PROVE r[n] = Shift(r[n-1], c, g[n-1], q[n])
  <2>1. n \in 0..Len(q) /\ n # 0
    BY <1>1
  <2>2. r[n] = At(r, n)
    <3> HIDE DEF At
    <3> QED BY <1>12, <2>1
  <2> QED BY <1>4, <2>1, <2>2, Zenon
<1>15. \A n \in 0..Len(q) : r[n] \in Ranges
  <2>1. ASSUME NEW n \in 1..Len(q), r[n-1] \in Ranges PROVE r[n] \in Ranges
    <3>1. Shift(r[n-1], c, g[n-1], q[n]) \in Ranges
      BY <1>1, <1>4, <2>1, ShiftMoves
    <3> QED BY <1>14, <3>1
  <2>2. r[0] \in Ranges
    BY <1>3, <1>13 DEF V
  <2> QED BY <1>1, <2>1, <2>2, FoldTyped
<1>16. IsShifted(r, q, c, g)
  <2>1. \A n \in 1..Len(q) : r[n] \in Ranges
    BY <1>1, <1>15
  <2> QED BY <1>13, <1>14, <2>1 DEF IsShifted, x
<1> QED BY <1>11, <1>16

LEMMA LastType ==
  ASSUME NEW c, c.from \in Nat, c.to \in Nat, c.from <= c.to
  PROVE  /\ 2 * c.from + 1 \in {2 * c.from, 2 * c.from + 1} /\ 2 * c.from + 1 \in Nat
         /\ Last(c) \in {2 * c.to, 2 * c.to + 1} /\ Last(c) \in Nat
         /\ 2 * c.from + 1 <= Last(c)
  BY DEF Last

\* Where t says that the range r of the cursor c is, once idx characters are read.
RangeAt(t, r, c, idx) ==
  /\ r \in Ranges /\ r.highlight = r.to - r.from
  /\ EndAt(t, r.from, c.from, 2 * c.from + 1, idx)
  /\ EndAt(t, r.to, c.to, Last(c), idx)

LEMMA RangeStep ==
  ASSUME NEW c, c.from \in Nat, c.to \in Nat, c.from <= c.to, NEW idx \in Nat, NEW o \in CompoundOp,
         NEW t, NEW r, RangeAt(t, r, c, idx)
  PROVE  RangeAt(t \o Traces(o, idx), Shift(r, c, idx, o), c, ReadThen(idx, o))
<1> DEFINE x == Shift(r, c, idx, o)
           u == t \o Traces(o, idx)
           d == ReadThen(idx, o)
           b1 == 2 * c.from + 1
           b2 == Last(c)
<1>1. r \in Ranges /\ r.from \in Int /\ r.to \in Int /\ r.highlight = r.to - r.from
  BY DEF RangeAt, Ranges
<1>2. EndAt(t, r.from, c.from, b1, idx) /\ EndAt(t, r.to, c.to, b2, idx)
  BY DEF RangeAt
<1>3. /\ b1 \in {2 * c.from, 2 * c.from + 1} /\ b1 \in Nat
      /\ b2 \in {2 * c.to, 2 * c.to + 1} /\ b2 \in Nat /\ b1 <= b2
  BY LastType
<1>4. /\ x \in Ranges /\ x.from = r.from + Moved(c.from, b1, idx, o)
      /\ x.to = r.to + Moved(c.to, b2, idx, o)
      /\ r.highlight = r.to - r.from /\ (idx <= c.from => r.to - r.from = c.to - c.from)
           => x.highlight = x.to - x.from
  BY <1>1, ShiftMoves
<1> HIDE DEF x, u, d, b1, b2
<1>5. EndAt(u, r.from + Moved(c.from, b1, idx, o), c.from, b1, d)
  BY <1>1, <1>2, <1>3, EndStep DEF u, d
<1>6. EndAt(u, r.to + Moved(c.to, b2, idx, o), c.to, b2, d)
  BY <1>1, <1>2, <1>3, EndStep DEF u, d
<1>7. idx <= c.from => r.to - r.from = c.to - c.from
  <2> SUFFICES ASSUME idx <= c.from PROVE r.to - r.from = c.to - c.from
    OBVIOUS
  <2>1. 2 * idx + 1 <= b1 /\ 2 * idx + 1 <= b2 /\ 2 * idx + 1 \in Nat
    BY <1>3 DEF b1
  <2>2. /\ t \in Seq(Nat) /\ \A k \in 1..Len(t) : t[k] <= 2 * idx + 1
        /\ Divided(t, r.from - Ahead(c.from, idx), b1) /\ Divided(t, r.to - Ahead(c.to, idx), b2)
    BY <1>2 DEF EndAt
  <2>3. r.from - Ahead(c.from, idx) = Len(t) /\ r.to - Ahead(c.to, idx) = Len(t)
    BY <1>3, <2>1, <2>2, DividedAtEnd
  <2>4. Ahead(c.from, idx) = c.from - idx /\ Ahead(c.to, idx) = c.to - idx
    BY DEF Ahead
  <2>5. Len(t) \in Nat
    BY <2>2
  <2>6. r.from - (c.from - idx) = Len(t) /\ r.to - (c.to - idx) = Len(t)
    BY <2>3, <2>4
  <2> DEFINE a1 == r.from
             a2 == r.to
             n1 == c.from
             n2 == c.to
             l  == Len(t)
  <2>7. /\ a1 \in Int /\ a2 \in Int /\ n1 \in Nat /\ n2 \in Nat /\ l \in Nat
        /\ a1 - (n1 - idx) = l /\ a2 - (n2 - idx) = l
    BY <1>1, <2>5, <2>6
  <2> HIDE DEF a1, a2, n1, n2, l
  <2>8. a2 - a1 = n2 - n1
    BY <2>7
  <2> QED BY <2>8 DEF a1, a2, n1, n2
<1>8. x.highlight = x.to - x.from
  BY <1>1, <1>4, <1>7
<1>9. EndAt(u, x.from, c.from, b1, d) /\ EndAt(u, x.to, c.to, b2, d)
  BY <1>4, <1>5, <1>6
<1> QED BY <1>4, <1>8, <1>9 DEF RangeAt, x, u, d, b1, b2

\* What CursorFollowsText asks of an operation and a cursor.
Follows(q, c) ==
  LET new == Traced(q)
      d   == TransformCursor(q, c)
      end == IF c.from < c.to THEN 2 * c.to ELSE 2 * c.from + 1
  IN  /\ d \in Cursor(Len(new))
      /\ c.anchor = c.from => d.anchor = d.from
      /\ \A k \in DOMAIN new : /\ k <= d.from <=> new[k] <= 2 * c.from + 1
                               /\ k <= d.to   <=> new[k] <= end
      /\ Shifted(q, c).highlight = d.to - d.from

\* An operation of any size takes a cursor to where its text is: transform_cursor
\* keeps what is left of a selection and what is inserted inside it selected, and
\* nothing else.
THEOREM CursorFollows ==
  ASSUME text \in Text, NEW q \in Operations, CanApply(text, q), NEW c \in Cursor(Len(text))
  PROVE  Follows(q, c)
<1>1. /\ c.from \in Nat /\ c.to \in Nat /\ c.from <= c.to /\ c.to <= Len(text)
      /\ {c.anchor, c.head} = {c.from, c.to} /\ Len(text) \in Nat /\ Len(text) = InputLength(q)
  <2>1. InputLength(q) \in Nat /\ Len(text) = InputLength(q)
    BY InputLengthType DEF CanApply
  <2> DEFINE N == Len(text)
  <2>2. /\ c \in [from : 0..N, to : 0..N, anchor : 0..N, head : 0..N]
        /\ c.from <= c.to /\ {c.anchor, c.head} = {c.from, c.to}
    <3> HIDE DEF N
    <3>1. c \in Cursor(N)
      BY DEF N
    <3> QED BY <3>1 DEF Cursor
  <2>3. c.from \in 0..N /\ c.to \in 0..N
    BY <2>2
  <2>4. c.from \in Nat /\ c.to \in Nat /\ c.to <= Len(text) /\ Len(text) \in Nat
    BY <2>1, <2>3
  <2> HIDE DEF N
  <2> QED BY <2>1, <2>2, <2>4, Zenon
<1>2. PICK g : IsInputSum(g, q) /\ InputLength(q) = g[Len(q)]
  BY InputSum
<1>3. PICK h : IsTraced(h, q, g) /\ Traced(q) = h[Len(q)]
  BY <1>1, <1>2, TracedSteps
<1>4. PICK r : IsShifted(r, q, c, g) /\ Shifted(q, c) = r[Len(q)]
  BY <1>1, <1>2, ShiftedSteps
<1>5. /\ Len(q) \in Nat /\ \A n \in 1..Len(q) : q[n] \in CompoundOp
      /\ g[0] = 0 /\ \A n \in 1..Len(q) : g[n-1] \in Nat /\ g[n] = ReadThen(g[n-1], q[n])
  <2>1. Len(q) \in Nat /\ \A n \in 1..Len(q) : q[n] \in CompoundOp /\ n-1 \in 0..Len(q)
    BY DEF Operations
  <2>2. \A n \in 0..Len(q) : g[n] \in Nat
    BY <1>2, SumsGrow
  <2>3. g[0] = 0 /\ \A n \in 1..Len(q) : g[n] = g[n-1] + ExpectedInputSize(q[n])
    BY <1>2, InputSumStep
  <2> QED BY <2>1, <2>2, <2>3 DEF ReadThen
<1> DEFINE S == {n \in Nat : n <= Len(q) => RangeAt(h[n], r[n], c, g[n])}
<1>6. 0 \in S
  <2>1. h[0] = <<>> /\ r[0] = [from |-> c.from, to |-> c.to, highlight |-> c.to - c.from]
    BY <1>3, <1>4 DEF IsTraced, IsShifted
  <2>2. /\ r[0] \in Ranges /\ r[0].highlight = r[0].to - r[0].from
        /\ r[0].from = c.from /\ r[0].to = c.to
    BY <1>1, <2>1 DEF Ranges
  <2>3. /\ c.from - Ahead(c.from, 0) = 0 /\ c.to - Ahead(c.to, 0) = 0
    BY <1>1 DEF Ahead
  <2>4. <<>> \in Seq(Nat) /\ Len(<<>>) = 0
    BY EmptySeq
  <2>5. ASSUME NEW b PROVE Divided(<<>>, 0, b)
    BY <2>4 DEF Divided
  <2>6. RangeAt(<<>>, r[0], c, 0)
    BY <2>2, <2>3, <2>4, <2>5 DEF RangeAt, EndAt
  <2> QED BY <1>5, <2>1, <2>6
<1>7. ASSUME NEW n \in Nat, n \in S PROVE n+1 \in S
  <2> SUFFICES ASSUME n+1 <= Len(q) PROVE RangeAt(h[n+1], r[n+1], c, g[n+1])
    OBVIOUS
  <2>1. n+1 \in 1..Len(q) /\ (n+1)-1 = n /\ RangeAt(h[n], r[n], c, g[n])
    BY <1>5, <1>7
  <2>2. h[n+1] = h[n] \o Traces(q[n+1], g[n]) /\ r[n+1] = Shift(r[n], c, g[n], q[n+1])
    BY <1>3, <1>4, <2>1 DEF IsTraced, IsShifted
  <2>3. g[n] \in Nat /\ g[n+1] = ReadThen(g[n], q[n+1]) /\ q[n+1] \in CompoundOp
    BY <1>5, <2>1
  <2>4. RangeAt(h[n] \o Traces(q[n+1], g[n]), Shift(r[n], c, g[n], q[n+1]), c, ReadThen(g[n], q[n+1]))
    BY <1>1, <2>1, <2>3, RangeStep
  <2> QED BY <2>2, <2>3, <2>4, Zenon
<1>8. Nat \subseteq S
  <2> HIDE DEF S
  <2> QED BY <1>6, <1>7, Induction
<1> DEFINE new == Traced(q)
           x   == Shifted(q, c)
           d   == TransformCursor(q, c)
<1>9. RangeAt(new, x, c, Len(text))
  BY <1>1, <1>2, <1>3, <1>4, <1>5, <1>8
<1> HIDE DEF new, x, S
<1>10. /\ new \in Seq(Nat) /\ x \in Ranges /\ x.highlight = x.to - x.from
       /\ Divided(new, x.from, 2 * c.from + 1) /\ Divided(new, x.to, Last(c))
  <2>1. /\ x \in Ranges /\ x.highlight = x.to - x.from
        /\ EndAt(new, x.from, c.from, 2 * c.from + 1, Len(text))
        /\ EndAt(new, x.to, c.to, Last(c), Len(text))
    BY <1>9 DEF RangeAt
  <2>2. Ahead(c.from, Len(text)) = 0 /\ Ahead(c.to, Len(text)) = 0
    BY <1>1 DEF Ahead
  <2>3. x.from - 0 = x.from /\ x.to - 0 = x.to
    BY <2>1 DEF Ranges
  <2> QED BY <2>1, <2>2, <2>3 DEF EndAt
<1>11. /\ Len(new) \in Nat /\ DOMAIN new = 1..Len(new) /\ x.from \in 0..Len(new) /\ x.to \in 0..Len(new)
       /\ \A k \in 1..Len(new) : /\ new[k] \in Nat
                                 /\ k <= x.from <=> new[k] <= 2 * c.from + 1
                                 /\ k <= x.to <=> new[k] <= Last(c)
  BY <1>10 DEF Divided
<1>12. x.from <= x.to
  <2>1. CASE x.from = 0
    BY <1>11, <2>1
  <2>2. CASE x.from # 0
    <3> DEFINE k == x.from
    <3>1. k \in 1..Len(new) /\ k <= k
      BY <1>11, <2>2
    <3>2. new[k] <= 2 * c.from + 1 /\ new[k] \in Nat
      BY <1>11, <3>1
    <3>3. new[k] <= Last(c)
      BY <1>1, <3>2, LastType
    <3> QED BY <1>11, <3>1, <3>3
  <2> QED BY <2>1, <2>2
<1>13. /\ d.from = x.from /\ d.to = x.to /\ {d.anchor, d.head} = {d.from, d.to}
       /\ c.anchor = c.from => d.anchor = d.from
       /\ d \in [from : 0..Len(new), to : 0..Len(new), anchor : 0..Len(new), head : 0..Len(new)]
  <2>1. CASE c.anchor = c.from
    <3>1. d = [from |-> x.from, to |-> x.to, anchor |-> x.from, head |-> x.to]
      BY <2>1 DEF TransformCursor, x
    <3> HIDE DEF d
    <3> QED BY <1>11, <3>1
  <2>2. CASE c.anchor # c.from
    <3>1. d = [from |-> x.from, to |-> x.to, anchor |-> x.to, head |-> x.from]
      BY <2>2 DEF TransformCursor, x
    <3> HIDE DEF d
    <3> QED BY <1>11, <2>2, <3>1
  <2> QED BY <2>1, <2>2
<1> HIDE DEF d
<1>14. d \in Cursor(Len(new))
  BY <1>12, <1>13 DEF Cursor
<1>15. x.highlight = d.to - d.from
  BY <1>10, <1>13
<1> QED BY <1>11, <1>13, <1>14, <1>15 DEF Follows, Last, new, x, d

-----------------------------------------------------------------------------
(* Both orders take a cursor to one place                                  *)

\* How many characters o writes before an end of a cursor that has h more
\* characters of the document before it; if k is 1, what is inserted at the end is
\* before it as well.
Counts(o, h, k) ==
  CASE IsInsert(o)        -> IF h + k > 0 THEN Width(o) ELSE 0
    [] o.kind = "Delete" -> 0
    [] o.kind = "Retain" -> IF h > 0 THEN Least(Width(o), h) ELSE 0

LEMMA CountsType ==
  ASSUME NEW o \in CompoundOp, NEW h \in Int, NEW k \in {0, 1}
  PROVE  /\ Counts(o, h, k) \in Nat /\ Counts(o, h, k) <= OpOutputLen(o)
         /\ h + k <= 0 => Counts(o, h, k) = 0
<1> DEFINE w == Width(o)
<1>1. w \in Nat \ {0}
  BY Sizes
<1>2. Counts(o, h, k) = CASE IsInsert(o)        -> IF h + k > 0 THEN w ELSE 0
                          [] o.kind = "Delete" -> 0
                          [] o.kind = "Retain" -> IF h > 0 THEN Least(w, h) ELSE 0
  BY DEF Counts
<1>3. OpOutputLen(o) = IF o.kind = "Delete" THEN 0 ELSE w
  BY DEF OpOutputLen
<1> HIDE DEF w
<1>4. CASE IsInsert(o)
  BY <1>1, <1>2, <1>3, <1>4 DEF IsInsert
<1>5. CASE o.kind = "Delete"
  BY <1>1, <1>2, <1>3, <1>5 DEF IsInsert
<1>6. CASE o.kind = "Retain"
  <2>1. Counts(o, h, k) = (IF h > 0 THEN Least(w, h) ELSE 0) /\ OpOutputLen(o) = w
    BY <1>2, <1>3, <1>6 DEF IsInsert
  <2> QED BY <1>1, <2>1 DEF Least
<1> QED BY <1>4, <1>5, <1>6, Sizes

\* A further end has no less before it.
LEMMA CountsGrow ==
  ASSUME NEW o \in CompoundOp, NEW h \in Int, NEW k \in {0, 1}, NEW i \in Int, NEW l \in {0, 1},
         h <= i, h + k <= i + l
  PROVE  Counts(o, h, k) <= Counts(o, i, l)
<1> DEFINE w == Width(o)
<1>1. w \in Nat \ {0}
  BY Sizes
<1>2. CASE IsInsert(o)
  <2>1. /\ Counts(o, h, k) = IF h + k > 0 THEN w ELSE 0
        /\ Counts(o, i, l) = IF i + l > 0 THEN w ELSE 0
    BY <1>2 DEF Counts, IsInsert
  <2> HIDE DEF w
  <2> QED BY <1>1, <2>1
<1>3. CASE o.kind = "Delete"
  BY <1>3 DEF Counts, IsInsert
<1>4. CASE o.kind = "Retain"
  <2>1. /\ Counts(o, h, k) = IF h > 0 THEN Least(w, h) ELSE 0
        /\ Counts(o, i, l) = IF i > 0 THEN Least(w, i) ELSE 0
    BY <1>4 DEF Counts, IsInsert
  <2> HIDE DEF w
  <2> QED BY <1>1, <2>1 DEF Least
<1> QED BY <1>2, <1>3, <1>4, Sizes

\* An end while a document is read: what is still ahead of it, and its place.
Ends == [ahead : Int, place : Int]

Beyond(s, o, k) ==
  [ahead |-> s.ahead - ExpectedInputSize(o), place |-> s.place + Counts(o, s.ahead, k)]

LEMMA BeyondType ==
  ASSUME NEW s \in Ends, NEW o \in CompoundOp, NEW k \in {0, 1}
  PROVE  Beyond(s, o, k) \in Ends
<1>1. s.ahead \in Int /\ s.place \in Int
  BY DEF Ends
<1>2. Counts(o, s.ahead, k) \in Nat /\ ExpectedInputSize(o) \in Nat
  BY <1>1, CountsType, Sizes
<1> QED BY <1>1, <1>2 DEF Beyond, Ends

Start(h) == [ahead |-> h, place |-> 0]

\* Where q leaves an end.
EndAfter(q, h, k) ==
  LET f[n \in 0..Len(q)] == IF n = 0 THEN Start(h) ELSE Beyond(f[n-1], q[n], k)
  IN  f[Len(q)]

Place(q, h, k) == EndAfter(q, h, k).place

IsEnd(f, q, h, k) ==
  f = [n \in 0..Len(q) |-> IF n = 0 THEN Start(h) ELSE Beyond(f[n-1], q[n], k)]

LEMMA EndRun ==
  ASSUME NEW q \in Operations, NEW h \in Int, NEW k \in {0, 1}
  PROVE  \E f : IsEnd(f, q, h, k) /\ EndAfter(q, h, k) = f[Len(q)]
<1> DEFINE step == [n \in 1..Len(q) |-> [y \in Ends |-> Beyond(y, q[n], k)]]
<1>1. Len(q) \in Nat /\ \A n \in 1..Len(q) : q[n] \in CompoundOp
  BY DEF Operations
<1>2. step \in [1..Len(q) -> [Ends -> Ends]]
  BY <1>1, BeyondType
<1>3. Start(h) \in Ends
  BY DEF Start, Ends
<1>4. PICK f : f \in Folds(Len(q), Ends, Start(h), step)
  <2> HIDE DEF step
  <2> QED BY <1>1, <1>2, <1>3, FoldExists
<1>5. f \in [0..Len(q) -> Ends] /\ f[0] = Start(h) /\ \A n \in 1..Len(q) : f[n] = step[n][f[n-1]]
  <2> HIDE DEF step
  <2> QED BY <1>4, Zenon DEF Folds
<1>6. ASSUME NEW n \in 0..Len(q)
      PROVE  f[n] = IF n = 0 THEN Start(h) ELSE Beyond(f[n-1], q[n], k)
  <2>1. CASE n = 0
    <3> HIDE DEF step
    <3> QED BY <1>5, <2>1
  <2>2. CASE n # 0
    <3>1. n \in 1..Len(q) /\ n-1 \in 0..Len(q)
      BY <1>1, <2>2
    <3>2. f[n-1] \in Ends /\ f[n] = step[n][f[n-1]]
      <4> HIDE DEF step
      <4> QED BY <1>5, <3>1
    <3> QED BY <2>2, <3>1, <3>2, Zenon
  <2> QED BY <2>1, <2>2
<1>7. IsEnd(f, q, h, k)
  <2> HIDE DEF step
  <2>1. f = [n \in 0..Len(q) |-> f[n]]
    BY <1>5
  <2> QED BY <1>6, <2>1, Zenon DEF IsEnd
<1> QED BY <1>7, Zenon DEF EndAfter, IsEnd

LEMMA EndSteps ==
  ASSUME NEW f, NEW q \in Operations, NEW h, NEW k, IsEnd(f, q, h, k)
  PROVE  f[0] = Start(h) /\ \A n \in 1..Len(q) : f[n] = Beyond(f[n-1], q[n], k)
<1>1. Len(q) \in Nat
  BY DEF Operations
<1> QED BY <1>1 DEF IsEnd

LEMMA EndEmpty ==
  ASSUME NEW h \in Int, NEW k \in {0, 1}
  PROVE  EndAfter(<<>>, h, k) = Start(h)
<1>1. PICK f : IsEnd(f, <<>>, h, k) /\ EndAfter(<<>>, h, k) = f[Len(<<>>)]
  BY Nothing, EndRun
<1> QED BY <1>1, Nothing, EndSteps

LEMMA EndAppend ==
  ASSUME NEW q \in Operations, NEW o \in CompoundOp, NEW h \in Int, NEW k \in {0, 1}
  PROVE  EndAfter(Append(q, o), h, k) = Beyond(EndAfter(q, h, k), o, k)
<1> DEFINE r == Append(q, o)
<1>1. /\ r \in Operations /\ Len(q) \in Nat /\ Len(r) = Len(q) + 1
      /\ r[Len(q) + 1] = o /\ \A n \in 1..Len(q) : r[n] = q[n]
  BY AppendProperties DEF Operations
<1>2. PICK f : IsEnd(f, q, h, k) /\ EndAfter(q, h, k) = f[Len(q)]
  BY EndRun
<1> HIDE DEF r
<1>3. PICK g : IsEnd(g, r, h, k) /\ EndAfter(r, h, k) = g[Len(r)]
  BY <1>1, EndRun
<1>4. f[0] = Start(h) /\ \A n \in 1..Len(q) : f[n] = Beyond(f[n-1], q[n], k)
  BY <1>2, EndSteps
<1>5. g[0] = Start(h) /\ \A n \in 1..Len(r) : g[n] = Beyond(g[n-1], r[n], k)
  <2>1. r \in Operations /\ IsEnd(g, r, h, k)
    BY <1>1, <1>3
  <2> QED BY <2>1, EndSteps
<1>6. SameSteps(f, g, Len(q))
  BY <1>1, <1>4, <1>5 DEF SameSteps
<1>7. SameValues(f, g, Len(q))
  BY <1>1, <1>6, Alike
<1>8. g[Len(r)] = Beyond(g[Len(q)], o, k)
  BY <1>1, <1>5
<1> QED BY <1>1, <1>2, <1>3, <1>7, <1>8 DEF r, SameValues

\* Every end has passed what has been read.
LEMMA EndAhead ==
  ASSUME NEW q \in Operations, NEW h \in Int, NEW k \in {0, 1}
  PROVE  EndAfter(q, h, k) \in Ends /\ EndAfter(q, h, k).ahead = h - InputLength(q)
<1> DEFINE S == {d \in Operations : /\ EndAfter(d, h, k) \in Ends
                                    /\ EndAfter(d, h, k).ahead = h - InputLength(d)}
<1>1. <<>> \in S
  BY Nothing, EndEmpty DEF Start, Ends
<1>2. ASSUME NEW d \in Operations, d \in S, NEW o \in CompoundOp PROVE Append(d, o) \in S
  <2>1. Append(d, o) \in Operations
    BY AppendProperties DEF Operations
  <2>2. EndAfter(Append(d, o), h, k) = Beyond(EndAfter(d, h, k), o, k)
    BY EndAppend
  <2>3. EndAfter(Append(d, o), h, k).ahead = (h - InputLength(d)) - ExpectedInputSize(o)
    BY <1>2, <2>2 DEF Beyond
  <2>4. InputLength(Append(d, o)) = InputLength(d) + ExpectedInputSize(o)
    BY InputLengthAppend
  <2>5. InputLength(d) \in Nat /\ ExpectedInputSize(o) \in Nat
    BY InputLengthType, Sizes
  <2>6. EndAfter(Append(d, o), h, k).ahead = h - InputLength(Append(d, o))
    BY <2>3, <2>4, <2>5
  <2>7. EndAfter(Append(d, o), h, k) \in Ends
    BY <1>2, <2>2, BeyondType
  <2> QED BY <2>1, <2>6, <2>7
<1>3. Operations \subseteq S
  <2> HIDE DEF S
  <2> QED BY <1>1, <1>2, SequenceInduction DEF Operations
<1> QED BY <1>3

LEMMA PlaceEmpty ==
  ASSUME NEW h \in Int, NEW k \in {0, 1}
  PROVE  Place(<<>>, h, k) = 0
  BY EndEmpty DEF Place, Start

LEMMA PlaceAppend ==
  ASSUME NEW q \in Operations, NEW o \in CompoundOp, NEW h \in Int, NEW k \in {0, 1}
  PROVE  Place(Append(q, o), h, k) = Place(q, h, k) + Counts(o, h - InputLength(q), k)
<1>1. EndAfter(Append(q, o), h, k) = Beyond(EndAfter(q, h, k), o, k)
  BY EndAppend
<1>2. EndAfter(q, h, k).ahead = h - InputLength(q)
  BY EndAhead
<1> QED BY <1>1, <1>2 DEF Beyond, Place

LEMMA PlaceType ==
  ASSUME NEW q \in Operations, NEW h \in Int, NEW k \in {0, 1}
  PROVE  /\ Place(q, h, k) \in Nat /\ Place(q, h, k) <= OutputLength(q)
         /\ h + k <= 0 => Place(q, h, k) = 0
<1> DEFINE S == {d \in Operations : /\ Place(d, h, k) \in Nat /\ Place(d, h, k) <= OutputLength(d)
                                    /\ h + k <= 0 => Place(d, h, k) = 0}
<1>1. <<>> \in S
  BY Nothing, PlaceEmpty, OutputLengthEmpty
<1>2. ASSUME NEW d \in Operations, d \in S, NEW o \in CompoundOp PROVE Append(d, o) \in S
  <2> DEFINE n == InputLength(d)
             c == Counts(o, h - n, k)
  <2>1. Append(d, o) \in Operations
    BY AppendProperties DEF Operations
  <2>2. Place(Append(d, o), h, k) = Place(d, h, k) + c
    BY PlaceAppend
  <2>3. OutputLength(Append(d, o)) = OutputLength(d) + OpOutputLen(o)
    BY OutputLengthAppend
  <2>4. n \in Nat /\ h - n \in Int /\ (h + k <= 0 => (h - n) + k <= 0)
    BY InputLengthType
  <2>5. c \in Nat /\ c <= OpOutputLen(o) /\ ((h - n) + k <= 0 => c = 0)
    <3> HIDE DEF n
    <3> QED BY <2>4, CountsType
  <2>6. OutputLength(d) \in Nat /\ OpOutputLen(o) \in Nat
    BY OutputLengthType, OutputSizes
  <2> HIDE DEF n, c
  <2>7. Place(d, h, k) \in Nat /\ Place(d, h, k) <= OutputLength(d) /\ (h + k <= 0 => Place(d, h, k) = 0)
    BY <1>2
  <2>8. Place(Append(d, o), h, k) \in Nat /\ Place(Append(d, o), h, k) <= OutputLength(Append(d, o))
    BY <2>2, <2>3, <2>5, <2>6, <2>7
  <2>9. h + k <= 0 => Place(Append(d, o), h, k) = 0
    BY <2>2, <2>4, <2>5, <2>7
  <2> QED BY <2>1, <2>8, <2>9
<1>3. Operations \subseteq S
  <2> HIDE DEF S
  <2> QED BY <1>1, <1>2, SequenceInduction DEF Operations
<1> QED BY <1>3

\* Ends stay in their order.
LEMMA PlacesGrow ==
  ASSUME NEW q \in Operations, NEW h \in Int, NEW k \in {0, 1}, NEW i \in Int, NEW l \in {0, 1},
         h <= i, h + k <= i + l
  PROVE  Place(q, h, k) <= Place(q, i, l)
<1> DEFINE S == {d \in Operations : Place(d, h, k) <= Place(d, i, l)}
<1>1. <<>> \in S
  BY Nothing, PlaceEmpty
<1>2. ASSUME NEW d \in Operations, d \in S, NEW o \in CompoundOp PROVE Append(d, o) \in S
  <2> DEFINE n == InputLength(d)
             c == Counts(o, h - n, k)
             e == Counts(o, i - n, l)
  <2>1. Append(d, o) \in Operations
    BY AppendProperties DEF Operations
  <2>2. Place(Append(d, o), h, k) = Place(d, h, k) + c /\ Place(Append(d, o), i, l) = Place(d, i, l) + e
    BY PlaceAppend
  <2>3. n \in Nat
    BY InputLengthType
  <2> HIDE DEF n
  <2>4. h - n \in Int /\ i - n \in Int /\ h - n <= i - n /\ (h - n) + k <= (i - n) + l
    BY <2>3
  <2>5. c \in Nat /\ e \in Nat /\ c <= e
    BY <2>4, CountsType, CountsGrow
  <2> HIDE DEF c, e
  <2>6. Place(d, h, k) \in Nat /\ Place(d, i, l) \in Nat /\ Place(d, h, k) <= Place(d, i, l)
    BY <1>2, PlaceType
  <2> QED BY <2>1, <2>2, <2>5, <2>6
<1>3. Operations \subseteq S
  <2> HIDE DEF S
  <2> QED BY <1>1, <1>2, SequenceInduction DEF Operations
<1> QED BY <1>3

LEMMA PlaceConcat ==
  ASSUME NEW p \in Operations, NEW q \in Operations, NEW h \in Int, NEW k \in {0, 1}
  PROVE  Place(p \o q, h, k) = Place(p, h, k) + Place(q, h - InputLength(p), k)
<1> DEFINE m == h - InputLength(p)
           S == {d \in Operations : Place(p \o d, h, k) = Place(p, h, k) + Place(d, m, k)}
<1>1. m \in Int /\ InputLength(p) \in Nat /\ Place(p, h, k) \in Nat
  BY InputLengthType, PlaceType
<1>2. <<>> \in S
  <2>1. p \o <<>> = p /\ <<>> \in Operations
    BY ConcatEmptySeq, EmptySeq DEF Operations
  <2> HIDE DEF m
  <2> QED BY <1>1, <2>1, PlaceEmpty
<1>3. ASSUME NEW d \in Operations, d \in S, NEW o \in CompoundOp PROVE Append(d, o) \in S
  <2>1. p \o d \in Operations /\ Append(d, o) \in Operations
    BY ConcatProperties, AppendProperties DEF Operations
  <2>2. p \o Append(d, o) = Append(p \o d, o)
    BY DEF Operations
  <2>3. InputLength(p \o d) = InputLength(p) + InputLength(d) /\ InputLength(d) \in Nat
    BY InputLengthConcat, InputLengthType
  <2>4. h - InputLength(p \o d) = m - InputLength(d)
    BY <1>1, <2>3
  <2> DEFINE c == Counts(o, m - InputLength(d), k)
  <2>5. Place(Append(p \o d, o), h, k) = Place(p \o d, h, k) + c
    BY <2>1, <2>4, PlaceAppend
  <2>6. Place(Append(d, o), m, k) = Place(d, m, k) + c
    <3> HIDE DEF m
    <3> QED BY <1>1, PlaceAppend
  <2>7. c \in Nat /\ Place(d, m, k) \in Nat
    <3>1. m - InputLength(d) \in Int
      <4> HIDE DEF m
      <4> QED BY <1>1, <2>3
    <3> HIDE DEF m
    <3> QED BY <1>1, <3>1, CountsType, PlaceType
  <2>8. Place(p \o d, h, k) = Place(p, h, k) + Place(d, m, k)
    BY <1>3
  <2> HIDE DEF c, m
  <2>9. Place(p \o Append(d, o), h, k) = Place(p, h, k) + Place(Append(d, o), m, k)
    BY <1>1, <2>2, <2>5, <2>6, <2>7, <2>8
  <2> QED BY <2>1, <2>9
<1>4. Operations \subseteq S
  <2> HIDE DEF S
  <2> QED BY <1>2, <1>3, SequenceInduction DEF Operations
<1> QED BY <1>4

LEMMA PlaceOne ==
  ASSUME NEW o \in CompoundOp, NEW h \in Int, NEW k \in {0, 1}
  PROVE  <<o>> \in Operations /\ Place(<<o>>, h, k) = Counts(o, h, k)
<1>1. <<o>> \in Operations /\ <<o>> = Append(<<>>, o) /\ <<>> \in Operations
  BY EmptySeq DEF Operations
<1>2. ASSUME NEW none \in Operations, none = <<>>
      PROVE  Place(Append(none, o), h, k) = Counts(o, h, k)
  <2>1. Place(none, h, k) = 0 /\ InputLength(none) = 0
    BY <1>2, PlaceEmpty, InputLengthEmpty
  <2>2. Place(Append(none, o), h, k) = Place(none, h, k) + Counts(o, h - InputLength(none), k)
    BY PlaceAppend
  <2>3. h - InputLength(none) = h
    BY <2>1
  <2>4. Counts(o, h, k) \in Nat
    BY CountsType
  <2> QED BY <2>1, <2>2, <2>3, <2>4
<1> QED BY <1>1, <1>2, Zenon

\* One operation and then further ones.
LEMMA PlaceFirst ==
  ASSUME NEW o \in CompoundOp, NEW t \in Operations, NEW h \in Int, NEW k \in {0, 1}
  PROVE  /\ <<o>> \o t \in Operations
         /\ Place(<<o>> \o t, h, k) = Counts(o, h, k) + Place(t, h - ExpectedInputSize(o), k)
<1>1. <<o>> \in Operations /\ InputLength(<<o>>) = ExpectedInputSize(o)
      /\ Place(<<o>>, h, k) = Counts(o, h, k)
  BY OneOperation, PlaceOne
<1>2. <<o>> \o t \in Operations
  BY <1>1, ConcatProperties DEF Operations
<1>3. Place(<<o>> \o t, h, k) = Place(<<o>>, h, k) + Place(t, h - InputLength(<<o>>), k)
  BY <1>1, PlaceConcat
<1> QED BY <1>1, <1>2, <1>3

\* Condensing leaves every end where it is.
LEMMA CountsMerged ==
  ASSUME NEW e \in CompoundOp, NEW o \in CompoundOp, e.kind = o.kind, NEW h \in Int, NEW k \in {0, 1}
  PROVE  Counts(Merge(e, o), h, k) = Counts(e, h, k) + Counts(o, h - ExpectedInputSize(e), k)
<1> DEFINE m == Merge(e, o)
           a == Width(e)
           b == Width(o)
<1>1. /\ m \in CompoundOp /\ m.kind = e.kind /\ OpOutputLen(m) = OpOutputLen(e) + OpOutputLen(o)
      /\ a \in Nat \ {0} /\ b \in Nat \ {0}
  BY MergeType, Sizes
<1>2. CASE e.kind = "Delete"
  <2>1. Counts(m, h, k) = 0 /\ Counts(e, h, k) = 0 /\ Counts(o, h - ExpectedInputSize(e), k) = 0
    <3> HIDE DEF m
    <3> QED BY <1>1, <1>2 DEF Counts, IsInsert
  <2> QED BY <2>1
<1>3. CASE e.kind # "Delete"
  <2>1. Width(m) = a + b
    <3> HIDE DEF m
    <3> QED BY <1>1, <1>3 DEF OpOutputLen
  <2>2. CASE IsInsert(e)
    <3>1. ExpectedInputSize(e) = 0 /\ IsInsert(m) /\ IsInsert(o)
      BY <1>1, <2>2, Sizes DEF IsInsert
    <3>2. /\ Counts(m, h, k) = IF h + k > 0 THEN a + b ELSE 0
          /\ Counts(e, h, k) = IF h + k > 0 THEN a ELSE 0
          /\ Counts(o, h, k) = IF h + k > 0 THEN b ELSE 0
      <4> HIDE DEF m
      <4> QED BY <2>1, <2>2, <3>1 DEF Counts, IsInsert
    <3>3. h - ExpectedInputSize(e) = h
      BY <3>1
    <3> HIDE DEF m, a, b
    <3>4. Counts(m, h, k) = Counts(e, h, k) + Counts(o, h, k)
      BY <1>1, <3>2
    <3> QED BY <3>3, <3>4 DEF m
  <2>3. CASE ~IsInsert(e)
    <3>1. e.kind = "Retain" /\ ExpectedInputSize(e) = a
      BY <1>3, <2>3, Sizes
    <3>2. ~IsInsert(m) /\ m.kind = "Retain" /\ ~IsInsert(o) /\ o.kind = "Retain"
      <4> HIDE DEF m
      <4> QED BY <1>1, <3>1 DEF IsInsert
    <3>3. /\ Counts(m, h, k) = IF h > 0 THEN Least(a + b, h) ELSE 0
          /\ Counts(e, h, k) = IF h > 0 THEN Least(a, h) ELSE 0
          /\ Counts(o, h - a, k) = IF h - a > 0 THEN Least(b, h - a) ELSE 0
      BY <2>1, <2>3, <3>1, <3>2 DEF Counts
    <3> HIDE DEF m, a, b
    <3>4. Counts(m, h, k) = Counts(e, h, k) + Counts(o, h - a, k)
      BY <1>1, <3>3 DEF Least
    <3> QED BY <3>1, <3>4 DEF m
  <2> QED BY <2>2, <2>3
<1> QED BY <1>2, <1>3

LEMMA CondensePlaces ==
  ASSUME NEW q \in Operations, NEW h \in Int, NEW k \in {0, 1}
  PROVE  Place(Condense(q), h, k) = Place(q, h, k)
<1> DEFINE S == {d \in Operations : Place(Condense(d), h, k) = Place(d, h, k)}
<1>1. <<>> \in S
  BY Nothing, CondenseEmpty
<1>2. ASSUME NEW d \in Operations, d \in S, NEW o \in CompoundOp PROVE Append(d, o) \in S
  <2> DEFINE c == Condense(d)
  <2>1. c \in Operations /\ InputLength(c) = InputLength(d) /\ Place(c, h, k) = Place(d, h, k)
    BY <1>2, CondenseSame DEF Equivalent
  <2>2. Condense(Append(d, o)) = Extended(c, o) /\ Append(d, o) \in Operations
    BY CondenseAppend, AppendProperties DEF Operations
  <2> HIDE DEF c
  <2>3. Place(Append(c, o), h, k) = Place(Append(d, o), h, k)
    BY <2>1, PlaceAppend
  <2>4. CASE Extended(c, o) = Append(c, o)
    BY <2>2, <2>3, <2>4
  <2>5. ASSUME NEW b \in Operations, NEW e \in CompoundOp, c = Append(b, e), e.kind = o.kind,
               Extended(c, o) = Append(b, Merge(e, o))
        PROVE  Append(d, o) \in S
    <3> DEFINE m == Merge(e, o)
               j == h - InputLength(b)
               x1 == Counts(e, j, k)
               x2 == Counts(o, j - ExpectedInputSize(e), k)
    <3>1. m \in CompoundOp /\ InputLength(b) \in Nat /\ j \in Int /\ ExpectedInputSize(e) \in Nat
      BY <2>5, MergeType, InputLengthType, Sizes
    <3>2. Counts(m, j, k) = x1 + x2
      <4> HIDE DEF j
      <4> QED BY <2>5, <3>1, CountsMerged
    <3>3. Place(Append(b, m), h, k) = Place(b, h, k) + Counts(m, j, k)
      <4> HIDE DEF m
      <4> QED BY <3>1, PlaceAppend
    <3>4. Place(c, h, k) = Place(b, h, k) + x1
      BY <2>5, PlaceAppend
    <3>5. InputLength(c) = InputLength(b) + ExpectedInputSize(e)
      BY <2>5, InputLengthAppend
    <3>6. h - InputLength(c) = j - ExpectedInputSize(e)
      BY <3>1, <3>5
    <3>7. Place(Append(c, o), h, k) = Place(c, h, k) + x2
      BY <2>1, <3>6, PlaceAppend
    <3>8. x1 \in Nat /\ x2 \in Nat /\ Place(b, h, k) \in Nat
      <4> HIDE DEF j
      <4>1. j - ExpectedInputSize(e) \in Int
        BY <3>1
      <4> QED BY <3>1, <4>1, CountsType, PlaceType
    <3> HIDE DEF m, j, x1, x2
    <3>9. Place(Append(b, m), h, k) = Place(Append(c, o), h, k)
      BY <3>2, <3>3, <3>4, <3>7, <3>8
    <3> QED BY <2>2, <2>3, <2>5, <3>9 DEF m
  <2>6. \/ Extended(c, o) = Append(c, o)
        \/ \E b \in Operations, e \in CompoundOp :
             c = Append(b, e) /\ e.kind = o.kind /\ Extended(c, o) = Append(b, Merge(e, o))
    BY <2>1, ExtendedForms
  <2> HIDE DEF S
  <2> QED BY <2>4, <2>5, <2>6
<1>3. Operations \subseteq S
  <2> HIDE DEF S
  <2> QED BY <1>1, <1>2, SequenceInduction DEF Operations
<1> QED BY <1>3

\* What n characters of a deletion or retention write before an end.
PartCounts(o, h, n) == IF o.kind = "Retain" /\ h > 0 THEN Least(n, h) ELSE 0

LEMMA PlaceRest ==
  ASSUME NEW q \in Operations, q # <<>>, ~IsInsert(Head(q)), NEW n \in 1..Width(Head(q)),
         NEW h \in Int, NEW k \in {0, 1}
  PROVE  /\ Rest(q, n) \in Operations
         /\ Place(q, h, k) = PartCounts(Head(q), h, n) + Place(Rest(q, n), h - n, k)
<1> DEFINE o == Head(q)
           t == Tail(q)
           d == Drop(o, n)
<1>1. /\ o \in CompoundOp /\ t \in Operations /\ q = <<o>> \o t /\ Rest(q, n) \in Operations
  BY FirstOperation, RestType
<1>2. /\ o.kind \in {"Retain", "Delete"} /\ Width(o) = o.count /\ o.count \in Nat \ {0}
      /\ ExpectedInputSize(o) = o.count
  BY <1>1, Sizes
<1>3. Place(q, h, k) = Counts(o, h, k) + Place(t, h - o.count, k)
  <2>1. Place(<<o>> \o t, h, k) = Counts(o, h, k) + Place(t, h - ExpectedInputSize(o), k)
    <3> HIDE DEF o, t
    <3> QED BY <1>1, PlaceFirst
  <2> QED BY <1>1, <1>2, <2>1, Zenon
<1>4. Counts(o, h, k) = PartCounts(o, h, o.count)
  BY <1>2 DEF Counts, PartCounts, IsInsert
<1>5. CASE n = Width(o)
  <2>1. Rest(q, n) = t
    BY <1>5 DEF Rest
  <2> QED BY <1>1, <1>2, <1>3, <1>4, <1>5, <2>1, Zenon
<1>6. CASE n # Width(o)
  <2>1. Rest(q, n) = <<d>> \o t
    BY <1>6 DEF Rest
  <2>2. n \in 1..(o.count - 1)
    BY <1>2, <1>6
  <2>3. /\ d \in CompoundOp /\ ~IsInsert(d) /\ d.kind = o.kind
        /\ ExpectedInputSize(d) = o.count - n
    <3> HIDE DEF o
    <3> QED BY <1>1, <2>2, Dropped DEF o
  <2> HIDE DEF o, t, d
  <2>4. d.count = o.count - n /\ Width(d) = o.count - n
    BY <2>3 DEF ExpectedInputSize, Width
  <2>5. Place(<<d>> \o t, h - n, k) = Counts(d, h - n, k) + Place(t, (h - n) - (o.count - n), k)
    BY <1>1, <2>3, PlaceFirst
  <2>6. (h - n) - (o.count - n) = h - o.count
    BY <1>2
  <2>7. Counts(d, h - n, k) = PartCounts(o, h - n, o.count - n)
    BY <1>2, <2>3, <2>4 DEF Counts, PartCounts, IsInsert
  <2>8. PartCounts(o, h, o.count) = PartCounts(o, h, n) + PartCounts(o, h - n, o.count - n)
        /\ PartCounts(o, h, n) \in Int /\ PartCounts(o, h - n, o.count - n) \in Int
    <3> DEFINE c == o.count
    <3>1. c \in Nat \ {0} /\ n \in Nat /\ n < c
      BY <1>2, <2>2
    <3> HIDE DEF c
    <3>2. CASE o.kind = "Retain"
      <4>1. /\ PartCounts(o, h, c) = IF h > 0 THEN Least(c, h) ELSE 0
            /\ PartCounts(o, h, n) = IF h > 0 THEN Least(n, h) ELSE 0
            /\ PartCounts(o, h - n, c - n) = IF h - n > 0 THEN Least(c - n, h - n) ELSE 0
        BY <3>2 DEF PartCounts
      <4>2. /\ PartCounts(o, h, c) = PartCounts(o, h, n) + PartCounts(o, h - n, c - n)
            /\ PartCounts(o, h, n) \in Int /\ PartCounts(o, h - n, c - n) \in Int
        BY <3>1, <4>1 DEF Least
      <4> QED BY <4>2 DEF c
    <3>3. CASE o.kind # "Retain"
      BY <3>3 DEF PartCounts
    <3> QED BY <3>2, <3>3
  <2>9. Place(t, h - o.count, k) \in Nat
    <3>1. h - o.count \in Int
      BY <1>2
    <3> QED BY <1>1, <3>1, PlaceType
  <2>10. Place(<<d>> \o t, h - n, k) = PartCounts(o, h - n, o.count - n) + Place(t, h - o.count, k)
    BY <2>5, <2>6, <2>7
  <2>11. Place(q, h, k) = PartCounts(o, h, n) + Place(<<d>> \o t, h - n, k)
    BY <1>3, <1>4, <2>8, <2>9, <2>10
  <2> QED BY <1>1, <2>1, <2>11 DEF o
<1> QED BY <1>5, <1>6

\* q retains the i-th character, if there is one: between the ends on both its
\* sides, what is inserted at them left aside, there is something left.
Retains(q, i) == i \in 1..InputLength(q) => Place(q, i, 0) # Place(q, i-1, 1)

LEMMA RetainsAfterInsertion ==
  ASSUME NEW o \in CompoundOp, IsInsert(o), NEW t \in Operations, NEW i \in Nat,
         Retains(<<o>> \o t, i)
  PROVE  Retains(t, i)
<1>1. <<o>> \o t \in Operations /\ ExpectedInputSize(o) = 0
      /\ InputLength(<<o>> \o t) = InputLength(t)
  <2>1. <<o>> \in Operations /\ InputLength(<<o>>) = ExpectedInputSize(o) /\ ExpectedInputSize(o) = 0
    BY OneOperation, Sizes
  <2>2. <<o>> \o t \in Operations
    BY <2>1, ConcatProperties DEF Operations
  <2>3. InputLength(<<o>> \o t) = InputLength(<<o>>) + InputLength(t) /\ InputLength(t) \in Nat
    BY <2>1, InputLengthConcat, InputLengthType
  <2> QED BY <2>1, <2>2, <2>3
<1> SUFFICES ASSUME i \in 1..InputLength(t) PROVE Place(t, i, 0) # Place(t, i-1, 1)
  BY DEF Retains
<1>2. Place(<<o>> \o t, i, 0) # Place(<<o>> \o t, i-1, 1)
  BY <1>1 DEF Retains
<1>3. /\ Place(<<o>> \o t, i, 0) = Counts(o, i, 0) + Place(t, i - 0, 0)
      /\ Place(<<o>> \o t, i-1, 1) = Counts(o, i-1, 1) + Place(t, (i-1) - 0, 1)
  BY <1>1, PlaceFirst
<1>4. Counts(o, i, 0) = Counts(o, i-1, 1)
  <2>1. i + 0 > 0 /\ (i-1) + 1 > 0
    OBVIOUS
  <2>2. Counts(o, i, 0) = Width(o) /\ Counts(o, i-1, 1) = Width(o)
    BY <2>1 DEF Counts, IsInsert
  <2> QED BY <2>2
<1>5. i - 0 = i /\ (i-1) - 0 = i-1
  OBVIOUS
<1> QED BY <1>2, <1>3, <1>4, <1>5

LEMMA RetainsRest ==
  ASSUME NEW q \in Operations, q # <<>>, ~IsInsert(Head(q)), NEW n \in 1..Width(Head(q)),
         NEW i \in Nat, Retains(q, i)
  PROVE  /\ i > n => Retains(Rest(q, n), i - n)
         /\ i \in 1..n => Head(q).kind = "Retain"
<1> DEFINE r == Rest(q, n)
           o == Head(q)
<1>1. r \in Operations /\ InputLength(r) = InputLength(q) - n /\ InputLength(q) \in Nat
      /\ InputLength(r) \in Nat /\ n \in Nat \ {0}
  <2>1. r \in Operations /\ InputLength(r) = InputLength(q) - n
    BY RestType
  <2>2. Width(o) \in Nat
    BY FirstOperation, Sizes
  <2> HIDE DEF r, o
  <2>3. InputLength(r) \in Nat /\ InputLength(q) \in Nat
    BY <2>1, InputLengthType
  <2> QED BY <2>1, <2>2, <2>3 DEF o
<1>2. /\ Place(q, i, 0) = PartCounts(o, i, n) + Place(r, i - n, 0)
      /\ Place(q, i-1, 1) = PartCounts(o, i-1, n) + Place(r, (i-1) - n, 1)
  BY PlaceRest
<1> HIDE DEF r, o
<1>3. ASSUME i > n PROVE Retains(r, i - n)
  <2> SUFFICES ASSUME i - n \in 1..InputLength(r) PROVE Place(r, i - n, 0) # Place(r, (i - n) - 1, 1)
    BY DEF Retains
  <2>1. i \in 1..InputLength(q)
    BY <1>1, <1>3
  <2>2. Place(q, i, 0) # Place(q, i-1, 1)
    BY <2>1 DEF Retains
  <2>3. PartCounts(o, i, n) = PartCounts(o, i-1, n)
    BY <1>1, <1>3 DEF PartCounts, Least
  <2>4. (i - n) - 1 = (i-1) - n
    BY <1>1
  <2> QED BY <1>2, <2>2, <2>3, <2>4
<1>4. ASSUME i \in 1..n, o.kind # "Retain" PROVE FALSE
  <2>1. i \in 1..InputLength(q)
    BY <1>1, <1>4
  <2>2. Place(q, i, 0) # Place(q, i-1, 1)
    BY <2>1 DEF Retains
  <2>3. PartCounts(o, i, n) = 0 /\ PartCounts(o, i-1, n) = 0
    BY <1>4 DEF PartCounts
  <2>4. i - n \in Int /\ (i - n) + 0 <= 0 /\ (i-1) - n \in Int /\ ((i-1) - n) + 1 <= 0
    BY <1>1, <1>4
  <2>5. Place(r, i - n, 0) = 0 /\ Place(r, (i-1) - n, 1) = 0
    BY <1>1, <2>4, PlaceType
  <2> QED BY <1>2, <2>2, <2>3, <2>5
<1> QED BY <1>3, <1>4 DEF r, o

\* An end that is where the other user's text is: what w makes of p's operations
\* takes it to one place in both orders, if both retain the character that stands
\* behind it, or, if nothing is inserted before it at its place, before it.
PlacesAgree(p, w) ==
  /\ w[1] \in Operations /\ w[2] \in Operations
  /\ \A h \in 0..InputLength(p[1]), k \in {0, 1} :
       Retains(p[1], h + k) /\ Retains(p[2], h + k)
         => Place(w[2], Place(p[1], h, k), k) = Place(w[1], Place(p[2], h, k), k)

\* What is inserted before an end stays before it, also after the other operation.
LEMMA InsertionPlaces ==
  ASSUME NEW o \in CompoundOp, IsInsert(o), NEW t \in Operations, NEW q \in Operations,
         NEW v1 \in Operations, NEW v2 \in Operations,
         NEW h \in 0..InputLength(q), NEW k \in {0, 1}, Retains(q, h + k),
         Place(v2, Place(t, h, k), k) = Place(v1, Place(q, h, k), k)
  PROVE  Place(<<Retain(Width(o))>> \o v2, Place(<<o>> \o t, h, k), k)
           = Place(<<o>> \o v1, Place(q, h, k), k)
<1> DEFINE w == Width(o)
           r == Retain(w)
           x == Place(t, h, k)
           y == Place(q, h, k)
<1>1. w \in Nat \ {0} /\ ExpectedInputSize(o) = 0 /\ InputLength(q) \in Nat /\ h \in Nat
  <2>1. InputLength(q) \in Nat
    BY InputLengthType
  <2> QED BY <2>1, Sizes
<1>2. x \in Nat /\ y \in Nat /\ (h + k <= 0 => x = 0 /\ y = 0)
  <2>1. h \in Int
    BY <1>1
  <2> QED BY <2>1, PlaceType
<1> HIDE DEF w
<1>3. r \in CompoundOp /\ ~IsInsert(r) /\ r.kind = "Retain" /\ ExpectedInputSize(r) = w /\ Width(r) = w
  <2>1. r \in CompoundOp /\ ~IsInsert(r) /\ r.kind = "Retain" /\ ExpectedInputSize(r) = w
    BY <1>1, RetainType
  <2> HIDE DEF r
  <2> QED BY <2>1, Sizes
<1> HIDE DEF r, x, y
<1> DEFINE x1 == Place(<<o>> \o t, h, k)
<1>4. x1 = Counts(o, h, k) + x
  <2>1. x1 = Counts(o, h, k) + Place(t, h - 0, k)
    BY <1>1, PlaceFirst
  <2>2. h - 0 = h
    BY <1>1
  <2> QED BY <2>1, <2>2 DEF x
<1>5. Place(<<o>> \o v1, y, k) = Counts(o, y, k) + Place(v1, y, k)
  <2>1. Place(<<o>> \o v1, y, k) = Counts(o, y, k) + Place(v1, y - 0, k)
    BY <1>1, <1>2, PlaceFirst
  <2>2. y - 0 = y
    BY <1>2
  <2> QED BY <2>1, <2>2
<1>6. /\ Counts(o, h, k) = IF h + k > 0 THEN w ELSE 0
      /\ Counts(o, y, k) = IF y + k > 0 THEN w ELSE 0
  BY DEF Counts, IsInsert, w
<1> HIDE DEF x1
<1>7. CASE h + k > 0
  <2>1. y + k > 0
    <3>1. CASE k = 1
      BY <1>2, <3>1
    <3>2. CASE k = 0
      <4>1. h + k = h /\ h \in 1..InputLength(q) /\ h-1 \in Int /\ h-1 <= h /\ (h-1) + 1 <= h + 0
        BY <1>1, <1>7, <3>2
      <4>2. Place(q, h, 0) # Place(q, h-1, 1)
        BY <4>1 DEF Retains
      <4>3. Place(q, h-1, 1) <= Place(q, h, 0)
        BY <1>1, <4>1, PlacesGrow
      <4>4. Place(q, h, 0) \in Nat /\ Place(q, h-1, 1) \in Nat
        <5>1. h \in Int /\ 0 \in {0, 1} /\ 1 \in {0, 1}
          BY <1>1
        <5> QED BY <4>1, <5>1, PlaceType
      <4> QED BY <3>2, <4>2, <4>3, <4>4 DEF y
    <3> QED BY <3>1, <3>2
  <2>2. x1 = w + x /\ Place(<<o>> \o v1, y, k) = w + Place(v1, y, k)
    BY <1>4, <1>5, <1>6, <1>7, <2>1
  <2>3. Place(<<r>> \o v2, w + x, k) = Counts(r, w + x, k) + Place(v2, (w + x) - w, k)
    <3>1. w + x \in Int
      BY <1>1, <1>2
    <3> QED BY <1>3, <3>1, PlaceFirst
  <2>4. (w + x) - w = x /\ w + x > 0 /\ Least(w, w + x) = w
    BY <1>1, <1>2 DEF Least
  <2>5. Counts(r, w + x, k) = w
    BY <1>3, <2>4 DEF Counts, IsInsert
  <2> QED BY <2>2, <2>3, <2>4, <2>5 DEF r, x, x1, y, w
<1>8. CASE ~(h + k > 0)
  <2>1. h + k <= 0 /\ y + k <= 0 /\ x1 = 0
    BY <1>1, <1>2, <1>4, <1>6, <1>8
  <2>2. <<r>> \o v2 \in Operations /\ <<o>> \o v1 \in Operations
    BY <1>1, <1>3, PlaceFirst
  <2>3. Place(<<r>> \o v2, x1, k) = 0 /\ Place(<<o>> \o v1, y, k) = 0
    <3>1. x1 \in Int /\ x1 + k <= 0
      BY <1>2, <2>1
    <3> QED BY <1>2, <2>1, <2>2, <3>1, PlaceType
  <2> QED BY <2>3 DEF r, x, x1, y, w
<1> QED BY <1>7, <1>8

LEMMA Insert1Agrees ==
  ASSUME NEW p \in Pairs, Inserts(p[1]), InputLength(p[1]) = InputLength(p[2]),
         NEW v, PlacesAgree(After1(p), v)
  PROVE  PlacesAgree(p, Emitted(<<<<Head(p[1])>>, <<Retain(Width(Head(p[1])))>>>>, v))
<1> DEFINE o == Head(p[1])
           t == Tail(p[1])
           r == Retain(Width(o))
           w1 == <<o>> \o v[1]
           w2 == <<r>> \o v[2]
<1>1. /\ p[1] \in Operations /\ p[2] \in Operations /\ IsInsert(o) /\ o \in CompoundOp
      /\ t \in Operations /\ p[1] = <<o>> \o t /\ ExpectedInputSize(o) = 0
      /\ InputLength(p[1]) = ExpectedInputSize(o) + InputLength(t)
  <2>1. p[1] \in Operations /\ p[2] \in Operations /\ p[1] # <<>> /\ IsInsert(o)
    BY SizeType DEF Inserts
  <2>2. /\ o \in CompoundOp /\ t \in Operations /\ p[1] = <<o>> \o t
        /\ InputLength(p[1]) = ExpectedInputSize(o) + InputLength(t)
    BY <2>1, FirstOperation
  <2> QED BY <2>1, <2>2, Sizes
<1>2. After1(p) = <<t, p[2]>>
  BY DEF After1
<1> HIDE DEF o, t
<1>3. InputLength(t) = InputLength(p[1])
  BY <1>1, InputLengthType
<1>4. r \in CompoundOp
  BY <1>1, Sizes, RetainType
<1> HIDE DEF r
<1>5. /\ v[1] \in Operations /\ v[2] \in Operations
      /\ \A h \in 0..InputLength(t), k \in {0, 1} :
           Retains(t, h + k) /\ Retains(p[2], h + k)
             => Place(v[2], Place(t, h, k), k) = Place(v[1], Place(p[2], h, k), k)
  BY <1>2 DEF PlacesAgree
<1>6. w1 \in Operations /\ w2 \in Operations
  BY <1>1, <1>4, <1>5, PlaceFirst
<1>7. ASSUME NEW h \in 0..InputLength(p[1]), NEW k \in {0, 1},
             Retains(p[1], h + k), Retains(p[2], h + k)
      PROVE  Place(w2, Place(p[1], h, k), k) = Place(w1, Place(p[2], h, k), k)
  <2>1. h + k \in Nat
    BY <1>1, InputLengthType
  <2>2. Retains(t, h + k)
    BY <1>1, <1>7, <2>1, RetainsAfterInsertion
  <2>3. Place(v[2], Place(t, h, k), k) = Place(v[1], Place(p[2], h, k), k)
    BY <1>3, <1>5, <1>7, <2>2
  <2>4. h \in 0..InputLength(p[2])
    OBVIOUS
  <2>5. Place(<<r>> \o v[2], Place(<<o>> \o t, h, k), k) = Place(<<o>> \o v[1], Place(p[2], h, k), k)
    BY <1>1, <1>5, <1>7, <2>3, <2>4, InsertionPlaces DEF r
  <2> QED BY <1>1, <2>5, Zenon
<1> HIDE DEF w1, w2
<1>8. PlacesAgree(p, <<w1, w2>>)
  BY <1>6, <1>7 DEF PlacesAgree
<1> QED BY <1>8 DEF Emitted, w1, w2, o, r

LEMMA Insert2Agrees ==
  ASSUME NEW p \in Pairs, Inserts(p[2]), InputLength(p[1]) = InputLength(p[2]),
         NEW v, PlacesAgree(After2(p), v)
  PROVE  PlacesAgree(p, Emitted(<<<<Retain(Width(Head(p[2])))>>, <<Head(p[2])>>>>, v))
<1> DEFINE o == Head(p[2])
           t == Tail(p[2])
           r == Retain(Width(o))
           w1 == <<r>> \o v[1]
           w2 == <<o>> \o v[2]
<1>1. /\ p[1] \in Operations /\ p[2] \in Operations /\ IsInsert(o) /\ o \in CompoundOp
      /\ t \in Operations /\ p[2] = <<o>> \o t
  <2>1. p[1] \in Operations /\ p[2] \in Operations /\ p[2] # <<>> /\ IsInsert(o)
    BY SizeType DEF Inserts
  <2>2. o \in CompoundOp /\ t \in Operations /\ p[2] = <<o>> \o t
    BY <2>1, FirstOperation
  <2> QED BY <2>1, <2>2
<1>2. After2(p) = <<p[1], t>>
  BY DEF After2
<1> HIDE DEF o, t
<1>4. r \in CompoundOp
  BY <1>1, Sizes, RetainType
<1> HIDE DEF r
<1>5. /\ v[1] \in Operations /\ v[2] \in Operations
      /\ \A h \in 0..InputLength(p[1]), k \in {0, 1} :
           Retains(p[1], h + k) /\ Retains(t, h + k)
             => Place(v[2], Place(p[1], h, k), k) = Place(v[1], Place(t, h, k), k)
  BY <1>2 DEF PlacesAgree
<1>6. w1 \in Operations /\ w2 \in Operations
  BY <1>1, <1>4, <1>5, PlaceFirst
<1>7. ASSUME NEW h \in 0..InputLength(p[1]), NEW k \in {0, 1},
             Retains(p[1], h + k), Retains(p[2], h + k)
      PROVE  Place(w2, Place(p[1], h, k), k) = Place(w1, Place(p[2], h, k), k)
  <2>1. h + k \in Nat
    BY <1>1, InputLengthType
  <2>2. Retains(t, h + k)
    BY <1>1, <1>7, <2>1, RetainsAfterInsertion
  <2>3. Place(v[1], Place(t, h, k), k) = Place(v[2], Place(p[1], h, k), k)
    BY <1>5, <1>7, <2>2
  <2>5. Place(<<r>> \o v[1], Place(<<o>> \o t, h, k), k) = Place(<<o>> \o v[2], Place(p[1], h, k), k)
    BY <1>1, <1>5, <1>7, <2>3, InsertionPlaces DEF r
  <2> QED BY <1>1, <2>5, Zenon
<1> HIDE DEF w1, w2
<1>8. PlacesAgree(p, <<w1, w2>>)
  BY <1>6, <1>7 DEF PlacesAgree
<1> QED BY <1>8 DEF Emitted, w1, w2, o, r

\* How what a round emits passes an end that is n characters or more ahead.
LEMMA PassedOn ==
  ASSUME NEW n \in Nat \ {0}, NEW v \in Operations, NEW x \in Nat, NEW k \in {0, 1}
  PROVE  /\ Place(<<Retain(n)>> \o v, n + x, k) = n + Place(v, x, k)
         /\ Place(<<Delete(n)>> \o v, n + x, k) = Place(v, x, k)
         /\ Place(<<>> \o v, x, k) = Place(v, x, k)
<1> DEFINE r == Retain(n)
           d == Delete(n)
<1>1. /\ r \in CompoundOp /\ ~IsInsert(r) /\ r.kind = "Retain" /\ ExpectedInputSize(r) = n
      /\ d \in CompoundOp /\ ~IsInsert(d) /\ d.kind = "Delete" /\ ExpectedInputSize(d) = n
  BY RetainType
<1> HIDE DEF r, d
<1>2. Width(r) = n
  BY <1>1, Sizes
<1>3. /\ Place(<<r>> \o v, n + x, k) = Counts(r, n + x, k) + Place(v, (n + x) - n, k)
      /\ Place(<<d>> \o v, n + x, k) = Counts(d, n + x, k) + Place(v, (n + x) - n, k)
  <2>1. n + x \in Int
    OBVIOUS
  <2> QED BY <1>1, <2>1, PlaceFirst
<1>4. (n + x) - n = x /\ n + x > 0 /\ Least(n, n + x) = n
  BY DEF Least
<1>5. Counts(r, n + x, k) = n /\ Counts(d, n + x, k) = 0
  BY <1>1, <1>2, <1>4 DEF Counts, IsInsert
<1>6. Place(v, x, k) \in Nat
  BY PlaceType
<1>7. <<>> \o v = v
  BY ConcatEmptySeq DEF Operations
<1> QED BY <1>3, <1>4, <1>5, <1>6, <1>7 DEF r, d

\* What is retained of n characters.
Retained(kind, n) == IF kind = "Retain" THEN n ELSE 0

LEMMA EmittedPlaces ==
  ASSUME NEW k1 \in {"Retain", "Delete"}, NEW k2 \in {"Retain", "Delete"}, NEW n \in Nat \ {0},
         NEW e, e = Overlap(k1, k2, n), NEW v1 \in Operations, NEW v2 \in Operations,
         NEW x1 \in Nat, NEW x2 \in Nat, NEW k \in {0, 1}, Place(v2, x1, k) = Place(v1, x2, k)
  PROVE  Place(e[2] \o v2, Retained(k1, n) + x1, k) = Place(e[1] \o v1, Retained(k2, n) + x2, k)
<1> DEFINE r == Retain(n)
           d == Delete(n)
<1>1. /\ Place(<<r>> \o v1, n + x2, k) = n + Place(v1, x2, k)
      /\ Place(<<d>> \o v1, n + x2, k) = Place(v1, x2, k)
      /\ Place(<<>> \o v1, x2, k) = Place(v1, x2, k)
      /\ Place(<<r>> \o v2, n + x1, k) = n + Place(v2, x1, k)
      /\ Place(<<d>> \o v2, n + x1, k) = Place(v2, x1, k)
      /\ Place(<<>> \o v2, x1, k) = Place(v2, x1, k)
  BY PassedOn
<1>2. e = Overlap(k1, k2, n)
  OBVIOUS
<1>3. 0 + x1 = x1 /\ 0 + x2 = x2
  OBVIOUS
<1> HIDE DEF r, d
<1>4. CASE k1 = "Retain" /\ k2 = "Retain"
  <2>1. e[1] = <<r>> /\ e[2] = <<r>> /\ Retained(k1, n) = n /\ Retained(k2, n) = n
    BY <1>2, <1>4 DEF Overlap, Retained, r, d
  <2> QED BY <1>1, <2>1, Zenon
<1>5. CASE k1 = "Delete" /\ k2 = "Delete"
  <2>1. e[1] = <<>> /\ e[2] = <<>> /\ Retained(k1, n) = 0 /\ Retained(k2, n) = 0
    BY <1>2, <1>5 DEF Overlap, Retained
  <2> QED BY <1>1, <1>3, <2>1, Zenon
<1>6. CASE k1 = "Delete" /\ k2 = "Retain"
  <2>1. e[1] = <<d>> /\ e[2] = <<>> /\ Retained(k1, n) = 0 /\ Retained(k2, n) = n
    BY <1>2, <1>6 DEF Overlap, Retained, r, d
  <2> QED BY <1>1, <1>3, <2>1, Zenon
<1>7. CASE k1 = "Retain" /\ k2 = "Delete"
  <2>1. e[1] = <<>> /\ e[2] = <<d>> /\ Retained(k1, n) = n /\ Retained(k2, n) = 0
    BY <1>2, <1>7, SMTT(30) DEF Overlap, Retained, r, d
  <2> QED BY <1>1, <1>3, <2>1, Zenon
<1> QED BY <1>4, <1>5, <1>6, <1>7

LEMMA OverlapAgrees ==
  ASSUME NEW p \in Pairs, Overlaps(p), InputLength(p[1]) = InputLength(p[2]),
         NEW v, PlacesAgree(AfterBoth(p), v)
  PROVE  PlacesAgree(p, Emitted(Overlap(Head(p[1]).kind, Head(p[2]).kind, Overlapping(p)), v))
<1> DEFINE o1 == Head(p[1])
           o2 == Head(p[2])
           n  == Overlapping(p)
           r1 == Rest(p[1], n)
           r2 == Rest(p[2], n)
           e  == Overlap(o1.kind, o2.kind, n)
           w1 == e[1] \o v[1]
           w2 == e[2] \o v[2]
           N  == InputLength(p[1])
<1>1. /\ p[1] \in Operations /\ p[1] # <<>> /\ ~IsInsert(o1) /\ o1 \in CompoundOp
      /\ p[2] \in Operations /\ p[2] # <<>> /\ ~IsInsert(o2) /\ o2 \in CompoundOp
      /\ n \in Nat \ {0} /\ n \in 1..Width(o1) /\ n \in 1..Width(o2)
  BY OverlapType
<1>2. AfterBoth(p) = <<r1, r2>>
  BY DEF AfterBoth
<1> HIDE DEF n
<1>3. /\ r1 \in Operations /\ InputLength(r1) = N - n /\ r2 \in Operations
      /\ N \in Nat /\ N = InputLength(p[2])
  BY <1>1, RestType, InputLengthType
<1>4. /\ o1.kind \in {"Retain", "Delete"} /\ o2.kind \in {"Retain", "Delete"}
  BY <1>1, Sizes
<1>5. ASSUME NEW h \in Int, NEW k \in {0, 1}
      PROVE  /\ Place(p[1], h, k) = PartCounts(o1, h, n) + Place(r1, h - n, k)
             /\ Place(p[2], h, k) = PartCounts(o2, h, n) + Place(r2, h - n, k)
  BY <1>1, PlaceRest
<1>6. ASSUME NEW i \in Nat, Retains(p[1], i), Retains(p[2], i)
      PROVE  /\ i > n => Retains(r1, i - n) /\ Retains(r2, i - n)
             /\ i \in 1..n => o1.kind = "Retain" /\ o2.kind = "Retain"
  BY <1>1, <1>6, RetainsRest
<1> HIDE DEF o1, o2, r1, r2
<1>7. /\ v[1] \in Operations /\ v[2] \in Operations
      /\ \A h \in 0..InputLength(r1), k \in {0, 1} :
           Retains(r1, h + k) /\ Retains(r2, h + k)
             => Place(v[2], Place(r1, h, k), k) = Place(v[1], Place(r2, h, k), k)
  BY <1>2 DEF PlacesAgree
<1>8. e \in Pairs /\ e[1] \in Operations /\ e[2] \in Operations
  <2>1. e \in Pairs
    BY <1>1, <1>4, OverlapPair
  <2> QED BY <2>1, SizeType
<1>9. w1 \in Operations /\ w2 \in Operations
  <2> HIDE DEF e
  <2> QED BY <1>7, <1>8, ConcatProperties DEF Operations
<1>10. ASSUME NEW h \in 0..N, NEW k \in {0, 1}, Retains(p[1], h + k), Retains(p[2], h + k)
       PROVE  Place(w2, Place(p[1], h, k), k) = Place(w1, Place(p[2], h, k), k)
  <2>1. h \in Nat /\ h <= N /\ h + k \in Nat /\ h - n \in Int
    BY <1>1, <1>3
  <2> HIDE DEF N, e, w1, w2
  <2>2. CASE h >= n
    <3> DEFINE i == h - n
               x1 == Place(r1, i, k)
               x2 == Place(r2, i, k)
    <3>1. i \in 0..InputLength(r1) /\ i \in Int
      BY <1>1, <1>3, <2>1, <2>2
    <3>2. PartCounts(o1, h, n) = Retained(o1.kind, n) /\ PartCounts(o2, h, n) = Retained(o2.kind, n)
      BY <1>1, <2>1, <2>2 DEF PartCounts, Retained, Least
    <3>3. Retains(r1, i + k) /\ Retains(r2, i + k)
      <4>1. CASE h + k > n
        <5>1. (h + k) - n = i + k
          BY <1>1, <2>1
        <5> HIDE DEF i
        <5> QED BY <1>6, <1>10, <2>1, <4>1, <5>1
      <4>2. CASE ~(h + k > n)
        <5>1. i + k = 0 /\ 0 \notin 1..InputLength(r1) /\ 0 \notin 1..InputLength(r2)
          BY <1>1, <2>1, <2>2, <4>2
        <5> QED BY <5>1, Zenon DEF Retains
      <4> QED BY <4>1, <4>2
    <3> HIDE DEF i
    <3>4. x1 \in Nat /\ x2 \in Nat
      BY <1>3, <3>1, PlaceType
    <3>5. Place(v[2], x1, k) = Place(v[1], x2, k)
      BY <1>7, <3>1, <3>3
    <3>6. /\ Place(p[1], h, k) = Retained(o1.kind, n) + x1
          /\ Place(p[2], h, k) = Retained(o2.kind, n) + x2
      BY <1>5, <2>1, <3>2 DEF i
    <3> HIDE DEF x1, x2
    <3>7. /\ Place(e[2] \o v[2], Retained(o1.kind, n) + x1, k)
               = Place(e[1] \o v[1], Retained(o2.kind, n) + x2, k)
      BY <1>1, <1>4, <1>7, <3>4, <3>5, EmittedPlaces DEF e
    <3> QED BY <3>6, <3>7, Zenon DEF w1, w2
  <2>3. CASE ~(h >= n) /\ h + k > 0
    <3>1. h + k \in 1..n /\ (h - n) + k <= 0
      BY <1>1, <2>1, <2>3
    <3>2. o1.kind = "Retain" /\ o2.kind = "Retain"
      BY <1>6, <1>10, <2>1, <3>1
    <3>3. Place(r1, h - n, k) = 0 /\ Place(r2, h - n, k) = 0
      BY <1>3, <2>1, <3>1, PlaceType
    <3>4. PartCounts(o1, h, n) = h /\ PartCounts(o2, h, n) = h
      BY <1>1, <2>1, <2>3, <3>2 DEF PartCounts, Least
    <3>5. Place(p[1], h, k) = h /\ Place(p[2], h, k) = h
      BY <1>5, <2>1, <3>3, <3>4
    <3> DEFINE r == Retain(n)
    <3>6. e[1] = <<r>> /\ e[2] = <<r>>
      BY <3>2 DEF e, Overlap
    <3>7. r \in CompoundOp /\ ~IsInsert(r) /\ r.kind = "Retain" /\ ExpectedInputSize(r) = n
      BY <1>1, RetainType
    <3> HIDE DEF r
    <3>8. Width(r) = n
      BY <3>7, Sizes
    <3>9. /\ Place(<<r>> \o v[1], h, k) = Counts(r, h, k) + Place(v[1], h - n, k)
          /\ Place(<<r>> \o v[2], h, k) = Counts(r, h, k) + Place(v[2], h - n, k)
      BY <1>7, <2>1, <3>7, PlaceFirst
    <3>10. Place(v[1], h - n, k) = 0 /\ Place(v[2], h - n, k) = 0
      BY <1>7, <2>1, <3>1, PlaceType
    <3> QED BY <3>5, <3>6, <3>9, <3>10, Zenon DEF w1, w2
  <2>4. CASE h + k <= 0
    <3>0. h \in Int /\ k \in {0, 1} /\ p[1] \in Operations /\ p[2] \in Operations
      BY <1>1, <2>1
    <3>1. Place(p[1], h, k) = 0 /\ Place(p[2], h, k) = 0
      BY <2>4, <3>0, PlaceType
    <3>2. 0 \in Int /\ 0 + k <= 0
      BY <2>1, <2>4
    <3>3. Place(w2, 0, k) = 0 /\ Place(w1, 0, k) = 0
      BY <1>9, <3>2, PlaceType
    <3> QED BY <3>1, <3>3
  <2> QED BY <2>1, <2>2, <2>3, <2>4
<1> HIDE DEF w1, w2, e
<1>11. PlacesAgree(p, <<w1, w2>>)
  BY <1>9, <1>10 DEF PlacesAgree
<1> QED BY <1>11 DEF Emitted, w1, w2, e, o1, o2, n

LEMMA EndAgrees ==
  ASSUME NEW p \in Pairs, InputLength(p[1]) = InputLength(p[2]), Finished(p)
  PROVE  PlacesAgree(p, <<<<>>, <<>>>>)
<1>1. p[1] \in Operations /\ p[2] \in Operations /\ ~Inserts(p[1]) /\ ~Inserts(p[2])
  BY SizeType DEF Finished
<1>2. p[1] = <<>> \/ p[2] = <<>>
  BY DEF Finished, Overlaps
<1>3. InputLength(p[1]) = 0 /\ InputLength(p[2]) = 0
  BY <1>2, InputLengthEmpty
<1>4. p[1] = <<>> /\ p[2] = <<>>
  BY <1>1, <1>3, ReadsSomething
<1> QED BY <1>4, Nothing DEF PlacesAgree

\* The walk of transform takes an end to one place in both orders, by the same
\* induction.
LEMMA WalkAgrees ==
  ASSUME NEW p \in Pairs, InputLength(p[1]) = InputLength(p[2])
  PROVE  PlacesAgree(p, TransformOps[p])
<1> DEFINE Matched(q) == InputLength(q[1]) = InputLength(q[2])
           S == {j \in Nat : \A q \in Pairs : Size(q) <= j /\ Matched(q) => PlacesAgree(q, TransformOps[q])}
<1>1. ASSUME NEW q \in Pairs, Matched(q),
             \A r \in Pairs : Size(r) < Size(q) /\ Matched(r) => PlacesAgree(r, TransformOps[r])
      PROVE  PlacesAgree(q, TransformOps[q])
  <2> SUFFICES PlacesAgree(q, TransformRound(TransformOps, q))
    BY TransformDefined
  <2>1. q[1] \in Operations /\ q[2] \in Operations /\ InputLength(q[1]) \in Nat
    BY SizeType
  <2>2. CASE Inserts(q[1])
    <3> DEFINE w == TransformOps[After1(q)]
               e == <<<<Head(q[1])>>, <<Retain(Width(Head(q[1])))>>>>
    <3>1. InputLength(q[1]) = InputLength(Tail(q[1]))
      <4>1. /\ Head(q[1]) \in CompoundOp /\ IsInsert(Head(q[1])) /\ Tail(q[1]) \in Operations
            /\ InputLength(q[1]) = ExpectedInputSize(Head(q[1])) + InputLength(Tail(q[1]))
        BY <2>1, <2>2, FirstOperation DEF Inserts
      <4> QED BY <4>1, Sizes, InputLengthType
    <3>2. Matched(After1(q))
      BY <1>1, <3>1 DEF After1
    <3>3. PlacesAgree(After1(q), w)
      BY <1>1, <2>2, <3>2, Smaller1
    <3> HIDE DEF w
    <3>4. PlacesAgree(q, Emitted(e, w))
      BY <1>1, <2>2, <3>3, Insert1Agrees
    <3> HIDE DEF e
    <3>5. TransformRound(TransformOps, q) = Emitted(e, w)
      BY <2>2, RoundInsert1, Zenon DEF e, w
    <3> QED BY <3>4, <3>5, Zenon
  <2>3. CASE ~Inserts(q[1]) /\ Inserts(q[2])
    <3> DEFINE w == TransformOps[After2(q)]
               e == <<<<Retain(Width(Head(q[2])))>>, <<Head(q[2])>>>>
    <3>1. InputLength(q[2]) = InputLength(Tail(q[2]))
      <4>1. /\ Head(q[2]) \in CompoundOp /\ IsInsert(Head(q[2])) /\ Tail(q[2]) \in Operations
            /\ InputLength(q[2]) = ExpectedInputSize(Head(q[2])) + InputLength(Tail(q[2]))
        BY <2>1, <2>3, FirstOperation DEF Inserts
      <4> QED BY <4>1, Sizes, InputLengthType
    <3>2. Matched(After2(q))
      BY <1>1, <3>1 DEF After2
    <3>3. PlacesAgree(After2(q), w)
      BY <1>1, <2>3, <3>2, Smaller2
    <3>5. TransformRound(TransformOps, q) = Emitted(e, w)
      BY <2>3, RoundInsert2
    <3> HIDE DEF w
    <3>4. PlacesAgree(q, Emitted(e, w))
      BY <1>1, <2>3, <3>3, Insert2Agrees
    <3> HIDE DEF e
    <3> QED BY <3>4, <3>5, Zenon
  <2>4. CASE Overlaps(q)
    <3> DEFINE w == TransformOps[AfterBoth(q)]
               n == Overlapping(q)
               e == Overlap(Head(q[1]).kind, Head(q[2]).kind, n)
    <3>1. Matched(AfterBoth(q))
      <4>1. /\ InputLength(Rest(q[1], n)) = InputLength(q[1]) - n
            /\ InputLength(Rest(q[2], n)) = InputLength(q[2]) - n
        BY <2>4, OverlapType, RestType
      <4> HIDE DEF n
      <4> QED BY <1>1, <4>1 DEF AfterBoth, n
    <3>2. PlacesAgree(AfterBoth(q), w)
      BY <1>1, <2>4, <3>1, SmallerBoth
    <3>3. TransformRound(TransformOps, q) = Emitted(e, w)
      BY <2>4, RoundOverlap
    <3> HIDE DEF w
    <3>4. PlacesAgree(q, Emitted(e, w))
      BY <1>1, <2>4, <3>2, OverlapAgrees
    <3> HIDE DEF e
    <3> QED BY <3>3, <3>4, Zenon
  <2>5. CASE Finished(q)
    BY <1>1, <2>5, EndAgrees, RoundEnd, Zenon
  <2> QED BY <2>2, <2>3, <2>4, <2>5 DEF Finished
<1> HIDE DEF Matched
<1>2. 0 \in S
  <2> SUFFICES ASSUME NEW q \in Pairs, Size(q) <= 0, Matched(q) PROVE PlacesAgree(q, TransformOps[q])
    OBVIOUS
  <2>1. \A r \in Pairs : ~(Size(r) < Size(q))
    BY SizeType
  <2> QED BY <1>1, <2>1
<1>3. ASSUME NEW j \in Nat, j \in S PROVE j+1 \in S
  <2> SUFFICES ASSUME NEW q \in Pairs, Size(q) <= j+1, Matched(q) PROVE PlacesAgree(q, TransformOps[q])
    OBVIOUS
  <2>1. ASSUME NEW r \in Pairs, Size(r) < Size(q), Matched(r) PROVE PlacesAgree(r, TransformOps[r])
    <3>1. Size(r) <= j
      BY <2>1, SizeType
    <3> QED BY <1>3, <2>1, <3>1
  <2> QED BY <1>1, <2>1
<1>4. Nat \subseteq S
  <2> HIDE DEF S
  <2> QED BY <1>2, <1>3, Induction
<1>5. Size(p) \in S /\ Size(p) <= Size(p) /\ Matched(p)
  BY <1>4, SizeType DEF Matched
<1> QED BY <1>5

\* What an operation moves an end by and what it reads before the end is what it
\* writes before it.
LEMMA PassedCounts ==
  ASSUME NEW o \in CompoundOp, NEW idx \in Nat, NEW e \in Nat, NEW k \in {0, 1}
  PROVE  Passed(e, 2 * e + k, idx, o) = Counts(o, e - idx, k)
<1> DEFINE b == 2 * e + k
           w == Width(o)
           d == ReadThen(idx, o)
           p == Passed(e, b, idx, o)
           c == Counts(o, e - idx, k)
<1>1. w \in Nat \ {0} /\ b \in Nat
  BY Sizes
<1>2. p = Moved(e, b, idx, o) + Ahead(e, idx) - Ahead(e, d)
  BY DEF Passed
<1>3. IF IsInsert(o) THEN d = idx ELSE d = idx + w
  BY Sizes DEF ReadThen
<1>4. /\ Ahead(e, idx) = IF idx < e THEN e - idx ELSE 0
      /\ Ahead(e, idx + w) = IF idx + w < e THEN e - (idx + w) ELSE 0
  BY DEF Ahead
<1>5. 2 * idx + 1 <= b <=> (e - idx) + k > 0
  BY DEF b
<1>6. CASE IsInsert(o)
  <2>1. o.kind # "Retain" /\ o.kind # "Delete"
    BY <1>6 DEF IsInsert
  <2>2. Moved(e, b, idx, o) = IF 2 * idx + 1 <= b THEN w ELSE 0
    BY <1>6, <2>1 DEF Moved
  <2>3. c = IF (e - idx) + k > 0 THEN w ELSE 0
    BY <1>6, <2>1 DEF Counts
  <2>4. Ahead(e, d) = Ahead(e, idx) /\ Ahead(e, idx) \in Int
    BY <1>3, <1>4, <1>6
  <2> HIDE DEF b, w, d, p, c
  <2>5. p = c
    BY <1>1, <1>2, <1>5, <2>2, <2>3, <2>4
  <2> QED BY <2>5 DEF p, c, b
<1>7. CASE o.kind = "Retain"
  <2>1. ~IsInsert(o)
    BY <1>7 DEF IsInsert
  <2>2. Moved(e, b, idx, o) = 0
    BY <1>7, <2>1 DEF Moved
  <2>3. c = IF e - idx > 0 THEN Least(w, e - idx) ELSE 0
    BY <1>7, <2>1 DEF Counts
  <2> HIDE DEF b, w, d, p, c
  <2>4. d = idx + w
    BY <1>3, <2>1
  <2>5. p = c
    BY <1>1, <1>2, <1>4, <2>2, <2>3, <2>4 DEF Least
  <2> QED BY <2>5 DEF p, c, b
<1>8. CASE o.kind = "Delete"
  <2>1. ~IsInsert(o)
    BY <1>8 DEF IsInsert
  <2>2. Moved(e, b, idx, o) = 0 - Least(w, Ahead(e, idx))
    BY <1>8, <2>1 DEF Moved
  <2>3. c = 0
    BY <1>8, <2>1 DEF Counts
  <2> HIDE DEF b, w, d, p, c
  <2>4. d = idx + w
    BY <1>3, <2>1
  <2>5. p = c
    BY <1>1, <1>2, <1>4, <2>2, <2>3, <2>4 DEF Least
  <2> QED BY <2>5 DEF p, c, b
<1> QED BY <1>6, <1>7, <1>8, Sizes

\* So an end moved from one operation to the next is at last at its place.
LEMMA EndPlaced ==
  ASSUME NEW q \in Operations, NEW g, IsInputSum(g, q), InputLength(q) = g[Len(q)],
         NEW e \in Nat, e <= InputLength(q), NEW k \in {0, 1},
         NEW m, m[0] = e,
         \A n \in 1..Len(q) : m[n] \in Int /\ m[n] = m[n-1] + Moved(e, 2 * e + k, g[n-1], q[n])
  PROVE  m[Len(q)] = Place(q, e, k)
<1>1. /\ Len(q) \in Nat /\ \A n \in 1..Len(q) : q[n] \in CompoundOp
      /\ g[0] = 0 /\ \A n \in 1..Len(q) : g[n-1] \in Nat /\ g[n] = ReadThen(g[n-1], q[n])
      /\ \A n \in 0..Len(q) : g[n] \in Nat
  <2>1. Len(q) \in Nat /\ \A n \in 1..Len(q) : q[n] \in CompoundOp /\ n-1 \in 0..Len(q)
    BY DEF Operations
  <2>2. \A n \in 0..Len(q) : g[n] \in Nat
    BY SumsGrow
  <2>3. g[0] = 0 /\ \A n \in 1..Len(q) : g[n] = g[n-1] + ExpectedInputSize(q[n])
    BY InputSumStep
  <2> QED BY <2>1, <2>2, <2>3 DEF ReadThen
<1>2. PICK f : IsEnd(f, q, e, k) /\ EndAfter(q, e, k) = f[Len(q)]
  BY EndRun
<1>3. f[0] = Start(e) /\ \A n \in 1..Len(q) : f[n] = Beyond(f[n-1], q[n], k)
  BY <1>2, EndSteps
<1>4. \A n \in 0..Len(q) : m[n] \in Int
  <2> SUFFICES ASSUME NEW n \in 0..Len(q) PROVE m[n] \in Int
    OBVIOUS
  <2>1. n = 0 \/ n \in 1..Len(q)
    BY <1>1
  <2> QED BY <2>1
<1> DEFINE At(n) == /\ f[n].ahead = e - g[n] /\ f[n].place \in Int
                    /\ m[n] - Ahead(e, g[n]) = f[n].place
           S == {n \in Nat : n <= Len(q) => At(n)}
<1>5. 0 \in S
  <2>1. f[0].ahead = e /\ f[0].place = 0
    BY <1>3 DEF Start
  <2>2. Ahead(e, 0) = e /\ e - e = 0 /\ e - 0 = e
    BY DEF Ahead
  <2>3. m[0] - Ahead(e, g[0]) = 0 /\ f[0].ahead = e - g[0] /\ g[0] = 0
    BY <1>1, <2>1, <2>2
  <2> QED BY <2>1, <2>3
<1>6. ASSUME NEW n \in Nat, n \in S PROVE n+1 \in S
  <2> SUFFICES ASSUME n+1 <= Len(q) PROVE At(n+1)
    OBVIOUS
  <2>1. n+1 \in 1..Len(q) /\ (n+1)-1 = n /\ n \in 0..Len(q) /\ n <= Len(q)
    BY <1>1
  <2>2. At(n)
    <3> HIDE DEF At
    <3> QED BY <1>6, <2>1
  <2> DEFINE o == q[n+1]
             i == g[n]
             d == ReadThen(i, o)
             a == Ahead(e, i)
             z == Ahead(e, d)
             c == Counts(o, e - i, k)
             v == Moved(e, 2 * e + k, i, o)
  <2>3. o \in CompoundOp /\ i \in Nat /\ g[n+1] = d /\ m[n] \in Int /\ m[n+1] \in Int
    BY <1>1, <1>4, <2>1
  <2>4. f[n+1] = Beyond(f[n], o, k) /\ m[n+1] = m[n] + v
    BY <1>3, <2>1
  <2> HIDE DEF o, i, d, a, z, c, v
  <2>5. f[n+1].ahead = f[n].ahead - ExpectedInputSize(o) /\ f[n+1].place = f[n].place + Counts(o, f[n].ahead, k)
    BY <2>4 DEF Beyond
  <2>6. f[n].ahead = e - i /\ f[n].place \in Int /\ m[n] - a = f[n].place
    BY <2>2 DEF a, i
  <2>7. c \in Nat /\ ExpectedInputSize(o) \in Nat
    <3>1. e - i \in Int
      BY <2>3
    <3> QED BY <2>3, <3>1, CountsType, Sizes DEF c
  <2>8. v + a - z = c
    BY <2>3, PassedCounts DEF Passed, v, a, z, d, c
  <2>9. a \in Int /\ z \in Int /\ d \in Nat /\ d = i + ExpectedInputSize(o)
    BY <2>3, <2>7 DEF a, z, d, Ahead, ReadThen
  <2>10. f[n+1].place = f[n].place + c /\ f[n+1].ahead = e - d
    BY <2>3, <2>5, <2>6, <2>7, <2>9 DEF c
  <2>11. v \in Int
    BY <2>3, Sizes DEF v, Moved, Least, Ahead, IsInsert
  <2> DEFINE x == m[n]
             y == m[n+1]
             s == f[n].place
             t == f[n+1].place
  <2>12. /\ x \in Int /\ s \in Int /\ a \in Int /\ z \in Int /\ c \in Nat /\ v \in Int
         /\ y = x + v /\ x - a = s /\ t = s + c /\ v + a - z = c
    BY <2>3, <2>4, <2>6, <2>7, <2>8, <2>9, <2>10, <2>11
  <2> HIDE DEF x, y, s, t
  <2>13. y - z = t /\ t \in Int
    BY <2>12
  <2> QED BY <2>3, <2>10, <2>13 DEF y, z, t
<1>7. Nat \subseteq S
  <2> HIDE DEF S
  <2> QED BY <1>5, <1>6, Induction
<1>8. At(Len(q))
  <2> HIDE DEF At
  <2> QED BY <1>1, <1>7
<1>9. Ahead(e, g[Len(q)]) = 0
  BY <1>1 DEF Ahead
<1> QED BY <1>1, <1>2, <1>4, <1>8, <1>9 DEF Place

\* The end of a cursor that selects nothing is after what is inserted at it.
Bias(c) == IF c.from < c.to THEN 0 ELSE 1

\* transform_cursor takes both ends to their places.
LEMMA CursorPlaced ==
  ASSUME NEW q \in Operations,
         NEW c, c.from \in Nat, c.to \in Nat, c.from <= c.to, c.to <= InputLength(q)
  PROVE  LET d == TransformCursor(q, c)
         IN  /\ d.from = Place(q, c.from, 1)
             /\ d.to = Place(q, c.to, Bias(c))
             /\ IF c.anchor = c.from THEN d = [from |-> d.from, to |-> d.to, anchor |-> d.from, head |-> d.to]
                                     ELSE d = [from |-> d.from, to |-> d.to, anchor |-> d.to, head |-> d.from]
<1>1. PICK g : IsInputSum(g, q) /\ InputLength(q) = g[Len(q)]
  BY InputSum
<1>2. PICK r : IsShifted(r, q, c, g) /\ Shifted(q, c) = r[Len(q)]
  BY <1>1, ShiftedSteps
<1>3. /\ Len(q) \in Nat /\ \A n \in 1..Len(q) : q[n] \in CompoundOp
      /\ \A n \in 0..Len(q) : g[n] \in Nat
      /\ InputLength(q) \in Nat
  BY <1>1, SumsGrow, InputLengthType DEF Operations
<1>4. /\ r[0].from = c.from /\ r[0].to = c.to
      /\ \A n \in 1..Len(q) : r[n] \in Ranges /\ r[n] = Shift(r[n-1], c, g[n-1], q[n])
      /\ r[0] \in Ranges
  BY <1>2 DEF IsShifted, Ranges
<1>5. Bias(c) \in {0, 1} /\ Last(c) = 2 * c.to + Bias(c)
  BY DEF Bias, Last
<1>6. ASSUME NEW n \in 1..Len(q)
      PROVE  /\ r[n].from \in Int /\ r[n].to \in Int
             /\ r[n].from = r[n-1].from + Moved(c.from, 2 * c.from + 1, g[n-1], q[n])
             /\ r[n].to = r[n-1].to + Moved(c.to, 2 * c.to + Bias(c), g[n-1], q[n])
  <2>1. n-1 \in 0..Len(q) /\ g[n-1] \in Nat /\ q[n] \in CompoundOp
    BY <1>3
  <2>2. r[n-1] \in Ranges
    <3>1. n-1 = 0 \/ n-1 \in 1..Len(q)
      BY <1>3, <2>1
    <3> QED BY <1>4, <3>1
  <2>3. r[n] = Shift(r[n-1], c, g[n-1], q[n]) /\ r[n] \in Ranges
    BY <1>4
  <2>4. /\ Shift(r[n-1], c, g[n-1], q[n]).from = r[n-1].from + Moved(c.from, 2 * c.from + 1, g[n-1], q[n])
        /\ Shift(r[n-1], c, g[n-1], q[n]).to = r[n-1].to + Moved(c.to, Last(c), g[n-1], q[n])
    <3> DEFINE y == r[n-1]
               i == g[n-1]
               o == q[n]
    <3>1. y \in Ranges /\ i \in Nat /\ o \in CompoundOp
      BY <2>1, <2>2
    <3> HIDE DEF y, i, o
    <3>2. /\ Shift(y, c, i, o).from = y.from + Moved(c.from, 2 * c.from + 1, i, o)
          /\ Shift(y, c, i, o).to = y.to + Moved(c.to, Last(c), i, o)
      BY <3>1, ShiftMoves
    <3> QED BY <3>2 DEF y, i, o
  <2>5. r[n].from \in Int /\ r[n].to \in Int
    BY <2>3 DEF Ranges
  <2> QED BY <1>5, <2>3, <2>4, <2>5, Zenon
<1> DEFINE m1 == [n \in 0..Len(q) |-> r[n].from]
           m2 == [n \in 0..Len(q) |-> r[n].to]
<1>7. /\ m1[0] = c.from /\ m2[0] = c.to
      /\ m1[Len(q)] = r[Len(q)].from /\ m2[Len(q)] = r[Len(q)].to
      /\ \A n \in 1..Len(q) : /\ m1[n] = r[n].from /\ m1[n-1] = r[n-1].from
                              /\ m2[n] = r[n].to /\ m2[n-1] = r[n-1].to
  <2>1. 0 \in 0..Len(q) /\ Len(q) \in 0..Len(q) /\ \A n \in 1..Len(q) : n \in 0..Len(q) /\ n-1 \in 0..Len(q)
    BY <1>3
  <2> QED BY <1>4, <2>1
<1> HIDE DEF m1, m2
<1>8. m1[Len(q)] = Place(q, c.from, 1)
  <2>1. c.from <= InputLength(q)
    BY <1>3
  <2>2. \A n \in 1..Len(q) : m1[n] \in Int /\ m1[n] = m1[n-1] + Moved(c.from, 2 * c.from + 1, g[n-1], q[n])
    BY <1>6, <1>7
  <2> QED BY <1>1, <1>7, <2>1, <2>2, EndPlaced
<1>9. m2[Len(q)] = Place(q, c.to, Bias(c))
  <2>1. \A n \in 1..Len(q) : m2[n] \in Int /\ m2[n] = m2[n-1] + Moved(c.to, 2 * c.to + Bias(c), g[n-1], q[n])
    BY <1>6, <1>7
  <2> QED BY <1>1, <1>5, <1>7, <2>1, EndPlaced
<1> DEFINE x == Shifted(q, c)
           d == TransformCursor(q, c)
<1>10. x.from = Place(q, c.from, 1) /\ x.to = Place(q, c.to, Bias(c))
  BY <1>2, <1>7, <1>8, <1>9
<1>11. IF c.anchor = c.from THEN d = [from |-> x.from, to |-> x.to, anchor |-> x.from, head |-> x.to]
                            ELSE d = [from |-> x.from, to |-> x.to, anchor |-> x.to, head |-> x.from]
  BY DEF TransformCursor
<1> HIDE DEF x, d
<1>12. d.from = x.from /\ d.to = x.to
  BY <1>11
<1> QED BY <1>10, <1>11, <1>12 DEF d

\* A character of which a trace is left is retained.
LEMMA KeptIsRetained ==
  ASSUME text \in Text, NEW q \in Operations, CanApply(text, q), NEW i \in Nat, Keeps(q, i)
  PROVE  Retains(q, i)
<1>1. Len(text) = InputLength(q) /\ Len(text) \in Nat /\ DOMAIN text = 1..Len(text)
  BY DEF CanApply, Text
<1> SUFFICES ASSUME i \in 1..Len(text) PROVE Place(q, i, 0) # Place(q, i-1, 1)
  BY <1>1 DEF Retains
<1>2. PICK k \in DOMAIN Traced(q) : Traced(q)[k] = 2 * i
  BY <1>1 DEF Keeps
<1> DEFINE c == [from |-> i-1, to |-> i, anchor |-> i-1, head |-> i]
           new == Traced(q)
           d == TransformCursor(q, c)
<1>3. c.from = i-1 /\ c.to = i /\ c.anchor = i-1
  OBVIOUS
<1>4. c \in Cursor(Len(text))
  BY <1>1 DEF Cursor
<1> HIDE DEF c
<1>5. Follows(q, c)
  BY <1>4, CursorFollows
<1>6. Bias(c) = 0
  BY <1>3 DEF Bias
<1>7. d.from = Place(q, i-1, 1) /\ d.to = Place(q, i, 0)
  <2>1. c.from \in Nat /\ c.to \in Nat /\ c.from <= c.to /\ c.to <= InputLength(q)
    BY <1>1, <1>3
  <2>2. d.from = Place(q, c.from, 1) /\ d.to = Place(q, c.to, Bias(c))
    BY <2>1, CursorPlaced
  <2> HIDE DEF d
  <2> QED BY <1>3, <1>6, <2>2
<1> HIDE DEF new, d
<1>8. /\ k <= d.from <=> new[k] <= 2 * (i-1) + 1
      /\ k <= d.to <=> new[k] <= 2 * i
  <2>1. /\ k <= d.from <=> new[k] <= 2 * c.from + 1
        /\ k <= d.to <=> new[k] <= (IF c.from < c.to THEN 2 * c.to ELSE 2 * c.from + 1)
    BY <1>2, <1>5 DEF Follows, new, d
  <2>2. c.from < c.to
    BY <1>3
  <2> QED BY <1>3, <2>1, <2>2
<1>9. k <= d.to /\ ~(k <= d.from)
  <2>1. new[k] = 2 * i /\ 2 * i <= 2 * i /\ ~(2 * i <= 2 * (i-1) + 1)
    BY <1>2 DEF new
  <2> QED BY <1>8, <2>1
<1> QED BY <1>7, <1>9

\* The characters at both ends of c, and the one behind it, are retained.
Holds(q, c) == Retains(q, c.from + 1) /\ (c.from < c.to => Retains(q, c.to))

\* Then c is afterwards what it was: it selects something or nothing, and its
\* anchor is the same end.
LEMMA CursorHeld ==
  ASSUME NEW q \in Operations, NEW c \in Cursor(InputLength(q)), Holds(q, c)
  PROVE  LET d == TransformCursor(q, c)
         IN  /\ c.from \in Nat /\ c.to \in Nat /\ c.from <= c.to /\ c.to <= InputLength(q)
             /\ d.from = Place(q, c.from, 1) /\ d.to = Place(q, c.to, Bias(c))
             /\ d.from \in Nat /\ d.to \in Nat /\ d.from <= d.to /\ d.to <= OutputLength(q)
             /\ Bias(d) = Bias(c)
             /\ d.anchor = d.from <=> c.anchor = c.from
<1> DEFINE N == InputLength(q)
           d == TransformCursor(q, c)
<1>1. /\ c.from \in Nat /\ c.to \in Nat /\ c.from <= c.to /\ c.to <= N /\ N \in Nat
      /\ c.anchor \in {c.from, c.to}
  <2>1. N \in Nat
    BY InputLengthType
  <2> HIDE DEF N
  <2>2. c \in Cursor(N)
    BY DEF N
  <2>3. /\ c.from \in 0..N /\ c.to \in 0..N /\ c.from <= c.to /\ {c.anchor, c.head} = {c.from, c.to}
    BY <2>2 DEF Cursor
  <2>4. c.anchor \in {c.from, c.to}
    BY <2>3, Zenon
  <2> QED BY <2>1, <2>3, <2>4
<1>2. Bias(c) \in {0, 1} /\ (c.from < c.to => Bias(c) = 0) /\ (~(c.from < c.to) => Bias(c) = 1)
  BY DEF Bias
<1>3. /\ d.from = Place(q, c.from, 1) /\ d.to = Place(q, c.to, Bias(c))
      /\ IF c.anchor = c.from THEN d = [from |-> d.from, to |-> d.to, anchor |-> d.from, head |-> d.to]
                              ELSE d = [from |-> d.from, to |-> d.to, anchor |-> d.to, head |-> d.from]
  BY <1>1, CursorPlaced
<1> HIDE DEF N, d
<1>4. d.from \in Nat /\ d.to \in Nat /\ d.to <= OutputLength(q) /\ c.from \in Int /\ c.to \in Int
  <2>1. c.from \in Int /\ c.to \in Int
    BY <1>1
  <2> QED BY <1>2, <1>3, <2>1, PlaceType
<1>5. IF c.from < c.to THEN d.from < d.to ELSE d.from = d.to
  <2>1. CASE c.from < c.to
    <3> DEFINE i == c.from + 1
    <3>1. i \in Nat /\ i \in 1..N /\ i - 1 = c.from /\ i <= c.to /\ c.from <= i /\ i \in Int
      BY <1>1, <2>1
    <3>2. Retains(q, i)
      BY DEF Holds
    <3> HIDE DEF i
    <3>3. Place(q, i, 0) # Place(q, c.from, 1)
      <4>1. Place(q, i, 0) # Place(q, i - 1, 1)
        BY <3>1, <3>2 DEF Retains, N
      <4> QED BY <3>1, <4>1
    <3>4. Place(q, c.from, 1) <= Place(q, i, 0)
      <4>1. c.from + 1 <= i + 0
        BY <3>1
      <4> QED BY <1>4, <3>1, <4>1, PlacesGrow
    <3>5. Place(q, i, 0) <= Place(q, c.to, 0)
      <4>1. i + 0 <= c.to + 0
        BY <1>4, <3>1
      <4> QED BY <1>4, <3>1, <4>1, PlacesGrow
    <3>6. Place(q, i, 0) \in Nat
      BY <3>1, PlaceType
    <3>7. d.to = Place(q, c.to, 0)
      BY <1>2, <1>3, <2>1
    <3> DEFINE x == Place(q, i, 0)
    <3>8. d.from # x /\ d.from <= x /\ x <= d.to /\ x \in Nat
      BY <1>3, <3>3, <3>4, <3>5, <3>6, <3>7
    <3> HIDE DEF x
    <3>9. d.from < d.to
      BY <1>4, <3>8
    <3> QED BY <2>1, <3>9
  <2>2. CASE ~(c.from < c.to)
    <3>1. c.from = c.to /\ Bias(c) = 1
      BY <1>1, <1>2, <2>2
    <3> QED BY <1>3, <2>2, <3>1
  <2> QED BY <2>1, <2>2
<1>6. d.from <= d.to /\ Bias(d) = Bias(c)
  BY <1>4, <1>5 DEF Bias
<1>7. d.anchor = d.from <=> c.anchor = c.from
  <2>1. CASE c.anchor = c.from
    <3>1. d = [from |-> d.from, to |-> d.to, anchor |-> d.from, head |-> d.to]
      BY <1>3, <2>1
    <3> QED BY <2>1, <3>1
  <2>2. CASE c.anchor # c.from
    <3>1. d = [from |-> d.from, to |-> d.to, anchor |-> d.to, head |-> d.from]
      BY <1>3, <2>2
    <3>2. c.from < c.to
      BY <1>1, <2>2
    <3>3. d.from < d.to
      BY <1>5, <3>2
    <3>4. d.anchor = d.to
      BY <3>1
    <3> QED BY <1>4, <2>2, <3>3, <3>4
  <2> QED BY <2>1, <2>2
<1> QED BY <1>1, <1>3, <1>4, <1>6, <1>7 DEF N, d

-----------------------------------------------------------------------------
(* Sequences joined to one, as TextUpdates joins them                      *)

LEMMA Flattened == \A q : Seqs!FlattenSeq(q) = Flat(q)
BY DEF Seqs!FlattenSeq, Flat

LEMMA JoinType ==
  ASSUME NEW T, NEW q \in Seq(Seq(T))
  PROVE  Seqs!FlattenSeq(q) \in Seq(T)
BY FlattenType, Flattened, Zenon

LEMMA JoinEmpty == Seqs!FlattenSeq(<<>>) = <<>>
BY FlattenEmpty, Flattened, Zenon

LEMMA JoinOn ==
  ASSUME NEW T, NEW f \in Seq(Seq(T)), NEW g \in Seq(Seq(T)), Continues(f, g)
  PROVE  Seqs!FlattenSeq(g) = Seqs!FlattenSeq(f) \o g[Len(g)]
BY FlattenOn, Flattened, Zenon

-----------------------------------------------------------------------------
(* A document in units                                                     *)

Unit == Alphabet \X {1, 2}

UnitsOf(c) == IF c \in Wide THEN <<<<c, 1>>, <<c, 2>>>> ELSE <<<<c, 1>>>>

LEMMA UnitsOfType ==
  ASSUME NEW c \in Alphabet
  PROVE  /\ UnitsOf(c) \in Seq(Unit)
         /\ Len(UnitsOf(c)) = IF c \in Wide THEN 2 ELSE 1
<1>1. <<c, 1>> \in Unit /\ <<c, 2>> \in Unit
  BY DEF Unit
<1>2. CASE c \in Wide
  BY <1>1, <1>2 DEF UnitsOf
<1>3. CASE c \notin Wide
  BY <1>1, <1>3 DEF UnitsOf
<1> QED BY <1>2, <1>3

LEMMA UnitsAre ==
  ASSUME NEW s \in Text
  PROVE  /\ [i \in 1..Len(s) |-> UnitsOf(s[i])] \in Seq(Seq(Unit))
         /\ Units(s) = Seqs!FlattenSeq([i \in 1..Len(s) |-> UnitsOf(s[i])])
<1>1. DOMAIN s = 1..Len(s) /\ \A i \in 1..Len(s) : s[i] \in Alphabet
  BY DEF Text
<1>2. \A i \in 1..Len(s) : UnitsOf(s[i]) \in Seq(Unit)
  BY <1>1, UnitsOfType
<1>3. Units(s) = Seqs!FlattenSeq([i \in 1..Len(s) |-> UnitsOf(s[i])])
  BY <1>1 DEF Units, UnitsOf
<1>4. [i \in 1..Len(s) |-> UnitsOf(s[i])] \in Seq(Seq(Unit))
  <2> DEFINE V == Seq(Unit)
  <2>1. [i \in 1..Len(s) |-> UnitsOf(s[i])] \in [1..Len(s) -> V] /\ Len(s) \in Nat
    <3> DEFINE w(i) == UnitsOf(s[i])
    <3>1. \A i \in 1..Len(s) : w(i) \in V
      BY <1>2
    <3>2. Len(s) \in Nat
      BY DEF Text
    <3> HIDE DEF V, w
    <3>3. [i \in 1..Len(s) |-> w(i)] \in [1..Len(s) -> V]
      BY <3>1
    <3> QED BY <3>2, <3>3 DEF w
  <2> HIDE DEF V
  <2> QED BY <2>1 DEF V
<1> QED BY <1>3, <1>4

LEMMA UnitsEmpty == Units(<<>>) = <<>> /\ <<>> \in Seq(Unit)
<1>1. DOMAIN <<>> = {}
  OBVIOUS
<1>2. [i \in {} |-> UnitsOf(<<>>[i])] = <<>>
  OBVIOUS
<1>3. Units(<<>>) = Seqs!FlattenSeq([i \in {} |-> UnitsOf(<<>>[i])])
  BY <1>1 DEF Units, UnitsOf
<1> QED BY <1>2, <1>3, JoinEmpty, EmptySeq

LEMMA UnitsType ==
  ASSUME NEW s \in Text
  PROVE  Units(s) \in Seq(Unit)
BY UnitsAre, JoinType, Zenon

LEMMA UnitsAppend ==
  ASSUME NEW s \in Text, NEW c \in Alphabet
  PROVE  Append(s, c) \in Text /\ Units(Append(s, c)) = Units(s) \o UnitsOf(c)
<1> DEFINE t == Append(s, c)
           f == [i \in 1..Len(s) |-> UnitsOf(s[i])]
           g == [i \in 1..Len(t) |-> UnitsOf(t[i])]
<1>1. /\ t \in Text /\ Len(s) \in Nat /\ Len(t) = Len(s) + 1
      /\ t[Len(s) + 1] = c /\ \A i \in 1..Len(s) : t[i] = s[i]
  BY AppendProperties DEF Text
<1> HIDE DEF t
<1>2. f \in Seq(Seq(Unit)) /\ Units(s) = Seqs!FlattenSeq(f)
  BY UnitsAre
<1>3. g \in Seq(Seq(Unit)) /\ Units(t) = Seqs!FlattenSeq(g)
  BY <1>1, UnitsAre
<1>4. Len(f) = Len(s) /\ Len(g) = Len(t)
  BY <1>1
<1>5. \A i \in 1..Len(s) : g[i] = f[i]
  BY <1>1
<1>6. g[Len(g)] = UnitsOf(c)
  BY <1>1, <1>4
<1> HIDE DEF f, g
<1>7. Continues(f, g)
  BY <1>1, <1>4, <1>5 DEF Continues
<1>8. Seqs!FlattenSeq(g) = Seqs!FlattenSeq(f) \o g[Len(g)]
  BY <1>2, <1>3, <1>7, JoinOn, Zenon
<1>9. Units(t) = Units(s) \o UnitsOf(c)
  BY <1>2, <1>3, <1>6, <1>8, Zenon
<1> QED BY <1>1, <1>9 DEF t

LEMMA UnitsAssociative ==
  ASSUME NEW a \in Seq(Unit), NEW b \in Seq(Unit), NEW c \in Seq(Unit)
  PROVE  (a \o b) \o c = a \o (b \o c)
  BY ConcatAssociative

LEMMA UnitsConcat ==
  ASSUME NEW s \in Text, NEW t \in Text
  PROVE  Units(s \o t) = Units(s) \o Units(t)
<1> DEFINE S == {d \in Text : Units(s \o d) = Units(s) \o Units(d)}
<1>1. <<>> \in S
  <2>1. s \o <<>> = s /\ <<>> \in Text
    BY ConcatEmptySeq, EmptySeq DEF Text
  <2>2. Units(s) \o <<>> = Units(s)
    BY UnitsType, ConcatEmptySeq
  <2> QED BY <2>1, <2>2, UnitsEmpty
<1>2. ASSUME NEW d \in Text, d \in S, NEW c \in Alphabet PROVE Append(d, c) \in S
  <2>1. s \o d \in Text /\ s \o Append(d, c) = Append(s \o d, c)
    BY DEF Text
  <2>2. Units(Append(s \o d, c)) = Units(s \o d) \o UnitsOf(c)
    BY <2>1, UnitsAppend
  <2>3. Append(d, c) \in Text /\ Units(Append(d, c)) = Units(d) \o UnitsOf(c)
    BY UnitsAppend
  <2>4. (Units(s) \o Units(d)) \o UnitsOf(c) = Units(s) \o (Units(d) \o UnitsOf(c))
    <3>1. Units(s) \in Seq(Unit) /\ Units(d) \in Seq(Unit) /\ UnitsOf(c) \in Seq(Unit)
      BY UnitsType, UnitsOfType, Zenon
    <3> QED BY <3>1, UnitsAssociative, Zenon
  <2>5. Units(s \o d) = Units(s) \o Units(d)
    BY <1>2
  <2> QED BY <2>1, <2>2, <2>3, <2>4, <2>5
<1>3. Text \subseteq S
  <2> HIDE DEF S
  <2> QED BY <1>1, <1>2, SequenceInduction DEF Text
<1> QED BY <1>3

\* As many units as characters, unless some are wide.
LEMMA UnitsLength ==
  ASSUME NEW s \in Text
  PROVE  /\ Len(Units(s)) \in Nat /\ Len(Units(s)) >= Len(s)
         /\ Len(Units(s)) = Len(s) <=> Narrow(s)
<1> DEFINE S == {d \in Text : /\ Len(Units(d)) \in Nat /\ Len(Units(d)) >= Len(d)
                              /\ Len(Units(d)) = Len(d) <=> Narrow(d)}
<1>1. <<>> \in S
  <2>1. <<>> \in Text /\ Len(<<>>) = 0 /\ DOMAIN <<>> = {}
    BY EmptySeq DEF Text
  <2>2. Narrow(<<>>)
    BY <2>1 DEF Narrow
  <2> QED BY <2>1, <2>2, UnitsEmpty
<1>2. ASSUME NEW d \in Text, d \in S, NEW c \in Alphabet PROVE Append(d, c) \in S
  <2> DEFINE t == Append(d, c)
  <2>1. /\ t \in Text /\ Len(d) \in Nat /\ Len(t) = Len(d) + 1 /\ DOMAIN t = 1..(Len(d) + 1)
        /\ DOMAIN d = 1..Len(d)
        /\ t[Len(d)+1] = c /\ \A i \in 1..Len(d) : t[i] = d[i]
    BY AppendProperties DEF Text
  <2>2. Len(Units(t)) = Len(Units(d)) + Len(UnitsOf(c))
    <3>1. Units(d) \in Seq(Unit) /\ UnitsOf(c) \in Seq(Unit) /\ Units(t) = Units(d) \o UnitsOf(c)
      BY UnitsType, UnitsAppend, UnitsOfType
    <3> HIDE DEF t
    <3> QED BY <3>1, ConcatProperties
  <2>3. Len(UnitsOf(c)) = IF c \in Wide THEN 2 ELSE 1
    BY UnitsOfType
  <2> HIDE DEF t
  <2>4. Narrow(t) <=> Narrow(d) /\ c \notin Wide
    <3>1. 1..(Len(d) + 1) = 1..Len(d) \cup {Len(d) + 1}
      BY <2>1
    <3> QED BY <2>1, <3>1 DEF Narrow
  <2>5. /\ Len(Units(d)) \in Nat /\ Len(Units(d)) >= Len(d)
        /\ Len(Units(d)) = Len(d) <=> Narrow(d)
    BY <1>2
  <2>6. /\ Len(Units(t)) \in Nat /\ Len(Units(t)) >= Len(t)
        /\ Len(Units(t)) = Len(t) <=> Narrow(t)
    <3>1. CASE c \in Wide
      BY <2>1, <2>2, <2>3, <2>4, <2>5, <3>1
    <3>2. CASE c \notin Wide
      BY <2>1, <2>2, <2>3, <2>4, <2>5, <3>2
    <3> QED BY <3>1, <3>2
  <2> QED BY <2>1, <2>6 DEF t
<1>3. Text \subseteq S
  <2> HIDE DEF S
  <2> QED BY <1>1, <1>2, SequenceInduction DEF Text
<1> QED BY <1>3

-----------------------------------------------------------------------------
(* Parts of a document                                                     *)

LEMMA NarrowParts ==
  ASSUME NEW s \in Text, NEW t \in Text, Narrow(s \o t)
  PROVE  Narrow(s) /\ Narrow(t)
<1>1. /\ Len(Units(s)) \in Nat /\ Len(Units(s)) >= Len(s) /\ (Len(Units(s)) = Len(s) <=> Narrow(s))
      /\ Len(Units(t)) \in Nat /\ Len(Units(t)) >= Len(t) /\ (Len(Units(t)) = Len(t) <=> Narrow(t))
  BY UnitsLength
<1>2. s \o t \in Text /\ Len(s \o t) = Len(s) + Len(t) /\ Len(s) \in Nat /\ Len(t) \in Nat
  BY ConcatProperties DEF Text
<1>3. Len(Units(s \o t)) = Len(s \o t)
  BY <1>2, UnitsLength
<1>4. Len(Units(s \o t)) = Len(Units(s)) + Len(Units(t))
  BY UnitsConcat, UnitsType, ConcatProperties
<1> QED BY <1>1, <1>2, <1>3, <1>4

\* Up to the first wide character, places in units are places in characters.
LEMMA UnitsPart ==
  ASSUME NEW s \in Text, NEW a \in Nat, NEW b \in Nat, a <= b, b <= Len(s),
         Narrow(SubSeq(s, 1, b))
  PROVE  /\ Narrow(SubSeq(s, 1, a))
         /\ SubSeq(Units(s), a + 1, b) = Units(SubSeq(s, a + 1, b))
<1> DEFINE x == SubSeq(s, 1, a)
           y == SubSeq(s, a + 1, b)
           z == SubSeq(s, b + 1, Len(s))
<1>1. /\ x \in Text /\ y \in Text /\ z \in Text /\ Len(x) = a /\ Len(y) = b - a
      /\ x \o y = SubSeq(s, 1, b) /\ s = (x \o y) \o z
  <2>1. InThree(s, a, b, Text)
    BY ThreeParts, Zenon
  <2> QED BY <2>1 DEF InThree
<1>2. Narrow(x \o y)
  BY <1>1
<1> HIDE DEF x, y, z
<1>3. Narrow(x) /\ Narrow(y)
  BY <1>1, <1>2, NarrowParts
<1>4. Len(Units(x)) = a /\ Len(Units(y)) = b - a
  BY <1>1, <1>3, UnitsLength
<1>5. Units(s) = (Units(x) \o Units(y)) \o Units(z)
  <2>1. x \o y \in Text
    BY <1>1, ConcatProperties DEF Text
  <2> QED BY <1>1, <2>1, UnitsConcat, Zenon
<1>6. Units(x) \in Seq(Unit) /\ Units(y) \in Seq(Unit) /\ Units(z) \in Seq(Unit)
  BY <1>1, UnitsType
<1>7. SubSeq(Units(s), Len(Units(x)) + 1, Len(Units(x)) + Len(Units(y))) = Units(y)
  <2> DEFINE X == Units(x)
             Y == Units(y)
             Z == Units(z)
  <2>1. X \in Seq(Unit) /\ Y \in Seq(Unit) /\ Z \in Seq(Unit)
    BY <1>6
  <2> HIDE DEF X, Y, Z
  <2>2. SubSeq((X \o Y) \o Z, Len(X) + 1, Len(X) + Len(Y)) = Y
    BY <2>1, MiddlePart
  <2> QED BY <1>5, <2>2, Zenon DEF X, Y, Z
<1>8. a + (b - a) = b
  OBVIOUS
<1> QED BY <1>3, <1>4, <1>7, <1>8 DEF x, y

LEMMA UnitsRest ==
  ASSUME NEW s \in Text, NEW b \in Nat, b <= Len(s), Narrow(SubSeq(s, 1, b))
  PROVE  SubSeq(Units(s), b + 1, Len(Units(s))) = Units(SubSeq(s, b + 1, Len(s)))
<1> DEFINE x == SubSeq(s, 1, b)
           y == SubSeq(s, b + 1, Len(s))
<1>1. InThree(s, b, b, Text)
  <2>1. b <= b
    OBVIOUS
  <2> QED BY <2>1, ThreeParts, Zenon
<1>2. x \in Text /\ y \in Text /\ Len(x) = b /\ s = x \o y
  BY <1>1 DEF InThree
<1>3. Narrow(x)
  OBVIOUS
<1> HIDE DEF x, y
<1>4. Len(Units(x)) = b
  BY <1>2, <1>3, UnitsLength
<1>5. Units(s) = Units(x) \o Units(y) /\ Units(x) \in Seq(Unit) /\ Units(y) \in Seq(Unit)
  BY <1>2, UnitsConcat, UnitsType, Zenon
<1>6. /\ Len(Units(s)) = Len(Units(x)) + Len(Units(y))
      /\ Units(s) = (Units(x) \o Units(y)) \o <<>> /\ <<>> \in Seq(Unit)
  <2>1. /\ Units(x) \o Units(y) \in Seq(Unit)
        /\ Len(Units(x) \o Units(y)) = Len(Units(x)) + Len(Units(y))
    BY <1>5, ConcatProperties
  <2>2. (Units(x) \o Units(y)) \o <<>> = Units(x) \o Units(y)
    BY <2>1, ConcatEmptySeq
  <2> QED BY <1>5, <2>1, <2>2, EmptySeq
<1>7. SubSeq(Units(s), Len(Units(x)) + 1, Len(Units(x)) + Len(Units(y))) = Units(y)
  <2> DEFINE X == Units(x)
             Y == Units(y)
  <2>1. X \in Seq(Unit) /\ Y \in Seq(Unit) /\ <<>> \in Seq(Unit)
    BY <1>5, <1>6
  <2> HIDE DEF X, Y
  <2>2. SubSeq((X \o Y) \o <<>>, Len(X) + 1, Len(X) + Len(Y)) = Y
    BY <2>1, MiddlePart
  <2> QED BY <1>6, <2>2, Zenon DEF X, Y
<1> QED BY <1>4, <1>6, <1>7 DEF y

-----------------------------------------------------------------------------
(* Changes as an operation                                                 *)

Change == [from : Nat, to : Nat, text : Text]

Changes == Seq(Change)

\* How far changes, or those before the n-th, have read.
ReadTo(R) == IF R = <<>> THEN 0 ELSE R[Len(R)].to
ReadBefore(R, n) == IF n = 1 THEN 0 ELSE R[n-1].to

Edited(r, u) ==
  (Some(Retain(u.from - r)) \o Some(Insert(u.text))) \o Some(Delete(u.to - u.from))

Body(R) == Seqs!FlattenSeq([n \in 1..Len(R) |-> Edited(ReadBefore(R, n), R[n])])

LEMMA ConversionIs ==
  ASSUME NEW R \in Changes, NEW m
  PROVE  TextUpdatesToTextOperation(R, m) = Body(R) \o Some(Retain(m - ReadTo(R)))
<1>1. DOMAIN R = 1..Len(R) /\ Len(R) \in Nat /\ (R = <<>> <=> Len(R) = 0)
  BY EmptySeq DEF Changes
<1>2. ReadTo(R) = IF Len(R) + 1 = 1 THEN 0 ELSE R[Len(R) + 1 - 1].to
  BY <1>1 DEF ReadTo
<1> QED BY <1>1, <1>2 DEF TextUpdatesToTextOperation, Body, Edited, ReadBefore

LEMMA SomeRetain ==
  ASSUME NEW p \in Operations, NEW n \in Nat
  PROVE  /\ p \o Some(Retain(n)) \in Operations
         /\ InputLength(p \o Some(Retain(n))) = InputLength(p) + n
         /\ \A s \in Text : InputLength(p) + n <= Len(s) =>
              TextApply(s, p \o Some(Retain(n)))
                = TextApply(s, p) \o SubSeq(s, InputLength(p) + 1, InputLength(p) + n)
<1> DEFINE o == Retain(n)
<1>1. InputLength(p) \in Nat
  BY InputLengthType
<1>2. CASE n = 0
  <2>1. p \o Some(o) = p
    BY <1>2, ConcatEmptySeq DEF Some, Width, Retain, IsInsert, Operations
  <2>2. ASSUME NEW s \in Text, InputLength(p) + n <= Len(s)
        PROVE  TextApply(s, p) \o SubSeq(s, InputLength(p) + 1, InputLength(p) + n) = TextApply(s, p)
    <3>1. SubSeq(s, InputLength(p) + 1, InputLength(p) + n) = <<>>
      BY <1>1, <1>2
    <3>2. TextApply(s, p) \in Text
      BY <1>1, <1>2, <2>2, ApplyType
    <3> QED BY <3>1, <3>2, ConcatEmptySeq DEF Text
  <2>3. InputLength(p) + n = InputLength(p)
    BY <1>1, <1>2
  <2> HIDE DEF o
  <2>4. p \o Some(o) \in Operations /\ InputLength(p \o Some(o)) = InputLength(p) + n
    BY <2>1, <2>3
  <2>5. ASSUME NEW s \in Text, InputLength(p) + n <= Len(s)
        PROVE  TextApply(s, p \o Some(o))
                 = TextApply(s, p) \o SubSeq(s, InputLength(p) + 1, InputLength(p) + n)
    BY <2>1, <2>2, <2>5, Zenon
  <2> QED BY <2>4, <2>5 DEF o
<1>3. CASE n # 0
  <2>1. o \in CompoundOp /\ ExpectedInputSize(o) = n /\ Some(o) = <<o>>
    BY <1>3 DEF Some, Width, Retain, IsInsert, CompoundOp, ExpectedInputSize
  <2>2. p \o Some(o) = Append(p, o) /\ Append(p, o) \in Operations
    <3> HIDE DEF o
    <3> QED BY <2>1, AppendIsConcat DEF Operations
  <2>3. \A s, r : Written(s, r, o) = SubSeq(s, r + 1, r + n)
    BY DEF Written, Retain, IsInsert
  <2> HIDE DEF o
  <2>4. InputLength(Append(p, o)) = InputLength(p) + n
    BY <2>1, InputLengthAppend
  <2>5. ASSUME NEW s \in Text, InputLength(p) + n <= Len(s)
        PROVE  TextApply(s, Append(p, o))
                 = TextApply(s, p) \o SubSeq(s, InputLength(p) + 1, InputLength(p) + n)
    <3>1. TextApply(s, Append(p, o)) = TextApply(s, p) \o Written(s, InputLength(p), o)
      BY <2>1, <2>5, ApplyAppend
    <3> QED BY <2>3, <3>1
  <2> QED BY <2>2, <2>4, <2>5 DEF o
<1> QED BY <1>2, <1>3

LEMMA SomeDelete ==
  ASSUME NEW p \in Operations, NEW n \in Nat
  PROVE  /\ p \o Some(Delete(n)) \in Operations
         /\ InputLength(p \o Some(Delete(n))) = InputLength(p) + n
         /\ \A s \in Text : InputLength(p) + n <= Len(s) =>
              TextApply(s, p \o Some(Delete(n))) = TextApply(s, p)
<1> DEFINE o == Delete(n)
<1>1. InputLength(p) \in Nat
  BY InputLengthType
<1>2. CASE n = 0
  <2>1. p \o Some(o) = p
    BY <1>2, ConcatEmptySeq DEF Some, Width, Delete, IsInsert, Operations
  <2>2. InputLength(p) + n = InputLength(p)
    BY <1>1, <1>2
  <2> HIDE DEF o
  <2>3. p \o Some(o) \in Operations /\ InputLength(p \o Some(o)) = InputLength(p) + n
    BY <2>1, <2>2
  <2>4. \A s : TextApply(s, p \o Some(o)) = TextApply(s, p)
    BY <2>1
  <2> QED BY <2>3, <2>4 DEF o
<1>3. CASE n # 0
  <2>1. o \in CompoundOp /\ ExpectedInputSize(o) = n /\ Some(o) = <<o>>
    BY <1>3 DEF Some, Width, Delete, IsInsert, CompoundOp, ExpectedInputSize
  <2>2. p \o Some(o) = Append(p, o) /\ Append(p, o) \in Operations
    <3> HIDE DEF o
    <3> QED BY <2>1, AppendIsConcat DEF Operations
  <2>3. \A s, r : Written(s, r, o) = <<>>
    BY DEF Written, Delete, IsInsert
  <2> HIDE DEF o
  <2>4. InputLength(Append(p, o)) = InputLength(p) + n
    BY <2>1, InputLengthAppend
  <2>5. ASSUME NEW s \in Text, InputLength(p) + n <= Len(s)
        PROVE  TextApply(s, Append(p, o)) = TextApply(s, p)
    <3>1. TextApply(s, Append(p, o)) = TextApply(s, p) \o Written(s, InputLength(p), o)
      BY <2>1, <2>5, ApplyAppend
    <3>2. TextApply(s, p) \in Text
      BY <1>1, <2>5, ApplyType DEF Text
    <3> QED BY <2>3, <3>1, <3>2, ConcatEmptySeq DEF Text
  <2> QED BY <2>2, <2>4, <2>5 DEF o
<1> QED BY <1>2, <1>3

LEMMA SomeInsert ==
  ASSUME NEW p \in Operations, NEW t \in Text
  PROVE  /\ p \o Some(Insert(t)) \in Operations
         /\ InputLength(p \o Some(Insert(t))) = InputLength(p)
         /\ \A s \in Text : InputLength(p) <= Len(s) =>
              TextApply(s, p \o Some(Insert(t))) = TextApply(s, p) \o t
<1> DEFINE o == Insert(t)
<1>1. InputLength(p) \in Nat /\ Len(t) \in Nat /\ (Len(t) = 0 <=> t = <<>>)
  BY InputLengthType, EmptySeq DEF Text
<1>2. CASE t = <<>>
  <2>1. p \o Some(o) = p
    BY <1>1, <1>2, ConcatEmptySeq DEF Some, Width, Insert, IsInsert, Operations
  <2>2. ASSUME NEW s \in Text, InputLength(p) <= Len(s) PROVE TextApply(s, p) \o t = TextApply(s, p)
    <3>1. TextApply(s, p) \in Text
      BY <2>2, ApplyType
    <3> QED BY <1>2, <3>1, ConcatEmptySeq DEF Text
  <2> HIDE DEF o
  <2> QED BY <2>1, <2>2 DEF o
<1>3. CASE t # <<>>
  <2>1. o \in CompoundOp /\ ExpectedInputSize(o) = 0 /\ Some(o) = <<o>>
    BY <1>1, <1>3 DEF Some, Width, Insert, IsInsert, CompoundOp, ExpectedInputSize
  <2>2. p \o Some(o) = Append(p, o) /\ Append(p, o) \in Operations
    <3> HIDE DEF o
    <3> QED BY <2>1, AppendIsConcat DEF Operations
  <2>3. \A s, r : Written(s, r, o) = t
    BY DEF Written, Insert, IsInsert
  <2> HIDE DEF o
  <2>4. InputLength(Append(p, o)) = InputLength(p)
    BY <1>1, <2>1, InputLengthAppend
  <2>5. ASSUME NEW s \in Text, InputLength(p) <= Len(s)
        PROVE  TextApply(s, Append(p, o)) = TextApply(s, p) \o t
    <3>1. TextApply(s, Append(p, o)) = TextApply(s, p) \o Written(s, InputLength(p), o)
      BY <1>1, <2>1, <2>5, ApplyAppend
    <3> QED BY <2>3, <3>1
  <2> QED BY <2>2, <2>4, <2>5 DEF o
<1> QED BY <1>2, <1>3

\* A change does what it says, wherever the changes before it have read to.
LEMMA EditedApplies ==
  ASSUME NEW p \in Operations, NEW u \in Change, InputLength(p) <= u.from, u.from <= u.to
  PROVE  LET q == p \o Edited(InputLength(p), u)
         IN  /\ q \in Operations /\ InputLength(q) = u.to
             /\ \A s \in Text : u.to <= Len(s) =>
                  TextApply(s, q)
                    = TextApply(s, p) \o (SubSeq(s, InputLength(p) + 1, u.from) \o u.text)
<1> DEFINE r == InputLength(p)
           a == u.from - r
           d == u.to - u.from
           p1 == p \o Some(Retain(a))
           p2 == p1 \o Some(Insert(u.text))
           p3 == p2 \o Some(Delete(d))
<1>1. /\ r \in Nat /\ u.from \in Nat /\ u.to \in Nat /\ u.text \in Text
      /\ a \in Nat /\ d \in Nat /\ r + a = u.from /\ u.from + d = u.to
  BY InputLengthType DEF Change
<1> HIDE DEF r, a, d, p1, p2, p3
<1>2. /\ p1 \in Operations /\ InputLength(p1) = u.from
      /\ \A s \in Text : u.from <= Len(s) => TextApply(s, p1) = TextApply(s, p) \o SubSeq(s, r + 1, u.from)
  BY <1>1, SomeRetain DEF p1, r
<1>3. /\ p2 \in Operations /\ InputLength(p2) = u.from
      /\ \A s \in Text : u.from <= Len(s) => TextApply(s, p2) = TextApply(s, p1) \o u.text
  BY <1>1, <1>2, SomeInsert DEF p2
<1>4. /\ p3 \in Operations /\ InputLength(p3) = u.to
      /\ \A s \in Text : u.to <= Len(s) => TextApply(s, p3) = TextApply(s, p2)
  <2>1. /\ p3 \in Operations /\ InputLength(p3) = InputLength(p2) + d
        /\ \A s \in Text : InputLength(p2) + d <= Len(s) => TextApply(s, p3) = TextApply(s, p2)
    BY <1>1, <1>3, SomeDelete DEF p3
  <2> QED BY <1>1, <1>3, <2>1
<1>5. p3 = p \o Edited(r, u)
  <2> DEFINE x == Some(Retain(a))
             y == Some(Insert(u.text))
             z == Some(Delete(d))
  <2>1. x \in Operations /\ y \in Operations /\ z \in Operations
    <3>1. \A c : <<>> \o Some(c) = Some(c)
      <4> SUFFICES ASSUME NEW c PROVE <<>> \o Some(c) = Some(c)
        OBVIOUS
      <4> QED BY DEF Some
    <3>2. <<>> \in Operations
      BY EmptySeq DEF Operations
    <3>3. <<>> \o x \in Operations /\ <<>> \o y \in Operations /\ <<>> \o z \in Operations
      BY <1>1, <3>2, SomeRetain, SomeInsert, SomeDelete
    <3> QED BY <3>1, <3>3
  <2>2. Edited(r, u) = (x \o y) \o z
    BY DEF Edited, a, d
  <2> HIDE DEF x, y, z
  <2>3. ((p \o x) \o y) \o z = p \o ((x \o y) \o z)
    <3>1. x \o y \in Operations
      BY <2>1, ConcatProperties DEF Operations
    <3>2. (p \o x) \o y = p \o (x \o y)
      BY <2>1, OperationsAssociative, Zenon
    <3>3. (p \o (x \o y)) \o z = p \o ((x \o y) \o z)
      BY <2>1, <3>1, OperationsAssociative, Zenon
    <3> QED BY <3>2, <3>3
  <2> QED BY <2>2, <2>3 DEF p1, p2, p3, x, y, z
<1>6. ASSUME NEW s \in Text, u.to <= Len(s)
      PROVE  TextApply(s, p3) = TextApply(s, p) \o (SubSeq(s, r + 1, u.from) \o u.text)
  <2>1. u.from <= Len(s) /\ Len(s) \in Nat /\ r <= Len(s)
    BY <1>1, <1>6 DEF Text, r
  <2>2. TextApply(s, p3) = (TextApply(s, p) \o SubSeq(s, r + 1, u.from)) \o u.text
    BY <1>2, <1>3, <1>4, <1>6, <2>1
  <2>3. TextApply(s, p) \in Text
    BY <2>1, ApplyType DEF r
  <2>4. SubSeq(s, r + 1, u.from) \in Text
    BY <1>1, <2>1 DEF Text
  <2> DEFINE x == TextApply(s, p)
             y == SubSeq(s, r + 1, u.from)
             z == u.text
  <2>5. x \in Seq(Alphabet) /\ y \in Seq(Alphabet) /\ z \in Seq(Alphabet)
    BY <1>1, <2>3, <2>4 DEF Text
  <2> HIDE DEF x, y, z
  <2>6. (x \o y) \o z = x \o (y \o z)
    BY <2>5, ConcatAssociative
  <2> QED BY <2>2, <2>6, Zenon DEF x, y, z
<1> QED BY <1>4, <1>5, <1>6 DEF r

LEMMA ChangesOfOperation ==
  ASSUME NEW R \in Changes
  PROVE  [n \in 1..Len(R) |-> Edited(ReadBefore(R, n), R[n])] \in Seq(Seq(CompoundOp))
<1> DEFINE w(n) == Edited(ReadBefore(R, n), R[n])
<1>1. Len(R) \in Nat /\ \A n \in 1..Len(R) : R[n] \in Change
  BY DEF Changes
<1>2. \A n \in 1..Len(R) : w(n) \in Seq(CompoundOp)
  <2> SUFFICES ASSUME NEW n \in 1..Len(R) PROVE w(n) \in Seq(CompoundOp)
    OBVIOUS
  <2>1. R[n].from \in Nat /\ R[n].to \in Nat /\ R[n].text \in Text
    BY <1>1 DEF Change
  <2>2. ReadBefore(R, n) \in Nat
    <3>1. n # 1 => n-1 \in 1..Len(R)
      BY <1>1
    <3> QED BY <1>1, <3>1 DEF ReadBefore, Change
  <2>3. \A k \in Int : Some(Retain(k)) \in Seq(CompoundOp) /\ Some(Delete(k)) \in Seq(CompoundOp)
    <3> SUFFICES ASSUME NEW k \in Int
                 PROVE  Some(Retain(k)) \in Seq(CompoundOp) /\ Some(Delete(k)) \in Seq(CompoundOp)
      OBVIOUS
    <3>1. CASE k > 0
      <4>1. Retain(k) \in CompoundOp /\ Delete(k) \in CompoundOp
        BY <3>1 DEF Retain, Delete, CompoundOp
      <4> QED BY <3>1, <4>1 DEF Some
    <3>2. CASE ~(k > 0)
      BY <3>2, EmptySeq DEF Some, Width, Retain, Delete, IsInsert
    <3> QED BY <3>1, <3>2
  <2>4. Some(Insert(R[n].text)) \in Seq(CompoundOp)
    <3>1. <<>> \in Operations
      BY EmptySeq DEF Operations
    <3>2. <<>> \o Some(Insert(R[n].text)) \in Operations
      BY <2>1, <3>1, SomeInsert
    <3>3. <<>> \o Some(Insert(R[n].text)) = Some(Insert(R[n].text))
      BY DEF Some
    <3> QED BY <3>2, <3>3 DEF Operations
  <2>5. R[n].from - ReadBefore(R, n) \in Int /\ R[n].to - R[n].from \in Int
    BY <2>1, <2>2
  <2> QED BY <2>3, <2>4, <2>5, ConcatProperties, Zenon DEF Edited
<1> DEFINE V == Seq(CompoundOp)
<1> HIDE DEF w, V
<1>3. [n \in 1..Len(R) |-> w(n)] \in [1..Len(R) -> V]
  BY <1>2 DEF V
<1>4. [n \in 1..Len(R) |-> w(n)] \in Seq(V)
  BY <1>1, <1>3
<1> QED BY <1>4 DEF w, V

LEMMA BodyType ==
  ASSUME NEW R \in Changes
  PROVE  Body(R) \in Operations
BY ChangesOfOperation, JoinType, Zenon DEF Body, Operations

LEMMA BodyEmpty == <<>> \in Changes /\ Body(<<>>) = <<>> /\ ReadTo(<<>>) = 0
<1>1. [n \in 1..Len(<<>>) |-> Edited(ReadBefore(<<>>, n), <<>>[n])] = <<>>
  OBVIOUS
<1> QED BY <1>1, JoinEmpty, EmptySeq DEF Changes, Body, ReadTo

LEMMA BodyAppend ==
  ASSUME NEW R \in Changes, NEW u \in Change
  PROVE  /\ Append(R, u) \in Changes /\ ReadTo(Append(R, u)) = u.to
         /\ Body(Append(R, u)) = Body(R) \o Edited(ReadTo(R), u)
<1> DEFINE X == Append(R, u)
           f == [n \in 1..Len(R) |-> Edited(ReadBefore(R, n), R[n])]
           g == [n \in 1..Len(X) |-> Edited(ReadBefore(X, n), X[n])]
<1>1. /\ X \in Changes /\ Len(R) \in Nat /\ Len(X) = Len(R) + 1 /\ X # <<>>
      /\ X[Len(R) + 1] = u /\ \A i \in 1..Len(R) : X[i] = R[i]
      /\ (R = <<>> <=> Len(R) = 0)
  BY AppendProperties, EmptySeq DEF Changes
<1> HIDE DEF X
<1>2. f \in Seq(Seq(CompoundOp)) /\ g \in Seq(Seq(CompoundOp))
  BY <1>1, ChangesOfOperation
<1>3. Len(f) = Len(R) /\ Len(g) = Len(X)
  BY <1>1
<1>4. \A i \in 1..Len(R) : g[i] = f[i]
  <2> SUFFICES ASSUME NEW i \in 1..Len(R) PROVE g[i] = f[i]
    OBVIOUS
  <2>1. i \in 1..Len(X) /\ (i # 1 => i-1 \in 1..Len(R))
    BY <1>1
  <2>2. ReadBefore(X, i) = ReadBefore(R, i) /\ X[i] = R[i]
    BY <1>1, <2>1 DEF ReadBefore
  <2> QED BY <2>1, <2>2
<1>5. g[Len(g)] = Edited(ReadTo(R), u)
  <2>1. ReadBefore(X, Len(R) + 1) = ReadTo(R)
    <3>1. CASE Len(R) = 0
      BY <1>1, <3>1 DEF ReadBefore, ReadTo
    <3>2. CASE Len(R) # 0
      <4>1. Len(R) + 1 # 1 /\ Len(R) + 1 - 1 = Len(R) /\ Len(R) \in 1..Len(R)
        BY <1>1, <3>2
      <4> QED BY <1>1, <3>2, <4>1 DEF ReadBefore, ReadTo
    <3> QED BY <3>1, <3>2
  <2>2. Len(X) \in 1..Len(X)
    BY <1>1
  <2> QED BY <1>1, <1>3, <2>1, <2>2
<1>6. Body(X) = Seqs!FlattenSeq(g) /\ Body(R) = Seqs!FlattenSeq(f)
  BY DEF Body
<1> HIDE DEF f, g
<1>7. Continues(f, g)
  BY <1>1, <1>3, <1>4 DEF Continues
<1>8. Seqs!FlattenSeq(g) = Seqs!FlattenSeq(f) \o g[Len(g)]
  BY <1>2, <1>7, JoinOn, Zenon
<1>9. ReadTo(X) = u.to
  BY <1>1 DEF ReadTo
<1>10. Body(X) = Body(R) \o Edited(ReadTo(R), u)
  BY <1>5, <1>6, <1>8, Zenon
<1> QED BY <1>1, <1>9, <1>10 DEF X

\* The changes are in order, and do not overlap.
Sorted(R) ==
  \A n \in 1..Len(R) : ReadBefore(R, n) <= R[n].from /\ R[n].from <= R[n].to

LEMMA SortedAppend ==
  ASSUME NEW R \in Changes, NEW u \in Change
  PROVE  Sorted(Append(R, u)) <=> Sorted(R) /\ ReadTo(R) <= u.from /\ u.from <= u.to
<1> DEFINE X == Append(R, u)
<1>1. /\ X \in Changes /\ Len(R) \in Nat /\ Len(X) = Len(R) + 1
      /\ X[Len(R) + 1] = u /\ \A i \in 1..Len(R) : X[i] = R[i]
      /\ (R = <<>> <=> Len(R) = 0)
  BY AppendProperties, EmptySeq DEF Changes
<1> HIDE DEF X
<1>2. \A i \in 1..Len(R) : ReadBefore(X, i) = ReadBefore(R, i)
  <2> SUFFICES ASSUME NEW i \in 1..Len(R) PROVE ReadBefore(X, i) = ReadBefore(R, i)
    OBVIOUS
  <2>1. i # 1 => i-1 \in 1..Len(R)
    BY <1>1
  <2> QED BY <1>1, <2>1 DEF ReadBefore
<1>3. ReadBefore(X, Len(R) + 1) = ReadTo(R)
  <2>1. CASE Len(R) = 0
    BY <1>1, <2>1 DEF ReadBefore, ReadTo
  <2>2. CASE Len(R) # 0
    <3>1. Len(R) + 1 # 1 /\ Len(R) + 1 - 1 = Len(R) /\ Len(R) \in 1..Len(R)
      BY <1>1, <2>2
    <3> QED BY <1>1, <2>2, <3>1 DEF ReadBefore, ReadTo
  <2> QED BY <2>1, <2>2
<1>4. \A n \in 1..Len(X) : n \in 1..Len(R) \/ n = Len(R) + 1
  BY <1>1
<1>5. Len(R) + 1 \in 1..Len(X) /\ \A n \in 1..Len(R) : n \in 1..Len(X)
  BY <1>1
<1>6. Sorted(X) <=> Sorted(R) /\ ReadTo(R) <= u.from /\ u.from <= u.to
  BY <1>1, <1>2, <1>3, <1>4, <1>5, Zenon DEF Sorted
<1> QED BY <1>6 DEF X

LEMMA SortedEmpty == Sorted(<<>>)
BY DEF Sorted

LEMMA ReadToType ==
  ASSUME NEW R \in Changes
  PROVE  ReadTo(R) \in Nat
<1>1. R # <<>> => Len(R) \in 1..Len(R) /\ R[Len(R)] \in Change
  BY EmptySeq DEF Changes
<1> QED BY <1>1 DEF ReadTo, Change

\* The operation that does sorted changes reads as far as they do.
LEMMA BodyReads ==
  ASSUME NEW R \in Changes, Sorted(R)
  PROVE  InputLength(Body(R)) = ReadTo(R)
<1> DEFINE S == {X \in Changes : Sorted(X) => InputLength(Body(X)) = ReadTo(X)}
<1>1. <<>> \in S
  BY BodyEmpty, InputLengthEmpty
<1>2. ASSUME NEW X \in Changes, X \in S, NEW u \in Change PROVE Append(X, u) \in S
  <2>1. Append(X, u) \in Changes /\ ReadTo(Append(X, u)) = u.to
    BY BodyAppend
  <2>2. SUFFICES ASSUME Sorted(Append(X, u))
                 PROVE  InputLength(Body(Append(X, u))) = u.to
    BY <2>1
  <2>3. Sorted(X) /\ ReadTo(X) <= u.from /\ u.from <= u.to
    BY <2>2, SortedAppend
  <2>4. Body(X) \in Operations /\ InputLength(Body(X)) = ReadTo(X)
    BY <1>2, <2>3, BodyType
  <2>5. InputLength(Body(X) \o Edited(ReadTo(X), u)) = u.to
    BY <2>3, <2>4, EditedApplies
  <2> QED BY <2>5, BodyAppend
<1>3. Changes \subseteq S
  <2> HIDE DEF S
  <2> QED BY <1>1, <1>2, SequenceInduction DEF Changes
<1> QED BY <1>3

\* One more sorted change.
LEMMA BodyApplies ==
  ASSUME NEW R \in Changes, NEW u \in Change, Sorted(Append(R, u)),
         NEW s \in Text, u.to <= Len(s)
  PROVE  TextApply(s, Body(Append(R, u)))
           = TextApply(s, Body(R)) \o (SubSeq(s, ReadTo(R) + 1, u.from) \o u.text)
<1>1. Sorted(R) /\ ReadTo(R) <= u.from /\ u.from <= u.to
  BY SortedAppend
<1>2. Body(R) \in Operations /\ InputLength(Body(R)) = ReadTo(R)
  BY <1>1, BodyType, BodyReads
<1> DEFINE p == Body(R)
<1>3. InputLength(p) <= u.from /\ u.from <= u.to /\ p \in Operations
  BY <1>1, <1>2
<1> HIDE DEF p
<1>4. TextApply(s, p \o Edited(InputLength(p), u))
        = TextApply(s, p) \o (SubSeq(s, InputLength(p) + 1, u.from) \o u.text)
  BY <1>3, EditedApplies
<1> QED BY <1>2, <1>4, BodyAppend, Zenon DEF p

\* A change more in a report: one that touches the last becomes part of it.
Touch(R, v) ==
  IF Len(R) > 0 /\ R[Len(R)].to = v.from
    THEN [R EXCEPT ![Len(R)] = Update(@.from, v.to, @.text \o v.text)]
    ELSE Append(R, v)

\* Reported or not on its own, a change does to the document what it says.
LEMMA TouchApplies ==
  ASSUME NEW R \in Changes, Sorted(R), NEW v \in Change, ReadTo(R) <= v.from, v.from <= v.to
  PROVE  /\ Touch(R, v) \in Changes /\ Sorted(Touch(R, v)) /\ ReadTo(Touch(R, v)) = v.to
         /\ \A s \in Text : v.to <= Len(s) =>
              TextApply(s, Body(Touch(R, v)))
                = TextApply(s, Body(R)) \o (SubSeq(s, ReadTo(R) + 1, v.from) \o v.text)
<1>1. R = <<>> <=> Len(R) = 0
  BY EmptySeq DEF Changes
<1>2. CASE Len(R) > 0 /\ R[Len(R)].to = v.from
  <2>1. PICK P \in Changes, w \in Change : R = Append(P, w) /\ Len(R) = Len(P) + 1 /\ R[Len(R)] = w
    BY <1>1, <1>2, LastAndRest DEF Changes
  <2> DEFINE x == Update(w.from, v.to, w.text \o v.text)
  <2>2. x \in Change /\ x.from = w.from /\ x.to = v.to /\ x.text = w.text \o v.text
    BY ConcatProperties DEF Update, Change, Text
  <2>3. Touch(R, v) = [R EXCEPT ![Len(P) + 1] = x]
    BY <1>2, <2>1 DEF Touch
  <2> HIDE DEF x
  <2>4. Touch(R, v) = Append(P, x)
    BY <2>1, <2>2, <2>3, LastReplaced DEF Changes
  <2>5. /\ Sorted(P) /\ ReadTo(P) <= w.from /\ w.from <= w.to /\ w.to = v.from
        /\ w.from \in Nat /\ w.to \in Nat /\ v.to \in Nat /\ v.from \in Nat
        /\ w.text \in Text /\ v.text \in Text /\ ReadTo(R) = w.to
    BY <1>2, <2>1, SortedAppend, BodyAppend DEF Change
  <2>6. Sorted(Append(P, x))
    <3>1. x.from <= x.to
      BY <2>2, <2>5
    <3> QED BY <2>2, <2>5, <3>1, SortedAppend
  <2>7. ASSUME NEW s \in Text, v.to <= Len(s)
        PROVE  TextApply(s, Body(Append(P, x)))
                 = TextApply(s, Body(R)) \o (SubSeq(s, ReadTo(R) + 1, v.from) \o v.text)
    <3>1. Len(s) \in Nat /\ ReadTo(P) \in Nat
      BY ReadToType DEF Text
    <3> DEFINE a == TextApply(s, Body(P))
               b == SubSeq(s, ReadTo(P) + 1, w.from)
               c == w.text
               d == v.text
    <3>2. TextApply(s, Body(Append(P, x))) = a \o (b \o (c \o d))
      <4>1. x.to <= Len(s)
        BY <2>2, <2>7
      <4> QED BY <2>2, <2>6, <4>1, BodyApplies
    <3>3. TextApply(s, Body(R)) = a \o (b \o c)
      <4>1. w.to <= Len(s)
        BY <2>5, <2>7, <3>1
      <4> QED BY <2>1, <4>1, BodyApplies
    <3>4. SubSeq(s, ReadTo(R) + 1, v.from) = <<>>
      BY <2>5
    <3>5. a \in Text
      <4>1. InputLength(Body(P)) = ReadTo(P) /\ Body(P) \in Operations
        BY <2>5, BodyReads, BodyType
      <4>2. InputLength(Body(P)) <= Len(s)
        BY <2>5, <2>7, <3>1, <4>1
      <4> QED BY <4>1, <4>2, ApplyType
    <3>6. b \in Text
      BY <2>5, <2>7, <3>1 DEF Text
    <3>7. c \in Text /\ d \in Text
      BY <2>5
    <3> HIDE DEF a, b, c, d
    <3>8. a \o (b \o (c \o d)) = (a \o (b \o c)) \o d
      <4>1. b \o c \in Text
        BY <3>6, <3>7, ConcatProperties DEF Text
      <4>2. (a \o (b \o c)) \o d = a \o ((b \o c) \o d)
        BY <3>5, <3>7, <4>1, TextsAssociative, Zenon
      <4>3. (b \o c) \o d = b \o (c \o d)
        BY <3>6, <3>7, TextsAssociative, Zenon
      <4> QED BY <4>2, <4>3
    <3>9. <<>> \o d = d
      BY <3>7, ConcatEmptySeq DEF Text
    <3> QED BY <3>2, <3>3, <3>4, <3>8, <3>9 DEF d
  <2>8. ReadTo(Append(P, x)) = v.to /\ Append(P, x) \in Changes
    BY <2>2, BodyAppend
  <2> QED BY <2>4, <2>6, <2>7, <2>8
<1>3. CASE ~(Len(R) > 0 /\ R[Len(R)].to = v.from)
  <2>1. Touch(R, v) = Append(R, v)
    BY <1>3 DEF Touch
  <2>2. Sorted(Append(R, v)) /\ Append(R, v) \in Changes /\ ReadTo(Append(R, v)) = v.to
    BY SortedAppend, BodyAppend
  <2> QED BY <2>1, <2>2, BodyApplies
<1> QED BY <1>2, <1>3

-----------------------------------------------------------------------------
(* Places in units                                                         *)

PlaceOf(s, k) == Len(Units(SubSeq(s, 1, k)))

LEMMA PlacesInOrder ==
  ASSUME NEW s \in Text, NEW a \in Nat, NEW b \in Nat, a <= b, b <= Len(s)
  PROVE  /\ PlaceOf(s, a) \in Nat /\ PlaceOf(s, b) \in Nat
         /\ PlaceOf(s, a) <= PlaceOf(s, b) /\ PlaceOf(s, b) <= Len(Units(s))
         /\ Narrow(s) => PlaceOf(s, b) = b
<1> DEFINE x == SubSeq(s, 1, a)
           y == SubSeq(s, a + 1, b)
           xy == SubSeq(s, 1, b)
           z == SubSeq(s, b + 1, Len(s))
<1>1. x \in Text /\ y \in Text /\ z \in Text /\ xy = x \o y /\ s = xy \o z
  <2>1. InThree(s, a, b, Text)
    BY ThreeParts, Zenon
  <2> QED BY <2>1 DEF InThree
<1>2. xy \in Text /\ Len(xy) = b
  <2>1. b <= b
    OBVIOUS
  <2>2. InThree(s, b, b, Text)
    BY <2>1, ThreeParts, Zenon
  <2> QED BY <2>2 DEF InThree
<1>3. PlaceOf(s, a) = Len(Units(x)) /\ PlaceOf(s, b) = Len(Units(xy))
  BY DEF PlaceOf
<1> HIDE DEF x, y, xy, z
<1>4. Len(Units(x)) \in Nat /\ Len(Units(y)) \in Nat /\ Len(Units(xy)) \in Nat /\ Len(Units(z)) \in Nat
  BY <1>1, <1>2, UnitsLength
<1>5. Len(Units(xy)) = Len(Units(x)) + Len(Units(y))
  <2>1. Units(xy) = Units(x) \o Units(y)
    BY <1>1, UnitsConcat
  <2>2. Units(x) \in Seq(Unit) /\ Units(y) \in Seq(Unit)
    BY <1>1, UnitsType
  <2> QED BY <2>1, <2>2, ConcatProperties
<1>6. Len(Units(s)) = Len(Units(xy)) + Len(Units(z))
  <2>1. Units(s) = Units(xy) \o Units(z)
    BY <1>1, <1>2, UnitsConcat
  <2>2. Units(xy) \in Seq(Unit) /\ Units(z) \in Seq(Unit)
    BY <1>1, <1>2, UnitsType
  <2> QED BY <2>1, <2>2, ConcatProperties
<1>7. Narrow(s) => Len(Units(xy)) = b
  <2>1. Narrow(s) => Narrow(xy)
    BY <1>1, <1>2, NarrowParts
  <2> QED BY <1>2, <2>1, UnitsLength
<1>8. /\ PlaceOf(s, a) \in Nat /\ PlaceOf(s, b) \in Nat
      /\ PlaceOf(s, a) <= PlaceOf(s, b) /\ PlaceOf(s, b) <= Len(Units(s))
  BY <1>3, <1>4, <1>5, <1>6
<1>9. Narrow(s) => PlaceOf(s, b) = b
  BY <1>3, <1>7
<1> QED BY <1>8, <1>9

-----------------------------------------------------------------------------
(* An operation as changes                                                 *)

\* The changes for one operation, at its place in the old document.
UpdateOf(idx, o) ==
  CASE IsInsert(o)        -> <<Update(idx, idx, o.text)>>
    [] o.kind = "Delete" -> <<Update(idx, idx + o.count, <<>>)>>
    [] o.kind = "Retain" -> <<>>

LEMMA UpdateOfType ==
  ASSUME NEW idx \in Nat, NEW o \in CompoundOp
  PROVE  UpdateOf(idx, o) \in Seq(Change)
<1>1. CASE IsInsert(o)
  <2>1. o.text \in Text
    BY <1>1, Sizes
  <2>2. UpdateOf(idx, o) = <<Update(idx, idx, o.text)>>
    BY <1>1 DEF UpdateOf, IsInsert
  <2>3. Update(idx, idx, o.text) \in Change
    BY <2>1 DEF Update, Change
  <2> QED BY <2>2, <2>3
<1>2. CASE ~IsInsert(o) /\ o.kind = "Delete"
  <2>1. o.count \in Nat /\ UpdateOf(idx, o) = <<Update(idx, idx + o.count, <<>>)>>
    BY <1>2, Sizes DEF UpdateOf
  <2>2. Update(idx, idx + o.count, <<>>) \in Change
    BY <2>1, EmptySeq DEF Update, Change, Text
  <2> QED BY <2>1, <2>2
<1>3. CASE ~IsInsert(o) /\ o.kind = "Retain"
  <2>1. UpdateOf(idx, o) = <<>>
    BY <1>3 DEF UpdateOf
  <2> QED BY <2>1, EmptySeq
<1> QED BY <1>1, <1>2, <1>3, Sizes

LEMMA UpdatesAre ==
  ASSUME NEW q \in Operations
  PROVE  LET f == [n \in 1..Len(q) |-> UpdateOf(InputLength(SubSeq(q, 1, n-1)), q[n])]
         IN  f \in Seq(Seq(Change)) /\ TextOperationTextUpdates(q) = Seqs!FlattenSeq(f)
<1> DEFINE w(n) == UpdateOf(InputLength(SubSeq(q, 1, n-1)), q[n])
           V == Seq(Change)
<1>1. Len(q) \in Nat /\ DOMAIN q = 1..Len(q) /\ \A n \in 1..Len(q) : q[n] \in CompoundOp
  BY DEF Operations
<1>2. \A n \in 1..Len(q) : w(n) \in V
  <2> SUFFICES ASSUME NEW n \in 1..Len(q) PROVE w(n) \in V
    OBVIOUS
  <2>1. SubSeq(q, 1, n-1) \in Operations
    BY <1>1 DEF Operations
  <2>2. InputLength(SubSeq(q, 1, n-1)) \in Nat
    BY <2>1, InputLengthType
  <2> QED BY <1>1, <2>2, UpdateOfType
<1>3. [n \in 1..Len(q) |-> w(n)] \in Seq(V)
  <2> HIDE DEF w, V
  <2>1. [n \in 1..Len(q) |-> w(n)] \in [1..Len(q) -> V]
    BY <1>2
  <2> QED BY <1>1, <2>1
<1>4. TextOperationTextUpdates(q) = Seqs!FlattenSeq([n \in 1..Len(q) |-> w(n)])
  BY <1>1, Zenon DEF TextOperationTextUpdates, UpdateOf
<1> QED BY <1>3, <1>4

LEMMA UpdatesType ==
  ASSUME NEW q \in Operations
  PROVE  TextOperationTextUpdates(q) \in Changes
BY UpdatesAre, JoinType, Zenon DEF Changes

LEMMA UpdatesEmpty == TextOperationTextUpdates(<<>>) = <<>>
<1>1. <<>> \in Operations /\ Len(<<>>) = 0
  BY EmptySeq DEF Operations
<1>2. [n \in 1..Len(<<>>) |-> UpdateOf(InputLength(SubSeq(<<>>, 1, n-1)), <<>>[n])] = <<>>
  BY <1>1
<1> QED BY <1>1, <1>2, UpdatesAre, JoinEmpty, Zenon

LEMMA UpdatesAppend ==
  ASSUME NEW q \in Operations, NEW o \in CompoundOp
  PROVE  TextOperationTextUpdates(Append(q, o))
           = TextOperationTextUpdates(q) \o UpdateOf(InputLength(q), o)
<1> DEFINE r == Append(q, o)
           w(n) == UpdateOf(InputLength(SubSeq(q, 1, n-1)), q[n])
           v(n) == UpdateOf(InputLength(SubSeq(r, 1, n-1)), r[n])
           f == [n \in 1..Len(q) |-> w(n)]
           g == [n \in 1..Len(r) |-> v(n)]
<1>1. /\ r \in Operations /\ Len(q) \in Nat /\ Len(r) = Len(q) + 1
      /\ r[Len(q) + 1] = o /\ \A n \in 1..Len(q) : r[n] = q[n]
  BY AppendProperties DEF Operations
<1> HIDE DEF r
<1>2. \A n \in 0..Len(q) : SubSeq(r, 1, n) = SubSeq(q, 1, n)
  <2> SUFFICES ASSUME NEW n \in 0..Len(q) PROVE SubSeq(r, 1, n) = SubSeq(q, 1, n)
    OBVIOUS
  <2>1. \A i \in 1..n : r[i] = q[i]
    BY <1>1
  <2>2. SubSeq(r, 1, n) = [i \in 1..n |-> r[i]] /\ SubSeq(q, 1, n) = [i \in 1..n |-> q[i]]
    BY <1>1 DEF Operations
  <2> QED BY <2>1, <2>2
<1>3. SubSeq(q, 1, Len(q)) = q
  BY SubSeqFull DEF Operations
<1>4. f \in Seq(Seq(Change)) /\ TextOperationTextUpdates(q) = Seqs!FlattenSeq(f)
  BY UpdatesAre, Zenon
<1>5. g \in Seq(Seq(Change)) /\ TextOperationTextUpdates(r) = Seqs!FlattenSeq(g)
  BY <1>1, UpdatesAre, Zenon
<1>6. \A n \in 1..Len(q) : v(n) = w(n)
  <2> SUFFICES ASSUME NEW n \in 1..Len(q) PROVE v(n) = w(n)
    OBVIOUS
  <2>1. n-1 \in 0..Len(q)
    BY <1>1
  <2>2. SubSeq(r, 1, n-1) = SubSeq(q, 1, n-1) /\ r[n] = q[n]
    BY <1>1, <1>2, <2>1
  <2> QED BY <2>2, Zenon
<1>7. v(Len(r)) = UpdateOf(InputLength(q), o)
  <2>1. Len(r) - 1 = Len(q) /\ Len(q) \in 0..Len(q) /\ r[Len(r)] = o
    BY <1>1
  <2>2. SubSeq(r, 1, Len(r) - 1) = q
    BY <1>2, <1>3, <2>1
  <2> QED BY <2>1, <2>2, Zenon
<1> HIDE DEF w, v
<1>8. Len(f) = Len(q) /\ Len(g) = Len(r) /\ g[Len(g)] = v(Len(r)) /\ \A i \in 1..Len(q) : g[i] = f[i]
  BY <1>1, <1>6
<1> HIDE DEF f, g
<1>9. Continues(f, g)
  BY <1>1, <1>8 DEF Continues
<1>10. Seqs!FlattenSeq(g) = Seqs!FlattenSeq(f) \o g[Len(g)]
  BY <1>4, <1>5, <1>9, JoinOn, Zenon
<1> QED BY <1>4, <1>5, <1>7, <1>8, <1>10, Zenon DEF r

-----------------------------------------------------------------------------
(* The report of changes                                                   *)

Placed(s, u) == Update(PlaceOf(s, u.from), PlaceOf(s, u.to), u.text)

IsReport(f, s, U) ==
  f = [n \in 0..Len(U) |-> IF n = 0 THEN <<>> ELSE Touch(f[n-1], Placed(s, U[n]))]

Report(s, U) == (CHOOSE f : IsReport(f, s, U))[Len(U)]

LEMMA ReportedIs ==
  ASSUME NEW s, NEW q
  PROVE  Reported(s, q) = Report(s, TextOperationTextUpdates(q))
BY DEF Reported, Report, IsReport, Touch, Placed, PlaceOf

\* The changes inside a document.
Within(s) == {u \in Change : u.from <= u.to /\ u.to <= Len(s)}

LEMMA TouchType ==
  ASSUME NEW R \in Changes, NEW v \in Change
  PROVE  Touch(R, v) \in Changes
<1>1. R = <<>> <=> Len(R) = 0
  BY EmptySeq DEF Changes
<1>2. CASE Len(R) > 0 /\ R[Len(R)].to = v.from
  <2>1. Len(R) \in 1..Len(R) /\ R[Len(R)] \in Change
    BY <1>2 DEF Changes
  <2> DEFINE x == Update(R[Len(R)].from, v.to, R[Len(R)].text \o v.text)
  <2>2. x \in Change
    BY <2>1, ConcatProperties DEF Update, Change, Text
  <2>3. Touch(R, v) = [R EXCEPT ![Len(R)] = x]
    BY <1>2, <2>1 DEF Touch, Changes
  <2> HIDE DEF x
  <2> QED BY <2>1, <2>2, <2>3, ExceptSeq DEF Changes
<1>3. CASE ~(Len(R) > 0 /\ R[Len(R)].to = v.from)
  BY <1>3, AppendProperties DEF Touch, Changes
<1> QED BY <1>2, <1>3

LEMMA PlacedType ==
  ASSUME NEW s \in Text, NEW u \in Within(s)
  PROVE  /\ Placed(s, u) \in Change
         /\ Placed(s, u).from = PlaceOf(s, u.from) /\ Placed(s, u).to = PlaceOf(s, u.to)
         /\ Placed(s, u).text = u.text
<1>1. /\ u.from \in Nat /\ u.to \in Nat /\ u.from <= u.to /\ u.to <= Len(s) /\ u.text \in Text
  BY DEF Within, Change
<1>2. PlaceOf(s, u.from) \in Nat /\ PlaceOf(s, u.to) \in Nat
  BY <1>1, PlacesInOrder
<1> QED BY <1>1, <1>2 DEF Placed, Update, Change

LEMMA ReportRun ==
  ASSUME NEW s \in Text, NEW U \in Seq(Within(s))
  PROVE  \E f : /\ IsReport(f, s, U) /\ Report(s, U) = f[Len(U)]
                /\ f[0] = <<>> /\ \A n \in 1..Len(U) : f[n] = Touch(f[n-1], Placed(s, U[n]))
                /\ f[Len(U)] \in Changes
<1> DEFINE step == [n \in 1..Len(U) |-> [y \in Changes |-> Touch(y, Placed(s, U[n]))]]
<1>1. Len(U) \in Nat /\ \A n \in 1..Len(U) : U[n] \in Within(s)
  OBVIOUS
<1>2. \A n \in 1..Len(U) : \A y \in Changes : Touch(y, Placed(s, U[n])) \in Changes
  BY <1>1, PlacedType, TouchType
<1>3. step \in [1..Len(U) -> [Changes -> Changes]]
  BY <1>2
<1>4. <<>> \in Changes
  BY EmptySeq DEF Changes
<1>5. PICK g : g \in Folds(Len(U), Changes, <<>>, step)
  <2> HIDE DEF step
  <2> QED BY <1>1, <1>3, <1>4, FoldExists
<1>6. g \in [0..Len(U) -> Changes] /\ g[0] = <<>> /\ \A n \in 1..Len(U) : g[n] = step[n][g[n-1]]
  <2> HIDE DEF step
  <2> QED BY <1>5 DEF Folds
<1>7. ASSUME NEW n \in 1..Len(U) PROVE g[n] = Touch(g[n-1], Placed(s, U[n]))
  <2>1. g[n-1] \in Changes
    <3>1. n-1 \in 0..Len(U)
      BY <1>1
    <3> HIDE DEF step
    <3> QED BY <1>6, <3>1, Zenon
  <2> QED BY <1>6, <2>1
<1> HIDE DEF step
<1>8. IsReport(g, s, U)
  <2>1. \A n \in 0..Len(U) : g[n] = IF n = 0 THEN <<>> ELSE Touch(g[n-1], Placed(s, U[n]))
    <3>1. \A n \in 0..Len(U) : n = 0 \/ (n # 0 /\ n \in 1..Len(U))
      BY <1>1
    <3> QED BY <1>6, <1>7, <3>1, Zenon
  <2>2. g = [n \in 0..Len(U) |-> g[n]]
    BY <1>6
  <2> QED BY <2>1, <2>2 DEF IsReport
<1>9. PICK f : IsReport(f, s, U) /\ Report(s, U) = f[Len(U)]
  BY <1>8 DEF Report
<1>10. f[0] = <<>> /\ \A n \in 1..Len(U) : f[n] = Touch(f[n-1], Placed(s, U[n]))
  <2>1. 0 \in 0..Len(U) /\ \A n \in 1..Len(U) : n \in 0..Len(U) /\ n # 0
    BY <1>1
  <2> DEFINE next(n) == Touch(f[n-1], Placed(s, U[n]))
  <2>2. f = [n \in 0..Len(U) |-> IF n = 0 THEN <<>> ELSE next(n)]
    BY <1>9 DEF IsReport
  <2> HIDE DEF next
  <2>3. f[0] = <<>> /\ \A n \in 1..Len(U) : f[n] = next(n)
    BY <2>1, <2>2
  <2> QED BY <2>3 DEF next
<1>11. SameSteps(f, g, Len(U))
  <2>1. ASSUME NEW n \in 1..Len(U), f[n-1] = g[n-1] PROVE f[n] = g[n]
    BY <1>7, <1>10, <2>1, Zenon
  <2> QED BY <1>6, <1>10, <2>1, Zenon DEF SameSteps
<1>12. SameValues(f, g, Len(U))
  BY <1>1, <1>11, Alike
<1>13. f[Len(U)] \in Changes
  <2>1. f[Len(U)] = g[Len(U)] /\ Len(U) \in 0..Len(U)
    BY <1>1, <1>12 DEF SameValues
  <2> QED BY <1>6, <2>1
<1> QED BY <1>9, <1>10, <1>13

LEMMA ReportEmpty ==
  ASSUME NEW s \in Text
  PROVE  Report(s, <<>>) = <<>>
<1>1. <<>> \in Seq(Within(s)) /\ Len(<<>>) = 0
  BY EmptySeq
<1> QED BY <1>1, ReportRun

LEMMA ReportAppend ==
  ASSUME NEW s \in Text, NEW U \in Seq(Within(s)), NEW u \in Within(s)
  PROVE  Report(s, Append(U, u)) = Touch(Report(s, U), Placed(s, u))
<1> DEFINE X == Append(U, u)
<1>1. /\ X \in Seq(Within(s)) /\ Len(U) \in Nat /\ Len(X) = Len(U) + 1
      /\ X[Len(U) + 1] = u /\ \A n \in 1..Len(U) : X[n] = U[n]
  BY AppendProperties
<1> HIDE DEF X
<1>2. PICK f : /\ Report(s, U) = f[Len(U)]
               /\ f[0] = <<>> /\ \A n \in 1..Len(U) : f[n] = Touch(f[n-1], Placed(s, U[n]))
  BY ReportRun
<1>3. PICK g : /\ Report(s, X) = g[Len(X)]
               /\ g[0] = <<>> /\ \A n \in 1..Len(X) : g[n] = Touch(g[n-1], Placed(s, X[n]))
  BY <1>1, ReportRun
<1>4. SameSteps(f, g, Len(U))
  <2>1. ASSUME NEW n \in 1..Len(U), f[n-1] = g[n-1] PROVE f[n] = g[n]
    <3>1. n \in 1..Len(X) /\ X[n] = U[n]
      BY <1>1
    <3> QED BY <1>2, <1>3, <2>1, <3>1, Zenon
  <2> QED BY <1>2, <1>3, <2>1, Zenon DEF SameSteps
<1>5. f[Len(U)] = g[Len(U)]
  BY <1>1, <1>4, Alike DEF SameValues
<1>6. Len(X) \in 1..Len(X) /\ Len(X) - 1 = Len(U) /\ X[Len(X)] = u
  BY <1>1
<1>7. g[Len(X)] = Touch(g[Len(U)], Placed(s, u))
  BY <1>3, <1>6, Zenon
<1> QED BY <1>2, <1>3, <1>5, <1>7, Zenon DEF X

\* What retains is no change; anything else is one change, that does what it does.
LEMMA UpdateOfOne ==
  ASSUME NEW s \in Text, NEW i \in Nat, NEW o \in CompoundOp, i + ExpectedInputSize(o) <= Len(s),
         o.kind # "Retain"
  PROVE  \E u \in Within(s) : /\ UpdateOf(i, o) = <<u>>
                              /\ u.from = i /\ u.to = i + ExpectedInputSize(o)
                              /\ u.text = Written(s, i, o)
<1>1. CASE IsInsert(o)
  <2>1. o.text \in Text /\ ExpectedInputSize(o) = 0
    BY <1>1, Sizes
  <2>2. UpdateOf(i, o) = <<Update(i, i, o.text)>> /\ Written(s, i, o) = o.text
    BY <1>1 DEF UpdateOf, IsInsert, Written
  <2> DEFINE u == Update(i, i, o.text)
  <2>3. u \in Change /\ u.from = i /\ u.to = i /\ u.text = o.text
    BY <2>1 DEF Update, Change
  <2> HIDE DEF u
  <2>4. u \in Within(s)
    BY <2>1, <2>3 DEF Within
  <2> QED BY <2>1, <2>2, <2>3, <2>4 DEF u
<1>2. CASE ~IsInsert(o) /\ o.kind = "Delete"
  <2>1. o.count \in Nat /\ ExpectedInputSize(o) = o.count
    BY <1>2, Sizes
  <2>2. UpdateOf(i, o) = <<Update(i, i + o.count, <<>>)>> /\ Written(s, i, o) = <<>>
    BY <1>2 DEF UpdateOf, Written
  <2> DEFINE u == Update(i, i + o.count, <<>>)
  <2>3. u \in Change /\ u.from = i /\ u.to = i + o.count /\ u.text = <<>>
    BY <2>1, EmptySeq DEF Update, Change, Text
  <2> HIDE DEF u
  <2>4. u \in Within(s)
    BY <2>1, <2>3 DEF Within
  <2> QED BY <2>1, <2>2, <2>3, <2>4 DEF u
<1> QED BY <1>1, <1>2, Sizes

LEMMA UpdateOfNone ==
  ASSUME NEW s \in Text, NEW i \in Nat, NEW o \in CompoundOp, o.kind = "Retain"
  PROVE  /\ UpdateOf(i, o) = <<>>
         /\ Written(s, i, o) = SubSeq(s, i + 1, i + ExpectedInputSize(o))
<1>1. ~IsInsert(o)
  BY DEF IsInsert
<1>2. ExpectedInputSize(o) = o.count
  BY <1>1, Sizes
<1> QED BY <1>1, <1>2 DEF UpdateOf, Written

LEMMA ReadOn ==
  ASSUME NEW s \in Text, NEW a \in Nat, NEW b \in Nat, NEW c \in Nat, a <= b, b <= c, c <= Len(s)
  PROVE  SubSeq(s, a + 1, b) \o SubSeq(s, b + 1, c) = SubSeq(s, a + 1, c)
<1>1. Len(s) \in Nat /\ s \in Seq(Alphabet)
  BY DEF Text
<1>2. a + 1 \in 1..(Len(s) + 1) /\ b \in (a + 1 - 1)..Len(s) /\ c \in b..Len(s)
  BY <1>1
<1> QED BY <1>1, <1>2, ConcatAdjacentSubSeq

ReportOf(s, q) == Report(s, TextOperationTextUpdates(q))

\* What a report of the first operations says: it does what they do, up to what they
\* retain at the end.
ReportInv(s, q) ==
  /\ TextOperationTextUpdates(q) \in Seq(Within(s))
  /\ ReportOf(s, q) \in Changes
  /\ Sorted(ReportOf(s, q))
  /\ ReadTo(ReportOf(s, q)) <= PlaceOf(s, InputLength(q))
  /\ Narrow(s) => TextApply(s, Body(ReportOf(s, q)))
                    \o SubSeq(s, ReadTo(ReportOf(s, q)) + 1, InputLength(q))
                      = TextApply(s, q)

LEMMA ReportGrows ==
  ASSUME NEW s \in Text, NEW q \in Operations, NEW o \in CompoundOp,
         InputLength(q) + ExpectedInputSize(o) <= Len(s), ReportInv(s, q)
  PROVE  ReportInv(s, Append(q, o))
<1> DEFINE r == Append(q, o)
           i == InputLength(q)
           j == i + ExpectedInputSize(o)
           U == TextOperationTextUpdates(q)
           R == ReportOf(s, q)
           k == ReadTo(R)
           A == TextApply(s, Body(R))
           B == SubSeq(s, k + 1, i)
           W == Written(s, i, o)
<1>1. i \in Nat /\ j \in Nat /\ i <= j /\ j <= Len(s) /\ Len(s) \in Nat
  BY InputLengthType, Sizes DEF Text
<1>2. r \in Operations /\ InputLength(r) = j
  BY InputLengthAppend, AppendProperties DEF Operations
<1>3. TextOperationTextUpdates(r) = U \o UpdateOf(i, o)
  BY UpdatesAppend
<1>4. TextApply(s, r) = TextApply(s, q) \o W
  BY <1>1, ApplyAppend
<1>5. /\ U \in Seq(Within(s)) /\ R \in Changes /\ Sorted(R) /\ k \in Nat /\ k <= PlaceOf(s, i)
      /\ Narrow(s) => A \o B = TextApply(s, q)
  BY ReadToType DEF ReportInv
<1>6. /\ PlaceOf(s, i) \in Nat /\ PlaceOf(s, j) \in Nat /\ PlaceOf(s, i) <= PlaceOf(s, j)
      /\ Narrow(s) => PlaceOf(s, i) = i /\ PlaceOf(s, j) = j
  <2>1. i <= i /\ i <= Len(s)
    BY <1>1
  <2>2. Narrow(s) => PlaceOf(s, i) = i
    BY <1>1, <2>1, PlacesInOrder
  <2> HIDE DEF i, j
  <2> QED BY <1>1, <2>2, PlacesInOrder
<1>7. W \in Text
  BY <1>1, WrittenType
<1>8. Narrow(s) => A \in Text /\ B \in Text
  <2> SUFFICES ASSUME Narrow(s) PROVE A \in Text /\ B \in Text
    OBVIOUS
  <2>1. InputLength(Body(R)) = k /\ Body(R) \in Operations /\ k <= i
    BY <1>5, <1>6, BodyReads, BodyType
  <2>2. InputLength(Body(R)) <= Len(s)
    <3> HIDE DEF R, k, i, j
    <3> QED BY <1>1, <1>5, <2>1
  <2>3. A \in Text
    BY <2>1, <2>2, ApplyType
  <2>4. B \in Text
    <3> HIDE DEF k, i, j
    <3> QED BY <1>1, <1>5, <2>1 DEF Text
  <2> QED BY <2>3, <2>4
<1>9. ReportOf(s, r) = Report(s, U \o UpdateOf(i, o))
  BY <1>3 DEF ReportOf
<1>10. CASE o.kind = "Retain"
  <2>1. UpdateOf(i, o) = <<>> /\ W = SubSeq(s, i + 1, j)
    BY <1>1, <1>10, UpdateOfNone
  <2>2. U \o <<>> = U
    BY <1>5, ConcatEmptySeq
  <2>3. ReportOf(s, r) = R /\ TextOperationTextUpdates(r) = U
    BY <1>3, <1>9, <2>1, <2>2 DEF ReportOf
  <2>4. ASSUME Narrow(s) PROVE A \o SubSeq(s, k + 1, j) = TextApply(s, r)
    <3>1. B \o W = SubSeq(s, k + 1, j)
      <4>1. k <= i
        BY <1>5, <1>6, <2>4
      <4> HIDE DEF i, j, k
      <4> QED BY <1>1, <1>5, <2>1, <4>1, ReadOn
    <3>2. A \in Text /\ B \in Text /\ A \o B = TextApply(s, q)
      BY <1>5, <1>8, <2>4
    <3> HIDE DEF A, B, W, i, j, k
    <3>3. (A \o B) \o W = A \o (B \o W)
      BY <1>7, <3>2, TextsAssociative
    <3> QED BY <1>4, <3>1, <3>2, <3>3
  <2>5. k <= PlaceOf(s, j)
    <3> HIDE DEF i, j, k
    <3> QED BY <1>5, <1>6
  <2> HIDE DEF U, R, i, j, B, W, r
  <2>6. /\ TextOperationTextUpdates(r) \in Seq(Within(s)) /\ ReportOf(s, r) \in Changes
        /\ Sorted(ReportOf(s, r)) /\ ReadTo(ReportOf(s, r)) <= PlaceOf(s, InputLength(r))
    BY <1>2, <1>5, <2>3, <2>5
  <2>7. Narrow(s) => TextApply(s, Body(ReportOf(s, r)))
                       \o SubSeq(s, ReadTo(ReportOf(s, r)) + 1, InputLength(r)) = TextApply(s, r)
    BY <1>2, <2>3, <2>4
  <2> QED BY <2>6, <2>7, Zenon DEF ReportInv, r
<1>11. CASE o.kind # "Retain"
  <2>1. PICK u \in Within(s) : UpdateOf(i, o) = <<u>> /\ u.from = i /\ u.to = j /\ u.text = W
    BY <1>1, <1>11, UpdateOfOne
  <2> DEFINE v == Placed(s, u)
             X == Touch(R, v)
  <2>2. /\ v \in Change /\ v.from = PlaceOf(s, i) /\ v.to = PlaceOf(s, j) /\ v.text = W
    BY <2>1, PlacedType
  <2>3. U \o <<u>> = Append(U, u) /\ Append(U, u) \in Seq(Within(s))
    BY <1>5, <2>1, AppendIsConcat, AppendProperties
  <2>4. ReportOf(s, r) = X /\ TextOperationTextUpdates(r) \in Seq(Within(s))
    <3>1. Report(s, Append(U, u)) = Touch(Report(s, U), v)
      BY <1>5, <2>1, ReportAppend
    <3> QED BY <1>3, <1>9, <2>1, <2>3, <3>1 DEF ReportOf
  <2> HIDE DEF v, X, U, R, r
  <2>5. /\ X \in Changes /\ Sorted(X) /\ ReadTo(X) = v.to
        /\ v.to <= Len(s) => TextApply(s, Body(X)) = A \o (SubSeq(s, k + 1, v.from) \o v.text)
    <3>1. ReadTo(R) <= v.from /\ v.from <= v.to
      BY <1>5, <1>6, <2>2
    <3> QED BY <1>5, <2>2, <3>1, TouchApplies DEF X
  <2>6. ASSUME Narrow(s) PROVE TextApply(s, Body(X)) \o SubSeq(s, j + 1, j) = TextApply(s, r)
    <3>1. v.to = j /\ v.from = i /\ v.to <= Len(s)
      BY <1>1, <1>6, <2>2, <2>6
    <3>2. TextApply(s, Body(X)) = A \o (B \o W)
      BY <2>2, <2>5, <3>1
    <3>3. A \in Text /\ B \in Text /\ A \o B = TextApply(s, q)
      BY <1>5, <1>8, <2>6
    <3>4. SubSeq(s, j + 1, j) = <<>>
      BY <1>1
    <3> HIDE DEF A, B, W, i, j, k
    <3>5. (A \o B) \o W = A \o (B \o W)
      BY <1>7, <3>3, TextsAssociative
    <3>6. (A \o B) \o W \in Text
      BY <1>7, <3>3, ConcatProperties DEF Text
    <3>7. ((A \o B) \o W) \o <<>> = (A \o B) \o W
      BY <3>6, ConcatEmptySeq DEF Text
    <3> QED BY <1>4, <3>2, <3>3, <3>4, <3>5, <3>7
  <2>7. Narrow(s) => ReadTo(X) = j
    BY <1>6, <2>2, <2>5
  <2>8. ReadTo(X) <= PlaceOf(s, j)
    BY <1>6, <2>2, <2>5
  <2> HIDE DEF i, j, k, A, B, W
  <2>9. /\ TextOperationTextUpdates(r) \in Seq(Within(s)) /\ ReportOf(s, r) \in Changes
        /\ Sorted(ReportOf(s, r)) /\ ReadTo(ReportOf(s, r)) <= PlaceOf(s, InputLength(r))
    BY <1>2, <2>4, <2>5, <2>8
  <2>10. Narrow(s) => TextApply(s, Body(ReportOf(s, r)))
                        \o SubSeq(s, ReadTo(ReportOf(s, r)) + 1, InputLength(r)) = TextApply(s, r)
    BY <1>2, <2>4, <2>6, <2>7
  <2> QED BY <2>9, <2>10, Zenon DEF ReportInv, r
<1> QED BY <1>10, <1>11

LEMMA ReportHolds ==
  ASSUME NEW s \in Text, NEW q \in Operations, InputLength(q) <= Len(s)
  PROVE  ReportInv(s, q)
<1> DEFINE S == {p \in Operations : InputLength(p) <= Len(s) => ReportInv(s, p)}
<1>1. <<>> \in S
  <2>1. <<>> \in Operations /\ InputLength(<<>>) = 0 /\ TextApply(s, <<>>) = <<>>
    BY EmptySeq, InputLengthEmpty, ApplyEmpty DEF Operations
  <2>2. TextOperationTextUpdates(<<>>) = <<>> /\ ReportOf(s, <<>>) = <<>>
    BY UpdatesEmpty, ReportEmpty DEF ReportOf
  <2>3. <<>> \in Changes /\ Body(<<>>) = <<>> /\ ReadTo(<<>>) = 0 /\ Sorted(<<>>) /\ <<>> \in Seq(Within(s))
    BY BodyEmpty, SortedEmpty, EmptySeq
  <2>4. 0 <= PlaceOf(s, 0)
    <3>1. 0 \in Nat /\ 0 <= 0 /\ 0 <= Len(s)
      BY DEF Text
    <3> QED BY <3>1, PlacesInOrder
  <2>5. SubSeq(s, 0 + 1, 0) = <<>> /\ <<>> \o <<>> = <<>>
    OBVIOUS
  <2> QED BY <2>1, <2>2, <2>3, <2>4, <2>5 DEF ReportInv
<1>2. ASSUME NEW p \in Operations, p \in S, NEW o \in CompoundOp PROVE Append(p, o) \in S
  <2>1. Append(p, o) \in Operations /\ InputLength(Append(p, o)) = InputLength(p) + ExpectedInputSize(o)
    BY InputLengthAppend, AppendProperties DEF Operations
  <2>2. SUFFICES ASSUME InputLength(p) + ExpectedInputSize(o) <= Len(s)
                 PROVE  ReportInv(s, Append(p, o))
    BY <2>1
  <2>3. InputLength(p) <= Len(s)
    BY <2>2, InputLengthType, Sizes DEF Text
  <2>4. ReportInv(s, p)
    BY <1>2, <2>3
  <2> QED BY <2>2, <2>4, ReportGrows
<1>3. Operations \subseteq S
  <2> HIDE DEF S
  <2> QED BY <1>1, <1>2, SequenceInduction DEF Operations
<1> QED BY <1>3

\* What is made of the report of an edit does what the edit does, unless a character is
\* wide: then it does not fit.
LEMMA EditConverted ==
  ASSUME NEW s \in Text, NEW q \in Operations, InputLength(q) = Len(s), NEW x,
         x = TextUpdatesToTextOperation(Reported(s, q), Len(Units(s)))
  PROVE  IF Narrow(s) THEN CanApply(s, x) /\ TextApply(s, x) = TextApply(s, q)
                      ELSE ~CanApply(s, x)
<1> DEFINE R == ReportOf(s, q)
           b == Body(R)
           k == ReadTo(R)
           m == Len(Units(s))
           n == m - k
<1>1. /\ R \in Changes /\ Sorted(R) /\ k <= PlaceOf(s, Len(s))
      /\ Narrow(s) => TextApply(s, b) \o SubSeq(s, k + 1, Len(s)) = TextApply(s, q)
  <2>1. InputLength(q) <= Len(s)
    BY DEF Text
  <2> QED BY <2>1, ReportHolds DEF ReportInv
<1>2. /\ Len(s) \in Nat /\ m \in Nat /\ (m = Len(s) <=> Narrow(s)) /\ k \in Nat
      /\ PlaceOf(s, Len(s)) \in Nat /\ PlaceOf(s, Len(s)) <= m
  <2>1. Len(s) \in Nat /\ Len(s) <= Len(s)
    BY DEF Text
  <2> QED BY <1>1, <2>1, UnitsLength, ReadToType, PlacesInOrder
<1>3. b \in Operations /\ InputLength(b) = k
  BY <1>1, BodyReads, BodyType
<1>4. x = b \o Some(Retain(n))
  BY <1>1, ReportedIs, ConversionIs DEF ReportOf
<1> HIDE DEF R, b, k, m
<1>5. n \in Nat /\ k + n = m
  BY <1>1, <1>2
<1> HIDE DEF n
<1>6. /\ InputLength(x) = m
      /\ m <= Len(s) => TextApply(s, x) = TextApply(s, b) \o SubSeq(s, k + 1, m)
  BY <1>3, <1>4, <1>5, SomeRetain
<1>7. CASE Narrow(s)
  <2>1. m = Len(s) /\ m <= Len(s)
    BY <1>2, <1>7
  <2>2. CanApply(s, x)
    BY <1>6, <2>1 DEF CanApply
  <2>3. TextApply(s, x) = TextApply(s, q)
    BY <1>1, <1>6, <1>7, <2>1
  <2> QED BY <1>7, <2>2, <2>3
<1>8. CASE ~Narrow(s)
  <2>1. m # Len(s)
    BY <1>2, <1>8
  <2> QED BY <1>6, <1>8, <2>1 DEF CanApply
<1> QED BY <1>7, <1>8

-----------------------------------------------------------------------------
(* What the editor makes of changes                                        *)

\* What the editor has written after the last change.
Sent(units, U) ==
  Seqs!FlattenSeq([n \in 1..Len(U) |->
                     SubSeq(units, ReadBefore(U, n) + 1, U[n].from) \o Units(U[n].text)])

LEMMA DispatchIs ==
  ASSUME NEW s \in Text, NEW U \in Seq(Within(s)), NEW units
  PROVE  Dispatch(units, U) = Sent(units, U) \o SubSeq(units, ReadTo(U) + 1, Len(units))
<1>1. Len(U) \in Nat /\ (U = <<>> <=> Len(U) = 0)
  BY EmptySeq
<1>2. ReadTo(U) = IF Len(U) + 1 = 1 THEN 0 ELSE U[(Len(U) + 1) - 1].to
  BY <1>1 DEF ReadTo
<1>3. Dispatch(units, U)
        = Sent(units, U) \o SubSeq(units, (IF Len(U) + 1 = 1 THEN 0 ELSE U[(Len(U) + 1) - 1].to) + 1,
                                   Len(units))
  BY Zenon DEF Dispatch, Sent, ReadBefore
<1> QED BY <1>2, <1>3, Zenon

LEMMA WithinChanges ==
  ASSUME NEW s \in Text, NEW U \in Seq(Within(s))
  PROVE  U \in Changes
<1>1. Len(U) \in Nat /\ U = [n \in 1..Len(U) |-> U[n]] /\ \A n \in 1..Len(U) : U[n] \in Change
  BY DEF Within
<1> QED BY <1>1 DEF Changes

LEMMA SentParts ==
  ASSUME NEW s \in Text, NEW U \in Seq(Within(s))
  PROVE  [n \in 1..Len(U) |-> SubSeq(Units(s), ReadBefore(U, n) + 1, U[n].from) \o Units(U[n].text)]
           \in Seq(Seq(Unit))
<1> DEFINE w(n) == SubSeq(Units(s), ReadBefore(U, n) + 1, U[n].from) \o Units(U[n].text)
           V == Seq(Unit)
<1>1. Len(U) \in Nat /\ \A n \in 1..Len(U) : U[n] \in Within(s)
  OBVIOUS
<1>2. \A n \in 1..Len(U) : w(n) \in V
  <2> SUFFICES ASSUME NEW n \in 1..Len(U) PROVE w(n) \in V
    OBVIOUS
  <2>1. /\ U[n].from \in Nat /\ U[n].to \in Nat /\ U[n].text \in Text
        /\ U[n].from <= U[n].to /\ U[n].to <= Len(s)
    BY <1>1 DEF Within, Change
  <2>2. ReadBefore(U, n) \in Nat
    <3>1. n # 1 => n-1 \in 1..Len(U)
      BY <1>1
    <3> QED BY <1>1, <3>1 DEF ReadBefore, Within, Change
  <2>3. Units(s) \in Seq(Unit) /\ Units(U[n].text) \in Seq(Unit) /\ U[n].from <= Len(Units(s))
    BY <2>1, UnitsType, UnitsLength DEF Text
  <2> DEFINE a == ReadBefore(U, n)
             b == U[n].from
             c == Units(s)
             d == Units(U[n].text)
  <2>4. a \in Nat /\ b \in Nat /\ c \in Seq(Unit) /\ d \in Seq(Unit) /\ b <= Len(c)
    BY <2>1, <2>2, <2>3
  <2> HIDE DEF a, b, c, d
  <2>5. SubSeq(c, a + 1, b) \in Seq(Unit)
    BY <2>4
  <2>6. SubSeq(c, a + 1, b) \o d \in Seq(Unit)
    BY <2>4, <2>5, ConcatProperties
  <2> QED BY <2>6 DEF a, b, c, d
<1> HIDE DEF w, V
<1>3. [n \in 1..Len(U) |-> w(n)] \in [1..Len(U) -> V]
  BY <1>2
<1>4. [n \in 1..Len(U) |-> w(n)] \in Seq(V)
  BY <1>1, <1>3
<1> QED BY <1>4 DEF w, V

LEMMA SentType ==
  ASSUME NEW s \in Text, NEW U \in Seq(Within(s))
  PROVE  Sent(Units(s), U) \in Seq(Unit)
BY SentParts, JoinType, Zenon DEF Sent

LEMMA SentEmpty ==
  ASSUME NEW s
  PROVE  Sent(Units(s), <<>>) = <<>>
<1>1. [n \in 1..Len(<<>>) |->
         SubSeq(Units(s), ReadBefore(<<>>, n) + 1, <<>>[n].from) \o Units(<<>>[n].text)] = <<>>
  OBVIOUS
<1> QED BY <1>1, JoinEmpty DEF Sent

LEMMA SentAppend ==
  ASSUME NEW s \in Text, NEW U \in Seq(Within(s)), NEW u \in Within(s)
  PROVE  Sent(Units(s), Append(U, u))
           = Sent(Units(s), U) \o (SubSeq(Units(s), ReadTo(U) + 1, u.from) \o Units(u.text))
<1> DEFINE X == Append(U, u)
           Y == Units(s)
           w(Z, n) == SubSeq(Y, ReadBefore(Z, n) + 1, Z[n].from) \o Units(Z[n].text)
           f == [n \in 1..Len(U) |-> w(U, n)]
           g == [n \in 1..Len(X) |-> w(X, n)]
<1>1. /\ X \in Seq(Within(s)) /\ Len(U) \in Nat /\ Len(X) = Len(U) + 1 /\ X # <<>>
      /\ X[Len(U) + 1] = u /\ \A i \in 1..Len(U) : X[i] = U[i]
      /\ (U = <<>> <=> Len(U) = 0)
  BY AppendProperties, EmptySeq
<1> HIDE DEF X
<1>2. f \in Seq(Seq(Unit)) /\ g \in Seq(Seq(Unit))
  BY <1>1, SentParts, Zenon
<1> HIDE DEF Y
<1>3. \A i \in 1..Len(U) : w(X, i) = w(U, i)
  <2> SUFFICES ASSUME NEW i \in 1..Len(U) PROVE w(X, i) = w(U, i)
    OBVIOUS
  <2>1. i # 1 => i-1 \in 1..Len(U)
    BY <1>1
  <2>2. ReadBefore(X, i) = ReadBefore(U, i) /\ X[i] = U[i]
    BY <1>1, <2>1 DEF ReadBefore
  <2> QED BY <2>2, Zenon
<1>4. w(X, Len(X)) = SubSeq(Y, ReadTo(U) + 1, u.from) \o Units(u.text)
  <2>1. ReadBefore(X, Len(X)) = ReadTo(U)
    <3>1. CASE Len(U) = 0
      BY <1>1, <3>1 DEF ReadBefore, ReadTo
    <3>2. CASE Len(U) # 0
      <4>1. Len(X) # 1 /\ Len(X) - 1 = Len(U) /\ Len(U) \in 1..Len(U)
        BY <1>1, <3>2
      <4> QED BY <1>1, <3>2, <4>1 DEF ReadBefore, ReadTo
    <3> QED BY <3>1, <3>2
  <2>2. X[Len(X)] = u
    BY <1>1
  <2> QED BY <2>1, <2>2, Zenon
<1> HIDE DEF w
<1>5. Len(f) = Len(U) /\ Len(g) = Len(X) /\ g[Len(g)] = w(X, Len(X)) /\ \A i \in 1..Len(U) : g[i] = f[i]
  BY <1>1, <1>3
<1>6. Sent(Y, X) = Seqs!FlattenSeq(g) /\ Sent(Y, U) = Seqs!FlattenSeq(f)
  BY DEF Sent, w
<1> HIDE DEF f, g
<1>7. Continues(f, g)
  BY <1>1, <1>5 DEF Continues
<1>8. Seqs!FlattenSeq(g) = Seqs!FlattenSeq(f) \o g[Len(g)]
  BY <1>2, <1>7, JoinOn, Zenon
<1> QED BY <1>4, <1>5, <1>6, <1>8, Zenon DEF X, Y

\* What the first changes have written: the units of what the operations have, up to
\* what they retain at the end.
SentInv(s, q) ==
  LET U == TextOperationTextUpdates(q)
      k == ReadTo(U)
  IN  /\ U \in Seq(Within(s)) /\ k <= InputLength(q)
      /\ Narrow(SubSeq(s, 1, k)) =>
           Sent(Units(s), U) \o Units(SubSeq(s, k + 1, InputLength(q))) = Units(TextApply(s, q))

LEMMA SentGrows ==
  ASSUME NEW s \in Text, NEW q \in Operations, NEW o \in CompoundOp,
         InputLength(q) + ExpectedInputSize(o) <= Len(s), SentInv(s, q)
  PROVE  SentInv(s, Append(q, o))
<1> DEFINE r == Append(q, o)
           i == InputLength(q)
           j == i + ExpectedInputSize(o)
           U == TextOperationTextUpdates(q)
           Z == TextOperationTextUpdates(r)
           k == ReadTo(U)
           A == Sent(Units(s), U)
           B == SubSeq(s, k + 1, i)
           T == TextApply(s, q)
           W == Written(s, i, o)
<1>1. i \in Nat /\ j \in Nat /\ i <= j /\ j <= Len(s) /\ i <= Len(s) /\ Len(s) \in Nat
  BY InputLengthType, Sizes DEF Text
<1>2. r \in Operations /\ InputLength(r) = j
  BY InputLengthAppend, AppendProperties DEF Operations
<1>3. Z = U \o UpdateOf(i, o)
  BY UpdatesAppend
<1>4. TextApply(s, r) = T \o W
  BY <1>1, ApplyAppend
<1>5. /\ U \in Seq(Within(s)) /\ U \in Changes /\ k \in Nat /\ k <= i
      /\ Narrow(SubSeq(s, 1, k)) => A \o Units(B) = Units(T)
  BY WithinChanges, ReadToType DEF SentInv
<1>6. W \in Text /\ T \in Text
  BY <1>1, WrittenType, ApplyType
<1>7. B \in Text
  <2> HIDE DEF k, i, j
  <2> QED BY <1>1, <1>5 DEF Text
<1>8. A \in Seq(Unit) /\ Units(B) \in Seq(Unit) /\ Units(W) \in Seq(Unit)
  <2>1. A \in Seq(Unit)
    BY <1>5, SentType
  <2> HIDE DEF A, B, W
  <2> QED BY <1>6, <1>7, <2>1, UnitsType
<1>9. Units(T \o W) = Units(T) \o Units(W)
  <2> HIDE DEF T, W
  <2> QED BY <1>6, UnitsConcat
<1>10. (A \o Units(B)) \o Units(W) = A \o (Units(B) \o Units(W))
  <2> HIDE DEF A, B, W
  <2> QED BY <1>8, UnitsAssociative
<1>11. CASE o.kind = "Retain"
  <2>1. UpdateOf(i, o) = <<>> /\ W = SubSeq(s, i + 1, j)
    BY <1>1, <1>11, UpdateOfNone
  <2>2. Z = U
    BY <1>3, <1>5, <2>1, ConcatEmptySeq
  <2>3. Units(SubSeq(s, k + 1, j)) = Units(B) \o Units(W)
    <3>1. B \o W = SubSeq(s, k + 1, j)
      <4> HIDE DEF i, j, k
      <4> QED BY <1>1, <1>5, <2>1, ReadOn
    <3>2. Units(B \o W) = Units(B) \o Units(W)
      <4> HIDE DEF B, W
      <4> QED BY <1>6, <1>7, UnitsConcat
    <3> QED BY <3>1, <3>2
  <2>4. k <= j
    <3> HIDE DEF i, j, k
    <3> QED BY <1>1, <1>5
  <2>5. Narrow(SubSeq(s, 1, k)) => A \o Units(SubSeq(s, k + 1, j)) = Units(TextApply(s, r))
    <3> HIDE DEF A, B, T, W, i, j, k, U, r
    <3> QED BY <1>4, <1>5, <1>9, <1>10, <2>3
  <2> HIDE DEF r, i, j, Z, T, B, W
  <2> QED BY <1>2, <1>5, <2>2, <2>4, <2>5, Zenon DEF SentInv, Z, r
<1>12. CASE o.kind # "Retain"
  <2>1. PICK u \in Within(s) : UpdateOf(i, o) = <<u>> /\ u.from = i /\ u.to = j /\ u.text = W
    BY <1>1, <1>12, UpdateOfOne
  <2>2. Z = Append(U, u) /\ Append(U, u) \in Seq(Within(s))
    BY <1>3, <1>5, <2>1, AppendIsConcat, AppendProperties
  <2>3. ReadTo(Z) = j
    <3>1. u \in Change
      BY DEF Within
    <3> QED BY <1>5, <2>1, <2>2, <3>1, BodyAppend
  <2>4. Sent(Units(s), Z) = A \o (SubSeq(Units(s), k + 1, i) \o Units(W))
    BY <1>5, <2>1, <2>2, SentAppend
  <2>5. ASSUME Narrow(SubSeq(s, 1, j))
        PROVE  Sent(Units(s), Z) \o Units(SubSeq(s, j + 1, j)) = Units(TextApply(s, r))
    <3>1. Narrow(SubSeq(s, 1, i))
      <4> HIDE DEF i, j
      <4> QED BY <1>1, <2>5, UnitsPart
    <3>2. Narrow(SubSeq(s, 1, k)) /\ SubSeq(Units(s), k + 1, i) = Units(B)
      <4> HIDE DEF i, j, k
      <4> QED BY <1>1, <1>5, <3>1, UnitsPart
    <3>3. Units(SubSeq(s, j + 1, j)) = <<>>
      <4>1. SubSeq(s, j + 1, j) = <<>>
        <5> HIDE DEF j
        <5> QED BY <1>1
      <4> QED BY <4>1, UnitsEmpty
    <3>4. Sent(Units(s), Z) = Units(T \o W)
      <4> HIDE DEF A, B, T, W, i, j, k, U, r, Z
      <4> QED BY <1>5, <1>9, <1>10, <2>4, <3>2
    <3>5. Units(T \o W) \o <<>> = Units(T \o W)
      <4>1. T \o W \in Text
        BY <1>6, ConcatProperties DEF Text
      <4> QED BY <4>1, UnitsType, ConcatEmptySeq
    <3> QED BY <1>4, <3>3, <3>4, <3>5
  <2>6. j <= j
    BY <1>1
  <2> HIDE DEF i, j, k, A, B, T, W, r, Z, U
  <2> QED BY <1>2, <2>2, <2>3, <2>5, <2>6, Zenon DEF SentInv, r, Z
<1> QED BY <1>11, <1>12

LEMMA SentHolds ==
  ASSUME NEW s \in Text, NEW q \in Operations, InputLength(q) <= Len(s)
  PROVE  SentInv(s, q)
<1> DEFINE S == {p \in Operations : InputLength(p) <= Len(s) => SentInv(s, p)}
<1>1. <<>> \in S
  <2>1. <<>> \in Operations /\ InputLength(<<>>) = 0 /\ TextApply(s, <<>>) = <<>>
    BY EmptySeq, InputLengthEmpty, ApplyEmpty DEF Operations
  <2>2. TextOperationTextUpdates(<<>>) = <<>> /\ Sent(Units(s), <<>>) = <<>>
    BY UpdatesEmpty, SentEmpty
  <2>3. ReadTo(<<>>) = 0 /\ <<>> \in Seq(Within(s)) /\ Units(<<>>) = <<>>
    BY BodyEmpty, UnitsEmpty, EmptySeq
  <2>4. SubSeq(s, 0 + 1, 0) = <<>> /\ <<>> \o <<>> = <<>>
    OBVIOUS
  <2>5. Sent(Units(s), <<>>) \o Units(SubSeq(s, 0 + 1, 0)) = <<>>
    BY <2>2, <2>3, <2>4
  <2>6. SentInv(s, <<>>)
    <3>1. 0 <= 0
      OBVIOUS
    <3> QED BY <2>1, <2>2, <2>3, <2>5, <3>1, Zenon DEF SentInv
  <2> QED BY <2>1, <2>6
<1>2. ASSUME NEW p \in Operations, p \in S, NEW o \in CompoundOp PROVE Append(p, o) \in S
  <2>1. Append(p, o) \in Operations /\ InputLength(Append(p, o)) = InputLength(p) + ExpectedInputSize(o)
    BY InputLengthAppend, AppendProperties DEF Operations
  <2>2. SUFFICES ASSUME InputLength(p) + ExpectedInputSize(o) <= Len(s)
                 PROVE  SentInv(s, Append(p, o))
    BY <2>1
  <2>3. InputLength(p) <= Len(s)
    BY <2>2, InputLengthType, Sizes DEF Text
  <2>4. SentInv(s, p)
    BY <1>2, <2>3
  <2> QED BY <2>2, <2>4, SentGrows
<1>3. Operations \subseteq S
  <2> HIDE DEF S
  <2> QED BY <1>1, <1>2, SequenceInduction DEF Operations
<1> QED BY <1>3

\* The changes of an operation make the editor show what the operation makes of the
\* document, unless a character before the end of the last change is wide.
LEMMA UpdatesReach ==
  ASSUME NEW s \in Text, NEW q \in Operations, InputLength(q) = Len(s),
         NEW U, U = TextOperationTextUpdates(q), Narrow(SubSeq(s, 1, ReadTo(U)))
  PROVE  Dispatch(Units(s), U) = Units(TextApply(s, q))
<1> DEFINE k == ReadTo(U)
<1>1. /\ U \in Seq(Within(s)) /\ k <= Len(s)
      /\ Sent(Units(s), U) \o Units(SubSeq(s, k + 1, Len(s))) = Units(TextApply(s, q))
  <2>1. InputLength(q) <= Len(s)
    BY DEF Text
  <2> QED BY <2>1, SentHolds DEF SentInv
<1>2. k \in Nat
  BY <1>1, WithinChanges, ReadToType
<1>3. SubSeq(Units(s), k + 1, Len(Units(s))) = Units(SubSeq(s, k + 1, Len(s)))
  <2>1. Narrow(SubSeq(s, 1, k))
    OBVIOUS
  <2> HIDE DEF k
  <2> QED BY <1>1, <1>2, <2>1, UnitsRest
<1>4. Dispatch(Units(s), U) = Sent(Units(s), U) \o SubSeq(Units(s), k + 1, Len(Units(s)))
  BY <1>1, DispatchIs
<1> QED BY <1>1, <1>3, <1>4, Zenon

-----------------------------------------------------------------------------
(* The results                                                             *)

\* Two operations made for one document, of any size, are transformed into
\* operations that can follow them, and both users end with one document: what
\* TextOperation::transform promises (TransformConverges).
THEOREM TransformationConverges ==
  ASSUME NEW s \in Text, NEW ops1 \in Operations, NEW ops2 \in Operations,
         CanApply(s, ops1), CanApply(s, ops2)
  PROVE  LET both == TextTransform(ops1, ops2)
         IN  /\ both[1] \in Operations /\ both[2] \in Operations
             /\ CanApply(TextApply(s, ops1), both[2])
             /\ CanApply(TextApply(s, ops2), both[1])
             /\ TextApply(TextApply(s, ops1), both[2]) = TextApply(TextApply(s, ops2), both[1])
<1> DEFINE w == TransformOps[<<ops1, ops2>>]
           x1 == TextApply(s, ops1)
           x2 == TextApply(s, ops2)
<1>1. <<ops1, ops2>> \in Pairs /\ BothApply(s, <<ops1, ops2>>)
  BY PairType DEF BothApply, CanApply
<1>2. Converges(s, <<ops1, ops2>>, w)
  BY <1>1, WalkConverges
<1>3. Meet(x1, x2, w[1], w[2])
  <2> HIDE DEF w
  <2> QED BY <1>2 DEF Converges
<1>4. x1 \in Text /\ x2 \in Text
  BY <1>1, BothType
<1>5. TextTransform(ops1, ops2) = <<Condense(w[1]), Condense(w[2])>>
  BY DEF TextTransform
<1> HIDE DEF w, x1, x2
<1>6. /\ w[1] \in Operations /\ w[2] \in Operations
      /\ InputLength(w[2]) = Len(x1) /\ InputLength(w[1]) = Len(x2)
      /\ TextApply(x1, w[2]) = TextApply(x2, w[1])
  BY <1>3 DEF Meet
<1>7. Equivalent(w[1], Condense(w[1])) /\ Equivalent(w[2], Condense(w[2]))
  BY <1>6, CondenseSame
<1>8. /\ Condense(w[1]) \in Operations /\ Condense(w[2]) \in Operations
      /\ InputLength(Condense(w[2])) = Len(x1) /\ InputLength(Condense(w[1])) = Len(x2)
  BY <1>6, <1>7 DEF Equivalent
<1>9. /\ TextApply(x1, Condense(w[2])) = TextApply(x1, w[2])
      /\ TextApply(x2, Condense(w[1])) = TextApply(x2, w[1])
  <2>1. InputLength(w[2]) <= Len(x1) /\ InputLength(w[1]) <= Len(x2)
    BY <1>6, InputLengthType
  <2> QED BY <1>4, <1>7, <2>1 DEF Equivalent
<1>10. TextApply(x1, Condense(w[2])) = TextApply(x2, Condense(w[1]))
  BY <1>6, <1>9
<1> QED BY <1>5, <1>8, <1>10 DEF CanApply, x1, x2

\* Two users who take a cursor through both operations, each in the order in which
\* the operations reach them, have it at one place, whatever the operations, as long
\* as neither deletes the character it stands before, or the first or the last one
\* it selects.
THEOREM CursorsMeet ==
  ASSUME text \in Text, NEW ops1 \in Operations, NEW ops2 \in Operations,
         CanApply(text, ops1), CanApply(text, ops2), NEW c \in Cursor(Len(text)),
         \A ops \in {ops1, ops2} : Keeps(ops, c.from + 1) /\ (c.from < c.to => Keeps(ops, c.to))
  PROVE  LET both == TextTransform(ops1, ops2)
         IN  TransformCursor(both[2], TransformCursor(ops1, c))
               = TransformCursor(both[1], TransformCursor(ops2, c))
<1> DEFINE w  == TransformOps[<<ops1, ops2>>]
           v1 == Condense(w[1])
           v2 == Condense(w[2])
           d1 == TransformCursor(ops1, c)
           d2 == TransformCursor(ops2, c)
           N  == Len(text)
<1>1. InputLength(ops1) = N /\ InputLength(ops2) = N /\ N \in Nat
  BY DEF CanApply, Text
<1>2. <<ops1, ops2>> \in Pairs
  BY PairType
<1>3. PlacesAgree(<<ops1, ops2>>, w)
  BY <1>1, <1>2, WalkAgrees
<1>4. TextTransform(ops1, ops2) = <<v1, v2>>
  BY DEF TextTransform
<1> HIDE DEF w
<1>5. /\ w[1] \in Operations /\ w[2] \in Operations
      /\ \A h \in 0..N, k \in {0, 1} :
           Retains(ops1, h + k) /\ Retains(ops2, h + k)
             => Place(w[2], Place(ops1, h, k), k) = Place(w[1], Place(ops2, h, k), k)
  BY <1>1, <1>3 DEF PlacesAgree
<1> HIDE DEF v1, v2
<1>6. /\ v1 \in Operations /\ v2 \in Operations
      /\ CanApply(TextApply(text, ops1), v2) /\ CanApply(TextApply(text, ops2), v1)
  <2>1. LET both == TextTransform(ops1, ops2)
        IN  /\ both[1] \in Operations /\ both[2] \in Operations
            /\ CanApply(TextApply(text, ops1), both[2]) /\ CanApply(TextApply(text, ops2), both[1])
    BY TransformationConverges
  <2> QED BY <1>4, <2>1
<1>7. InputLength(v2) = OutputLength(ops1) /\ InputLength(v1) = OutputLength(ops2)
  <2>1. Len(TextApply(text, ops1)) = OutputLength(ops1) /\ Len(TextApply(text, ops2)) = OutputLength(ops2)
    BY <1>1, ApplyLength
  <2> QED BY <1>6, <2>1 DEF CanApply
<1>8. c.from \in Nat /\ c.to \in Nat /\ c.from <= c.to /\ c.to <= N
  <2> HIDE DEF N
  <2>1. c \in Cursor(N)
    BY DEF N
  <2>2. c.from \in 0..N /\ c.to \in 0..N /\ c.from <= c.to
    BY <2>1 DEF Cursor
  <2> QED BY <1>1, <2>2
<1>9. Holds(ops1, c) /\ Holds(ops2, c)
  <2> SUFFICES ASSUME NEW q \in {ops1, ops2} PROVE Holds(q, c)
    OBVIOUS
  <2>1. q \in Operations /\ CanApply(text, q) /\ c.from + 1 \in Nat
    BY <1>8
  <2>2. Keeps(q, c.from + 1) /\ (c.from < c.to => Keeps(q, c.to))
    OBVIOUS
  <2> QED BY <1>8, <2>1, <2>2, KeptIsRetained DEF Holds
<1> DEFINE b == Bias(c)
<1>10. /\ d1.from = Place(ops1, c.from, 1) /\ d1.to = Place(ops1, c.to, b)
       /\ d1.from \in Nat /\ d1.to \in Nat /\ d1.from <= d1.to /\ d1.to <= InputLength(v2)
       /\ Bias(d1) = b /\ (d1.anchor = d1.from <=> c.anchor = c.from)
  <2>1. c \in Cursor(InputLength(ops1))
    BY <1>1
  <2> QED BY <1>7, <1>9, <2>1, CursorHeld
<1>11. /\ d2.from = Place(ops2, c.from, 1) /\ d2.to = Place(ops2, c.to, b)
       /\ d2.from \in Nat /\ d2.to \in Nat /\ d2.from <= d2.to /\ d2.to <= InputLength(v1)
       /\ Bias(d2) = b /\ (d2.anchor = d2.from <=> c.anchor = c.from)
  <2>1. c \in Cursor(InputLength(ops2))
    BY <1>1
  <2> QED BY <1>7, <1>9, <2>1, CursorHeld
<1> HIDE DEF d1, d2
<1> DEFINE e1 == TransformCursor(v2, d1)
           e2 == TransformCursor(v1, d2)
<1>12. /\ e1.from = Place(v2, d1.from, 1) /\ e1.to = Place(v2, d1.to, b)
       /\ IF c.anchor = c.from THEN e1 = [from |-> e1.from, to |-> e1.to, anchor |-> e1.from, head |-> e1.to]
                               ELSE e1 = [from |-> e1.from, to |-> e1.to, anchor |-> e1.to, head |-> e1.from]
  <2> HIDE DEF b
  <2>1. /\ e1.from = Place(v2, d1.from, 1) /\ e1.to = Place(v2, d1.to, Bias(d1))
        /\ IF d1.anchor = d1.from THEN e1 = [from |-> e1.from, to |-> e1.to, anchor |-> e1.from, head |-> e1.to]
                                  ELSE e1 = [from |-> e1.from, to |-> e1.to, anchor |-> e1.to, head |-> e1.from]
    BY <1>6, <1>10, CursorPlaced
  <2> HIDE DEF e1
  <2> QED BY <1>10, <2>1
<1>13. /\ e2.from = Place(v1, d2.from, 1) /\ e2.to = Place(v1, d2.to, b)
       /\ IF c.anchor = c.from THEN e2 = [from |-> e2.from, to |-> e2.to, anchor |-> e2.from, head |-> e2.to]
                               ELSE e2 = [from |-> e2.from, to |-> e2.to, anchor |-> e2.to, head |-> e2.from]
  <2> HIDE DEF b
  <2>1. /\ e2.from = Place(v1, d2.from, 1) /\ e2.to = Place(v1, d2.to, Bias(d2))
        /\ IF d2.anchor = d2.from THEN e2 = [from |-> e2.from, to |-> e2.to, anchor |-> e2.from, head |-> e2.to]
                                  ELSE e2 = [from |-> e2.from, to |-> e2.to, anchor |-> e2.to, head |-> e2.from]
    BY <1>6, <1>11, CursorPlaced
  <2> HIDE DEF e2
  <2> QED BY <1>11, <2>1
<1> HIDE DEF e1, e2
<1>14. ASSUME NEW h \in 0..N, NEW k \in {0, 1}, Retains(ops1, h + k), Retains(ops2, h + k)
       PROVE  Place(v2, Place(ops1, h, k), k) = Place(v1, Place(ops2, h, k), k)
  <2>1. Place(w[2], Place(ops1, h, k), k) = Place(w[1], Place(ops2, h, k), k)
    BY <1>5, <1>14
  <2>2. Place(ops1, h, k) \in Int /\ Place(ops2, h, k) \in Int
    <3>1. h \in Int
      BY <1>1
    <3>2. Place(ops1, h, k) \in Nat /\ Place(ops2, h, k) \in Nat
      <4> HIDE DEF N
      <4> QED BY <3>1, PlaceType
    <3> QED BY <3>2
  <2>3. /\ Place(v2, Place(ops1, h, k), k) = Place(w[2], Place(ops1, h, k), k)
        /\ Place(v1, Place(ops2, h, k), k) = Place(w[1], Place(ops2, h, k), k)
    BY <1>5, <2>2, CondensePlaces DEF v1, v2
  <2> QED BY <2>1, <2>3
<1>15. e1.from = e2.from
  <2>1. c.from \in 0..N /\ Retains(ops1, c.from + 1) /\ Retains(ops2, c.from + 1)
    BY <1>1, <1>8, <1>9 DEF Holds
  <2> HIDE DEF N
  <2> QED BY <1>10, <1>11, <1>12, <1>13, <1>14, <2>1
<1>16. e1.to = e2.to
  <2>1. CASE c.from < c.to
    <3>1. c.to \in 0..N /\ c.to + 0 = c.to /\ Retains(ops1, c.to) /\ Retains(ops2, c.to)
      BY <1>1, <1>8, <1>9, <2>1 DEF Holds
    <3>2. b = 0
      BY <2>1 DEF Bias
    <3> HIDE DEF N, b
    <3>3. Place(v2, Place(ops1, c.to, 0), 0) = Place(v1, Place(ops2, c.to, 0), 0)
      BY <1>14, <3>1
    <3> QED BY <1>10, <1>11, <1>12, <1>13, <3>2, <3>3
  <2>2. CASE ~(c.from < c.to)
    <3>1. c.from = c.to /\ b = 1
      BY <1>8, <2>2 DEF Bias
    <3> HIDE DEF N, b
    <3> QED BY <1>10, <1>11, <1>12, <1>13, <1>15, <3>1
  <2> QED BY <2>1, <2>2
<1>17. e1 = e2
  BY <1>12, <1>13, <1>15, <1>16
<1> QED BY <1>4, <1>17 DEF e1, e2, d1, d2

\* Transforming loses nobody's edits, whatever the operations: each transformed
\* form inserts what its operation inserts, and together the two orders delete the
\* same characters (what transform's four overlap cases are for).
THEOREM TransformationKeeps ==
  ASSUME NEW ops1 \in Operations, NEW ops2 \in Operations, CanTransform(ops1, ops2)
  PROVE  KeepsIntent(<<ops1, ops2>>, TextTransform(ops1, ops2))
<1> DEFINE w == TransformOps[<<ops1, ops2>>]
           c1 == Condense(w[1])
           c2 == Condense(w[2])
<1>1. KeepsIntent(<<ops1, ops2>>, w)
  BY PairType, WalkKeeps DEF CanTransform
<1> HIDE DEF w
<1>2. w[1] \in Operations /\ w[2] \in Operations
  BY <1>1 DEF KeepsIntent
<1>3. Equivalent(w[1], c1) /\ Equivalent(w[2], c2)
  BY <1>2, CondenseSame
<1> HIDE DEF c1, c2
<1>4. /\ c1 \in Operations /\ Inserted(c1) = Inserted(w[1]) /\ Deleted(c1) = Deleted(w[1])
      /\ c2 \in Operations /\ Inserted(c2) = Inserted(w[2]) /\ Deleted(c2) = Deleted(w[2])
  BY <1>3 DEF Equivalent, Deleted
<1>5. KeepsIntent(<<ops1, ops2>>, <<c1, c2>>)
  BY <1>1, <1>4 DEF KeepsIntent
<1>6. TextTransform(ops1, ops2) = <<c1, c2>>
  BY DEF TextTransform, w, c1, c2
<1> QED BY <1>5, <1>6

LEMMA PartsType == Parts \subseteq CompoundOp
<1>1. Texts(2) \subseteq Text
  <2> SUFFICES ASSUME NEW s \in Texts(2) PROVE s \in Text
    OBVIOUS
  <2>1. PICK k \in 0..2 : s \in [1..k -> Alphabet]
    BY DEF Texts
  <2> QED BY <2>1 DEF Text
<1> QED BY <1>1, BoundsAssumption DEF Parts, CompoundOp, Retain, Delete, Insert

LEMMA AskedType ==
  ASSUME NEW n \in Nat, NEW q \in OpsOfLength[n]
  PROVE  q \in Operations /\ InputLength(q) = n /\ Condensed(q)
<1>1. q \in AllOps /\ InputLength(q) = n /\ Condensed(q)
  BY DEF OpsOfLength, AllOps
<1>2. PICK k \in 0..MaxParts : q \in [1..k -> Parts]
  BY <1>1 DEF AllOps
<1>3. q \in Seq(Parts)
  BY <1>2, BoundsAssumption
<1> QED BY <1>1, <1>3, PartsType, SeqMonotonic DEF Operations

\* What is transformed was made for one document, and the result is what transform
\* makes of it.
TransformInv ==
  asked = "transform" =>
    /\ text \in Text /\ first \in Operations /\ second \in Operations /\ Condensed(first)
    /\ CanApply(text, first) /\ CanApply(text, second)
    /\ result \in {<<>>, TextTransform(first, second)}

LEMMA TransformedAsAsked == Spec => []TransformInv
<1>1. Init => TransformInv
  <2> SUFFICES ASSUME Init, asked = "transform"
               PROVE  /\ text \in Text /\ first \in Operations /\ second \in Operations
                      /\ CanApply(text, first) /\ CanApply(text, second)
                      /\ Condensed(first) /\ result = <<>>
    BY DEF TransformInv
  <2>1. /\ text \in Texts(MaxDoc) /\ first \in OpsOfLength[Len(text)]
        /\ second \in OpsOfLength[Len(text)] /\ result = <<>>
    BY DEF Init, InitOps, InitLimit
  <2>2. text \in Text /\ Len(text) \in Nat
    BY <2>1, BoundsAssumption DEF Texts, Text
  <2> QED BY <2>1, <2>2, AskedType DEF CanApply
<1>2. TransformInv /\ [Next]_vars => TransformInv'
  <2> SUFFICES ASSUME TransformInv, [Next]_vars PROVE TransformInv'
    OBVIOUS
  <2>1. CASE ComputeTransform /\ UNCHANGED <<asked, text, first, second>>
    BY <2>1 DEF ComputeTransform, TransformInv
  <2>2. CASE asked # "transform" /\ UNCHANGED <<asked, text, first, second>>
    BY <2>2 DEF TransformInv
  <2>3. CASE UNCHANGED vars
    BY <2>3 DEF TransformInv, vars
  <2> QED
    BY <2>1, <2>2, <2>3 DEF Next, ComputeCompose, ComputeConvert, ComputeEdit, ComputeLimit
<1> QED BY <1>1, <1>2, PTL DEF Spec

\* Every transformation that is computed converges (TransformConverges).
THEOREM Convergence == Spec => []TransformConverges
<1>1. TransformInv => TransformConverges
  <2> SUFFICES ASSUME TransformInv, asked = "transform", result # <<>> PROVE TransformConverges
    BY DEF TransformConverges, Transformed
  <2>1. /\ text \in Text /\ first \in Operations /\ second \in Operations
        /\ CanApply(text, first) /\ CanApply(text, second) /\ result = TextTransform(first, second)
    BY DEF TransformInv
  <2> QED BY <2>1, TransformationConverges DEF TransformConverges
<1> QED BY <1>1, TransformedAsAsked, PTL

\* Every transformation that is computed keeps what both users typed and deletes
\* nothing but what they deleted (TransformKeepsIntent).
THEOREM Intent == Spec => []TransformKeepsIntent
<1>1. TransformInv => TransformKeepsIntent
  <2> SUFFICES ASSUME TransformInv, asked = "transform", result # <<>> PROVE TransformKeepsIntent
    BY DEF TransformKeepsIntent, Transformed
  <2>1. /\ first \in Operations /\ second \in Operations /\ CanTransform(first, second)
        /\ result = TextTransform(first, second)
    BY DEF TransformInv, CanApply, CanTransform
  <2>2. KeepsIntent(<<first, second>>, result)
    BY <2>1, TransformationKeeps
  <2> QED BY <2>2 DEF KeepsIntent, TransformKeepsIntent
<1> QED BY <1>1, TransformedAsAsked, PTL

\* Every transformation that is computed puts the text of the first operation first
\* where both insert at one place (EarlierInsertsFirst).
THEOREM EarlierFirst == Spec => []EarlierInsertsFirst
<1>1. TransformInv => EarlierInsertsFirst
  <2> SUFFICES ASSUME TransformInv, asked = "transform", result # <<>>,
                      NEW i \in (DOMAIN first) \cap (DOMAIN second),
                      SubSeq(first, 1, i-1) = SubSeq(second, 1, i-1),
                      \A j \in 1..(i-1) : ~IsInsert(first[j]),
                      IsInsert(first[i]), IsInsert(second[i]),
                      NEW merged, merged = TextApply(TextApply(text, first), result[2])
               PROVE  LET from == OutputLength(SubSeq(first, 1, i-1))
                          both == first[i].text \o second[i].text
                      IN  SubSeq(merged, from + 1, from + Len(both)) = both
    BY DEF EarlierInsertsFirst, Transformed
  <2>1. /\ text \in Text /\ first \in Operations /\ second \in Operations /\ Condensed(first)
        /\ CanApply(text, first) /\ CanApply(text, second) /\ result = TextTransform(first, second)
    BY DEF TransformInv
  <2>2. i \in 1..Len(first) /\ i \in 1..Len(second)
    BY <2>1 DEF Operations
  <2> DEFINE c  == SubSeq(first, 1, i-1)
             t1 == SubSeq(first, i+1, Len(first))
             t2 == SubSeq(second, i+1, Len(second))
  <2>3. /\ c \in Operations /\ Len(c) = i-1 /\ \A j \in 1..(i-1) : c[j] = first[j]
        /\ t1 \in Operations /\ first[i] \in CompoundOp /\ first = c \o (<<first[i]>> \o t1)
        /\ t1 # <<>> => i+1 \in 1..Len(first) /\ Head(t1) = first[i+1]
    BY <2>1, <2>2, Around
  <2>4. /\ t2 \in Operations /\ second[i] \in CompoundOp /\ second = c \o (<<second[i]>> \o t2)
    BY <2>1, <2>2, Around
  <2> HIDE DEF c, t1, t2
  <2>5. ~Inserts(t1)
    <3> SUFFICES ASSUME t1 # <<>> PROVE ~IsInsert(Head(t1))
      BY DEF Inserts
    <3>1. i \in 1..(Len(first) - 1)
      BY <2>1, <2>2, <2>3 DEF Operations
    <3>2. first[i].kind # first[i+1].kind
      BY <2>1, <3>1 DEF Condensed
    <3> QED BY <2>3, <3>2 DEF IsInsert
  <2>6. \A j \in DOMAIN c : ~IsInsert(c[j])
    BY <2>3 DEF Operations
  <2>7. InsertAfter(c, first[i], t1, second[i], t2)
    BY <2>3, <2>4, <2>5, <2>6 DEF InsertAfter
  <2> DEFINE both == first[i].text \o second[i].text
  <2>8. Stands(merged, OutputLength(c), both)
    BY <2>1, <2>3, <2>4, <2>7, InsertionOrder
  <2>9. both \in Text /\ OutputLength(c) \in Nat
    <3>1. first[i].text \in Text /\ second[i].text \in Text
      BY <2>3, <2>4, Sizes
    <3> QED BY <2>3, <3>1, OutputLengthType, ConcatProperties DEF Text
  <2> HIDE DEF both
  <2>10. SubSeq(merged, OutputLength(c) + 1, OutputLength(c) + Len(both)) = both
    BY <2>8, <2>9, StandsThere
  <2> QED BY <2>10 DEF c, both
<1> QED BY <1>1, TransformedAsAsked, PTL

\* What is composed was made for one document, one operation after the other, and
\* the result is what compose makes of it.
ComposeInv ==
  asked = "compose" =>
    /\ text \in Text /\ first \in Operations /\ second \in Operations
    /\ CanApply(text, first) /\ CanCompose(first, second)
    /\ result \in {<<>>, <<TextCompose(first, second)>>}

LEMMA ComposedAsAsked == Spec => []ComposeInv
<1>1. Init => ComposeInv
  <2> SUFFICES ASSUME Init, asked = "compose"
               PROVE  /\ text \in Text /\ first \in Operations /\ second \in Operations
                      /\ CanApply(text, first) /\ CanCompose(first, second) /\ result = <<>>
    BY DEF ComposeInv
  <2>1. /\ text \in Texts(MaxDoc) /\ first \in OpsOfLength[Len(text)]
        /\ second \in OpsOfLength[OutputLength(first)] /\ result = <<>>
    BY DEF Init, InitOps, InitLimit
  <2>2. text \in Text /\ Len(text) \in Nat
    BY <2>1, BoundsAssumption DEF Texts, Text
  <2>3. first \in Operations /\ InputLength(first) = Len(text)
    BY <2>1, <2>2, AskedType
  <2>4. second \in Operations /\ InputLength(second) = OutputLength(first)
    BY <2>1, <2>3, OutputLengthType, AskedType
  <2> QED BY <2>1, <2>2, <2>3, <2>4 DEF CanApply, CanCompose
<1>2. ComposeInv /\ [Next]_vars => ComposeInv'
  <2> SUFFICES ASSUME ComposeInv, [Next]_vars PROVE ComposeInv'
    OBVIOUS
  <2>1. CASE ComputeCompose /\ UNCHANGED <<asked, text, first, second>>
    BY <2>1 DEF ComputeCompose, ComposeInv
  <2>2. CASE asked # "compose" /\ UNCHANGED <<asked, text, first, second>>
    BY <2>2 DEF ComposeInv
  <2>3. CASE UNCHANGED vars
    BY <2>3 DEF ComposeInv, vars
  <2> QED
    BY <2>1, <2>2, <2>3 DEF Next, ComputeTransform, ComputeConvert, ComputeEdit, ComputeLimit
<1> QED BY <1>1, <1>2, PTL DEF Spec

\* A composition that does not do what the two operations do has another output
\* length (WrongCompositionIsRejected).
THEOREM Rejection == Spec => []WrongCompositionIsRejected
<1>1. ComposeInv => WrongCompositionIsRejected
  <2> SUFFICES ASSUME ComposeInv, asked = "compose", result # <<>> PROVE WrongCompositionIsRejected
    BY DEF WrongCompositionIsRejected, Composed
  <2> DEFINE w == TextCompose(first, second)
  <2>1. /\ text \in Text /\ first \in Operations /\ second \in Operations
        /\ InputLength(first) = Len(text) /\ CanCompose(first, second) /\ result = <<w>>
    BY DEF ComposeInv, CanApply
  <2>2. Composes(<<first, second>>, w)
    BY <2>1, ComposesUnlessShorter
  <2> HIDE DEF w
  <2>3. /\ InputLength(w) = InputLength(first) /\ OutputLength(w) <= OutputLength(second)
        /\ OutputLength(w) \in Nat /\ OutputLength(second) \in Nat
    BY <2>1, <2>2, OutputLengthType DEF Composes
  <2>4. \/ TextApply(text, w) = TextApply(TextApply(text, first), second)
        \/ OutputLength(w) < OutputLength(second)
    <3>1. CASE OutputLength(w) = OutputLength(second)
      BY <2>1, <2>2, <3>1 DEF Composes
    <3> QED BY <2>3, <3>1
  <2>5. result[1] = w
    BY <2>1
  <2> QED BY <2>3, <2>4, <2>5, Zenon DEF WrongCompositionIsRejected
<1> QED BY <1>1, ComposedAsAsked, PTL

\* What is converted is an operation made for the document, and the result is what
\* the editor reports of it, converted, and what an editor is told of it.
ConvertInv ==
  asked = "convert" =>
    /\ text \in Text /\ first \in Operations /\ CanApply(text, first)
    /\ result \in {<<>>, <<TextUpdatesToTextOperation(Reported(text, first), Len(Units(text))),
                           TextOperationTextUpdates(first)>>}

LEMMA ConvertedAsAsked == Spec => []ConvertInv
<1>1. Init => ConvertInv
  <2> SUFFICES ASSUME Init, asked = "convert"
               PROVE  /\ text \in Text /\ first \in Operations /\ CanApply(text, first)
                      /\ result = <<>>
    BY DEF ConvertInv
  <2>1. text \in Texts(MaxDoc) /\ first \in OpsOfLength[Len(text)] /\ result = <<>>
    BY DEF Init, InitOps, InitLimit
  <2>2. text \in Text /\ Len(text) \in Nat
    BY <2>1, BoundsAssumption DEF Texts, Text
  <2> QED BY <2>1, <2>2, AskedType DEF CanApply
<1>2. ConvertInv /\ [Next]_vars => ConvertInv'
  <2> SUFFICES ASSUME ConvertInv, [Next]_vars PROVE ConvertInv'
    OBVIOUS
  <2>1. CASE ComputeConvert /\ UNCHANGED <<asked, text, first, second>>
    BY <2>1 DEF ComputeConvert, ConvertInv
  <2>2. CASE asked # "convert" /\ UNCHANGED <<asked, text, first, second>>
    BY <2>2 DEF ConvertInv
  <2>3. CASE UNCHANGED vars
    BY <2>3 DEF ConvertInv, vars
  <2> QED
    BY <2>1, <2>2, <2>3 DEF Next, ComputeTransform, ComputeCompose, ComputeEdit, ComputeLimit
<1> QED BY <1>1, <1>2, PTL DEF Spec

\* Every operation that is computed with takes every cursor to where its text is
\* (CursorFollowsText).
THEOREM CursorKept == Spec => []CursorFollowsText
<1>1. ConvertInv => CursorFollowsText
  <2> SUFFICES ASSUME ConvertInv, asked = "convert", NEW c \in Cursor(Len(text))
               PROVE  Follows(first, c)
    BY DEF CursorFollowsText, Converted, Follows
  <2> QED BY CursorFollows DEF ConvertInv
<1> QED BY <1>1, ConvertedAsAsked, PTL

\* Editor and client keep one document, of any size and whatever is edited: what the
\* editor reports is converted to an operation that does the same, or that cannot be
\* applied if a wide character is in the document, and what the editor is told leads
\* it to the document of the client if no wide character comes before the last change
\* (EditorAgrees).
THEOREM EditorKept == Spec => []EditorAgrees
<1>1. ConvertInv => EditorAgrees
  <2> SUFFICES ASSUME ConvertInv, asked = "convert", result # <<>>
               PROVE  EditIsConverted /\ UpdateReachesEditor
    BY DEF EditorAgrees, Converted
  <2> DEFINE x == TextUpdatesToTextOperation(Reported(text, first), Len(Units(text)))
             U == TextOperationTextUpdates(first)
  <2>1. text \in Text /\ first \in Operations /\ InputLength(first) = Len(text)
    BY DEF ConvertInv, CanApply
  <2>2. result = <<x, U>>
    BY DEF ConvertInv
  <2>3. IF Narrow(text) THEN CanApply(text, x) /\ TextApply(text, x) = TextApply(text, first)
                        ELSE ~CanApply(text, x)
    BY <2>1, EditConverted
  <2>4. Narrow(SubSeq(text, 1, ReadTo(U))) => Dispatch(Units(text), U) = Units(TextApply(text, first))
    BY <2>1, UpdatesReach
  <2> HIDE DEF x, U
  <2>5. result[1] = x /\ result[2] = U
    BY <2>2
  <2>6. EditIsConverted
    BY <2>3, <2>5, Zenon DEF EditIsConverted
  <2>7. Len(U) > 0 => ReadTo(U) = U[Len(U)].to
    BY DEF ReadTo
  <2>8. UpdateReachesEditor
    BY <2>4, <2>5, <2>7, Zenon DEF UpdateReachesEditor
  <2> QED BY <2>6, <2>8
<1>2. Spec => []ConvertInv
  BY ConvertedAsAsked
<1> QED BY <1>1, <1>2, PTL

\* Whichever two operations a run transforms, both users agree on every cursor they
\* keep (CursorsAgree).
THEOREM CursorsAgreed == Spec => []CursorsAgree
<1>1. TransformInv => CursorsAgree
  <2> SUFFICES ASSUME TransformInv, asked = "transform", result # <<>> PROVE CursorsAgree
    BY DEF CursorsAgree, Transformed
  <2>1. /\ text \in Text /\ first \in Operations /\ second \in Operations
        /\ CanApply(text, first) /\ CanApply(text, second) /\ result = TextTransform(first, second)
    BY DEF TransformInv
  <2> QED BY <2>1, CursorsMeet DEF CursorsAgree
<1> QED BY <1>1, TransformedAsAsked, PTL

\* Documents and operations of any size are what the proofs about the protocol ask
\* for: they satisfy the assumptions Typing and Converges of CollabLaws.
THEOREM OperationsSatisfyLaws ==
  /\ \A d \in Text, op \in Operations : InputLength(op) = Len(d) =>
       TextApply(d, op) \in Text /\ Len(TextApply(d, op)) = OutputLength(op)
  /\ \A a, b \in Operations : InputLength(a) = InputLength(b) =>
       TextTransform(a, b)[1] \in Operations /\ TextTransform(a, b)[2] \in Operations
  /\ \A a, b \in Operations : OutputLength(a) = InputLength(b) => TextCompose(a, b) \in Operations
  /\ \A d \in Text : \A a, b \in Operations : InputLength(a) = Len(d) /\ InputLength(b) = Len(d) =>
       LET t == TextTransform(a, b)
       IN  /\ InputLength(t[1]) = OutputLength(b)
           /\ InputLength(t[2]) = OutputLength(a)
           /\ TextApply(TextApply(d, b), t[1]) = TextApply(TextApply(d, a), t[2])
<1>1. ASSUME NEW d \in Text, NEW op \in Operations, InputLength(op) = Len(d)
      PROVE  TextApply(d, op) \in Text /\ Len(TextApply(d, op)) = OutputLength(op)
  <2>1. InputLength(op) <= Len(d)
    BY <1>1, InputLengthType
  <2> QED BY <2>1, ApplyType, ApplyLength
<1>2. ASSUME NEW a \in Operations, NEW b \in Operations, InputLength(a) = InputLength(b)
      PROVE  TextTransform(a, b)[1] \in Operations /\ TextTransform(a, b)[2] \in Operations
  BY <1>2, TransformationKeeps DEF KeepsIntent, CanTransform
<1>3. ASSUME NEW a \in Operations, NEW b \in Operations, OutputLength(a) = InputLength(b)
      PROVE  TextCompose(a, b) \in Operations
  BY <1>3, ComposesUnlessShorter DEF Composes, CanCompose
<1>4. ASSUME NEW d \in Text, NEW a \in Operations, NEW b \in Operations,
             InputLength(a) = Len(d), InputLength(b) = Len(d), NEW t, t = TextTransform(a, b)
      PROVE  /\ InputLength(t[1]) = OutputLength(b)
             /\ InputLength(t[2]) = OutputLength(a)
             /\ TextApply(TextApply(d, b), t[1]) = TextApply(TextApply(d, a), t[2])
  <2>1. CanApply(d, a) /\ CanApply(d, b)
    BY <1>4 DEF CanApply
  <2>2. /\ CanApply(TextApply(d, a), t[2]) /\ CanApply(TextApply(d, b), t[1])
        /\ TextApply(TextApply(d, a), t[2]) = TextApply(TextApply(d, b), t[1])
    BY <1>4, <2>1, TransformationConverges
  <2>3. Len(TextApply(d, a)) = OutputLength(a) /\ Len(TextApply(d, b)) = OutputLength(b)
    BY <1>1, <1>4
  <2> QED BY <2>2, <2>3 DEF CanApply
<1> QED BY <1>1, <1>2, <1>3, <1>4

-----------------------------------------------------------------------------
(* What the bucket limits                                                  *)

LEMMA WholeIntervals ==
  ASSUME NEW e \in Nat, NEW i \in Nat \ {0}
  PROVE  /\ e \div i \in Nat
         /\ i * (e \div i) <= e
  OBVIOUS

LEMMA Scaled ==
  ASSUME NEW r \in Nat, NEW a \in Nat, NEW b \in Nat, a <= b
  PROVE  r * a <= r * b
  OBVIOUS

\* A refresh keeps to the rate as long as it does not fill the bucket up: the time
\* it adds tokens for is time since the last refresh, and counted once.
LEMMA RefreshKeepsRate ==
  ASSUME NEW l \in RateLimiters, NEW time \in Nat, time >= l.lastRefresh,
         NEW granted \in Nat, NEW initial \in Nat,
         ~FillsUp(l, time), RateKept(l, granted, initial)
  PROVE  /\ RefreshTokens(l, time) \in RateLimiters
         /\ RefreshTokens(l, time).lastRefresh <= time
         /\ RateKept(RefreshTokens(l, time), granted, initial)
<1> DEFINE r == RefreshTokens(l, time)
           e == Elapsed(l, time)
           k == e \div l.interval
<1>1. /\ l.maxTokens \in Nat \ {0} /\ l.refill \in Nat \ {0} /\ l.interval \in Nat \ {0}
      /\ l.tokens \in Nat /\ l.lastRefresh \in Nat
  BY DEF RateLimiters
<1>2. CASE ~(e > l.interval)
  <2>1. r = l
    BY <1>2 DEF RefreshTokens
  <2> QED
    BY <2>1
<1>3. CASE e > l.interval
  <2>1. r = [l EXCEPT !.lastRefresh = time, !.tokens = @ + l.refill * k]
    BY <1>3 DEF RefreshTokens
  <2>2. e \in Nat /\ time = l.lastRefresh + e
    BY <1>1 DEF Elapsed
  <2>3. k \in Nat /\ l.interval * k <= e
    BY <1>1, <2>2, WholeIntervals
  <2>4. l.refill * k \in Nat
    BY <1>1, <2>3
  <2>5. r \in RateLimiters
    <3>1. l.tokens + l.refill * k \in Nat
      BY <1>1, <2>4
    <3> HIDE DEF k, e, r
    <3> QED
      BY <1>1, <2>1, <3>1 DEF RateLimiters
  <2>6. /\ r.lastRefresh = time /\ r.tokens = l.tokens + l.refill * k
        /\ r.interval = l.interval /\ r.refill = l.refill
    BY <2>1 DEF RateLimiters
  <2>7. l.refill * (l.interval * k) <= l.refill * e
    <3>1. l.interval * k \in Nat
      BY <1>1, <2>3
    <3> HIDE DEF e, k
    <3> QED
      BY <1>1, <2>2, <2>3, <3>1, Scaled
  <2>8. l.interval * (granted + r.tokens)
          = l.interval * (granted + l.tokens) + l.refill * (l.interval * k)
    <3> HIDE DEF e, k, r
    <3> QED
      BY <1>1, <2>3, <2>6
  <2>9. l.refill * time = l.refill * l.lastRefresh + l.refill * e
    <3> HIDE DEF e
    <3> QED
      BY <1>1, <2>2
  <2>10. l.interval * (granted + l.tokens) <= l.interval * initial + l.refill * l.lastRefresh
    BY DEF RateKept
  <2>11. l.interval * (granted + r.tokens) <= l.interval * initial + l.refill * time
    <3>1. /\ l.interval * (granted + l.tokens) \in Int /\ l.interval * initial \in Int
          /\ l.refill * l.lastRefresh \in Int /\ l.refill * e \in Int
          /\ l.refill * (l.interval * k) \in Int
      <4> HIDE DEF e, k
      <4> QED
        BY <1>1, <2>2, <2>3
    <3> HIDE DEF e, k, r
    <3> QED
      BY <3>1, <2>7, <2>8, <2>9, <2>10
  <2> QED
    BY <2>5, <2>6, <2>11 DEF RateKept
<1> QED
  BY <1>2, <1>3

\* A request, granted or not, keeps to the rate as long as it does not come so late
\* that it fills the bucket up (LimitLastsUntilIdle).
THEOREM RequestKeepsRate ==
  ASSUME NEW l \in RateLimiters, NEW time \in Nat, time >= l.lastRefresh, NEW n \in Nat,
         NEW granted \in Nat, NEW initial \in Nat,
         ~FillsUp(l, time), RateKept(l, granted, initial)
  PROVE  /\ SendMany(l, time, n) \in RateLimiters
         /\ SendMany(l, time, n).lastRefresh <= time
         /\ RateKept(SendMany(l, time, n),
                     granted + IF Grants(l, time, n) THEN n ELSE 0, initial)
<1> DEFINE r == RefreshTokens(l, time)
<1>1. /\ r \in RateLimiters
      /\ r.lastRefresh <= time
      /\ RateKept(r, granted, initial)
  BY RefreshKeepsRate
<1> HIDE DEF r
<1>2. CASE ~Grants(l, time, n)
  <2>1. SendMany(l, time, n) = r
    BY <1>2 DEF SendMany, r
  <2> QED
    BY <1>1, <1>2, <2>1
<1>3. CASE Grants(l, time, n)
  <2> DEFINE s == [r EXCEPT !.tokens = @ - n]
  <2>1. SendMany(l, time, n) = s
    BY <1>3 DEF SendMany, r
  <2>2. r.tokens >= n
    BY <1>3 DEF Grants, r
  <2>3. s \in RateLimiters
    BY <1>1, <2>2 DEF RateLimiters
  <2>4. /\ s.tokens = r.tokens - n /\ s.lastRefresh = r.lastRefresh
        /\ s.interval = r.interval /\ s.refill = r.refill
    BY <1>1 DEF RateLimiters
  <2>5. granted + n + s.tokens = granted + r.tokens
    BY <1>1, <2>4 DEF RateLimiters
  <2>6. RateKept(s, granted + n, initial)
    <3> HIDE DEF s
    <3> QED
      BY <1>1, <2>4, <2>5 DEF RateKept
  <2> QED
    BY <1>1, <1>3, <2>1, <2>3, <2>4, <2>6
<1> QED
  BY <1>2, <1>3

\* Once a request has come so late that the bucket is filled up, every later one
\* fills it up again: the limiter grants whatever the bucket can hold, for ever.
THEOREM UnlimitedOnceFilled ==
  ASSUME NEW l \in RateLimiters, NEW time \in Nat, NEW n \in Nat, FillsUp(l, time),
         NEW later \in Nat, later >= time, NEW m \in Nat, m <= l.maxTokens
  PROVE  LET after == SendMany(l, time, n)
         IN  FillsUp(after, later) /\ Grants(after, later, m)
<1> DEFINE after == SendMany(l, time, n)
<1>1. /\ l.maxTokens \in Nat /\ l.refill \in Nat /\ l.interval \in Nat /\ l.lastRefresh \in Nat
  BY DEF RateLimiters
<1>2. /\ after.maxTokens = l.maxTokens /\ after.refill = l.refill
      /\ after.interval = l.interval /\ after.lastRefresh = l.lastRefresh
  BY DEF SendMany, RefreshTokens, RateLimiters
<1>3. l.refill * (time - l.lastRefresh) <= l.refill * (later - l.lastRefresh)
  BY <1>1
<1>4. FillsUp(after, later)
  <2> HIDE DEF after
  <2>1. /\ l.refill * (time - l.lastRefresh) \in Int /\ l.refill * (later - l.lastRefresh) \in Int
        /\ l.maxTokens * l.interval \in Int
    BY <1>1
  <2> QED
    BY <1>2, <1>3, <2>1 DEF FillsUp, Elapsed
<1>5. after \in [maxTokens : Nat, refill : Nat, interval : Nat, tokens : Int, lastRefresh : Nat]
  <2> DEFINE r == RefreshTokens(l, time)
  <2>1. r = [l EXCEPT !.tokens = l.maxTokens]
    BY DEF RefreshTokens
  <2>2. r \in RateLimiters
    BY <1>1, <2>1 DEF RateLimiters
  <2>3. after = r \/ after = [r EXCEPT !.tokens = @ - n]
    BY DEF SendMany
  <2> HIDE DEF r, after
  <2> QED
    BY <2>2, <2>3 DEF RateLimiters
<1>6. RefreshTokens(after, later).tokens = l.maxTokens
  <2> HIDE DEF after
  <2> QED
    BY <1>2, <1>4, <1>5 DEF RefreshTokens
<1> QED
  BY <1>4, <1>6 DEF Grants

LEMMA SendManyType ==
  ASSUME NEW l \in RateLimiters, NEW time \in Nat, NEW n \in Nat
  PROVE  LET after == SendMany(l, time, n)
         IN  /\ after \in RateLimiters
             /\ after.maxTokens = l.maxTokens
             /\ l.lastRefresh <= time => after.lastRefresh <= time
<1> DEFINE r == RefreshTokens(l, time)
           after == SendMany(l, time, n)
           e == Elapsed(l, time)
           k == e \div l.interval
<1>1. /\ l.maxTokens \in Nat \ {0} /\ l.refill \in Nat \ {0} /\ l.interval \in Nat \ {0}
      /\ l.tokens \in Nat /\ l.lastRefresh \in Nat /\ e \in Int
  BY DEF RateLimiters, Elapsed
<1>2. /\ r \in RateLimiters /\ r.maxTokens = l.maxTokens
      /\ l.lastRefresh <= time => r.lastRefresh <= time
  <2>1. CASE FillsUp(l, time)
    <3>1. r = [l EXCEPT !.tokens = l.maxTokens]
      BY <2>1 DEF RefreshTokens
    <3> HIDE DEF r
    <3> QED BY <1>1, <3>1 DEF RateLimiters
  <2>2. CASE ~FillsUp(l, time) /\ e > l.interval
    <3>1. r = [l EXCEPT !.lastRefresh = time, !.tokens = @ + l.refill * k]
      BY <2>2 DEF RefreshTokens
    <3>2. k \in Nat
      BY <1>1, <2>2, WholeIntervals
    <3>3. l.refill * k \in Nat
      BY <1>1, <3>2
    <3>4. l.tokens + l.refill * k \in Nat
      BY <1>1, <3>3
    <3> DEFINE sum == l.tokens + l.refill * k
    <3>5. r = [l EXCEPT !.lastRefresh = time, !.tokens = sum] /\ sum \in Nat
      BY <1>1, <3>1, <3>4 DEF RateLimiters
    <3> HIDE DEF r, k, e, sum
    <3>6. r \in RateLimiters
      BY <1>1, <3>5 DEF RateLimiters
    <3>7. r.maxTokens = l.maxTokens /\ r.lastRefresh = time
      BY <1>1, <3>5 DEF RateLimiters
    <3> QED BY <3>6, <3>7
  <2>3. CASE ~FillsUp(l, time) /\ ~(e > l.interval)
    <3>1. r = l
      BY <2>3 DEF RefreshTokens
    <3> QED BY <3>1
  <2> QED BY <2>1, <2>2, <2>3
<1>3. CASE Grants(l, time, n)
  <2>1. after = [r EXCEPT !.tokens = @ - n] /\ r.tokens >= n
    BY <1>3 DEF SendMany, Grants
  <2> HIDE DEF r, after
  <2> QED BY <1>2, <2>1 DEF RateLimiters, after
<1>4. CASE ~Grants(l, time, n)
  <2>1. after = r
    BY <1>4 DEF SendMany
  <2> QED BY <1>2, <2>1
<1> QED BY <1>3, <1>4

Request == [after : Nat, tokens : Nat]

ServedState == [time : Nat, grants : BOOLEAN, bucket : RateLimiters, granted : Nat,
                filled : BOOLEAN]

\* The rate has been kept since the bucket l, or every request finds the bucket full.
LimitInv(l, v) ==
  /\ v.bucket.maxTokens = l.maxTokens
  /\ v.bucket.lastRefresh <= v.time
  /\ IF v.filled THEN FillsUp(v.bucket, v.time) ELSE RateKept(v.bucket, v.granted, l.tokens)

LEMMA ServeFields ==
  ASSUME NEW v \in ServedState, NEW q \in Request
  PROVE  LET w    == Serve(v, q)
             time == v.time + q.after
         IN  /\ w \in ServedState
             /\ w.time = time /\ w.bucket = SendMany(v.bucket, time, q.tokens)
             /\ w.grants = Grants(v.bucket, time, q.tokens)
             /\ w.granted = v.granted + IF Grants(v.bucket, time, q.tokens) THEN q.tokens ELSE 0
             /\ w.filled = (v.filled \/ FillsUp(v.bucket, time))
<1> DEFINE time == v.time + q.after
           ok == Grants(v.bucket, time, q.tokens)
           b == SendMany(v.bucket, time, q.tokens)
           g == v.granted + IF ok THEN q.tokens ELSE 0
           full == v.filled \/ FillsUp(v.bucket, time)
<1>1. /\ v.time \in Nat /\ v.bucket \in RateLimiters /\ v.granted \in Nat /\ v.filled \in BOOLEAN
      /\ q.after \in Nat /\ q.tokens \in Nat
  BY DEF ServedState, Request
<1>2. time \in Nat /\ g \in Nat
  BY <1>1
<1>3. b \in RateLimiters
  <2> HIDE DEF time
  <2> QED BY <1>1, <1>2, SendManyType
<1>4. ok \in BOOLEAN /\ full \in BOOLEAN
  BY <1>1 DEF Grants, FillsUp
<1>5. Serve(v, q) = [time |-> time, grants |-> ok, bucket |-> b, granted |-> g, filled |-> full]
  BY DEF Serve
<1> HIDE DEF time, ok, b, g, full
<1>6. Serve(v, q) \in ServedState
  BY <1>2, <1>3, <1>4, <1>5 DEF ServedState
<1> QED BY <1>5, <1>6 DEF time, ok, b, g, full

LEMMA FillsUpLater ==
  ASSUME NEW l \in RateLimiters, NEW time \in Nat, NEW later \in Nat, later >= time, FillsUp(l, time)
  PROVE  FillsUp(l, later)
<1>1. /\ l.maxTokens \in Nat /\ l.refill \in Nat /\ l.interval \in Nat /\ l.lastRefresh \in Nat
  BY DEF RateLimiters
<1>2. l.refill * (time - l.lastRefresh) <= l.refill * (later - l.lastRefresh)
  BY <1>1
<1>3. /\ l.refill * (time - l.lastRefresh) \in Int /\ l.refill * (later - l.lastRefresh) \in Int
      /\ l.maxTokens * l.interval \in Int
  BY <1>1
<1> QED BY <1>2, <1>3 DEF FillsUp, Elapsed

\* A request keeps the limit, and is granted once the limit is lost.
LEMMA ServeKeepsLimit ==
  ASSUME NEW l \in RateLimiters, NEW v \in ServedState, NEW q \in Request, LimitInv(l, v)
  PROVE  LET w == Serve(v, q)
         IN  LimitInv(l, w) /\ (w.filled /\ q.tokens <= l.maxTokens => w.grants)
<1> DEFINE w == Serve(v, q)
           t == v.time + q.after
           b == SendMany(v.bucket, t, q.tokens)
<1>1. /\ v.time \in Nat /\ v.bucket \in RateLimiters /\ v.granted \in Nat /\ v.filled \in BOOLEAN
      /\ q.after \in Nat /\ q.tokens \in Nat /\ l.tokens \in Nat
  BY DEF ServedState, Request, RateLimiters
<1>2. /\ w.time = t /\ w.bucket = b /\ w.grants = Grants(v.bucket, t, q.tokens)
      /\ w.granted = v.granted + IF Grants(v.bucket, t, q.tokens) THEN q.tokens ELSE 0
      /\ w.filled = (v.filled \/ FillsUp(v.bucket, t))
  BY ServeFields
<1>3. /\ t \in Nat /\ t >= v.time /\ v.bucket.lastRefresh <= v.time
      /\ v.bucket.maxTokens = l.maxTokens /\ v.bucket.lastRefresh \in Nat
  BY <1>1 DEF LimitInv, RateLimiters
<1> HIDE DEF t
<1>4. v.bucket.lastRefresh <= t
  BY <1>1, <1>3
<1>5. b \in RateLimiters /\ b.maxTokens = l.maxTokens /\ b.lastRefresh <= t
  BY <1>1, <1>3, <1>4, SendManyType
<1>6. CASE FillsUp(v.bucket, t)
  <2>1. FillsUp(b, t)
    <3>1. 0 \in Nat /\ t >= t /\ v.bucket.maxTokens \in Nat /\ 0 <= v.bucket.maxTokens
      BY <1>1, <1>3 DEF RateLimiters
    <3>2. ASSUME NEW m \in Nat, m <= v.bucket.maxTokens PROVE FillsUp(b, t)
      BY <1>1, <1>3, <1>6, <3>1, <3>2, UnlimitedOnceFilled
    <3> QED BY <3>1, <3>2
  <2>2. q.tokens <= l.maxTokens => Grants(v.bucket, t, q.tokens)
    <3>1. RefreshTokens(v.bucket, t) = [v.bucket EXCEPT !.tokens = v.bucket.maxTokens]
      BY <1>6 DEF RefreshTokens
    <3>2. RefreshTokens(v.bucket, t).tokens = l.maxTokens
      BY <1>1, <1>3, <3>1 DEF RateLimiters
    <3>3. l.maxTokens \in Nat
      BY DEF RateLimiters
    <3> QED BY <1>1, <3>2, <3>3 DEF Grants
  <2> HIDE DEF w, b
  <2>3. w.filled
    BY <1>2, <1>6, Zenon
  <2>4. LimitInv(l, w)
    BY <1>2, <1>5, <2>1, <2>3 DEF LimitInv
  <2> QED BY <1>2, <2>2, <2>4 DEF w
<1>7. CASE ~FillsUp(v.bucket, t)
  <2>1. ~v.filled
    <3>1. v.filled => FillsUp(v.bucket, v.time)
      BY DEF LimitInv
    <3> QED BY <1>1, <1>3, <1>7, <3>1, FillsUpLater
  <2>2. RateKept(v.bucket, v.granted, l.tokens)
    BY <2>1 DEF LimitInv
  <2>3. RateKept(b, v.granted + IF Grants(v.bucket, t, q.tokens) THEN q.tokens ELSE 0, l.tokens)
    BY <1>1, <1>3, <1>4, <1>7, <2>2, RequestKeepsRate
  <2> HIDE DEF w, b
  <2>4. ~w.filled
    BY <1>2, <1>7, <2>1, Zenon
  <2>5. LimitInv(l, w)
    BY <1>2, <1>5, <2>3, <2>4 DEF LimitInv
  <2> QED BY <2>4, <2>5 DEF w
<1> QED BY <1>6, <1>7

IsServed(f, l, q) ==
  f = [n \in 0..Len(q) |-> IF n = 0 THEN Unserved(l) ELSE Serve(f[n-1], q[n])]

LEMMA ServedRun ==
  ASSUME NEW l \in RateLimiters, NEW q \in Seq(Request)
  PROVE  \E f : IsServed(f, l, q) /\ Served(l, q) = [n \in 1..Len(q) |-> f[n]]
<1> DEFINE step == [n \in 1..Len(q) |-> [y \in ServedState |-> Serve(y, q[n])]]
           x == Unserved(l)
<1>1. Len(q) \in Nat /\ \A n \in 1..Len(q) : q[n] \in Request
  OBVIOUS
<1>2. step \in [1..Len(q) -> [ServedState -> ServedState]]
  BY <1>1, ServeFields
<1>3. x \in ServedState
  BY DEF Unserved, ServedState
<1>4. PICK f : f \in Folds(Len(q), ServedState, x, step)
  <2> HIDE DEF step, x
  <2> QED BY <1>1, <1>2, <1>3, FoldExists
<1>5. \A n \in 0..Len(q) : f[n] = IF n = 0 THEN x ELSE Serve(f[n-1], q[n])
  <2>1. f \in [0..Len(q) -> ServedState] /\ f[0] = x
        /\ \A n \in 1..Len(q) : f[n] = step[n][f[n-1]]
    <3> HIDE DEF step, x
    <3> QED BY <1>4, Zenon DEF Folds
  <2>2. ASSUME NEW n \in 1..Len(q) PROVE f[n] = Serve(f[n-1], q[n])
    <3>1. f[n-1] \in ServedState
      <4> HIDE DEF step
      <4> QED BY <1>1, <2>1
    <3> QED BY <2>1, <3>1
  <2> HIDE DEF step, x
  <2> QED BY <1>1, <2>1, <2>2
<1>6. IsServed(f, l, q)
  <2>1. f = [n \in 0..Len(q) |-> f[n]]
    <3> HIDE DEF step, x
    <3> QED BY <1>4 DEF Folds
  <2> HIDE DEF step
  <2> QED BY <1>5, <2>1, Zenon DEF IsServed
<1> DEFINE g == CHOOSE h : IsServed(h, l, q)
<1>7. IsServed(g, l, q)
  BY <1>6, Zenon
<1>8. Served(l, q) = [n \in 1..Len(q) |-> g[n]]
  BY Zenon DEF Served, IsServed
<1> HIDE DEF g
<1> QED BY <1>7, <1>8

\* For any bucket that is full at time 0 and any sequence of requests: what is
\* granted keeps to the rate until a request fills the bucket up, and from then on
\* what fits into the bucket is granted (LimitLastsUntilIdle).
THEOREM LimitLasts ==
  ASSUME NEW l \in RateLimiters, l.lastRefresh = 0, NEW q \in Seq(Request), NEW n \in 1..Len(q)
  PROVE  LET served == Served(l, q)
         IN  IF served[n].filled THEN q[n].tokens <= l.maxTokens => served[n].grants
                                 ELSE RateKept(served[n].bucket, served[n].granted, l.tokens)
<1>1. Len(q) \in Nat /\ \A m \in 1..Len(q) : q[m] \in Request
  OBVIOUS
<1>2. PICK f : IsServed(f, l, q) /\ Served(l, q) = [m \in 1..Len(q) |-> f[m]]
  BY ServedRun
<1>3. f[0] = Unserved(l) /\ \A m \in 1..Len(q) : f[m] = Serve(f[m-1], q[m])
  BY <1>1, <1>2 DEF IsServed
<1> DEFINE V == {v \in ServedState : LimitInv(l, v)}
<1>4. f[0] \in V
  <2>1. Unserved(l) \in ServedState
    BY DEF Unserved, ServedState
  <2>2. RateKept(l, 0, l.tokens)
    <3>1. l.interval \in Nat /\ l.tokens \in Nat /\ l.refill \in Nat /\ l.refill * 0 = 0
      BY DEF RateLimiters
    <3>2. l.interval * (0 + l.tokens) <= l.interval * l.tokens + 0
      BY <3>1
    <3> QED BY <3>1, <3>2 DEF RateKept
  <2>3. LimitInv(l, Unserved(l))
    BY <2>2 DEF LimitInv, Unserved
  <2> QED BY <1>3, <2>1, <2>3
<1>5. ASSUME NEW m \in 1..Len(q), f[m-1] \in V PROVE f[m] \in V
  <2>1. /\ f[m-1] \in ServedState /\ LimitInv(l, f[m-1]) /\ q[m] \in Request
        /\ f[m] = Serve(f[m-1], q[m])
    BY <1>1, <1>3, <1>5
  <2>2. Serve(f[m-1], q[m]) \in ServedState
    BY <2>1, ServeFields
  <2>3. LimitInv(l, Serve(f[m-1], q[m]))
    BY <2>1, ServeKeepsLimit
  <2> QED BY <2>1, <2>2, <2>3
<1>6. \A m \in 0..Len(q) : f[m] \in V
  <2> HIDE DEF V
  <2> QED BY <1>1, <1>4, <1>5, FoldTyped
<1>7. f[n-1] \in V /\ f[n] \in V /\ f[n] = Serve(f[n-1], q[n]) /\ q[n] \in Request
  <2> HIDE DEF V
  <2> QED BY <1>1, <1>3, <1>6
<1>8. f[n].filled /\ q[n].tokens <= l.maxTokens => f[n].grants
  BY <1>7, ServeKeepsLimit
<1>9. ~f[n].filled => RateKept(f[n].bucket, f[n].granted, l.tokens)
  BY <1>7 DEF LimitInv
<1>10. Served(l, q)[n] = f[n]
  BY <1>2
<1> QED BY <1>8, <1>9, <1>10

\* What is asked of a bucket, and what it answers.
LimitAskedInv ==
  asked = "limit" =>
    /\ text \in RateLimiters /\ text.lastRefresh = 0 /\ first \in Seq(Request)
    /\ result \in {<<>>, Served(text, first)}

\* Whatever requests are made of a bucket, it limits them until it fills up
\* (LimitLastsUntilIdle).
THEOREM LimitUntilIdle == Spec => []LimitLastsUntilIdle
<1>1. Init => LimitAskedInv
  <2> SUFFICES ASSUME Init, asked = "limit"
               PROVE  /\ text \in RateLimiters /\ text.lastRefresh = 0 /\ first \in Seq(Request)
                      /\ result = <<>>
    BY DEF LimitAskedInv
  <2>1. text \in Buckets /\ first \in RequestSeqs /\ result = <<>>
    BY DEF Init, InitOps, InitLimit
  <2>2. text \in RateLimiters /\ text.lastRefresh = 0
    BY <2>1 DEF Buckets, RateLimiters
  <2>3. first \in Seq(Request)
    <3>1. PICK k \in 1..4 : first \in [1..k -> [after : {0, 1, 3, 5}, tokens : {1, 3}]]
      BY <2>1 DEF RequestSeqs
    <3>2. [after : {0, 1, 3, 5}, tokens : {1, 3}] \subseteq Request
      BY DEF Request
    <3>3. first \in [1..k -> Request]
      BY <3>1, <3>2
    <3> QED BY <3>3
  <2> QED BY <2>1, <2>2, <2>3
<1>2. LimitAskedInv /\ [Next]_vars => LimitAskedInv'
  <2> SUFFICES ASSUME LimitAskedInv, [Next]_vars PROVE LimitAskedInv'
    OBVIOUS
  <2>1. CASE ComputeLimit /\ UNCHANGED <<asked, text, first, second>>
    BY <2>1 DEF ComputeLimit, LimitAskedInv
  <2>2. CASE asked # "limit" /\ UNCHANGED <<asked, text, first, second>>
    BY <2>2 DEF LimitAskedInv
  <2>3. CASE UNCHANGED vars
    BY <2>3 DEF LimitAskedInv, vars
  <2> QED
    BY <2>1, <2>2, <2>3 DEF Next, ComputeTransform, ComputeCompose, ComputeConvert, ComputeEdit
<1>3. LimitAskedInv => LimitLastsUntilIdle
  <2> SUFFICES ASSUME LimitAskedInv, asked = "limit", NEW n \in DOMAIN result
               PROVE  IF result[n].filled THEN first[n].tokens <= text.maxTokens => result[n].grants
                      ELSE RateKept(result[n].bucket, result[n].granted, text.tokens)
    BY DEF LimitLastsUntilIdle
  <2>1. /\ text \in RateLimiters /\ text.lastRefresh = 0 /\ first \in Seq(Request)
        /\ result = Served(text, first)
    BY DEF LimitAskedInv
  <2>2. n \in 1..Len(first)
    BY <2>1 DEF Served
  <2> QED BY <2>1, <2>2, LimitLasts
<1> QED BY <1>1, <1>2, <1>3, PTL DEF Spec
=============================================================================
