------------------------------ MODULE Recursion ------------------------------
(***************************************************************************)
(* Induction, recursive functions and sequences, as the proofs of the      *)
(* algorithms, of Collab and of SimNetwork use them.                       *)
(***************************************************************************)
EXTENDS Integers, Sequences, TLAPS, SequenceTheorems, NaturalsInduction, WellFoundedInduction

-----------------------------------------------------------------------------
(* Induction over the natural numbers, stated for a set instead of a       *)
(* predicate so that the provers can instantiate it                        *)

\* A set with 0 that is closed under successor contains every natural number.
LEMMA Induction ==
  ASSUME NEW S, 0 \in S, \A n \in Nat : n \in S => n+1 \in S
  PROVE  Nat \subseteq S
<1> DEFINE Others == Nat \ S
           R == OpToRel(<, Nat)
<1> SUFFICES ASSUME Others # {} PROVE FALSE
  OBVIOUS
<1>1. \A x, y \in Nat : <<x, y>> \in R <=> x < y
  BY DEF OpToRel
<1>2. Others \subseteq Nat
  OBVIOUS
<1>3. PICK n \in Others : \A m \in Others : ~(<<m, n>> \in R)
  <2>1. IsWellFoundedOn(R, Nat)
    BY NatLessThanWellFounded
  <2> HIDE DEF Others, R
  <2> QED BY <1>2, <2>1, WFMin
<1>4. \A m \in Others : ~(m < n)
  <2> HIDE DEF Others, R
  <2> QED BY <1>1, <1>2, <1>3
<1>5. n # 0 /\ n-1 \in Nat /\ n-1 \notin Others
  BY <1>4
<1> QED BY <1>5

SameSteps(f, g, N)  == f[0] = g[0] /\ \A n \in 1..N : f[n-1] = g[n-1] => f[n] = g[n]
SameValues(f, g, N) == \A n \in 0..N : f[n] = g[n]

\* Two functions that start alike and continue alike are alike.
LEMMA Alike ==
  ASSUME NEW N \in Nat, NEW f, NEW g, SameSteps(f, g, N)
  PROVE  SameValues(f, g, N)
<1> USE DEF SameSteps, SameValues
<1> DEFINE S == {n \in Nat : n <= N => f[n] = g[n]}
<1>1. 0 \in S
  OBVIOUS
<1>2. ASSUME NEW n \in Nat, n \in S PROVE n+1 \in S
  <2>1. CASE n+1 <= N
    <3>1. n+1 \in 1..N /\ f[n] = g[n] /\ (n+1)-1 = n
      BY <1>2, <2>1
    <3>2. f[n+1] = g[n+1]
      BY <3>1
    <3> QED BY <3>2
  <2>2. CASE ~(n+1 <= N)
    BY <2>2
  <2> QED BY <2>1, <2>2
<1>3. Nat \subseteq S
  <2> HIDE DEF S
  <2> QED BY <1>1, <1>2, Induction
<1> QED BY <1>3

\* The functions of 0..N that begin with x and go on as step says.
Folds(N, V, x, step) ==
  {f \in [0..N -> V] : f[0] = x /\ \A n \in 1..N : f[n] = step[n][f[n-1]]}

\* There is one.
LEMMA FoldExists ==
  ASSUME NEW N \in Nat, NEW V, NEW x \in V, NEW step \in [1..N -> [V -> V]]
  PROVE  Folds(N, V, x, step) # {}
<1> DEFINE Exists(k) == \E f \in [0..k -> V] :
                          f[0] = x /\ \A n \in 1..k : f[n] = step[n][f[n-1]]
           S == {k \in Nat : k <= N => Exists(k)}
<1>1. Exists(0)
  <2> DEFINE f == [n \in 0..0 |-> x]
  <2>1. f \in [0..0 -> V] /\ f[0] = x /\ \A n \in 1..0 : f[n] = step[n][f[n-1]]
    OBVIOUS
  <2> HIDE DEF f
  <2> QED BY <2>1
<1>2. ASSUME NEW k \in Nat, Exists(k), k+1 <= N PROVE Exists(k+1)
  <2>1. PICK f \in [0..k -> V] : f[0] = x /\ \A n \in 1..k : f[n] = step[n][f[n-1]]
    BY <1>2
  <2> DEFINE g == [n \in 0..(k+1) |-> IF n = k+1 THEN step[k+1][f[k]] ELSE f[n]]
  <2>2. g \in [0..(k+1) -> V]
    <3>1. k+1 \in 1..N /\ f[k] \in V
      BY <1>2
    <3>2. step[k+1][f[k]] \in V
      BY <3>1
    <3> QED BY <3>2
  <2>3. ASSUME NEW n \in 1..(k+1) PROVE g[n] = step[n][g[n-1]]
    <3>1. CASE n = k+1
      BY <3>1
    <3>2. CASE n \in 1..k
      <4>1. g[n] = f[n] /\ g[n-1] = f[n-1]
        BY <3>2
      <4> QED BY <2>1, <3>2, <4>1
    <3> QED BY <3>1, <3>2
  <2>4. g[0] = x
    BY <2>1
  <2> HIDE DEF g
  <2> QED BY <2>2, <2>3, <2>4
<1> HIDE DEF Exists
<1>3. ASSUME NEW k \in Nat, k \in S PROVE k+1 \in S
  BY <1>2, <1>3
<1>4. 0 \in S
  BY <1>1
<1>5. Nat \subseteq S
  <2> HIDE DEF S
  <2> QED BY <1>3, <1>4, Induction
<1>6. Exists(N)
  BY <1>5
<1> QED BY <1>6 DEF Exists, Folds

\* A function given by a first value and by steps keeps to the set of values.
LEMMA FoldTyped ==
  ASSUME NEW N \in Nat, NEW V, NEW f, f[0] \in V,
         \A n \in 1..N : f[n-1] \in V => f[n] \in V
  PROVE  \A n \in 0..N : f[n] \in V
<1> DEFINE S == {n \in Nat : n <= N => f[n] \in V}
<1>1. 0 \in S
  OBVIOUS
<1>2. ASSUME NEW n \in Nat, n \in S PROVE n+1 \in S
  <2>1. CASE n+1 <= N
    <3>1. n+1 \in 1..N /\ f[n] \in V /\ (n+1)-1 = n
      BY <1>2, <2>1
    <3>2. f[n+1] \in V
      BY <3>1
    <3> QED BY <3>2
  <2>2. CASE ~(n+1 <= N)
    BY <2>2
  <2> QED BY <2>1, <2>2
<1>3. Nat \subseteq S
  <2> HIDE DEF S
  <2> QED BY <1>1, <1>2, Induction
<1> QED BY <1>3

\* A set of sequences that holds the empty one, and with each one all that are one
\* longer, holds all.
LEMMA SequenceInduction ==
  ASSUME NEW T, NEW S, <<>> \in S,
         \A q \in Seq(T) : q \in S => \A o \in T : Append(q, o) \in S
  PROVE  Seq(T) \subseteq S
<1> DEFINE L == {n \in Nat : \A q \in Seq(T) : Len(q) = n => q \in S}
<1>1. 0 \in L
  BY EmptySeq
<1>2. ASSUME NEW n \in Nat, n \in L PROVE n+1 \in L
  <2> SUFFICES ASSUME NEW q \in Seq(T), Len(q) = n+1 PROVE q \in S
    OBVIOUS
  <2> DEFINE d == SubSeq(q, 1, n)
  <2>1. d \in Seq(T) /\ Len(d) = n /\ q[n+1] \in T
    OBVIOUS
  <2>2. q = Append(d, q[n+1])
    OBVIOUS
  <2>3. d \in S
    BY <1>2, <2>1
  <2> QED BY <2>1, <2>2, <2>3
<1>3. Nat \subseteq L
  <2> HIDE DEF L
  <2> QED BY <1>1, <1>2, Induction
<1> QED BY <1>3

-----------------------------------------------------------------------------
(* Recursion over the size of what is left                                 *)

\* f satisfies R where M is at most k.
Solves(f, R, P, M, k) == \A p \in P : M[p] <= k => f[p] = R[f][p]

\* R depends on nothing but what is smaller.
Descends(R, P, V, M) ==
  \A f, g \in [P -> V], p \in P :
    (\A q \in P : M[q] < M[p] => f[q] = g[q]) => R[f][p] = R[g][p]

Recursive(R, P, V, M) ==
  /\ V # {} /\ M \in [P -> Nat] /\ R \in [[P -> V] -> [P -> V]]
  /\ Descends(R, P, V, M)

HasSolution(R, P, V) == \E f \in [P -> V] : f = R[f]

LEMMA SolutionExists ==
  ASSUME NEW P, NEW V, NEW M, NEW R, Recursive(R, P, V, M)
  PROVE  HasSolution(R, P, V)
<1> SUFFICES ASSUME V # {}, M \in [P -> Nat], R \in [[P -> V] -> [P -> V]], Descends(R, P, V, M)
             PROVE  \E f \in [P -> V] : f = R[f]
  BY DEF Recursive, HasSolution
<1> DEFINE S == {k \in Nat : \E f \in [P -> V] : Solves(f, R, P, M, k)}
<1>1. 0 \in S
  <2>1. PICK v \in V : TRUE
    OBVIOUS
  <2> DEFINE none == [p \in P |-> v]
             f == R[none]
  <2>2. none \in [P -> V] /\ f \in [P -> V]
    OBVIOUS
  <2> HIDE DEF none
  <2>3. ASSUME NEW p \in P, M[p] <= 0 PROVE f[p] = R[f][p]
    <3>1. \A q \in P : ~(M[q] < M[p])
      BY <2>3
    <3> HIDE DEF f
    <3>2. R[none][p] = R[f][p]
      BY <2>2, <3>1, Zenon DEF Descends
    <3> QED BY <3>2 DEF f
  <2> QED BY <2>2, <2>3 DEF Solves
<1>2. ASSUME NEW k \in Nat, k \in S PROVE k+1 \in S
  <2>1. PICK f \in [P -> V] : Solves(f, R, P, M, k)
    BY <1>2
  <2> DEFINE g == R[f]
  <2>2. g \in [P -> V]
    OBVIOUS
  <2>3. ASSUME NEW p \in P, M[p] <= k+1 PROVE g[p] = R[g][p]
    <3>1. ASSUME NEW q \in P, M[q] < M[p] PROVE f[q] = g[q]
      <4>1. M[q] <= k
        <5>1. M[q] \in Nat /\ M[p] \in Nat
          OBVIOUS
        <5> QED BY <2>3, <3>1, <5>1
      <4> QED BY <2>1, <4>1 DEF Solves
    <3> HIDE DEF g
    <3>2. R[f][p] = R[g][p]
      BY <2>2, <3>1, Zenon DEF Descends
    <3> QED BY <3>2 DEF g
  <2>4. Solves(g, R, P, M, k+1)
    BY <2>3, Zenon DEF Solves
  <2> QED BY <2>2, <2>4
<1>3. Nat \subseteq S
  <2> HIDE DEF S
  <2> QED BY <1>1, <1>2, Induction
<1> DEFINE F(k) == CHOOSE f \in [P -> V] : Solves(f, R, P, M, k)
           h == [p \in P |-> F(M[p])[p]]
<1> HIDE DEF S
<1>4. ASSUME NEW k \in Nat PROVE F(k) \in [P -> V] /\ Solves(F(k), R, P, M, k)
  <2>1. \E f \in [P -> V] : Solves(f, R, P, M, k)
    BY <1>3 DEF S
  <2> QED BY <2>1, Zenon
<1>5. h \in [P -> V]
  <2> HIDE DEF F
  <2> QED BY <1>4

\* Two solutions agree as far as both go.
<1>6. ASSUME NEW f \in [P -> V], NEW g \in [P -> V], NEW k \in Nat, NEW m \in Nat,
             Solves(f, R, P, M, k), Solves(g, R, P, M, m)
      PROVE  \A p \in P : M[p] <= k /\ M[p] <= m => f[p] = g[p]
  <2> DEFINE T == {j \in Nat : \A q \in P : M[q] <= j /\ M[q] <= k /\ M[q] <= m => f[q] = g[q]}
  <2>1. ASSUME NEW q \in P, M[q] <= k, M[q] <= m, \A r \in P : M[r] < M[q] => f[r] = g[r]
        PROVE  f[q] = g[q]
    <3>1. f[q] = R[f][q] /\ g[q] = R[g][q]
      BY <1>6, <2>1, Zenon DEF Solves
    <3>2. R[f][q] = R[g][q]
      BY <2>1, Zenon DEF Descends
    <3> QED BY <3>1, <3>2
  <2>2. 0 \in T
    <3> SUFFICES ASSUME NEW q \in P, M[q] <= 0, M[q] <= k, M[q] <= m PROVE f[q] = g[q]
      OBVIOUS
    <3>1. \A r \in P : ~(M[r] < M[q])
      OBVIOUS
    <3> QED BY <2>1, <3>1
  <2>3. ASSUME NEW j \in Nat, j \in T PROVE j+1 \in T
    <3> SUFFICES ASSUME NEW q \in P, M[q] <= j+1, M[q] <= k, M[q] <= m PROVE f[q] = g[q]
      OBVIOUS
    <3>1. ASSUME NEW r \in P, M[r] < M[q] PROVE f[r] = g[r]
      <4>1. M[r] \in Nat /\ M[q] \in Nat
        OBVIOUS
      <4>2. M[r] <= j /\ M[r] <= k /\ M[r] <= m
        BY <3>1, <4>1
      <4> QED BY <2>3, <4>2
    <3> QED BY <2>1, <3>1
  <2>4. Nat \subseteq T
    <3> HIDE DEF T
    <3> QED BY <2>2, <2>3, Induction
  <2>5. \A p \in P : M[p] \in T /\ M[p] <= M[p]
    BY <2>4
  <2> QED BY <2>5

<1>7. ASSUME NEW p \in P PROVE h[p] = R[h][p]
  <2> DEFINE f == F(M[p])
  <2>1. f \in [P -> V] /\ Solves(f, R, P, M, M[p]) /\ M[p] \in Nat /\ M[p] <= M[p]
    <3> HIDE DEF F
    <3> QED BY <1>4
  <2>2. h[p] = f[p]
    BY Zenon
  <2>3. ASSUME NEW q \in P, M[q] < M[p] PROVE f[q] = h[q]
    <3>1. M[q] \in Nat /\ M[q] <= M[q] /\ M[q] <= M[p]
      <4>1. M[q] \in Nat /\ M[p] \in Nat
        OBVIOUS
      <4> QED BY <2>3, <4>1
    <3> DEFINE g == F(M[q])
               m == M[q]
               k == M[p]
    <3>2. g \in [P -> V] /\ Solves(g, R, P, M, m)
      <4> HIDE DEF F
      <4> QED BY <1>4, <3>1
    <3>3. h[q] = g[q]
      BY Zenon
    <3> HIDE DEF F, f, g, h
    <3>4. /\ f \in [P -> V] /\ Solves(f, R, P, M, k) /\ k \in Nat /\ M[q] <= k
          /\ m \in Nat /\ M[q] <= m
      BY <2>1, <3>1
    <3> HIDE DEF k, m
    <3>5. f[q] = g[q]
      <4>1. \A x \in P : M[x] <= k /\ M[x] <= m => f[x] = g[x]
        BY <1>6, <3>2, <3>4, ZenonT(40)
      <4> QED BY <3>4, <4>1, Zenon
    <3> QED BY <3>3, <3>5
  <2> HIDE DEF f, h, F
  <2>4. f[p] = R[f][p]
    BY <2>1 DEF Solves
  <2>5. R[f][p] = R[h][p]
    BY <1>5, <2>1, <2>3, Zenon DEF Descends
  <2> QED BY <2>2, <2>4, <2>5
<1>8. R[h] \in [P -> V]
  <2> HIDE DEF h
  <2> QED BY <1>5
<1>9. h = R[h]
  <2> HIDE DEF h, F
  <2> QED BY <1>5, <1>7, <1>8
<1> QED BY <1>5, <1>9

-----------------------------------------------------------------------------
(* Parts of sequences, and sequences joined to one                          *)

\* g goes on where f ends.
Continues(f, g) == Len(g) = Len(f) + 1 /\ \A i \in 1..Len(f) : g[i] = f[i]

LEMMA ContinuesByOne ==
  ASSUME NEW V, NEW f \in Seq(V), NEW g \in Seq(V), Continues(f, g)
  PROVE  g = Append(f, g[Len(g)]) /\ g[Len(g)] \in V
<1> DEFINE x == g[Len(g)]
           h == Append(f, x)
<1>1. x \in V /\ Len(f) \in Nat /\ Len(g) = Len(f) + 1
  BY DEF Continues
<1> HIDE DEF x
<1>2. /\ h \in Seq(V) /\ Len(h) = Len(f) + 1 /\ h[Len(f) + 1] = x
      /\ \A i \in 1..Len(f) : h[i] = f[i]
  BY <1>1, AppendProperties
<1> HIDE DEF h
<1>3. ASSUME NEW i \in 1..Len(g) PROVE g[i] = h[i]
  <2>1. i \in 1..Len(f) \/ i = Len(f) + 1
    BY <1>1
  <2> QED BY <1>1, <1>2, <2>1 DEF Continues, x
<1>4. g = h
  BY <1>1, <1>2, <1>3, SeqEqual
<1> QED BY <1>1, <1>4 DEF h, x

LEMMA MiddlePart ==
  ASSUME NEW T, NEW a \in Seq(T), NEW m \in Seq(T), NEW b \in Seq(T)
  PROVE  SubSeq((a \o m) \o b, Len(a) + 1, Len(a) + Len(m)) = m
<1> DEFINE s == (a \o m) \o b
           t == SubSeq(s, Len(a) + 1, Len(a) + Len(m))
<1>1. Len(a) \in Nat /\ Len(m) \in Nat /\ Len(b) \in Nat
  OBVIOUS
<1>2. /\ a \o m \in Seq(T) /\ Len(a \o m) = Len(a) + Len(m)
      /\ \A i \in 1..Len(m) : (a \o m)[Len(a) + i] = m[i]
  <2>1. a \o m \in Seq(T) /\ Len(a \o m) = Len(a) + Len(m)
    BY ConcatProperties
  <2>2. ASSUME NEW i \in 1..Len(m) PROVE (a \o m)[Len(a) + i] = m[i]
    OBVIOUS
  <2> QED BY <2>1, <2>2
<1>3. /\ s \in Seq(T) /\ Len(s) = Len(a) + Len(m) + Len(b)
      /\ \A i \in 1..(Len(a) + Len(m)) : s[i] = (a \o m)[i]
  <2> DEFINE c == a \o m
  <2>1. c \in Seq(T) /\ Len(c) = Len(a) + Len(m)
    BY <1>2
  <2> HIDE DEF c
  <2>2. c \o b \in Seq(T) /\ Len(c \o b) = Len(c) + Len(b)
    BY <2>1, ConcatProperties
  <2>3. ASSUME NEW i \in 1..Len(c) PROVE (c \o b)[i] = c[i]
    BY <2>1
  <2> QED BY <1>1, <2>1, <2>2, <2>3 DEF c
<1> HIDE DEF s
<1>4. \A i \in (Len(a) + 1)..(Len(a) + Len(m)) : s[i] \in T
  BY <1>1, <1>3
<1>5. /\ t \in Seq(T) /\ Len(t) = Len(m)
      /\ \A i \in 1..Len(m) : t[i] = s[Len(a) + i]
  <2>1. t = [i \in 1..Len(m) |-> s[Len(a) + i]]
    <3>1. (Len(a) + Len(m)) - (Len(a) + 1) + 1 = Len(m)
      BY <1>1
    <3>2. \A i \in 1..Len(m) : (Len(a) + 1) + i - 1 = Len(a) + i
      BY <1>1
    <3> QED BY <1>1, <3>1, <3>2
  <2>2. \A i \in 1..Len(m) : s[Len(a) + i] \in T
    BY <1>1, <1>4
  <2> HIDE DEF t
  <2> QED BY <1>1, <2>1, <2>2
<1> HIDE DEF t
<1>6. ASSUME NEW i \in 1..Len(m) PROVE t[i] = m[i]
  <2>1. Len(a) + i \in 1..(Len(a) + Len(m))
    BY <1>1
  <2> QED BY <1>2, <1>3, <1>5, <2>1
<1>7. t = m
  BY <1>5, <1>6, SeqEqual
<1> QED BY <1>7 DEF s, t

\* The parts of s that end at a, at b and at its end, as elements of S.
InThree(s, a, b, S) ==
  /\ SubSeq(s, 1, a) \in S /\ Len(SubSeq(s, 1, a)) = a
  /\ SubSeq(s, a + 1, b) \in S /\ Len(SubSeq(s, a + 1, b)) = b - a
  /\ SubSeq(s, b + 1, Len(s)) \in S /\ Len(SubSeq(s, b + 1, Len(s))) = Len(s) - b
  /\ SubSeq(s, 1, a) \o SubSeq(s, a + 1, b) = SubSeq(s, 1, b)
  /\ s = SubSeq(s, 1, b) \o SubSeq(s, b + 1, Len(s))

LEMMA SplitInThree ==
  ASSUME NEW T, NEW s \in Seq(T), NEW a \in Nat, NEW b \in Nat, a <= b, b <= Len(s)
  PROVE  InThree(s, a, b, Seq(T))
<1>1. Len(s) \in Nat
  OBVIOUS
<1>2. ASSUME NEW m \in Nat, NEW n \in Nat, m <= n, n <= Len(s)
      PROVE  SubSeq(s, m + 1, n) \in Seq(T) /\ Len(SubSeq(s, m + 1, n)) = n - m
  <2>1. \A i \in (m + 1)..n : s[i] \in T
    BY <1>1, <1>2
  <2>2. /\ SubSeq(s, m + 1, n) \in Seq(T)
        /\ Len(SubSeq(s, m + 1, n)) = IF m + 1 <= n THEN n - (m + 1) + 1 ELSE 0
    BY <2>1, SubSeqProperties
  <2> QED BY <1>2, <2>2
<1>3. SubSeq(s, 1, a) \in Seq(T) /\ Len(SubSeq(s, 1, a)) = a
  <2>1. SubSeq(s, 0 + 1, a) \in Seq(T) /\ Len(SubSeq(s, 0 + 1, a)) = a - 0
    BY <1>1, <1>2
  <2> QED BY <2>1
<1>4. SubSeq(s, 1, a) \o SubSeq(s, a + 1, b) = SubSeq(s, 1, b)
  <2>1. 1 \in 1..(Len(s) + 1) /\ a \in (1-1)..Len(s) /\ b \in a..Len(s)
    BY <1>1
  <2> QED BY <2>1, ConcatAdjacentSubSeq
<1>5. SubSeq(s, 1, b) \o SubSeq(s, b + 1, Len(s)) = s
  <2>1. 1 \in 1..(Len(s) + 1) /\ b \in (1-1)..Len(s) /\ Len(s) \in b..Len(s)
    BY <1>1
  <2>2. SubSeq(s, 1, b) \o SubSeq(s, b + 1, Len(s)) = SubSeq(s, 1, Len(s))
    BY <2>1, ConcatAdjacentSubSeq
  <2> QED BY <2>2, SubSeqFull
<1>6. SubSeq(s, b + 1, Len(s)) \in Seq(T) /\ Len(SubSeq(s, b + 1, Len(s))) = Len(s) - b
  BY <1>1, <1>2
<1>7. SubSeq(s, a + 1, b) \in Seq(T) /\ Len(SubSeq(s, a + 1, b)) = b - a
  BY <1>1, <1>2
<1> QED BY <1>3, <1>4, <1>5, <1>6, <1>7 DEF InThree

LEMMA LastReplaced ==
  ASSUME NEW V, NEW P \in Seq(V), NEW w \in V, NEW x \in V
  PROVE  [Append(P, w) EXCEPT ![Len(P) + 1] = x] = Append(P, x)
<1> DEFINE y == Append(P, w)
           z == Append(P, x)
           e == [y EXCEPT ![Len(P) + 1] = x]
<1>1. /\ y \in Seq(V) /\ z \in Seq(V) /\ Len(P) \in Nat /\ Len(y) = Len(P) + 1 /\ Len(z) = Len(P) + 1
      /\ z[Len(P) + 1] = x /\ \A i \in 1..Len(P) : y[i] = P[i] /\ z[i] = P[i]
  BY AppendProperties
<1> HIDE DEF y, z
<1>2. /\ e \in Seq(V) /\ Len(e) = Len(P) + 1
      /\ \A i \in 1..(Len(P) + 1) : e[i] = IF i = Len(P) + 1 THEN x ELSE y[i]
  BY <1>1, ExceptSeq
<1> HIDE DEF e
<1>3. ASSUME NEW i \in 1..Len(e) PROVE e[i] = z[i]
  <2>1. i = Len(P) + 1 \/ (i # Len(P) + 1 /\ i \in 1..Len(P))
    BY <1>1, <1>2
  <2> QED BY <1>1, <1>2, <2>1
<1>4. e = z
  BY <1>1, <1>2, <1>3, SeqEqual
<1> QED BY <1>4 DEF e, y, z

LEMMA LastAndRest ==
  ASSUME NEW V, NEW R \in Seq(V), R # <<>>
  PROVE  \E P \in Seq(V), w \in V : R = Append(P, w) /\ Len(R) = Len(P) + 1 /\ R[Len(R)] = w
<1> DEFINE P == [i \in 1..(Len(R) - 1) |-> R[i]]
<1>1. Len(R) \in Nat \ {0} /\ \A i \in 1..Len(R) : R[i] \in V
  BY EmptySeq
<1>2. P \in Seq(V) /\ Len(P) = Len(R) - 1 /\ \A i \in 1..Len(P) : R[i] = P[i]
  BY <1>1
<1> HIDE DEF P
<1>3. Continues(P, R)
  BY <1>1, <1>2 DEF Continues
<1>4. R = Append(P, R[Len(R)]) /\ R[Len(R)] \in V
  BY <1>2, <1>3, ContinuesByOne
<1>5. Len(R) = Len(P) + 1
  BY <1>1, <1>2
<1> QED BY <1>2, <1>4, <1>5

\* The sequences of q joined to one, as FlattenSeq of SequencesExt does it.
Flat(q) ==
  IF Len(q) = 0
    THEN q
    ELSE LET flat[i \in 1..Len(q)] == IF i = 1 THEN q[i] ELSE flat[i-1] \o q[i]
         IN  flat[Len(q)]

IsFlat(f, q) == f[0] = <<>> /\ \A n \in 1..Len(q) : f[n] = f[n-1] \o q[n]

LEMMA FlattenRun ==
  ASSUME NEW T, NEW q \in Seq(Seq(T))
  PROVE  \E f : IsFlat(f, q) /\ Flat(q) = f[Len(q)]
<1>1. Len(q) \in Nat /\ \A n \in 1..Len(q) : q[n] \in Seq(T)
  OBVIOUS
<1>2. CASE Len(q) = 0
  <2>1. Flat(q) = q /\ q = <<>>
    BY <1>2 DEF Flat
  <2> DEFINE f == [n \in {0} |-> <<>>]
  <2>2. IsFlat(f, q) /\ f[Len(q)] = <<>>
    BY <1>2 DEF IsFlat
  <2> HIDE DEF f
  <2> QED BY <2>1, <2>2
<1>3. CASE Len(q) # 0
  <2> DEFINE step == [n \in 1..Len(q) |-> [y \in Seq(T) |-> y \o q[n]]]
             Cat(h) == h = [i \in 1..Len(q) |-> IF i = 1 THEN q[i] ELSE h[i-1] \o q[i]]
  <2>1. step \in [1..Len(q) -> [Seq(T) -> Seq(T)]]
    BY <1>1, ConcatProperties
  <2>2. <<>> \in Seq(T)
    BY EmptySeq
  <2>3. PICK g : g \in Folds(Len(q), Seq(T), <<>>, step)
    <3> HIDE DEF step
    <3> QED BY <1>1, <2>1, <2>2, FoldExists
  <2>4. g \in [0..Len(q) -> Seq(T)] /\ g[0] = <<>> /\ \A n \in 1..Len(q) : g[n] = step[n][g[n-1]]
    <3> HIDE DEF step
    <3> QED BY <2>3 DEF Folds
  <2>5. \A n \in 1..Len(q) : g[n-1] \in Seq(T) /\ g[n] = g[n-1] \o q[n]
    <3>1. ASSUME NEW n \in 1..Len(q) PROVE g[n-1] \in Seq(T)
      <4>1. n-1 \in 0..Len(q)
        BY <1>1
      <4> HIDE DEF step
      <4> QED BY <2>4, <4>1, Zenon
    <3> QED BY <2>4, <3>1
  <2> HIDE DEF step
  <2>6. g[1] = q[1]
    <3>1. 1 \in 1..Len(q) /\ 1-1 = 0
      BY <1>1, <1>3
    <3>2. g[1] = <<>> \o q[1] /\ q[1] \in Seq(T)
      BY <1>1, <2>4, <2>5, <3>1, Zenon
    <3> QED BY <3>2, ConcatEmptySeq
  <2>7. \E h : Cat(h)
    <3> DEFINE h == [i \in 1..Len(q) |-> g[i]]
    <3>1. \A i \in 1..Len(q) : h[i] = IF i = 1 THEN q[i] ELSE h[i-1] \o q[i]
      <4> SUFFICES ASSUME NEW i \in 1..Len(q)
                   PROVE  h[i] = IF i = 1 THEN q[i] ELSE h[i-1] \o q[i]
        OBVIOUS
      <4>1. i # 1 => i-1 \in 1..Len(q)
        BY <1>1
      <4>2. h[i] = g[i] /\ (i # 1 => h[i-1] = g[i-1])
        BY <4>1
      <4> HIDE DEF h
      <4> QED BY <2>5, <2>6, <4>2, Zenon
    <3>2. h = [i \in 1..Len(q) |-> h[i]]
      OBVIOUS
    <3> HIDE DEF h
    <3>3. Cat(h)
      BY <3>1, <3>2
    <3> QED BY <3>3
  <2>8. PICK h : Cat(h) /\ Flat(q) = h[Len(q)]
    BY <1>3, <2>7 DEF Flat
  <2> DEFINE f == [n \in 0..Len(q) |-> IF n = 0 THEN <<>> ELSE h[n]]
  <2>9. f[0] = <<>> /\ f[Len(q)] = h[Len(q)]
    BY <1>1, <1>3
  <2>10. ASSUME NEW n \in 1..Len(q) PROVE f[n] = f[n-1] \o q[n]
    <3>1. f[n] = h[n] /\ f[n-1] = IF n = 1 THEN <<>> ELSE h[n-1]
      BY <1>1
    <3>2. h[n] = IF n = 1 THEN q[n] ELSE h[n-1] \o q[n]
      BY <2>8
    <3> HIDE DEF f
    <3> QED BY <1>1, <3>1, <3>2, ConcatEmptySeq
  <2> HIDE DEF f
  <2> QED BY <2>8, <2>9, <2>10 DEF IsFlat
<1> QED BY <1>2, <1>3

LEMMA FlattenType ==
  ASSUME NEW T, NEW q \in Seq(Seq(T))
  PROVE  Flat(q) \in Seq(T)
<1>1. Len(q) \in Nat /\ \A n \in 1..Len(q) : q[n] \in Seq(T)
  OBVIOUS
<1>2. PICK f : IsFlat(f, q) /\ Flat(q) = f[Len(q)]
  BY FlattenRun
<1>3. f[0] \in Seq(T) /\ \A n \in 1..Len(q) : f[n-1] \in Seq(T) => f[n] \in Seq(T)
  <2>1. f[0] \in Seq(T)
    BY <1>2, EmptySeq DEF IsFlat
  <2>2. ASSUME NEW n \in 1..Len(q), f[n-1] \in Seq(T) PROVE f[n] \in Seq(T)
    <3>1. f[n-1] \o q[n] \in Seq(T)
      BY <1>1, <2>2, ConcatProperties, Zenon
    <3>2. f[n] = f[n-1] \o q[n]
      BY <1>2, Zenon DEF IsFlat
    <3> QED BY <3>1, <3>2
  <2> QED BY <2>1, <2>2
<1>4. \A n \in 0..Len(q) : f[n] \in Seq(T)
  BY <1>1, <1>3, FoldTyped
<1> QED BY <1>1, <1>2, <1>4

LEMMA FlattenEmpty == Flat(<<>>) = <<>>
BY DEF Flat

LEMMA FlattenAppend ==
  ASSUME NEW T, NEW q \in Seq(Seq(T)), NEW x \in Seq(T)
  PROVE  Flat(Append(q, x)) = Flat(q) \o x
<1> DEFINE r == Append(q, x)
<1>1. /\ r \in Seq(Seq(T)) /\ Len(q) \in Nat /\ Len(r) = Len(q) + 1
      /\ r[Len(q) + 1] = x /\ \A n \in 1..Len(q) : r[n] = q[n]
  BY AppendProperties
<1>2. PICK f : IsFlat(f, q) /\ Flat(q) = f[Len(q)]
  BY FlattenRun
<1> HIDE DEF r
<1>3. PICK g : IsFlat(g, r) /\ Flat(r) = g[Len(r)]
  BY <1>1, FlattenRun
<1>4. SameSteps(f, g, Len(q))
  <2>1. ASSUME NEW n \in 1..Len(q), f[n-1] = g[n-1] PROVE f[n] = g[n]
    <3>1. n \in 1..Len(r) /\ r[n] = q[n]
      BY <1>1
    <3> QED BY <1>2, <1>3, <2>1, <3>1, Zenon DEF IsFlat
  <2> QED BY <1>2, <1>3, <2>1, Zenon DEF SameSteps, IsFlat
<1>5. SameValues(f, g, Len(q))
  BY <1>1, <1>4, Alike
<1>6. g[Len(r)] = g[Len(q)] \o x
  <2>1. Len(r) \in 1..Len(r) /\ Len(r)-1 = Len(q) /\ r[Len(r)] = x
    BY <1>1
  <2> QED BY <1>3, <2>1, Zenon DEF IsFlat
<1>7. f[Len(q)] = g[Len(q)]
  BY <1>1, <1>5 DEF SameValues
<1> QED BY <1>2, <1>3, <1>6, <1>7, Zenon DEF r

LEMMA FlattenOn ==
  ASSUME NEW T, NEW f \in Seq(Seq(T)), NEW g \in Seq(Seq(T)), Continues(f, g)
  PROVE  Flat(g) = Flat(f) \o g[Len(g)]
<1>1. g = Append(f, g[Len(g)]) /\ g[Len(g)] \in Seq(T)
  BY ContinuesByOne, Zenon
<1> QED BY <1>1, FlattenAppend, Zenon

-----------------------------------------------------------------------------
(* Sequences of numbers                                                    *)

\* Of the numbers t, those up to place f are b at most, and the others are not.
Divided(t, f, b) == f \in 0..Len(t) /\ \A k \in 1..Len(t) : k <= f <=> t[k] <= b

LEMMA NatsJoined ==
  ASSUME NEW t \in Seq(Nat), NEW u \in Seq(Nat)
  PROVE  /\ t \o u \in Seq(Nat) /\ Len(t \o u) = Len(t) + Len(u)
         /\ Len(t) \in Nat /\ Len(u) \in Nat
         /\ \A k \in 1..(Len(t) + Len(u)) :
              (t \o u)[k] = IF k <= Len(t) THEN t[k] ELSE u[k - Len(t)]
  BY ConcatProperties

\* More numbers are divided further on only if all before them are before the place.
LEMMA DividedOn ==
  ASSUME NEW t \in Seq(Nat), NEW u \in Seq(Nat), NEW f, NEW b \in Nat, Divided(t, f, b),
         NEW j, Divided(u, j, b), j > 0 => f = Len(t)
  PROVE  Divided(t \o u, f + j, b)
<1> DEFINE v == t \o u
           m == Len(t)
           n == Len(u)
<1>1. /\ v \in Seq(Nat) /\ Len(v) = m + n /\ m \in Nat /\ n \in Nat
      /\ \A k \in 1..(m + n) : v[k] = IF k <= m THEN t[k] ELSE u[k - m]
  BY NatsJoined
<1>2. f \in 0..m /\ j \in 0..n /\ (j > 0 => f = m)
  BY DEF Divided
<1> HIDE DEF v, m, n
<1>3. ASSUME NEW k \in 1..(m + n) PROVE k <= f + j <=> v[k] <= b
  <2>1. CASE k <= m
    <3>1. k \in 1..m /\ v[k] = t[k]
      BY <1>1, <2>1
    <3>2. k <= f <=> t[k] <= b
      BY <3>1 DEF Divided, m
    <3>3. k <= f + j <=> k <= f
      BY <1>1, <1>2, <3>1
    <3> QED BY <3>1, <3>2, <3>3
  <2>2. CASE ~(k <= m)
    <3> DEFINE l == k - m
    <3>1. l \in 1..n /\ v[k] = u[l] /\ k = m + l
      BY <1>1, <2>2
    <3> HIDE DEF l
    <3>2. l <= j <=> u[l] <= b
      BY <3>1 DEF Divided, n
    <3>3. k <= f + j <=> l <= j
      <4>1. CASE j = 0
        BY <1>1, <1>2, <3>1, <4>1
      <4>2. CASE j # 0
        <5>1. j > 0 /\ f = m
          BY <1>1, <1>2, <4>2
        <5> QED BY <1>1, <1>2, <3>1, <5>1
      <4> QED BY <4>1, <4>2
    <3> QED BY <3>1, <3>2, <3>3
  <2> QED BY <2>1, <2>2
<1>4. f + j \in 0..Len(v)
  BY <1>1, <1>2
<1> QED BY <1>1, <1>3, <1>4 DEF Divided, v

\* If none is more than b, the place is at the end.
LEMMA DividedAtEnd ==
  ASSUME NEW t \in Seq(Nat), NEW f, NEW b \in Nat, Divided(t, f, b),
         NEW m \in Nat, m <= b, \A k \in 1..Len(t) : t[k] <= m
  PROVE  f = Len(t)
<1>1. Len(t) \in Nat /\ f \in 0..Len(t) /\ \A k \in 1..Len(t) : k <= f <=> t[k] <= b
  BY DEF Divided
<1>2. Len(t) # 0 => Len(t) <= f
  <2> SUFFICES ASSUME Len(t) # 0 PROVE Len(t) <= f
    OBVIOUS
  <2>1. Len(t) \in 1..Len(t)
    BY <1>1
  <2>2. t[Len(t)] \in Nat /\ t[Len(t)] <= m
    BY <2>1
  <2>3. t[Len(t)] <= b
    BY <2>2
  <2> QED BY <1>1, <2>1, <2>3
<1> QED BY <1>1, <1>2

=============================================================================
