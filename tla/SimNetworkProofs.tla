--------------------------- MODULE SimNetworkProofs ---------------------------
(***************************************************************************)
(* The theorem about SimNetwork, for any clients, delays, times and number *)
(* of edits: a run of the network ends with every client at the server's   *)
(* state, and no assertion fails unless two updates were due at one client *)
(* at one instant.                                                         *)
(***************************************************************************)
EXTENDS SimNetwork, Recursion

-----------------------------------------------------------------------------
(* The heap                                                                *)

\* What Before compares, as one number.
Rank(e) == 2 * e.time + NetworkMessageOrder(e)

Timed(V) == \A e \in V : e.time \in Nat

LEMMA BeforeRank ==
  ASSUME NEW e, NEW f, e.time \in Nat, f.time \in Nat
  PROVE  /\ Rank(e) \in Nat /\ Rank(f) \in Nat
         /\ Before(e, f) <=> Rank(e) < Rank(f)
<1>1. NetworkMessageOrder(e) \in {0, 1} /\ NetworkMessageOrder(f) \in {0, 1}
  BY DEF NetworkMessageOrder
<1> QED BY <1>1 DEF Rank, Before

LEMMA Parents ==
  ASSUME NEW i \in Nat \ {0}
  PROVE  /\ Parent(i) \in Nat /\ i \in {2 * Parent(i), 2 * Parent(i) + 1} /\ Parent(i) < i
         /\ i > 1 => Parent(i) >= 1
BY DEF Parent

\* The heaps of n events of V, with a hole.
Holed(V, n) == [heap : [1..n -> V], hole : 1..n]

LEMMA MoveToType ==
  ASSUME NEW V, NEW n \in Nat, NEW s \in Holed(V, n), NEW j \in 1..n
  PROVE  /\ MoveTo(s, j) \in Holed(V, n) /\ MoveTo(s, j).hole = j
         /\ MoveTo(s, j).heap[s.hole] = s.heap[j]
         /\ \A i \in 1..n : i # s.hole => MoveTo(s, j).heap[i] = s.heap[i]
BY DEF MoveTo, Holed

LEMMA HoledLen ==
  ASSUME NEW V, NEW n \in Nat, NEW s \in Holed(V, n)
  PROVE  /\ s.heap \in [1..n -> V] /\ s.heap \in Seq(V) /\ Len(s.heap) = n
         /\ s.hole \in 1..n
<1>1. s.heap \in [1..n -> V] /\ s.hole \in 1..n
  BY DEF Holed
<1>2. s.heap \in Seq(V)
  BY <1>1
<1> QED BY <1>1, <1>2

-----------------------------------------------------------------------------
(* What the heap holds                                                     *)

\* Off its hole the heap holds the events of R, each once.
Holds(s, n, R) ==
  /\ \A i, j \in 1..n : i # s.hole /\ j # s.hole /\ s.heap[i] = s.heap[j] => i = j
  /\ R = {s.heap[i] : i \in (1..n) \ {s.hole}}

LEMMA MoveToHolds ==
  ASSUME NEW V, NEW n \in Nat, NEW s \in Holed(V, n), NEW j \in 1..n, NEW R,
         j # s.hole, Holds(s, n, R)
  PROVE  Holds(MoveTo(s, j), n, R)
<1> DEFINE t == MoveTo(s, j)
<1>1. /\ t \in Holed(V, n) /\ t.hole = j /\ t.heap[s.hole] = s.heap[j]
      /\ \A i \in 1..n : i # s.hole => t.heap[i] = s.heap[i]
  BY MoveToType
<1>2. s.hole \in 1..n
  BY HoledLen
<1> HIDE DEF t
<1>3. ASSUME NEW i \in 1..n, NEW k \in 1..n, i # t.hole, k # t.hole, t.heap[i] = t.heap[k]
      PROVE  i = k
  BY <1>1, <1>2, <1>3 DEF Holds
<1>4. ASSUME NEW x \in R PROVE x \in {t.heap[i] : i \in (1..n) \ {t.hole}}
  <2>1. PICK i \in (1..n) \ {s.hole} : x = s.heap[i]
    BY <1>4 DEF Holds
  <2>2. CASE i = j
    BY <1>1, <1>2, <2>1, <2>2
  <2>3. CASE i # j
    BY <1>1, <1>2, <2>1, <2>3
  <2> QED BY <2>2, <2>3
<1>5. ASSUME NEW i \in (1..n) \ {t.hole} PROVE t.heap[i] \in R
  <2>1. CASE i = s.hole
    BY <1>1, <1>2, <1>5, <2>1 DEF Holds
  <2>2. CASE i # s.hole
    BY <1>1, <1>2, <1>5, <2>2 DEF Holds
  <2> QED BY <2>1, <2>2
<1>6. R = {t.heap[i] : i \in (1..n) \ {t.hole}}
  BY <1>4, <1>5
<1>7. Holds(t, n, R)
  BY <1>3, <1>6 DEF Holds
<1> QED BY <1>7 DEF t

Filled(s, e) == [s.heap EXCEPT ![s.hole] = e]

\* The hole is filled with an event that is not there.
LEMMA Fill ==
  ASSUME NEW V, NEW n \in Nat, NEW s \in Holed(V, n), NEW e \in V, NEW R,
         Holds(s, n, R), e \notin R
  PROVE  LET h == Filled(s, e)
         IN  /\ h \in Seq(V) /\ Len(h) = n /\ Once(h)
             /\ Seqs!ToSet(h) = R \cup {e}
<1> DEFINE h == Filled(s, e)
<1>1. s.heap \in [1..n -> V] /\ s.hole \in 1..n
  BY HoledLen
<1>2. /\ h \in [1..n -> V] /\ h[s.hole] = e
      /\ \A i \in 1..n : i # s.hole => h[i] = s.heap[i]
  BY <1>1 DEF Filled
<1> HIDE DEF h
<1>3. h \in Seq(V) /\ Len(h) = n /\ DOMAIN h = 1..n
  BY <1>2
<1>4. \A i \in (1..n) \ {s.hole} : h[i] \in R /\ h[i] # e
  BY <1>1, <1>2 DEF Holds
<1>5. Once(h)
  <2> SUFFICES ASSUME NEW i \in 1..n, NEW j \in 1..n, h[i] = h[j] PROVE i = j
    BY <1>3 DEF Once
  <2> QED BY <1>1, <1>2, <1>4 DEF Holds
<1>6. Seqs!ToSet(h) = {h[i] : i \in 1..n}
  BY <1>3 DEF Seqs!ToSet
<1>7. ASSUME NEW x \in R PROVE x \in {h[i] : i \in 1..n}
  BY <1>1, <1>2 DEF Holds
<1>8. {h[i] : i \in 1..n} = R \cup {e}
  BY <1>1, <1>2, <1>4, <1>7
<1> QED BY <1>3, <1>5, <1>6, <1>8 DEF h

-----------------------------------------------------------------------------
(* What the heap is in order of                                            *)

\* Nothing is before the event above it.
Ordered(h) == \A i \in 2..Len(h) : Rank(h[Parent(i)]) <= Rank(h[i])

\* The same off the hole, and below the hole nothing is before what is above it.
OrderedOff(s, n) ==
  /\ \A i \in 2..n : i # s.hole /\ Parent(i) # s.hole =>
       Rank(s.heap[Parent(i)]) <= Rank(s.heap[i])
  /\ s.hole > 1 => \A i \in 2..n : Parent(i) = s.hole =>
       Rank(s.heap[Parent(s.hole)]) <= Rank(s.heap[i])

\* Nothing below the hole is before e.
Covers(e, s, n) == \A i \in 2..n : Parent(i) = s.hole => Rank(e) <= Rank(s.heap[i])

\* e need not go up.
Settles(e, s) == s.hole > 1 => Rank(s.heap[Parent(s.hole)]) <= Rank(e)

\* In a heap of timed events, what is said of ranks is said of naturals.
LEMMA HoledRanks ==
  ASSUME NEW V, Timed(V), NEW n \in Nat, NEW s \in Holed(V, n)
  PROVE  \A i \in 1..n : s.heap[i] \in V /\ Rank(s.heap[i]) \in Nat
<1>1. s.heap \in [1..n -> V]
  BY HoledLen
<1>2. \A i \in 1..n : s.heap[i] \in V /\ s.heap[i].time \in Nat
  BY <1>1 DEF Timed
<1> QED BY <1>2, BeforeRank

LEMMA ParentIn ==
  ASSUME NEW n \in Nat
  PROVE  \A i \in 2..n : Parent(i) \in 1..n /\ Parent(i) < i
<1> SUFFICES ASSUME NEW i \in 2..n PROVE Parent(i) \in 1..n /\ Parent(i) < i
  OBVIOUS
<1>1. i \in Nat \ {0} /\ i > 1
  OBVIOUS
<1> QED BY <1>1, Parents

LEMMA ClimbStep ==
  ASSUME NEW V, Timed(V), NEW n \in Nat, NEW s \in Holed(V, n), NEW e \in V, NEW R,
         Holds(s, n, R), OrderedOff(s, n), Covers(e, s, n)
  PROVE  LET t == Climb(s, e)
         IN  /\ t \in Holed(V, n) /\ Holds(t, n, R) /\ OrderedOff(t, n) /\ Covers(e, t, n)
             /\ Settles(e, s) => t = s
             /\ ~Settles(e, s) => t.hole < s.hole
<1> DEFINE p == Parent(s.hole)
           t == MoveTo(s, p)
<1>1. s.hole \in 1..n /\ s.heap \in [1..n -> V] /\ \A i \in 1..n : Rank(s.heap[i]) \in Nat
  BY HoledLen, HoledRanks
<1>2. e.time \in Nat /\ Rank(e) \in Nat
  BY BeforeRank DEF Timed
<1>3. s.hole > 1 => /\ p \in 1..n /\ p < s.hole
                    /\ Before(e, s.heap[p]) <=> Rank(e) < Rank(s.heap[p])
  <2> SUFFICES ASSUME s.hole > 1
               PROVE  /\ p \in 1..n /\ p < s.hole
                      /\ Before(e, s.heap[p]) <=> Rank(e) < Rank(s.heap[p])
    OBVIOUS
  <2>1. s.hole \in 2..n
    BY <1>1
  <2>2. p \in 1..n /\ p < s.hole
    BY <2>1, ParentIn
  <2>3. s.heap[p] \in V /\ s.heap[p].time \in Nat
    BY <1>1, <2>2 DEF Timed
  <2> QED BY <1>2, <2>2, <2>3, BeforeRank
<1>4. CASE Settles(e, s)
  <2>1. ~(s.hole > 1 /\ Before(e, s.heap[p]))
    <3> HIDE DEF p
    <3>1. s.hole > 1 => Rank(s.heap[p]) <= Rank(e)
      BY <1>4 DEF Settles, p
    <3> QED BY <1>1, <1>2, <1>3, <3>1
  <2>2. Climb(s, e) = s
    BY <2>1 DEF Climb
  <2> QED BY <1>4, <2>2
<1>5. CASE ~Settles(e, s)
  <2>1. s.hole > 1 /\ ~(Rank(s.heap[p]) <= Rank(e))
    BY <1>5 DEF Settles
  <2>2. p \in 1..n /\ p < s.hole /\ Rank(e) < Rank(s.heap[p]) /\ Before(e, s.heap[p])
    <3> HIDE DEF p
    <3> QED BY <1>1, <1>2, <1>3, <2>1
  <2>3. Climb(s, e) = t
    BY <2>1, <2>2 DEF Climb
  <2>4. /\ t \in Holed(V, n) /\ t.hole = p /\ t.heap[s.hole] = s.heap[p]
        /\ \A i \in 1..n : i # s.hole => t.heap[i] = s.heap[i]
    <3> HIDE DEF p
    <3> QED BY <2>2, MoveToType
  <2>5. Holds(t, n, R)
    <3> HIDE DEF p
    <3>1. p # s.hole
      BY <1>1, <2>2
    <3> QED BY <2>2, <3>1, MoveToHolds
  <2> HIDE DEF t
  <2>6. \A i \in 2..n : Parent(i) \in 1..n /\ Parent(i) < i /\ i \in 1..n
    BY ParentIn
  <2>7. \A i \in 1..n : Rank(t.heap[i]) \in Nat
    BY <2>4, HoledRanks
  <2>8. s.hole \in 2..n /\ Parent(s.hole) = p
    BY <1>1, <2>1 DEF p
  <2> HIDE DEF p
  <2>9. ASSUME NEW i \in 2..n, Parent(i) = p PROVE Rank(s.heap[p]) <= Rank(t.heap[i])
    <3>1. CASE i = s.hole
      BY <1>1, <2>2, <2>4, <3>1
    <3>2. CASE i # s.hole
      <4>1. Parent(i) # s.hole
        BY <1>1, <2>2, <2>9
      <4> QED BY <2>4, <2>6, <2>9, <3>2, <4>1 DEF OrderedOff
    <3> QED BY <3>1, <3>2
  <2>10. Covers(e, t, n)
    <3> SUFFICES ASSUME NEW i \in 2..n, Parent(i) = p PROVE Rank(e) <= Rank(t.heap[i])
      BY <2>4 DEF Covers
    <3>1. Rank(s.heap[p]) <= Rank(t.heap[i]) /\ i \in 1..n
      BY <2>6, <2>9
    <3> QED BY <1>1, <1>2, <2>2, <2>7, <3>1
  <2>11. ASSUME NEW i \in 2..n, i # p, Parent(i) # p
         PROVE  Rank(t.heap[Parent(i)]) <= Rank(t.heap[i])
    <3>1. i # s.hole
      BY <2>8, <2>11
    <3>2. CASE Parent(i) = s.hole
      <4>1. Rank(s.heap[p]) <= Rank(s.heap[i])
        BY <2>1, <2>8, <3>2 DEF OrderedOff
      <4> QED BY <2>4, <2>6, <3>1, <3>2, <4>1
    <3>3. CASE Parent(i) # s.hole
      <4>1. Rank(s.heap[Parent(i)]) <= Rank(s.heap[i])
        BY <3>1, <3>3 DEF OrderedOff
      <4> QED BY <2>4, <2>6, <3>1, <3>3, <4>1
    <3> QED BY <3>2, <3>3
  <2>12. ASSUME p > 1, NEW i \in 2..n, Parent(i) = p
         PROVE  Rank(t.heap[Parent(p)]) <= Rank(t.heap[i])
    <3>1. p \in 2..n
      BY <2>2, <2>12
    <3>2. Parent(p) \in 1..n /\ Parent(p) < p
      BY <2>6, <3>1
    <3>3. p # s.hole /\ Parent(p) # s.hole
      BY <1>1, <2>2, <3>2
    <3>4. Rank(s.heap[Parent(p)]) <= Rank(s.heap[p])
      BY <3>1, <3>3 DEF OrderedOff
    <3>5. t.heap[Parent(p)] = s.heap[Parent(p)]
      BY <2>4, <3>2, <3>3
    <3>6. Rank(s.heap[p]) <= Rank(t.heap[i]) /\ i \in 1..n
      BY <2>6, <2>9, <2>12
    <3>7. Rank(s.heap[Parent(p)]) \in Nat /\ Rank(s.heap[p]) \in Nat /\ Rank(t.heap[i]) \in Nat
      BY <1>1, <2>2, <2>7, <3>2, <3>6
    <3> QED BY <3>4, <3>5, <3>6, <3>7
  <2>13. OrderedOff(t, n)
    BY <2>4, <2>11, <2>12 DEF OrderedOff
  <2> QED BY <1>5, <2>2, <2>3, <2>4, <2>5, <2>10, <2>13
<1> QED BY <1>4, <1>5

\* The hole goes down to a child, or there is none.
LEMMA DescendStep ==
  ASSUME NEW V, Timed(V), NEW n \in Nat, NEW s \in Holed(V, n), NEW R,
         Holds(s, n, R), OrderedOff(s, n)
  PROVE  LET t == Descend(s)
         IN  /\ t \in Holed(V, n) /\ Holds(t, n, R) /\ OrderedOff(t, n)
             /\ 2 * s.hole > n => t = s
             /\ ~(2 * s.hole > n) => t.hole > s.hole
<1> DEFINE left == 2 * s.hole
           c == IF left < Len(s.heap) /\ ~Before(s.heap[left], s.heap[left + 1])
                  THEN left + 1 ELSE left
           t == MoveTo(s, c)
<1>1. /\ s.hole \in 1..n /\ s.heap \in [1..n -> V] /\ Len(s.heap) = n
      /\ \A i \in 1..n : Rank(s.heap[i]) \in Nat /\ s.heap[i].time \in Nat
  <2>1. s.hole \in 1..n /\ s.heap \in [1..n -> V] /\ Len(s.heap) = n
    BY HoledLen
  <2>2. \A i \in 1..n : Rank(s.heap[i]) \in Nat
    BY HoledRanks
  <2> QED BY <2>1, <2>2 DEF Timed
<1>2. CASE 2 * s.hole > n
  <2>1. Descend(s) = s
    BY <1>1, <1>2 DEF Descend
  <2> QED BY <1>2, <2>1
<1>3. CASE ~(2 * s.hole > n)
  <2>1. Descend(s) = t
    BY <1>1, <1>3 DEF Descend
  <2>2. left \in 2..n
    BY <1>1, <1>3
  <2>3. c \in 2..n /\ c \in {left, left + 1}
    <3>1. CASE left < n
      <4>1. left + 1 \in 2..n
        BY <2>2, <3>1
      <4> HIDE DEF left
      <4> QED BY <2>2, <4>1
    <3>2. CASE ~(left < n)
      <4>1. c = left
        BY <1>1, <3>2
      <4> QED BY <2>2, <4>1
    <3> QED BY <3>1, <3>2
  <2>4. c \in {2 * s.hole, 2 * s.hole + 1}
    BY <2>3
\* The other child is not before it.
  <2>5. ASSUME NEW i \in 2..n, i \in {left, left + 1}
        PROVE  Rank(s.heap[c]) <= Rank(s.heap[i])
    <3>1. CASE left < n
      <4>1. left \in 1..n /\ left + 1 \in 1..n
        BY <2>2, <3>1
      <4>2. Before(s.heap[left], s.heap[left + 1]) <=>
              Rank(s.heap[left]) < Rank(s.heap[left + 1])
        <5> HIDE DEF left
        <5> QED BY <1>1, <4>1, BeforeRank
      <4>3. Rank(s.heap[left]) \in Nat /\ Rank(s.heap[left + 1]) \in Nat
        BY <1>1, <4>1
      <4>4. CASE Before(s.heap[left], s.heap[left + 1])
        <5>1. c = left
          BY <4>4
        <5> HIDE DEF left, c
        <5> QED BY <2>5, <4>2, <4>3, <4>4, <5>1
      <4>5. CASE ~Before(s.heap[left], s.heap[left + 1])
        <5>1. c = left + 1
          BY <1>1, <3>1, <4>5
        <5> HIDE DEF left, c
        <5> QED BY <2>5, <4>2, <4>3, <4>5, <5>1
      <4> QED BY <4>4, <4>5
    <3>2. CASE ~(left < n)
      <4>1. c = left /\ i = left /\ left \in 1..n
        BY <1>1, <2>2, <2>5, <3>2
      <4>2. Rank(s.heap[left]) \in Nat
        BY <1>1, <4>1
      <4> HIDE DEF left, c
      <4> QED BY <4>1, <4>2
    <3> QED BY <3>1, <3>2
  <2> HIDE DEF c
  <2>6. c \in 1..n /\ c > s.hole /\ Parent(c) = s.hole
    <3>1. c \in Nat \ {0} /\ s.hole \in Nat
      BY <1>1, <2>3
    <3>2. Parent(c) \in Nat /\ c \in {2 * Parent(c), 2 * Parent(c) + 1}
      BY <3>1, Parents
    <3>3. c \in 1..n /\ c > s.hole
      BY <1>1, <2>3, <2>4
    <3>4. \A p, h \in Nat : c \in {2 * p, 2 * p + 1} /\ c \in {2 * h, 2 * h + 1} => p = h
      BY <3>1
    <3>5. Parent(c) = s.hole
      BY <2>4, <3>1, <3>2, <3>4
    <3> QED BY <3>3, <3>5
  <2>7. /\ t \in Holed(V, n) /\ t.hole = c /\ t.heap[s.hole] = s.heap[c]
        /\ \A i \in 1..n : i # s.hole => t.heap[i] = s.heap[i]
    BY <2>6, MoveToType
  <2>8. Holds(t, n, R)
    <3>1. c # s.hole
      BY <1>1, <2>6
    <3> QED BY <2>6, <3>1, MoveToHolds
  <2> HIDE DEF t
  <2>9. \A i \in 2..n : Parent(i) \in 1..n /\ Parent(i) < i /\ i \in 1..n
    BY ParentIn
  <2>10. ASSUME NEW i \in 2..n, i # c, Parent(i) # c
         PROVE  Rank(t.heap[Parent(i)]) <= Rank(t.heap[i])
    <3>1. CASE i = s.hole
      <4>1. s.hole > 1 /\ Parent(i) # s.hole
        BY <2>9, <3>1
      <4>2. Rank(s.heap[Parent(s.hole)]) <= Rank(s.heap[c])
        BY <2>3, <2>6, <4>1 DEF OrderedOff
      <4> QED BY <2>7, <2>9, <3>1, <4>1, <4>2
    <3>2. CASE i # s.hole /\ Parent(i) = s.hole
      <4>1. i \in {left, left + 1}
        <5>1. i \in Nat \ {0}
          OBVIOUS
        <5> QED BY <3>2, <5>1, Parents
      <4>2. Rank(s.heap[c]) <= Rank(s.heap[i])
        BY <2>5, <4>1
      <4> QED BY <2>7, <2>9, <3>2, <4>2
    <3>3. CASE i # s.hole /\ Parent(i) # s.hole
      <4>1. Rank(s.heap[Parent(i)]) <= Rank(s.heap[i])
        BY <3>3 DEF OrderedOff
      <4> QED BY <2>7, <2>9, <3>3, <4>1
    <3> QED BY <3>1, <3>2, <3>3
  <2>11. ASSUME NEW i \in 2..n, Parent(i) = c
         PROVE  Rank(t.heap[Parent(c)]) <= Rank(t.heap[i])
    <3>1. i # s.hole /\ Parent(i) # s.hole
      <4>1. Parent(i) < i
        BY <2>9
      <4> QED BY <1>1, <2>6, <2>11, <4>1
    <3>2. Rank(s.heap[Parent(i)]) <= Rank(s.heap[i])
      BY <3>1 DEF OrderedOff
    <3> QED BY <2>6, <2>7, <2>9, <2>11, <3>1, <3>2
  <2>12. OrderedOff(t, n)
    BY <2>7, <2>10, <2>11 DEF OrderedOff
  <2> QED BY <1>3, <2>1, <2>6, <2>7, <2>8, <2>12
<1> QED BY <1>2, <1>3

-----------------------------------------------------------------------------
(* The loops of the heap                                                   *)

\* e is put where it need not go up, and nothing below is before it.
LEMMA FillOrdered ==
  ASSUME NEW V, Timed(V), NEW n \in Nat, NEW s \in Holed(V, n), NEW e \in V,
         OrderedOff(s, n), Covers(e, s, n), Settles(e, s)
  PROVE  Ordered(Filled(s, e))
<1> DEFINE h == Filled(s, e)
<1>1. s.heap \in [1..n -> V] /\ s.hole \in 1..n
  BY HoledLen
<1>2. /\ h \in [1..n -> V] /\ h[s.hole] = e
      /\ \A i \in 1..n : i # s.hole => h[i] = s.heap[i]
  BY <1>1 DEF Filled
<1>3. Len(h) = n
  BY <1>1, <1>2
<1> HIDE DEF h
<1>4. ASSUME NEW i \in 2..n PROVE Rank(h[Parent(i)]) <= Rank(h[i])
  <2>1. i \in 1..n /\ Parent(i) \in 1..n /\ Parent(i) < i
    BY ParentIn
  <2>2. CASE i = s.hole
    <3>1. s.hole > 1 /\ Parent(i) # s.hole
      BY <2>1, <2>2
    <3> QED BY <1>2, <2>1, <2>2, <3>1 DEF Settles
  <2>3. CASE i # s.hole /\ Parent(i) = s.hole
    BY <1>2, <2>1, <2>3 DEF Covers
  <2>4. CASE i # s.hole /\ Parent(i) # s.hole
    BY <1>2, <2>1, <2>4 DEF OrderedOff
  <2> QED BY <2>2, <2>3, <2>4
<1>5. Ordered(h)
  BY <1>3, <1>4 DEF Ordered
<1> QED BY <1>5 DEF h

IsLoop(f, N, W, x, next) ==
  f \in [0..N -> W] /\ f = [n \in 0..N |-> IF n = 0 THEN x ELSE next[f[n-1]]]

\* A loop that takes a step at most as often as the heap is long.
LEMMA Loop ==
  ASSUME NEW N \in Nat, NEW W, NEW x \in W, NEW next \in [W -> W]
  PROVE  \E f : IsLoop(f, N, W, x, next)
<1> DEFINE step == [n \in 1..N |-> next]
<1>1. step \in [1..N -> [W -> W]]
  OBVIOUS
<1>2. PICK f : f \in Folds(N, W, x, step)
  <2>1. \A y \in W : Folds(N, W, y, step) # {}
    <3> HIDE DEF step
    <3> QED BY <1>1, FoldExists, Zenon
  <2> HIDE DEF step
  <2> QED BY <2>1
<1>3. f \in [0..N -> W] /\ f[0] = x /\ \A n \in 1..N : f[n] = step[n][f[n-1]]
  BY <1>2 DEF Folds
<1>4. \A n \in 0..N : f[n] = IF n = 0 THEN x ELSE next[f[n-1]]
  <2>1. \A n \in 1..N : f[n] = next[f[n-1]]
    BY <1>3
  <2> HIDE DEF step
  <2> QED BY <1>3, <2>1
<1> HIDE DEF step
<1>5. f = [n \in 0..N |-> IF n = 0 THEN x ELSE next[f[n-1]]]
  BY <1>3, <1>4
<1> QED BY <1>3, <1>5 DEF IsLoop

IsClimb(f, s, e) ==
  f = [n \in 0..Len(s.heap) |-> IF n = 0 THEN s ELSE Climb(f[n-1], e)]

LEMMA ClimbDef ==
  ASSUME NEW V, Timed(V), NEW n \in Nat, NEW s \in Holed(V, n), NEW e \in V
  PROVE  \E f : /\ f \in [0..n -> Holed(V, n)]
                /\ f[0] = s /\ \A k \in 1..n : f[k] = Climb(f[k-1], e)
                /\ SiftUp(s, e) = Filled(f[n], e)
<1>1. Len(s.heap) = n
  BY HoledLen
<1> DEFINE W == Holed(V, n)
           next == [t \in W |-> Climb(t, e)]
<1>2. next \in [W -> W]
  <2> SUFFICES ASSUME NEW t \in W PROVE Climb(t, e) \in W
    OBVIOUS
  <2>1. t.hole \in 1..n
    BY HoledLen
  <2>2. t.hole > 1 => Parent(t.hole) \in 1..n
    <3>1. t.hole > 1 => t.hole \in 2..n
      BY <2>1
    <3> QED BY <3>1, ParentIn
  <2>3. t.hole > 1 => MoveTo(t, Parent(t.hole)) \in W
    BY <2>2, MoveToType
  <2> QED BY <2>3 DEF Climb
<1>3. PICK f : IsLoop(f, n, W, s, next)
  <2> HIDE DEF W, next
  <2>1. s \in W
    BY DEF W
  <2> QED BY <1>2, <2>1, Loop
<1> HIDE DEF W
<1>4. f \in [0..n -> W] /\ \A k \in 0..n : f[k] = IF k = 0 THEN s ELSE next[f[k-1]]
  <2> HIDE DEF next
  <2> QED BY <1>3 DEF IsLoop
<1>5. \A k \in 1..n : f[k] = Climb(f[k-1], e)
  <2> SUFFICES ASSUME NEW k \in 1..n PROVE f[k] = Climb(f[k-1], e)
    OBVIOUS
  <2>1. f[k-1] \in W
    <3>1. k-1 \in 0..n
      OBVIOUS
    <3> HIDE DEF next
    <3> QED BY <1>4, <3>1
  <2>2. f[k] = next[f[k-1]]
    <3> HIDE DEF next
    <3> QED BY <1>4
  <2> QED BY <2>1, <2>2
<1>6. f[0] = s
  <2>1. 0 \in 0..n
    OBVIOUS
  <2> HIDE DEF next
  <2> QED BY <1>4, <2>1, Zenon
<1> HIDE DEF next
<1>7. IsClimb(f, s, e)
  <2>1. \A k \in 0..n : f[k] = IF k = 0 THEN s ELSE Climb(f[k-1], e)
    BY <1>5, <1>6
  <2>2. f = [k \in 0..n |-> IF k = 0 THEN s ELSE Climb(f[k-1], e)]
    BY <1>3, <2>1 DEF IsLoop
  <2> QED BY <1>1, <2>2 DEF IsClimb
<1> DEFINE at == CHOOSE g : IsClimb(g, s, e)
<1>8. IsClimb(at, s, e)
  BY <1>7, Zenon
<1>9. SiftUp(s, e) = Filled(at[n], e)
  BY <1>1 DEF SiftUp, IsClimb, Filled
<1> HIDE DEF at
<1>10. at[0] = s /\ \A k \in 1..n : at[k] = Climb(at[k-1], e)
  BY <1>1, <1>8 DEF IsClimb
<1>11. SameSteps(f, at, n)
  BY <1>5, <1>6, <1>10 DEF SameSteps
<1>12. f[n] = at[n]
  BY <1>11, Alike DEF SameValues
<1> QED BY <1>4, <1>5, <1>6, <1>9, <1>12 DEF W

LEMMA SiftUpHeap ==
  ASSUME NEW V, Timed(V), NEW n \in Nat, NEW s \in Holed(V, n), NEW e \in V, NEW R,
         Holds(s, n, R), OrderedOff(s, n), Covers(e, s, n), e \notin R
  PROVE  LET h == SiftUp(s, e)
         IN  h \in Seq(V) /\ Ordered(h) /\ Once(h) /\ Seqs!ToSet(h) = R \cup {e}
<1>1. PICK f : /\ f \in [0..n -> Holed(V, n)]
               /\ f[0] = s /\ \A k \in 1..n : f[k] = Climb(f[k-1], e)
               /\ SiftUp(s, e) = Filled(f[n], e)
  BY ClimbDef
<1> DEFINE Good(t) == Holds(t, n, R) /\ OrderedOff(t, n) /\ Covers(e, t, n)
           S == {k \in Nat : k <= n => /\ Good(f[k])
                                       /\ Settles(e, f[k]) \/ f[k].hole + k <= n}
<1>2. s.hole \in 1..n
  BY HoledLen
<1>3. 0 \in S
  BY <1>1, <1>2
<1>4. ASSUME NEW k \in Nat, k \in S PROVE k+1 \in S
  <2> SUFFICES ASSUME k+1 <= n
               PROVE  Good(f[k+1]) /\ (Settles(e, f[k+1]) \/ f[k+1].hole + (k+1) <= n)
    OBVIOUS
  <2>1. /\ k \in 0..n /\ k+1 \in 0..n /\ k+1 \in 1..n /\ (k+1)-1 = k
    OBVIOUS
  <2>2. f[k] \in Holed(V, n) /\ f[k+1] \in Holed(V, n) /\ f[k+1] = Climb(f[k], e)
    BY <1>1, <2>1
  <2>3. Good(f[k]) /\ (Settles(e, f[k]) \/ f[k].hole + k <= n)
    BY <1>4, <2>1
  <2>4. /\ Good(f[k+1])
        /\ Settles(e, f[k]) => f[k+1] = f[k]
        /\ ~Settles(e, f[k]) => f[k+1].hole < f[k].hole
    BY <2>2, <2>3, ClimbStep
  <2>5. f[k].hole \in 1..n /\ f[k+1].hole \in 1..n
    BY <2>2, HoledLen
  <2>6. CASE Settles(e, f[k])
    BY <2>4, <2>6
  <2>7. CASE ~(Settles(e, f[k]))
    <3>1. f[k+1].hole + (k+1) <= n
      BY <2>3, <2>4, <2>5, <2>7
    <3> QED BY <2>4, <3>1
  <2> QED BY <2>6, <2>7
<1>5. Nat \subseteq S
  <2> HIDE DEF S
  <2> QED BY <1>3, <1>4, Induction
<1>6. f[n] \in Holed(V, n) /\ Good(f[n]) /\ (Settles(e, f[n]) \/ f[n].hole + n <= n)
  <2> HIDE DEF Good
  <2> QED BY <1>1, <1>5
<1>7. f[n].hole \in 1..n
  BY <1>6, HoledLen
<1>8. Settles(e, f[n])
  BY <1>6, <1>7
<1> DEFINE t == f[n]
           h == Filled(t, e)
<1> HIDE DEF S
<1>9. t \in Holed(V, n) /\ Good(t) /\ Settles(e, t)
  BY <1>6, <1>8
<1> HIDE DEF t
<1>10. Ordered(h)
  BY <1>9, FillOrdered
<1>11. h \in Seq(V) /\ Once(h) /\ Seqs!ToSet(h) = R \cup {e}
  BY <1>9, Fill
<1>12. SiftUp(s, e) = h
  BY <1>1 DEF t
<1> HIDE DEF h
<1> QED BY <1>10, <1>11, <1>12

IsDescent(f, s) ==
  f = [n \in 0..Len(s.heap) |-> IF n = 0 THEN s ELSE Descend(f[n-1])]

LEMMA DescendType ==
  ASSUME NEW V, NEW n \in Nat, NEW s \in Holed(V, n)
  PROVE  Descend(s) \in Holed(V, n)
<1>1. s.hole \in 1..n /\ Len(s.heap) = n
  BY HoledLen
<1>2. CASE 2 * s.hole <= n
  <2>1. \E c \in {2 * s.hole, 2 * s.hole + 1} : c <= n /\ Descend(s) = MoveTo(s, c)
    <3>1. CASE 2 * s.hole < n /\ ~Before(s.heap[2 * s.hole], s.heap[2 * s.hole + 1])
      <4>1. Descend(s) = MoveTo(s, 2 * s.hole + 1)
        BY <1>1, <1>2, <3>1 DEF Descend
      <4> QED BY <1>1, <3>1, <4>1
    <3>2. CASE ~(2 * s.hole < n /\ ~Before(s.heap[2 * s.hole], s.heap[2 * s.hole + 1]))
      <4>1. Descend(s) = MoveTo(s, 2 * s.hole)
        BY <1>1, <1>2, <3>2 DEF Descend
      <4> QED BY <1>1, <1>2, <4>1
    <3> QED BY <3>1, <3>2
  <2>2. PICK c \in {2 * s.hole, 2 * s.hole + 1} : c <= n /\ Descend(s) = MoveTo(s, c)
    BY <2>1
  <2>3. c \in 1..n
    BY <1>1, <2>2
  <2> QED BY <2>2, <2>3, MoveToType
<1>3. CASE ~(2 * s.hole <= n)
  BY <1>1, <1>3 DEF Descend
<1> QED BY <1>2, <1>3

LEMMA DescentDef ==
  ASSUME NEW V, NEW n \in Nat, NEW s \in Holed(V, n)
  PROVE  \E f : /\ f \in [0..n -> Holed(V, n)]
                /\ f[0] = s /\ \A k \in 1..n : f[k] = Descend(f[k-1])
                /\ SiftDownToBottom(s) = f[n]
<1>1. Len(s.heap) = n
  BY HoledLen
<1> DEFINE W == Holed(V, n)
           next == [t \in W |-> Descend(t)]
<1>2. next \in [W -> W]
  BY DescendType
<1>3. PICK f : IsLoop(f, n, W, s, next)
  <2> HIDE DEF W, next
  <2>1. s \in W
    BY DEF W
  <2> QED BY <1>2, <2>1, Loop
<1> HIDE DEF W
<1>4. f \in [0..n -> W] /\ \A k \in 0..n : f[k] = IF k = 0 THEN s ELSE next[f[k-1]]
  <2> HIDE DEF next
  <2> QED BY <1>3 DEF IsLoop
<1>5. \A k \in 1..n : f[k] = Descend(f[k-1])
  <2> SUFFICES ASSUME NEW k \in 1..n PROVE f[k] = Descend(f[k-1])
    OBVIOUS
  <2>1. f[k-1] \in W
    <3>1. k-1 \in 0..n
      OBVIOUS
    <3> HIDE DEF next
    <3> QED BY <1>4, <3>1
  <2>2. f[k] = next[f[k-1]]
    <3> HIDE DEF next
    <3> QED BY <1>4
  <2> QED BY <2>1, <2>2
<1>6. f[0] = s
  <2>1. 0 \in 0..n
    OBVIOUS
  <2> HIDE DEF next
  <2> QED BY <1>4, <2>1, Zenon
<1> HIDE DEF next
<1>7. IsDescent(f, s)
  <2>1. \A k \in 0..n : f[k] = IF k = 0 THEN s ELSE Descend(f[k-1])
    BY <1>5, <1>6
  <2>2. f = [k \in 0..n |-> IF k = 0 THEN s ELSE Descend(f[k-1])]
    BY <1>3, <2>1 DEF IsLoop
  <2> QED BY <1>1, <2>2 DEF IsDescent
<1> DEFINE at == CHOOSE g : IsDescent(g, s)
<1>8. IsDescent(at, s)
  BY <1>7, Zenon
<1>9. SiftDownToBottom(s) = at[n]
  BY <1>1 DEF SiftDownToBottom, IsDescent
<1> HIDE DEF at
<1>10. at[0] = s /\ \A k \in 1..n : at[k] = Descend(at[k-1])
  BY <1>1, <1>8 DEF IsDescent
<1>11. SameSteps(f, at, n)
  BY <1>5, <1>6, <1>10 DEF SameSteps
<1>12. f[n] = at[n]
  BY <1>11, Alike DEF SameValues
<1> QED BY <1>4, <1>5, <1>6, <1>9, <1>12 DEF W

\* The hole is at the bottom, so that whatever fills it covers what is below.
LEMMA SiftDownHeap ==
  ASSUME NEW V, Timed(V), NEW n \in Nat, NEW s \in Holed(V, n), NEW R,
         Holds(s, n, R), OrderedOff(s, n)
  PROVE  LET t == SiftDownToBottom(s)
         IN  t \in Holed(V, n) /\ Holds(t, n, R) /\ OrderedOff(t, n) /\ 2 * t.hole > n
<1>1. PICK f : /\ f \in [0..n -> Holed(V, n)]
               /\ f[0] = s /\ \A k \in 1..n : f[k] = Descend(f[k-1])
               /\ SiftDownToBottom(s) = f[n]
  BY DescentDef
<1> DEFINE Good(t) == Holds(t, n, R) /\ OrderedOff(t, n)
           S == {k \in Nat : k <= n => /\ Good(f[k])
                                       /\ 2 * f[k].hole > n \/ f[k].hole > k}
<1>2. s.hole \in 1..n
  BY HoledLen
<1>3. 0 \in S
  BY <1>1, <1>2
<1>4. ASSUME NEW k \in Nat, k \in S PROVE k+1 \in S
  <2> SUFFICES ASSUME k+1 <= n
               PROVE  Good(f[k+1]) /\ (2 * f[k+1].hole > n \/ f[k+1].hole > k+1)
    OBVIOUS
  <2>1. /\ k \in 0..n /\ k+1 \in 0..n /\ k+1 \in 1..n /\ (k+1)-1 = k
    OBVIOUS
  <2>2. f[k] \in Holed(V, n) /\ f[k+1] \in Holed(V, n) /\ f[k+1] = Descend(f[k])
    BY <1>1, <2>1
  <2>3. Good(f[k]) /\ (2 * f[k].hole > n \/ f[k].hole > k)
    BY <1>4, <2>1
  <2>4. /\ Good(f[k+1])
        /\ 2 * f[k].hole > n => f[k+1] = f[k]
        /\ ~(2 * f[k].hole > n) => f[k+1].hole > f[k].hole
    BY <2>2, <2>3, DescendStep
  <2>5. f[k].hole \in 1..n /\ f[k+1].hole \in 1..n
    BY <2>2, HoledLen
  <2>6. CASE 2 * f[k].hole > n
    BY <2>4, <2>6
  <2>7. CASE ~(2 * f[k].hole > n)
    <3>1. f[k+1].hole > k+1
      BY <2>3, <2>4, <2>5, <2>7
    <3> QED BY <2>4, <3>1
  <2> QED BY <2>6, <2>7
<1>5. Nat \subseteq S
  <2> HIDE DEF S
  <2> QED BY <1>3, <1>4, Induction
<1>6. f[n] \in Holed(V, n) /\ Good(f[n]) /\ (2 * f[n].hole > n \/ f[n].hole > n)
  <2> HIDE DEF Good
  <2> QED BY <1>1, <1>5
<1>7. f[n].hole \in 1..n
  BY <1>6, HoledLen
<1> HIDE DEF S
<1> QED BY <1>1, <1>6, <1>7

-----------------------------------------------------------------------------
(* The operations of the heap                                              *)

\* Each event once, and none before the one above it.
IsHeap(h) ==
  /\ h \in Seq(Seqs!ToSet(h)) /\ Timed(Seqs!ToSet(h))
  /\ Ordered(h) /\ Once(h)

LEMMA Elements ==
  ASSUME NEW V, NEW h \in Seq(V)
  PROVE  /\ Seqs!ToSet(h) \subseteq V /\ Len(h) \in Nat /\ DOMAIN h = 1..Len(h)
         /\ Seqs!ToSet(h) = {h[i] : i \in 1..Len(h)}
         /\ h \in [1..Len(h) -> V] /\ h \in Seq(Seqs!ToSet(h))
BY DEF Seqs!ToSet

\* A sequence of V that is in order is a heap.
LEMMA HeapOf ==
  ASSUME NEW V, Timed(V), NEW h \in Seq(V), Ordered(h), Once(h)
  PROVE  IsHeap(h)
BY Elements DEF IsHeap, Timed

LEMMA FirstLeast ==
  ASSUME NEW h, IsHeap(h), h # <<>>
  PROVE  h[1] \in Seqs!ToSet(h) /\ \A e \in Seqs!ToSet(h) : ~Before(e, h[1])
<1> DEFINE V == Seqs!ToSet(h)
           n == Len(h)
<1>1. h \in Seq(V) /\ Timed(V) /\ Ordered(h) /\ V = {h[i] : i \in 1..n} /\ n \in Nat /\ n >= 1
  BY Elements DEF IsHeap
<1> HIDE DEF V, n
<1>2. 1 \in 1..n /\ \A i \in 1..n : h[i] \in V /\ h[i].time \in Nat /\ Rank(h[i]) \in Nat
  <2>1. \A i \in 1..n : h[i] \in V /\ h[i].time \in Nat
    BY <1>1 DEF Timed
  <2>2. \A i \in 1..n : Rank(h[i]) \in Nat
    <3> SUFFICES ASSUME NEW i \in 1..n PROVE Rank(h[i]) \in Nat
      OBVIOUS
    <3> DEFINE e == h[i]
    <3>1. e.time \in Nat
      BY <2>1
    <3> HIDE DEF e
    <3>2. Rank(e) \in Nat
      BY <3>1, BeforeRank
    <3> QED BY <3>2 DEF e
  <2>3. 1 \in 1..n
    BY <1>1
  <2> QED BY <2>1, <2>2, <2>3
<1> DEFINE S == {k \in Nat : \A i \in 1..n : i <= k => Rank(h[1]) <= Rank(h[i])}
<1>3. 0 \in S
  OBVIOUS
<1>4. ASSUME NEW k \in Nat, k \in S PROVE k+1 \in S
  <2> SUFFICES ASSUME NEW i \in 1..n, i <= k+1 PROVE Rank(h[1]) <= Rank(h[i])
    OBVIOUS
  <2>1. CASE i = 1
    BY <1>2, <2>1
  <2>2. CASE i # 1
    <3>1. i \in 2..n
      BY <1>1, <2>2
    <3>2. Parent(i) \in 1..n /\ Parent(i) < i
      BY <1>1, <3>1, ParentIn
    <3>3. Rank(h[Parent(i)]) <= Rank(h[i])
      BY <1>1, <3>1 DEF Ordered, n
    <3>4. Rank(h[1]) <= Rank(h[Parent(i)])
      <4>1. Parent(i) <= k
        BY <1>1, <3>1, <3>2
      <4> QED BY <1>4, <3>2, <4>1
    <3> QED BY <1>2, <3>1, <3>2, <3>3, <3>4
  <2> QED BY <2>1, <2>2
<1>5. Nat \subseteq S
  <2> HIDE DEF S
  <2> QED BY <1>3, <1>4, Induction
<1>6. \A i \in 1..n : Rank(h[1]) <= Rank(h[i])
  BY <1>1, <1>5
<1>7. ASSUME NEW i \in 1..n PROVE ~Before(h[i], h[1])
  <2>1. Before(h[i], h[1]) <=> Rank(h[i]) < Rank(h[1])
    BY <1>2, BeforeRank
  <2> QED BY <1>2, <1>6, <2>1
<1> QED BY <1>1, <1>2, <1>7 DEF V

LEMMA AppendHole ==
  ASSUME NEW V, NEW h \in Seq(V), NEW e \in V
  PROVE  LET n == Len(h) + 1
             s == [heap |-> Append(h, e), hole |-> n]
         IN  n \in Nat /\ s \in Holed(V, n) /\ s.hole = n /\ \A i \in 1..Len(h) : s.heap[i] = h[i]
<1>1. Append(h, e) \in Seq(V) /\ Len(Append(h, e)) = Len(h) + 1 /\ Len(h) \in Nat
  OBVIOUS
<1>2. \A i \in 1..Len(h) : Append(h, e)[i] = h[i]
  OBVIOUS
<1>3. Append(h, e) \in [1..(Len(h) + 1) -> V]
  <2> DEFINE a == Append(h, e)
  <2>1. a \in Seq(V) /\ Len(a) = Len(h) + 1
    BY <1>1
  <2> HIDE DEF a
  <2>2. a \in [1..Len(a) -> V]
    BY <2>1, Elements
  <2>3. a \in [1..(Len(h) + 1) -> V]
    BY <2>1, <2>2
  <2> QED BY <2>3 DEF a
<1> QED BY <1>1, <1>2, <1>3 DEF Holed

LEMMA PushType ==
  ASSUME NEW V, Timed(V), NEW h \in Seq(V), NEW e \in V
  PROVE  Push(h, e) \in Seq(V)
<1> DEFINE n == Len(h) + 1
           s == [heap |-> Append(h, e), hole |-> n]
<1>1. n \in Nat /\ s \in Holed(V, n)
  BY AppendHole
<1>2. Push(h, e) = SiftUp(s, e)
  BY DEF Push
<1> HIDE DEF n, s
<1>3. PICK f : f \in [0..n -> Holed(V, n)] /\ SiftUp(s, e) = Filled(f[n], e)
  BY <1>1, ClimbDef
<1>4. f[n] \in Holed(V, n)
  BY <1>1, <1>3
<1>5. Filled(f[n], e) \in [1..n -> V]
  <2> DEFINE t == f[n]
  <2>1. t.heap \in [1..n -> V]
    <3>1. t \in Holed(V, n)
      BY <1>4
    <3> HIDE DEF t
    <3> QED BY <1>1, <3>1, HoledLen
  <2> HIDE DEF t
  <2>2. Filled(t, e) \in [1..n -> V]
    BY <2>1 DEF Filled
  <2> QED BY <2>2 DEF t
<1> QED BY <1>1, <1>2, <1>3, <1>5

LEMMA PushHeap ==
  ASSUME NEW h, IsHeap(h), NEW e, e.time \in Nat, e \notin Seqs!ToSet(h)
  PROVE  IsHeap(Push(h, e)) /\ Seqs!ToSet(Push(h, e)) = Seqs!ToSet(h) \cup {e}
<1> DEFINE R == Seqs!ToSet(h)
           V == R \cup {e}
           n == Len(h) + 1
           s == [heap |-> Append(h, e), hole |-> n]
<1>1. /\ h \in Seq(R) /\ h \in Seq(V) /\ e \in V /\ Timed(V) /\ R = {h[i] : i \in 1..Len(h)}
      /\ Len(h) \in Nat /\ DOMAIN h = 1..Len(h)
  BY Elements DEF IsHeap, Timed
<1>2. /\ n \in Nat /\ s \in Holed(V, n) /\ s.hole = n /\ (1..n) \ {n} = 1..Len(h)
      /\ \A i \in 1..Len(h) : s.heap[i] = h[i]
  <2> HIDE DEF R
  <2> QED BY <1>1, AppendHole
<1>3. Push(h, e) = SiftUp(s, e)
  BY DEF Push
<1> HIDE DEF V, R, s
<1>4. Holds(s, n, R)
  <2>1. ASSUME NEW i \in 1..n, NEW j \in 1..n, i # s.hole, j # s.hole, s.heap[i] = s.heap[j]
        PROVE  i = j
    <3>1. i \in 1..Len(h) /\ j \in 1..Len(h)
      BY <1>2, <2>1
    <3>2. h[i] = h[j]
      BY <1>2, <2>1, <3>1
    <3> QED BY <1>1, <3>1, <3>2 DEF IsHeap, Once
  <2>2. R = {s.heap[i] : i \in (1..n) \ {s.hole}}
    BY <1>1, <1>2
  <2> QED BY <2>1, <2>2 DEF Holds
<1>5. \A i \in 2..n : Parent(i) \in 1..n /\ Parent(i) < i /\ i <= n
  <2>1. n \in Nat
    BY <1>2
  <2> HIDE DEF n
  <2> QED BY <2>1, ParentIn
<1>6. \A i \in 2..n : Parent(i) # s.hole
  BY <1>1, <1>2, <1>5
<1>7. ASSUME NEW i \in 2..n, i # s.hole PROVE Rank(s.heap[Parent(i)]) <= Rank(s.heap[i])
  <2>1. i \in 2..Len(h) /\ i \in 1..Len(h) /\ Parent(i) \in 1..Len(h)
    BY <1>1, <1>2, <1>5, <1>7
  <2>2. Rank(h[Parent(i)]) <= Rank(h[i])
    BY <2>1 DEF IsHeap, Ordered
  <2> QED BY <1>2, <2>1, <2>2
<1>8. OrderedOff(s, n) /\ Covers(e, s, n)
  BY <1>6, <1>7 DEF OrderedOff, Covers
<1>9. e \notin R
  BY DEF R
<1> HIDE DEF n
<1>10. /\ SiftUp(s, e) \in Seq(V) /\ Ordered(SiftUp(s, e)) /\ Once(SiftUp(s, e))
       /\ Seqs!ToSet(SiftUp(s, e)) = R \cup {e}
  BY <1>1, <1>2, <1>4, <1>8, <1>9, SiftUpHeap
<1>11. IsHeap(SiftUp(s, e))
  BY <1>1, <1>10, HeapOf
<1> QED BY <1>3, <1>10, <1>11 DEF R

LEMMA PopHeap ==
  ASSUME NEW h, IsHeap(h), h # <<>>
  PROVE  IsHeap(Pop(h)) /\ Seqs!ToSet(Pop(h)) = Seqs!ToSet(h) \ {h[1]}
<1> DEFINE V == Seqs!ToSet(h)
           n == Len(h) - 1
           rest == Seqs!Front(h)
           e == h[Len(h)]
           s == [heap |-> rest, hole |-> 1]
<1>1. /\ h \in Seq(V) /\ Timed(V) /\ V = {h[i] : i \in 1..Len(h)}
      /\ Len(h) \in Nat \ {0} /\ DOMAIN h = 1..Len(h) /\ n \in Nat /\ Len(h) = n + 1
  <2>1. /\ h \in Seq(V) /\ Timed(V) /\ V = {h[i] : i \in 1..Len(h)}
        /\ Len(h) \in Nat /\ DOMAIN h = 1..Len(h)
    BY Elements DEF IsHeap
  <2>2. Len(h) # 0
    BY <2>1
  <2> HIDE DEF V
  <2> QED BY <2>1, <2>2
<1>2. rest \in Seq(V) /\ Len(rest) = n /\ \A i \in 1..n : rest[i] = h[i]
  <2> HIDE DEF V
  <2> QED BY <1>1 DEF Seqs!Front
<1>3. \A i, j \in 1..Len(h) : h[i] = h[j] => i = j
  BY <1>1 DEF IsHeap, Once
<1> HIDE DEF V, rest
<1>4. CASE rest = <<>>
  <2>1. n = 0 /\ Len(h) = 1
    <3>1. n = 0
      <4>1. Len(rest) = 0
        BY <1>4
      <4> HIDE DEF n
      <4> QED BY <1>2, <4>1
    <3> HIDE DEF n
    <3> QED BY <1>1, <3>1
  <2>2. Pop(h) = <<>>
    BY <1>4 DEF Pop, rest
  <2>3. V = {h[1]}
    BY <1>1, <2>1
  <2>4. Seqs!ToSet(<<>>) = {} /\ <<>> \in Seq({}) /\ Len(<<>>) = 0
    BY DEF Seqs!ToSet
  <2>5. Once(<<>>) /\ Ordered(<<>>) /\ Timed({})
    BY <2>4 DEF Once, Ordered, Timed
  <2> QED BY <2>2, <2>3, <2>4, <2>5 DEF IsHeap, V
<1>5. CASE rest # <<>>
  <2> DEFINE R == {h[i] : i \in 2..n}
  <2>1. n >= 1 /\ rest \in [1..n -> V]
    BY <1>1, <1>2, <1>5, SMTT(30)
  <2>2. s \in Holed(V, n) /\ s.hole = 1 /\ s.heap = rest
    BY <2>1 DEF Holed
  <2>3. Pop(h) = SiftUp(SiftDownToBottom(s), e)
    BY <1>5 DEF Pop, rest
  <2>4. e \in V /\ e \notin R
    <3>1. Len(h) \in 1..Len(h) /\ \A i \in 2..n : i \in 1..Len(h) /\ i # Len(h)
      <4> HIDE DEF n
      <4> QED BY <1>1
    <3> QED BY <1>1, <1>3, <3>1
  <2>5. Holds(s, n, R)
    <3>1. \A i \in 1..n : i # 1 => i \in 2..n
      BY <1>1
    <3>2. (1..n) \ {1} = 2..n
      BY <1>1, <3>1
    <3>3. \A i \in 2..n : rest[i] = h[i]
      BY <1>2
    <3>4. ASSUME NEW i \in 1..n, NEW j \in 1..n, rest[i] = rest[j] PROVE i = j
      <4>1. h[i] = h[j] /\ i \in 1..Len(h) /\ j \in 1..Len(h)
        BY <1>1, <1>2, <3>4
      <4> QED BY <1>3, <4>1
    <3> QED BY <2>2, <3>2, <3>3, <3>4 DEF Holds
  <2>6. OrderedOff(s, n)
    <3>1. \A i \in 2..n : Parent(i) \in 1..n
      BY <1>1, ParentIn
    <3>2. ASSUME NEW i \in 2..n PROVE Rank(rest[Parent(i)]) <= Rank(rest[i])
      <4>1. i \in 2..Len(h) /\ i \in 1..n
        BY <1>1
      <4>2. Rank(h[Parent(i)]) <= Rank(h[i])
        BY <4>1 DEF IsHeap, Ordered
      <4> QED BY <1>2, <3>1, <4>1, <4>2
    <3> QED BY <2>2, <3>2 DEF OrderedOff
  <2> DEFINE t == SiftDownToBottom(s)
  <2> HIDE DEF s, R, n, e
  <2>7. t \in Holed(V, n) /\ Holds(t, n, R) /\ OrderedOff(t, n) /\ 2 * t.hole > n
    BY <1>1, <2>2, <2>5, <2>6, SiftDownHeap
  <2>8. Covers(e, t, n)
    <3>1. t.hole \in 1..n
      BY <1>1, <2>7, HoledLen
    <3> HIDE DEF t
    <3>2. ASSUME NEW i \in 2..n PROVE Parent(i) # t.hole
      <4>1. i \in Nat \ {0} /\ i <= n
        BY <1>1
      <4>2. Parent(i) \in Nat /\ 2 * Parent(i) <= i
        BY <4>1, Parents
      <4> QED BY <1>1, <2>7, <3>1, <4>1, <4>2
    <3> QED BY <3>2 DEF Covers
  <2> HIDE DEF t
  <2>9. /\ SiftUp(t, e) \in Seq(V) /\ Ordered(SiftUp(t, e)) /\ Once(SiftUp(t, e))
        /\ Seqs!ToSet(SiftUp(t, e)) = R \cup {e}
    BY <1>1, <2>4, <2>7, <2>8, SiftUpHeap
  <2>10. IsHeap(SiftUp(t, e))
    BY <1>1, <2>9, HeapOf
  <2>11. R \cup {e} = V \ {h[1]}
    <3>1. \A i \in 1..Len(h) : i # 1 => i \in 2..n \/ i = Len(h)
      BY <1>1
    <3>2. 1 \in 1..Len(h) /\ Len(h) # 1
      BY <1>1, <2>1
    <3>3. ASSUME NEW x \in V, x # h[1] PROVE x \in R \cup {e}
      BY <1>1, <3>1, <3>3 DEF R, e
    <3>4. ASSUME NEW i \in 2..n PROVE h[i] \in V /\ h[i] # h[1]
      <4>1. i \in 1..Len(h) /\ i # 1
        BY <1>1
      <4> QED BY <1>1, <1>3, <3>2, <4>1
    <3>5. e \in V /\ e # h[1]
      BY <1>1, <1>3, <3>2 DEF e
    <3> QED BY <3>3, <3>4, <3>5 DEF R
  <2> QED BY <2>3, <2>9, <2>10, <2>11 DEF t, V
<1> QED BY <1>4, <1>5

\* The events of new are pushed in turn.
LEMMA PushAllHeap ==
  ASSUME NEW h, IsHeap(h), NEW X, Timed(X), NEW new \in Seq(X), Once(new),
         \A i \in DOMAIN new : new[i] \notin Seqs!ToSet(h)
  PROVE  /\ IsHeap(PushAll(h, new))
         /\ Seqs!ToSet(PushAll(h, new)) = Seqs!ToSet(h) \cup Seqs!ToSet(new)
<1> DEFINE R == Seqs!ToSet(h)
           V == R \cup X
           N == Len(new)
           W == Seq(V)
           step == [n \in 1..N |-> [t \in W |-> Push(t, new[n])]]
           Is(f) == f = [n \in 0..N |-> IF n = 0 THEN h ELSE Push(f[n-1], new[n])]
           at == CHOOSE f : Is(f)
           Pushed(k) == {new[i] : i \in 1..k}
<1>1. /\ N \in Nat /\ DOMAIN new = 1..N /\ \A n \in 1..N : new[n] \in X /\ new[n].time \in Nat
      /\ Seqs!ToSet(new) = {new[i] : i \in 1..N}
  BY Elements DEF Timed
<1>2. h \in Seq(R) /\ Timed(R)
  BY DEF IsHeap
<1>3. Timed(V) /\ h \in W
  <2> HIDE DEF R
  <2> QED BY <1>2 DEF Timed
<1>4. step \in [1..N -> [W -> W]]
  <2> SUFFICES ASSUME NEW n \in 1..N, NEW t \in W PROVE Push(t, new[n]) \in W
    OBVIOUS
  <2>1. new[n] \in V
    BY <1>1
  <2> HIDE DEF V
  <2> QED BY <1>3, <2>1, PushType
<1>5. PICK f : f \in Folds(N, W, h, step)
  <2> HIDE DEF step, N, W
  <2>1. N \in Nat /\ h \in W /\ step \in [1..N -> [W -> W]]
    BY <1>1, <1>3, <1>4
  <2>2. \A x \in W : Folds(N, W, x, step) # {}
    BY <2>1, FoldExists, Zenon
  <2> QED BY <2>1, <2>2
<1>6. /\ f \in [0..N -> W] /\ f[0] = h
      /\ \A n \in 1..N : f[n] = Push(f[n-1], new[n])
  <2>1. f \in [0..N -> W] /\ f[0] = h /\ \A n \in 1..N : f[n] = step[n][f[n-1]]
    BY <1>5 DEF Folds
  <2>2. ASSUME NEW n \in 1..N PROVE f[n] = Push(f[n-1], new[n])
    <3>1. f[n-1] \in W
      <4>1. n-1 \in 0..N
        BY <1>1
      <4> HIDE DEF step, W
      <4> QED BY <2>1, <4>1
    <3>2. step[n][f[n-1]] = Push(f[n-1], new[n])
      <4> HIDE DEF W
      <4> QED BY <3>1
    <3> QED BY <2>1, <3>2
  <2> QED BY <2>1, <2>2
<1> HIDE DEF step, W, V, R
<1>7. Is(f)
  <2>1. \A n \in 0..N : f[n] = IF n = 0 THEN h ELSE Push(f[n-1], new[n])
    BY <1>1, <1>6
  <2> HIDE DEF N
  <2> QED BY <1>6, <2>1
<1>8. Is(at)
  <2> HIDE DEF Is
  <2> QED BY <1>7, Zenon
<1>9. PushAll(h, new) = at[N]
  BY DEF PushAll
<1> HIDE DEF at
<1>10. at[0] = h /\ \A n \in 1..N : at[n] = Push(at[n-1], new[n])
  <2> HIDE DEF N
  <2> QED BY <1>1, <1>8
<1> HIDE DEF N, Is
<1> DEFINE Good(t, k) == IsHeap(t) /\ Seqs!ToSet(t) = R \cup Pushed(k)
           S == {k \in Nat : k <= N => Good(at[k], k)}
<1>11. 0 \in S
  BY <1>10 DEF R
<1>12. ASSUME NEW k \in Nat, k \in S PROVE k+1 \in S
  <2> SUFFICES ASSUME k+1 <= N PROVE Good(at[k+1], k+1)
    OBVIOUS
  <2>1. k+1 \in 1..N /\ (k+1)-1 = k /\ k <= N /\ \A i \in 1..k : i \in 1..N /\ i # k+1
    BY <1>1
  <2> DEFINE t == at[k]
             e == new[k+1]
  <2>2. Good(t, k)
    BY <1>12, <2>1
  <2>3. at[k+1] = Push(t, e)
    BY <1>10, <2>1
  <2>4. e.time \in Nat /\ e \notin R \cup Pushed(k)
    <3>1. e \notin R
      BY <1>1, <2>1 DEF R
    <3>2. \A i \in 1..k : new[i] # e
      BY <1>1, <2>1 DEF Once
    <3> QED BY <1>1, <2>1, <3>1, <3>2
  <2>5. Pushed(k+1) = Pushed(k) \cup {e}
    <3>1. 1..(k+1) = (1..k) \cup {k+1}
      OBVIOUS
    <3> QED BY <3>1
  <2> HIDE DEF t, e, Pushed
  <2>6. IsHeap(Push(t, e)) /\ Seqs!ToSet(Push(t, e)) = Seqs!ToSet(t) \cup {e}
    BY <2>2, <2>4, PushHeap
  <2> QED BY <2>2, <2>3, <2>5, <2>6
<1>13. Nat \subseteq S
  <2> HIDE DEF S
  <2> QED BY <1>11, <1>12, Induction
<1>14. Good(at[N], N)
  <2> HIDE DEF Good
  <2> QED BY <1>1, <1>13
<1> QED BY <1>1, <1>9, <1>14 DEF R, N

-----------------------------------------------------------------------------
(* The invariant.  What it says of events, it says of the set of those     *)
(* that are pending.                                                       *)

Operation == Clients \X Nat

Pending == Seqs!ToSet(events)

Locals    == {e \in Pending : e.kind = "Local"}
Joiners   == {e \in Pending : e.kind = "LateJoiner"}
Snapshots == {e \in Pending : e.kind = "Snapshot"}
Requests  == {e \in Pending : e.kind = "Remote" /\ e.dest = Server}
Updates   == {e \in Pending : e.kind = "Remote" /\ e.dest # Server}

Joined    == components \ {Server}
Logged    == Seqs!ToSet(log)
Bridge(c) == Seqs!ToSet(clientBridge[c])

\* The operations of the first n states.
Upto(n) == {log[i] : i \in 1..n}

\* The edits of c, and those that have not happened.
Named(c)     == {c} \X (1..edits[c])
Scheduled(c) == {e.op : e \in {f \in Locals : f.dest = c}}

\* c is to get a snapshot, and an update to state n.
Starts(c)   == \E s \in Snapshots : s.dest = c
Told(c, n)  == \E e \in Updates : e.dest = c /\ e.state = n

Types ==
  /\ networkState \in {"Initializing", "Running", "Stopped"}
  /\ tickTime \in Nat \cup {NoTime} /\ clock \in Nat
  /\ components \subseteq Clients \cup {Server}
  /\ clientIds \in Seq(Clients) /\ Once(clientIds) /\ Seqs!ToSet(clientIds) = Joined
  /\ delay \in [Clients -> [toServer : Nat, toClient : Nat]]
  /\ edits \in [Clients -> Nat] /\ lastServerStateId \in [Clients -> Nat]
  /\ clientBridge \in [Clients -> Seq(Operation)] /\ log \in Seq(Operation)
  /\ document \in [Clients -> SUBSET Operation]

\* Nothing is sent to or from a client that is not there.
Placed ==
  /\ \A e \in Pending :
       e.time \in Nat /\ e.kind \in {"Local", "LateJoiner", "Snapshot", "Remote"}
  /\ \A e \in Locals : e.dest \in Joined /\ e.op \in Named(e.dest)
  /\ \A e \in Joiners : e.dest \in Clients \ components
  /\ \A e \in Snapshots : e.dest \in Joined
  /\ \A e \in Requests : e.source \in Joined
  /\ \A e \in Updates : e.dest \in Joined

Singles ==
  /\ \A e, f \in Locals : e.op = f.op => e = f
  /\ \A e, f \in Joiners : e.dest = f.dest => e = f
  /\ \A e, f \in Snapshots : e.dest = f.dest => e = f
  /\ \A e, f \in Requests : e.source = f.source => e = f
  /\ \A e, f \in Updates : e.dest = f.dest /\ e.state = f.state => e = f

\* Between two runs nothing is on its way but the first snapshots.
AtRest ==
  tickTime = NoTime => /\ Requests = {} /\ Updates = {}
                       /\ \A s \in Snapshots : s.time = 0
                       /\ networkState = "Initializing" => clock = 0

\* Nothing pending is late, nor later than what is sent now.
InTime ==
  tickTime # NoTime =>
    /\ \A e \in Pending : e.time >= tickTime
    /\ \A e \in Snapshots \cup Updates : e.time <= tickTime + delay[e.dest].toClient

\* The snapshot of a client is the first that happens to it.
SnapshotFirst ==
  \A s \in Snapshots : \A e \in Locals \cup Updates : s.dest = e.dest => s.time <= e.time

\* Updates arrive in the order of the states.
InOrder ==
  ~tied => \A e, f \in Updates : e.dest = f.dest /\ e.state < f.state => e.time < f.time

\* Where the edits are: to be made, in the bridge or at the server.
Accounted ==
  \A c \in Clients : Named(c) = Scheduled(c) \cup Bridge(c) \cup {op \in Logged : op[1] = c}

\* Only the first in the bridge may be at the server.
Fresh ==
  /\ Once(log)
  /\ \A c \in Clients :
       /\ Once(clientBridge[c])
       /\ Scheduled(c) \cap Logged = {} /\ Scheduled(c) \cap Bridge(c) = {}
       /\ \A op \in Bridge(c) : op # Head(clientBridge[c]) => op \notin Logged

\* What c has not seen of its own is the first in the bridge.
Returning ==
  \A c \in Clients : \A n \in 1..Len(log) :
    log[n][1] = c /\ n > lastServerStateId[c] =>
      clientBridge[c] # <<>> /\ log[n] = Head(clientBridge[c])

\* The first in the bridge is on its way to the server or back.
Sent ==
  \A c \in Clients : clientBridge[c] # <<>> =>
    \/ \E e \in Requests : e.source = c
    \/ \E n \in 1..Len(log) : n > lastServerStateId[c] /\ log[n] = Head(clientBridge[c])

Requested ==
  \A e \in Requests :
    /\ clientBridge[e.source] # <<>> /\ e.op = Head(clientBridge[e.source])
    /\ e.op \notin Logged
    /\ e.state \in Nat /\ e.state <= Len(log)

Numbered ==
  \A e \in Updates : /\ e.state \in 1..Len(log) /\ e.op = log[e.state]
                     /\ e.state > lastServerStateId[e.dest]

\* A client whose snapshot is pending has done nothing, and is told what is later.
Starting ==
  \A s \in Snapshots :
    /\ lastServerStateId[s.dest] = 0 /\ clientBridge[s.dest] = <<>>
    /\ s.state \in 0..Len(log) /\ s.document = Upto(s.state)
    /\ \A n \in (s.state + 1)..Len(log) : Told(s.dest, n)
    /\ \A e \in Updates : e.dest = s.dest => e.state > s.state

\* Another one has what the server had at its state, and its bridge.
Following ==
  \A c \in Joined : ~Starts(c) =>
    /\ lastServerStateId[c] <= Len(log)
    /\ document[c] = Upto(lastServerStateId[c]) \cup Bridge(c)
    /\ \A n \in (lastServerStateId[c] + 1)..Len(log) : Told(c, n)

Absent ==
  \A c \in Clients \ components : lastServerStateId[c] = 0 /\ clientBridge[c] = <<>>

EventInv == Placed /\ Singles /\ AtRest /\ InTime /\ SnapshotFirst /\ InOrder
OpInv    == Accounted /\ Fresh /\ Returning /\ Sent /\ Requested
StateInv == Numbered /\ Starting /\ Following /\ Absent

NetworkInv == IsHeap(events) /\ Types /\ EventInv /\ OpInv /\ StateInv

IInv == IF panicked THEN tied ELSE NetworkInv

-----------------------------------------------------------------------------
(* Sequences, and what is pending after a step                             *)

LEMMA AppendSet ==
  ASSUME NEW T, NEW q \in Seq(T), NEW x \in T
  PROVE  /\ Append(q, x) \in Seq(T) /\ Append(q, x) # <<>>
         /\ Len(Append(q, x)) = Len(q) + 1 /\ Append(q, x)[Len(q) + 1] = x
         /\ \A i \in 1..Len(q) : Append(q, x)[i] = q[i]
         /\ Seqs!ToSet(Append(q, x)) = Seqs!ToSet(q) \cup {x}
         /\ Once(q) /\ x \notin Seqs!ToSet(q) => Once(Append(q, x))
         /\ Head(Append(q, x)) = IF q = <<>> THEN x ELSE Head(q)
<1> DEFINE a == Append(q, x)
           n == Len(q)
<1>1. /\ a \in Seq(T) /\ a # <<>> /\ n \in Nat /\ Len(a) = n + 1 /\ a[n + 1] = x
      /\ \A i \in 1..n : a[i] = q[i]
  BY AppendProperties, LenProperties
<1>2. Head(a) = a[1] /\ (q # <<>> => Head(q) = q[1] /\ 1 \in 1..n) /\ (q = <<>> => n = 0)
  <2>1. q # <<>> => n # 0
    OBVIOUS
  <2>2. q # <<>> => 1 \in 1..n
    <3> HIDE DEF n
    <3> QED BY <1>1, <2>1
  <2> QED BY <1>1, <2>2
<1>3. Seqs!ToSet(q) = {q[i] : i \in 1..n} /\ DOMAIN q = 1..n
  BY Elements
<1>4. Seqs!ToSet(a) = {a[i] : i \in 1..(n + 1)} /\ DOMAIN a = 1..(n + 1)
  <2>1. Seqs!ToSet(a) = {a[i] : i \in 1..Len(a)} /\ DOMAIN a = 1..Len(a)
    <3> HIDE DEF a
    <3> QED BY <1>1, Elements
  <2> QED BY <1>1, <2>1
<1> HIDE DEF a, n
<1>5. 1..(n + 1) = (1..n) \cup {n + 1}
  BY <1>1
<1>6. Seqs!ToSet(a) = Seqs!ToSet(q) \cup {x}
  BY <1>1, <1>3, <1>4, <1>5
<1>7. ASSUME Once(q), x \notin Seqs!ToSet(q) PROVE Once(a)
  <2> SUFFICES ASSUME NEW i \in 1..(n + 1), NEW j \in 1..(n + 1), a[i] = a[j] PROVE i = j
    BY <1>4 DEF Once
  <2>1. \A k \in 1..n : a[k] # x
    BY <1>1, <1>3, <1>7
  <2>2. CASE i \in 1..n /\ j \in 1..n
    BY <1>1, <1>3, <1>7, <2>2 DEF Once
  <2>3. CASE ~(i \in 1..n /\ j \in 1..n)
    BY <1>1, <1>5, <2>1, <2>3
  <2> QED BY <2>2, <2>3
<1>8. Head(a) = IF q = <<>> THEN x ELSE Head(q)
  BY <1>1, <1>2
<1> QED BY <1>1, <1>6, <1>7, <1>8 DEF a, n

LEMMA TailSet ==
  ASSUME NEW T, NEW q \in Seq(T), q # <<>>, Once(q)
  PROVE  /\ Tail(q) \in Seq(T) /\ Once(Tail(q))
         /\ Head(q) \in Seqs!ToSet(q)
         /\ Seqs!ToSet(Tail(q)) = Seqs!ToSet(q) \ {Head(q)}
<1> DEFINE a == Tail(q)
           n == Len(q)
           m == n - 1
<1>1. a \in Seq(T) /\ n \in Nat /\ n # 0 /\ Len(a) = n - 1 /\ Head(q) = q[1]
  OBVIOUS
<1>2. \A i \in 1..m : a[i] = q[i + 1]
  OBVIOUS
<1>3. Seqs!ToSet(q) = {q[i] : i \in 1..n} /\ DOMAIN q = 1..n
  BY Elements
<1>4. Seqs!ToSet(a) = {a[i] : i \in 1..m} /\ DOMAIN a = 1..m
  <2>1. Seqs!ToSet(a) = {a[i] : i \in 1..Len(a)} /\ DOMAIN a = 1..Len(a)
    <3> HIDE DEF a
    <3> QED BY <1>1, Elements
  <2> QED BY <1>1, <2>1
<1>5. \A i, j \in 1..n : q[i] = q[j] => i = j
  BY <1>3 DEF Once
<1>6. n \in Nat /\ m \in Nat /\ n = m + 1
  BY <1>1
<1> HIDE DEF a, n, m
<1>7. \A i \in 1..m : i + 1 \in 1..n /\ i + 1 # 1
  BY <1>6
<1>8. 1 \in 1..n
  BY <1>6
<1>9. Once(a)
  <2> SUFFICES ASSUME NEW i \in 1..m, NEW j \in 1..m, a[i] = a[j] PROVE i = j
    BY <1>4 DEF Once
  <2>1. q[i + 1] = q[j + 1]
    BY <1>2
  <2>2. i + 1 = j + 1
    BY <1>5, <1>7, <2>1
  <2> QED BY <2>2
<1>10. ASSUME NEW i \in 1..n, q[i] # q[1] PROVE q[i] \in {a[k] : k \in 1..m}
  <2>1. i - 1 \in 1..m /\ (i - 1) + 1 = i
    BY <1>6, <1>10
  <2> QED BY <1>2, <2>1
<1>11. \A i \in 1..m : a[i] \in Seqs!ToSet(q) /\ a[i] # q[1]
  BY <1>2, <1>3, <1>5, <1>7, <1>8
<1>12. Head(q) \in Seqs!ToSet(q)
  BY <1>1, <1>3, <1>8
<1>13. Seqs!ToSet(a) = Seqs!ToSet(q) \ {q[1]}
  BY <1>3, <1>4, <1>10, <1>11
<1> QED BY <1>1, <1>9, <1>12, <1>13 DEF a

\* Each kind of event goes its own way.
LEMMA Split ==
  ASSUME NEW D, NEW N, Pending' = (Pending \ D) \cup N
  PROVE  /\ Locals' = (Locals \ D) \cup {e \in N : e.kind = "Local"}
         /\ Joiners' = (Joiners \ D) \cup {e \in N : e.kind = "LateJoiner"}
         /\ Snapshots' = (Snapshots \ D) \cup {e \in N : e.kind = "Snapshot"}
         /\ Requests' = (Requests \ D) \cup {e \in N : e.kind = "Remote" /\ e.dest = Server}
         /\ Updates' = (Updates \ D) \cup {e \in N : e.kind = "Remote" /\ e.dest # Server}
BY DEF Locals, Joiners, Snapshots, Requests, Updates

\* Nothing is before the first event, and the snapshots are after any other.
LEMMA FirstEvent ==
  ASSUME NetworkInv, events # <<>>
  PROVE  /\ events[1] \in Pending
         /\ \A e \in Pending : e.time >= events[1].time
         /\ events[1].kind # "Snapshot" => \A s \in Snapshots : s.time > events[1].time
<1>1. events[1] \in Pending /\ \A e \in Pending : ~Before(e, events[1])
  BY FirstLeast DEF NetworkInv, Pending
<1>2. \A e \in Pending : e.time \in Nat
  BY DEF NetworkInv, EventInv, Placed
<1> DEFINE f == events[1]
<1>3. ASSUME NEW e \in Pending PROVE e.time >= f.time
  BY <1>1, <1>2 DEF Before
<1>4. ASSUME f.kind # "Snapshot", NEW s \in Snapshots PROVE s.time > f.time
  <2>1. s \in Pending /\ NetworkMessageOrder(s) = 0 /\ NetworkMessageOrder(f) = 1
    BY <1>4 DEF Snapshots, NetworkMessageOrder
  <2> QED BY <1>1, <1>2, <2>1 DEF Before
<1> QED BY <1>1, <1>3, <1>4

LEMMA Disjoint ==
  ASSUME Placed
  PROVE  /\ Pending = Locals \cup Joiners \cup Snapshots \cup Requests \cup Updates
         /\ Locals \cap Joiners = {} /\ Locals \cap Snapshots = {} /\ Locals \cap Requests = {}
         /\ Locals \cap Updates = {} /\ Joiners \cap Snapshots = {}
         /\ Joiners \cap Requests = {} /\ Joiners \cap Updates = {}
         /\ Snapshots \cap Requests = {} /\ Snapshots \cap Updates = {}
         /\ Requests \cap Updates = {}
BY DEF Placed, Locals, Joiners, Snapshots, Requests, Updates

-----------------------------------------------------------------------------
(* The initial states and the steps that fire no event                     *)

LEMMA InitStep == Init => IInv
<1> SUFFICES ASSUME Init PROVE NetworkInv /\ ~panicked
  BY DEF IInv
<1> USE DEF Init
<1>1. Seqs!ToSet(<<>>) = {} /\ Len(<<>>) = 0 /\ DOMAIN <<>> = {} /\ \A T : <<>> \in Seq(T)
  BY EmptySeq DEF Seqs!ToSet
<1>2. Pending = {} /\ Logged = {} /\ Joined = {}
  BY <1>1 DEF Pending, Logged, Joined
<1>3. Locals = {} /\ Joiners = {} /\ Snapshots = {} /\ Requests = {} /\ Updates = {}
  BY <1>2 DEF Locals, Joiners, Snapshots, Requests, Updates
<1>4. Once(<<>>)
  BY <1>1 DEF Once
<1>5. IsHeap(events)
  BY <1>1, <1>4 DEF IsHeap, Timed, Ordered
<1>6. Types
  BY <1>1, <1>2, <1>4, SimNetworkAssumption DEF Types
<1>7. EventInv
  BY <1>2, <1>3 DEF EventInv, Placed, Singles, AtRest, InTime, SnapshotFirst, InOrder
<1>8. \A c \in Clients : Named(c) = {} /\ Scheduled(c) = {} /\ Bridge(c) = {}
  BY <1>1, <1>3 DEF Named, Scheduled, Bridge
<1>9. Accounted /\ Fresh /\ Returning /\ Sent /\ Requested
  BY <1>1, <1>2, <1>3, <1>4, <1>8 DEF Accounted, Fresh, Returning, Sent, Requested
<1>10. StateInv
  BY <1>2, <1>3 DEF StateInv, Numbered, Starting, Following, Absent
<1> QED BY <1>5, <1>6, <1>7, <1>9, <1>10 DEF NetworkInv, OpInv

\* What is said of the operations and the states when the events, the server and
\* the clients stay.
LEMMA Unmoved ==
  ASSUME OpInv /\ StateInv, UNCHANGED <<events, log, clientVars, edits>>,
         Joined' = Joined, components \subseteq components'
  PROVE  (OpInv /\ StateInv)'
<1> USE DEF clientVars
<1>1. /\ UNCHANGED <<Pending, Locals, Snapshots, Requests, Updates, Logged>>
      /\ \A c : UNCHANGED <<Bridge(c), Named(c), Scheduled(c), Starts(c)>>
      /\ \A c, n : UNCHANGED <<Upto(n), Told(c, n)>>
  BY DEF Pending, Locals, Snapshots, Requests, Updates, Logged, Bridge, Named, Scheduled,
         Starts, Upto, Told
<1>2. (Accounted /\ Fresh)'
  BY <1>1 DEF OpInv, Accounted, Fresh
<1>3. (Returning /\ Sent /\ Requested)'
  BY <1>1 DEF OpInv, Returning, Sent, Requested
<1>4. (Numbered /\ Starting)'
  BY <1>1 DEF StateInv, Numbered, Starting
<1>5. (Following /\ Absent)'
  BY <1>1 DEF StateInv, Following, Absent
<1> QED BY <1>2, <1>3, <1>4, <1>5 DEF OpInv, StateInv

LEMMA AddServerStep ==
  ASSUME NetworkInv, AddServer
  PROVE  NetworkInv'
<1> USE DEF AddServer, testVars
<1>1. Joined' = Joined /\ components \subseteq components'
  BY DEF Joined
<1>2. OpInv' /\ StateInv'
  BY <1>1, Unmoved DEF NetworkInv, clientVars
<1>3. UNCHANGED <<Pending, Locals, Joiners, Snapshots, Requests, Updates>>
  BY DEF Pending, Locals, Joiners, Snapshots, Requests, Updates
<1>4. Types'
  BY <1>1 DEF NetworkInv, Types, clientVars
<1>5. \A c : UNCHANGED Named(c)
  BY DEF Named
<1>6. Clients \ components = Clients \ components'
  BY SimNetworkAssumption
<1>7. Placed'
  BY <1>1, <1>3, <1>5, <1>6 DEF NetworkInv, EventInv, Placed
<1>8. (Singles /\ AtRest /\ InTime /\ SnapshotFirst /\ InOrder)'
  BY <1>3 DEF NetworkInv, EventInv, Singles, AtRest, InTime, SnapshotFirst, InOrder
<1>9. IsHeap(events)'
  BY DEF NetworkInv
<1> QED BY <1>2, <1>4, <1>7, <1>8, <1>9 DEF NetworkInv, EventInv

\* The ticks of the network, and its end.
LEMMA TickStep ==
  ASSUME NetworkInv, Run \/ NextTick \/ Stop
  PROVE  NetworkInv'
<1> USE DEF networkVars
<1>1. UNCHANGED <<clock, networkVars, clientVars, edits, delay, events, log, tied>>
  BY DEF Run, NextTick, Stop
<1>2. Joined' = Joined /\ components \subseteq components'
  BY <1>1 DEF Joined
<1>3. OpInv' /\ StateInv'
  BY <1>1, <1>2, Unmoved DEF NetworkInv
<1>4. UNCHANGED <<Pending, Locals, Joiners, Snapshots, Requests, Updates>>
  BY <1>1 DEF Pending, Locals, Joiners, Snapshots, Requests, Updates
<1>5. \A c : UNCHANGED Named(c)
  BY <1>1 DEF Named
<1>6. (Placed /\ Singles /\ SnapshotFirst /\ InOrder)'
  BY <1>1, <1>2, <1>4, <1>5 DEF NetworkInv, EventInv, Placed, Singles, SnapshotFirst, InOrder
<1>7. IsHeap(events)'
  BY <1>1 DEF NetworkInv
<1>8. tickTime \in Nat \cup {NoTime} /\ NoTime \notin Nat
  BY SimNetworkAssumption DEF NetworkInv, Types
<1>9. ASSUME Run \/ NextTick PROVE (Types /\ AtRest /\ InTime)'
  <2>1. events # <<>> /\ tickTime' = events[1].time
    BY <1>9 DEF Run, NextTick
  <2>2. events[1] \in Pending /\ \A e \in Pending : e.time >= events[1].time
    BY <2>1, FirstEvent
  <2>3. events[1].time \in Nat
    BY <2>2 DEF NetworkInv, EventInv, Placed
  <2>4. tickTime' \in Nat /\ networkState' \in {networkState, "Running"}
    BY <1>9, <2>1, <2>3 DEF Run, NextTick
  <2>5. Types'
    BY <1>1, <1>2, <2>4 DEF NetworkInv, Types, clientVars
  <2>6. AtRest'
    BY <1>8, <2>4 DEF AtRest
  <2>7. tickTime # NoTime => tickTime \in Nat /\ tickTime' >= tickTime
    BY <1>8, <2>1, <2>2, FirstEvent DEF NetworkInv, EventInv, InTime
  <2>8. ASSUME NEW e \in Snapshots \cup Updates
        PROVE  e.time <= tickTime' + delay[e.dest].toClient
    <3>1. e.dest \in Clients /\ e.time \in Nat
      BY DEF NetworkInv, EventInv, Placed, Joined, Types, Snapshots, Updates
    <3>2. delay[e.dest].toClient \in Nat
      BY <3>1 DEF NetworkInv, Types
    <3>3. CASE tickTime = NoTime
      <4>1. e.time = 0
        BY <2>8, <3>3 DEF NetworkInv, EventInv, AtRest
      <4> QED BY <2>4, <3>2, <4>1
    <3>4. CASE tickTime # NoTime
      <4>1. e.time <= tickTime + delay[e.dest].toClient
        BY <3>4 DEF NetworkInv, EventInv, InTime
      <4> QED BY <2>4, <2>7, <3>1, <3>2, <3>4, <4>1
    <3> QED BY <3>3, <3>4
  <2>9. InTime'
    BY <1>1, <1>4, <2>1, <2>2, <2>8 DEF InTime
  <2> QED BY <2>5, <2>6, <2>9
<1>10. ASSUME Stop PROVE (Types /\ AtRest /\ InTime)'
  <2>1. events = <<>> /\ tickTime' = NoTime /\ networkState' = "Stopped"
    BY <1>10 DEF Stop
  <2>2. Pending = {}
    BY <2>1 DEF Pending, Seqs!ToSet
  <2>3. Requests = {} /\ Updates = {} /\ Snapshots = {}
    BY <2>2 DEF Requests, Updates, Snapshots
  <2>4. Types'
    BY <1>1, <1>2, <2>1 DEF NetworkInv, Types, clientVars
  <2> QED BY <1>4, <2>1, <2>3, <2>4 DEF AtRest, InTime
<1>11. (Types /\ AtRest /\ InTime)'
  BY <1>9, <1>10
<1> QED BY <1>3, <1>6, <1>7, <1>11 DEF NetworkInv, EventInv

\* An event that is pushed is pending.
LEMMA Pushes ==
  ASSUME NetworkInv, NEW e, e.time \in Nat, e \notin Pending, events' = Push(events, e)
  PROVE  IsHeap(events)' /\ Pending' = Pending \cup {e}
BY PushHeap DEF NetworkInv, Pending

LEMMA LateJoinerStep ==
  ASSUME NetworkInv, NEW c \in Clients, NEW t \in 0..MaxTime, ScheduleLateJoiner(c, t)
  PROVE  NetworkInv'
<1> DEFINE e == LateJoiner(c, t)
<1> USE DEF ScheduleLateJoiner, networkVars, testVars
<1>1. e.kind = "LateJoiner" /\ e.dest = c /\ e.time = t /\ t \in Nat
  BY SimNetworkAssumption DEF LateJoiner
<1>2. events' = Push(events, e) /\ c \notin components \cup Expected
  OBVIOUS
<1> HIDE DEF e
<1>3. \A f \in Joiners : f.dest # c
  <2> SUFFICES ASSUME NEW f \in Joiners PROVE f.dest \in Expected
    BY <1>2
  <2>1. PICK i \in DOMAIN events : events[i] = f
    BY DEF Joiners, Pending, Seqs!ToSet
  <2> QED BY <2>1 DEF Expected, Joiners
<1>4. e \notin Pending
  BY <1>1, <1>3 DEF Joiners
<1>5. IsHeap(events)' /\ Pending' = Pending \cup {e}
  BY <1>1, <1>2, <1>4, Pushes
<1>6. /\ UNCHANGED <<Locals, Snapshots, Requests, Updates>>
      /\ Joiners' = Joiners \cup {e}
  BY <1>1, <1>5 DEF Locals, Joiners, Snapshots, Requests, Updates
<1>7. tickTime = NoTime
  BY DEF Idle
<1>8. /\ UNCHANGED <<Joined, Logged>>
      /\ \A d : UNCHANGED <<Bridge(d), Named(d), Scheduled(d), Starts(d)>>
      /\ \A d, n : UNCHANGED <<Upto(n), Told(d, n)>>
  BY <1>6 DEF Joined, Logged, Bridge, Named, Scheduled, Starts, Upto, Told, clientVars
<1>9. Types'
  BY <1>8 DEF NetworkInv, Types, clientVars
<1>10. Placed'
  BY <1>1, <1>2, <1>5, <1>6, <1>8 DEF NetworkInv, EventInv, Placed
<1>11. Singles'
  BY <1>1, <1>3, <1>6 DEF NetworkInv, EventInv, Singles
<1>12. (AtRest /\ InTime /\ SnapshotFirst /\ InOrder)'
  BY <1>6, <1>7 DEF NetworkInv, EventInv, AtRest, InTime, SnapshotFirst, InOrder
<1>13. OpInv'
  BY <1>6, <1>8 DEF NetworkInv, OpInv, Accounted, Fresh, Returning, Sent, Requested, clientVars
<1>14. StateInv'
  BY <1>6, <1>8 DEF NetworkInv, StateInv, Numbered, Starting, Following, Absent, clientVars
<1> QED BY <1>5, <1>9, <1>10, <1>11, <1>12, <1>13, <1>14 DEF NetworkInv, EventInv

LEMMA LocalMessageStep ==
  ASSUME NetworkInv, NEW c \in Clients, NEW t \in 0..MaxTime, ScheduleLocalMessage(c, t)
  PROVE  NetworkInv'
<1> DEFINE op == <<c, edits[c] + 1>>
           e == Local(c, op, t)
<1> USE DEF ScheduleLocalMessage, networkVars, testVars, clientVars
<1>1. edits' = [edits EXCEPT ![c] = @ + 1] /\ edits[c] \in Nat /\ edits'[c] = edits[c] + 1
  BY DEF NetworkInv, Types
<1>2. e.kind = "Local" /\ e.dest = c /\ e.op = op /\ e.time = t /\ t \in Nat
  BY SimNetworkAssumption DEF Local
<1>3. events' = Push(events, e) /\ c \in Joined /\ tickTime = NoTime
  BY <1>1, SimNetworkAssumption DEF Joined, Idle
<1>4. op \notin Named(c) /\ op \in Named(c)' /\ Named(c)' = Named(c) \cup {op}
  <2>1. 1..(edits[c] + 1) = (1..edits[c]) \cup {edits[c] + 1}
    BY <1>1
  <2>2. edits[c] + 1 \notin 1..edits[c]
    BY <1>1
  <2> QED BY <1>1, <2>1, <2>2 DEF Named
<1>5. \A d \in Clients : d # c => UNCHANGED Named(d)
  BY <1>1 DEF NetworkInv, Types, Named
<1>6. \A d \in Clients : Named(d) = Scheduled(d) \cup Bridge(d) \cup {x \in Logged : x[1] = d}
  BY DEF NetworkInv, OpInv, Accounted
<1>7. op[1] = c
  OBVIOUS
<1> HIDE DEF e, op
<1>8. op \notin Scheduled(c) /\ op \notin Bridge(c) /\ op \notin Logged
  BY <1>4, <1>6, <1>7
<1>9. \A f \in Locals : f.op # op
  <2> SUFFICES ASSUME NEW f \in Locals, f.op = op PROVE FALSE
    OBVIOUS
  <2>1. f.dest \in Clients /\ op \in Named(f.dest)
    BY DEF NetworkInv, EventInv, Placed, Joined, Types
  <2>2. f.dest = c
    BY <1>7, <2>1 DEF Named
  <2> QED BY <1>4, <2>1, <2>2
<1>10. e \notin Pending
  BY <1>2, <1>9 DEF Locals
<1>11. IsHeap(events)' /\ Pending' = Pending \cup {e}
  BY <1>2, <1>3, <1>10, Pushes
<1>12. /\ UNCHANGED <<Joiners, Snapshots, Requests, Updates>>
       /\ Locals' = Locals \cup {e}
  BY <1>2, <1>11 DEF Locals, Joiners, Snapshots, Requests, Updates
<1>13. /\ Scheduled(c)' = Scheduled(c) \cup {op}
       /\ \A d : d # c => UNCHANGED Scheduled(d)
  BY <1>2, <1>12 DEF Scheduled
<1>14. /\ UNCHANGED <<Joined, Logged>>
       /\ \A d : UNCHANGED <<Bridge(d), Starts(d)>>
       /\ \A d, n : UNCHANGED <<Upto(n), Told(d, n)>>
  BY <1>12 DEF Joined, Logged, Bridge, Starts, Upto, Told
<1>15. Types'
  BY <1>1, <1>14 DEF NetworkInv, Types
<1>16. Placed'
  <2>1. \A f \in Locals : f.op \in Named(f.dest)'
    <3> SUFFICES ASSUME NEW f \in Locals PROVE f.op \in Named(f.dest)'
      OBVIOUS
    <3>1. f.dest \in Clients /\ f.op \in Named(f.dest)
      BY DEF NetworkInv, EventInv, Placed, Joined, Types
    <3> QED BY <1>4, <1>5, <3>1
  <2>2. \A f \in Locals' : f.dest \in Joined' /\ f.op \in Named(f.dest)'
    BY <1>2, <1>3, <1>4, <1>12, <1>14, <2>1 DEF NetworkInv, EventInv, Placed
  <2> QED BY <1>2, <1>11, <1>12, <1>14, <2>2 DEF NetworkInv, EventInv, Placed
<1>17. Singles'
  BY <1>2, <1>9, <1>12 DEF NetworkInv, EventInv, Singles
<1>18. (AtRest /\ InTime /\ InOrder)'
  BY <1>3, <1>12 DEF NetworkInv, EventInv, AtRest, InTime, InOrder
<1>19. SnapshotFirst'
  <2>1. \A s \in Snapshots : s.time <= e.time
    BY <1>2, <1>3 DEF NetworkInv, EventInv, AtRest
  <2> QED BY <1>12, <2>1 DEF NetworkInv, EventInv, SnapshotFirst
<1>20. Accounted'
  BY <1>4, <1>5, <1>6, <1>13, <1>14 DEF Accounted
<1>21. Fresh'
  BY <1>8, <1>13, <1>14 DEF NetworkInv, OpInv, Fresh
<1>22. (Returning /\ Sent /\ Requested)'
  BY <1>12, <1>14 DEF NetworkInv, OpInv, Returning, Sent, Requested
<1>23. StateInv'
  BY <1>12, <1>14 DEF NetworkInv, StateInv, Numbered, Starting, Following, Absent
<1> QED BY <1>11, <1>15, <1>16, <1>17, <1>18, <1>19, <1>20, <1>21, <1>22, <1>23
       DEF NetworkInv, EventInv, OpInv

-----------------------------------------------------------------------------
(* A client joins                                                          *)

\* Everything is true of c that is true of a client nothing has happened to.
LEMMA NothingOf ==
  ASSUME NetworkInv, NEW c \in Clients, c \notin components
  PROVE  /\ \A e \in Locals \cup Snapshots \cup Updates : e.dest # c
         /\ \A e \in Requests : e.source # c
         /\ lastServerStateId[c] = 0 /\ clientBridge[c] = <<>>
  BY DEF NetworkInv, EventInv, StateInv, Placed, Absent, Joined

LEMMA UptoLog ==
  ASSUME Types
  PROVE  Upto(Len(log)) = Logged /\ Len(log) \in Nat
BY Elements DEF Types, Upto, Logged

LEMMA Joins ==
  ASSUME NetworkInv, NEW c \in Clients, NEW e, NEW D,
         c \notin components, c # Server,
         components' = components \cup {c}, clientIds' = Append(clientIds, c),
         e.kind = "Snapshot", e.dest = c, e.time \in Nat,
         e.document = Logged, e.state = Len(log),
         D \subseteq Joiners, \A f \in Joiners \ D : f.dest # c,
         Pending' = (Pending \ D) \cup {e}, UNCHANGED <<clientVars, log, edits>>
  PROVE  /\ Locals' = Locals /\ Joiners' = Joiners \ D /\ Snapshots' = Snapshots \cup {e}
         /\ Requests' = Requests /\ Updates' = Updates
         /\ Joined' = Joined \cup {c}
         /\ clientIds' \in Seq(Clients) /\ Once(clientIds') /\ Seqs!ToSet(clientIds') = Joined'
         /\ (Placed /\ Singles /\ SnapshotFirst)' /\ OpInv' /\ StateInv'
<1> USE DEF clientVars
<1>1. /\ \A f \in Locals \cup Snapshots \cup Updates : f.dest # c
      /\ \A f \in Requests : f.source # c
      /\ lastServerStateId[c] = 0 /\ clientBridge[c] = <<>>
  BY NothingOf
<1>2. Placed /\ Types
  BY DEF NetworkInv, EventInv
<1>3. /\ Locals' = Locals /\ Joiners' = Joiners \ D /\ Snapshots' = Snapshots \cup {e}
      /\ Requests' = Requests /\ Updates' = Updates
  <2>1. /\ Locals' = (Locals \ D) \cup {f \in {e} : f.kind = "Local"}
        /\ Joiners' = (Joiners \ D) \cup {f \in {e} : f.kind = "LateJoiner"}
        /\ Snapshots' = (Snapshots \ D) \cup {f \in {e} : f.kind = "Snapshot"}
        /\ Requests' = (Requests \ D) \cup {f \in {e} : f.kind = "Remote" /\ f.dest = Server}
        /\ Updates' = (Updates \ D) \cup {f \in {e} : f.kind = "Remote" /\ f.dest # Server}
    BY Split
  <2> QED BY <1>2, <2>1, Disjoint
<1>4. Joined' = Joined \cup {c} /\ c \notin Joined
  BY DEF Joined
<1>5. clientIds' \in Seq(Clients) /\ Once(clientIds') /\ Seqs!ToSet(clientIds') = Joined'
  <2>1. clientIds \in Seq(Clients) /\ Once(clientIds) /\ Seqs!ToSet(clientIds) = Joined
    BY <1>2 DEF Types
  <2> QED BY <1>4, <2>1, AppendSet
<1>6. /\ UNCHANGED Logged
      /\ \A d : UNCHANGED <<Bridge(d), Named(d), Scheduled(d)>>
      /\ \A d, n : UNCHANGED <<Upto(n), Told(d, n)>>
      /\ \A d : d # c => UNCHANGED Starts(d)
      /\ Starts(c)'
  BY <1>3 DEF Logged, Bridge, Named, Scheduled, Starts, Upto, Told
<1>7. Placed'
  BY <1>3, <1>4, <1>6 DEF NetworkInv, EventInv, Placed
<1>8. Singles'
  BY <1>1, <1>3 DEF NetworkInv, EventInv, Singles
<1>9. SnapshotFirst'
  BY <1>1, <1>3 DEF NetworkInv, EventInv, SnapshotFirst
<1>10. OpInv'
  BY <1>3, <1>6 DEF NetworkInv, OpInv, Accounted, Fresh, Returning, Sent, Requested
<1>11. (Numbered /\ Absent)'
  BY <1>3, <1>6 DEF NetworkInv, StateInv, Numbered, Absent
<1>12. Starting'
  <2>1. Upto(Len(log)) = Logged /\ Len(log) \in Nat
    BY <1>2, UptoLog
  <2>2. e.state \in 0..Len(log) /\ \A n : n \notin (e.state + 1)..Len(log)
    BY <2>1
  <2>3. \A f \in Updates : f.dest # c
    BY <1>1
  <2> QED BY <1>1, <1>3, <1>6, <2>1, <2>2, <2>3 DEF NetworkInv, StateInv, Starting
<1>13. Following'
  BY <1>4, <1>6 DEF NetworkInv, StateInv, Following
<1> QED BY <1>3, <1>4, <1>5, <1>7, <1>8, <1>9, <1>10, <1>11, <1>12, <1>13 DEF StateInv

LEMMA AddComponentStep ==
  ASSUME NetworkInv, NEW c \in Clients, AddComponentSod(c)
  PROVE  NetworkInv'
<1> DEFINE e == NewClient(c, FALSE)
<1> USE DEF AddComponentSod, AddComponent, testVars
<1>1. /\ e.kind = "Snapshot" /\ e.dest = c /\ e.time = clock'
      /\ e.document = Logged /\ e.state = Len(log)
  BY DEF NewClient, Snapshot, SnapshotTime, Logged
<1>2. tickTime = NoTime /\ clock' = 0
  BY DEF NetworkInv, EventInv, AtRest, Idle
<1>3. events' = Push(events, e) /\ c \notin components \cup Expected /\ c # Server
  BY SimNetworkAssumption
<1> HIDE DEF e
<1>4. \A f \in Joiners : f.dest # c
  <2> SUFFICES ASSUME NEW f \in Joiners PROVE f.dest \in Expected
    BY <1>3
  <2>1. PICK i \in DOMAIN events : events[i] = f
    BY DEF Joiners, Pending, Seqs!ToSet
  <2> QED BY <2>1 DEF Expected, Joiners
<1>5. e \notin Pending
  BY <1>1, <1>3, NothingOf DEF Snapshots
<1>6. IsHeap(events)' /\ Pending' = Pending \cup {e}
  <2> HIDE DEF AddComponentSod
  <2>1. e.time \in Nat
    BY <1>1, <1>2
  <2> QED BY <1>3, <1>5, <2>1, Pushes
<1> DEFINE none == {}
<1>7. /\ Locals' = Locals /\ Joiners' = Joiners \ none /\ Snapshots' = Snapshots \cup {e}
      /\ Requests' = Requests /\ Updates' = Updates
      /\ Joined' = Joined \cup {c}
      /\ clientIds' \in Seq(Clients) /\ Once(clientIds') /\ Seqs!ToSet(clientIds') = Joined'
      /\ (Placed /\ Singles /\ SnapshotFirst)' /\ OpInv' /\ StateInv'
  <2>1. /\ Pending' = (Pending \ none) \cup {e} /\ none \subseteq Joiners
        /\ \A f \in Joiners \ none : f.dest # c
        /\ components' = components \cup {c} /\ clientIds' = Append(clientIds, c)
        /\ UNCHANGED <<clientVars, log, edits>> /\ e.time \in Nat
    BY <1>1, <1>2, <1>4, <1>6
  <2>2. c \notin components
    BY <1>3
  <2> HIDE DEF none, AddComponentSod, AddComponent
  <2> QED BY <1>1, <1>3, <2>1, <2>2, Joins
<1>8. Types'
  BY <1>7 DEF NetworkInv, Types, clientVars
<1>9. (AtRest /\ InTime /\ InOrder)'
  BY <1>1, <1>2, <1>7 DEF NetworkInv, EventInv, AtRest, InTime, InOrder
<1> QED BY <1>6, <1>7, <1>8, <1>9 DEF NetworkInv, EventInv

-----------------------------------------------------------------------------
(* The loop fires an event                                                 *)

\* What an event that fires is: the first, due now.
Fires(e) ==
  /\ e = events[1] /\ events # <<>> /\ tickTime # NoTime /\ e.time = tickTime
  /\ UNCHANGED <<networkState, tickTime, delay, edits>> /\ clock' = tickTime

\* The new events take its place.
LEMMA FireStep ==
  ASSUME NetworkInv, Ticking, events # <<>>, events[1].time = tickTime,
         NEW X, Timed(X), NEW new \in Seq(X), Once(new),
         \A i \in DOMAIN new : new[i] \notin Pending, Fire(new)
  PROVE  /\ Fires(events[1])
         /\ IsHeap(events)'
         /\ Pending' = (Pending \ {events[1]}) \cup Seqs!ToSet(new)
         /\ tied => tied'
         /\ ~tied' => /\ ~tied
                      /\ \A f \in Pending \ {events[1]}, g \in Seqs!ToSet(new) : ~SameDelivery(f, g)
<1> DEFINE rest == Pop(events)
<1>1. IsHeap(rest) /\ Seqs!ToSet(rest) = Pending \ {events[1]}
  BY PopHeap DEF NetworkInv, Pending
<1>2. /\ clock' = tickTime /\ events' = PushAll(rest, new)
      /\ tied' = (tied \/ \E i \in DOMAIN rest, j \in DOMAIN new : SameDelivery(rest[i], new[j]))
      /\ UNCHANGED <<networkState, tickTime, delay, edits>>
  BY DEF Fire
<1> HIDE DEF rest
<1>3. IsHeap(PushAll(rest, new)) /\
      Seqs!ToSet(PushAll(rest, new)) = Seqs!ToSet(rest) \cup Seqs!ToSet(new)
  BY <1>1, PushAllHeap
<1>4. tied => tied'
  BY <1>2, Zenon
<1>5. ASSUME ~tied' PROVE ~tied /\ \A f \in Pending \ {events[1]}, g \in Seqs!ToSet(new) :
                                     ~SameDelivery(f, g)
  <2>1. ~tied /\ ~\E i \in DOMAIN rest, j \in DOMAIN new : SameDelivery(rest[i], new[j])
    BY <1>2, <1>5, Zenon
  <2>2. ASSUME NEW f \in Pending \ {events[1]}, NEW g \in Seqs!ToSet(new)
        PROVE  ~SameDelivery(f, g)
    <3>1. PICK i \in DOMAIN rest : rest[i] = f
      BY <1>1 DEF Seqs!ToSet
    <3>2. PICK j \in DOMAIN new : new[j] = g
      BY DEF Seqs!ToSet
    <3> QED BY <2>1, <3>1, <3>2, Zenon
  <2> QED BY <2>1, <2>2
<1>6. Fires(events[1])
  BY <1>2 DEF Fires, Ticking
<1> QED BY <1>1, <1>2, <1>3, <1>4, <1>5, <1>6 DEF Pending

LEMMA FireNone ==
  ASSUME NetworkInv, Ticking, events # <<>>, events[1].time = tickTime, Fire(<<>>)
  PROVE  /\ Fires(events[1])
         /\ IsHeap(events)' /\ Pending' = Pending \ {events[1]}
         /\ tied => tied'
         /\ ~tied' => ~tied
<1>1. /\ <<>> \in Seq({}) /\ Timed({}) /\ Once(<<>>) /\ Seqs!ToSet(<<>>) = {}
      /\ \A i \in DOMAIN <<>> : <<>>[i] \notin Pending
  BY DEF Timed, Once, Seqs!ToSet
<1>2. /\ Fires(events[1])
      /\ IsHeap(events)' /\ Pending' = (Pending \ {events[1]}) \cup Seqs!ToSet(<<>>)
      /\ tied => tied'
      /\ ~tied' => ~tied
  BY <1>1, FireStep
<1> QED BY <1>1, <1>2

LEMMA FireOne ==
  ASSUME NetworkInv, Ticking, events # <<>>, events[1].time = tickTime,
         NEW e, e.time \in Nat, e \notin Pending, Fire(<<e>>)
  PROVE  /\ Fires(events[1])
         /\ IsHeap(events)' /\ Pending' = (Pending \ {events[1]}) \cup {e}
         /\ tied => tied'
         /\ ~tied' => ~tied
<1>1. /\ <<e>> \in Seq({e}) /\ Timed({e}) /\ Once(<<e>>) /\ Seqs!ToSet(<<e>>) = {e}
      /\ \A i \in DOMAIN <<e>> : <<e>>[i] \notin Pending
  BY DEF Timed, Once, Seqs!ToSet
<1>2. /\ Fires(events[1])
      /\ IsHeap(events)' /\ Pending' = (Pending \ {events[1]}) \cup Seqs!ToSet(<<e>>)
      /\ tied => tied'
      /\ ~tied' => ~tied
  BY <1>1, FireStep
<1> QED BY <1>1, <1>2

\* What the first event leaves: its time is now, and it was the only one like it.
LEMMA Fired ==
  ASSUME NetworkInv, NEW e, Fires(e)
  PROVE  /\ e \in Pending /\ tickTime \in Nat /\ tickTime' = tickTime /\ tickTime' # NoTime
         /\ \A f \in Pending : f.time >= tickTime
         /\ \A f \in Snapshots \cup Updates : f.time <= tickTime + delay[f.dest].toClient
         /\ e.kind # "Snapshot" => \A s \in Snapshots : s.time > tickTime
         /\ \A c \in Clients : delay[c].toClient \in Nat /\ delay[c].toServer \in Nat
<1>1. /\ e \in Pending /\ \A f \in Pending : f.time >= e.time
      /\ e.kind # "Snapshot" => \A s \in Snapshots : s.time > e.time
  BY FirstEvent DEF Fires
<1>2. e.time = tickTime /\ tickTime # NoTime /\ tickTime' = tickTime
  BY DEF Fires
<1>3. \A f \in Snapshots \cup Updates : f.time <= tickTime + delay[f.dest].toClient
  BY <1>2 DEF NetworkInv, EventInv, InTime
<1>4. tickTime \in Nat /\ \A c \in Clients : delay[c].toClient \in Nat /\ delay[c].toServer \in Nat
  BY <1>2 DEF NetworkInv, Types
<1> QED BY <1>1, <1>2, <1>3, <1>4

LEMMA FireLateJoinerStep ==
  ASSUME NetworkInv, FireLateJoiner
  PROVE  NetworkInv'
<1> DEFINE a == events[1]
           c == a.dest
           e == NewClient(c, TRUE)
<1>1. /\ Ticking /\ events # <<>> /\ a.time = tickTime /\ a.kind = "LateJoiner"
      /\ AddComponent(c) /\ Fire(<<e>>) /\ UNCHANGED <<clientVars, log>>
  BY DEF FireLateJoiner, Due
<1>2. a \in Joiners /\ c \in Clients /\ c \notin components
  BY <1>1, FirstEvent DEF Joiners, NetworkInv, EventInv, Placed
<1>3. c # Server /\ components' = components \cup {c} /\ clientIds' = Append(clientIds, c)
  BY <1>1, <1>2, SimNetworkAssumption DEF AddComponent
<1>4. clock' = tickTime /\ tickTime \in Nat /\ edits' = edits
  BY <1>1 DEF Fire, Ticking, NetworkInv, Types
<1>5. /\ e.kind = "Snapshot" /\ e.dest = c /\ e.time = tickTime + delay[c].toClient
      /\ e.document = Logged /\ e.state = Len(log)
  BY <1>3, <1>4 DEF NewClient, Snapshot, SnapshotTime, ReceiveTime, Delay, Logged
<1>6. delay[c].toClient \in Nat /\ e.time \in Nat /\ e.time >= tickTime
  <2>1. delay[c].toClient \in Nat
    BY <1>2 DEF NetworkInv, Types
  <2> HIDE DEF e
  <2> QED BY <1>4, <1>5, <2>1
<1> HIDE DEF a, e, c
<1>7. e \notin Pending
  BY <1>2, <1>5, NothingOf DEF Snapshots
<1>8. /\ Fires(a) /\ IsHeap(events)' /\ Pending' = (Pending \ {a}) \cup {e}
      /\ ~tied' => ~tied
  BY <1>1, <1>6, <1>7, FireOne DEF a
<1>9. \A f \in Joiners \ {a} : f.dest # c
  BY <1>2 DEF NetworkInv, EventInv, Singles, c
<1> DEFINE D == {a}
<1>10. D \subseteq Joiners /\ Pending' = (Pending \ D) \cup {e} /\ \A f \in Joiners \ D : f.dest # c
  BY <1>2, <1>8, <1>9
<1>11. /\ Locals' = Locals /\ Joiners' = Joiners \ D /\ Snapshots' = Snapshots \cup {e}
       /\ Requests' = Requests /\ Updates' = Updates
       /\ Joined' = Joined \cup {c}
       /\ clientIds' \in Seq(Clients) /\ Once(clientIds') /\ Seqs!ToSet(clientIds') = Joined'
       /\ (Placed /\ Singles /\ SnapshotFirst)' /\ OpInv' /\ StateInv'
  <2> HIDE DEF D
  <2>1. UNCHANGED <<clientVars, log, edits>>
    BY <1>1, <1>4
  <2> QED BY <1>2, <1>3, <1>5, <1>6, <1>10, <2>1, Joins
<1>12. /\ UNCHANGED <<networkState, tickTime, delay, edits>> /\ clock' = tickTime
       /\ tickTime # NoTime
  BY <1>8 DEF Fires
<1>13. Types'
  BY <1>1, <1>3, <1>4, <1>11, <1>12, <1>2 DEF NetworkInv, Types, clientVars
<1>14. AtRest'
  BY <1>12 DEF AtRest
<1>15. InTime'
  <2>1. \A f \in Pending' : f.time >= tickTime
    BY <1>6, <1>8, Fired
  <2>2. \A f \in (Snapshots \cup Updates)' : f.time <= tickTime + delay[f.dest].toClient
    <3>1. \A f \in Snapshots \cup Updates : f.time <= tickTime + delay[f.dest].toClient
      BY <1>8, Fired
    <3>2. e.time <= tickTime + delay[e.dest].toClient
      BY <1>4, <1>5, <1>6
    <3> QED BY <1>11, <3>1, <3>2
  <2> QED BY <1>12, <2>1, <2>2 DEF InTime
<1>16. InOrder'
  BY <1>8, <1>11 DEF NetworkInv, EventInv, InOrder
<1> QED BY <1>8, <1>11, <1>13, <1>14, <1>15, <1>16 DEF NetworkInv, EventInv

-----------------------------------------------------------------------------
(* A client receives its snapshot                                          *)

\* What stays true of the events when one of them has fired and nothing is new.
LEMMA LessPending ==
  ASSUME NetworkInv, NEW a, Fires(a), Pending' = Pending \ {a}, ~tied' => ~tied,
         UNCHANGED components
  PROVE  /\ Locals' = Locals \ {a} /\ Joiners' = Joiners \ {a} /\ Snapshots' = Snapshots \ {a}
         /\ Requests' = Requests \ {a} /\ Updates' = Updates \ {a}
         /\ EventInv'
<1>1. /\ Locals' = Locals \ {a} /\ Joiners' = Joiners \ {a} /\ Snapshots' = Snapshots \ {a}
      /\ Requests' = Requests \ {a} /\ Updates' = Updates \ {a}
  BY DEF Locals, Joiners, Snapshots, Requests, Updates
<1>2. UNCHANGED <<tickTime, delay, Joined, edits>> /\ tickTime # NoTime
  BY DEF Fires, Joined
<1>3. \A c : UNCHANGED Named(c)
  BY <1>2 DEF Named
<1>4. Placed'
  BY <1>1, <1>2, <1>3 DEF NetworkInv, EventInv, Placed
<1>5. Singles'
  BY <1>1 DEF NetworkInv, EventInv, Singles
<1>6. (AtRest /\ InTime /\ SnapshotFirst /\ InOrder)'
  BY <1>1, <1>2 DEF NetworkInv, EventInv, AtRest, InTime, SnapshotFirst, InOrder
<1> QED BY <1>1, <1>4, <1>5, <1>6 DEF EventInv

LEMMA RecvSnapshotStep ==
  ASSUME NetworkInv, RecvSnapshot
  PROVE  ~panicked' /\ NetworkInv'
<1> DEFINE a == events[1]
           c == a.dest
<1>1. /\ Ticking /\ events # <<>> /\ a.time = tickTime /\ a.kind = "Snapshot" /\ Fire(<<>>)
      /\ document' = [document EXCEPT ![c] = a.document]
      /\ panicked' = (lastServerStateId[c] # 0)
      /\ lastServerStateId' = [lastServerStateId EXCEPT ![c] = a.state]
      /\ UNCHANGED <<networkVars, clientBridge, log>>
  BY DEF RecvSnapshot, Due
<1>2. /\ Fires(a) /\ IsHeap(events)' /\ Pending' = Pending \ {a}
      /\ ~tied' => ~tied
  BY <1>1, FireNone
<1> HIDE DEF a, c
<1>3. a \in Snapshots /\ c \in Joined /\ c \in Clients /\ c \in components
  <2>1. a \in Snapshots
    BY <1>1, <1>2, Fired DEF Snapshots
  <2> QED BY <2>1 DEF c, Joined, NetworkInv, EventInv, Placed, Types
<1>4. UNCHANGED <<components, clientIds, networkState, tickTime, delay, edits>> /\ clock' = tickTime
  BY <1>1, <1>2 DEF networkVars, Fires
<1>5. /\ Locals' = Locals \ {a} /\ Joiners' = Joiners \ {a} /\ Snapshots' = Snapshots \ {a}
      /\ Requests' = Requests \ {a} /\ Updates' = Updates \ {a}
      /\ EventInv'
  BY <1>2, <1>4, LessPending
<1>6. Locals' = Locals /\ Requests' = Requests /\ Updates' = Updates
  BY <1>1, <1>5 DEF Locals, Requests, Updates
<1>7. /\ lastServerStateId[c] = 0 /\ clientBridge[c] = <<>>
      /\ a.state \in 0..Len(log) /\ a.document = Upto(a.state)
      /\ \A n \in (a.state + 1)..Len(log) : Told(c, n)
      /\ \A e \in Updates : e.dest = c => e.state > a.state
  BY <1>3 DEF NetworkInv, StateInv, Starting, c
<1>8. ~panicked'
  BY <1>1, <1>7
<1>9. /\ UNCHANGED <<Joined, Logged>>
      /\ \A d : UNCHANGED <<Bridge(d), Named(d), Scheduled(d)>>
      /\ \A d, n : UNCHANGED <<Upto(n), Told(d, n)>>
  BY <1>1, <1>4, <1>6 DEF Joined, Logged, Bridge, Named, Scheduled, Upto, Told
<1>10. /\ \A d : d # c => UNCHANGED Starts(d)
       /\ \A s \in Snapshots' : s.dest # c
  BY <1>3, <1>5 DEF Starts, NetworkInv, EventInv, Singles, c
<1>11. /\ \A d \in Clients : d # c => UNCHANGED <<document[d], lastServerStateId[d]>>
       /\ document'[c] = Upto(a.state) /\ lastServerStateId'[c] = a.state
       /\ lastServerStateId' \in [Clients -> Nat] /\ document' \in [Clients -> SUBSET Operation]
  <2>1. log \in Seq(Operation) /\ Len(log) \in Nat
    BY DEF NetworkInv, Types
  <2>2. a.state \in Nat /\ Upto(a.state) \subseteq Operation
    BY <1>7, <2>1 DEF Upto
  <2>3. document \in [Clients -> SUBSET Operation] /\ lastServerStateId \in [Clients -> Nat]
    BY DEF NetworkInv, Types
  <2> QED BY <1>1, <1>3, <1>7, <2>2, <2>3
<1>12. Types'
  <2>1. tickTime \in Nat
    BY <1>2, Fired
  <2> QED BY <1>1, <1>4, <1>9, <1>11, <2>1 DEF NetworkInv, Types
<1>13. (Accounted /\ Fresh /\ Requested)'
  BY <1>1, <1>6, <1>9 DEF NetworkInv, OpInv, Accounted, Fresh, Requested
<1>14. Returning'
  <2> SUFFICES ASSUME NEW d \in Clients, NEW n \in 1..Len(log), log[n][1] = d,
                      n > lastServerStateId'[d]
               PROVE  clientBridge[d] # <<>> /\ log[n] = Head(clientBridge[d])
    BY <1>1 DEF Returning
  <2>1. n > lastServerStateId[d]
    BY <1>7, <1>11
  <2> QED BY <2>1 DEF NetworkInv, OpInv, Returning
<1>15. Sent'
  <2> SUFFICES ASSUME NEW d \in Clients, clientBridge[d] # <<>>
               PROVE  \/ \E e \in Requests : e.source = d
                      \/ \E n \in 1..Len(log) : n > lastServerStateId'[d] /\
                                                log[n] = Head(clientBridge[d])
    BY <1>1, <1>6 DEF Sent
  <2>1. d # c
    BY <1>7
  <2> QED BY <1>11, <2>1 DEF NetworkInv, OpInv, Sent
<1>16. Numbered'
  <2> SUFFICES ASSUME NEW e \in Updates PROVE e.state > lastServerStateId'[e.dest]
    BY <1>1, <1>6 DEF NetworkInv, StateInv, Numbered
  <2>1. e.dest \in Clients
    BY DEF NetworkInv, EventInv, Placed, Joined, Types
  <2> QED BY <1>7, <1>11, <2>1 DEF NetworkInv, StateInv, Numbered
<1>17. Starting'
  <2> SUFFICES ASSUME NEW s \in Snapshots'
               PROVE  /\ lastServerStateId'[s.dest] = 0 /\ clientBridge[s.dest] = <<>>
                      /\ s.state \in 0..Len(log) /\ s.document = Upto(s.state)
                      /\ \A n \in (s.state + 1)..Len(log) : Told(s.dest, n)
                      /\ \A e \in Updates : e.dest = s.dest => e.state > s.state
    BY <1>1, <1>6, <1>9 DEF Starting
  <2>1. s \in Snapshots /\ s.dest # c /\ s.dest \in Clients
    BY <1>5, <1>10 DEF NetworkInv, EventInv, Placed, Joined, Types
  <2> QED BY <1>11, <2>1 DEF NetworkInv, StateInv, Starting
<1>18. Following'
  <2> SUFFICES ASSUME NEW d \in Joined, ~Starts(d)'
               PROVE  /\ lastServerStateId'[d] <= Len(log)
                      /\ document'[d] = Upto(lastServerStateId'[d]) \cup Bridge(d)
                      /\ \A n \in (lastServerStateId'[d] + 1)..Len(log) : Told(d, n)
    <3>1. Joined' = Joined /\ log' = log /\ (\A x : Bridge(x)' = Bridge(x))
          /\ \A x, n : Upto(n)' = Upto(n) /\ Told(x, n)' = Told(x, n)
      BY <1>1, <1>9
    <3> QED BY <3>1 DEF Following
  <2>1. CASE d = c
    <3>1. Bridge(c) = {}
      BY <1>7 DEF Bridge, Seqs!ToSet
    <3> QED BY <1>7, <1>11, <2>1, <3>1
  <2>2. CASE d # c
    <3>1. d \in Clients /\ ~Starts(d)
      BY <1>10, <2>2 DEF Joined, NetworkInv, Types
    <3> QED BY <1>11, <2>2, <3>1 DEF NetworkInv, StateInv, Following
  <2> QED BY <2>1, <2>2
<1>19. Absent'
  BY <1>1, <1>3, <1>4, <1>11 DEF NetworkInv, StateInv, Absent
<1> QED BY <1>2, <1>5, <1>8, <1>12, <1>13, <1>14, <1>15, <1>16, <1>17, <1>18, <1>19
       DEF NetworkInv, OpInv, StateInv

-----------------------------------------------------------------------------
(* A client receives an update                                             *)

\* An event at a client that is due now: the snapshot has been received.
LEMMA Started ==
  ASSUME NetworkInv, NEW a, Fires(a), a \in Locals \cup Updates
  PROVE  /\ a.dest \in Joined /\ a.dest \in Clients /\ a.dest \in components
         /\ ~Starts(a.dest)
<1>1. a.dest \in Joined /\ a.dest \in Clients /\ a.dest \in components
  BY DEF NetworkInv, EventInv, Placed, Joined, Types
<1>2. ASSUME NEW s \in Snapshots, s.dest = a.dest PROVE FALSE
  <2>1. s.time > tickTime
    BY Fired DEF Locals, Updates
  <2>2. s.time <= a.time
    BY <1>2 DEF NetworkInv, EventInv, SnapshotFirst
  <2>3. a.time = tickTime /\ tickTime \in Nat /\ s.time \in Nat
    BY Fired DEF Fires, NetworkInv, EventInv, Placed, Snapshots
  <2> QED BY <2>1, <2>2, <2>3
<1> QED BY <1>1, <1>2 DEF Starts

\* An update that is due is the next, or two were due at one time.
LEMMA NextOrTied ==
  ASSUME NetworkInv, NEW a, Fires(a), a \in Updates, ~tied
  PROVE  a.state = lastServerStateId[a.dest] + 1
<1> DEFINE c == a.dest
           n == lastServerStateId[c] + 1
<1>1. c \in Joined /\ c \in Clients /\ ~Starts(c)
  BY Started
<1>2. lastServerStateId[c] \in Nat /\ Len(log) \in Nat
  BY <1>1 DEF NetworkInv, Types
<1>3. a.state \in 1..Len(log) /\ a.state > lastServerStateId[c]
  BY DEF NetworkInv, StateInv, Numbered
<1>4. n \in (lastServerStateId[c] + 1)..Len(log) /\ n <= a.state
  <2> HIDE DEF c
  <2> QED BY <1>2, <1>3
<1>5. Told(c, n)
  <2>1. \A m \in (lastServerStateId[c] + 1)..Len(log) : Told(c, m)
    BY <1>1 DEF NetworkInv, StateInv, Following
  <2> HIDE DEF n, c
  <2> QED BY <1>4, <2>1
<1>6. PICK e \in Updates : e.dest = c /\ e.state = n
  BY <1>5 DEF Told
<1>7. ASSUME n < a.state PROVE FALSE
  <2>1. e.time < a.time
    BY <1>6, <1>7 DEF NetworkInv, EventInv, InOrder
  <2>2. e.time >= tickTime /\ a.time = tickTime /\ e.time \in Nat /\ tickTime \in Nat
    BY Fired DEF Fires, NetworkInv, EventInv, Placed, Updates
  <2> QED BY <2>1, <2>2
<1> QED BY <1>2, <1>3, <1>4, <1>7

LEMMA ReceiveOutOfOrderStep ==
  ASSUME NetworkInv, ReceiveOutOfOrder
  PROVE  panicked' /\ tied'
<1> DEFINE a == events[1]
<1>1. /\ Ticking /\ events # <<>> /\ a.time = tickTime /\ a.kind = "Remote" /\ Fire(<<>>)
      /\ a.dest # Server /\ a.state # lastServerStateId[a.dest] + 1 /\ panicked'
  BY DEF ReceiveOutOfOrder, Due
<1>2. /\ Fires(a)
      /\ tied => tied'
  BY <1>1, FireNone
<1>3. a \in Updates
  <2>1. a \in Pending
    BY <1>1, FirstEvent
  <2> QED BY <1>1, <2>1 DEF Updates
<1>4. tied
  BY <1>1, <1>2, <1>3, NextOrTied
<1> QED BY <1>1, <1>2, <1>4

\* What the next update is, and what is told when it has been taken.
LEMMA NextUpdate ==
  ASSUME NetworkInv, NEW a, Fires(a), a \in Updates,
         a.state = lastServerStateId[a.dest] + 1
  PROVE  LET c == a.dest
             k == lastServerStateId[c]
         IN  /\ c \in Joined /\ c \in Clients /\ c \in components /\ ~Starts(c)
             /\ k \in Nat /\ Len(log) \in Nat /\ k + 1 \in 1..Len(log)
             /\ a.op = log[k + 1] /\ a.op \in Logged
             /\ Upto(k + 1) = Upto(k) \cup {a.op}
             /\ document[c] = Upto(k) \cup Bridge(c)
             /\ \A n \in (k + 2)..Len(log) : \E e \in Updates \ {a} : e.dest = c /\ e.state = n
             /\ \A e \in Updates \ {a} : e.dest = c => e.state > k + 1
<1> DEFINE c == a.dest
           k == lastServerStateId[c]
<1>1. c \in Joined /\ c \in Clients /\ c \in components /\ ~Starts(c)
  BY Started
<1>2. k \in Nat /\ Len(log) \in Nat
  BY <1>1 DEF NetworkInv, Types
<1>3. k + 1 \in 1..Len(log) /\ a.op = log[k + 1]
  BY DEF NetworkInv, StateInv, Numbered
<1>4. /\ document[c] = Upto(k) \cup Bridge(c)
      /\ \A n \in (k + 1)..Len(log) : Told(c, n)
  BY <1>1 DEF NetworkInv, StateInv, Following
<1>5. a.op \in Logged
  <2>1. Logged = {log[i] : i \in 1..Len(log)}
    BY Elements DEF Logged, NetworkInv, Types
  <2> HIDE DEF k
  <2> QED BY <1>3, <2>1
<1>6. \A e \in Updates \ {a} : e.dest = c => e.state > k /\ e.state # k + 1 /\ e.state \in Nat
  BY DEF NetworkInv, StateInv, Numbered, EventInv, Singles
<1>7. a.state = k + 1
  OBVIOUS
<1> HIDE DEF k, c
<1>8. Upto(k + 1) = Upto(k) \cup {a.op}
  <2>1. 1..(k + 1) = (1..k) \cup {k + 1}
    BY <1>2
  <2> QED BY <1>3, <2>1 DEF Upto
<1>9. ASSUME NEW n \in (k + 2)..Len(log) PROVE \E e \in Updates \ {a} : e.dest = c /\ e.state = n
  <2>1. n \in (k + 1)..Len(log) /\ n # k + 1
    BY <1>2
  <2>2. PICK e \in Updates : e.dest = c /\ e.state = n
    BY <1>4, <2>1 DEF Told
  <2> QED BY <1>7, <2>1, <2>2
<1>10. ASSUME NEW e \in Updates \ {a}, e.dest = c PROVE e.state > k + 1
  BY <1>2, <1>6, <1>10
<1> QED BY <1>1, <1>2, <1>3, <1>4, <1>5, <1>8, <1>9, <1>10 DEF c, k

\* An update of a client of its own is the first in its bridge.
LEMMA OwnUpdate ==
  ASSUME NetworkInv, NEW c \in Clients, NEW n \in 1..Len(log), n > lastServerStateId[c],
         clientBridge[c] # <<>>, log[n] = Head(clientBridge[c])
  PROVE  /\ \A m \in 1..Len(log) : m > lastServerStateId[c] /\ log[m][1] = c => m = n
         /\ Head(clientBridge[c])[1] = c
<1>1. Once(log) /\ DOMAIN log = 1..Len(log)
  BY Elements DEF NetworkInv, OpInv, Fresh, Types
<1>2. \A m \in 1..Len(log) : m > lastServerStateId[c] /\ log[m][1] = c => log[m] = log[n]
  BY DEF NetworkInv, OpInv, Returning
<1>3. Head(clientBridge[c]) \in Bridge(c)
  BY TailSet DEF NetworkInv, OpInv, Fresh, Types, Bridge
<1>4. Head(clientBridge[c]) \in Named(c)
  BY <1>3 DEF NetworkInv, OpInv, Accounted
<1>5. Head(clientBridge[c])[1] = c
  BY <1>4 DEF Named
<1> QED BY <1>1, <1>2, <1>5 DEF Once

LEMMA ReceiveRemoteUpdateStep ==
  ASSUME NetworkInv, ReceiveRemoteUpdate
  PROVE  NetworkInv'
<1> DEFINE a == events[1]
           c == a.dest
           k == lastServerStateId[c]
<1>1. /\ Ticking /\ events # <<>> /\ a.time = tickTime /\ a.kind = "Remote" /\ Fire(<<>>)
      /\ c # Server /\ a.state = k + 1
      /\ clientBridge[c] # <<>> => Head(clientBridge[c]) # a.op
      /\ document' = [document EXCEPT ![c] = @ \cup {a.op}]
      /\ lastServerStateId' = [lastServerStateId EXCEPT ![c] = a.state]
      /\ UNCHANGED <<networkVars, clientBridge, log>>
  BY DEF ReceiveRemoteUpdate, ReceivesNext, Acknowledges, Due
<1>2. /\ Fires(a) /\ IsHeap(events)' /\ Pending' = Pending \ {a}
      /\ ~tied' => ~tied
  BY <1>1, FireNone
<1>3. a \in Updates
  <2>1. a \in Pending
    BY <1>1, FirstEvent
  <2> QED BY <1>1, <2>1 DEF Updates
<1> HIDE DEF a
<1>4. /\ c \in Joined /\ c \in Clients /\ c \in components /\ ~Starts(c)
      /\ k \in Nat /\ Len(log) \in Nat /\ k + 1 \in 1..Len(log)
      /\ a.op = log[k + 1] /\ a.op \in Logged
      /\ Upto(k + 1) = Upto(k) \cup {a.op}
      /\ document[c] = Upto(k) \cup Bridge(c)
      /\ \A n \in (k + 2)..Len(log) : \E e \in Updates \ {a} : e.dest = c /\ e.state = n
      /\ \A e \in Updates \ {a} : e.dest = c => e.state > k + 1
  BY <1>1, <1>2, <1>3, NextUpdate
<1> HIDE DEF c
<1>5. UNCHANGED <<components, clientIds, networkState, tickTime, delay, edits>> /\ clock' = tickTime
  BY <1>1, <1>2 DEF networkVars, Fires
<1>6. /\ Locals' = Locals \ {a} /\ Joiners' = Joiners \ {a} /\ Snapshots' = Snapshots \ {a}
      /\ Requests' = Requests \ {a} /\ Updates' = Updates \ {a}
      /\ EventInv'
  BY <1>2, <1>5, LessPending
<1>7. Locals' = Locals /\ Requests' = Requests /\ Snapshots' = Snapshots
  BY <1>3, <1>6 DEF Locals, Requests, Snapshots, Updates
<1>8. /\ UNCHANGED <<Joined, Logged>>
      /\ \A d : UNCHANGED <<Bridge(d), Named(d), Scheduled(d), Starts(d)>>
      /\ \A n : UNCHANGED Upto(n)
      /\ \A d, n : d # c => UNCHANGED Told(d, n)
  BY <1>1, <1>5, <1>6, <1>7 DEF Joined, Logged, Bridge, Named, Scheduled, Starts, Upto, Told, c
<1>9. /\ \A d \in Clients : d # c => UNCHANGED <<document[d], lastServerStateId[d]>>
      /\ document'[c] = document[c] \cup {a.op} /\ lastServerStateId'[c] = k + 1
      /\ lastServerStateId' \in [Clients -> Nat] /\ document' \in [Clients -> SUBSET Operation]
  <2>1. document \in [Clients -> SUBSET Operation] /\ lastServerStateId \in [Clients -> Nat]
    BY DEF NetworkInv, Types
  <2>2. a.op \in Operation
    BY <1>4 DEF NetworkInv, Types
  <2>3. a.state \in Nat /\ a.state = k + 1
    BY <1>1, <1>4
  <2> QED BY <1>1, <1>4, <2>1, <2>2, <2>3
<1> HIDE DEF k
<1>10. Types'
  <2>1. tickTime \in Nat
    BY <1>2, Fired
  <2> QED BY <1>1, <1>5, <1>8, <1>9, <2>1 DEF NetworkInv, Types
<1>11. (Accounted /\ Fresh /\ Requested)'
  BY <1>1, <1>7, <1>8 DEF NetworkInv, OpInv, Accounted, Fresh, Requested
<1>12. \A d \in Clients : /\ lastServerStateId[d] \in Nat /\ lastServerStateId'[d] \in Nat
                          /\ lastServerStateId'[d] >= lastServerStateId[d]
  <2> SUFFICES ASSUME NEW d \in Clients
               PROVE  /\ lastServerStateId[d] \in Nat /\ lastServerStateId'[d] \in Nat
                      /\ lastServerStateId'[d] >= lastServerStateId[d]
    OBVIOUS
  <2>1. lastServerStateId[d] \in Nat /\ lastServerStateId'[d] \in Nat
    BY <1>9 DEF NetworkInv, Types
  <2>2. CASE d = c
    <3>1. lastServerStateId[d] = k
      BY <2>2 DEF k
    <3> QED BY <1>9, <2>1, <2>2, <3>1
  <2>3. CASE d # c
    BY <1>9, <2>1, <2>3
  <2> QED BY <2>1, <2>2, <2>3
<1>13. Returning'
  <2> SUFFICES ASSUME NEW d \in Clients, NEW n \in 1..Len(log), log[n][1] = d,
                      n > lastServerStateId'[d]
               PROVE  clientBridge[d] # <<>> /\ log[n] = Head(clientBridge[d])
    BY <1>1 DEF Returning
  <2>1. n > lastServerStateId[d]
    BY <1>12
  <2> QED BY <2>1 DEF NetworkInv, OpInv, Returning
<1>14. Sent'
  <2> SUFFICES ASSUME NEW d \in Clients, clientBridge[d] # <<>>
               PROVE  \/ \E e \in Requests : e.source = d
                      \/ \E n \in 1..Len(log) : n > lastServerStateId'[d] /\
                                                log[n] = Head(clientBridge[d])
    BY <1>1, <1>7 DEF Sent
  <2>1. CASE d # c
    BY <1>9, <2>1 DEF NetworkInv, OpInv, Sent
  <2>2. CASE d = c
    <3>1. ASSUME NEW n \in 1..Len(log), n > k, log[n] = Head(clientBridge[c]) PROVE n > k + 1
      BY <1>1, <1>4, <2>2, <3>1
    <3> QED BY <1>9, <2>2, <3>1 DEF NetworkInv, OpInv, Sent, k
  <2> QED BY <2>1, <2>2
<1>15. Numbered'
  <2> SUFFICES ASSUME NEW e \in Updates \ {a} PROVE e.state > lastServerStateId'[e.dest]
    BY <1>1, <1>6 DEF NetworkInv, StateInv, Numbered
  <2>1. e.dest \in Clients
    BY DEF NetworkInv, EventInv, Placed, Joined, Types
  <2> QED BY <1>4, <1>9, <2>1 DEF NetworkInv, StateInv, Numbered
<1>16. Starting'
  <2> SUFFICES ASSUME NEW s \in Snapshots
               PROVE  /\ lastServerStateId'[s.dest] = 0 /\ clientBridge[s.dest] = <<>>
                      /\ s.state \in 0..Len(log) /\ s.document = Upto(s.state)
                      /\ \A n \in (s.state + 1)..Len(log) : Told(s.dest, n)'
                      /\ \A e \in Updates' : e.dest = s.dest => e.state > s.state
    BY <1>1, <1>7, <1>8 DEF Starting
  <2>1. s.dest # c /\ s.dest \in Clients
    BY <1>4 DEF Starts, NetworkInv, EventInv, Placed, Joined, Types
  <2> QED BY <1>6, <1>8, <1>9, <2>1 DEF NetworkInv, StateInv, Starting
<1>17. Following'
  <2> SUFFICES ASSUME NEW d \in Joined, ~Starts(d)
               PROVE  /\ lastServerStateId'[d] <= Len(log)
                      /\ document'[d] = Upto(lastServerStateId'[d]) \cup Bridge(d)
                      /\ \A n \in (lastServerStateId'[d] + 1)..Len(log) : Told(d, n)'
    <3>1. Joined' = Joined /\ log' = log /\ (\A x : Bridge(x)' = Bridge(x) /\ Starts(x)' = Starts(x))
          /\ \A n : Upto(n)' = Upto(n)
      BY <1>1, <1>8
    <3> QED BY <3>1 DEF Following
  <2>1. CASE d = c
    <3>1. k + 1 <= Len(log) /\ (k + 1) + 1 = k + 2
      BY <1>4
    <3>2. \A n \in (k + 2)..Len(log) : Told(d, n)'
      BY <1>4, <1>6, <2>1 DEF Told
    <3> QED BY <1>4, <1>9, <2>1, <3>1, <3>2
  <2>2. CASE d # c
    <3>1. d \in Clients
      BY DEF Joined, NetworkInv, Types
    <3> QED BY <1>8, <1>9, <2>2, <3>1 DEF NetworkInv, StateInv, Following
  <2> QED BY <2>1, <2>2
<1>18. Absent'
  BY <1>1, <1>4, <1>5, <1>9 DEF NetworkInv, StateInv, Absent
<1> QED BY <1>2, <1>6, <1>10, <1>11, <1>13, <1>14, <1>15, <1>16, <1>17, <1>18
       DEF NetworkInv, OpInv, StateInv

-----------------------------------------------------------------------------
(* A client sends an operation                                             *)

\* The events when a has fired and a request e of c is new, if any.
LEMMA Sends ==
  ASSUME NetworkInv, NEW a, Fires(a), NEW c \in Joined, NEW N, ~tied' => ~tied,
         UNCHANGED components, Pending' = (Pending \ {a}) \cup N,
         \A e \in N : /\ e.kind = "Remote" /\ e.dest = Server /\ e.source = c
                      /\ e.time \in Nat /\ e.time >= tickTime,
         \A e, f \in N : e = f,
         N # {} => \A e \in Requests : e.source # c
  PROVE  /\ Locals' = Locals \ {a} /\ Joiners' = Joiners \ {a} /\ Snapshots' = Snapshots \ {a}
         /\ Requests' = (Requests \ {a}) \cup N /\ Updates' = Updates \ {a}
         /\ EventInv'
<1> DEFINE D == {a}
<1>1. /\ Locals' = (Locals \ D) \cup {e \in N : e.kind = "Local"}
      /\ Joiners' = (Joiners \ D) \cup {e \in N : e.kind = "LateJoiner"}
      /\ Snapshots' = (Snapshots \ D) \cup {e \in N : e.kind = "Snapshot"}
      /\ Requests' = (Requests \ D) \cup {e \in N : e.kind = "Remote" /\ e.dest = Server}
      /\ Updates' = (Updates \ D) \cup {e \in N : e.kind = "Remote" /\ e.dest # Server}
  <2>1. Pending' = (Pending \ D) \cup N
    OBVIOUS
  <2> HIDE DEF D
  <2> QED BY <2>1, Split
<1>2. /\ Locals' = Locals \ {a} /\ Joiners' = Joiners \ {a} /\ Snapshots' = Snapshots \ {a}
      /\ Requests' = (Requests \ {a}) \cup N /\ Updates' = Updates \ {a}
  BY <1>1
<1>3. UNCHANGED <<tickTime, delay, Joined, edits>> /\ tickTime # NoTime
  BY DEF Fires, Joined
<1>4. \A d : UNCHANGED Named(d)
  BY <1>3 DEF Named
<1>5. Placed'
  BY <1>2, <1>3, <1>4 DEF NetworkInv, EventInv, Placed
<1>6. Singles'
  <2>1. \A e, f \in Requests' : e.source = f.source => e = f
    BY <1>2 DEF NetworkInv, EventInv, Singles
  <2> QED BY <1>2, <2>1 DEF NetworkInv, EventInv, Singles
<1>7. (AtRest /\ InTime /\ SnapshotFirst /\ InOrder)'
  BY <1>2, <1>3 DEF NetworkInv, EventInv, AtRest, InTime, SnapshotFirst, InOrder
<1> QED BY <1>2, <1>5, <1>6, <1>7 DEF EventInv

LEMMA RequestTime ==
  ASSUME NetworkInv, NEW c \in Clients, Ticking, clock' = tickTime, UNCHANGED delay,
         NEW op, NEW state
  PROVE  LET e == ScheduleRemoteMessage(c, op, state)
         IN  /\ e.kind = "Remote" /\ e.dest = Server /\ e.source = c
             /\ e.op = op /\ e.state = state /\ e.time \in Nat /\ e.time >= tickTime
<1> DEFINE e == ScheduleRemoteMessage(c, op, state)
<1>1. /\ e.kind = "Remote" /\ e.dest = Server /\ e.source = c
      /\ e.op = op /\ e.state = state /\ e.time = tickTime + delay[c].toServer
  BY DEF ScheduleRemoteMessage, Remote, ReceiveTime, Delay
<1>2. tickTime \in Nat /\ delay[c].toServer \in Nat
  BY DEF Ticking, NetworkInv, Types
<1> HIDE DEF e
<1>3. e.time \in Nat /\ e.time >= tickTime
  BY <1>1, <1>2
<1> QED BY <1>1, <1>3 DEF e

LEMMA LocalUpdateStep ==
  ASSUME NetworkInv, LocalUpdate
  PROVE  NetworkInv'
<1> DEFINE a == events[1]
           c == a.dest
           r == ScheduleRemoteMessage(c, a.op, lastServerStateId[c])
           N == IF clientBridge[c] = <<>> THEN {r} ELSE {}
<1>1. /\ Ticking /\ events # <<>> /\ a.time = tickTime /\ a.kind = "Local"
      /\ document' = [document EXCEPT ![c] = @ \cup {a.op}]
      /\ clientBridge' = [clientBridge EXCEPT ![c] = Append(@, a.op)]
      /\ Fire(IF clientBridge[c] = <<>> THEN <<r>> ELSE <<>>)
      /\ UNCHANGED <<networkVars, lastServerStateId, log>>
  BY DEF LocalUpdate, Due
<1>2. clock' = tickTime /\ UNCHANGED delay
  BY <1>1 DEF Fire
<1>3. a \in Locals /\ a.dest \in Clients /\ a.op \in Named(a.dest)
  BY <1>1, FirstEvent DEF Locals, NetworkInv, EventInv, Placed, Joined, Types
<1>4. /\ r.kind = "Remote" /\ r.dest = Server /\ r.source = c /\ r.op = a.op
      /\ r.state = lastServerStateId[c] /\ r.time \in Nat /\ r.time >= tickTime
  BY <1>1, <1>2, <1>3, RequestTime
<1> HIDE DEF r, a
<1>5. ASSUME clientBridge[c] = <<>> PROVE \A e \in Requests : e.source # c
  BY <1>5 DEF NetworkInv, OpInv, Requested
<1>6. /\ Fires(a) /\ IsHeap(events)' /\ Pending' = (Pending \ {a}) \cup N
      /\ ~tied' => ~tied
  <2>1. CASE clientBridge[c] = <<>>
    <3>1. r \notin Pending
      BY <1>4, <1>5, <2>1 DEF Requests
    <3>2. Fire(<<r>>) /\ N = {r}
      BY <1>1, <2>1
    <3> QED BY <1>1, <1>4, <3>1, <3>2, FireOne DEF a
  <2>2. CASE clientBridge[c] # <<>>
    <3>1. Fire(<<>>) /\ N = {}
      BY <1>1, <2>2
    <3> QED BY <1>1, <3>1, FireNone DEF a
  <2> QED BY <2>1, <2>2
<1>7. c \in Joined /\ c \in Clients /\ c \in components /\ ~Starts(c)
  BY <1>3, <1>6, Started
<1>8. /\ UNCHANGED <<components, clientIds, networkState, tickTime, delay, edits>>
      /\ clock' = tickTime
  BY <1>1, <1>6 DEF networkVars, Fires
<1> HIDE DEF c
<1>9. /\ Locals' = Locals \ {a} /\ Joiners' = Joiners \ {a} /\ Snapshots' = Snapshots \ {a}
      /\ Requests' = (Requests \ {a}) \cup N /\ Updates' = Updates \ {a}
      /\ EventInv'
  <2>1. \A e \in N : /\ e.kind = "Remote" /\ e.dest = Server /\ e.source = c
                     /\ e.time \in Nat /\ e.time >= tickTime
    BY <1>4
  <2>2. \A e, f \in N : e = f
    OBVIOUS
  <2>3. N # {} => \A e \in Requests : e.source # c
    BY <1>5
  <2>4. Fires(a) /\ Pending' = (Pending \ {a}) \cup N /\ UNCHANGED components /\ (~tied' => ~tied)
    BY <1>6, <1>8
  <2> HIDE DEF N
  <2> QED BY <1>7, <2>1, <2>2, <2>3, <2>4, Sends
<1>10. Requests' = Requests \cup N /\ Snapshots' = Snapshots /\ Updates' = Updates
  BY <1>1, <1>9 DEF Requests, Snapshots, Updates
<1> DEFINE op == a.op
<1>11. op \in Named(c) /\ op \in Scheduled(c) /\ op \in Operation /\ op[1] = c
  <2>1. op \in Named(c) /\ op \in Scheduled(c)
    BY <1>3 DEF Scheduled, c
  <2>2. edits[c] \in Nat
    BY <1>7 DEF NetworkInv, Types
  <2> HIDE DEF op
  <2> QED BY <1>7, <2>1, <2>2 DEF Named, Operation
<1>12. op \notin Bridge(c) /\ op \notin Logged
  BY <1>7, <1>11 DEF NetworkInv, OpInv, Fresh
<1> DEFINE q == clientBridge[c]
           p == Append(q, op)
<1>13. q \in Seq(Operation) /\ Once(q) /\ Bridge(c) = Seqs!ToSet(q)
  BY <1>7 DEF NetworkInv, OpInv, Fresh, Types, Bridge
<1>14. /\ p \in Seq(Operation) /\ p # <<>> /\ Seqs!ToSet(p) = Bridge(c) \cup {op} /\ Once(p)
       /\ Head(p) = IF q = <<>> THEN op ELSE Head(q)
  <2> HIDE DEF q, op
  <2> QED BY <1>11, <1>12, <1>13, AppendSet
<1>15. /\ clientBridge' \in [Clients -> Seq(Operation)] /\ clientBridge'[c] = p
       /\ \A d \in Clients : d # c => clientBridge'[d] = clientBridge[d]
       /\ document' \in [Clients -> SUBSET Operation] /\ document'[c] = document[c] \cup {op}
       /\ \A d \in Clients : d # c => document'[d] = document[d]
  <2>1. /\ clientBridge \in [Clients -> Seq(Operation)]
        /\ document \in [Clients -> SUBSET Operation]
    BY DEF NetworkInv, Types
  <2>2. clientBridge' = [clientBridge EXCEPT ![c] = p] /\
        document' = [document EXCEPT ![c] = @ \cup {op}]
    BY <1>1
  <2> HIDE DEF p, op
  <2> QED BY <1>7, <1>11, <1>14, <2>1, <2>2
<1> HIDE DEF p, q, op
<1>16. \A d \in Clients : /\ d = c => Bridge(d)' = Bridge(d) \cup {op}
                          /\ d # c => Bridge(d)' = Bridge(d)
  BY <1>14, <1>15 DEF Bridge
<1>17. \A d : /\ d = c => Scheduled(d)' = Scheduled(d) \ {op}
              /\ d # c => Scheduled(d)' = Scheduled(d)
  <2>1. \A f \in Locals : f.op = op => f = a
    BY <1>3 DEF NetworkInv, EventInv, Singles, op
  <2>2. a.op = op /\ a.dest = c
    BY DEF op, c
  <2> QED BY <1>9, <2>1, <2>2 DEF Scheduled
<1>18. /\ UNCHANGED <<Joined, Logged>>
       /\ \A d : UNCHANGED <<Named(d), Starts(d)>>
       /\ \A d, n : UNCHANGED <<Upto(n), Told(d, n)>>
  BY <1>1, <1>8, <1>10 DEF Joined, Logged, Named, Starts, Upto, Told
<1>19. Types'
  <2>1. tickTime \in Nat
    BY <1>6, Fired
  <2> QED BY <1>1, <1>8, <1>15, <1>18, <2>1 DEF NetworkInv, Types
<1>20. Accounted'
  <2> SUFFICES ASSUME NEW d \in Clients
               PROVE  Named(d) = Scheduled(d)' \cup Bridge(d)' \cup {x \in Logged : x[1] = d}
    BY <1>18 DEF Accounted
  <2>1. Named(d) = Scheduled(d) \cup Bridge(d) \cup {x \in Logged : x[1] = d}
    BY DEF NetworkInv, OpInv, Accounted
  <2> QED BY <1>11, <1>16, <1>17, <2>1
<1>21. Fresh'
  <2> SUFFICES ASSUME NEW d \in Clients
               PROVE  /\ Once(clientBridge'[d])
                      /\ Scheduled(d)' \cap Logged = {} /\ Scheduled(d)' \cap Bridge(d)' = {}
                      /\ \A x \in Bridge(d)' : x # Head(clientBridge'[d]) => x \notin Logged
    BY <1>1, <1>18 DEF NetworkInv, OpInv, Fresh
  <2>1. /\ Once(clientBridge[d])
        /\ Scheduled(d) \cap Logged = {} /\ Scheduled(d) \cap Bridge(d) = {}
        /\ \A x \in Bridge(d) : x # Head(clientBridge[d]) => x \notin Logged
    BY DEF NetworkInv, OpInv, Fresh
  <2>2. CASE d # c
    BY <1>15, <1>16, <1>17, <2>1, <2>2
  <2>3. CASE d = c
    <3>1. /\ clientBridge'[d] = p /\ Bridge(d)' = Bridge(d) \cup {op}
          /\ Scheduled(d)' = Scheduled(d) \ {op}
      BY <1>15, <1>16, <1>17, <2>3
    <3>2. q = <<>> => Bridge(d) = {}
      BY <1>13, <2>3 DEF Seqs!ToSet
    <3>3. q # <<>> => Head(p) = Head(clientBridge[d])
      BY <1>14, <2>3 DEF q
    <3> QED BY <1>12, <1>14, <2>1, <3>1, <3>2, <3>3
  <2> QED BY <2>2, <2>3
\* The first in the bridge stays the first.
<1>22. \A d \in Clients : clientBridge[d] # <<>> =>
         clientBridge'[d] # <<>> /\ Head(clientBridge'[d]) = Head(clientBridge[d])
  <2> SUFFICES ASSUME NEW d \in Clients, clientBridge[d] # <<>>
               PROVE  clientBridge'[d] # <<>> /\ Head(clientBridge'[d]) = Head(clientBridge[d])
    OBVIOUS
  <2>1. CASE d = c
    BY <1>14, <1>15, <2>1 DEF q
  <2>2. CASE d # c
    BY <1>15, <2>2
  <2> QED BY <2>1, <2>2
<1>23. Returning'
  <2> SUFFICES ASSUME NEW d \in Clients, NEW n \in 1..Len(log), log[n][1] = d,
                      n > lastServerStateId[d]
               PROVE  clientBridge'[d] # <<>> /\ log[n] = Head(clientBridge'[d])
    BY <1>1 DEF Returning
  <2> QED BY <1>22 DEF NetworkInv, OpInv, Returning
<1>24. Sent'
  <2> SUFFICES ASSUME NEW d \in Clients, clientBridge'[d] # <<>>
               PROVE  \/ \E e \in Requests' : e.source = d
                      \/ \E n \in 1..Len(log) : n > lastServerStateId[d] /\
                                                log[n] = Head(clientBridge'[d])
    BY <1>1 DEF Sent
  <2>1. CASE clientBridge[d] # <<>>
    BY <1>10, <1>22, <2>1 DEF NetworkInv, OpInv, Sent
  <2>2. CASE clientBridge[d] = <<>>
    <3>1. d = c
      BY <1>15, <2>2
    <3>2. r \in Requests' /\ r.source = d
      BY <1>4, <1>10, <2>2, <3>1
    <3> QED BY <3>2
  <2> QED BY <2>1, <2>2
<1>25. Requested'
  <2> SUFFICES ASSUME NEW e \in Requests'
               PROVE  /\ clientBridge'[e.source] # <<>> /\ e.op = Head(clientBridge'[e.source])
                      /\ e.op \notin Logged
                      /\ e.state \in Nat /\ e.state <= Len(log)
    BY <1>1, <1>18 DEF Requested
  <2>1. CASE e \in Requests
    <3>1. e.source \in Clients
      BY <2>1 DEF NetworkInv, EventInv, Placed, Joined, Types
    <3> QED BY <1>22, <2>1, <3>1 DEF NetworkInv, OpInv, Requested
  <2>2. CASE e \notin Requests
    <3>1. e = r /\ clientBridge[c] = <<>>
      BY <1>10, <2>2
    <3>2. Head(p) = op /\ clientBridge'[c] = p /\ p # <<>>
      BY <1>14, <1>15, <3>1 DEF q
    <3>3. e.source = c /\ e.op = op /\ e.state = lastServerStateId[c]
      BY <1>4, <3>1 DEF op
    <3>4. lastServerStateId[c] \in Nat /\ lastServerStateId[c] <= Len(log)
      BY <1>7 DEF NetworkInv, Types, StateInv, Following
    <3> QED BY <1>12, <3>2, <3>3, <3>4
  <2> QED BY <2>1, <2>2
<1>26. Numbered'
  BY <1>1, <1>10 DEF NetworkInv, StateInv, Numbered
<1>27. Starting'
  <2> SUFFICES ASSUME NEW s \in Snapshots
               PROVE  clientBridge'[s.dest] = <<>>
    BY <1>1, <1>10, <1>18 DEF NetworkInv, StateInv, Starting
  <2>1. s.dest # c /\ s.dest \in Clients
    BY <1>7 DEF Starts, NetworkInv, EventInv, Placed, Joined, Types
  <2> QED BY <1>15, <2>1 DEF NetworkInv, StateInv, Starting
<1>28. Following'
  <2> SUFFICES ASSUME NEW d \in Joined, ~Starts(d)
               PROVE  /\ lastServerStateId[d] <= Len(log)
                      /\ document'[d] = Upto(lastServerStateId[d]) \cup Bridge(d)'
                      /\ \A n \in (lastServerStateId[d] + 1)..Len(log) : Told(d, n)
    <3>1. Joined' = Joined /\ log' = log /\ lastServerStateId' = lastServerStateId
          /\ (\A x : Starts(x)' = Starts(x)) /\ (\A n : Upto(n)' = Upto(n))
          /\ (\A x, n : Told(x, n)' = Told(x, n))
      BY <1>1, <1>18
    <3> QED BY <3>1 DEF Following
  <2>1. d \in Clients
    BY DEF Joined, NetworkInv, Types
  <2> QED BY <1>15, <1>16, <2>1 DEF NetworkInv, StateInv, Following
<1>29. Absent'
  BY <1>1, <1>7, <1>8, <1>15 DEF NetworkInv, StateInv, Absent
<1> QED BY <1>6, <1>9, <1>19, <1>20, <1>21, <1>23, <1>24, <1>25, <1>26, <1>27, <1>28, <1>29
       DEF NetworkInv, OpInv, StateInv

LEMMA ReceiveAckStep ==
  ASSUME NetworkInv, ReceiveAck
  PROVE  NetworkInv'
<1> DEFINE a == events[1]
           c == a.dest
           k == lastServerStateId[c]
           q == clientBridge[c]
           p == Tail(q)
           r == ScheduleRemoteMessage(c, Head(p), a.state)
           N == IF p = <<>> THEN {} ELSE {r}
<1>1. /\ Ticking /\ events # <<>> /\ a.time = tickTime /\ a.kind = "Remote"
      /\ c # Server /\ a.state = k + 1 /\ q # <<>> /\ Head(q) = a.op
      /\ clientBridge' = [clientBridge EXCEPT ![c] = p]
      /\ lastServerStateId' = [lastServerStateId EXCEPT ![c] = a.state]
      /\ Fire(IF clientBridge'[c] = <<>> THEN <<>>
              ELSE <<ScheduleRemoteMessage(c, Head(clientBridge'[c]), a.state)>>)
      /\ UNCHANGED <<networkVars, document, log>>
  BY DEF ReceiveAck, ReceivesNext, Acknowledges, Due
<1>2. clock' = tickTime /\ UNCHANGED delay
  BY <1>1 DEF Fire
<1>3. a \in Updates
  <2>1. a \in Pending
    BY <1>1, FirstEvent
  <2> QED BY <1>1, <2>1 DEF Updates
<1>4. c \in Clients
  BY <1>3 DEF NetworkInv, EventInv, Placed, Joined, Types
<1>5. /\ clientBridge' \in [Clients -> Seq(Operation)] /\ clientBridge'[c] = p
      /\ \A d \in Clients : d # c => clientBridge'[d] = clientBridge[d]
  <2>1. clientBridge \in [Clients -> Seq(Operation)] /\ q \in Seq(Operation)
    BY <1>4 DEF NetworkInv, Types
  <2>2. p \in Seq(Operation)
    <3> HIDE DEF q
    <3> QED BY <1>1, <2>1
  <2> HIDE DEF p
  <2> QED BY <1>1, <1>4, <2>1, <2>2
<1>6. Fire(IF p = <<>> THEN <<>> ELSE <<r>>)
  BY <1>1, <1>5
<1>7. /\ r.kind = "Remote" /\ r.dest = Server /\ r.source = c /\ r.op = Head(p)
      /\ r.state = a.state /\ r.time \in Nat /\ r.time >= tickTime
  <2> DEFINE op == Head(p)
             state == a.state
  <2> HIDE DEF op, state, c
  <2>1. LET e == ScheduleRemoteMessage(c, op, state)
        IN  /\ e.kind = "Remote" /\ e.dest = Server /\ e.source = c
            /\ e.op = op /\ e.state = state /\ e.time \in Nat /\ e.time >= tickTime
    BY <1>1, <1>2, <1>4, RequestTime
  <2> QED BY <2>1 DEF op, state
<1> HIDE DEF r, a
\* What the client waited for is in the log, so no request of it is on its way.
<1>8. a.op \in Logged
  <2>1. Logged = {log[i] : i \in 1..Len(log)}
    BY Elements DEF Logged, NetworkInv, Types
  <2> QED BY <1>3, <2>1 DEF NetworkInv, StateInv, Numbered
<1>9. \A e \in Requests : e.source # c
  BY <1>1, <1>8 DEF NetworkInv, OpInv, Requested
<1>10. /\ Fires(a) /\ IsHeap(events)' /\ Pending' = (Pending \ {a}) \cup N
       /\ ~tied' => ~tied
  <2>1. CASE p # <<>>
    <3>1. r \notin Pending
      BY <1>7, <1>9 DEF Requests
    <3>2. Fire(<<r>>) /\ N = {r}
      BY <1>6, <2>1
    <3> QED BY <1>1, <1>7, <3>1, <3>2, FireOne DEF a
  <2>2. CASE p = <<>>
    <3>1. Fire(<<>>) /\ N = {}
      BY <1>6, <2>2
    <3> QED BY <1>1, <3>1, FireNone DEF a
  <2> QED BY <2>1, <2>2
<1>11. /\ c \in Joined /\ c \in Clients /\ c \in components /\ ~Starts(c)
       /\ k \in Nat /\ Len(log) \in Nat /\ k + 1 \in 1..Len(log)
       /\ a.op = log[k + 1] /\ a.op \in Logged
       /\ Upto(k + 1) = Upto(k) \cup {a.op}
       /\ document[c] = Upto(k) \cup Bridge(c)
       /\ \A n \in (k + 2)..Len(log) : \E e \in Updates \ {a} : e.dest = c /\ e.state = n
       /\ \A e \in Updates \ {a} : e.dest = c => e.state > k + 1
  <2>1. Fires(a) /\ a.state = k + 1
    BY <1>1, <1>10
  <2> QED BY <1>3, <2>1, NextUpdate
<1>12. /\ UNCHANGED <<components, clientIds, networkState, tickTime, delay, edits>>
       /\ clock' = tickTime
  BY <1>1, <1>10 DEF networkVars, Fires
<1> HIDE DEF c
<1>13. /\ Locals' = Locals \ {a} /\ Joiners' = Joiners \ {a} /\ Snapshots' = Snapshots \ {a}
       /\ Requests' = (Requests \ {a}) \cup N /\ Updates' = Updates \ {a}
       /\ EventInv'
  <2>1. \A e \in N : /\ e.kind = "Remote" /\ e.dest = Server /\ e.source = c
                     /\ e.time \in Nat /\ e.time >= tickTime
    BY <1>7
  <2>2. \A e, f \in N : e = f
    OBVIOUS
  <2>3. N # {} => \A e \in Requests : e.source # c
    BY <1>9
  <2>4. Fires(a) /\ Pending' = (Pending \ {a}) \cup N /\ UNCHANGED components /\ (~tied' => ~tied)
    BY <1>10, <1>12
  <2> HIDE DEF N
  <2> QED BY <1>11, <2>1, <2>2, <2>3, <2>4, Sends
<1>14. Locals' = Locals /\ Requests' = Requests \cup N /\ Snapshots' = Snapshots
  BY <1>3, <1>13 DEF Locals, Requests, Snapshots, Updates
<1> DEFINE op == a.op
<1>15. q \in Seq(Operation) /\ Once(q) /\ Bridge(c) = Seqs!ToSet(q) /\ q # <<>> /\ Head(q) = op
  BY <1>1, <1>11 DEF NetworkInv, OpInv, Fresh, Types, Bridge
<1>16. /\ p \in Seq(Operation) /\ Once(p) /\ op \in Bridge(c)
       /\ Seqs!ToSet(p) = Bridge(c) \ {op}
  <2> HIDE DEF q, op
  <2> QED BY <1>15, TailSet
<1>17. op[1] = c /\ \A m \in 1..Len(log) : m > k /\ log[m][1] = c => m = k + 1
  <2>1. k + 1 > k
    BY <1>11
  <2> HIDE DEF k
  <2>2. k + 1 > lastServerStateId[c] /\ log[k + 1] = Head(clientBridge[c])
    BY <1>1, <1>11, <2>1 DEF k
  <2> QED BY <1>1, <1>11, <2>2, OwnUpdate DEF k
<1>18. /\ \A d \in Clients : d # c => lastServerStateId'[d] = lastServerStateId[d]
       /\ lastServerStateId'[c] = k + 1
       /\ lastServerStateId' \in [Clients -> Nat]
  <2>1. lastServerStateId \in [Clients -> Nat]
    BY DEF NetworkInv, Types
  <2>2. a.state \in Nat /\ a.state = k + 1
    BY <1>1, <1>11
  <2> QED BY <1>1, <1>11, <2>1, <2>2
<1> HIDE DEF k, p, q, op
<1>19. \A d \in Clients : /\ d = c => Bridge(d)' = Bridge(d) \ {op}
                          /\ d # c => Bridge(d)' = Bridge(d)
  BY <1>5, <1>16 DEF Bridge
<1>20. /\ UNCHANGED <<Joined, Logged>>
       /\ \A d : UNCHANGED <<Named(d), Scheduled(d), Starts(d)>>
       /\ \A n : UNCHANGED Upto(n)
       /\ \A d, n : d # c => UNCHANGED Told(d, n)
  BY <1>1, <1>12, <1>13, <1>14 DEF Joined, Logged, Named, Scheduled, Starts, Upto, Told, c
<1>21. Types'
  <2>1. tickTime \in Nat
    BY <1>10, Fired
  <2> QED BY <1>1, <1>5, <1>12, <1>18, <1>20, <2>1 DEF NetworkInv, Types
<1>22. op \in Logged
  BY <1>11 DEF op
<1>23. Accounted'
  <2> SUFFICES ASSUME NEW d \in Clients
               PROVE  Named(d) = Scheduled(d) \cup Bridge(d)' \cup {x \in Logged : x[1] = d}
    BY <1>20 DEF Accounted
  <2>1. Named(d) = Scheduled(d) \cup Bridge(d) \cup {x \in Logged : x[1] = d}
    BY DEF NetworkInv, OpInv, Accounted
  <2> QED BY <1>17, <1>19, <1>22, <2>1
<1>24. Fresh'
  <2> SUFFICES ASSUME NEW d \in Clients
               PROVE  /\ Once(clientBridge'[d])
                      /\ Scheduled(d) \cap Logged = {} /\ Scheduled(d) \cap Bridge(d)' = {}
                      /\ \A x \in Bridge(d)' : x # Head(clientBridge'[d]) => x \notin Logged
    BY <1>1, <1>20 DEF NetworkInv, OpInv, Fresh
  <2>1. /\ Once(clientBridge[d])
        /\ Scheduled(d) \cap Logged = {} /\ Scheduled(d) \cap Bridge(d) = {}
        /\ \A x \in Bridge(d) : x # Head(clientBridge[d]) => x \notin Logged
    BY DEF NetworkInv, OpInv, Fresh
  <2>2. CASE d # c
    BY <1>5, <1>19, <2>1, <2>2
  <2>3. CASE d = c
    <3>1. clientBridge'[d] = p /\ Bridge(d)' = Bridge(d) \ {op} /\ Head(clientBridge[d]) = op
      BY <1>5, <1>15, <1>19, <2>3 DEF q
    <3> QED BY <1>16, <2>1, <3>1
  <2> QED BY <2>2, <2>3
<1>25. Returning'
  <2> SUFFICES ASSUME NEW d \in Clients, NEW n \in 1..Len(log), log[n][1] = d,
                      n > lastServerStateId'[d]
               PROVE  clientBridge'[d] # <<>> /\ log[n] = Head(clientBridge'[d])
    BY <1>1 DEF Returning
  <2>1. CASE d = c
    <3>1. n > k + 1 /\ log[n][1] = c
      BY <1>18, <2>1
    <3>2. n > k /\ n # k + 1
      BY <1>11, <3>1
    <3> QED BY <1>17, <3>1, <3>2
  <2>2. CASE d # c
    BY <1>5, <1>18, <2>2 DEF NetworkInv, OpInv, Returning
  <2> QED BY <2>1, <2>2
<1>26. Sent'
  <2> SUFFICES ASSUME NEW d \in Clients, clientBridge'[d] # <<>>
               PROVE  \/ \E e \in Requests' : e.source = d
                      \/ \E n \in 1..Len(log) : n > lastServerStateId'[d] /\
                                                log[n] = Head(clientBridge'[d])
    BY <1>1 DEF Sent
  <2>1. CASE d # c
    BY <1>5, <1>14, <1>18, <2>1 DEF NetworkInv, OpInv, Sent
  <2>2. CASE d = c
    <3>1. r \in Requests' /\ r.source = d
      BY <1>5, <1>7, <1>14, <2>2
    <3> QED BY <3>1
  <2> QED BY <2>1, <2>2
<1>27. Requested'
  <2> SUFFICES ASSUME NEW e \in Requests'
               PROVE  /\ clientBridge'[e.source] # <<>> /\ e.op = Head(clientBridge'[e.source])
                      /\ e.op \notin Logged
                      /\ e.state \in Nat /\ e.state <= Len(log)
    BY <1>1, <1>20 DEF Requested
  <2>1. CASE e \in Requests
    <3>1. e.source \in Clients /\ e.source # c
      BY <1>9, <2>1 DEF NetworkInv, EventInv, Placed, Joined, Types
    <3> QED BY <1>5, <2>1, <3>1 DEF NetworkInv, OpInv, Requested
  <2>2. CASE e \notin Requests
    <3>1. e = r /\ p # <<>>
      BY <1>14, <2>2
    <3>2. Head(p) \in Bridge(c) \ {op}
      BY <1>16, <3>1, TailSet
    <3>3. Head(p) \notin Logged
      <4>1. Head(clientBridge[c]) = op
        BY <1>15 DEF q
      <4> QED BY <1>11, <3>2, <4>1 DEF NetworkInv, OpInv, Fresh
    <3>4. a.state \in Nat /\ a.state <= Len(log)
      BY <1>3, <1>11 DEF NetworkInv, StateInv, Numbered
    <3> QED BY <1>5, <1>7, <3>1, <3>3, <3>4
  <2> QED BY <2>1, <2>2
<1>28. Numbered'
  <2> SUFFICES ASSUME NEW e \in Updates \ {a} PROVE e.state > lastServerStateId'[e.dest]
    BY <1>1, <1>13 DEF NetworkInv, StateInv, Numbered
  <2>1. e.dest \in Clients
    BY DEF NetworkInv, EventInv, Placed, Joined, Types
  <2> QED BY <1>11, <1>18, <2>1 DEF NetworkInv, StateInv, Numbered
<1>29. Starting'
  <2> SUFFICES ASSUME NEW s \in Snapshots
               PROVE  /\ lastServerStateId'[s.dest] = 0 /\ clientBridge'[s.dest] = <<>>
                      /\ s.state \in 0..Len(log) /\ s.document = Upto(s.state)
                      /\ \A n \in (s.state + 1)..Len(log) : Told(s.dest, n)'
                      /\ \A e \in Updates' : e.dest = s.dest => e.state > s.state
    BY <1>1, <1>14, <1>20 DEF Starting
  <2>1. s.dest # c /\ s.dest \in Clients
    BY <1>11 DEF Starts, NetworkInv, EventInv, Placed, Joined, Types
  <2> QED BY <1>5, <1>13, <1>18, <1>20, <2>1 DEF NetworkInv, StateInv, Starting
<1>30. Following'
  <2> SUFFICES ASSUME NEW d \in Joined, ~Starts(d)
               PROVE  /\ lastServerStateId'[d] <= Len(log)
                      /\ document[d] = Upto(lastServerStateId'[d]) \cup Bridge(d)'
                      /\ \A n \in (lastServerStateId'[d] + 1)..Len(log) : Told(d, n)'
    <3>1. Joined' = Joined /\ log' = log /\ document' = document /\ (\A x : Starts(x)' = Starts(x))
          /\ \A n : Upto(n)' = Upto(n)
      BY <1>1, <1>20
    <3> QED BY <3>1 DEF Following
  <2>1. CASE d = c
    <3>1. k + 1 <= Len(log) /\ (k + 1) + 1 = k + 2
      BY <1>11
    <3>2. \A n \in (k + 2)..Len(log) : Told(d, n)'
      BY <1>11, <1>13, <2>1 DEF Told
    <3>3. Upto(k + 1) \cup (Bridge(c) \ {op}) = Upto(k) \cup Bridge(c)
      BY <1>11, <1>16 DEF op
    <3> QED BY <1>11, <1>18, <1>19, <2>1, <3>1, <3>2, <3>3
  <2>2. CASE d # c
    <3>1. d \in Clients
      BY DEF Joined, NetworkInv, Types
    <3> QED BY <1>18, <1>19, <1>20, <2>2, <3>1 DEF NetworkInv, StateInv, Following
  <2> QED BY <2>1, <2>2
<1>31. Absent'
  BY <1>1, <1>5, <1>11, <1>12, <1>18 DEF NetworkInv, StateInv, Absent
<1> QED BY <1>10, <1>13, <1>21, <1>23, <1>24, <1>25, <1>26, <1>27, <1>28, <1>29, <1>30, <1>31
       DEF NetworkInv, OpInv, StateInv

-----------------------------------------------------------------------------
(* The server receives an operation                                        *)

\* Every client is told, once, in the time its messages take.
LEMMA Broadcasts ==
  ASSUME NetworkInv, NEW a, tickTime \in Nat, clock' = tickTime, UNCHANGED delay
  PROVE  LET new == Broadcast(a)
             N   == Seqs!ToSet(new)
         IN  /\ new \in Seq(N) /\ Once(new) /\ Timed(N)
             /\ \A u \in N : /\ u.kind = "Remote" /\ u.dest \in Joined /\ u.dest \in Clients
                             /\ u.dest # Server /\ u.op = a.op /\ u.state = Len(log) + 1
                             /\ u.time = tickTime + delay[u.dest].toClient /\ u.time \in Nat
             /\ \A c \in Joined : \E u \in N : u.dest = c
             /\ \A u, v \in N : u.dest = v.dest => u = v
<1> DEFINE n == Len(clientIds)
           M(c) == Remote(Server, c, a.op, Len(log) + 1, ReceiveTime(Server, c))
           new == Broadcast(a)
           N == Seqs!ToSet(new)
<1>1. /\ clientIds \in Seq(Clients) /\ n \in Nat /\ DOMAIN clientIds = 1..n
      /\ Joined = {clientIds[i] : i \in 1..n} /\ Once(clientIds)
      /\ \A i \in 1..n : clientIds[i] \in Clients
  <2>1. clientIds \in Seq(Clients) /\ Once(clientIds) /\ Seqs!ToSet(clientIds) = Joined
    BY DEF NetworkInv, Types
  <2> QED BY <2>1, Elements
<1>2. new = [i \in 1..n |-> M(clientIds[i])]
  BY <1>1 DEF Broadcast
<1>3. ASSUME NEW c \in Clients
      PROVE  /\ M(c).kind = "Remote" /\ M(c).dest = c /\ c # Server /\ M(c).op = a.op
             /\ M(c).state = Len(log) + 1
             /\ M(c).time = tickTime + delay[c].toClient /\ M(c).time \in Nat
  <2>1. c # Server /\ delay[c].toClient \in Nat
    BY SimNetworkAssumption DEF NetworkInv, Types
  <2> QED BY <2>1 DEF Remote, ReceiveTime, Delay
<1> HIDE DEF n, M, new
<1>4. /\ DOMAIN new = 1..n /\ Len(new) = n /\ \A i \in 1..n : new[i] = M(clientIds[i])
      /\ N = {M(clientIds[i]) : i \in 1..n}
  BY <1>1, <1>2 DEF Seqs!ToSet
<1>5. new \in Seq(N)
  <2>1. \A i \in 1..n : new[i] \in N
    BY <1>4
  <2>2. new \in [1..n -> N]
    BY <1>2, <2>1
  <2> HIDE DEF N
  <2> QED BY <1>1, <2>2
<1>6. Once(new)
  <2> SUFFICES ASSUME NEW i \in 1..n, NEW j \in 1..n, new[i] = new[j] PROVE i = j
    BY <1>4 DEF Once
  <2>1. clientIds[i] = clientIds[j]
    BY <1>1, <1>3, <1>4
  <2> QED BY <1>1, <2>1 DEF Once
<1>7. ASSUME NEW u \in N
      PROVE  /\ u = M(u.dest)
             /\ u.kind = "Remote" /\ u.dest \in Joined /\ u.dest \in Clients
             /\ u.dest # Server /\ u.op = a.op /\ u.state = Len(log) + 1
             /\ u.time = tickTime + delay[u.dest].toClient /\ u.time \in Nat
  <2>1. PICK i \in 1..n : u = M(clientIds[i])
    BY <1>4
  <2> DEFINE c == clientIds[i]
  <2>2. c \in Clients /\ c \in Joined /\ u = M(c)
    BY <1>1, <2>1
  <2> HIDE DEF c
  <2> QED BY <1>3, <2>2
<1>8. Timed(N)
  BY <1>7 DEF Timed
<1>9. ASSUME NEW c \in Joined PROVE \E u \in N : u.dest = c
  <2>1. PICK i \in 1..n : c = clientIds[i]
    BY <1>1
  <2>2. M(c) \in N /\ c \in Clients
    BY <1>1, <1>4, <2>1
  <2> QED BY <1>3, <2>2
<1>10. \A u, v \in N : u.dest = v.dest => u = v
  BY <1>7
<1> QED BY <1>5, <1>6, <1>7, <1>8, <1>9, <1>10 DEF new

\* No client is ahead of the server.
LEMMA NotAhead ==
  ASSUME NetworkInv, NEW c \in Joined
  PROVE  c \in Clients /\ lastServerStateId[c] \in Nat /\ lastServerStateId[c] <= Len(log)
<1>1. c \in Clients /\ lastServerStateId[c] \in Nat /\ Len(log) \in Nat
  BY DEF Joined, NetworkInv, Types
<1>2. CASE Starts(c)
  BY <1>1, <1>2 DEF Starts, NetworkInv, StateInv, Starting
<1>3. CASE ~Starts(c)
  BY <1>1, <1>3 DEF NetworkInv, StateInv, Following
<1> QED BY <1>1, <1>2, <1>3

LEMMA ServerRemoteUpdateStep ==
  ASSUME NetworkInv, ServerRemoteUpdate
  PROVE  ~panicked' /\ NetworkInv'
<1> DEFINE a == events[1]
           b == a.source
           op == a.op
           new == Broadcast(a)
           N == Seqs!ToSet(new)
           L == Len(log)
<1>1. /\ Ticking /\ events # <<>> /\ a.time = tickTime /\ a.kind = "Remote"
      /\ a.dest = Server /\ panicked' = (a.state > Len(log))
      /\ log' = Append(log, op) /\ Fire(new) /\ UNCHANGED <<networkVars, clientVars>>
  BY DEF ServerRemoteUpdate, Due
<1>2. clock' = tickTime /\ tickTime \in Nat /\ UNCHANGED delay
  BY <1>1 DEF Fire, Ticking, NetworkInv, Types
<1>3. a \in Requests /\ b \in Joined /\ b \in Clients
  <2>1. a \in Requests
    BY <1>1, FirstEvent DEF Requests
  <2> QED BY <2>1 DEF NetworkInv, EventInv, Placed, Joined, Types
<1>4. /\ clientBridge[b] # <<>> /\ op = Head(clientBridge[b]) /\ op \notin Logged
      /\ a.state \in Nat /\ a.state <= Len(log)
  BY <1>3 DEF NetworkInv, OpInv, Requested
<1>5. ~panicked'
  <2>1. Len(log) \in Nat
    BY DEF NetworkInv, Types
  <2>2. ~(a.state > Len(log))
    BY <1>4, <2>1
  <2> QED BY <1>1, <2>2, Zenon
<1>6. /\ new \in Seq(N) /\ Once(new) /\ Timed(N)
      /\ \A u \in N : /\ u.kind = "Remote" /\ u.dest \in Joined /\ u.dest \in Clients
                      /\ u.dest # Server /\ u.op = op /\ u.state = L + 1
                      /\ u.time = tickTime + delay[u.dest].toClient /\ u.time \in Nat
      /\ \A c \in Joined : \E u \in N : u.dest = c
      /\ \A u, v \in N : u.dest = v.dest => u = v
  <2> HIDE DEF a
  <2> QED BY <1>2, Broadcasts
<1>7. L \in Nat /\ \A e \in Updates : e.state \in 1..L
  BY DEF NetworkInv, Types, StateInv, Numbered
<1>8. \A u \in N : u \notin Pending
  <2> SUFFICES ASSUME NEW u \in N, u \in Pending PROVE FALSE
    OBVIOUS
  <2>1. u \in Updates
    BY <1>6 DEF Updates
  <2>2. u.state \in 1..L /\ u.state = L + 1
    BY <1>6, <1>7, <2>1
  <2> HIDE DEF L
  <2> QED BY <1>7, <2>2
<1>9. /\ Fires(a) /\ IsHeap(events)' /\ Pending' = (Pending \ {a}) \cup N
      /\ ~tied' => /\ ~tied
                   /\ \A f \in Pending \ {a}, g \in N : ~SameDelivery(f, g)
  <2>1. \A i \in DOMAIN new : new[i] \notin Pending
    BY <1>8 DEF Seqs!ToSet
  <2>2. /\ Fires(events[1])
        /\ IsHeap(events)'
        /\ Pending' = (Pending \ {events[1]}) \cup Seqs!ToSet(new)
        /\ tied => tied'
        /\ ~tied' => /\ ~tied
                     /\ \A f \in Pending \ {events[1]}, g \in Seqs!ToSet(new) :
                          ~SameDelivery(f, g)
    <3> HIDE DEF N, new
    <3>1. new \in Seq(N) /\ Once(new) /\ Timed(N) /\ Fire(new) /\ Ticking /\ events # <<>>
          /\ events[1].time = tickTime
      BY <1>1, <1>6
    <3> QED BY <2>1, <3>1, FireStep
  <2> QED BY <2>2
<1> HIDE DEF a, b, op, N, new
<1>10. /\ UNCHANGED <<components, clientIds, networkState, tickTime, delay, edits>>
       /\ clock' = tickTime /\ tickTime # NoTime
       /\ UNCHANGED <<document, lastServerStateId, clientBridge>>
  BY <1>1, <1>9 DEF networkVars, clientVars, Fires
<1>11. /\ Locals' = Locals /\ Joiners' = Joiners /\ Snapshots' = Snapshots
       /\ Requests' = Requests \ {a} /\ Updates' = Updates \cup N
  <2>1. Pending' = (Pending \ {a}) \cup N
    BY <1>9
  <2>2. /\ Locals' = Locals \ {a} /\ Joiners' = Joiners \ {a}
        /\ Snapshots' = Snapshots \ {a}
    BY <1>6, <2>1 DEF Locals, Joiners, Snapshots
  <2>3. Requests' = Requests \ {a} /\ Updates' = (Updates \ {a}) \cup N
    BY <1>6, <2>1 DEF Requests, Updates
  <2>4. a \notin Locals /\ a \notin Joiners /\ a \notin Snapshots /\ a \notin Updates
    BY <1>3, Disjoint DEF NetworkInv, EventInv
  <2> QED BY <2>2, <2>3, <2>4

\* The events.
<1>12. UNCHANGED Joined /\ \A d : UNCHANGED <<Named(d), Scheduled(d), Bridge(d), Starts(d)>>
  BY <1>10, <1>11 DEF Joined, Named, Scheduled, Bridge, Starts
<1>13. Placed'
  BY <1>6, <1>9, <1>10, <1>11, <1>12 DEF NetworkInv, EventInv, Placed
<1>14. Singles'
  <2>1. \A e, f \in Updates' : e.dest = f.dest /\ e.state = f.state => e = f
    <3> SUFFICES ASSUME NEW e \in Updates', NEW f \in Updates', e.dest = f.dest, e.state = f.state
                 PROVE  e = f
      OBVIOUS
    <3>1. L + 1 \notin 1..L
      BY <1>7
    <3>2. CASE e \in N /\ f \in N
      BY <1>6, <3>2
    <3>3. CASE e \in Updates /\ f \in Updates
      BY <3>3 DEF NetworkInv, EventInv, Singles
    <3>4. CASE (e \in N /\ f \in Updates) \/ (f \in N /\ e \in Updates)
      BY <1>6, <1>7, <3>1, <3>4
    <3> QED BY <1>11, <3>2, <3>3, <3>4
  <2> QED BY <1>11, <2>1 DEF NetworkInv, EventInv, Singles
<1>15. AtRest'
  BY <1>10 DEF AtRest
<1>16. \A c \in Clients : delay[c].toClient \in Nat
  BY DEF NetworkInv, Types
<1>17. InTime'
  <2>1. \A u \in N : u.time >= tickTime /\ u.time <= tickTime + delay[u.dest].toClient
    BY <1>2, <1>6, <1>16
  <2>2. \A f \in Pending : f.time >= tickTime
    BY <1>9, Fired
  <2>3. \A f \in Snapshots \cup Updates : f.time <= tickTime + delay[f.dest].toClient
    BY <1>9, Fired
  <2>4. \A f \in Pending' : f.time >= tickTime
    BY <1>9, <2>1, <2>2
  <2>5. \A f \in (Snapshots \cup Updates)' : f.time <= tickTime + delay[f.dest].toClient
    BY <1>11, <2>1, <2>3
  <2> QED BY <1>10, <2>4, <2>5 DEF InTime
<1>18. SnapshotFirst'
  <2>1. ASSUME NEW s \in Snapshots, NEW u \in N, s.dest = u.dest PROVE s.time <= u.time
    <3>1. s.time <= tickTime + delay[s.dest].toClient
      BY <1>9, Fired
    <3> QED BY <1>6, <2>1, <3>1
  <2> QED BY <1>11, <2>1 DEF NetworkInv, EventInv, SnapshotFirst
<1>19. InOrder'
  <2> SUFFICES ASSUME ~tied', NEW e \in Updates', NEW f \in Updates', e.dest = f.dest,
                      e.state < f.state
               PROVE  e.time < f.time
    BY DEF InOrder
  <2>1. ~tied /\ \A x \in Pending \ {a}, g \in N : ~SameDelivery(x, g)
    BY <1>9
  <2>2. CASE e \in Updates /\ f \in Updates
    BY <2>1, <2>2 DEF NetworkInv, EventInv, InOrder
  <2>3. CASE e \in Updates /\ f \in N
    <3>1. e \in Pending \ {a} /\ e.kind = "Remote" /\ e.dest # Server /\ e.time \in Nat
      <4>1. a \notin Updates
        BY <1>3, Disjoint DEF NetworkInv, EventInv
      <4> QED BY <2>3, <4>1 DEF Updates, NetworkInv, EventInv, Placed
    <3>2. ~SameDelivery(e, f)
      BY <2>1, <2>3, <3>1
    <3>3. e.time # f.time
      BY <1>6, <2>3, <3>1, <3>2 DEF SameDelivery
    <3>4. e.time <= tickTime + delay[e.dest].toClient
      BY <1>9, <2>3, Fired
    <3>5. e.time <= f.time /\ f.time \in Nat
      BY <1>6, <2>3, <3>4
    <3> QED BY <3>1, <3>3, <3>5
  <2>4. CASE e \in N
    <3>1. e.state = L + 1
      BY <1>6, <2>4
    <3>2. f.state \in 1..L \/ f.state = L + 1
      BY <1>6, <1>7, <1>11
    <3> HIDE DEF L
    <3> QED BY <1>7, <3>1, <3>2
  <2> QED BY <1>11, <2>2, <2>3, <2>4

\* The log.
<1>20. /\ op \in Operation /\ op[1] = b /\ op \in Bridge(b)
       /\ \A d \in Clients : op \in Bridge(d) => d = b
  <2>1. Head(clientBridge[b]) \in Bridge(b)
    BY <1>3, <1>4, TailSet DEF NetworkInv, OpInv, Fresh, Types, Bridge
  <2>2. \A d \in Clients : op \in Bridge(d) => op \in Named(d)
    BY DEF NetworkInv, OpInv, Accounted
  <2>3. \A d \in Clients : op \in Named(d) => op[1] = d /\ op \in Operation
    <3> SUFFICES ASSUME NEW d \in Clients, op \in Named(d) PROVE op[1] = d /\ op \in Operation
      OBVIOUS
    <3>1. edits[d] \in Nat
      BY DEF NetworkInv, Types
    <3> QED BY <3>1 DEF Named, Operation
  <2> QED BY <1>3, <1>4, <2>1, <2>2, <2>3
<1>21. /\ log' \in Seq(Operation) /\ Len(log') = L + 1 /\ log'[L + 1] = op
       /\ \A i \in 1..L : log'[i] = log[i]
       /\ Logged' = Logged \cup {op} /\ Once(log')
  <2>1. log \in Seq(Operation) /\ Once(log)
    BY DEF NetworkInv, Types, OpInv, Fresh
  <2> QED BY <1>1, <1>4, <1>20, <2>1, AppendSet DEF Logged
<1>22. /\ 1..(L + 1) = (1..L) \cup {L + 1} /\ L + 1 \notin 1..L
       /\ \A n \in 0..L : UNCHANGED Upto(n)
       /\ \A n : \A d : Told(d, n) => Told(d, n)'
       /\ \A d \in Joined : \A n : n = L + 1 => Told(d, n)'
  <2>1. 1..(L + 1) = (1..L) \cup {L + 1} /\ L + 1 \notin 1..L
    BY <1>7
  <2>2. ASSUME NEW n \in 0..L PROVE Upto(n)' = Upto(n)
    <3>1. \A i \in 1..n : i \in 1..L
      BY <1>7
    <3> QED BY <1>21, <3>1 DEF Upto
  <2>3. \A n : \A d : Told(d, n) => Told(d, n)'
    BY <1>11 DEF Told
  <2>4. ASSUME NEW d \in Joined PROVE \E u \in Updates' : u.dest = d /\ u.state = L + 1
    BY <1>6, <1>11
  <2>5. ASSUME NEW d \in Joined, NEW n, n = L + 1 PROVE Told(d, n)'
    BY <2>4, <2>5 DEF Told
  <2> HIDE DEF L
  <2> QED BY <2>1, <2>2, <2>3, <2>5
<1> HIDE DEF L
<1>23. Types'
  BY <1>2, <1>10, <1>12, <1>21 DEF NetworkInv, Types
<1>24. Accounted'
  <2> SUFFICES ASSUME NEW d \in Clients
               PROVE  Named(d) = Scheduled(d) \cup Bridge(d) \cup {x \in Logged' : x[1] = d}
    BY <1>12 DEF Accounted
  <2>1. Named(d) = Scheduled(d) \cup Bridge(d) \cup {x \in Logged : x[1] = d}
    BY DEF NetworkInv, OpInv, Accounted
  <2> QED BY <1>20, <1>21, <2>1
<1>25. Fresh'
  <2> SUFFICES ASSUME NEW d \in Clients
               PROVE  /\ Once(clientBridge[d])
                      /\ Scheduled(d) \cap Logged' = {} /\ Scheduled(d) \cap Bridge(d) = {}
                      /\ \A x \in Bridge(d) : x # Head(clientBridge[d]) => x \notin Logged'
    BY <1>10, <1>12, <1>21 DEF Fresh
  <2>1. /\ Once(clientBridge[d])
        /\ Scheduled(d) \cap Logged = {} /\ Scheduled(d) \cap Bridge(d) = {}
        /\ \A x \in Bridge(d) : x # Head(clientBridge[d]) => x \notin Logged
    BY DEF NetworkInv, OpInv, Fresh
  <2>2. op \notin Scheduled(d)
    <3>1. op \in Scheduled(d) => op[1] = d
      <4>1. op \in Scheduled(d) => op \in Named(d)
        BY DEF NetworkInv, OpInv, Accounted
      <4> QED BY <4>1 DEF Named
    <3> QED BY <1>20, <2>1, <3>1
  <2> QED BY <1>4, <1>20, <1>21, <2>1, <2>2
<1>26. Returning'
  <2> SUFFICES ASSUME NEW d \in Clients, NEW n \in 1..(L + 1), log'[n][1] = d,
                      n > lastServerStateId[d]
               PROVE  clientBridge[d] # <<>> /\ log'[n] = Head(clientBridge[d])
    BY <1>10, <1>21 DEF Returning
  <2>1. CASE n = L + 1
    BY <1>4, <1>20, <1>21, <2>1
  <2>2. CASE n # L + 1
    <3>1. n \in 1..L /\ log'[n] = log[n]
      BY <1>21, <1>22, <2>2
    <3> QED BY <3>1 DEF NetworkInv, OpInv, Returning, L
  <2> QED BY <2>1, <2>2
<1>27. Sent'
  <2> SUFFICES ASSUME NEW d \in Clients, clientBridge[d] # <<>>
               PROVE  \/ \E e \in Requests' : e.source = d
                      \/ \E n \in 1..(L + 1) : n > lastServerStateId[d] /\
                                               log'[n] = Head(clientBridge[d])
    BY <1>10, <1>21 DEF Sent
  <2>1. CASE d = b
    <3>1. lastServerStateId[d] \in Nat /\ lastServerStateId[d] <= L
      BY <1>3, <2>1, NotAhead DEF L
    <3>2. L + 1 \in 1..(L + 1) /\ L + 1 > lastServerStateId[d]
      BY <1>7, <3>1
    <3> QED BY <1>4, <1>21, <2>1, <3>2
  <2>2. CASE d # b
    <3>1. CASE \E e \in Requests : e.source = d
      BY <1>11, <2>2, <3>1 DEF b
    <3>2. CASE \E n \in 1..L : n > lastServerStateId[d] /\ log[n] = Head(clientBridge[d])
      <4>1. PICK n \in 1..L : n > lastServerStateId[d] /\ log[n] = Head(clientBridge[d])
        BY <3>2
      <4> QED BY <1>21, <1>22, <4>1
    <3> QED BY <3>1, <3>2 DEF NetworkInv, OpInv, Sent, L
  <2> QED BY <2>1, <2>2
<1>28. Requested'
  <2> SUFFICES ASSUME NEW e \in Requests \ {a}
               PROVE  /\ clientBridge[e.source] # <<>> /\ e.op = Head(clientBridge[e.source])
                      /\ e.op \notin Logged'
                      /\ e.state \in Nat /\ e.state <= L + 1
    BY <1>10, <1>11, <1>21 DEF Requested
  <2>1. e.source # b /\ e.source \in Clients
    BY <1>3 DEF NetworkInv, EventInv, Singles, Placed, Joined, Types, b
  <2>2. /\ clientBridge[e.source] # <<>> /\ e.op = Head(clientBridge[e.source])
        /\ e.op \notin Logged
        /\ e.state \in Nat /\ e.state <= L
    BY DEF NetworkInv, OpInv, Requested, L
  <2>3. e.op \in Bridge(e.source)
    BY <2>1, <2>2, TailSet DEF NetworkInv, OpInv, Fresh, Types, Bridge
  <2>4. e.op # op
    BY <1>20, <2>1, <2>3
  <2>5. e.state <= L + 1
    BY <1>7, <2>2
  <2> QED BY <1>21, <2>2, <2>4, <2>5

\* The states.
<1>29. \A d \in Joined : /\ d \in Clients /\ lastServerStateId[d] \in Nat
                         /\ lastServerStateId[d] <= L
  BY NotAhead DEF L
<1>30. Numbered'
  <2> SUFFICES ASSUME NEW e \in Updates'
               PROVE  /\ e.state \in 1..(L + 1) /\ e.op = log'[e.state]
                      /\ e.state > lastServerStateId[e.dest]
    BY <1>10, <1>21 DEF Numbered
  <2>1. CASE e \in Updates
    <3>1. e.state \in 1..L /\ e.op = log[e.state] /\ e.state > lastServerStateId[e.dest]
      BY <2>1 DEF NetworkInv, StateInv, Numbered, L
    <3> QED BY <1>21, <1>22, <3>1
  <2>2. CASE e \in N
    <3>1. e.state = L + 1 /\ e.op = op /\ e.dest \in Joined
      BY <1>6, <2>2
    <3>2. L + 1 \in 1..(L + 1) /\ L + 1 > lastServerStateId[e.dest]
      BY <1>7, <1>29, <3>1
    <3> QED BY <1>21, <3>1, <3>2
  <2> QED BY <1>11, <2>1, <2>2
<1>31. Starting'
  <2> SUFFICES ASSUME NEW s \in Snapshots
               PROVE  /\ lastServerStateId[s.dest] = 0 /\ clientBridge[s.dest] = <<>>
                      /\ s.state \in 0..(L + 1) /\ s.document = Upto(s.state)'
                      /\ \A n \in (s.state + 1)..(L + 1) : Told(s.dest, n)'
                      /\ \A e \in Updates' : e.dest = s.dest => e.state > s.state
    BY <1>10, <1>11, <1>21 DEF Starting
  <2>1. /\ lastServerStateId[s.dest] = 0 /\ clientBridge[s.dest] = <<>>
        /\ s.state \in 0..L /\ s.document = Upto(s.state)
        /\ \A n \in (s.state + 1)..L : Told(s.dest, n)
        /\ \A e \in Updates : e.dest = s.dest => e.state > s.state
    BY DEF NetworkInv, StateInv, Starting, L
  <2>2. s.dest \in Joined
    BY DEF NetworkInv, EventInv, Placed
  <2>3. s.state \in 0..(L + 1) /\ L + 1 > s.state
    BY <1>7, <2>1
  <2>4. ASSUME NEW n \in (s.state + 1)..(L + 1) PROVE Told(s.dest, n)'
    <3>1. n = L + 1 \/ n \in (s.state + 1)..L
      BY <1>7, <2>1
    <3> QED BY <1>22, <2>1, <2>2, <3>1
  <2>5. \A e \in Updates' : e.dest = s.dest => e.state > s.state
    BY <1>6, <1>11, <2>1, <2>3
  <2>6. s.document = Upto(s.state)'
    BY <1>22, <2>1
  <2> QED BY <2>1, <2>3, <2>4, <2>5, <2>6
<1>32. Following'
  <2> SUFFICES ASSUME NEW d \in Joined, ~Starts(d)
               PROVE  /\ lastServerStateId[d] <= L + 1
                      /\ document[d] = Upto(lastServerStateId[d])' \cup Bridge(d)
                      /\ \A n \in (lastServerStateId[d] + 1)..(L + 1) : Told(d, n)'
    BY <1>10, <1>12, <1>21 DEF Following
  <2> DEFINE k == lastServerStateId[d]
  <2>1. /\ document[d] = Upto(k) \cup Bridge(d)
        /\ \A n \in (k + 1)..L : Told(d, n)
    BY DEF NetworkInv, StateInv, Following, L
  <2>2. k \in Nat /\ k <= L
    BY <1>29
  <2>3. lastServerStateId'[d] = k
    BY <1>10
  <2> HIDE DEF k
  <2>4. k \in 0..L /\ k <= L + 1
    BY <1>7, <2>2
  <2>5. ASSUME NEW n \in (k + 1)..(L + 1) PROVE Told(d, n)'
    <3>1. n = L + 1 \/ n \in (k + 1)..L
      BY <1>7, <2>2
    <3> QED BY <1>22, <2>1, <3>1
  <2>6. \A m \in 0..L : Upto(m)' = Upto(m)
    BY <1>22
  <2>7. Upto(lastServerStateId[d])' = Upto(lastServerStateId[d])
    BY <1>10, <2>4, <2>6 DEF k
  <2> QED BY <2>1, <2>4, <2>5, <2>7 DEF k
<1>33. Absent'
  BY <1>10 DEF NetworkInv, StateInv, Absent
<1> QED BY <1>5, <1>9, <1>13, <1>14, <1>15, <1>17, <1>18, <1>19, <1>23, <1>24, <1>25, <1>26,
           <1>27, <1>28, <1>30, <1>31, <1>32, <1>33
       DEF NetworkInv, EventInv, OpInv, StateInv

-----------------------------------------------------------------------------
(* The theorem                                                             *)

LEMMA NextCases ==
  ASSUME Next
  PROVE  /\ ~panicked
         /\ \/ AddServer
            \/ Run \/ NextTick \/ Stop
            \/ \E c \in Clients : AddComponentSod(c)
            \/ \E c \in Clients : \E t \in 0..MaxTime : ScheduleLocalMessage(c, t)
            \/ \E c \in Clients : \E t \in 0..MaxTime : ScheduleLateJoiner(c, t)
            \/ FireLateJoiner \/ RecvSnapshot \/ LocalUpdate
            \/ ServerRemoteUpdate \/ ReceiveAck \/ ReceiveRemoteUpdate \/ ReceiveOutOfOrder
<1>1. ~panicked
  BY DEF Next, Test, Tick, AddServer, Run, AddComponentSod, ScheduleLocalMessage,
         ScheduleLateJoiner, Idle, Ticking, NextTick, Stop, FireLateJoiner, RecvSnapshot,
         LocalUpdate, ServerRemoteUpdate, ReceiveAck, ReceiveRemoteUpdate, ReceivesNext,
         ReceiveOutOfOrder, Due
<1> QED BY <1>1 DEF Next, Test, Tick

LEMMA IInvStep == IInv /\ [Next]_vars => IInv'
<1>1. ASSUME IInv, Next PROVE IInv'
  <2>1. ~panicked
    BY <1>1, NextCases
  <2>2. NetworkInv
    BY <1>1, <2>1 DEF IInv
  <2>3. CASE AddServer
    BY <2>1, <2>2, <2>3, AddServerStep DEF IInv, AddServer
  <2>4. CASE Run \/ NextTick \/ Stop
    <3>1. ~panicked'
      BY <2>1, <2>4 DEF Run, NextTick, Stop
    <3> QED BY <2>2, <2>4, <3>1, TickStep DEF IInv
  <2>5. ASSUME NEW c \in Clients, AddComponentSod(c) PROVE IInv'
    <3>1. ~panicked'
      BY <2>1, <2>5 DEF AddComponentSod
    <3> QED BY <2>2, <2>5, <3>1, AddComponentStep DEF IInv
  <2>6. ASSUME NEW c \in Clients, NEW t \in 0..MaxTime, ScheduleLocalMessage(c, t) PROVE IInv'
    <3>1. ~panicked'
      BY <2>1, <2>6 DEF ScheduleLocalMessage
    <3> QED BY <2>2, <2>6, <3>1, LocalMessageStep DEF IInv
  <2>7. ASSUME NEW c \in Clients, NEW t \in 0..MaxTime, ScheduleLateJoiner(c, t) PROVE IInv'
    <3>1. ~panicked'
      BY <2>1, <2>7 DEF ScheduleLateJoiner
    <3> QED BY <2>2, <2>7, <3>1, LateJoinerStep DEF IInv
  <2>8. CASE FireLateJoiner
    <3>1. ~panicked'
      BY <2>1, <2>8 DEF FireLateJoiner
    <3> QED BY <2>2, <2>8, <3>1, FireLateJoinerStep DEF IInv
  <2>9. CASE RecvSnapshot
    BY <2>2, <2>9, RecvSnapshotStep DEF IInv
  <2>10. CASE LocalUpdate
    <3>1. ~panicked'
      BY <2>1, <2>10 DEF LocalUpdate
    <3> QED BY <2>2, <2>10, <3>1, LocalUpdateStep DEF IInv
  <2>11. CASE ServerRemoteUpdate
    BY <2>2, <2>11, ServerRemoteUpdateStep DEF IInv
  <2>12. CASE ReceiveAck
    <3>1. ~panicked'
      BY <2>1, <2>12 DEF ReceiveAck
    <3> QED BY <2>2, <2>12, <3>1, ReceiveAckStep DEF IInv
  <2>13. CASE ReceiveRemoteUpdate
    <3>1. ~panicked'
      BY <2>1, <2>13 DEF ReceiveRemoteUpdate
    <3> QED BY <2>2, <2>13, <3>1, ReceiveRemoteUpdateStep DEF IInv
  <2>14. CASE ReceiveOutOfOrder
    BY <2>2, <2>14, ReceiveOutOfOrderStep DEF IInv
  <2> QED BY <1>1, <2>3, <2>4, <2>5, <2>6, <2>7, <2>8, <2>9, <2>10, <2>11, <2>12, <2>13, <2>14,
             NextCases
<1>2. ASSUME IInv, UNCHANGED vars PROVE IInv'
  <2> USE <1>2 DEF vars, testVars, networkVars, clientVars
  <2>1. UNCHANGED <<networkState, tickTime, clock, components, clientIds, document,
                    lastServerStateId, clientBridge, edits, delay, events, log,
                    panicked, tied>>
    OBVIOUS
  <2>2. CASE panicked
    BY <2>1, <2>2 DEF IInv
  <2>3. CASE ~panicked
    <3>1. NetworkInv
      BY <2>3 DEF IInv
    <3>2. UNCHANGED <<Pending, Locals, Joiners, Snapshots, Requests, Updates, Joined>>
      BY <2>1 DEF Pending, Locals, Joiners, Snapshots, Requests, Updates, Joined
    <3>3. OpInv' /\ StateInv'
      <4>1. Joined' = Joined /\ components \subseteq components'
        BY <2>1, <3>2
      <4> QED BY <2>1, <3>1, <4>1, Unmoved DEF NetworkInv
    <3>4. \A c : UNCHANGED Named(c)
      BY <2>1 DEF Named
    <3>5. Types' /\ IsHeap(events)'
      BY <2>1, <3>1, <3>2 DEF NetworkInv, Types
    <3>6. EventInv'
      BY <2>1, <3>1, <3>2, <3>4
         DEF NetworkInv, EventInv, Placed, Singles, AtRest, InTime, SnapshotFirst, InOrder
    <3> QED BY <2>1, <2>3, <3>3, <3>5, <3>6 DEF IInv, NetworkInv
  <2> QED BY <2>2, <2>3
<1> QED BY <1>1, <1>2

\* When nothing is pending, what is said of what is on its way is said of nothing.
LEMMA IInvAgrees == IInv => RunsAgree
<1> SUFFICES ASSUME IInv PROVE RunsAgree
  OBVIOUS
<1>1. panicked => tied
  BY DEF IInv
<1>2. ASSUME events = <<>>, Idle
      PROVE  /\ \A c \in Joined : Synchronized(c)
             /\ Seqs!ToSet(log) = UNION {{c} \X (1..edits[c]) : c \in Clients}
             /\ Once(log)
  <2>1. NetworkInv
    BY <1>2 DEF IInv, Idle
  <2>2. Pending = {}
    BY <1>2 DEF Pending, Seqs!ToSet
  <2>3. Locals = {} /\ Snapshots = {} /\ Requests = {} /\ Updates = {}
    BY <2>2 DEF Locals, Snapshots, Requests, Updates
  <2>4. ASSUME NEW c \in Joined
        PROVE  /\ c \in Clients /\ lastServerStateId[c] = Len(log)
               /\ document[c] = Logged \cup Bridge(c)
    <3> DEFINE k == lastServerStateId[c]
               L == Len(log)
    <3>1. c \in Clients /\ k \in Nat /\ L \in Nat
      BY <2>1 DEF Joined, NetworkInv, Types
    <3>2. ~Starts(c) /\ \A n : ~Told(c, n)
      BY <2>3 DEF Starts, Told
    <3>3. /\ k <= L /\ document[c] = Upto(k) \cup Bridge(c)
          /\ \A n \in (k + 1)..L : Told(c, n)
      BY <2>1, <3>2 DEF NetworkInv, StateInv, Following
    <3>4. k = L
      <4> HIDE DEF k, L
      <4>1. k + 1 \notin (k + 1)..L
        BY <3>2, <3>3
      <4> QED BY <3>1, <3>3, <4>1
    <3>5. Upto(L) = Logged
      BY <2>1, UptoLog DEF NetworkInv
    <3> QED BY <3>1, <3>3, <3>4, <3>5
  <2>5. ASSUME NEW c \in Joined PROVE clientBridge[c] = <<>>
    <3>1. c \in Clients /\ lastServerStateId[c] = Len(log) /\ Len(log) \in Nat
      BY <2>1, <2>4 DEF NetworkInv, Types
    <3>2. \A n \in 1..Len(log) : ~(n > lastServerStateId[c])
      BY <3>1
    <3> QED BY <2>1, <2>3, <3>1, <3>2 DEF NetworkInv, OpInv, Sent
  <2>6. ASSUME NEW c \in Clients PROVE clientBridge[c] = <<>> /\ Bridge(c) = {}
    <3>1. clientBridge[c] = <<>>
      <4>1. c \in Joined \/ c \in Clients \ components
        BY SimNetworkAssumption DEF Joined
      <4> QED BY <2>1, <2>5, <4>1 DEF NetworkInv, StateInv, Absent
    <3> QED BY <3>1 DEF Bridge, Seqs!ToSet
  <2>7. \A c \in Joined : Synchronized(c)
    BY <2>4, <2>6 DEF Synchronized, Logged
  <2>8. \A c \in Clients : Named(c) = {op \in Logged : op[1] = c}
    <3>1. \A c \in Clients : Scheduled(c) = {}
      BY <2>3 DEF Scheduled
    <3> QED BY <2>1, <2>6, <3>1 DEF NetworkInv, OpInv, Accounted
  <2>9. \A op \in Logged : op[1] \in Clients
    BY <2>1, Elements DEF NetworkInv, Types, Logged, Operation
  <2>10. Logged = UNION {Named(c) : c \in Clients}
    BY <2>8, <2>9
  <2>11. Once(log)
    BY <2>1 DEF NetworkInv, OpInv, Fresh
  <2> QED BY <2>7, <2>10, <2>11 DEF Named, Logged
<1> QED BY <1>1, <1>2 DEF RunsAgree, Joined

\* A run of the network of the tests ends with every client at the server's state,
\* nothing left to send and every edit at the server once; and no assertion of it
\* fails unless two updates were due at one client at one instant.
THEOREM RunsEndAgreed == Spec => []RunsAgree
<1>1. Init => IInv
  BY InitStep
<1>2. IInv /\ [Next]_vars => IInv'
  BY IInvStep
<1>3. IInv => RunsAgree
  BY IInvAgrees
<1> QED BY <1>1, <1>2, <1>3, PTL DEF Spec
=============================================================================
