---------------------------- MODULE CollabProofs ----------------------------
(***************************************************************************)
(* Theorems about Collab, for any clients, any documents and any           *)
(* operations that satisfy CollabLaws: what a client and the server hold,  *)
(* the order of the edits, and the abstract log of SharedLog, which the    *)
(* protocol implements.                                                    *)
(***************************************************************************)
EXTENDS CollabLaws, Recursion, FiniteSetTheorems

-----------------------------------------------------------------------------
(* Recursive functions                                                     *)

\* Passing is the function its definition describes.
LEMMA PassingDef ==
  ASSUME NEW op, NEW bridge \in Seq(ClientOp)
  PROVE  Passing(op, bridge) =
           [i \in 0..Len(bridge) |->
              IF i = 0 THEN op ELSE Transform(Passing(op, bridge)[i-1], bridge[i].op)[1]]
<1> DEFINE Exists(n) == \E f : f = [i \in 0..n |->
                          IF i = 0 THEN op ELSE Transform(f[i-1], bridge[i].op)[1]]
           S == {n \in Nat : Exists(n)}
<1>1. Exists(0)
  <2> DEFINE g == [i \in 0..0 |-> op]
  <2>1. g = [i \in 0..0 |-> IF i = 0 THEN op ELSE Transform(g[i-1], bridge[i].op)[1]]
    OBVIOUS
  <2> QED BY <2>1
<1>2. ASSUME NEW n \in Nat, Exists(n) PROVE Exists(n+1)
  <2>1. PICK f : f = [i \in 0..n |->
                        IF i = 0 THEN op ELSE Transform(f[i-1], bridge[i].op)[1]]
    BY <1>2
  <2> DEFINE g == [i \in 0..(n+1) |->
                     IF i = n+1 THEN Transform(f[n], bridge[n+1].op)[1] ELSE f[i]]
  <2>2. ASSUME NEW i \in 0..(n+1)
        PROVE  g[i] = IF i = 0 THEN op ELSE Transform(g[i-1], bridge[i].op)[1]
    <3>1. CASE i = n+1
      BY <3>1
    <3>2. CASE i \in 0..n
      <4>1. f[i] = IF i = 0 THEN op ELSE Transform(f[i-1], bridge[i].op)[1]
        BY <2>1, <3>2
      <4>2. g[i] = f[i] /\ (i # 0 => g[i-1] = f[i-1])
        BY <3>2
      <4> QED BY <4>1, <4>2
    <3> QED BY <3>1, <3>2
  <2>3. g = [i \in 0..(n+1) |->
               IF i = 0 THEN op ELSE Transform(g[i-1], bridge[i].op)[1]]
    BY <2>2
  <2> QED BY <2>3
<1>3. ASSUME NEW n \in Nat, n \in S PROVE n+1 \in S
  <2>1. Exists(n)
    BY <1>3
  <2>2. Exists(n+1)
    BY <2>1, <1>2
  <2> HIDE DEF Exists
  <2> QED BY <2>2
<1>4. 0 \in S
  BY <1>1
<1> HIDE DEF S
<1>5. Nat \subseteq S
  BY <1>3, <1>4, Induction
<1>6. Exists(Len(bridge))
  BY <1>5 DEF S
<1> QED BY <1>6 DEF Passing

\* So is Along.
LEMMA AlongDef ==
  ASSUME NEW d, NEW bridge \in Seq(ClientOp)
  PROVE  Along(d, bridge) =
           [i \in 0..Len(bridge) |->
              IF i = 0 THEN d ELSE Apply(Along(d, bridge)[i-1], bridge[i].op)]
<1> DEFINE Exists(n) == \E f : f = [i \in 0..n |->
                          IF i = 0 THEN d ELSE Apply(f[i-1], bridge[i].op)]
           S == {n \in Nat : Exists(n)}
<1>1. Exists(0)
  <2> DEFINE g == [i \in 0..0 |-> d]
  <2>1. g = [i \in 0..0 |-> IF i = 0 THEN d ELSE Apply(g[i-1], bridge[i].op)]
    OBVIOUS
  <2> QED BY <2>1
<1>2. ASSUME NEW n \in Nat, Exists(n) PROVE Exists(n+1)
  <2>1. PICK f : f = [i \in 0..n |->
                        IF i = 0 THEN d ELSE Apply(f[i-1], bridge[i].op)]
    BY <1>2
  <2> DEFINE g == [i \in 0..(n+1) |->
                     IF i = n+1 THEN Apply(f[n], bridge[n+1].op) ELSE f[i]]
  <2>2. ASSUME NEW i \in 0..(n+1)
        PROVE  g[i] = IF i = 0 THEN d ELSE Apply(g[i-1], bridge[i].op)
    <3>1. CASE i = n+1
      BY <3>1
    <3>2. CASE i \in 0..n
      <4>1. f[i] = IF i = 0 THEN d ELSE Apply(f[i-1], bridge[i].op)
        BY <2>1, <3>2
      <4>2. g[i] = f[i] /\ (i # 0 => g[i-1] = f[i-1])
        BY <3>2
      <4> QED BY <4>1, <4>2
    <3> QED BY <3>1, <3>2
  <2>3. g = [i \in 0..(n+1) |->
               IF i = 0 THEN d ELSE Apply(g[i-1], bridge[i].op)]
    BY <2>2
  <2> QED BY <2>3
<1>3. ASSUME NEW n \in Nat, n \in S PROVE n+1 \in S
  <2>1. Exists(n)
    BY <1>3
  <2>2. Exists(n+1)
    BY <2>1, <1>2
  <2> HIDE DEF Exists
  <2> QED BY <2>2
<1>4. 0 \in S
  BY <1>1
<1> HIDE DEF S
<1>5. Nat \subseteq S
  BY <1>3, <1>4, Induction
<1>6. Exists(Len(bridge))
  BY <1>5 DEF S
<1> QED BY <1>6 DEF Along

-----------------------------------------------------------------------------
(* Operations and bridges                                                  *)

\* The bridge after a remote operation has passed it, as ReceiveRemoteUpdate
\* computes it.
Passed(op, bridge) ==
  [i \in 1..Len(bridge) |->
     [bridge[i] EXCEPT !.op = Transform(Passing(op, bridge)[i-1], @)[2]]]

\* An operation that applies where a bridge starts passes every operation of the
\* bridge, and the transformed bridge leads from its result to the result of
\* the transformed operation.  This is the convergence of transform, once for
\* every operation of the bridge.
LEMMA PassBridge ==
  ASSUME NEW d \in Doc, NEW e, NEW op \in Op, NEW bridge \in Seq(ClientOp),
         InLen(op) = Size(d), Leads(d, bridge, e)
  PROVE  /\ Fits(op, bridge, e)
         /\ e \in Doc
         /\ Passing(op, bridge)[Len(bridge)] \in Op
         /\ Passed(op, bridge) \in Seq(ClientOp)
         /\ Leads(Apply(d, op), Passed(op, bridge),
                  Apply(e, Passing(op, bridge)[Len(bridge)]))
<1> DEFINE n == Len(bridge)
           at == Along(d, bridge)
           pass == Passing(op, bridge)
           new == Passed(op, bridge)
           at2 == Along(Apply(d, op), new)
           Good(i) == /\ pass[i] \in Op
                      /\ at[i] \in Doc
                      /\ InLen(pass[i]) = Size(at[i])
           S == {i \in Nat : i <= n => Good(i)}
<1>1. n \in Nat /\ \A i \in 1..n : bridge[i] \in ClientOp
  OBVIOUS
<1>2. at = [i \in 0..n |-> IF i = 0 THEN d ELSE Apply(at[i-1], bridge[i].op)]
  BY AlongDef
<1>3. pass = [i \in 0..n |-> IF i = 0 THEN op ELSE Transform(pass[i-1], bridge[i].op)[1]]
  BY PassingDef
<1>4. \A i \in 1..n : bridge[i].op \in Op /\ InLen(bridge[i].op) = Size(at[i-1])
  BY <1>1 DEF Leads, ClientOp
<1>5. at[n] = e
  BY DEF Leads
<1> HIDE DEF n, at, pass, new, at2
<1>6. ASSUME NEW i \in 1..n, Good(i-1)
      PROVE  /\ Good(i)
             /\ InLen(pass[i-1]) = InLen(bridge[i].op)
             /\ Transform(pass[i-1], bridge[i].op)[2] \in Op
             /\ InLen(Transform(pass[i-1], bridge[i].op)[2]) = Size(Apply(at[i-1], pass[i-1]))
             /\ Apply(Apply(at[i-1], pass[i-1]), Transform(pass[i-1], bridge[i].op)[2])
                  = Apply(at[i], pass[i])
  <2> DEFINE a == pass[i-1]
             b == bridge[i].op
             x == at[i-1]
             t == Transform(a, b)
  <2>1. a \in Op /\ b \in Op /\ x \in Doc /\ InLen(a) = Size(x) /\ InLen(b) = Size(x)
    BY <1>4, <1>6
  <2>2. at[i] = Apply(x, b) /\ pass[i] = t[1]
    BY <1>1, <1>2, <1>3
  <2> HIDE DEF a, b, x
  <2>3. t[1] \in Op /\ t[2] \in Op
    BY <2>1, Typing
  <2>4. /\ InLen(t[1]) = OutLen(b)
        /\ InLen(t[2]) = OutLen(a)
        /\ Apply(Apply(x, b), t[1]) = Apply(Apply(x, a), t[2])
    BY <2>1, Converges
  <2>5. /\ Apply(x, b) \in Doc /\ Size(Apply(x, b)) = OutLen(b)
        /\ Apply(x, a) \in Doc /\ Size(Apply(x, a)) = OutLen(a)
    BY <2>1, Typing
  <2> QED BY <2>1, <2>2, <2>3, <2>4, <2>5 DEF a, b, x
<1>7. \A i \in 0..n : Good(i)
  <2>1. 0 \in S
    BY <1>1, <1>2, <1>3
  <2>2. ASSUME NEW i \in Nat, i \in S PROVE i+1 \in S
    <3>1. CASE i+1 <= n
      <4>1. Good(i) /\ i+1 \in 1..n /\ (i+1)-1 = i
        BY <1>1, <2>2, <3>1
      <4>2. Good(i+1)
        BY <4>1, <1>6
      <4> QED BY <4>2
    <3>2. CASE ~(i+1 <= n)
      BY <3>2
    <3> QED BY <3>1, <3>2
  <2>3. Nat \subseteq S
    <3> HIDE DEF S
    <3> QED BY <2>1, <2>2, Induction
  <2> QED BY <1>1, <2>3
<1> HIDE DEF Good
<1>8. ASSUME NEW i \in 1..n
      PROVE  /\ InLen(pass[i-1]) = InLen(bridge[i].op)
             /\ Transform(pass[i-1], bridge[i].op)[2] \in Op
             /\ InLen(Transform(pass[i-1], bridge[i].op)[2]) = Size(Apply(at[i-1], pass[i-1]))
             /\ Apply(Apply(at[i-1], pass[i-1]), Transform(pass[i-1], bridge[i].op)[2])
                  = Apply(at[i], pass[i])
  <2>1. i-1 \in 0..n
    BY <1>1
  <2>2. Good(i-1)
    BY <2>1, <1>7
  <2> QED BY <2>2, <1>6
<1>9. /\ new = [i \in 1..n |-> [bridge[i] EXCEPT !.op = Transform(pass[i-1], bridge[i].op)[2]]]
      /\ \A i \in 1..n : /\ new[i] \in ClientOp
                         /\ new[i].op = Transform(pass[i-1], bridge[i].op)[2]
      /\ new \in Seq(ClientOp) /\ Len(new) = n
  <2>1. new = [i \in 1..n |-> [bridge[i] EXCEPT !.op = Transform(pass[i-1], bridge[i].op)[2]]]
    BY <1>1 DEF new, Passed, ClientOp, n, pass
  <2>2. \A i \in 1..n : /\ new[i] \in ClientOp
                        /\ new[i].op = Transform(pass[i-1], bridge[i].op)[2]
    BY <2>1, <1>1, <1>8 DEF ClientOp
  <2>3. new \in Seq(ClientOp) /\ Len(new) = n
    BY <2>1, <2>2, <1>1
  <2> QED BY <2>1, <2>2, <2>3
<1>10. at2 = [i \in 0..n |-> IF i = 0 THEN Apply(d, op) ELSE Apply(at2[i-1], new[i].op)]
  <2>1. new \in Seq(ClientOp) /\ Len(new) = n
    BY <1>9
  <2>2. at2 = [i \in 0..Len(new) |-> IF i = 0 THEN Apply(d, op) ELSE Apply(at2[i-1], new[i].op)]
    BY <2>1, AlongDef DEF at2
  <2> QED BY <2>1, <2>2
<1>11. \A i \in 0..n : at2[i] = Apply(at[i], pass[i])
  <2> DEFINE P == {i \in Nat : i <= n => at2[i] = Apply(at[i], pass[i])}
  <2>1. 0 \in P
    BY <1>1, <1>2, <1>3, <1>10
  <2>2. ASSUME NEW i \in Nat, i \in P PROVE i+1 \in P
    <3>1. CASE i+1 <= n
      <4>1. at2[i] = Apply(at[i], pass[i]) /\ i+1 \in 1..n /\ (i+1)-1 = i
        BY <1>1, <2>2, <3>1
      <4>2. at2[i+1] = Apply(at2[i], new[i+1].op)
        BY <1>10, <1>1, <4>1
      <4>3. Apply(Apply(at[i], pass[i]), new[i+1].op) = Apply(at[i+1], pass[i+1])
        BY <4>1, <1>8, <1>9
      <4> QED BY <4>1, <4>2, <4>3
    <3>2. CASE ~(i+1 <= n)
      BY <3>2
    <3> QED BY <3>1, <3>2
  <2>3. Nat \subseteq P
    <3> HIDE DEF P
    <3> QED BY <2>1, <2>2, Induction
  <2> QED BY <1>1, <2>3
<1>12. Good(n)
  BY <1>1, <1>7
<1>13. Fits(op, bridge, e)
  BY <1>5, <1>8, <1>12 DEF Fits, Good, n, pass
<1>14. Leads(Apply(d, op), new, Apply(e, pass[n]))
  <2>1. ASSUME NEW i \in 1..n PROVE InLen(new[i].op) = Size(at2[i-1])
    <3>1. i-1 \in 0..n
      BY <1>1
    <3>2. at2[i-1] = Apply(at[i-1], pass[i-1])
      BY <3>1, <1>11
    <3>3. new[i].op = Transform(pass[i-1], bridge[i].op)[2]
      BY <1>9
    <3> QED BY <3>2, <3>3, <1>8
  <2>2. at2[n] = Apply(e, pass[n])
    BY <1>1, <1>5, <1>11
  <2> QED BY <2>1, <2>2, <1>9 DEF Leads, at2
<1>15. e \in Doc /\ pass[n] \in Op
  BY <1>5, <1>12 DEF Good
<1> QED BY <1>9, <1>13, <1>14, <1>15 DEF n, pass, new

-----------------------------------------------------------------------------
(* What the server accepts                                                 *)

\* The composition of operations of the history is an operation.
LEMMA ComposedType ==
  ASSUME NEW k \in Nat, log \in Seq(LogEntry), k < Cur
  PROVE  Composed(k) \subseteq Op
<1> DEFINE Step(prev, n) == {Compose(a, log[n].op) : a \in {b \in prev : OutLen(b) = InLen(log[n].op)}}
           Is(f, j) == f = [n \in (k+1)..(k+1+j) |->
                              IF n = k+1 THEN {log[n].op} ELSE Step(f[n-1], n)]
           S == {j \in Nat : \E f : Is(f, j)}
<1>1. Cur \in Nat /\ \A n \in 1..Cur : log[n].op \in Op
  <2>1. Cur \in Nat
    BY DEF Cur
  <2>2. ASSUME NEW n \in 1..Cur PROVE log[n].op \in Op
    <3>1. log[n] \in LogEntry
      BY DEF Cur
    <3> QED BY <3>1 DEF LogEntry
  <2> QED BY <2>1, <2>2
<1> HIDE DEF Step
<1>2. 0 \in S
  <2> DEFINE g == [n \in (k+1)..(k+1+0) |-> {log[n].op}]
  <2>1. Is(g, 0)
    OBVIOUS
  <2> QED BY <2>1
<1>3. ASSUME NEW j \in Nat, j \in S PROVE j+1 \in S
  <2>1. PICK f : Is(f, j)
    <3>1. \E f : Is(f, j)
      BY <1>3
    <3> QED BY <3>1
  <2> DEFINE top == k+1+j+1
             g == [n \in (k+1)..(k+1+(j+1)) |-> IF n = top THEN Step(f[top-1], n) ELSE f[n]]
  <2>2. ASSUME NEW n \in (k+1)..(k+1+(j+1))
        PROVE  g[n] = IF n = k+1 THEN {log[n].op} ELSE Step(g[n-1], n)
    <3>1. CASE n = top
      <4>1. g[n-1] = f[n-1] /\ n # k+1
        BY <3>1
      <4>2. g[n] = Step(f[n-1], n)
        BY <3>1
      <4> QED BY <4>1, <4>2
    <3>2. CASE n \in (k+1)..(k+1+j)
      <4>1. f[n] = IF n = k+1 THEN {log[n].op} ELSE Step(f[n-1], n)
        BY <2>1, <3>2
      <4>2. g[n] = f[n]
        BY <3>2
      <4>3. n # k+1 => g[n-1] = f[n-1]
        BY <3>2
      <4> QED BY <4>1, <4>2, <4>3
    <3> QED BY <3>1, <3>2
  <2>3. g = [n \in (k+1)..(k+1+(j+1)) |-> IF n = k+1 THEN {log[n].op} ELSE Step(g[n-1], n)]
    BY <2>2
  <2>4. Is(g, j+1)
    BY <2>3
  <2>5. \E h : Is(h, j+1)
    BY <2>4
  <2> QED BY <2>5
<1>4. Nat \subseteq S
  <2> HIDE DEF S
  <2> QED BY <1>2, <1>3, Induction
<1> DEFINE last == Cur - (k+1)
           c == CHOOSE u : u = [n \in (k+1)..Cur |->
                                  IF n = k+1 THEN {log[n].op} ELSE Step(u[n-1], n)]
<1>5. last \in Nat /\ k+1+last = Cur
  BY <1>1
<1>6. c = [n \in (k+1)..Cur |-> IF n = k+1 THEN {log[n].op} ELSE Step(c[n-1], n)]
  <2>1. \E f : Is(f, last)
    BY <1>4, <1>5
  <2>2. \E f : f = [n \in (k+1)..Cur |-> IF n = k+1 THEN {log[n].op} ELSE Step(f[n-1], n)]
    BY <1>5, <2>1
  <2> QED BY <2>2
<1>7. Composed(k) = c[Cur]
  BY DEF Composed, Step
<1> HIDE DEF c, last
<1> DEFINE P == {j \in Nat : k+1+j <= Cur => c[k+1+j] \subseteq Op}
<1>8. 0 \in P
  <2>1. k+1 \in 1..Cur
    BY <1>1
  <2>2. c[k+1] = {log[k+1].op}
    BY <1>1, <1>6, <2>1
  <2> QED BY <1>1, <2>1, <2>2
<1>9. ASSUME NEW j \in Nat, j \in P PROVE j+1 \in P
  <2> SUFFICES ASSUME k+1+(j+1) <= Cur PROVE c[k+1+(j+1)] \subseteq Op
    OBVIOUS
  <2> DEFINE top == k+1+(j+1)
  <2>1. top \in (k+1)..Cur /\ top # k+1 /\ top \in 1..Cur /\ top-1 = k+1+j
    BY <1>1
  <2>2. c[top-1] \subseteq Op
    BY <1>1, <1>9, <2>1
  <2> HIDE DEF top
  <2>3. c[top] = Step(c[top-1], top)
    BY <1>6, <2>1
  <2>4. log[top].op \in Op
    BY <1>1, <2>1
  <2>5. Step(c[top-1], top) \subseteq Op
    <3> SUFFICES ASSUME NEW x \in Step(c[top-1], top) PROVE x \in Op
      OBVIOUS
    <3>1. PICK a \in c[top-1] : OutLen(a) = InLen(log[top].op) /\ x = Compose(a, log[top].op)
      BY DEF Step
    <3>2. a \in Op
      BY <2>2, <3>1
    <3> QED BY <2>4, <3>1, <3>2, Typing
  <2> QED BY <2>3, <2>5 DEF top
<1>10. Nat \subseteq P
  <2> HIDE DEF P
  <2> QED BY <1>8, <1>9, Induction
<1>11. last \in P
  <2> HIDE DEF P
  <2> QED BY <1>5, <1>10
<1>12. k+1+last <= Cur
  BY <1>1, <1>5
<1>13. c[k+1+last] \subseteq Op
  BY <1>11, <1>12
<1> QED BY <1>5, <1>7, <1>13

\* What the server applies is an operation that applies to its document, made
\* for a state it has reached.
LEMMA ApplicableType ==
  ASSUME NEW m \in ClientMsg, NEW op \in Applicable(m), log \in Seq(LogEntry)
  PROVE  op \in Op /\ InLen(op) = Size(DocAt(Cur)) /\ m.state \in 0..Cur
<1>1. Cur \in Nat /\ m.op \in Op /\ m.state \in Nat
  BY DEF Cur, ClientMsg
<1>2. op \in Rebased(m) /\ InLen(op) = Size(DocAt(Cur))
  BY DEF Applicable
<1>3. CASE m.state = Cur
  BY <1>1, <1>2, <1>3 DEF Rebased
<1>4. CASE m.state < Cur /\ (m.state+1)..Cur \subseteq kept
  <2>1. PICK a \in Composed(m.state) : InLen(a) = InLen(m.op) /\ op = Transform(a, m.op)[2]
    BY <1>1, <1>2, <1>4 DEF Rebased
  <2>2. a \in Op
    BY <1>1, <1>4, <2>1, ComposedType
  <2> QED BY <1>1, <1>2, <1>4, <2>1, <2>2, Typing
<1>5. CASE ~(m.state = Cur) /\ ~(m.state < Cur /\ (m.state+1)..Cur \subseteq kept)
  BY <1>2, <1>5 DEF Rebased
<1> QED BY <1>3, <1>4, <1>5
-----------------------------------------------------------------------------
(* What a client is about to receive                                       *)

\* Every state of the history holds a document.
LEMMA DocType == ASSUME TypeOK, NEW k \in 0..Cur PROVE DocAt(k) \in Doc
<1>1. CASE k = 0
  BY <1>1, Typing DEF DocAt
<1>2. CASE k # 0
  <2>1. log[k] \in LogEntry
    BY <1>2 DEF TypeOK, Cur
  <2> QED BY <1>2, <2>1 DEF DocAt, LogEntry
<1> QED BY <1>1, <1>2

\* After the snapshot a client receives nothing but updates.
LEMMA UpdateTyped ==
  ASSUME TypeOK, StreamInv, NEW c \in Clients, ToReceive(c)
  PROVE  Update(c) \in UpdateMsg /\ Update(c) = toClient[c][1]
<1>1. status[c] = "synced" /\ toClient[c] # <<>> /\ toClient[c] \in Seq(ServerMsg)
  BY DEF ToReceive, TypeOK
<1>2. Len(toClient[c]) \in Nat /\ Len(toClient[c]) >= 1 /\ Head(toClient[c]) = toClient[c][1]
  BY <1>1
<1> QED BY <1>1, <1>2 DEF StreamInv, Streams, Update

\* A client that nothing has disturbed receives the operation after its last
\* state.
LEMMA UpdateIs ==
  ASSUME TypeOK, StreamInv, DownInv, NEW c \in Clients, ToReceive(c), Undisturbed(c)
  PROVE  /\ lastServerStateId[c] + 1 \in 1..Cur
         /\ log[lastServerStateId[c] + 1] \in LogEntry
         /\ Update(c) = UpdateOf(lastServerStateId[c] + 1)
<1>1. status[c] = "synced" /\ toClient[c] # <<>> /\ toClient[c] \in Seq(ServerMsg)
  BY DEF ToReceive, TypeOK
<1>2. lastServerStateId[c] \in Nat /\ Cur \in Nat /\ log \in Seq(LogEntry)
  BY DEF TypeOK, Cur
<1>3. Len(toClient[c]) \in Nat /\ Len(toClient[c]) >= 1 /\ Head(toClient[c]) = toClient[c][1]
  BY <1>1
<1>4. InOrder(c)
  BY <1>1 DEF StreamInv, TaskInv, Undisturbed, DownInv, Attending
<1>5. /\ toClient[c][1] = UpdateOf(lastServerStateId[c] + 1)
      /\ lastServerStateId[c] + Len(toClient[c]) <= Cur
  BY <1>1, <1>3, <1>4 DEF InOrder, Follows, Seen
<1>6. lastServerStateId[c] + 1 \in 1..Cur
  BY <1>2, <1>3, <1>5
<1>7. log[lastServerStateId[c] + 1] \in LogEntry
  BY <1>2, <1>6 DEF Cur
<1> QED BY <1>3, <1>5, <1>6, <1>7 DEF Update

\* A joining client receives the snapshot of a state.
LEMMA SnapshotIs ==
  ASSUME TypeOK, StreamInv, NEW c \in Clients, status[c] = "joining", c \notin starting
  PROVE  /\ toClient[c] # <<>>
         /\ \E k \in 0..Cur : Head(toClient[c]) = SnapshotOf(k) /\ DocAt(k) \in Doc
<1>1. toClient[c] # <<>> /\ toClient[c] \in Seq(ServerMsg)
  BY DEF StreamInv, Streams, TypeOK
<1>2. PICK k \in 0..Cur : toClient[c][1] = SnapshotOf(k)
  BY DEF StreamInv, Streams
<1>3. Head(toClient[c]) = toClient[c][1]
  BY <1>1
<1> QED BY <1>1, <1>2, <1>3, DocType

\* Whatever passes a bridge stays an operation, and so does what it passes.
LEMMA FitsType ==
  ASSUME NEW op \in Op, NEW bridge \in Seq(ClientOp), NEW e \in Doc, Fits(op, bridge, e)
  PROVE  /\ Apply(e, Passing(op, bridge)[Len(bridge)]) \in Doc
         /\ Passed(op, bridge) \in Seq(ClientOp)
<1> DEFINE n == Len(bridge)
           pass == Passing(op, bridge)
           S == {i \in Nat : i <= n => pass[i] \in Op}
<1>1. n \in Nat /\ \A i \in 1..n : bridge[i] \in ClientOp /\ bridge[i].op \in Op
  <2>1. \A x \in ClientOp : x.op \in Op
    BY DEF ClientOp
  <2> QED BY <2>1
<1>2. pass = [i \in 0..n |-> IF i = 0 THEN op ELSE Transform(pass[i-1], bridge[i].op)[1]]
  BY PassingDef
<1>3. \A i \in 1..n : InLen(pass[i-1]) = InLen(bridge[i].op)
  BY DEF Fits
<1>4. InLen(pass[n]) = Size(e)
  BY DEF Fits
<1>5. Passed(op, bridge) = [i \in 1..n |-> [bridge[i] EXCEPT !.op = Transform(pass[i-1], @)[2]]]
  BY DEF Passed
<1> HIDE DEF pass, n
<1>6. 0 \in S
  BY <1>1, <1>2
<1>7. ASSUME NEW i \in Nat, i \in S PROVE i+1 \in S
  <2>1. CASE i+1 <= n
    <3>1. i+1 \in 1..n /\ i+1 \in 0..n /\ i+1 # 0 /\ (i+1)-1 = i /\ pass[i] \in Op
      BY <1>1, <1>7, <2>1
    <3>2. pass[i+1] = Transform(pass[i], bridge[i+1].op)[1]
      BY <1>2, <3>1
    <3>3. InLen(pass[i]) = InLen(bridge[i+1].op) /\ bridge[i+1].op \in Op
      BY <1>1, <1>3, <3>1
    <3> QED BY <3>1, <3>2, <3>3, Typing
  <2>2. CASE ~(i+1 <= n)
    BY <2>2
  <2> QED BY <2>1, <2>2
<1>8. Nat \subseteq S
  <2> HIDE DEF S
  <2> QED BY <1>6, <1>7, Induction
<1>9. pass[n] \in Op
  BY <1>1, <1>8
<1>10. ASSUME NEW i \in 1..n
       PROVE  [bridge[i] EXCEPT !.op = Transform(pass[i-1], @)[2]] \in ClientOp
  <2>1. i-1 \in Nat /\ i-1 <= n /\ pass[i-1] \in Op
    BY <1>1, <1>8
  <2>2. Transform(pass[i-1], bridge[i].op)[2] \in Op
    BY <1>1, <1>3, <2>1, Typing
  <2> QED BY <1>1, <2>2 DEF ClientOp
<1>11. Passed(op, bridge) \in Seq(ClientOp)
  BY <1>1, <1>5, <1>10
<1> QED BY <1>4, <1>9, <1>11, Typing DEF pass, n

-----------------------------------------------------------------------------
(* The invariant                                                           *)

\* Every variable starts in its type, and everything holds of no client joined.
LEMMA InitSyncInv == Init => SyncInv
<1> SUFFICES ASSUME Init PROVE SyncInv
  OBVIOUS
<1>1. Cur = 0
  BY DEF Init, Cur
<1>2. TypeOK
  BY <1>1, Typing DEF Init, TypeOK
<1>3. LogInv
  BY <1>1 DEF LogInv
<1>4. StreamInv
  BY DEF Init, StreamInv, Streams, TaskInv
<1>5. DownInv /\ IdleInv /\ UserInv /\ BridgeInv
  BY DEF Init, DownInv, Attending, IdleInv, UserInv, BridgeInv, Undisturbed
<1> QED BY <1>2, <1>3, <1>4, <1>5 DEF SyncInv

\* Sending keeps the type of what is on its way to the server.
LEMMA SendType ==
  ASSUME TypeOK, NEW c \in Clients, NEW id \in Id, NEW op \in Op, NEW state \in Nat,
         Send(c, id, op, state)
  PROVE  toServer' \in [Clients -> Seq(ClientMsg)]
<1> DEFINE m == [id |-> id, op |-> op, state |-> state]
<1>1. m \in ClientMsg
  BY DEF ClientMsg
<1>2. toServer \in [Clients -> Seq(ClientMsg)]
  BY DEF TypeOK
<1>3. toServer' = [toServer EXCEPT ![c] = IF open[c] THEN Append(@, m) ELSE @]
  BY DEF Send
<1> HIDE DEF m
<1> QED BY <1>1, <1>2, <1>3

\* An edit keeps the type of what it changes, and appends one operation to the
\* bridge.
LEMMA EditType ==
  ASSUME TypeOK, NEW c \in Clients, NEW op \in Edits(document[c]), Edit(c, op)
  PROVE  TypeOK'
<1>1. document[c] \in Doc /\ op \in Op /\ InLen(op) = Size(document[c])
  BY EditsApply DEF TypeOK
<1>2. Apply(document[c], op) \in Doc
  BY <1>1, Typing
<1>3. edits[c] \in Nat /\ lastServerStateId[c] \in Nat
  BY DEF TypeOK
<1>4. <<c, edits[c] + 1>> \in Id
  BY <1>3 DEF Id
<1>5. /\ document' \in [Clients -> Doc]
      /\ edits' \in [Clients -> Nat]
  BY <1>2, <1>3 DEF Edit, NothingOutstanding, TypeOK
<1>6. clientBridge' \in [Clients -> Seq(ClientOp)]
  <2>1. [id |-> <<c, edits[c] + 1>>, op |-> op,
         state |-> IF clientBridge[c] = <<>> THEN "Pending" ELSE "Unsent"] \in ClientOp
    BY <1>1, <1>4 DEF ClientOp
  <2>2. clientBridge[c] \in Seq(ClientOp)
    BY DEF TypeOK
  <2> QED BY <2>1, <2>2 DEF Edit, NothingOutstanding, TypeOK
<1>7. toServer' \in [Clients -> Seq(ClientMsg)]
  <2>1. CASE clientBridge[c] = <<>>
    <3>1. Send(c, <<c, edits[c] + 1>>, op, lastServerStateId[c])
      BY <2>1 DEF Edit, NothingOutstanding
    <3> QED BY <1>1, <1>3, <1>4, <3>1, SendType
  <2>2. CASE clientBridge[c] # <<>>
    BY <2>2 DEF Edit, NothingOutstanding, TypeOK
  <2> QED BY <2>1, <2>2
<1>8. UNCHANGED <<serverVars, open, starting, applied, toClient, lapsed, disturbed, status,
                  lastServerStateId>>
  BY DEF Edit
<1> QED BY <1>5, <1>6, <1>7, <1>8 DEF TypeOK, serverVars, Cur

\* Who is marked inactive leaves the activity and the lapsed connections typed.
LEMMA DeactivateType ==
  ASSUME TypeOK, NEW u \in Users, Deactivate(u)
  PROVE  activeUsers' \in SUBSET users /\ lapsed' \in SUBSET Clients
BY DEF TypeOK, Deactivate

\* Receiving an operation keeps the type of what every receipt changes.
LEMMA ReceivedType ==
  ASSUME TypeOK, StreamInv, NEW c \in Clients, ToReceive(c), Received(c)
  PROVE  /\ lastServerStateId' \in [Clients -> Nat]
         /\ toClient' \in [Clients -> Seq(ServerMsg)]
         /\ UNCHANGED <<serverVars, open, starting, applied, lapsed, disturbed, edits>>
<1>1. Update(c).state \in Nat
  BY UpdateTyped DEF UpdateMsg
<1>2. toClient[c] \in Seq(ServerMsg) /\ toClient[c] # <<>>
  BY DEF TypeOK, ToReceive
<1>3. Tail(toClient[c]) \in Seq(ServerMsg)
  BY <1>2
<1> QED BY <1>1, <1>3 DEF Received, TypeOK

\* TypeOK is inductive relative to SyncInv: the snapshot a joining client takes its
\* document from, and the update a synced one applies, come from StreamInv.
LEMMA TypeStep == SyncInv /\ [Next]_vars => TypeOK'
<1> SUFFICES ASSUME SyncInv, [Next]_vars PROVE TypeOK'
  OBVIOUS
<1>1. TypeOK /\ StreamInv /\ Cur \in Nat /\ User \in [Clients -> Users]
  BY UserAssumption DEF SyncInv, TypeOK, Cur
<1>2. ASSUME NEW c \in Clients, Join(c) PROVE TypeOK'
  <2>1. UNCHANGED <<log, kept, connVars, document, lastServerStateId, clientBridge, edits>>
    BY <1>2 DEF Join
  <2>2. User[c] \in Users /\ Cur \in 0..Cur
    BY <1>1
  <2>3. /\ users' \in SUBSET Users /\ activeUsers' \in SUBSET users'
        /\ userDocStates' \in [Users -> 0..Cur]
    BY <1>1, <1>2, <2>2 DEF Join, AddUser, TypeOK
  <2>4. status' \in [Clients -> {"absent", "opening", "joining", "synced", "panicked", "closed"}]
    BY <1>1, <1>2 DEF Join, TypeOK
  <2> QED BY <1>1, <2>1, <2>3, <2>4 DEF TypeOK, connVars, Cur
<1>3. ASSUME NEW c \in Clients, ReceiveSnapshot(c) PROVE TypeOK'
  <2>1. PICK k \in 0..Cur : Head(toClient[c]) = SnapshotOf(k) /\ DocAt(k) \in Doc
    BY <1>1, <1>3, SnapshotIs DEF ReceiveSnapshot
  <2>2. Head(toClient[c]).document \in Doc /\ Head(toClient[c]).state \in Nat
    BY <2>1 DEF SnapshotOf
  <2>3. toClient' \in [Clients -> Seq(ServerMsg)]
    BY <1>1, <1>3 DEF ReceiveSnapshot, TypeOK
  <2> QED BY <1>1, <1>3, <2>2, <2>3 DEF ReceiveSnapshot, TypeOK, serverVars, Cur
<1>4. ASSUME NEW c \in Clients, Leave(c) \/ RejectEdit(c) PROVE TypeOK'
  <2>1. CASE Leave(c)
    BY <1>1, <2>1, Typing DEF Leave, TypeOK, serverVars, Cur
  <2>2. CASE RejectEdit(c)
    BY <1>1, <2>2 DEF RejectEdit, TypeOK, serverVars, Cur
  <2> QED BY <1>4, <2>1, <2>2
<1>5. ASSUME NEW c \in Clients, HandleClose(c) PROVE TypeOK'
  <2>1. activeUsers' \in SUBSET users /\ lapsed' \in SUBSET Clients
    BY <1>1, <1>5, DeactivateType DEF HandleClose
  <2> QED BY <1>1, <1>5, <2>1 DEF HandleClose, EndConnection, TypeOK, clientVars, Cur
<1>6. ASSUME NEW c \in Clients, LoseConnection(c) PROVE TypeOK'
  BY <1>1, <1>6 DEF LoseConnection, EndConnection, TypeOK, clientVars, serverVars, Cur
<1>7. ASSUME NEW u \in Users, MarkInactive(u) PROVE TypeOK'
  <2>1. activeUsers' \in SUBSET users /\ lapsed' \in SUBSET Clients
    BY <1>1, <1>7, DeactivateType DEF MarkInactive
  <2> QED BY <1>1, <1>7, <2>1 DEF MarkInactive, TypeOK, clientVars, Cur
<1>8. ASSUME NEW c \in Clients, CheckInactive(c) PROVE TypeOK'
  <2>1. activeUsers' \in SUBSET users /\ lapsed' \in SUBSET Clients
    BY <1>1, <1>8, DeactivateType DEF CheckInactive
  <2> QED BY <1>1, <1>8, <2>1 DEF CheckInactive, EndConnection, TypeOK, clientVars, Cur
<1>9. ASSUME NEW c \in Clients, Pong(c) PROVE TypeOK'
  <2>1. User[c] \in users
    BY <1>9 DEF Pong, Waiting, SyncInv, UserInv
  <2> QED BY <1>1, <1>9, <2>1 DEF Pong, TypeOK, clientVars, connVars, Cur
<1>10. ASSUME NEW c \in Clients, LocalEdit(c) PROVE TypeOK'
  BY <1>1, <1>10, EditType DEF LocalEdit
<1>11. ASSUME NEW c \in Clients, ApplyClientOperation(c) PROVE TypeOK'
  <2> DEFINE m == Head(toServer[c])
  <2>1. m \in ClientMsg /\ log \in Seq(LogEntry)
    BY <1>1, <1>11 DEF ApplyClientOperation, TypeOK
  <2>2. PICK op \in Applicable(m) :
          /\ log' = Append(log, [id |-> m.id, op |-> op, document |-> Apply(DocAt(Cur), op)])
          /\ kept' = kept \cup {Cur + 1}
          /\ userDocStates' = [userDocStates EXCEPT ![User[c]] = m.state]
          /\ applied' = [applied EXCEPT ![c] =
               <<[kind |-> "RemoteUpdate", id |-> m.id, op |-> op, state |-> NotRead]>>]
    BY <1>11 DEF ApplyClientOperation
  <2>3. m.id \in Id /\ op \in Op /\ m.state \in 0..Cur /\ Apply(DocAt(Cur), op) \in Doc
    <3>1. op \in Op /\ InLen(op) = Size(DocAt(Cur)) /\ m.state \in 0..Cur
      BY <2>1, ApplicableType
    <3> QED BY <1>1, <2>1, <3>1, DocType, Typing DEF ClientMsg
  <2>4. log' \in Seq(LogEntry) /\ Cur' = Cur + 1
    <3>1. [id |-> m.id, op |-> op, document |-> Apply(DocAt(Cur), op)] \in LogEntry
      BY <2>3 DEF LogEntry
    <3> QED BY <2>1, <2>2, <3>1 DEF Cur
  <2>5. applied' \in [Clients -> Seq(UpdateMsg)]
    <3> DEFINE u == [kind |-> "RemoteUpdate", id |-> m.id, op |-> op, state |-> NotRead]
    <3>1. u \in UpdateMsg
      BY <2>3 DEF UpdateMsg, NotRead
    <3>2. applied' = [applied EXCEPT ![c] = <<u>>]
      BY <2>2
    <3> HIDE DEF u
    <3> QED BY <1>1, <3>1, <3>2 DEF TypeOK
  <2>6. toServer' \in [Clients -> Seq(ClientMsg)]
    BY <1>1, <1>11 DEF ApplyClientOperation, TypeOK
  <2>7. kept' \in SUBSET (0..Cur') /\ userDocStates' \in [Users -> 0..Cur']
    <3>1. kept' \in SUBSET (0..Cur')
      BY <1>1, <2>2, <2>4 DEF TypeOK
    <3>2. userDocStates \in [Users -> 0..Cur] /\ 0..Cur \subseteq 0..Cur'
      BY <1>1, <2>4 DEF TypeOK
    <3>3. userDocStates' \in [Users -> 0..Cur']
      BY <2>2, <2>3, <3>2
    <3> QED BY <3>1, <3>3
  <2>8. disturbed' \in SUBSET Clients
    BY <1>1, <1>11 DEF ApplyClientOperation, TypeOK
  <2>9. UNCHANGED <<users, activeUsers, open, starting, toClient, lapsed, clientVars>>
    BY <1>11 DEF ApplyClientOperation
  <2> QED BY <1>1, <2>4, <2>5, <2>6, <2>7, <2>8, <2>9 DEF TypeOK, clientVars
<1>12. ASSUME NEW c \in Clients, RejectClientOperation(c) PROVE TypeOK'
  BY <1>1, <1>12 DEF RejectClientOperation, EndConnection, TypeOK, clientVars, serverVars, Cur
<1>13. ASSUME PruneDocumentStates PROVE TypeOK'
  BY <1>1, <1>13 DEF PruneDocumentStates, TypeOK, clientVars, connVars, Cur
<1>14. ASSUME NEW c \in Clients, ReceiveAck(c) PROVE TypeOK'
  <2> DEFINE rest == Tail(clientBridge[c])
             s == Update(c).state
  <2>1. ToReceive(c) /\ Received(c) /\ UNCHANGED <<status, document>>
    BY <1>14 DEF ReceiveAck
  <2>2. s \in Nat
    BY <1>1, <2>1, UpdateTyped DEF UpdateMsg
  <2>3. clientBridge[c] \in Seq(ClientOp) /\ clientBridge[c] # <<>> /\ rest \in Seq(ClientOp)
    BY <1>1, <1>14 DEF ReceiveAck, IsAck, TypeOK
  <2>4. /\ lastServerStateId' \in [Clients -> Nat] /\ toClient' \in [Clients -> Seq(ServerMsg)]
        /\ UNCHANGED <<serverVars, open, starting, applied, lapsed, disturbed, edits>>
    BY <1>1, <2>1, ReceivedType
  <2>5. clientBridge' \in [Clients -> Seq(ClientOp)] /\ toServer' \in [Clients -> Seq(ClientMsg)]
    <3>1. CASE rest = <<>>
      <4>1. clientBridge' = [clientBridge EXCEPT ![c] = <<>>] /\ toServer' = toServer
        BY <1>14, <3>1 DEF ReceiveAck
      <4>2. <<>> \in Seq(ClientOp)
        OBVIOUS
      <4> QED BY <1>1, <4>1, <4>2 DEF TypeOK
    <3>2. CASE rest # <<>>
      <4> HIDE DEF rest
      <4>1. rest[1] \in ClientOp /\ Len(rest) \in Nat /\ Len(rest) >= 1
        BY <2>3, <3>2
      <4>2. rest[1].id \in Id /\ rest[1].op \in Op
        BY <4>1 DEF ClientOp
      <4>3. [rest EXCEPT ![1].state = "Pending"] \in Seq(ClientOp)
        <5>1. [rest[1] EXCEPT !.state = "Pending"] \in ClientOp
          BY <4>1 DEF ClientOp
        <5> QED BY <2>3, <4>1, <5>1
      <4>4. /\ clientBridge' = [clientBridge EXCEPT ![c] = [rest EXCEPT ![1].state = "Pending"]]
            /\ Send(c, rest[1].id, rest[1].op, s)
        BY <1>14, <3>2 DEF ReceiveAck, rest
      <4>5. toServer' \in [Clients -> Seq(ClientMsg)]
        BY <1>1, <2>2, <4>2, <4>4, SendType
      <4> QED BY <1>1, <4>3, <4>4, <4>5 DEF TypeOK
    <3> QED BY <3>1, <3>2
  <2> QED BY <1>1, <2>1, <2>4, <2>5 DEF TypeOK, serverVars, Cur
<1>15. ASSUME NEW c \in Clients, Panic(c) PROVE TypeOK'
  BY <1>1, <1>15 DEF Panic, TypeOK, serverVars, connVars, Cur
<1>16. ASSUME NEW c \in Clients, ReceiveWrongAck(c) PROVE TypeOK'
  BY <1>15, <1>16 DEF ReceiveWrongAck
<1>17. ASSUME NEW c \in Clients, ReceiveRemoteUpdate(c) PROVE TypeOK'
  <2> DEFINE op == Update(c).op
             bridge == clientBridge[c]
  <2>1. ToReceive(c) /\ op \in Op
    BY <1>1, <1>17, UpdateTyped DEF ReceiveRemoteUpdate, UpdateMsg
  <2>2. CASE ~Fits(op, bridge, document[c])
    <3>1. Panic(c)
      BY <1>17, <2>1, <2>2 DEF ReceiveRemoteUpdate
    <3> QED BY <1>15, <3>1
  <2>3. CASE Fits(op, bridge, document[c])
    <3>1. bridge \in Seq(ClientOp) /\ document[c] \in Doc
      BY <1>1 DEF TypeOK
    <3>2. /\ Apply(document[c], Passing(op, bridge)[Len(bridge)]) \in Doc
          /\ Passed(op, bridge) \in Seq(ClientOp)
      BY <2>1, <2>3, <3>1, FitsType
    <3>3. /\ document' = [document EXCEPT ![c] = Apply(@, Passing(op, bridge)[Len(bridge)])]
          /\ clientBridge' = [clientBridge EXCEPT ![c] = Passed(op, bridge)]
          /\ Received(c)
          /\ UNCHANGED <<toServer, status>>
      BY <1>17, <2>1, <2>3 DEF ReceiveRemoteUpdate, Passed
    <3>4. /\ lastServerStateId' \in [Clients -> Nat] /\ toClient' \in [Clients -> Seq(ServerMsg)]
          /\ UNCHANGED <<serverVars, open, starting, applied, lapsed, disturbed, edits>>
      BY <1>1, <2>1, <3>3, ReceivedType
    <3>5. document' \in [Clients -> Doc] /\ clientBridge' \in [Clients -> Seq(ClientOp)]
      BY <1>1, <3>2, <3>3 DEF TypeOK
    <3> QED BY <1>1, <3>3, <3>4, <3>5 DEF TypeOK, serverVars, Cur
  <2> QED BY <2>2, <2>3
<1>18. ASSUME NEW c \in Clients, Connect(c) PROVE TypeOK'
  <2>1. /\ open' \in [Clients -> BOOLEAN] /\ starting' \in SUBSET Clients
        /\ status' \in [Clients -> {"absent", "opening", "joining", "synced", "panicked", "closed"}]
    BY <1>1, <1>18 DEF Connect, TypeOK
  <2>2. lapsed' \in SUBSET Clients
    BY <1>1, <1>18 DEF Connect, Others, TypeOK
  <2>3. /\ UNCHANGED <<serverVars, applied, toServer, toClient, document, lastServerStateId,
                       clientBridge, edits>>
        /\ disturbed' \in SUBSET Clients
    BY <1>1, <1>18 DEF Connect, TypeOK
  <2> QED BY <1>1, <2>1, <2>2, <2>3 DEF TypeOK, serverVars, Cur
<1>19. ASSUME NEW c \in Clients, SendSnapshot(c) PROVE TypeOK'
  <2>1. DocAt(Cur) \in Doc
    BY <1>1, DocType
  <2>2. SnapshotOf(Cur) \in ServerMsg
    BY <1>1, <2>1 DEF SnapshotOf, ServerMsg
  <2>3. toClient' = [toClient EXCEPT ![c] =
           IF status[c] = "joining" THEN <<SnapshotOf(Cur)>> \o @ ELSE @]
    BY <1>19 DEF SendSnapshot, SnapshotOf
  <2>4. toClient[c] \in Seq(ServerMsg) /\ <<SnapshotOf(Cur)>> \in Seq(ServerMsg)
    BY <1>1, <2>2 DEF TypeOK
  <2>5. <<SnapshotOf(Cur)>> \o toClient[c] \in Seq(ServerMsg)
    BY <2>4
  <2>6. toClient' \in [Clients -> Seq(ServerMsg)]
    BY <1>1, <2>3, <2>5 DEF TypeOK
  <2>7. starting' \in SUBSET Clients /\ disturbed' \in SUBSET Clients
    BY <1>1, <1>19 DEF SendSnapshot, TypeOK
  <2>8. UNCHANGED <<serverVars, open, applied, toServer, lapsed, clientVars>>
    BY <1>19 DEF SendSnapshot
  <2> QED BY <1>1, <2>6, <2>7, <2>8 DEF TypeOK, serverVars, clientVars, Cur
<1>20. ASSUME NEW c \in Clients, ReadStateId(c) PROVE TypeOK'
  <2>1. applied[c] \in Seq(UpdateMsg) /\ applied[c] # <<>>
    BY <1>1, <1>20 DEF ReadStateId, TypeOK
  <2>2. applied[c][1] \in UpdateMsg
    BY <2>1
  <2>3. <<[applied[c][1] EXCEPT !.state = Cur]>> \in Seq(UpdateMsg)
    BY <1>1, <2>2 DEF UpdateMsg
  <2>4. applied' \in [Clients -> Seq(UpdateMsg)]
    BY <1>1, <1>20, <2>3 DEF ReadStateId, TypeOK
  <2>5. UNCHANGED <<serverVars, open, starting, toServer, toClient, lapsed, disturbed, clientVars>>
    BY <1>20 DEF ReadStateId
  <2> QED BY <1>1, <2>4, <2>5 DEF TypeOK, serverVars, clientVars, Cur
<1>21. ASSUME NEW c \in Clients, Broadcast(c) PROVE TypeOK'
  <2> DEFINE u == applied[c][1]
  <2>1. applied[c] \in Seq(UpdateMsg) /\ applied[c] # <<>>
    BY <1>1, <1>21 DEF Broadcast, TypeOK
  <2>2. u \in ServerMsg
    BY <2>1 DEF ServerMsg
  <2>3. toClient' = [d \in Clients |-> IF Listening(d) THEN Append(toClient[d], u)
                                                       ELSE toClient[d]]
    BY <1>21 DEF Broadcast
  <2> HIDE DEF u
  <2>4. toClient' \in [Clients -> Seq(ServerMsg)]
    BY <1>1, <2>2, <2>3 DEF TypeOK
  <2>5. applied' \in [Clients -> Seq(UpdateMsg)]
    <3>1. <<>> \in Seq(UpdateMsg)
      OBVIOUS
    <3> QED BY <1>1, <1>21, <3>1 DEF Broadcast, TypeOK
  <2>6. UNCHANGED <<serverVars, open, starting, toServer, lapsed, disturbed, clientVars>>
    BY <1>21 DEF Broadcast
  <2> QED BY <1>1, <2>4, <2>5, <2>6 DEF TypeOK, serverVars, clientVars, Cur
<1>22. CASE UNCHANGED vars
  BY <1>1, <1>22 DEF TypeOK, vars, serverVars, connVars, clientVars, Cur
<1>23. CASE Next
  BY <1>2, <1>3, <1>4, <1>5, <1>6, <1>7, <1>8, <1>9, <1>10, <1>11, <1>12, <1>13, <1>14,
     <1>16, <1>17, <1>18, <1>19, <1>20, <1>21, <1>23 DEF Next, ServerNext, ClientNext
<1> QED BY <1>22, <1>23

\* What the server adds to the history follows from the state before, and is what
\* the task is to broadcast.
LEMMA ApplyFacts ==
  ASSUME SyncInv, NEW c \in Clients, ApplyClientOperation(c)
  PROVE  /\ Cur \in Nat /\ Cur' = Cur + 1
         /\ \A k \in 1..Cur : log'[k] = log[k]
         /\ \A k \in 0..Cur : DocAt(k)' = DocAt(k)
         /\ \A k \in 1..Cur : UpdateOf(k)' = UpdateOf(k)
         /\ log'[Cur + 1].id = Head(toServer[c]).id
         /\ InLen(log'[Cur + 1].op) = Size(DocAt(Cur))
         /\ log'[Cur + 1].document = Apply(DocAt(Cur), log'[Cur + 1].op)
         /\ applied' = [applied EXCEPT ![c] =
              <<[kind |-> "RemoteUpdate", id |-> log'[Cur + 1].id, op |-> log'[Cur + 1].op,
                 state |-> NotRead]>>]
<1> DEFINE m == Head(toServer[c])
<1>1. m \in ClientMsg /\ log \in Seq(LogEntry) /\ Cur \in Nat
  BY DEF ApplyClientOperation, SyncInv, TypeOK, Cur
<1>2. PICK op \in Applicable(m) :
        /\ log' = Append(log, [id |-> m.id, op |-> op, document |-> Apply(DocAt(Cur), op)])
        /\ applied' = [applied EXCEPT ![c] =
              <<[kind |-> "RemoteUpdate", id |-> m.id, op |-> op, state |-> NotRead]>>]
  BY DEF ApplyClientOperation
<1>3. InLen(op) = Size(DocAt(Cur))
  BY <1>1, ApplicableType
<1> HIDE DEF m
<1>4. Cur' = Cur + 1 /\ \A k \in 1..Cur : log'[k] = log[k]
  BY <1>1, <1>2 DEF Cur
<1>5. log'[Cur + 1] = [id |-> m.id, op |-> op, document |-> Apply(DocAt(Cur), op)]
  BY <1>1, <1>2 DEF Cur
<1>6. \A k \in 0..Cur : DocAt(k)' = DocAt(k)
  BY <1>4 DEF DocAt
<1>7. \A k \in 1..Cur : UpdateOf(k)' = UpdateOf(k)
  BY <1>4 DEF UpdateOf
<1>8. log'[Cur + 1].id = m.id /\ log'[Cur + 1].op = op
  BY <1>5
<1>9. /\ InLen(log'[Cur + 1].op) = Size(DocAt(Cur))
      /\ log'[Cur + 1].document = Apply(DocAt(Cur), log'[Cur + 1].op)
  BY <1>3, <1>5
<1>10. applied' = [applied EXCEPT ![c] =
          <<[kind |-> "RemoteUpdate", id |-> log'[Cur + 1].id, op |-> log'[Cur + 1].op,
             state |-> NotRead]>>]
  BY <1>2, <1>8
<1>11. log'[Cur + 1].id = Head(toServer[c]).id
  BY <1>8 DEF m
<1> QED BY <1>1, <1>4, <1>6, <1>7, <1>9, <1>10, <1>11

\* Only an applied operation changes the history.
LEMMA LogUnchanged ==
  ASSUME [Next]_vars, ~\E c \in Clients : ApplyClientOperation(c)
  PROVE  log' = log
BY DEF Next, ServerNext, ClientNext, vars, serverVars, Join, AddUser, Connect, SendSnapshot,
       ReceiveSnapshot, Leave, HandleClose, LoseConnection, MarkInactive, CheckInactive, Pong,
       LocalEdit, Edit, RejectEdit, RejectClientOperation, ReadStateId, Broadcast,
       PruneDocumentStates, ReceiveAck, ReceiveWrongAck, ReceiveRemoteUpdate, Received, Panic

\* The history is never shortened, and its documents stay what they are.
LEMMA Grows ==
  ASSUME SyncInv, [Next]_vars
  PROVE  /\ Cur \in Nat /\ Cur' \in Nat /\ Cur <= Cur'
         /\ \A k \in 1..Cur : log'[k] = log[k] /\ UpdateOf(k)' = UpdateOf(k)
         /\ \A k \in 0..Cur : DocAt(k)' = DocAt(k) /\ SnapshotOf(k)' = SnapshotOf(k)
<1>1. Cur \in Nat
  BY DEF SyncInv, TypeOK, Cur
<1>2. ASSUME NEW c \in Clients, ApplyClientOperation(c)
      PROVE  /\ Cur' \in Nat /\ Cur <= Cur'
             /\ \A k \in 1..Cur : log'[k] = log[k] /\ UpdateOf(k)' = UpdateOf(k)
             /\ \A k \in 0..Cur : DocAt(k)' = DocAt(k)
  BY <1>2, ApplyFacts
<1>3. ASSUME log' = log
      PROVE  /\ Cur' = Cur
             /\ \A k \in 1..Cur : log'[k] = log[k] /\ UpdateOf(k)' = UpdateOf(k)
             /\ \A k \in 0..Cur : DocAt(k)' = DocAt(k)
  BY <1>3 DEF Cur, UpdateOf, DocAt
<1>4. /\ Cur' \in Nat /\ Cur <= Cur'
      /\ \A k \in 1..Cur : log'[k] = log[k] /\ UpdateOf(k)' = UpdateOf(k)
      /\ \A k \in 0..Cur : DocAt(k)' = DocAt(k)
  BY <1>1, <1>2, <1>3, LogUnchanged
<1>5. \A k \in 0..Cur : SnapshotOf(k)' = SnapshotOf(k)
  BY <1>4 DEF SnapshotOf
<1> QED BY <1>1, <1>4, <1>5

\* The server appends what applies to its last document, and changes nothing else
\* of the history.
LEMMA LogStep == SyncInv /\ [Next]_vars => LogInv'
<1> SUFFICES ASSUME SyncInv, [Next]_vars PROVE LogInv'
  OBVIOUS
<1>1. ASSUME NEW c \in Clients, ApplyClientOperation(c) PROVE LogInv'
  <2>1. ASSUME NEW k \in 1..(Cur + 1)
        PROVE  /\ InLen(log'[k].op) = Size(DocAt(k-1)')
               /\ log'[k].document = Apply(DocAt(k-1)', log'[k].op)
    <3>1. k-1 \in 0..Cur /\ DocAt(k-1)' = DocAt(k-1)
      BY <1>1, ApplyFacts
    <3>2. CASE k = Cur + 1
      <4>1. k-1 = Cur
        BY <1>1, <3>2, ApplyFacts
      <4> QED BY <1>1, <3>1, <3>2, <4>1, ApplyFacts
    <3>3. CASE k \in 1..Cur
      <4>1. log'[k] = log[k]
        BY <1>1, <3>3, ApplyFacts
      <4> QED BY <3>1, <3>3, <4>1 DEF SyncInv, LogInv
    <3>4. k = Cur + 1 \/ k \in 1..Cur
      BY <1>1, ApplyFacts
    <3> QED BY <3>2, <3>3, <3>4
  <2>2. Cur' = Cur + 1
    BY <1>1, ApplyFacts
  <2> QED BY <2>1, <2>2 DEF LogInv
<1>2. CASE log' = log
  BY <1>2 DEF SyncInv, LogInv, Cur, DocAt
<1> QED BY <1>1, <1>2, LogUnchanged

\* Only a synced client edits, and a client that leaves forgets its bridge.
LEMMA IdleStep == SyncInv /\ [Next]_vars => IdleInv'
<1> SUFFICES ASSUME SyncInv, [Next]_vars PROVE IdleInv'
  OBVIOUS
<1>1. TypeOK /\ IdleInv
  BY DEF SyncInv
<1>2. ASSUME status' = status, clientBridge' = clientBridge PROVE IdleInv'
  BY <1>1, <1>2 DEF IdleInv
<1>3. ASSUME NEW c \in Clients, status'[c] \in {"synced", "panicked"} \/ clientBridge'[c] = <<>>,
             \A d \in Clients \ {c} : status'[d] = status[d] /\ clientBridge'[d] = clientBridge[d]
      PROVE  IdleInv'
  BY <1>1, <1>3 DEF IdleInv
<1>4. ASSUME NEW c \in Clients, Join(c) \/ Connect(c) PROVE IdleInv'
  <2>1. clientBridge' = clientBridge /\ clientBridge[c] = <<>>
    BY <1>1, <1>4 DEF Join, Connect, IdleInv
  <2>2. \A d \in Clients \ {c} : status'[d] = status[d]
    BY <1>1, <1>4 DEF Join, Connect, TypeOK
  <2> QED BY <1>3, <2>1, <2>2
<1>5. ASSUME NEW c \in Clients, ReceiveSnapshot(c) PROVE IdleInv'
  BY <1>1, <1>3, <1>5 DEF ReceiveSnapshot, TypeOK
<1>6. ASSUME NEW c \in Clients, Leave(c) \/ RejectEdit(c) PROVE IdleInv'
  BY <1>1, <1>6 DEF Leave, RejectEdit, TypeOK, IdleInv
<1>7. ASSUME NEW c \in Clients, LocalEdit(c) PROVE IdleInv'
  <2>1. status' = status /\ status[c] = "synced"
    BY <1>7 DEF LocalEdit, Edit
  <2>2. \A d \in Clients \ {c} : clientBridge'[d] = clientBridge[d]
    BY <1>1, <1>7 DEF LocalEdit, Edit, RejectEdit, TypeOK
  <2> QED BY <1>3, <2>1, <2>2
<1>8. ASSUME NEW c \in Clients, ReceiveAck(c) PROVE IdleInv'
  <2>1. status' = status /\ status[c] = "synced"
    BY <1>8 DEF ReceiveAck, ToReceive
  <2>2. \A d \in Clients \ {c} : clientBridge'[d] = clientBridge[d]
    BY <1>1, <1>8 DEF ReceiveAck, TypeOK
  <2> QED BY <1>3, <2>1, <2>2
<1>9. ASSUME NEW c \in Clients, ToReceive(c), Panic(c) PROVE IdleInv'
  BY <1>1, <1>3, <1>9 DEF ToReceive, Panic, TypeOK
<1>10. ASSUME NEW c \in Clients, ReceiveRemoteUpdate(c) PROVE IdleInv'
  <2>1. ToReceive(c) /\ status[c] = "synced"
    BY <1>10 DEF ReceiveRemoteUpdate, ToReceive
  <2>2. CASE ~Panic(c)
    <3>1. status' = status
      BY <1>10, <2>2 DEF ReceiveRemoteUpdate
    <3>2. \A d \in Clients \ {c} : clientBridge'[d] = clientBridge[d]
      BY <1>1, <1>10, <2>2 DEF ReceiveRemoteUpdate, TypeOK
    <3> QED BY <1>3, <2>1, <3>1, <3>2
  <2> QED BY <1>9, <2>1, <2>2
<1>11. ASSUME NEW c \in Clients,
              \/ HandleClose(c) \/ LoseConnection(c) \/ CheckInactive(c)
              \/ Pong(c) \/ RejectClientOperation(c) \/ ApplyClientOperation(c)
              \/ SendSnapshot(c) \/ ReadStateId(c) \/ Broadcast(c)
       PROVE  IdleInv'
  BY <1>2, <1>11 DEF HandleClose, LoseConnection, CheckInactive, Pong, SendSnapshot,
     ReadStateId, Broadcast, RejectClientOperation, ApplyClientOperation, clientVars
<1>12. ASSUME NEW u \in Users, MarkInactive(u) PROVE IdleInv'
  BY <1>2, <1>12 DEF MarkInactive, clientVars
<1>13. CASE PruneDocumentStates \/ UNCHANGED vars
  BY <1>2, <1>13 DEF PruneDocumentStates, vars, clientVars
<1>14. CASE Next
  BY <1>4, <1>5, <1>6, <1>7, <1>8, <1>9, <1>10, <1>11, <1>12, <1>13, <1>14
     DEF Next, ServerNext, ClientNext, ReceiveWrongAck
<1> QED BY <1>13, <1>14

\* A connection is opened by a page that has joined, and users stay.
LEMMA UserStep == SyncInv /\ [Next]_vars => UserInv'
<1> SUFFICES ASSUME SyncInv, [Next]_vars PROVE UserInv'
  OBVIOUS
<1>1. TypeOK /\ UserInv
  BY DEF SyncInv
<1>2. ASSUME users' = users,
             \A d \in Clients : open'[d] \/ status'[d] = "opening" => open[d] \/ status[d] = "opening"
      PROVE  UserInv'
  BY <1>1, <1>2 DEF UserInv
<1>3. ASSUME NEW c \in Clients, Join(c) PROVE UserInv'
  <2>1. users' = users \cup {User[c]} /\ open' = open
    BY <1>3 DEF Join, AddUser, connVars
  <2>2. \A d \in Clients \ {c} : status'[d] = status[d]
    BY <1>1, <1>3 DEF Join, TypeOK
  <2> QED BY <1>1, <2>1, <2>2 DEF UserInv
<1>4. ASSUME NEW c \in Clients,
             \/ Connect(c) \/ HandleClose(c) \/ LoseConnection(c) \/ CheckInactive(c)
             \/ RejectClientOperation(c)
      PROVE  UserInv'
  BY <1>1, <1>2, <1>4 DEF TypeOK, Connect, HandleClose, LoseConnection, CheckInactive,
     RejectClientOperation, EndConnection, serverVars, clientVars
<1>5. ASSUME NEW c \in Clients,
             \/ ReceiveSnapshot(c) \/ Leave(c) \/ RejectEdit(c) \/ LocalEdit(c) \/ Panic(c)
             \/ ReceiveAck(c) \/ ReceiveRemoteUpdate(c)
      PROVE  UserInv'
  <2>1. users' = users /\ open' = open
    BY <1>5 DEF ReceiveSnapshot, Leave, RejectEdit, LocalEdit, Edit, Panic, ReceiveAck,
       ReceiveRemoteUpdate, Received, serverVars, connVars
  <2>2. \A d \in Clients : status'[d] = "opening" => status[d] = "opening"
    BY <1>1, <1>5 DEF TypeOK, ReceiveSnapshot, Leave, RejectEdit, LocalEdit, Edit, Panic,
       ReceiveAck, ReceiveRemoteUpdate
  <2> QED BY <1>2, <2>1, <2>2
<1>6. ASSUME NEW c \in Clients,
             \/ Pong(c) \/ ApplyClientOperation(c) \/ SendSnapshot(c) \/ ReadStateId(c)
             \/ Broadcast(c)
      PROVE  UserInv'
  BY <1>2, <1>6 DEF Pong, ApplyClientOperation, SendSnapshot, ReadStateId, Broadcast,
     serverVars, connVars, clientVars
<1>7. CASE PruneDocumentStates \/ UNCHANGED vars \/ \E u \in Users : MarkInactive(u)
  BY <1>2, <1>7 DEF PruneDocumentStates, MarkInactive, vars, serverVars, connVars, clientVars
<1>8. CASE Next
  BY <1>3, <1>4, <1>5, <1>6, <1>7, <1>8 DEF Next, ServerNext, ClientNext, ReceiveWrongAck
<1> QED BY <1>7, <1>8

-----------------------------------------------------------------------------
(* Messages on their way to a client                                       *)

\* What comes to d is what it was while the step does nothing to it.
LEMMA StreamSame ==
  ASSUME SyncInv, [Next]_vars, NEW d \in Clients, status'[d] = status[d],
         toClient'[d] = toClient[d], d \in starting' <=> d \in starting
  PROVE  Streams(d)'
<1>1. Streams(d)
  BY DEF SyncInv, StreamInv
<1>2. \A k \in 0..Cur : k \in 0..Cur' /\ SnapshotOf(k)' = SnapshotOf(k)
  BY Grows
<1>3. status[d] = "joining" /\ d \notin starting =>
        toClient[d] # <<>> /\ \E k \in 0..Cur' : toClient[d][1] = SnapshotOf(k)'
  BY <1>1, <1>2 DEF Streams
<1> QED BY <1>1, <1>3 DEF Streams, SnapshotOf, UpdateMsg

\* The snapshot comes first, and what a task broadcasts comes last.
LEMMA StreamsStep ==
  ASSUME SyncInv, [Next]_vars, NEW d \in Clients
  PROVE  Streams(d)'
<1>1. TypeOK /\ TypeOK' /\ StreamInv /\ Cur \in Nat
  BY TypeStep, Grows DEF SyncInv
<1>2. Streams(d) /\ toClient[d] \in Seq(ServerMsg) /\ toClient'[d] \in Seq(ServerMsg)
  BY <1>1 DEF StreamInv, TypeOK
<1>3. ASSUME NEW c \in Clients, Join(c) PROVE Streams(d)'
  <2>1. /\ toClient' = toClient /\ starting' = starting
        /\ status' = [status EXCEPT ![c] = "opening"] /\ status[c] = "absent"
    BY <1>3 DEF Join, connVars
  <2>2. CASE d = c
    BY <1>1, <1>2, <2>1, <2>2 DEF Streams, TypeOK
  <2>3. CASE d # c
    BY <1>1, <2>1, <2>3, StreamSame DEF TypeOK
  <2> QED BY <2>2, <2>3
<1>4. ASSUME NEW c \in Clients, Connect(c) PROVE Streams(d)'
  <2>1. /\ toClient' = toClient /\ starting' = starting \cup {c}
        /\ status' = [status EXCEPT ![c] = "joining"] /\ status[c] = "opening"
    BY <1>4 DEF Connect
  <2>2. CASE d = c
    BY <1>1, <1>2, <2>1, <2>2 DEF Streams, TypeOK
  <2>3. CASE d # c
    BY <1>1, <2>1, <2>3, StreamSame DEF TypeOK
  <2> QED BY <2>2, <2>3
<1>5. ASSUME NEW c \in Clients, SendSnapshot(c) PROVE Streams(d)'
  <2>1. /\ c \in starting /\ starting' = starting \ {c} /\ status' = status
        /\ toClient' = [toClient EXCEPT ![c] =
              IF status[c] = "joining" THEN <<SnapshotOf(Cur)>> \o @ ELSE @]
        /\ Cur' = Cur /\ SnapshotOf(Cur)' = SnapshotOf(Cur)
    BY <1>5 DEF SendSnapshot, SnapshotOf, clientVars, serverVars, Cur, DocAt
  <2>2. CASE d = c /\ status[c] = "joining"
    <3> DEFINE msgs == toClient[c]
               new == toClient'[c]
               s == SnapshotOf(Cur)
    <3>1. msgs \in Seq(ServerMsg) /\ new = <<s>> \o msgs
      BY <1>1, <2>1, <2>2 DEF TypeOK
    <3>2. \A i \in 1..Len(msgs) : msgs[i] \in UpdateMsg
      BY <1>2, <2>1, <2>2 DEF Streams
    <3> HIDE DEF msgs, new, s
    <3>3. /\ Len(new) = Len(msgs) + 1 /\ Len(msgs) \in Nat /\ new[1] = s /\ new # <<>>
          /\ \A i \in 2..Len(new) : new[i] = msgs[i-1]
      BY <3>1
    <3>4. ASSUME NEW i \in 1..Len(new) PROVE i = 1 \/ new[i] \in UpdateMsg
      <4>1. CASE i # 1
        <5>1. i \in 2..Len(new) /\ i-1 \in 1..Len(msgs)
          BY <3>3, <3>4, <4>1
        <5> QED BY <3>2, <3>3, <5>1
      <4> QED BY <4>1
    <3>5. \A k \in 0..Cur : k \in 0..Cur' /\ SnapshotOf(k)' = SnapshotOf(k)
      BY Grows
    <3>6. \E k \in 0..Cur' : new[1] = SnapshotOf(k)'
      BY <1>1, <3>3, <3>5 DEF s
    <3> QED BY <1>1, <2>1, <2>2, <3>3, <3>4, <3>6 DEF Streams, new
  <2>3. CASE d = c /\ status[c] # "joining"
    <3>1. status[c] = "absent" /\ toClient[c] = <<>>
      BY <1>1, <2>1, <2>3 DEF StreamInv, TaskInv, Streams
    <3> QED BY <1>1, <2>1, <2>3, <3>1 DEF Streams, TypeOK
  <2>4. CASE d # c
    BY <1>1, <2>1, <2>4, StreamSame DEF TypeOK
  <2> QED BY <2>2, <2>3, <2>4
<1> DEFINE Takes(c) ==
      /\ toClient[c] # <<>> /\ toClient' = [toClient EXCEPT ![c] = Tail(@)]
      /\ status[c] = "synced" \/ (status[c] = "joining" /\ c \notin starting)
      /\ status' = [status EXCEPT ![c] = "synced"] /\ starting' = starting
<1>6. ASSUME NEW c \in Clients, Takes(c) PROVE Streams(d)'
  <2>1. CASE d = c
    <3>1. toClient'[c] = Tail(toClient[c]) /\ status'[c] = "synced"
      BY <1>1, <1>6 DEF TypeOK
    <3>2. ASSUME NEW i \in 1..Len(Tail(toClient[c])) PROVE Tail(toClient[c])[i] \in UpdateMsg
      <4>1. i+1 \in 1..Len(toClient[c]) /\ i+1 # 1 /\ Tail(toClient[c])[i] = toClient[c][i+1]
        BY <1>2, <1>6, <2>1
      <4> QED BY <1>2, <1>6, <2>1, <4>1 DEF Streams
    <3> QED BY <1>1, <2>1, <3>1, <3>2 DEF Streams
  <2>2. CASE d # c
    BY <1>1, <1>6, <2>2, StreamSame DEF TypeOK
  <2> QED BY <2>1, <2>2
<1>7. ASSUME NEW c \in Clients, ReceiveSnapshot(c) PROVE Streams(d)'
  <2>1. Takes(c)
    BY <1>7 DEF ReceiveSnapshot
  <2> HIDE DEF Takes
  <2> QED BY <1>6, <2>1
<1>8. ASSUME NEW c \in Clients, ToReceive(c), Received(c), UNCHANGED status PROVE Streams(d)'
  <2>1. toClient' = [toClient EXCEPT ![c] = Tail(@)] /\ starting' = starting
    BY <1>8 DEF Received
  <2>2. status[c] = "synced" /\ toClient[c] # <<>>
    BY <1>8 DEF ToReceive
  <2>3. status' = [status EXCEPT ![c] = "synced"]
    BY <1>1, <1>8, <2>2 DEF TypeOK
  <2>4. Takes(c)
    BY <2>1, <2>2, <2>3
  <2> HIDE DEF Takes
  <2> QED BY <1>6, <2>4
<1>9. ASSUME NEW c \in Clients, Panic(c) PROVE Streams(d)'
  <2>1. toClient' = toClient /\ starting' = starting /\ status' = [status EXCEPT ![c] = "panicked"]
    BY <1>9 DEF Panic, connVars
  <2>2. CASE d = c
    BY <1>1, <2>1, <2>2 DEF Streams, TypeOK
  <2>3. CASE d # c
    BY <1>1, <2>1, <2>3, StreamSame DEF TypeOK
  <2> QED BY <2>2, <2>3
<1>10. ASSUME NEW c \in Clients, ReceiveAck(c) \/ ReceiveWrongAck(c) \/ ReceiveRemoteUpdate(c)
       PROVE  Streams(d)'
  <2>1. CASE Panic(c)
    BY <1>9, <2>1
  <2>2. CASE ToReceive(c) /\ Received(c) /\ UNCHANGED status
    BY <1>8, <2>2
  <2> QED BY <1>10, <2>1, <2>2 DEF ReceiveAck, ReceiveWrongAck, ReceiveRemoteUpdate
<1>11. ASSUME NEW c \in Clients, Leave(c) \/ RejectEdit(c) PROVE Streams(d)'
  <2>1. /\ toClient' = [toClient EXCEPT ![c] = <<>>] /\ starting' = starting
        /\ \/ status' = [status EXCEPT ![c] = "absent"]
           \/ status' = [status EXCEPT ![c] = "closed"]
    BY <1>11 DEF Leave, RejectEdit
  <2>2. CASE d = c
    BY <1>1, <2>1, <2>2 DEF Streams, TypeOK
  <2>3. CASE d # c
    BY <1>1, <2>1, <2>3, StreamSame DEF TypeOK
  <2> QED BY <2>2, <2>3
<1>12. ASSUME NEW c \in Clients, Broadcast(c) PROVE Streams(d)'
  <2> DEFINE msgs == toClient[d]
             u == applied[c][1]
  <2>1. /\ status' = status /\ starting' = starting /\ applied[c] # <<>>
        /\ toClient'[d] = IF Listening(d) THEN Append(msgs, u) ELSE msgs
        /\ UNCHANGED serverVars
    BY <1>12 DEF Broadcast, clientVars
  <2>2. u \in UpdateMsg
    <3>1. applied[c] \in Seq(UpdateMsg)
      BY <1>1 DEF TypeOK
    <3> QED BY <2>1, <3>1
  <2> HIDE DEF u
  <2>3. CASE Listening(d)
    <3> DEFINE new == toClient'[d]
    <3>1. /\ new = Append(msgs, u) /\ msgs \in Seq(ServerMsg)
          /\ status[d] \in {"joining", "synced"}
      BY <1>2, <2>1, <2>3 DEF Listening
    <3> HIDE DEF new, msgs
    <3>2. /\ Len(new) = Len(msgs) + 1 /\ new # <<>> /\ new[Len(msgs) + 1] = u /\ Len(msgs) \in Nat
          /\ \A i \in 1..Len(msgs) : new[i] = msgs[i]
          /\ msgs # <<>> => 1 \in 1..Len(msgs)
      BY <3>1
    <3>3. /\ status[d] = "joining" /\ d \notin starting =>
               msgs # <<>> /\ \E k \in 0..Cur : msgs[1] = SnapshotOf(k)
          /\ \A i \in 1..Len(msgs) :
               (i = 1 /\ status[d] = "joining" /\ d \notin starting) \/ msgs[i] \in UpdateMsg
      BY <1>2, <3>1 DEF Streams, msgs
    <3>4. \A k \in 0..Cur : k \in 0..Cur' /\ SnapshotOf(k)' = SnapshotOf(k)
      BY Grows
    <3>5. status[d] = "joining" /\ d \notin starting => \E k \in 0..Cur' : new[1] = SnapshotOf(k)'
      BY <3>2, <3>3, <3>4
    <3>6. \A i \in 1..Len(new) :
            (i = 1 /\ status[d] = "joining" /\ d \notin starting) \/ new[i] \in UpdateMsg
      BY <2>2, <3>2, <3>3
    <3> QED BY <1>1, <2>1, <3>1, <3>2, <3>5, <3>6 DEF Streams, new
  <2>4. CASE ~Listening(d)
    BY <2>1, <2>4, StreamSame
  <2> QED BY <2>3, <2>4
<1>13. ASSUME NEW c \in Clients,
              \/ HandleClose(c) \/ LoseConnection(c) \/ CheckInactive(c) \/ Pong(c)
              \/ RejectClientOperation(c) \/ ApplyClientOperation(c) \/ ReadStateId(c)
              \/ LocalEdit(c)
       PROVE  Streams(d)'
  <2>1. toClient' = toClient /\ starting' = starting /\ status' = status
    BY <1>13 DEF HandleClose, LoseConnection, CheckInactive, Pong, RejectClientOperation,
       ApplyClientOperation, ReadStateId, LocalEdit, Edit, connVars, clientVars
  <2> QED BY <2>1, StreamSame
<1>14. CASE PruneDocumentStates \/ UNCHANGED vars \/ \E u \in Users : MarkInactive(u)
  <2>1. toClient' = toClient /\ starting' = starting /\ status' = status
    BY <1>14 DEF PruneDocumentStates, MarkInactive, vars, connVars, clientVars
  <2> QED BY <2>1, StreamSame
<1>15. CASE Next
  BY <1>3, <1>4, <1>5, <1>7, <1>10, <1>11, <1>12, <1>13, <1>14, <1>15
     DEF Next, ServerNext, ClientNext
<1> QED BY <1>14, <1>15

\* A task does nothing before the snapshot, and only while its connection is open.
LEMMA TaskStep ==
  ASSUME SyncInv, [Next]_vars, NEW d \in Clients
  PROVE  TaskInv(d)'
<1>1. TypeOK /\ \A c \in Clients : TaskInv(c)
  BY DEF SyncInv, StreamInv
<1>2. ASSUME applied' = applied, starting' = starting, open' = open,
             status'[d] = status[d] \/ (d \notin starting /\ status'[d] # "opening")
      PROVE  TaskInv(d)'
  BY <1>1, <1>2 DEF TaskInv
<1>3. ASSUME NEW c \in Clients, Join(c) PROVE TaskInv(d)'
  <2>1. /\ applied' = applied /\ starting' = starting /\ open' = open /\ ~open[c]
        /\ status' = [status EXCEPT ![c] = "opening"]
    BY <1>3 DEF Join, connVars
  <2> QED BY <1>1, <2>1 DEF TaskInv, TypeOK
<1>4. ASSUME NEW c \in Clients, Connect(c) PROVE TaskInv(d)'
  <2>1. /\ applied' = applied /\ starting' = starting \cup {c}
        /\ open' = [open EXCEPT ![c] = TRUE] /\ status[c] = "opening"
        /\ status' = [status EXCEPT ![c] = "joining"]
    BY <1>4 DEF Connect
  <2>2. TaskInv(c) /\ TaskInv(d)
    BY <1>1
  <2>3. CASE d = c
    BY <1>1, <2>1, <2>2, <2>3 DEF TaskInv, TypeOK
  <2>4. CASE d # c
    <3>1. /\ applied'[d] = applied[d] /\ open'[d] = open[d] /\ status'[d] = status[d]
          /\ d \in starting' <=> d \in starting
      BY <1>1, <2>1, <2>4 DEF TypeOK
    <3> QED BY <2>2, <3>1 DEF TaskInv
  <2> QED BY <2>3, <2>4
<1>5. ASSUME NEW c \in Clients, SendSnapshot(c) PROVE TaskInv(d)'
  <2>1. applied' = applied /\ starting' = starting \ {c} /\ open' = open /\ status' = status
    BY <1>5 DEF SendSnapshot, clientVars
  <2> QED BY <1>1, <2>1 DEF TaskInv
<1>6. ASSUME NEW c \in Clients, Waiting(c), EndConnection(c), applied' = applied,
             starting' = starting, status' = status
      PROVE  TaskInv(d)'
  <2>1. open' = [open EXCEPT ![c] = FALSE] /\ c \notin starting /\ applied[c] = <<>>
    BY <1>6 DEF EndConnection, Waiting
  <2> QED BY <1>1, <1>6, <2>1 DEF TaskInv, TypeOK
<1>7. ASSUME NEW c \in Clients,
             \/ HandleClose(c) \/ LoseConnection(c) \/ CheckInactive(c)
             \/ RejectClientOperation(c)
      PROVE  TaskInv(d)'
  BY <1>6, <1>7 DEF HandleClose, LoseConnection, CheckInactive, RejectClientOperation, clientVars
<1>8. ASSUME NEW c \in Clients, open[c], c \notin starting, starting' = starting, open' = open,
             status' = status, NEW s \in Seq(UpdateMsg), s = <<>> \/ Len(s) = 1,
             applied' = [applied EXCEPT ![c] = s]
      PROVE  TaskInv(d)'
  <2>2. CASE d = c
    <3>1. applied'[c] = s /\ TaskInv(c)
      BY <1>1, <1>8 DEF TypeOK
    <3> QED BY <1>8, <2>2, <3>1 DEF TaskInv
  <2>3. CASE d # c
    BY <1>1, <1>8, <2>3 DEF TaskInv, TypeOK
  <2> QED BY <2>2, <2>3
<1>9. TypeOK'
  BY TypeStep
<1>10. ASSUME NEW c \in Clients, ApplyClientOperation(c) \/ ReadStateId(c) \/ Broadcast(c)
       PROVE  TaskInv(d)'
  <2>1. open[c] /\ c \notin starting
    BY <1>1, <1>10 DEF ApplyClientOperation, ReadStateId, Broadcast, Waiting, TaskInv
  <2>2. starting' = starting /\ open' = open /\ status' = status
    BY <1>10 DEF ApplyClientOperation, ReadStateId, Broadcast, clientVars
  <2>3. (\E x : applied' = [applied EXCEPT ![c] = <<x>>]) \/ applied' = [applied EXCEPT ![c] = <<>>]
    <3>1. CASE ApplyClientOperation(c)
      BY <3>1, ApplyFacts
    <3>2. CASE ReadStateId(c)
      BY <3>2 DEF ReadStateId
    <3>3. CASE Broadcast(c)
      BY <3>3 DEF Broadcast
    <3> QED BY <1>10, <3>1, <3>2, <3>3
  <2>4. PICK s : applied' = [applied EXCEPT ![c] = s] /\ (s = <<>> \/ Len(s) = 1)
    <3>1. \A x : Len(<<x>>) = 1
      OBVIOUS
    <3> QED BY <2>3, <3>1
  <2>5. s \in Seq(UpdateMsg)
    <3>1. applied'[c] \in Seq(UpdateMsg) /\ applied'[c] = s
      BY <1>1, <1>9, <2>4 DEF TypeOK, UpdateMsg
    <3> QED BY <3>1
  <2> QED BY <1>8, <2>1, <2>2, <2>4, <2>5
<1>11. ASSUME NEW c \in Clients,
              \/ ReceiveSnapshot(c) \/ RejectEdit(c) \/ LocalEdit(c) \/ (Panic(c) /\ ToReceive(c))
              \/ ReceiveAck(c) \/ ReceiveRemoteUpdate(c) \/ Leave(c) \/ Pong(c)
       PROVE  TaskInv(d)'
  <2>1. applied' = applied /\ starting' = starting /\ open' = open
    BY <1>11 DEF ReceiveSnapshot, RejectEdit, LocalEdit, Edit, Panic, ReceiveAck, Leave, Pong,
       ReceiveRemoteUpdate, Received, connVars
  <2>2. CASE Leave(c)
    <3>1. status' = [status EXCEPT ![c] = "absent"]
      BY <2>2 DEF Leave
    <3> QED BY <1>1, <2>1, <3>1 DEF TaskInv, TypeOK
  <2>3. CASE ~Leave(c)
    <3>1. c \notin starting \/ status' = status
      BY <1>1, <1>11, <2>3 DEF ReceiveSnapshot, RejectEdit, LocalEdit, Edit, ReceiveAck,
         ReceiveRemoteUpdate, ToReceive, Pong, TaskInv, clientVars
    <3>2. \/ status' = status
          \/ \E x \in {"synced", "closed", "panicked"} : status' = [status EXCEPT ![c] = x]
      BY <1>11, <2>3 DEF ReceiveSnapshot, RejectEdit, LocalEdit, Edit, Panic, ReceiveAck,
         ReceiveRemoteUpdate, Pong, clientVars
    <3> QED BY <1>1, <1>2, <2>1, <3>1, <3>2 DEF TypeOK
  <2> QED BY <2>2, <2>3
<1>12. CASE PruneDocumentStates \/ UNCHANGED vars \/ \E u \in Users : MarkInactive(u)
  BY <1>2, <1>12 DEF PruneDocumentStates, MarkInactive, vars, connVars, clientVars
<1>13. CASE Next
  BY <1>3, <1>4, <1>5, <1>7, <1>10, <1>11, <1>12, <1>13
     DEF Next, ServerNext, ClientNext, ReceiveWrongAck
<1> QED BY <1>12, <1>13

LEMMA StreamStep == SyncInv /\ [Next]_vars => StreamInv'
BY StreamsStep, TaskStep DEF StreamInv

\* What a client has seen is a number, and a joining one has its snapshot to come.
LEMMA SeenType ==
  ASSUME TypeOK, StreamInv, NEW d \in Clients, Attending(d)
  PROVE  /\ Seen(d) \in Int /\ Seen(d) >= -1 /\ (status[d] = "synced" => Seen(d) >= 0)
         /\ toClient[d] \in Seq(ServerMsg) /\ Len(toClient[d]) \in Nat
         /\ status[d] = "joining" => toClient[d] # <<>>
<1>1. toClient[d] \in Seq(ServerMsg) /\ Len(toClient[d]) \in Nat /\ Cur \in Nat
  BY DEF TypeOK, Cur
<1>2. CASE status[d] = "joining"
  <2>1. PICK k \in 0..Cur : Head(toClient[d]) = SnapshotOf(k)
    BY <1>2, SnapshotIs DEF Attending
  <2>2. toClient[d] # <<>> /\ Seen(d) = k - 1
    BY <1>2, <2>1, SnapshotIs DEF Attending, Seen, SnapshotOf
  <2> QED BY <1>1, <1>2, <2>2
<1>3. CASE status[d] = "synced"
  BY <1>1, <1>3 DEF Seen, TypeOK
<1> QED BY <1>2, <1>3 DEF Attending

\* The history after what d has seen stays what it was while the step does nothing
\* to d.
LEMMA FollowsSame ==
  ASSUME SyncInv, [Next]_vars, NEW d \in Clients, Attending(d), Follows(d),
         status'[d] = status[d], toClient'[d] = toClient[d],
         lastServerStateId'[d] = lastServerStateId[d]
  PROVE  Follows(d)' /\ Seen(d)' = Seen(d)
<1>1. TypeOK /\ StreamInv
  BY DEF SyncInv
<1>2. /\ Seen(d) \in Int /\ Seen(d) >= -1 /\ (status[d] = "synced" => Seen(d) >= 0)
      /\ Len(toClient[d]) \in Nat /\ status[d] \in {"joining", "synced"}
  BY <1>1, SeenType DEF Attending
<1>3. Seen(d)' = Seen(d)
  BY DEF Seen
<1>4. /\ Cur \in Nat /\ Cur' \in Nat /\ Cur <= Cur'
      /\ \A k \in 1..Cur : UpdateOf(k)' = UpdateOf(k)
  BY Grows
<1>5. Seen(d) + Len(toClient[d]) <= Cur
  BY DEF Follows
<1>6. ASSUME NEW i \in 1..Len(toClient[d]), ~(i = 1 /\ status[d] = "joining")
      PROVE  toClient'[d][i] = UpdateOf(Seen(d) + i)'
  <2>1. Seen(d) + i \in 1..Cur
    BY <1>2, <1>4, <1>5, <1>6
  <2>2. toClient[d][i] = UpdateOf(Seen(d) + i)
    BY <1>6 DEF Follows
  <2>3. UpdateOf(Seen(d) + i) = [kind |-> "RemoteUpdate", id |-> log'[Seen(d) + i].id,
                                 op |-> log'[Seen(d) + i].op, state |-> Seen(d) + i]
    BY <2>1, Grows DEF UpdateOf
  <2> QED BY <1>3, <2>2, <2>3 DEF UpdateOf
<1>7. Seen(d)' + Len(toClient'[d]) <= Cur'
  BY <1>2, <1>3, <1>4, <1>5
<1> QED BY <1>3, <1>6, <1>7 DEF Follows

\* Nor is anything missing at the end as long as no task applies, reads or
\* broadcasts.
LEMMA DownSame ==
  ASSUME SyncInv, [Next]_vars, NEW d \in Clients, Attending(d), log' = log, applied' = applied,
         status'[d] = status[d], toClient'[d] = toClient[d],
         lastServerStateId'[d] = lastServerStateId[d], open'[d] => open[d]
  PROVE  InOrder(d)'
<1>1. InOrder(d)
  BY DEF SyncInv, DownInv
<1>2. Follows(d)' /\ Seen(d)' = Seen(d)
  BY <1>1, FollowsSame DEF InOrder
<1>3. Cur' = Cur /\ Late' = Late
  BY DEF Cur, Late
<1>4. \A x \in Clients : Broadcasts(x, Cur)' = Broadcasts(x, Cur)
  BY <1>3 DEF Broadcasts
<1>5. open'[d] => AllSent(d)'
  BY <1>1, <1>2, <1>3, <1>4 DEF InOrder, AllSent
<1> QED BY <1>2, <1>5 DEF InOrder

\* A step that takes nothing from and gives nothing to the clients that go on
\* attending keeps DownInv.
LEMMA DownFrame ==
  ASSUME SyncInv, [Next]_vars, log' = log, applied' = applied,
         \A d \in Clients : Attending(d)' =>
           /\ Attending(d)
           /\ status'[d] = status[d]
           /\ toClient'[d] = toClient[d]
           /\ lastServerStateId'[d] = lastServerStateId[d]
           /\ open'[d] => open[d]
  PROVE  DownInv'
<1> SUFFICES ASSUME NEW d \in Clients, Attending(d)'
             PROVE  InOrder(d)'
  BY DEF DownInv
<1> QED BY DownSame

\* One message later, the rest is still in order.
LEMMA DownReceive ==
  ASSUME SyncInv, [Next]_vars, NEW c \in Clients, log' = log, applied' = applied,
         status[c] \in {"joining", "synced"}, c \notin starting, toClient[c] # <<>>,
         c \notin disturbed => lastServerStateId'[c] = Seen(c) + 1,
         \A d \in Clients \ {c} : lastServerStateId'[d] = lastServerStateId[d],
         toClient' = [toClient EXCEPT ![c] = Tail(@)],
         status' = [status EXCEPT ![c] = "synced"],
         open' = open, starting' = starting, disturbed' = disturbed
  PROVE  DownInv'
<1> SUFFICES ASSUME NEW d \in Clients, Attending(d)'
             PROVE  InOrder(d)'
  BY DEF DownInv
<1>1. TypeOK /\ StreamInv /\ DownInv /\ Cur \in Nat /\ Cur' = Cur
  BY DEF SyncInv, TypeOK, Cur
<1>2. CASE d # c
  <2>1. /\ status'[d] = status[d] /\ toClient'[d] = toClient[d]
        /\ lastServerStateId'[d] = lastServerStateId[d]
    BY <1>1, <1>2 DEF TypeOK
  <2>2. Attending(d)
    BY <2>1 DEF Attending
  <2> QED BY <2>1, <2>2, DownSame
<1>3. CASE d = c
  <2> DEFINE msgs == toClient[c]
             s == Seen(c)
  <2>1. Attending(c) /\ InOrder(c)
    BY <1>1, <1>3 DEF Attending, DownInv
  <2>2. s \in Int /\ msgs \in Seq(ServerMsg) /\ msgs # <<>>
    BY <1>1, <2>1, SeenType
  <2>3. /\ \A i \in 2..Len(msgs) : msgs[i] = UpdateOf(s + i)
        /\ s + Len(msgs) <= Cur
    BY <2>1, <2>2 DEF InOrder, Follows
  <2>4. /\ toClient'[c] = Tail(msgs) /\ status'[c] = "synced"
        /\ lastServerStateId'[c] = s + 1
    BY <1>1, <2>1 DEF TypeOK, Attending
  <2>5. Seen(c)' = s + 1
    BY <2>4 DEF Seen
  <2> HIDE DEF msgs, s
  <2>6. /\ Len(Tail(msgs)) = Len(msgs) - 1 /\ Len(msgs) \in Nat
        /\ \A i \in 1..Len(Tail(msgs)) : Tail(msgs)[i] = msgs[i+1]
    BY <2>2
  <2>7. ASSUME NEW i \in 1..Len(Tail(msgs)) PROVE Tail(msgs)[i] = UpdateOf(s + 1 + i)
    <3>1. i+1 \in 2..Len(msgs) /\ s + (i+1) = s + 1 + i
      BY <2>2, <2>6
    <3> QED BY <2>3, <2>6, <3>1
  <2>8. \A k \in Int : UpdateOf(k)' = UpdateOf(k)
    BY DEF UpdateOf
  <2>9. ASSUME NEW i \in 1..Len(toClient'[c]) PROVE toClient'[c][i] = UpdateOf(Seen(c) + i)'
    BY <2>2, <2>4, <2>5, <2>7, <2>8 DEF UpdateOf
  <2>10. s + 1 + Len(Tail(msgs)) = s + Len(msgs)
    <3> DEFINE n == Len(msgs)
    <3> HIDE DEF n
    <3>1. Len(Tail(msgs)) = n - 1 /\ n \in Nat
      BY <2>6 DEF n
    <3>2. s + 1 + (n - 1) = s + n
      BY <2>2, <3>1
    <3> QED BY <3>1, <3>2 DEF n
  <2>11. Follows(c)'
    BY <1>1, <2>3, <2>4, <2>5, <2>9, <2>10 DEF Follows
  <2>12. open'[c] => AllSent(c)'
    <3>1. open[c] => \/ Late = {} /\ s + Len(msgs) = Cur
                     \/ \E x \in Clients : /\ Late = {x} /\ Broadcasts(x, Cur)
                                           /\ s + Len(msgs) + 1 = Cur
      BY <2>1 DEF InOrder, AllSent, msgs, s
    <3>2. Late' = Late /\ \A x \in Clients : Broadcasts(x, Cur)' = Broadcasts(x, Cur)
      BY <1>1 DEF Late, Broadcasts
    <3> QED BY <1>1, <2>4, <2>5, <2>10, <3>1, <3>2 DEF AllSent
  <2> QED BY <1>3, <2>11, <2>12 DEF InOrder
<1> QED BY <1>2, <1>3

\* Receiving an operation is receiving one message.
LEMMA Receipt ==
  ASSUME SyncInv, [Next]_vars, NEW c \in Clients, ToReceive(c), Received(c), UNCHANGED status
  PROVE  DownInv'
<1>1. TypeOK /\ StreamInv /\ DownInv
  BY DEF SyncInv
<1>2. Seen(c) = lastServerStateId[c] /\ status[c] = "synced" /\ toClient[c] # <<>> /\ c \notin starting
  BY <1>1 DEF ToReceive, Seen, StreamInv, TaskInv
<1>3. status' = [status EXCEPT ![c] = "synced"]
  BY <1>1, <1>2 DEF TypeOK
<1>4. /\ toClient' = [toClient EXCEPT ![c] = Tail(@)]
      /\ log' = log /\ applied' = applied /\ open' = open /\ starting' = starting
      /\ disturbed' = disturbed
      /\ lastServerStateId' = [lastServerStateId EXCEPT ![c] = Update(c).state]
  BY DEF Received, serverVars
<1>5. c \notin disturbed => lastServerStateId'[c] = Seen(c) + 1
  <2> SUFFICES ASSUME c \notin disturbed PROVE Update(c).state = Seen(c) + 1
    BY <1>1, <1>4 DEF TypeOK
  <2>1. Update(c) = UpdateOf(lastServerStateId[c] + 1)
    BY <1>1, <1>2, UpdateIs DEF Undisturbed
  <2> QED BY <1>2, <2>1 DEF UpdateOf
<1>6. \A d \in Clients \ {c} : lastServerStateId'[d] = lastServerStateId[d]
  BY <1>1, <1>4 DEF TypeOK
<1> QED BY <1>2, <1>3, <1>4, <1>5, <1>6, DownReceive

\* A snapshot with which nothing else comes.
LEMMA DownSnapshot ==
  ASSUME SyncInv, [Next]_vars, NEW c \in Clients, SendSnapshot(c)
  PROVE  DownInv'
<1> SUFFICES ASSUME NEW d \in Clients, Attending(d)'
             PROVE  InOrder(d)'
  BY DEF DownInv
<1>1. TypeOK /\ StreamInv /\ Cur \in Nat
  BY DEF SyncInv, TypeOK, Cur
<1>2. /\ log' = log /\ applied' = applied /\ open' = open /\ status' = status
      /\ lastServerStateId' = lastServerStateId /\ starting' = starting \ {c}
      /\ toClient' = [toClient EXCEPT ![c] =
            IF status[c] = "joining" THEN <<SnapshotOf(Cur)>> \o @ ELSE @]
      /\ disturbed' = IF status[c] = "joining" /\ (toClient[c] # <<>> \/ Late # {})
                      THEN disturbed \cup {c} ELSE disturbed
  BY DEF SendSnapshot, SnapshotOf, serverVars, clientVars
<1>3. CASE d # c
  <2>1. toClient'[d] = toClient[d] /\ Attending(d)
    BY <1>1, <1>2, <1>3 DEF TypeOK, Attending
  <2> QED BY <1>2, <2>1, DownSame
<1>4. CASE d = c
  <2>1. status[c] = "joining"
    BY <1>1, <1>2, <1>4 DEF Attending, StreamInv, TaskInv, SendSnapshot
  <2>2. toClient[c] = <<>> /\ Late = {}
    BY <1>2, <1>4, <2>1 DEF Attending
  <2>3. toClient'[c] = <<SnapshotOf(Cur)>>
    <3>1. toClient'[c] = <<SnapshotOf(Cur)>> \o <<>>
      BY <1>1, <1>2, <2>1, <2>2 DEF TypeOK
    <3> QED BY <3>1
  <2>4. Len(toClient'[c]) = 1 /\ Head(toClient'[c]).state = Cur
    BY <2>3 DEF SnapshotOf
  <2>5. Seen(c)' = Cur - 1 /\ Cur' = Cur /\ Late' = {}
    BY <1>2, <2>1, <2>2, <2>4 DEF Seen, Cur, Late
  <2>6. Seen(c)' + Len(toClient'[c]) = Cur'
    BY <1>1, <2>4, <2>5
  <2>7. Follows(c)'
    <3>1. status'[c] = "joining"
      BY <1>2, <2>1
    <3>2. \A i \in 1..Len(toClient'[c]) : i = 1
      BY <2>4
    <3> QED BY <1>1, <2>5, <2>6, <3>1, <3>2 DEF Follows
  <2>8. AllSent(c)'
    BY <2>5, <2>6 DEF AllSent
  <2> QED BY <1>4, <2>7, <2>8 DEF InOrder
<1> QED BY <1>3, <1>4

\* Whoever attends after an operation is applied is sent it next: no other is on
\* its way to being broadcast.
LEMMA DownApply ==
  ASSUME SyncInv, [Next]_vars, NEW c \in Clients, ApplyClientOperation(c)
  PROVE  DownInv'
<1> SUFFICES ASSUME NEW d \in Clients, Attending(d)'
             PROVE  InOrder(d)'
  BY DEF DownInv
<1>1. TypeOK /\ StreamInv /\ DownInv /\ Cur \in Nat
  BY Grows DEF SyncInv
<1>2. /\ UNCHANGED <<open, starting, toClient, clientVars>>
      /\ disturbed' = IF Late = {} THEN disturbed
                      ELSE disturbed \cup {x \in Clients : Listening(x)}
  BY DEF ApplyClientOperation
<1>3. Attending(d) /\ InOrder(d)
  BY <1>1, <1>2 DEF Attending, DownInv, clientVars
<1>4. Follows(d)' /\ Seen(d)' = Seen(d)
  BY <1>2, <1>3, FollowsSame DEF InOrder, clientVars
<1>5. open'[d] => AllSent(d)'
  <2> SUFFICES ASSUME open[d] PROVE AllSent(d)'
    BY <1>2
  <2>1. Late = {}
    BY <1>2, <1>3 DEF Attending, Listening, clientVars
  <2>2. Seen(d) + Len(toClient[d]) = Cur
    BY <1>3, <2>1 DEF InOrder, AllSent
  <2>3. /\ Cur' = Cur + 1
        /\ applied' = [applied EXCEPT ![c] =
              <<[kind |-> "RemoteUpdate", id |-> log'[Cur + 1].id, op |-> log'[Cur + 1].op,
                 state |-> NotRead]>>]
    BY ApplyFacts
  <2>4. applied'[c] = <<[kind |-> "RemoteUpdate", id |-> log'[Cur + 1].id,
                         op |-> log'[Cur + 1].op, state |-> NotRead]>>
    BY <1>1, <2>3 DEF TypeOK
  <2>5. \A x \in Clients \ {c} : applied'[x] = applied[x] /\ applied[x] = <<>>
    BY <1>1, <2>1, <2>3 DEF TypeOK, Late
  <2>6. Late' = {c}
    BY <2>4, <2>5 DEF Late
  <2>7. Broadcasts(c, Cur)'
    BY <2>3, <2>4 DEF Broadcasts
  <2>8. Seen(d)' + Len(toClient'[d]) + 1 = Cur'
    BY <1>2, <1>4, <2>2, <2>3
  <2> QED BY <2>6, <2>7, <2>8 DEF AllSent
<1> QED BY <1>4, <1>5 DEF InOrder

\* The state that the only task reads is that of its operation.
LEMMA DownRead ==
  ASSUME SyncInv, [Next]_vars, NEW c \in Clients, ReadStateId(c)
  PROVE  DownInv'
<1> SUFFICES ASSUME NEW d \in Clients, Attending(d)'
             PROVE  InOrder(d)'
  BY DEF DownInv
<1>1. TypeOK /\ StreamInv /\ DownInv /\ Cur \in Nat
  BY Grows DEF SyncInv
<1>2. /\ UNCHANGED <<log, open, starting, toClient, disturbed, status, lastServerStateId>>
      /\ applied[c] # <<>>
      /\ applied' = [applied EXCEPT ![c] = <<[@[1] EXCEPT !.state = Cur]>>]
  BY DEF ReadStateId, serverVars, clientVars
<1>3. Attending(d) /\ InOrder(d)
  BY <1>1, <1>2 DEF Attending, DownInv
<1>4. Follows(d)' /\ Seen(d)' = Seen(d)
  BY <1>2, <1>3, FollowsSame DEF InOrder
<1>5. /\ applied'[c] = <<[applied[c][1] EXCEPT !.state = Cur]>>
      /\ \A x \in Clients \ {c} : applied'[x] = applied[x]
  BY <1>1, <1>2 DEF TypeOK
<1>6. Late' = Late /\ c \in Late /\ Cur' = Cur
  BY <1>2, <1>5 DEF Late, Cur
<1>7. open'[d] => AllSent(d)'
  <2> SUFFICES ASSUME open[d] PROVE AllSent(d)'
    BY <1>2
  <2>1. /\ Late = {c} /\ Broadcasts(c, Cur)
        /\ Seen(d) + Len(toClient[d]) + 1 = Cur
    BY <1>3, <1>6 DEF InOrder, AllSent
  <2>2. applied[c][1] \in UpdateMsg
    <3>1. applied[c] \in Seq(UpdateMsg) /\ applied[c] # <<>>
      BY <1>1, <1>2 DEF TypeOK
    <3> QED BY <3>1
  <2>3. /\ applied'[c][1].id = applied[c][1].id /\ applied'[c][1].op = applied[c][1].op
        /\ applied'[c][1].state = Cur
    BY <1>5, <2>2 DEF UpdateMsg
  <2>4. Broadcasts(c, Cur)'
    BY <1>2, <1>6, <2>1, <2>3 DEF Broadcasts
  <2> QED BY <1>2, <1>4, <1>6, <2>1, <2>4 DEF AllSent
<1> QED BY <1>4, <1>7 DEF InOrder

\* What the only task broadcasts is the last operation, with its state.
LEMMA DownBroadcast ==
  ASSUME SyncInv, [Next]_vars, NEW c \in Clients, Broadcast(c)
  PROVE  DownInv'
<1> SUFFICES ASSUME NEW d \in Clients, Attending(d)'
             PROVE  InOrder(d)'
  BY DEF DownInv
<1> DEFINE u == applied[c][1]
           msgs == toClient[d]
           s == Seen(d)
<1>1. TypeOK /\ StreamInv /\ DownInv /\ Cur \in Nat
  BY Grows DEF SyncInv
<1>2. /\ UNCHANGED <<log, open, starting, disturbed, status, lastServerStateId>>
      /\ applied[c] # <<>> /\ u.state # NotRead
      /\ toClient'[d] = IF Listening(d) THEN Append(msgs, u) ELSE msgs
      /\ applied' = [applied EXCEPT ![c] = <<>>]
  BY DEF Broadcast, serverVars, clientVars
<1>3. Attending(d) /\ InOrder(d) /\ Cur' = Cur
  BY <1>1, <1>2 DEF Attending, DownInv, Cur
<1>4. CASE ~open[d]
  <2>1. toClient'[d] = msgs /\ ~open'[d]
    BY <1>2, <1>4 DEF Listening
  <2> QED BY <1>2, <1>3, <2>1, FollowsSame DEF InOrder
<1>5. CASE open[d]
  <2>1. toClient'[d] = Append(msgs, u)
    BY <1>2, <1>3, <1>5 DEF Listening, Attending
  <2>2. Late = {c} /\ Broadcasts(c, Cur) /\ s + Len(msgs) + 1 = Cur
    <3>1. c \in Late
      BY <1>2 DEF Late
    <3> QED BY <1>3, <1>5, <3>1 DEF InOrder, AllSent
  <2>3. Late' = {}
    BY <1>1, <1>2, <2>2 DEF Late, TypeOK
  <2>4. u = UpdateOf(Cur)
    <3>1. u \in UpdateMsg
      <4>1. applied[c] \in Seq(UpdateMsg)
        BY <1>1 DEF TypeOK
      <4> QED BY <1>2, <4>1
    <3>2. u.id = log[Cur].id /\ u.op = log[Cur].op /\ u.state = Cur
      BY <1>2, <2>2 DEF Broadcasts
    <3> QED BY <3>1, <3>2 DEF UpdateMsg, UpdateOf
  <2>5. /\ s \in Int /\ msgs \in Seq(ServerMsg) /\ status[d] \in {"joining", "synced"}
        /\ status[d] = "joining" => msgs # <<>>
    BY <1>1, <1>3, SeenType DEF Attending
  <2>6. \A i \in 1..Len(msgs) : (i = 1 /\ status[d] = "joining") \/ msgs[i] = UpdateOf(s + i)
    BY <1>3 DEF InOrder, Follows
  <2> DEFINE new == toClient'[d]
             n == Len(msgs)
  <2> HIDE DEF u, msgs, s, new
  <2>7. /\ Len(new) = n + 1 /\ n \in Nat /\ new[n+1] = u
        /\ \A i \in 1..n : new[i] = msgs[i]
        /\ msgs # <<>> => Head(new) = Head(msgs)
    BY <2>1, <2>5 DEF new
  <2> HIDE DEF n
  <2>8. Seen(d)' = s
    BY <1>2, <2>5, <2>7 DEF Seen, s, msgs, new
  <2>9. \A i \in 1..(n+1) : (i = 1 /\ status[d] = "joining") \/ new[i] = UpdateOf(s + i)
    <3>1. s + (n + 1) = Cur
      BY <1>1, <2>2, <2>5, <2>7 DEF n
    <3> QED BY <2>4, <2>6, <2>7, <3>1 DEF n
  <2>11. ASSUME NEW i \in 1..(n+1), ~(i = 1 /\ status[d] = "joining")
         PROVE  new[i] = UpdateOf(Seen(d) + i)'
    <3>1. s + i \in Int /\ new[i] = UpdateOf(s + i)
      BY <2>5, <2>7, <2>9, <2>11
    <3>2. new[i] = [kind |-> "RemoteUpdate", id |-> log'[s+i].id, op |-> log'[s+i].op, state |-> s+i]
      BY <1>2, <3>1 DEF UpdateOf
    <3> QED BY <2>8, <3>2 DEF UpdateOf
  <2>12. Seen(d)' + Len(new) = Cur'
    <3>1. s + n + 1 = Cur
      BY <2>2 DEF n
    <3> QED BY <1>1, <1>3, <2>5, <2>7, <2>8, <3>1
  <2>13. Follows(d)'
    BY <1>1, <1>2, <1>3, <2>7, <2>11, <2>12 DEF Follows, new
  <2>14. AllSent(d)'
    BY <2>3, <2>12 DEF AllSent, new
  <2> QED BY <2>13, <2>14 DEF InOrder
<1> QED BY <1>4, <1>5

\* The messages on their way to a client that attends stay in order: the next state
\* is appended for every listening connection, and a client takes the oldest.
LEMMA DownStep == SyncInv /\ [Next]_vars => DownInv'
<1> SUFFICES ASSUME SyncInv, [Next]_vars PROVE DownInv'
  OBVIOUS
<1>1. TypeOK /\ StreamInv /\ DownInv
  BY DEF SyncInv
<1>2. ASSUME NEW c \in Clients, Join(c) \/ Connect(c) PROVE DownInv'
  <2>1. /\ log' = log /\ applied' = applied /\ toClient' = toClient
        /\ lastServerStateId' = lastServerStateId
        /\ \A d \in Clients \ {c} : /\ status'[d] = status[d] /\ open'[d] = open[d]
                                    /\ d \in disturbed' <=> d \in disturbed
        /\ starting' = starting \/ starting' = starting \cup {c}
    BY <1>1, <1>2 DEF Join, AddUser, Connect, serverVars, connVars, TypeOK
  <2>2. ~Attending(c)'
    BY <1>1, <1>2 DEF Join, Connect, Attending, TypeOK
  <2>3. ASSUME NEW d \in Clients, Attending(d)'
        PROVE  /\ Attending(d) /\ status'[d] = status[d] /\ toClient'[d] = toClient[d]
               /\ lastServerStateId'[d] = lastServerStateId[d]
               /\ open'[d] => open[d]
    <3>1. d \in Clients \ {c}
      BY <2>2, <2>3
    <3>2. /\ status'[d] = status[d] /\ open'[d] = open[d] /\ starting \subseteq starting'
          /\ d \in disturbed' <=> d \in disturbed
      BY <2>1, <3>1
    <3>3. Attending(d)
      BY <2>3, <3>2 DEF Attending
    <3> QED BY <2>1, <3>2, <3>3
  <2> QED BY <2>1, <2>3, DownFrame
<1>3. ASSUME NEW c \in Clients, ReceiveSnapshot(c) PROVE DownInv'
  <2>1. Seen(c) + 1 = Head(toClient[c]).state
    <3>1. PICK k \in 0..Cur : Head(toClient[c]) = SnapshotOf(k)
      BY <1>1, <1>3, SnapshotIs DEF ReceiveSnapshot
    <3>2. k \in Int
      BY DEF Cur
    <3> QED BY <1>3, <3>1, <3>2 DEF ReceiveSnapshot, Seen, SnapshotOf
  <2>2. lastServerStateId' = [lastServerStateId EXCEPT ![c] = Seen(c) + 1]
    BY <1>3, <2>1 DEF ReceiveSnapshot
  <2>3. /\ lastServerStateId'[c] = Seen(c) + 1
        /\ \A d \in Clients \ {c} : lastServerStateId'[d] = lastServerStateId[d]
    BY <1>1, <2>2 DEF TypeOK
  <2> QED BY <1>3, <2>3, DownReceive DEF ReceiveSnapshot, serverVars
<1>4. ASSUME NEW c \in Clients, Panic(c) PROVE DownInv'
  <2>1. /\ log' = log /\ UNCHANGED <<open, starting, applied, toClient, disturbed>>
        /\ lastServerStateId' = lastServerStateId
        /\ status' = [status EXCEPT ![c] = "panicked"]
    BY <1>4 DEF Panic, serverVars, connVars
  <2>2. ~Attending(c)' /\ \A d \in Clients \ {c} : status'[d] = status[d]
    BY <1>1, <2>1 DEF Attending, TypeOK
  <2> QED BY <2>1, <2>2, DownFrame DEF Attending
<1>5. ASSUME NEW c \in Clients, ReceiveAck(c) \/ ReceiveWrongAck(c) \/ ReceiveRemoteUpdate(c)
      PROVE  DownInv'
  <2>1. CASE ToReceive(c) /\ Received(c) /\ UNCHANGED status
    BY <2>1, Receipt
  <2>2. CASE Panic(c)
    BY <1>4, <2>2
  <2> QED BY <1>5, <2>1, <2>2 DEF ReceiveAck, ReceiveWrongAck, ReceiveRemoteUpdate
<1>6. ASSUME NEW c \in Clients, Leave(c) \/ RejectEdit(c) PROVE DownInv'
  <2>1. /\ log' = log /\ UNCHANGED <<open, starting, applied>>
        /\ disturbed' \in {disturbed, disturbed \ {c}}
    BY <1>6 DEF Leave, RejectEdit, serverVars
  <2>2. /\ ~Attending(c)'
        /\ \A d \in Clients \ {c} : /\ status'[d] = status[d] /\ toClient'[d] = toClient[d]
                                    /\ lastServerStateId'[d] = lastServerStateId[d]
    BY <1>1, <1>6 DEF Leave, RejectEdit, Attending, TypeOK
  <2> QED BY <2>1, <2>2, DownFrame DEF Attending
<1>7. ASSUME NEW c \in Clients,
             \/ HandleClose(c) \/ LoseConnection(c) \/ CheckInactive(c)
             \/ Pong(c) \/ RejectClientOperation(c) \/ LocalEdit(c)
      PROVE  DownInv'
  <2>1. /\ log' = log /\ UNCHANGED <<starting, applied, toClient, disturbed, status>>
        /\ lastServerStateId' = lastServerStateId
    BY <1>7 DEF HandleClose, LoseConnection, CheckInactive, Pong, RejectClientOperation,
       LocalEdit, Edit, serverVars, connVars, clientVars
  <2>2. \A d \in Clients : open'[d] => open[d]
    BY <1>1, <1>7 DEF HandleClose, LoseConnection, CheckInactive, Pong, RejectClientOperation,
       LocalEdit, Edit, EndConnection, connVars, TypeOK
  <2> QED BY <2>1, <2>2, DownFrame DEF Attending
<1>8. CASE PruneDocumentStates \/ UNCHANGED vars \/ \E u \in Users : MarkInactive(u)
  <2>1. /\ log' = log /\ UNCHANGED <<open, starting, applied, toClient, disturbed, status>>
        /\ lastServerStateId' = lastServerStateId
    BY <1>8 DEF PruneDocumentStates, MarkInactive, vars, serverVars, connVars, clientVars
  <2> QED BY <2>1, DownFrame DEF Attending
<1>9. CASE Next
  BY <1>2, <1>3, <1>5, <1>6, <1>7, <1>8, <1>9, DownSnapshot, DownApply, DownRead, DownBroadcast
     DEF Next, ServerNext, ClientNext
<1> QED BY <1>8, <1>9

-----------------------------------------------------------------------------
(* The bridge                                                              *)

\* Nothing to transform: an empty bridge leads from a document to itself.
LEMMA EmptyBridge ==
  ASSUME NEW d, NEW bridge \in Seq(ClientOp), bridge = <<>>
  PROVE  Leads(d, bridge, d)
<1>1. Len(bridge) = 0
  OBVIOUS
<1>2. Along(d, bridge) = [i \in 0..Len(bridge) |->
         IF i = 0 THEN d ELSE Apply(Along(d, bridge)[i-1], bridge[i].op)]
  BY AlongDef
<1>3. Along(d, bridge)[0] = d
  BY <1>1, <1>2
<1> QED BY <1>1, <1>3 DEF Leads

\* Where a bridge is the beginning of another, it passes the same documents.
LEMMA SameAlong ==
  ASSUME NEW d, NEW b1 \in Seq(ClientOp), NEW b2 \in Seq(ClientOp), Len(b1) <= Len(b2),
         \A i \in 1..Len(b1) : b1[i].op = b2[i].op
  PROVE  \A i \in 0..Len(b1) : Along(d, b1)[i] = Along(d, b2)[i]
<1> DEFINE a1 == Along(d, b1)
           a2 == Along(d, b2)
           n == Len(b1)
           S == {i \in Nat : i <= n => a1[i] = a2[i]}
<1>1. a1 = [i \in 0..n |-> IF i = 0 THEN d ELSE Apply(a1[i-1], b1[i].op)]
  BY AlongDef
<1>2. a2 = [i \in 0..Len(b2) |-> IF i = 0 THEN d ELSE Apply(a2[i-1], b2[i].op)]
  BY AlongDef
<1>3. n \in Nat /\ Len(b2) \in Nat /\ n <= Len(b2)
  OBVIOUS
<1> HIDE DEF a1, a2, n
<1>4. 0 \in S
  BY <1>1, <1>2, <1>3
<1>5. ASSUME NEW i \in Nat, i \in S PROVE i+1 \in S
  <2>1. CASE i+1 <= n
    <3>1. i+1 \in 1..n /\ i+1 \in 0..Len(b2) /\ i+1 # 0 /\ (i+1)-1 = i /\ a1[i] = a2[i]
      BY <1>3, <1>5, <2>1
    <3>2. a1[i+1] = Apply(a1[i], b1[i+1].op)
      BY <1>1, <1>3, <3>1
    <3>4. a2[i+1] = Apply(a2[i], b2[i+1].op)
      BY <1>2, <3>1
    <3>3. b1[i+1].op = b2[i+1].op
      BY <3>1 DEF n
    <3> QED BY <3>1, <3>2, <3>3, <3>4
  <2>2. CASE ~(i+1 <= n)
    BY <2>2
  <2> QED BY <2>1, <2>2
<1>6. Nat \subseteq S
  <2> HIDE DEF S
  <2> QED BY <1>4, <1>5, Induction
<1> QED BY <1>3, <1>6 DEF a1, a2, n

\* An edit of the document a bridge leads to extends the bridge.
LEMMA ExtendBridge ==
  ASSUME NEW d, NEW bridge \in Seq(ClientOp), NEW e, NEW x \in ClientOp,
         Leads(d, bridge, e), InLen(x.op) = Size(e)
  PROVE  Leads(d, Append(bridge, x), Apply(e, x.op))
<1> DEFINE new == Append(bridge, x)
           n == Len(bridge)
           at == Along(d, bridge)
           at2 == Along(d, new)
<1>1. /\ new \in Seq(ClientOp) /\ n \in Nat /\ Len(new) = n + 1
      /\ new[n+1] = x /\ \A i \in 1..n : new[i] = bridge[i]
  OBVIOUS
<1>2. \A i \in 0..n : at[i] = at2[i]
  <2>1. Len(bridge) <= Len(new) /\ \A i \in 1..Len(bridge) : bridge[i].op = new[i].op
    BY <1>1
  <2> HIDE DEF new
  <2> QED BY <1>1, <2>1, SameAlong
<1>3. (\A i \in 1..n : InLen(bridge[i].op) = Size(at[i-1])) /\ at[n] = e
  BY DEF Leads
<1>4. at2 = [i \in 0..Len(new) |-> IF i = 0 THEN d ELSE Apply(at2[i-1], new[i].op)]
  <2> HIDE DEF new
  <2> QED BY <1>1, AlongDef
<1> HIDE DEF new, n, at, at2
<1>5. at2[n+1] = Apply(e, x.op)
  <2>1. n+1 \in 0..Len(new) /\ n+1 # 0 /\ (n+1)-1 = n /\ n \in 0..n
    BY <1>1
  <2>2. at2[n+1] = Apply(at2[n], new[n+1].op)
    BY <1>4, <2>1
  <2> QED BY <1>1, <1>2, <1>3, <2>1, <2>2
<1>6. ASSUME NEW i \in 1..(n+1) PROVE InLen(new[i].op) = Size(at2[i-1])
  <2>1. CASE i = n+1
    BY <1>1, <1>2, <1>3, <2>1
  <2>2. CASE i \in 1..n
    <3>1. i-1 \in 0..n
      BY <1>1, <2>2
    <3> QED BY <1>1, <1>2, <1>3, <2>2, <3>1
  <2> QED BY <1>1, <2>1, <2>2
<1> QED BY <1>1, <1>5, <1>6 DEF Leads, new, at2

\* After the first operation of a bridge, the others lead to the same document.
LEMMA ShortenBridge ==
  ASSUME NEW d, NEW bridge \in Seq(ClientOp), NEW rest \in Seq(ClientOp), NEW e,
         Leads(d, bridge, e), bridge # <<>>, Len(rest) = Len(bridge) - 1,
         \A i \in 1..Len(rest) : rest[i].op = bridge[i+1].op
  PROVE  Leads(Apply(d, bridge[1].op), rest, e)
<1> DEFINE n == Len(rest)
           at == Along(d, bridge)
           at2 == Along(Apply(d, bridge[1].op), rest)
           S == {i \in Nat : i <= n => at2[i] = at[i+1]}
<1>1. n \in Nat /\ Len(bridge) = n + 1
  OBVIOUS
<1>2. (\A i \in 1..(n+1) : InLen(bridge[i].op) = Size(at[i-1])) /\ at[n+1] = e
  BY <1>1 DEF Leads
<1>3. at = [i \in 0..(n+1) |-> IF i = 0 THEN d ELSE Apply(at[i-1], bridge[i].op)]
  <2>1. at = [i \in 0..Len(bridge) |-> IF i = 0 THEN d ELSE Apply(at[i-1], bridge[i].op)]
    BY AlongDef
  <2> QED BY <1>1, <2>1
<1>4. at2 = [i \in 0..n |-> IF i = 0 THEN Apply(d, bridge[1].op)
                                     ELSE Apply(at2[i-1], rest[i].op)]
  BY AlongDef
<1>5. \A i \in 1..n : rest[i].op = bridge[i+1].op
  OBVIOUS
<1> HIDE DEF n, at, at2
<1>6. 0 \in S
  <2>1. at[1] = Apply(at[0], bridge[1].op) /\ at[0] = d
    BY <1>1, <1>3
  <2>2. at2[0] = Apply(d, bridge[1].op)
    BY <1>1, <1>4
  <2> QED BY <2>1, <2>2
<1>7. ASSUME NEW i \in Nat, i \in S PROVE i+1 \in S
  <2>1. CASE i+1 <= n
    <3>1. at2[i] = at[i+1] /\ i+1 \in 1..n /\ (i+1)-1 = i /\ i+1 # 0
      BY <1>1, <1>7, <2>1
    <3>2. at2[i+1] = Apply(at2[i], rest[i+1].op)
      BY <1>4, <1>1, <3>1
    <3>3. at[(i+1)+1] = Apply(at[i+1], bridge[(i+1)+1].op)
      BY <1>1, <1>3, <2>1
    <3> QED BY <1>5, <3>1, <3>2, <3>3
  <2>2. CASE ~(i+1 <= n)
    BY <2>2
  <2> QED BY <2>1, <2>2
<1>8. \A i \in 0..n : at2[i] = at[i+1]
  <2>1. Nat \subseteq S
    <3> HIDE DEF S
    <3> QED BY <1>6, <1>7, Induction
  <2> QED BY <1>1, <2>1
<1>9. ASSUME NEW i \in 1..n PROVE InLen(rest[i].op) = Size(at2[i-1])
  <2>1. i-1 \in 0..n /\ i+1 \in 1..(n+1) /\ (i+1)-1 = i /\ (i-1)+1 = i
    BY <1>1
  <2>2. at2[i-1] = at[i]
    BY <1>8, <2>1
  <2>3. InLen(bridge[i+1].op) = Size(at[i])
    BY <1>2, <2>1
  <2> QED BY <1>5, <2>2, <2>3
<1>10. at2[n] = e
  BY <1>1, <1>2, <1>8
<1> QED BY <1>9, <1>10 DEF Leads, n, at2

\* A step that leaves the undisturbed clients and the history alone keeps BridgeInv.
LEMMA BridgeFrame ==
  ASSUME BridgeInv, log' = log,
         \A d \in Clients : Undisturbed(d)' =>
           /\ Undisturbed(d)
           /\ document'[d] = document[d]
           /\ lastServerStateId'[d] = lastServerStateId[d]
           /\ clientBridge'[d] = clientBridge[d]
  PROVE  BridgeInv'
<1> SUFFICES ASSUME NEW d \in Clients, Undisturbed(d)'
             PROVE  /\ lastServerStateId'[d] <= Cur'
                    /\ Leads(DocAt(lastServerStateId[d])', clientBridge'[d], document'[d])
  BY DEF BridgeInv, Leads, Along
<1>1. DocAt(lastServerStateId[d])' = DocAt(lastServerStateId[d]) /\ Cur' = Cur
  BY DEF DocAt, Cur
<1> QED BY <1>1 DEF BridgeInv

\* The bridge stays right: edits extend it, acknowledgements shorten it at its
\* beginning, and remote updates pass it.
LEMMA BridgeStep == SyncInv /\ [Next]_vars => BridgeInv'
<1> SUFFICES ASSUME SyncInv, [Next]_vars PROVE BridgeInv'
  OBVIOUS
<1> DEFINE Bridged(d) == /\ lastServerStateId'[d] <= Cur'
                         /\ Leads(DocAt(lastServerStateId[d])', clientBridge'[d], document'[d])
<1>1. TypeOK /\ StreamInv /\ DownInv /\ BridgeInv /\ LogInv /\ IdleInv /\ Cur \in Nat
  BY Grows DEF SyncInv
<1>2. (\A d \in Clients : Undisturbed(d)' => Bridged(d)) => BridgeInv'
  BY DEF BridgeInv, Leads, Along
<1>3. ASSUME NEW d \in Clients, Undisturbed(d)
      PROVE  /\ lastServerStateId[d] \in 0..Cur
             /\ DocAt(lastServerStateId[d]) \in Doc
             /\ clientBridge[d] \in Seq(ClientOp)
             /\ Leads(DocAt(lastServerStateId[d]), clientBridge[d], document[d])
  <2>1. lastServerStateId[d] \in 0..Cur
    BY <1>1, <1>3 DEF BridgeInv, TypeOK
  <2> QED BY <1>1, <1>3, <2>1, DocType DEF BridgeInv, TypeOK
<1>4. ASSUME NEW d \in Clients, Undisturbed(d), log' = log,
             document'[d] = document[d], lastServerStateId'[d] = lastServerStateId[d],
             clientBridge'[d] = clientBridge[d]
      PROVE  Bridged(d)
  <2>1. DocAt(lastServerStateId[d])' = DocAt(lastServerStateId[d]) /\ Cur' = Cur
    BY <1>4 DEF DocAt, Cur
  <2> QED BY <1>1, <1>4, <2>1 DEF BridgeInv
<1>5. ASSUME NEW c \in Clients, ReceiveSnapshot(c) PROVE BridgeInv'
  <2>1. PICK k \in 0..Cur : Head(toClient[c]) = SnapshotOf(k)
    BY <1>1, <1>5, SnapshotIs DEF ReceiveSnapshot
  <2>2. log' = log /\ Cur' = Cur /\ clientBridge' = clientBridge /\ disturbed' = disturbed
    BY <1>5 DEF ReceiveSnapshot, serverVars, Cur
  <2>3. /\ lastServerStateId'[c] = k /\ document'[c] = DocAt(k)
        /\ clientBridge[c] = <<>> /\ clientBridge[c] \in Seq(ClientOp)
    BY <1>1, <1>5, <2>1 DEF ReceiveSnapshot, SnapshotOf, TypeOK, IdleInv
  <2>4. DocAt(lastServerStateId[c])' = DocAt(k)
    BY <2>2, <2>3 DEF DocAt
  <2>5. Bridged(c)
    <3>1. Leads(DocAt(k), clientBridge[c], DocAt(k))
      BY <2>3, EmptyBridge
    <3>2. lastServerStateId'[c] <= Cur' /\ clientBridge'[c] = clientBridge[c]
      BY <1>1, <2>2, <2>3
    <3> QED BY <2>3, <2>4, <3>1, <3>2
  <2>6. ASSUME NEW d \in Clients, d # c, Undisturbed(d)' PROVE Bridged(d)
    <3>1. /\ document'[d] = document[d] /\ lastServerStateId'[d] = lastServerStateId[d]
          /\ status'[d] = status[d]
      BY <1>1, <1>5, <2>6 DEF ReceiveSnapshot, TypeOK
    <3>2. Undisturbed(d)
      BY <2>2, <2>6, <3>1 DEF Undisturbed
    <3> QED BY <1>4, <2>2, <3>1, <3>2
  <2> QED BY <1>2, <2>5, <2>6
<1>6. ASSUME NEW c \in Clients, LocalEdit(c) PROVE BridgeInv'
  <2>1. PICK op \in Edits(document[c]) : Edit(c, op)
    BY <1>6 DEF LocalEdit
  <2> DEFINE x == [id |-> <<c, edits[c] + 1>>, op |-> op,
                   state |-> IF clientBridge[c] = <<>> THEN "Pending" ELSE "Unsent"]
  <2>2. op \in Op /\ InLen(op) = Size(document[c])
    BY <1>1, EditsApply DEF TypeOK
  <2>3. x \in ClientOp /\ x.op = op
    BY <1>1, <2>2 DEF ClientOp, Id, TypeOK
  <2>4. /\ log' = log /\ Cur' = Cur /\ status' = status /\ disturbed' = disturbed
        /\ lastServerStateId' = lastServerStateId
        /\ document' = [document EXCEPT ![c] = Apply(@, op)]
        /\ clientBridge' = [clientBridge EXCEPT ![c] = Append(@, x)]
    BY <2>1 DEF Edit, NothingOutstanding, serverVars, Cur
  <2> HIDE DEF x
  <2>5. document'[c] = Apply(document[c], op) /\ clientBridge'[c] = Append(clientBridge[c], x)
    BY <1>1, <2>4 DEF TypeOK
  <2>6. DocAt(lastServerStateId[c])' = DocAt(lastServerStateId[c])
    BY <2>4 DEF DocAt
  <2>7. ASSUME Undisturbed(c)' PROVE Bridged(c)
    <3>1. Undisturbed(c)
      BY <2>4, <2>7 DEF Undisturbed
    <3>2. Leads(DocAt(lastServerStateId[c]), Append(clientBridge[c], x), Apply(document[c], x.op))
      BY <1>3, <2>2, <2>3, <3>1, ExtendBridge
    <3> QED BY <1>1, <1>3, <2>3, <2>4, <2>5, <2>6, <3>1, <3>2
  <2>8. ASSUME NEW d \in Clients, d # c, Undisturbed(d)' PROVE Bridged(d)
    <3>1. Undisturbed(d)
      BY <2>4, <2>8 DEF Undisturbed
    <3> QED BY <1>1, <1>4, <2>4, <2>8, <3>1 DEF TypeOK
  <2> QED BY <1>2, <2>7, <2>8
<1>7. ASSUME NEW c \in Clients, ApplyClientOperation(c) PROVE BridgeInv'
  <2>1. UNCHANGED clientVars /\ Cur' = Cur + 1 /\ disturbed \subseteq disturbed'
    BY <1>7, ApplyFacts DEF ApplyClientOperation
  <2>2. ASSUME NEW d \in Clients, Undisturbed(d)' PROVE Bridged(d)
    <3>1. Undisturbed(d)
      BY <2>1, <2>2 DEF clientVars, Undisturbed
    <3>2. lastServerStateId[d] \in 0..Cur
      BY <1>3, <3>1
    <3>3. DocAt(lastServerStateId[d])' = DocAt(lastServerStateId[d])
      <4>1. lastServerStateId' = lastServerStateId
        BY <2>1 DEF clientVars
      <4>2. \A k \in 0..Cur : DocAt(k)' = DocAt(k)
        BY <1>7, ApplyFacts
      <4> QED BY <3>2, <4>1, <4>2 DEF DocAt
    <3> QED BY <1>1, <1>3, <2>1, <3>1, <3>2, <3>3 DEF clientVars
  <2> QED BY <1>2, <2>2
<1>8. ASSUME NEW c \in Clients, ToReceive(c), Received(c), Undisturbed(c)
      PROVE  /\ lastServerStateId'[c] <= Cur'
             /\ Update(c).op \in Op
             /\ InLen(Update(c).op) = Size(DocAt(lastServerStateId[c]))
             /\ DocAt(lastServerStateId[c])'
                  = Apply(DocAt(lastServerStateId[c]), Update(c).op)
  <2> DEFINE s == lastServerStateId[c]
  <2>1. s+1 \in 1..Cur /\ log[s+1] \in LogEntry /\ Update(c) = UpdateOf(s+1) /\ s \in Nat
    BY <1>1, <1>8, UpdateIs DEF TypeOK
  <2>2. Update(c).op = log[s+1].op /\ Update(c).state = s+1
    BY <2>1 DEF UpdateOf
  <2>3. log' = log /\ Cur' = Cur /\ lastServerStateId' = [lastServerStateId EXCEPT ![c] = s+1]
    BY <1>8, <2>2 DEF Received, serverVars, Cur
  <2>4. InLen(log[s+1].op) = Size(DocAt(s)) /\ log[s+1].document = Apply(DocAt(s), log[s+1].op)
    <3>1. (s+1)-1 = s
      BY <2>1
    <3> QED BY <1>1, <2>1, <3>1 DEF LogInv
  <2>5. lastServerStateId'[c] = s+1 /\ s+1 # 0
    BY <1>1, <2>1, <2>3 DEF TypeOK
  <2>6. DocAt(lastServerStateId[c])' = log[s+1].document
    BY <2>3, <2>5 DEF DocAt
  <2>7. log[s+1].op \in Op
    BY <2>1 DEF LogEntry
  <2> QED BY <1>1, <2>1, <2>2, <2>3, <2>4, <2>5, <2>6, <2>7
<1>9. ASSUME NEW c \in Clients, Received(c), UNCHANGED status, NEW d \in Clients, d # c,
             Undisturbed(d)', document'[d] = document[d], clientBridge'[d] = clientBridge[d]
      PROVE  Bridged(d)
  <2>1. log' = log /\ lastServerStateId'[d] = lastServerStateId[d] /\ disturbed' = disturbed
    BY <1>1, <1>9 DEF Received, serverVars, TypeOK
  <2>2. Undisturbed(d)
    BY <1>9, <2>1 DEF Undisturbed
  <2> QED BY <1>4, <1>9, <2>1, <2>2
<1>10. ASSUME NEW c \in Clients, ReceiveAck(c) PROVE BridgeInv'
  <2> DEFINE bridge == clientBridge[c]
             rest == clientBridge'[c]
             s == lastServerStateId[c]
  <2>1. status[c] = "synced" /\ bridge # <<>> /\ bridge[1].op = Update(c).op
    BY <1>10 DEF ReceiveAck, ToReceive, IsAck
  <2>2. UNCHANGED <<status, document, disturbed>> /\ ToReceive(c) /\ Received(c)
    BY <1>10 DEF ReceiveAck, Received
  <2>3. TypeOK'
    BY TypeStep
  <2>4. /\ rest \in Seq(ClientOp) /\ Len(rest) = Len(bridge) - 1
        /\ \A i \in 1..Len(rest) : rest[i].op = bridge[i+1].op
    <3> DEFINE t == Tail(bridge)
    <3>1. bridge \in Seq(ClientOp)
      BY <1>1 DEF TypeOK
    <3>2. /\ t \in Seq(ClientOp) /\ Len(t) = Len(bridge) - 1
          /\ \A i \in 1..Len(t) : t[i] = bridge[i+1] /\ t[i] \in ClientOp
      BY <2>1, <3>1
    <3>3. rest = IF t = <<>> THEN <<>> ELSE [t EXCEPT ![1].state = "Pending"]
      BY <1>1, <1>10 DEF ReceiveAck, TypeOK
    <3>4. rest \in Seq(ClientOp)
      BY <2>3 DEF TypeOK
    <3> HIDE DEF t, rest
    <3>5. CASE t = <<>>
      BY <3>2, <3>3, <3>4, <3>5
    <3>6. CASE t # <<>>
      <4>1. rest = [t EXCEPT ![1].state = "Pending"]
        BY <3>3, <3>6
      <4>2. Len(rest) = Len(t) /\ \A i \in 1..Len(t) : rest[i].op = t[i].op
        BY <3>2, <4>1 DEF ClientOp
      <4> QED BY <3>2, <3>4, <4>2
    <3> QED BY <3>5, <3>6
  <2>5. ASSUME Undisturbed(c)' PROVE Bridged(c)
    <3>1. Undisturbed(c)
      BY <2>2, <2>5 DEF Undisturbed
    <3>2. Leads(Apply(DocAt(s), bridge[1].op), rest, document[c])
      BY <1>3, <2>1, <2>4, <3>1, ShortenBridge
    <3>3. /\ DocAt(lastServerStateId[c])' = Apply(DocAt(s), bridge[1].op)
          /\ lastServerStateId'[c] <= Cur'
      BY <1>8, <2>1, <2>2, <3>1
    <3> QED BY <2>2, <3>2, <3>3
  <2>6. ASSUME NEW d \in Clients, d # c, Undisturbed(d)' PROVE Bridged(d)
    <3>1. clientBridge'[d] = clientBridge[d]
      BY <1>1, <1>10, <2>6 DEF ReceiveAck, TypeOK
    <3> QED BY <1>9, <2>2, <2>6, <3>1
  <2> QED BY <1>2, <2>5, <2>6
<1>11. ASSUME NEW c \in Clients, Panic(c) PROVE BridgeInv'
  <2>1. /\ log' = log /\ UNCHANGED <<document, lastServerStateId, clientBridge, disturbed>>
        /\ status' = [status EXCEPT ![c] = "panicked"]
    BY <1>11 DEF Panic, serverVars, connVars
  <2>2. \A d \in Clients : Undisturbed(d)' => Undisturbed(d)
    BY <1>1, <2>1 DEF Undisturbed, TypeOK
  <2> QED BY <1>1, <2>1, <2>2, BridgeFrame
<1>12. ASSUME NEW c \in Clients, ReceiveRemoteUpdate(c) PROVE BridgeInv'
  <2> DEFINE bridge == clientBridge[c]
             s == lastServerStateId[c]
             op == Update(c).op
             after == Apply(document[c], Passing(op, bridge)[Len(bridge)])
  <2>1. CASE ~Fits(op, bridge, document[c])
    <3>1. Panic(c)
      BY <1>12, <2>1 DEF ReceiveRemoteUpdate
    <3> QED BY <1>11, <3>1
  <2>2. CASE Fits(op, bridge, document[c])
    <3>1. ToReceive(c)
      BY <1>12 DEF ReceiveRemoteUpdate
    <3>2. /\ document' = [document EXCEPT ![c] = after]
          /\ clientBridge' = [clientBridge EXCEPT ![c] = Passed(op, bridge)]
          /\ Received(c)
          /\ UNCHANGED <<toServer, status>>
      BY <1>12, <2>2 DEF ReceiveRemoteUpdate, Passed
    <3>3. ASSUME Undisturbed(c)' PROVE Bridged(c)
      <4>1. Undisturbed(c)
        BY <3>2, <3>3 DEF Received, Undisturbed
      <4>2. Leads(Apply(DocAt(s), op), Passed(op, bridge), after)
        BY <1>3, <1>8, <3>1, <3>2, <4>1, PassBridge
      <4>3. DocAt(lastServerStateId[c])' = Apply(DocAt(s), op) /\ lastServerStateId'[c] <= Cur'
        BY <1>8, <3>1, <3>2, <4>1
      <4>4. document'[c] = after /\ clientBridge'[c] = Passed(op, bridge)
        BY <1>1, <3>2 DEF TypeOK
      <4> QED BY <4>2, <4>3, <4>4
    <3>4. ASSUME NEW d \in Clients, d # c, Undisturbed(d)' PROVE Bridged(d)
      <4>1. document'[d] = document[d] /\ clientBridge'[d] = clientBridge[d]
        BY <1>1, <3>2, <3>4 DEF TypeOK
      <4> QED BY <1>9, <3>2, <3>4, <4>1
    <3> QED BY <1>2, <3>3, <3>4
  <2> QED BY <2>1, <2>2
<1>13. ASSUME NEW c \in Clients, ReceiveWrongAck(c) PROVE BridgeInv'
  BY <1>11, <1>13 DEF ReceiveWrongAck
<1>14. ASSUME NEW c \in Clients, Join(c) \/ Connect(c) \/ Leave(c) \/ RejectEdit(c) PROVE BridgeInv'
  <2>1. ~Undisturbed(c)' /\ log' = log
    BY <1>1, <1>14 DEF Join, AddUser, Connect, Leave, RejectEdit, Undisturbed, serverVars, TypeOK
  <2>2. \A d \in Clients \ {c} :
          /\ status'[d] = status[d] /\ document'[d] = document[d]
          /\ lastServerStateId'[d] = lastServerStateId[d] /\ clientBridge'[d] = clientBridge[d]
    BY <1>1, <1>14 DEF Join, Connect, Leave, RejectEdit, TypeOK
  <2>3. disturbed \subseteq disturbed' \cup {c}
    BY <1>14 DEF Join, Connect, Leave, RejectEdit, connVars
  <2> QED BY <1>1, <2>1, <2>2, <2>3, BridgeFrame DEF Undisturbed
<1>15. ASSUME NEW c \in Clients,
              \/ HandleClose(c) \/ LoseConnection(c) \/ CheckInactive(c) \/ SendSnapshot(c)
              \/ Pong(c) \/ RejectClientOperation(c) \/ ReadStateId(c) \/ Broadcast(c)
       PROVE  BridgeInv'
  <2>1. log' = log /\ UNCHANGED clientVars /\ disturbed \subseteq disturbed'
    BY <1>15 DEF HandleClose, LoseConnection, CheckInactive, SendSnapshot, ReadStateId,
       Broadcast, Pong, RejectClientOperation, serverVars, connVars, clientVars
  <2> QED BY <1>1, <2>1, BridgeFrame DEF Undisturbed, clientVars
<1>16. CASE PruneDocumentStates \/ UNCHANGED vars \/ \E u \in Users : MarkInactive(u)
  <2>1. log' = log /\ UNCHANGED clientVars /\ disturbed' = disturbed
    BY <1>16 DEF PruneDocumentStates, MarkInactive, vars, serverVars, connVars, clientVars
  <2> QED BY <1>1, <2>1, BridgeFrame DEF Undisturbed, clientVars
<1>17. CASE Next
  BY <1>5, <1>6, <1>7, <1>10, <1>12, <1>13, <1>14, <1>15, <1>16, <1>17
     DEF Next, ServerNext, ClientNext
<1> QED BY <1>16, <1>17

-----------------------------------------------------------------------------
(* Theorems                                                                *)

\* The invariant is inductive, over every interleaving of tasks that apply, read
\* and broadcast, connections that start, and pages of one user.  What it says of
\* the order of messages and of the bridge is about clients that no overlap and
\* no repeated update has disturbed; the rest is about all.
THEOREM Invariance == Spec => []SyncInv
<1>1. Init => SyncInv
  BY InitSyncInv
<1>2. SyncInv /\ [Next]_vars => SyncInv'
  BY TypeStep, LogStep, StreamStep, DownStep, IdleStep, UserStep, BridgeStep DEF SyncInv
<1> QED BY <1>1, <1>2, PTL DEF Spec

\* Every variable keeps its type: what the server accepts is an operation, and
\* what a client takes from a message is there, even when broadcasts overlap.
THEOREM TypeCorrect == Spec => []TypeOK
<1>1. SyncInv => TypeOK
  BY DEF SyncInv
<1> QED BY <1>1, Invariance, PTL

\* The bridge of a synced client leads from the server's document, at the
\* client's last state, to the document the client shows, until two tasks are
\* between applying and broadcasting at once or something of its snapshot comes
\* again.
THEOREM BridgeCorrect == Spec => []BridgeInv
<1>1. SyncInv => BridgeInv
  BY DEF SyncInv
<1> QED BY <1>1, Invariance, PTL

\* As long as nothing has disturbed it a client is sent every state, in order, and
\* at most one, which a task is about to broadcast, is missing while it is
\* connected: one task between applying and broadcasting disturbs nobody.
THEOREM Gapless == Spec => []NoGap
<1>1. SyncInv => NoGap
  <2> SUFFICES ASSUME SyncInv, NEW c \in Clients, Undisturbed(c)
               PROVE  /\ \A i \in 1..Len(toClient[c]) :
                           /\ toClient[c][i].state = lastServerStateId[c] + i
                           /\ toClient[c][i].id = log[lastServerStateId[c] + i].id
                      /\ open[c] =>
                           lastServerStateId[c] + Len(toClient[c]) + Cardinality(Late) = Cur
    BY DEF NoGap
  <2>1. TypeOK /\ StreamInv /\ DownInv
    BY DEF SyncInv
  <2>2. Attending(c) /\ Seen(c) = lastServerStateId[c] /\ status[c] = "synced"
    BY <2>1 DEF StreamInv, TaskInv, Attending, Undisturbed, Seen
  <2>3. Follows(c) /\ (open[c] => AllSent(c))
    BY <2>1, <2>2 DEF DownInv, InOrder
  <2>4. ASSUME NEW i \in 1..Len(toClient[c])
        PROVE  /\ toClient[c][i].state = lastServerStateId[c] + i
               /\ toClient[c][i].id = log[lastServerStateId[c] + i].id
    <3>1. toClient[c][i] = UpdateOf(lastServerStateId[c] + i)
      BY <2>2, <2>3 DEF Follows
    <3> QED BY <3>1 DEF UpdateOf
  <2>5. ASSUME open[c]
        PROVE  lastServerStateId[c] + Len(toClient[c]) + Cardinality(Late) = Cur
    <3>1. lastServerStateId[c] \in Nat /\ Len(toClient[c]) \in Nat
      BY <2>1, <2>2, SeenType DEF TypeOK
    <3>2. CASE Late = {}
      <4>1. lastServerStateId[c] + Len(toClient[c]) = Cur
        BY <2>2, <2>3, <2>5, <3>2 DEF AllSent
      <4>2. Cardinality(Late) = 0
        BY <3>2, FS_EmptySet
      <4> QED BY <3>1, <4>1, <4>2
    <3>3. CASE Late # {}
      <4>1. PICK d \in Clients : /\ Late = {d}
                                 /\ lastServerStateId[c] + Len(toClient[c]) + 1 = Cur
        BY <2>2, <2>3, <2>5, <3>3 DEF AllSent
      <4>2. Cardinality(Late) = 1
        BY <4>1, FS_Singleton
      <4> QED BY <3>1, <4>1, <4>2
    <3> QED BY <3>2, <3>3
  <2> QED BY <2>4, <2>5
<1> QED BY <1>1, Invariance, PTL

\* The unwraps of transform and apply in apply_server_message do not panic at a
\* client that nothing has disturbed: a panic takes two overlapping broadcasts or
\* an update that its snapshot already held.
THEOREM TransformSafe == Spec => []TransformNeverFails
<1>1. SyncInv => TransformNeverFails
  <2> SUFFICES ASSUME SyncInv, NEW c \in Clients, Undisturbed(c), ToReceive(c)
               PROVE  Fits(Update(c).op, clientBridge[c], document[c])
    BY DEF TransformNeverFails
  <2> DEFINE s == lastServerStateId[c]
  <2>1. TypeOK /\ StreamInv /\ DownInv /\ LogInv /\ BridgeInv
    BY DEF SyncInv
  <2>2. s+1 \in 1..Cur /\ log[s+1] \in LogEntry /\ Update(c) = UpdateOf(s+1) /\ s \in Nat
    BY <2>1, UpdateIs DEF TypeOK
  <2>3. Update(c).op \in Op /\ InLen(Update(c).op) = Size(DocAt(s))
    <3>1. (s+1)-1 = s /\ Update(c).op = log[s+1].op
      BY <2>2 DEF UpdateOf
    <3> QED BY <2>1, <2>2, <3>1 DEF LogInv, LogEntry
  <2>4. DocAt(s) \in Doc
    BY <2>1, <2>2, DocType DEF TypeOK, Cur
  <2>5. Leads(DocAt(s), clientBridge[c], document[c]) /\ clientBridge[c] \in Seq(ClientOp)
    BY <2>1 DEF BridgeInv, TypeOK
  <2> QED BY <2>3, <2>4, <2>5, PassBridge
<1> QED BY <1>1, Invariance, PTL

-----------------------------------------------------------------------------
(* What a step leaves alone                                                *)

\* The parts of OrderInv about one client.
Ordered(c) == SentInv(c) /\ OwnInv(c) /\ AcceptedInv(c) /\ FlightInv(c)

\* The step does nothing to client d or its connection.
Still(d) ==
  /\ open'[d] = open[d] /\ applied'[d] = applied[d] /\ toServer'[d] = toServer[d]
  /\ status'[d] = status[d] /\ (d \in starting' <=> d \in starting)
  /\ lastServerStateId'[d] = lastServerStateId[d]
  /\ clientBridge'[d] = clientBridge[d] /\ edits'[d] = edits[d]

\* Nor does it change what d receives next.
StillReceives(d) == /\ Still(d) /\ toClient'[d] = toClient[d]
                    /\ d \in disturbed' <=> d \in disturbed

\* The steps of a client or of its connection that add nothing to the history and
\* send nothing to others.
Own(c) ==
  \/ HandleClose(c) \/ LoseConnection(c) \/ CheckInactive(c) \/ RejectClientOperation(c)
  \/ Join(c) \/ Connect(c) \/ SendSnapshot(c) \/ ReceiveSnapshot(c) \/ Leave(c)
  \/ LocalEdit(c) \/ RejectEdit(c) \/ ReadStateId(c)
  \/ ReceiveAck(c) \/ ReceiveWrongAck(c) \/ ReceiveRemoteUpdate(c)

\* The steps that are about activity and the kept states only.
Quiet == \/ PruneDocumentStates
         \/ \E u \in Users : MarkInactive(u)
         \/ \E c \in Clients : Pong(c)

LEMMA NextCases ==
  ASSUME [Next]_vars
  PROVE  \/ Quiet \/ UNCHANGED vars
         \/ \E c \in Clients : Own(c) \/ ApplyClientOperation(c) \/ Broadcast(c)
BY DEF Next, ServerNext, ClientNext, Quiet, Own

LEMMA QuietFrame ==
  ASSUME Quiet \/ UNCHANGED vars
  PROVE  /\ log' = log
         /\ UNCHANGED <<open, starting, applied, toServer, toClient, disturbed, clientVars>>
BY DEF Quiet, vars, serverVars, connVars, clientVars, PruneDocumentStates, MarkInactive, Pong,
       Deactivate

\* A client's step leaves the others alone.
LEMMA OwnFrame ==
  ASSUME TypeOK, NEW c \in Clients, Own(c)
  PROVE  /\ log' = log
         /\ \A d \in Clients \ {c} : StillReceives(d)
<1> USE DEF TypeOK, StillReceives, Still
<1>1. CASE HandleClose(c) \/ LoseConnection(c) \/ CheckInactive(c) \/ RejectClientOperation(c)
  BY <1>1 DEF HandleClose, LoseConnection, CheckInactive, RejectClientOperation, EndConnection,
     clientVars, serverVars
<1>2. CASE Join(c) \/ ReceiveSnapshot(c) \/ Leave(c) \/ RejectEdit(c)
  BY <1>2 DEF Join, AddUser, ReceiveSnapshot, Leave, RejectEdit, serverVars, connVars
<1>3. CASE Connect(c) \/ SendSnapshot(c) \/ ReadStateId(c)
  BY <1>3 DEF Connect, SendSnapshot, ReadStateId, serverVars, clientVars
<1>4. CASE LocalEdit(c)
  <2>1. PICK op \in Edits(document[c]) : Edit(c, op)
    BY <1>4 DEF LocalEdit
  <2> QED BY <2>1 DEF Edit, Send, serverVars
<1>5. CASE ReceiveAck(c)
  BY <1>5 DEF ReceiveAck, Received, Send, serverVars
<1>6. CASE ReceiveWrongAck(c)
  BY <1>6 DEF ReceiveWrongAck, Panic, serverVars, connVars
<1>7. CASE ReceiveRemoteUpdate(c)
  <2>1. CASE Panic(c)
    BY <2>1 DEF Panic, serverVars, connVars
  <2>2. CASE ~Panic(c)
    BY <1>7, <2>2 DEF ReceiveRemoteUpdate, Received, serverVars
  <2> QED BY <2>1, <2>2
<1> QED BY <1>1, <1>2, <1>3, <1>4, <1>5, <1>6, <1>7 DEF Own

\* What holds of a client that a step leaves alone holds after it.
LEMMA OrderFrame ==
  ASSUME NEW d \in Clients, log' = log, Ordered(d), StillReceives(d)
  PROVE  Ordered(d)'
<1> USE DEF StillReceives, Still
<1>1. Cur' = Cur /\ \A id : Accepted(id)' <=> Accepted(id)
  BY DEF Cur, Accepted
<1>2. Undisturbed(d)' => Undisturbed(d)
  BY DEF Undisturbed
<1>3. SentInv(d)'
  BY <1>1, <1>2 DEF Ordered, SentInv
<1>4. OwnInv(d)'
  BY <1>1 DEF Ordered, OwnInv
<1>5. AcceptedInv(d)'
  BY <1>1 DEF Ordered, AcceptedInv
<1>6. FlightInv(d)'
  BY DEF Ordered, FlightInv, OwnUpdates
<1> QED BY <1>3, <1>4, <1>5, <1>6 DEF Ordered

-----------------------------------------------------------------------------
(* The order of edits, step by step                                        *)

\* Nothing is on its way to the server from a client that has not connected or
\* has not edited anything it waits for.
LEMMA NothingSent ==
  ASSUME TypeOK, NEW c \in Clients, SentInv(c),
         \/ ~open[c]
         \/ status[c] \in {"opening", "joining"}
         \/ status[c] # "absent" /\ clientBridge[c] = <<>>
         \/ status[c] # "absent" /\ Accepted(clientBridge[c][1].id)
  PROVE  toServer[c] = <<>>
BY DEF SentInv

\* When a connection ends, what was on its way to the server is lost.
LEMMA EndOrder ==
  ASSUME SyncInv, NEW c \in Clients, Ordered(c),
         HandleClose(c) \/ LoseConnection(c) \/ CheckInactive(c) \/ RejectClientOperation(c)
  PROVE  Ordered(c)'
<1>1. /\ log' = log /\ Cur' = Cur /\ \A id : Accepted(id)' <=> Accepted(id)
      /\ UNCHANGED <<applied, toClient, clientVars>>
      /\ open'[c] = FALSE /\ toServer'[c] = <<>>
  BY DEF HandleClose, LoseConnection, CheckInactive, RejectClientOperation, EndConnection,
     serverVars, Cur, Accepted, SyncInv, TypeOK
<1>2. SentInv(c)'
  BY <1>1 DEF SentInv
<1>3. OwnInv(c)' /\ AcceptedInv(c)'
  BY <1>1 DEF Ordered, OwnInv, AcceptedInv, clientVars
<1>4. FlightInv(c)'
  BY <1>1 DEF Ordered, FlightInv, OwnUpdates, clientVars
<1> QED BY <1>2, <1>3, <1>4 DEF Ordered

\* A page that joins has nothing under way.
LEMMA JoinOrder ==
  ASSUME SyncInv, NEW c \in Clients, Ordered(c), Join(c)
  PROVE  Ordered(c)'
<1>1. TypeOK /\ status[c] = "absent" /\ ~open[c]
  BY DEF SyncInv, Join
<1>2. toServer[c] = <<>> /\ clientBridge[c] = <<>>
  BY <1>1, NothingSent DEF Ordered, SyncInv, IdleInv
<1>3. /\ log' = log /\ Cur' = Cur /\ (\A id : Accepted(id)' <=> Accepted(id))
      /\ UNCHANGED <<toServer, toClient, applied, clientBridge, lastServerStateId>>
      /\ status'[c] = "opening"
  BY <1>1 DEF Join, TypeOK, Cur, Accepted, connVars
<1>4. SentInv(c)' /\ OwnInv(c)'
  BY <1>2, <1>3 DEF SentInv, OwnInv
<1>5. AcceptedInv(c)' /\ FlightInv(c)'
  BY <1>3 DEF Ordered, AcceptedInv, FlightInv
<1> QED BY <1>4, <1>5 DEF Ordered

\* Nor has it when its socket opens.
LEMMA ConnectOrder ==
  ASSUME SyncInv, NEW c \in Clients, Ordered(c), Connect(c)
  PROVE  Ordered(c)'
<1>1. TypeOK /\ status[c] = "opening"
  BY DEF SyncInv, Connect
<1>2. toServer[c] = <<>> /\ clientBridge[c] = <<>> /\ toClient[c] = <<>> /\ applied[c] = <<>>
  BY <1>1, NothingSent DEF Ordered, SyncInv, IdleInv, StreamInv, Streams, TaskInv
<1>3. /\ log' = log /\ Cur' = Cur /\ (\A id : Accepted(id)' <=> Accepted(id))
      /\ UNCHANGED <<toServer, toClient, applied, clientBridge, lastServerStateId>>
      /\ status'[c] = "joining"
  BY <1>1 DEF Connect, TypeOK, Cur, Accepted, serverVars
<1>4. SentInv(c)' /\ OwnInv(c)'
  BY <1>2, <1>3 DEF SentInv, OwnInv
<1>5. AcceptedInv(c)'
  BY <1>3 DEF Ordered, AcceptedInv
<1>6. FlightInv(c)'
  BY <1>2, <1>3 DEF FlightInv, OwnUpdates
<1> QED BY <1>4, <1>5, <1>6 DEF Ordered

\* A snapshot goes before what is under way, and is no operation.
LEMMA SendSnapshotOrder ==
  ASSUME SyncInv, NEW c \in Clients, Ordered(c), SendSnapshot(c)
  PROVE  Ordered(c)'
<1>1. /\ TypeOK /\ status[c] \in {"absent", "joining"} /\ Cur \in Nat
      /\ toClient[c] \in Seq(ServerMsg) /\ Len(toClient[c]) \in Nat
  BY DEF SyncInv, SendSnapshot, StreamInv, TaskInv, TypeOK, Cur
<1>2. /\ log' = log /\ Cur' = Cur /\ (\A id : Accepted(id)' <=> Accepted(id))
      /\ UNCHANGED <<open, toServer, applied, clientVars>>
  BY DEF SendSnapshot, Cur, Accepted, serverVars
<1>3. SentInv(c)' /\ OwnInv(c)'
  BY <1>1, <1>2 DEF Ordered, SentInv, OwnInv, clientVars, Undisturbed
<1>4. CASE status[c] = "absent"
  <2>1. toClient'[c] = toClient[c]
    BY <1>1, <1>4 DEF SendSnapshot, TypeOK
  <2>2. AcceptedInv(c)' /\ FlightInv(c)'
    BY <1>2, <1>4, <2>1 DEF Ordered, AcceptedInv, FlightInv, clientVars
  <2> QED BY <1>3, <2>2 DEF Ordered
<1>5. CASE status[c] = "joining"
  <2>1. PICK snap : snap = [kind |-> "Snapshot", document |-> DocAt(Cur), state |-> Cur]
    OBVIOUS
  <2>2. snap.state = Cur /\ snap \notin UpdateMsg
    BY <2>1 DEF UpdateMsg
  <2>3. toClient'[c] = <<snap>> \o toClient[c]
    BY <1>1, <1>5, <2>1 DEF SendSnapshot, TypeOK
  <2>4. /\ Len(toClient'[c]) = Len(toClient[c]) + 1
        /\ toClient'[c][1] = snap
        /\ \A i \in 1..(Len(toClient[c]) + 1) :
             i = 1 \/ (i - 1 \in 1..Len(toClient[c]) /\ toClient'[c][i] = toClient[c][i-1])
    BY <1>1, <2>3
  <2>5. AcceptedInv(c)'
    <3>1. ASSUME NEW i \in 1..(Len(toClient[c]) + 1)
          PROVE  /\ toClient'[c][i].state <= Cur
                 /\ toClient'[c][i] \in UpdateMsg => Accepted(toClient'[c][i].id)
      BY <1>1, <2>2, <2>4 DEF Ordered, AcceptedInv
    <3> QED BY <1>2, <2>4, <3>1 DEF Ordered, AcceptedInv, clientVars
  <2>6. FlightInv(c)'
    <3>1. OwnUpdates(c) = {} /\ applied[c] = <<>>
      BY <1>5 DEF Ordered, FlightInv
    <3>2. OwnUpdates(c)' = {}
      <4> SUFFICES ASSUME NEW i \in 1..(Len(toClient[c]) + 1),
                          toClient'[c][i] \in UpdateMsg, toClient'[c][i].id[1] = c
                   PROVE  FALSE
        BY <2>4 DEF OwnUpdates
      <4>1. i - 1 \in OwnUpdates(c)
        BY <2>2, <2>4 DEF OwnUpdates
      <4> QED BY <3>1, <4>1
    <3> QED BY <1>2, <1>5, <3>1, <3>2 DEF FlightInv, clientVars
  <2> QED BY <1>3, <2>5, <2>6 DEF Ordered
<1> QED BY <1>1, <1>4, <1>5

\* Without its first message, a client has the others still to receive.
LEMMA TailOrder ==
  ASSUME TypeOK, NEW c \in Clients, AcceptedInv(c), toClient[c] # <<>>,
         log' = log, applied' = applied,
         toClient' = [toClient EXCEPT ![c] = Tail(@)],
         lastServerStateId'[c] = Head(toClient[c]).state
  PROVE  /\ Cur' = Cur /\ \A id : Accepted(id)' <=> Accepted(id)
         /\ AcceptedInv(c)'
         /\ \A i \in OwnUpdates(c)' : /\ i \in Nat /\ i + 1 \in OwnUpdates(c)
                                      /\ toClient'[c][i] = toClient[c][i+1]
         /\ \A i \in OwnUpdates(c) : i = 1 \/ i - 1 \in OwnUpdates(c)'
<1>1. /\ toClient[c] \in Seq(ServerMsg) /\ Len(toClient[c]) \in Nat /\ Len(toClient[c]) >= 1
      /\ Head(toClient[c]) = toClient[c][1] /\ toClient'[c] = Tail(toClient[c])
  BY DEF TypeOK
<1>2. /\ Len(toClient'[c]) = Len(toClient[c]) - 1
      /\ \A i \in 1..(Len(toClient[c]) - 1) : toClient'[c][i] = toClient[c][i+1]
  <2>1. PICK rest : rest = Tail(toClient[c])
    OBVIOUS
  <2>2. /\ Len(rest) = Len(toClient[c]) - 1
        /\ \A i \in 1..(Len(toClient[c]) - 1) : rest[i] = toClient[c][i+1]
    BY <1>1, <2>1
  <2> QED BY <1>1, <2>1, <2>2
<1>3. Cur' = Cur /\ \A id : Accepted(id)' <=> Accepted(id)
  BY DEF Cur, Accepted
<1>4. AcceptedInv(c)'
  <2>1. ASSUME NEW i \in 1..(Len(toClient[c]) - 1)
        PROVE  /\ toClient'[c][i].state <= Cur
               /\ toClient'[c][i] \in UpdateMsg => Accepted(toClient'[c][i].id)
    BY <1>1, <1>2 DEF AcceptedInv
  <2>2. Head(toClient[c]).state <= Cur
    BY <1>1 DEF AcceptedInv
  <2> QED BY <1>2, <1>3, <2>1, <2>2 DEF AcceptedInv
<1>5. ASSUME NEW i \in OwnUpdates(c)'
      PROVE  i \in Nat /\ i + 1 \in OwnUpdates(c) /\ toClient'[c][i] = toClient[c][i+1]
  BY <1>1, <1>2 DEF OwnUpdates
<1>6. ASSUME NEW i \in OwnUpdates(c), i # 1 PROVE i - 1 \in OwnUpdates(c)'
  BY <1>1, <1>2, <1>6 DEF OwnUpdates
<1> QED BY <1>3, <1>4, <1>5, <1>6

\* A client starts with an empty bridge and nothing of its own to come.
LEMMA SnapshotOrder ==
  ASSUME SyncInv, NEW c \in Clients, Ordered(c), ReceiveSnapshot(c)
  PROVE  Ordered(c)'
<1>1. TypeOK /\ status[c] = "joining" /\ toClient[c] # <<>>
  BY DEF SyncInv, ReceiveSnapshot
<1>2. toServer[c] = <<>> /\ clientBridge[c] = <<>> /\ applied[c] = <<>> /\ OwnUpdates(c) = {}
  BY <1>1, NothingSent DEF Ordered, SyncInv, IdleInv, FlightInv
<1>3. /\ log' = log /\ UNCHANGED <<toServer, applied, clientBridge>>
      /\ toClient' = [toClient EXCEPT ![c] = Tail(@)]
      /\ status'[c] = "synced" /\ lastServerStateId'[c] = Head(toClient[c]).state
  BY <1>1 DEF ReceiveSnapshot, TypeOK, serverVars
<1>4. SentInv(c)' /\ OwnInv(c)'
  BY <1>2, <1>3 DEF SentInv, OwnInv
<1>5. AcceptedInv(c)' /\ OwnUpdates(c)' = {}
  BY <1>1, <1>2, <1>3, TailOrder DEF Ordered
<1>6. FlightInv(c)'
  BY <1>2, <1>3, <1>5 DEF FlightInv
<1> QED BY <1>4, <1>5, <1>6 DEF Ordered

\* What a client that leaves has sent is on its way as before.
LEMMA LeaveOrder ==
  ASSUME SyncInv, NEW c \in Clients, Ordered(c), Leave(c)
  PROVE  Ordered(c)'
<1>1. /\ log' = log /\ Cur' = Cur /\ \A id : Accepted(id)' <=> Accepted(id)
      /\ UNCHANGED <<toServer, applied, open, edits>>
      /\ status'[c] = "absent" /\ clientBridge'[c] = <<>>
      /\ toClient'[c] = <<>> /\ lastServerStateId'[c] = 0 /\ Cur \in Nat
  BY DEF Leave, SyncInv, TypeOK, serverVars, Cur, Accepted
<1>2. SentInv(c)'
  BY <1>1 DEF Ordered, SentInv, Undisturbed
<1>3. OwnInv(c)' /\ FlightInv(c)'
  BY <1>1 DEF OwnInv, FlightInv
<1>4. AcceptedInv(c)'
  BY <1>1 DEF Ordered, AcceptedInv
<1> QED BY <1>2, <1>3, <1>4 DEF Ordered

\* A client that stops reads and sends nothing any more.
LEMMA StopOrder ==
  ASSUME TypeOK, NEW c \in Clients, Ordered(c), log' = log,
         status[c] \in {"synced", "panicked"}, status'[c] \in {"panicked", "closed"},
         toClient'[c] = <<>> \/ toClient'[c] = toClient[c],
         UNCHANGED <<toServer, applied, open, clientBridge, lastServerStateId, edits>>
  PROVE  Ordered(c)'
<1>1. Cur' = Cur /\ \A id : Accepted(id)' <=> Accepted(id)
  BY DEF Cur, Accepted
<1>2. SentInv(c)'
  BY <1>1 DEF Ordered, SentInv, Undisturbed
<1>3. OwnInv(c)' /\ FlightInv(c)'
  BY <1>1 DEF Ordered, OwnInv, FlightInv
<1>4. AcceptedInv(c)'
  BY <1>1 DEF Ordered, AcceptedInv
<1> QED BY <1>2, <1>3, <1>4 DEF Ordered

\* An edit that is still to be made is not in the history.
LEMMA FutureEdit ==
  ASSUME TypeOK, LogIdInv, NEW c \in Clients, NEW n \in Nat, n > edits[c]
  PROVE  ~Accepted(<<c, n>>)
<1> SUFFICES ASSUME NEW k \in 1..Cur, log[k].id = <<c, n>> PROVE FALSE
  BY DEF Accepted
<1>1. log[k].id[1] = c /\ log[k].id[2] = n /\ edits[c] \in Nat
  BY DEF TypeOK
<1> QED BY <1>1 DEF LogIdInv

\* The first edit is sent and expected back; a later one waits for it.
LEMMA EditOrder ==
  ASSUME SyncInv, LogIdInv, NEW c \in Clients, Ordered(c), LocalEdit(c)
  PROVE  Ordered(c)'
<1> DEFINE first == clientBridge[c] = <<>>
<1>1. PICK op \in Edits(document[c]) : Edit(c, op)
  BY DEF LocalEdit
<1>2. /\ TypeOK /\ status[c] = "synced" /\ clientBridge[c] \in Seq(ClientOp)
      /\ edits[c] \in Nat /\ lastServerStateId[c] \in Nat /\ Cur \in Nat
      /\ toServer[c] \in Seq(ClientMsg) /\ Len(clientBridge[c]) \in Nat
      /\ lastServerStateId[c] <= Cur
  BY DEF SyncInv, LocalEdit, TypeOK, Cur, Ordered, AcceptedInv
<1>3. PICK n \in Nat : n = edits[c] + 1
  BY <1>2
<1>4. PICK x : x = [id |-> <<c, n>>, op |-> op,
                    state |-> IF first THEN "Pending" ELSE "Unsent"]
  OBVIOUS
<1>5. PICK m : m = [id |-> <<c, n>>, op |-> op, state |-> lastServerStateId[c]]
  OBVIOUS
<1>6. /\ log' = log /\ Cur' = Cur /\ (\A id : Accepted(id)' <=> Accepted(id))
      /\ status' = status /\ open' = open /\ lastServerStateId' = lastServerStateId
      /\ applied' = applied /\ toClient' = toClient /\ disturbed' = disturbed /\ edits'[c] = n
  BY <1>1, <1>2, <1>3 DEF Edit, serverVars, Cur, Accepted, TypeOK
<1>7. clientBridge'[c] = Append(clientBridge[c], x)
  BY <1>1, <1>2, <1>3, <1>4 DEF Edit, NothingOutstanding, TypeOK
<1>8. toServer'[c] = IF first /\ open[c] THEN Append(toServer[c], m) ELSE toServer[c]
  BY <1>1, <1>2, <1>3, <1>5 DEF Edit, NothingOutstanding, Send, TypeOK
<1>9. ~Accepted(<<c, n>>)
  <2>1. TypeOK /\ n > edits[c]
    BY <1>2, <1>3
  <2> HIDE DEF first
  <2> QED BY <2>1, FutureEdit
<1>10. first => toServer[c] = <<>>
  BY <1>2, NothingSent DEF Ordered
<1>11. /\ Len(clientBridge'[c]) = Len(clientBridge[c]) + 1
       /\ \A i \in 1..Len(clientBridge[c]) : clientBridge'[c][i] = clientBridge[c][i]
       /\ clientBridge'[c][Len(clientBridge[c]) + 1] = x
       /\ clientBridge'[c] # <<>>
       /\ clientBridge'[c][1] = IF first THEN x ELSE clientBridge[c][1]
  BY <1>2, <1>7
<1>12. /\ x.id = <<c, n>> /\ m.id = <<c, n>> /\ m.state = lastServerStateId[c]
       /\ x.state = "Pending" <=> first
  BY <1>4, <1>5
<1>13. OwnInv(c)'
  <2>1. ASSUME NEW i \in 1..(Len(clientBridge[c]) + 1)
        PROVE  /\ clientBridge'[c][i].id = <<c, n - (Len(clientBridge[c]) + 1) + i>>
               /\ i >= 2 => ~Accepted(clientBridge'[c][i].id)
    <3>1. CASE i = Len(clientBridge[c]) + 1
      <4>1. ASSUME NEW a \in Nat, NEW b \in Nat PROVE a - b + b = a
        OBVIOUS
      <4>2. n - (Len(clientBridge[c]) + 1) + i = n
        BY <1>2, <1>3, <3>1, <4>1
      <4> QED BY <1>9, <1>11, <1>12, <3>1, <4>2
    <3>2. CASE i \in 1..Len(clientBridge[c])
      <4>1. n - (Len(clientBridge[c]) + 1) + i = edits[c] - Len(clientBridge[c]) + i
        BY <1>2, <1>3, <3>2
      <4>2. i >= 2 => i \in 2..Len(clientBridge[c])
        BY <1>2, <3>2
      <4> QED BY <1>11, <3>2, <4>1, <4>2 DEF Ordered, OwnInv
    <3>3. i = Len(clientBridge[c]) + 1 \/ i \in 1..Len(clientBridge[c])
      BY <1>2
    <3> QED BY <3>1, <3>2, <3>3
  <2>2. 2..(Len(clientBridge[c]) + 1) \subseteq 1..(Len(clientBridge[c]) + 1)
    BY <1>2
  <2>3. \A i \in 2..(Len(clientBridge[c]) + 1) : i >= 2
    BY <1>2
  <2> QED BY <1>6, <1>11, <2>1, <2>2, <2>3 DEF OwnInv
<1>14. SentInv(c)'
  <2>1. CASE first /\ open[c]
    <3>1. toServer'[c] = <<m>>
      <4>1. Append(<<>>, m) = <<m>>
        OBVIOUS
      <4> QED BY <1>8, <1>10, <2>1, <4>1
    <3>2. Len(toServer'[c]) = 1 /\ Head(toServer'[c]) = m
      BY <3>1
    <3>3. /\ m.id[1] = c /\ m.id[2] = n /\ n <= n /\ clientBridge'[c][1].id = m.id
          /\ ~Accepted(m.id)
      BY <1>3, <1>9, <1>11, <1>12, <2>1
    <3>4. m.state <= lastServerStateId'[c] /\ m.state <= Cur'
      BY <1>2, <1>6, <1>12
    <3> QED BY <1>2, <1>6, <1>11, <2>1, <3>2, <3>3, <3>4 DEF SentInv
  <2>2. CASE ~(first /\ open[c]) /\ toServer[c] # <<>>
    <3>1. toServer'[c] = toServer[c] /\ ~first
      BY <1>8, <1>10, <2>2
    <3>2. Head(toServer[c]) \in ClientMsg
      BY <1>2, <2>2
    <3> QED BY <1>2, <1>3, <1>6, <1>11, <2>2, <3>1, <3>2
            DEF Ordered, SentInv, ClientMsg, Id, Undisturbed
  <2>3. CASE ~(first /\ open[c]) /\ toServer[c] = <<>>
    BY <1>8, <2>3 DEF SentInv
  <2> QED BY <2>1, <2>2, <2>3
<1>15. AcceptedInv(c)'
  BY <1>6 DEF Ordered, AcceptedInv
<1>16. first => applied[c] = <<>> /\ OwnUpdates(c) = {}
  BY <1>2 DEF Ordered, FlightInv
<1>17. FlightInv(c)'
  <2>1. \A i \in 1..(Len(clientBridge[c]) + 1) :
          clientBridge'[c][i].state = "Pending" <=> i = 1
    <3>1. \A i \in 1..Len(clientBridge[c]) : clientBridge[c][i].state = "Pending" <=> i = 1
      BY <1>2 DEF Ordered, FlightInv
    <3>2. first <=> Len(clientBridge[c]) = 0
      BY <1>2
    <3>3. ASSUME NEW i \in 1..Len(clientBridge[c])
          PROVE  clientBridge'[c][i].state = "Pending" <=> i = 1
      BY <1>11, <3>1
    <3>4. x.state = "Pending" <=> Len(clientBridge[c]) + 1 = 1
      BY <1>2, <1>12, <3>2
    <3>5. \A i \in 1..(Len(clientBridge[c]) + 1) :
            i = Len(clientBridge[c]) + 1 \/ i \in 1..Len(clientBridge[c])
      BY <1>2
    <3> QED BY <1>11, <3>3, <3>4, <3>5
  <2>2. OwnUpdates(c)' = OwnUpdates(c)
    BY <1>6 DEF OwnUpdates
  <2>3. CASE first
    <3>1. open[c] => toServer'[c] # <<>>
      BY <1>2, <1>8, <2>3
    <3> QED BY <1>6, <1>11, <1>16, <2>1, <2>2, <2>3, <3>1 DEF FlightInv
  <2>4. CASE ~first
    <3>1. toServer'[c] = toServer[c] /\ clientBridge'[c][1] = clientBridge[c][1]
      BY <1>8, <1>11, <2>4
    <3> QED BY <1>2, <1>6, <1>11, <2>1, <2>2, <2>4, <3>1 DEF Ordered, FlightInv
  <2> QED BY <2>3, <2>4
<1> QED BY <1>13, <1>14, <1>15, <1>17 DEF Ordered

\* What a client receives is an operation that is accepted, of its own only if it
\* is the outstanding one.
LEMMA Arrival ==
  ASSUME SyncInv, NEW c \in Clients, Ordered(c), ToReceive(c)
  PROVE  /\ TypeOK /\ status[c] = "synced" /\ clientBridge[c] \in Seq(ClientOp)
         /\ edits[c] \in Nat /\ lastServerStateId[c] \in Nat /\ Cur \in Nat
         /\ Len(clientBridge[c]) \in Nat /\ toServer[c] \in Seq(ClientMsg)
         /\ Update(c) \in UpdateMsg /\ Update(c).state \in Nat /\ Update(c).state <= Cur
         /\ Accepted(Update(c).id)
         /\ Update(c).id[1] = c => 1 \in OwnUpdates(c)
         /\ 1 \in OwnUpdates(c) <=> IsAck(c)
<1>1. TypeOK /\ StreamInv /\ status[c] = "synced" /\ toClient[c] # <<>> /\ OwnInv(c)
  BY DEF SyncInv, ToReceive, Ordered
<1>2. /\ clientBridge[c] \in Seq(ClientOp) /\ toServer[c] \in Seq(ClientMsg)
      /\ edits[c] \in Nat /\ lastServerStateId[c] \in Nat /\ Cur \in Nat
      /\ toClient[c] \in Seq(ServerMsg)
  BY <1>1 DEF TypeOK, Cur
<1>3. Update(c) \in UpdateMsg /\ Update(c) = toClient[c][1]
  BY <1>1, UpdateTyped
<1>4. /\ 1 \in 1..Len(toClient[c]) /\ Len(clientBridge[c]) \in Nat
      /\ clientBridge[c] # <<>> => 1 \in 1..Len(clientBridge[c])
  BY <1>1, <1>2
<1>5. Update(c).state \in Nat
  BY <1>3 DEF UpdateMsg
<1>6. Update(c).state <= Cur /\ Accepted(Update(c).id)
  BY <1>3, <1>4 DEF Ordered, AcceptedInv
<1>7. 1 \in OwnUpdates(c) <=> Update(c).id[1] = c
  BY <1>3, <1>4 DEF OwnUpdates
<1>8. 1 \in OwnUpdates(c) => IsAck(c)
  BY <1>1, <1>3 DEF Ordered, FlightInv, IsAck
<1>9. IsAck(c) => Update(c).id[1] = c
  BY <1>1, <1>4 DEF IsAck, OwnInv
<1> QED BY <1>1, <1>2, <1>3, <1>4, <1>5, <1>6, <1>7, <1>8, <1>9

\* The outstanding operation has come back: the next one of the bridge is sent.
LEMMA AckOrder ==
  ASSUME SyncInv, LogIdInv, NEW c \in Clients, Ordered(c), ReceiveAck(c)
  PROVE  Ordered(c)'
<1>1. ToReceive(c) /\ IsAck(c) /\ Received(c) /\ status' = status
  BY DEF ReceiveAck
<1>2. /\ TypeOK /\ status[c] = "synced" /\ clientBridge[c] \in Seq(ClientOp)
      /\ edits[c] \in Nat /\ lastServerStateId[c] \in Nat /\ Cur \in Nat
      /\ Len(clientBridge[c]) \in Nat
  BY <1>1, Arrival
<1>3. PICK s \in Nat : s = Update(c).state
  BY <1>1, Arrival
<1>4. /\ s <= Cur /\ clientBridge[c] # <<>> /\ 1 \in OwnUpdates(c)
      /\ clientBridge[c][1].id = Update(c).id /\ Accepted(clientBridge[c][1].id)
  BY <1>1, <1>3, Arrival DEF IsAck
<1>5. toServer[c] = <<>> /\ applied[c] = <<>> /\ OwnUpdates(c) = {1}
  <2>1. \A i, j \in OwnUpdates(c) : i = j
    BY <1>2 DEF Ordered, FlightInv
  <2> QED BY <1>2, <1>4, <2>1 DEF Ordered, FlightInv
<1>6. /\ log' = log /\ applied' = applied /\ toClient' = [toClient EXCEPT ![c] = Tail(@)]
      /\ open' = open /\ edits' = edits /\ disturbed' = disturbed
      /\ lastServerStateId'[c] = s
      /\ Cur' = Cur /\ (\A id : Accepted(id)' <=> Accepted(id))
  BY <1>1, <1>2, <1>3 DEF Received, serverVars, TypeOK, Cur, Accepted
<1>7. PICK rest : rest = Tail(clientBridge[c])
  OBVIOUS
<1>8. /\ rest \in Seq(ClientOp) /\ Len(rest) = Len(clientBridge[c]) - 1
      /\ \A i \in 1..Len(rest) : rest[i] = clientBridge[c][i+1]
  BY <1>2, <1>4, <1>7
<1>9. PICK m : m = [id |-> rest[1].id, op |-> rest[1].op, state |-> s]
  OBVIOUS
<1>10. /\ clientBridge'[c] = IF rest = <<>> THEN <<>> ELSE [rest EXCEPT ![1].state = "Pending"]
       /\ toServer'[c] = IF rest # <<>> /\ open[c] THEN <<m>> ELSE <<>>
  <2>1. CASE rest = <<>>
    BY <1>2, <1>5, <1>7, <2>1 DEF ReceiveAck, TypeOK
  <2>2. CASE rest # <<>>
    <3>1. /\ clientBridge' = [clientBridge EXCEPT ![c] = [rest EXCEPT ![1].state = "Pending"]]
          /\ toServer' = [toServer EXCEPT ![c] = IF open[c] THEN Append(@, m) ELSE @]
      BY <1>3, <1>4, <1>7, <1>9, <2>2 DEF ReceiveAck, Send
    <3>2. Append(<<>>, m) = <<m>>
      OBVIOUS
    <3> QED BY <1>2, <1>5, <2>2, <3>1, <3>2 DEF TypeOK
  <2> QED BY <2>1, <2>2
<1>11. /\ Len(clientBridge'[c]) = Len(rest)
       /\ clientBridge'[c] # <<>> <=> rest # <<>>
       /\ \A i \in 1..Len(rest) : /\ clientBridge'[c][i].id = rest[i].id
                                  /\ i > 1 => clientBridge'[c][i].state = rest[i].state
       /\ rest # <<>> => clientBridge'[c][1].state = "Pending"
  <2>1. CASE rest = <<>>
    BY <1>8, <1>10, <2>1
  <2>2. CASE rest # <<>>
    <3>1. PICK first : first = [rest[1] EXCEPT !.state = "Pending"]
      OBVIOUS
    <3>2. rest[1] \in ClientOp /\ 1 \in 1..Len(rest)
      BY <1>8, <2>2
    <3>3. first.id = rest[1].id /\ first.state = "Pending"
      BY <3>1, <3>2 DEF ClientOp
    <3>4. clientBridge'[c] = [rest EXCEPT ![1] = first]
      BY <1>10, <2>2, <3>1
    <3> QED BY <1>8, <2>2, <3>2, <3>3, <3>4
  <2> QED BY <2>1, <2>2
<1>12. \A i \in 1..Len(rest) : i + 1 \in 2..Len(clientBridge[c])
  BY <1>2, <1>8
<1>13. OwnInv(c)'
  <2>1. ASSUME NEW i \in 1..Len(rest)
        PROVE  clientBridge'[c][i].id = <<c, edits[c] - Len(rest) + i>>
    <3>1. i + 1 \in 1..Len(clientBridge[c])
      BY <1>2, <1>12
    <3>2. ASSUME NEW a \in Nat, NEW b \in Nat PROVE a - b + (i + 1) = a - (b - 1) + i
      OBVIOUS
    <3>3. edits[c] - Len(clientBridge[c]) + (i + 1) = edits[c] - Len(rest) + i
      BY <1>2, <1>8, <3>2
    <3> QED BY <1>8, <1>11, <3>1, <3>3 DEF Ordered, OwnInv
  <2>2. ASSUME NEW i \in 2..Len(rest) PROVE ~Accepted(clientBridge'[c][i].id)
    <3>1. i \in 1..Len(rest)
      BY <1>8
    <3> QED BY <1>8, <1>11, <1>12, <3>1 DEF Ordered, OwnInv
  <2> QED BY <1>6, <1>11, <2>1, <2>2 DEF OwnInv
<1>14. rest # <<>> => /\ 1 \in 1..Len(rest)
                      /\ clientBridge'[c][1].id = rest[1].id
                      /\ ~Accepted(rest[1].id)
                      /\ \E n \in 1..edits[c] : rest[1].id = <<c, n>>
  <2> SUFFICES ASSUME rest # <<>> PROVE /\ 1 \in 1..Len(rest)
                                        /\ clientBridge'[c][1].id = rest[1].id
                                        /\ ~Accepted(rest[1].id)
                                        /\ \E n \in 1..edits[c] : rest[1].id = <<c, n>>
    OBVIOUS
  <2>1. 1 \in 1..Len(rest) /\ 2 \in 2..Len(clientBridge[c]) /\ rest[1] = clientBridge[c][2]
    BY <1>2, <1>8
  <2>2. ~Accepted(rest[1].id)
    BY <2>1 DEF Ordered, OwnInv
  <2>3. rest[1].id = <<c, edits[c] - Len(rest) + 1>>
    BY <1>6, <1>11, <1>13, <2>1 DEF OwnInv
  <2>4. rest[1] \in ClientOp
    BY <1>8, <2>1
  <2>5. edits[c] - Len(rest) + 1 \in 1..edits[c]
    <3>1. rest[1].id \in Id
      BY <2>4 DEF ClientOp
    <3>2. edits[c] - Len(rest) + 1 \in Nat \ {0}
      BY <2>3, <3>1 DEF Id
    <3> QED BY <1>2, <1>8, <2>1, <3>2
  <2> QED BY <1>11, <2>1, <2>2, <2>3, <2>5
<1>15. SentInv(c)'
  <2>1. CASE rest # <<>> /\ open[c]
    <3>1. toServer'[c] = <<m>>
      BY <1>10, <2>1
    <3>2. /\ Len(toServer'[c]) = 1 /\ Head(toServer'[c]) = m
          /\ m.id = rest[1].id /\ m.state = s
      BY <1>9, <3>1
    <3>3. PICK n \in 1..edits[c] : m.id = <<c, n>>
      BY <1>14, <2>1, <3>2
    <3>4. m.id[1] = c /\ m.id[2] <= edits[c]
      BY <1>2, <3>3
    <3>5. s <= Cur /\ s <= s
      BY <1>2, <1>3, <1>4
    <3> QED BY <1>1, <1>2, <1>3, <1>6, <1>11, <1>14, <2>1, <3>2, <3>4, <3>5 DEF SentInv
  <2>2. CASE ~(rest # <<>> /\ open[c])
    BY <1>10, <2>2 DEF SentInv
  <2> QED BY <2>1, <2>2
<1>16. AcceptedInv(c)' /\ OwnUpdates(c)' = {}
  <2>1. toClient[c] # <<>> /\ Head(toClient[c]).state = s
    BY <1>1, <1>3 DEF ToReceive, Update
  <2>2. AcceptedInv(c)' /\ \A i \in OwnUpdates(c)' : i \in Nat /\ i + 1 \in OwnUpdates(c)
    BY <1>2, <1>6, <2>1, TailOrder DEF Ordered
  <2>3. \A i \in Nat : i + 1 = 1 => i = 0
    OBVIOUS
  <2>4. \A i \in OwnUpdates(c)' : i >= 1
    BY DEF OwnUpdates
  <2> QED BY <1>5, <2>2, <2>3, <2>4
<1>17. FlightInv(c)'
  <2>1. ASSUME NEW i \in 1..Len(rest)
        PROVE  clientBridge'[c][i].state = "Pending" <=> i = 1
    <3>1. i + 1 \in 1..Len(clientBridge[c]) /\ i + 1 # 1 /\ (i = 1 \/ i > 1)
      BY <1>8, <1>12
    <3>2. rest[i].state # "Pending"
      BY <1>2, <1>8, <3>1 DEF Ordered, FlightInv
    <3>3. i > 1 => i # 1
      OBVIOUS
    <3>4. CASE i = 1
      <4>1. rest # <<>>
        BY <1>8
      <4> QED BY <1>11, <3>4, <4>1
    <3> QED BY <1>11, <3>1, <3>2, <3>3, <3>4
  <2>2. rest # <<>> /\ open[c] => toServer'[c] # <<>>
    BY <1>10
  <2> QED BY <1>1, <1>2, <1>5, <1>6, <1>11, <1>16, <2>1, <2>2 DEF FlightInv
<1> QED BY <1>13, <1>15, <1>16, <1>17 DEF Ordered

\* An operation of another client changes the operations of the bridge and
\* neither their ids nor which of them is outstanding.
LEMMA RemoteOrder ==
  ASSUME SyncInv, LogIdInv, NEW c \in Clients, Ordered(c), ReceiveRemoteUpdate(c)
  PROVE  Ordered(c)'
<1>1. ToReceive(c) /\ ~IsAck(c)
  BY DEF ReceiveRemoteUpdate
<1>2. /\ TypeOK /\ status[c] = "synced" /\ clientBridge[c] \in Seq(ClientOp)
      /\ edits[c] \in Nat /\ lastServerStateId[c] \in Nat /\ Cur \in Nat
      /\ Len(clientBridge[c]) \in Nat
  BY <1>1, Arrival
<1>3. CASE Panic(c)
  BY <1>2, <1>3, StopOrder DEF Panic, serverVars, connVars, TypeOK
<1>4. CASE ~Panic(c)
  <2>1. PICK s \in Nat : s = Update(c).state
    BY <1>1, Arrival
  <2>2. s <= Cur /\ 1 \notin OwnUpdates(c)
    BY <1>1, <2>1, Arrival
  <2>3. /\ log' = log /\ Cur' = Cur /\ (\A id : Accepted(id)' <=> Accepted(id))
        /\ applied' = applied /\ toClient' = [toClient EXCEPT ![c] = Tail(@)]
        /\ open' = open /\ edits' = edits /\ toServer' = toServer /\ status' = status
        /\ disturbed' = disturbed /\ lastServerStateId'[c] = s
    BY <1>2, <1>4, <2>1 DEF ReceiveRemoteUpdate, Received, serverVars, Cur, Accepted, TypeOK
  <2>4. /\ Len(clientBridge'[c]) = Len(clientBridge[c])
        /\ clientBridge'[c] # <<>> <=> clientBridge[c] # <<>>
        /\ \A i \in 1..Len(clientBridge[c]) :
             /\ clientBridge'[c][i].id = clientBridge[c][i].id
             /\ clientBridge'[c][i].state = clientBridge[c][i].state
    <3>1. PICK F : clientBridge'[c] = [i \in 1..Len(clientBridge[c]) |->
                                         [clientBridge[c][i] EXCEPT !.op = F[i]]]
      <4> DEFINE pass == Passing(Update(c).op, clientBridge[c])
                 F == [i \in 1..Len(clientBridge[c]) |->
                         Transform(pass[i-1], clientBridge[c][i].op)[2]]
      <4>1. clientBridge'[c] = [i \in 1..Len(clientBridge[c]) |->
               [clientBridge[c][i] EXCEPT !.op = Transform(pass[i-1], @)[2]]]
        BY <1>2, <1>4 DEF ReceiveRemoteUpdate, TypeOK
      <4>2. clientBridge'[c] = [i \in 1..Len(clientBridge[c]) |->
                                  [clientBridge[c][i] EXCEPT !.op = F[i]]]
        BY <4>1
      <4> QED BY <4>2
    <3>2. Len(clientBridge'[c]) = Len(clientBridge[c])
      BY <1>2, <3>1
    <3>3. ASSUME NEW i \in 1..Len(clientBridge[c])
          PROVE  /\ clientBridge'[c][i].id = clientBridge[c][i].id
                 /\ clientBridge'[c][i].state = clientBridge[c][i].state
      <4>1. clientBridge[c][i] \in ClientOp
        BY <1>2
      <4> QED BY <3>1, <4>1 DEF ClientOp
    <3>4. clientBridge'[c] # <<>> <=> clientBridge[c] # <<>>
      BY <1>2, <3>1, <3>2
    <3> QED BY <3>2, <3>3, <3>4
  <2>5. clientBridge[c] # <<>> => 1 \in 1..Len(clientBridge[c])
    BY <1>2
  <2>6. SentInv(c)'
    <3>1. toServer[c] # <<>> => Head(toServer[c]) \in ClientMsg
      BY <1>1, Arrival
    <3>2. toServer[c] # <<>> => Head(toServer[c]).state \in Nat
      BY <3>1 DEF ClientMsg
    <3>3. Undisturbed(c) => s = lastServerStateId[c] + 1
      BY <1>1, <2>1, UpdateIs DEF SyncInv, UpdateOf
    <3>4. Undisturbed(c)' <=> Undisturbed(c)
      BY <2>3 DEF Undisturbed
    <3> QED BY <1>2, <2>1, <2>3, <2>4, <2>5, <3>2, <3>3, <3>4 DEF Ordered, SentInv
  <2>7. OwnInv(c)'
    <3>1. 2..Len(clientBridge[c]) \subseteq 1..Len(clientBridge[c])
      BY <1>2
    <3> QED BY <2>3, <2>4, <3>1 DEF Ordered, OwnInv
  <2>8. /\ AcceptedInv(c)'
        /\ \A i \in OwnUpdates(c)' : /\ i \in Nat /\ i + 1 \in OwnUpdates(c)
                                      /\ toClient'[c][i] = toClient[c][i+1]
        /\ \A i \in OwnUpdates(c) : i = 1 \/ i - 1 \in OwnUpdates(c)'
    <3>1. toClient[c] # <<>> /\ Head(toClient[c]).state = s
      BY <1>1, <2>1 DEF ToReceive, Update
    <3> QED BY <1>2, <2>3, <3>1, TailOrder DEF Ordered
  <2>9. FlightInv(c)'
    <3>1. \A i, j \in OwnUpdates(c)' : i = j
      <4> SUFFICES ASSUME NEW i \in OwnUpdates(c)', NEW j \in OwnUpdates(c)' PROVE i = j
        OBVIOUS
      <4>1. i + 1 = j + 1 /\ i \in Nat /\ j \in Nat
        BY <1>2, <2>8 DEF Ordered, FlightInv
      <4> QED BY <4>1
    <3>2. \A i \in OwnUpdates(c)' : clientBridge[c] # <<>> /\ toClient'[c][i].id = clientBridge[c][1].id
      BY <1>2, <2>8 DEF Ordered, FlightInv
    <3>3. OwnUpdates(c)' = {} <=> OwnUpdates(c) = {}
      BY <2>2, <2>8
    <3> QED BY <1>2, <2>3, <2>4, <2>5, <3>1, <3>2, <3>3 DEF Ordered, FlightInv
  <2> QED BY <2>6, <2>7, <2>8, <2>9 DEF Ordered
<1> QED BY <1>3, <1>4

\* The server accepts the one operation a client has sent, a new one, and nothing
\* changes for the clients.
LEMMA Accepting ==
  ASSUME SyncInv, NEW c \in Clients, SentInv(c), ApplyClientOperation(c),
         NEW m, m = Head(toServer[c])
  PROVE  /\ m \in ClientMsg /\ m.id[1] = c /\ m.id[2] <= edits[c] /\ ~Accepted(m.id)
         /\ status[c] \notin {"opening", "joining"}
         /\ status[c] # "absent" => clientBridge[c] # <<>> /\ clientBridge[c][1].id = m.id
         /\ Cur \in Nat /\ Cur' = Cur + 1
         /\ \A k \in 1..Cur : log'[k].id = log[k].id
         /\ log'[Cur + 1].id = m.id
         /\ \A id : Accepted(id)' <=> Accepted(id) \/ id = m.id
         /\ toServer[c] # <<>> /\ toServer'[c] = <<>>
         /\ \A d \in Clients \ {c} : toServer'[d] = toServer[d] /\ applied'[d] = applied[d]
         /\ applied'[c] # <<>> /\ applied'[c][1].id = m.id /\ applied'[c][1].state = NotRead
         /\ disturbed \subseteq disturbed'
         /\ UNCHANGED <<users, activeUsers, open, starting, toClient, lapsed, clientVars>>
<1>1. /\ TypeOK /\ toServer[c] \in Seq(ClientMsg) /\ toServer[c] # <<>>
      /\ log \in Seq(LogEntry)
  BY DEF SyncInv, TypeOK, ApplyClientOperation
<1>2. m \in ClientMsg
  BY <1>1
<1>3. /\ m.id[1] = c /\ m.id[2] <= edits[c] /\ ~Accepted(m.id)
      /\ status[c] \notin {"opening", "joining"}
      /\ status[c] # "absent" => clientBridge[c] # <<>> /\ clientBridge[c][1].id = m.id
      /\ Len(toServer[c]) <= 1
  BY <1>1 DEF SentInv
<1>4. PICK u : u = [kind |-> "RemoteUpdate", id |-> log'[Cur + 1].id, op |-> log'[Cur + 1].op,
                    state |-> NotRead]
  OBVIOUS
<1>5. /\ Cur \in Nat /\ Cur' = Cur + 1
      /\ \A k \in 1..Cur : log'[k] = log[k]
      /\ log'[Cur + 1].id = m.id
      /\ applied' = [applied EXCEPT ![c] = <<u>>]
  BY <1>4, ApplyFacts
<1>6. \A id : Accepted(id)' <=> Accepted(id) \/ id = m.id
  <2> SUFFICES ASSUME NEW id PROVE Accepted(id)' <=> Accepted(id) \/ id = m.id
    OBVIOUS
  <2>1. ASSUME NEW k \in 1..Cur' PROVE k \in 1..Cur \/ k = Cur + 1
    BY <1>5
  <2>2. 1..Cur \subseteq 1..Cur' /\ Cur + 1 \in 1..Cur'
    BY <1>5
  <2> QED BY <1>5, <2>1, <2>2 DEF Accepted
<1>7. toServer'[c] = <<>> /\ \A d \in Clients \ {c} : toServer'[d] = toServer[d]
  <2>1. toServer' = [toServer EXCEPT ![c] = Tail(@)]
    BY DEF ApplyClientOperation
  <2>2. Tail(toServer[c]) = <<>>
    BY <1>1, <1>3
  <2>3. toServer' = [toServer EXCEPT ![c] = <<>>]
    BY <2>1, <2>2
  <2> QED BY <1>1, <2>3 DEF TypeOK
<1>8. /\ UNCHANGED <<users, activeUsers, open, starting, toClient, lapsed, clientVars>>
      /\ disturbed \subseteq disturbed'
  BY DEF ApplyClientOperation
<1>9. applied'[c] = <<u>> /\ \A d \in Clients \ {c} : applied'[d] = applied[d]
  BY <1>1, <1>5 DEF TypeOK
<1>10. applied'[c] # <<>> /\ applied'[c][1].id = m.id /\ applied'[c][1].state = NotRead
  BY <1>4, <1>5, <1>9
<1> QED BY <1>1, <1>2, <1>3, <1>5, <1>6, <1>7, <1>8, <1>9, <1>10

\* An accepted operation is the client's outstanding one, and no one else's.
LEMMA ApplyOrder ==
  ASSUME SyncInv, OrderInv, NEW c \in Clients, ApplyClientOperation(c), NEW d \in Clients
  PROVE  Ordered(d)'
<1>1. Ordered(c) /\ Ordered(d) /\ SentInv(c) /\ TypeOK
  BY DEF OrderInv, Ordered, SyncInv
<1>2. PICK m : m = Head(toServer[c])
  OBVIOUS
<1>3. /\ m \in ClientMsg /\ m.id[1] = c
      /\ status[c] \notin {"opening", "joining"}
      /\ status[c] # "absent" => clientBridge[c] # <<>> /\ clientBridge[c][1].id = m.id
      /\ Cur \in Nat /\ Cur' = Cur + 1
      /\ \A id : Accepted(id)' <=> Accepted(id) \/ id = m.id
      /\ toServer[c] # <<>> /\ toServer'[c] = <<>>
      /\ d # c => toServer'[d] = toServer[d] /\ applied'[d] = applied[d]
      /\ applied'[c] # <<>> /\ applied'[c][1].id = m.id /\ applied'[c][1].state = NotRead
      /\ disturbed \subseteq disturbed'
      /\ UNCHANGED <<open, toClient, clientVars>>
  BY <1>1, <1>2, Accepting
<1>4. /\ clientBridge[d] \in Seq(ClientOp) /\ edits[d] \in Nat /\ Len(clientBridge[d]) \in Nat
      /\ lastServerStateId[d] \in Nat
      /\ status[d] = "absent" => clientBridge[d] = <<>>
  BY <1>1 DEF TypeOK, SyncInv, IdleInv
<1>5. /\ clientBridge'[d] = clientBridge[d] /\ edits'[d] = edits[d] /\ status'[d] = status[d]
      /\ lastServerStateId'[d] = lastServerStateId[d] /\ toClient'[d] = toClient[d]
      /\ open'[d] = open[d] /\ (Undisturbed(d)' => Undisturbed(d))
  BY <1>3 DEF clientVars, Undisturbed
<1>6. SentInv(d)'
  <2>1. CASE d = c
    BY <1>3, <2>1 DEF SentInv
  <2>2. CASE d # c
    <3>1. toServer[d] # <<>> => Head(toServer[d]) \in ClientMsg
      <4>1. toServer[d] \in Seq(ClientMsg)
        BY <1>1 DEF TypeOK
      <4> QED BY <4>1
    <3>2. toServer[d] # <<>> => Head(toServer[d]).state \in Nat
      BY <3>1 DEF ClientMsg
    <3>3. toServer[d] # <<>> => Head(toServer[d]).id[1] = d
      BY <1>1 DEF Ordered, SentInv
    <3> QED BY <1>1, <1>3, <1>5, <2>2, <3>2, <3>3 DEF Ordered, SentInv
  <2> QED BY <2>1, <2>2
<1>7. OwnInv(d)'
  <2>1. ASSUME NEW i \in 2..Len(clientBridge[d]) PROVE clientBridge[d][i].id # m.id
    <3>1. /\ i \in 1..Len(clientBridge[d]) /\ 1 \in 1..Len(clientBridge[d])
          /\ clientBridge[d] # <<>> /\ i # 1
      BY <1>4
    <3>2. /\ clientBridge[d][i].id = <<d, edits[d] - Len(clientBridge[d]) + i>>
          /\ clientBridge[d][1].id = <<d, edits[d] - Len(clientBridge[d]) + 1>>
      BY <1>1, <3>1 DEF Ordered, OwnInv
    <3>3. CASE d = c
      <4>1. clientBridge[d][1].id = m.id
        BY <1>3, <1>4, <3>1, <3>3
      <4>2. edits[d] - Len(clientBridge[d]) + i # edits[d] - Len(clientBridge[d]) + 1
        BY <1>4, <3>1
      <4> QED BY <3>2, <4>1, <4>2
    <3>4. CASE d # c
      BY <1>3, <3>2, <3>4
    <3> QED BY <3>3, <3>4
  <2> QED BY <1>1, <1>3, <1>5, <2>1 DEF Ordered, OwnInv
<1>8. AcceptedInv(d)'
  <2>1. /\ \A i \in 1..Len(toClient[d]) : /\ toClient[d][i].state <= Cur
                                          /\ toClient[d][i] \in UpdateMsg => Accepted(toClient[d][i].id)
        /\ lastServerStateId[d] <= Cur
    BY <1>1 DEF Ordered, AcceptedInv
  <2>2. \A i \in 1..Len(toClient[d]) : toClient[d][i].state \in Nat
    <3>1. toClient[d] \in Seq(ServerMsg) /\ \A x \in ServerMsg : x.state \in Nat
      BY <1>1 DEF TypeOK, ServerMsg, UpdateMsg
    <3> QED BY <3>1
  <2>3. applied'[d] # <<>> => /\ applied'[d][1].id[1] = d /\ Accepted(applied[d][1].id)'
                              /\ applied'[d][1].state <= Cur + 1
    <3>1. CASE d = c
      BY <1>3, <3>1 DEF NotRead
    <3>2. CASE d # c
      <4>1. applied[d] # <<>> => applied[d][1].state \in Nat
        <5>1. applied[d] \in Seq(UpdateMsg)
          BY <1>1 DEF TypeOK
        <5>2. applied[d] # <<>> => applied[d][1] \in UpdateMsg
          BY <5>1
        <5> QED BY <5>2 DEF UpdateMsg
      <4> QED BY <1>1, <1>3, <3>2, <4>1 DEF Ordered, AcceptedInv
    <3> QED BY <3>1, <3>2
  <2> QED BY <1>3, <1>4, <1>5, <2>1, <2>2, <2>3 DEF AcceptedInv
<1>9. FlightInv(d)'
  <2>1. OwnUpdates(d)' = OwnUpdates(d)
    BY <1>5 DEF OwnUpdates
  <2>2. CASE d = c
    BY <1>1, <1>3, <1>5, <2>1, <2>2 DEF Ordered, FlightInv
  <2>3. CASE d # c
    BY <1>1, <1>3, <1>5, <2>1, <2>3 DEF Ordered, FlightInv
  <2> QED BY <2>2, <2>3
<1> QED BY <1>6, <1>7, <1>8, <1>9 DEF Ordered

\* The state that is read for an update is one that is reached.
LEMMA ReadOrder ==
  ASSUME SyncInv, NEW c \in Clients, Ordered(c), ReadStateId(c)
  PROVE  Ordered(c)'
<1>1. TypeOK /\ Cur \in Nat /\ applied[c] # <<>> /\ applied[c] \in Seq(UpdateMsg)
  BY DEF SyncInv, TypeOK, Cur, ReadStateId
<1>2. PICK u : u = [applied[c][1] EXCEPT !.state = Cur]
  OBVIOUS
<1>3. applied[c][1] \in UpdateMsg
  BY <1>1
<1>4. u.id = applied[c][1].id /\ u.state = Cur
  BY <1>2, <1>3 DEF UpdateMsg
<1>5. /\ log' = log /\ Cur' = Cur /\ (\A id : Accepted(id)' <=> Accepted(id))
      /\ UNCHANGED <<open, toServer, toClient, disturbed, clientVars>>
      /\ applied'[c] = <<u>>
  BY <1>1, <1>2 DEF ReadStateId, TypeOK, serverVars, Cur, Accepted
<1>6. applied'[c] # <<>> /\ applied'[c][1] = u
  BY <1>5
<1>7. SentInv(c)' /\ OwnInv(c)'
  BY <1>5 DEF Ordered, SentInv, OwnInv, Undisturbed, clientVars
<1>8. AcceptedInv(c)'
  BY <1>1, <1>4, <1>5, <1>6 DEF Ordered, AcceptedInv, clientVars
<1>9. FlightInv(c)'
  <2>1. OwnUpdates(c)' = OwnUpdates(c)
    BY <1>5 DEF OwnUpdates
  <2> QED BY <1>1, <1>4, <1>5, <1>6, <2>1 DEF Ordered, FlightInv, clientVars
<1> QED BY <1>7, <1>8, <1>9 DEF Ordered

\* What is broadcast is nobody's own operation but its client's, who waits for it.
LEMMA BroadcastOrder ==
  ASSUME SyncInv, OrderInv, NEW c \in Clients, Broadcast(c), NEW d \in Clients
  PROVE  Ordered(d)'
<1>1. Ordered(c) /\ Ordered(d) /\ TypeOK /\ StreamInv /\ Cur \in Nat
  <2>1. Ordered(c) /\ Ordered(d)
    BY DEF OrderInv, Ordered
  <2>2. TypeOK /\ StreamInv
    BY DEF SyncInv
  <2>3. Cur \in Nat
    BY <2>2 DEF TypeOK, Cur
  <2> QED BY <2>1, <2>2, <2>3
<1>2. PICK u : u = applied[c][1]
  OBVIOUS
<1>3. /\ applied[c] # <<>> /\ u \in UpdateMsg /\ u.id[1] = c /\ Accepted(u.id)
      /\ u.state <= Cur /\ open[c]
  BY <1>1, <1>2 DEF Broadcast, TypeOK, Ordered, AcceptedInv, StreamInv, TaskInv
<1>4. /\ log' = log /\ Cur' = Cur /\ (\A id : Accepted(id)' <=> Accepted(id))
      /\ UNCHANGED <<open, toServer, disturbed, clientVars>>
      /\ toClient'[d] = IF Listening(d) THEN Append(toClient[d], u) ELSE toClient[d]
      /\ applied'[c] = <<>>
      /\ d # c => applied'[d] = applied[d]
  BY <1>1, <1>2 DEF Broadcast, TypeOK, serverVars, Cur, Accepted
<1>5. SentInv(d)' /\ OwnInv(d)'
  BY <1>1, <1>4 DEF Ordered, SentInv, OwnInv, Undisturbed, clientVars
<1>6. /\ toClient[d] \in Seq(ServerMsg) /\ Len(toClient[d]) \in Nat
  BY <1>1 DEF TypeOK
<1>7. Listening(d) => /\ Len(toClient'[d]) = Len(toClient[d]) + 1
                      /\ toClient'[d][Len(toClient[d]) + 1] = u
                      /\ \A i \in 1..Len(toClient[d]) : toClient'[d][i] = toClient[d][i]
  BY <1>4, <1>6
<1>8. \A i \in 1..(Len(toClient[d]) + 1) : i \in 1..Len(toClient[d]) \/ i = Len(toClient[d]) + 1
  BY <1>6
<1>9. AcceptedInv(d)'
  <2>1. applied'[d] # <<>> => applied'[d] = applied[d]
    BY <1>4
  <2>2. CASE Listening(d)
    <3>1. ASSUME NEW i \in 1..(Len(toClient[d]) + 1)
          PROVE  /\ toClient'[d][i].state <= Cur
                 /\ toClient'[d][i] \in UpdateMsg => Accepted(toClient'[d][i].id)
      BY <1>1, <1>3, <1>7, <1>8, <2>2 DEF Ordered, AcceptedInv
    <3> QED BY <1>1, <1>4, <1>7, <2>1, <2>2, <3>1 DEF Ordered, AcceptedInv, clientVars
  <2>3. CASE ~Listening(d)
    BY <1>1, <1>4, <2>1, <2>3 DEF Ordered, AcceptedInv, clientVars
  <2> QED BY <2>2, <2>3
<1>10. FlightInv(d)'
  <2>1. CASE d # c
    <3>1. OwnUpdates(d)' = OwnUpdates(d)
      <4>1. CASE Listening(d)
        <5>1. OwnUpdates(d) \subseteq OwnUpdates(d)'
          BY <1>6, <1>7, <4>1 DEF OwnUpdates
        <5>2. OwnUpdates(d)' \subseteq OwnUpdates(d)
          BY <1>3, <1>6, <1>7, <1>8, <2>1, <4>1 DEF OwnUpdates
        <5> QED BY <5>1, <5>2
      <4>2. CASE ~Listening(d)
        BY <1>4, <4>2 DEF OwnUpdates
      <4> QED BY <4>1, <4>2
    <3>2. \A i \in OwnUpdates(d) : toClient'[d][i] = toClient[d][i]
      BY <1>4, <1>7 DEF OwnUpdates
    <3> QED BY <1>1, <1>4, <2>1, <3>1, <3>2 DEF Ordered, FlightInv, clientVars
  <2>2. CASE d = c
    <3>1. status[c] # "joining" /\ status' = status
      BY <1>1, <1>3, <1>4 DEF Ordered, FlightInv, clientVars
    <3>2. CASE status[c] = "synced"
      <4>1. /\ Listening(c) /\ OwnUpdates(c) = {} /\ toServer[c] = <<>>
            /\ clientBridge[c] # <<>> /\ u.id = clientBridge[c][1].id
        BY <1>1, <1>2, <1>3, <3>2 DEF Listening, Ordered, FlightInv
      <4>2. OwnUpdates(c)' = {Len(toClient[c]) + 1}
        <5>1. Len(toClient[c]) + 1 \in OwnUpdates(c)'
          BY <1>3, <1>6, <1>7, <2>2, <4>1 DEF OwnUpdates
        <5>2. ASSUME NEW i \in OwnUpdates(c)' PROVE i = Len(toClient[c]) + 1
          <6>1. i \in 1..(Len(toClient[c]) + 1)
            BY <1>7, <2>2, <4>1 DEF OwnUpdates
          <6>2. i \notin 1..Len(toClient[c])
            BY <1>7, <2>2, <4>1 DEF OwnUpdates
          <6> QED BY <1>8, <2>2, <6>1, <6>2
        <5> QED BY <5>1, <5>2
      <4>3. toClient'[c][Len(toClient[c]) + 1] = u
        BY <1>7, <2>2, <4>1
      <4> QED BY <1>1, <1>4, <2>2, <3>2, <4>1, <4>2, <4>3 DEF Ordered, FlightInv, clientVars
    <3>3. CASE status[c] # "synced"
      BY <2>2, <3>1, <3>3 DEF FlightInv
    <3> QED BY <3>2, <3>3
  <2> QED BY <2>1, <2>2
<1> QED BY <1>5, <1>9, <1>10 DEF Ordered

\* Editing numbers the next edit, and nothing else changes the numbers.
LEMMA EditsGrow ==
  ASSUME TypeOK, [Next]_vars
  PROVE  \A d \in Clients : edits[d] \in Nat /\ edits'[d] \in Nat /\ edits[d] <= edits'[d]
<1>1. edits \in [Clients -> Nat]
  BY DEF TypeOK
<1>2. CASE edits' = edits
  BY <1>1, <1>2
<1>3. CASE \E c \in Clients : LocalEdit(c)
  <2>1. PICK c \in Clients : edits' = [edits EXCEPT ![c] = @ + 1]
    BY <1>3 DEF LocalEdit, Edit
  <2> QED BY <1>1, <2>1
<1> QED BY <1>2, <1>3 DEF Next, ServerNext, ClientNext, vars, serverVars, connVars, clientVars,
  Join, Connect, SendSnapshot, ReceiveSnapshot, Leave, HandleClose, LoseConnection, MarkInactive,
  CheckInactive, Pong, RejectEdit, ApplyClientOperation, ReadStateId, Broadcast,
  RejectClientOperation, PruneDocumentStates, ReceiveAck, ReceiveWrongAck, ReceiveRemoteUpdate,
  Received, Panic

\* No edit is accepted twice.
LEMMA LogIdStep ==
  ASSUME SyncInv, OrderInv, [Next]_vars
  PROVE  LogIdInv'
<1>1. TypeOK /\ LogIdInv /\ log \in Seq(LogEntry) /\ Cur \in Nat
  BY DEF SyncInv, OrderInv, TypeOK, Cur
<1>2. \A d \in Clients : edits[d] \in Nat /\ edits'[d] \in Nat /\ edits[d] <= edits'[d]
  BY <1>1, EditsGrow
<1>3. \A k \in 1..Cur : log[k].id[1] \in Clients /\ log[k].id[2] \in Nat
  <2> SUFFICES ASSUME NEW k \in 1..Cur PROVE log[k].id[1] \in Clients /\ log[k].id[2] \in Nat
    OBVIOUS
  <2>1. log[k] \in LogEntry
    BY <1>1 DEF Cur
  <2> QED BY <2>1 DEF LogEntry, Id
<1>4. \A k \in 1..Cur : log[k].id[2] <= edits'[log[k].id[1]]
  BY <1>1, <1>2, <1>3 DEF LogIdInv
<1>5. CASE \E c \in Clients : ApplyClientOperation(c)
  <2>1. PICK c \in Clients : ApplyClientOperation(c)
    BY <1>5
  <2>2. SentInv(c)
    BY DEF OrderInv
  <2>3. PICK m : m = Head(toServer[c])
    OBVIOUS
  <2>4. /\ m.id[1] = c /\ m.id[2] <= edits[c] /\ ~Accepted(m.id)
        /\ Cur' = Cur + 1 /\ \A k \in 1..Cur : log'[k].id = log[k].id
        /\ log'[Cur + 1].id = m.id /\ UNCHANGED <<open, lapsed, clientVars>>
    BY <2>1, <2>2, <2>3, Accepting
  <2>5. \A k \in 1..Cur : log[k].id # m.id
    BY <2>4 DEF Accepted
  <2>6. \A k \in 1..(Cur + 1) : k = Cur + 1 \/ k \in 1..Cur
    BY <1>1
  <2>7. ASSUME NEW k \in 1..(Cur + 1) PROVE log'[k].id[2] <= edits'[log'[k].id[1]]
    BY <1>4, <2>4, <2>6 DEF clientVars
  <2>8. ASSUME NEW k \in 1..(Cur + 1), NEW j \in 1..(Cur + 1), log'[j].id = log'[k].id
        PROVE  j = k
    BY <1>1, <2>4, <2>5, <2>6, <2>8 DEF LogIdInv
  <2> QED BY <2>4, <2>7, <2>8 DEF LogIdInv
<1>6. CASE ~\E c \in Clients : ApplyClientOperation(c)
  <2>1. log' = log /\ Cur' = Cur
    BY <1>6, LogUnchanged DEF Cur
  <2> QED BY <1>1, <1>4, <2>1 DEF LogIdInv
<1> QED BY <1>5, <1>6

\* The order of edits is kept by every step.
LEMMA OrderStep == SyncInv /\ OrderInv /\ [Next]_vars => OrderInv'
<1> SUFFICES ASSUME SyncInv, OrderInv, [Next]_vars, NEW d \in Clients PROVE Ordered(d)'
  BY LogIdStep DEF OrderInv, Ordered
<1>1. TypeOK /\ LogIdInv /\ Ordered(d)
  BY DEF SyncInv, OrderInv, Ordered
<1>2. CASE Quiet \/ UNCHANGED vars
  BY <1>1, <1>2, QuietFrame, OrderFrame DEF StillReceives, Still, clientVars
<1>3. ASSUME NEW c \in Clients, Own(c) PROVE Ordered(d)'
  <2>1. CASE d # c
    <3>1. log' = log /\ StillReceives(d)
      BY <1>1, <1>3, <2>1, OwnFrame
    <3> QED BY <1>1, <3>1, OrderFrame
  <2>2. CASE d = c
    <3>1. Ordered(c)
      BY <1>1, <2>2
    <3>2. RejectEdit(c) \/ ReceiveWrongAck(c) => Ordered(c)'
      BY <1>1, <3>1, StopOrder DEF RejectEdit, ReceiveWrongAck, ToReceive, Panic, serverVars,
         connVars, TypeOK
    <3> QED BY <1>1, <1>3, <2>2, <3>1, <3>2, EndOrder, JoinOrder, ConnectOrder,
            SendSnapshotOrder, SnapshotOrder, LeaveOrder, EditOrder, ReadOrder, AckOrder,
            RemoteOrder DEF Own
  <2> QED BY <2>1, <2>2
<1>4. ASSUME NEW c \in Clients, ApplyClientOperation(c) PROVE Ordered(d)'
  BY <1>4, ApplyOrder
<1>5. ASSUME NEW c \in Clients, Broadcast(c) PROVE Ordered(d)'
  BY <1>5, BroadcastOrder
<1> QED BY <1>2, <1>3, <1>4, <1>5, NextCases

-----------------------------------------------------------------------------
(* The states the server keeps                                             *)

\* Who neither prunes nor applies leaves them alone.
LEMMA KeptUnchanged ==
  ASSUME [Next]_vars, ~(\E c \in Clients : ApplyClientOperation(c)), ~PruneDocumentStates
  PROVE  kept' = kept
BY DEF Next, ServerNext, ClientNext, vars, serverVars, Join, AddUser, Connect, SendSnapshot,
   ReceiveSnapshot, Leave, HandleClose, LoseConnection, MarkInactive, CheckInactive, Pong,
   LocalEdit, Edit, RejectEdit, RejectClientOperation, ReadStateId, Broadcast, ReceiveAck,
   ReceiveWrongAck, ReceiveRemoteUpdate, Received, Panic

\* Pruning forgets the states before one, and the newest state is kept.
LEMMA KeptStep == SyncInv /\ KeptInv /\ [Next]_vars => KeptInv'
<1> SUFFICES ASSUME SyncInv, KeptInv, [Next]_vars PROVE KeptInv'
  OBVIOUS
<1>1. kept \subseteq 0..Cur /\ Cur \in Nat /\ \A u \in activeUsers : userDocStates[u] \in Nat
  <2>1. TypeOK
    BY DEF SyncInv
  <2>2. Cur \in Nat
    BY <2>1 DEF TypeOK, Cur
  <2> QED BY <2>1, <2>2 DEF TypeOK
<1>2. CASE \E c \in Clients : ApplyClientOperation(c)
  <2>1. Cur' = Cur + 1
    BY <1>2, ApplyFacts
  <2>2. kept' = kept \cup {Cur + 1}
    BY <1>2 DEF ApplyClientOperation
  <2>3. ASSUME NEW j \in kept', NEW i \in j..(Cur + 1) PROVE i \in kept'
    <3>1. i = Cur + 1 \/ (j \in kept /\ i \in j..Cur)
      BY <1>1, <2>2
    <3> QED BY <2>2, <3>1 DEF KeptInv
  <2> QED BY <2>1, <2>2, <2>3 DEF KeptInv
<1>3. CASE PruneDocumentStates
  <2>1. /\ kept' = {k \in kept : k = Cur \/ \E u \in activeUsers : userDocStates[u] <= k}
        /\ Cur' = Cur
    BY <1>3 DEF PruneDocumentStates, Cur
  <2>2. ASSUME NEW j \in kept', NEW i \in j..Cur PROVE i \in kept'
    <3>1. i \in kept
      BY <2>1 DEF KeptInv
    <3>2. CASE j = Cur
      BY <1>1, <2>1, <3>1, <3>2
    <3>3. CASE j # Cur
      <4>1. PICK u \in activeUsers : userDocStates[u] <= j
        BY <2>1, <3>3
      <4>2. userDocStates[u] <= i
        BY <1>1, <2>1, <4>1
      <4> QED BY <2>1, <3>1, <4>2
    <3> QED BY <3>2, <3>3
  <2> QED BY <2>1, <2>2 DEF KeptInv
<1>4. CASE ~(\E c \in Clients : ApplyClientOperation(c)) /\ ~PruneDocumentStates
  <2>1. log' = log
    BY <1>4, LogUnchanged
  <2>2. kept' = kept
    BY <1>4, KeptUnchanged
  <2> QED BY <2>1, <2>2 DEF KeptInv, Cur
<1> QED BY <1>2, <1>3, <1>4

\* The user of c is asked when the server prunes, and has no other connection.
Alone(c) == User[c] \in activeUsers /\ Others(c) = {}

\* The states that operations of c are made for are there, with all after them.
Served(c) == \A k \in Bases(c) : userDocStates[User[c]] <= k /\ (k+1)..Cur \subseteq kept

\* The part of BaseInv about one client.
Based(c) == c \notin lapsed /\ open[c] => Alone(c) /\ (c \notin disturbed => Served(c))

LEMMA BasesType ==
  ASSUME TypeOK, StreamInv, NEW c \in Clients
  PROVE  /\ Bases(c) \subseteq Nat /\ Cur \in Nat /\ User[c] \in Users
         /\ userDocStates[User[c]] \in 0..Cur
         /\ kept \subseteq 0..Cur
<1>1. \A i \in 1..Len(toServer[c]) : toServer[c][i].state \in Nat
  <2>1. toServer[c] \in Seq(ClientMsg)
    BY DEF TypeOK
  <2>2. \A i \in 1..Len(toServer[c]) : toServer[c][i] \in ClientMsg
    BY <2>1
  <2> QED BY <2>2 DEF ClientMsg
<1>2. Cur \in Nat
  BY DEF TypeOK, Cur
<1>3. /\ lastServerStateId[c] \in Nat /\ User[c] \in Users
      /\ userDocStates[User[c]] \in 0..Cur /\ kept \subseteq 0..Cur
  BY UserAssumption DEF TypeOK
<1>4. status[c] = "joining" /\ c \notin starting => Head(toClient[c]).state \in Nat
  <2> SUFFICES ASSUME status[c] = "joining", c \notin starting
               PROVE  Head(toClient[c]).state \in Nat
    OBVIOUS
  <2>1. PICK k \in 0..Cur : Head(toClient[c]) = SnapshotOf(k)
    BY SnapshotIs
  <2> QED BY <1>2, <2>1 DEF SnapshotOf
<1> QED BY <1>1, <1>2, <1>3, <1>4 DEF Bases

\* A connection that has not lapsed is asked and alone after every step: when its
\* user becomes inactive or opens another one, it lapses.
LEMMA AloneStep ==
  ASSUME SyncInv, BaseInv, [Next]_vars, NEW d \in Clients, d \notin lapsed', open'[d]
  PROVE  /\ Alone(d)'
         /\ open[d] => d \notin lapsed /\ Alone(d)
         /\ ~open[d] => Connect(d)
<1>1. TypeOK /\ (d \notin lapsed /\ open[d] => Alone(d))
  BY DEF SyncInv, BaseInv, Alone
<1>2. CASE \E c \in Clients : Connect(c)
  <2>1. PICK c \in Clients : Connect(c)
    BY <1>2
  <2>2. /\ activeUsers' = activeUsers /\ open' = [open EXCEPT ![c] = TRUE]
        /\ lapsed \subseteq lapsed'
        /\ c \notin lapsed' => User[c] \in activeUsers /\ Others(c) = {}
        /\ \A e \in Others(c) : e \notin lapsed' => Others(c) = {}
    BY <2>1 DEF Connect, serverVars
  <2>3. CASE d = c
    BY <1>1, <2>1, <2>2, <2>3 DEF Alone, Others, TypeOK
  <2>4. CASE d # c
    <3>1. open[d] /\ Alone(d)
      BY <1>1, <2>2, <2>4 DEF TypeOK
    <3>2. User[c] # User[d]
      BY <2>2, <2>4, <3>1 DEF Others
    <3>3. Others(d)' = {}
      BY <1>1, <2>2, <3>1, <3>2 DEF Alone, Others, TypeOK
    <3> QED BY <1>1, <2>2, <3>1, <3>3 DEF Alone
  <2> QED BY <2>3, <2>4
<1>3. CASE \E c \in Clients : HandleClose(c) \/ CheckInactive(c)
  <2>1. PICK c \in Clients : /\ open' = [open EXCEPT ![c] = FALSE]
                             /\ Deactivate(User[c])
    BY <1>3 DEF HandleClose, CheckInactive, EndConnection
  <2>2. open[d] /\ d \notin lapsed /\ User[d] # User[c]
    BY <1>1, <2>1 DEF TypeOK, Deactivate
  <2>3. Others(d)' \subseteq Others(d)
    BY <1>1, <2>1 DEF Others, TypeOK
  <2> QED BY <1>1, <2>1, <2>2, <2>3 DEF Alone, Deactivate
<1>4. CASE \E u \in Users : MarkInactive(u)
  <2>1. PICK u \in Users : open' = open /\ Deactivate(u)
    BY <1>4 DEF MarkInactive
  <2>2. open[d] /\ d \notin lapsed /\ User[d] # u
    BY <2>1 DEF Deactivate
  <2>3. Others(d)' = Others(d)
    BY <2>1 DEF Others
  <2> QED BY <1>1, <2>1, <2>2, <2>3 DEF Alone, Deactivate
<1>5. CASE \E c \in Clients : LoseConnection(c) \/ RejectClientOperation(c)
  <2>1. PICK c \in Clients : /\ open' = [open EXCEPT ![c] = FALSE]
                             /\ lapsed' = lapsed \ {c} /\ activeUsers' = activeUsers
    BY <1>5 DEF LoseConnection, RejectClientOperation, EndConnection, serverVars
  <2>2. open[d] /\ d \notin lapsed
    BY <1>1, <2>1 DEF TypeOK
  <2>3. Others(d)' \subseteq Others(d)
    BY <1>1, <2>1 DEF Others, TypeOK
  <2> QED BY <1>1, <2>1, <2>2, <2>3 DEF Alone
<1>6. CASE open' = open /\ lapsed' = lapsed /\ activeUsers \subseteq activeUsers'
  <2>1. Others(d)' = Others(d)
    BY <1>6 DEF Others
  <2> QED BY <1>1, <1>6, <2>1 DEF Alone
<1>7. \/ open' = open /\ lapsed' = lapsed /\ activeUsers \subseteq activeUsers'
      \/ \E c \in Clients : \/ Connect(c) \/ HandleClose(c) \/ CheckInactive(c)
                            \/ LoseConnection(c) \/ RejectClientOperation(c)
      \/ \E u \in Users : MarkInactive(u)
  BY DEF Next, ServerNext, ClientNext, vars, serverVars, connVars, Join, SendSnapshot,
     ReceiveSnapshot, Leave, Pong, LocalEdit, Edit, RejectEdit, ApplyClientOperation, ReadStateId,
     Broadcast, PruneDocumentStates, ReceiveAck, ReceiveWrongAck, ReceiveRemoteUpdate, Received,
     Panic
<1> QED BY <1>2, <1>3, <1>4, <1>5, <1>6, <1>7

\* The state the server knows of the user of a single connection changes only when
\* that connection has an operation applied.
LEMMA KnownState ==
  ASSUME SyncInv, [Next]_vars, NEW d \in Clients, open[d], Alone(d), ~ApplyClientOperation(d)
  PROVE  userDocStates'[User[d]] = userDocStates[User[d]]
<1>1. TypeOK /\ UserInv /\ User[d] \in users
  BY DEF SyncInv, UserInv
<1>2. ASSUME NEW c \in Clients, ApplyClientOperation(c)
      PROVE  userDocStates'[User[d]] = userDocStates[User[d]]
  <2>1. c # d /\ open[c]
    BY <1>2 DEF ApplyClientOperation, Waiting
  <2>2. User[c] # User[d]
    BY <2>1 DEF Alone, Others
  <2>3. PICK s : userDocStates' = [userDocStates EXCEPT ![User[c]] = s]
    BY <1>2 DEF ApplyClientOperation
  <2> QED BY <1>1, <2>2, <2>3 DEF TypeOK
<1>3. ASSUME NEW c \in Clients, Join(c)
      PROVE  userDocStates'[User[d]] = userDocStates[User[d]]
  BY <1>1, <1>3 DEF Join, AddUser, TypeOK
<1>4. \/ userDocStates' = userDocStates
      \/ \E c \in Clients : ApplyClientOperation(c) \/ Join(c)
  BY DEF Next, ServerNext, ClientNext, vars, serverVars, Connect, SendSnapshot,
     ReceiveSnapshot, Leave, HandleClose, LoseConnection, MarkInactive, CheckInactive, Pong,
     LocalEdit, Edit, RejectEdit, RejectClientOperation, ReadStateId, Broadcast,
     PruneDocumentStates, ReceiveAck, ReceiveWrongAck, ReceiveRemoteUpdate, Received, Panic
<1> QED BY <1>2, <1>3, <1>4

\* A client's operations are made for later and later states, and the state known
\* of its user stays behind.
LEMMA ServedFrame ==
  ASSUME SyncInv, NEW d \in Clients, Served(d), log' = log, kept' = kept,
         userDocStates'[User[d]] = userDocStates[User[d]],
         \A k \in Bases(d)' : k \in Nat /\ \E j \in Bases(d) : j <= k
  PROVE  Served(d)'
<1>1. TypeOK /\ StreamInv
  BY DEF SyncInv
<1>2. /\ Bases(d) \subseteq Nat /\ Cur \in Nat /\ userDocStates[User[d]] \in Nat /\ Cur' = Cur
  BY <1>1, BasesType DEF Cur
<1>3. ASSUME NEW k \in Bases(d)' PROVE userDocStates[User[d]] <= k /\ (k+1)..Cur \subseteq kept
  <2>1. PICK j \in Bases(d) : k \in Nat /\ j <= k
    OBVIOUS
  <2>2. userDocStates[User[d]] <= j /\ (j+1)..Cur \subseteq kept
    BY DEF Served
  <2> QED BY <1>2, <2>1, <2>2
<1> QED BY <1>2, <1>3 DEF Served

\* A step that leaves it nothing new to make an operation for.
LEMMA ServedSame ==
  ASSUME SyncInv, NEW d \in Clients, Served(d), log' = log, kept' = kept,
         userDocStates'[User[d]] = userDocStates[User[d]], Bases(d)' \subseteq Bases(d)
  PROVE  Served(d)'
<1>1. \A k \in Bases(d) : k \in Nat /\ k <= k
  BY BasesType DEF SyncInv
<1> QED BY <1>1, ServedFrame

\* What is sent is made for the last state the client has received.
LEMMA EditBases ==
  ASSUME SyncInv, NEW c \in Clients, Ordered(c), LocalEdit(c)
  PROVE  Bases(c)' \subseteq Bases(c)
<1>1. PICK op \in Edits(document[c]) : Edit(c, op)
  BY DEF LocalEdit
<1>2. TypeOK /\ status[c] = "synced"
  BY DEF SyncInv, LocalEdit
<1>3. PICK m : m = [id |-> <<c, edits[c] + 1>>, op |-> op, state |-> lastServerStateId[c]]
  OBVIOUS
<1>4. toServer'[c] = IF clientBridge[c] = <<>> /\ open[c] THEN Append(toServer[c], m)
                                                          ELSE toServer[c]
  BY <1>1, <1>2, <1>3 DEF Edit, NothingOutstanding, Send, TypeOK
<1>5. clientBridge[c] = <<>> => toServer[c] = <<>>
  BY <1>2, NothingSent DEF Ordered
<1>6. toServer'[c] = <<m>> \/ toServer'[c] = toServer[c]
  <2>1. Append(<<>>, m) = <<m>>
    OBVIOUS
  <2> QED BY <1>4, <1>5, <2>1
<1>7. UNCHANGED <<starting, status, lastServerStateId, toClient>>
  BY <1>1 DEF Edit
<1>8. CASE toServer'[c] = <<m>>
  <2>1. Bases(c)' = {lastServerStateId[c]}
    BY <1>2, <1>3, <1>7, <1>8 DEF Bases
  <2> QED BY <1>2, <2>1 DEF Bases
<1>9. CASE toServer'[c] = toServer[c]
  BY <1>7, <1>9 DEF Bases
<1> QED BY <1>6, <1>8, <1>9

\* After an acknowledgement, for the state that came with it.
LEMMA AckBases ==
  ASSUME SyncInv, NEW c \in Clients, Ordered(c), ReceiveAck(c), c \notin disturbed
  PROVE  \A k \in Bases(c)' : k \in Nat /\ \E j \in Bases(c) : j <= k
<1>1. ToReceive(c) /\ IsAck(c) /\ Received(c) /\ status' = status
  BY DEF ReceiveAck
<1>2. /\ TypeOK /\ status[c] = "synced" /\ lastServerStateId[c] \in Nat
      /\ 1 \in OwnUpdates(c) /\ Update(c).state = lastServerStateId[c] + 1
  BY <1>1, Arrival, UpdateIs DEF SyncInv, UpdateOf, Undisturbed
<1>3. toServer[c] = <<>>
  BY <1>2 DEF Ordered, FlightInv
<1>4. lastServerStateId'[c] = lastServerStateId[c] + 1
  BY <1>1, <1>2 DEF Received, TypeOK
<1>5. \/ toServer' = toServer
      \/ \E id, op : Send(c, id, op, lastServerStateId[c] + 1)
  BY <1>2 DEF ReceiveAck
<1>6. \A i \in 1..Len(toServer'[c]) : toServer'[c][i].state = lastServerStateId[c] + 1
  <2>1. CASE toServer'[c] = <<>>
    BY <2>1
  <2>2. CASE toServer'[c] # <<>>
    <3>1. PICK m : toServer'[c] = Append(<<>>, m) /\ m.state = lastServerStateId[c] + 1
      BY <1>2, <1>3, <1>5, <2>2 DEF Send, TypeOK
    <3>2. Append(<<>>, m) = <<m>>
      OBVIOUS
    <3> QED BY <3>1, <3>2
  <2> QED BY <2>1, <2>2
<1>7. Bases(c)' = {lastServerStateId[c] + 1}
  BY <1>1, <1>2, <1>4, <1>6 DEF Bases
<1>8. lastServerStateId[c] \in Bases(c) /\ lastServerStateId[c] <= lastServerStateId[c] + 1
  BY <1>2 DEF Bases
<1> QED BY <1>2, <1>7, <1>8

LEMMA RemoteBases ==
  ASSUME SyncInv, NEW c \in Clients, ReceiveRemoteUpdate(c), c \notin disturbed
  PROVE  \A k \in Bases(c)' : k \in Nat /\ \E j \in Bases(c) : j <= k
<1>1. ToReceive(c)
  BY DEF ReceiveRemoteUpdate
<1>2. /\ TypeOK /\ StreamInv /\ status[c] = "synced" /\ lastServerStateId[c] \in Nat
      /\ Update(c).state = lastServerStateId[c] + 1
  <2>1. TypeOK /\ StreamInv /\ DownInv /\ Undisturbed(c) /\ status[c] = "synced"
    BY <1>1 DEF SyncInv, Undisturbed, ToReceive
  <2>2. Update(c).state = lastServerStateId[c] + 1
    BY <1>1, <2>1, UpdateIs DEF UpdateOf
  <2> QED BY <2>1, <2>2 DEF TypeOK
<1>3. \A k \in Bases(c) : k \in Nat /\ k <= k
  BY <1>2, BasesType
<1>4. CASE Panic(c)
  <2>1. UNCHANGED connVars /\ status'[c] = "panicked"
    BY <1>2, <1>4 DEF Panic, TypeOK
  <2>2. Bases(c)' \subseteq Bases(c)
    BY <2>1 DEF Bases, connVars
  <2> QED BY <1>3, <2>2
<1>5. CASE ~Panic(c)
  <2>1. /\ UNCHANGED <<starting, toServer, status>>
        /\ lastServerStateId'[c] = lastServerStateId[c] + 1
    BY <1>2, <1>5 DEF ReceiveRemoteUpdate, Received, TypeOK
  <2>2. Bases(c)' \subseteq Bases(c) \cup {lastServerStateId[c] + 1}
    BY <1>2, <2>1 DEF Bases
  <2>3. lastServerStateId[c] \in Bases(c) /\ lastServerStateId[c] <= lastServerStateId[c] + 1
    BY <1>2 DEF Bases
  <2> QED BY <1>2, <1>3, <2>2, <2>3
<1> QED BY <1>4, <1>5

\* An applied operation was made for a state its client has not gone back from.
LEMMA ApplyServed ==
  ASSUME SyncInv, OrderInv, [Next]_vars, NEW c \in Clients, ApplyClientOperation(c),
         NEW d \in Clients, open[d], Alone(d), d \notin disturbed, Served(d)
  PROVE  Served(d)'
<1>1. TypeOK /\ StreamInv /\ SentInv(c) /\ SentInv(d)
  BY DEF SyncInv, OrderInv
<1>2. PICK m : m = Head(toServer[c])
  OBVIOUS
<1>3. /\ m \in ClientMsg /\ status[c] \notin {"opening", "joining"}
      /\ Cur \in Nat /\ Cur' = Cur + 1 /\ toServer[c] # <<>>
      /\ toServer'[c] = <<>>
      /\ d # c => toServer'[d] = toServer[d]
      /\ UNCHANGED <<starting, toClient, clientVars>>
  BY <1>1, <1>2, Accepting
<1>4. kept' = kept \cup {Cur + 1} /\ userDocStates' = [userDocStates EXCEPT ![User[c]] = m.state]
  BY <1>2 DEF ApplyClientOperation
<1>5. Bases(d) \subseteq Nat /\ userDocStates[User[d]] \in Nat /\ User[d] \in Users
  BY <1>1, BasesType
<1>6. \A k \in Nat : (k+1)..Cur \subseteq kept => (k+1)..(Cur+1) \subseteq kept'
  BY <1>3, <1>4
<1>7. Bases(d)' \subseteq Bases(d)
  BY <1>3 DEF Bases, clientVars
<1>8. ASSUME NEW k \in Bases(d)', userDocStates[User[d]] <= k
      PROVE  userDocStates'[User[d]] <= k
  <2>1. CASE d = c
    <3>1. status[c] = "synced" /\ k = lastServerStateId[c]
      BY <1>3, <1>8, <2>1 DEF Bases, clientVars
    <3>2. m.state <= lastServerStateId[c]
      BY <1>1, <1>2, <1>3, <2>1, <3>1 DEF SentInv, Undisturbed
    <3> QED BY <1>1, <1>4, <1>5, <2>1, <3>1, <3>2 DEF TypeOK
  <2>2. CASE d # c
    <3>1. User[c] # User[d] /\ open[c]
      BY <2>2 DEF ApplyClientOperation, Waiting, Alone, Others
    <3> QED BY <1>1, <1>4, <1>8, <3>1 DEF TypeOK
  <2> QED BY <2>1, <2>2
<1> QED BY <1>3, <1>5, <1>6, <1>7, <1>8 DEF Served

\* Pruning keeps every state after one that an active user is known to have.
LEMMA PruneServed ==
  ASSUME SyncInv, NEW d \in Clients, Alone(d), Served(d), PruneDocumentStates
  PROVE  Served(d)'
<1>1. Bases(d) \subseteq Nat /\ Cur \in Nat /\ userDocStates[User[d]] \in Nat
  BY BasesType DEF SyncInv
<1>2. /\ kept' = {k \in kept : k = Cur \/ \E u \in activeUsers : userDocStates[u] <= k}
      /\ Cur' = Cur /\ UNCHANGED <<userDocStates, connVars, clientVars>>
  BY DEF PruneDocumentStates, Cur
<1>3. Bases(d)' = Bases(d)
  BY <1>2 DEF Bases, connVars, clientVars
<1>4. User[d] \in activeUsers
  BY DEF Alone
<1> SUFFICES ASSUME NEW k \in Bases(d)
             PROVE  userDocStates[User[d]] <= k /\ (k+1)..Cur \subseteq kept'
  BY <1>2, <1>3 DEF Served
<1>5. userDocStates[User[d]] <= k /\ (k+1)..Cur \subseteq kept
  BY DEF Served
<1>6. ASSUME NEW i \in (k+1)..Cur PROVE i \in kept /\ userDocStates[User[d]] <= i
  BY <1>1, <1>5
<1> QED BY <1>2, <1>4, <1>5, <1>6

\* The state of a client's next operation stays available through every step of
\* its own.
LEMMA OwnServed ==
  ASSUME SyncInv, NEW c \in Clients, Ordered(c), Own(c), ~Connect(c), [Next]_vars,
         open[c], open'[c], Alone(c), c \notin disturbed', c \notin disturbed => Served(c)
  PROVE  Served(c)'
<1>1. TypeOK /\ StreamInv
  BY DEF SyncInv
<1>2. c \notin disturbed
  BY DEF Own, HandleClose, LoseConnection, CheckInactive, RejectClientOperation, Join, SendSnapshot,
     ReceiveSnapshot, Leave, LocalEdit, Edit, RejectEdit, ReadStateId, ReceiveAck, ReceiveWrongAck,
     ReceiveRemoteUpdate, Received, Panic, connVars
<1>3. ~ApplyClientOperation(c) /\ log' = log /\ kept' = kept
  <2>1. log' = log /\ kept' = kept
    BY DEF Own, HandleClose, LoseConnection, CheckInactive, RejectClientOperation, Join,
       SendSnapshot, ReceiveSnapshot, Leave, LocalEdit, Edit, RejectEdit, ReadStateId, ReceiveAck,
       ReceiveWrongAck, ReceiveRemoteUpdate, Received, Panic, serverVars
  <2>2. ApplyClientOperation(c) => Cur' = Cur + 1 /\ Cur \in Nat
    BY ApplyFacts
  <2> QED BY <2>1, <2>2 DEF Cur
<1>4. userDocStates'[User[c]] = userDocStates[User[c]]
  BY <1>3, KnownState
<1>5. CASE HandleClose(c) \/ LoseConnection(c) \/ CheckInactive(c) \/ RejectClientOperation(c)
           \/ Join(c)
  BY <1>1, <1>5 DEF HandleClose, LoseConnection, CheckInactive, RejectClientOperation,
     EndConnection, Join, TypeOK
<1>6. CASE \/ ReceiveSnapshot(c) \/ Leave(c) \/ RejectEdit(c) \/ ReceiveWrongAck(c)
           \/ ReadStateId(c)
  <2>1. /\ toServer' = toServer
        /\ \/ status'[c] \notin {"joining", "synced"}
           \/ /\ status[c] = "joining" /\ c \notin starting /\ status'[c] = "synced"
              /\ lastServerStateId'[c] = Head(toClient[c]).state
           \/ UNCHANGED <<status, starting, toClient, lastServerStateId>>
    BY <1>1, <1>6 DEF ReceiveSnapshot, Leave, RejectEdit, ReceiveWrongAck, ReadStateId, Panic,
       connVars, clientVars, TypeOK
  <2>2. Bases(c)' \subseteq Bases(c)
    BY <2>1 DEF Bases
  <2> QED BY <1>2, <1>3, <1>4, <2>2, ServedSame
<1>7. CASE SendSnapshot(c)
  <2>1. CASE status[c] = "joining"
    <3>1. toServer[c] = <<>> /\ Cur \in Nat /\ userDocStates[User[c]] \in 0..Cur
      BY <1>1, <2>1, NothingSent, BasesType DEF Ordered
    <3>2. PICK snap : snap = [kind |-> "Snapshot", document |-> DocAt(Cur), state |-> Cur]
      OBVIOUS
    <3>3. toClient'[c] = <<snap>> \o toClient[c] /\ toClient[c] \in Seq(ServerMsg)
      BY <1>1, <1>7, <2>1, <3>2 DEF SendSnapshot, TypeOK
    <3>4. Head(toClient'[c]) = snap
      BY <3>3
    <3>5. toServer' = toServer /\ status' = status /\ Cur' = Cur /\ starting' = starting \ {c}
      BY <1>3, <1>7 DEF SendSnapshot, clientVars, Cur
    <3>6. Bases(c)' = {Cur}
      BY <2>1, <3>1, <3>2, <3>4, <3>5 DEF Bases
    <3> QED BY <1>4, <3>1, <3>5, <3>6 DEF Served
  <2>2. CASE status[c] # "joining"
    <3>1. Bases(c)' = Bases(c)
      BY <1>7, <2>2 DEF SendSnapshot, Bases, clientVars
    <3> QED BY <1>2, <1>3, <1>4, <3>1, ServedSame
  <2> QED BY <2>1, <2>2
<1>8. CASE LocalEdit(c)
  BY <1>2, <1>3, <1>4, <1>8, EditBases, ServedSame
<1>9. CASE ReceiveAck(c)
  BY <1>2, <1>3, <1>4, <1>9, AckBases, ServedFrame
<1>10. CASE ReceiveRemoteUpdate(c)
  BY <1>2, <1>3, <1>4, <1>10, RemoteBases, ServedFrame
<1> QED BY <1>5, <1>6, <1>7, <1>8, <1>9, <1>10 DEF Own

\* And through every other step.
LEMMA BaseStep == SyncInv /\ OrderInv /\ BaseInv /\ [Next]_vars => BaseInv'
<1> SUFFICES ASSUME SyncInv, OrderInv, BaseInv, [Next]_vars, NEW d \in Clients,
                    d \notin lapsed', open'[d]
             PROVE  Alone(d)' /\ (d \notin disturbed' => Served(d)')
  BY DEF BaseInv, Alone, Served
<1>1. /\ Alone(d)'
      /\ open[d] => d \notin lapsed /\ Alone(d)
      /\ ~open[d] => Connect(d)
  BY AloneStep
<1> SUFFICES ASSUME d \notin disturbed' PROVE Served(d)'
  BY <1>1
<1>2. TypeOK /\ StreamInv /\ Ordered(d)
  BY DEF SyncInv, OrderInv, Ordered
<1>3. CASE Connect(d)
  <2>1. status[d] = "opening"
    BY <1>3 DEF Connect
  <2>2. toServer[d] = <<>>
    BY <1>2, <2>1, NothingSent DEF Ordered
  <2>3. toServer'[d] = <<>> /\ status'[d] = "joining" /\ d \in starting'
    BY <1>2, <1>3, <2>2 DEF Connect, TypeOK
  <2>4. Bases(d)' = {}
    BY <2>3 DEF Bases
  <2> QED BY <2>4 DEF Served
<1> SUFFICES ASSUME ~Connect(d) PROVE Served(d)'
  BY <1>3
<1>4. open[d] /\ Alone(d) /\ d \notin lapsed /\ (d \notin disturbed => Served(d))
  BY <1>1 DEF BaseInv, Served
<1>5. CASE Quiet \/ UNCHANGED vars
  <2>1. CASE PruneDocumentStates
    BY <1>4, <2>1, PruneServed DEF PruneDocumentStates, connVars
  <2>2. CASE ~PruneDocumentStates
    <3>1. log' = log /\ UNCHANGED <<starting, toServer, toClient, disturbed, clientVars>>
      BY <1>5, QuietFrame
    <3>2. kept' = kept /\ userDocStates' = userDocStates
      BY <1>5, <2>2 DEF Quiet, MarkInactive, Pong, vars, serverVars
    <3>3. Bases(d)' = Bases(d)
      BY <3>1 DEF Bases, clientVars
    <3> QED BY <1>4, <3>1, <3>2, <3>3, ServedSame
  <2> QED BY <2>1, <2>2
<1>6. ASSUME NEW c \in Clients, Own(c) PROVE Served(d)'
  <2>1. CASE d = c
    BY <1>2, <1>4, <1>6, <2>1, OwnServed
  <2>2. CASE d # c
    <3>1. log' = log /\ StillReceives(d)
      BY <1>2, <1>6, <2>2, OwnFrame
    <3>2. Bases(d)' = Bases(d) /\ d \notin disturbed
      BY <3>1 DEF Bases, StillReceives, Still
    <3>3. ~(\E e \in Clients : ApplyClientOperation(e)) /\ kept' = kept
      <4>1. Own(c) => kept' = kept
        BY DEF Own, HandleClose, LoseConnection, CheckInactive, RejectClientOperation, Join,
           Connect, SendSnapshot, ReceiveSnapshot, Leave, LocalEdit, Edit, RejectEdit,
           ReadStateId, ReceiveAck, ReceiveWrongAck, ReceiveRemoteUpdate, Received, Panic,
           serverVars
      <4>2. ASSUME NEW e \in Clients, ApplyClientOperation(e) PROVE FALSE
        BY <3>1, <4>2, ApplyFacts DEF Cur
      <4> QED BY <1>6, <4>1, <4>2
    <3>4. userDocStates'[User[d]] = userDocStates[User[d]]
      BY <1>4, <3>3, KnownState
    <3> QED BY <1>4, <3>1, <3>2, <3>3, <3>4, ServedSame
  <2> QED BY <2>1, <2>2
<1>7. ASSUME NEW c \in Clients, ApplyClientOperation(c) PROVE Served(d)'
  <2>1. d \notin disturbed
    BY <1>7 DEF ApplyClientOperation
  <2> QED BY <1>4, <1>7, <2>1, ApplyServed
<1>8. ASSUME NEW c \in Clients, Broadcast(c) PROVE Served(d)'
  <2>1. /\ log' = log /\ UNCHANGED <<kept, userDocStates, starting, toServer, disturbed, clientVars>>
        /\ toClient'[d] = IF Listening(d) THEN Append(toClient[d], applied[c][1]) ELSE toClient[d]
    BY <1>8 DEF Broadcast, serverVars
  <2>2. status[d] = "joining" /\ d \notin starting => Head(toClient'[d]) = Head(toClient[d])
    <3>1. status[d] = "joining" /\ d \notin starting => toClient[d] # <<>>
      BY <1>2, SnapshotIs
    <3>2. toClient[d] \in Seq(ServerMsg)
      BY <1>2 DEF TypeOK
    <3>3. ASSUME toClient[d] # <<>>, NEW x PROVE Head(Append(toClient[d], x)) = Head(toClient[d])
      BY <3>2, <3>3, AppendProperties
    <3> QED BY <2>1, <3>1, <3>3
  <2>3. Bases(d)' = Bases(d)
    BY <2>1, <2>2 DEF Bases, clientVars
  <2> QED BY <1>4, <2>1, <2>3, ServedSame
<1> QED BY <1>5, <1>6, <1>7, <1>8, NextCases

-----------------------------------------------------------------------------
(* Theorems                                                                *)

\* Nothing has been edited, and the one state of the history is kept.
LEMMA InitIInv == Init => IInv
<1> SUFFICES ASSUME Init PROVE IInv
  OBVIOUS
<1>1. Cur = 0
  BY DEF Init, Cur
<1>2. LogIdInv /\ KeptInv
  BY <1>1 DEF Init, LogIdInv, KeptInv
<1>3. \A c \in Clients : SentInv(c) /\ OwnInv(c) /\ AcceptedInv(c) /\ FlightInv(c)
  BY <1>1 DEF Init, SentInv, OwnInv, AcceptedInv, FlightInv
<1>4. BaseInv
  BY DEF Init, BaseInv
<1> QED BY <1>2, <1>3, <1>4, InitSyncInv DEF IInv, OrderInv

\* Every reachable state satisfies the inductive invariant.  Whatever overlaps,
\* edits are sent one at a time and accepted once, in order; and the states they
\* are made for are kept as long as the user is active, has one connection and
\* the client has not been disturbed.
THEOREM OrderInvariance == Spec => []IInv
<1>1. Init => IInv
  BY InitIInv
<1>2. IInv /\ SyncInv' /\ [Next]_vars => IInv'
  BY OrderStep, KeptStep, BaseStep DEF IInv
<1>3. IInv => SyncInv
  BY DEF IInv
<1> QED BY <1>1, <1>2, <1>3, Invariance, PTL DEF Spec

\* One operation of a client is under way at a time, and it is the first of its
\* bridge, even if broadcasts overlap: try_ack_client_op never meets the
\* acknowledgement of another one.
THEOREM OneOutstanding == Spec => []SingleOutstanding
<1>1. IInv => SingleOutstanding
  <2> SUFFICES ASSUME IInv, NEW c \in Clients, status[c] = "synced"
               PROVE  LET bridge == clientBridge[c]
                          sent   == toServer[c]
                          back   == {i \in 1..Len(toClient[c]) : toClient[c][i].id[1] = c}
                      IN  /\ \A i \in 1..Len(bridge) : bridge[i].state = "Pending" <=> i = 1
                          /\ Len(sent) + Len(applied[c]) + Cardinality(back) <= 1
                          /\ \A i \in 1..Len(sent) : bridge # <<>> /\ sent[i].id = bridge[1].id
                          /\ applied[c] # <<>> => bridge # <<>> /\ applied[c][1].id = bridge[1].id
                          /\ \A i \in back : bridge # <<>> /\ toClient[c][i].id = bridge[1].id
                          /\ open[c] /\ bridge # <<>> =>
                               sent # <<>> \/ applied[c] # <<>> \/ back # {}
    BY Zenon DEF SingleOutstanding
  <2> DEFINE bridge == clientBridge[c]
             sent   == toServer[c]
             back   == {i \in 1..Len(toClient[c]) : toClient[c][i].id[1] = c}
  <2>1. TypeOK /\ StreamInv /\ SentInv(c) /\ FlightInv(c)
    BY DEF IInv, SyncInv, OrderInv
  <2>2. /\ sent \in Seq(ClientMsg) /\ Len(sent) \in Nat /\ Len(applied[c]) \in Nat
        /\ applied[c] \in Seq(UpdateMsg)
    BY <2>1 DEF TypeOK
  <2>3. back = OwnUpdates(c)
    <3>1. \A i \in 1..Len(toClient[c]) : toClient[c][i] \in UpdateMsg
      BY <2>1 DEF StreamInv, Streams
    <3> QED BY <3>1 DEF OwnUpdates
  <2>4. /\ Len(sent) <= 1 /\ Len(applied[c]) <= 1
        /\ sent = <<>> => Len(sent) = 0
        /\ applied[c] = <<>> => Len(applied[c]) = 0
    <3>1. applied[c] # <<>> => Len(applied[c]) = 1
      BY <2>1 DEF StreamInv, TaskInv
    <3>2. applied[c] = <<>> => Len(applied[c]) = 0
      OBVIOUS
    <3>3. Len(sent) <= 1 /\ (sent = <<>> => Len(sent) = 0)
      BY <2>1 DEF SentInv
    <3>4. Len(applied[c]) <= 1
      <4>1. CASE applied[c] = <<>>
        BY <3>2, <4>1
      <4>2. CASE applied[c] # <<>>
        <5>1. Len(applied[c]) = 1
          BY <3>1, <4>2
        <5> QED BY <5>1
      <4> QED BY <4>1, <4>2
    <3> QED BY <3>2, <3>3, <3>4
  <2>5. /\ Cardinality(back) = 0 \/ Cardinality(back) = 1
        /\ back = {} => Cardinality(back) = 0
    <3> HIDE DEF back
    <3>1. CASE back = {}
      <4>1. Cardinality(back) = 0
        BY <3>1, FS_EmptySet
      <4> QED BY <4>1
    <3>2. CASE back # {}
      <4>1. PICK i : i \in back
        BY <3>2
      <4>2. back = {i}
        BY <2>1, <2>3, <4>1 DEF FlightInv
      <4>3. Cardinality(back) = 1
        BY <4>2, FS_Singleton
      <4> QED BY <3>2, <4>3
    <3> QED BY <3>1, <3>2
  <2>6. /\ sent # <<>> => applied[c] = <<>> /\ back = {}
        /\ applied[c] # <<>> => back = {} /\ sent = <<>>
        /\ back # {} => sent = <<>> /\ applied[c] = <<>>
    BY <2>1, <2>3 DEF FlightInv
  <2>7. Len(sent) + Len(applied[c]) + Cardinality(back) <= 1
    <3>1. CASE sent # <<>>
      <4>1. Len(applied[c]) = 0 /\ Cardinality(back) = 0
        BY <2>4, <2>5, <2>6, <3>1
      <4> QED BY <2>2, <2>4, <4>1
    <3>2. CASE applied[c] # <<>>
      <4>1. Len(sent) = 0 /\ Cardinality(back) = 0
        BY <2>4, <2>5, <2>6, <3>2
      <4> QED BY <2>2, <2>4, <4>1
    <3>3. CASE sent = <<>> /\ applied[c] = <<>>
      <4>1. Len(sent) = 0 /\ Len(applied[c]) = 0
        BY <2>4, <3>3
      <4> QED BY <2>5, <4>1
    <3> QED BY <3>1, <3>2, <3>3
  <2>8. \A i \in 1..Len(sent) : bridge # <<>> /\ sent[i].id = bridge[1].id
    BY <2>1, <2>2 DEF SentInv
  <2> QED BY <2>1, <2>3, <2>7, <2>8 DEF FlightInv
<1> QED BY <1>1, OrderInvariance, PTL

\* At rest everybody agrees: when nothing is under way to or from a connected
\* client, and no task has an update to broadcast, a client that nothing has
\* disturbed has no edit left and shows the server's document.  Who waits for an
\* acknowledgement does not wait for nothing.
THEOREM RestAgrees == Spec => []AgreesAtRest
<1>1. IInv /\ SingleOutstanding => AgreesAtRest
  <2> SUFFICES ASSUME IInv, SingleOutstanding, Late = {},
                      NEW c \in Clients, open[c], Undisturbed(c),
                      toServer[c] = <<>>, toClient[c] = <<>>
               PROVE  clientBridge[c] = <<>> /\ document[c] = DocAt(Cur)
    BY DEF AgreesAtRest
  <2>1. status[c] = "synced" /\ c \notin disturbed
    BY DEF Undisturbed
  <2>2. clientBridge[c] = <<>>
    <3>1. applied[c] = <<>>
      BY DEF Late
    <3>2. {i \in 1..Len(toClient[c]) : toClient[c][i].id[1] = c} = {}
      OBVIOUS
    <3> QED BY <2>1, <3>1, <3>2 DEF SingleOutstanding
  <2>3. lastServerStateId[c] = Cur
    <3>1. c \notin starting
      BY <2>1 DEF IInv, SyncInv, StreamInv, TaskInv
    <3>2. AllSent(c)
      BY <2>1, <3>1 DEF IInv, SyncInv, DownInv, Attending, InOrder
    <3>3. Seen(c) = lastServerStateId[c] /\ lastServerStateId[c] \in Nat
      BY <2>1 DEF IInv, SyncInv, TypeOK, Seen
    <3>4. Len(toClient[c]) = 0
      OBVIOUS
    <3>5. ~ \E d \in Clients : Late = {d}
      OBVIOUS
    <3>6. Seen(c) + Len(toClient[c]) = Cur
      BY <3>2, <3>5 DEF AllSent
    <3> QED BY <3>3, <3>4, <3>6
  <2>4. Leads(DocAt(Cur), clientBridge[c], document[c])
    BY <2>3 DEF IInv, SyncInv, BridgeInv
  <2>5. document[c] = DocAt(Cur)
    <3>1. clientBridge[c] \in Seq(ClientOp)
      BY DEF IInv, SyncInv, TypeOK
    <3>2. Leads(DocAt(Cur), clientBridge[c], DocAt(Cur))
      BY <2>2, <3>1, EmptyBridge
    <3> QED BY <2>4, <3>2 DEF Leads
  <2> QED BY <2>2, <2>5
<1> QED BY <1>1, OrderInvariance, OneOutstanding, PTL

\* A set of natural numbers has a least element.
LEMMA Least ==
  ASSUME NEW S, S \subseteq Nat, S # {}
  PROVE  \E n \in S : \A m \in S : n <= m
<1> DEFINE R == OpToRel(<, Nat)
<1>1. \A x, y \in Nat : <<x, y>> \in R <=> x < y
  BY DEF OpToRel
<1>2. IsWellFoundedOn(R, Nat)
  BY NatLessThanWellFounded
<1> HIDE DEF R
<1>3. PICK n \in S : \A m \in S : ~(<<m, n>> \in R)
  BY <1>2, WFMin
<1>4. \A m \in S : ~(m < n)
  BY <1>1, <1>3
<1> QED BY <1>4

\* What apply_client_operation composes and transforms with is there, for a client
\* that nothing has disturbed and whose user has been active, with no other
\* connection, since this one opened: pruning never takes a state after the one an
\* operation on its way was made for.
THEOREM BaseKept == Spec => []BaseAvailable
<1>1. IInv => BaseAvailable
  <2> SUFFICES ASSUME IInv PROVE BaseAvailable
    OBVIOUS
  <2>1. TypeOK /\ KeptInv /\ kept \subseteq 0..Cur /\ Cur \in Nat
    <3>1. TypeOK /\ KeptInv
      BY DEF IInv, SyncInv
    <3> QED BY <3>1 DEF TypeOK, Cur
  <2>2. \E oldest \in 0..Cur : kept = oldest..Cur
    <3>0. kept # {} /\ kept \subseteq Nat
      BY <2>1 DEF KeptInv
    <3>1. PICK oldest \in kept : \A k \in kept : oldest <= k
      BY <3>0, Least
    <3>2. \A k \in kept : k \in oldest..Cur
      BY <2>1, <3>1
    <3>3. kept = oldest..Cur
      BY <2>1, <3>2 DEF KeptInv
    <3> QED BY <2>1, <3>3
  <2>3. ASSUME NEW c \in Clients \ (lapsed \cup disturbed), open[c], NEW i \in 1..Len(toServer[c])
        PROVE  /\ toServer[c][i].state <= Cur
               /\ (toServer[c][i].state + 1)..Cur \subseteq kept
    <3>1. toServer[c][i].state \in Bases(c)
      BY DEF Bases
    <3>2. (toServer[c][i].state + 1)..Cur \subseteq kept
      BY <2>3, <3>1 DEF IInv, BaseInv
    <3>3. toServer[c] \in Seq(ClientMsg) /\ Len(toServer[c]) <= 1 /\ SentInv(c)
      BY <2>1 DEF IInv, OrderInv, SentInv, TypeOK
    <3>4. i = 1 /\ toServer[c] # <<>> /\ toServer[c][1] = Head(toServer[c])
      BY <3>3
    <3>5. toServer[c][i].state <= Cur
      BY <3>3, <3>4 DEF SentInv
    <3> QED BY <3>2, <3>5
  <2> QED BY <2>2, <2>3 DEF BaseAvailable
<1> QED BY <1>1, OrderInvariance, PTL

-----------------------------------------------------------------------------
(* The refinement of SharedLog                                             *)

\* A sequence that is neither empty nor longer has one element.
LEMMA SingleElement ==
  ASSUME NEW S, NEW s \in Seq(S), s # <<>>, Len(s) <= 1
  PROVE  Len(s) = 1 /\ Tail(s) = <<>>
<1>1. Len(s) \in Nat /\ Len(s) # 0
  OBVIOUS
<1>2. Len(s) = 1
  BY <1>1
<1>3. PICK t : t = Tail(s)
  OBVIOUS
<1>4. t \in Seq(S) /\ Len(t) = Len(s) - 1
  BY <1>3, HeadTailProperties
<1>5. t = <<>>
  BY <1>2, <1>4
<1> QED BY <1>2, <1>3, <1>5

\* The ids of a sequence of entries, one more of them, and all but the first.
LEMMA IdsType ==
  ASSUME NEW S, \A x \in S : x.id \in Id, NEW s \in Seq(S)
  PROVE  /\ Ids(s) \in Seq(Id) /\ Len(Ids(s)) = Len(s)
         /\ \A i \in 1..Len(s) : Ids(s)[i] = s[i].id
         /\ Ids(s) = <<>> <=> s = <<>>
<1>1. Len(s) \in Nat /\ \A i \in 1..Len(s) : s[i].id \in Id
  OBVIOUS
<1> QED BY <1>1 DEF Ids

LEMMA IdsAppend ==
  ASSUME NEW S, \A x \in S : x.id \in Id, NEW s \in Seq(S), NEW x \in S
  PROVE  Ids(Append(s, x)) = Append(Ids(s), x.id)
<1>1. Append(s, x) \in Seq(S) /\ Len(Append(s, x)) = Len(s) + 1 /\ Len(s) \in Nat
  OBVIOUS
<1>2. /\ Ids(Append(s, x)) \in Seq(Id) /\ Len(Ids(Append(s, x))) = Len(s) + 1
      /\ \A i \in 1..(Len(s) + 1) : Ids(Append(s, x))[i] = Append(s, x)[i].id
  BY <1>1, IdsType
<1>3. /\ Ids(s) \in Seq(Id) /\ Len(Ids(s)) = Len(s)
      /\ \A i \in 1..Len(s) : Ids(s)[i] = s[i].id
  BY IdsType
<1>4. ASSUME NEW i \in 1..(Len(s) + 1)
      PROVE  Ids(Append(s, x))[i] = Append(Ids(s), x.id)[i]
  <2>1. CASE i = Len(s) + 1
    BY <1>1, <1>2, <1>3, <2>1
  <2>2. CASE i \in 1..Len(s)
    BY <1>1, <1>2, <1>3, <2>2
  <2>3. i = Len(s) + 1 \/ i \in 1..Len(s)
    BY <1>1
  <2> QED BY <2>1, <2>2, <2>3
<1>5. Append(Ids(s), x.id) \in Seq(Id) /\ Len(Append(Ids(s), x.id)) = Len(s) + 1
  BY <1>3
<1> QED BY <1>2, <1>4, <1>5, SeqEqual

LEMMA IdsTail ==
  ASSUME NEW S, \A x \in S : x.id \in Id, NEW s \in Seq(S), s # <<>>
  PROVE  Ids(Tail(s)) = Tail(Ids(s))
<1>1. Tail(s) \in Seq(S) /\ Len(Tail(s)) = Len(s) - 1 /\ Len(s) \in Nat /\ Len(s) >= 1
  OBVIOUS
<1>2. /\ Ids(Tail(s)) \in Seq(Id) /\ Len(Ids(Tail(s))) = Len(s) - 1
      /\ \A i \in 1..(Len(s) - 1) : Ids(Tail(s))[i] = Tail(s)[i].id
  BY <1>1, IdsType
<1>3. /\ Ids(s) \in Seq(Id) /\ Len(Ids(s)) = Len(s) /\ Ids(s) # <<>>
      /\ \A i \in 1..Len(s) : Ids(s)[i] = s[i].id
  BY IdsType
<1>4. Tail(Ids(s)) \in Seq(Id) /\ Len(Tail(Ids(s))) = Len(s) - 1
  BY <1>3
<1>5. ASSUME NEW i \in 1..(Len(s) - 1) PROVE Ids(Tail(s))[i] = Tail(Ids(s))[i]
  BY <1>1, <1>2, <1>3
<1> QED BY <1>2, <1>4, <1>5, SeqEqual

\* Every sequence that has ids has ids of clients.
LEMMA EntriesHaveIds ==
  /\ \A x \in LogEntry : x.id \in Id
  /\ \A x \in ClientMsg : x.id \in Id
  /\ \A x \in ClientOp : x.id \in Id
BY DEF LogEntry, ClientMsg, ClientOp

\* What a client owes is counted from what it shows, or has left behind.
Source(c) == Ids(IF status[c] = "absent" THEN toServer[c] ELSE clientBridge[c])

\* The position of the refinement mapping: who does not read, or has been
\* disturbed, has none.
Position(c) == IF status[c] \in {"absent", "opening", "joining"} \/ c \in disturbed
               THEN -1 ELSE lastServerStateId[c]

LEMMA OwedIs ==
  ASSUME NEW c \in Clients
  PROVE  /\ Owed(c) = IF Source(c) # <<>> /\ Accepted(Source(c)[1]) THEN Tail(Source(c))
                                                                   ELSE Source(c)
         /\ Owed(c)' = IF Source(c)' # <<>> /\ Accepted(Source(c)[1])' THEN Tail(Source(c)')
                                                                      ELSE Source(c)'
BY DEF Owed, Source

LEMMA SourceType ==
  ASSUME TypeOK, NEW c \in Clients
  PROVE  /\ Source(c) \in Seq(Id)
         /\ status[c] = "absent" => Source(c) = Ids(toServer[c])
         /\ status[c] # "absent" => Source(c) = Ids(clientBridge[c])
         /\ Ids(toServer[c]) = <<>> <=> toServer[c] = <<>>
         /\ Ids(clientBridge[c]) = <<>> <=> clientBridge[c] = <<>>
         /\ toServer[c] # <<>> => Ids(toServer[c])[1] = Head(toServer[c]).id
         /\ clientBridge[c] # <<>> => Ids(clientBridge[c])[1] = clientBridge[c][1].id
         /\ Len(Ids(toServer[c])) = Len(toServer[c])
<1>1. toServer[c] \in Seq(ClientMsg) /\ clientBridge[c] \in Seq(ClientOp)
  BY DEF TypeOK
<1>2. /\ Ids(toServer[c]) \in Seq(Id) /\ Len(Ids(toServer[c])) = Len(toServer[c])
      /\ \A i \in 1..Len(toServer[c]) : Ids(toServer[c])[i] = toServer[c][i].id
      /\ Ids(toServer[c]) = <<>> <=> toServer[c] = <<>>
  BY <1>1, IdsType, EntriesHaveIds
<1>3. /\ Ids(clientBridge[c]) \in Seq(Id)
      /\ \A i \in 1..Len(clientBridge[c]) : Ids(clientBridge[c])[i] = clientBridge[c][i].id
      /\ Ids(clientBridge[c]) = <<>> <=> clientBridge[c] = <<>>
  BY <1>1, IdsType, EntriesHaveIds
<1>4. /\ toServer[c] # <<>> => 1 \in 1..Len(toServer[c]) /\ Head(toServer[c]) = toServer[c][1]
      /\ clientBridge[c] # <<>> => 1 \in 1..Len(clientBridge[c])
  BY <1>1
<1> QED BY <1>2, <1>3, <1>4 DEF Source

LEMMA OwedType ==
  ASSUME TypeOK, NEW c \in Clients
  PROVE  Owed(c) \in Seq(Id)
<1>1. Source(c) \in Seq(Id)
  BY SourceType
<1>2. Source(c) # <<>> => Tail(Source(c)) \in Seq(Id)
  BY <1>1
<1>3. \/ Owed(c) = Source(c)
      \/ Source(c) # <<>> /\ Owed(c) = Tail(Source(c))
  <2>1. Owed(c) = IF Source(c) # <<>> /\ Accepted(Source(c)[1]) THEN Tail(Source(c)) ELSE Source(c)
    BY OwedIs, Zenon
  <2> QED BY <2>1, Zenon
<1> QED BY <1>1, <1>2, <1>3

\* The abstract state is unchanged, or changed for one client, if it is so for
\* every part of it.
LEMMA AbstractStutter ==
  ASSUME log' = log, edits' = edits,
         \A d \in Clients : Owed(d)' = Owed(d) /\ Position(d)' = Position(d)
  PROVE  UNCHANGED Abstract!vars
BY DEF Abstract!vars, Position, Ids

\* What a client owes stays as long as its edits are the same and no more of them
\* are accepted.
LEMMA SameOwed ==
  ASSUME NEW c \in Clients, log' = log, Source(c)' = Source(c)
  PROVE  Owed(c)' = Owed(c)
<1>1. Accepted(Source(c)[1])' <=> Accepted(Source(c)[1])
  BY DEF Accepted, Cur
<1> QED BY <1>1, OwedIs

\* A step that is about one client only: what the others owe and see stays.
LEMMA OthersSame ==
  ASSUME TypeOK, NEW c \in Clients, Own(c)
  PROVE  /\ log' = log
         /\ \A d \in Clients \ {c} : /\ Owed(d)' = Owed(d)
                                     /\ Position(d)' = Position(d)
                                     /\ edits'[d] = edits[d]
<1>1. log' = log /\ \A d \in Clients \ {c} : StillReceives(d)
  BY OwnFrame
<1> SUFFICES ASSUME NEW d \in Clients \ {c}
             PROVE  /\ Owed(d)' = Owed(d) /\ Position(d)' = Position(d)
                    /\ edits'[d] = edits[d]
  BY <1>1
<1>2. Source(d)' = Source(d) /\ Position(d)' = Position(d) /\ edits'[d] = edits[d]
  BY <1>1 DEF StillReceives, Still, Source, Position, Ids
<1> QED BY <1>1, <1>2, SameOwed

\* The steps of SharedLog, in terms of what each client owes and its position.
LEMMA AbstractEdit ==
  ASSUME TypeOK, NEW c \in Clients, log' = log,
         edits' = [edits EXCEPT ![c] = @ + 1],
         Owed(c)' = Append(Owed(c), <<c, edits[c] + 1>>),
         Position(c)' = Position(c),
         \A d \in Clients \ {c} : Owed(d)' = Owed(d) /\ Position(d)' = Position(d)
  PROVE  Abstract!Next
<1>1. Abstract!Edit(c)
  <2>1. [d \in Clients |-> Owed(d)]'
          = [[d \in Clients |-> Owed(d)] EXCEPT ![c] = Append(@, <<c, edits[c] + 1>>)]
    OBVIOUS
  <2>2. [d \in Clients |-> Position(d)]' = [d \in Clients |-> Position(d)]
    OBVIOUS
  <2> QED BY <2>1, <2>2 DEF Abstract!Edit, Position, Ids
<1> QED BY <1>1 DEF Abstract!Next

LEMMA AbstractCommit ==
  ASSUME NEW c \in Clients, Ids(log)' = Append(Ids(log), Head(Owed(c))), edits' = edits,
         Owed(c) # <<>>, Owed(c)' = Tail(Owed(c)),
         \A d \in Clients : Position(d)' \in {Position(d), -1},
         \A d \in Clients \ {c} : Owed(d)' = Owed(d)
  PROVE  Abstract!Next
<1>1. Abstract!Commit(c)
  <2>1. [d \in Clients |-> Owed(d)]' = [[d \in Clients |-> Owed(d)] EXCEPT ![c] = Tail(@)]
    OBVIOUS
  <2>2. PICK lost \in SUBSET Clients :
               \A d \in Clients : Position(d)' = IF d \in lost THEN -1 ELSE Position(d)
    <3>1. {d \in Clients : Position(d)' = -1} \in SUBSET Clients
      OBVIOUS
    <3>2. \A d \in Clients : Position(d)' = IF d \in {e \in Clients : Position(e)' = -1}
                                            THEN -1 ELSE Position(d)
      OBVIOUS
    <3> QED BY <3>1, <3>2
  <2>3. [d \in Clients |-> Position(d)]'
          = [d \in Clients |-> IF d \in lost THEN -1 ELSE [e \in Clients |-> Position(e)][d]]
    BY <2>2
  <2> QED BY <2>1, <2>3 DEF Abstract!Commit, Abstract!Away, Position
<1> QED BY <1>1 DEF Abstract!Next

LEMMA AbstractOpen ==
  ASSUME TypeOK, NEW c \in Clients, log' = log, edits' = edits, Position(c) = -1,
         Position(c)' \in 0..Cur,
         \A d \in Clients : Owed(d)' = Owed(d),
         \A d \in Clients \ {c} : Position(d)' = Position(d)
  PROVE  Abstract!Next
<1>1. Abstract!Open(c)
  <2>1. [d \in Clients |-> Owed(d)]' = [d \in Clients |-> Owed(d)]
    OBVIOUS
  <2>2. PICK k \in 0..Cur : Position(c)' = k
    OBVIOUS
  <2>3. [d \in Clients |-> Position(d)]' = [[d \in Clients |-> Position(d)] EXCEPT ![c] = k]
    BY <2>2
  <2>4. Len(Ids(log)) = Cur /\ Ids(log)' = Ids(log)
    BY IdsType, EntriesHaveIds DEF TypeOK, Cur, Ids
  <2> QED BY <2>1, <2>3, <2>4 DEF Abstract!Open, Abstract!Away, Position
<1> QED BY <1>1 DEF Abstract!Next

LEMMA AbstractAdvance ==
  ASSUME TypeOK, NEW c \in Clients, log' = log, edits' = edits,
         Position(c) # -1, Position(c) < Cur, Position(c)' = Position(c) + 1,
         \A d \in Clients : Owed(d)' = Owed(d),
         \A d \in Clients \ {c} : Position(d)' = Position(d)
  PROVE  Abstract!Next
<1>1. Abstract!Advance(c)
  <2>1. [d \in Clients |-> Owed(d)]' = [d \in Clients |-> Owed(d)]
    OBVIOUS
  <2>2. [d \in Clients |-> Position(d)]' = [[d \in Clients |-> Position(d)] EXCEPT ![c] = @ + 1]
    OBVIOUS
  <2>3. Len(Ids(log)) = Cur /\ Ids(log)' = Ids(log)
    BY IdsType, EntriesHaveIds DEF TypeOK, Cur, Ids
  <2> QED BY <2>1, <2>2, <2>3 DEF Abstract!Advance, Abstract!Away, Position
<1> QED BY <1>1 DEF Abstract!Next

LEMMA AbstractLose ==
  ASSUME NEW c \in Clients, log' = log, edits' = edits,
         NEW n \in 0..Len(Owed(c)), Owed(c)' = SubSeq(Owed(c), 1, n), Position(c)' = -1,
         \A d \in Clients \ {c} : Owed(d)' = Owed(d) /\ Position(d)' = Position(d)
  PROVE  Abstract!Next
<1>1. Abstract!Lose(c)
  <2>1. [d \in Clients |-> Owed(d)]'
          = [[d \in Clients |-> Owed(d)] EXCEPT ![c] = SubSeq(@, 1, n)]
    OBVIOUS
  <2>2. [d \in Clients |-> Position(d)]' = [[d \in Clients |-> Position(d)] EXCEPT ![c] = -1]
    OBVIOUS
  <2> QED BY <2>1, <2>2 DEF Abstract!Lose, Abstract!Away, Position, Ids
<1> QED BY <1>1 DEF Abstract!Next

\* A connection that ends takes with it what a page that is gone had sent.
LEMMA EndImplements ==
  ASSUME IInv, NEW c \in Clients,
         HandleClose(c) \/ LoseConnection(c) \/ CheckInactive(c) \/ RejectClientOperation(c)
  PROVE  Abstract!Next \/ UNCHANGED Abstract!vars
<1>1. TypeOK /\ Own(c)
  BY DEF IInv, SyncInv, Own
<1>2. /\ log' = log /\ UNCHANGED <<clientVars, disturbed>> /\ toServer'[c] = <<>>
  BY <1>1 DEF HandleClose, LoseConnection, CheckInactive, RejectClientOperation, EndConnection,
     serverVars, TypeOK
<1>3. /\ Position(c)' = Position(c) /\ edits' = edits
      /\ \A d \in Clients \ {c} : Owed(d)' = Owed(d) /\ Position(d)' = Position(d)
  BY <1>1, <1>2, OthersSame DEF clientVars, Position
<1>4. CASE status[c] = "absent"
  <2>1. Ids(toServer'[c]) = <<>>
    BY <1>2 DEF Ids
  <2>2. Source(c)' = <<>>
    BY <1>2, <1>4, <2>1 DEF Source, clientVars, Ids
  <2>3. Owed(c)' = <<>>
    BY <2>2, OwedIs
  <2>4. SubSeq(Owed(c), 1, 0) = <<>> /\ 0 \in 0..Len(Owed(c))
    <3>1. Owed(c) \in Seq(Id)
      BY <1>1, OwedType
    <3> QED BY <3>1
  <2>5. Position(c)' = -1
    BY <1>3, <1>4 DEF Position
  <2> QED BY <1>2, <1>3, <2>3, <2>4, <2>5, AbstractLose
<1>5. CASE status[c] # "absent"
  <2>1. Source(c)' = Source(c)
    BY <1>2, <1>5 DEF Source, clientVars, Ids
  <2>2. Owed(c)' = Owed(c)
    BY <1>2, <2>1, SameOwed
  <2> QED BY <1>2, <1>3, <2>2, AbstractStutter
<1> QED BY <1>4, <1>5

\* A page that joins owes nothing yet and sees nothing yet,
LEMMA JoinImplements ==
  ASSUME IInv, NEW c \in Clients, Join(c)
  PROVE  UNCHANGED Abstract!vars
<1>1. TypeOK /\ Own(c) /\ SentInv(c) /\ IdleInv /\ status[c] = "absent" /\ ~open[c]
  BY DEF IInv, SyncInv, OrderInv, Own, Join
<1>2. toServer[c] = <<>> /\ clientBridge[c] = <<>>
  BY <1>1, NothingSent DEF IdleInv
<1>3. /\ log' = log /\ edits' = edits /\ clientBridge' = clientBridge /\ status'[c] = "opening"
  BY <1>1 DEF Join, TypeOK
<1>4. Source(c)' = Source(c) /\ Position(c)' = Position(c)
  BY <1>1, <1>2, <1>3 DEF Source, Position, Ids
<1>5. Owed(c)' = Owed(c)
  BY <1>3, <1>4, SameOwed
<1> QED BY <1>1, <1>3, <1>4, <1>5, OthersSame, AbstractStutter

\* and nothing while its connection starts.  Nor is anything seen of a task that
\* reads the current state.
LEMMA StartImplements ==
  ASSUME IInv, NEW c \in Clients, Connect(c) \/ SendSnapshot(c) \/ ReadStateId(c)
  PROVE  UNCHANGED Abstract!vars
<1>1. TypeOK /\ Own(c)
  BY DEF IInv, SyncInv, Own
<1>2. /\ log' = log /\ edits' = edits /\ UNCHANGED <<clientBridge, toServer, lastServerStateId>>
  BY <1>1 DEF Connect, SendSnapshot, ReadStateId, serverVars, clientVars
<1>3. /\ status'[c] = "absent" <=> status[c] = "absent"
      /\ Position(c)' = Position(c)
  <2>1. CASE Connect(c)
    BY <1>1, <2>1 DEF Connect, TypeOK, Position
  <2>2. CASE SendSnapshot(c)
    <3>1. status[c] \in {"absent", "joining"}
      BY <2>2 DEF SendSnapshot, IInv, SyncInv, StreamInv, TaskInv
    <3> QED BY <2>2, <3>1 DEF SendSnapshot, clientVars, Position
  <2>3. CASE ReadStateId(c)
    BY <2>3 DEF ReadStateId, clientVars, Position
  <2> QED BY <2>1, <2>2, <2>3
<1>4. Source(c)' = Source(c)
  BY <1>2, <1>3 DEF Source, Ids
<1>5. Owed(c)' = Owed(c)
  BY <1>2, <1>4, SameOwed
<1> QED BY <1>1, <1>2, <1>3, <1>5, OthersSame, AbstractStutter

\* The snapshot opens the log at its state, unless something of it is still to
\* come again.
LEMMA SnapshotImplements ==
  ASSUME IInv, NEW c \in Clients, ReceiveSnapshot(c)
  PROVE  Abstract!Next \/ UNCHANGED Abstract!vars
<1>1. /\ TypeOK /\ StreamInv /\ Own(c) /\ status[c] = "joining" /\ c \notin starting
      /\ Cur \in Nat
  BY DEF IInv, SyncInv, Own, ReceiveSnapshot, TypeOK, Cur
<1>2. Head(toClient[c]).state \in 0..Cur
  <2>1. PICK k \in 0..Cur : Head(toClient[c]) = SnapshotOf(k)
    BY <1>1, SnapshotIs
  <2> QED BY <2>1 DEF SnapshotOf
<1>3. /\ log' = log /\ edits' = edits /\ clientBridge' = clientBridge /\ toServer' = toServer
      /\ status'[c] = "synced" /\ lastServerStateId'[c] = Head(toClient[c]).state
      /\ disturbed' = disturbed
  BY <1>1 DEF ReceiveSnapshot, TypeOK, serverVars
<1>4. Source(c)' = Source(c)
  BY <1>1, <1>3 DEF Source, Ids
<1>5. Owed(c)' = Owed(c)
  BY <1>3, <1>4, SameOwed
<1>6. \A d \in Clients \ {c} : Owed(d)' = Owed(d) /\ Position(d)' = Position(d)
  BY <1>1, OthersSame
<1>7. CASE c \in disturbed
  <2>1. Position(c) = -1 /\ Position(c)' = -1
    BY <1>3, <1>7 DEF Position
  <2> QED BY <1>3, <1>5, <1>6, <2>1, AbstractStutter
<1>8. CASE c \notin disturbed
  <2>1. Position(c) = -1 /\ Position(c)' \in 0..Cur
    BY <1>1, <1>2, <1>3, <1>8 DEF Position
  <2> QED BY <1>1, <1>3, <1>5, <1>6, <2>1, AbstractOpen
<1> QED BY <1>7, <1>8

\* A page that goes away leaves behind the operation it has sent, if that is not
\* accepted yet, and loses those that wait behind it.
LEMMA LeaveImplements ==
  ASSUME IInv, NEW c \in Clients, Leave(c)
  PROVE  Abstract!Next
<1>1. TypeOK /\ Own(c) /\ SentInv(c) /\ status[c] # "absent"
  BY DEF IInv, SyncInv, OrderInv, Own, Leave
<1>2. /\ log' = log /\ edits' = edits /\ toServer' = toServer /\ status'[c] = "absent"
  BY <1>1 DEF Leave, TypeOK, serverVars
<1>3. Source(c)' = Ids(toServer[c]) /\ Source(c) = Ids(clientBridge[c]) /\ Position(c)' = -1
  BY <1>1, <1>2 DEF Source, Position, Ids
<1>4. \A id : Accepted(id)' <=> Accepted(id)
  BY <1>2 DEF Accepted, Cur
<1>5. Owed(c) \in Seq(Id)
  BY <1>1, OwedType
<1>6. \E n \in 0..Len(Owed(c)) : Owed(c)' = SubSeq(Owed(c), 1, n)
  <2>1. CASE toServer[c] = <<>>
    <3>1. Owed(c)' = <<>>
      BY <1>1, <1>3, <2>1, OwedIs, SourceType
    <3>2. SubSeq(Owed(c), 1, 0) = <<>> /\ 0 \in 0..Len(Owed(c))
      BY <1>5
    <3> QED BY <3>1, <3>2
  <2>2. CASE toServer[c] # <<>>
    <3>1. PICK id : id = Head(toServer[c]).id
      OBVIOUS
    <3>2. /\ ~Accepted(id) /\ clientBridge[c] # <<>> /\ clientBridge[c][1].id = id
          /\ Len(toServer[c]) <= 1
      BY <1>1, <2>2, <3>1 DEF SentInv
    <3>3. /\ Source(c) \in Seq(Id) /\ Source(c) # <<>> /\ Source(c)[1] = id
      BY <1>1, <1>3, <3>2, SourceType
    <3>4. Owed(c) = Source(c)
      BY <3>2, <3>3, OwedIs
    <3>5. Source(c)' \in Seq(Id) /\ Source(c)' # <<>> /\ Len(Source(c)') = 1 /\ Source(c)'[1] = id
      <4>1. toServer[c] \in Seq(ClientMsg)
        BY <1>1 DEF TypeOK
      <4>2. /\ Ids(toServer[c]) \in Seq(Id) /\ Len(Ids(toServer[c])) = Len(toServer[c])
            /\ Ids(toServer[c]) # <<>> /\ Ids(toServer[c])[1] = id
        BY <1>1, <2>2, <3>1, <4>1, SourceType, IdsType, EntriesHaveIds
      <4>3. Len(toServer[c]) = 1
        BY <2>2, <3>2, <4>1, SingleElement
      <4> QED BY <1>3, <4>2, <4>3
    <3>6. Owed(c)' = Source(c)'
      BY <1>4, <3>2, <3>5, OwedIs
    <3>7. /\ SubSeq(Source(c), 1, 1) \in Seq(Id) /\ Len(SubSeq(Source(c), 1, 1)) = 1
          /\ SubSeq(Source(c), 1, 1)[1] = id /\ 1 \in 0..Len(Source(c))
      BY <3>3
    <3>8. Source(c)' = SubSeq(Source(c), 1, 1)
      BY <3>5, <3>7, SeqEqual
    <3> QED BY <3>4, <3>6, <3>7, <3>8
  <2> QED BY <2>1, <2>2
<1> QED BY <1>1, <1>2, <1>3, <1>6, OthersSame, AbstractLose

\* An edit is owed from the moment it is made.
LEMMA EditImplements ==
  ASSUME IInv, NEW c \in Clients, LocalEdit(c)
  PROVE  Abstract!Next
<1>1. /\ TypeOK /\ Own(c) /\ LogIdInv /\ status[c] = "synced"
      /\ clientBridge[c] \in Seq(ClientOp) /\ edits[c] \in Nat
  BY DEF IInv, SyncInv, OrderInv, Own, LocalEdit, TypeOK
<1>2. PICK op \in Edits(document[c]) : Edit(c, op)
  BY DEF LocalEdit
<1>3. PICK id : id = <<c, edits[c] + 1>>
  OBVIOUS
<1>4. PICK x : x = [id |-> id, op |-> op,
                    state |-> IF NothingOutstanding(c) THEN "Pending" ELSE "Unsent"]
  OBVIOUS
<1>5. x \in ClientOp /\ x.id = id
  <2>1. op \in Op
    BY <1>1, EditsApply DEF TypeOK
  <2> QED BY <1>1, <1>3, <1>4, <2>1 DEF ClientOp, Id
<1>6. /\ log' = log /\ status' = status /\ UNCHANGED <<lastServerStateId, disturbed>>
      /\ edits' = [edits EXCEPT ![c] = @ + 1]
      /\ clientBridge'[c] = Append(clientBridge[c], x)
  BY <1>1, <1>2, <1>3, <1>4 DEF Edit, serverVars, TypeOK
<1>7. ~Accepted(id)
  BY <1>1, <1>3, FutureEdit
<1>8. /\ Source(c) = Ids(clientBridge[c]) /\ Source(c) \in Seq(Id)
      /\ Source(c)' = Ids(clientBridge'[c])
      /\ Position(c)' = Position(c)
  BY <1>1, <1>6, SourceType DEF Source, Position, Ids
<1>9. Source(c)' = Append(Source(c), id)
  BY <1>1, <1>5, <1>6, <1>8, IdsAppend, EntriesHaveIds
<1>10. \A i : Accepted(i)' <=> Accepted(i)
  BY <1>6 DEF Accepted, Cur
<1>11. id \in Id
  BY <1>1, <1>3 DEF Id
<1>12. Owed(c)' = Append(Owed(c), id)
  <2>1. CASE Source(c) = <<>>
    <3>1. Source(c)' = <<id>> /\ Source(c)'[1] = id /\ Source(c)' # <<>>
      BY <1>9, <2>1
    <3>2. Owed(c)' = Source(c)' /\ Owed(c) = <<>>
      BY <1>7, <1>10, <2>1, <3>1, OwedIs
    <3> QED BY <1>9, <2>1, <3>2
  <2>2. CASE Source(c) # <<>>
    <3>1. Source(c)' # <<>> /\ Source(c)'[1] = Source(c)[1]
      BY <1>8, <1>9, <1>11, <2>2
    <3>2. Tail(Source(c)') = Append(Tail(Source(c)), id)
      <4>1. Tail(Append(Source(c), id)) = Append(Tail(Source(c)), id)
        BY <1>8, <1>11, <2>2, AppendProperties, HeadTailProperties
      <4> QED BY <1>9, <4>1
    <3> QED BY <1>9, <1>10, <2>2, <3>1, <3>2, OwedIs
  <2> QED BY <2>1, <2>2
<1> QED BY <1>1, <1>3, <1>6, <1>8, <1>12, OthersSame, AbstractEdit

\* A page that stops still owes what it has, and sees nothing more.
LEMMA StopImplements ==
  ASSUME IInv, NEW c \in Clients, Own(c), UNCHANGED <<clientBridge, edits, lastServerStateId, disturbed>>,
         status[c] \in {"synced", "panicked"}, status'[c] \in {"panicked", "closed"}
  PROVE  UNCHANGED Abstract!vars
<1>1. TypeOK /\ log' = log
  BY OthersSame DEF IInv, SyncInv
<1>2. Source(c)' = Source(c) /\ Position(c)' = Position(c)
  BY DEF Source, Position, Ids
<1>3. Owed(c)' = Owed(c)
  BY <1>1, <1>2, SameOwed
<1> QED BY <1>1, <1>2, <1>3, OthersSame, AbstractStutter

\* What a client receives is the next entry of the log, as long as nothing has
\* disturbed it; afterwards it has no place in the log.
LEMMA ReceiveImplements ==
  ASSUME IInv, NEW c \in Clients, Own(c), ToReceive(c), Received(c), Owed(c)' = Owed(c),
         UNCHANGED status
  PROVE  Abstract!Next \/ UNCHANGED Abstract!vars
<1>1. /\ TypeOK /\ StreamInv /\ DownInv /\ status[c] = "synced"
      /\ lastServerStateId[c] \in Nat /\ Cur \in Nat
  BY DEF IInv, SyncInv, TypeOK, Cur, ToReceive
<1>2. /\ log' = log /\ edits' = edits /\ disturbed' = disturbed
      /\ lastServerStateId'[c] = Update(c).state
      /\ \A d \in Clients \ {c} : Owed(d)' = Owed(d) /\ Position(d)' = Position(d)
  BY <1>1, OthersSame DEF Received, serverVars, TypeOK
<1>3. CASE c \in disturbed
  <2>1. Position(c)' = Position(c)
    BY <1>2, <1>3 DEF Position
  <2> QED BY <1>2, <2>1, AbstractStutter
<1>4. CASE c \notin disturbed
  <2>1. /\ lastServerStateId[c] + 1 \in 1..Cur
        /\ Update(c) = UpdateOf(lastServerStateId[c] + 1)
    BY <1>1, <1>4, UpdateIs DEF Undisturbed
  <2>2. lastServerStateId'[c] = lastServerStateId[c] + 1
    BY <1>2, <2>1 DEF UpdateOf
  <2>3. Position(c) \in Nat /\ Position(c) < Cur /\ Position(c)' = Position(c) + 1
    BY <1>1, <1>2, <1>4, <2>1, <2>2 DEF Position
  <2> QED BY <1>1, <1>2, <2>3, AbstractAdvance
<1> QED BY <1>3, <1>4

LEMMA AckImplements ==
  ASSUME IInv, NEW c \in Clients, ReceiveAck(c)
  PROVE  Abstract!Next \/ UNCHANGED Abstract!vars
<1>1. /\ SyncInv /\ TypeOK /\ Own(c) /\ Ordered(c) /\ OwnInv(c) /\ ToReceive(c) /\ IsAck(c)
      /\ Received(c) /\ status' = status /\ log' = log
  BY DEF IInv, SyncInv, OrderInv, Ordered, Own, ReceiveAck, Received, serverVars
<1>2. /\ status[c] = "synced" /\ clientBridge[c] \in Seq(ClientOp) /\ clientBridge[c] # <<>>
      /\ Accepted(clientBridge[c][1].id)
  BY <1>1, Arrival DEF IsAck
<1>3. PICK rest : rest = Tail(clientBridge[c])
  OBVIOUS
<1>4. /\ rest \in Seq(ClientOp) /\ Len(rest) = Len(clientBridge[c]) - 1
      /\ Len(clientBridge[c]) \in Nat
      /\ \A i \in 1..Len(rest) : rest[i] = clientBridge[c][i+1]
  BY <1>2, <1>3
<1>5. Ids(clientBridge'[c]) = Ids(rest)
  <2>1. CASE rest = <<>>
    BY <1>1, <1>3, <2>1 DEF ReceiveAck, TypeOK
  <2>2. CASE rest # <<>>
    <3>1. clientBridge'[c] = [rest EXCEPT ![1].state = "Pending"]
      BY <1>1, <1>3, <2>2 DEF ReceiveAck, TypeOK
    <3>2. PICK first : first = [rest[1] EXCEPT !.state = "Pending"]
      OBVIOUS
    <3>3. clientBridge'[c] = [rest EXCEPT ![1] = first] /\ first.id = rest[1].id
      <4>1. rest[1] \in ClientOp
        BY <1>4, <2>2
      <4> QED BY <3>1, <3>2, <4>1 DEF ClientOp
    <3>4. Len(clientBridge'[c]) = Len(rest)
      BY <1>4, <3>3
    <3>5. \A i \in 1..Len(rest) : clientBridge'[c][i].id = rest[i].id
      BY <1>4, <3>3
    <3> QED BY <3>4, <3>5 DEF Ids
  <2> QED BY <2>1, <2>2
<1>6. /\ Source(c) = Ids(clientBridge[c]) /\ Source(c) # <<>>
      /\ Source(c)[1] = clientBridge[c][1].id /\ Source(c)' = Ids(rest)
  BY <1>1, <1>2, <1>5, SourceType DEF Source, Ids
<1>7. Owed(c) = Ids(rest)
  <2>1. Owed(c) = Tail(Source(c))
    BY <1>2, <1>6, OwedIs
  <2> QED BY <1>2, <1>3, <1>6, <2>1, IdsTail, EntriesHaveIds
<1>8. Ids(rest) # <<>> => ~Accepted(Ids(rest)[1])
  <2> SUFFICES ASSUME Ids(rest) # <<>> PROVE ~Accepted(Ids(rest)[1])
    OBVIOUS
  <2>1. rest # <<>> /\ \A i \in 1..Len(rest) : Ids(rest)[i] = rest[i].id
    BY <1>4, IdsType, EntriesHaveIds
  <2>2. 1 \in 1..Len(rest) /\ 2 \in 2..Len(clientBridge[c]) /\ rest[1] = clientBridge[c][2]
    BY <1>4, <2>1
  <2> QED BY <1>1, <2>1, <2>2 DEF OwnInv
<1>9. \A id : Accepted(id)' <=> Accepted(id)
  BY <1>1 DEF Accepted, Cur
<1>10. Owed(c)' = Owed(c)
  BY <1>6, <1>7, <1>8, <1>9, OwedIs
<1> QED BY <1>1, <1>10, ReceiveImplements

\* The ids of the bridge stay while another client's operation passes it.
LEMMA RemoteImplements ==
  ASSUME IInv, NEW c \in Clients, ReceiveRemoteUpdate(c)
  PROVE  Abstract!Next \/ UNCHANGED Abstract!vars
<1>1. /\ SyncInv /\ TypeOK /\ Own(c) /\ ToReceive(c) /\ status[c] = "synced"
      /\ clientBridge[c] \in Seq(ClientOp)
  BY DEF IInv, SyncInv, Own, ReceiveRemoteUpdate, ToReceive, TypeOK
<1>2. CASE Panic(c)
  BY <1>1, <1>2, StopImplements DEF Panic, TypeOK, connVars
<1>3. CASE ~Panic(c)
  <2>1. /\ Received(c) /\ status' = status /\ log' = log
        /\ clientBridge'[c] = [i \in 1..Len(clientBridge[c]) |->
             [clientBridge[c][i] EXCEPT
                !.op = Transform(Passing(Update(c).op, clientBridge[c])[i-1], @)[2]]]
    BY <1>1, <1>3 DEF ReceiveRemoteUpdate, Received, serverVars, TypeOK
  <2>2. Len(clientBridge'[c]) = Len(clientBridge[c])
    BY <1>1, <2>1
  <2>3. ASSUME NEW i \in 1..Len(clientBridge[c])
        PROVE  clientBridge'[c][i].id = clientBridge[c][i].id
    <3>1. clientBridge[c][i] \in ClientOp
      BY <1>1
    <3> QED BY <2>1, <3>1 DEF ClientOp
  <2>4. Ids(clientBridge'[c]) = Ids(clientBridge[c])
    BY <2>2, <2>3 DEF Ids
  <2>5. Source(c)' = Source(c)
    BY <1>1, <2>1, <2>4 DEF Source, Ids
  <2>6. Owed(c)' = Owed(c)
    BY <2>1, <2>5, SameOwed
  <2> QED BY <1>1, <2>1, <2>6, ReceiveImplements
<1> QED BY <1>2, <1>3

\* What the server accepts is the first edit its client owes.
LEMMA ApplyImplements ==
  ASSUME IInv, NEW c \in Clients, ApplyClientOperation(c)
  PROVE  Abstract!Next
<1>1. /\ SyncInv /\ TypeOK /\ IdleInv /\ SentInv(c) /\ toServer[c] \in Seq(ClientMsg)
      /\ toServer[c] # <<>>
  BY DEF IInv, SyncInv, OrderInv, TypeOK, ApplyClientOperation
<1>2. PICK m : m = Head(toServer[c])
  OBVIOUS
<1>3. /\ m \in ClientMsg /\ m.id[1] = c /\ ~Accepted(m.id)
      /\ status[c] # "absent" => clientBridge[c] # <<>> /\ clientBridge[c][1].id = m.id
      /\ \A id : Accepted(id)' <=> Accepted(id) \/ id = m.id
      /\ toServer'[c] = <<>>
      /\ \A d \in Clients \ {c} : toServer'[d] = toServer[d]
      /\ disturbed \subseteq disturbed' /\ UNCHANGED clientVars
  BY <1>1, <1>2, Accepting
<1>4. Source(c) \in Seq(Id) /\ Source(c) # <<>> /\ Source(c)[1] = m.id
  BY <1>1, <1>2, <1>3, SourceType
<1>5. Owed(c) = Source(c)
  BY <1>3, <1>4, OwedIs
<1>6. Owed(c)' = Tail(Owed(c))
  <2>1. CASE status[c] = "absent"
    <3>1. Source(c)' = <<>>
      BY <1>3, <2>1 DEF Source, clientVars, Ids
    <3>2. Len(Source(c)) <= 1
      BY <1>1, <2>1, SourceType DEF SentInv
    <3>3. Tail(Source(c)) = <<>>
      BY <1>4, <3>2, SingleElement
    <3> QED BY <1>5, <3>1, <3>3, OwedIs
  <2>2. CASE status[c] # "absent"
    <3>1. Source(c)' = Source(c)
      BY <1>3, <2>2 DEF Source, clientVars, Ids
    <3>2. Accepted(Source(c)[1])'
      BY <1>3, <1>4, <3>1
    <3> QED BY <1>4, <1>5, <3>1, <3>2, OwedIs
  <2> QED BY <2>1, <2>2
<1>7. ASSUME NEW d \in Clients \ {c} PROVE Owed(d)' = Owed(d)
  <2>1. Source(d)' = Source(d) /\ SentInv(d) /\ OwnInv(d)
    BY <1>3 DEF Source, clientVars, Ids, IInv, OrderInv
  <2>2. Source(d) # <<>> => Source(d)[1] # m.id
    <3>1. CASE status[d] = "absent"
      BY <1>1, <1>3, <2>1, <3>1, SourceType DEF SentInv
    <3>2. CASE status[d] # "absent"
      <4>1. clientBridge[d] # <<>> => clientBridge[d][1].id[1] = d
        <5>1. clientBridge[d] # <<>> => 1 \in 1..Len(clientBridge[d])
          BY <1>1 DEF TypeOK
        <5> QED BY <2>1, <5>1 DEF OwnInv
      <4> QED BY <1>1, <1>3, <3>2, <4>1, SourceType
    <3> QED BY <3>1, <3>2
  <2>3. Source(d) # <<>> => (Accepted(Source(d)[1])' <=> Accepted(Source(d)[1]))
    BY <1>3, <2>1, <2>2
  <2> QED BY <2>1, <2>3, OwedIs
<1>8. \A d \in Clients : Position(d)' \in {Position(d), -1}
  BY <1>3 DEF Position, clientVars
<1>9. Ids(log)' = Append(Ids(log), m.id)
  <2>1. PICK op \in Applicable(m) :
          log' = Append(log, [id |-> m.id, op |-> op, document |-> Apply(DocAt(Cur), op)])
    BY <1>2 DEF ApplyClientOperation
  <2>2. [id |-> m.id, op |-> op, document |-> Apply(DocAt(Cur), op)] \in LogEntry
    <3>1. op \in Op /\ InLen(op) = Size(DocAt(Cur))
      <4>1. log \in Seq(LogEntry)
        BY <1>1 DEF TypeOK
      <4> QED BY <1>3, <4>1, ApplicableType
    <3>2. DocAt(Cur) \in Doc
      BY <1>1, DocType DEF TypeOK, Cur
    <3>3. Apply(DocAt(Cur), op) \in Doc
      BY <3>1, <3>2, Typing
    <3> QED BY <1>3, <3>1, <3>3 DEF LogEntry, ClientMsg
  <2>3. log \in Seq(LogEntry)
    BY <1>1 DEF TypeOK
  <2>4. Ids(log)' = Ids(log')
    BY DEF Ids
  <2> QED BY <2>1, <2>2, <2>3, <2>4, IdsAppend, EntriesHaveIds
<1>10. Head(Owed(c)) = m.id
  BY <1>4, <1>5
<1> QED BY <1>3, <1>4, <1>5, <1>6, <1>7, <1>8, <1>9, <1>10, AbstractCommit DEF clientVars

\* Every step is a step of SharedLog or none.
LEMMA StepImplements == IInv /\ [Next]_vars => Abstract!Next \/ UNCHANGED Abstract!vars
<1> SUFFICES ASSUME IInv, [Next]_vars PROVE Abstract!Next \/ UNCHANGED Abstract!vars
  OBVIOUS
<1>1. CASE Quiet \/ UNCHANGED vars
  <2>1. log' = log /\ edits' = edits
        /\ \A d \in Clients : Source(d)' = Source(d) /\ Position(d)' = Position(d)
    BY <1>1, QuietFrame DEF Source, Position, clientVars, Ids
  <2>2. \A d \in Clients : Owed(d)' = Owed(d)
    BY <2>1, SameOwed
  <2> QED BY <2>1, <2>2, AbstractStutter
<1>2. ASSUME NEW c \in Clients, Own(c) PROVE Abstract!Next \/ UNCHANGED Abstract!vars
  <2>1. CASE RejectEdit(c) \/ ReceiveWrongAck(c)
    <3>1. UNCHANGED <<clientBridge, edits, lastServerStateId, disturbed>>
      BY <2>1 DEF RejectEdit, ReceiveWrongAck, Panic, connVars
    <3>2. status[c] \in {"synced", "panicked"} /\ status'[c] \in {"panicked", "closed"}
      BY <2>1 DEF RejectEdit, ReceiveWrongAck, Panic, ToReceive, IInv, SyncInv, TypeOK
    <3> QED BY <1>2, <3>1, <3>2, StopImplements
  <2> QED BY <1>2, <2>1, EndImplements, JoinImplements, StartImplements, SnapshotImplements, LeaveImplements,
          EditImplements, AckImplements, RemoteImplements DEF Own
<1>3. ASSUME NEW c \in Clients, ApplyClientOperation(c) PROVE Abstract!Next
  BY <1>3, ApplyImplements
<1>4. ASSUME NEW c \in Clients, Broadcast(c) PROVE UNCHANGED Abstract!vars
  <2>1. /\ log' = log /\ edits' = edits
        /\ \A d \in Clients : Source(d)' = Source(d) /\ Position(d)' = Position(d)
    BY <1>4 DEF Broadcast, serverVars, clientVars, Source, Position, Ids
  <2>2. \A d \in Clients : Owed(d)' = Owed(d)
    BY <2>1, SameOwed
  <2> QED BY <2>1, <2>2, AbstractStutter
<1> QED BY <1>1, <1>2, <1>3, <1>4, NextCases

\* The protocol implements SharedLog: each edit takes effect at most once, in the
\* order its client made them, whatever overlaps; and a client sees the history
\* entry by entry from the snapshot on, until broadcasts overlap while it listens,
\* or from no entry on if something of its snapshot comes again.
THEOREM Refinement == Spec => ImplementsSharedLog
<1>1. Init => Abstract!Init
  <2> SUFFICES ASSUME Init PROVE Abstract!Init
    OBVIOUS
  <2>1. Ids(<<>>) = <<>>
    BY DEF Ids
  <2>2. \A c \in Clients : Source(c) = <<>> /\ Position(c) = -1
    BY <2>1 DEF Init, Source, Position
  <2>3. \A c \in Clients : Owed(c) = <<>>
    BY <2>2, OwedIs
  <2> QED BY <2>1, <2>2, <2>3 DEF Init, Abstract!Init, Abstract!Away, Position
<1>2. IInv /\ [Next]_vars => [Abstract!Next]_Abstract!vars
  BY StepImplements
<1> QED BY <1>1, <1>2, OrderInvariance, PTL DEF Spec, ImplementsSharedLog, Abstract!Spec
=============================================================================
