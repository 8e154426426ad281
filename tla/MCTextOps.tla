------------------------------ MODULE MCTextOps ------------------------------
(***************************************************************************)
(* Evaluates the algorithms of TextOps, TextUpdates and Cursors on every   *)
(* document and every operation of a bounded size, and the bucket of       *)
(* RateLimiter on sequences of requests.  A behaviour picks a document and *)
(* one or two operations, or a bucket and requests, then computes; the     *)
(* properties speak of the computed values.                                *)
(***************************************************************************)
EXTENDS Cursors, TextUpdates, RateLimiter

CONSTANTS MaxDoc,       \* bound: characters of a document
          MaxParts      \* bound: compound operations of an operation

ASSUME BoundsAssumption == MaxDoc \in Nat /\ MaxParts \in Nat

VARIABLES asked,        \* the algorithm: "transform", "compose", "convert", "edit"
                        \* or "limit"
          text,         \* the document the first operation is made for, or a bucket
          first,        \* the server's operation, applicable to text, or requests
          second,       \* to transform: applicable to text; to compose: to what
                        \* first makes of it; otherwise none
          result        \* <<>> until computed

vars == <<asked, text, first, second, result>>

Texts(n) == UNION {[1..k -> Alphabet] : k \in 0..n}

\* Compound operations of at most n characters, one character inserted at most
\* twice over.
Parts == {Retain(n) : n \in 1..MaxDoc} \cup {Delete(n) : n \in 1..MaxDoc}
           \cup {Insert(s) : s \in Texts(2) \ {<<>>}}

\* Operations with no two neighbours of one kind, as text_updates_to_text_operation
\* and condense build them.
Condensed(ops) == \A i \in 1..(Len(ops) - 1) : ops[i].kind # ops[i+1].kind

AllOps == {ops \in UNION {[1..k -> Parts] : k \in 0..MaxParts} : Condensed(ops)}

OpsOfLength[n \in Nat] == {ops \in AllOps : InputLength(ops) = n}

\* Buckets as Client::new makes them, full, of small sizes.
Buckets == {[maxTokens |-> max, refill |-> refill, interval |-> 2, tokens |-> max,
             lastRefresh |-> 0] : max \in 1..3, refill \in 1..2}

\* Requests for tokens, each some time after the one before.
RequestSeqs == UNION {[1..k -> [after : {0, 1, 3, 5}, tokens : {1, 3}]] : k \in 1..4}

Transformed == asked = "transform" /\ result # <<>>

Composed == asked = "compose" /\ result # <<>>

Converted == asked = "convert" /\ result # <<>>

-----------------------------------------------------------------------------
InitOps == /\ asked \in {"transform", "compose", "convert", "edit"}
           /\ text \in Texts(MaxDoc)
           /\ first \in OpsOfLength[Len(text)]
           /\ second \in CASE asked = "transform" -> OpsOfLength[Len(text)]
                           [] asked = "compose"   -> OpsOfLength[OutputLength(first)]
                           [] OTHER               -> {<<>>}

InitLimit == /\ asked = "limit"
             /\ text \in Buckets
             /\ first \in RequestSeqs
             /\ second = <<>>

Init == (InitOps \/ InitLimit) /\ result = <<>>

ComputeTransform == /\ asked = "transform"
                    /\ result' = TextTransform(first, second)

ComputeCompose == /\ asked = "compose"
                  /\ result' = <<TextCompose(first, second)>>

\* The user does first, and the editor reports it; another one's editor is told
\* to do it.
ComputeConvert ==
  /\ asked = "convert"
  /\ result' = <<TextUpdatesToTextOperation(Reported(text, first), Len(Units(text))),
                 TextOperationTextUpdates(first)>>

ComputeEdit == /\ asked = "edit"
               /\ result' = <<EditOps(text, TextApply(text, first))>>

\* A request: when, whether it is granted, the bucket after it, what has been
\* granted in all, and whether some request has filled the bucket up.
Serve(last, request) ==
  LET time == last.time + request.after
      ok   == Grants(last.bucket, time, request.tokens)
  IN  [time    |-> time,
       grants  |-> ok,
       bucket  |-> SendMany(last.bucket, time, request.tokens),
       granted |-> last.granted + IF ok THEN request.tokens ELSE 0,
       filled  |-> last.filled \/ FillsUp(last.bucket, time)]

\* Before the first request.
Unserved(l) == [time |-> 0, grants |-> FALSE, bucket |-> l, granted |-> 0, filled |-> FALSE]

Served(l, requests) ==
  LET served[n \in 0..Len(requests)] ==
        IF n = 0 THEN Unserved(l) ELSE Serve(served[n-1], requests[n])
  IN  [n \in 1..Len(requests) |-> served[n]]

ComputeLimit == /\ asked = "limit"
                /\ result' = Served(text, first)

Next == /\ result = <<>>
        /\ \/ ComputeTransform \/ ComputeCompose \/ ComputeConvert \/ ComputeEdit
           \/ ComputeLimit
        /\ UNCHANGED <<asked, text, first, second>>

Spec == Init /\ [][Next]_vars

-----------------------------------------------------------------------------
\* Both orders of two concurrent operations are applicable and end in the same
\* document: apply(apply(S, ops1), ops2') = apply(apply(S, ops2), ops1').
TransformConverges ==
  Transformed =>
    /\ CanApply(TextApply(text, first), result[2])
    /\ CanApply(TextApply(text, second), result[1])
    /\ TextApply(TextApply(text, first), result[2]) = TextApply(TextApply(text, second), result[1])

Inserted(ops) ==
  LET cat[n \in 0..Len(ops)] ==
        IF n = 0 THEN <<>>
        ELSE cat[n-1] \o IF IsInsert(ops[n]) THEN ops[n].text ELSE <<>>
  IN  cat[Len(ops)]

Deleted(ops) == InputLength(ops) - (OutputLength(ops) - Len(Inserted(ops)))

\* Transforming loses nobody's typing: what each operation inserts, its
\* transformed form inserts, and between them the two orders delete the same
\* characters (neither result is "delete everything").
TransformKeepsIntent ==
  Transformed =>
    /\ Inserted(result[1]) = Inserted(first)
    /\ Inserted(result[2]) = Inserted(second)
    /\ Deleted(result[1]) <= Deleted(first)
    /\ Deleted(result[2]) <= Deleted(second)
    /\ Deleted(first) + Deleted(result[2]) = Deleted(second) + Deleted(result[1])

\* When both insert at one place, the text of the first operation (the one the
\* server has applied) comes first, whichever side does the transforming.
EarlierInsertsFirst ==
  \A i \in (DOMAIN first) \cap (DOMAIN second) :
     /\ Transformed
     /\ SubSeq(first, 1, i-1) = SubSeq(second, 1, i-1)
     /\ \A j \in 1..(i-1) : ~IsInsert(first[j])
     /\ IsInsert(first[i])
     /\ IsInsert(second[i])
     => LET merged == TextApply(TextApply(text, first), result[2])
            from   == OutputLength(SubSeq(first, 1, i-1))
            both   == first[i].text \o second[i].text
        IN  SubSeq(merged, from + 1, from + Len(both)) = both

\* The law xforms.rs states for compose: C(d) = B(A(d)).
ComposeLaw ==
  Composed => TextApply(text, result[1]) = TextApply(TextApply(text, first), second)

\* A composition that breaks the law is too short for the document it should
\* produce, so apply, transform or compose rejects it: the server can refuse an
\* edit because of it but never store a wrong document.
WrongCompositionIsRejected ==
  Composed =>
    /\ InputLength(result[1]) = InputLength(first)
    /\ \/ TextApply(text, result[1]) = TextApply(TextApply(text, first), second)
       \/ OutputLength(result[1]) < OutputLength(second)

-----------------------------------------------------------------------------
Narrow(s) == \A i \in DOMAIN s : s[i] \notin Wide

\* What a user types is converted to an operation that does the same to the
\* document, whatever is inserted, as long as no wide character is in it yet;
\* once there is one, the operation does not fit, and the server rejects it: it
\* never stores something else.
EditIsConverted ==
  IF Narrow(text)
    THEN CanApply(text, result[1]) /\ TextApply(text, result[1]) = TextApply(text, first)
    ELSE ~CanApply(text, result[1])

\* The changes an editor is told to make lead to the document of the client, as
\* long as wide characters come after the last of them.
UpdateReachesEditor ==
  LET last == Len(result[2])
  IN  last > 0 /\ Narrow(SubSeq(text, 1, result[2][last].to))
        => Dispatch(Units(text), result[2]) = Units(TextApply(text, first))

\* Editor and client keep one document, in both directions, where wide characters
\* do not come between them; and where they do, nothing wrong is stored.
EditorAgrees == Converted => EditIsConverted /\ UpdateReachesEditor

\* edit_ops leads from the old to the new document at the least cost, although it
\* takes what both begin and end with as given ("the output edit operation is
\* still optimal", ops.rs).
EditOpsOptimal ==
  asked = "edit" /\ result # <<>> =>
    LET new == TextApply(text, first)
    IN  /\ CanApply(text, result[1]) /\ TextApply(text, result[1]) = new
        /\ Condensed(result[1])
        /\ \A ops \in OpsOfLength[Len(text)] :
              TextApply(text, ops) = new => CharsChanged(result[1]) <= CharsChanged(ops)

-----------------------------------------------------------------------------
\* As long as no request comes so late that the bucket fills up, what is granted
\* keeps to the rate, though not to the size of the bucket.  After one that does,
\* nothing is limited any more: every request of the size of the bucket is granted,
\* however soon ("limits number of requests in a given time window").
LimitLastsUntilIdle ==
  asked = "limit" =>
    \A n \in DOMAIN result :
      IF result[n].filled THEN first[n].tokens <= text.maxTokens => result[n].grants
                          ELSE RateKept(result[n].bucket, result[n].granted, text.tokens)

-----------------------------------------------------------------------------
\* A document that remembers where its characters are from: the i-th is 2 * i, one
\* inserted after the i-th is 2 * i + 1.
Traced(ops) ==
  TextApply([i \in DOMAIN text |-> 2 * i],
            [n \in DOMAIN ops |->
               IF IsInsert(ops[n])
                 THEN Insert([k \in DOMAIN ops[n].text |-> 2 * InputLength(SubSeq(ops, 1, n-1)) + 1])
                 ELSE ops[n]])

\* A cursor stays where it was in the text: what is left of a selection and what
\* is inserted inside it is selected, and nothing else; a cursor that selects
\* nothing goes on selecting nothing, after what is inserted at its place.
CursorFollowsText ==
  Converted =>
    \A c \in Cursor(Len(text)) :
      LET new == Traced(first)
          d   == TransformCursor(first, c)
          end == IF c.from < c.to THEN 2 * c.to ELSE 2 * c.from + 1
      IN  /\ d \in Cursor(Len(new))
          /\ c.anchor = c.from => d.anchor = d.from
          /\ \A k \in DOMAIN new : /\ k <= d.from <=> new[k] <= 2 * c.from + 1
                                   /\ k <= d.to   <=> new[k] <= end
          /\ Shifted(first, c).highlight = d.to - d.from

Keeps(ops, i) == i \in DOMAIN text => \E k \in DOMAIN Traced(ops) : Traced(ops)[k] = 2 * i

\* Server and client take a cursor through different operations, in different
\* orders.  They agree on where it is as long as nobody deletes the character it
\* stands before, or the first or the last one it selects (cursor.rs has a check
\* that they always do, "unsure if this sanity check is true").
CursorsAgree ==
  Transformed =>
    \A c \in Cursor(Len(text)) :
      (\A ops \in {first, second} :
          Keeps(ops, c.from + 1) /\ (c.from < c.to => Keeps(ops, c.to)))
        => TransformCursor(result[2], TransformCursor(first, c))
             = TransformCursor(result[1], TransformCursor(second, c))
=============================================================================
