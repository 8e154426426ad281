------------------------------ MODULE CollabLaws ------------------------------
(***************************************************************************)
(* What Collab asks of operations, and all that the proofs use of them.    *)
(* AlgorithmProofs proves Typing and Converges for the operations of the   *)
(* code (OperationsSatisfyLaws).  Nothing is asked of Compose but that it  *)
(* returns an operation: compose does not do what it should in the code,   *)
(* and no proof depends on it.                                             *)
(***************************************************************************)
EXTENDS Collab

\* Documents and operations are closed under what is done with them, and lengths
\* tell which operations apply to which documents.
ASSUME Typing ==
  /\ InitDoc \in Doc
  /\ \A d \in Doc : Size(d) \in Nat
  /\ \A op \in Op : InLen(op) \in Nat /\ OutLen(op) \in Nat
  /\ \A d \in Doc, op \in Op :
       InLen(op) = Size(d) => Apply(d, op) \in Doc /\ Size(Apply(d, op)) = OutLen(op)
  /\ \A a, b \in Op : InLen(a) = InLen(b) =>
       Transform(a, b)[1] \in Op /\ Transform(a, b)[2] \in Op
  /\ \A a, b \in Op : OutLen(a) = InLen(b) => Compose(a, b) \in Op

\* The editor makes operations that apply to the document it shows.
ASSUME EditsApply ==
  \A d \in Doc : \A op \in Edits(d) : op \in Op /\ InLen(op) = Size(d)

\* The promise of transform: both orders lead to one document.
ASSUME Converges ==
  \A d \in Doc : \A a, b \in Op : InLen(a) = Size(d) /\ InLen(b) = Size(d) =>
    LET t == Transform(a, b)
    IN  /\ InLen(t[1]) = OutLen(b)
        /\ InLen(t[2]) = OutLen(a)
        /\ Apply(Apply(d, b), t[1]) = Apply(Apply(d, a), t[2])

=============================================================================
