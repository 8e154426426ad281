------------------------------- MODULE SharedLog -------------------------------
(***************************************************************************)
(* What collaborative editing promises its users, without the server, the  *)
(* transformations or the network: everybody's edits end up in one log,    *)
(* each at most once and those of one client in the order it made them;    *)
(* what is in the log stays there; and a client that reads the log reads   *)
(* one entry after the other, until it goes away or, as an edit takes      *)
(* effect, loses its place.  Edits are lost only from the end of what a    *)
(* client still has pending.                                               *)
(***************************************************************************)
EXTENDS Integers, Sequences

CONSTANT Clients

VARIABLES log,      \* ids of the edits, in the order they took effect
          pending,  \* ids of the edits of each client that are not in the log
          made,     \* number of edits each client has made
          position  \* entries of the log each client has seen; Away if none is read

vars == <<log, pending, made, position>>

Away == -1

Init == /\ log = <<>>
        /\ pending = [c \in Clients |-> <<>>]
        /\ made = [c \in Clients |-> 0]
        /\ position = [c \in Clients |-> Away]

Edit(c) == /\ made' = [made EXCEPT ![c] = @ + 1]
           /\ pending' = [pending EXCEPT ![c] = Append(@, <<c, made[c] + 1>>)]
           /\ UNCHANGED <<log, position>>

\* An edit takes effect; readers may lose their place.
Commit(c) == /\ pending[c] # <<>>
             /\ log' = Append(log, Head(pending[c]))
             /\ pending' = [pending EXCEPT ![c] = Tail(@)]
             /\ \E lost \in SUBSET Clients :
                  position' = [d \in Clients |-> IF d \in lost THEN Away ELSE position[d]]
             /\ UNCHANGED made

Open(c) == /\ position[c] = Away
           /\ \E k \in 0..Len(log) : position' = [position EXCEPT ![c] = k]
           /\ UNCHANGED <<log, pending, made>>

Advance(c) == /\ position[c] # Away
              /\ position[c] < Len(log)
              /\ position' = [position EXCEPT ![c] = @ + 1]
              /\ UNCHANGED <<log, pending, made>>

\* The client goes away, or an edit it left behind is lost.
Lose(c) == /\ \E n \in 0..Len(pending[c]) :
                pending' = [pending EXCEPT ![c] = SubSeq(@, 1, n)]
           /\ position' = [position EXCEPT ![c] = Away]
           /\ UNCHANGED <<log, made>>

Next == \E c \in Clients : Edit(c) \/ Commit(c) \/ Open(c) \/ Advance(c) \/ Lose(c)

Spec == Init /\ [][Next]_vars

=============================================================================
