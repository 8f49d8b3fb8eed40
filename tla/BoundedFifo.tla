----------------------------- MODULE BoundedFifo -----------------------------
(***************************************************************************)
(* Abstract specification: a queue of bounded length.                      *)
(***************************************************************************)
EXTENDS Naturals, Sequences

CONSTANTS Capacity, Elements
VARIABLE q

Init == q = <<>>

Put(x) == Len(q) < Capacity /\ q' = Append(q, x)
Get == q # <<>> /\ q' = Tail(q)

Next == Get \/ \E x \in Elements : Put(x)

Spec == Init /\ [][Next]_q
=============================================================================
