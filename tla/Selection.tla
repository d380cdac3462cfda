----------------------------- MODULE Selection -----------------------------
(***************************************************************************)
(* What remove_if(), remove() and unique_copy() leave of a sequence: its   *)
(* elements at some places, in their order.                                *)
(***************************************************************************)
EXTENDS Naturals, FiniteSets

\* The n-th of the places.
Place(I, n) == CHOOSE i \in I : Cardinality({j \in I : j <= i}) = n

Selected(s, I) == [n \in 1..Cardinality(I) |-> s[Place(I, n)]]
=============================================================================
