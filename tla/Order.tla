------------------------------- MODULE Order -------------------------------
(***************************************************************************)
(* The loops of the mapper that go through a vector and keep some of its   *)
(* elements: the positions kept, in the order of the vector.               *)
(***************************************************************************)
EXTENDS Integers, FiniteSets

InOrder(S) ==
    [j \in 1 .. Cardinality(S) |->
        CHOOSE k \in S : Cardinality({l \in S : l <= k}) = j]

(* The elements of S one by one, each before those it is Less than. *)
ListedBy(S, Less) ==
    [j \in 1 .. Cardinality(S) |->
        CHOOSE x \in S : Cardinality({y \in S : <<y, x>> \in Less}) = j - 1]
=============================================================================
