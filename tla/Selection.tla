------------------------------ MODULE Selection ------------------------------
(* A part of a sequence, as filter() makes it. *)
EXTENDS Naturals, Sequences, FiniteSets

\* The elements of a sequence at these places, in their order.
PickedFrom(s, places) ==
    [k \in 1..Cardinality(places) |->
        s[CHOOSE i \in places : Cardinality({j \in places : j <= i}) = k]]
=============================================================================
