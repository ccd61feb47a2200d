------------------------------- MODULE Lists -------------------------------
(***************************************************************************)
(* JavaScript arrays as sequences: filter, by the places that are kept.    *)
(***************************************************************************)
EXTENDS Naturals, Sequences, FiniteSets

\* Place i is the n-th of the set of places.
Rank(places, i) == Cardinality({j \in places : j <= i})
Nth(places, n) == CHOOSE i \in places : Rank(places, i) = n

\* list.filter: what stands at the given places, in the same order.
Keep(list, places) == [n \in 1 .. Cardinality(places) |-> list[Nth(places, n)]]
=============================================================================
