---------------------------- MODULE OrderedSets ----------------------------
(* Finite sets of numbers as sequences, and what they pick of a sequence.  *)
EXTENDS Naturals, Sequences, FiniteSets

(* The elements of S in their order. *)
Ascends(f) == \A i, j \in DOMAIN f : i < j => f[i] < f[j]
Sorted(S) == CHOOSE f \in [1 .. Cardinality(S) -> S] : Ascends(f)

(* The elements of s at some of its places, in their order. *)
At(s, places) == [i \in 1 .. Cardinality(places) |-> s[Sorted(places)[i]]]
=============================================================================
