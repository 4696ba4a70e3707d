------------------------------- MODULE Sorting -------------------------------
(***************************************************************************)
(* Python's sorted(), by rank: an element comes where as many are before   *)
(* it as come before it.                                                   *)
(***************************************************************************)
EXTENDS Integers, FiniteSets

\* The elements of a set in the order of `before`, a set of pairs.
Ordered(set, before) ==
    [k \in 1 .. Cardinality(set) |->
        CHOOSE x \in set : Cardinality({y \in set : <<y, x>> \in before}) = k - 1]
=============================================================================
