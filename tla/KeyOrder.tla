------------------------------ MODULE KeyOrder ------------------------------
(***************************************************************************)
(* The order in which sets and maps are walked: core::set and core::map    *)
(* hold their keys side by side, each inserted where the ones before it    *)
(* end.                                                                    *)
(***************************************************************************)
EXTENDS Integers, SequencesExt

\* The elements of the set K by the order R, a set of pairs: each stands where
\* those that come before it leave off.
Sorted(K, R) ==
    [i \in 1 .. Cardinality(K) |->
        CHOOSE k \in K : Cardinality({l \in K : <<l, k>> \in R}) = i - 1]

\* The elements of a set<int>, or the keys of a map<int, ...>.
SortedInts(K) == Sorted(K, {p \in K \X K : p[1] < p[2]})
=============================================================================
