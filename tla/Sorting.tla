------------------------------ MODULE Sorting ------------------------------
(***************************************************************************)
(* Go's stable sort, as the fallback order and the ranking of a node check *)
(* use it.                                                                 *)
(***************************************************************************)
EXTENDS Naturals, FiniteSets

\* sort.SliceStable: the positions S in the order R, a set of pairs.
sorted(S, R) ==
    CHOOSE p \in [1..Cardinality(S) -> S] :
        \A i, j \in DOMAIN p : i < j => <<p[i], p[j]>> \in R

=============================================================================
