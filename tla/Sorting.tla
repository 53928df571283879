------------------------------ MODULE Sorting ------------------------------
(***************************************************************************)
(* Selecting from a sequence and sorting it by a relation: what a filter   *)
(* and a stable sort make of it, said without an algorithm.                *)
(***************************************************************************)
EXTENDS Naturals, FiniteSets

\* The elements of s at the positions P, in the order in which `before`, a set of
\* pairs of positions, puts them: the n-th has n - 1 before it.
Arrange(s, P, before) ==
    [n \in 1..Cardinality(P) |->
        s[CHOOSE p \in P : Cardinality({q \in P : <<q, p>> \in before}) = n - 1]]

SortBy(s, before) == Arrange(s, DOMAIN s, before)

\* The elements at the positions P, in the order they had.
Select(s, P) == Arrange(s, P, {p \in P \X P : p[1] < p[2]})
=============================================================================
