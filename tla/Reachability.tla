---------------------------- MODULE Reachability ----------------------------
(***************************************************************************)
(* What a worklist should arrive at: the nodes S have successors, and      *)
(* everything from which nothing new is reached is left alone.             *)
(***************************************************************************)
EXTENDS Naturals, FiniteSets

\* Everything reached from `from` in at most n steps along the successors succ[x]
\* of the nodes x in S.
Within(n, S, succ, from) ==
    LET level[k \in 0..n] ==
            IF k = 0 THEN from
            ELSE LET reached == level[k - 1]
                 IN  reached \cup UNION {succ[x] : x \in reached \cap S}
    IN  level[n]

\* Everything reached: there are no more steps than nodes.
Reached(S, succ, from) == Within(Cardinality(S), S, succ, from)
=============================================================================
