--------------------------- MODULE MCResearchGraph ---------------------------
(* Constants for TLC.                                                      *)
EXTENDS ResearchGraph, TLC

CONSTANTS t1, t2, p1, p2

Symmetry == Permutations(Procs)

(* A short graph beside each of the others, to lose or keep.               *)
Pairs == {t1 :> g @@ t2 :> "planner" : g \in {"main", "llm"}}

(* Runs that need approval and loop once.                                  *)
Given == {[needs |-> TRUE, reject |-> TRUE, revise |-> FALSE]}

(* An answer may wait while the graph that asked for it goes on.           *)
PutsAhead == [g \in Graphs |-> IF g = "llm" THEN 2 ELSE 1]
=============================================================================
