-------------------------- MODULE MCCreationCycle --------------------------
EXTENDS CreationCycle, TLC

CONSTANTS c1, c2, c3, i1, i2, i3

(* The scripted cycles, and the task ids, are interchangeable.             *)
Interchangeable == Permutations(Scripted) \cup Permutations(TaskIds)

(* Passed, failed tests, killed by signal 9.                               *)
Exits == {0, 1, -9}
=============================================================================
