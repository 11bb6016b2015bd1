--------------------------- MODULE MCRolloutGate ---------------------------
EXTENDS RolloutGate, TLC

CONSTANTS r1, r2, t1, t2

GainAndLoss == [t \in Trades |-> IF t = t1 THEN 3 ELSE -2]

SameRuns == Permutations(Runs)

=============================================================================
