--------------------------- MODULE MCEvidenceRun ---------------------------
(* Instances of EvidenceRun for TLC.                                       *)
EXTENDS EvidenceRun, TLC

CONSTANTS p1, p2, r1, r2, today

(* A scheduled invocation and its retry share a run id.                    *)
SameRun == p1 :> r1 @@ p2 :> r1

(* All reports are those of one day.                                       *)
SameDay == [p \in {p1, p2} |-> today]

(* Two scheduled invocations of different runs.                            *)
TwoRuns == p1 :> r1 @@ p2 :> r2

Symm2 == Permutations({p1, p2})
=============================================================================
