------------------------- MODULE MCLedgerMigration -------------------------
(* Constants for TLC.                                                      *)
EXTENDS LedgerMigration, TLC

CONSTANTS p1, p2, r1, r2, i1, i2

Row(r, i) == [run |-> r, item |-> i]

(* A ledger of two runs, one with a row that cannot be moved, an empty one. *)
OlderTables == {{Row(r1, i1), Row(r2, i2)}, {Row(r1, i2), Row(r2, i1)}, {}}

Mismatched == {Row(r2, i1)}

Symmetry == Permutations({p1, p2})
=============================================================================
