\* Three openings by two processes, one of them cut off.
SPECIFICATION Spec
CONSTANTS
    p1 = p1
    p2 = p2
    r1 = r1
    r2 = r2
    i1 = i1
    i2 = i2
    Procs = {p1, p2}
    Runs = {r1, r2}
    Items = {i1, i2}
    Legacies <- OlderTables
    Unreadable <- Mismatched
    MaxStarts = 3
    MaxCuts = 1
SYMMETRY Symmetry
INVARIANTS
    UndisturbedLedgerIsComplete
    MigrationIsAllOrNothing
CHECK_DEADLOCK FALSE
