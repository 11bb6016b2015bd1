\* A migration cut off between its statements.
SPECIFICATION Spec
CONSTANTS
    p1 = p1
    p2 = p2
    r1 = r1
    r2 = r2
    i1 = i1
    i2 = i2
    Procs = {p1}
    Runs = {r1, r2}
    Items = {i1, i2}
    Legacies <- OlderTables
    Unreadable <- Mismatched
    MaxStarts = 2
    MaxCuts = 1
INVARIANT
    OpenedLedgerIsComplete
CHECK_DEADLOCK FALSE
