SPECIFICATION Spec
CONSTANTS
    f1 = f1
    f2 = f2
    Runner = Runner
    Operator = Operator
    NoRecord = NoRecord
    FamilyList <- TwoFamilies
    NeedsOI = {f2}
    Simulated = {f2}
    MaxAttempts = 2
    MaxMarks = 1
INVARIANTS
    MemoryBehindLedger
    CompletedRunMemoryMatches
    FailedSourceLeavesNoTrade
    MarkedFamilySkipped
PROPERTIES
    SkippedFamilyUntouched
CHECK_DEADLOCK FALSE
