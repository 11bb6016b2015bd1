SPECIFICATION Spec
CONSTANTS
    r1 = r1
    r2 = r2
    t1 = t1
    t2 = t2
    NoRun = NoRun
    Runs = {r1, r2}
    Trades = {t1, t2}
    Pnl <- GainAndLoss
    MaxSplits = 2
    MinTrades = 2
    MinSplits = 2
    CharterLoss = 1
    LossBudgets = {1, 2}
SYMMETRY SameRuns
INVARIANTS
    ReadyOnDistinctEvidence
    WeakEvidenceBars
PROPERTY
    ReadyOnCleanLedger
