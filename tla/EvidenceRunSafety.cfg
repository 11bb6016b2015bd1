\* One run id, an invocation and its retry, faults and crashes.
SPECIFICATION Spec
CONSTANTS
    p1 = p1
    p2 = p2
    r1 = r1
    r2 = r2
    today = today
    Procs = {p1, p2}
    RunIds = {r1}
    RunOf <- SameRun
    Reports = {today}
    ReportOf <- SameDay
    NoProc = NoProc
    Blank = Blank
    Unlocked = {}
    Faulty = {p1, p2}
SYMMETRY Symm2
INVARIANTS PipelineExclusive ReportPrecedesVerdict 
PROPERTIES VerdictPublishedUnderLock HeldLockReleasedByHolder
CHECK_DEADLOCK FALSE
