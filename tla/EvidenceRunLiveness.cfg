\* Two runs of one day, write faults and crashes: every invocation ends.
SPECIFICATION FairSpec
CONSTANTS
    p1 = p1
    p2 = p2
    r1 = r1
    r2 = r2
    today = today
    Procs = {p1, p2}
    RunIds = {r1, r2}
    RunOf <- TwoRuns
    Reports = {today}
    ReportOf <- SameDay
    NoProc = NoProc
    Blank = Blank
    Unlocked = {}
    Faulty = {p1}
PROPERTIES InvocationEnds
CHECK_DEADLOCK FALSE
