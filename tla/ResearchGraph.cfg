\* Two processes, a thread of each graph.
SPECIFICATION Spec
CONSTANTS
    p1 = p1
    p2 = p2
    t1 = t1
    t2 = t2
    Procs = {p1, p2}
    Threads = {t1, t2}
    Deployments <- Pairs
    Inputs <- Given
    MaxRuns = 2
    MaxCalls = 2
    MaxStarts = 2
    MaxFaults = 1
    MaxAnswers = 2
    MaxAhead <- PutsAhead
    NoThread = NoThread
    NoCheckpoint = NoCheckpoint
    NoValues = NoValues
INVARIANTS
    TraceIsPath
    FinalizedWasApproved
    AnswerWasRecorded
PROPERTY
    ProgressIsDurable
SYMMETRY Symmetry
CHECK_DEADLOCK FALSE
