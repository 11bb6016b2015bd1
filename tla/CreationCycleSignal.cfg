SPECIFICATION Spec
CONSTANTS
    c1 = c1
    c2 = c2
    c3 = c3
    i1 = i1
    i2 = i2
    i3 = i3
    Cycles = {c1, c2, c3}
    Scripted = {c1, c2}
    TaskIds = {i1, i2, i3}
    ExitCodes <- Exits
    NoCycle = NoCycle
    NoTask = NoTask
SYMMETRY Interchangeable
INVARIANT
    OnlyPassingPromoted
CHECK_DEADLOCK FALSE
