SPECIFICATION FairSpec
CONSTANTS
    s1 = s1
    N = 2
    ReadyChecked = {1}
    Stoppers = {s1}
    StopCanFail = TRUE
INVARIANTS
    OrphansExplained
    CleanReturnJustified
    LateStartBound
    ReadyGate
    ReverseOrder
    CleanupAfterRun
    NothingLeft
PROPERTIES
    RunEnds
    StopReturns
