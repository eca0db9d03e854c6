SPECIFICATION FairSpec
CONSTANTS
    g1 = g1
    t1 = t1
    StartCalls = {g1}
    TermCalls = {t1}
    UpdateCalls = {}
    Targets = 1
    QuickSave = FALSE
    SpanCanFail = FALSE
    Readiness = TRUE
    EmitEvents = TRUE
    SendCanFail = TRUE
    CopyCanFail = TRUE
INVARIANTS
    CleanExitIsComplete
    CrashesAreKnown
PROPERTIES
    SessionEndEndsProcess
    ImplementsSession
    ImplementsHarness
CHECK_DEADLOCK FALSE
