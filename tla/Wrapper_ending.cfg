SPECIFICATION Spec
CONSTANTS
    g1 = g1
    StartCalls = {g1}
    TermCalls = {}
    UpdateCalls = {}
    Targets = 1
    QuickSave = FALSE
    SpanCanFail = FALSE
    Readiness = FALSE
    EmitEvents = FALSE
    SendCanFail = FALSE
    CopyCanFail = FALSE
INVARIANTS
    GameEndIsReported
CHECK_DEADLOCK FALSE
