SPECIFICATION Spec
CONSTANTS
    g1 = g1
    t1 = t1
    StartCalls = {g1}
    TermCalls = {t1}
    Targets = 1
    QuickSave = TRUE
    SpanCanFail = FALSE
INVARIANTS
    SaveCompletesBeforeStop
CHECK_DEADLOCK FALSE
