SPECIFICATION FairSpec
CONSTANTS
    g1 = g1
    t1 = t1
    u1 = u1
    StartCalls = {g1}
    TermCalls = {t1}
    UpdateCalls = {u1}
    Readiness = FALSE
    EmitEvents = FALSE
    SendCanFail = FALSE
    CopyCanFail = TRUE
PROPERTIES
    CloseEndsProcess
CHECK_DEADLOCK FALSE
