SPECIFICATION FairSpec
CONSTANTS
    g1 = g1
    g2 = g2
    t1 = t1
    t2 = t2
    StartCalls = {g1, g2}
    TermCalls = {t1, t2}
    Targets = 2
    QuickSave = TRUE
    SpanCanFail = TRUE
INVARIANTS
    SavesCompleteBeforeOwnStop
    DoubleSaveOnlyByRace
    SaveNeedsSession
PROPERTIES
    TerminateStopsGame
    StartRunsGame
    CloseReturns
CHECK_DEADLOCK FALSE
