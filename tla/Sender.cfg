SPECIFICATION FairSpec
CONSTANTS
    g1 = g1
    t1 = t1
    StartCalls = {g1}
    TermCalls = {t1}
    UpdateCalls = {}
INVARIANTS
    OutcomeTold
    RetryCarriesNewToken
    TakenAtMostOnce
    PanicExplained
PROPERTIES
    ImplementsNotifier
    EmissionEnds
CHECK_DEADLOCK FALSE
