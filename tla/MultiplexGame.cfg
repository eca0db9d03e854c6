SPECIFICATION FairSpec
CONSTANTS
    s1 = s1
    s2 = s2
    r1 = r1
    Stoppers = {s1, s2}
    Requests = {r1}
    MaxWrites = 2
INVARIANTS
    OutcomeReported
    NothingRunsAfterRun
    CredentialsEnd
    LogFollowsFile
PROPERTIES
    RunEnds
CHECK_DEADLOCK FALSE
