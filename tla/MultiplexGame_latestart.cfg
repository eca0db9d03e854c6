SPECIFICATION FairSpec
CONSTANTS
    s1 = s1
    r1 = r1
    Stoppers = {s1}
    Requests = {r1}
    MaxWrites = 0
PROPERTIES
    StopStopsGame
CHECK_DEADLOCK FALSE
