SPECIFICATION Spec
CONSTANTS
    Directories <- MCDirectories
    Home <- MCHome
    ArgNames = {n1, n2}
    n1 = n1
    n2 = n2
    Positions = {0, 1, 2}
    MaxDefaults = 2
    MaxCliArgs = 2
    MaxConfigured = 2
INVARIANTS
    ArgumentsRight
    LaterEntriesWin
PROPERTIES
    CheckedIsStarted
CHECK_DEADLOCK FALSE
