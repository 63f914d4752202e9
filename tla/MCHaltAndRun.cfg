CONSTANTS
    Order <- MCOrder
    Lifecycle <- MCLifecycle
    Windows <- MCWindows
    MaxRuns = 1
    MaxMishaps = 0
    Processes = {"console"}
    Sources = {"operator"}
    Checks = {"clean"}
    MaxRows = 1
SPECIFICATION BothSpec
PROPERTY NoFillWhileHalted
CHECK_DEADLOCK FALSE
