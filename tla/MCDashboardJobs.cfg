CONSTANTS
    Names = {"tests", "lint"}
    Requests = {1}
    KeepJobs = 2
    MaxJobs = 3
    MaxRestarts = 2
    MaxFaults = 2
    MaxEngines = 1
SPECIFICATION JobsSpec
PROPERTIES JobsEnd OutcomesAreKept
CHECK_DEADLOCK FALSE
