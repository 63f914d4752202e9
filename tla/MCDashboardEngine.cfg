CONSTANTS
    Names = {"tests", "lint"}
    Requests = {1, 2}
    KeepJobs = 2
    MaxJobs = 3
    MaxRestarts = 2
    MaxFaults = 2
    MaxEngines = 2
SPECIFICATION JobsSpec
INVARIANTS JobsTypeOK OneEngine
CHECK_DEADLOCK FALSE
