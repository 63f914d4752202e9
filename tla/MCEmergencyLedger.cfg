CONSTANTS
    Processes = {"console", "run"}
    Sources = {"drawdown", "operator"}
    Checks = {"fresh", "clean"}
    MaxRows = 4
SPECIFICATION Spec
INVARIANTS TypeOK ResumesNameAHalt
PROPERTY LiftedAsRead
\* The ledger is full and every process is idle: the model stops.
CHECK_DEADLOCK FALSE
