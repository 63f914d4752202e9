CONSTANTS
    Processes = {"operator"}
    Scopes = {"BTC:perp:c"}
    Default = "observe"
    MaxRows = 3
SPECIFICATION Spec
INVARIANT PaperIsEarned
\* Every history is full: the model stops.
CHECK_DEADLOCK FALSE
