CONSTANTS
    PausePct = 15
    HaltPct = 40
    InitialEquity = 10
    PeakWindow = 2
    MaxDailyLoss = 2
    MaxLosses = 2
    DayLength = 2
    MaxEntries = 1
    EntryWindow = 2
    Markets = {m1, m2, m3}
    Pnls <- MCPnls
    MaxTime = 3
    MaxRestarts = 1
SPECIFICATION LoopSpec
INVARIANT ThrottleHolds
PROPERTY GateIsCurrent
\* The clock is at its end and the process has left: the model stops.
CHECK_DEADLOCK FALSE
