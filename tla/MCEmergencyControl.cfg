CONSTANTS
    PausePct = 15
    HaltPct = 40
    InitialEquity = 10
    PeakWindow = 2
    MaxDailyLoss = 2
    MaxLosses = 2
    DayLength = 2
    MaxEntries = 1
    EntryWindow = 2
    Equities = {5, 8, 10, 14}
    Pnls <- MCPnls
    MaxCalls = 4
    MaxTime = 3
SPECIFICATION Spec
INVARIANTS TypeOK TripsHoldUntilAHuman DrawdownFollowsItsPeaks LossGuardsFollowTheLog
\* The log is full and the clock at its end: the model stops.
CHECK_DEADLOCK FALSE
