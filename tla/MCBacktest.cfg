CONSTANTS
    Order <- MCOrder
    CloseTs <- MCCloseTs
    Result <- MCResult
    Candles <- MCCandles
    Decisions <- MCDecisions
    Quantities = {4, 9}
    Stride = 1
    EndTs = 6
    SplitTs = 4
    PausePct = 20
    HaltPct = 40
    InitialEquity = 500
    PeakWindow = 3
    MaxDailyLoss = 1
    MaxLosses = 1
    DayLength = 1
    MaxEntries = 1
    EntryWindow = 2
SPECIFICATION Spec
INVARIANTS TypeOK CashIsConserved TradesAreCausal RowsTellTheSettlements
CHECK_DEADLOCK FALSE
