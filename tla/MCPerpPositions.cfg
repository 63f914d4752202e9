CONSTANTS
    btc = btc
    eth = eth
    Assets <- MCAssets
    Marks <- MCMarks
    StoredMarks <- MCStoredMarks
    FundingMarks <- MCFundingMarks
    Orders <- MCOrders
    Carries <- MCCarries
    FundingRates <- MCFundingRates
    Scale = 1000
    FeeRate = 1
    Collateral = 10
    MaxLeverage = 2
    MarginRate = 5
    MaxGapPct = 40
    MinimumSize = 1
    MaxMarkAge = 0
    MaxClock = 1
    MaxPositions = 2
    MaxFundings = 1
    MaxStarts = 2
    MaxCaptures = 2
    Runs = {1, 2}
SPECIFICATION Spec
INVARIANTS TypeOK OpenIsHeld RiskExitsAreCovered RowsMatchEvents
PROPERTY ClosedIsFinal
CHECK_DEADLOCK FALSE
