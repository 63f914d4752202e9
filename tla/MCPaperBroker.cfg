CONSTANTS
    t1 = t1
    t2 = t2
    Tickers <- MCTickers
    Quotes <- MCQuotes
    Quantities <- MCQuantities
    Limits <- MCLimits
    StartingCash = 146
    MaxTrades = 3
SPECIFICATION BrokerSpec
INVARIANTS BrokerTypeOK CashMatchesHistory PositionsMatchRows NeverOverdrawn
PROPERTY ImplementsLedger
