CONSTANTS
    Accounts = {"A", "B", "C"}
    Sports = {"C"}
    Assets = {"btc"}
    Pilot = "pilot"
    AssetOf <- MCAssetOf
    Quotes <- MCQuotes
    StartingCash <- MCStartingCash
    MaxTrades = 3
    MaxStarts = 4
SPECIFICATION Spec
INVARIANT ReconcileEnds
CHECK_DEADLOCK FALSE
