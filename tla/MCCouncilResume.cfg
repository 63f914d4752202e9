CONSTANTS
    Order <- MCOrder
    Bull = "bull"
    Bear = "bear"
    Critical = {"risk"}
    MaxTokens <- MCMaxTokens
    MasterTokens = 3
    Budgets = {9}
    FormatRetries = 1
    MaxConcurrency = 2
    Stances <- MCStances
    Usages = {0}
    MaxProcesses = 2
SPECIFICATION Spec
INVARIANT DisputedIsHeld
\* The last process has ended: the model stops.
CHECK_DEADLOCK FALSE
