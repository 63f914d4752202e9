CONSTANTS
    Order <- MCOrder
    Bull = "bull"
    Bear = "bear"
    Critical = {"risk"}
    MaxTokens <- MCMaxTokens
    MasterTokens = 3
    Budgets = {5, 7}
    FormatRetries = 1
    MaxConcurrency = 2
    Stances <- MCStances
    Usages = {0, 2}
    MaxProcesses = 2
SPECIFICATION Spec
INVARIANTS TypeOK TakeIsEarned FirstRoundIsPaidFor
PROPERTIES GivenVerdictsStand ReviewEnds
\* The last process has ended: the model stops.
CHECK_DEADLOCK FALSE
