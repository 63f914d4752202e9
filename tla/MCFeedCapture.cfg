CONSTANTS
    Kinds = {"trade", "book", "mark", "index", "funding", "estimate"}
    Feeds = {1, 2}
    MaxListed <- MCMaxListed
    PageLimit = 1
    MaxPages = 2
    Threshold = 1
    CommitEvery = 2
    MaxClock = 2
    MaxStarts = 2
SPECIFICATION Spec
INVARIANTS TypeOK StoredOnceInOrder GapsAreTheJumps HolesAreExplained
CHECK_DEADLOCK FALSE
