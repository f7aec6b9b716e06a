SPECIFICATION FairSpec
CONSTANTS
    Workers = {w1}
    Devices = {d1, d2}
    None = None
    MaxJobs = 2
    MaxStores = 2
    MaxFlips = 0
    MaxMoves = 2
    MaxFaults = 1
    PageSize = 1
    History = 0
    Landings <- FeedLandings
INVARIANT CursorPassesOnlyDecided
PROPERTY EveryHeadIsDecidedOrShown
CHECK_DEADLOCK FALSE
