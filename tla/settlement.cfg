SPECIFICATION Spec
CONSTANTS
    Workers = {w1, w2}
    Devices = {d1}
    None = None
    MaxJobs = 2
    MaxStores = 2
    MaxFlips = 1
    MaxMoves = 1
    MaxFaults = 0
    PageSize = 2
    History = 1
    Landings <- MCLandings
SYMMETRY Symmetry
INVARIANT TypeOK
INVARIANT OpenIssueIsTheDiagnostic
INVARIANT ReleasedStallIsNotShown
INVARIANT ResolvedIsSettled
PROPERTY DecidedOnce
CHECK_DEADLOCK FALSE
