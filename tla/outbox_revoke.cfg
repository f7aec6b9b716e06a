SPECIFICATION Spec
CONSTANTS
    Routes = {r1, r2}
    Workers = {w1}
    PerObject = TRUE
    Modes = {"normal"}
    Forces = {FALSE}
    BadGens = {}
    Events = {"compact"}
    MaxGen = 4
    MaxEntries = 4
    MaxSeq = 3
    MaxEpoch = 1
    MaxSource = 1
SYMMETRY RoutePermutations
INVARIANTS UnownedIsNeverRetracted DeletionAuthorityIsKept
PROPERTIES DeliveryIsKept ReownershipStopsTheSend CompactionKeepsTheFold
CHECK_DEADLOCK FALSE
