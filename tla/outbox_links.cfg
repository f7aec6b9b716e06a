SPECIFICATION Spec
CONSTANTS
    Routes = {r1}
    Workers = {w1}
    PerObject = TRUE
    Modes = {"normal", "store_only"}
    Forces = {TRUE, FALSE}
    BadGens = {2}
    Events = {"degrade", "malform", "rebuild", "offboard", "remap"}
    MaxGen = 3
    MaxEntries = 3
    MaxSeq = 3
    MaxEpoch = 1
    MaxSource = 0
SYMMETRY RoutePermutations
INVARIANTS TypeOK
PROPERTIES DeliveryIsKept
CHECK_DEADLOCK FALSE
