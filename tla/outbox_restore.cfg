SPECIFICATION FairRestoreSpec
CONSTANTS
    Routes = {r1}
    Workers = {w1}
    PerObject = TRUE
    Modes = {"normal"}
    Forces = {FALSE}
    BadGens = {}
    Events = {"crash","shut"}
    MaxGen = 2
    MaxEntries = 3
    MaxSeq = 8
    MaxEpoch = 1
    MaxSource = 0
    Batch = 2
    MaxGap = 3
INVARIANTS RestoreResolves
PROPERTIES EventuallyDelivered
CHECK_DEADLOCK FALSE
