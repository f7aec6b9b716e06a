SPECIFICATION Spec
CONSTANTS
    Routes = {r1}
    Workers = {w1, w2}
    PerObject = TRUE
    Modes = {"normal", "backfill"}
    Forces = {FALSE}
    BadGens = {}
    Events = {"crash", "expire", "shut"}
    MaxGen = 3
    MaxEntries = 3
    MaxSeq = 3
    MaxEpoch = 1
    MaxSource = 0
SYMMETRY WorkerPermutations
INVARIANTS ConsumedRowsNameTheLiveClaim OneOperationPerSequence
PROPERTIES RetiredOnlyWhenAccepted DetachIsRecorded
CHECK_DEADLOCK FALSE
