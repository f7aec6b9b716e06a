SPECIFICATION Spec
CONSTANTS
    Routes = {r1, r2}
    Workers = {w1}
    PerObject = FALSE
    Modes = {"normal"}
    Forces = {FALSE}
    BadGens = {}
    Events = {"compact", "bypass", "unlink"}
    MaxGen = 2
    MaxEntries = 3
    MaxSeq = 2
    MaxEpoch = 1
    MaxSource = 0
SYMMETRY RoutePermutations
INVARIANTS NoSilentDetach UnownedIsNeverRetracted
CHECK_DEADLOCK FALSE
