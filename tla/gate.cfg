SPECIFICATION Spec
CONSTANTS
    Sessions = {s1, s2}
    Commands = {c1, c2, c3}
    Programs = {"prepare", "prepare_paired", "restore", "verify", "abort", "resume", "maintenance", "probe"}
    Events = {"timeout", "death"}
    MaxDepth = 2
    NoCommand = NoCommand
SYMMETRY Interchangeable
INVARIANTS TypeOK VerificationCoversTheGate
PROPERTIES FleetGateIsKept PairedGateNeedsItsVerification NobodyElsesGateIsReleased
