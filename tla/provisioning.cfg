SPECIFICATION Spec
CONSTANTS
    shared = n1
    Devices = {d1, d2}
    Names = {n1, n2}
    NodeName <- SharedName
    Bodies = {b1}
    Operators = {o1}
    Sweepers = {s1, s2}
    Racers = {s2}
    FleetSweepers = {s1}
    Events = {"lost", "late", "refused", "outage", "denied", "unmanage", "age"}
    MaxAttempts = 2
    MaxMoves = 2
    MaxFaults = 1
    NoRow = NoRow
SYMMETRY Interchangeable
INVARIANTS TypeOK ProvisioningRowIsTracked EvidenceFitsTheRow
PROPERTIES SweepSparesTheOwner OffboardLeavesNothing
CHECK_DEADLOCK FALSE
