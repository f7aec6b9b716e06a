SPECIFICATION FairSpec
CONSTANTS
    shared = n1
    Devices = {d1}
    Names = {n1, n2}
    NodeName <- SharedName
    Bodies = {b1}
    Operators = {o1}
    Sweepers = {s1}
    Racers = {}
    FleetSweepers = {s1}
    Events = {"crash", "outage", "age"}
    MaxAttempts = 2
    MaxMoves = 1
    MaxFaults = 1
    NoRow = NoRow
PROPERTY EveryAttemptCloses
CHECK_DEADLOCK FALSE
