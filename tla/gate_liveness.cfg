SPECIFICATION FairSpec
CONSTANTS
    Sessions = {s1, s2}
    Commands = {c1, c2}
    Programs = {"prepare", "restore", "verify", "abort"}
    Events = {}
    MaxDepth = 2
    NoCommand = NoCommand
PROPERTIES ActivationGetsIn
