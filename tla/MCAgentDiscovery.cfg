SPECIFICATION FairDiscoverySpec
CONSTANTS
    Inputs = {i1}
    Keys = {}
    Vals = {}
    NoVal = NoVal
    Offsets = {0}
    Absent = Absent
    Holds = {h1}
    MaxRevision = 1
    MaxCrash = 0
    Threshold = 2
INVARIANTS
    DiscoveryInv
    ShutdownIsFinal
PROPERTIES
    ShutdownEnds
CHECK_DEADLOCK FALSE
