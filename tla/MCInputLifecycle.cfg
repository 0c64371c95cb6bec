SPECIFICATION FairLifecycleSpec
CONSTANTS
    Inputs = {i1}
    Keys = {}
    Vals = {}
    NoVal = NoVal
    Offsets = {0}
    Absent = Absent
    Holds = {h1, h2}
    MaxRevision = 2
    MaxCrash = 0
INVARIANTS
    LifecycleInv
    NoCollectionDuringCleanup
PROPERTIES
    StopEnds
CHECK_DEADLOCK FALSE
