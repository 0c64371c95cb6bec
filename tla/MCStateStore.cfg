SPECIFICATION FairSpec
CONSTANTS
    Inputs = {i1, i2}
    Keys = {k1}
    Vals = {v1}
    NoVal = NoVal
    Offsets = {0}
    Absent = Absent
    Holds = {h1, h2}
    MaxRevision = 2
    MaxCrash = 1
INVARIANTS
    IInv
    UnacceptedOutputNotCheckpointed
    PersistedIsOnDisk
PROPERTIES
    DiskOnlyAdvances
    ChangesReachDisk
CHECK_DEADLOCK FALSE
