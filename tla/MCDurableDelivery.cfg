SPECIFICATION DeliverySpec
CONSTANTS
    Inputs = {codex, plain}
    Codex = {codex}
    Outputs = {sls}
    DurableOutputs = {sls}
    MaxRecords = 2
    Offsets = {0, 1, 2}
    Keys = {}
    Vals = {}
    NoVal = NoVal
    Absent = Absent
    Holds = {h1}
    NoHold = NoHold
    MaxRevision = 2
    MaxCrash = 1
INVARIANTS
    DeliveryInv
PROPERTIES
    HandedInOrder
CHECK_DEADLOCK FALSE
