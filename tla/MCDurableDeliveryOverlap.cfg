SPECIFICATION FairDeliverySpec
CONSTANTS
    Inputs = {codex}
    Codex = {codex}
    Outputs = {sls, jsonl}
    DurableOutputs = {sls}
    MaxRecords = 2
    Offsets = {0, 1, 2}
    Keys = {}
    Vals = {}
    NoVal = NoVal
    Absent = Absent
    Holds = {h1, h2}
    NoHold = NoHold
    MaxRevision = 2
    MaxCrash = 1
PROPERTIES
    ImplementsAtLeastOnce
    CodexRecordsCheckpointed
CHECK_DEADLOCK FALSE
