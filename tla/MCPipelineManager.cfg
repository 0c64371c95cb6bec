SPECIFICATION FairPipelineSpec
CONSTANTS
    p = p
    q = q
    Names <- MCNames
    MaxEdits = 2
    MaxFailures = 1
INVARIANTS
    ManagerInv
    StopLeavesNothing
PROPERTIES
    FollowsDirectory
    ManagerStops
CHECK_DEADLOCK FALSE
