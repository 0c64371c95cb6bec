\* Two turns and two crashes.
SPECIFICATION TraceSpec
CONSTANTS
    Turns = {t1, t2}
    Length = 2
    AckLimit = 1
    NoTurn = NoTurn
    MaxCrash = 2
SYMMETRY Symmetry
INVARIANTS
    TraceInv
    CommittedRecoverable
    AcknowledgedTurnsComplete
    NoCompletedTurnLeftBehind
CHECK_DEADLOCK FALSE
