SPECIFICATION Spec
CONSTANTS
    Procs = {p1, p2, p3}
    Pids = {n1, n2}
    NoFile = NoFile
SYMMETRY Symmetry
INVARIANTS
    LockInv
    HolderIsNamed
CHECK_DEADLOCK FALSE
