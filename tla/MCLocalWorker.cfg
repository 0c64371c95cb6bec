\* One worker that may be restarted once, two edits, one fault, two daemons; a daemon that is
\* not followed leaves at most two processes.
SPECIFICATION WorkerSpec
CONSTANTS
    MaxRuntimes = 3
    MaxRestarts = 1
    Fingerprints = {1, 2}
    MaxEdits = 2
    MaxFaults = 1
    MaxLives = 1
    MaxLeft = 1
PROPERTY Converges
INVARIANTS
    WorkerInv
    ShutdownHolds
CHECK_DEADLOCK FALSE
