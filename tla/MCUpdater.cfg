SPECIFICATION FairUpdaterSpec
CONSTANTS
    Feed <- MCFeed
    MaxDirs = 7
    MaxFaults = 1
    MaxRollbacks = 1
INVARIANTS
    UpdaterInv
    SettledConsistent
PROPERTIES
    ConfirmedRunsNew
    UpToDate
CHECK_DEADLOCK FALSE
