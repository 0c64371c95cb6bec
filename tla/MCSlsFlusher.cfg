SPECIFICATION FairFlusherSpec
CONSTANTS
    Endpoints <- MCEndpoints
    ChunkLogs <- MCChunkLogs
    SplitByType <- MCSplitByType
    AgentType <- MCAgentType
    MaxEntries = 2
    MaxDrops = 1
    CodexLogs = 2
    BatchMaxSize = 2
    FlushConcurrency = 1
    RetryMaxAttempts = 2
INVARIANTS
    BooksBalance
    AcceptedIsWritten
    ShutdownSettles
PROPERTIES
    EntriesSettle
CHECK_DEADLOCK FALSE
