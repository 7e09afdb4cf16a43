SPECIFICATION ChunkSpec
CONSTANTS
    InitialItems = 3
    MaxItems = 7
    MaxConcurrent = 2
    Candidates = 5
    ChunkSize = 2
INVARIANTS
    NoIdleWorker
    EveryCandidateOnce
    NoCandidateTwice
    ProgressAddsUp
PROPERTIES
    ImplementsRun
    ParseEnds
CHECK_DEADLOCK FALSE
