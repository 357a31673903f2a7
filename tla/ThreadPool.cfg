CONSTANTS
    NumProcessors = 2
    MaxChunks = 3
    Errors = {5, 22}
    StartErrors = {11}
SPECIFICATION FairSpec
INVARIANTS
    TypeOK
    PopFindsWork
    ChunkRunOnce
    ReadyAfterConstruct
    ExitStatus
    PoolDestroyedIdle
PROPERTIES
    ImplementsService
    AwakeWorkersJoin
