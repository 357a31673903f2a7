CONSTANTS
    PageSize = 2
    TransferBlockSize = 4
    MaxFiles = 3
    Lengths = {1, 4, 5}
    FileSets <- MCFileSets
    PastEndLengths = {0, 3}
SPECIFICATION FairSpec
INVARIANTS
    NoWrongByte
    BlocksInBounds
    OffsetWithinLength
    TasksDisjoint
    SuccessIsConcatenation
    OverrunNeedsSharedTail
PROPERTY ReturnsUnlessOverrun
