CONSTANTS
    PageSize = 2
    TransferBlockSize = 2
    MaxFiles = 3
    Lengths = {1, 2, 3, 4}
    FileSets <- MCFileSets
    ProcessorCounts = {2}
    SizeModulus = 64
SPECIFICATION Spec
INVARIANT NoFiller
