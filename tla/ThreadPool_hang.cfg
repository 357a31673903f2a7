CONSTANTS
    NumProcessors = 1
    MaxChunks = 1
    Errors = {5}
    StartErrors = {11}
SPECIFICATION FairSpec
PROPERTY FinishAlwaysReturns
