CONSTANTS
    NumProcessors = 0
    MaxChunks = 2
    Errors = {5}
    StartErrors = {11}
SPECIFICATION Spec
INVARIANT ExitStatus
