CONSTANTS
    a = a
    b = b
    out = out
    Procs = {p, q}
    Files = {a, b, out}
    Commands <- MCCommands
    MaxLength = 1
    Missing = Missing
    NoFile = NoFile
    NoProc = NoProc
    Zero = Zero
SPECIFICATION FairSpec
INVARIANTS
    TypeOK
    ExclusiveInputs
    ZeroMeansCopied
PROPERTIES
    TouchesOnlyWhenLocked
    InPlaceKeepsContent
    AllExit
CHECK_DEADLOCK FALSE
