CONSTANTS
    a = a
    b = b
    out = out
    Procs = {p, q}
    Files = {a, b, out}
    Commands <- MCCommands
    MaxLength = 1
    Missing = Missing
    NoFile = NoFile
    NoProc = NoProc
    Zero = Zero
SPECIFICATION FairSpec
PROPERTY NotChangedFromUnder
CHECK_DEADLOCK FALSE
