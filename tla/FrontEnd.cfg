CONSTANTS
    Options <- MCOptions
    Numbers <- MCNumbers
    Lists <- MCLists
    Algorithms = {"blockLinear", "chunkSpans"}
    NotDecimal = NotDecimal
    Nothing = Nothing
    ArgLists <- MCArgLists
    MaskBits = 3
    MaxGroups = 2
    Masks <- MCMasks
SPECIFICATION Spec
INVARIANTS
    TypeOK
    ParsesItsGrammar
    InputsAreWords
    LimitsUsable
    ProcessorsAsAsked
    WorkersApart
PROPERTY FrontEndEnds
CHECK_DEADLOCK FALSE
