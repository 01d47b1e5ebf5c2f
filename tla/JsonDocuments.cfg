\* A document is edited, printed, freed, read back in pieces, changed and freed.
SPECIFICATION Spec
CONSTANTS
    Symbols = {"{", "}", "[", "]", ":", ","}
    WordSymbols = {}
    Ignorable = {" ", "LF"}
    Available = 3
    IntMax = 20
    Buffer = 8
    Bucket = 4
    Paths <- MCPaths
    Values <- MCValues
    Documents <- MCDocuments
    Edits = 2
    Changes = 1
    TrueWord <- MCTrueWord
    FalseWord <- MCFalseWord
INVARIANTS DocumentIsReadBack BlocksAreOwned SettersAreLocal WritesStayInside
CHECK_DEADLOCK FALSE
