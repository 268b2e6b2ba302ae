CONSTANTS
    Vocabulary = {"stop", "close", "end"}
    Grids <- Wide
    NoGrid = NoGrid
    MaxNew = 2
    TargetTail = 10
    PrefillChunk = 2
    MaxTurns = 3
    NoFile = NoFile
    Torn = Torn
SPECIFICATION Spec
INVARIANTS SessionTypeOK RowsAreTheTokens StateIsOfTheTokens
PROPERTIES HistoryIsKept ToldIsOnDisk
