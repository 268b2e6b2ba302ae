CONSTANTS
    Vocabulary = {"stop", "close", "end", "text"}
    Grids <- Wide
    NoGrid = NoGrid
    MaxNew = 2
    TargetTail = 6
    PrefillChunk = 2
    MaxTurns = 2
    NoFile = NoFile
    Torn = Torn
SPECIFICATION Spec
INVARIANTS PositionsConsecutive

