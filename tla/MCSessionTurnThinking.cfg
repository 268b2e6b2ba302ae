CONSTANTS
    Vocabulary = {"stop", "close", "end", "text"}
    Grids <- None
    NoGrid = NoGrid
    MaxNew = 2
    TargetTail = 6
    PrefillChunk = 2
    MaxTurns = 1
    NoFile = NoFile
    Torn = Torn
SPECIFICATION Spec
INVARIANTS CancelledOutsideThinking

