SPECIFICATION Spec
CONSTANTS
    MaxLine = 3
    MaxChunk = 4
    MaxStream = 7
INVARIANTS
    ShortLinesIntact
    EveryLineHasItsEntry
