SPECIFICATION Spec
CONSTANTS
    Texts <- AllTexts
    ChunkSize = 5
    Overlap = 3
    MinChunk = 3
    Joint = 1
    MaxSentences = 5
    TokenCounts = {1, 2, 3, 6}
INVARIANTS
    OnlyShortTextLost
    ChunksOverlap
    ChunksAdvance
CHECK_DEADLOCK FALSE
