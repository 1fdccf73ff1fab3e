SPECIFICATION FairSpec

CONSTANTS
    Open = Open
    Close = Close
    Word = Word
    Texts <- AllTexts
    Files <- SomeFiles
    ChunkSize = 2
    BatchSize = 2
    MaxLines = 4
    MaxLength = 6
    MaxCrashes = 1

INVARIANTS
    TypeOK

CHECK_DEADLOCK FALSE
