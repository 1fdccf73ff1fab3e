SPECIFICATION Spec

CONSTANTS
    Open = Open
    Close = Close
    Word = Word
    Texts <- AllTexts
    Files <- Messages
    ChunkSize = 2
    BatchSize = 2
    MaxLines = 1
    MaxLength = 6
    MaxCrashes = 0

PROPERTIES
    PassRemoves

CHECK_DEADLOCK FALSE
