SPECIFICATION FairSpec
CONSTANTS
    Files <- MCFiles
    Pieces <- MCPieces
    Span <- MCSpan
    Extractable = {1, 2}
    SubBuf = 1
    InputCap = 1
    Target = 4
    MaxGen = 2
    Plays <- MCPlays
CHECK_DEADLOCK FALSE
INVARIANTS NoMissedFile DocumentsRight ChunksFaithful
PROPERTY QueuedEventually
