SPECIFICATION Spec
CONSTANTS
    Call = {x1, x2}
    Chunk <- MCChunk
    MaxBytes = 2
    NoText = NoText
    MaxChunks = 1
    Listeners = 2
    MaxInteractions = 1
    NotWritten = NotWritten
INVARIANTS
    CaptureIsWritten
CHECK_DEADLOCK FALSE
