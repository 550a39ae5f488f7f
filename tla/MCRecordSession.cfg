SPECIFICATION Spec
CONSTANTS
    Call = {x1, x2}
    Chunk <- MCChunk
    MaxBytes = 2
    NoText = NoText
    MaxChunks = 2
    Listeners = 2
    MaxInteractions = 1
    NotWritten = NotWritten
INVARIANTS
    TypeOK
    BodyIsWholeOrAbsent
    RecordedOnceWhole
    CaptureOutlivesTheApp
PROPERTIES
    StopIsHonoured
CHECK_DEADLOCK FALSE
