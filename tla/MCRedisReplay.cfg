SPECIFICATION Spec
CONSTANTS
    Connection = {c1, c2}
    Idle = idle
    Frame <- MCFrame
    Signature <- MCSignature
    Reply <- MCReply
    NoRecording <- MCNoRecording
    Recorded <- MCRecorded
    MaxSends = 4
INVARIANTS
    TypeOK
    RepliesMatchPositions
    StatsAgree
    NothingStuck
    AnswersFollowTheRecording
PROPERTIES
    ImplementsReplayService
    EveryCommandAnswered
CHECK_DEADLOCK FALSE
