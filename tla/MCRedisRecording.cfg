SPECIFICATION Spec
CONSTANTS
    Connection = {c1, c2}
    MayFail = {c2}
    Frame <- MCFrame
    SUBSCRIBE <- Subscribe
    SMEMBERS <- SMembers
    Resp3 = {c2}
    MaxCommands = 2
INVARIANTS
    TypeOK
    RelayIsExact
    OnlyStraysMispair
    SeenIsRecorded
    RecordedInCausalOrder
PROPERTIES
    EveryCommandRecorded
CHECK_DEADLOCK FALSE
