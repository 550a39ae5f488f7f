SPECIFICATION Spec
CONSTANTS
    Connection = {c1, c2}
    MayFail = {}
    Pipelining = {c2}
    MayAskForTls = {c1}
    StatementName = {s0, s1}
    Unnamed = s0
    Unparsed = unparsed
    Params = {p0, p1}
    NoParams = p0
    p0 = p0
    p1 = p1
    s0 = s0
    s1 = s1
    Sql = {"count", "hit"}
    NoSql = "none"
    Reads = {"count"}
    RoundTrip <- MCRoundTrip
    MaxRoundTrips = 3
    MaxDriven = 1
    MaxAheadTrips = 2
    MaxUnreadTrips = 2
    MisreadLength = 5
    Garbled <- MCGarbled
INVARIANTS
    TypeOK
    PairsAreRealUnlessPipelined
    AnsweredIsRecorded
PROPERTIES
    EveryStatementRecorded
CHECK_DEADLOCK FALSE
