SPECIFICATION Spec
CONSTANTS
    Connection = {c1}
    StatementName = {s0, s1}
    Unnamed = s0
    Unparsed = unparsed
    Params = {p1, p2, p3}
    NoParams = p3
    p1 = p1
    p2 = p2
    p3 = p3
    s0 = s0
    s1 = s1
    NoSql = "none"
    NoTable = NoTable
    Sql <- MCSql
    About <- MCAbout
    Result <- MCResult
    NoRecording <- MCNoRecording
    RecordedExact <- MCExact
    RecordedLoose <- MCLoose
    RoundTrip <- MCRoundTrip
    MaxRoundTrips = 3
INVARIANTS
    RecordedOrder
CHECK_DEADLOCK FALSE
