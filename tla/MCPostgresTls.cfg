SPECIFICATION Spec
CONSTANTS
    Connection = {c1, c2}
    MaxMessages = 3
INVARIANTS
    TypeOK
    NothingLostInTheUpgrade
    TlsIsRecorded
    UnrecordedIsNamed
PROPERTIES
    UpgradeSettles
CHECK_DEADLOCK FALSE
