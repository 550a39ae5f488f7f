SPECIFICATION Spec
CONSTANTS
    MaxInt32 = 100
    MaxSafe = 200
    Fraction = Fraction
    NotANumber = NotANumber
    Infinite = Infinite
    NegativeZero = NegativeZero
    FarAway = FarAway
    Now = Now
    Explanation = Explanation
    Setups <- MCSetups
INVARIANTS
    TypeOK
    PairedById
    ReplayRepeatsTheRecording
    MissesAreNamed
CHECK_DEADLOCK FALSE
