SPECIFICATION Spec
CONSTANTS
    Connection = {c1}
    MaxMessages = 2
INVARIANTS
    AnswersAreRecorded
CHECK_DEADLOCK FALSE
