SPECIFICATION Spec
CONSTANTS
    Calls = {c1, c2}
    Timeout = 2
    RetryMax = 1
    Grace = 1
INVARIANTS
    TypeOK
    CallsAreBounded
PROPERTIES
    CutOnlyAfterGrace
    EverythingEnds
CHECK_DEADLOCK FALSE
