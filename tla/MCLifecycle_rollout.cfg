SPECIFICATION Spec
CONSTANTS
    Calls = {c1}
    Timeout = 2
    RetryMax = 1
    Grace = 1
INVARIANT RolloutsCutNoCall
CHECK_DEADLOCK FALSE
