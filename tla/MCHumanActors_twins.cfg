SPECIFICATION Spec
CONSTANTS
    s1 = s1
    s2 = s2
    n1 = n1
    n2 = n2
    Null = Null
    Subjects = {s1, s2}
    Names = {n1, n2}
    Calls = {p1, p2}
    AgentIds = {}
    Claims <- OneClaim
INVARIANT SafeUnderConcurrentCalls
CHECK_DEADLOCK FALSE
