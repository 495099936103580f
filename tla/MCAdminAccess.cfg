SPECIFICATION Spec
CONSTANTS
    Sids = {n1}
    Requests = {r1, r2}
    Null = Null
    MaxVouches = 2
INVARIANTS
    TypeOK
    RoleChangesTakeEffect
PROPERTIES
    SessionsUnchanged
    RequestsAreAnswered
CHECK_DEADLOCK FALSE
