SPECIFICATION Spec
CONSTANTS
    Sids = {n1}
    Requests = {r1}
    Null = Null
    MaxVouches = 2
PROPERTY SessionsComeFromLogin
CHECK_DEADLOCK FALSE
