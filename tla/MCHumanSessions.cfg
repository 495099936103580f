SPECIFICATION Spec
CONSTANTS
    Sids = {n1}
    Requests = {r1, r2, r3}
    Null = Null
    MaxVouches = 4
INVARIANTS
    LogoutIsFinal
    HopelessRequestsAreRefused
    StoredTokenIsCurrent
PROPERTY ClaimsNeverGoBack
CHECK_DEADLOCK FALSE
