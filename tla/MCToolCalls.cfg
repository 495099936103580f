SPECIFICATION Spec
CONSTANTS
    ActorIds = {a1}
    CredIds = {c1}
    Requests = {r1, r2}
    Null = Null
    NoToken = NoToken
    StrayToken = StrayToken
INVARIANTS
    TypeOK
    HistoryIsAttributable
PROPERTIES
    HistoryIsAppendOnly
    ImplementsLog
    ReturnedCallsAreLogged
    CallsAreAnswered
    AuthenticationUnchanged
CHECK_DEADLOCK FALSE
