SPECIFICATION Spec
CONSTANTS
    Calls = {1, 2, 3}
    NoCursor = NoCursor
    DefaultHistoryPageSize = 1
    ActorIds = {a1, a2}
    Everyone = Everyone
    Filters = {Everyone, a1}
    Null = Null
    MaxLoads = 4
INVARIANTS
    ShownCallsAreOneList
    EveryCallHasAName
PROPERTY LoadingEnds
CHECK_DEADLOCK FALSE
