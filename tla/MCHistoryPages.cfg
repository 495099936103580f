SPECIFICATION Spec
CONSTANTS
    Calls = {1, 2, 3, 4}
    NoCursor = NoCursor
    Limits = {0, 1, 3, 4}
    DefaultHistoryPageSize = 2
    MaxHistoryPageSize = 3
    MaxClock = 1
INVARIANTS
    TypeOK
    PagesAreOneList
    NothingIsPassedOver
PROPERTY ReadersFinish
CHECK_DEADLOCK FALSE
