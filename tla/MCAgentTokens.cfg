SPECIFICATION Spec
CONSTANTS
    ActorIds = {a1, a2}
    CredIds = {c1, c2}
    Requests = {r1, r2}
    Null = Null
    NoToken = NoToken
    StrayToken = StrayToken
    MaxClock = 1
INVARIANTS
    TypeOK
    NoLateAdmission
    AdmittedAsOwner
    NoFalseRefusal
    LastUsedIsEarned
PROPERTIES
    RevocationIsFinal
    ImplementsGate
SYMMETRY Symmetry
CHECK_DEADLOCK FALSE
