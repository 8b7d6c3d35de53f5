SPECIFICATION Spec
CONSTANTS
    Call = {c1, c2}
    GodMode = TRUE
    MaxPair = 3
INVARIANTS
    SessionHolds
    RetryKeepsIdentity
    LogoutHolds
PROPERTIES
    CallsEnd
CHECK_DEADLOCK FALSE
