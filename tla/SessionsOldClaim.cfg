SPECIFICATION Spec
CONSTANTS
    Call = {c1, c2}
    Seed = seed
    Slug = {s1}
    Password = {p1, p2}
    Random = random
    None = none
INVARIANT OldSessionsEnd
CHECK_DEADLOCK FALSE
