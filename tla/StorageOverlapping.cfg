SPECIFICATION Spec
CONSTANTS
    Call = {c1, c2, c3, c4}
    Earlier = earlier
    Ttl = {1}
    Asked <- PutsAsked
    Key = {k1, k2}
    PageSize = 1
    MaxOpen = 2
    Clock = {1, 2}
    a = a
    b = b
    Value = {a, b}
    OldValue = a
    None = none
SYMMETRY Interchangeable
INVARIANTS
    WritesLand
    SyncMissesOnlyOvertaken
PROPERTIES
    VersionFallsByOverlap
CHECK_DEADLOCK FALSE
