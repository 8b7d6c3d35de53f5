SPECIFICATION Spec
CONSTANTS
    Call = {c1, c2, c3}
    Seed = seed
    Slug = {s1, s2}
    Password = {p1, p2}
    Random = random
    None = none
SYMMETRY Interchangeable
INVARIANTS
    PasswordEndsSessions
    TokensWorkOnce
    PasswordIsTheLastSet
    AccountsHold
CHECK_DEADLOCK FALSE
