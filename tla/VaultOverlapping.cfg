SPECIFICATION Spec
CONSTANTS
    Call = {c1, c2}
    Earlier = earlier
    Reader = {r1}
    IdKey = google_client_id
    SecretKey = google_client_secret
    Value = {v1, v2}
    None = none
SYMMETRY Interchangeable
INVARIANTS
    VaultHolds
    SecretGoesWithItsId
PROPERTIES
    RevokedForGood
CHECK_DEADLOCK FALSE
