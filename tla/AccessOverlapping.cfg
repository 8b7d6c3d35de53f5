SPECIFICATION Spec
CONSTANTS
    Call = {c1, c2}
    Lookup = {r1}
    Feature = {"allow_parent_child_access", "google_auto_provision"}
    None = none
    Root = root
    Child = child
    Earlier = earlier
    Slug = {acme, acmelab, sales}
    Nil = nil
    ActAs = act_as_child
    Need = jobs_read
    Star = star
    CodeLists <- Lists
    SystemRole = {owner, member}
    Owner = owner
    Template <- Templates
    RoleName = {member, reviewer}
    Installed <- Releases
    MaxStarted = 2
SYMMETRY Interchangeable
INVARIANTS
    StaleOnlyByRace
    TenantTreeHolds
    AdmittedOnGrounds
    UpdatesLast
    RolesHold
CHECK_DEADLOCK FALSE
