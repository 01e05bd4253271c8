SPECIFICATION MCSpec
CONSTANTS
    Roles = {"SELLER", "USER"}
    Permissions = {"read", "sell"}
    Guards = {"g1", "g2"}
    Admins = {"a1", "a2"}
    MaxChanges = 3
    Users = {"m1", "m2"}
    Single = {"BOOKING"}
    Fanned = {"ALERT"}
    MaxJobs = 2
    MaxDeaths = 1
INVARIANTS
    MCTypeOK
    StaleHasCause
    VerifiedSellerHasRole
    UnwantedIsLate
    NoticesAreNotRepeated
PROPERTIES
    StaleEnds
    JobsAreSettled
CHECK_DEADLOCK FALSE
