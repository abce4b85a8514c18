SPECIFICATION ApiKeySpec
CONSTANTS
    m1 = m1
    m2 = m2
    a1 = a1
    a2 = a2
    Keys = {k1, k2}
    Models <- MCModels
    Addresses <- MCAddresses
    Requests = {r1, r2}
    Profiles <- MCProfiles
    Assigned <- MCAssigned
    Tokens = {2}
    Limiters = {"memory", "redis"}
    MaxWindows = 1
    MaxTime = 2
    MaxEdits = 3
    MaxRequests = 3
SYMMETRY Symmetry
CHECK_DEADLOCK FALSE
INVARIANTS
    ListedIsAuthorized
PROPERTIES
    RetiredSecretStops
    RateLimited
