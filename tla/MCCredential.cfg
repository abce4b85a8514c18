SPECIFICATION CredentialSpec
CONSTANTS
    c1 = c1
    c2 = c2
    Credentials = {c1, c2}
    Processes = {p1, p2}
    Source <- MCSource
    Kinds = {"oauth_access", "oauth_refresh", "custom"}
    MaxKey = 2
    MaxEdits = 3
    MaxStarts = 4
CHECK_DEADLOCK FALSE
INVARIANTS
    ActiveIsNewest
    StartSafety
PROPERTIES
    OnlyRotationReplaces
