SPECIFICATION QuotaSpec
CONSTANTS
    Credentials = {1, 2}
    w1 = w1
    w2 = w2
    Workers = {w1, w2}
    Deployments <- MCDeployments
    Probed = {2}
    PollInterval = 1
    ProbeTimeout = 1
    LeaseTTL = 3
    Margin = 1
    MaxBackoff = 3
    AuthBackoff = 2
    UnsupportedBackoff = 1
    JitterPercent = 34
    RetryAfters = {0, 5}
    BatchSize = 1
    ObservationTimeout = 1
    AgeCap = 3
    OverdueCap = 6
    MaxFailures = 2
    MaxTroubles = 1
CHECK_DEADLOCK FALSE
INVARIANTS
    ProbeSafety
PROPERTIES
    LateResultIgnored
    RefreshedAgain
