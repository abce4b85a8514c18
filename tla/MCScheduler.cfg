SPECIFICATION SchedulerSpec
CONSTANTS
    Requests = {r1, r2}
    Credentials = {1, 2}
    Pools = {"a"}
    Priority = {1, 2}
    Targets <- MCTargets
    Members <- MCMembers
    MemberRows <- MCMemberRows
    Limit <- MCLimit
    Statuses = {"disabled"}
    Limits = {1, 2}
    Snapshots <- MCSnapshots
    Strategy <- MCStrategy
    r1 = r1
    r2 = r2
    QuotaPolicy <- MCQuotaPolicy
    Capabilities = {"stream"}
    AffinityKey <- MCAffinityKey
    LeaseTTL = 3
    CursorCycle = 6
    Cooldowns = {0, 1}
    MaxTroubles = 1
CHECK_DEADLOCK FALSE
INVARIANTS
    LeaseSafety
    CandidateOrder
    HealthIsLatest
PROPERTIES
    OrphanFreed
