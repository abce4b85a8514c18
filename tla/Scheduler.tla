----------------------------- MODULE Scheduler -----------------------------
(***************************************************************************)
(* The choice of a provider credential for a request and the lease that    *)
(* limits how many requests use it at once: scheduler.Service.Select, the  *)
(* coordinator that keeps leases, cursors and affinities (Redis, or the    *)
(* memory of one process), the lease keeper of the proxy handler, and the  *)
(* health of credentials, which results write and Select reads.            *)
(*                                                                         *)
(* Select is not atomic: it reads the members of each target's pool in a   *)
(* statement of its own, orders what it has read, tries one lease after    *)
(* the other, and records its decision.  Administrators, other requests    *)
(* and the clock go on in between.                                         *)
(*                                                                         *)
(* Time is counted in ticks, and what expires keeps the ticks it has left: *)
(* a lease, a cooldown, the ticker of a keeper.  Affinities and cursors    *)
(* live for hours and may be gone at any moment.                           *)
(***************************************************************************)
EXTENDS Integers, SequencesExt

CONSTANTS
    Requests,          \* requests being dispatched
    Credentials,       \* credential ids; numbers, because ids order candidates
    Pools,             \* credential pools
    Priority,          \* priorities of targets and pool members
    Targets,           \* the targets of the resolved route version, in order
    Members,           \* pool_members at the start, by pool and credential
    MemberRows,        \* rows a membership may be set to, its removal included
    Limits,            \* values of max_concurrency
    Limit,             \* max_concurrency of each credential at the start
    Statuses,          \* statuses an administrator sets
    Snapshots,         \* quota snapshots that may be observed
    Strategy,          \* the strategy of the process that serves each request
    QuotaPolicy,       \* enabled, requireFresh, required tokens
    Capabilities,      \* capabilities the request needs
    AffinityKey,       \* api key and model of each request
    LeaseTTL,          \* ticks a lease lasts
    CursorCycle,       \* cursors are kept modulo a multiple of every modulus
    Cooldowns,         \* ticks a result cools a credential for, 0 for a success
    MaxTroubles        \* bound on edits and faults together

(* A row of pool_members with its checks, and no row. *)
NoMember == [enabled |-> FALSE, priority |-> 0, weight |-> 0]
MemberRow == [enabled : BOOLEAN, priority : Priority, weight : Nat \ {0}] \cup {NoMember}

(* The strategies that normalizeRequest accepts. *)
Strategies == {"fill_first", "quota_aware", "round_robin", "weighted_round_robin"}

ASSUME SchedulerAssumption ==
    /\ "none" \notin Requests
    /\ Credentials \subseteq Nat /\ IsFiniteSet(Credentials)
    /\ Priority \subseteq Nat
    /\ Targets \in Seq([enabled : BOOLEAN, capabilities : SUBSET STRING, pool : Pools,
                        priority : Priority, weight : Nat \ {0}])
    /\ Targets # <<>>
    /\ Members \in [Pools -> [Credentials -> MemberRow]] /\ MemberRows \subseteq MemberRow
    /\ Strategy \in [Requests -> Strategies]
    /\ Limits \subseteq Nat \ {0} /\ \E n \in Limits : \A m \in Limits : m <= n
    /\ Limit \in [Credentials -> Limits]
    /\ LeaseTTL \in Nat /\ LeaseTTL >= 3     \* a third of it is a tick or more
    /\ CursorCycle \in Nat \ {0}
    /\ Cooldowns \subseteq Nat

VARIABLES
    credential,    \* credentials: status and max_concurrency
    member,        \* pool_members by pool and credential
    quota,         \* what Select finds of quota_snapshots for a credential
    health,        \* credential_health: observed_at and cooldown_until
    lease,         \* leases by credential and slot
    cursor,        \* cursors by strategy, target and member priority
    affinity,      \* the credential last given to an affinity key
    request,       \* the handler of each request
    decision,      \* scheduler_decisions by request
    clock,         \* results observed so far: the order of observed_at
    edits,         \* administrative edits and quota observations so far
    faults         \* failed calls of coordinator or database, and crashes

admin == <<credential, member, quota, edits>>
vars == <<credential, member, quota, health, lease, cursor, affinity,
          request, decision, clock, edits, faults>>

Free == [owner |-> "none", left |-> 0]
Unknown == -1
MissedTwice == 2       \* renewals missed in a row that cost a lease

Slots == 0..(CHOOSE n \in Limits : \A m \in Limits : m <= n) - 1

-----------------------------------------------------------------------------
(* Eligibility *)

(* targetEligibilityReasons is empty: the flags of the target, its provider *)
(* model and pool, and supportsRequired.                                    *)
TargetEligible(target) ==
    target.enabled /\ Capabilities \subseteq target.capabilities

(* quotaEligibilityReasons is empty.  A snapshot is "stale" when it is older *)
(* than MaxAge, from the future, or past its reset.                          *)
QuotaEligible(snapshot) ==
    /\ snapshot.age # "fresh" => ~QuotaPolicy.requireFresh
    /\ snapshot.age = "fresh" =>
         snapshot.remaining = Unknown \/ snapshot.remaining >= QuotaPolicy.required

(* memberEligibilityReasons is empty.  The proxy asks for no region or proxy. *)
MemberEligible(p, c) ==
    /\ member[p][c].enabled
    /\ credential[c].status = "active"
    /\ health[c].cooldown = 0
    /\ QuotaPolicy.enabled => QuotaEligible(quota[c])

(* One candidate as Select remembers it: everything is as it was when the  *)
(* members of the pool were read.                                          *)
Candidate(t, c) ==
    LET m == member[Targets[t].pool][c] IN
    [target |-> t, credential |-> c,
     tp |-> Targets[t].priority, mp |-> m.priority,
     mweight |-> m.weight, weight |-> Targets[t].weight * m.weight,
     limit |-> credential[c].limit,
     quota |-> IF QuotaPolicy.enabled THEN quota[c] ELSE [age |-> "missing"]]

-----------------------------------------------------------------------------
(* The order in which candidates are tried *)

Lexicographic(a, b) ==
    \E i \in DOMAIN a : a[i] < b[i] /\ \A j \in 1..(i - 1) : a[j] = b[j]

(* The values in the order of less, of which no two are equal in it. *)
Ascending(values, less(_, _)) ==
    CHOOSE s \in SetToSeqs(values) : \A i, j \in DOMAIN s : i < j => less(s[i], s[j])

(* The sort of groupCandidates. *)
Before(a, b) == Lexicographic(<<a.tp, a.mp, a.target, a.credential>>,
                              <<b.tp, b.mp, b.target, b.credential>>)

Group(x) == <<x.tp, x.mp>>

OneGroup(values) == <<Ascending(values, Before)>>

(* groupCandidates: candidates of equal priorities, best priorities first. *)
groupCandidates(values) ==
    LET keys == Ascending({Group(x) : x \in values}, Lexicographic) IN
    [i \in DOMAIN keys |->
       Ascending({x \in values : Group(x) = keys[i]}, Before)]

(* quotaCandidateLess, with candidateLess as its last resort. *)
quotaCandidateLess(a, b) ==
    LET usable(x) == x.quota.age = "fresh"
        candidateLess == \/ a.mweight > b.mweight
                         \/ a.mweight = b.mweight /\ a.credential < b.credential
    IN IF usable(a) # usable(b) THEN usable(a)
       ELSE IF /\ usable(a) /\ a.quota.remaining # b.quota.remaining
               /\ Unknown \notin {a.quota.remaining, b.quota.remaining}
         THEN a.quota.remaining > b.quota.remaining
       ELSE IF usable(a) /\ a.quota.reset # b.quota.reset
         THEN /\ a.quota.reset # Unknown
              /\ b.quota.reset = Unknown \/ a.quota.reset < b.quota.reset
       ELSE candidateLess

(* A step of the insertion sort of sort.SliceStable, which orders a group of   *)
(* up to 20: x goes behind the last one that it is not less than.              *)
Inserted(sorted, x) ==
    LET at == Max({0} \cup {j \in DOMAIN sorted : ~quotaCandidateLess(x, sorted[j])})
    IN InsertAt(sorted, at + 1, x)

(* The group in the order of quotaCandidateLess, which is not transitive where *)
(* what remains is unknown: the order is what the insertions make of it.       *)
QuotaOrder(group) ==
    LET sorted[n \in 0..Len(group)] ==
          IF n = 0 THEN <<>> ELSE Inserted(sorted[n - 1], group[n])
    IN sorted[Len(group)]

(* Sum of the weights of the first n candidates; totalWeight for all of them. *)
WeightBefore(group, n) ==
    LET sum[i \in 0..Len(group)] == IF i = 0 THEN 0 ELSE sum[i - 1] + group[i].weight
    IN sum[n]

(* weightedStart: the candidate in whose share of the total the slot falls. *)
weightedStart(group, slot) ==
    CHOOSE i \in 0..(Len(group) - 1) :
        WeightBefore(group, i) <= slot /\ slot < WeightBefore(group, i + 1)

rotate(group, start) ==
    SubSeq(group, start + 1, Len(group)) \o SubSeq(group, 1, start)

(* The group in the order of the strategy, for the value its cursor has. *)
StrategyOrder(strategy, group, value) ==
    CASE strategy = "fill_first" -> group
      [] strategy = "quota_aware" -> QuotaOrder(group)
      [] strategy = "round_robin" -> rotate(group, value % Len(group))
      [] strategy = "weighted_round_robin" ->
           rotate(group, weightedStart(group, value % WeightBefore(group, Len(group))))

(* The affinity's candidate and the first of the group change places. *)
AffinityFirst(group, c) ==
    LET i == CHOOSE j \in DOMAIN group :
               group[j].credential = c /\ \A k \in 1..(j - 1) : group[k].credential # c
    IN [group EXCEPT ![1] = group[i], ![i] = group[1]]

HasAffinity(group, c) == \E i \in DOMAIN group : group[i].credential = c

(* orderCandidates: the affinity counts in the best group only, and takes the *)
(* place of the strategy there.                                               *)
orderCandidates(strategy, values, c) ==
    LET groups == groupCandidates(values) IN
    FlattenSeq([i \in DOMAIN groups |->
        IF i = 1 /\ HasAffinity(groups[i], c) THEN AffinityFirst(groups[i], c)
        ELSE StrategyOrder(strategy, groups[i], cursor[<<strategy, Group(groups[i][1])>>])])

(* The cursors that orderCandidates advances on the way. *)
AdvancedCursors(strategy, values, c) ==
    LET groups == groupCandidates(values) IN
    {<<strategy, Group(groups[i][1])>> : i \in
       {j \in DOMAIN groups :
          /\ strategy \in {"round_robin", "weighted_round_robin"}
          /\ ~(j = 1 /\ HasAffinity(groups[j], c))}}

-----------------------------------------------------------------------------
Idle ==
    [pc |-> "idle", target |-> 1, candidates |-> {}, order |-> <<>>, at |-> 1,
     slot |-> 0, wait |-> 0, missed |-> 0, blind |-> FALSE,
     report |-> [at |-> 0, cooldown |-> 0, credential |-> 0]]

SchedulerInit ==
    /\ credential = [c \in Credentials |-> [status |-> "active", limit |-> Limit[c]]]
    /\ member = Members
    /\ quota = [c \in Credentials |-> [age |-> "missing"]]
    /\ health = [c \in Credentials |-> [observed |-> 0, cooldown |-> 0]]
    /\ lease = [x \in Credentials \X Slots |-> Free]
    /\ cursor = [g \in {Strategy[r] : r \in Requests} \X (Priority \X Priority) |-> 0]
    /\ affinity = [k \in {AffinityKey[r] : r \in Requests} |-> Unknown]
    /\ request = [r \in Requests |-> Idle]
    /\ decision = [r \in Requests |-> Unknown]
    /\ clock = 0 /\ edits = 0 /\ faults = 0

(* The candidate a request is trying or using, and the slot of its lease. *)
Chosen(r) == request[r].order[request[r].at]
Resource(r) == <<Chosen(r).credential, request[r].slot>>

Goto(r, pc) == request' = [request EXCEPT ![r].pc = pc]
Return(r, pc) ==
    request' = [request EXCEPT ![r] = [Idle EXCEPT !.pc = pc, !.report = request[r].report]]
Fault == edits + faults < MaxTroubles /\ faults' = faults + 1
(* An edit that no request can read any more is left out. *)
Edit == /\ edits + faults < MaxTroubles /\ edits' = edits + 1
        /\ \E r \in Requests : request[r].pc \in {"idle", "read"}

-----------------------------------------------------------------------------
(* Select *)

(* loadPoolMembers for the next target of the route. *)
loadPoolMembers(r) ==
    LET t == request[r].target
        p == Targets[t].pool
    IN /\ request[r].pc = "idle"
       /\ request' = [request EXCEPT
            ![r].candidates = @ \cup
               {Candidate(t, c) : c \in {d \in Credentials :
                    TargetEligible(Targets[t]) /\ MemberEligible(p, d)}},
            ![r].target = t + 1,
            ![r].pc = IF t < Len(Targets) THEN "idle" ELSE "read"]
       /\ UNCHANGED <<admin, health, lease, cursor, affinity, decision,
                      clock, faults>>

(* GetAffinity, orderCandidates and its calls of Next.  No eligible candidate *)
(* ends in a decision without a credential.                                   *)
Order(r) ==
    LET values == request[r].candidates
        c == affinity[AffinityKey[r]]
    IN /\ request[r].pc = "read"
       /\ IF values = {}
            THEN Goto(r, "refused") /\ UNCHANGED cursor
            ELSE /\ request' = [request EXCEPT
                      ![r].order = orderCandidates(Strategy[r], values, c),
                      ![r].candidates = {}, ![r].pc = "trying"]
                 /\ cursor' = [g \in DOMAIN cursor |->
                      IF g \in AdvancedCursors(Strategy[r], values, c)
                        THEN (cursor[g] + 1) % CursorCycle ELSE cursor[g]]
       /\ UNCHANGED <<admin, health, lease, affinity, decision, clock, faults>>

(* Acquire succeeds on the slot at hand. *)
Acquire(r) ==
    /\ request[r].pc = "trying"
    /\ lease[Resource(r)] = Free
    /\ lease' = [lease EXCEPT ![Resource(r)] = [owner |-> r, left |-> LeaseTTL]]
    /\ request' = [request EXCEPT ![r].order = <<Chosen(r)>>, ![r].at = 1,
                                  ![r].pc = "chosen"]
    /\ UNCHANGED <<admin, health, cursor, affinity, decision, clock, faults>>

SlotLeft(r) == request[r].slot + 1 < Chosen(r).limit

(* ErrLeaseBusy: the next slot, the next candidate, or none is left. *)
LeaseBusy(r) ==
    /\ request[r].pc = "trying"
    /\ lease[Resource(r)] # Free
    /\ request' =
         IF SlotLeft(r)
           THEN [request EXCEPT ![r].slot = @ + 1]
         ELSE IF request[r].at < Len(request[r].order)
           THEN [request EXCEPT ![r].at = @ + 1, ![r].slot = 0]
         ELSE [request EXCEPT ![r].pc = "refused"]
    /\ UNCHANGED <<admin, health, lease, cursor, affinity, decision,
                   clock, faults>>

(* The coordinator fails: Next or Acquire returns another error and Select  *)
(* gives up.  SETNX may have been executed although its reply is lost.      *)
StateUnavailable(r) ==
    /\ request[r].pc \in {"read", "trying"}
    /\ Fault
    /\ \/ UNCHANGED lease /\ Goto(r, "refused")
       \/ /\ request[r].pc = "trying"
          /\ lease[Resource(r)] = Free
          /\ lease' = [lease EXCEPT ![Resource(r)] = [owner |-> r, left |-> LeaseTTL]]
          /\ request' = [request EXCEPT ![r].pc = "refused", ![r].blind = TRUE]
    /\ UNCHANGED <<admin, health, cursor, affinity, decision, clock>>

(* SetAffinity, whose failure is only noted in the decision. *)
SetAffinity(r) == affinity' = [affinity EXCEPT ![AffinityKey[r]] = Chosen(r).credential]

(* RecordDecision.  With a credential the handler goes on and its keeper      *)
(* starts; without one Select returns an error.                               *)
RecordDecision(r) ==
    /\ \/ /\ request[r].pc = "chosen"
          /\ SetAffinity(r)
          /\ decision' = [decision EXCEPT ![r] = Chosen(r).credential]
          /\ request' = [request EXCEPT ![r].pc = "running",
                                        ![r].wait = LeaseTTL \div 3]
       \/ /\ request[r].pc = "refused"
          /\ decision' = [decision EXCEPT ![r] = 0]
          /\ Return(r, IF request[r].blind THEN "lost" ELSE "done")
          /\ UNCHANGED affinity
    /\ UNCHANGED <<admin, health, lease, cursor, clock, faults>>

GiveUpLease(r) == Goto(r, "releasing")

(* RecordDecision fails (a request id used twice conflicts too): the lease is *)
(* released before Select returns the error.                                  *)
RecordDecisionFails(r) ==
    /\ Fault
    /\ \/ request[r].pc = "chosen" /\ SetAffinity(r) /\ GiveUpLease(r)
       \/ /\ request[r].pc = "refused" /\ UNCHANGED affinity
          /\ Return(r, IF request[r].blind THEN "lost" ELSE "done")
    /\ UNCHANGED <<admin, health, lease, cursor, decision, clock>>

-----------------------------------------------------------------------------
(* The handler while it holds a lease *)

KeeperRuns(r) == request[r].pc \in {"running", "reporting"}

(* The ticker of the keeper fires: Renew extends the lease if it is still this *)
(* owner's; an error is logged and the keeper goes on.                         *)
Renew(r) ==
    /\ KeeperRuns(r) /\ request[r].wait = 0
    /\ LET x == Resource(r) IN
       \/ /\ lease[x].owner = r
          /\ lease' = [lease EXCEPT ![x].left = LeaseTTL]
          /\ request' = [request EXCEPT ![r].wait = LeaseTTL \div 3, ![r].missed = 0]
          /\ UNCHANGED faults
       \/ /\ lease[x].owner # r \/ edits + faults < MaxTroubles
          /\ faults' = IF lease[x].owner # r THEN faults ELSE faults + 1
          /\ request' = [request EXCEPT ![r].wait = LeaseTTL \div 3,
                           ![r].missed = IF @ < MissedTwice THEN @ + 1 ELSE @]
          /\ UNCHANGED lease
    /\ UNCHANGED <<admin, health, cursor, affinity, decision, clock>>

(* The price or the reservation is refused: nothing is reported. *)
RefusedBeforeUpstream(r) ==
    /\ request[r].pc = "running"
    /\ Goto(r, "releasing")
    /\ UNCHANGED <<admin, health, lease, cursor, affinity, decision,
                   clock, faults>>

(* The upstream call ends and reportResult takes the time.  A 5xx or a 429     *)
(* cools the credential, a success or another failure does not (cooldown 0);   *)
(* a cancelled request reports nothing.                                        *)
UpstreamEnds(r) ==
    /\ request[r].pc = "running"
    /\ \/ /\ \E cooldown \in Cooldowns :
               request' = [request EXCEPT ![r].pc = "reporting",
                 ![r].report = [at |-> clock + 1, cooldown |-> cooldown,
                                credential |-> Chosen(r).credential]]
          /\ clock' = clock + 1
       \/ Goto(r, "releasing") /\ UNCHANGED clock
    /\ UNCHANGED <<admin, health, lease, cursor, affinity, decision, faults>>

AnyResult(stored, report) == TRUE

NotOlder(stored, report) == stored.observed <= report.at

(* recordHealth: the row changes only if it was not observed later. *)
recordHealth(r) ==
    LET c == Chosen(r).credential
        report == request[r].report
    IN /\ request[r].pc = "reporting"
       /\ health' = IF NotOlder(health[c], report)
            THEN [health EXCEPT ![c] = [observed |-> report.at,
                                        cooldown |-> report.cooldown]]
            ELSE health
       /\ Goto(r, "releasing")
       /\ UNCHANGED <<admin, lease, cursor, affinity, decision, clock, faults>>

(* RecordHealth fails: it is logged, and the request goes on. *)
recordHealthFails(r) ==
    /\ request[r].pc = "reporting"
    /\ Fault
    /\ request' = [request EXCEPT ![r].pc = "releasing", ![r].report = Idle.report]
    /\ UNCHANGED <<admin, health, lease, cursor, affinity, decision, clock>>

ReleasedUnchecked(r) == [lease EXCEPT ![Resource(r)] = Free]

Released(r) ==
    IF lease[Resource(r)].owner = r THEN [lease EXCEPT ![Resource(r)] = Free] ELSE lease

(* keeper.Stop and Release: the lease is given up if it is still this owner's. *)
Release(r) ==
    /\ request[r].pc = "releasing"
    /\ lease' = Released(r)
    /\ Return(r, "done")
    /\ UNCHANGED <<admin, health, cursor, affinity, decision, clock, faults>>

(* Release fails: it is logged, and the lease stays until it expires. *)
ReleaseFails(r) ==
    /\ request[r].pc = "releasing"
    /\ Fault
    /\ Return(r, "lost")
    /\ UNCHANGED <<admin, health, lease, cursor, affinity, decision, clock>>

(* The process of the handler stops. *)
Crash(r) ==
    /\ request[r].pc \notin {"idle", "done", "lost"}
    /\ Fault
    /\ Return(r, "lost")
    /\ UNCHANGED <<admin, health, lease, cursor, affinity, decision, clock>>

-----------------------------------------------------------------------------
(* Time, expiry and administration *)

AgedWithoutTTL(l) == l

(* A lease with no ticks left is gone (cleanup, PEXPIRE). *)
Aged(l) == IF l.left <= 1 THEN Free ELSE [l EXCEPT !.left = @ - 1]

(* A tick passes once every keeper whose ticker has fired has tried to renew. *)
Tick ==
    /\ \A r \in Requests : KeeperRuns(r) => request[r].wait > 0
    /\ \E x \in DOMAIN lease : lease[x] # Free
       \/ \E c \in Credentials : health[c].cooldown > 0
    /\ lease' = [x \in DOMAIN lease |-> Aged(lease[x])]
    /\ health' = [c \in Credentials |->
         [health[c] EXCEPT !.cooldown = IF @ > 0 THEN @ - 1 ELSE 0]]
    /\ request' = [r \in Requests |->
         [request[r] EXCEPT
            !.wait = IF KeeperRuns(r) THEN @ - 1 ELSE @,
            !.missed = IF request[r].pc \in {"chosen", "releasing"}
                            /\ @ < MissedTwice THEN @ + 1 ELSE @,
            !.report.cooldown = IF @ > 0 THEN @ - 1 ELSE 0]]
    /\ UNCHANGED <<admin, cursor, affinity, decision, clock, faults>>

(* An affinity or a cursor reaches its TTL. *)
StateExpires ==
    /\ \/ \E k \in DOMAIN affinity :
            /\ affinity[k] # Unknown
            /\ affinity' = [affinity EXCEPT ![k] = Unknown] /\ UNCHANGED cursor
       \/ \E g \in DOMAIN cursor :
            /\ cursor[g] # 0
            /\ cursor' = [cursor EXCEPT ![g] = 0] /\ UNCHANGED affinity
    /\ Edit
    /\ UNCHANGED <<credential, member, quota, health, lease, request,
                   decision, clock, faults>>

(* Update of status or max_concurrency; a revoked credential stays revoked. *)
UpdateCredential(c) ==
    /\ \/ \E status \in Statuses :
            /\ credential[c].status \notin {status, "revoked"}
            /\ credential' = [credential EXCEPT ![c].status = status]
       \/ \E limit \in Limits \ {credential[c].limit} :
            credential' = [credential EXCEPT ![c].limit = limit]
    /\ Edit
    /\ UNCHANGED <<member, quota, health, lease, cursor, affinity,
                   request, decision, clock, faults>>

(* addMember is an upsert; removeMember deletes the row. *)
EditMember(p, c) ==
    /\ \E row \in MemberRows \ {member[p][c]} : member' = [member EXCEPT ![p][c] = row]
    /\ Edit
    /\ UNCHANGED <<credential, quota, health, lease, cursor, affinity,
                   request, decision, clock, faults>>

(* A quota observation is stored, or the stored one grows old. *)
QuotaChanges(c) ==
    /\ QuotaPolicy.enabled
    /\ \E snapshot \in Snapshots \ {quota[c]} : quota' = [quota EXCEPT ![c] = snapshot]
    /\ Edit
    /\ UNCHANGED <<credential, member, health, lease, cursor, affinity,
                   request, decision, clock, faults>>

-----------------------------------------------------------------------------
Select(r) ==
    \/ loadPoolMembers(r) \/ Order(r) \/ Acquire(r) \/ LeaseBusy(r)
    \/ StateUnavailable(r)
    \/ RecordDecision(r) \/ RecordDecisionFails(r)

Handler(r) ==
    \/ RefusedBeforeUpstream(r) \/ UpstreamEnds(r)
    \/ recordHealth(r) \/ recordHealthFails(r)
    \/ Release(r) \/ ReleaseFails(r) \/ Crash(r)

SchedulerNext ==
    \/ \E r \in Requests : Select(r) \/ Renew(r) \/ Handler(r)
    \/ Tick \/ StateExpires
    \/ \E c \in Credentials : UpdateCredential(c) \/ QuotaChanges(c)
    \/ \E p \in Pools, c \in Credentials : EditMember(p, c)

(* The tickers of keepers fire and time passes.  Nothing is assumed of the     *)
(* handlers: a stream may go on for ever.                                      *)
SchedulerSpec ==
    /\ SchedulerInit /\ [][SchedulerNext]_vars
    /\ WF_vars(Tick)
    /\ \A r \in Requests : WF_vars(Renew(r))

-----------------------------------------------------------------------------
(* Properties *)

Holds(r) == request[r].pc \in {"chosen", "running", "reporting", "releasing"}

SchedulerTypeOK ==
    /\ credential \in [Credentials ->
         [status : {"active"} \cup Statuses, limit : Limits]]
    /\ health \in [Credentials -> [observed : 0..clock, cooldown : Nat]]
    /\ lease \in [Credentials \X Slots ->
         [owner : Requests, left : 1..LeaseTTL] \cup {Free}]
    /\ cursor \in [{Strategy[r] : r \in Requests} \X (Priority \X Priority)
                     -> 0..(CursorCycle - 1)]
    /\ affinity \in [DOMAIN affinity -> Credentials \cup {Unknown}]
    /\ decision \in [Requests -> Credentials \cup {Unknown, 0}]
    /\ \A r \in Requests :
         /\ request[r].pc \in {"idle", "read", "trying", "chosen",
               "refused", "running", "reporting", "releasing", "done", "lost"}
         /\ Holds(r) => Resource(r) \in DOMAIN lease

(* A request keeps the lease of its slot as long as fewer than two renewals in  *)
(* a row are missed: the keeper renews three times per TTL (newLeaseKeeper), a  *)
(* renewal extends the whole TTL, and neither the Release of an earlier owner   *)
(* whose lease ran out nor anyone else's Acquire takes it away.                 *)
KeptLease ==
    \A r \in Requests :
        Holds(r) /\ request[r].missed < MissedTwice => lease[Resource(r)].owner = r

(* No more requests use a credential at once than the largest max_concurrency   *)
(* one of them has read in Select, those that lost their lease apart; lowering  *)
(* the limit does not stop requests under way.                                  *)
WithinLimit ==
    \A c \in Credentials :
        LET users == {r \in Requests : /\ Holds(r) /\ Chosen(r).credential = c
                                       /\ request[r].missed < MissedTwice}
        IN users # {} => \E r \in users : Cardinality(users) <= Chosen(r).limit

(* Whatever the strategy, the affinity and the edits between two reads do, the  *)
(* candidates are tried in the order of target and member priority, each once.  *)
TriedByPriority ==
    \A r \in Requests :
        LET order == request[r].order IN
        \A i, j \in DOMAIN order : i < j =>
            /\ order[i] # order[j]
            /\ ~Lexicographic(<<order[j].tp, order[j].mp>>, <<order[i].tp, order[i].mp>>)

(* Sorting, grouping, rotating and the affinity neither lose a candidate nor    *)
(* make one up: what is tried is what was read (groupCandidates,                *)
(* orderCandidates).                                                            *)
TriesWhatWasRead ==
    \A r \in Requests :
        LET values == request[r].candidates
            order == orderCandidates(Strategy[r], values, affinity[AffinityKey[r]])
        IN request[r].pc = "read" /\ values # {} =>
             order \in Seq(values) /\ ToSet(order) = values

(* Over a full cycle of its cursor, weighted round robin starts with each       *)
(* candidate as often as its combined weight says (weightedStart, rotate).      *)
WeightedShare ==
    \A r \in Requests : \A i \in DOMAIN groupCandidates(request[r].candidates) :
        LET group == groupCandidates(request[r].candidates)[i]
            cycle == 0..(WeightBefore(group, Len(group)) - 1)
        IN \A x \in ToSet(group) :
             Cardinality({v \in cycle : rotate(group, weightedStart(group, v))[1] = x})
               = x.weight

(* Select and the handler, their failing ends included, leave no lease behind:  *)
(* who has returned holds none, unless the coordinator failed to release it or  *)
(* to say that it was granted, or the process crashed (all of them "lost").     *)
NoLeaseLeft ==
    \A r \in Requests : request[r].pc = "done" =>
        \A x \in DOMAIN lease : lease[x].owner # r

(* The health of a credential is that of the latest result stored: a result     *)
(* that was observed earlier and stored later changes nothing (recordHealth),   *)
(* so it neither ends a cooldown nor starts one.                                *)
HealthIsLatest ==
    \A c \in Credentials :
        LET stored == {r \in Requests : /\ request[r].pc \in {"releasing", "done"}
                                        /\ request[r].report.credential = c}
        IN \A r \in stored :
             /\ health[c].observed >= request[r].report.at
             /\ health[c].observed = request[r].report.at =>
                  health[c].cooldown = request[r].report.cooldown

(* Leases are safe: holders keep them, they bound the use of a credential, and  *)
(* none outlives the request that took it, in whatever order leases expire,     *)
(* requests end and administrators edit.                                        *)
LeaseSafety == SchedulerTypeOK /\ KeptLease /\ WithinLimit /\ NoLeaseLeft

(* Every candidate is tried, in an order that follows priority between groups   *)
(* and weight within a group, whatever was read in between (orderCandidates).   *)
CandidateOrder == TriedByPriority /\ TriesWhatWasRead /\ WeightedShare

(* The slot of a request that crashed, or whose Release or reply was lost, is   *)
(* free again after a while: nobody renews its lease.                           *)
OrphanFreed ==
    []<>(\A x \in Credentials \X Slots :
           lease[x] # Free => request[lease[x].owner].pc \notin {"done", "lost"})

=============================================================================
