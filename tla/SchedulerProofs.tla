-------------------------- MODULE SchedulerProofs ---------------------------
(* Theorems about Scheduler for every number of requests, credentials, pools   *)
(* and targets and any lease TTL of three ticks or more: the health kept for a *)
(* credential is the latest, and leases are kept, bound the use of a           *)
(* credential and are given back; candidates are all tried, by priority and    *)
(* weight.                                                                     *)
EXTENDS Scheduler, FiniteSetTheorems, SequenceTheorems, TLAPS

-----------------------------------------------------------------------------
(* The inductive invariant for the health of credentials *)

\* The fields of a request.
Fields == {"pc", "target", "candidates", "order", "at", "slot", "wait", "missed",
           "blind", "report"}

\* Where a request is before the upstream call has ended.
EarlyPc == {"idle", "read", "trying", "chosen", "refused", "running"}

\* Where its result has been stored or given up.
StoredPc == {"releasing", "done"}

\* The report of a request is that of its upstream call, once that has ended.
ReportExact(q, t) ==
    /\ DOMAIN q = Fields
    /\ DOMAIN q.report = {"at", "cooldown", "credential"}
    /\ q.pc \in EarlyPc \cup StoredPc \cup {"reporting", "lost"}
    /\ q.report.at \in 0..t /\ q.report.cooldown \in Nat
    /\ q.report.at = 0 => q.report.cooldown = 0
    /\ q.pc \in EarlyPc => q.report.at = 0
    /\ q.pc = "reporting" => /\ q.report.at > 0
                             /\ q.report.credential = q.order[q.at].credential

\* The health of a credential is no older than a result stored for it.
NotOlderThan(h, report) ==
    /\ h.observed >= report.at
    /\ h.observed = report.at => h.cooldown = report.cooldown

\* Two results have not been observed at the same time.
ReportsApart(q, s) == q.report.at = s.report.at => q.report.at = 0

\* The inductive invariant for health.
HealthInv ==
    /\ clock \in Nat
    /\ health \in [Credentials -> [observed : 0..clock, cooldown : Nat]]
    /\ \A c \in Credentials : health[c].observed = 0 => health[c].cooldown = 0
    /\ DOMAIN request = Requests
    /\ \A r \in Requests : ReportExact(request[r], clock)
    /\ \A r, s \in Requests : r # s => ReportsApart(request[r], request[s])
    /\ \A r \in Requests, c \in Credentials :
         request[r].pc \in StoredPc /\ request[r].report.credential = c
           => NotOlderThan(health[c], request[r].report)

-----------------------------------------------------------------------------
(* The inductive invariant for leases *)

\* Where a request holds a lease.
HoldsPc == {"chosen", "running", "reporting", "releasing"}

\* How often the keeper of a lease renews it.
Interval == LeaseTTL \div 3

\* What is leased: a slot of a credential.
Resources == Credentials \X Slots

\* A candidate can be leased.
IsCandidate(x) == x.credential \in Credentials /\ x.limit \in Limits

\* The slot a request is trying or using.
ResourceOf(q) == <<q.order[q.at].credential, q.slot>>

\* The fields of a request that its lease rests on.
Shape(q) ==
    /\ q.missed \in 0..MissedTwice /\ q.wait \in 0..Interval
    /\ q.slot \in Nat /\ q.blind \in BOOLEAN
    /\ \A x \in q.candidates : IsCandidate(x)
    /\ q.pc \in {"idle", "read"} => q.at = 1 /\ q.slot = 0
    /\ q.pc \notin HoldsPc => q.missed = 0
    /\ q.blind => q.pc = "refused"

\* A request tries a slot below the limit it has read.
TriesSlot(q) ==
    q.pc \in {"trying"} \cup HoldsPc =>
        /\ Len(q.order) \in Nat /\ q.at \in 1..Len(q.order)
        /\ \A i \in 1..Len(q.order) : IsCandidate(q.order[i])
        /\ q.slot < q.order[q.at].limit

\* The ticks a lease has left are enough for the renewals that may be missed.
Lasts(q, left) ==
    /\ q.pc = "chosen" => left >= LeaseTTL - q.missed
    /\ q.pc \in {"running", "reporting"} /\ q.missed = 0 =>
         left >= LeaseTTL - Interval + q.wait
    /\ q.pc \in {"running", "reporting"} /\ q.missed = 1 =>
         left >= LeaseTTL - 2 * Interval + q.wait
    /\ q.pc = "releasing" => left >= MissedTwice - q.missed

\* A request that has not missed two renewals has its lease.
Owns(r, q, l) ==
    q.pc \in HoldsPc /\ q.missed < MissedTwice =>
        l[ResourceOf(q)].owner = r /\ Lasts(q, l[ResourceOf(q)].left)

\* A request has no other lease, unless it is lost or was not told.
OwnsOnly(r, q, l) ==
    \A x \in Resources : l[x].owner = r =>
        q.pc = "lost" \/ q.blind \/ (q.pc \in HoldsPc /\ x = ResourceOf(q))

\* A request and its leases.
RequestOK(r, q, l) == Shape(q) /\ TriesSlot(q) /\ Owns(r, q, l) /\ OwnsOnly(r, q, l)

\* A lease that is held, with ticks left, or none.
LeaseType == [Resources -> [owner : Requests, left : 1..LeaseTTL] \cup {Free}]

\* The tables the coordinator and the administrators keep.
TablesType ==
    /\ credential \in [Credentials -> [status : {"active"} \cup Statuses, limit : Limits]]
    /\ cursor \in [{Strategy[r] : r \in Requests} \X (Priority \X Priority)
                     -> 0..(CursorCycle - 1)]
    /\ affinity \in [{AffinityKey[r] : r \in Requests} -> Credentials \cup {Unknown}]
    /\ decision \in [Requests -> Credentials \cup {Unknown, 0}]

\* The inductive invariant for leases.
LeaseInv ==
    /\ TablesType
    /\ lease \in LeaseType
    /\ \A r \in Requests : RequestOK(r, request[r], lease)

-----------------------------------------------------------------------------
(* The health of credentials *)

\* The health starts with the observation of nothing.
LEMMA HealthInvInit == SchedulerInit => HealthInv
<1> SUFFICES ASSUME SchedulerInit PROVE HealthInv
  OBVIOUS
<1>1. ReportExact(Idle, 0)
  BY DEF ReportExact, Idle, Fields, EarlyPc
<1>2. \A r \in Requests : request[r] = Idle
  BY DEF SchedulerInit
<1>3. \A r, s \in Requests : r # s => ReportsApart(request[r], request[s])
  BY <1>2 DEF ReportsApart, Idle
<1>4. \A c \in Credentials : health[c] = [observed |-> 0, cooldown |-> 0]
  BY DEF SchedulerInit
<1>5. \A r \in Requests : request[r].pc \notin StoredPc
  BY <1>2 DEF Idle, StoredPc
<1>6. clock = 0 /\ DOMAIN request = Requests /\ DOMAIN health = Credentials
  BY DEF SchedulerInit
<1>7. health \in [Credentials -> [observed : 0..clock, cooldown : Nat]]
  BY <1>6 DEF SchedulerInit
<1>8. \A r \in Requests : ReportExact(request[r], clock)
  BY <1>1, <1>2, <1>6
<1>9. QED
  BY <1>3, <1>4, <1>5, <1>6, <1>7, <1>8 DEF HealthInv

\* A step that leaves the report as it is and stores none.
Moves(q, next) ==
    /\ DOMAIN next = Fields /\ next.report = q.report
    /\ next.pc \in EarlyPc => q.pc \in EarlyPc
    /\ next.pc \in StoredPc => q.pc \in EarlyPc \cup StoredPc
    /\ next.pc = "reporting" =>
         q.pc = "reporting" /\ next.order = q.order /\ next.at = q.at
    /\ next.pc \in EarlyPc \cup StoredPc \cup {"reporting", "lost"}

\* Such a step of one request keeps the invariant.
LEMMA MovesKeeps ==
    ASSUME HealthInv, NEW r \in Requests, NEW next, Moves(request[r], next),
           request' = [request EXCEPT ![r] = next], UNCHANGED <<health, clock>>
    PROVE  HealthInv'
<1>1. request'[r] = next /\ \A s \in Requests \ {r} : request'[s] = request[s]
  BY DEF HealthInv
<1>2. \A s \in Requests : request'[s].report = request[s].report
  BY <1>1 DEF Moves
<1>3. ReportExact(request[r], clock)
  BY DEF HealthInv
<1>4. ReportExact(next, clock)
  BY <1>3 DEF Moves, ReportExact
<1>5. \A s \in Requests : ReportExact(request'[s], clock)
  BY <1>1, <1>4 DEF HealthInv
<1>6. \A s, t \in Requests : s # t => ReportsApart(request'[s], request'[t])
  BY <1>2 DEF HealthInv, ReportsApart
<1>7. ASSUME NEW s \in Requests, NEW c \in Credentials,
             request'[s].pc \in StoredPc, request'[s].report.credential = c
      PROVE  NotOlderThan(health[c], request'[s].report)
  <2>1. CASE request[s].pc \in StoredPc
    BY <1>2, <1>7, <2>1 DEF HealthInv
  <2>2. CASE request[s].pc \notin StoredPc
    <3>1. s = r
      BY <1>1, <1>7, <2>2
    <3>2. request[r].pc \in EarlyPc
      BY <1>1, <1>7, <2>2, <3>1 DEF Moves
    <3>3. next.report.at = 0 /\ next.report.cooldown = 0
      BY <1>3, <3>2 DEF ReportExact, Moves
    <3>4. health[c].observed \in Nat /\ (health[c].observed = 0 => health[c].cooldown = 0)
      BY DEF HealthInv
    <3>5. QED
      BY <1>1, <3>1, <3>3, <3>4 DEF NotOlderThan
  <2>3. QED
    BY <2>1, <2>2
<1>8. QED
  BY <1>1, <1>5, <1>6, <1>7 DEF HealthInv

\* The steps that neither end an upstream call nor store its result.
QuietStep(r) ==
    \/ Select(r) \/ Renew(r) \/ RefusedBeforeUpstream(r)
    \/ Release(r) \/ ReleaseFails(r) \/ Crash(r)

\* How each of them moves its request.
LEMMA QuietMoves ==
    ASSUME HealthInv, NEW r \in Requests, QuietStep(r)
    PROVE  \E next : /\ Moves(request[r], next)
                     /\ request' = [request EXCEPT ![r] = next]
<1> DEFINE q == request[r]
<1>1. ReportExact(q, clock) /\ DOMAIN q = Fields /\ DOMAIN request = Requests
  BY DEF HealthInv, ReportExact
<1> USE DEF EarlyPc, StoredPc, Fields
<1>2. ASSUME NEW pc, Goto(r, pc), pc \in EarlyPc \cup StoredPc, q.pc \in EarlyPc
      PROVE  \E next : Moves(q, next) /\ request' = [request EXCEPT ![r] = next]
  <2> DEFINE next == [q EXCEPT !.pc = pc]
  <2>1. Moves(q, next)
    BY <1>1, <1>2 DEF Moves
  <2>2. request' = [request EXCEPT ![r] = next]
    BY <1>1, <1>2 DEF Goto
  <2>3. QED
    BY <2>1, <2>2
<1>3. ASSUME NEW pc, Return(r, pc), pc \in {"done", "lost"},
             pc = "done" => q.pc \in EarlyPc \cup StoredPc
      PROVE  \E next : Moves(q, next) /\ request' = [request EXCEPT ![r] = next]
  <2> DEFINE next == [Idle EXCEPT !.pc = pc, !.report = q.report]
  <2>1. Moves(q, next)
    BY <1>1, <1>3 DEF Moves, Idle
  <2>2. request' = [request EXCEPT ![r] = next]
    BY <1>1, <1>3 DEF Return
  <2>3. QED
    BY <2>1, <2>2
<1>4. CASE loadPoolMembers(r)
  <2>1. PICK cs, t, pc : /\ pc \in {"idle", "read"} /\ q.pc = "idle"
                         /\ request' = [request EXCEPT ![r].candidates = cs,
                                           ![r].target = t, ![r].pc = pc]
    BY <1>4 DEF loadPoolMembers
  <2> DEFINE next == [q EXCEPT !.candidates = cs, !.target = t, !.pc = pc]
  <2>2. Moves(q, next)
    BY <1>1, <2>1 DEF Moves
  <2>3. request' = [request EXCEPT ![r] = next]
    BY <1>1, <2>1
  <2>4. QED
    BY <2>2, <2>3
<1>5. CASE Order(r)
  <2>1. q.pc = "read"
    BY <1>5 DEF Order
  <2>2. CASE q.candidates = {}
    BY <1>2, <1>5, <2>1, <2>2 DEF Order
  <2>3. CASE q.candidates # {}
    <3>1. PICK order : request' = [request EXCEPT ![r].order = order,
                            ![r].candidates = {}, ![r].pc = "trying"]
      BY <1>5, <2>3 DEF Order
    <3> DEFINE next == [q EXCEPT !.order = order, !.candidates = {}, !.pc = "trying"]
    <3>2. Moves(q, next)
      BY <1>1, <2>1 DEF Moves
    <3>3. request' = [request EXCEPT ![r] = next]
      BY <1>1, <3>1
    <3>4. QED
      BY <3>2, <3>3
  <2>4. QED
    BY <2>2, <2>3
<1>6. CASE Acquire(r)
  <2>1. q.pc = "trying"
    BY <1>6 DEF Acquire
  <2>2. PICK order : request' = [request EXCEPT ![r].order = order, ![r].at = 1,
                                                ![r].pc = "chosen"]
    BY <1>6 DEF Acquire
  <2> DEFINE next == [q EXCEPT !.order = order, !.at = 1, !.pc = "chosen"]
  <2>3. Moves(q, next)
    BY <1>1, <2>1 DEF Moves
  <2>4. request' = [request EXCEPT ![r] = next]
    BY <1>1, <2>2
  <2>5. QED
    BY <2>3, <2>4
<1>7. CASE LeaseBusy(r)
  <2>1. q.pc = "trying"
    BY <1>7 DEF LeaseBusy
  <2>2. CASE request' = [request EXCEPT ![r].slot = @ + 1]
    <3> DEFINE next == [q EXCEPT !.slot = @ + 1]
    <3>1. Moves(q, next)
      BY <1>1, <2>1 DEF Moves
    <3>2. request' = [request EXCEPT ![r] = next]
      BY <1>1, <2>2
    <3>3. QED
      BY <3>1, <3>2
  <2>3. CASE request' = [request EXCEPT ![r].at = @ + 1, ![r].slot = 0]
    <3> DEFINE next == [q EXCEPT !.at = @ + 1, !.slot = 0]
    <3>1. Moves(q, next)
      BY <1>1, <2>1 DEF Moves
    <3>2. request' = [request EXCEPT ![r] = next]
      BY <1>1, <2>3
    <3>3. QED
      BY <3>1, <3>2
  <2>4. CASE request' = [request EXCEPT ![r].pc = "refused"]
    BY <1>2, <2>1, <2>4 DEF Goto
  <2>5. QED
    BY <1>7, <2>2, <2>3, <2>4 DEF LeaseBusy
<1>8. CASE StateUnavailable(r)
  <2>1. q.pc \in EarlyPc
    BY <1>8 DEF StateUnavailable
  <2>2. CASE Goto(r, "refused")
    BY <1>2, <2>1, <2>2
  <2>3. CASE request' = [request EXCEPT ![r].pc = "refused", ![r].blind = TRUE]
    <3> DEFINE next == [q EXCEPT !.pc = "refused", !.blind = TRUE]
    <3>1. Moves(q, next)
      BY <1>1, <2>1 DEF Moves
    <3>2. request' = [request EXCEPT ![r] = next]
      BY <1>1, <2>3
    <3>3. QED
      BY <3>1, <3>2
  <2>4. QED
    BY <1>8, <2>2, <2>3 DEF StateUnavailable
<1>9. CASE RecordDecision(r)
  <2>1. CASE q.pc = "chosen" /\ request' = [request EXCEPT ![r].pc = "running",
                                              ![r].wait = LeaseTTL \div 3]
    <3> DEFINE next == [q EXCEPT !.pc = "running", !.wait = LeaseTTL \div 3]
    <3>1. Moves(q, next)
      BY <1>1, <2>1 DEF Moves
    <3>2. request' = [request EXCEPT ![r] = next]
      BY <1>1, <2>1
    <3>3. QED
      BY <3>1, <3>2
  <2>2. CASE q.pc = "refused" /\ Return(r, IF q.blind THEN "lost" ELSE "done")
    BY <1>3, <2>2
  <2>3. QED
    BY <1>9, <2>1, <2>2 DEF RecordDecision
<1>10. CASE RecordDecisionFails(r)
  <2>1. CASE q.pc = "chosen" /\ GiveUpLease(r)
    BY <1>2, <2>1 DEF GiveUpLease
  <2>2. CASE q.pc = "refused" /\ Return(r, IF q.blind THEN "lost" ELSE "done")
    BY <1>3, <2>2
  <2>3. QED
    BY <1>10, <2>1, <2>2 DEF RecordDecisionFails
<1>11. CASE Renew(r)
  <2>1. PICK m : request' = [request EXCEPT ![r].wait = LeaseTTL \div 3, ![r].missed = m]
    BY <1>1, <1>11 DEF Renew
  <2>2. q.pc \in {"running", "reporting"}
    BY <1>11 DEF Renew, KeeperRuns
  <2> DEFINE next == [q EXCEPT !.wait = LeaseTTL \div 3, !.missed = m]
  <2>3. Moves(q, next)
    BY <1>1, <2>2 DEF Moves
  <2>4. request' = [request EXCEPT ![r] = next]
    BY <1>1, <2>1
  <2>5. QED
    BY <2>3, <2>4
<1>12. CASE RefusedBeforeUpstream(r)
  BY <1>2, <1>12 DEF RefusedBeforeUpstream
<1>13. CASE Release(r) \/ ReleaseFails(r) \/ Crash(r)
  BY <1>3, <1>13 DEF Release, ReleaseFails, Crash
<1>14. QED
  BY <1>4, <1>5, <1>6, <1>7, <1>8, <1>9, <1>10, <1>11, <1>12, <1>13
     DEF QuietStep, Select

\* None of them touches the health of credentials or the clock.
LEMMA QuietKeeps ==
    ASSUME HealthInv, NEW r \in Requests, QuietStep(r)
    PROVE  HealthInv'
<1>1. PICK next : Moves(request[r], next) /\ request' = [request EXCEPT ![r] = next]
  BY QuietMoves
<1>2. UNCHANGED <<health, clock>>
  BY DEF QuietStep, Select, loadPoolMembers, Order, Acquire, LeaseBusy,
     StateUnavailable, RecordDecision, RecordDecisionFails, Renew,
     RefusedBeforeUpstream, Release, ReleaseFails, Crash
<1>3. QED
  BY <1>1, <1>2, MovesKeeps

\* The result of an upstream call is observed later than any other.
LEMMA UpstreamEndsKeeps ==
    ASSUME HealthInv, NEW r \in Requests, UpstreamEnds(r)
    PROVE  HealthInv'
<1> DEFINE q == request[r]
<1>1. ReportExact(q, clock) /\ DOMAIN q = Fields /\ DOMAIN request = Requests
  BY DEF HealthInv, ReportExact
<1>2. q.pc = "running" /\ health' = health
  BY DEF UpstreamEnds
<1>3. CASE Goto(r, "releasing") /\ UNCHANGED clock
  <2> DEFINE next == [q EXCEPT !.pc = "releasing"]
  <2>1. Moves(q, next)
    BY <1>1, <1>2 DEF Moves, Fields, EarlyPc, StoredPc
  <2>2. request' = [request EXCEPT ![r] = next]
    BY <1>1, <1>3 DEF Goto
  <2>3. QED
    BY <1>2, <1>3, <2>1, <2>2, MovesKeeps
<1>4. CASE clock' = clock + 1
  <2>1. PICK cooldown \in Cooldowns :
          request' = [request EXCEPT ![r].pc = "reporting",
             ![r].report = [at |-> clock + 1, cooldown |-> cooldown,
                            credential |-> Chosen(r).credential]]
    BY <1>4 DEF UpstreamEnds, HealthInv
  <2> DEFINE report == [at |-> clock + 1, cooldown |-> cooldown,
                        credential |-> Chosen(r).credential]
             next == [q EXCEPT !.pc = "reporting", !.report = report]
  <2>2. request' = [request EXCEPT ![r] = next]
    BY <1>1, <2>1
  <2>3. /\ DOMAIN next = Fields /\ next.pc = "reporting" /\ next.report = report
        /\ next.order = q.order /\ next.at = q.at
    BY <1>1 DEF Fields
  <2>4. clock \in Nat /\ cooldown \in Nat
    BY SchedulerAssumption DEF HealthInv
  <2>5. ReportExact(next, clock')
    BY <1>4, <2>3, <2>4 DEF ReportExact, EarlyPc, StoredPc, Chosen
  <2>6. request'[r] = next /\ \A s \in Requests \ {r} : request'[s] = request[s]
    BY <1>1, <2>2
  <2>7. next.report.at = clock + 1
    BY <2>3
  <2> HIDE DEF next, report
  <2>8. \A s \in Requests : ReportExact(request[s], clock')
    BY <1>4, <2>4 DEF HealthInv, ReportExact
  <2>9. \A s \in Requests : ReportExact(request'[s], clock')
    BY <2>5, <2>6, <2>8
  <2>10. \A s, t \in Requests : s # t => ReportsApart(request'[s], request'[t])
    <3>1. \A s \in Requests : request[s].report.at \in 0..clock
      BY DEF HealthInv, ReportExact
    <3>2. \A s \in Requests : request[s].report.at # next.report.at
      BY <2>4, <2>7, <3>1
    <3>3. QED
      BY <2>6, <3>2 DEF HealthInv, ReportsApart
  <2>11. \A s \in Requests, c \in Credentials :
           request'[s].pc \in StoredPc /\ request'[s].report.credential = c
             => NotOlderThan(health[c], request'[s].report)
    BY <2>3, <2>6 DEF HealthInv, StoredPc
  <2>12. health' \in [Credentials -> [observed : 0..clock', cooldown : Nat]]
    BY <1>2, <1>4, <2>4 DEF HealthInv
  <2>13. QED
    BY <1>1, <1>2, <1>4, <2>2, <2>4, <2>9, <2>10, <2>11, <2>12 DEF HealthInv
<1>5. QED
  BY <1>3, <1>4 DEF UpstreamEnds

\* A request that has stored its result, or knows that it could not.
LEMMA recordHealthKeeps ==
    ASSUME HealthInv, NEW r \in Requests, recordHealth(r)
    PROVE  HealthInv'
<1> DEFINE q == request[r]
           next == [q EXCEPT !.pc = "releasing"]
<1>1. ReportExact(q, clock) /\ DOMAIN q = Fields /\ DOMAIN request = Requests
  BY DEF HealthInv, ReportExact
<1>2. PICK c : c = q.report.credential
  OBVIOUS
<1>3. /\ q.pc = "reporting" /\ clock' = clock
      /\ Chosen(r).credential = c /\ q.report.at > 0
  BY <1>1, <1>2 DEF recordHealth, ReportExact, Chosen
<1>4. health' = IF NotOlder(health[c], q.report)
        THEN [health EXCEPT ![c] = [observed |-> q.report.at,
                                    cooldown |-> q.report.cooldown]]
        ELSE health
  BY <1>3 DEF recordHealth
<1>5. request' = [request EXCEPT ![r] = next]
  BY <1>1 DEF recordHealth, Goto
<1>6. /\ DOMAIN next = Fields /\ next.report = q.report /\ next.pc = "releasing"
      /\ ReportExact(next, clock)
  BY <1>1 DEF Fields, ReportExact, EarlyPc, StoredPc
<1>7. request'[r] = next /\ \A s \in Requests \ {r} : request'[s] = request[s]
  BY <1>1, <1>5
<1> HIDE DEF next
<1>8. /\ q.report.at \in 0..clock /\ q.report.cooldown \in Nat /\ clock \in Nat
      /\ \A s \in Requests : request[s].report.at \in 0..clock
  BY <1>1 DEF ReportExact, HealthInv
<1>9. /\ health \in [Credentials -> [observed : 0..clock, cooldown : Nat]]
      /\ health' \in [Credentials -> [observed : 0..clock, cooldown : Nat]]
  BY <1>4, <1>8 DEF HealthInv
<1>10. \A d \in Credentials :
         \/ health'[d] = health[d]
         \/ d = c /\ health'[d] = [observed |-> q.report.at,
                                   cooldown |-> q.report.cooldown]
  <2>1. CASE NotOlder(health[c], q.report)
    <3>1. PICK row : row = [observed |-> q.report.at, cooldown |-> q.report.cooldown]
      OBVIOUS
    <3>2. health' = [health EXCEPT ![c] = row]
      BY <1>4, <2>1, <3>1
    <3>3. QED
      BY <1>9, <3>1, <3>2
  <2>2. CASE ~NotOlder(health[c], q.report)
    BY <1>4, <2>2
  <2>3. QED
    BY <2>1, <2>2
<1>11. \A d \in Credentials : health'[d].observed = 0 => health'[d].cooldown = 0
  BY <1>3, <1>8, <1>10 DEF HealthInv
<1>12. \A s \in Requests : ReportExact(request'[s], clock)
  BY <1>6, <1>7 DEF HealthInv
<1>13. \A s, t \in Requests : s # t => ReportsApart(request'[s], request'[t])
  BY <1>6, <1>7 DEF HealthInv, ReportsApart
<1>14. ASSUME NEW s \in Requests, NEW d \in Credentials,
              request'[s].pc \in StoredPc, request'[s].report.credential = d
       PROVE  NotOlderThan(health'[d], request'[s].report)
  <2>1. CASE s = r
    <3>1. d = c /\ request'[s].report = q.report
      BY <1>2, <1>6, <1>7, <1>14, <2>1
    <3>2. health[d].observed \in Nat /\ q.report.at \in Nat
      BY <1>8, <1>9
    <3>3. CASE NotOlder(health[c], q.report)
      <4>1. health'[d] = [observed |-> q.report.at, cooldown |-> q.report.cooldown]
        BY <1>4, <1>9, <3>1, <3>3
      <4>2. QED
        BY <3>1, <3>2, <4>1 DEF NotOlderThan
    <3>4. CASE ~NotOlder(health[c], q.report)
      <4>1. health'[d] = health[d] /\ ~(health[d].observed <= q.report.at)
        BY <1>4, <3>1, <3>4 DEF NotOlder
      <4>2. QED
        BY <3>1, <3>2, <4>1 DEF NotOlderThan
    <3>5. QED
      BY <3>3, <3>4
  <2>2. CASE s # r
    <3>1. request'[s] = request[s] /\ NotOlderThan(health[d], request[s].report)
      BY <1>7, <1>14, <2>2 DEF HealthInv
    <3>2. /\ health[d].observed \in Nat /\ q.report.at \in Nat
          /\ request[s].report.at \in Nat
      BY <1>8, <1>9
    <3>3. CASE health'[d] = health[d]
      BY <3>1, <3>3
    <3>4. CASE d = c /\ health'[d] # health[d]
      <4>1. /\ NotOlder(health[c], q.report)
            /\ health'[d] = [observed |-> q.report.at, cooldown |-> q.report.cooldown]
        BY <1>4, <1>10, <3>4
      <4>2. health[d].observed <= q.report.at
        BY <3>4, <4>1 DEF NotOlder
      <4>3. q.report.at # request[s].report.at
        BY <1>3, <2>2 DEF HealthInv, ReportsApart
      <4>4. request[s].report.at < q.report.at
        BY <3>1, <3>2, <4>2, <4>3 DEF NotOlderThan
      <4>5. QED
        BY <3>1, <3>2, <4>1, <4>4 DEF NotOlderThan
    <3>5. QED
      BY <1>10, <3>3, <3>4
  <2>3. QED
    BY <2>1, <2>2
<1>15. QED
  BY <1>1, <1>3, <1>5, <1>8, <1>9, <1>11, <1>12, <1>13, <1>14 DEF HealthInv

\* A result that could not be stored is forgotten.
LEMMA recordHealthFailsKeeps ==
    ASSUME HealthInv, NEW r \in Requests, recordHealthFails(r)
    PROVE  HealthInv'
<1> DEFINE q == request[r]
           next == [q EXCEPT !.pc = "releasing", !.report = Idle.report]
<1>1. DOMAIN q = Fields /\ DOMAIN request = Requests
  BY DEF HealthInv, ReportExact
<1>2. UNCHANGED <<health, clock>> /\ clock \in Nat
  BY DEF recordHealthFails, HealthInv
<1>3. request' = [request EXCEPT ![r] = next]
  BY <1>1 DEF recordHealthFails
<1>4. /\ DOMAIN next = Fields /\ next.pc = "releasing"
      /\ next.report = [at |-> 0, cooldown |-> 0, credential |-> 0]
  BY <1>1 DEF Fields, Idle
<1>5. request'[r] = next /\ \A s \in Requests \ {r} : request'[s] = request[s]
  BY <1>1, <1>3
<1> HIDE DEF next
<1>6. ReportExact(next, clock)
  BY <1>2, <1>4 DEF ReportExact, EarlyPc, StoredPc
<1>7. \A s \in Requests : ReportExact(request'[s], clock)
  BY <1>5, <1>6 DEF HealthInv
<1>8. \A s, t \in Requests : s # t => ReportsApart(request'[s], request'[t])
  <2>1. \A s \in Requests : ReportsApart(next, request[s]) /\ ReportsApart(request[s], next)
    BY <1>4 DEF ReportsApart
  <2>2. QED
    BY <1>5, <2>1 DEF HealthInv
<1>9. ASSUME NEW s \in Requests, NEW c \in Credentials,
             request'[s].pc \in StoredPc, request'[s].report.credential = c
      PROVE  NotOlderThan(health[c], request'[s].report)
  <2>1. CASE s = r
    <3>1. health[c].observed \in Nat /\ (health[c].observed = 0 => health[c].cooldown = 0)
      BY DEF HealthInv
    <3>2. QED
      BY <1>4, <1>5, <2>1, <3>1 DEF NotOlderThan
  <2>2. CASE s # r
    BY <1>5, <1>9, <2>2 DEF HealthInv
  <2>3. QED
    BY <2>1, <2>2
<1>10. QED
  BY <1>1, <1>2, <1>3, <1>7, <1>8, <1>9 DEF HealthInv

\* A cooldown passes at the same pace wherever it is kept.
LEMMA TickKeepsHealth ==
    ASSUME HealthInv, Tick
    PROVE  HealthInv'
<1> DEFINE Less(n) == IF n > 0 THEN n - 1 ELSE 0
<1>1. /\ DOMAIN request = Requests /\ DOMAIN request' = Requests /\ clock' = clock
      /\ clock \in Nat
      /\ health \in [Credentials -> [observed : 0..clock, cooldown : Nat]]
  BY DEF HealthInv, Tick
<1>2. \A r \in Requests : ReportExact(request[r], clock)
  BY DEF HealthInv
<1>3. ASSUME NEW r \in Requests
      PROVE  /\ DOMAIN request'[r] = Fields
             /\ request'[r].pc = request[r].pc
             /\ request'[r].order = request[r].order /\ request'[r].at = request[r].at
             /\ DOMAIN request'[r].report = {"at", "cooldown", "credential"}
             /\ request'[r].report.at = request[r].report.at
             /\ request'[r].report.credential = request[r].report.credential
             /\ request'[r].report.cooldown = Less(request[r].report.cooldown)
  <2>1. DOMAIN request[r] = Fields
        /\ DOMAIN request[r].report = {"at", "cooldown", "credential"}
    BY <1>2 DEF ReportExact
  <2>2. PICK w, m, cooldown :
          /\ request'[r] = [request[r] EXCEPT !.wait = w, !.missed = m,
                                              !.report.cooldown = cooldown]
          /\ cooldown = Less(request[r].report.cooldown)
    BY <2>1 DEF Tick, Fields
  <2>3. QED
    BY <2>1, <2>2 DEF Fields
<1>4. \A c \in Credentials :
        /\ health'[c] \in [observed : 0..clock, cooldown : Nat]
        /\ health'[c].observed = health[c].observed
        /\ health'[c].cooldown = Less(health[c].cooldown)
  <2> SUFFICES ASSUME NEW c \in Credentials
               PROVE  /\ health'[c] \in [observed : 0..clock, cooldown : Nat]
                      /\ health'[c].observed = health[c].observed
                      /\ health'[c].cooldown = Less(health[c].cooldown)
    OBVIOUS
  <2>1. PICK h \in [observed : 0..clock, cooldown : Nat] : h = health[c]
    BY <1>1
  <2>2. PICK n \in Nat : n = Less(h.cooldown)
    OBVIOUS
  <2>3. health'[c] = [h EXCEPT !.cooldown = n]
    BY <2>1, <2>2 DEF Tick
  <2>4. [h EXCEPT !.cooldown = n] \in [observed : 0..clock, cooldown : Nat]
    OBVIOUS
  <2>5. QED
    BY <2>1, <2>2, <2>3, <2>4
<1>5. DOMAIN health' = Credentials /\ health' = [c \in Credentials |-> health'[c]]
  BY DEF Tick
<1>6. health' \in [Credentials -> [observed : 0..clock, cooldown : Nat]]
  BY <1>4, <1>5
<1>7. \A r \in Requests : ReportExact(request'[r], clock)
  <2> SUFFICES ASSUME NEW r \in Requests PROVE ReportExact(request'[r], clock)
    OBVIOUS
  <2>1. ReportExact(request[r], clock)
    BY <1>2
  <2>2. QED
    BY <1>3, <2>1 DEF ReportExact
<1>8. \A r, s \in Requests : r # s => ReportsApart(request'[r], request'[s])
  BY <1>3 DEF HealthInv, ReportsApart
<1>9. \A r \in Requests, c \in Credentials :
        request'[r].pc \in StoredPc /\ request'[r].report.credential = c
          => NotOlderThan(health'[c], request'[r].report)
  BY <1>3, <1>4 DEF HealthInv, NotOlderThan
<1>10. \A c \in Credentials : health'[c].observed = 0 => health'[c].cooldown = 0
  BY <1>4 DEF HealthInv
<1>11. QED
  BY <1>1, <1>6, <1>7, <1>8, <1>9, <1>10 DEF HealthInv

\* Every step keeps the invariant for health.
LEMMA HealthInvNext ==
    ASSUME HealthInv, [SchedulerNext]_vars
    PROVE  HealthInv'
<1>1. CASE UNCHANGED <<health, clock, request>>
  BY <1>1 DEF HealthInv
<1>2. ASSUME NEW r \in Requests, Select(r) \/ Renew(r) \/ Handler(r)
      PROVE  HealthInv'
  BY <1>2, QuietKeeps, UpstreamEndsKeeps, recordHealthKeeps, recordHealthFailsKeeps
     DEF QuietStep, Handler
<1>3. ASSUME \/ StateExpires
             \/ \E c \in Credentials : UpdateCredential(c) \/ QuotaChanges(c)
             \/ \E p \in Pools, c \in Credentials : EditMember(p, c)
      PROVE  UNCHANGED <<health, clock, request>>
  BY <1>3 DEF StateExpires, UpdateCredential, QuotaChanges, EditMember
<1>4. QED
  BY <1>1, <1>2, <1>3, TickKeepsHealth DEF SchedulerNext, vars

\* The invariant for health holds in every reachable state.
LEMMA HealthInvAlways == SchedulerSpec => []HealthInv
<1>1. HealthInv /\ [SchedulerNext]_vars => HealthInv'
  BY HealthInvNext
<1>2. QED
  BY <1>1, HealthInvInit, PTL DEF SchedulerSpec

\* For any requests and credentials and whatever order results are stored in,
\* the health of a credential is that of the latest result (recordHealth).
THEOREM HealthStaysLatest == SchedulerSpec => []HealthIsLatest
<1>1. HealthInv => HealthIsLatest
  BY DEF HealthInv, HealthIsLatest, NotOlderThan, StoredPc
<1>2. QED
  BY <1>1, HealthInvAlways, PTL

-----------------------------------------------------------------------------
(* The order of candidates: sorting *)

\* The numbers up to n.
LEMMA NumbersUpTo ==
    ASSUME NEW n \in Nat
    PROVE  IsFiniteSet(1..n) /\ Cardinality(1..n) = n
<1>1. 1 \in Int /\ n \in Int
  OBVIOUS
<1>2. IsFiniteSet(1..n) /\ Cardinality(1..n) = IF 1 > n THEN 0 ELSE n - 1 + 1
  BY <1>1, FS_Interval
<1> QED
  BY <1>2

\* s lists the members of S, each once.
Lists(s, S) ==
    /\ Len(s) \in Nat /\ s \in [1..Len(s) -> S]
    /\ \A i, j \in 1..Len(s) : i # j => s[i] # s[j]
    /\ \A x \in S : \E i \in 1..Len(s) : s[i] = x

\* What is below a member of S is smaller than what is below a greater one.
LEMMA RankGrows ==
    ASSUME NEW S, IsFiniteSet(S), NEW R,
           \A x \in S : <<x, x>> \notin R,
           \A x, y, z \in S : <<x, y>> \in R /\ <<y, z>> \in R => <<x, z>> \in R,
           NEW x \in S, NEW y \in S, <<x, y>> \in R
    PROVE  Cardinality({z \in S : <<z, x>> \in R}) < Cardinality({z \in S : <<z, y>> \in R})
<1> DEFINE A == {z \in S : <<z, x>> \in R}
           B == {z \in S : <<z, y>> \in R}
<1>1. A \subseteq B \ {x} /\ x \in B
  OBVIOUS
<1>2. IsFiniteSet(B)
  BY FS_Subset
<1> HIDE DEF A, B
<1>3. IsFiniteSet(B \ {x}) /\ Cardinality(B \ {x}) = Cardinality(B) - 1
  BY <1>1, <1>2, FS_RemoveElement
<1>4. Cardinality(A) <= Cardinality(B \ {x}) /\ IsFiniteSet(A)
  BY <1>1, <1>3, FS_Subset
<1>5. Cardinality(A) \in Nat /\ Cardinality(B) \in Nat
  BY <1>2, <1>4, FS_CardinalityType
<1>6. Cardinality(A) < Cardinality(B)
  BY <1>3, <1>4, <1>5
<1> QED
  BY <1>6 DEF A, B

\* What is below a member of S is smaller than S.
LEMMA RankBounded ==
    ASSUME NEW S, IsFiniteSet(S), NEW R, \A x \in S : <<x, x>> \notin R, NEW x \in S
    PROVE  Cardinality({z \in S : <<z, x>> \in R}) + 1 \in 1..Cardinality(S)
<1> DEFINE A == {z \in S : <<z, x>> \in R}
<1>1. A \subseteq S \ {x}
  OBVIOUS
<1> HIDE DEF A
<1>2. IsFiniteSet(S \ {x}) /\ Cardinality(S \ {x}) = Cardinality(S) - 1
  BY FS_RemoveElement
<1>3. Cardinality(A) <= Cardinality(S \ {x}) /\ IsFiniteSet(A)
  BY <1>1, <1>2, FS_Subset
<1>4. Cardinality(A) \in Nat /\ Cardinality(S) \in Nat
  BY <1>3, FS_CardinalityType
<1>5. Cardinality(A) + 1 \in 1..Cardinality(S)
  BY <1>2, <1>3, <1>4
<1> QED
  BY <1>5 DEF A

\* A finite set can be listed in a strict total order.
LEMMA SortExists ==
    ASSUME NEW S, IsFiniteSet(S), NEW R,
           \A x, y \in S : x # y => <<x, y>> \in R \/ <<y, x>> \in R,
           \A x \in S : <<x, x>> \notin R,
           \A x, y, z \in S : <<x, y>> \in R /\ <<y, z>> \in R => <<x, z>> \in R
    PROVE  \E s \in SetToSeqs(S) :
             \A i, j \in DOMAIN s : i < j => <<s[i], s[j]>> \in R
<1> DEFINE n == Cardinality(S)
           rank == [x \in S |-> Cardinality({z \in S : <<z, x>> \in R}) + 1]
<1>1. n \in Nat /\ IsFiniteSet(1..n) /\ Cardinality(1..n) = n
  BY FS_CardinalityType, NumbersUpTo
<1>2. rank \in [S -> 1..n]
  BY RankBounded
<1>3. ASSUME NEW x \in S, NEW y \in S, <<x, y>> \in R
      PROVE  rank[x] < rank[y]
  <2>1. Cardinality({z \in S : <<z, x>> \in R}) < Cardinality({z \in S : <<z, y>> \in R})
    BY <1>3, RankGrows
  <2>2. rank[x] \in 1..n /\ rank[y] \in 1..n
    BY <1>2
  <2>3. Cardinality({z \in S : <<z, x>> \in R}) \in Nat
        /\ Cardinality({z \in S : <<z, y>> \in R}) \in Nat
    BY FS_Subset, FS_CardinalityType
  <2> QED
    BY <2>1, <2>3
<1> HIDE DEF rank
<1>4. \A x, y \in S : rank[x] = rank[y] => x = y
  <2> SUFFICES ASSUME NEW x \in S, NEW y \in S, rank[x] = rank[y], x # y
               PROVE  FALSE
    OBVIOUS
  <2>1. rank[x] \in Int /\ rank[y] \in Int
    BY <1>2
  <2>2. rank[x] < rank[y] \/ rank[y] < rank[x]
    BY <1>3
  <2> QED
    BY <2>1, <2>2
<1>5. rank \in Injection(S, 1..n)
  BY <1>2, <1>4 DEF Injection, IsInjective
<1>6. rank \in Surjection(S, 1..n)
  BY <1>1, <1>5, FS_Injection
<1>7. \A i \in 1..n : \E x \in S : rank[x] = i
  BY <1>6 DEF Surjection
<1> DEFINE s == [i \in 1..n |-> CHOOSE x \in S : rank[x] = i]
<1>8. \A i \in 1..n : s[i] \in S /\ rank[s[i]] = i
  BY <1>7
<1>9. s \in [1..n -> S]
  BY <1>8
<1> HIDE DEF s
<1>10. \A i, j \in 1..n : i # j => s[i] # s[j]
  BY <1>8
<1>11. s \in SetToSeqs(S) /\ DOMAIN s = 1..n
  BY <1>9, <1>10 DEF SetToSeqs
<1>12. ASSUME NEW i \in 1..n, NEW j \in 1..n, i < j
       PROVE  <<s[i], s[j]>> \in R
  <2>1. s[i] # s[j] /\ ~(j < i)
    BY <1>10, <1>12
  <2>2. s[i] \in S /\ s[j] \in S /\ rank[s[i]] = i /\ rank[s[j]] = j
    BY <1>8
  <2>3. <<s[j], s[i]>> \notin R
    BY <1>3, <2>1, <2>2
  <2> QED
    BY <2>1, <2>2, <2>3
<1> QED
  BY <1>11, <1>12

\* A sequence of SetToSeqs lists its set.
LEMMA SeqsList ==
    ASSUME NEW S, IsFiniteSet(S), NEW s \in SetToSeqs(S)
    PROVE  Lists(s, S) /\ Len(s) = Cardinality(S)
<1> DEFINE n == Cardinality(S)
<1>1. n \in Nat /\ IsFiniteSet(1..n) /\ Cardinality(1..n) = n
  BY FS_CardinalityType, NumbersUpTo
<1>2. s \in [1..n -> S] /\ \A i, j \in 1..n : i # j => s[i] # s[j]
  BY DEF SetToSeqs
<1>3. Len(s) = n
  BY <1>1, <1>2
<1>4. s \in Injection(1..n, S)
  BY <1>2 DEF Injection, IsInjective
<1>5. s \in Surjection(1..n, S)
  BY <1>1, <1>4, FS_Injection
<1>6. \A x \in S : \E i \in 1..n : s[i] = x
  BY <1>5 DEF Surjection
<1> QED
  BY <1>1, <1>2, <1>3, <1>6 DEF Lists
\* Pairs in lexicographic order.
LEMMA LexPair ==
    ASSUME NEW a \in Nat, NEW b \in Nat, NEW c \in Nat, NEW d \in Nat
    PROVE  Lexicographic(<<a, b>>, <<c, d>>) <=> a < c \/ (a = c /\ b < d)
<1>1. DOMAIN <<a, b>> = {1, 2}
  OBVIOUS
<1>2. Lexicographic(<<a, b>>, <<c, d>>) <=>
        \E i \in {1, 2} : /\ <<a, b>>[i] < <<c, d>>[i]
                          /\ \A j \in 1..(i - 1) : <<a, b>>[j] = <<c, d>>[j]
  BY <1>1 DEF Lexicographic
<1>3. 1..(1 - 1) = {} /\ 1..(2 - 1) = {1}
  OBVIOUS
<1> QED
  BY <1>2, <1>3

\* The keys of groups in their order.
LEMMA KeysSorted ==
    ASSUME NEW K, IsFiniteSet(K), K \subseteq Nat \X Nat
    PROVE  /\ Lists(Ascending(K, Lexicographic), K)
           /\ \A i, j \in 1..Len(Ascending(K, Lexicographic)) : i < j =>
                Lexicographic(Ascending(K, Lexicographic)[i], Ascending(K, Lexicographic)[j])
<1> DEFINE R == {p \in K \X K : Lexicographic(p[1], p[2])}
<1>1. \A x, y \in K : <<x, y>> \in R <=> x[1] < y[1] \/ (x[1] = y[1] /\ x[2] < y[2])
  <2> SUFFICES ASSUME NEW x \in K, NEW y \in K
               PROVE  <<x, y>> \in R <=> x[1] < y[1] \/ (x[1] = y[1] /\ x[2] < y[2])
    OBVIOUS
  <2>1. x = <<x[1], x[2]>> /\ y = <<y[1], y[2]>>
        /\ x[1] \in Nat /\ x[2] \in Nat /\ y[1] \in Nat /\ y[2] \in Nat
    OBVIOUS
  <2>2. Lexicographic(x, y) <=> x[1] < y[1] \/ (x[1] = y[1] /\ x[2] < y[2])
    BY <2>1, LexPair
  <2> QED
    BY <2>2
<1>2. \A x \in K : x[1] \in Nat /\ x[2] \in Nat /\ x = <<x[1], x[2]>>
  OBVIOUS
<1>3. \A x, y \in K : <<x, y>> \in R <=> Lexicographic(x, y)
  OBVIOUS
<1> HIDE DEF R
<1>4. \A x, y \in K : x # y => <<x, y>> \in R \/ <<y, x>> \in R
  BY <1>1, <1>2
<1>5. \A x \in K : <<x, x>> \notin R
  BY <1>1, <1>2
<1>6. \A x, y, z \in K : <<x, y>> \in R /\ <<y, z>> \in R => <<x, z>> \in R
  BY <1>1, <1>2
<1>7. \E s \in SetToSeqs(K) : \A i, j \in DOMAIN s : i < j => <<s[i], s[j]>> \in R
  BY <1>4, <1>5, <1>6, SortExists
<1>8. PICK s \in SetToSeqs(K) : \A i, j \in DOMAIN s : i < j => Lexicographic(s[i], s[j])
  <2>1. PICK s \in SetToSeqs(K) : \A i, j \in DOMAIN s : i < j => <<s[i], s[j]>> \in R
    BY <1>7
  <2>2. \A i \in DOMAIN s : s[i] \in K
    BY DEF SetToSeqs
  <2> QED
    BY <1>3, <2>1, <2>2
<1> DEFINE a == Ascending(K, Lexicographic)
<1>9. a \in SetToSeqs(K) /\ \A i, j \in DOMAIN a : i < j => Lexicographic(a[i], a[j])
  BY <1>8 DEF Ascending
<1> HIDE DEF a
<1>10. Lists(a, K)
  BY <1>9, SeqsList
<1>11. DOMAIN a = 1..Len(a)
  BY <1>10 DEF Lists
<1>12. Lists(a, K) /\ \A i, j \in 1..Len(a) : i < j => Lexicographic(a[i], a[j])
  BY <1>9, <1>10, <1>11
<1> QED
  BY <1>12 DEF a

\* What the order of candidates rests on.
IsOrdered(x) ==
    /\ x.tp \in Priority /\ x.mp \in Priority
    /\ x.target \in Nat /\ x.credential \in Nat /\ x.weight \in Nat \ {0}

\* Candidates, of which a target and a credential make one.
AreCandidates(V) ==
    /\ IsFiniteSet(V)
    /\ \A x \in V : IsOrdered(x)
    /\ \A x, y \in V : x.target = y.target /\ x.credential = y.credential => x = y

\* Candidates of a group in lexicographic order.
LEMMA BeforeInGroup ==
    ASSUME NEW x, NEW y, IsOrdered(x), IsOrdered(y), Group(x) = Group(y)
    PROVE  Before(x, y) <=> \/ x.target < y.target
                            \/ x.target = y.target /\ x.credential < y.credential
<1>1. x.tp = y.tp /\ x.mp = y.mp /\ x.tp \in Nat /\ x.mp \in Nat
  BY SchedulerAssumption DEF Group, IsOrdered
<1> DEFINE a == <<x.tp, x.mp, x.target, x.credential>>
           b == <<y.tp, y.mp, y.target, y.credential>>
<1>2. DOMAIN a = {1, 2, 3, 4}
  OBVIOUS
<1>3. Before(x, y) <=>
        \E i \in {1, 2, 3, 4} : a[i] < b[i] /\ \A j \in 1..(i - 1) : a[j] = b[j]
  BY <1>2 DEF Before, Lexicographic
<1>4. 1..(3 - 1) = {1, 2} /\ 1..(4 - 1) = {1, 2, 3}
  OBVIOUS
<1>5. ~(a[1] < b[1]) /\ ~(a[2] < b[2])
  BY <1>1
<1>6. Before(x, y) <=> \/ a[3] < b[3] /\ \A j \in {1, 2} : a[j] = b[j]
                       \/ a[4] < b[4] /\ \A j \in {1, 2, 3} : a[j] = b[j]
  BY <1>3, <1>4, <1>5
<1> QED
  BY <1>1, <1>6

\* A group in its order.
LEMMA GroupSorted ==
    ASSUME NEW V, AreCandidates(V), \A x, y \in V : Group(x) = Group(y)
    PROVE  Lists(Ascending(V, Before), V)
<1> DEFINE R == {p \in V \X V : Before(p[1], p[2])}
<1>1. IsFiniteSet(V)
  BY DEF AreCandidates
<1>2. \A x, y \in V : <<x, y>> \in R <=> Before(x, y)
  OBVIOUS
<1> HIDE DEF R
<1>3. \A x, y \in V : <<x, y>> \in R <=> \/ x.target < y.target
                                         \/ x.target = y.target /\ x.credential < y.credential
  <2> SUFFICES ASSUME NEW x \in V, NEW y \in V
               PROVE  <<x, y>> \in R <=> \/ x.target < y.target
                                         \/ x.target = y.target /\ x.credential < y.credential
    OBVIOUS
  <2>1. IsOrdered(x) /\ IsOrdered(y) /\ Group(x) = Group(y)
    BY DEF AreCandidates
  <2> QED
    BY <1>2, <2>1, BeforeInGroup
<1>4. \A x \in V : x.target \in Nat /\ x.credential \in Nat
  BY DEF AreCandidates, IsOrdered
<1>5. \A x, y \in V : x # y => <<x, y>> \in R \/ <<y, x>> \in R
  <2> SUFFICES ASSUME NEW x \in V, NEW y \in V, x # y
               PROVE  <<x, y>> \in R \/ <<y, x>> \in R
    OBVIOUS
  <2>1. x.target # y.target \/ x.credential # y.credential
    BY DEF AreCandidates
  <2>2. /\ x.target \in Nat /\ x.credential \in Nat
        /\ y.target \in Nat /\ y.credential \in Nat
    BY <1>4
  <2>3. \/ x.target < y.target \/ y.target < x.target
        \/ x.target = y.target /\ x.credential < y.credential
        \/ y.target = x.target /\ y.credential < x.credential
    BY <2>1, <2>2
  <2> QED
    BY <1>3, <2>3
<1>6. \A x \in V : <<x, x>> \notin R
  BY <1>3, <1>4
<1>7. \A x, y, z \in V : <<x, y>> \in R /\ <<y, z>> \in R => <<x, z>> \in R
  BY <1>3, <1>4
<1>8. \E s \in SetToSeqs(V) : \A i, j \in DOMAIN s : i < j => <<s[i], s[j]>> \in R
  BY <1>1, <1>5, <1>6, <1>7, SortExists
<1>9. PICK s \in SetToSeqs(V) : \A i, j \in DOMAIN s : i < j => Before(s[i], s[j])
  <2>1. PICK s \in SetToSeqs(V) : \A i, j \in DOMAIN s : i < j => <<s[i], s[j]>> \in R
    BY <1>8
  <2>2. \A i \in DOMAIN s : s[i] \in V
    BY DEF SetToSeqs
  <2> QED
    BY <1>2, <2>1, <2>2
<1>10. Ascending(V, Before) \in SetToSeqs(V)
  BY <1>9 DEF Ascending
<1> QED
  BY <1>1, <1>10, SeqsList
\* The candidates of a group.
Mates(V, key) == {x \in V : Group(x) = key}

\* groups lists the groups of V, whose keys are ascending.
AreGroups(groups, keys, V) ==
    /\ Len(keys) \in Nat /\ DOMAIN keys = 1..Len(keys) /\ DOMAIN groups = 1..Len(keys)
    /\ \A i \in 1..Len(keys) :
         /\ Lists(groups[i], Mates(V, keys[i]))
         /\ keys[i] \in Priority \X Priority /\ Mates(V, keys[i]) # {}
    /\ \A i, j \in 1..Len(keys) : i < j => Lexicographic(keys[i], keys[j])
    /\ \A x \in V : \E i \in 1..Len(keys) : keys[i] = Group(x)

\* groupCandidates makes groups.
LEMMA GroupsMade ==
    ASSUME NEW V, AreCandidates(V)
    PROVE  \E keys : AreGroups(groupCandidates(V), keys, V)
<1> DEFINE K == {Group(x) : x \in V}
           keys == Ascending(K, Lexicographic)
           groups == [i \in DOMAIN keys |-> Ascending({x \in V : Group(x) = keys[i]}, Before)]
<1>1. groupCandidates(V) = groups
  BY DEF groupCandidates
<1>2. IsFiniteSet(V) /\ \A x \in V : IsOrdered(x)
  BY DEF AreCandidates
<1>3. IsFiniteSet(K)
  <2>1. PICK f : f = [x \in V |-> Group(x)]
    OBVIOUS
  <2>2. f \in Surjection(V, K)
    BY <2>1 DEF Surjection
  <2> HIDE DEF K
  <2> QED
    BY <1>2, <2>2, FS_Surjection
<1>4. K \subseteq Priority \X Priority /\ K \subseteq Nat \X Nat
  <2>1. Priority \subseteq Nat
    BY SchedulerAssumption
  <2>2. \A x \in V : Group(x) \in Priority \X Priority
    BY <1>2 DEF Group, IsOrdered
  <2>3. K \subseteq Priority \X Priority
    BY <2>2
  <2> QED
    BY <2>1, <2>3
<1>5. Lists(keys, K) /\ \A i, j \in 1..Len(keys) : i < j => Lexicographic(keys[i], keys[j])
  <2> HIDE DEF K
  <2> QED
    BY <1>3, <1>4, KeysSorted
<1> HIDE DEF keys
<1>6. /\ Len(keys) \in Nat /\ DOMAIN keys = 1..Len(keys) /\ DOMAIN groups = 1..Len(keys)
      /\ \A i \in 1..Len(keys) : keys[i] \in K
      /\ \A k \in K : \E i \in 1..Len(keys) : keys[i] = k
  BY <1>5 DEF Lists
<1>7. ASSUME NEW i \in 1..Len(keys)
      PROVE  /\ Lists(groups[i], Mates(V, keys[i]))
             /\ keys[i] \in Priority \X Priority /\ Mates(V, keys[i]) # {}
  <2>1. groups[i] = Ascending(Mates(V, keys[i]), Before)
    BY <1>6 DEF Mates
  <2>2. AreCandidates(Mates(V, keys[i]))
    <3>1. Mates(V, keys[i]) \subseteq V
      BY DEF Mates
    <3>2. IsFiniteSet(Mates(V, keys[i]))
      BY <1>2, <3>1, FS_Subset
    <3> QED
      BY <3>1, <3>2 DEF AreCandidates
  <2>3. \A x, y \in Mates(V, keys[i]) : Group(x) = Group(y)
    BY DEF Mates
  <2>4. Lists(Ascending(Mates(V, keys[i]), Before), Mates(V, keys[i]))
    BY <2>2, <2>3, GroupSorted
  <2>5. Mates(V, keys[i]) # {} /\ keys[i] \in Priority \X Priority
    BY <1>4, <1>6 DEF Mates
  <2> QED
    BY <2>1, <2>4, <2>5
<1> HIDE DEF groups
<1>8. \A x \in V : \E i \in 1..Len(keys) : keys[i] = Group(x)
  BY <1>6
<1>9. AreGroups(groups, keys, V)
  BY <1>5, <1>6, <1>7, <1>8 DEF AreGroups
<1> QED
  BY <1>1, <1>9

-----------------------------------------------------------------------------
(* The order of candidates: recursion over a sequence *)

\* A set of naturals that is not empty has a least member: induction over
\* numbers, by the least counterexample.
LEMMA LeastNumber ==
    ASSUME NEW T, T \subseteq Nat, T # {}
    PROVE  \E n \in T : \A m \in T : n <= m
<1>1. PICK n \in T : \A m \in T : ~(<<m, n>> \in OpToRel(<, Nat))
  BY NatLessThanWellFounded, WFMin
<1>2. ASSUME NEW m \in T PROVE ~(m < n)
  BY <1>1 DEF OpToRel
<1>3. QED
  BY <1>2

\* A set of numbers that begins at 0 and goes on up to n has all of them.
LEMMA UpTo ==
    ASSUME NEW n \in Nat, NEW T, 0 \in T, \A i \in 1..n : i - 1 \in T => i \in T
    PROVE  0..n \subseteq T
<1> DEFINE W == {i \in 0..n : i \notin T}
<1> SUFFICES ASSUME W # {} PROVE FALSE
  OBVIOUS
<1>1. PICK k \in W : \A m \in W : k <= m
  <2>1. W \subseteq Nat
    OBVIOUS
  <2> HIDE DEF W
  <2> QED
    BY <2>1, LeastNumber
<1>2. k \in 1..n /\ k - 1 \in 0..n /\ ~(k <= k - 1)
  BY <1>1
<1>3. k - 1 \in T
  BY <1>1, <1>2
<1> QED
  BY <1>1, <1>2, <1>3

\* h iterates g from b.
Iterates(h, S, b, n, g) ==
    h \in [0..n -> S] /\ h[0] = b /\ \A i \in 1..n : h[i] = g[<<i, h[i - 1]>>]

\* A step that depends on the place can be iterated n times.
LEMMA Iterated ==
    ASSUME NEW S, NEW b \in S, NEW n \in Nat, NEW g \in [(1..n) \X S -> S]
    PROVE  \E h : Iterates(h, S, b, n, g)
<1> DEFINE P(k, h) == h[0] = b /\ \A i \in 1..k : h[i] = g[<<i, h[i - 1]>>]
           T == {k \in 0..n : \E h \in [0..k -> S] : P(k, h)}
<1>1. 0 \in T
  <2>1. PICK h \in [0..0 -> S] : h = [i \in 0..0 |-> b]
    OBVIOUS
  <2>2. P(0, h)
    BY <2>1
  <2>3. 0 \in 0..n
    OBVIOUS
  <2> HIDE DEF P
  <2> QED
    BY <2>2, <2>3
<1>2. ASSUME NEW k \in 1..n, k - 1 \in T
      PROVE  k \in T
  <2>1. PICK f \in [0..(k - 1) -> S] : P(k - 1, f)
    BY <1>2
  <2>2. k - 1 \in 0..(k - 1) /\ f[k - 1] \in S
    BY <2>1
  <2> DEFINE h == [i \in 0..k |-> IF i = k THEN g[<<k, f[k - 1]>>] ELSE f[i]]
  <2>3. \A i \in 0..k : i # k => i \in 0..(k - 1) /\ h[i] = f[i] /\ f[i] \in S
    BY <2>1
  <2>4. h[k] = g[<<k, f[k - 1]>>] /\ h[k] \in S /\ h[k - 1] = f[k - 1]
    BY <2>2
  <2>5. h \in [0..k -> S]
    BY <2>3, <2>4
  <2> HIDE DEF h
  <2>6. h[0] = b
    BY <2>1, <2>3
  <2>7. ASSUME NEW i \in 1..k PROVE h[i] = g[<<i, h[i - 1]>>]
    <3>1. CASE i = k
      BY <2>4, <3>1
    <3>2. CASE i # k
      <4>1. i \in 1..(k - 1) /\ i - 1 \in 0..k /\ i - 1 # k /\ i \in 0..k
        BY <3>2
      <4>2. f[i] = g[<<i, f[i - 1]>>]
        BY <2>1, <4>1
      <4> QED
        BY <2>3, <3>2, <4>1, <4>2
    <3> QED
      BY <3>1, <3>2
  <2>8. P(k, h)
    BY <2>6, <2>7
  <2> QED
    BY <2>5, <2>8
<1>3. 0..n \subseteq T
  <2> HIDE DEF T
  <2> QED
    BY <1>1, <1>2, UpTo
<1>4. n \in T
  BY <1>3
<1> QED
  BY <1>4 DEF Iterates
-----------------------------------------------------------------------------
(* The order of candidates: what moves them loses none *)

\* A sequence that lists a set is one over it.
LEMMA ListIsSeq ==
    ASSUME NEW s, NEW S, Lists(s, S)
    PROVE  s \in Seq(S) /\ DOMAIN s = 1..Len(s) /\ Len(s) \in Nat /\ ToSet(s) = S
<1>1. /\ Len(s) \in Nat /\ s \in [1..Len(s) -> S]
      /\ \A x \in S : \E i \in 1..Len(s) : s[i] = x
  BY DEF Lists
<1>2. DOMAIN s = 1..Len(s)
  BY <1>1
<1>3. ToSet(s) = S
  BY <1>1, <1>2 DEF ToSet
<1> QED
  BY <1>1, <1>2, <1>3

\* A part of a sequence.
LEMMA Slice ==
    ASSUME NEW S, NEW s \in Seq(S), NEW lo \in Nat, NEW hi \in Nat, lo <= hi, hi <= Len(s)
    PROVE  /\ SubSeq(s, lo + 1, hi) \in Seq(S) /\ Len(SubSeq(s, lo + 1, hi)) = hi - lo
           /\ \A i \in 1..(hi - lo) : SubSeq(s, lo + 1, hi)[i] = s[lo + i]
<1>1. \A i \in (lo + 1)..hi : s[i] \in S
  OBVIOUS
<1>2. lo + 1 \in Int /\ hi \in Int
  OBVIOUS
<1>3. /\ SubSeq(s, lo + 1, hi) \in Seq(S)
      /\ Len(SubSeq(s, lo + 1, hi)) = IF lo + 1 <= hi THEN hi - (lo + 1) + 1 ELSE 0
      /\ \A i \in 1..(hi - (lo + 1) + 1) : SubSeq(s, lo + 1, hi)[i] = s[(lo + 1) + i - 1]
  BY <1>1, <1>2, SubSeqProperties
<1>4. hi - (lo + 1) + 1 = hi - lo /\ \A i \in 1..(hi - lo) : (lo + 1) + i - 1 = lo + i
  OBVIOUS
<1> QED
  BY <1>3, <1>4

\* rotate.
LEMMA Rotated ==
    ASSUME NEW s, NEW S, Lists(s, S), NEW start \in Nat, start < Len(s)
    PROVE  Lists(rotate(s, start), S) /\ rotate(s, start)[1] = s[start + 1]
<1> DEFINE n == Len(s)
           a == SubSeq(s, start + 1, n)
           b == SubSeq(s, 1, start)
           t == rotate(s, start)
<1>1. /\ n \in Nat /\ s \in [1..n -> S] /\ s \in Seq(S)
      /\ \A i, j \in 1..n : i # j => s[i] # s[j]
      /\ \A x \in S : \E i \in 1..n : s[i] = x
  BY ListIsSeq DEF Lists
<1>2. /\ a \in Seq(S) /\ Len(a) = n - start
      /\ \A i \in 1..(n - start) : a[i] = s[start + i]
  BY <1>1, Slice, SMTT(60)
<1>3. /\ b \in Seq(S) /\ Len(b) = start
      /\ \A i \in 1..start : b[i] = s[i]
  <2>1. b = SubSeq(s, 0 + 1, start)
    OBVIOUS
  <2>2. /\ SubSeq(s, 0 + 1, start) \in Seq(S) /\ Len(SubSeq(s, 0 + 1, start)) = start - 0
        /\ \A i \in 1..(start - 0) : SubSeq(s, 0 + 1, start)[i] = s[0 + i]
    BY <1>1, Slice
  <2> HIDE DEF b
  <2> QED
    BY <2>1, <2>2
<1>4. t = a \o b
  BY DEF rotate
<1> HIDE DEF a, b, t
<1>5. /\ t \in Seq(S) /\ Len(t) = n
      /\ \A i \in 1..n : t[i] = IF i <= n - start THEN a[i] ELSE b[i - (n - start)]
  <2>1. /\ a \o b \in Seq(S) /\ Len(a \o b) = Len(a) + Len(b)
        /\ \A i \in 1..(Len(a) + Len(b)) :
             (a \o b)[i] = IF i <= Len(a) THEN a[i] ELSE b[i - Len(a)]
    BY <1>2, <1>3, ConcatProperties
  <2>2. Len(a) + Len(b) = n
    BY <1>1, <1>2, <1>3
  <2> QED
    BY <1>2, <1>4, <2>1, <2>2
<1> HIDE DEF n
<1>6. \A i \in 1..n : i <= n - start => t[i] = s[start + i]
  BY <1>1, <1>2, <1>5
<1>7. \A i \in 1..n : i > n - start => t[i] = s[i - (n - start)]
  <2> SUFFICES ASSUME NEW i \in 1..n, i > n - start
               PROVE  t[i] = s[i - (n - start)]
    OBVIOUS
  <2>1. i - (n - start) \in 1..start
    BY <1>1 DEF n
  <2>2. n \in Nat /\ ~(i <= n - start)
    BY <1>1
  <2>3. t[i] = IF i <= n - start THEN a[i] ELSE b[i - (n - start)]
    BY <1>5
  <2>4. t[i] = b[i - (n - start)]
    BY <2>2, <2>3
  <2> QED
    BY <1>3, <2>1, <2>4
<1> DEFINE at(i) == IF i <= n - start THEN start + i ELSE i - (n - start)
           back(j) == IF j > start THEN j - start ELSE j + (n - start)
<1>8. \A i \in 1..n : at(i) \in 1..n /\ t[i] = s[at(i)]
  BY <1>1, <1>6, <1>7 DEF n
<1>9. \A i, j \in 1..n : i # j => at(i) # at(j)
  BY <1>1 DEF n
<1>10. \A j \in 1..n : back(j) \in 1..n /\ at(back(j)) = j
  BY <1>1 DEF n
<1> HIDE DEF at, back
<1>11. \A i, j \in 1..n : i # j => t[i] # t[j]
  BY <1>1, <1>8, <1>9
<1>12. \A x \in S : \E i \in 1..n : t[i] = x
  <2> SUFFICES ASSUME NEW x \in S PROVE \E i \in 1..n : t[i] = x
    OBVIOUS
  <2>1. PICK j \in 1..n : s[j] = x
    BY <1>1
  <2> QED
    BY <1>8, <1>10, <2>1
<1>13. t[1] = s[start + 1]
  BY <1>1, <1>6 DEF n
<1>14. t \in [1..n -> S]
  BY <1>5
<1>15. Lists(t, S)
  BY <1>1, <1>5, <1>11, <1>12, <1>14 DEF Lists
<1> QED
  BY <1>13, <1>15 DEF t

\* The affinity's candidate.
LEMMA Swapped ==
    ASSUME NEW s, NEW S, Lists(s, S), NEW i \in 1..Len(s)
    PROVE  Lists([s EXCEPT ![1] = s[i], ![i] = s[1]], S)
<1> DEFINE n == Len(s)
           t == [s EXCEPT ![1] = s[i], ![i] = s[1]]
           at(j) == IF j = i THEN 1 ELSE IF j = 1 THEN i ELSE j
<1>1. /\ n \in Nat /\ s \in [1..n -> S]
      /\ \A j, k \in 1..n : j # k => s[j] # s[k]
      /\ \A x \in S : \E j \in 1..n : s[j] = x
  BY DEF Lists
<1>2. 1 \in 1..n /\ i \in 1..n
  BY <1>1
<1>3. t \in [1..n -> S] /\ \A j \in 1..n : t[j] = s[at(j)]
  BY <1>1, <1>2
<1> HIDE DEF t, n
<1>4. Len(t) = n
  BY <1>1, <1>3
<1>5. \A j \in 1..n : at(j) \in 1..n /\ at(at(j)) = j
  BY <1>1, <1>2
<1> HIDE DEF at
<1>6. \A j, k \in 1..n : j # k => t[j] # t[k]
  BY <1>1, <1>3, <1>5
<1>7. \A x \in S : \E j \in 1..n : t[j] = x
  BY <1>1, <1>3, <1>5
<1>8. Lists(t, S)
  BY <1>1, <1>3, <1>4, <1>6, <1>7 DEF Lists
<1> QED
  BY <1>8 DEF t

\* AffinityFirst finds the candidate it looks for.
LEMMA AffinityMoves ==
    ASSUME NEW s, NEW S, Lists(s, S), NEW c, HasAffinity(s, c)
    PROVE  Lists(AffinityFirst(s, c), S)
<1>1. DOMAIN s = 1..Len(s) /\ Len(s) \in Nat
  BY ListIsSeq
<1> DEFINE T == {j \in DOMAIN s : s[j].credential = c}
<1>2. T \subseteq Nat /\ T # {}
  BY <1>1 DEF HasAffinity
<1>3. PICK j \in T : \A k \in T : j <= k
  <2> HIDE DEF T
  <2> QED
    BY <1>2, LeastNumber
<1>4. \A k \in 1..(j - 1) : s[k].credential # c
  BY <1>1, <1>3
<1>5. j \in DOMAIN s /\ s[j].credential = c
  BY <1>3
<1> DEFINE i == CHOOSE k \in DOMAIN s :
                  s[k].credential = c /\ \A m \in 1..(k - 1) : s[m].credential # c
<1>6. i \in 1..Len(s)
  BY <1>1, <1>4, <1>5
<1>7. AffinityFirst(s, c) = [s EXCEPT ![1] = s[i], ![i] = s[1]]
  BY DEF AffinityFirst
<1> HIDE DEF i
<1>8. Lists([s EXCEPT ![1] = s[i], ![i] = s[1]], S)
  BY <1>6, Swapped
<1> QED
  BY <1>7, <1>8
\* A sequence with one more.
LEMMA Placed ==
    ASSUME NEW S, NEW s \in Seq(S), NEW at \in 0..Len(s), NEW x \in S
    PROVE  /\ InsertAt(s, at + 1, x) \in Seq(S)
           /\ Len(InsertAt(s, at + 1, x)) = Len(s) + 1
           /\ \A i \in 1..(Len(s) + 1) : InsertAt(s, at + 1, x)[i] =
                IF i <= at THEN s[i] ELSE IF i = at + 1 THEN x ELSE s[i - 1]
<1> DEFINE n == Len(s)
           a == SubSeq(s, 1, at)
           b == SubSeq(s, at + 1, n)
           m == a \o <<x>>
           t == InsertAt(s, at + 1, x)
<1>1. n \in Nat /\ at \in Nat /\ at <= n
  OBVIOUS
<1>2. a \in Seq(S) /\ Len(a) = at /\ \A i \in 1..at : a[i] = s[i]
  <2>1. /\ SubSeq(s, 0 + 1, at) \in Seq(S) /\ Len(SubSeq(s, 0 + 1, at)) = at - 0
        /\ \A i \in 1..(at - 0) : SubSeq(s, 0 + 1, at)[i] = s[0 + i]
    BY <1>1, Slice
  <2>2. a = SubSeq(s, 0 + 1, at)
    OBVIOUS
  <2> HIDE DEF a
  <2> QED
    BY <1>1, <2>1, <2>2
<1>3. b \in Seq(S) /\ Len(b) = n - at /\ \A i \in 1..(n - at) : b[i] = s[at + i]
  BY <1>1, Slice
<1>4. t = m \o b
  <2>1. PICK i : i = at + 1
    OBVIOUS
  <2>2. i - 1 = at
    BY <1>1, <2>1
  <2>3. InsertAt(s, i, x) = SubSeq(s, 1, i - 1) \o <<x>> \o SubSeq(s, i, n)
    BY Zenon DEF InsertAt
  <2> QED
    BY <2>1, <2>2, <2>3, Zenon
<1> HIDE DEF a, b, t, n
<1>5. <<x>> \in Seq(S) /\ Len(<<x>>) = 1 /\ <<x>>[1] = x
  OBVIOUS
<1>6. /\ m \in Seq(S) /\ Len(m) = at + 1
      /\ \A i \in 1..(at + 1) : m[i] = IF i <= at THEN s[i] ELSE x
  <2>1. /\ a \o <<x>> \in Seq(S) /\ Len(a \o <<x>>) = Len(a) + Len(<<x>>)
        /\ \A i \in 1..(Len(a) + Len(<<x>>)) :
             (a \o <<x>>)[i] = IF i <= Len(a) THEN a[i] ELSE <<x>>[i - Len(a)]
    BY <1>2, <1>5, ConcatProperties
  <2>2. \A i \in 1..(at + 1) : ~(i <= at) => i - at = 1
    BY <1>1
  <2>3. m = a \o <<x>>
    OBVIOUS
  <2> HIDE DEF m
  <2> QED
    BY <1>1, <1>2, <1>5, <2>1, <2>2, <2>3
<1> HIDE DEF m
<1>7. /\ t \in Seq(S) /\ Len(t) = n + 1
      /\ \A i \in 1..(n + 1) : t[i] = IF i <= at + 1 THEN m[i] ELSE b[i - (at + 1)]
  <2>1. /\ m \o b \in Seq(S) /\ Len(m \o b) = Len(m) + Len(b)
        /\ \A i \in 1..(Len(m) + Len(b)) :
             (m \o b)[i] = IF i <= Len(m) THEN m[i] ELSE b[i - Len(m)]
    BY <1>3, <1>6, ConcatProperties
  <2>2. Len(m) = at + 1 /\ Len(m) + Len(b) = n + 1
    BY <1>1, <1>3, <1>6
  <2> QED
    BY <1>4, <2>1, <2>2
<1>8. ASSUME NEW i \in 1..(n + 1)
      PROVE  t[i] = IF i <= at THEN s[i] ELSE IF i = at + 1 THEN x ELSE s[i - 1]
  <2>1. CASE i <= at + 1
    <3>1. i \in 1..(at + 1) /\ t[i] = m[i]
      BY <1>1, <1>7, <2>1
    <3>2. m[i] = IF i <= at THEN s[i] ELSE x
      BY <1>6, <3>1
    <3>3. ~(i <= at) => i = at + 1
      BY <1>1, <2>1
    <3> QED
      BY <3>1, <3>2, <3>3
  <2>2. CASE ~(i <= at + 1)
    <3>1. t[i] = b[i - (at + 1)]
      BY <1>7, <2>2
    <3>2. /\ i - (at + 1) \in 1..(n - at) /\ at + (i - (at + 1)) = i - 1
          /\ ~(i <= at) /\ i # at + 1
      BY <1>1, <2>2
    <3>3. b[i - (at + 1)] = s[at + (i - (at + 1))]
      BY <1>3, <3>2
    <3> QED
      BY <3>1, <3>2, <3>3
  <2> QED
    BY <2>1, <2>2
<1> QED
  BY <1>7, <1>8 DEF t, n

\* A list with one more lists one more.
LEMMA InsertLists ==
    ASSUME NEW S, NEW s, Lists(s, S), NEW x, x \notin S, NEW at \in 0..Len(s)
    PROVE  Lists(InsertAt(s, at + 1, x), S \cup {x})
<1> DEFINE n == Len(s)
           t == InsertAt(s, at + 1, x)
           T == S \cup {x}
<1>1. /\ n \in Nat /\ s \in [1..n -> S]
      /\ \A i, j \in 1..n : i # j => s[i] # s[j]
      /\ \A y \in S : \E i \in 1..n : s[i] = y
  BY DEF Lists
<1>2. /\ t \in Seq(T) /\ Len(t) = n + 1
      /\ \A i \in 1..(n + 1) : t[i] =
           IF i <= at THEN s[i] ELSE IF i = at + 1 THEN x ELSE s[i - 1]
  <2>1. s \in Seq(T) /\ x \in T /\ at \in 0..Len(s)
    BY <1>1
  <2> HIDE DEF T
  <2> QED
    BY <2>1, Placed
<1>3. at \in Nat /\ at <= n
  BY <1>1
<1> HIDE DEF t, n
<1> DEFINE old(i) == IF i <= at THEN i ELSE i - 1
           new(j) == IF j <= at THEN j ELSE j + 1
<1>4. \A i \in 1..(n + 1) : i # at + 1 => old(i) \in 1..n /\ t[i] = s[old(i)]
  BY <1>1, <1>2, <1>3
<1>5. \A i, j \in 1..(n + 1) : i # at + 1 /\ j # at + 1 /\ i # j => old(i) # old(j)
  BY <1>1, <1>3
<1>6. \A j \in 1..n : new(j) \in 1..(n + 1) /\ new(j) # at + 1 /\ old(new(j)) = j
  BY <1>1, <1>3
<1> HIDE DEF old, new
<1>7. at + 1 \in 1..(n + 1) /\ t[at + 1] = x
  BY <1>1, <1>2, <1>3
<1>8. \A i \in 1..(n + 1) : i # at + 1 => t[i] # x
  BY <1>1, <1>4
<1>9. \A i, j \in 1..(n + 1) : i # j => t[i] # t[j]
  BY <1>1, <1>4, <1>5, <1>7, <1>8
<1>10. \A y \in T : \E i \in 1..(n + 1) : t[i] = y
  <2> SUFFICES ASSUME NEW y \in T PROVE \E i \in 1..(n + 1) : t[i] = y
    OBVIOUS
  <2>1. CASE y = x
    BY <1>7, <2>1
  <2>2. CASE y \in S
    <3>1. PICK j \in 1..n : s[j] = y
      BY <1>1, <2>2
    <3> QED
      BY <1>4, <1>6, <3>1
  <2> QED
    BY <2>1, <2>2
<1>11. t \in [1..(n + 1) -> T] /\ n + 1 \in Nat
  BY <1>1, <1>2
<1>12. Lists(t, T)
  <2> HIDE DEF T
  <2> QED
    BY <1>2, <1>9, <1>10, <1>11 DEF Lists
<1> QED
  BY <1>12 DEF t

\* The last one of a part of a sequence.
LEMMA LastOne ==
    ASSUME NEW n \in Nat, NEW A, A \subseteq 0..n, A # {}
    PROVE  Max(A) \in A
<1> DEFINE T == {n - a : a \in A}
<1>1. T \subseteq Nat /\ T # {}
  <2>1. \A a \in A : n - a \in Nat
    OBVIOUS
  <2> QED
    BY <2>1
<1>2. PICK k \in T : \A m \in T : k <= m
  <2> HIDE DEF T
  <2> QED
    BY <1>1, LeastNumber
<1>3. PICK a \in A : k = n - a
  BY <1>2
<1>4. \A b \in A : a >= b
  <2> SUFFICES ASSUME NEW b \in A PROVE a >= b
    OBVIOUS
  <2>1. n - a <= n - b
    BY <1>2, <1>3
  <2>2. a \in Nat /\ b \in Nat
    OBVIOUS
  <2> QED
    BY <2>1, <2>2
<1> QED
  BY <1>4 DEF Max

\* Inserted places the candidate somewhere.
LEMMA InsertedSomewhere ==
    ASSUME NEW S, NEW s \in Seq(S), NEW x
    PROVE  \E at \in 0..Len(s) : Inserted(s, x) = InsertAt(s, at + 1, x)
<1> DEFINE A == {0} \cup {j \in DOMAIN s : ~quotaCandidateLess(x, s[j])}
<1>1. DOMAIN s = 1..Len(s) /\ Len(s) \in Nat
  OBVIOUS
<1>2. A \subseteq 0..Len(s) /\ A # {}
  BY <1>1
<1>3. Inserted(s, x) = InsertAt(s, Max(A) + 1, x)
  BY DEF Inserted
<1> HIDE DEF A
<1>4. Max(A) \in 0..Len(s)
  BY <1>1, <1>2, LastOne
<1> QED
  BY <1>3, <1>4
\* What the recursive definition of QuotaOrder computes.
LEMMA QuotaOrderByDefinition ==
    ASSUME NEW S, NEW s \in Seq(S)
    PROVE  \E f : /\ f[0] = <<>> /\ \A i \in 1..Len(s) : f[i] = Inserted(f[i - 1], s[i])
                  /\ QuotaOrder(s) = f[Len(s)]
<1> DEFINE n == Len(s)
           D(f) == [k \in 0..n |-> IF k = 0 THEN <<>> ELSE Inserted(f[k - 1], s[k])]
<1>1. n \in Nat /\ \A i \in 1..n : s[i] \in S
  OBVIOUS
<1>2. PICK T : T = Seq(S)
  OBVIOUS
<1>3. \A i \in 1..n, t \in T : Inserted(t, s[i]) \in T
  <2> SUFFICES ASSUME NEW i \in 1..n, NEW t \in T PROVE Inserted(t, s[i]) \in T
    OBVIOUS
  <2>1. t \in Seq(S) /\ s[i] \in S
    BY <1>1, <1>2
  <2>2. PICK at \in 0..Len(t) : Inserted(t, s[i]) = InsertAt(t, at + 1, s[i])
    BY <2>1, InsertedSomewhere
  <2>3. InsertAt(t, at + 1, s[i]) \in Seq(S)
    BY <2>1, Placed
  <2> QED
    BY <1>2, <2>2, <2>3, Zenon
<1>4. PICK g : g = [p \in (1..n) \X T |-> Inserted(p[2], s[p[1]])]
  OBVIOUS
<1>5. g \in [(1..n) \X T -> T]
  BY <1>3, <1>4
<1>6. <<>> \in T
  BY <1>2
<1> HIDE DEF n
<1>7. PICK h : Iterates(h, T, <<>>, n, g)
  <2>1. n \in Nat
    BY <1>1
  <2> QED
    BY <1>5, <1>6, <2>1, Iterated
<1>8. ASSUME NEW i \in 1..n PROVE h[i] = Inserted(h[i - 1], s[i])
  <2>1. h[i - 1] \in T
    BY <1>1, <1>7 DEF Iterates
  <2>2. h[i] = g[<<i, h[i - 1]>>]
    BY <1>7 DEF Iterates
  <2>3. <<i, h[i - 1]>> \in (1..n) \X T
    BY <2>1
  <2>4. g[<<i, h[i - 1]>>] = Inserted(h[i - 1], s[i])
    BY <1>4, <2>3
  <2> QED
    BY <2>2, <2>4
<1>9. h = D(h)
  <2>1. ASSUME NEW k \in 0..n PROVE h[k] = D(h)[k]
    <3>1. CASE k = 0
      BY <1>7, <3>1 DEF Iterates
    <3>2. CASE k # 0
      <4>1. k \in 1..n
        BY <1>1, <3>2
      <4> QED
        BY <1>8, <3>2, <4>1
    <3> QED
      BY <3>1, <3>2
  <2>2. h = [k \in 0..n |-> h[k]] /\ D(h) = [k \in 0..n |-> D(h)[k]]
    BY <1>7 DEF Iterates
  <2> HIDE DEF D
  <2> QED
    BY <2>1, <2>2
<1>10. PICK f : f = CHOOSE e : e = D(e)
  OBVIOUS
<1>11. QuotaOrder(s) = f[n]
  BY <1>10 DEF QuotaOrder, n
<1>12. f = D(f)
  <2> HIDE DEF D
  <2> QED
    BY <1>9, <1>10
<1>13. f[0] = <<>> /\ \A i \in 1..n : f[i] = Inserted(f[i - 1], s[i])
  <2>1. 0 \in 0..n
    BY <1>1
  <2>2. \A k \in 0..n : f[k] = IF k = 0 THEN <<>> ELSE Inserted(f[k - 1], s[k])
    BY <1>12, Zenon
  <2>3. \A i \in 1..n : i \in 0..n /\ i # 0
    BY <1>1
  <2> QED
    BY <2>1, <2>2, <2>3, Zenon
<1> QED
  BY <1>11, <1>13 DEF n

\* The insertion sort of a group lists it.
LEMMA QuotaOrderLists ==
    ASSUME NEW S, NEW s, Lists(s, S)
    PROVE  Lists(QuotaOrder(s), S)
<1> DEFINE n == Len(s)
           part(k) == {s[j] : j \in 1..k}
<1>1. /\ n \in Nat /\ s \in [1..n -> S] /\ s \in Seq(S)
      /\ \A i, j \in 1..n : i # j => s[i] # s[j]
      /\ \A x \in S : \E i \in 1..n : s[i] = x
  BY ListIsSeq DEF Lists
<1>2. PICK f : /\ f[0] = <<>> /\ \A i \in 1..n : f[i] = Inserted(f[i - 1], s[i])
               /\ QuotaOrder(s) = f[n]
  BY <1>1, QuotaOrderByDefinition
<1> HIDE DEF n
<1> DEFINE T == {k \in 0..n : Lists(f[k], part(k))}
<1>3. 0 \in T
  <2>1. part(0) = {}
    OBVIOUS
  <2>2. Len(<<>>) = 0 /\ <<>> \in [1..0 -> {}]
    OBVIOUS
  <2>3. Lists(<<>>, {})
    BY <2>2 DEF Lists
  <2>4. 0 \in 0..n
    BY <1>1
  <2> HIDE DEF part
  <2> QED
    BY <1>2, <2>1, <2>3, <2>4, Zenon
<1>4. ASSUME NEW k \in 1..n, k - 1 \in T
      PROVE  k \in T
  <2>1. Lists(f[k - 1], part(k - 1))
    BY <1>4
  <2>2. s[k] \notin part(k - 1)
    BY <1>1
  <2>3. part(k) = part(k - 1) \cup {s[k]}
    BY <1>1
  <2>4. f[k] = Inserted(f[k - 1], s[k])
    BY <1>2
  <2> HIDE DEF part
  <2>5. PICK t : t = f[k - 1]
    OBVIOUS
  <2>6. t \in Seq(part(k - 1)) /\ Lists(t, part(k - 1))
    BY <2>1, <2>5, ListIsSeq
  <2>7. PICK at \in 0..Len(t) : Inserted(t, s[k]) = InsertAt(t, at + 1, s[k])
    BY <2>6, InsertedSomewhere
  <2>8. Lists(InsertAt(t, at + 1, s[k]), part(k - 1) \cup {s[k]})
    BY <2>2, <2>6, InsertLists
  <2>9. k \in 0..n
    BY <1>1
  <2> QED
    BY <2>3, <2>4, <2>5, <2>7, <2>8, <2>9, Zenon
<1>5. 0..n \subseteq T
  <2> HIDE DEF T
  <2> QED
    BY <1>1, <1>3, <1>4, UpTo
<1>6. Lists(f[n], part(n))
  <2>1. n \in 0..n
    BY <1>1
  <2> HIDE DEF part
  <2> QED
    BY <1>5, <2>1, Zenon
<1>7. part(n) = S
  BY <1>1
<1> QED
  BY <1>2, <1>6, <1>7
-----------------------------------------------------------------------------
(* The order of candidates: weights *)

\* A sequence of candidates that have a weight.
AreWeighted(s) ==
    /\ Len(s) \in Nat /\ DOMAIN s = 1..Len(s)
    /\ \A i \in 1..Len(s) : s[i].weight \in Nat \ {0}

\* What the recursive definition of the weights computes.
LEMMA WeightByDefinition ==
    ASSUME NEW s, AreWeighted(s)
    PROVE  /\ WeightBefore(s, 0) = 0
           /\ \A i \in 1..Len(s) : WeightBefore(s, i) = WeightBefore(s, i - 1) + s[i].weight
           /\ \A i \in 0..Len(s) : WeightBefore(s, i) \in Nat
<1> DEFINE n == Len(s)
           D(f) == [k \in 0..n |-> IF k = 0 THEN 0 ELSE f[k - 1] + s[k].weight]
<1>1. n \in Nat /\ \A i \in 1..n : s[i].weight \in Nat
  BY DEF AreWeighted
<1>2. PICK T : T = Nat
  OBVIOUS
<1>3. PICK g : g = [p \in (1..n) \X T |-> p[2] + s[p[1]].weight]
  OBVIOUS
<1> HIDE DEF n
<1>4. g \in [(1..n) \X T -> T]
  <2>1. \A p \in (1..n) \X T : p[1] \in 1..n /\ p[2] \in Nat
    BY <1>2
  <2>2. \A p \in (1..n) \X T : p[2] + s[p[1]].weight \in T
    BY <1>1, <1>2, <2>1
  <2> QED
    BY <1>3, <2>2
<1>5. 0 \in T
  BY <1>2
<1>6. PICK h : Iterates(h, T, 0, n, g)
  <2>1. n \in Nat
    BY <1>1
  <2> QED
    BY <1>4, <1>5, <2>1, Iterated
<1>7. ASSUME NEW i \in 1..n PROVE h[i] = h[i - 1] + s[i].weight
  <2>1. h[i - 1] \in T
    BY <1>1, <1>6 DEF Iterates
  <2>2. h[i] = g[<<i, h[i - 1]>>]
    BY <1>6 DEF Iterates
  <2>3. <<i, h[i - 1]>> \in (1..n) \X T
    BY <2>1
  <2>4. g[<<i, h[i - 1]>>] = h[i - 1] + s[i].weight
    BY <1>3, <2>3
  <2> QED
    BY <2>2, <2>4
<1>8. h = D(h)
  <2>1. ASSUME NEW k \in 0..n PROVE h[k] = D(h)[k]
    <3>1. CASE k = 0
      BY <1>6, <3>1 DEF Iterates
    <3>2. CASE k # 0
      <4>1. k \in 1..n
        BY <1>1, <3>2
      <4> QED
        BY <1>7, <3>2, <4>1
    <3> QED
      BY <3>1, <3>2
  <2>2. h = [k \in 0..n |-> h[k]] /\ D(h) = [k \in 0..n |-> D(h)[k]]
    BY <1>6 DEF Iterates
  <2> HIDE DEF D
  <2> QED
    BY <2>1, <2>2
<1>9. PICK f : f = CHOOSE e : e = D(e)
  OBVIOUS
<1>10. \A k : WeightBefore(s, k) = f[k]
  BY <1>9 DEF WeightBefore, n
<1>11. f = D(f)
  <2> HIDE DEF D
  <2> QED
    BY <1>8, <1>9
<1>12. f[0] = 0 /\ \A i \in 1..n : f[i] = f[i - 1] + s[i].weight
  <2>1. 0 \in 0..n
    BY <1>1
  <2>2. \A k \in 0..n : f[k] = IF k = 0 THEN 0 ELSE f[k - 1] + s[k].weight
    BY <1>11, Zenon
  <2>3. \A i \in 1..n : i \in 0..n /\ i # 0
    BY <1>1
  <2> QED
    BY <2>1, <2>2, <2>3, Zenon
<1> DEFINE W == {k \in 0..n : f[k] \in Nat}
<1>13. 0 \in W
  BY <1>1, <1>12
<1>14. ASSUME NEW i \in 1..n, i - 1 \in W PROVE i \in W
  BY <1>1, <1>12, <1>14
<1>15. 0..n \subseteq W
  <2> HIDE DEF W
  <2> QED
    BY <1>1, <1>13, <1>14, UpTo
<1> QED
  BY <1>10, <1>12, <1>15 DEF n

\* The weights before a candidate grow.
LEMMA WeightsGrow ==
    ASSUME NEW s, AreWeighted(s), NEW i \in 0..Len(s)
    PROVE  \A j \in 0..Len(s) : i <= j => WeightBefore(s, i) <= WeightBefore(s, j)
<1> DEFINE n == Len(s)
           w(k) == WeightBefore(s, k)
           T == {j \in 0..n : i <= j => w(i) <= w(j)}
<1>1. n \in Nat /\ \A k \in 1..n : s[k].weight \in Nat
  BY DEF AreWeighted
<1>2. /\ w(0) = 0 /\ \A k \in 1..n : w(k) = w(k - 1) + s[k].weight
      /\ \A k \in 0..n : w(k) \in Nat
  BY WeightByDefinition
<1> HIDE DEF w
<1>3. 0 \in T
  BY <1>1, <1>2
<1>4. ASSUME NEW k \in 1..n, k - 1 \in T PROVE k \in T
  <2>1. k \in 0..n /\ k - 1 \in 0..n
    BY <1>1
  <2>2. w(k) \in Nat /\ w(k - 1) \in Nat /\ w(k) = w(k - 1) + s[k].weight /\ w(i) \in Nat
        /\ s[k].weight \in Nat
    BY <1>1, <1>2, <2>1
  <2>3. i <= k - 1 => w(i) <= w(k - 1)
    BY <1>4
  <2>4. i <= k => i <= k - 1 \/ i = k
    BY <1>1
  <2> QED
    BY <2>1, <2>2, <2>3, <2>4
<1>5. 0..n \subseteq T
  <2> HIDE DEF T, n
  <2>1. n \in Nat
    BY <1>1
  <2> QED
    BY <1>3, <1>4, <2>1, UpTo
<1> QED
  BY <1>5 DEF w

\* weightedStart finds the candidate in whose share a slot falls.
LEMMA StartFound ==
    ASSUME NEW s, AreWeighted(s), NEW v \in Nat, v < WeightBefore(s, Len(s))
    PROVE  /\ weightedStart(s, v) \in 0..(Len(s) - 1)
           /\ WeightBefore(s, weightedStart(s, v)) <= v
           /\ v < WeightBefore(s, weightedStart(s, v) + 1)
<1> DEFINE n == Len(s)
           w(k) == WeightBefore(s, k)
           T == {k \in 0..n : v < w(k)}
<1>1. n \in Nat
  BY DEF AreWeighted
<1>2. w(0) = 0 /\ \A k \in 0..n : w(k) \in Nat
  BY WeightByDefinition
<1>3. v < w(n)
  OBVIOUS
<1> HIDE DEF w, n
<1>4. T \subseteq Nat /\ T # {}
  BY <1>1, <1>3
<1>5. PICK k \in T : \A j \in T : k <= j
  <2> HIDE DEF T
  <2> QED
    BY <1>4, LeastNumber
<1>6. k # 0 /\ k \in 1..n /\ k - 1 \in 0..(n - 1) /\ k - 1 \in 0..n /\ (k - 1) + 1 = k
  BY <1>1, <1>2, <1>5
<1>7. k - 1 \notin T
  BY <1>5, <1>6
<1>8. w(k - 1) <= v /\ v < w((k - 1) + 1)
  BY <1>2, <1>5, <1>6, <1>7
<1>9. \E i \in 0..(n - 1) : w(i) <= v /\ v < w(i + 1)
  BY <1>6, <1>8
<1>10. weightedStart(s, v) = CHOOSE i \in 0..(n - 1) : w(i) <= v /\ v < w(i + 1)
  BY DEF weightedStart, w, n
<1>11. PICK i : i = weightedStart(s, v)
  OBVIOUS
<1>12. i \in 0..(n - 1) /\ w(i) <= v /\ v < w(i + 1)
  BY <1>9, <1>10, <1>11
<1> QED
  BY <1>11, <1>12 DEF w, n
\* An interval has as many numbers as it is long.
LEMMA NumbersFrom ==
    ASSUME NEW a \in Nat, NEW m \in Nat \ {0}
    PROVE  Cardinality(a..(a + m - 1)) = m
<1>1. PICK b \in Int : b = a + m - 1
  OBVIOUS
<1>2. Cardinality(a..b) = IF a > b THEN 0 ELSE b - a + 1
  BY FS_Interval
<1>3. ~(a > b) /\ b - a + 1 = m
  BY <1>1
<1> QED
  BY <1>1, <1>2, <1>3

\* Over a cycle each candidate comes first as often as its weight says.
LEMMA ShareIsWeight ==
    ASSUME NEW s, NEW S, Lists(s, S), AreWeighted(s), NEW x \in S
    PROVE  Cardinality({v \in 0..(WeightBefore(s, Len(s)) - 1) :
                          rotate(s, weightedStart(s, v))[1] = x}) = x.weight
<1> DEFINE n == Len(s)
           w(k) == WeightBefore(s, k)
           C == {v \in 0..(w(n) - 1) : rotate(s, weightedStart(s, v))[1] = x}
<1>1. /\ n \in Nat /\ \A i, j \in 1..n : i # j => s[i] # s[j]
      /\ \E i \in 1..n : s[i] = x
  BY DEF Lists
<1>2. /\ \A k \in 1..n : w(k) = w(k - 1) + s[k].weight
      /\ \A k \in 0..n : w(k) \in Nat
  BY WeightByDefinition
<1>3. \A i, j \in 0..n : i <= j => w(i) <= w(j)
  BY WeightsGrow
<1>4. PICK p \in 1..n : s[p] = x
  BY <1>1
<1>5. x.weight \in Nat \ {0}
  BY <1>4 DEF AreWeighted
<1>6. /\ p - 1 \in 0..n /\ p \in 0..n /\ n \in 0..n
      /\ w(p - 1) \in Nat /\ w(p) = w(p - 1) + x.weight /\ w(p) <= w(n)
      /\ w(p) \in Nat /\ w(n) \in Nat
  <2>1. p - 1 \in 0..n /\ p \in 0..n /\ n \in 0..n /\ p <= n
    BY <1>1
  <2>2. w(p) = w(p - 1) + s[p].weight
    BY <1>2
  <2> HIDE DEF w
  <2> QED
    BY <1>2, <1>3, <1>4, <2>1, <2>2
<1>7. ASSUME NEW v \in 0..(w(n) - 1)
      PROVE  v \in C <=> v \in w(p - 1)..(w(p - 1) + x.weight - 1)
  <2>1. PICK i : i = weightedStart(s, v)
    OBVIOUS
  <2>2. v \in Nat /\ v < w(n)
    BY <1>6
  <2>3. i \in 0..(n - 1) /\ w(i) <= v /\ v < w(i + 1)
    BY <2>1, <2>2, StartFound
  <2>4. i \in Nat /\ i < n /\ i + 1 \in 1..n /\ i + 1 \in 0..n /\ i \in 0..n
    BY <1>1, <2>3
  <2>5. rotate(s, i)[1] = s[i + 1]
    BY <2>4, Rotated
  <2>6. v \in C <=> i + 1 = p
    BY <1>1, <1>4, <2>1, <2>4, <2>5
  <2> HIDE DEF C, w
  <2>7. CASE i + 1 = p
    <3>1. i = p - 1
      BY <1>1, <2>4, <2>7
    <3> QED
      BY <1>5, <1>6, <2>2, <2>3, <2>6, <2>7, <3>1
  <2>8. CASE i + 1 < p
    <3>1. i + 1 <= p - 1
      BY <2>4, <2>8
    <3>2. w(i + 1) <= w(p - 1) /\ w(i + 1) \in Nat
      BY <1>2, <1>3, <1>6, <2>4, <3>1
    <3>3. v < w(p - 1)
      BY <1>6, <2>2, <2>3, <3>2
    <3> QED
      BY <1>5, <1>6, <2>2, <2>6, <2>8, <3>3
  <2>9. CASE i + 1 > p
    <3>1. p <= i
      BY <2>4, <2>9
    <3>2. w(p) <= w(i) /\ w(i) \in Nat
      BY <1>2, <1>3, <1>6, <2>4, <3>1
    <3>3. w(p - 1) + x.weight <= v
      BY <1>5, <1>6, <2>2, <2>3, <3>2
    <3> QED
      BY <1>5, <1>6, <2>2, <2>6, <2>9, <3>3
  <2> QED
    BY <2>4, <2>7, <2>8, <2>9
<1>8. w(p - 1)..(w(p - 1) + x.weight - 1) \subseteq 0..(w(n) - 1)
  <2> HIDE DEF w
  <2> QED
    BY <1>5, <1>6
<1>9. C \subseteq 0..(w(n) - 1)
  OBVIOUS
<1>10. C = w(p - 1)..(w(p - 1) + x.weight - 1)
  <2> HIDE DEF C, w
  <2> QED
    BY <1>7, <1>8, <1>9
<1>11. Cardinality(C) = x.weight
  <2> HIDE DEF C, w
  <2> QED
    BY <1>5, <1>6, <1>10, NumbersFrom
<1> QED
  BY <1>11

-----------------------------------------------------------------------------
(* The order of candidates: all groups *)

\* Whatever the strategy, it lists the group.
LEMMA StrategyLists ==
    ASSUME NEW s, NEW S, Lists(s, S), S # {}, AreWeighted(s),
           NEW strategy \in Strategies, NEW value \in Nat
    PROVE  Lists(StrategyOrder(strategy, s, value), S)
<1> DEFINE n == Len(s)
<1>1. n \in Nat /\ n > 0
  BY DEF Lists
<1>2. CASE strategy = "fill_first"
  BY <1>2 DEF StrategyOrder
<1>3. CASE strategy = "quota_aware"
  BY <1>3, QuotaOrderLists DEF StrategyOrder
<1>4. CASE strategy = "round_robin"
  <2>1. value % n \in Nat /\ value % n < n
    BY <1>1
  <2>2. StrategyOrder(strategy, s, value) = rotate(s, value % n)
    BY <1>4 DEF StrategyOrder
  <2> QED
    BY <2>1, <2>2, Rotated
<1>5. CASE strategy = "weighted_round_robin"
  <2>1. PICK total : total = WeightBefore(s, n)
    OBVIOUS
  <2>2. total \in Nat /\ total > 0
    <3>1. /\ WeightBefore(s, 0) = 0
          /\ WeightBefore(s, 1) = WeightBefore(s, 1 - 1) + s[1].weight
          /\ WeightBefore(s, 1) <= WeightBefore(s, n) /\ s[1].weight \in Nat \ {0}
          /\ WeightBefore(s, n) \in Nat
      <4>1. 1 \in 1..n /\ 1 \in 0..n /\ n \in 0..n /\ 1 <= n
        BY <1>1
      <4> QED
        BY <4>1, WeightByDefinition, WeightsGrow DEF AreWeighted
    <3>2. 1 - 1 = 0
      OBVIOUS
    <3> QED
      BY <2>1, <3>1, <3>2
  <2>3. value % total \in Nat /\ value % total < total
    BY <2>2
  <2>4. PICK v \in Nat : v = value % total /\ v < WeightBefore(s, n)
    BY <2>1, <2>3
  <2>5. weightedStart(s, v) \in 0..(n - 1)
    BY <2>4, StartFound
  <2>6. weightedStart(s, v) \in Nat /\ weightedStart(s, v) < n
    BY <1>1, <2>5
  <2>7. StrategyOrder(strategy, s, value) = rotate(s, weightedStart(s, v))
    BY <1>5, <2>1, <2>4 DEF StrategyOrder
  <2> QED
    BY <2>6, <2>7, Rotated
<1> QED
  BY <1>2, <1>3, <1>4, <1>5 DEF Strategies
\* What the recursive definition of FlattenSeq computes.
LEMMA FlattenByDefinition ==
    ASSUME NEW S, NEW n \in Nat \ {0}, NEW ss \in [1..n -> Seq(S)]
    PROVE  \E f : /\ f[1] = ss[1] /\ \A i \in 2..n : f[i] = f[i - 1] \o ss[i]
                  /\ FlattenSeq(ss) = f[n]
<1> DEFINE D(f) == [k \in 1..n |-> IF k = 1 THEN ss[k] ELSE f[k - 1] \o ss[k]]
<1>1. Len(ss) = n /\ n - 1 \in Nat
  OBVIOUS
<1>2. PICK T : T = Seq(S)
  OBVIOUS
<1>3. PICK m \in Nat : m = n - 1
  BY <1>1
<1>4. \A i \in 1..m : i + 1 \in 1..n /\ ss[i + 1] \in Seq(S)
  BY <1>3
<1>5. \A i \in 1..m, t \in T : t \o ss[i + 1] \in T
  <2> SUFFICES ASSUME NEW i \in 1..m, NEW t \in T PROVE t \o ss[i + 1] \in T
    OBVIOUS
  <2>1. t \in Seq(S) /\ ss[i + 1] \in Seq(S)
    BY <1>2, <1>4
  <2>2. t \o ss[i + 1] \in Seq(S)
    BY <2>1, ConcatProperties
  <2> QED
    BY <1>2, <2>2, Zenon
<1>6. PICK g : g = [p \in (1..m) \X T |-> p[2] \o ss[p[1] + 1]]
  OBVIOUS
<1>7. g \in [(1..m) \X T -> T]
  <2>1. \A p \in (1..m) \X T : p[1] \in 1..m /\ p[2] \in T
    OBVIOUS
  <2>2. \A p \in (1..m) \X T : p[2] \o ss[p[1] + 1] \in T
    BY <1>5, <2>1
  <2> QED
    BY <1>6, <2>2, Zenon
<1>8. ss[1] \in T
  BY <1>2
<1>9. PICK h : Iterates(h, T, ss[1], m, g)
  BY <1>7, <1>8, Iterated
<1>10. h[0] = ss[1] /\ \A i \in 1..m : h[i] = h[i - 1] \o ss[i + 1]
  <2> SUFFICES ASSUME NEW i \in 1..m PROVE h[i] = h[i - 1] \o ss[i + 1]
    BY <1>9 DEF Iterates
  <2>1. h[i - 1] \in T
    BY <1>9 DEF Iterates
  <2>2. h[i] = g[<<i, h[i - 1]>>]
    BY <1>9 DEF Iterates
  <2>3. <<i, h[i - 1]>> \in (1..m) \X T
    BY <2>1
  <2>4. g[<<i, h[i - 1]>>] = h[i - 1] \o ss[i + 1]
    BY <1>6, <2>3
  <2> QED
    BY <2>2, <2>4
<1>11. PICK e : e = [k \in 1..n |-> h[k - 1]]
  OBVIOUS
<1>12. e = D(e)
  <2>1. ASSUME NEW k \in 1..n PROVE e[k] = D(e)[k]
    <3>1. e[k] = h[k - 1]
      BY <1>11
    <3>2. CASE k = 1
      BY <1>10, <3>1, <3>2
    <3>3. CASE k # 1
      <4>1. k - 1 \in 1..m /\ k - 1 \in 1..n /\ (k - 1) + 1 = k
        BY <1>3, <3>3
      <4>2. h[k - 1] = h[(k - 1) - 1] \o ss[(k - 1) + 1]
        BY <1>10, <4>1
      <4>3. e[k - 1] = h[(k - 1) - 1]
        BY <1>11, <4>1
      <4>4. D(e)[k] = e[k - 1] \o ss[k]
        BY <3>3
      <4> QED
        BY <3>1, <4>1, <4>2, <4>3, <4>4
    <3> QED
      BY <3>2, <3>3
  <2>2. e = [k \in 1..n |-> e[k]] /\ D(e) = [k \in 1..n |-> D(e)[k]]
    BY <1>11
  <2> HIDE DEF D
  <2> QED
    BY <2>1, <2>2
<1>13. PICK f : f = CHOOSE d : d = D(d)
  OBVIOUS
<1>14. FlattenSeq(ss) = f[n]
  BY <1>1, <1>13 DEF FlattenSeq
<1>15. f = D(f)
  <2> HIDE DEF D
  <2> QED
    BY <1>12, <1>13
<1>16. f[1] = ss[1] /\ \A i \in 2..n : f[i] = f[i - 1] \o ss[i]
  <2>1. 1 \in 1..n
    OBVIOUS
  <2>2. \A k \in 1..n : f[k] = IF k = 1 THEN ss[k] ELSE f[k - 1] \o ss[k]
    BY <1>15, Zenon
  <2>3. \A i \in 2..n : i \in 1..n /\ i # 1
    OBVIOUS
  <2> QED
    BY <2>1, <2>2, <2>3, Zenon
<1> QED
  BY <1>14, <1>16

\* Two lists after each other.
LEMMA ConcatLists ==
    ASSUME NEW a, NEW A, NEW b, NEW B, Lists(a, A), Lists(b, B), A \cap B = {}
    PROVE  /\ Lists(a \o b, A \cup B) /\ Len(a \o b) = Len(a) + Len(b)
           /\ \A i \in 1..Len(a) : (a \o b)[i] = a[i]
           /\ \A i \in 1..(Len(a) + Len(b)) : i > Len(a) =>
                i - Len(a) \in 1..Len(b) /\ (a \o b)[i] = b[i - Len(a)]
<1> DEFINE n == Len(a)
           m == Len(b)
           t == a \o b
           C == A \cup B
<1>1. /\ n \in Nat /\ a \in [1..n -> A]
      /\ \A i, j \in 1..n : i # j => a[i] # a[j]
      /\ \A x \in A : \E i \in 1..n : a[i] = x
  BY DEF Lists
<1>2. /\ m \in Nat /\ b \in [1..m -> B]
      /\ \A i, j \in 1..m : i # j => b[i] # b[j]
      /\ \A x \in B : \E i \in 1..m : b[i] = x
  BY DEF Lists
<1>3. /\ t \in Seq(C) /\ Len(t) = n + m
      /\ \A i \in 1..(n + m) : t[i] = IF i <= n THEN a[i] ELSE b[i - n]
  <2>1. a \in Seq(C) /\ b \in Seq(C)
    BY <1>1, <1>2
  <2> HIDE DEF C
  <2> QED
    BY <2>1, ConcatProperties
<1> HIDE DEF t, n, m
<1>4. \A i \in 1..n : i \in 1..(n + m) /\ t[i] = a[i]
  BY <1>1, <1>2, <1>3
<1>5. \A i \in 1..(n + m) : i > n => i - n \in 1..m /\ t[i] = b[i - n]
  BY <1>1, <1>2, <1>3
<1>6. ASSUME NEW i \in 1..(n + m), NEW j \in 1..(n + m), i < j
      PROVE  t[i] # t[j]
  <2>1. CASE j <= n
    <3>1. i \in 1..n /\ j \in 1..n /\ i # j
      BY <1>1, <1>2, <1>6, <2>1
    <3> QED
      BY <1>1, <1>4, <3>1
  <2>2. CASE i <= n /\ j > n
    <3>1. i \in 1..n /\ t[i] \in A
      BY <1>1, <1>2, <1>4, <2>2
    <3>2. t[j] \in B
      BY <1>2, <1>5, <2>2
    <3> QED
      BY <3>1, <3>2
  <2>3. CASE i > n /\ j > n
    <3>1. i - n \in 1..m /\ j - n \in 1..m /\ t[i] = b[i - n] /\ t[j] = b[j - n]
      BY <1>5, <2>3
    <3>2. i - n # j - n
      BY <1>1, <1>2, <1>6
    <3> QED
      BY <1>2, <3>1, <3>2
  <2> QED
    BY <1>1, <1>2, <1>6, <2>1, <2>2, <2>3
<1>7. \A i, j \in 1..(n + m) : i # j => t[i] # t[j]
  <2> SUFFICES ASSUME NEW i \in 1..(n + m), NEW j \in 1..(n + m), i # j PROVE t[i] # t[j]
    OBVIOUS
  <2>1. i < j \/ j < i
    OBVIOUS
  <2> QED
    BY <1>6, <2>1
<1>8. \A x \in C : \E i \in 1..(n + m) : t[i] = x
  <2> SUFFICES ASSUME NEW x \in C PROVE \E i \in 1..(n + m) : t[i] = x
    OBVIOUS
  <2>1. CASE x \in A
    BY <1>1, <1>4, <2>1
  <2>2. CASE x \in B
    <3>1. PICK i \in 1..m : b[i] = x
      BY <1>2, <2>2
    <3>2. i + n \in 1..(n + m) /\ i + n > n /\ (i + n) - n = i
      BY <1>1, <1>2
    <3> QED
      BY <1>5, <3>1, <3>2
  <2> QED
    BY <2>1, <2>2
<1>9. t \in [1..(n + m) -> C] /\ n + m \in Nat
  BY <1>1, <1>2, <1>3
<1>10. Lists(t, C)
  <2> HIDE DEF C
  <2> QED
    BY <1>3, <1>7, <1>8, <1>9 DEF Lists
<1> QED
  BY <1>3, <1>4, <1>5, <1>10 DEF t, n, m
\* The order of keys goes one way.
LEMMA KeysApart ==
    ASSUME NEW x \in Priority \X Priority, NEW y \in Priority \X Priority
    PROVE  /\ Lexicographic(x, y) => ~Lexicographic(y, x) /\ x # y
           /\ ~Lexicographic(x, x)
<1>1. /\ x[1] \in Nat /\ x[2] \in Nat /\ y[1] \in Nat /\ y[2] \in Nat
      /\ x = <<x[1], x[2]>> /\ y = <<y[1], y[2]>>
  <2>1. Priority \subseteq Nat
    BY SchedulerAssumption
  <2>2. \A p \in Priority \X Priority :
          p[1] \in Priority /\ p[2] \in Priority /\ p = <<p[1], p[2]>>
    OBVIOUS
  <2>3. /\ x[1] \in Priority /\ x[2] \in Priority /\ x = <<x[1], x[2]>>
        /\ y[1] \in Priority /\ y[2] \in Priority /\ y = <<y[1], y[2]>>
    BY <2>2, Zenon
  <2> QED
    BY <2>1, <2>3
<1>2. /\ Lexicographic(x, y) <=> x[1] < y[1] \/ (x[1] = y[1] /\ x[2] < y[2])
      /\ Lexicographic(y, x) <=> y[1] < x[1] \/ (y[1] = x[1] /\ y[2] < x[2])
      /\ Lexicographic(x, x) <=> x[1] < x[1] \/ (x[1] = x[1] /\ x[2] < x[2])
  BY <1>1, LexPair
<1> QED
  BY <1>1, <1>2

\* No candidate comes after one of a later group.
ByGroup(s) ==
    \A i, j \in 1..Len(s) : i < j => ~Lexicographic(Group(s[j]), Group(s[i]))

\* The candidates of the first k groups.
FirstGroups(V, keys, k) == {x \in V : \E i \in 1..k : Group(x) = keys[i]}

\* A group is listed behind the groups before it.
LEMMA GroupAdded ==
    ASSUME NEW V, NEW groups, NEW keys, AreGroups(groups, keys, V),
           NEW k \in 1..Len(keys), NEW a, NEW b,
           Lists(a, FirstGroups(V, keys, k - 1)), ByGroup(a),
           Lists(b, Mates(V, keys[k]))
    PROVE  Lists(a \o b, FirstGroups(V, keys, k)) /\ ByGroup(a \o b)
<1> DEFINE A == FirstGroups(V, keys, k - 1)
           B == Mates(V, keys[k])
           n == Len(a)
           m == Len(b)
           t == a \o b
<1>1. /\ Len(keys) \in Nat
      /\ \A i \in 1..Len(keys) : keys[i] \in Priority \X Priority
      /\ \A i, j \in 1..Len(keys) : i < j => Lexicographic(keys[i], keys[j])
  BY DEF AreGroups
<1>2. \A i \in 1..(k - 1) : i \in 1..Len(keys) /\ i < k
  BY <1>1
<1>3. A \cap B = {}
  <2> SUFFICES ASSUME NEW x \in A, x \in B PROVE FALSE
    OBVIOUS
  <2>1. PICK i \in 1..(k - 1) : Group(x) = keys[i]
    BY DEF FirstGroups
  <2>2. keys[i] = keys[k]
    BY <2>1 DEF Mates
  <2> QED
    BY <1>1, <1>2, <2>1, <2>2, KeysApart
<1>4. A \cup B = FirstGroups(V, keys, k)
  <2>1. 1..k = (1..(k - 1)) \cup {k}
    BY <1>1
  <2> QED
    BY <2>1 DEF FirstGroups, Mates
<1>5. /\ Lists(t, A \cup B) /\ Len(t) = n + m
      /\ \A i \in 1..n : t[i] = a[i]
      /\ \A i \in 1..(n + m) : i > n => i - n \in 1..m /\ t[i] = b[i - n]
  <2> HIDE DEF A, B
  <2>1. Lists(a, A) /\ Lists(b, B)
    BY DEF A, B
  <2> QED
    BY <1>3, <2>1, ConcatLists
<1>6. n \in Nat /\ m \in Nat /\ (\A i \in 1..n : a[i] \in A) /\ (\A i \in 1..m : b[i] \in B)
  BY DEF Lists
<1>7. ASSUME NEW i \in 1..(n + m), NEW j \in 1..(n + m), i < j
      PROVE  ~Lexicographic(Group(t[j]), Group(t[i]))
  <2> HIDE DEF t, A, B, n, m
  <2>1. CASE j <= n
    <3>1. i \in 1..n /\ j \in 1..n
      BY <1>6, <1>7, <2>1
    <3>2. ~Lexicographic(Group(a[j]), Group(a[i]))
      BY <1>7, <3>1 DEF ByGroup, n
    <3> QED
      BY <1>5, <3>1, <3>2
  <2>2. CASE j > n
    <3>1. t[j] \in B
      BY <1>5, <1>6, <2>2
    <3>2. Group(t[j]) = keys[k] /\ keys[k] \in Priority \X Priority
      BY <1>1, <3>1 DEF B, Mates
    <3>3. CASE i > n
      <4>1. t[i] \in B
        BY <1>5, <1>6, <3>3
      <4>2. Group(t[i]) = keys[k]
        BY <4>1 DEF B, Mates
      <4> QED
        BY <3>2, <4>2, KeysApart
    <3>4. CASE i <= n
      <4>1. i \in 1..n
        BY <1>6, <3>4
      <4>2. t[i] \in A
        BY <1>5, <1>6, <4>1
      <4>3. PICK l \in 1..(k - 1) : Group(t[i]) = keys[l]
        BY <4>2 DEF A, FirstGroups
      <4>4. Lexicographic(keys[l], keys[k]) /\ keys[l] \in Priority \X Priority
        BY <1>1, <1>2
      <4> QED
        BY <3>2, <4>3, <4>4, KeysApart
    <3> QED
      BY <1>6, <3>3, <3>4
  <2> QED
    BY <1>6, <2>1, <2>2
<1> QED
  BY <1>4, <1>5, <1>7 DEF ByGroup

\* Groups that are listed one after the other list all candidates.
LEMMA AllListed ==
    ASSUME NEW V, NEW groups, NEW keys, AreGroups(groups, keys, V), V # {}, NEW ss,
           DOMAIN ss = 1..Len(keys), ss = [i \in 1..Len(keys) |-> ss[i]],
           \A i \in 1..Len(keys) : Lists(ss[i], Mates(V, keys[i]))
    PROVE  Lists(FlattenSeq(ss), V) /\ ByGroup(FlattenSeq(ss))
<1> DEFINE n == Len(keys)
<1>1. /\ n \in Nat /\ \A x \in V : \E i \in 1..n : keys[i] = Group(x)
      /\ \A i \in 1..n : keys[i] \in Priority \X Priority
  BY DEF AreGroups
<1>2. n \in Nat \ {0} /\ 1 \in 1..n
  BY <1>1
<1>3. ss \in [1..n -> Seq(V)]
  <2>1. \A i \in 1..n : ss[i] \in Seq(V)
    <3> SUFFICES ASSUME NEW i \in 1..n PROVE ss[i] \in Seq(V)
      OBVIOUS
    <3>1. Len(ss[i]) \in Nat /\ ss[i] \in [1..Len(ss[i]) -> Mates(V, keys[i])]
      BY DEF Lists
    <3>2. Mates(V, keys[i]) \subseteq V
      BY DEF Mates
    <3>3. ss[i] \in [1..Len(ss[i]) -> V]
      BY <3>1, <3>2
    <3> QED
      BY <3>1, <3>3
  <2> QED
    BY <2>1
<1>4. PICK f : /\ f[1] = ss[1] /\ \A i \in 2..n : f[i] = f[i - 1] \o ss[i]
               /\ FlattenSeq(ss) = f[n]
  <2> HIDE DEF n
  <2> QED
    BY <1>2, <1>3, FlattenByDefinition, ZenonT(60)
<1> DEFINE P(k) == Lists(f[k], FirstGroups(V, keys, k)) /\ ByGroup(f[k])
           T == {k \in 0..n : k = 0 \/ P(k)}
<1>5. P(1)
  <2>1. FirstGroups(V, keys, 1) = Mates(V, keys[1])
    BY DEF FirstGroups, Mates
  <2>2. Lists(ss[1], Mates(V, keys[1])) /\ keys[1] \in Priority \X Priority
    BY <1>1, <1>2
  <2>3. \A i \in 1..Len(ss[1]) : Group(ss[1][i]) = keys[1]
    BY <2>2 DEF Lists, Mates
  <2>4. ByGroup(ss[1])
    BY <2>2, <2>3, KeysApart DEF ByGroup
  <2> QED
    BY <1>4, <2>1, <2>2, <2>4
<1>6. 0 \in T
  BY <1>1
<1>7. ASSUME NEW k \in 1..n, k - 1 \in T PROVE k \in T
  <2>1. k \in 0..n
    BY <1>1
  <2>2. CASE k = 1
    BY <1>5, <2>1, <2>2, Zenon
  <2>3. CASE k # 1
    <3>1. k \in 2..n /\ k - 1 # 0
      BY <1>1, <2>3
    <3>2. P(k - 1)
      BY <1>7, <3>1
    <3>3. f[k] = f[k - 1] \o ss[k]
      BY <1>4, <3>1
    <3>4. Lists(ss[k], Mates(V, keys[k]))
      OBVIOUS
    <3>5. P(k)
      BY <3>2, <3>3, <3>4, GroupAdded
    <3> HIDE DEF P
    <3> QED
      BY <2>1, <3>5
  <2> QED
    BY <2>2, <2>3
<1>8. 0..n \subseteq T
  <2> HIDE DEF T, n
  <2>1. n \in Nat
    BY <1>1
  <2> QED
    BY <1>6, <1>7, <2>1, UpTo
<1>9. P(n)
  <2> HIDE DEF P
  <2> QED
    BY <1>2, <1>8
<1>10. FirstGroups(V, keys, n) = V
  BY <1>1 DEF FirstGroups
<1> QED
  BY <1>4, <1>9, <1>10

\* orderCandidates tries every candidate once, and by priority.
LEMMA OrderLists ==
    ASSUME NEW V, AreCandidates(V), V # {}, NEW strategy \in Strategies, NEW c,
           \A key \in Priority \X Priority : cursor[<<strategy, key>>] \in Nat
    PROVE  /\ Lists(orderCandidates(strategy, V, c), V)
           /\ ByGroup(orderCandidates(strategy, V, c))
<1>1. PICK groups : groups = groupCandidates(V)
  OBVIOUS
<1>2. PICK keys : AreGroups(groups, keys, V)
  BY <1>1, GroupsMade
<1> DEFINE n == Len(keys)
           ss == [i \in DOMAIN groups |->
                   IF i = 1 /\ HasAffinity(groups[i], c) THEN AffinityFirst(groups[i], c)
                   ELSE StrategyOrder(strategy, groups[i],
                                      cursor[<<strategy, Group(groups[i][1])>>])]
<1>3. /\ n \in Nat /\ DOMAIN groups = 1..n
      /\ \A i \in 1..n : /\ Lists(groups[i], Mates(V, keys[i]))
                         /\ keys[i] \in Priority \X Priority /\ Mates(V, keys[i]) # {}
  BY <1>2 DEF AreGroups
<1>4. orderCandidates(strategy, V, c) = FlattenSeq(ss)
  BY <1>1 DEF orderCandidates
<1>5. DOMAIN ss = 1..n /\ ss = [i \in 1..n |-> ss[i]]
  BY <1>3
<1>6. ASSUME NEW i \in 1..n
      PROVE  Lists(ss[i], Mates(V, keys[i]))
  <2>1. PICK s : s = groups[i]
    OBVIOUS
  <2>2. Lists(s, Mates(V, keys[i])) /\ Mates(V, keys[i]) # {}
    BY <1>3, <2>1
  <2>3. CASE i = 1 /\ HasAffinity(s, c)
    <3>1. ss[i] = AffinityFirst(s, c)
      BY <1>3, <2>1, <2>3
    <3> HIDE DEF ss
    <3> QED
      BY <2>2, <2>3, <3>1, AffinityMoves
  <2>4. CASE ~(i = 1 /\ HasAffinity(s, c))
    <3>1. PICK value : value = cursor[<<strategy, Group(s[1])>>]
      OBVIOUS
    <3>2. ss[i] = StrategyOrder(strategy, s, value)
      BY <1>3, <2>1, <2>4, <3>1
    <3> HIDE DEF ss
    <3>3. /\ Len(s) \in Nat /\ DOMAIN s = 1..Len(s)
          /\ \A j \in 1..Len(s) : s[j] \in Mates(V, keys[i])
          /\ \E j \in 1..Len(s) : TRUE
      BY <2>2 DEF Lists
    <3>4. AreWeighted(s)
      BY <3>3 DEF AreWeighted, Mates, AreCandidates, IsOrdered
    <3>5. value \in Nat
      <4>1. 1 \in 1..Len(s) /\ s[1] \in Mates(V, keys[i])
        BY <3>3
      <4>2. Group(s[1]) = keys[i] /\ keys[i] \in Priority \X Priority
        BY <1>3, <4>1 DEF Mates
      <4> QED
        BY <3>1, <4>2
    <3> QED
      BY <2>2, <3>2, <3>4, <3>5, StrategyLists
  <2> QED
    BY <2>3, <2>4
<1> HIDE DEF ss
<1>7. Lists(FlattenSeq(ss), V) /\ ByGroup(FlattenSeq(ss))
  BY <1>2, <1>5, <1>6, AllListed
<1> QED
  BY <1>4, <1>7

-----------------------------------------------------------------------------
(* Leases *)

\* The keeper renews three times in the time a lease lasts.
LEMMA IntervalFacts ==
    /\ LeaseTTL \in Nat /\ LeaseTTL >= 3
    /\ Interval \in Nat /\ Interval >= 1 /\ 3 * Interval <= LeaseTTL
BY SchedulerAssumption DEF Interval

\* A slot below a limit is one of the slots there are.
LEMMA SlotsReach ==
    ASSUME NEW limit \in Limits, NEW n \in Nat, n < limit
    PROVE  n \in Slots
<1> DEFINE most == CHOOSE m \in Limits : \A k \in Limits : k <= m
<1>1. most \in Limits /\ \A k \in Limits : k <= most
  BY SchedulerAssumption
<1> HIDE DEF most
<1>2. most \in Nat /\ limit \in Nat /\ limit <= most
  BY <1>1, SchedulerAssumption
<1>3. n \in 0..(most - 1)
  BY <1>2
<1>4. QED
  BY <1>3 DEF Slots, most

\* A candidate has a slot.
LEMMA LimitPositive ==
    ASSUME NEW x, IsCandidate(x)
    PROVE  0 < x.limit
<1>1. x.limit \in Nat \ {0}
  BY SchedulerAssumption DEF IsCandidate
<1>2. QED
  BY <1>1

\* What a request tries or uses is a slot of a credential.
LEMMA ResourceInRange ==
    ASSUME NEW q, Shape(q), TriesSlot(q), q.pc \in {"trying"} \cup HoldsPc
    PROVE  /\ q.order[q.at].credential \in Credentials
           /\ q.order[q.at].limit \in Limits
           /\ ResourceOf(q) \in Resources
<1>1. IsCandidate(q.order[q.at]) /\ q.slot \in Nat /\ q.slot < q.order[q.at].limit
  BY DEF Shape, TriesSlot
<1>2. q.slot \in Slots
  BY <1>1, SlotsReach DEF IsCandidate
<1>3. QED
  BY <1>1, <1>2 DEF IsCandidate, ResourceOf, Resources

\* A step that touches no lease but those of one request and free ones.
LeaseStep(r, l, new) ==
    \A x \in Resources :
        \/ new[x] = l[x]
        \/ l[x].owner \in {"none", r} /\ new[x].owner \in {"none", r}

\* Another request keeps its lease in such a step.
LEMMA OthersKeepLeases ==
    ASSUME NEW r \in Requests, NEW s \in Requests, s # r, NEW q, NEW l, NEW new,
           RequestOK(s, q, l), LeaseStep(r, l, new)
    PROVE  RequestOK(s, q, new)
<1>1. s # "none"
  BY SchedulerAssumption
<1>2. \A x \in Resources : l[x].owner = s \/ new[x].owner = s => new[x] = l[x]
  BY <1>1 DEF LeaseStep
<1>3. Owns(s, q, new)
  <2> SUFFICES ASSUME q.pc \in HoldsPc, q.missed < MissedTwice
               PROVE  new[ResourceOf(q)].owner = s /\ Lasts(q, new[ResourceOf(q)].left)
    BY DEF Owns
  <2>1. ResourceOf(q) \in Resources
    BY ResourceInRange DEF RequestOK
  <2>2. l[ResourceOf(q)].owner = s /\ Lasts(q, l[ResourceOf(q)].left)
    BY DEF RequestOK, Owns
  <2>3. QED
    BY <1>2, <2>1, <2>2
<1>4. OwnsOnly(s, q, new)
  BY <1>2 DEF RequestOK, OwnsOnly
<1>5. QED
  BY <1>3, <1>4 DEF RequestOK

\* A step of one request keeps the invariant when it does so for that request.
LEMMA RequestSteps ==
    ASSUME LeaseInv, HealthInv, NEW r \in Requests, NEW next,
           request' = [request EXCEPT ![r] = next],
           lease' \in LeaseType, LeaseStep(r, lease, lease'),
           RequestOK(r, next, lease'), TablesType'
    PROVE  LeaseInv'
<1>1. DOMAIN request = Requests
  BY DEF HealthInv
<1>2. request'[r] = next /\ \A s \in Requests \ {r} : request'[s] = request[s]
  BY <1>1
<1>3. \A s \in Requests \ {r} : RequestOK(s, request[s], lease')
  BY OthersKeepLeases DEF LeaseInv
<1>4. \A s \in Requests : RequestOK(s, request'[s], lease')
  BY <1>2, <1>3
<1>5. QED
  BY <1>4 DEF LeaseInv

\* What is known of a request when it takes a step.
LEMMA RequestKnown ==
    ASSUME LeaseInv, HealthInv, NEW r \in Requests
    PROVE  /\ DOMAIN request = Requests /\ DOMAIN request[r] = Fields
           /\ Shape(request[r]) /\ TriesSlot(request[r])
           /\ Owns(r, request[r], lease) /\ OwnsOnly(r, request[r], lease)
           /\ lease \in LeaseType /\ TablesType
           /\ LeaseStep(r, lease, lease)
           /\ Resource(r) = ResourceOf(request[r]) /\ r # "none"
BY SchedulerAssumption DEF LeaseInv, HealthInv, ReportExact, RequestOK, LeaseStep,
   Resource, Chosen, ResourceOf

\* No slot is leased by a request.
NoLease(r, l) == \A x \in Resources : l[x].owner # r

\* A request that has not been handed a lease, and was not refused by a call whose
\* answer was lost, has none.
LEMMA NoLeaseYet ==
    ASSUME LeaseInv, HealthInv, NEW r \in Requests,
           request[r].pc \in {"idle", "read", "trying", "refused"},
           request[r].pc = "refused" => ~request[r].blind
    PROVE  NoLease(r, lease)
<1>1. Shape(request[r]) /\ OwnsOnly(r, request[r], lease)
  BY RequestKnown
<1>2. ~request[r].blind
  BY <1>1 DEF Shape
<1>3. QED
  BY <1>1, <1>2 DEF OwnsOnly, NoLease, HoldsPc

\* A request without a lease that is not to hold one.
LEMMA WithoutLease ==
    ASSUME NEW r, NEW q, NEW l, NoLease(r, l), Shape(q), q.pc \notin HoldsPc \cup {"trying"}
    PROVE  RequestOK(r, q, l)
BY DEF NoLease, RequestOK, TriesSlot, Owns, OwnsOnly

\* A request that has returned, for which nothing more is to be shown when it
\* is lost.
LEMMA Returned ==
    ASSUME LeaseInv, HealthInv, NEW r \in Requests, NEW pc \in {"done", "lost"},
           Return(r, pc), lease' \in LeaseType, LeaseStep(r, lease, lease'),
           pc = "done" => NoLease(r, lease'), TablesType'
    PROVE  LeaseInv'
<1> DEFINE next == [Idle EXCEPT !.pc = pc, !.report = request[r].report]
<1>1. request' = [request EXCEPT ![r] = next]
  BY DEF Return
<1>2. /\ next.pc = pc /\ next.missed = 0 /\ next.wait = 0 /\ next.slot = 0
      /\ next.blind = FALSE /\ next.candidates = {}
  BY DEF Idle
<1> HIDE DEF next
<1>3. Shape(next)
  <2>1. next.missed \in 0..MissedTwice /\ next.wait \in 0..Interval /\ next.slot \in Nat
    BY <1>2, IntervalFacts DEF MissedTwice
  <2>2. next.blind \in BOOLEAN /\ ~next.blind
    BY <1>2, Zenon
  <2>3. QED
    BY <1>2, <2>1, <2>2 DEF Shape
<1>4. RequestOK(r, next, lease')
  <2>1. CASE pc = "done"
    BY <1>2, <1>3, <2>1, WithoutLease DEF HoldsPc
  <2>2. CASE pc = "lost"
    BY <1>2, <1>3, <2>2 DEF RequestOK, TriesSlot, Owns, OwnsOnly, HoldsPc
  <2>3. QED
    BY <2>1, <2>2
<1>5. QED
  BY <1>1, <1>4, RequestSteps

\* A step that keeps the tables.
LEMMA TablesKept ==
    ASSUME LeaseInv, UNCHANGED <<credential, cursor, affinity, decision>>
    PROVE  TablesType'
BY DEF LeaseInv, TablesType

-----------------------------------------------------------------------------
(* Leases: the steps of Select *)

\* What Select reads of a pool are candidates.
LEMMA loadPoolMembersKeeps ==
    ASSUME LeaseInv, HealthInv, NEW r \in Requests, loadPoolMembers(r)
    PROVE  LeaseInv'
<1> DEFINE q == request[r]
<1>1. q.pc = "idle" /\ UNCHANGED <<lease, credential, cursor, affinity, decision>>
  BY DEF loadPoolMembers, admin
<1>2. /\ DOMAIN request = Requests /\ DOMAIN q = Fields /\ Shape(q)
      /\ lease \in LeaseType /\ TablesType /\ LeaseStep(r, lease, lease)
  BY RequestKnown
<1>3. PICK cs, t, pc :
        /\ pc \in {"idle", "read"}
        /\ \A x \in cs : x \in q.candidates \/ \E c \in Credentials : x = Candidate(q.target, c)
        /\ request' = [request EXCEPT ![r].candidates = cs, ![r].target = t, ![r].pc = pc]
  <2> DEFINE new == q.candidates \cup
               {Candidate(q.target, c) : c \in {d \in Credentials :
                    /\ TargetEligible(Targets[q.target])
                    /\ MemberEligible(Targets[q.target].pool, d)}}
             stop == IF q.target < Len(Targets) THEN "idle" ELSE "read"
  <2>1. request' = [request EXCEPT ![r].candidates = new, ![r].target = q.target + 1,
                                   ![r].pc = stop]
    BY <1>2 DEF loadPoolMembers
  <2>2. stop \in {"idle", "read"}
    OBVIOUS
  <2>3. \A x \in new : x \in q.candidates
                       \/ \E c \in Credentials : x = Candidate(q.target, c)
    OBVIOUS
  <2> HIDE DEF new, stop
  <2>4. QED
    BY <2>1, <2>2, <2>3
<1> DEFINE next == [q EXCEPT !.candidates = cs, !.target = t, !.pc = pc]
<1>4. request' = [request EXCEPT ![r] = next]
  BY <1>2, <1>3
<1>5. /\ next.pc = pc /\ next.candidates = cs /\ next.missed = q.missed
      /\ next.wait = q.wait /\ next.slot = q.slot /\ next.at = q.at
      /\ next.blind = q.blind
  BY <1>2 DEF Fields
<1> HIDE DEF next
<1>6. \A c \in Credentials : IsCandidate(Candidate(q.target, c))
  BY <1>2 DEF IsCandidate, Candidate, TablesType
<1>7. \A x \in next.candidates : IsCandidate(x)
  BY <1>2, <1>3, <1>5, <1>6 DEF Shape
<1>8. Shape(next)
  BY <1>1, <1>2, <1>3, <1>5, <1>7 DEF Shape, HoldsPc
<1>9. RequestOK(r, next, lease)
  BY <1>1, <1>3, <1>5, <1>8, NoLeaseYet, WithoutLease DEF HoldsPc
<1>10. QED
  BY <1>1, <1>2, <1>4, <1>9, TablesKept, RequestSteps

\* Ordering hands on the candidates that were read.
LEMMA OrderKeeps ==
    ASSUME LeaseInv, HealthInv, TriesWhatWasRead, NEW r \in Requests, Order(r)
    PROVE  LeaseInv'
<1> DEFINE q == request[r]
<1>1. q.pc = "read" /\ UNCHANGED <<lease, credential, affinity, decision>>
  BY DEF Order, admin
<1>2. /\ DOMAIN request = Requests /\ DOMAIN q = Fields /\ Shape(q)
      /\ lease \in LeaseType /\ TablesType /\ LeaseStep(r, lease, lease)
  BY RequestKnown
<1>3. NoLease(r, lease)
  BY <1>1, NoLeaseYet
<1>4. CASE q.candidates = {}
  <2> DEFINE next == [q EXCEPT !.pc = "refused"]
  <2>1. request' = [request EXCEPT ![r] = next] /\ cursor' = cursor
    BY <1>2, <1>4 DEF Order, Goto
  <2>2. /\ next.pc = "refused" /\ next.candidates = q.candidates /\ next.missed = q.missed
        /\ next.wait = q.wait /\ next.slot = q.slot /\ next.blind = q.blind
    BY <1>2 DEF Fields
  <2> HIDE DEF next
  <2>3. Shape(next)
    BY <1>1, <1>2, <2>2 DEF Shape, HoldsPc
  <2>4. RequestOK(r, next, lease)
    BY <1>3, <2>2, <2>3, WithoutLease DEF HoldsPc
  <2>5. QED
    BY <1>1, <1>2, <2>1, <2>4, TablesKept, RequestSteps
<1>5. CASE q.candidates # {}
  <2>1. PICK order :
          /\ order = orderCandidates(Strategy[r], q.candidates, affinity[AffinityKey[r]])
          /\ request' = [request EXCEPT ![r].order = order, ![r].candidates = {},
                                        ![r].pc = "trying"]
    BY <1>5 DEF Order
  <2>2. order \in Seq(q.candidates) /\ ToSet(order) = q.candidates
    BY <1>1, <1>5, <2>1 DEF TriesWhatWasRead
  <2>3. Len(order) \in Nat /\ Len(order) > 0
        /\ \A i \in 1..Len(order) : order[i] \in q.candidates
    <3>1. order # <<>>
      BY <1>5, <2>2 DEF ToSet
    <3>2. QED
      BY <2>2, <3>1
  <2> DEFINE next == [q EXCEPT !.order = order, !.candidates = {}, !.pc = "trying"]
  <2>4. request' = [request EXCEPT ![r] = next]
    BY <1>2, <2>1
  <2>5. /\ next.pc = "trying" /\ next.candidates = {} /\ next.order = order
        /\ next.missed = q.missed /\ next.at = q.at
        /\ next.wait = q.wait /\ next.slot = q.slot /\ next.blind = q.blind
    BY <1>2 DEF Fields
  <2> HIDE DEF next
  <2>6. Shape(next)
    BY <1>1, <1>2, <2>5 DEF Shape, HoldsPc
  <2>7. \A i \in 1..Len(order) : IsCandidate(order[i]) /\ order[i].limit > 0
    BY <1>2, <2>3, LimitPositive DEF Shape
  <2>8. TriesSlot(next)
    BY <1>1, <1>2, <2>3, <2>5, <2>7 DEF TriesSlot, Shape
  <2>9. RequestOK(r, next, lease)
    BY <1>3, <2>5, <2>6, <2>8 DEF RequestOK, Owns, OwnsOnly, NoLease, HoldsPc
  <2>10. TablesType'
    <3>1. cursor' = [g \in DOMAIN cursor |->
             IF g \in AdvancedCursors(Strategy[r], q.candidates, affinity[AffinityKey[r]])
               THEN (cursor[g] + 1) % CursorCycle ELSE cursor[g]]
      BY <1>5 DEF Order
    <3>2. \A n \in 0..(CursorCycle - 1) : (n + 1) % CursorCycle \in 0..(CursorCycle - 1)
      BY SchedulerAssumption
    <3>3. cursor' \in [{Strategy[s] : s \in Requests} \X (Priority \X Priority)
                         -> 0..(CursorCycle - 1)]
      BY <1>2, <3>1, <3>2 DEF TablesType
    <3>4. QED
      BY <1>1, <1>2, <3>3 DEF TablesType
  <2>11. QED
    BY <1>1, <1>2, <2>4, <2>9, <2>10, RequestSteps
<1>6. QED
  BY <1>4, <1>5

\* The lease that a request takes is free before.
LEMMA Taken ==
    ASSUME LeaseInv, HealthInv, NEW r \in Requests, request[r].pc = "trying",
           lease[Resource(r)] = Free,
           lease' = [lease EXCEPT ![Resource(r)] = [owner |-> r, left |-> LeaseTTL]]
    PROVE  /\ Resource(r) \in Resources
           /\ lease' \in LeaseType /\ LeaseStep(r, lease, lease')
           /\ lease'[Resource(r)] = [owner |-> r, left |-> LeaseTTL]
           /\ \A x \in Resources \ {Resource(r)} : lease'[x].owner # r
<1>1. PICK x \in Resources : x = Resource(r)
  BY RequestKnown, ResourceInRange
<1>2. lease \in LeaseType /\ r # "none"
  BY RequestKnown
<1>3. PICK l : l = [owner |-> r, left |-> LeaseTTL]
  OBVIOUS
<1>4. l \in [owner : Requests, left : 1..LeaseTTL] /\ l.owner = r
  BY <1>3, IntervalFacts
<1>5. lease' = [lease EXCEPT ![x] = l] /\ lease[x].owner = "none"
  BY <1>1, <1>3 DEF Free
<1>6. lease' \in LeaseType /\ lease'[x] = l /\ \A y \in Resources \ {x} : lease'[y] = lease[y]
  BY <1>2, <1>4, <1>5 DEF LeaseType
<1>7. LeaseStep(r, lease, lease')
  BY <1>4, <1>5, <1>6 DEF LeaseStep
<1>8. \A y \in Resources : lease[y].owner # r
  BY NoLeaseYet DEF NoLease
<1>9. QED
  BY <1>1, <1>3, <1>6, <1>7, <1>8

\* A request that acquires a lease has it in full.
LEMMA AcquireKeeps ==
    ASSUME LeaseInv, HealthInv, NEW r \in Requests, Acquire(r)
    PROVE  LeaseInv'
<1> DEFINE q == request[r]
<1>1. /\ q.pc = "trying" /\ UNCHANGED <<credential, cursor, affinity, decision>>
      /\ lease[Resource(r)] = Free
      /\ lease' = [lease EXCEPT ![Resource(r)] = [owner |-> r, left |-> LeaseTTL]]
  BY DEF Acquire, admin
<1>2. /\ DOMAIN request = Requests /\ DOMAIN q = Fields /\ Shape(q) /\ TriesSlot(q)
      /\ Resource(r) = ResourceOf(q)
  BY RequestKnown
<1>3. /\ Resource(r) \in Resources
      /\ lease' \in LeaseType /\ LeaseStep(r, lease, lease')
      /\ lease'[Resource(r)] = [owner |-> r, left |-> LeaseTTL]
      /\ \A x \in Resources \ {Resource(r)} : lease'[x].owner # r
  BY <1>1, Taken
<1>4. PICK order : /\ order = <<Chosen(r)>>
                   /\ request' = [request EXCEPT ![r].order = order, ![r].at = 1,
                                                 ![r].pc = "chosen"]
  BY DEF Acquire
<1> DEFINE next == [q EXCEPT !.order = order, !.at = 1, !.pc = "chosen"]
<1>5. request' = [request EXCEPT ![r] = next]
  BY <1>2, <1>4
<1>6. /\ next.pc = "chosen" /\ next.candidates = q.candidates /\ next.order = order
      /\ next.missed = q.missed /\ next.at = 1
      /\ next.wait = q.wait /\ next.slot = q.slot /\ next.blind = q.blind
  BY <1>2 DEF Fields
<1> HIDE DEF next
<1>7. Len(order) = 1 /\ order[1] = q.order[q.at]
  BY <1>4 DEF Chosen
<1>8. next.missed = 0 /\ Shape(next)
  BY <1>1, <1>2, <1>6 DEF Shape, HoldsPc
<1>9. TriesSlot(next)
  BY <1>1, <1>2, <1>6, <1>7 DEF TriesSlot, HoldsPc
<1>10. ResourceOf(next) = Resource(r)
  BY <1>2, <1>6, <1>7 DEF ResourceOf
<1>11. Owns(r, next, lease')
  BY <1>3, <1>6, <1>8, <1>10, IntervalFacts DEF Owns, Lasts
<1>12. OwnsOnly(r, next, lease')
  BY <1>3, <1>6, <1>10 DEF OwnsOnly, HoldsPc
<1>13. QED
  BY <1>1, <1>3, <1>5, <1>8, <1>9, <1>11, <1>12, TablesKept, RequestSteps DEF RequestOK

\* A request that finds a lease taken tries on, below the limit it has read.
LEMMA LeaseBusyKeeps ==
    ASSUME LeaseInv, HealthInv, NEW r \in Requests, LeaseBusy(r)
    PROVE  LeaseInv'
<1> DEFINE q == request[r]
<1>1. q.pc = "trying" /\ UNCHANGED <<lease, credential, cursor, affinity, decision>>
  BY DEF LeaseBusy, admin
<1>2. /\ DOMAIN request = Requests /\ DOMAIN q = Fields /\ Shape(q) /\ TriesSlot(q)
      /\ lease \in LeaseType /\ LeaseStep(r, lease, lease)
  BY RequestKnown
<1>3. NoLease(r, lease)
  BY <1>1, NoLeaseYet
<1>4. ASSUME NEW next, request' = [request EXCEPT ![r] = next], Shape(next),
             TriesSlot(next), next.pc \in {"trying", "refused"}
      PROVE  LeaseInv'
  <2>1. RequestOK(r, next, lease)
    BY <1>3, <1>4 DEF RequestOK, Owns, OwnsOnly, NoLease, HoldsPc
  <2>2. QED
    BY <1>1, <1>2, <1>4, <2>1, TablesKept, RequestSteps
<1>5. CASE SlotLeft(r) /\ request' = [request EXCEPT ![r].slot = @ + 1]
  <2> DEFINE next == [q EXCEPT !.slot = @ + 1]
  <2>1. request' = [request EXCEPT ![r] = next]
    BY <1>2, <1>5
  <2>2. /\ next.pc = q.pc /\ next.candidates = q.candidates /\ next.order = q.order
        /\ next.missed = q.missed /\ next.at = q.at
        /\ next.wait = q.wait /\ next.slot = q.slot + 1 /\ next.blind = q.blind
    BY <1>2 DEF Fields
  <2> HIDE DEF next
  <2>3. Shape(next)
    BY <1>1, <1>2, <2>2 DEF Shape, HoldsPc
  <2>4. TriesSlot(next)
    BY <1>1, <1>2, <1>5, <2>2 DEF TriesSlot, SlotLeft, Chosen
  <2>5. QED
    BY <1>1, <1>4, <2>1, <2>2, <2>3, <2>4
<1>6. CASE /\ q.at < Len(q.order)
           /\ request' = [request EXCEPT ![r].at = @ + 1, ![r].slot = 0]
  <2> DEFINE next == [q EXCEPT !.at = @ + 1, !.slot = 0]
  <2>1. request' = [request EXCEPT ![r] = next]
    BY <1>2, <1>6
  <2>2. /\ next.pc = q.pc /\ next.candidates = q.candidates /\ next.order = q.order
        /\ next.missed = q.missed /\ next.at = q.at + 1
        /\ next.wait = q.wait /\ next.slot = 0 /\ next.blind = q.blind
    BY <1>2 DEF Fields
  <2> HIDE DEF next
  <2>3. Shape(next)
    BY <1>1, <1>2, <2>2 DEF Shape, HoldsPc
  <2>4. /\ Len(q.order) \in Nat /\ q.at \in 1..Len(q.order)
        /\ \A i \in 1..Len(q.order) : IsCandidate(q.order[i])
    BY <1>1, <1>2 DEF TriesSlot
  <2>5. q.at + 1 \in 1..Len(q.order)
    BY <1>6, <2>4
  <2>6. 0 < q.order[q.at + 1].limit
    BY <2>4, <2>5, LimitPositive
  <2>7. TriesSlot(next)
    BY <2>2, <2>4, <2>5, <2>6 DEF TriesSlot
  <2>8. QED
    BY <1>1, <1>4, <2>1, <2>2, <2>3, <2>7
<1>7. CASE request' = [request EXCEPT ![r].pc = "refused"]
  <2> DEFINE next == [q EXCEPT !.pc = "refused"]
  <2>1. request' = [request EXCEPT ![r] = next]
    BY <1>2, <1>7
  <2>2. /\ next.pc = "refused" /\ next.candidates = q.candidates
        /\ next.missed = q.missed
        /\ next.wait = q.wait /\ next.slot = q.slot /\ next.blind = q.blind
    BY <1>2 DEF Fields
  <2> HIDE DEF next
  <2>3. Shape(next) /\ TriesSlot(next)
    BY <1>1, <1>2, <2>2 DEF Shape, TriesSlot, HoldsPc
  <2>4. QED
    BY <1>4, <2>1, <2>2, <2>3
<1>8. QED
  BY <1>5, <1>6, <1>7 DEF LeaseBusy

\* A coordinator that fails may have granted a lease nobody is told of.
LEMMA StateUnavailableKeeps ==
    ASSUME LeaseInv, HealthInv, NEW r \in Requests, StateUnavailable(r)
    PROVE  LeaseInv'
<1> DEFINE q == request[r]
<1>1. q.pc \in {"read", "trying"} /\ UNCHANGED <<credential, cursor, affinity, decision>>
  BY DEF StateUnavailable, admin
<1>2. /\ DOMAIN request = Requests /\ DOMAIN q = Fields /\ Shape(q)
      /\ lease \in LeaseType /\ LeaseStep(r, lease, lease)
  BY RequestKnown
<1>3. CASE UNCHANGED lease /\ Goto(r, "refused")
  <2> DEFINE next == [q EXCEPT !.pc = "refused"]
  <2>1. request' = [request EXCEPT ![r] = next]
    BY <1>2, <1>3 DEF Goto
  <2>2. /\ next.pc = "refused" /\ next.candidates = q.candidates
        /\ next.missed = q.missed
        /\ next.wait = q.wait /\ next.slot = q.slot /\ next.blind = q.blind
    BY <1>2 DEF Fields
  <2> HIDE DEF next
  <2>3. Shape(next)
    BY <1>1, <1>2, <2>2 DEF Shape, HoldsPc
  <2>4. RequestOK(r, next, lease)
    BY <1>1, <2>2, <2>3, NoLeaseYet, WithoutLease DEF HoldsPc
  <2>5. QED
    BY <1>1, <1>2, <1>3, <2>1, <2>4, TablesKept, RequestSteps
<1>4. CASE /\ q.pc = "trying" /\ lease[Resource(r)] = Free
           /\ lease' = [lease EXCEPT ![Resource(r)] = [owner |-> r, left |-> LeaseTTL]]
           /\ request' = [request EXCEPT ![r].pc = "refused", ![r].blind = TRUE]
  <2> DEFINE next == [q EXCEPT !.pc = "refused", !.blind = TRUE]
  <2>1. request' = [request EXCEPT ![r] = next]
    BY <1>2, <1>4
  <2>2. /\ next.pc = "refused" /\ next.candidates = q.candidates
        /\ next.missed = q.missed
        /\ next.wait = q.wait /\ next.slot = q.slot /\ next.blind = TRUE
    BY <1>2 DEF Fields
  <2> HIDE DEF next
  <2>3. next.blind /\ next.blind \in BOOLEAN
    BY <2>2, Zenon
  <2>4. Shape(next)
    BY <1>1, <1>2, <2>2, <2>3 DEF Shape, HoldsPc
  <2>5. RequestOK(r, next, lease')
    BY <2>2, <2>3, <2>4 DEF RequestOK, TriesSlot, Owns, OwnsOnly, HoldsPc
  <2>6. lease' \in LeaseType /\ LeaseStep(r, lease, lease')
    BY <1>4, Taken
  <2>7. QED
    BY <1>1, <2>1, <2>5, <2>6, TablesKept, RequestSteps
<1>5. QED
  BY <1>3, <1>4 DEF StateUnavailable

\* The affinity and the decision are credentials.
LEMMA DecisionType ==
    ASSUME LeaseInv, HealthInv, NEW r \in Requests, request[r].pc \in HoldsPc,
           UNCHANGED <<credential, cursor>>, SetAffinity(r),
           decision' = decision \/ decision' = [decision EXCEPT ![r] = Chosen(r).credential]
    PROVE  TablesType'
<1>1. TablesType
  BY DEF LeaseInv
<1>2. Chosen(r).credential \in Credentials
  BY RequestKnown, ResourceInRange DEF Chosen
<1>3. affinity' \in [{AffinityKey[s] : s \in Requests} -> Credentials \cup {Unknown}]
  BY <1>1, <1>2 DEF TablesType, SetAffinity
<1>4. decision' \in [Requests -> Credentials \cup {Unknown, 0}]
  BY <1>1, <1>2 DEF TablesType
<1>5. QED
  BY <1>1, <1>3, <1>4 DEF TablesType

\* The step from one place that holds the lease to another.
LEMMA HoldsOn ==
    ASSUME LeaseInv, HealthInv, NEW r \in Requests, request[r].pc \in HoldsPc,
           NEW next, request' = [request EXCEPT ![r] = next],
           next.pc \in HoldsPc, next.order = request[r].order, next.at = request[r].at,
           next.slot = request[r].slot, next.candidates = request[r].candidates,
           next.blind = request[r].blind, next.wait \in 0..Interval,
           next.missed = request[r].missed,
           next.missed < MissedTwice /\ Lasts(request[r], lease[Resource(r)].left)
             => Lasts(next, lease[Resource(r)].left),
           UNCHANGED lease, TablesType'
    PROVE  LeaseInv'
<1> DEFINE q == request[r]
<1>1. /\ Shape(q) /\ TriesSlot(q) /\ Owns(r, q, lease) /\ OwnsOnly(r, q, lease)
      /\ lease \in LeaseType /\ LeaseStep(r, lease, lease) /\ Resource(r) = ResourceOf(q)
  BY RequestKnown
<1>2. ResourceOf(next) = ResourceOf(q)
  BY DEF ResourceOf
<1>3. Shape(next) /\ TriesSlot(next)
  BY <1>1 DEF Shape, TriesSlot, HoldsPc
<1>4. Owns(r, next, lease)
  BY <1>1, <1>2 DEF Owns
<1>5. OwnsOnly(r, next, lease)
  BY <1>1, <1>2 DEF OwnsOnly, Shape, HoldsPc
<1>6. RequestOK(r, next, lease)
  BY <1>3, <1>4, <1>5 DEF RequestOK
<1>7. QED
  BY <1>1, <1>6, RequestSteps

\* The decision is recorded: the handler goes on with its lease, or returns
\* without one.
LEMMA RecordDecisionKeeps ==
    ASSUME LeaseInv, HealthInv, NEW r \in Requests, RecordDecision(r)
    PROVE  LeaseInv'
<1> DEFINE q == request[r]
<1>1. UNCHANGED <<lease, credential, cursor>>
  BY DEF RecordDecision, admin
<1>2. /\ DOMAIN request = Requests /\ DOMAIN q = Fields /\ Shape(q)
      /\ lease \in LeaseType /\ LeaseStep(r, lease, lease) /\ TablesType
  BY RequestKnown
<1>3. CASE /\ q.pc = "chosen" /\ SetAffinity(r)
           /\ decision' = [decision EXCEPT ![r] = Chosen(r).credential]
           /\ request' = [request EXCEPT ![r].pc = "running",
                                         ![r].wait = LeaseTTL \div 3]
  <2> DEFINE next == [q EXCEPT !.pc = "running", !.wait = Interval]
  <2>1. request' = [request EXCEPT ![r] = next]
    BY <1>2, <1>3 DEF Interval
  <2>2. /\ next.pc = "running" /\ next.candidates = q.candidates /\ next.order = q.order
        /\ next.missed = q.missed /\ next.at = q.at
        /\ next.wait = Interval /\ next.slot = q.slot /\ next.blind = q.blind
    BY <1>2 DEF Fields
  <2> HIDE DEF next
  <2>3. TablesType'
    BY <1>1, <1>3, DecisionType DEF HoldsPc
  <2>4. ASSUME next.missed < MissedTwice, Lasts(q, lease[Resource(r)].left)
        PROVE  Lasts(next, lease[Resource(r)].left)
    <3>1. lease[Resource(r)] \in [owner : Requests, left : 1..LeaseTTL] \cup {Free}
      BY <1>2, <1>3, RequestKnown, ResourceInRange DEF LeaseType, HoldsPc
    <3>2. lease[Resource(r)].left \in Nat
      BY <3>1, IntervalFacts DEF Free
    <3>3. next.missed \in 0..MissedTwice
      BY <1>2, <2>2 DEF Shape
    <3>4. QED
      BY <1>3, <2>2, <2>4, <3>2, <3>3, IntervalFacts DEF Lasts, MissedTwice
  <2>5. next.wait \in 0..Interval
    BY <2>2, IntervalFacts
  <2>6. QED
    BY <1>1, <1>3, <2>1, <2>2, <2>3, <2>4, <2>5, HoldsOn DEF HoldsPc
<1>4. CASE /\ q.pc = "refused" /\ UNCHANGED affinity
           /\ decision' = [decision EXCEPT ![r] = 0]
           /\ Return(r, IF q.blind THEN "lost" ELSE "done")
  <2>1. TablesType'
    BY <1>1, <1>2, <1>4 DEF TablesType
  <2>2. PICK pc \in {"done", "lost"} : Return(r, pc) /\ (pc = "done" => ~q.blind)
    BY <1>4
  <2>3. pc = "done" => NoLease(r, lease)
    BY <1>4, <2>2, NoLeaseYet
  <2>4. QED
    BY <1>1, <1>2, <2>1, <2>2, <2>3, Returned
<1>5. QED
  BY <1>3, <1>4 DEF RecordDecision

\* A handler that goes to release its lease still has it.
LEMMA GoesToRelease ==
    ASSUME LeaseInv, HealthInv, NEW r \in Requests, request[r].pc \in HoldsPc,
           NEW next, request' = [request EXCEPT ![r] = next],
           next.pc = "releasing", next.order = request[r].order, next.at = request[r].at,
           next.slot = request[r].slot, next.candidates = request[r].candidates,
           next.blind = request[r].blind, next.wait = request[r].wait,
           next.missed = request[r].missed, UNCHANGED lease, TablesType'
    PROVE  LeaseInv'
<1>1. Shape(request[r]) /\ lease \in LeaseType
  BY RequestKnown
<1>2. lease[Resource(r)] \in [owner : Requests, left : 1..LeaseTTL] \cup {Free}
  BY <1>1, RequestKnown, ResourceInRange DEF LeaseType
<1>3. lease[Resource(r)].left \in Nat
  BY <1>2, IntervalFacts DEF Free
<1>4. next.missed \in 0..MissedTwice /\ next.wait \in 0..Interval
  BY <1>1 DEF Shape
<1>5. ASSUME next.missed < MissedTwice, Lasts(request[r], lease[Resource(r)].left)
      PROVE  Lasts(next, lease[Resource(r)].left)
  BY <1>3, <1>4, <1>5, IntervalFacts DEF Lasts, MissedTwice, HoldsPc
<1>6. QED
  BY <1>4, <1>5, HoldsOn DEF HoldsPc

\* A decision that is not recorded gives the lease up, or returns without one.
LEMMA RecordDecisionFailsKeeps ==
    ASSUME LeaseInv, HealthInv, NEW r \in Requests, RecordDecisionFails(r)
    PROVE  LeaseInv'
<1> DEFINE q == request[r]
<1>1. UNCHANGED <<lease, credential, cursor, decision>>
  BY DEF RecordDecisionFails, admin
<1>2. /\ DOMAIN request = Requests /\ DOMAIN q = Fields
      /\ lease \in LeaseType /\ LeaseStep(r, lease, lease) /\ TablesType
  BY RequestKnown
<1>3. CASE q.pc = "chosen" /\ SetAffinity(r) /\ GiveUpLease(r)
  <2> DEFINE next == [q EXCEPT !.pc = "releasing"]
  <2>1. request' = [request EXCEPT ![r] = next]
    BY <1>2, <1>3 DEF GiveUpLease, Goto
  <2>2. /\ next.pc = "releasing" /\ next.candidates = q.candidates /\ next.order = q.order
        /\ next.missed = q.missed /\ next.at = q.at
        /\ next.wait = q.wait /\ next.slot = q.slot /\ next.blind = q.blind
    BY <1>2 DEF Fields
  <2> HIDE DEF next
  <2>3. TablesType'
    BY <1>1, <1>3, DecisionType DEF HoldsPc
  <2>4. QED
    BY <1>1, <1>3, <2>1, <2>2, <2>3, GoesToRelease DEF HoldsPc
<1>4. CASE /\ q.pc = "refused" /\ UNCHANGED affinity
           /\ Return(r, IF q.blind THEN "lost" ELSE "done")
  <2>1. TablesType'
    BY <1>1, <1>2, <1>4 DEF TablesType
  <2>2. PICK pc \in {"done", "lost"} : Return(r, pc) /\ (pc = "done" => ~q.blind)
    BY <1>4
  <2>3. pc = "done" => NoLease(r, lease)
    BY <1>4, <2>2, NoLeaseYet
  <2>4. QED
    BY <1>1, <1>2, <2>1, <2>2, <2>3, Returned
<1>5. QED
  BY <1>3, <1>4 DEF RecordDecisionFails

-----------------------------------------------------------------------------
(* Leases: the handler and its keeper *)

\* A renewal gives the lease its whole time again; a missed one leaves enough
\* for the next.
LEMMA RenewKeeps ==
    ASSUME LeaseInv, HealthInv, NEW r \in Requests, Renew(r)
    PROVE  LeaseInv'
<1> DEFINE q == request[r]
<1>1. /\ q.pc \in {"running", "reporting"} /\ q.wait = 0
      /\ UNCHANGED <<credential, cursor, affinity, decision>>
  BY DEF Renew, KeeperRuns, admin
<1>2. /\ DOMAIN request = Requests /\ DOMAIN q = Fields /\ Shape(q) /\ TriesSlot(q)
      /\ Owns(r, q, lease) /\ OwnsOnly(r, q, lease) /\ lease \in LeaseType
      /\ LeaseStep(r, lease, lease) /\ Resource(r) = ResourceOf(q)
  BY RequestKnown
<1>3. PICK x \in Resources : x = Resource(r)
  BY <1>1, <1>2, ResourceInRange DEF HoldsPc
<1>4. lease[x] \in [owner : Requests, left : 1..LeaseTTL] \cup {Free}
  BY <1>2 DEF LeaseType
<1>5. ASSUME NEW m \in 0..MissedTwice, NEW new,
             request' = [request EXCEPT ![r].wait = LeaseTTL \div 3, ![r].missed = m],
             lease' = new, new \in LeaseType, LeaseStep(r, lease, new),
             \A y \in Resources \ {x} : new[y] = lease[y],
             m < MissedTwice =>
               /\ new[x].owner = r
               /\ m = 0 => new[x].left >= LeaseTTL
               /\ m = 1 => new[x].left >= LeaseTTL - Interval
      PROVE  LeaseInv'
  <2> DEFINE next == [q EXCEPT !.wait = Interval, !.missed = m]
  <2>1. request' = [request EXCEPT ![r] = next]
    BY <1>2, <1>5 DEF Interval
  <2>2. /\ next.pc = q.pc /\ next.candidates = q.candidates /\ next.order = q.order
        /\ next.missed = m /\ next.at = q.at
        /\ next.wait = Interval /\ next.slot = q.slot /\ next.blind = q.blind
    BY <1>2 DEF Fields
  <2> HIDE DEF next
  <2>3. Shape(next) /\ TriesSlot(next)
    BY <1>1, <1>2, <2>2, IntervalFacts DEF Shape, TriesSlot, HoldsPc
  <2>4. ResourceOf(next) = x
    BY <1>2, <1>3, <2>2 DEF ResourceOf
  <2>5. new[x].left \in Nat
    BY <1>5, IntervalFacts DEF LeaseType, Free
  <2>6. Owns(r, next, new)
    BY <1>1, <1>5, <2>2, <2>4, <2>5, IntervalFacts DEF Owns, Lasts, MissedTwice
  <2>7. OwnsOnly(r, next, new)
    BY <1>1, <1>2, <1>3, <1>5, <2>2, <2>4 DEF OwnsOnly, HoldsPc, Shape
  <2>8. RequestOK(r, next, new)
    BY <2>3, <2>6, <2>7 DEF RequestOK
  <2>9. QED
    BY <1>1, <1>5, <2>1, <2>8, TablesKept, RequestSteps
<1>6. CASE /\ lease[x].owner = r
           /\ lease' = [lease EXCEPT ![x].left = LeaseTTL]
           /\ request' = [request EXCEPT ![r].wait = LeaseTTL \div 3, ![r].missed = 0]
  <2>1. lease[x] \in [owner : Requests, left : 1..LeaseTTL]
    BY <1>2, <1>4, <1>6, RequestKnown DEF Free
  <2>2. PICK l : l = [lease[x] EXCEPT !.left = LeaseTTL]
    OBVIOUS
  <2>3. l \in [owner : Requests, left : 1..LeaseTTL] /\ l.owner = r /\ l.left = LeaseTTL
    BY <1>6, <2>1, <2>2, IntervalFacts
  <2>4. lease' = [lease EXCEPT ![x] = l]
    BY <1>2, <1>6, <2>2 DEF LeaseType
  <2>5. lease' \in LeaseType /\ lease'[x] = l /\ \A y \in Resources \ {x} : lease'[y] = lease[y]
    BY <1>2, <2>3, <2>4 DEF LeaseType
  <2>6. LeaseStep(r, lease, lease')
    BY <1>6, <2>3, <2>5 DEF LeaseStep
  <2>7. PICK new : new = lease'
    OBVIOUS
  <2>8. PICK m \in 0..MissedTwice : m = 0
    BY DEF MissedTwice
  <2>9. new[x].owner = r /\ (m = 0 => new[x].left >= LeaseTTL) /\ m # 1
    BY <2>3, <2>5, <2>7, <2>8, IntervalFacts
  <2>10. request' = [request EXCEPT ![r].wait = LeaseTTL \div 3, ![r].missed = m]
    BY <1>6, <2>8
  <2>11. lease' = new /\ new \in LeaseType /\ LeaseStep(r, lease, new)
         /\ \A y \in Resources \ {x} : new[y] = lease[y]
    BY <2>5, <2>6, <2>7
  <2>12. QED
    BY <1>5, <2>8, <2>9, <2>10, <2>11
<1>7. CASE /\ request' = [request EXCEPT ![r].wait = LeaseTTL \div 3,
                            ![r].missed = IF @ < MissedTwice THEN @ + 1 ELSE @]
           /\ UNCHANGED lease
  <2>1. PICK m : m = IF q.missed < MissedTwice THEN q.missed + 1 ELSE q.missed
    OBVIOUS
  <2>2. m \in 0..MissedTwice /\ m # 0 /\ (m < MissedTwice => q.missed = 0)
    BY <1>2, <2>1 DEF Shape, MissedTwice
  <2>3. request' = [request EXCEPT ![r].wait = LeaseTTL \div 3, ![r].missed = m]
    BY <1>2, <1>7, <2>1 DEF Fields
  <2>4. ASSUME m < MissedTwice
        PROVE  /\ lease[x].owner = r
               /\ m = 1 => lease[x].left >= LeaseTTL - Interval
    <3>1. q.missed = 0
      BY <2>2, <2>4
    <3>2. lease[x].owner = r /\ Lasts(q, lease[x].left)
      BY <1>1, <1>2, <1>3, <3>1 DEF Owns, HoldsPc, MissedTwice
    <3>3. lease[x].left >= LeaseTTL - Interval + 0
      BY <1>1, <3>1, <3>2 DEF Lasts
    <3>4. QED
      BY <3>2, <3>3, IntervalFacts
  <2>5. QED
    BY <1>2, <1>5, <1>7, <2>2, <2>3, <2>4
<1>8. QED
  BY <1>3, <1>6, <1>7 DEF Renew

\* The handler gets on to its report or its release.
LEMMA HandlerGoesOn ==
    ASSUME LeaseInv, HealthInv, NEW r \in Requests,
           RefusedBeforeUpstream(r) \/ UpstreamEnds(r) \/ recordHealth(r)
             \/ recordHealthFails(r)
    PROVE  LeaseInv'
<1> DEFINE q == request[r]
<1>1. /\ q.pc \in {"running", "reporting"}
      /\ UNCHANGED <<lease, credential, cursor, affinity, decision>>
  BY DEF RefusedBeforeUpstream, UpstreamEnds, recordHealth, recordHealthFails, admin
<1>2. DOMAIN request = Requests /\ DOMAIN q = Fields /\ Shape(q)
  BY RequestKnown
<1>3. CASE request' = [request EXCEPT ![r].pc = "releasing"]
  <2> DEFINE next == [q EXCEPT !.pc = "releasing"]
  <2>1. request' = [request EXCEPT ![r] = next]
    BY <1>2, <1>3
  <2>2. /\ next.pc = "releasing" /\ next.candidates = q.candidates /\ next.order = q.order
        /\ next.missed = q.missed /\ next.at = q.at
        /\ next.wait = q.wait /\ next.slot = q.slot /\ next.blind = q.blind
    BY <1>2 DEF Fields
  <2> HIDE DEF next
  <2>3. QED
    BY <1>1, <2>1, <2>2, TablesKept, GoesToRelease DEF HoldsPc
<1>4. CASE request' = [request EXCEPT ![r].pc = "releasing", ![r].report = Idle.report]
  <2> DEFINE next == [q EXCEPT !.pc = "releasing", !.report = Idle.report]
  <2>1. request' = [request EXCEPT ![r] = next]
    BY <1>2, <1>4
  <2>2. /\ next.pc = "releasing" /\ next.candidates = q.candidates /\ next.order = q.order
        /\ next.missed = q.missed /\ next.at = q.at
        /\ next.wait = q.wait /\ next.slot = q.slot /\ next.blind = q.blind
    BY <1>2 DEF Fields
  <2> HIDE DEF next
  <2>3. QED
    BY <1>1, <2>1, <2>2, TablesKept, GoesToRelease DEF HoldsPc
<1>5. ASSUME NEW report, q.pc = "running",
             request' = [request EXCEPT ![r].pc = "reporting", ![r].report = report]
      PROVE  LeaseInv'
  <2> DEFINE next == [q EXCEPT !.pc = "reporting", !.report = report]
  <2>1. request' = [request EXCEPT ![r] = next]
    BY <1>2, <1>5
  <2>2. /\ next.pc = "reporting" /\ next.candidates = q.candidates /\ next.order = q.order
        /\ next.missed = q.missed /\ next.at = q.at
        /\ next.wait = q.wait /\ next.slot = q.slot /\ next.blind = q.blind
    BY <1>2 DEF Fields
  <2> HIDE DEF next
  <2>3. ASSUME Lasts(q, lease[Resource(r)].left)
        PROVE  Lasts(next, lease[Resource(r)].left)
    BY <1>5, <2>2, <2>3 DEF Lasts
  <2>4. next.wait \in 0..Interval
    BY <1>2, <2>2 DEF Shape
  <2>5. QED
    BY <1>1, <2>1, <2>2, <2>3, <2>4, TablesKept, HoldsOn DEF HoldsPc
<1>6. QED
  BY <1>3, <1>4, <1>5
     DEF RefusedBeforeUpstream, UpstreamEnds, recordHealth, recordHealthFails, Goto

\* A handler releases its own lease and no other.
LEMMA ReleaseKeeps ==
    ASSUME LeaseInv, HealthInv, NEW r \in Requests, Release(r)
    PROVE  LeaseInv'
<1> DEFINE q == request[r]
<1>1. /\ q.pc = "releasing" /\ lease' = Released(r) /\ Return(r, "done")
      /\ UNCHANGED <<credential, cursor, affinity, decision>>
  BY DEF Release, admin
<1>2. /\ Shape(q) /\ TriesSlot(q) /\ OwnsOnly(r, q, lease) /\ lease \in LeaseType
      /\ LeaseStep(r, lease, lease) /\ Resource(r) = ResourceOf(q) /\ r # "none"
  BY RequestKnown
<1>3. PICK x \in Resources : x = Resource(r)
  BY <1>1, <1>2, ResourceInRange DEF HoldsPc
<1>4. \A y \in Resources \ {x} : lease[y].owner # r
  BY <1>1, <1>2, <1>3 DEF OwnsOnly, Shape
<1>5. CASE lease[x].owner = r
  <2>1. lease' = [lease EXCEPT ![x] = Free]
    BY <1>1, <1>3, <1>5 DEF Released
  <2>2. /\ lease' \in LeaseType /\ lease'[x] = Free
        /\ \A y \in Resources \ {x} : lease'[y] = lease[y]
    BY <1>2, <2>1 DEF LeaseType
  <2>3. Free.owner = "none"
    BY DEF Free
  <2>4. LeaseStep(r, lease, lease') /\ NoLease(r, lease')
    BY <1>2, <1>4, <1>5, <2>2, <2>3 DEF LeaseStep, NoLease
  <2>5. QED
    BY <1>1, <2>2, <2>4, TablesKept, Returned
<1>6. CASE lease[x].owner # r
  <2>1. lease' = lease /\ NoLease(r, lease')
    BY <1>1, <1>3, <1>4, <1>6 DEF Released, NoLease
  <2>2. QED
    BY <1>1, <1>2, <2>1, TablesKept, Returned
<1>7. QED
  BY <1>5, <1>6

\* A lease whose release fails, or whose process crashes, is left to expire.
LEMMA LostKeeps ==
    ASSUME LeaseInv, HealthInv, NEW r \in Requests, ReleaseFails(r) \/ Crash(r)
    PROVE  LeaseInv'
<1>1. Return(r, "lost") /\ UNCHANGED <<lease, credential, cursor, affinity, decision>>
  BY DEF ReleaseFails, Crash, admin
<1>2. lease \in LeaseType /\ LeaseStep(r, lease, lease)
  BY RequestKnown
<1>3. QED
  BY <1>1, <1>2, TablesKept, Returned

-----------------------------------------------------------------------------
(* Leases: time and administration *)

\* A lease that ages has one tick less, or is free.
LEMMA AgedLease ==
    ASSUME NEW l \in [owner : Requests, left : 1..LeaseTTL] \cup {Free}
    PROVE  /\ Aged(l) \in [owner : Requests, left : 1..LeaseTTL] \cup {Free}
           /\ l.left \in Nat
           /\ l.left >= 2 => Aged(l).owner = l.owner /\ Aged(l).left = l.left - 1
           /\ \A r \in Requests : Aged(l).owner = r => l.owner = r
<1>1. "none" \notin Requests /\ LeaseTTL \in Nat
  BY SchedulerAssumption
<1>2. Free.owner = "none" /\ Free.left = 0
  BY DEF Free
<1>3. CASE l.left <= 1
  <2>1. Aged(l) = Free
    BY <1>3 DEF Aged
  <2>2. l.left \in Nat
    BY <1>1, <1>2
  <2>3. QED
    BY <1>1, <1>2, <1>3, <2>1, <2>2
<1>4. CASE ~(l.left <= 1)
  <2>1. Aged(l) = [l EXCEPT !.left = @ - 1]
    BY <1>4 DEF Aged
  <2>2. l \in [owner : Requests, left : 1..LeaseTTL]
    BY <1>2, <1>4
  <2>3. PICK n \in 1..LeaseTTL : n = l.left - 1
    BY <1>1, <1>4, <2>2
  <2>4. Aged(l) = [l EXCEPT !.left = n]
    BY <2>1, <2>2, <2>3
  <2>5. QED
    BY <1>1, <2>2, <2>3, <2>4
<1>5. QED
  BY <1>3, <1>4

\* Before a lease runs out, its keeper has had two chances to renew it.
LEMMA TickKeepsLeases ==
    ASSUME LeaseInv, HealthInv, Tick
    PROVE  LeaseInv'
<1>1. UNCHANGED <<credential, cursor, affinity, decision>>
  BY DEF Tick, admin
<1>2. lease \in LeaseType /\ lease' = [x \in Resources |-> Aged(lease[x])]
  BY DEF LeaseInv, LeaseType, Tick
<1>3. \A x \in Resources :
        /\ lease[x] \in [owner : Requests, left : 1..LeaseTTL] \cup {Free}
        /\ lease'[x] = Aged(lease[x])
  BY <1>2 DEF LeaseType
<1>4. lease' \in LeaseType
  BY <1>2, <1>3, AgedLease DEF LeaseType
<1>5. ASSUME NEW r \in Requests
      PROVE  RequestOK(r, request'[r], lease')
  <2> DEFINE q == request[r]
  <2>1. /\ DOMAIN q = Fields /\ Shape(q) /\ TriesSlot(q)
        /\ Owns(r, q, lease) /\ OwnsOnly(r, q, lease)
    BY RequestKnown
  <2>2. PICK next : next = request'[r]
    OBVIOUS
  <2>3. PICK w, m : /\ w = IF KeeperRuns(r) THEN q.wait - 1 ELSE q.wait
                    /\ m = IF q.pc \in {"chosen", "releasing"} /\ q.missed < MissedTwice
                             THEN q.missed + 1 ELSE q.missed
    OBVIOUS
  <2>4. \E cooldown : next = [q EXCEPT !.wait = w, !.missed = m,
                                       !.report.cooldown = cooldown]
    BY <2>1, <2>2, <2>3 DEF Tick, Fields
  <2>5. /\ next.pc = q.pc /\ next.candidates = q.candidates /\ next.order = q.order
        /\ next.missed = m /\ next.at = q.at
        /\ next.wait = w /\ next.slot = q.slot /\ next.blind = q.blind
    BY <2>1, <2>4 DEF Fields
  <2>6. /\ q.wait \in 0..Interval /\ q.missed \in 0..MissedTwice
        /\ q.pc \notin HoldsPc => q.missed = 0
    BY <2>1 DEF Shape
  <2>7. KeeperRuns(r) => q.wait > 0
    BY DEF Tick
  <2>8. w \in 0..Interval
    BY <2>3, <2>6, <2>7, IntervalFacts
  <2>9. m \in 0..MissedTwice /\ (q.pc \notin HoldsPc => m = 0)
    BY <2>3, <2>6 DEF MissedTwice, HoldsPc
  <2>10. Shape(next) /\ TriesSlot(next)
    BY <2>1, <2>5, <2>8, <2>9 DEF Shape, TriesSlot
  <2>11. ResourceOf(next) = ResourceOf(q)
    BY <2>5 DEF ResourceOf
  <2>12. OwnsOnly(r, next, lease')
    BY <1>3, <2>1, <2>5, <2>11, AgedLease DEF OwnsOnly
  <2>13. Owns(r, next, lease')
    <3> SUFFICES ASSUME q.pc \in HoldsPc, m < MissedTwice
                 PROVE  /\ lease'[ResourceOf(q)].owner = r
                        /\ Lasts(next, lease'[ResourceOf(q)].left)
      BY <2>5, <2>11 DEF Owns
    <3>1. PICK x \in Resources : x = ResourceOf(q)
      BY <2>1, ResourceInRange
    <3>2. q.missed <= m /\ q.missed < MissedTwice
      BY <2>3, <2>6, <2>9 DEF MissedTwice
    <3>3. lease[x].owner = r /\ Lasts(q, lease[x].left) /\ lease[x].left \in Nat
      BY <1>3, <2>1, <3>1, <3>2, AgedLease DEF Owns
    <3>4. lease[x].left >= 2
      <4>1. CASE q.pc = "chosen"
        BY <2>3, <2>6, <3>2, <3>3, <4>1, IntervalFacts DEF Lasts, MissedTwice
      <4>2. CASE q.pc \in {"running", "reporting"}
        <5>1. q.wait >= 1 /\ (q.missed = 0 \/ q.missed = 1)
          BY <2>6, <2>7, <3>2, <4>2 DEF KeeperRuns, MissedTwice
        <5>2. QED
          BY <2>6, <3>3, <4>2, <5>1, IntervalFacts DEF Lasts
      <4>3. CASE q.pc = "releasing"
        BY <2>3, <2>6, <3>2, <3>3, <4>3 DEF Lasts, MissedTwice
      <4>4. QED
        BY <4>1, <4>2, <4>3 DEF HoldsPc
    <3>5. lease'[x].owner = r /\ lease'[x].left = lease[x].left - 1
      BY <1>3, <3>3, <3>4, AgedLease
    <3>6. Lasts(next, lease'[x].left)
      <4>1. CASE q.pc = "chosen"
        BY <2>3, <2>5, <2>6, <3>2, <3>3, <3>5, <4>1, IntervalFacts DEF Lasts, MissedTwice
      <4>2. CASE q.pc \in {"running", "reporting"}
        <5>1. w = q.wait - 1 /\ m = q.missed
          BY <2>3, <4>2 DEF KeeperRuns
        <5>2. QED
          BY <2>5, <2>6, <3>3, <3>5, <4>2, <5>1, IntervalFacts DEF Lasts
      <4>3. CASE q.pc = "releasing"
        BY <2>3, <2>5, <2>6, <3>2, <3>3, <3>5, <4>3 DEF Lasts, MissedTwice
      <4>4. QED
        BY <4>1, <4>2, <4>3 DEF HoldsPc
    <3>7. QED
      BY <3>1, <3>5, <3>6
  <2>14. QED
    BY <2>2, <2>10, <2>12, <2>13 DEF RequestOK
<1>6. QED
  BY <1>1, <1>4, <1>5, TablesKept DEF LeaseInv

\* Administrators and expiring state touch neither requests nor leases.
LEMMA AdminKeeps ==
    ASSUME LeaseInv,
           \/ StateExpires
           \/ \E c \in Credentials : UpdateCredential(c) \/ QuotaChanges(c)
           \/ \E p \in Pools, c \in Credentials : EditMember(p, c)
    PROVE  LeaseInv'
<1>1. TablesType
  BY DEF LeaseInv
<1>2. UNCHANGED <<request, lease>>
  BY DEF StateExpires, UpdateCredential, QuotaChanges, EditMember
<1>3. CASE StateExpires
  <2>1. 0 \in 0..(CursorCycle - 1)
    BY SchedulerAssumption
  <2>2. TablesType'
    BY <1>1, <1>3, <2>1 DEF StateExpires, TablesType
  <2>3. QED
    BY <1>2, <2>2 DEF LeaseInv
<1>4. ASSUME NEW c \in Credentials, UpdateCredential(c)
      PROVE  LeaseInv'
  <2>1. credential[c] \in [status : {"active"} \cup Statuses, limit : Limits]
    BY <1>1 DEF TablesType
  <2>2. PICK row \in [status : {"active"} \cup Statuses, limit : Limits] :
          credential' = [credential EXCEPT ![c] = row]
    <3>1. CASE \E status \in Statuses : credential' = [credential EXCEPT ![c].status = status]
      <4>1. PICK status \in Statuses : credential' = [credential EXCEPT ![c].status = status]
        BY <3>1
      <4>2. [credential[c] EXCEPT !.status = status]
              \in [status : {"active"} \cup Statuses, limit : Limits]
        BY <2>1
      <4>3. QED
        BY <1>1, <4>1, <4>2 DEF TablesType
    <3>2. CASE \E limit \in Limits : credential' = [credential EXCEPT ![c].limit = limit]
      <4>1. PICK limit \in Limits : credential' = [credential EXCEPT ![c].limit = limit]
        BY <3>2
      <4>2. [credential[c] EXCEPT !.limit = limit]
              \in [status : {"active"} \cup Statuses, limit : Limits]
        BY <2>1
      <4>3. QED
        BY <1>1, <4>1, <4>2 DEF TablesType
    <3>3. QED
      BY <1>4, <3>1, <3>2 DEF UpdateCredential
  <2>3. TablesType'
    BY <1>1, <1>4, <2>2 DEF UpdateCredential, TablesType
  <2>4. QED
    BY <1>2, <2>3 DEF LeaseInv
<1>5. CASE \/ \E c \in Credentials : QuotaChanges(c)
           \/ \E p \in Pools, c \in Credentials : EditMember(p, c)
  <2>1. UNCHANGED <<credential, cursor, affinity, decision>>
    BY <1>5 DEF QuotaChanges, EditMember
  <2>2. QED
    BY <1>2, <2>1, TablesKept DEF LeaseInv
<1>6. QED
  BY <1>3, <1>4, <1>5

\* Every step keeps the invariant for leases, as long as ordering hands on the
\* candidates that were read.
LEMMA LeaseInvNext ==
    ASSUME LeaseInv, HealthInv, TriesWhatWasRead, [SchedulerNext]_vars
    PROVE  LeaseInv'
<1>1. CASE UNCHANGED vars
  BY <1>1, TablesKept DEF vars, LeaseInv
<1>2. ASSUME NEW r \in Requests, Select(r) \/ Renew(r) \/ Handler(r)
      PROVE  LeaseInv'
  BY <1>2, loadPoolMembersKeeps, OrderKeeps, AcquireKeeps, LeaseBusyKeeps,
     StateUnavailableKeeps, RecordDecisionKeeps, RecordDecisionFailsKeeps, RenewKeeps,
     HandlerGoesOn, ReleaseKeeps, LostKeeps DEF Select, Handler
<1>3. QED
  BY <1>1, <1>2, TickKeepsLeases, AdminKeeps DEF SchedulerNext

\* Nobody has a lease at the start.
LEMMA LeaseInvInit == SchedulerInit => LeaseInv
<1> SUFFICES ASSUME SchedulerInit PROVE LeaseInv
  OBVIOUS
<1>1. TablesType
  BY SchedulerAssumption DEF SchedulerInit, TablesType, Unknown
<1>2. lease \in LeaseType
  BY DEF SchedulerInit, LeaseType, Resources
<1>3. ASSUME NEW r \in Requests
      PROVE  RequestOK(r, request[r], lease)
  <2>1. request[r] = Idle
    BY DEF SchedulerInit
  <2>2. /\ Idle.pc = "idle" /\ Idle.missed = 0 /\ Idle.wait = 0 /\ Idle.slot = 0
        /\ Idle.blind = FALSE /\ Idle.candidates = {} /\ Idle.at = 1
    BY DEF Idle
  <2>3. Idle.blind \in BOOLEAN /\ ~Idle.blind
    BY <2>2, Zenon
  <2>4. Shape(Idle)
    BY <2>2, <2>3, IntervalFacts DEF Shape, MissedTwice
  <2>5. NoLease(r, lease)
    BY SchedulerAssumption DEF SchedulerInit, NoLease, Free, Resources
  <2>6. QED
    BY <2>1, <2>2, <2>4, <2>5, WithoutLease DEF HoldsPc
<1>4. QED
  BY <1>1, <1>2, <1>3 DEF LeaseInv

-----------------------------------------------------------------------------
(* Leases: the theorem *)

\* A nonempty set of requests has one with the largest limit.
LEMMA LargestLimit ==
    ASSUME NEW S, S # {}, NEW f, \A r \in S : f[r] \in Limits
    PROVE  \E r \in S : \A s \in S : f[s] <= f[r]
<1>1. PICK most \in Limits : \A n \in Limits : n <= most
  BY SchedulerAssumption
<1>2. Limits \subseteq Nat
  BY SchedulerAssumption
<1> DEFINE T == {most - f[r] : r \in S}
<1>3. T \subseteq Nat /\ T # {}
  <2>1. \A r \in S : most - f[r] \in Nat
    <3> SUFFICES ASSUME NEW r \in S PROVE most - f[r] \in Nat
      OBVIOUS
    <3>1. PICK n \in Nat : n = f[r] /\ n <= most
      BY <1>1, <1>2
    <3>2. QED
      BY <1>2, <3>1
  <2>2. QED
    BY <2>1
<1>4. PICK n \in T : \A m \in T : n <= m
  BY <1>3, LeastNumber
<1>5. PICK r \in S : n = most - f[r]
  BY <1>4
<1>6. ASSUME NEW s \in S
      PROVE  f[s] <= f[r]
  <2>1. most - f[r] <= most - f[s]
    BY <1>4, <1>5
  <2>2. f[s] \in Nat /\ f[r] \in Nat /\ most \in Nat
    BY <1>1, <1>2
  <2>3. QED
    BY <2>1, <2>2
<1>7. QED
  BY <1>6

\* The requests that use a credential have a slot each, below the largest limit
\* one of them has read.
LEMMA SlotsBoundUse ==
    ASSUME LeaseInv, HealthInv, NEW c \in Credentials, NEW users,
           users = {r \in Requests : /\ Holds(r) /\ Chosen(r).credential = c
                                     /\ request[r].missed < MissedTwice},
           users # {}
    PROVE  \E r \in users : Cardinality(users) <= Chosen(r).limit
<1> DEFINE limit == [r \in users |-> Chosen(r).limit]
           slot == [r \in users |-> request[r].slot]
<1>1. ASSUME NEW r \in users
      PROVE  /\ Chosen(r).limit \in Limits
             /\ request[r].slot \in Nat /\ request[r].slot < Chosen(r).limit
             /\ Resource(r) = <<c, request[r].slot>> /\ lease[Resource(r)].owner = r
  <2>1. /\ r \in Requests /\ request[r].pc \in HoldsPc /\ Chosen(r).credential = c
        /\ request[r].missed < MissedTwice
    BY DEF Holds, HoldsPc
  <2>2. /\ Shape(request[r]) /\ TriesSlot(request[r]) /\ Owns(r, request[r], lease)
        /\ Resource(r) = ResourceOf(request[r])
    BY <2>1, RequestKnown
  <2>3. Chosen(r).limit \in Limits
    BY <2>1, <2>2, ResourceInRange DEF Chosen
  <2>4. request[r].slot \in Nat /\ request[r].slot < Chosen(r).limit
    BY <2>1, <2>2 DEF Shape, TriesSlot, Chosen
  <2>5. lease[Resource(r)].owner = r
    BY <2>1, <2>2 DEF Owns
  <2>6. Resource(r) = <<c, request[r].slot>>
    BY <2>1 DEF Resource
  <2>7. QED
    BY <2>3, <2>4, <2>5, <2>6
<1>2. \A r \in users : limit[r] \in Limits
  BY <1>1
<1>3. PICK r \in users : \A s \in users : limit[s] <= limit[r]
  <2> HIDE DEF limit
  <2>1. QED
    BY <1>2, LargestLimit
<1>4. PICK n \in Nat : n = Chosen(r).limit /\ n > 0
  <2>1. Chosen(r).limit \in Nat \ {0}
    BY <1>1, SchedulerAssumption
  <2>2. QED
    BY <2>1
<1>5. \A s \in users : slot[s] \in 0..(n - 1)
  <2> SUFFICES ASSUME NEW s \in users PROVE request[s].slot \in 0..(n - 1)
    OBVIOUS
  <2>1. Chosen(s).limit <= n
    BY <1>3, <1>4
  <2>2. Chosen(s).limit \in Nat
    BY <1>1, SchedulerAssumption
  <2>3. QED
    BY <1>1, <1>4, <2>1, <2>2
<1>6. slot \in [users -> 0..(n - 1)]
  BY <1>5
<1>7. \A s, t \in users : slot[s] = slot[t] => s = t
  <2> SUFFICES ASSUME NEW s \in users, NEW t \in users,
                      request[s].slot = request[t].slot
               PROVE  s = t
    OBVIOUS
  <2>1. Resource(s) = Resource(t)
    BY <1>1
  <2>2. QED
    BY <1>1, <2>1
<1>8. slot \in Injection(users, 0..(n - 1))
  BY <1>6, <1>7 DEF Injection, IsInjective
<1> HIDE DEF slot
<1>9. IsFiniteSet(0..(n - 1)) /\ Cardinality(0..(n - 1)) = n
  <2>1. PICK b \in Int : b = n - 1
    BY <1>4
  <2>2. IsFiniteSet(0..b) /\ Cardinality(0..b) = IF 0 > b THEN 0 ELSE b - 0 + 1
    BY FS_Interval
  <2>3. b - 0 + 1 = n /\ ~(0 > b)
    BY <1>4, <2>1
  <2>4. QED
    BY <2>1, <2>2, <2>3
<1>10. Cardinality(users) <= Cardinality(0..(n - 1))
  BY <1>8, <1>9, FS_Injection
<1>11. QED
  BY <1>4, <1>9, <1>10

\* What LeaseSafety asks follows from the two invariants.
LEMMA LeasesSafe ==
    ASSUME LeaseInv, HealthInv
    PROVE  LeaseSafety
<1>1. ASSUME NEW r \in Requests
      PROVE  /\ request[r].pc \in {"idle", "read", "trying", "chosen", "refused", "running",
                                   "reporting", "releasing", "done", "lost"}
             /\ Holds(r) => Resource(r) \in DOMAIN lease
             /\ Holds(r) /\ request[r].missed < MissedTwice => lease[Resource(r)].owner = r
             /\ request[r].pc = "done" => \A x \in DOMAIN lease : lease[x].owner # r
  <2>1. /\ Shape(request[r]) /\ TriesSlot(request[r]) /\ Owns(r, request[r], lease)
        /\ OwnsOnly(r, request[r], lease) /\ Resource(r) = ResourceOf(request[r])
        /\ DOMAIN lease = Resources
    BY RequestKnown DEF LeaseType
  <2>2. Holds(r) <=> request[r].pc \in HoldsPc
    BY DEF Holds, HoldsPc
  <2>3. Holds(r) => Resource(r) \in DOMAIN lease
    BY <2>1, <2>2, ResourceInRange
  <2>4. Holds(r) /\ request[r].missed < MissedTwice => lease[Resource(r)].owner = r
    BY <2>1, <2>2 DEF Owns
  <2>5. request[r].pc = "done" => \A x \in DOMAIN lease : lease[x].owner # r
    BY <2>1 DEF OwnsOnly, Shape, HoldsPc
  <2>6. request[r].pc \in EarlyPc \cup StoredPc \cup {"reporting", "lost"}
    BY DEF HealthInv, ReportExact
  <2>7. QED
    BY <2>3, <2>4, <2>5, <2>6 DEF EarlyPc, StoredPc
<1>2. affinity \in [DOMAIN affinity -> Credentials \cup {Unknown}]
  BY DEF LeaseInv, TablesType
<1>3. SchedulerTypeOK
  BY <1>1, <1>2 DEF SchedulerTypeOK, LeaseInv, HealthInv, TablesType, LeaseType, Resources
<1>4. KeptLease /\ NoLeaseLeft
  BY <1>1 DEF KeptLease, NoLeaseLeft
<1>5. WithinLimit
  BY SlotsBoundUse DEF WithinLimit
<1>6. QED
  BY <1>3, <1>4, <1>5 DEF LeaseSafety
-----------------------------------------------------------------------------
(* The order of candidates: the inductive invariant *)

\* What is tried is tried once and by priority.
Tried(s) ==
    \A i, j \in DOMAIN s : i < j =>
        /\ s[i] # s[j]
        /\ ~Lexicographic(<<s[j].tp, s[j].mp>>, <<s[i].tp, s[i].mp>>)

\* A request has read candidates of the targets before the next one.
OrderOK(q) ==
    /\ q.target \in Nat /\ (q.pc = "idle" => q.target \in DOMAIN Targets)
    /\ AreCandidates(q.candidates) /\ (\A x \in q.candidates : x.target < q.target)
    /\ Tried(q.order)

\* The inductive invariant for the order of candidates.
OrderInv ==
    /\ member \in [Pools -> [Credentials -> MemberRow]]
    /\ \A r \in Requests : OrderOK(request[r])

\* A request that leaves what it has read and ordered as it is.
KeepsOrder(q, next) ==
    /\ next.target = q.target /\ next.candidates = q.candidates /\ next.order = q.order
    /\ next.pc = "idle" => q.pc = "idle"

\* Such a request stays sound.
LEMMA OrderKept ==
    ASSUME NEW q, NEW next, OrderOK(q), KeepsOrder(q, next)
    PROVE  OrderOK(next)
BY DEF OrderOK, KeepsOrder

\* No candidates are candidates.
LEMMA NoCandidates == AreCandidates({}) /\ Tried(<<>>)
<1>1. IsFiniteSet({})
  BY FS_EmptySet
<1> QED
  BY <1>1 DEF AreCandidates, Tried

\* A request that has nothing to try any more.
LEMMA ClearedIsOrdered ==
    ASSUME NEW pc \in {"done", "lost"}, NEW report
    PROVE  OrderOK([Idle EXCEPT !.pc = pc, !.report = report])
<1> DEFINE next == [Idle EXCEPT !.pc = pc, !.report = report]
<1>1. next.pc = pc /\ next.target = 1 /\ next.candidates = {} /\ next.order = <<>>
  BY DEF Idle
<1> HIDE DEF next
<1>2. OrderOK(next)
  BY <1>1, NoCandidates DEF OrderOK
<1> QED
  BY <1>2 DEF next

\* What the first read finds.
LEMMA OrderInvInit == SchedulerInit => OrderInv
<1> SUFFICES ASSUME SchedulerInit PROVE OrderInv
  OBVIOUS
<1>1. 1 \in DOMAIN Targets
  <2>1. PICK S : Targets \in Seq(S) /\ Targets # <<>>
    BY SchedulerAssumption
  <2> QED
    BY <2>1
<1>2. /\ Idle.target = 1 /\ Idle.candidates = {} /\ Idle.order = <<>> /\ Idle.pc = "idle"
  BY DEF Idle
<1>3. OrderOK(Idle)
  BY <1>1, <1>2, NoCandidates DEF OrderOK
<1>4. \A r \in Requests : request[r] = Idle
  BY DEF SchedulerInit
<1>5. member \in [Pools -> [Credentials -> MemberRow]]
  BY SchedulerAssumption DEF SchedulerInit
<1> QED
  BY <1>3, <1>4, <1>5 DEF OrderInv

\* Weights are positive.
LEMMA WeightPositive ==
    ASSUME NEW a \in Nat \ {0}, NEW b \in Nat \ {0}
    PROVE  a * b \in Nat \ {0}
OBVIOUS

\* A member that is eligible makes a candidate.
LEMMA CandidateOrdered ==
    ASSUME OrderInv, NEW t \in DOMAIN Targets, NEW c \in Credentials,
           MemberEligible(Targets[t].pool, c)
    PROVE  /\ IsOrdered(Candidate(t, c))
           /\ Candidate(t, c).target = t /\ Candidate(t, c).credential = c
<1> DEFINE x == Candidate(t, c)
<1>1. PICK p, m : p = Targets[t].pool /\ m = member[p][c]
  OBVIOUS
<1>2. /\ t \in Nat /\ p \in Pools /\ Targets[t].priority \in Priority
      /\ Targets[t].weight \in Nat \ {0}
  <2>1. PICK S : /\ S = [enabled : BOOLEAN, capabilities : SUBSET STRING, pool : Pools,
                         priority : Priority, weight : Nat \ {0}]
                 /\ Targets \in Seq(S)
    BY SchedulerAssumption
  <2>2. Targets \in Seq(S)
    BY <2>1
  <2>3. t \in Nat /\ Targets[t] \in S
    BY <2>2
  <2> QED
    BY <1>1, <2>1, <2>3
<1>3. m \in MemberRow /\ m.enabled
  BY <1>1, <1>2 DEF OrderInv, MemberEligible
<1>4. m.priority \in Priority /\ m.weight \in Nat \ {0}
  BY <1>3 DEF MemberRow, NoMember
<1>5. /\ x.tp = Targets[t].priority /\ x.mp = m.priority /\ x.target = t
      /\ x.credential = c /\ x.weight = Targets[t].weight * m.weight
  BY <1>1 DEF Candidate
<1> HIDE DEF x
<1>6. c \in Nat
  BY SchedulerAssumption
<1>7. x.weight \in Nat \ {0}
  BY <1>2, <1>4, <1>5, WeightPositive
<1>8. IsOrdered(x)
  BY <1>2, <1>4, <1>5, <1>6, <1>7 DEF IsOrdered
<1> QED
  BY <1>5, <1>8 DEF x

\* Reading a pool adds candidates of its target.
LEMMA LoadedCandidates ==
    ASSUME OrderInv, NEW t \in DOMAIN Targets, NEW V, AreCandidates(V),
           \A x \in V : x.target < t, NEW E, E \subseteq Credentials,
           \A c \in E : MemberEligible(Targets[t].pool, c)
    PROVE  /\ AreCandidates(V \cup {Candidate(t, c) : c \in E})
           /\ \A x \in V \cup {Candidate(t, c) : c \in E} : x.target < t + 1
<1> DEFINE N == {Candidate(t, c) : c \in E}
<1>1. t \in Nat
  BY SchedulerAssumption
<1>2. \A x \in N : \E c \in E : x = Candidate(t, c)
  OBVIOUS
<1>3. \A c \in E : IsOrdered(Candidate(t, c)) /\ Candidate(t, c).target = t
                   /\ Candidate(t, c).credential = c
  BY CandidateOrdered
<1>4. IsFiniteSet(N)
  <2>1. IsFiniteSet(E)
    BY SchedulerAssumption, FS_Subset
  <2>2. PICK f : f = [c \in E |-> Candidate(t, c)]
    OBVIOUS
  <2>3. f \in Surjection(E, N)
    BY <2>2 DEF Surjection
  <2> HIDE DEF N
  <2> QED
    BY <2>1, <2>3, FS_Surjection
<1> HIDE DEF N
<1>5. IsFiniteSet(V \cup N)
  BY <1>4, FS_Union DEF AreCandidates
<1>6. \A x \in N : IsOrdered(x) /\ x.target = t
  BY <1>2, <1>3
<1>7. \A x, y \in N : x.credential = y.credential => x = y
  BY <1>2, <1>3
<1>8. \A x \in V : IsOrdered(x) /\ x.target \in Nat /\ x.target < t
  BY DEF AreCandidates, IsOrdered
<1>9. \A x \in V, y \in N : x.target # y.target
  BY <1>1, <1>6, <1>8
<1>10. \A x, y \in V \cup N :
         x.target = y.target /\ x.credential = y.credential => x = y
  BY <1>7, <1>9 DEF AreCandidates
<1>11. AreCandidates(V \cup N)
  BY <1>5, <1>6, <1>8, <1>10 DEF AreCandidates
<1>12. \A x \in V \cup N : x.target < t + 1
  BY <1>1, <1>6, <1>8
<1> QED
  BY <1>11, <1>12 DEF N
\* What orderCandidates makes of what a request has read.
LEMMA OrderOfRead ==
    ASSUME OrderInv, LeaseInv, NEW r \in Requests, request[r].candidates # {}, NEW c
    PROVE  /\ Lists(orderCandidates(Strategy[r], request[r].candidates, c),
                    request[r].candidates)
           /\ ByGroup(orderCandidates(Strategy[r], request[r].candidates, c))
<1>1. PICK V, strategy : V = request[r].candidates /\ strategy = Strategy[r]
  OBVIOUS
<1>2. AreCandidates(V)
  BY <1>1 DEF OrderInv, OrderOK
<1>3. strategy \in Strategies /\ strategy \in {Strategy[s] : s \in Requests}
  BY <1>1, SchedulerAssumption
<1>4. \A key \in Priority \X Priority : cursor[<<strategy, key>>] \in Nat
  <2>1. cursor \in [{Strategy[s] : s \in Requests} \X (Priority \X Priority)
                      -> 0..(CursorCycle - 1)]
    BY DEF LeaseInv, TablesType
  <2>2. \A n \in 0..(CursorCycle - 1) : n \in Nat
    BY SchedulerAssumption
  <2> QED
    BY <1>3, <2>1, <2>2
<1> QED
  BY <1>1, <1>2, <1>3, <1>4, OrderLists

\* What is tried is what was read.
LEMMA TriesAll ==
    ASSUME OrderInv, LeaseInv
    PROVE  TriesWhatWasRead
<1> SUFFICES ASSUME NEW r \in Requests, NEW V, V = request[r].candidates, V # {},
                    NEW order,
                    order = orderCandidates(Strategy[r], V, affinity[AffinityKey[r]])
             PROVE  order \in Seq(V) /\ ToSet(order) = V
  BY SMTT(60) DEF TriesWhatWasRead
<1>1. Lists(order, V)
  BY OrderOfRead
<1> QED
  BY <1>1, ListIsSeq

\* Each candidate of a group has its share.
LEMMA SharesKept ==
    ASSUME OrderInv
    PROVE  WeightedShare
<1> SUFFICES ASSUME NEW r \in Requests, NEW groups,
                    groups = groupCandidates(request[r].candidates),
                    NEW i \in DOMAIN groups, NEW s, s = groups[i], NEW x \in ToSet(s)
             PROVE  Cardinality({v \in 0..(WeightBefore(s, Len(s)) - 1) :
                                   rotate(s, weightedStart(s, v))[1] = x}) = x.weight
  BY DEF WeightedShare
<1>1. PICK V : V = request[r].candidates
  OBVIOUS
<1>2. AreCandidates(V)
  BY <1>1 DEF OrderInv, OrderOK
<1>3. PICK keys : AreGroups(groups, keys, V)
  BY <1>1, <1>2, GroupsMade
<1>4. PICK S : S = Mates(V, keys[i])
  OBVIOUS
<1>5. Lists(s, S)
  BY <1>3, <1>4 DEF AreGroups
<1>6. DOMAIN s = 1..Len(s) /\ Len(s) \in Nat /\ x \in S
  BY <1>5, ListIsSeq
<1>7. \A j \in 1..Len(s) : s[j] \in V
  BY <1>4, <1>5 DEF Lists, Mates
<1>8. AreWeighted(s)
  BY <1>2, <1>6, <1>7 DEF AreWeighted, AreCandidates, IsOrdered
<1> QED
  BY <1>5, <1>6, <1>8, ShareIsWeight

\* What CandidateOrder asks follows from the invariants.
LEMMA OrderSafe ==
    ASSUME OrderInv, LeaseInv
    PROVE  CandidateOrder
<1>1. TriedByPriority
  BY DEF TriedByPriority, OrderInv, OrderOK, Tried
<1> QED
  BY <1>1, TriesAll, SharesKept DEF CandidateOrder

\* What is listed by group is tried by priority.
LEMMA ListedIsTried ==
    ASSUME NEW s, NEW S, Lists(s, S), ByGroup(s)
    PROVE  Tried(s)
<1>1. DOMAIN s = 1..Len(s) /\ Len(s) \in Nat
  BY ListIsSeq
<1>2. \A i, j \in 1..Len(s) : i # j => s[i] # s[j]
  BY DEF Lists
<1>3. \A i, j \in 1..Len(s) : i < j =>
        ~Lexicographic(<<s[j].tp, s[j].mp>>, <<s[i].tp, s[i].mp>>)
  BY DEF ByGroup, Group
<1>4. \A i, j \in 1..Len(s) : i < j => s[i] # s[j]
  BY <1>1, <1>2
<1> QED
  BY <1>1, <1>3, <1>4 DEF Tried
-----------------------------------------------------------------------------
(* The order of candidates: the steps *)

\* A step of one request that leaves it sound.
LEMMA OneOrdered ==
    ASSUME OrderInv, HealthInv, NEW r \in Requests, member' = member,
           NEW next, OrderOK(next), request' = [request EXCEPT ![r] = next]
    PROVE  OrderInv'
<1>1. DOMAIN request = Requests
  BY DEF HealthInv
<1>2. \A s \in Requests : request'[s] = IF s = r THEN next ELSE request[s]
  BY <1>1
<1>3. \A s \in Requests : OrderOK(request'[s])
  BY <1>2 DEF OrderInv
<1>4. \A s \in Requests : OrderOK(request[s])'
  BY <1>3 DEF OrderOK
<1> QED
  BY <1>4 DEF OrderInv

\* Reading a pool.
LEMMA loadPoolMembersOrdered ==
    ASSUME OrderInv, HealthInv, NEW r \in Requests, loadPoolMembers(r)
    PROVE  OrderInv'
<1> DEFINE q == request[r]
<1>1. DOMAIN request = Requests /\ DOMAIN q = Fields /\ OrderOK(q)
  BY DEF OrderInv, HealthInv, ReportExact
<1>2. PICK t, E, pc :
        /\ t = q.target /\ pc = (IF t < Len(Targets) THEN "idle" ELSE "read")
        /\ E = {d \in Credentials : /\ TargetEligible(Targets[t])
                                    /\ MemberEligible(Targets[t].pool, d)}
  OBVIOUS
<1>3. PICK V, W : V = q.candidates /\ W = V \cup {Candidate(t, c) : c \in E}
  OBVIOUS
<1>4. /\ q.pc = "idle" /\ member' = member
      /\ request' = [request EXCEPT ![r].candidates = W, ![r].target = t + 1, ![r].pc = pc]
  <2> DEFINE new == q.candidates \cup
               {Candidate(q.target, c) : c \in {d \in Credentials :
                    /\ TargetEligible(Targets[q.target])
                    /\ MemberEligible(Targets[q.target].pool, d)}}
             stop == IF q.target < Len(Targets) THEN "idle" ELSE "read"
  <2>1. request' = [request EXCEPT ![r].candidates = new, ![r].target = q.target + 1,
                                   ![r].pc = stop]
    BY <1>1 DEF loadPoolMembers
  <2>2. new = W /\ stop = pc
    BY <1>2, <1>3
  <2>3. q.pc = "idle" /\ member' = member
    BY DEF loadPoolMembers, admin
  <2> HIDE DEF new, stop
  <2> QED
    BY <1>2, <2>1, <2>2, <2>3
<1>5. t \in DOMAIN Targets /\ AreCandidates(V) /\ \A x \in V : x.target < t
  BY <1>1, <1>2, <1>3, <1>4 DEF OrderOK
<1>6. AreCandidates(W) /\ \A x \in W : x.target < t + 1
  <2>1. E \subseteq Credentials /\ \A c \in E : MemberEligible(Targets[t].pool, c)
    BY <1>2
  <2> QED
    BY <1>3, <1>5, <2>1, LoadedCandidates
<1>7. t + 1 \in Nat /\ (pc = "idle" => t + 1 \in DOMAIN Targets)
  <2>1. PICK S : Targets \in Seq(S)
    BY SchedulerAssumption
  <2>2. Len(Targets) \in Nat /\ DOMAIN Targets = 1..Len(Targets)
    BY <2>1
  <2> QED
    BY <1>2, <1>5, <2>2
<1> DEFINE next == [q EXCEPT !.candidates = W, !.target = t + 1, !.pc = pc]
<1>8. request' = [request EXCEPT ![r] = next]
  BY <1>1, <1>4
<1>9. /\ next.candidates = W /\ next.target = t + 1 /\ next.pc = pc
      /\ next.order = q.order
  BY <1>1 DEF Fields
<1> HIDE DEF next
<1>10. OrderOK(next)
  BY <1>1, <1>6, <1>7, <1>9 DEF OrderOK
<1> QED
  BY <1>4, <1>8, <1>10, OneOrdered

\* Ordering what was read.
LEMMA OrderOrdered ==
    ASSUME OrderInv, LeaseInv, HealthInv, NEW r \in Requests, Order(r)
    PROVE  OrderInv'
<1> DEFINE q == request[r]
<1>1. DOMAIN request = Requests /\ DOMAIN q = Fields /\ OrderOK(q)
  BY DEF OrderInv, HealthInv, ReportExact
<1>2. q.pc = "read" /\ member' = member
  BY DEF Order, admin
<1>3. CASE q.candidates = {}
  <2> DEFINE next == [q EXCEPT !.pc = "refused"]
  <2>1. request' = [request EXCEPT ![r] = next]
    BY <1>1, <1>3 DEF Order, Goto
  <2>2. KeepsOrder(q, next)
    BY <1>1 DEF KeepsOrder, Fields
  <2> HIDE DEF next
  <2> QED
    BY <1>1, <1>2, <2>1, <2>2, OrderKept, OneOrdered
<1>4. CASE q.candidates # {}
  <2>1. PICK order :
          /\ order = orderCandidates(Strategy[r], q.candidates, affinity[AffinityKey[r]])
          /\ request' = [request EXCEPT ![r].order = order, ![r].candidates = {},
                                        ![r].pc = "trying"]
    BY <1>4 DEF Order
  <2>2. Tried(order)
    BY <1>4, <2>1, OrderOfRead, ListedIsTried
  <2> DEFINE next == [q EXCEPT !.order = order, !.candidates = {}, !.pc = "trying"]
  <2>3. request' = [request EXCEPT ![r] = next]
    BY <1>1, <2>1
  <2>4. /\ next.pc = "trying" /\ next.candidates = {} /\ next.order = order
        /\ next.target = q.target
    BY <1>1 DEF Fields
  <2> HIDE DEF next
  <2>5. OrderOK(next)
    BY <1>1, <2>2, <2>4, NoCandidates DEF OrderOK
  <2> QED
    BY <1>2, <2>3, <2>5, OneOrdered
<1> QED
  BY <1>3, <1>4

\* Acquiring a lease leaves one candidate.
LEMMA AcquireOrdered ==
    ASSUME OrderInv, HealthInv, NEW r \in Requests, Acquire(r)
    PROVE  OrderInv'
<1> DEFINE q == request[r]
<1>1. DOMAIN request = Requests /\ DOMAIN q = Fields /\ OrderOK(q)
  BY DEF OrderInv, HealthInv, ReportExact
<1>2. PICK x : /\ request' = [request EXCEPT ![r].order = <<x>>, ![r].at = 1,
                                             ![r].pc = "chosen"]
               /\ member' = member
  BY DEF Acquire, admin
<1> DEFINE next == [q EXCEPT !.order = <<x>>, !.at = 1, !.pc = "chosen"]
<1>3. request' = [request EXCEPT ![r] = next]
  BY <1>1, <1>2
<1>4. /\ next.pc = "chosen" /\ next.candidates = q.candidates /\ next.order = <<x>>
      /\ next.target = q.target
  BY <1>1 DEF Fields
<1> HIDE DEF next
<1>5. Tried(<<x>>)
  BY DEF Tried
<1>6. OrderOK(next)
  BY <1>1, <1>4, <1>5 DEF OrderOK
<1> QED
  BY <1>2, <1>3, <1>6, OneOrdered

\* The steps after which a request has nothing to try any more.
LEMMA ReturnOrdered ==
    ASSUME OrderInv, HealthInv, NEW r \in Requests, NEW pc \in {"done", "lost"},
           Return(r, pc), member' = member
    PROVE  OrderInv'
<1> DEFINE next == [Idle EXCEPT !.pc = pc, !.report = request[r].report]
<1>1. request' = [request EXCEPT ![r] = next]
  BY DEF Return
<1>2. OrderOK(next)
  BY ClearedIsOrdered
<1> HIDE DEF next
<1> QED
  BY <1>1, <1>2, OneOrdered
\* The other steps of a request leave what it has read and ordered as it is.
OtherStep(r) ==
    \/ LeaseBusy(r) \/ StateUnavailable(r) \/ RecordDecision(r) \/ RecordDecisionFails(r)
    \/ Renew(r) \/ Handler(r)

\* How each of them moves its request.
LEMMA OtherMoves ==
    ASSUME HealthInv, NEW r \in Requests, OtherStep(r)
    PROVE  \/ \E next : /\ KeepsOrder(request[r], next)
                        /\ request' = [request EXCEPT ![r] = next]
           \/ \E pc \in {"done", "lost"} : Return(r, pc)
<1> DEFINE q == request[r]
           Kept == \E next : KeepsOrder(q, next) /\ request' = [request EXCEPT ![r] = next]
<1>1. DOMAIN request = Requests /\ DOMAIN q = Fields
  BY DEF HealthInv, ReportExact
<1>2. ASSUME NEW pc, Goto(r, pc), pc # "idle"
      PROVE  Kept
  <2> DEFINE next == [q EXCEPT !.pc = pc]
  <2>1. KeepsOrder(q, next)
    BY <1>1, <1>2 DEF KeepsOrder, Fields
  <2>2. request' = [request EXCEPT ![r] = next]
    BY <1>1, <1>2 DEF Goto
  <2> QED
    BY <2>1, <2>2
<1>3. CASE LeaseBusy(r)
  <2>1. CASE request' = [request EXCEPT ![r].slot = @ + 1]
    <3> DEFINE next == [q EXCEPT !.slot = @ + 1]
    <3>1. KeepsOrder(q, next)
      BY <1>1 DEF KeepsOrder, Fields
    <3>2. request' = [request EXCEPT ![r] = next]
      BY <1>1, <2>1
    <3> QED
      BY <3>1, <3>2
  <2>2. CASE request' = [request EXCEPT ![r].at = @ + 1, ![r].slot = 0]
    <3> DEFINE next == [q EXCEPT !.at = @ + 1, !.slot = 0]
    <3>1. KeepsOrder(q, next)
      BY <1>1 DEF KeepsOrder, Fields
    <3>2. request' = [request EXCEPT ![r] = next]
      BY <1>1, <2>2
    <3> QED
      BY <3>1, <3>2
  <2>3. CASE request' = [request EXCEPT ![r].pc = "refused"]
    BY <1>2, <2>3 DEF Goto
  <2> QED
    BY <1>3, <2>1, <2>2, <2>3 DEF LeaseBusy
<1>4. CASE StateUnavailable(r)
  <2>1. CASE Goto(r, "refused")
    BY <1>2, <2>1
  <2>2. CASE request' = [request EXCEPT ![r].pc = "refused", ![r].blind = TRUE]
    <3> DEFINE next == [q EXCEPT !.pc = "refused", !.blind = TRUE]
    <3>1. KeepsOrder(q, next)
      BY <1>1 DEF KeepsOrder, Fields
    <3>2. request' = [request EXCEPT ![r] = next]
      BY <1>1, <2>2
    <3> QED
      BY <3>1, <3>2
  <2> QED
    BY <1>4, <2>1, <2>2 DEF StateUnavailable
<1>5. ASSUME request' = [request EXCEPT ![r].pc = "running", ![r].wait = LeaseTTL \div 3]
      PROVE  Kept
  <2> DEFINE next == [q EXCEPT !.pc = "running", !.wait = LeaseTTL \div 3]
  <2>1. KeepsOrder(q, next)
    BY <1>1 DEF KeepsOrder, Fields
  <2>2. request' = [request EXCEPT ![r] = next]
    BY <1>1, <1>5
  <2> QED
    BY <2>1, <2>2
<1>6. CASE RecordDecision(r)
  <2>1. \/ request' = [request EXCEPT ![r].pc = "running", ![r].wait = LeaseTTL \div 3]
        \/ Return(r, IF q.blind THEN "lost" ELSE "done")
    BY <1>6 DEF RecordDecision
  <2> QED
    BY <1>5, <2>1
<1>7. CASE RecordDecisionFails(r)
  <2>1. GiveUpLease(r) \/ Return(r, IF q.blind THEN "lost" ELSE "done")
    BY <1>7 DEF RecordDecisionFails
  <2> QED
    BY <1>2, <2>1 DEF GiveUpLease
<1>8. CASE Renew(r)
  <2>1. PICK m : request' = [request EXCEPT ![r].wait = LeaseTTL \div 3, ![r].missed = m]
    BY <1>1, <1>8 DEF Renew
  <2> DEFINE next == [q EXCEPT !.wait = LeaseTTL \div 3, !.missed = m]
  <2>2. KeepsOrder(q, next)
    BY <1>1 DEF KeepsOrder, Fields
  <2>3. request' = [request EXCEPT ![r] = next]
    BY <1>1, <2>1
  <2> QED
    BY <2>2, <2>3
<1>9. ASSUME NEW pc, NEW report, pc # "idle",
             request' = [request EXCEPT ![r].pc = pc, ![r].report = report]
      PROVE  Kept
  <2> DEFINE next == [q EXCEPT !.pc = pc, !.report = report]
  <2>1. KeepsOrder(q, next)
    BY <1>1, <1>9 DEF KeepsOrder, Fields
  <2>2. request' = [request EXCEPT ![r] = next]
    BY <1>1, <1>9
  <2> QED
    BY <2>1, <2>2
<1>10. CASE UpstreamEnds(r)
  <2>1. \/ \E report : request' = [request EXCEPT ![r].pc = "reporting",
                                                  ![r].report = report]
        \/ Goto(r, "releasing")
    BY <1>10 DEF UpstreamEnds
  <2> QED
    BY <1>2, <1>9, <2>1
<1>11. CASE RefusedBeforeUpstream(r) \/ recordHealth(r)
  BY <1>2, <1>11 DEF RefusedBeforeUpstream, recordHealth
<1>12. CASE recordHealthFails(r)
  BY <1>9, <1>12 DEF recordHealthFails
<1>13. CASE Release(r) \/ ReleaseFails(r) \/ Crash(r)
  BY <1>13 DEF Release, ReleaseFails, Crash
<1> HIDE DEF Kept
<1> QED
  BY <1>3, <1>4, <1>6, <1>7, <1>8, <1>10, <1>11, <1>12, <1>13 DEF OtherStep, Handler

\* They keep the invariant.
LEMMA OtherOrdered ==
    ASSUME OrderInv, HealthInv, NEW r \in Requests, OtherStep(r)
    PROVE  OrderInv'
<1>1. member' = member
  BY DEF OtherStep, Handler, LeaseBusy, StateUnavailable, RecordDecision,
     RecordDecisionFails, Renew, RefusedBeforeUpstream, UpstreamEnds, recordHealth,
     recordHealthFails, Release, ReleaseFails, Crash, admin
<1>2. OrderOK(request[r])
  BY DEF OrderInv
<1>3. CASE \E pc \in {"done", "lost"} : Return(r, pc)
  BY <1>1, <1>3, ReturnOrdered
<1>4. CASE \E next : /\ KeepsOrder(request[r], next)
                     /\ request' = [request EXCEPT ![r] = next]
  BY <1>1, <1>2, <1>4, OrderKept, OneOrdered
<1> QED
  BY <1>3, <1>4, OtherMoves

\* Time changes nothing of what was read and ordered.
LEMMA TickOrdered ==
    ASSUME OrderInv, HealthInv, Tick
    PROVE  OrderInv'
<1>1. ASSUME NEW r \in Requests
      PROVE  OrderOK(request'[r])
  <2>1. DOMAIN request[r] = Fields /\ OrderOK(request[r])
    BY DEF OrderInv, HealthInv, ReportExact
  <2>2. PICK w, m, cooldown :
          request'[r] = [request[r] EXCEPT !.wait = w, !.missed = m,
                                           !.report.cooldown = cooldown]
    BY <2>1 DEF Tick, Fields
  <2>3. KeepsOrder(request[r], request'[r])
    BY <2>1, <2>2 DEF KeepsOrder, Fields
  <2> QED
    BY <2>1, <2>3, OrderKept
<1>2. \A r \in Requests : OrderOK(request[r])'
  BY <1>1 DEF OrderOK
<1>3. member' = member
  BY DEF Tick, admin
<1> QED
  BY <1>2, <1>3 DEF OrderInv

\* Administrators set rows of pool members.
LEMMA AdminOrdered ==
    ASSUME OrderInv,
           \/ StateExpires
           \/ \E c \in Credentials : UpdateCredential(c) \/ QuotaChanges(c)
           \/ \E p \in Pools, c \in Credentials : EditMember(p, c)
    PROVE  OrderInv'
<1>1. request' = request
  BY DEF StateExpires, UpdateCredential, QuotaChanges, EditMember
<1>2. member' \in [Pools -> [Credentials -> MemberRow]]
  <2>1. member \in [Pools -> [Credentials -> MemberRow]]
    BY DEF OrderInv
  <2>2. CASE member' = member
    BY <2>1, <2>2
  <2>3. ASSUME NEW p \in Pools, NEW c \in Credentials, EditMember(p, c)
        PROVE  member' \in [Pools -> [Credentials -> MemberRow]]
    <3>1. PICK row \in MemberRow : member' = [member EXCEPT ![p][c] = row]
      BY <2>3, SchedulerAssumption DEF EditMember
    <3> QED
      BY <2>1, <3>1
  <2>4. \/ member' = member
        \/ \E p \in Pools, c \in Credentials : EditMember(p, c)
    BY DEF StateExpires, UpdateCredential, QuotaChanges
  <2> QED
    BY <2>2, <2>3, <2>4
<1> QED
  BY <1>1, <1>2 DEF OrderInv, OrderOK

\* Every step keeps the invariant for the order of candidates.
LEMMA OrderInvNext ==
    ASSUME OrderInv, LeaseInv, HealthInv, [SchedulerNext]_vars
    PROVE  OrderInv'
<1>1. CASE UNCHANGED vars
  BY <1>1 DEF vars, OrderInv, OrderOK
<1>2. ASSUME NEW r \in Requests, Select(r) \/ Renew(r) \/ Handler(r)
      PROVE  OrderInv'
  BY <1>2, loadPoolMembersOrdered, OrderOrdered, AcquireOrdered, OtherOrdered
     DEF Select, OtherStep
<1> QED
  BY <1>1, <1>2, TickOrdered, AdminOrdered DEF SchedulerNext

-----------------------------------------------------------------------------
(* Leases and order: the theorems *)

\* The three invariants hold in every reachable state: ordering hands on what was
\* read because of the one for order, and leases rest on that.
LEMMA InvAlways == SchedulerSpec => [](HealthInv /\ LeaseInv /\ OrderInv)
<1> DEFINE Inv == LeaseInv /\ OrderInv
<1>1. SchedulerInit => Inv
  BY LeaseInvInit, OrderInvInit
<1>2. Inv /\ HealthInv /\ [SchedulerNext]_vars => Inv'
  BY LeaseInvNext, OrderInvNext, TriesAll
<1> QED
  BY <1>1, <1>2, HealthInvAlways, PTL DEF SchedulerSpec

\* For any requests, credentials, limits and TTL, and whatever expires, fails,
\* crashes or is edited in between: a request keeps its lease until it misses
\* two renewals, leases bound the use of a credential by the limit that was
\* read, and who returns leaves none behind (Acquire, Renew, Release).
THEOREM LeasesStaySafe == SchedulerSpec => []LeaseSafety
<1>1. HealthInv /\ LeaseInv /\ OrderInv => LeaseSafety
  BY LeasesSafe
<1> QED
  BY <1>1, InvAlways, PTL

\* For any targets, members, weights, strategies, cursors and affinities, and
\* whatever is edited between two reads of Select: every candidate that was read
\* is tried once and in the order of the priorities, and over a cycle of its
\* cursor weighted round robin starts with each candidate of a group as often as
\* its weight says (groupCandidates, orderCandidates, weightedStart).
THEOREM CandidatesStayOrdered == SchedulerSpec => []CandidateOrder
<1>1. HealthInv /\ LeaseInv /\ OrderInv => CandidateOrder
  BY OrderSafe
<1> QED
  BY <1>1, InvAlways, PTL
=============================================================================
