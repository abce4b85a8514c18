------------------------------- MODULE Quota -------------------------------
(***************************************************************************)
(* Quota observation (internal/quota): the workers that probe credentials  *)
(* which are due, the lease that keeps a credential to one probe at a      *)
(* time, the back-off after failures, and the observations that responses  *)
(* bring on the side (proxy/quota.go).                                     *)
(*                                                                         *)
(* A probe cycle is a goroutine per credential of the batch: it takes the  *)
(* lease, asks the probe, reads the probe state, writes the new one, runs  *)
(* the health probe and releases.  Its context ends a margin before the    *)
(* lease does.  Times are kept relative to the present, in ticks: ages of  *)
(* what was observed and written, and the ticks left of what is to come.   *)
(* Ages stop at AgeCap, which is later than any write that is under way.   *)
(* What a health probe reports goes to credential_health; Scheduler has    *)
(* that row.                                                               *)
(***************************************************************************)
EXTENDS Integers, FiniteSetsExt

CONSTANTS
    Credentials,        \* credential ids: numbers, because ids break ties
    Workers,            \* processes that run the worker
    Deployments,        \* workers that run and credentials that are active
    Probed,             \* credentials whose provider has a quota probe
    PollInterval, ProbeTimeout, LeaseTTL, Margin,
    MaxBackoff, AuthBackoff, UnsupportedBackoff,
    JitterPercent,
    RetryAfters,        \* Retry-After of failures, 0 for none
    BatchSize,
    ObservationTimeout, \* ticks a passive observation may take
    AgeCap,             \* ages stop here
    OverdueCap,         \* the ticks a credential is overdue for stop here
    MaxFailures,        \* the failure count stops here
    MaxTroubles         \* bound on crashes and failed calls

ASSUME QuotaAssumption ==
    /\ Credentials \subseteq Nat
    /\ {PollInterval, ProbeTimeout, LeaseTTL, Margin, MaxBackoff, AuthBackoff,
          UnsupportedBackoff, MaxFailures} \subseteq Nat \ {0}
    /\ LeaseTTL >= 2 * ProbeTimeout + Margin       \* minimumProbeLeaseTTL
    /\ JitterPercent \in 0..100 /\ RetryAfters \subseteq Nat
    /\ {ObservationTimeout, AgeCap, OverdueCap} \subseteq Nat
    /\ AgeCap > LeaseTTL - Margin /\ AgeCap > ObservationTimeout
    /\ OverdueCap >= AgeCap

VARIABLES
    deployment,  \* one of Deployments
    state,       \* quota_probe_states
    snapshot,    \* age of the newest row of quota_snapshots, Never if none
    lease,       \* probe leases
    probe,       \* probe goroutines by worker and credential
    wait,        \* ticks until the ticker of a worker fires
    passive,     \* passive observation on its way to the database
    troubles

vars == <<deployment, state, snapshot, lease, probe, wait, passive, troubles>>

Never == -1
Free == [owner |-> "none", left |-> 0]
NoRow == [row |-> "none", next |-> 0, age |-> AgeCap, failures |-> 0, observed |-> Never]
Idle == [pc |-> "idle", left |-> 0, write |-> NoRow]
NoPassive == [credential |-> 0, age |-> 0]

FullLease == LeaseTTL

(* The context of a probe cycle. *)
CycleTimeout == LeaseTTL - Margin

QuotaInit ==
    /\ deployment \in Deployments
    /\ state = [c \in Credentials |-> NoRow]
    /\ snapshot = [c \in Credentials |-> Never]
    /\ lease = [c \in Credentials |-> Free]
    /\ probe = [w \in Workers |-> [c \in Credentials |-> Idle]]
    /\ wait = [w \in Workers |-> 0]
    /\ passive = NoPassive
    /\ troubles = 0

Trouble == troubles < MaxTroubles /\ troubles' = troubles + 1
Running(p) == p.pc \in {"quota", "write", "health"}

-----------------------------------------------------------------------------
(* Back-off *)

(* The loop of failureDelay: doubled for every failure after the first, and *)
(* MaxBackoff instead of a double that would be above it.                   *)
Doubled[n \in Nat] ==
    IF n <= 1 THEN PollInterval
    ELSE LET base == Doubled[n - 1] IN
         IF base >= MaxBackoff THEN base
         ELSE IF base > MaxBackoff \div 2 THEN MaxBackoff ELSE 2 * base

(* failureDelay without the jitter, for other failures than 401 and 403. *)
Delay(failures, retryAfter) ==
    Min({MaxBackoff,
         IF retryAfter > 0 THEN Max({PollInterval, retryAfter}) ELSE Doubled[failures]})

(* The jitter, which passes MaxBackoff only after a Retry-After that does. *)
Jittered(base, retryAfter) ==
    LET spread == (base * JitterPercent) \div 100 IN
    {IF retryAfter <= MaxBackoff THEN Min({d, MaxBackoff}) ELSE d :
       d \in (base - spread)..(base + spread)}

(* failureDelay: a long wait after 401 and 403. *)
failureDelay(failures, denied, retryAfter) ==
    IF denied THEN {AuthBackoff} ELSE Jittered(Delay(failures, retryAfter), retryAfter)

-----------------------------------------------------------------------------
(* The worker *)

Due == {c \in deployment.active : state[c].next <= 0}

DueById(c, d) == c < d

(* ORDER BY next_attempt_at, a missing row first, then by id. *)
DueBefore(c, d) ==
    LET key(x) == IF state[x] = NoRow THEN -(OverdueCap + 1) ELSE state[x].next IN
    key(c) < key(d) \/ (key(c) = key(d) /\ c < d)

Fires(w) == /\ w \in deployment.workers /\ wait[w] = 0
            /\ \A c \in Credentials : probe[w][c].pc = "idle"

(* RunOnce: ListDue, and a goroutine for each row of the batch.  The next run *)
(* waits for all of them and for the ticker.                                  *)
RunOnce(w) ==
    /\ Fires(w)
    /\ LET batch == {c \in Due : Cardinality({d \in Due : DueBefore(d, c)}) < BatchSize}
       IN probe' = [probe EXCEPT ![w] = [c \in Credentials |->
                       IF c \in batch THEN [Idle EXCEPT !.pc = "due"] ELSE Idle]]
    /\ wait' = [wait EXCEPT ![w] = PollInterval]
    /\ UNCHANGED <<deployment, state, snapshot, lease, passive, troubles>>

(* Acquire: SETNX with the TTL, or ErrProbeBusy. *)
Acquire(w, c) ==
    /\ probe[w][c].pc = "due"
    /\ IF lease[c] = Free
         THEN /\ lease' = [lease EXCEPT ![c] = [owner |-> w, left |-> LeaseTTL]]
              /\ probe' = [probe EXCEPT ![w][c] =
                   [pc |-> "quota", left |-> CycleTimeout, write |-> NoRow]]
         ELSE lease' = lease /\ probe' = [probe EXCEPT ![w][c] = Idle]
    /\ UNCHANGED <<deployment, state, snapshot, wait, passive, troubles>>

-----------------------------------------------------------------------------
(* What a probe writes: the row of the state, and the age of a snapshot *)

Row(next, failures, observed) ==
    [row |-> "state", next |-> next, age |-> 0, failures |-> failures, observed |-> observed]

recordUnsupported(c) == {Row(UnsupportedBackoff, 0, Never)}

recordNoObservation(c) == {Row(PollInterval, 0, state[c].observed)}

(* recordObservation of what the runtime holds: a response's headers of just  *)
(* now, or those that are stored already.                                     *)
recordObservation(c) ==
    {[Row(PollInterval, 0, age) EXCEPT !.row = "observation"] :
       age \in {0, snapshot[c]} \ {Never}}

(* recordFailure, with the state it has just read. *)
recordFailure(c, denied, retryAfter) ==
    LET failures == Min({state[c].failures + 1, MaxFailures}) IN
    {Row(d, failures, state[c].observed) : d \in failureDelay(failures, denied, retryAfter)}

(* The failures that classifyProbeError tells apart. *)
Failures == [denied : BOOLEAN, retryAfter : RetryAfters]

(* runQuotaProbe up to its write: no probe, an observation, none, or an error, *)
(* the probe's timeout among them.                                             *)
Probe(w, c) ==
    /\ probe[w][c].pc = "quota"
    /\ \E row \in IF c \notin Probed THEN recordUnsupported(c)
                  ELSE recordNoObservation(c) \cup recordObservation(c) \cup
                         UNION {recordFailure(c, f.denied, f.retryAfter) : f \in Failures} :
         probe' = [probe EXCEPT ![w][c].pc = "write", ![w][c].write = row]
    /\ UNCHANGED <<deployment, state, snapshot, lease, wait, passive, troubles>>

AnyAge(stored, row) == TRUE

(* The WHERE of upsertProbeState: updated_at of the row is not newer. *)
NotOlder(stored, row) == stored.age >= row.age

Upserted(stored, row) ==
    IF NotOlder(stored, row) THEN [row EXCEPT !.row = "state"] ELSE stored

(* The rows of PersistObservation; a key that exists with the same contents is *)
(* left alone.                                                                 *)
Appended(newest, row) ==
    IF newest = Never THEN row.observed ELSE Min({newest, row.observed})

(* UpsertProbeState, or PersistObservation in one transaction. *)
Write(w, c) ==
    LET row == probe[w][c].write IN
    /\ probe[w][c].pc = "write"
    /\ state' = [state EXCEPT ![c] = Upserted(@, row)]
    /\ snapshot' = IF row.row = "observation"
         THEN [snapshot EXCEPT ![c] = Appended(@, row)] ELSE snapshot
    /\ probe' = [probe EXCEPT ![w][c].pc = "health", ![w][c].write = NoRow]
    /\ UNCHANGED <<deployment, lease, wait, passive, troubles>>

(* The write fails: the state stays, and the cycle goes on. *)
WriteFails(w, c) ==
    /\ probe[w][c].pc = "write" /\ Trouble
    /\ probe' = [probe EXCEPT ![w][c].pc = "health", ![w][c].write = NoRow]
    /\ UNCHANGED <<deployment, state, snapshot, lease, wait, passive>>

(* The context of the cycle ends: nothing more is probed or written.  A write *)
(* that takes that long is a fault of the database.                           *)
CycleEnds(w, c) ==
    /\ Running(probe[w][c]) /\ probe[w][c].left = 0
    /\ IF probe[w][c].pc = "write" THEN Trouble ELSE UNCHANGED troubles
    /\ probe' = [probe EXCEPT ![w][c] = [Idle EXCEPT !.pc = "release", !.left = Margin]]
    /\ UNCHANGED <<deployment, state, snapshot, lease, wait, passive>>

(* runHealthProbe and its report, or its timeout. *)
Health(w, c) ==
    /\ probe[w][c].pc = "health"
    /\ probe' = [probe EXCEPT ![w][c] = [Idle EXCEPT !.pc = "release", !.left = Margin]]
    /\ UNCHANGED <<deployment, state, snapshot, lease, wait, passive, troubles>>

Released(w, c) == IF lease[c].owner = w THEN Free ELSE lease[c]

(* Release, with a context of its own, or its failure. *)
Release(w, c) ==
    /\ probe[w][c].pc = "release"
    /\ \/ lease' = [lease EXCEPT ![c] = Released(w, c)] /\ UNCHANGED troubles
       \/ Trouble /\ UNCHANGED lease
    /\ probe' = [probe EXCEPT ![w][c] = Idle]
    /\ UNCHANGED <<deployment, state, snapshot, wait, passive>>

(* The process of a worker stops and starts again. *)
Restart(w) ==
    /\ Trouble
    /\ \E c \in Credentials : probe[w][c].pc # "idle"
    /\ probe' = [probe EXCEPT ![w] = [c \in Credentials |-> Idle]]
    /\ wait' = [wait EXCEPT ![w] = 0]
    /\ UNCHANGED <<deployment, state, snapshot, lease, passive>>

-----------------------------------------------------------------------------
(* Passive observations, and time *)

(* ObserveResponse of a response with quota headers. *)
ObserveResponse(c) ==
    /\ passive = NoPassive /\ c \in Probed \cap deployment.active
    /\ passive' = [credential |-> c, age |-> 0]
    /\ UNCHANGED <<deployment, state, snapshot, lease, probe, wait, troubles>>

(* RecordObservation: snapshot and state in one transaction; it fails, or its *)
(* key exists with other contents.                                            *)
PersistObservation ==
    /\ passive # NoPassive
    /\ LET c == passive.credential
           row == [Row(PollInterval - passive.age, 0, passive.age) EXCEPT !.age = passive.age]
       IN \/ /\ state' = [state EXCEPT ![c] = Upserted(@, row)]
             /\ snapshot' = [snapshot EXCEPT ![c] = Appended(@, row)]
          \/ UNCHANGED <<state, snapshot>>
    /\ passive' = NoPassive
    /\ UNCHANGED <<deployment, lease, probe, wait, troubles>>

Older(age) == IF age = Never THEN Never ELSE Min({age + 1, AgeCap})

OverTime(p) == \/ p.pc = "due"
               \/ p.pc = "quota" /\ p.left <= CycleTimeout - ProbeTimeout
               \/ p.pc \in {"write", "health", "release"} /\ p.left = 0

(* What a goroutine is about to write, and the goroutine, after a tick. *)
LaterWrite(row) ==
    [row EXCEPT !.age = @ + 1, !.next = @ - 1, !.observed = Older(@)]

LaterProbe(p) ==
    [p EXCEPT !.left = Max({@ - 1, 0}),
              !.write = IF p.pc = "write" THEN LaterWrite(@) ELSE @]

(* A tick, once everyone whose time has come has noticed. *)
Tick ==
    /\ \A w \in Workers : ~Fires(w) /\ \A c \in Credentials : ~OverTime(probe[w][c])
    /\ passive.age < ObservationTimeout
    /\ lease' = [c \in Credentials |->
         IF lease[c].left <= 1 THEN Free ELSE [lease[c] EXCEPT !.left = @ - 1]]
    /\ probe' = [w \in Workers |-> [c \in Credentials |-> LaterProbe(probe[w][c])]]
    /\ state' = [c \in Credentials |-> IF state[c] = NoRow THEN NoRow ELSE
         [state[c] EXCEPT !.next = Max({@ - 1, -OverdueCap}), !.age = Older(@),
                          !.observed = Older(@)]]
    /\ snapshot' = [c \in Credentials |-> Older(snapshot[c])]
    /\ wait' = [w \in Workers |-> Max({wait[w] - 1, 0})]
    /\ passive' = IF passive = NoPassive THEN passive ELSE [passive EXCEPT !.age = @ + 1]
    /\ UNCHANGED <<deployment, troubles>>

-----------------------------------------------------------------------------
Cycle(w, c) ==
    \/ Acquire(w, c) \/ Probe(w, c) \/ Write(w, c) \/ Health(w, c)
    \/ CycleEnds(w, c) \/ Release(w, c)

QuotaNext ==
    \/ \E w \in Workers : RunOnce(w) \/ Restart(w)
    \/ \E w \in Workers, c \in Credentials : Cycle(w, c) \/ WriteFails(w, c)
    \/ \E c \in Credentials : ObserveResponse(c)
    \/ PersistObservation \/ Tick

(* Workers run, their goroutines go on, and time passes. *)
QuotaSpec ==
    /\ QuotaInit /\ [][QuotaNext]_vars
    /\ WF_vars(Tick) /\ WF_vars(PersistObservation)
    /\ \A w \in Workers : WF_vars(RunOnce(w))
    /\ \A w \in Workers, c \in Credentials : WF_vars(Cycle(w, c))

-----------------------------------------------------------------------------
(* Properties *)

QuotaTypeOK ==
    /\ deployment \in Deployments
    /\ snapshot \in [Credentials -> Never..AgeCap]
    /\ \A c \in Credentials :
         /\ state[c].age \in 0..AgeCap /\ state[c].failures \in 0..MaxFailures
         /\ state[c].next <= Max({PollInterval, AuthBackoff, UnsupportedBackoff,
                                   MaxBackoff + (MaxBackoff * JitterPercent) \div 100})
         /\ lease[c] = Free \/ lease[c] \in [owner : Workers, left : 1..LeaseTTL]
    /\ \A w \in Workers, c \in Credentials :
         /\ probe[w][c].pc \in {"idle", "due", "quota", "write", "health", "release"}
         /\ probe[w][c].left \in 0..LeaseTTL /\ probe[w][c].write.age \in 0..AgeCap

(* A credential is probed by one worker at a time, although leases expire and  *)
(* are never renewed: the cycle ends a margin before its lease, and a late     *)
(* Release does not free the lease of the next owner.                          *)
OneProbe ==
    \A c \in Credentials : Cardinality({w \in Workers : Running(probe[w][c])}) <= 1

(* The state never claims an observation that no snapshot has, whatever fails, *)
(* is late or comes twice: PersistObservation writes both or neither.          *)
ObservedIsStored ==
    \A c \in Credentials : state[c].observed # Never =>
        snapshot[c] # Never /\ snapshot[c] <= state[c].observed

(* A result that is late leaves the back-off of a later result alone: only     *)
(* time and newer results change next_attempt_at.                              *)
LateResultIgnored ==
    [][\A c \in Credentials : state'[c] # state[c] =>
          \/ state'[c].age <= state[c].age
          \/ state'[c].next \in {state[c].next - 1, state[c].next}]_vars

(* PollInterval * 2^n. *)
Doublings[n \in Nat] == IF n = 0 THEN PollInterval ELSE 2 * Doublings[n - 1]

(* The nth failure in a row without a Retry-After makes the worker wait        *)
(* PollInterval * 2^(n - 1), at most MaxBackoff, give or take the jitter; a    *)
(* Retry-After is waited for, up to MaxBackoff (failureDelay).                 *)
BackoffDoubles ==
    \A c \in Credentials, ra \in 0..(2 * MaxBackoff) :
        LET n == state[c].failures + 1 IN
        /\ ra = 0 => Delay(n, ra) = Min({MaxBackoff, Doublings[n - 1]})
        /\ ra > 0 => Delay(n, ra) = Min({MaxBackoff, Max({PollInterval, ra})})
        /\ \A d \in Jittered(Delay(n, ra), ra) : ra <= MaxBackoff => d <= MaxBackoff

(* Probes are safe: one at a time, the wait after a failure doubles up to      *)
(* MaxBackoff, and what they claim to have observed is stored.                 *)
ProbeSafety == QuotaTypeOK /\ OneProbe /\ ObservedIsStored /\ BackoffDoubles

(* The state of every active credential is written again and again, by a probe *)
(* or, as long as they come more often than PollInterval, by observations of   *)
(* responses: although the batch is bounded, probes fail and wait, and workers *)
(* crash with a lease in hand.  A write is less than AgeCap old, a missing row *)
(* is not.                                                                     *)
RefreshedAgain ==
    \A c \in Credentials : []<>(c \notin deployment.active \/ state[c].age < AgeCap)

=============================================================================
