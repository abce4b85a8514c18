-------------------------------- MODULE Proxy --------------------------------
(***************************************************************************)
(* The life of one inference request: the handlers of internal/proxy, the  *)
(* request records and usage events of internal/usage, the calls they make *)
(* on the wallet (Wallet.tla), and the settlement recovery worker of       *)
(* internal/billing.                                                       *)
(*                                                                         *)
(* A handler runs five database transactions and one upstream call:        *)
(*   BeginRequest, Reserve, (upstream), Finalize, Settle.                  *)
(* Other handlers, the worker, funding, a failing database and a crash of  *)
(* the process come between any two of them.  A client chooses the request *)
(* id (X-Request-ID), so two handlers can work on the same request.        *)
(***************************************************************************)
EXTENDS Wallet

CONSTANTS
    Handlers,      \* concurrent executions of Handler.complete
    Workers,       \* settlement recovery workers, one per process
    Prices,        \* what a request can be quoted, see PriceType
    MaxFailures,   \* database calls that may fail
    MaxCrashes     \* crashes of the process

VARIABLES
    record,        \* request_records
    event,         \* usage_events
    handler,       \* the handlers' local state (requestUsageState)
    attempt,       \* next_attempt_at and lease_expires_at of a settlement
    batch,         \* the settlements each worker has claimed
    failures,      \* database failures so far
    crashes        \* crashes so far

usageVars == <<record, event>>
recoveryVars == <<attempt, batch>>
faultVars == <<failures, crashes>>
proxyVars == <<vars, usageVars, handler, recoveryVars, faultVars>>

\* Quote of the estimated usage, of no usage at all (nonzero only for a price
\* per request), and of the usage an upstream may report.
PriceType ==
    [estimate : Amounts \cup {0}, idle : Amounts \cup {0},
     final : SUBSET (Amounts \cup {0})]

ASSUME ProxyAssumption ==
    /\ Prices \subseteq PriceType
    /\ \A p \in Prices : p.final # {}
    /\ MaxFailures \in Nat /\ MaxCrashes \in Nat

-----------------------------------------------------------------------------
(* State *)

Terminal == {"succeeded", "failed", "cancelled", "reconcile_needed"}

RecordRow == [status : Terminal \cup {"open"}, wallet : Wallets]

\* held tells whether the event names the wallet of a reservation.
EventRow == [status : Terminal, amount : Amounts \cup {0}, held : BOOLEAN]

Idle == [pc |-> "idle"]

\* "unquoted" and "unavailable" are the two ends in an error of finalize: before
\* and after the outcome was known in full.
HandlerState ==
    {Idle}
      \cup [pc : {"started", "unquoted"}, req : Requests]
      \cup [pc : {"upstream"}, req : Requests, price : Prices, held : BOOLEAN]
      \cup [pc : {"closing", "settling", "answered", "unavailable"},
            req : Requests, status : Terminal, amount : Amounts \cup {0},
            held : BOOLEAN, ran : BOOLEAN]

ProxyInit ==
    /\ Init
    /\ record = [r \in Requests |-> NoRow]
    /\ event = [r \in Requests |-> NoRow]
    /\ handler = [h \in Handlers |-> Idle]
    /\ attempt = [r \in Requests |-> "none"]
    /\ batch = [k \in Workers |-> {}]
    /\ failures = 0
    /\ crashes = 0

-----------------------------------------------------------------------------
(* The handler's local moves *)

Goto(h, state) == handler' = [handler EXCEPT ![h] = state]

\* finalizeUsage is about to record this outcome.  ran tells whether the
\* upstream has answered.
Closing(r, status, amount, held, ran) ==
    [pc |-> "closing", req |-> r, status |-> status, amount |-> amount,
     held |-> held, ran |-> ran]

\* finalizeUsageFailure without a reservation and before or after the price is
\* known: the quote of no usage, which is positive for a price per request.
Refused(h, idle) ==
    \E status \in {"failed", "cancelled"} :
        Goto(h, Closing(handler[h].req, status, idle, FALSE, FALSE))

At(h, pc) == handler[h].pc = pc

-----------------------------------------------------------------------------
(* BeginRequest *)

\* The first handler of a request inserts its record; one that finds the record
\* open and about the same request joins it.  A closed record ends the handler.
BeginRequest(r, w) ==
    \/ /\ record[r] = NoRow
       /\ record' = [record EXCEPT ![r] = [status |-> "open", wallet |-> w]]
    \/ /\ record[r] = [status |-> "open", wallet |-> w]
       /\ UNCHANGED record

beginUsage(h, r, w) ==
    /\ handler[h].pc \in {"idle", "answered", "unavailable", "unquoted"}
    /\ BeginRequest(r, w)
    /\ Goto(h, [pc |-> "started", req |-> r])
    /\ UNCHANGED <<vars, event, recoveryVars, faultVars>>

\* Route, scheduler or price resolution fails: the request is closed without a
\* charge.
Abort(h) ==
    /\ At(h, "started")
    /\ Refused(h, 0)
    /\ UNCHANGED <<vars, usageVars, recoveryVars, faultVars>>

-----------------------------------------------------------------------------
(* Reserve *)

\* Fault: a request that has a reservation is held for a second time.
ReserveForAgain(h, p) ==
    LET r == handler[h].req
        w == record[r].wallet
    IN
    \/ /\ p.estimate > 0
       /\ Reserve(r, w, p.estimate)
    \/ /\ p.estimate > 0
       /\ reservation[r] # NoRow
       /\ Spendable(w, p.estimate)
       /\ wallet' = [wallet EXCEPT ![w].available = @ - p.estimate,
                                  ![w].reserved = @ + p.estimate]
       /\ UNCHANGED <<reservation, settlement, liability, order, ledger>>
    \/ p.estimate = 0 /\ UNCHANGED vars

\* billing.Service.Reserve on behalf of h: a zero quote holds nothing; a
\* request that has a reservation of the same input gets that one back.
ReserveFor(h, p) ==
    LET r == handler[h].req IN
    \/ /\ p.estimate > 0
       /\ Reserve(r, record[r].wallet, p.estimate)
    \/ /\ p.estimate > 0 => reservation[r] # NoRow
                              /\ reservation[r].amount = p.estimate
       /\ UNCHANGED vars

Reserved(h, p) ==
    /\ At(h, "started")
    /\ ReserveFor(h, p)
    /\ Goto(h, [pc |-> "upstream", req |-> handler[h].req, price |-> p,
                held |-> p.estimate > 0])
    /\ UNCHANGED <<usageVars, recoveryVars, faultVars>>

\* Insufficient funds, a wallet on hold, a budget, a price no longer published
\* or another input under the same request id.
ReserveRefused(h, p) ==
    /\ At(h, "started")
    /\ p.estimate > 0
    /\ Refused(h, p.idle)
    /\ UNCHANGED <<vars, usageVars, recoveryVars, faultVars>>

-----------------------------------------------------------------------------
(* The upstream call *)

\* Without usage a reservation is charged in full and estimated; without a
\* reservation the price of no usage applies.
MissingUsageCharge(r, p, held) == IF held THEN reservation[r].amount ELSE p.idle

\* executeJSON or executeStream up to finalize.
Execute(h) ==
    LET r == handler[h].req
        p == handler[h].price
        held == handler[h].held
        Done(status, amount) == Goto(h, Closing(r, status, amount, held, TRUE))
    IN
    /\ At(h, "upstream")
    /\ \/ \E amount \in p.final, status \in {"succeeded", "failed", "cancelled"} :
             Done(status, amount)
       \/ \E status \in {"reconcile_needed", "failed", "cancelled"} :
             Done(status, MissingUsageCharge(r, p, held))
    /\ UNCHANGED <<vars, usageVars, recoveryVars, faultVars>>

\* The quote of the usage that the upstream reported is out of range: finalize
\* returns before it records anything.  Only a price that depends on the usage
\* can do so, for the estimate was quoted before.
QuoteFails(h) ==
    /\ At(h, "upstream")
    /\ \E amount \in handler[h].price.final : amount # handler[h].price.idle
    /\ Goto(h, [pc |-> "unquoted", req |-> handler[h].req])
    /\ UNCHANGED <<vars, usageVars, recoveryVars, faultVars>>

-----------------------------------------------------------------------------
(* Finalize *)

\* normalizeFinalizeInput: a positive charge needs a wallet.
Chargeable(c) == c.amount > 0 => c.held

EventOf(c) == [status |-> c.status, amount |-> c.amount, held |-> c.held]

\* Fault: whoever finds the request closed takes its event for their own.
FinalizeTxUnchecked(c) ==
    /\ Chargeable(c)
    /\ \/ /\ record[c.req].status = "open"
          /\ record' = [record EXCEPT ![c.req].status = c.status]
          /\ event' = [event EXCEPT ![c.req] = EventOf(c)]
       \/ record[c.req].status # "open" /\ UNCHANGED usageVars

\* usage.Repository.Finalize: the event and the closed record commit together.
\* An event already there is returned only to an identical input.
FinalizeTx(c) ==
    /\ Chargeable(c)
    /\ \/ /\ record[c.req].status = "open"
          /\ record' = [record EXCEPT ![c.req].status = c.status]
          /\ event' = [event EXCEPT ![c.req] = EventOf(c)]
       \/ /\ record[c.req].status # "open"
          /\ event[c.req] = EventOf(c)
          /\ UNCHANGED usageVars

\* A reservation is settled whatever became of the request.
Settles(c) == c.held

\* Fault: finalize goes on under the context of a client that has left.
FinalizeCutShort(h) ==
    /\ At(h, "closing")
    /\ FinalizeTx(handler[h])
    /\ Goto(h, [handler[h] EXCEPT
                  !.pc = IF handler[h].status = "cancelled" THEN "unavailable"
                         ELSE IF Settles(handler[h]) THEN "settling" ELSE "answered"])
    /\ UNCHANGED <<vars, recoveryVars, faultVars>>

\* finalize up to the settlement.
Finalize(h) ==
    /\ At(h, "closing")
    /\ FinalizeTx(handler[h])
    /\ Goto(h, [handler[h] EXCEPT
                  !.pc = IF Settles(handler[h]) THEN "settling" ELSE "answered"])
    /\ UNCHANGED <<vars, recoveryVars, faultVars>>

\* The input is invalid, or another handler has closed the request differently.
FinalizeRefused(h) ==
    LET r == handler[h].req IN
    /\ At(h, "closing")
    /\ \/ ~Chargeable(handler[h])
       \/ record[r].status # "open"
    /\ Goto(h, [handler[h] EXCEPT !.pc = "unavailable"])
    /\ UNCHANGED <<vars, usageVars, recoveryVars, faultVars>>

-----------------------------------------------------------------------------
(* Settle, by the handler or by the worker *)

\* Fault: the reserved amount is charged instead of the usage.
SettleTxAsReserved(r) ==
    \/ /\ Settle(r, reservation[r].amount)
       /\ attempt' = [attempt EXCEPT ![r] = "none"]
    \/ /\ settlement[r].status = "settled"
       /\ UNCHANGED <<vars, attempt>>

\* The transaction of billing.Settle for the stored event of r, and what it
\* does to the retry schedule: a pending settlement waits for its next attempt.
SettleTx(r) ==
    \/ /\ Settle(r, event[r].amount)
       /\ attempt' = [attempt EXCEPT ![r] = "none"]
    \/ /\ SettlePending(r, event[r].amount)
       /\ attempt' = [attempt EXCEPT ![r] = "waiting"]
    \/ /\ settlement[r] = [status |-> "settled", actual |-> event[r].amount]
       /\ UNCHANGED <<vars, attempt>>

\* The remaining error of Settle: the balance would overflow.
SettleOverflows(r) ==
    LET w == reservation[r].wallet
        actual == event[r].amount
    IN
    /\ Settleable(r, actual)
    /\ wallet[w].available >= Extra(r, actual)
    /\ ~safeAdd(wallet[w].available - Extra(r, actual), Unused(r, actual))

SettleByHandler(h) ==
    /\ At(h, "settling")
    /\ \/ SettleTx(handler[h].req) /\ Goto(h, [handler[h] EXCEPT !.pc = "answered"])
       \/ /\ SettleOverflows(handler[h].req)
          /\ Goto(h, [handler[h] EXCEPT !.pc = "unavailable"])
          /\ UNCHANGED <<vars, attempt>>
    /\ UNCHANGED <<usageVars, batch, faultVars>>

-----------------------------------------------------------------------------
(* The recovery worker *)

Due == {r \in Requests : settlement[r].status = "pending" /\ attempt[r] = "due"}

\* A worker claims what is due and not leased; nothing ever checks the owner.
ClaimPendingSettlements(k) ==
    /\ batch[k] = {}
    /\ Due # {}
    /\ batch' = [batch EXCEPT ![k] = Due]
    /\ attempt' = [r \in Requests |-> IF r \in Due THEN "leased" ELSE attempt[r]]
    /\ UNCHANGED <<vars, usageVars, handler, faultVars>>

\* One round of the loop of RecoverPendingSettlements: the settlement may have
\* been completed by another worker meanwhile.
RecoverPendingSettlement(k, r) ==
    /\ r \in batch[k]
    /\ SettleTx(r)
    /\ batch' = [batch EXCEPT ![k] = @ \ {r}]
    /\ UNCHANGED <<usageVars, handler, faultVars>>

\* Fault: a lease has no end.
ElapsesForRetries(r) == attempt[r] = "waiting"

\* The retry delay (a minute) and the lease (thirty seconds) run out.
Elapses(r) == attempt[r] \in {"waiting", "leased"}

\* Time passes, whether or not the worker with the lease is still at work.
TimePasses(r) ==
    /\ settlement[r].status = "pending"
    /\ Elapses(r)
    /\ attempt' = [attempt EXCEPT ![r] = "due"]
    /\ UNCHANGED <<vars, usageVars, handler, batch, faultVars>>

-----------------------------------------------------------------------------
(* Funding, failures and crashes *)

Fund ==
    /\ \E c \in Credits, w \in Wallets, a \in Amounts : Credit(c, w, a)
    /\ UNCHANGED <<usageVars, handler, recoveryVars, faultVars>>

\* A database call of the handler returns an error, with (the reply is lost) or
\* without its transaction committed; the handler takes its error path.
HandlerFailure(h) ==
    /\ failures < MaxFailures
    /\ failures' = failures + 1
    /\ \/ /\ At(h, "idle")
          /\ \E r \in Requests, w \in Wallets : BeginRequest(r, w)
          /\ UNCHANGED <<vars, event, handler, attempt>>
       \/ /\ At(h, "started")
          /\ \E p \in Prices :
                /\ p.estimate > 0
                /\ ReserveFor(h, p) \/ UNCHANGED vars
                /\ Refused(h, p.idle)
          /\ UNCHANGED <<usageVars, attempt>>
       \/ /\ At(h, "closing")
          /\ FinalizeTx(handler[h]) \/ UNCHANGED usageVars
          /\ Goto(h, [handler[h] EXCEPT !.pc = "unavailable"])
          /\ UNCHANGED <<vars, attempt>>
       \/ /\ At(h, "settling")
          /\ SettleTx(handler[h].req) \/ UNCHANGED <<vars, attempt>>
          /\ Goto(h, [handler[h] EXCEPT !.pc = "unavailable"])
          /\ UNCHANGED usageVars
    /\ UNCHANGED <<batch, crashes>>

\* A database call of the worker fails.  DeferPendingSettlement gives up the
\* lease, or fails too and leaves it to run out.
WorkerFailure(k, r) ==
    /\ r \in batch[k]
    /\ failures < MaxFailures
    /\ failures' = failures + 1
    /\ batch' = [batch EXCEPT ![k] = @ \ {r}]
    /\ \/ /\ settlement[r].status = "pending"
          /\ attempt' = [attempt EXCEPT ![r] = "waiting"]
       \/ UNCHANGED attempt
    /\ UNCHANGED <<vars, usageVars, handler, crashes>>

Crash ==
    /\ crashes < MaxCrashes
    /\ crashes' = crashes + 1
    /\ handler' = [h \in Handlers |-> Idle]
    /\ batch' = [k \in Workers |-> {}]
    /\ UNCHANGED <<vars, usageVars, attempt, failures>>

-----------------------------------------------------------------------------

HandlerStep(h) ==
    \/ Abort(h)
    \/ \E p \in Prices : Reserved(h, p) \/ ReserveRefused(h, p)
    \/ Execute(h) \/ QuoteFails(h)
    \/ Finalize(h)
    \/ FinalizeRefused(h)
    \/ SettleByHandler(h)

WorkerStep(k) ==
    \/ ClaimPendingSettlements(k)
    \/ \E r \in Requests : RecoverPendingSettlement(k, r)

ProxyNext ==
    \/ \E h \in Handlers :
          \/ \E r \in Requests, w \in Wallets : beginUsage(h, r, w)
          \/ HandlerStep(h)
          \/ HandlerFailure(h)
    \/ \E k \in Workers :
          \/ WorkerStep(k)
          \/ \E r \in Requests : WorkerFailure(k, r)
    \/ \E r \in Requests : TimePasses(r)
    \/ Fund
    \/ Crash

ProxySpec == ProxyInit /\ [][ProxyNext]_proxyVars

\* A handler that was started runs on (its upstream call is bounded by the
\* client's context), the worker ticks every minute and time passes.  Clients,
\* funding, failures and crashes owe nothing.
Fairness ==
    /\ \A h \in Handlers : WF_proxyVars(HandlerStep(h))
    /\ \A k \in Workers : WF_proxyVars(WorkerStep(k))
    /\ \A r \in Requests : WF_proxyVars(TimePasses(r))

LiveSpec == ProxySpec /\ Fairness

-----------------------------------------------------------------------------
(* Properties *)

\* Type correctness of the request records, usage events, handlers and the
\* retry schedule.
ProxyTypeOK ==
    /\ record \in [Requests -> RecordRow \cup {NoRow}]
    /\ event \in [Requests -> EventRow \cup {NoRow}]
    /\ handler \in [Handlers -> HandlerState]
    /\ attempt \in [Requests -> {"none", "waiting", "due", "leased"}]
    /\ batch \in [Workers -> SUBSET Requests]
    /\ failures \in 0..MaxFailures
    /\ crashes \in 0..MaxCrashes

\* Whatever handlers, workers, failures and crashes do, the wallet only ever
\* moves by the operations of billing: the proxy implements Wallet's Spec and
\* inherits its invariants.
ImplementsWallet == Spec

\* A client is answered normally only for a request whose usage event is the
\* one its own handler computed, and whose charge, if it needed a reservation,
\* is settled or durably pending for the same amount.
AnsweredIsCharged ==
    \A h \in Handlers : At(h, "answered") =>
        LET c == handler[h] IN
        /\ event[c.req] = EventOf(c)
        /\ c.held => /\ settlement[c.req].status \in {"pending", "settled"}
                     /\ settlement[c.req].actual = c.amount

\* Money follows usage: a settlement exists only for a request with a usage
\* event that names the reservation's wallet, and for that event's amount,
\* although handler and workers settle from copies they read earlier.
ChargeMatchesEvent ==
    ProxyTypeOK /\ \A r \in Requests : settlement[r] # NoRow =>
        /\ event[r] # NoRow
        /\ event[r].held
        /\ settlement[r].actual = event[r].amount
        /\ reservation[r].wallet = record[r].wallet

WorksOn(h, r) == handler[h] # Idle /\ handler[h].req = r

\* What can keep the request r from its end: a database call fails or the
\* process dies; two handlers share the request id; the usage has no quote; a
\* price per request is owed by a request without a reservation, so that there
\* is no wallet to charge; giving back what was not used would overflow the
\* balance.
Hindered(r) ==
    \/ failures > 0 \/ crashes > 0
    \/ \E h, g \in Handlers : h # g /\ WorksOn(h, r) /\ WorksOn(g, r)
    \/ \E h \in Handlers :
          /\ WorksOn(h, r)
          /\ \/ At(h, "unquoted")
             \/ At(h, "closing") /\ ~Chargeable(handler[h])
             \/ At(h, "settling") /\ SettleOverflows(r)

\* A request without a usage event gets one (docs/adr/0003, decision 1).
GetsEvent(r) == record[r].status = "open" ~> event[r] # NoRow

\* A reservation is not held for ever: its request ends settled, or marked for a
\* later settlement or reconciliation (docs/adr/0003, acceptance).
GetsResolved(r) ==
    reservation[r].status = "reserved" ~>
        \/ reservation[r].status # "reserved"
        \/ event[r] # NoRow /\ event[r].status = "reconcile_needed"

\* A request that nothing in the list of Hindered ever meets comes to its end in
\* both books, whichever way its handler takes and whatever the others do: the
\* event of its usage and the end of its reservation.
RequestsEnd ==
    \A r \in Requests : []~Hindered(r) => GetsEvent(r) /\ GetsResolved(r)

\* The recovery worker completes a pending settlement once the wallet can pay:
\* no settlement is pending for ever while the funds for it are there.
PendingRecovered ==
    \A r \in Requests :
        []<>~(/\ settlement[r].status = "pending"
              /\ wallet[reservation[r].wallet].available >= Extra(r, event[r].amount))

\* A stream was delivered by the time of its finalize.  If it has a positive
\* charge it is not free because its request id was retried: the event of the
\* request carries a charge.
StreamedIsCharged ==
    \A h \in Handlers :
        LET c == handler[h] IN
        (/\ At(h, "unavailable") /\ c.ran
         /\ c.status = "succeeded" /\ c.amount > 0)
          => event[c.req] # NoRow /\ event[c.req].amount > 0
=============================================================================
