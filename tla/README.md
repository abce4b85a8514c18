# bablo: TLA+ specifications and proofs

bablo is a gateway that sells inference: clients send OpenAI-style requests, the
gateway picks a provider credential, forwards the request, and charges a prepaid
wallet. It is one Go process (several may run against the same database) whose
facts live in PostgreSQL; Redis keeps counters and leases.

This directory holds the specifications of its money core, of the life of a
request and of a payment, of the choice of credentials, of quota probes,
secrets, sessions, API keys and the catalogue, the TLC models that check them,
and the TLAPS proofs.

## Inventory

| part (`src/internal/...`) | state | operations | hard parts |
|---|---|---|---|
| `billing` | `wallets`, `wallet_reservations`, `billing_settlements`, `wallet_liabilities`, `wallet_ledger` | Reserve, Settle, Release, Credit(InTx), Open/ReverseLiabilityInTx, Hold/Complete/ReleasePaymentRefundInTx, ClaimPendingSettlements, RecoverPendingSettlements | one balance shared by four flows; `financial_hold` maintained in four places; retries of a settlement; debts paid from later funds; overflow |
| `proxy` | one handler per request (`requestUsageState`) | complete, executeJSON, executeStream, finalize | five transactions and an upstream call with crashes, failures and other handlers in between; request ids chosen by clients |
| `usage` | `request_records`, `usage_events`, `request_attempts`, outbox | BeginRequest, Finalize, RecordReconciliation, ClaimOutbox, MarkOutbox… | idempotent close of a request; outbox claims that go stale |
| `payment` | `payment_orders`, `payment_provider_operations`, `payment_events`, external refunds, disputes, vouchers | CreateOrder, Refund, Close, ExpireDue, RecoverProviderOperations, ReconcileOrders, HandleWebhook, vouchers, manual recharge | webhooks duplicated and reordered, leases on provider calls, refunds started on two sides |
| `scheduler` | leases, cursors and affinity in Redis or memory, decisions | Select, Renew, Release | reads that are old when the lease is taken; lease expiry against renewal; lost replies; concurrency limits |
| `quota` | snapshots, probe state, probe leases | RunOnce, RecordObservation, probe cycle | probes against the end of their lease, late writes, back-off, bounded batches |
| `credential` | credentials, versions of encrypted secrets, health, pools | Create, Update, Rotate, Reencrypt, RevealAll, RecordHealth | re-encryption in two transactions, keys rolled and retired under running processes, late results |
| `apikey` | keys, policies, rate windows | Create, Update, Rotate, Revoke, Authenticate, Authorize | rotation between authentication and authorization; a limiter at its capacity |
| `auth` | users, sessions, MFA factors, attempt windows | Login, Logout, passwords, TOTP, recovery codes | one-time codes presented twice, stale principals, limiter eviction |
| `route`, `pricing` | routes and price versions with their intervals | Create, Update, Publish, Activate, Retire, resolve | publication against readers that read statement by statement; intervals |
| `model`, `provider` | models, aliases, provider models | Create, Update, Reconcile, ResolvePublic | identifiers that must keep their meaning; capabilities checked on two tables |
| `inference` | a process's copy of the active credentials | ReconcileCredentials, Start, WaitReady, calls and probes | start-up against administration |
| `secret` | the keyring of a process | Seal, Open | keys that differ between processes |
| `data`, `audit`, `config`, `httpapi`, `cmd` | wiring | | |

Components call each other directly; the only shared state is the database, and
Redis where it is configured. `proxy` calls `apikey.Authenticate` and `Authorize`,
`model.ResolvePublic`, `usage.BeginRequest`, `route.Resolve`, `scheduler.Select`,
`pricing.ResolveSnapshot`, `billing.Reserve`, the engine, `usage.Finalize` and
`billing.Settle`, and reports the result to `credential` and `quota`.
`payment` calls `billing` inside its own transactions. Workers of `billing`,
`payment` and `quota` poll the tables.

The properties that make each part correct are those of the hazards in
`PROJECT.json`: balances never go negative or overflow, the ledger rebuilds them,
a wallet in debt cannot spend, each request is charged exactly once and for its
usage event, incoming money pays debts oldest first, closed facts stay closed; a lease stays
with its holder and comes free when the holder is gone; late results change
nothing; a code, a secret or a limit means the same to two requests at once; an
identifier keeps its meaning and a version its interval.

## Modules

| module | models |
|---|---|
| `Wallet` | `billing`: every transaction that moves a wallet |
| `MCWallet` | small instances of `Wallet` |
| `Proxy` | `proxy` + `usage` + the recovery worker of `billing`, on top of `Wallet` |
| `MCProxy` | small instances of `Proxy` |
| `Payment` | `payment`: orders, provider operations, events, refunds and disputes, with Stripe as an external actor, over an instance of `Wallet` |
| `Scheduler` | `scheduler`, the lease keeper of `proxy`, `credential_health` and pool members of `credential` |
| `Credential` | `credential` and `secret`: secrets, keys, and the runtime copy in `inference/cpa` |
| `Quota` | `quota`: probe workers, snapshots, states, observations of responses |
| `Session` | `auth`: limiter, login, sessions, passwords, second factor |
| `ApiKey` | `apikey`: keys, policies, authentication, authorization, limiter |
| `Catalog` | `model`, `provider`, `route`, `pricing` and the guards of their migrations |
| `MC...` | small instances of each of these, named after it |
| `WalletProofs` | theorems about `Wallet`: types, the hold, debts and facts; the ledger |
| `ProxyProofs` | that `Proxy` implements `Wallet`, and its own invariants |
| `PaymentProofs` | that `Payment` implements `Wallet`, and its own invariants |
| `AccessProofs` | theorems about `Credential` and `Session` |
| `ApiKeyProofs`, `SchedulerProofs`, `CatalogProofs`, `QuotaProofs` | theorems about these modules |

A component's properties are conjunctions of named parts: `LeaseSafety` is
`SchedulerTypeOK /\ KeptLease /\ WithinLimit /\ NoLeaseLeft`, and so on. Each part
has its own comment.

### Wallet

Every operation of `billing` is one PostgreSQL transaction which locks the wallet
row before it reads a balance, so it is one action, named after the function.
An early return of the code (replay, conflict, insufficient funds, overflow)
commits nothing and is a guard. Two places where the code does not simply abort
are actions of their own: `Settle` and `SettlePending` are the two branches of
`Repository.Settle`.

* `wallet[w]` is the row of `wallets`; rows exist from the start because the
  first use creates them with zero balances. `wallets.status` is written by no
  code.
* `reservation[r]`, `settlement[r]` are the rows of `wallet_reservations` and
  `billing_settlements`, both unique per request.
* `liability[w]` is the sequence of `wallet_liabilities` of a wallet. The code
  pays them in the order `created_at, id`; the model in the order in which their
  transactions committed. The two differ only if two webhook handlers take their
  time stamps and the row lock in opposite orders.
* `order[o]` keeps of `payment_orders` only what gates a wallet movement: whether
  it is credited, and whether a refund holds, took or returned the money.
  `Payment` replaces it by a function of the whole row (`WalletOrders`).
* `ledger` is the set of `wallet_ledger` rows. `type`, `of` and `by` stand for
  the idempotency key, whose unique index is `insertLedger`'s guard; `available`
  and `reserved` are the deltas.

`recoverWalletLiabilities` loops over the open debts. The model states the loop
by what it computes: `left[i]` is the money left after the first `i` debts
(`Drains`), found as the one function that satisfies the recurrence, so that no
recursive operator stands between the model and the prover.

`OldestDebtFirst` is about money that comes in for debts that are there (ADR 0003,
line 25, speaks of later recharges). A new liability takes its first part from the
balance of the moment it is opened (`liability.go:62`), and that may pay it while
an older one is open: credit 2, reserve 2, open `l1` (nothing to take), release,
open `l2`. The property leaves that first part out; the model does what the code
does.

Not in `Wallet`: daily and monthly budgets and the check of the published price
(both only refuse a reservation), the currency (one per wallet), the billing
outbox (rows written in the same transaction, read by nobody in the repository).

### Proxy

`Proxy` EXTENDS `Wallet` and calls its actions. A handler is a program counter:
`started` (BeginRequest has committed), `upstream` (Reserve has committed or was
not needed), `closing` (the outcome is known, Finalize is next), `settling`,
and then `answered`, `unavailable`, or `unquoted` (the quote of the reported usage is
out of range, and `finalize` returns before it records anything: `usage.go:196`,
`QuoteFails`). Between two of these anything else may
happen. `BeginRequest`, `ReserveFor`, `FinalizeTx` and `SettleTx` are the
transactions; `Refused` is the error path before the upstream call and `Execute`
is every outcome of the call: usage or no usage, success, failure, cancellation.

A price is abstracted to three quotes: of the estimate, of no usage (`idle`,
positive only for a price per request) and the set of quotes of what the upstream
may report.

The retry schedule of a pending settlement (`next_attempt_at`,
`lease_expires_at`) is `attempt[r]`: `waiting`, `due` or `leased`; `TimePasses`
makes it due again, whether or not the worker that holds the lease is still at
work. `batch[k]` is what worker `k` has claimed. Nothing checks the owner of a
lease, neither here nor in the code.

`HandlerFailure` lets any database call of a handler fail, before or after its
commit (the lost reply), `WorkerFailure` one of a worker, and `Crash` stops the
process between any two transactions.

`RequestsEnd` says of a request that nothing hinders that it gets its usage event and
that its reservation is resolved. `Hindered` is the list of what the code does not
get over, each read off the state: a failed call or a crash; two handlers on one
request id, of which the second to finalize is refused (`usage/repository.go:96`); a
quote out of range; a price per request owed without a reservation, for which
`normalizeFinalizeInput` finds no wallet; and an unused part whose return would
overflow the balance. None is excluded by a constant of the run, so all of them
happen in it, and without any one of the five TLC finds a request that does not end.

Not in `Proxy`: authentication, rate limits, the scheduler's lease, SSE framing,
attempts and the usage outbox. They neither move money nor change when it moves.

### Payment

`Payment` instantiates `Wallet` with `WalletOrders`, the orders as billing sees
them, and calls the `...InTx` operators that the code calls inside its own
transactions. `WalletSpec` then says that every step of payment, whatever order
calls, events and refunds come in, is a step of `Wallet`: what is proved there
holds here.

* `payment[o]` is the row of `payment_orders`. `trade` says that the checkout is
  stored, `held` that `refund_hold_ledger_id` is set, `failure` that
  `failure_class` is, `external` is `external_refunded_amount_minor`.
* `operation[o][type]` is the row of `payment_provider_operations`. The owner
  token of a claim is its attempt number. A lease or a retry delay may run out at
  any moment (`LeaseExpires`).
* `call` holds the provider calls in flight, between the transaction that claims
  an operation and the one that stores the answer. `Crash` removes one.
* `event` is `payment_events` with its processing status, `observed` what a
  reconciliation has read from the provider and not yet processed, `dispute` the
  rows of `payment_disputes` (their status named after the event that set it).
* `session`, `early`, `key`, `refund`, `chargeback` are the provider's.

The claim, the call and the completion are three actions
(`ClaimProviderOperation`; `ProviderAnswers`, `ProviderStalls`,
`ProviderConflict`; `CompleteCreateOperation` and the other three), for a request
and for the recovery worker alike. `CloseSession` and `MarkExpired` or
`MarkClosed` are the two halves of expiry and close. `processAuthenticatedEvent`
is one transaction: an event is a `Mismatch` (recorded as rejected), `Settled`
(accepted without effect), applied by one of the `Apply...` actions, or not
applicable (recorded as rejected); it then completes the operation it is about.
An answer or event that comes late finds the row as it is by then.

The provider is modelled from what `stripe.go` relies on: one execution at a time
under an idempotency key, whose result, refusals included, is remembered; final
states that are final; no refunds beyond the charge; events told at any time, in
any order, any number of times. A request may outlive the patience of its caller
(`ProviderStalls`, `ProviderLands`). `KeyConflicts` says whether a second request
under a key in use is answered 409 or made to wait. The state of a key remembers a 409
that was answered while it was in use (`contested`) and that the execution succeeded
after it (`overruled`). Merchant, mode and currency
always match; `closed` events, which only the test fixture sends, are left out.

The trigger of migration 000017 allows the edges of `AllowedTransitions`, and no
`updated_at` before that of the row. Callers read their clock before they lock the row
(`payment/service.go:506`, written at `events.go:292`), so the code can meet the second
check; the transaction is then rolled back. `RolledBack` is that of an answer to a
provider call, after which the lease runs out and the call is repeated; an event that
was rolled back is one that was not processed yet, and is delivered or asked for again.
`TransitionsAllowed` is about the edges: whatever the code finds under the lock, the
trigger has no other reason to refuse it.

`ReleasedRefundIsNotMade` has no condition on the constants: a hold is released under a
refund that goes out only if bablo was `Misled`, by a 409 for a key in use or by a
refund made at the console that it took for its own. What ADR 0003 claims is the same
without `Misled`, `ReleasedOnlyIfNotMade`, and the run `payment_conflict` shows that
the code does not keep it.

Not in `Payment`: vouchers and manual recharges (`Credit` of `Wallet` stands for
them in `Elsewhere`), the outbox, audit rows, expiry times.

### Scheduler

A request is a program counter through `Select` (`idle`, `read`, `trying`,
`chosen` or `refused`), the upstream call (`running`), the report of its result
(`reporting`) and the release. `loadPoolMembers` is one step per target, as it is
one statement; `Order` is the affinity lookup, `orderCandidates` and its cursors;
`Acquire` and `LeaseBusy` are one attempt on one slot. What was read into
`candidates` is never read again, which is what the code does.

`lease[c, slot]` has an owner and the ticks it has left; Redis and the
coordinator in memory behave alike (a slot is taken if absent, renewed and
released only by its owner). `StateUnavailable` is an error of the coordinator,
the lost reply of a SETNX included, which leaves a lease that nobody knows
(`blind`). The keeper's ticker is `wait`, a third of the TTL; `missed` counts
renewals that failed or came late. `Tick` waits for keepers whose ticker has
fired: a keeper that is late for a whole tick is one that `missed`.

The order of candidates is computed by operators named after the functions
(`groupCandidates`, `quotaCandidateLess`, `weightedStart`, `rotate`). Ids are
numbers because they break ties. `quotaCandidateLess` is not transitive where what
remains is unknown, so `QuotaOrder` is not a sorted list but what the insertion sort of
`sort.SliceStable` makes of the group; the library sorts more than 20 candidates in
blocks that it merges, which `QuotaOrder` does not follow. Left out: region and proxy filters, which the
proxy never asks for; the explanations in `scheduler_decisions`.

### Credential

A secret's row keeps the version that brought its plaintext (`value`), the key it
is sealed with and whether it is active. `Reencrypt` of the code is
`RevealForReencrypt` and `Reencrypt`, two transactions with the sealing between.
A process has the keyring of the configuration at its start; `StartProcess`,
`RegisterCredential` (one transaction per credential), `Start` and `WaitReady` are
the start-up of `cmd/bablo`; `RollKey` and `RetireKeys` are the operator, who
takes a key away once no active secret and no running process uses it. `atStart`
is a history variable. Left out: names, regions, metadata, creating pools.

### Quota

A probe goroutine goes through `due`, `quota`, `write`, `health`, `release`. Its
context ends `Margin` before its lease (`CycleTimeout`), and every step that the
context bounds must end by then (`OverTime`, `CycleEnds`). All times are relative:
`next` ticks to the next attempt, `age` since a row was observed, so that states
repeat. `failureDelay` is modelled with its doubling loop (a recursive function),
its cap, Retry-After and the jitter as a set of outcomes. `NotOlder` is the WHERE
clause of `upsertProbeState`. Deployments are two workers that share a credential
and one worker with two credentials and a batch of one. Observations of responses
(`ObserveResponse`) come without limit; only failed calls and crashes are counted.

Two things the properties do not say, because the code does not do them.
`probeCredential` does not look again whether a credential is due once it has the lease
(`quota/service.go:388`): a worker that listed it before another probed it probes it
again at once, whatever back-off the other stored. And each observation moves the next
attempt to `PollInterval` from now (`service.go:283`), so a credential with steady
traffic is never probed: `RefreshedAgain` says that its state is refreshed by a probe or
by an observation. Left out: the
parsing of headers and bodies, several windows per credential, and the row of
`credential_health` (in `Scheduler`).

### Session

One account is registered. A request reads (`Login` up to the password check,
`Authenticate` for a session) and commits in a later step on what it read:
`createLoginSession`, `Logout`, `ChangePassword` with `PasswordChanged`,
`BeginTOTP`, `ConfirmTOTP`, `VerifyTOTP`, `VerifyRecovery` and so on. A TOTP code
is a factor and a counter, and time is that counter. The limiter is modelled with
its capacity and both of its evictions (`MadeRoom`); `passed`, `by` and `after`
are history. Left out: the creation of users; the limiter of MFA attempts (it may
refuse anything); in Redis the limiter is the same without eviction. Not caught by a
property: `rotateWithMFA` opens a verified session for a request whose own session was
revoked after it was authenticated (`auth/service.go:453`).

### ApiKey

`Authenticate` gives a principal, `Authorize` reads the clock once,
`authorizeModel` checks key and policies in one statement with that time, `Allow`
counts in the window of that minute with the limits of the principal. A listing of models
is two statements, `ValidateListing` on the key and `ListAuthorizedModels` on its
policies; a key revoked between the two still gets its list. Requests of a principal
without limits are not counted by the limiter (`limiter.go:47`), nor by `RateLimited`. The limiter
is chosen at the start: in memory, with room for `MaxWindows`, or in Redis, where
calls fail (`Unavailable`) and windows expire. `admitted` and `retired` are
history. Left out: `last_used_at`, names, and budgets, which `billing` checks.

### Catalog

An update is two steps, as in the services: `UpdateModel`, `UpdateProviderModel`
and `UpdateRoute` validate on what they read, `Commit...` is the transaction with
the checks that it repeats, the locks it takes and the triggers of migrations
000006 and 000008 (`IdFree`, `AliasFree`, `Exclusive`). A request is resolved
statement by statement: `ResolvePublic`, `Resolve`, `getRoute`, `loadTargets`,
`billingClass`, `ResolveSnapshot` once per scope. The clock of the database may be
behind that of the process (`Clock`). A model is `enabled` and `public` separately:
requests need both, prices only the first. Its aliases are written in the transaction
that creates it. Left out: amounts, currencies, commercial
policies, metadata, providers as rows (one enabled provider).

## Runs

| run | question | distinct states |
|---|---|---|
| `wallet` | one wallet, two requests, an order, two liabilities: do all transactions, in any order, keep balances, hold, books and charges exact, never grant a reservation in debt, let incoming money pay the debts that are there oldest first, and leave closed facts closed? | 322,126 |
| `proxy` | two fair handlers on one request id, two fair workers, prices of every kind, a failure and a crash: does money follow usage events, is an answer charged, does the flow implement `Wallet`'s `Spec`, does a request that is not `Hindered` end, and is a payable pending settlement always completed, hindered or not? | 246,674 |
| `payment_core` | one order, a manual credit or debit, a console refund, two attempts per operation, crashes, timeouts, key conflicts, events in any order, reconciliation: is money credited exactly for payments, no payment lost, no hold released under a refund that goes out unless bablo was misled, every update along an edge the database trigger accepts, and every step one of `Wallet`? | 174,356 |
| `payment_conflict` | one order, key conflicts and no console refund: is a hold never released under a refund that goes out, as ADR 0003 says? **Violated**, see below | |
| `payment_refunds` | two console refunds, a dispute and a refund of bablo's own: exact totals, refunded once, the debt of a dispute as its verdict says? | 250,554 |
| `payment_live` | crashes, lost answers, key conflicts: is every order and every refund decided? | 222,838 |
| `scheduler` | two requests, two credentials, one fault or edit anywhere: do leases stay with their holders, do limits and the order of candidates hold, do late results change nothing, do orphaned slots come free? | 330,673 |
| `credential` | two processes, two credentials, keys rolled and retired, restarts: is the newest version the only active one, does no old plaintext return, can a process that starts open what it needs? | 763,534 |
| `quota` | probes that fail, time out and crash, observations without limit: one probe at a time, the delay of the nth failure exact, late results ignored, everyone's state refreshed again? | 518,757 |
| `session` | two requests at a time, with stale principals, a limiter at its capacity: codes used once, factors that stay, revocations that reach every session, attempts limited? | 164,190 |
| `apikey` | two keys, stale principals, a limiter with room for one window, or a Redis that fails: does a retired secret stop at once, for requests and for listings, do limits hold, does the list agree with the authorization? | 1,757,029 |
| `catalog` | two editors and a request: do identifiers keep their meaning, capabilities stay covered, versions stay linear, and is the request resolved to one version and the most specific price? | 1,088,968 |

All but `payment_conflict` hold. Deadlock checking is off in every model: all requests ended,
all edits used up and nothing to recover is a state in which the system may rest.

### Where the code and its documents disagree

* Run `payment_conflict`, INVARIANT `ReleasedOnlyIfNotMade`: the refund call times out
  while Stripe executes it, the retry gets 409, which the adapter takes for a refusal
  (`payment/stripe.go:682`): the hold is released and the refund goes out. ADR 0003,
  line 57: failed and unknown refunds do not wrongly release the held balance.

The modules also state what a document says and the code does not do. The
definitions that follow are in no run; each shows its counterexample with the change
given, checked with TLC (without the `SYMMETRY` and `VIEW` lines).

* INVARIANT `ReleasedOnlyIfNotMade` in `MCPayment_core` with `KeyConflicts = FALSE`:
  a console refund of the full amount fails while bablo's own has no number yet,
  and its event releases the hold of the other.
* `RequestsEnd` of `MCProxy` without the first line of `Hindered`: Finalize
  commits, Settle fails once (`proxy/usage.go:237`), and nothing retries it. The
  recovery worker only looks at settlements recorded as pending, and
  `billing.Service.Release` is called by tests only, so the reservation is held
  for ever. The same follows a lost reply of Reserve, or a crash. ADR 0003, line
  62: a transient database failure ends settled or explicitly pending.
* The same without the line of the price per request: Reserve refuses, the quote of no
  usage is positive, and `normalizeFinalizeInput` rejects a positive charge without a
  wallet, so the record stays open. ADR 0003, line 14: every request gets its event.
* The same without the line of the quote, or of two handlers: the record stays open or
  the hold is kept as well (`proxy/usage.go:196`, `usage/repository.go:96`).
* INVARIANT `StreamedIsCharged` in `MCProxy`: a second handler joins the
  open request (`usage/repository.go:96`), is refused, and closes the shared
  request at amount 0; the Finalize of the first is then refused although its
  stream was delivered. ADR 0003, line 44: retries are never silently free.
* INVARIANT `ExternalRefundAccounted` in `MCPayment_core`: the event of a
  console refund overtakes the paid event, or follows a failed refund of bablo's
  own, is recorded as rejected (`payment/events.go:387`), answered 200, and never
  looked at again. ADR 0003, line 25: external refunds must enter the books.
* INVARIANT `NoCreateOnceStored` in `MCPayment_core`: `CompleteCreateOperation`
  leaves the operation `processing`; its lease runs out and the worker creates the
  session again, until an event ends it. Only the idempotency key makes it
  harmless (`docs/security-model.md`, line 80: the call must not be repeated).
* INVARIANT `ReconciledPaymentCredits` in `MCPayment_core`: a reconciled payment is
  dated by the second in which its session was created, which may lie before
  `created_at` of the order. The webhook still credits it; reconciliation, the
  fallback for a lost webhook, never does (`docs/data-model.md`, line 164).
* PROPERTY `ResetHolds` in `MCSession`: a login that has verified the old password
  and found its hash outdated stores the new hash of the old password
  (`auth/repository.go:181`) after a reset has set another one.

Three more are visible in the models' steps. `Select` does not look again at a
credential that was disabled between its read and `Acquire` (ADR 0004, line 42:
such a credential is never chosen). The statements that resolve a request are not
one read transaction (`docs/architecture.md`, line 168); `ResolvedConsistently`
says what still holds. `route.update` writes back the switch it read without a
lock (`route/repository.go:219`), so a change of metadata undoes a concurrent
switch-off: `CommitRoute`.

### Bounds

In `Wallet`, amounts 1 and 2 against `MaxMinor` 3 (the code's `math.MaxInt64`): a charge
can be less than, equal to or more than the reservation, a credit can pay a debt
in part, in full or with a rest, and every overflow check is reached. Two
requests are needed for a hold that outlives one settlement; two liabilities for
FIFO; two handlers for a shared id; two workers for a lease that changes hands.
One wallet is enough for TLC, since the hold is proved for any number of them. One failure and one crash put a fault at every step;
the properties they break need only one.

In `Payment` one order is enough for the races of its own calls, events and
refunds, which never look at another order (only `CreateOrder` counts the others,
and no property is about that count). `MaxAttempts` 2 lets one claim be
lost, stalled, crashed or overtaken by the next; the last attempt gets an answer,
so the bound does not end the patience of the worker. Two attempts are taken
where the calls matter and one where console refunds or disputes do. Amounts 1
and 2 in `payment_refunds` allow refunds and disputes of a part; elsewhere one amount will
do, since bablo refunds orders in full. `payment_core` has one console refund, enough to be
taken for bablo's own, and no usage: a manual debit or the console refund's liability takes the money
that a refund would need, and `PaymentImplementsWallet` is proved with any number of requests.

`proxy` has one request id, which two handlers serve at once or one after the other:
what its properties say of a request does not depend on another except through the
wallet, which funding moves under it, and the refinement is proved for any number.
`MaxMinor` 3 with two credits lets the return of an unused part overflow. One failure
and one crash put a fault at every step.

In `Scheduler` a TTL of 3 ticks has a renewal on each tick, so that one renewal
may be missed and two in a row cost the lease; limits 1 and 2, and two targets
with one pool, make a credential a candidate twice. `MaxTroubles` 1 puts one edit,
fault or crash at any point. `CursorCycle` is a multiple of every modulus, so
cursors that wrap behave like those that do not.

`Credential` has three writes and four starts, changes of keys and stops: a
re-encryption that meets a rotation, under keys of two generations, in processes
with different keyrings. `Quota` has `LeaseTTL` at the minimum that the code
accepts (`minimumProbeLeaseTTL`), a back-off that reaches its cap, and `MaxTroubles` 1, a crash or failed call at any
point; failed probes and observations are not bounded; ages are cut off where no pending write could be older. `Session` has
four requests, three counters and a limiter with room for two entries, so that an
attempt of one account evicts those of another. `ApiKey` has two minutes, three
edits and three requests. `Catalog` splits its edits by table (`Budgets`), those of
identifiers and aliases apart from the other fields of a model: three edits of
models or prices in one behaviour, or two over any pair of tables whose checks depend on each other; all of them with a request under way.

The sets of identifiers are symmetry sets in the runs without liveness
properties where they are interchangeable. The runs of `Payment` without liveness
have a `VIEW` that leaves out of `event` what no action and none of their
properties reads: the provider may report a fact under any number of event ids,
so only the events of the API are ever looked up again. It loses no behaviour.

### Fairness

`Proxy`'s `LiveSpec` asks for weak fairness of each handler that has started (a goroutine
runs on, database calls time out, the upstream call is bounded by the request
context), of each worker (a ticker in `RunSettlementRecoveryWorker`), and of time
passing. Clients, funding, failures and crashes have no fairness.

`Payment`'s `LiveSpec` asks for weak fairness of what `RunExpirationWorker` does
on each tick (claims of due operations, reconciliation, expiry), of calls ending
(`paymentProviderContext` bounds them by 15 s) and their answers being stored, of
leases running out, of the provider deciding payments and refunds it has accepted,
and of the end of a payment being delivered by webhook (Stripe repeats a delivery
for days). Customers, administrators, consoles, stalls and crashes have none.
The delivery is needed: without it the date of a reconciled payment (above) leaves
a paid order pending. Refund webhooks get no fairness: reconciliation is enough there.

In `Scheduler` the ticker of a keeper and the clock are fair, handlers are not: a
stream may go on for ever. In `Quota` the worker's ticker, its goroutines (every
call in them has a deadline), a pending observation and the clock are fair; responses
are not; failed calls and crashes are bounded. The other modules state safety only.

## Proofs

Each theorem holds for all sets of identifiers, finite or infinite unless an
assumption says otherwise, and for every value of the bounds. Each states
what a run checks on a small instance, as it stands or as a part; `ProxyWalletSafe`
and `PaymentBooksBalance` are consequences.

| module | theorem | statement |
|---|---|---|
| `WalletProofs` | `TypeCorrect` | `Spec => []TypeOK` |
| | `LiabilitiesExact` | `Spec => []LiabilityStatusExact` (part of `BooksBalance`) |
| | `SettlementAgrees` | `Spec => []SettlementMatchesReservation` (part of `ChargesExact`) |
| | `HoldIsExact` | `Spec => []FinancialHoldExact` |
| | `NoSpendingInDebt` | `Spec => NoReservationInDebt` |
| | `DebtsPaidInOrder` | `Spec => OldestDebtFirst` |
| | `FactsStayFinal` | `Spec => FactsAreFinal` |
| | `BooksAlwaysBalance` | `Spec => []BooksBalance` |
| | `ChargedOnce` | `Spec => []ChargesExact` |
| `ProxyProofs` | `ProxyImplementsWallet` | `ProxySpec => ImplementsWallet` |
| | `ProxyWalletSafe` | `ProxySpec` has the properties proved of `Spec` |
| | `ChargeFollowsEvent` | `ProxySpec => []ChargeMatchesEvent` |
| | `AnswerFollowsCharge` | `ProxySpec => []AnsweredIsCharged` |
| `PaymentProofs` | `PaymentImplementsWallet` | `Spec => WalletSpec` |
| | `PaymentBooksBalance` | `Spec` has `BooksBalance` and `ChargesExact` of its wallets |
| | `MoneyIsCredited` | `Spec => []CreditedForMoney` |
| | `PaymentNeverLost` | `Spec => []NoPaymentLost` |
| | `EdgesNeverRefused` | `Spec => TransitionsAllowed` |
| | `DisputeKeepsLiability` | `Spec => []DisputeMatchesLiability` |
| | `RefundsStayExact` | `Spec => []RefundsExact` |
| | `ReleasedRefundNeverMade` | `Spec => []ReleasedRefundIsNotMade` |
| `AccessProofs` | `NewestIsActive` | `CredentialSpec => []ActiveIsNewest` |
| | `StartIsSafe` | `CredentialSpec => []StartSafety` |
| | `RotationReplaces` | `CredentialSpec => OnlyRotationReplaces` |
| | `AttemptsStayLimited` | `SessionSpec => []AttemptsLimited` |
| | `SessionsStaySafe` | `SessionSpec => []SessionSafety` |
| | `EnabledFactorStays` | `SessionSpec => FactorStays` |
| `ApiKeyProofs` | `ListIsAuthorized` | `ApiKeySpec => []ListedIsAuthorized` |
| | `RetiredStops` | `ApiKeySpec => RetiredSecretStops` |
| | `WithinRate` | `ApiKeySpec => RateLimited` |
| `SchedulerProofs` | `HealthStaysLatest` | `SchedulerSpec => []HealthIsLatest` |
| | `LeasesStaySafe` | `SchedulerSpec => []LeaseSafety` |
| | `CandidatesStayOrdered` | `SchedulerSpec => []CandidateOrder` |
| `CatalogProofs` | `CatalogKeepsIntegrity` | `CatalogSpec => []CatalogIntegrity` |
| | `HistoriesAreLinear` | `CatalogSpec => []VersionIntegrity` |
| | `RequestsResolveConsistently` | `CatalogSpec => []ResolvedConsistently` |
| `QuotaProofs` | `ProbesStaySafe` | `QuotaSpec => []ProbeSafety` |
| | `LateResultsAreIgnored` | `QuotaSpec => LateResultIgnored` |

### Assumptions

They are the `ASSUME`s of the modules, which TLC evaluates on every run.

* `AmountsAssumption`: amounts are positive and at most `MaxMinor`.
  `IdsAssumption`: a request, a credit, an order and a reference are different
  things, as the ledger keeps the type of what an entry is about next to its id.
  `NoRefundAssumption`: no refund has the number that stands for none.
* `ReferencesAssumption` and `WalletAssumption` of `Payment`: the same of the wallets
  under it; console refunds, disputes and orders have different identifiers, and
  `References` are the first two.
* `ProxyAssumption`: a price quotes amounts, and at least one for a finished
  request. `CredentialAssumption`: there is a key. `ApiKeyAssumption`: limits and
  tokens are numbers, a limiter has room for one window, what a key or a policy
  lists are models and addresses.
* `SchedulerAssumption`: `max_concurrency` is at least 1 and has a largest value
  (1 to 10000, a check of the column), no request is called "none", and `LeaseTTL` is
  at least 3 ticks, which says that a tick is no longer than the interval of the
  keeper, a third of the TTL (`newLeaseKeeper`). Priorities are numbers and weights are
  positive (checks of `pool_members` and `route_targets`), a route has a target and a
  request one of the four strategies (`normalizeRequest`), credentials are finite.
* `SessionAssumption`: limits, windows and lifetimes are positive, the table of the
  limiter has room for the two entries of an attempt, and there is a password.
* `CatalogAssumption`: there is a time, one set of capabilities has them all, prices per
  token are one of the classes, and a price version prices the kind of thing its scope
  says.
* `QuotaAssumption`: what the options of the service are validated for (positive
  durations, a jitter ratio of 0 to 1, a lease that outlasts two probe timeouts and the
  margin), and bounds of the model that no write under way reaches (`AgeCap`,
  `OverdueCap`).

### The arguments

Every inductive invariant was checked with TLC before its proof. A proof has one
lemma per action, over a lemma that says what a step of one actor leaves true of
the others.

`Wallet`. `TypeOK` is not inductive: paying a debt keeps `recovered` in range only
if it was at most the principal, so `TypeInv` adds `LiabilityStatusExact`. Nor is
the hold: Release and Reserve leave it alone, which is right only if a reserved
request has no settlement. `HoldInv` is `TypeInv` with
`SettlementMatchesReservation` and `FinancialHoldExact`. The four operations that
end in `recoverWalletLiabilities` share `RecoveryKeeps`; the order of payments
follows from the recurrence of `Drains`: what is left after a debt is positive only
if that debt is paid.

`BooksInv` adds what the sums need: the ledger and what a wallet holds are finite
(`Summable`, `HoldersFinite`), a reference has one liability (`RefsUnique`), and the
ledger says nothing of a reference that has none (`PostedRefs`), without which the
entry that opens a liability might be added to an older one's. One transaction of
recovery posts an entry for each debt it pays; `WalletProofs` shows that together
they take from the balance what they add to the debts.

This part begins with what it needs of sums over finite sets (of a union, of equal
terms, of nothing). Their definition recurs over subsets, and an induction would take
an operator as parameter, so the lemmas argue by a smallest counterexample.

`Proxy`. `ProxyInv` adds to `HoldInv` how the rows of a request depend on each other
and on what a handler or a worker has read in an earlier transaction
(`RequestLinked`, `HandlerLinked`, `BatchLinked`): a settlement exists only for an
event that holds a reservation and has its amount; a handler at "settling" has
stored its own event. With it each step is a step of `Wallet` or leaves its tables
alone, so the theorems about `Wallet` hold for the proxy.

`Payment`. `PaymentInv` is `BooksInv` of the wallets, the types of the tables
(`Tables`) and `Links`: a row is created with its operation and before its session;
nobody pays before the checkout is handed out; an order that ended with a checkout
has a session that ended unpaid; the key of a call and its result belong to an
operation that was claimed; a refund or a dispute is of a session that was paid;
a fact that was read (`observed`) is still what the provider would tell, which is why
a late answer or event does no harm; and the ledger says of an order what its row
says (`Posted`). None of the invariants that are checked is inductive without it:
that an expiry does not overtake a payment needs what the expiry has read to be
still true when it is stored. Each transaction is shown to be one
operation of `Wallet` on `WalletOrders` (`Standing` is one order of it), which gives
the refinement and carries `BooksInv` along. `PaymentProofs` has two instances of
`Wallet`: the one of `Payment` and one of `WalletProofs` with the same arguments, whose
lemmas it uses; `SameNext` and `SameInit` say that they are the same.

`RefundsStayExact` needs `TotalsInv`: the provider has finitely many refunds of an
order, only a refund that was made is claimed (`ClaimsMade`), those that stand come to
no more than the order's amount, and an order that is not refunded has a rest left
(`TotalFits`, `EndFits`). A refund of the whole order therefore leaves no other to claim
(`WholeRefundAlone`), which is why an order is never refunded both by bablo and from
outside. `TotalByDefinition` says that the sums of `Payment` are the ones `WalletProofs`
has its lemmas about.

`ReleasedRefundNeverMade` needs `RefundInv`: a rejection that was returned left its mark
on the key (`RejectionKnown`), and a hold that was released has a reason: the refund
failed, a request for it was rejected, or the order has the number of another refund
(`ReleaseKnown`). Marks stay, a refund that failed stays failed, and a key that was
refused without a conflict is never executed again; what remains is `Misled`.

`Credential`. `CredentialInv`: versions are exact, a running process seals with a key
the configuration still has (what the order of a rollout guarantees), a
re-encryption under way has sealed the plaintext of the version it expects, what
is registered is between the start and the newest version. The compare of
`expected` in the second transaction then carries `RotationReplaces`.

`ApiKey`. `ApiKeyInv`: a retired secret has an older version or a revoked key
(`RetiredGone`), no request is dated in the future, and the window of the current
minute counts at least what was admitted in it (`AdmittedCounted`): the limiter
evicts windows of past minutes before it makes room. The first attempt failed for
a good reason: `RateLimited` spoke of every request of a key, and a request
authenticated before an edit may have smaller limits than the one that is let
through. It now speaks of the request that acts; the bounds of the run had hidden
the difference.

`Scheduler`. `HealthInv`: a result is stored with the time it was observed at, two
results have different times (`ReportsApart`), and the health of a credential is
no older than a stored result. `LeaseInv`: a request that has not missed two
renewals owns its slot for as many ticks as the renewals it may still miss need
(`Lasts`), owns no other slot unless it is lost or was not told (`OwnsOnly`), and
its slot is below the limit it read (`TriesSlot`). Slots of different requests are
different, so no more of them use a credential than the largest limit one has read:
a pigeonhole argument over the slots (`SlotsBoundUse`). `LeaseInv` needs that ordering
hands on the candidates that were read, and that is what `OrderInv` gives: what a
request has read are finitely many candidates, a target and a credential make one of
them (each target is read once), and what it tries is in the order of the priorities.
The rest is about the operators. That a finite set can be sorted (`SortExists`) puts
each value at its rank, the number of values below it, so it needs no induction over
lists; `Ascending` then chooses a sorted list, and `groupCandidates` makes groups whose
keys ascend (`GroupsMade`). Rotating, the swap of the affinity and the insertions of
the quota order only permute a group (`Rotated`, `AffinityMoves`, `QuotaOrderLists`),
so that the groups in a row list every candidate once (`OrderLists`). The sums of
weights grow with each candidate, so a slot falls in one share, which has as many slots
as the weight says (`ShareIsWeight`). The insertions, the sums and the concatenation are
recursive functions, of which a smallest counterexample shows that they exist and what
they compute (`Iterated`).

`Session`. `LimiterInv`: what was let through in a window is at most what an entry
of that window counts (`PassedCounted`), entries end at multiples of the window,
and the table holds at most one entry too many. Making room evicts the entry of the
account only if the table is full, which ends the count that `AttemptsLimited`
bounds; `RoomEnough` counts what is evicted and what comes back. `CodesInv`: what
opened a session is spent (`Spent`), which is a code of an earlier factor, a
counter that is not later than the last one accepted, or a recovery code that is
gone. What is spent stays spent, and a code that is accepted was not.

`Catalog`. `CatalogInv` has one part per table. An alias is apart from every public id
(`AliasApart`), which a change of a public id keeps only because it disables the alias of
that name and refuses one that another model owns; an edit that was validated is of a
row that exists when it commits, because no row is deleted (`EditSound`). The
versions of a route grow at the end only and keep their targets (`RoutesGrow`), and a
published price version is never put in force again at a time it was not
(`PricesSettle`); so what a request has read of either in an earlier statement
(`RouteRead`, `PriceRead`) still holds of the version it goes by.

`Quota`. `QuotaInv`: a probe that runs owns the lease of its credential, which has the
margin more left than its cycle (`ProbeSound`), so that a cycle is over before another
worker can take the lease; what a probe is about to write was decided on within the cycle
and claims an observation only if it is stored or will be stored with it (`WriteSound`);
a row's next attempt is within the bounds (`StateSound`). A write replaces only a row that
is not newer, and a tick moves the next attempt by one, which gives
`LateResultsAreIgnored`. `BackoffDoubles` compares the loop of `failureDelay` with a
doubling without bounds. Both are recursive functions; that they exist and what they
compute follows from `Iteration`, where a smallest counterexample stands for the
induction.

### Only model-checked

* Liveness under fairness, and what rests on `ENABLED`: outside the prover.

## Not modelled

* Budgets (`checkBudgets`) and the validation of a price at Reserve: they only
  refuse. The arithmetic of quotes: decimal numbers without state.
* Vouchers and manual recharges as operations of `payment` (as credits they are in
  `Wallet`); the outboxes of `usage` and `billing`; attempts and reconciliations
  of `usage`.
* HTTP, JSON, SSE, the SDK of the upstream, hashing and ciphers: conversions
  without shared state. The fixture payment provider.
* Rows that are only switches to others: providers, names, metadata.
* The migration lock, and the order in which transactions take row locks.

## Plan

1. An abstract account (what a user was credited, charged and owes) that
   `Wallet` implements.
2. `Budget`: the two reads of `checkBudgets` against concurrent settlements.
3. `Outbox`: claims, stale claims, publication at least once. `Funding`: vouchers.
4. `Locks`: the order in which the transactions of `billing` take row locks.
