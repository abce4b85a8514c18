------------------------------ MODULE Payment ------------------------------
(***************************************************************************)
(* internal/payment: orders, the leased calls to the payment provider, the *)
(* events that come back by webhook or reconciliation, refunds from both   *)
(* sides, disputes, expiry and close, over the wallets of Wallet.          *)
(*                                                                         *)
(* A database transaction locks the order row first and is one action; a   *)
(* call to the provider is outside any transaction and is one action of    *)
(* its own between two of them, so a crash or a lease that runs out falls  *)
(* in between.  Time is abstract: a lease may run out and an order may be  *)
(* due at any moment.                                                      *)
(*                                                                         *)
(* The provider is external, with what the Stripe adapter lets through: it *)
(* honours the idempotency keys, its final states are final, and it may    *)
(* deliver what it knows at any time, in any order, any number of times.   *)
(* The identity of merchant and mode, and the currency, always match.      *)
(***************************************************************************)
EXTENDS Integers, Sequences, FiniteSetsExt

CONSTANTS
    Wallets, Requests, Credits, Orders, References, Amounts, MaxMinor,
    ExternalRefunds,   \* refunds made at the provider's console
    Disputes,          \* disputes of a charge
    MaxAttempts,       \* bound: claims of one provider operation
    KeyConflicts,      \* a second request under an idempotency key in use is
                       \* answered 409 rather than made to wait
    MaxActiveOrders    \* maximumActivePaymentOrdersPerUser

ASSUME ReferencesAssumption ==
    /\ References = ExternalRefunds \cup Disputes
    /\ ExternalRefunds \cap Disputes = {}
    /\ References \cap Orders = {}
    /\ MaxAttempts \in Nat
    /\ KeyConflicts \in BOOLEAN

\* What Wallet assumes of its constants.
ASSUME WalletAssumption ==
    /\ MaxMinor \in Nat
    /\ Amounts \subseteq 1..MaxMinor
    /\ Requests \cap (Credits \cup Orders) = {}
    /\ References \cap (Requests \cup Credits) = {}

VARIABLES
    wallet, reservation, settlement, liability, ledger,   \* see Wallet
    payment,      \* payment_orders
    operation,    \* payment_provider_operations: create and refund per order
    call,         \* provider calls in flight, each with its claim's token
    dispute,      \* payment_disputes: the event that set the status
    event,        \* payment_events with their processing status
    observed,     \* facts a reconciliation read and has yet to apply
    session,      \* provider: the checkout session of each order
    early,        \* provider: the second in which the session was created
                  \* began before created_at of the order
    key,          \* provider: the idempotency key of each operation
    refund,       \* provider: refunds by number
    chargeback    \* provider: disputes

walletVars == <<wallet, reservation, settlement, liability, ledger>>

providerVars == <<session, early, key, refund, chargeback>>

paymentVars == <<payment, operation, call, dispute, event, observed, providerVars>>

vars == <<walletVars, paymentVars>>

NoRow == [status |-> "none"]

\* The orders as Wallet knows them: where the recharge and the refund that
\* bablo started stand.  Refunds from outside reach the wallet as liabilities.
WalletOrders ==
    LET Stands(row) ==
          IF row.status = "refund_pending" THEN "refund_pending"
          ELSE IF ~row.held THEN "paid"
          ELSE IF row.status = "paid" THEN "refund_failed" ELSE "refunded"
    IN [o \in Orders |->
          IF payment[o].status \in {"paid", "refund_pending", "refunded"}
          THEN [status |-> Stands(payment[o]), wallet |-> payment[o].wallet,
                amount |-> payment[o].amount]
          ELSE NoRow]

W == INSTANCE Wallet WITH order <- WalletOrders

-----------------------------------------------------------------------------
(* Rows *)

OrderStatus == {"created", "pending", "paid", "failed", "expired", "closed",
                "refund_pending", "refunded"}

\* The refund that bablo asks for has one number for ever, by its idempotency
\* key: the order stands for it.
RefundNos == Orders \cup ExternalRefunds

NoRefund == "no_refund"

ASSUME NoRefundAssumption == NoRefund \notin RefundNos

\* trade: the checkout is stored and handed out.  held: refund_hold_ledger_id
\* is set.  failure: failure_class is set.
OrderRow ==
    [status : OrderStatus, wallet : Wallets, amount : Amounts,
     trade : BOOLEAN, refundNo : RefundNos \cup {NoRefund},
     held : BOOLEAN, failure : BOOLEAN, external : 0..MaxMinor]

OperationTypes == {"create", "refund"}

KeyStates == {"free", "executing", "contested", "overruled", "refused"}

OperationRow ==
    [status : {"pending", "processing", "retryable", "succeeded",
               "definitive_failed"},
     attempts : 0..MaxAttempts, lease : BOOLEAN]

NewOperation == [status |-> "pending", attempts |-> 0, lease |-> FALSE]

\* The owner token is unique per claim: the attempt stands for it.
Calls ==
    [order : Orders, type : OperationTypes, token : 1..MaxAttempts,
     answer : {"none", "ok", "rejected", "unknown"}]

\* "refund_pending" is EventPending with a refund number.
PaymentFactTypes == {"pending", "paid", "failed", "expired"}

RefundFactTypes == {"refund_pending", "refunded", "refund_failed"}

DisputeFactTypes == {"dispute_opened", "dispute_won", "dispute_lost"}

Facts ==
    [type : PaymentFactTypes, of : Orders]
      \cup [type : RefundFactTypes, of : RefundNos]
      \cup [type : DisputeFactTypes, of : Disputes]

Sources == {"webhook", "api"}

Events ==
    [source : Sources, fact : Facts, status : {"processed", "rejected"}]

Init ==
    /\ payment = [o \in Orders |-> NoRow]
    /\ W!Init
    /\ operation = [o \in Orders |-> [t \in OperationTypes |-> NoRow]]
    /\ call = {}
    /\ dispute = [d \in Disputes |-> "none"]
    /\ event = {}
    /\ observed = {}
    /\ session = [o \in Orders |-> "none"]
    /\ early = [o \in Orders |-> FALSE]
    /\ key = [o \in Orders |-> [t \in OperationTypes |-> "free"]]
    /\ refund = [n \in RefundNos |-> NoRow]
    /\ chargeback = [d \in Disputes |-> NoRow]

-----------------------------------------------------------------------------
(* Orders and their provider operations *)

Active(w) ==
    {o \in Orders : /\ payment[o].status \in {"created", "pending"}
                    /\ payment[o].wallet = w}

\* Repository.CreateOrder: the order and its operation in one transaction.
CreateOrder(o, w, amount) ==
    /\ payment[o] = NoRow
    /\ Cardinality(Active(w)) < MaxActiveOrders
    /\ payment' = [payment EXCEPT ![o] =
          [status |-> "created", wallet |-> w, amount |-> amount,
           trade |-> FALSE, refundNo |-> NoRefund, held |-> FALSE,
           failure |-> FALSE, external |-> 0]]
    /\ operation' = [operation EXCEPT ![o]["create"] = NewOperation]
    /\ UNCHANGED <<walletVars, call, dispute, event, observed, providerVars>>

Claimable(row) ==
    \/ row.status \in {"pending", "retryable"}
    \/ row.status = "processing" /\ ~row.lease

\* ClaimProviderOperation, for a request or for the recovery worker, which does
\* not look at the order.
ClaimProviderOperation(o, type) ==
    LET row == operation[o][type] IN
    /\ row # NoRow
    /\ Claimable(row)
    /\ row.attempts < MaxAttempts
    /\ operation' = [operation EXCEPT ![o][type] =
          [status |-> "processing", attempts |-> row.attempts + 1,
           lease |-> TRUE]]
    /\ call' = call \cup {[order |-> o, type |-> type,
                           token |-> row.attempts + 1, answer |-> "none"]}
    /\ UNCHANGED <<walletVars, payment, dispute, event, observed, providerVars>>

LeaseExpires(o, type) ==
    /\ operation[o][type].status = "processing"
    /\ operation[o][type].lease
    /\ operation' = [operation EXCEPT ![o][type].lease = FALSE]
    /\ UNCHANGED <<walletVars, payment, call, dispute, event, observed,
                   providerVars>>

\* The process dies in the middle of a provider call.  Like Lost, not in the
\* last attempt that MaxAttempts allows.
Crash(c) ==
    /\ c.token < MaxAttempts
    /\ call' = call \ {c}
    /\ UNCHANGED <<walletVars, payment, operation, dispute, event, observed,
                   providerVars>>

\* The trigger refuses an update whose updated_at is before that of the row, and
\* a caller reads its clock before it locks the row.  The transaction of its answer
\* is rolled back, as if the process had died before it.
RolledBack(c) == c.answer # "none" /\ Crash(c)

Answered(c, answer) ==
    call' = (call \ {c}) \cup {[c EXCEPT !.answer = answer]}

-----------------------------------------------------------------------------
(* The provider executes create and refund requests, one at a time under     *)
(* each idempotency key.                                                     *)

\* What the provider can still refund of order o.
Refundable(o) ==
    payment[o].amount
      - MapThenSumSet(LAMBDA n : refund[n].amount,
          {n \in RefundNos : /\ refund[n] # NoRow
                             /\ refund[n].order = o
                             /\ refund[n].status # "refund_failed"})

RefundMade(o, n, amount) ==
    refund' = [refund EXCEPT ![n] =
        [order |-> o, amount |-> amount, status |-> "refund_pending"]]

Made(o, type) ==
    IF type = "create" THEN session[o] # "none" ELSE refund[o] # NoRow

\* The session of an order, or the refund of all of it.
Make(o, type) ==
    \/ /\ type = "create"
       /\ session' = [session EXCEPT ![o] = "open"]
       /\ \E b \in BOOLEAN : early' = [early EXCEPT ![o] = b]
       /\ UNCHANGED refund
    \/ /\ type = "refund"
       /\ Refundable(o) >= payment[o].amount
       /\ RefundMade(o, o, payment[o].amount)
       /\ UNCHANGED <<session, early>>

\* A request under the key is being executed.  The key is contested once
\* another was answered 409, and overruled if the execution then succeeds.
InUse(o, type) == key[o][type] \in {"executing", "contested"}

Execute(o, type) ==
    /\ ~Made(o, type) /\ key[o][type] \notin {"refused", "overruled"}
    /\ key' = [key EXCEPT ![o][type] = IF @ = "contested" THEN "overruled" ELSE "free"]
    /\ Make(o, type)

Refuse(o, type) ==
    /\ ~Made(o, type)
    /\ key' = [key EXCEPT ![o][type] = "refused"]
    /\ UNCHANGED <<session, early, refund>>

Replay(o, type) == Made(o, type) /\ UNCHANGED <<session, early, key, refund>>

\* A timeout or a network error says nothing of what the provider did.  The last
\* attempt is not lost: MaxAttempts bounds the failures, not the patience of the
\* worker.
Lost(c) == IF c.token < MaxAttempts THEN {"unknown"} ELSE {}

\* Provider.CreateOrder or Provider.Refund, executed while the caller waits.
ProviderAnswers(c) ==
    /\ c.answer = "none"
    /\ ~InUse(c.order, c.type)
    /\ \/ /\ Execute(c.order, c.type) \/ Replay(c.order, c.type)
          /\ \E answer \in {"ok"} \cup Lost(c) : Answered(c, answer)
       \/ /\ Refuse(c.order, c.type)
          /\ \E answer \in {"rejected"} \cup Lost(c) : Answered(c, answer)
    /\ UNCHANGED <<walletVars, payment, operation, dispute, event, observed,
                   chargeback>>

\* The caller gives up on a request that the provider is still executing.
ProviderStalls(c) ==
    /\ c.answer = "none"
    /\ key[c.order][c.type] = "free" /\ ~Made(c.order, c.type)
    /\ key' = [key EXCEPT ![c.order][c.type] = "executing"]
    /\ \E answer \in Lost(c) : Answered(c, answer)
    /\ UNCHANGED <<walletVars, payment, operation, dispute, event, observed,
                   session, early, refund, chargeback>>

ProviderLands(o, type) ==
    /\ InUse(o, type)
    /\ Execute(o, type) \/ Refuse(o, type)
    /\ UNCHANGED <<walletVars, payment, operation, call, dispute, event,
                   observed, chargeback>>

\* mapStripeProviderError: 409 is ErrProviderRejected, like any refusal.
ProviderConflict(c) ==
    /\ KeyConflicts
    /\ c.answer = "none"
    /\ InUse(c.order, c.type)
    /\ key' = [key EXCEPT ![c.order][c.type] = "contested"]
    /\ Answered(c, "rejected")
    /\ UNCHANGED <<walletVars, payment, operation, dispute, event, observed,
                   session, early, refund, chargeback>>

-----------------------------------------------------------------------------
(* The answer reaches the order *)

Owner(c) ==
    LET row == operation[c.order][c.type] IN
    row.status = "processing" /\ row.attempts = c.token

CallEnds(c) ==
    /\ call' = call \ {c}
    /\ UNCHANGED <<dispute, event, observed, providerVars>>

\* Fault: the status of the order is not read again after the call.
CheckoutStoredWhatever(c) == Owner(c)

\* CompleteCreateOperation stores the checkout of an order that waits for it.
\* Only a paid order's operation is marked succeeded.
CheckoutStored(c) == Owner(c) /\ payment[c.order].status \in {"created", "pending"}

CompleteCreateOperation(c) ==
    LET o == c.order IN
    /\ c.type = "create" /\ c.answer = "ok"
    /\ CallEnds(c)
    /\ payment' = IF CheckoutStored(c)
                  THEN [payment EXCEPT ![o].status = "pending",
                                       ![o].trade = TRUE, ![o].failure = FALSE]
                  ELSE payment
    /\ operation' = IF Owner(c) /\ payment[o].status = "paid"
                    THEN [operation EXCEPT ![o]["create"].status = "succeeded",
                                           ![o]["create"].lease = FALSE]
                    ELSE operation
    /\ UNCHANGED walletVars

OperationFailed(c) ==
    operation' = [operation EXCEPT
        ![c.order][c.type].status =
            IF c.answer = "rejected" THEN "definitive_failed" ELSE "retryable",
        ![c.order][c.type].lease = FALSE]

\* FinishCreateOperation: a definitive rejection fails an order that still
\* waits for its checkout.
FinishCreateOperation(c) ==
    LET o == c.order IN
    /\ c.type = "create" /\ c.answer \in {"rejected", "unknown"}
    /\ CallEnds(c)
    /\ IF Owner(c) THEN OperationFailed(c) ELSE UNCHANGED operation
    /\ payment' = IF /\ Owner(c)
                     /\ c.answer = "rejected"
                     /\ payment[o].status = "created"
                  THEN [payment EXCEPT ![o].status = "failed",
                                       ![o].failure = TRUE]
                  ELSE payment
    /\ UNCHANGED walletVars

-----------------------------------------------------------------------------
(* Refunds that bablo starts *)

\* Service.Refund and PrepareRefund.  The total of external refunds was looked
\* at before, without a lock, and may have grown since: it is no guard here.
PrepareRefund(o) ==
    LET row == payment[o] IN
    /\ row.status = "paid"
    /\ row.refundNo = NoRefund /\ ~row.failure
    /\ W!HoldPaymentRefundInTx(o, row.wallet, row.amount)
    /\ payment' = [payment EXCEPT ![o].status = "refund_pending",
                                  ![o].held = TRUE]
    /\ operation' = [operation EXCEPT ![o]["refund"] = NewOperation]
    /\ UNCHANGED <<reservation, settlement, liability, call, dispute, event,
                   observed, providerVars>>

\* CompleteRefundOperation stores the refund number; no money moves.
CompleteRefundOperation(c) ==
    LET o == c.order
        stored == /\ Owner(c)
                  /\ payment[o].status \in {"refund_pending", "refunded"}
                  /\ payment[o].refundNo \in {NoRefund, o}
    IN
    /\ c.type = "refund" /\ c.answer = "ok"
    /\ CallEnds(c)
    /\ payment' = IF stored THEN [payment EXCEPT ![o].refundNo = o] ELSE payment
    /\ operation' = IF stored
                    THEN [operation EXCEPT ![o]["refund"].status = "succeeded",
                                           ![o]["refund"].lease = FALSE]
                    ELSE operation
    /\ UNCHANGED walletVars

\* Fault: a refund whose outcome is unknown gives the funds back.
RefundRefusedOrUnknown(c) ==
    LET row == payment[c.order] IN
    /\ Owner(c)
    /\ row.status = "refund_pending" /\ row.refundNo = NoRefund /\ row.held

\* FinishRefundOperation gives the funds back: the provider refused, and nothing
\* is known of a refund.
RefundRefused(c) ==
    LET row == payment[c.order] IN
    /\ Owner(c) /\ c.answer = "rejected"
    /\ row.status = "refund_pending" /\ row.refundNo = NoRefund /\ row.held

FinishRefundOperation(c) ==
    LET o == c.order IN
    /\ c.type = "refund" /\ c.answer \in {"rejected", "unknown"}
    /\ CallEnds(c)
    /\ \/ /\ RefundRefused(c)
          /\ W!ReleasePaymentRefundInTx(o, payment[o].wallet, payment[o].amount)
          /\ payment' = [payment EXCEPT ![o].status = "paid",
                                        ![o].failure = TRUE]
          /\ OperationFailed(c)
          /\ UNCHANGED <<reservation, settlement, liability>>
       \/ /\ ~RefundRefused(c)
          /\ IF Owner(c) /\ c.answer = "unknown" THEN OperationFailed(c)
             ELSE UNCHANGED operation
          /\ UNCHANGED <<walletVars, payment>>

-----------------------------------------------------------------------------
(* Expiry and close.  The session is closed at the provider first, the row    *)
(* is changed in a later transaction.                                         *)

\* Provider.Close of a session the customer has not completed.
CloseSession(o) ==
    /\ payment[o].status \in {"created", "pending", "failed", "expired"}
    /\ payment[o].trade
    /\ session[o] = "open"
    /\ session' = [session EXCEPT ![o] = "expired"]
    /\ UNCHANGED <<walletVars, payment, operation, call, dispute, event,
                   observed, early, key, refund, chargeback>>

\* Fault: the order is closed although the customer has completed the session.
SessionClosedOrComplete(o) == payment[o].trade /\ session[o] # "open"

\* Provider.Close returned without an error.
SessionClosed(o) == payment[o].trade /\ session[o] = "expired"

MarkExpired(o) ==
    /\ payment[o].status \in {"created", "pending"}
    /\ SessionClosed(o)
    /\ payment' = [payment EXCEPT ![o].status = "expired"]
    /\ UNCHANGED <<walletVars, operation, call, dispute, event, observed,
                   providerVars>>

MarkClosed(o) ==
    /\ payment[o].status \in {"created", "pending", "failed", "expired"}
    /\ SessionClosed(o)
    /\ payment' = [payment EXCEPT ![o].status = "closed"]
    /\ UNCHANGED <<walletVars, operation, call, dispute, event, observed,
                   providerVars>>

-----------------------------------------------------------------------------
(* What happens at the provider without bablo *)

ProviderMoves ==
    UNCHANGED <<walletVars, payment, operation, call, dispute, event, observed,
                early, key>>

SessionMoves(o, from, to) ==
    /\ session[o] = from
    /\ session' = [session EXCEPT ![o] = to]
    /\ ProviderMoves
    /\ UNCHANGED <<refund, chargeback>>

\* The customer has the checkout once it is stored, and completes it.
StartPayment(o) == SessionMoves(o, "open", "processing") /\ payment[o].trade

PaymentEnds(o) == \E s \in {"paid", "failed"} : SessionMoves(o, "processing", s)

SessionExpires(o) == SessionMoves(o, "open", "expired")

\* A refund made at the provider's console, of any part of the charge.
ExternalRefund(x, o, amount) ==
    /\ refund[x] = NoRow
    /\ session[o] = "paid"
    /\ amount <= Refundable(o)
    /\ RefundMade(o, x, amount)
    /\ ProviderMoves
    /\ UNCHANGED <<session, chargeback>>

RefundEnds(n) ==
    /\ refund[n].status = "refund_pending"
    /\ \E s \in {"refunded", "refund_failed"} :
          refund' = [refund EXCEPT ![n].status = s]
    /\ ProviderMoves
    /\ UNCHANGED <<session, chargeback>>

OpenDispute(d, o, amount) ==
    /\ chargeback[d] = NoRow
    /\ session[o] = "paid"
    /\ amount <= payment[o].amount
    /\ chargeback' = [chargeback EXCEPT ![d] =
          [order |-> o, amount |-> amount, status |-> "dispute_opened"]]
    /\ ProviderMoves
    /\ UNCHANGED <<session, refund>>

DisputeEnds(d) ==
    /\ chargeback[d].status = "dispute_opened"
    /\ \E s \in {"dispute_won", "dispute_lost"} :
          chargeback' = [chargeback EXCEPT ![d].status = s]
    /\ ProviderMoves
    /\ UNCHANGED <<session, refund>>

\* The facts the provider may tell, however late.
Tells(f) ==
    \/ /\ f.type = "pending"
       /\ session[f.of] \in {"processing", "paid", "failed"}
    \/ /\ f.type \in {"paid", "failed", "expired"}
       /\ session[f.of] = f.type
    \/ /\ f.type \in RefundFactTypes
       /\ refund[f.of].status = f.type \/ f.type = "refund_pending"
       /\ refund[f.of] # NoRow
    \/ /\ f.type \in DisputeFactTypes
       /\ chargeback[f.of].status = f.type \/ f.type = "dispute_opened"
       /\ chargeback[f.of] # NoRow

-----------------------------------------------------------------------------
(* Events: processAuthenticatedEvent and applyVerifiedEvent, in one           *)
(* transaction that locks the order.  If the trigger refuses its date nothing *)
(* happens: the provider delivers again, the worker asks again.               *)

\* loadOrderForVerifiedEvent: the adapter finds the order of every fact.
OrderOf(f) ==
    IF f.type \in RefundFactTypes THEN refund[f.of].order
    ELSE IF f.type \in DisputeFactTypes THEN chargeback[f.of].order ELSE f.of

AmountOf(f) ==
    IF f.type \in RefundFactTypes THEN refund[f.of].amount
    ELSE IF f.type \in DisputeFactTypes THEN chargeback[f.of].amount
    ELSE payment[f.of].amount

Credited(row) == row.status \in {"paid", "refund_pending", "refunded"}

\* bablo has never started a refund of this order.
TakesExternalRefund(row) == row.status = "paid" /\ ~row.held

\* Only a dispute or an external refund may be of a part of the order, and a
\* refund number that is known cannot change.
Mismatch(f) ==
    LET row == payment[OrderOf(f)] IN
    \/ /\ f.type \notin DisputeFactTypes
       /\ ~(f.type = "refunded" /\ TakesExternalRefund(row))
       /\ AmountOf(f) # row.amount
    \/ f.type \in RefundFactTypes /\ row.refundNo \notin {NoRefund, f.of}

\* The liability of an external refund is there: payment_external_refunds.
Accounted(n) == ~W!NewReference(n)

\* The event is accepted and changes nothing but its operation.
Settled(f) ==
    LET row == payment[OrderOf(f)] IN
    \/ f.type \in {"pending", "paid"} /\ row.status = "paid"
    \/ f.type \in {"failed", "expired", "refunded"} /\ row.status = f.type
    \/ /\ f.type = "refund_pending"
       /\ row.status # "refund_pending" \/ row.refundNo # NoRefund
    \/ f.type = "refunded" /\ TakesExternalRefund(row) /\ Accounted(f.of)
    \/ /\ f.type = "refund_failed" /\ row.status = "paid"
       /\ row.refundNo = f.of /\ row.failure
    \/ f.type = "dispute_opened" /\ dispute[f.of] # "none"
    \/ f.type \in DisputeFactTypes /\ dispute[f.of] = f.type

\* A reconciled payment is dated by the second its session was created, which
\* may have begun before the order: ErrWebhookMismatch.
DatedTooEarly(f, source) ==
    source = "api" /\ f.type = "paid" /\ early[f.of]

\* The event changes its order or dispute.
Applicable(f, source) ==
    LET row == payment[OrderOf(f)] IN
    \/ /\ f.type \in PaymentFactTypes
       /\ row.status \in {"created", "pending"}
       /\ ~DatedTooEarly(f, source)
    \/ f.type \in RefundFactTypes /\ row.status = "refund_pending"
    \/ /\ f.type = "refunded" /\ TakesExternalRefund(row)
       /\ row.external + AmountOf(f) <= row.amount
    \/ /\ f.type \in DisputeFactTypes /\ Credited(row)
       /\ dispute[f.of] \in {"none", "dispute_opened"}

OrderBecomes(o, row) ==
    /\ payment' = [payment EXCEPT ![o] = row]
    /\ UNCHANGED <<reservation, settlement, dispute>>

\* EventPending of a checkout, EventFailed, EventExpired: no money moves.
ApplyCheckout(f) ==
    LET o == f.of IN
    /\ f.type \in {"pending", "failed", "expired"}
    /\ OrderBecomes(o, [payment[o] EXCEPT !.status = f.type, !.trade = TRUE,
                                          !.failure = f.type = "failed"])
    /\ UNCHANGED <<wallet, liability, ledger>>

\* Fault: the recharge of an order that is paid again is posted again.
ApplyPaidUnkeyed(f) ==
    LET o == f.of row == payment[f.of] IN
    /\ f.type = "paid"
    /\ wallet' = [wallet EXCEPT ![row.wallet].available = @ + 2 * row.amount]
    /\ ledger' = ledger \cup {W!Row(row.wallet, "recharge", o, row.amount, 0)}
    /\ OrderBecomes(o, [row EXCEPT !.status = "paid", !.trade = TRUE,
                                   !.failure = FALSE])
    /\ UNCHANGED liability

\* Fault: the order is marked paid and its recharge is left out.
ApplyPaidUncredited(f) ==
    /\ f.type = "paid"
    /\ OrderBecomes(f.of, [payment[f.of] EXCEPT !.status = "paid"])
    /\ UNCHANGED <<wallet, liability, ledger>>

\* EventPaid: the recharge.
ApplyPaid(f) ==
    LET o == f.of row == payment[f.of] IN
    /\ f.type = "paid"
    /\ W!CreditInTx(row.wallet, "recharge", o, row.amount)
    /\ OrderBecomes(o, [row EXCEPT !.status = "paid", !.trade = TRUE,
                                   !.failure = FALSE])

KnownAs(row, n) == IF row.refundNo = NoRefund THEN n ELSE row.refundNo

\* Fault: the number of a refund under way is not stored.
ApplyRefundUnnumbered(f) ==
    LET o == OrderOf(f) IN
    /\ f.type = "refund_pending"
    /\ OrderBecomes(o, payment[o])
    /\ UNCHANGED <<wallet, liability, ledger>>

\* EventPending of a refund.
ApplyRefundPending(f) ==
    LET o == OrderOf(f) IN
    /\ f.type = "refund_pending"
    /\ OrderBecomes(o, [payment[o] EXCEPT !.refundNo = f.of])
    /\ UNCHANGED <<wallet, liability, ledger>>

\* EventRefunded of an order whose funds are held.
ApplyRefunded(f) ==
    LET o == OrderOf(f) row == payment[o] IN
    /\ f.type = "refunded" /\ row.status = "refund_pending"
    /\ W!CompletePaymentRefundInTx(o, row.wallet, row.amount)
    /\ OrderBecomes(o, [row EXCEPT !.status = "refunded", !.failure = FALSE,
                                   !.refundNo = KnownAs(row, f.of)])
    /\ UNCHANGED liability

\* EventRefundFailed gives the held funds back.
ApplyRefundFailed(f) ==
    LET o == OrderOf(f) row == payment[o] IN
    /\ f.type = "refund_failed"
    /\ W!ReleasePaymentRefundInTx(o, row.wallet, row.amount)
    /\ OrderBecomes(o, [row EXCEPT !.status = "paid", !.failure = TRUE,
                                   !.refundNo = KnownAs(row, f.of)])
    /\ UNCHANGED liability

\* Fault: the last external refund replaces the total.
ExternallyRefundedLast(row, amount) ==
    [row EXCEPT !.external = amount, !.failure = FALSE,
                !.status = IF amount = row.amount THEN "refunded" ELSE @]

ExternallyRefunded(row, amount) ==
    [row EXCEPT !.external = @ + amount, !.failure = FALSE,
                !.status = IF row.external + amount = row.amount
                           THEN "refunded" ELSE @]

applyExternalRefund(f) ==
    LET o == OrderOf(f) row == payment[o] IN
    /\ f.type = "refunded" /\ row.status = "paid"
    /\ W!OpenLiabilityInTx(f.of, row.wallet, AmountOf(f))
    /\ OrderBecomes(o, ExternallyRefunded(row, AmountOf(f)))

\* The place of the liability of reference ref among those of wallet w.
LiabilityOf(w, ref) == CHOOSE i \in 1..Len(liability[w]) : liability[w][i].ref = ref

\* Fault: a dispute first heard of as won leaves its liability.
DisputeEffectKeepsDebt(f, w) ==
    \/ /\ dispute[f.of] = "none"
       /\ W!OpenLiabilityInTx(f.of, w, AmountOf(f))
    \/ /\ dispute[f.of] = "dispute_opened" /\ f.type = "dispute_won"
       /\ W!ReverseLiabilityInTx(w, LiabilityOf(w, f.of))
    \/ /\ dispute[f.of] = "dispute_opened" /\ f.type = "dispute_lost"
       /\ UNCHANGED <<wallet, liability, ledger>>

\* Fault: a dispute that is won closes its liability and keeps what it took.
DisputeEffectKeepsFunds(f, w) ==
    \/ /\ dispute[f.of] = "none" /\ f.type # "dispute_won"
       /\ W!OpenLiabilityInTx(f.of, w, AmountOf(f))
    \/ /\ dispute[f.of] = "none" /\ f.type = "dispute_won"
       /\ W!OpenReversedInTx(f.of, w, AmountOf(f))
    \/ /\ dispute[f.of] = "dispute_opened"
       /\ liability' = [liability EXCEPT ![w][LiabilityOf(w, f.of)].status =
                          IF f.type = "dispute_won" THEN "reversed" ELSE @]
       /\ UNCHANGED <<wallet, ledger>>

DisputeEffect(f, w) ==
    \/ /\ dispute[f.of] = "none" /\ f.type # "dispute_won"
       /\ W!OpenLiabilityInTx(f.of, w, AmountOf(f))
    \/ /\ dispute[f.of] = "none" /\ f.type = "dispute_won"
       /\ W!OpenReversedInTx(f.of, w, AmountOf(f))
    \/ /\ dispute[f.of] = "dispute_opened" /\ f.type = "dispute_won"
       /\ W!ReverseLiabilityInTx(w, LiabilityOf(w, f.of))
    \/ /\ dispute[f.of] = "dispute_opened" /\ f.type = "dispute_lost"
       /\ UNCHANGED <<wallet, liability, ledger>>

applyDisputeEvent(f) ==
    /\ f.type \in DisputeFactTypes
    /\ DisputeEffect(f, payment[OrderOf(f)].wallet)
    /\ dispute' = [dispute EXCEPT ![f.of] = f.type]
    /\ UNCHANGED <<payment, reservation, settlement>>

Apply(f) ==
    \/ ApplyCheckout(f) \/ ApplyPaid(f)
    \/ ApplyRefundPending(f) \/ ApplyRefunded(f) \/ ApplyRefundFailed(f)
    \/ applyExternalRefund(f) \/ applyDisputeEvent(f)

OperationType(f) == IF f.type \in RefundFactTypes THEN "refund" ELSE "create"

\* completeProviderOperationFromEvent: ErrConflict if the provider refused the
\* operation, and the event is recorded as rejected, with what it changed.
Contradicted(f) ==
    /\ f.type \notin DisputeFactTypes
    /\ operation[OrderOf(f)][OperationType(f)].status = "definitive_failed"

completeProviderOperationFromEvent(f) ==
    LET o == OrderOf(f) type == OperationType(f) IN
    operation' =
      IF \/ f.type \in DisputeFactTypes
         \/ operation[o][type].status \in {"none", "definitive_failed"}
      THEN operation
      ELSE [operation EXCEPT ![o][type].status = "succeeded",
                             ![o][type].lease = FALSE]

Recorded(f, source, status) ==
    event' = event \cup {[source |-> source, fact |-> f, status |-> status]}

processAuthenticatedEvent(f, source) ==
    /\ \/ /\ Mismatch(f) \/ (~Settled(f) /\ ~Applicable(f, source))
          /\ Recorded(f, source, "rejected")
          /\ UNCHANGED <<walletVars, payment, operation, dispute>>
       \/ /\ ~Mismatch(f)
          /\ \/ Settled(f) /\ UNCHANGED <<walletVars, payment, dispute>>
             \/ ~Settled(f) /\ Applicable(f, source) /\ Apply(f)
          /\ completeProviderOperationFromEvent(f)
          /\ Recorded(f, source, IF Contradicted(f) THEN "rejected"
                                 ELSE "processed")
    /\ UNCHANGED <<call, observed, providerVars>>

\* HandleWebhook.  The provider may report one fact under several event ids.
HandleWebhook(f) == Tells(f) /\ processAuthenticatedEvent(f, "webhook")

\* ReconcileOrders asks the provider.  A refund made at the console does not
\* pass validStripeRefund; a pending answer is not stored.
Asked(o) ==
    {f \in [type : {"paid", "expired"}, of : {o}] : payment[o].status = "pending"}
      \cup {f \in [type : {"refunded", "refund_failed"}, of : {o}] :
              payment[o].status = "refund_pending" /\ payment[o].refundNo = o}

Reconcile(o) ==
    /\ payment[o] # NoRow /\ payment[o].trade
    /\ \E f \in Asked(o) : Tells(f) /\ observed' = observed \cup {f}
    /\ UNCHANGED <<walletVars, payment, operation, call, dispute, event,
                   providerVars>>

\* ProcessProviderState, later.  The event id is a digest of the fact, whose
\* date does not change: the second time is a replay.
ProcessProviderState(f) ==
    /\ f \in observed
    /\ ~\E e \in event : e.source = "api" /\ e.fact = f
    /\ processAuthenticatedEvent(f, "api")

-----------------------------------------------------------------------------

\* The other users of the wallets.
Elsewhere ==
    /\ UNCHANGED paymentVars
    /\ \/ W!UsageNext
       \/ \E c \in Credits, w \in Wallets, a \in Amounts \cup W!Debits :
             W!Credit(c, w, a)

OrderNext(o) ==
    \/ \E w \in Wallets, a \in Amounts : CreateOrder(o, w, a)
    \/ \E t \in OperationTypes :
          ClaimProviderOperation(o, t) \/ LeaseExpires(o, t)
    \/ PrepareRefund(o)
    \/ CloseSession(o) \/ MarkExpired(o) \/ MarkClosed(o)
    \/ Reconcile(o)

CallNext(c) ==
    \/ CompleteCreateOperation(c) \/ FinishCreateOperation(c)
    \/ CompleteRefundOperation(c) \/ FinishRefundOperation(c)
    \/ Crash(c) \/ RolledBack(c)

RequestNext ==
    \/ \E c \in call : ProviderAnswers(c) \/ ProviderStalls(c) \/ ProviderConflict(c)
    \/ \E o \in Orders, t \in OperationTypes : ProviderLands(o, t)

ProviderNext ==
    \/ \E o \in Orders : StartPayment(o) \/ PaymentEnds(o) \/ SessionExpires(o)
    \/ \E n \in RefundNos : RefundEnds(n)
    \/ \E d \in Disputes : DisputeEnds(d)
    \/ \E o \in Orders, a \in Amounts :
          \/ \E x \in ExternalRefunds : ExternalRefund(x, o, a)
          \/ \E d \in Disputes : OpenDispute(d, o, a)

EventNext ==
    \/ \E f \in Facts : HandleWebhook(f)
    \/ \E f \in observed : ProcessProviderState(f)

Next ==
    \/ Elsewhere
    \/ \E o \in Orders : OrderNext(o)
    \/ \E c \in call : CallNext(c)
    \/ RequestNext
    \/ ProviderNext
    \/ EventNext

Spec == Init /\ [][Next]_vars

\* The maintenance worker runs the claims, the reconciliation and the expiry of
\* every order, again and again; a provider call ends by its timeout; the
\* provider decides every payment and every refund it has accepted, and
\* delivers the end of a payment until the webhook takes it.
Fairness ==
    \A o \in Orders :
        /\ WF_vars(\E t \in OperationTypes : ClaimProviderOperation(o, t))
        /\ WF_vars(\E t \in OperationTypes : LeaseExpires(o, t))
        /\ WF_vars(\E t \in OperationTypes : ProviderLands(o, t))
        /\ WF_vars(\E c \in call : c.order = o /\ ProviderAnswers(c))
        /\ WF_vars(\E c \in call : c.order = o /\ CallNext(c) /\ ~Crash(c))
        /\ WF_vars(PaymentEnds(o) \/ RefundEnds(o))
        /\ WF_vars(/\ payment[o].status \in {"created", "pending"}
                   /\ CloseSession(o) \/ MarkExpired(o))
        /\ WF_vars(\/ Reconcile(o)
                   \/ \E f \in observed : ProcessProviderState(f) /\ OrderOf(f) = o)
        /\ WF_vars(\E t \in {"paid", "failed"} :
                      HandleWebhook([type |-> t, of |-> o]))

LiveSpec == Spec /\ Fairness

-----------------------------------------------------------------------------
(* Properties *)

\* Type correctness of the payment tables, the provider and the wallets.
PaymentTypeOK ==
    /\ W!TypeOK
    /\ payment \in [Orders -> OrderRow \cup {NoRow}]
    /\ operation \in [Orders -> [OperationTypes -> OperationRow \cup {NoRow}]]
    /\ call \subseteq Calls
    /\ dispute \in [Disputes -> DisputeFactTypes \cup {"none"}]
    /\ event \subseteq Events
    /\ observed \subseteq Facts
    /\ session \in [Orders -> {"none", "open", "processing", "paid", "failed",
                               "expired"}]
    /\ early \in [Orders -> BOOLEAN]
    /\ key \in [Orders -> [OperationTypes -> KeyStates]]

\* Every transaction of payment moves the wallets as an operation of Wallet
\* does, whatever order calls, events and refunds come in: what is proved of
\* Wallet holds here.
WalletSpec == W!Init /\ [][UNCHANGED W!vars \/ W!Next]_(W!vars)

\* Money is credited for a payment the provider has: the recharge of an order
\* is in the ledger exactly while its status says so, and the provider's
\* session is paid.
CreditedForMoney ==
    PaymentTypeOK /\ \A o \in Orders :
        /\ Credited(payment[o]) <=>
              \E row \in ledger : row.type = "recharge" /\ row.of = o
        /\ Credited(payment[o]) => session[o] = "paid"

\* No payment is dropped: an order whose session is paid is credited or still
\* open to the event; expiry, close and a failed create never overtake it.
PaidStaysOpen ==
    \A o \in Orders :
        session[o] = "paid" =>
           payment[o].status \in {"created", "pending"} \/ Credited(payment[o])

\* A paid event that came by webhook is never spent without the credit.
PaidWebhookCredits ==
    \A e \in event :
        e.source = "webhook" /\ e.fact.type = "paid" => Credited(payment[e.fact.of])

\* No payment is lost, neither to expiry, close or a failed create, nor to an
\* event that is spent without effect.
NoPaymentLost == PaidStaysOpen /\ PaidWebhookCredits

\* A paid state read from the provider's API is never spent without the credit.
ReconciledPaymentCredits ==
    \A e \in event :
        e.source = "api" /\ e.fact.type = "paid" => Credited(payment[e.fact.of])

\* The hold of the refund of o was released and the order is paid again.
Released(o) == payment[o].status = "paid" /\ payment[o].held

\* The provider is not making bablo's refund of o and never will.
NotMade(o) ==
    refund[o].status \in {"none", "refund_failed"} /\ ~InUse(o, "refund")

\* docs/adr/0003, acceptance: a refund that failed or whose outcome is unknown
\* does not release the held balance wrongly.
ReleasedOnlyIfNotMade == \A o \in Orders : Released(o) => NotMade(o)

\* What can mislead bablo about its refund of o: a retry was answered 409 while
\* the first request was still executing, or a refund made at the console was
\* taken for its own.
Misled(o) ==
    \/ key[o]["refund"] \in {"contested", "overruled"}
    \/ payment[o].refundNo \notin {NoRefund, o}

\* Across crashes, expired leases, lost answers and late events, the hold of a
\* refund is released under a refund that goes out only in the two cases of
\* Misled: FinishRefundOperation and EventRefundFailed have no other mistake.
ReleasedRefundIsNotMade ==
    \A o \in Orders : Released(o) => NotMade(o) \/ Misled(o)

\* What an order says was refunded at the console is what its liabilities
\* claim.
ExternalTotalExact ==
    \A o \in Orders :
        payment[o] # NoRow =>
          payment[o].external =
            MapThenSumSet(LAMBDA x : refund[x].amount,
              {x \in ExternalRefunds : /\ refund[x] # NoRow
                                       /\ refund[x].order = o
                                       /\ Accounted(x)})

Reversed(o) == \E row \in ledger : row.type = "payment_reversal" /\ row.of = o

\* payment_orders_terminal_fact_check, and more: an order is refunded either by
\* bablo's refund or by external ones, never both, and never beyond its amount.
RefundedOnce ==
    \A o \in Orders :
        /\ payment[o].status = "refunded" =>
              (Reversed(o) <=> payment[o].external # payment[o].amount)
        /\ payment[o] # NoRow =>
              (IF Reversed(o) THEN payment[o].amount ELSE 0) + payment[o].external
                <= payment[o].amount

\* Refunds from both sides, whole or in part, add up and are taken once,
\* whichever side and whichever event is first.
RefundsExact == ExternalTotalExact /\ RefundedOnce

\* Every refund that was made at the console and heard of is accounted for,
\* as a liability or by the hold of the order.
ExternalRefundAccounted ==
    \A x \in ExternalRefunds :
        (\E e \in event : e.fact = [type |-> "refunded", of |-> x]) =>
           Accounted(x) \/ Reversed(refund[x].order)

\* A dispute's liability stands unless the dispute was won, in whatever order
\* its events came.
DisputeMatchesLiability ==
    \A d \in Disputes :
        LET debts == UNION {{liability[w][i] : i \in 1..Len(liability[w])} :
                              w \in Wallets}
            own == {debt \in debts : debt.ref = d}
        IN
        /\ dispute[d] = "none" <=> own = {}
        /\ \A debt \in own :
              debt.status = "reversed" <=> dispute[d] = "dispute_won"

\* Once the checkout is stored nobody calls the provider to create it again.
NoCreateOnceStored ==
    \A c \in call :
        c.type = "create" /\ Owner(c) => ~payment[c.order].trade

\* The edges of bablo_validate_payment_order_transition.
AllowedTransitions ==
    {"created"} \X {"pending", "paid", "failed", "expired", "closed"}
      \cup {"pending"} \X {"paid", "failed", "expired", "closed"}
      \cup {"paid"} \X {"refund_pending", "refunded"}
      \cup {"refund_pending"} \X {"paid", "refunded"}
      \cup {"failed", "expired"} \X {"pending", "paid", "closed"}

\* The trigger of the database refuses an update for nothing but its date (see
\* RolledBack): whatever the code meets under the row lock, the status it writes
\* moves along the edges, and the refund number, the hold, the checkout and the
\* external total stay once they are assigned.
TransitionsAllowed ==
    [][\A o \in Orders :
          payment[o] # NoRow =>
            LET old == payment[o] new == payment'[o] IN
            /\ \/ new.status = old.status
               \/ <<old.status, new.status>> \in AllowedTransitions
            /\ old.refundNo \in {NoRefund, new.refundNo}
            /\ old.held => new.held
            /\ old.trade => new.trade
            /\ new.external >= old.external]_vars

\* No order waits on the provider for ever: its checkout is decided, and its
\* refund gives or takes the held funds.  With PaidStaysOpen, every payment is
\* credited in the end.
OrderDecided ==
    \A o \in Orders :
        payment[o].status \in {"created", "pending", "refund_pending"} ~>
           payment[o].status \notin {"created", "pending", "refund_pending"}
=============================================================================
