---------------------------- MODULE PaymentProofs ----------------------------
(* Theorems about Payment for every number of orders, wallets, refunds,        *)
(* disputes, provider calls and events in whatever order they come: every      *)
(* transaction of payment is one of billing, money is credited exactly for     *)
(* what the provider has, and no payment is lost.                              *)
EXTENDS Payment, FiniteSetTheorems, TLAPS

\* Wallet over the orders of payment, with what is proved of it.
B == INSTANCE WalletProofs WITH order <- WalletOrders

-----------------------------------------------------------------------------
(* The two instances of Wallet, that of Payment and that of its proofs, are    *)
(* the same: their operations are equivalent, definition by definition.        *)

\* The assumptions of Wallet hold here.
LEMMA WalletConstants == B!AmountsAssumption /\ B!IdsAssumption
BY WalletAssumption, ReferencesAssumption DEF B!AmountsAssumption, B!IdsAssumption

\* Reservations.
LEMMA SameReserve ==
    ASSUME NEW r, NEW w, NEW a
    PROVE  W!Reserve(r, w, a) <=> B!Reserve(r, w, a)
BY DEF W!Reserve, B!Reserve, W!NoRow, B!NoRow, W!insertLedger, B!insertLedger,
       W!Row, B!Row, W!safeAdd, B!safeAdd, W!Spendable, B!Spendable

\* Settlements that are paid.
LEMMA SameSettle ==
    ASSUME NEW r, NEW a
    PROVE  W!Settle(r, a) <=> B!Settle(r, a)
BY DEF W!Settle, B!Settle, W!Settleable, B!Settleable, W!NoRow, B!NoRow,
       W!SettleRows, B!SettleRows, W!UnusedRelease, B!UnusedRelease,
       W!UsageCharge, B!UsageCharge, W!HoldAfterSettle, B!HoldAfterSettle,
       W!ReservedAfterSettle, B!ReservedAfterSettle, W!Unused, B!Unused,
       W!Extra, B!Extra, W!Least, B!Least, W!insertLedger, B!insertLedger,
       W!safeAdd, B!safeAdd, W!Row, B!Row, W!Unsettled, B!Unsettled, W!Owes, B!Owes

\* Settlements that wait for funds.
LEMMA SameSettlePending ==
    ASSUME NEW r, NEW a
    PROVE  W!SettlePending(r, a) <=> B!SettlePending(r, a)
BY DEF W!SettlePending, B!SettlePending, W!Settleable, B!Settleable,
       W!NoRow, B!NoRow, W!Extra, B!Extra

\* Releases.
LEMMA SameRelease ==
    ASSUME NEW r
    PROVE  W!Release(r) <=> B!Release(r)
BY DEF W!Release, B!Release, W!Releasable, B!Releasable, W!insertLedger,
       B!insertLedger, W!safeAdd, B!safeAdd, W!Row, B!Row

\* Funding.
LEMMA SameCredit ==
    ASSUME NEW w, NEW type, NEW of, NEW a
    PROVE  W!CreditInTx(w, type, of, a) <=> B!CreditInTx(w, type, of, a)
BY DEF W!CreditInTx, B!CreditInTx, W!recoverWalletLiabilities,
       B!recoverWalletLiabilities, W!RecoveryRows, B!RecoveryRows, W!Recovered,
       B!Recovered, W!Repaid, B!Repaid, W!Drains, B!Drains, W!Outstanding,
       B!Outstanding, W!Unsettled, B!Unsettled, W!Owes, B!Owes, W!insertLedger,
       B!insertLedger, W!safeAdd, B!safeAdd, W!Least, B!Least, W!Row, B!Row

\* New liabilities.
LEMMA SameOpen ==
    ASSUME NEW ref, NEW w, NEW a
    PROVE  W!OpenLiabilityInTx(ref, w, a) <=> B!OpenLiabilityInTx(ref, w, a)
BY DEF W!OpenLiabilityInTx, B!OpenLiabilityInTx, W!NewReference, B!NewReference,
       W!insertLedger, B!insertLedger, W!Row, B!Row, W!Least, B!Least

\* Liabilities that are reversed.
LEMMA SameReverse ==
    ASSUME NEW w, NEW i
    PROVE  W!ReverseLiabilityInTx(w, i) <=> B!ReverseLiabilityInTx(w, i)
BY DEF W!ReverseLiabilityInTx, B!ReverseLiabilityInTx, W!ReturnRecovered,
       B!ReturnRecovered, W!recoverWalletLiabilities, B!recoverWalletLiabilities,
       W!RecoveryRows, B!RecoveryRows, W!Recovered, B!Recovered, W!Repaid,
       B!Repaid, W!Drains, B!Drains, W!Outstanding, B!Outstanding, W!Unsettled,
       B!Unsettled, W!Owes, B!Owes, W!insertLedger, B!insertLedger, W!safeAdd,
       B!safeAdd, W!Least, B!Least, W!Row, B!Row

\* Liabilities that are opened and reversed at once.
LEMMA SameOpenReversed ==
    ASSUME NEW ref, NEW w, NEW a
    PROVE  W!OpenReversedInTx(ref, w, a) <=> B!OpenReversedInTx(ref, w, a)
BY DEF W!OpenReversedInTx, B!OpenReversedInTx, W!NewReference, B!NewReference,
       W!ReturnRecovered, B!ReturnRecovered, W!recoverWalletLiabilities,
       B!recoverWalletLiabilities, W!RecoveryRows, B!RecoveryRows, W!Recovered,
       B!Recovered, W!Repaid, B!Repaid, W!Drains, B!Drains, W!Outstanding,
       B!Outstanding, W!Unsettled, B!Unsettled, W!Owes, B!Owes, W!insertLedger,
       B!insertLedger, W!safeAdd, B!safeAdd, W!Least, B!Least, W!Row, B!Row

\* The holds of refunds.
LEMMA SameRefunds ==
    ASSUME NEW o, NEW w, NEW a
    PROVE  /\ W!HoldPaymentRefundInTx(o, w, a) <=> B!HoldPaymentRefundInTx(o, w, a)
           /\ W!CompletePaymentRefundInTx(o, w, a) <=> B!CompletePaymentRefundInTx(o, w, a)
           /\ W!ReleasePaymentRefundInTx(o, w, a) <=> B!ReleasePaymentRefundInTx(o, w, a)
BY DEF W!HoldPaymentRefundInTx, B!HoldPaymentRefundInTx,
       W!CompletePaymentRefundInTx, B!CompletePaymentRefundInTx,
       W!ReleasePaymentRefundInTx, B!ReleasePaymentRefundInTx,
       W!insertLedger, B!insertLedger, W!safeAdd, B!safeAdd, W!Row, B!Row

\* Usage.
LEMMA SameUsage == W!UsageNext <=> B!UsageNext
BY SameReserve, SameSettle, SameSettlePending, SameRelease DEF W!UsageNext, B!UsageNext

\* Every step of billing.
LEMMA SameNext == W!Next <=> B!Next
<1>1. W!FundingNext <=> B!FundingNext
  BY SameCredit, SameOpen, SameReverse, SameOpenReversed
     DEF W!FundingNext, B!FundingNext, W!Credit, B!Credit, W!PayOrder, B!PayOrder,
         W!OpenLiability, B!OpenLiability, W!OpenReversed, B!OpenReversed,
         W!ReverseLiability, B!ReverseLiability, W!Debits, B!Debits, W!NoRow, B!NoRow
<1>2. W!RefundNext <=> B!RefundNext
  BY SameRefunds DEF W!RefundNext, B!RefundNext, W!HoldRefund, B!HoldRefund,
     W!CompleteRefund, B!CompleteRefund, W!ReleaseRefund, B!ReleaseRefund
<1>3. QED
  BY <1>1, <1>2, SameUsage DEF W!Next, B!Next

\* The initial states.
LEMMA SameInit == W!Init <=> B!Init
BY DEF W!Init, B!Init, W!NoRow, B!NoRow

-----------------------------------------------------------------------------
(* The inductive invariant: how the order, its two operations, their keys at   *)
(* the provider, its session, its refunds and its disputes depend on each      *)
(* other, in the order that crashes, leases and events leave possible.         *)

\* Refunds and disputes as the provider keeps them.
RefundRow == [order : Orders, amount : Amounts, status : RefundFactTypes]

\* The same of a dispute.
ChargebackRow == [order : Orders, amount : Amounts, status : DisputeFactTypes]

\* The types of the tables of payment and of the provider.
Tables ==
    /\ payment \in [Orders -> OrderRow \cup {NoRow}]
    /\ operation \in [Orders -> [OperationTypes -> OperationRow \cup {NoRow}]]
    /\ call \subseteq Calls
    /\ dispute \in [Disputes -> DisputeFactTypes \cup {"none"}]
    /\ event \subseteq Events
    /\ observed \subseteq Facts
    /\ session \in [Orders -> {"none", "open", "processing", "paid", "failed",
                               "expired"}]
    /\ early \in [Orders -> BOOLEAN]
    /\ key \in [Orders -> [OperationTypes -> KeyStates]]
    /\ refund \in [RefundNos -> RefundRow \cup {NoRow}]
    /\ chargeback \in [Disputes -> ChargebackRow \cup {NoRow}]

\* The row of an order agrees with itself: funds are only held for an order
\* that was paid, a refund under way holds them, and one that failed leaves its
\* mark, which forbids another.
RowSound(row) ==
    row # NoRow =>
      /\ row.held => Credited(row)
      /\ ~Credited(row) => row.external = 0
      /\ row.status = "refund_pending" => row.held
      /\ row.status = "paid" /\ row.held => row.failure
      /\ row.status = "created" => ~row.trade

\* The row and the session: nobody pays before the checkout is handed out, an
\* order that ended with a checkout has a session that ended without payment,
\* and what was credited is paid.
SessionSound(row, s) ==
    /\ s \in {"processing", "paid", "failed"} => row # NoRow /\ row.trade
    /\ s # "none" => row # NoRow
    /\ row.status \in {"failed", "expired", "closed"} /\ row.trade =>
          s \in {"failed", "expired"}
    /\ Credited(row) => s = "paid"

\* An order and its operations are created together; the refund operation comes
\* with the hold.
OperationSound(row, ops) ==
    /\ ops["create"] # NoRow => row # NoRow
    /\ ops["refund"] # NoRow => row # NoRow /\ row.held

\* An order agrees with itself, with its session and with its operations.
OrderLinked(o) ==
    /\ RowSound(payment[o])
    /\ SessionSound(payment[o], session[o])
    /\ OperationSound(payment[o], operation[o])

\* A request under the key was executed, or none is under way.
FreeKeys == {"free", "overruled"}

\* The provider has a request, or its result, only for an operation that was
\* claimed, and works on no request whose result it has.
KeyLinked(o) ==
    \A t \in OperationTypes :
        /\ key[o][t] \notin FreeKeys => operation[o][t] # NoRow /\ ~Made(o, t)
        /\ Made(o, t) => operation[o][t] # NoRow

\* A refund is of a session that was paid; the refund of bablo is of its order.
RefundLinked(n) ==
    refund[n] # NoRow =>
      /\ session[refund[n].order] = "paid"
      /\ n \in Orders => refund[n].order = n

\* A dispute is of a session that was paid, and one that bablo heard of has its
\* liability in the wallet of the order, reversed exactly if it was won.
DisputeLinked(d) ==
    /\ chargeback[d] # NoRow => session[chargeback[d].order] = "paid"
    /\ dispute[d] = "none" => B!NewReference(d)
    /\ dispute[d] # "none" =>
          /\ chargeback[d] # NoRow
          /\ LET w == payment[chargeback[d].order].wallet IN
             \E i \in 1..Len(liability[w]) :
                /\ liability[w][i].ref = d
                /\ liability[w][i].status = "reversed" <=> dispute[d] = "dispute_won"

\* A call in flight is one of an operation.
CallLinked(c) == operation[c.order][c.type] # NoRow

\* The ledger says of an order what its row says.
Posted(o) ==
    /\ Credited(payment[o]) <=>
          \E row \in ledger : row.type = "recharge" /\ row.of = o
    /\ Reversed(o) <=> payment[o].status = "refunded" /\ payment[o].held

\* What was observed is still what the provider would tell, and a paid event of
\* the webhook has its credit.
Links ==
    /\ \A o \in Orders : OrderLinked(o) /\ KeyLinked(o) /\ Posted(o)
    /\ \A n \in RefundNos : RefundLinked(n)
    /\ \A d \in Disputes : DisputeLinked(d)
    /\ \A c \in call : CallLinked(c)
    /\ \A f \in observed : Tells(f)
    /\ PaidWebhookCredits

\* The inductive invariant of payment, over that of the wallets.
PaymentInv == B!BooksInv /\ Tables /\ Links

-----------------------------------------------------------------------------
(* What every step keeps *)

\* Where an order stands for its wallet.
Standing(row) ==
    IF Credited(row)
    THEN [status |-> IF row.status = "refund_pending" THEN "refund_pending"
                     ELSE IF ~row.held THEN "paid"
                     ELSE IF row.status = "paid" THEN "refund_failed" ELSE "refunded",
          wallet |-> row.wallet, amount |-> row.amount]
    ELSE NoRow

\* WalletOrders, order by order.
LEMMA WalletOrdersStand ==
    /\ WalletOrders = [o \in Orders |-> Standing(payment[o])]
    /\ WalletOrders' = [o \in Orders |-> Standing(payment'[o])]
BY DEF WalletOrders, Standing, Credited

\* What the trigger of payment_orders allows, and more: TransitionsAllowed of one
\* row.
Transition(old, new) ==
    /\ \/ new.status = old.status
       \/ <<old.status, new.status>> \in AllowedTransitions
    /\ old.refundNo \in {NoRefund, new.refundNo}
    /\ old.held => new.held
    /\ old.trade => new.trade
    /\ new.external >= old.external

\* An order keeps its wallet and amount; a credit and a hold stay.
OrdersAdvance ==
    \A o \in Orders :
        payment[o] # NoRow =>
          /\ payment'[o] # NoRow
          /\ payment'[o].wallet = payment[o].wallet
          /\ payment'[o].amount = payment[o].amount
          /\ Credited(payment[o]) => Credited(payment'[o])
          /\ payment[o].held => payment'[o].held
          /\ Transition(payment[o], payment'[o])

\* An operation that exists stays.
OperationsAdvance ==
    \A o \in Orders, t \in OperationTypes :
        operation[o][t] # NoRow => operation'[o][t] # NoRow

\* The final states of sessions, refunds and disputes are final.
SessionsAdvance ==
    \A o \in Orders :
        /\ session[o] \in {"paid", "failed", "expired"} => session'[o] = session[o]
        /\ session[o] = "processing" => session'[o] \in {"processing", "paid", "failed"}

\* A refund keeps its order and amount, and its result.
RefundsAdvance ==
    \A n \in RefundNos :
        refund[n] # NoRow =>
          /\ refund'[n] # NoRow
          /\ refund'[n].order = refund[n].order
          /\ refund'[n].amount = refund[n].amount
          /\ refund[n].status # "refund_pending" => refund'[n].status = refund[n].status

\* A dispute keeps its order and amount, and its outcome.
ChargebacksAdvance ==
    \A d \in Disputes :
        chargeback[d] # NoRow =>
          /\ chargeback'[d] # NoRow
          /\ chargeback'[d].order = chargeback[d].order
          /\ chargeback'[d].amount = chargeback[d].amount
          /\ chargeback[d].status # "dispute_opened" =>
                chargeback'[d].status = chargeback[d].status

\* What no step of the provider undoes.
ProviderAdvances == SessionsAdvance /\ RefundsAdvance /\ ChargebacksAdvance

\* A provider that does nothing advances.
LEMMA ProviderStill == UNCHANGED providerVars => ProviderAdvances
BY DEF providerVars, ProviderAdvances, SessionsAdvance, RefundsAdvance, ChargebacksAdvance

\* A fact names an order, a refund or a dispute.
LEMMA FactSubject ==
    ASSUME NEW f \in Facts
    PROVE  /\ f.type \in PaymentFactTypes \cup RefundFactTypes \cup DisputeFactTypes
           /\ f.type \in PaymentFactTypes => f.of \in Orders
           /\ f.type \in RefundFactTypes => f.of \in RefundNos
           /\ f.type \in DisputeFactTypes => f.of \in Disputes
BY DEF Facts, PaymentFactTypes, RefundFactTypes, DisputeFactTypes

\* What the provider tells it would tell for ever.
LEMMA TellsKept ==
    ASSUME ProviderAdvances, NEW f \in Facts, Tells(f)
    PROVE  Tells(f)'
<1>1. CASE f.type \in PaymentFactTypes
  <2>1. f.of \in Orders
    BY <1>1, FactSubject
  <2>2. /\ session[f.of] \in {"paid", "failed", "expired"} => session'[f.of] = session[f.of]
        /\ session[f.of] = "processing" => session'[f.of] \in {"processing", "paid", "failed"}
    BY <2>1 DEF ProviderAdvances, SessionsAdvance
  <2>3. QED
    BY <1>1, <2>2 DEF Tells, PaymentFactTypes, RefundFactTypes, DisputeFactTypes
<1>2. CASE f.type \in RefundFactTypes
  <2>1. f.of \in RefundNos /\ refund[f.of] # NoRow
        /\ (refund[f.of].status = f.type \/ f.type = "refund_pending")
    BY <1>2, FactSubject DEF Tells, RefundFactTypes, DisputeFactTypes
  <2>2. refund'[f.of] # NoRow
        /\ (refund[f.of].status # "refund_pending" => refund'[f.of].status = refund[f.of].status)
    BY <2>1 DEF ProviderAdvances, RefundsAdvance
  <2>3. QED
    BY <1>2, <2>1, <2>2 DEF Tells
<1>3. CASE f.type \in DisputeFactTypes
  <2>1. f.of \in Disputes /\ chargeback[f.of] # NoRow
        /\ (chargeback[f.of].status = f.type \/ f.type = "dispute_opened")
    BY <1>3, FactSubject DEF Tells, RefundFactTypes, DisputeFactTypes
  <2>2. chargeback'[f.of] # NoRow
        /\ (chargeback[f.of].status # "dispute_opened" =>
              chargeback'[f.of].status = chargeback[f.of].status)
    BY <2>1 DEF ProviderAdvances, ChargebacksAdvance
  <2>3. QED
    BY <1>3, <2>1, <2>2 DEF Tells
<1>4. QED
  BY <1>1, <1>2, <1>3, FactSubject

\* Reference d has the liability it had, as it was.
RefKept(d) ==
    \A v \in Wallets :
        /\ \A i \in 1..Len(liability[v]) :
              liability[v][i].ref = d =>
                /\ i \in 1..Len(liability'[v])
                /\ liability'[v][i].ref = d
                /\ liability'[v][i].status = "reversed" <=>
                     liability[v][i].status = "reversed"
        /\ \A i \in 1..Len(liability'[v]) :
              liability'[v][i].ref = d =>
                 i \in 1..Len(liability[v]) /\ liability[v][i].ref = d

\* What bablo knows of a dispute it heard nothing new of.
LEMMA DisputeKept ==
    ASSUME PaymentInv, OrdersAdvance, SessionsAdvance, ChargebacksAdvance,
           NEW d \in Disputes, RefKept(d), dispute'[d] = dispute[d],
           chargeback[d] # NoRow \/ chargeback'[d] = NoRow
              \/ session'[chargeback'[d].order] = "paid"
    PROVE  DisputeLinked(d)'
<1>1. DisputeLinked(d)
  BY DEF PaymentInv, Links
<1>2. ASSUME chargeback[d] # NoRow
      PROVE  /\ chargeback'[d] # NoRow
             /\ chargeback'[d].order = chargeback[d].order
             /\ chargeback[d].order \in Orders
             /\ session[chargeback[d].order] = "paid"
             /\ session'[chargeback[d].order] = "paid"
             /\ payment'[chargeback[d].order].wallet = payment[chargeback[d].order].wallet
             /\ payment[chargeback[d].order].wallet \in Wallets
  <2>1. chargeback[d] \in ChargebackRow
    BY <1>2 DEF PaymentInv, Tables
  <2>2. PICK o \in Orders : o = chargeback[d].order /\ session[o] = "paid"
    BY <1>1, <1>2, <2>1 DEF ChargebackRow, DisputeLinked
  <2>3. payment[o] # NoRow
    BY <2>2 DEF PaymentInv, Links, OrderLinked, SessionSound
  <2>4. payment[o] \in OrderRow
    BY <2>3 DEF PaymentInv, Tables
  <2>5. QED
    BY <1>2, <2>2, <2>3, <2>4 DEF ChargebacksAdvance, SessionsAdvance, OrdersAdvance, OrderRow
<1>3. chargeback'[d] # NoRow => session'[chargeback'[d].order] = "paid"
  BY <1>2
<1>4. dispute[d] = "none" => B!NewReference(d)'
  BY <1>1 DEF DisputeLinked, B!NewReference, RefKept
<1>5. ASSUME dispute[d] # "none"
      PROVE  /\ chargeback'[d] # NoRow
             /\ LET w == payment'[chargeback'[d].order].wallet IN
                \E i \in 1..Len(liability'[w]) :
                  /\ liability'[w][i].ref = d
                  /\ liability'[w][i].status = "reversed" <=> dispute'[d] = "dispute_won"
  <2>1. chargeback[d] # NoRow
    BY <1>1, <1>5 DEF DisputeLinked
  <2>2. PICK w \in Wallets : w = payment[chargeback[d].order].wallet
                             /\ w = payment'[chargeback'[d].order].wallet
    BY <1>2, <2>1
  <2>3. PICK i \in 1..Len(liability[w]) :
            /\ liability[w][i].ref = d
            /\ liability[w][i].status = "reversed" <=> dispute[d] = "dispute_won"
    BY <1>1, <1>5, <2>2 DEF DisputeLinked
  <2>4. /\ i \in 1..Len(liability'[w]) /\ liability'[w][i].ref = d
        /\ liability'[w][i].status = "reversed" <=> liability[w][i].status = "reversed"
    BY <2>3 DEF RefKept
  <2>5. QED
    BY <1>2, <2>1, <2>2, <2>3, <2>4
<1>6. QED
  BY <1>3, <1>4, <1>5 DEF DisputeLinked

\* A refund that was there is linked to the same order.
LEMMA RefundKept ==
    ASSUME PaymentInv, SessionsAdvance, RefundsAdvance, NEW n \in RefundNos,
           refund[n] # NoRow
    PROVE  RefundLinked(n)'
<1>1. refund[n] \in RefundRow /\ RefundLinked(n)
  BY DEF PaymentInv, Tables, Links
<1>2. PICK o \in Orders : o = refund[n].order /\ session[o] = "paid"
  BY <1>1 DEF RefundLinked, RefundRow
<1>3. session'[o] = "paid" /\ refund'[n].order = o
  BY <1>2 DEF SessionsAdvance, RefundsAdvance
<1>4. QED
  BY <1>1, <1>2, <1>3 DEF RefundLinked

\* The part of the invariant that a transaction of payment may disturb through
\* the orders, the disputes and the wallets.
Moves ==
    /\ [B!Next]_(B!vars)
    /\ payment' \in [Orders -> OrderRow \cup {NoRow}]
    /\ dispute' \in [Disputes -> DisputeFactTypes \cup {"none"}]
    /\ OrdersAdvance
    /\ \A o \in Orders : RowSound(payment'[o]) /\ SessionSound(payment'[o], session[o])
    /\ \A o \in Orders : Posted(o)'
    /\ \A d \in Disputes : DisputeLinked(d)'

\* A transaction of payment, or an answer it observes, part by part.
LEMMA TransactionSound ==
    ASSUME PaymentInv, Moves, UNCHANGED providerVars,
           operation' \in [Orders -> [OperationTypes -> OperationRow \cup {NoRow}]],
           OperationsAdvance,
           \A o \in Orders : OperationSound(payment'[o], operation'[o]),
           call' \subseteq Calls,
           \A c \in call' \ call : CallLinked(c)',
           observed' \subseteq Facts,
           \A f \in observed' \ observed : Tells(f),
           event' \subseteq Events,
           \A e \in event' \ event :
              e.source = "webhook" /\ e.fact.type = "paid" => Credited(payment'[e.fact.of])
    PROVE  PaymentInv'
<1>1. B!BooksInv'
  BY WalletConstants, B!BooksInvNext DEF PaymentInv, Moves
<1>2. Tables'
  BY DEF PaymentInv, Tables, Moves, providerVars
<1>3. ProviderAdvances
  BY ProviderStill
<1>4. \A o \in Orders : OrderLinked(o)'
  BY DEF Moves, OrderLinked, providerVars
<1>5. ASSUME NEW o \in Orders PROVE KeyLinked(o)'
  <2>1. KeyLinked(o)
    BY DEF PaymentInv, Links
  <2>2. \A t \in OperationTypes : operation[o][t] # NoRow => operation'[o][t] # NoRow
    BY DEF OperationsAdvance
  <2>3. key' = key /\ session' = session /\ refund' = refund
    BY DEF providerVars
  <2>4. QED
    BY <2>1, <2>2, <2>3 DEF KeyLinked, Made
<1>6. \A n \in RefundNos : RefundLinked(n)'
  BY DEF PaymentInv, Links, RefundLinked, providerVars
<1>7. ASSUME NEW c \in call' PROVE CallLinked(c)'
  <2>1. CASE c \in call
    <3>1. CallLinked(c) /\ c.order \in Orders /\ c.type \in OperationTypes
      BY <2>1 DEF PaymentInv, Links, Tables, Calls
    <3>2. QED
      BY <3>1 DEF CallLinked, OperationsAdvance
  <2>2. QED
    BY <2>1
<1>8. ASSUME NEW f \in observed' PROVE Tells(f)'
  <2>1. Tells(f) /\ f \in Facts
    BY DEF PaymentInv, Links
  <2>2. QED
    BY <1>3, <2>1, TellsKept
<1>9. PaidWebhookCredits'
  <2>1. ASSUME NEW e \in event', e.source = "webhook", e.fact.type = "paid"
        PROVE  Credited(payment'[e.fact.of])
    <3>1. CASE e \in event
      <4>1. Credited(payment[e.fact.of])
        BY <2>1, <3>1 DEF PaymentInv, Links, PaidWebhookCredits
      <4>2. e.fact \in Facts
        BY DEF Events
      <4>3. e.fact.of \in Orders
        BY <2>1, <4>2, FactSubject DEF PaymentFactTypes
      <4>4. payment[e.fact.of] # NoRow
        BY <4>1 DEF Credited, NoRow
      <4>5. QED
        BY <4>1, <4>3, <4>4 DEF Moves, OrdersAdvance
    <3>2. QED
      BY <2>1, <3>1
  <2>2. QED
    BY <2>1 DEF PaidWebhookCredits, Credited
<1>10. QED
  BY <1>1, <1>2, <1>4, <1>5, <1>6, <1>7, <1>8, <1>9 DEF PaymentInv, Links, Moves

\* A wallet step that leaves the wallets, and what the orders are for them.
LEMMA WalletsStill ==
    ASSUME UNCHANGED walletVars, \A o \in Orders : Standing(payment'[o]) = Standing(payment[o])
    PROVE  /\ UNCHANGED B!vars
           /\ \A d \in Disputes : RefKept(d)
<1>1. WalletOrders' = WalletOrders
  BY WalletOrdersStand
<1>2. UNCHANGED B!vars
  BY <1>1 DEF walletVars, B!vars
<1>3. \A d \in Disputes : RefKept(d)
  BY DEF walletVars, RefKept
<1>4. QED
  BY <1>2, <1>3

\* What the ledger says of an order that stands where it stood.
LEMMA PostedKept ==
    ASSUME PaymentInv, NEW o \in Orders,
           Standing(payment'[o]) = Standing(payment[o]),
           B!PostsOnly(B!EntryTypes \ {"recharge", "payment_reversal"})
    PROVE  Posted(o)'
<1>1. Posted(o)
  BY DEF PaymentInv, Links
<1>2. \A t \in {"recharge", "payment_reversal"} :
         (\E row \in ledger' : row.type = t /\ row.of = o) <=>
         (\E row \in ledger : row.type = t /\ row.of = o)
  BY DEF B!PostsOnly
<1>3. \A row : /\ Credited(row) <=> Standing(row) # NoRow
               /\ row.status = "refunded" /\ row.held <=> Standing(row).status = "refunded"
  BY DEF Standing, Credited, NoRow
<1>4. QED
  BY <1>1, <1>2, <1>3 DEF Posted, Reversed

-----------------------------------------------------------------------------
(* Transactions that move an order and no money *)

\* The row of order o becomes new; the other orders stay.
LEMMA OneOrder ==
    ASSUME PaymentInv, NEW o \in Orders, NEW new \in OrderRow,
           payment' = [payment EXCEPT ![o] = new]
    PROVE  /\ payment' \in [Orders -> OrderRow \cup {NoRow}]
           /\ payment'[o] = new
           /\ \A p \in Orders \ {o} : payment'[p] = payment[p]
BY DEF PaymentInv, Tables

\* A row is not the absence of one.
LEMMA RowThere ==
    ASSUME NEW row \in OrderRow
    PROVE  row # NoRow /\ row.status # "none"
<1>1. row.status # "none"
  BY DEF OrderRow, OrderStatus
<1>2. QED
  BY <1>1 DEF NoRow

\* The row of an order that has a status.
LEMMA RowOf ==
    ASSUME PaymentInv, NEW o \in Orders, payment[o] # NoRow \/ payment[o].status # "none"
    PROVE  payment[o] \in OrderRow /\ payment[o] # NoRow
BY DEF PaymentInv, Tables, NoRow

\* A row may stay as it is.
LEMMA RowStays ==
    ASSUME PaymentInv, NEW o \in Orders, payment[o] # NoRow
    PROVE  Transition(payment[o], payment[o])
<1>1. payment[o].external \in 0..MaxMinor
  BY RowOf DEF OrderRow
<1>2. payment[o].external >= payment[o].external
  BY <1>1
<1>3. QED
  BY <1>2 DEF Transition

\* The old row allows the new one.
RowAdvances(old, new) ==
    old # NoRow =>
      /\ new.wallet = old.wallet /\ new.amount = old.amount
      /\ Credited(old) => Credited(new)
      /\ old.held => new.held
      /\ Transition(old, new)

\* One order moves along.
LEMMA OneOrderAdvances ==
    ASSUME PaymentInv, NEW o \in Orders, NEW new \in OrderRow,
           payment' = [payment EXCEPT ![o] = new], RowAdvances(payment[o], new),
           RowSound(new), SessionSound(new, session[o])
    PROVE  /\ payment' \in [Orders -> OrderRow \cup {NoRow}]
           /\ OrdersAdvance
           /\ \A p \in Orders :
                RowSound(payment'[p]) /\ SessionSound(payment'[p], session[p])
<1>1. /\ payment' \in [Orders -> OrderRow \cup {NoRow}]
      /\ payment'[o] = new
      /\ \A p \in Orders \ {o} : payment'[p] = payment[p]
  BY OneOrder
<1>2. new # NoRow
  BY RowThere
<1>3. ASSUME NEW p \in Orders, payment[p] # NoRow
      PROVE  /\ payment'[p] # NoRow
             /\ payment'[p].wallet = payment[p].wallet
             /\ payment'[p].amount = payment[p].amount
             /\ Credited(payment[p]) => Credited(payment'[p])
             /\ payment[p].held => payment'[p].held
             /\ Transition(payment[p], payment'[p])
  <2>1. CASE p = o
    BY <1>1, <1>2, <1>3, <2>1 DEF RowAdvances
  <2>2. CASE p # o
    <3>1. payment'[p] = payment[p]
      BY <1>1, <2>2
    <3>2. Transition(payment[p], payment[p])
      BY <1>3, RowStays
    <3>3. QED
      BY <1>3, <3>1, <3>2
  <2>3. QED
    BY <2>1, <2>2
<1>4. ASSUME NEW p \in Orders
      PROVE  RowSound(payment'[p]) /\ SessionSound(payment'[p], session[p])
  <2>1. CASE p = o
    BY <1>1, <2>1
  <2>2. CASE p # o
    <3>1. RowSound(payment[p]) /\ SessionSound(payment[p], session[p])
      BY DEF PaymentInv, Links, OrderLinked
    <3>2. payment'[p] = payment[p]
      BY <1>1, <2>2
    <3>3. QED
      BY <3>1, <3>2
  <2>3. QED
    BY <2>1, <2>2
<1>5. QED
  BY <1>1, <1>3, <1>4 DEF OrdersAdvance

\* An order moves and its wallet does not.
LEMMA OrderMoves ==
    ASSUME PaymentInv, NEW o \in Orders, NEW new \in OrderRow,
           payment' = [payment EXCEPT ![o] = new], RowAdvances(payment[o], new),
           RowSound(new), SessionSound(new, session[o]),
           Standing(new) = Standing(payment[o]),
           UNCHANGED walletVars, UNCHANGED dispute, UNCHANGED providerVars
    PROVE  Moves
<1>1. /\ payment' \in [Orders -> OrderRow \cup {NoRow}]
      /\ OrdersAdvance
      /\ \A p \in Orders :
           RowSound(payment'[p]) /\ SessionSound(payment'[p], session[p])
  BY OneOrderAdvances
<1>2. ASSUME NEW p \in Orders PROVE Standing(payment'[p]) = Standing(payment[p])
  <2>1. payment'[o] = new /\ \A q \in Orders \ {o} : payment'[q] = payment[q]
    BY OneOrder
  <2>2. CASE p = o
    BY <2>1, <2>2
  <2>3. CASE p # o
    <3>1. payment'[p] = payment[p]
      BY <2>1, <2>3
    <3>2. QED
      BY <3>1
  <2>4. QED
    BY <2>2, <2>3
<1>3. UNCHANGED B!vars /\ \A d \in Disputes : RefKept(d)
  BY <1>2, WalletsStill
<1>4. B!PostsOnly(B!EntryTypes \ {"recharge", "payment_reversal"})
  BY DEF walletVars, B!PostsOnly
<1>5. \A p \in Orders : Posted(p)'
  BY <1>2, <1>4, PostedKept
<1>6. SessionsAdvance /\ ChargebacksAdvance
  BY ProviderStill DEF ProviderAdvances
<1>7. ASSUME NEW d \in Disputes PROVE DisputeLinked(d)'
  <2>1. dispute'[d] = dispute[d] /\ chargeback'[d] = chargeback[d]
    BY DEF providerVars
  <2>2. chargeback[d] # NoRow \/ chargeback'[d] = NoRow
    BY <2>1
  <2>3. RefKept(d)
    BY <1>3
  <2>4. QED
    BY <1>1, <1>6, <2>1, <2>2, <2>3, DisputeKept
<1>8. dispute' \in [Disputes -> DisputeFactTypes \cup {"none"}]
  BY DEF PaymentInv, Tables
<1>9. QED
  BY <1>1, <1>3, <1>5, <1>7, <1>8 DEF Moves

\* No order moves at all.
LEMMA NothingMoves ==
    ASSUME PaymentInv, UNCHANGED walletVars, UNCHANGED payment, UNCHANGED dispute,
           UNCHANGED providerVars
    PROVE  Moves
<1>1. payment' = payment
  OBVIOUS
<1>2. \A p \in Orders : Standing(payment'[p]) = Standing(payment[p])
  BY <1>1
<1>3. UNCHANGED B!vars /\ \A d \in Disputes : RefKept(d)
  BY <1>2, WalletsStill
<1>4. B!PostsOnly(B!EntryTypes \ {"recharge", "payment_reversal"})
  BY DEF walletVars, B!PostsOnly
<1>5. \A p \in Orders : Posted(p)'
  BY <1>2, <1>4, PostedKept
<1>6. SessionsAdvance /\ ChargebacksAdvance
  BY ProviderStill DEF ProviderAdvances
<1>7. OrdersAdvance
  BY <1>1, RowStays DEF OrdersAdvance
<1>8. ASSUME NEW d \in Disputes PROVE DisputeLinked(d)'
  <2>1. dispute'[d] = dispute[d] /\ chargeback'[d] = chargeback[d]
    BY DEF providerVars
  <2>2. chargeback[d] # NoRow \/ chargeback'[d] = NoRow
    BY <2>1
  <2>3. RefKept(d)
    BY <1>3
  <2>4. QED
    BY <1>6, <1>7, <2>1, <2>2, <2>3, DisputeKept
<1>9. /\ payment' \in [Orders -> OrderRow \cup {NoRow}]
      /\ dispute' \in [Disputes -> DisputeFactTypes \cup {"none"}]
  BY DEF PaymentInv, Tables
<1>10. \A p \in Orders : RowSound(payment'[p]) /\ SessionSound(payment'[p], session[p])
  BY <1>1 DEF PaymentInv, Links, OrderLinked
<1>11. QED
  BY <1>3, <1>5, <1>7, <1>8, <1>9, <1>10 DEF Moves

\* One operation changes, or comes to be.
LEMMA OneOperation ==
    ASSUME PaymentInv, NEW o \in Orders, NEW t \in OperationTypes,
           NEW new \in OperationRow, operation' = [operation EXCEPT ![o][t] = new]
    PROVE  /\ operation' \in [Orders -> [OperationTypes -> OperationRow \cup {NoRow}]]
           /\ OperationsAdvance
           /\ operation'[o][t] # NoRow
           /\ \A p \in Orders, u \in OperationTypes :
                p # o \/ u # t => operation'[p][u] = operation[p][u]
<1>1. operation \in [Orders -> [OperationTypes -> OperationRow \cup {NoRow}]]
  BY DEF PaymentInv, Tables
<1>2. new # NoRow
  BY DEF OperationRow, NoRow
<1>3. /\ operation' \in [Orders -> [OperationTypes -> OperationRow \cup {NoRow}]]
      /\ operation'[o][t] = new
      /\ \A p \in Orders, u \in OperationTypes :
           p # o \/ u # t => operation'[p][u] = operation[p][u]
  BY <1>1
<1>4. OperationsAdvance
  BY <1>2, <1>3 DEF OperationsAdvance
<1>5. QED
  BY <1>2, <1>3, <1>4

\* The operations still belong to orders that have them.
LEMMA OperationsSound ==
    ASSUME PaymentInv, Moves, NEW p \in Orders,
           \A t \in OperationTypes : operation'[p][t] # NoRow => operation[p][t] # NoRow
    PROVE  OperationSound(payment'[p], operation'[p])
<1>1. OperationSound(payment[p], operation[p])
  BY DEF PaymentInv, Links, OrderLinked
<1>2. payment[p] # NoRow =>
        payment'[p] # NoRow /\ (payment[p].held => payment'[p].held)
  BY DEF Moves, OrdersAdvance
<1>3. QED
  BY <1>1, <1>2 DEF OperationSound, OperationTypes

\* Operation t of order o takes a step: it stays, or it is changed to a row.
OperationMoves(o, t) ==
    \/ operation' = operation
    \/ /\ operation[o][t] # NoRow
       /\ \E new \in OperationRow : operation' = [operation EXCEPT ![o][t] = new]

\* An operation that was there takes a step.
LEMMA OperationMoved ==
    ASSUME PaymentInv, Moves, NEW o \in Orders, NEW t \in OperationTypes,
           OperationMoves(o, t)
    PROVE  /\ operation' \in [Orders -> [OperationTypes -> OperationRow \cup {NoRow}]]
           /\ OperationsAdvance
           /\ \A p \in Orders : OperationSound(payment'[p], operation'[p])
<1>1. CASE operation' = operation
  <2>1. \A p \in Orders : OperationSound(payment'[p], operation'[p])
    BY <1>1, OperationsSound
  <2>2. QED
    BY <1>1, <2>1 DEF PaymentInv, Tables, OperationsAdvance
<1>2. ASSUME NEW new \in OperationRow, operation[o][t] # NoRow,
             operation' = [operation EXCEPT ![o][t] = new]
      PROVE  /\ operation' \in [Orders -> [OperationTypes -> OperationRow \cup {NoRow}]]
             /\ OperationsAdvance
             /\ \A p \in Orders : OperationSound(payment'[p], operation'[p])
  <2>1. /\ operation' \in [Orders -> [OperationTypes -> OperationRow \cup {NoRow}]]
        /\ OperationsAdvance
        /\ \A p \in Orders, u \in OperationTypes :
             p # o \/ u # t => operation'[p][u] = operation[p][u]
    BY <1>2, OneOperation, ZenonT(60)
  <2>2. ASSUME NEW p \in Orders PROVE OperationSound(payment'[p], operation'[p])
    BY <1>2, <2>1, OperationsSound
  <2>3. QED
    BY <2>1, <2>2
<1>3. QED
  BY <1>1, <1>2 DEF OperationMoves

\* An operation row whose status and lease are set.
LEMMA OperationStatusSet ==
    ASSUME PaymentInv, NEW o \in Orders, NEW t \in OperationTypes,
           operation[o][t] # NoRow,
           NEW s \in {"pending", "processing", "retryable", "succeeded",
                      "definitive_failed"},
           operation' = [operation EXCEPT ![o][t].status = s, ![o][t].lease = FALSE]
    PROVE  OperationMoves(o, t)
<1>1. operation \in [Orders -> [OperationTypes -> OperationRow \cup {NoRow}]]
  BY DEF PaymentInv, Tables
<1>2. operation[o][t] \in OperationRow
  BY <1>1
<1>3. PICK new : new = [operation[o][t] EXCEPT !.status = s, !.lease = FALSE]
  OBVIOUS
<1>4. new \in OperationRow
  BY <1>2, <1>3 DEF OperationRow
<1>5. operation' = [operation EXCEPT ![o][t] = new]
  BY <1>1, <1>3
<1>6. QED
  BY <1>4, <1>5 DEF OperationMoves

\* A transaction that only has a call begin or end.
LEMMA CallSound ==
    ASSUME PaymentInv, Moves, UNCHANGED providerVars, UNCHANGED <<event, observed>>,
           NEW o \in Orders, NEW t \in OperationTypes, OperationMoves(o, t),
           call' \subseteq Calls,
           \A c \in call' \ call : c.order = o /\ c.type = t /\ operation[o][t] # NoRow
    PROVE  PaymentInv'
<1>1. /\ operation' \in [Orders -> [OperationTypes -> OperationRow \cup {NoRow}]]
      /\ OperationsAdvance
      /\ \A p \in Orders : OperationSound(payment'[p], operation'[p])
  BY OperationMoved
<1>2. \A c \in call' \ call : CallLinked(c)'
  BY <1>1 DEF CallLinked, OperationsAdvance
<1>3. /\ observed' \subseteq Facts /\ event' \subseteq Events
      /\ observed' = observed /\ event' = event
  BY DEF PaymentInv, Tables
<1>4. QED
  BY <1>1, <1>2, <1>3, TransactionSound

\* CreateOrder.
LEMMA CreateOrderSound ==
    ASSUME PaymentInv, NEW o \in Orders, NEW w \in Wallets, NEW amount \in Amounts,
           CreateOrder(o, w, amount)
    PROVE  Moves /\ PaymentInv'
<1>1. PICK new : new = [status |-> "created", wallet |-> w, amount |-> amount,
                        trade |-> FALSE, refundNo |-> NoRefund, held |-> FALSE,
                        failure |-> FALSE, external |-> 0]
  OBVIOUS
<1>2. /\ payment[o] = NoRow
      /\ payment' = [payment EXCEPT ![o] = new]
      /\ operation' = [operation EXCEPT ![o]["create"] = NewOperation]
      /\ UNCHANGED <<walletVars, call, dispute, event, observed, providerVars>>
  BY <1>1 DEF CreateOrder
<1>3. new \in OrderRow
  BY <1>1, WalletAssumption DEF OrderRow, OrderStatus
<1>4. RowAdvances(payment[o], new) /\ RowSound(new)
  BY <1>1, <1>2 DEF RowAdvances, RowSound, Credited
<1>5. SessionSound(new, session[o])
  <2>1. SessionSound(payment[o], session[o])
    BY DEF PaymentInv, Links, OrderLinked
  <2>2. session[o] = "none"
    BY <1>2, <2>1 DEF SessionSound
  <2>3. new # NoRow
    BY <1>3, RowThere
  <2>4. QED
    BY <1>1, <2>2, <2>3 DEF SessionSound, Credited
<1>6. Standing(new) = Standing(payment[o])
  BY <1>1, <1>2 DEF Standing, Credited, NoRow
<1>7. Moves
  BY <1>2, <1>3, <1>4, <1>5, <1>6, OrderMoves
<1>8. NewOperation \in OperationRow /\ "create" \in OperationTypes
  BY ReferencesAssumption DEF NewOperation, OperationRow, OperationTypes
<1>9. /\ operation' \in [Orders -> [OperationTypes -> OperationRow \cup {NoRow}]]
      /\ OperationsAdvance
      /\ \A p \in Orders, u \in OperationTypes :
           p # o \/ u # "create" => operation'[p][u] = operation[p][u]
  <2>1. PICK row \in OperationRow, t \in OperationTypes :
          row = NewOperation /\ t = "create"
    BY <1>8
  <2>2. operation' = [operation EXCEPT ![o][t] = row]
    BY <1>2, <2>1
  <2>3. /\ operation' \in [Orders -> [OperationTypes -> OperationRow \cup {NoRow}]]
        /\ OperationsAdvance
        /\ \A p \in Orders, u \in OperationTypes :
             p # o \/ u # t => operation'[p][u] = operation[p][u]
    BY <2>2, OneOperation, ZenonT(60)
  <2>4. QED
    BY <2>1, <2>3
<1>10. ASSUME NEW p \in Orders PROVE OperationSound(payment'[p], operation'[p])
  <2>1. CASE p = o
    <3>1. OperationSound(payment[o], operation[o])
      BY DEF PaymentInv, Links, OrderLinked
    <3>2. operation[o]["refund"] = NoRow
      BY <1>2, <3>1 DEF OperationSound
    <3>3. operation'[o]["refund"] = NoRow
      BY <1>9, <3>2 DEF OperationTypes
    <3>4. payment'[o] # NoRow
      BY <1>2, <1>3, OneOrder, RowThere
    <3>5. QED
      BY <2>1, <3>3, <3>4 DEF OperationSound
  <2>2. CASE p # o
    BY <1>7, <1>9, <2>2, OperationsSound
  <2>3. QED
    BY <2>1, <2>2
<1>11. call' = call /\ event' = event /\ observed' = observed /\ UNCHANGED providerVars
  BY <1>2
<1>12. call \subseteq Calls /\ event \subseteq Events /\ observed \subseteq Facts
  BY DEF PaymentInv, Tables
<1>13. PaymentInv'
  BY <1>7, <1>9, <1>10, <1>11, <1>12, TransactionSound
<1>14. QED
  BY <1>7, <1>13

\* ClaimProviderOperation.
LEMMA ClaimSound ==
    ASSUME PaymentInv, NEW o \in Orders, NEW t \in OperationTypes,
           ClaimProviderOperation(o, t)
    PROVE  Moves /\ PaymentInv'
<1>1. Moves
  BY NothingMoves DEF ClaimProviderOperation
<1>2. operation[o][t] \in OperationRow
  BY DEF ClaimProviderOperation, PaymentInv, Tables
<1>3. PICK n : n = operation[o][t].attempts + 1
  OBVIOUS
<1>4. n \in 1..MaxAttempts
  BY <1>2, <1>3, ReferencesAssumption DEF ClaimProviderOperation, OperationRow
<1>5. PICK new : new = [status |-> "processing", attempts |-> n, lease |-> TRUE]
  OBVIOUS
<1>6. new \in OperationRow
  BY <1>4, <1>5, ReferencesAssumption DEF OperationRow
<1>7. OperationMoves(o, t) /\ operation[o][t] # NoRow
  BY <1>3, <1>5, <1>6 DEF ClaimProviderOperation, OperationMoves
<1>8. PICK c : c = [order |-> o, type |-> t, token |-> n, answer |-> "none"]
  OBVIOUS
<1>9. c \in Calls /\ c.order = o /\ c.type = t
  BY <1>4, <1>8 DEF Calls
<1>10. call' = call \cup {c}
  BY <1>3, <1>8 DEF ClaimProviderOperation
<1>11. call' \subseteq Calls
  BY <1>9, <1>10 DEF PaymentInv, Tables
<1>12. UNCHANGED providerVars /\ UNCHANGED <<event, observed>>
  BY DEF ClaimProviderOperation
<1>13. PaymentInv'
  BY <1>1, <1>7, <1>9, <1>10, <1>11, <1>12, CallSound
<1>14. QED
  BY <1>1, <1>13

\* A lease that runs out.
LEMMA LeaseExpiresSound ==
    ASSUME PaymentInv, NEW o \in Orders, NEW t \in OperationTypes, LeaseExpires(o, t)
    PROVE  Moves /\ PaymentInv'
<1>1. Moves
  BY NothingMoves DEF LeaseExpires
<1>2. operation \in [Orders -> [OperationTypes -> OperationRow \cup {NoRow}]]
  BY DEF PaymentInv, Tables
<1>3. operation[o][t] \in OperationRow /\ operation[o][t] # NoRow
  BY <1>2 DEF LeaseExpires, NoRow
<1>4. PICK new : new = [operation[o][t] EXCEPT !.lease = FALSE]
  OBVIOUS
<1>5. new \in OperationRow
  BY <1>3, <1>4 DEF OperationRow
<1>6. operation' = [operation EXCEPT ![o][t] = new]
  BY <1>2, <1>4 DEF LeaseExpires
<1>7. OperationMoves(o, t)
  BY <1>3, <1>5, <1>6 DEF OperationMoves
<1>8. UNCHANGED providerVars /\ UNCHANGED <<event, observed>> /\ call' = call
  BY DEF LeaseExpires
<1>9. call \subseteq Calls
  BY DEF PaymentInv, Tables
<1>10. PaymentInv'
  BY <1>1, <1>7, <1>8, <1>9, CallSound
<1>11. QED
  BY <1>1, <1>10

\* The call that a transaction or a crash ends.
LEMMA CallOf ==
    ASSUME PaymentInv, NEW c \in call
    PROVE  /\ c \in Calls /\ c.order \in Orders /\ c.type \in OperationTypes
           /\ operation[c.order][c.type] # NoRow
           /\ operation[c.order][c.type] \in OperationRow
           /\ payment[c.order] # NoRow
           /\ payment[c.order] \in OrderRow
           /\ call \ {c} \subseteq Calls
<1>1. c \in Calls
  BY DEF PaymentInv, Tables
<1>2. c.order \in Orders /\ c.type \in OperationTypes
  BY <1>1 DEF Calls
<1>3. operation[c.order][c.type] # NoRow
  BY DEF PaymentInv, Links, CallLinked
<1>4. OperationSound(payment[c.order], operation[c.order])
  BY <1>2 DEF PaymentInv, Links, OrderLinked
<1>5. payment[c.order] # NoRow
  BY <1>2, <1>3, <1>4 DEF OperationSound, OperationTypes
<1>6. payment[c.order] \in OrderRow /\ operation[c.order][c.type] \in OperationRow
      /\ call \ {c} \subseteq Calls
  BY <1>2, <1>3, <1>5 DEF PaymentInv, Tables
<1>7. QED
  BY <1>1, <1>2, <1>3, <1>5, <1>6

\* A crash in the middle of a provider call.
LEMMA CrashSound ==
    ASSUME PaymentInv, NEW c \in call, Crash(c)
    PROVE  Moves /\ PaymentInv'
<1>1. Moves
  BY NothingMoves DEF Crash
<1>2. PICK o \in Orders, t \in OperationTypes : o = c.order /\ t = c.type
  BY CallOf
<1>3. OperationMoves(o, t)
  BY DEF Crash, OperationMoves
<1>4. call' = call \ {c} /\ call' \subseteq Calls
  BY CallOf DEF Crash
<1>5. UNCHANGED providerVars /\ UNCHANGED <<event, observed>>
  BY DEF Crash
<1>6. PaymentInv'
  BY <1>1, <1>3, <1>4, <1>5, CallSound
<1>7. QED
  BY <1>1, <1>6

\* An order that is not credited may get status s, with or without a checkout:
\* it does not end while its session may still be paid.
CheckoutAllowed(o, s, trade) ==
    /\ payment[o].trade => trade
    /\ <<payment[o].status, s>> \in AllowedTransitions \/ payment[o].status = s
    /\ ~Credited(payment[o])
    /\ s # "pending" /\ trade => session[o] \in {"failed", "expired"}

\* The row with another status, checkout and failure.
CheckoutOf(row, s, trade, failure) ==
    [row EXCEPT !.status = s, !.trade = trade, !.failure = failure]

\* The status, the checkout and the failure of an order that is not credited.
LEMMA CheckoutRow ==
    ASSUME PaymentInv, NEW o \in Orders, payment[o] # NoRow,
           NEW s \in {"pending", "failed", "expired", "closed"},
           NEW trade \in BOOLEAN, NEW failure \in BOOLEAN, NEW new,
           new = CheckoutOf(payment[o], s, trade, failure),
           CheckoutAllowed(o, s, trade)
    PROVE  /\ new \in OrderRow
           /\ RowAdvances(payment[o], new)
           /\ RowSound(new)
           /\ SessionSound(new, session[o])
           /\ Standing(new) = Standing(payment[o])
<1>1. PICK row \in OrderRow : row = payment[o]
  BY RowOf
<1>2. RowSound(row) /\ SessionSound(row, session[o])
  BY <1>1 DEF PaymentInv, Links, OrderLinked
<1>3. new = [row EXCEPT !.status = s, !.trade = trade, !.failure = failure]
  BY <1>1 DEF CheckoutOf
<1>4. /\ new \in OrderRow
      /\ new.status = s /\ new.trade = trade /\ new.failure = failure
      /\ new.wallet = row.wallet /\ new.amount = row.amount
      /\ new.refundNo = row.refundNo /\ new.held = row.held
      /\ new.external = row.external
  <2>1. OrderStatus = OrderStatus \cup {s}
    BY DEF OrderStatus
  <2>2. QED
    BY <1>3, <2>1 DEF OrderRow
<1>5. ~Credited(new) /\ ~Credited(row) /\ new # NoRow /\ row # NoRow
  BY <1>1, <1>4, RowThere DEF Credited, CheckoutAllowed
<1>6. row.external \in 0..MaxMinor /\ new.external >= row.external
  BY <1>1, <1>4 DEF OrderRow
<1>7. Transition(row, new)
  BY <1>1, <1>4, <1>6 DEF Transition, CheckoutAllowed
<1>8. RowAdvances(row, new)
  BY <1>4, <1>5, <1>7 DEF RowAdvances
<1>9. ~row.held /\ row.external = 0
  BY <1>2, <1>5 DEF RowSound
<1>10. RowSound(new)
  BY <1>4, <1>5, <1>9 DEF RowSound
<1>11. SessionSound(new, session[o])
  <2>1. session[o] \in {"processing", "paid", "failed"} => row.trade
    BY <1>2 DEF SessionSound
  <2>2. QED
    BY <1>1, <1>4, <1>5, <2>1 DEF SessionSound, CheckoutAllowed
<1>12. Standing(new) = Standing(row)
  BY <1>5 DEF Standing
<1>13. QED
  BY <1>1, <1>4, <1>8, <1>10, <1>11, <1>12

\* The checkout of an order moves, and no money.
LEMMA CheckoutMoves ==
    ASSUME PaymentInv, NEW o \in Orders, payment[o] # NoRow,
           NEW s \in {"pending", "failed", "expired", "closed"},
           NEW trade \in BOOLEAN, NEW failure \in BOOLEAN,
           payment' = [payment EXCEPT ![o].status = s, ![o].trade = trade,
                                      ![o].failure = failure],
           CheckoutAllowed(o, s, trade),
           UNCHANGED walletVars, UNCHANGED dispute, UNCHANGED providerVars
    PROVE  Moves
<1>1. PICK new : new = CheckoutOf(payment[o], s, trade, failure)
  OBVIOUS
<1>2. payment' = [payment EXCEPT ![o] = new]
  BY <1>1 DEF PaymentInv, Tables, CheckoutOf
<1>3. /\ new \in OrderRow
      /\ RowAdvances(payment[o], new)
      /\ RowSound(new)
      /\ SessionSound(new, session[o])
      /\ Standing(new) = Standing(payment[o])
  BY <1>1, CheckoutRow
<1>4. QED
  BY <1>2, <1>3, OrderMoves

\* Setting a field to what it is changes nothing.
LEMMA FieldsKept ==
    ASSUME PaymentInv, NEW o \in Orders, payment[o] # NoRow, NEW s
    PROVE  /\ \A b : [payment EXCEPT ![o].status = s, ![o].failure = b] =
                [payment EXCEPT ![o].status = s, ![o].trade = payment[o].trade,
                                ![o].failure = b]
           /\ [payment EXCEPT ![o].status = s] =
                [payment EXCEPT ![o].status = s, ![o].trade = payment[o].trade,
                                ![o].failure = payment[o].failure]
           /\ payment[o].trade \in BOOLEAN /\ payment[o].failure \in BOOLEAN
<1>1. PICK row \in OrderRow : row = payment[o]
  BY RowOf
<1>2. row.trade \in BOOLEAN /\ row.failure \in BOOLEAN
  BY DEF OrderRow
<1>3. ASSUME NEW b
      PROVE  [row EXCEPT !.status = s, !.failure = b] =
             [row EXCEPT !.status = s, !.trade = row.trade, !.failure = b]
  BY DEF OrderRow
<1>4. [row EXCEPT !.status = s] =
      [row EXCEPT !.status = s, !.trade = row.trade, !.failure = row.failure]
  BY DEF OrderRow
<1>5. payment \in [Orders -> OrderRow \cup {NoRow}]
  BY DEF PaymentInv, Tables
<1>6. QED
  BY <1>1, <1>2, <1>3, <1>4, <1>5

\* CompleteCreateOperation.
LEMMA CompleteCreateSound ==
    ASSUME PaymentInv, NEW c \in call, CompleteCreateOperation(c)
    PROVE  Moves /\ PaymentInv'
<1>1. PICK o \in Orders : /\ o = c.order /\ payment[o] # NoRow /\ c.type = "create"
                          /\ operation[o]["create"] # NoRow
  BY CallOf DEF CompleteCreateOperation
<1>2. UNCHANGED walletVars /\ UNCHANGED dispute /\ UNCHANGED providerVars
      /\ UNCHANGED <<event, observed>> /\ call' = call \ {c}
  BY DEF CompleteCreateOperation, CallEnds
<1>3. Moves
  <2>1. CASE CheckoutStored(c)
    <3>1. payment[o].status \in {"created", "pending"}
      BY <1>1, <2>1 DEF CheckoutStored
    <3>2. payment' = [payment EXCEPT ![o].status = "pending", ![o].trade = TRUE,
                                     ![o].failure = FALSE]
      BY <1>1, <2>1 DEF CompleteCreateOperation
    <3>3. PICK s \in {"pending"}, trade \in {TRUE}, failure \in {FALSE} : TRUE
      OBVIOUS
    <3>4. /\ payment' = [payment EXCEPT ![o].status = s, ![o].trade = trade,
                                       ![o].failure = failure]
          /\ CheckoutAllowed(o, s, trade)
      BY <3>1, <3>2, <3>3 DEF AllowedTransitions, Credited, CheckoutAllowed
    <3>5. QED
      BY <1>1, <1>2, <3>4, CheckoutMoves
  <2>2. CASE ~CheckoutStored(c)
    <3>1. payment' = payment
      BY <2>2 DEF CompleteCreateOperation
    <3>2. QED
      BY <1>2, <3>1, NothingMoves
  <2>3. QED
    BY <2>1, <2>2
<1>4. "create" \in OperationTypes
  BY DEF OperationTypes
<1>5. OperationMoves(o, "create")
  <2>1. CASE operation' = operation
    BY <2>1 DEF OperationMoves
  <2>2. CASE operation' = [operation EXCEPT ![o]["create"].status = "succeeded",
                                            ![o]["create"].lease = FALSE]
    BY <1>1, <1>4, <2>2, OperationStatusSet
  <2>3. QED
    BY <1>1, <2>1, <2>2 DEF CompleteCreateOperation
<1>6. call' \subseteq Calls /\ call' \subseteq call
  BY <1>2, CallOf
<1>7. PaymentInv'
  BY <1>2, <1>3, <1>4, <1>5, <1>6, CallSound
<1>8. QED
  BY <1>3, <1>7

\* OperationFailed of a call.
LEMMA FailedMoves ==
    ASSUME PaymentInv, NEW c \in call, OperationFailed(c)
    PROVE  OperationMoves(c.order, c.type)
<1>1. PICK s : s = IF c.answer = "rejected" THEN "definitive_failed" ELSE "retryable"
  OBVIOUS
<1>2. PICK o \in Orders, t \in OperationTypes :
        o = c.order /\ t = c.type /\ operation[o][t] # NoRow
  BY CallOf
<1>3. operation' = [operation EXCEPT ![o][t].status = s, ![o][t].lease = FALSE]
  BY <1>1, <1>2 DEF OperationFailed
<1>4. QED
  BY <1>1, <1>2, <1>3, OperationStatusSet

\* FinishCreateOperation.
LEMMA FinishCreateSound ==
    ASSUME PaymentInv, NEW c \in call, FinishCreateOperation(c)
    PROVE  Moves /\ PaymentInv'
<1>1. PICK o \in Orders, t \in OperationTypes :
        o = c.order /\ t = c.type /\ payment[o] # NoRow
  BY CallOf
<1>2. UNCHANGED walletVars /\ UNCHANGED dispute /\ UNCHANGED providerVars
      /\ UNCHANGED <<event, observed>> /\ call' = call \ {c}
  BY DEF FinishCreateOperation, CallEnds
<1>3. Moves
  <2>1. CASE /\ Owner(c) /\ c.answer = "rejected"
             /\ payment[o].status = "created"
    <3>1. payment' = [payment EXCEPT ![o].status = "failed", ![o].failure = TRUE]
      BY <1>1, <2>1 DEF FinishCreateOperation
    <3>2. ~payment[o].trade
      BY <1>1, <2>1 DEF PaymentInv, Links, OrderLinked, RowSound
    <3>3. PICK s \in {"failed"}, failure \in {TRUE} : TRUE
      OBVIOUS
    <3>4. PICK trade \in BOOLEAN : trade = payment[o].trade
      BY <1>1, FieldsKept
    <3>5. payment' = [payment EXCEPT ![o].status = s, ![o].trade = trade,
                                     ![o].failure = failure]
      BY <1>1, <3>1, <3>3, <3>4, FieldsKept, ZenonT(60)
    <3>6. <<payment[o].status, s>> \in AllowedTransitions /\ ~Credited(payment[o])
      BY <2>1, <3>3 DEF AllowedTransitions, Credited
    <3>7. CheckoutAllowed(o, s, trade)
      BY <3>2, <3>4, <3>6 DEF CheckoutAllowed
    <3>8. QED
      BY <1>1, <1>2, <3>5, <3>6, <3>7, CheckoutMoves
  <2>2. CASE ~(/\ Owner(c) /\ c.answer = "rejected"
               /\ payment[o].status = "created")
    <3>1. payment' = payment
      BY <1>1, <2>2 DEF FinishCreateOperation
    <3>2. QED
      BY <1>2, <3>1, NothingMoves
  <2>3. QED
    BY <2>1, <2>2
<1>4. OperationMoves(o, t)
  <2>1. CASE operation' = operation
    BY <2>1 DEF OperationMoves
  <2>2. CASE OperationFailed(c)
    BY <1>1, <2>2, FailedMoves
  <2>3. QED
    BY <2>1, <2>2 DEF FinishCreateOperation
<1>5. call' \subseteq Calls /\ call' \subseteq call
  BY <1>2, CallOf
<1>6. PaymentInv'
  BY <1>2, <1>3, <1>4, <1>5, CallSound
<1>7. QED
  BY <1>3, <1>6

\* The refund number of an order that is credited becomes known.
LEMMA RefundNoMoves ==
    ASSUME PaymentInv, NEW o \in Orders, Credited(payment[o]), NEW n \in RefundNos,
           payment[o].refundNo \in {NoRefund, n}, NEW new,
           new = [payment[o] EXCEPT !.refundNo = n],
           payment' = [payment EXCEPT ![o] = new],
           UNCHANGED walletVars, UNCHANGED dispute, UNCHANGED providerVars
    PROVE  Moves
<1>1. payment[o] # NoRow
  BY DEF Credited, NoRow
<1>2. PICK row \in OrderRow : row = payment[o]
  BY <1>1, RowOf
<1>3. RowSound(row) /\ SessionSound(row, session[o])
  BY <1>2 DEF PaymentInv, Links, OrderLinked
<1>4. /\ new \in OrderRow
      /\ new.status = row.status /\ new.trade = row.trade
      /\ new.failure = row.failure
      /\ new.wallet = row.wallet /\ new.amount = row.amount
      /\ new.refundNo = n /\ new.held = row.held
      /\ new.external = row.external
  BY <1>2 DEF OrderRow
<1>5. Credited(new) /\ Credited(row) /\ new # NoRow /\ row # NoRow
  BY <1>1, <1>2, <1>4, RowThere DEF Credited
<1>6. row.external \in 0..MaxMinor /\ new.external >= row.external
  BY <1>2, <1>4 DEF OrderRow
<1>7. Transition(row, new)
  BY <1>2, <1>4, <1>6 DEF Transition
<1>8. RowAdvances(row, new)
  BY <1>4, <1>5, <1>7 DEF RowAdvances
<1>9. RowSound(new)
  BY <1>3, <1>4, <1>5, Zenon DEF RowSound
<1>10. SessionSound(new, session[o])
  BY <1>3, <1>4, <1>5 DEF SessionSound
<1>11. Standing(new) = Standing(row)
  BY <1>4, <1>5, Zenon DEF Standing
<1>12. QED
  BY <1>2, <1>4, <1>8, <1>9, <1>10, <1>11, OrderMoves

\* CompleteRefundOperation.
LEMMA CompleteRefundSound ==
    ASSUME PaymentInv, NEW c \in call, CompleteRefundOperation(c)
    PROVE  Moves /\ PaymentInv'
<1>1. PICK o \in Orders : /\ o = c.order /\ payment[o] # NoRow /\ c.type = "refund"
                          /\ operation[o]["refund"] # NoRow
  BY CallOf DEF CompleteRefundOperation
<1>2. UNCHANGED walletVars /\ UNCHANGED dispute /\ UNCHANGED providerVars
      /\ UNCHANGED <<event, observed>> /\ call' = call \ {c}
  BY DEF CompleteRefundOperation, CallEnds
<1> DEFINE stored == /\ Owner(c)
                     /\ payment[o].status \in {"refund_pending", "refunded"}
                     /\ payment[o].refundNo \in {NoRefund, o}
<1>3. Moves
  <2>1. CASE stored
    <3>1. PICK new : new = [payment[o] EXCEPT !.refundNo = o]
      OBVIOUS
    <3>2. payment' = [payment EXCEPT ![o] = new]
      BY <1>1, <2>1, <3>1 DEF CompleteRefundOperation, PaymentInv, Tables
    <3>3. Credited(payment[o]) /\ o \in RefundNos
      BY <2>1 DEF Credited, RefundNos
    <3>4. QED
      BY <1>2, <2>1, <3>1, <3>2, <3>3, RefundNoMoves
  <2>2. CASE ~stored
    <3>1. payment' = payment
      BY <1>1, <2>2 DEF CompleteRefundOperation
    <3>2. QED
      BY <1>2, <3>1, NothingMoves
  <2>3. QED
    BY <2>1, <2>2
<1>4. "refund" \in OperationTypes
  BY DEF OperationTypes
<1>5. OperationMoves(o, "refund")
  <2>1. CASE operation' = operation
    BY <2>1 DEF OperationMoves
  <2>2. CASE operation' = [operation EXCEPT ![o]["refund"].status = "succeeded",
                                            ![o]["refund"].lease = FALSE]
    BY <1>1, <1>4, <2>2, OperationStatusSet
  <2>3. QED
    BY <1>1, <2>1, <2>2 DEF CompleteRefundOperation
<1>6. call' \subseteq Calls /\ call' \subseteq call
  BY <1>2, CallOf
<1>7. PaymentInv'
  BY <1>2, <1>3, <1>4, <1>5, <1>6, CallSound
<1>8. QED
  BY <1>3, <1>7

\* A checkout whose session is closed ends the order.
LEMMA EndMoves ==
    ASSUME PaymentInv, NEW o \in Orders, NEW s \in {"expired", "closed"},
           payment[o].status \in {"created", "pending", "failed", "expired"},
           s = "expired" => payment[o].status \in {"created", "pending"},
           SessionClosed(o),
           payment' = [payment EXCEPT ![o].status = s],
           UNCHANGED walletVars, UNCHANGED dispute, UNCHANGED providerVars
    PROVE  Moves
<1>1. payment[o] # NoRow
  BY DEF NoRow
<1>2. PICK trade \in BOOLEAN, failure \in BOOLEAN :
        trade = payment[o].trade /\ failure = payment[o].failure
  BY <1>1, FieldsKept
<1>3. payment' = [payment EXCEPT ![o].status = s, ![o].trade = trade,
                                 ![o].failure = failure]
  BY <1>1, <1>2, FieldsKept
<1>4. session[o] = "expired"
  BY DEF SessionClosed
<1>5. <<payment[o].status, s>> \in AllowedTransitions /\ ~Credited(payment[o])
  BY DEF AllowedTransitions, Credited
<1>6. CheckoutAllowed(o, s, trade)
  BY <1>2, <1>4, <1>5 DEF CheckoutAllowed
<1>7. QED
  BY <1>1, <1>3, <1>6, CheckoutMoves

\* MarkExpired, MarkClosed, and an answer that reconciliation reads.
LEMMA OrderAloneSound ==
    ASSUME PaymentInv, Moves, UNCHANGED <<operation, call, event, providerVars>>,
           observed' \subseteq Facts, \A f \in observed' \ observed : Tells(f)
    PROVE  PaymentInv'
<1>1. ASSUME NEW o \in Orders PROVE OperationSound(payment'[o], operation'[o])
  BY OperationsSound
<1>2. operation' = operation /\ call' = call /\ event' = event
  OBVIOUS
<1>3. /\ operation' \in [Orders -> [OperationTypes -> OperationRow \cup {NoRow}]]
      /\ OperationsAdvance /\ call' \subseteq Calls /\ event' \subseteq Events
  BY <1>2 DEF PaymentInv, Tables, OperationsAdvance
<1>4. UNCHANGED providerVars
  OBVIOUS
<1>5. (\A c \in call' \ call : CallLinked(c)') /\ event' \ event = {}
  BY <1>2
<1>6. QED
  BY <1>1, <1>3, <1>4, <1>5, TransactionSound

\* Expiry.
LEMMA MarkExpiredSound ==
    ASSUME PaymentInv, NEW o \in Orders, MarkExpired(o)
    PROVE  Moves /\ PaymentInv'
<1>1. PICK s \in {"expired"} : TRUE
  OBVIOUS
<1>2. /\ s \in {"expired", "closed"}
      /\ payment[o].status \in {"created", "pending", "failed", "expired"}
      /\ payment[o].status \in {"created", "pending"}
      /\ SessionClosed(o)
      /\ payment' = [payment EXCEPT ![o].status = s]
      /\ UNCHANGED walletVars /\ UNCHANGED dispute /\ UNCHANGED providerVars
  BY <1>1 DEF MarkExpired
<1>3. Moves
  BY <1>2, EndMoves
<1>4. UNCHANGED <<operation, call, event, providerVars>> /\ observed' = observed
  BY DEF MarkExpired
<1>5. observed' \subseteq Facts
  BY <1>4 DEF PaymentInv, Tables
<1>6. PaymentInv'
  BY <1>3, <1>4, <1>5, OrderAloneSound
<1>7. QED
  BY <1>3, <1>6

\* Close.
LEMMA MarkClosedSound ==
    ASSUME PaymentInv, NEW o \in Orders, MarkClosed(o)
    PROVE  Moves /\ PaymentInv'
<1>1. PICK s \in {"closed"} : TRUE
  OBVIOUS
<1>2. /\ s \in {"expired", "closed"} /\ s # "expired"
      /\ payment[o].status \in {"created", "pending", "failed", "expired"}
      /\ SessionClosed(o)
      /\ payment' = [payment EXCEPT ![o].status = s]
      /\ UNCHANGED walletVars /\ UNCHANGED dispute /\ UNCHANGED providerVars
  BY <1>1 DEF MarkClosed
<1>3. Moves
  BY <1>2, EndMoves
<1>4. UNCHANGED <<operation, call, event, providerVars>> /\ observed' = observed
  BY DEF MarkClosed
<1>5. observed' \subseteq Facts
  BY <1>4 DEF PaymentInv, Tables
<1>6. PaymentInv'
  BY <1>3, <1>4, <1>5, OrderAloneSound
<1>7. QED
  BY <1>3, <1>6

\* Reconciliation reads what the provider tells.
LEMMA ReconcileSound ==
    ASSUME PaymentInv, NEW o \in Orders, Reconcile(o)
    PROVE  Moves /\ PaymentInv'
<1>1. Moves
  BY NothingMoves DEF Reconcile
<1>2. PICK f \in Asked(o) : Tells(f) /\ observed' = observed \cup {f}
  BY DEF Reconcile
<1>3. f \in Facts
  BY <1>2 DEF Asked, Facts, PaymentFactTypes, RefundFactTypes, RefundNos
<1>4. UNCHANGED <<operation, call, event, providerVars>>
  BY DEF Reconcile
<1>5. observed' \subseteq Facts
  BY <1>2, <1>3 DEF PaymentInv, Tables
<1>6. PaymentInv'
  BY <1>1, <1>2, <1>4, <1>5, OrderAloneSound
<1>7. QED
  BY <1>1, <1>6

-----------------------------------------------------------------------------
(* Transactions that move money *)

\* How the wallets see one order move.
LEMMA OrderStands ==
    ASSUME PaymentInv, NEW o \in Orders, NEW new \in OrderRow,
           payment' = [payment EXCEPT ![o] = new]
    PROVE  /\ WalletOrders[o] = Standing(payment[o])
           /\ WalletOrders' = [WalletOrders EXCEPT ![o] = Standing(new)]
<1>1. payment'[o] = new /\ \A p \in Orders \ {o} : payment'[p] = payment[p]
  BY OneOrder
<1>2. ASSUME NEW p \in Orders
      PROVE  Standing(payment'[p]) = IF p = o THEN Standing(new) ELSE Standing(payment[p])
  <2>1. CASE p = o
    BY <1>1, <2>1
  <2>2. CASE p # o
    <3>1. payment'[p] = payment[p]
      BY <1>1, <2>2
    <3>2. QED
      BY <2>2, <3>1
  <2>3. QED
    BY <2>1, <2>2
<1>3. QED
  BY <1>2, WalletOrdersStand

\* An order moves with its wallet; no dispute is involved.
LEMMA MoneyMoves ==
    ASSUME PaymentInv, NEW o \in Orders, NEW new \in OrderRow,
           payment' = [payment EXCEPT ![o] = new], RowAdvances(payment[o], new),
           RowSound(new), SessionSound(new, session[o]),
           B!Next, \A d \in Disputes : RefKept(d),
           ledger \subseteq ledger',
           \A row \in ledger' \ ledger :
              row.type \in {"recharge", "payment_reversal"} => row.of = o,
           Posted(o)', UNCHANGED dispute, UNCHANGED providerVars
    PROVE  Moves
<1>1. /\ payment' \in [Orders -> OrderRow \cup {NoRow}]
      /\ OrdersAdvance
      /\ \A p \in Orders :
           RowSound(payment'[p]) /\ SessionSound(payment'[p], session[p])
  BY OneOrderAdvances
<1>2. ASSUME NEW p \in Orders PROVE Posted(p)'
  <2>1. CASE p = o
    BY <2>1
  <2>2. CASE p # o
    <3>1. payment'[p] = payment[p]
      BY <2>2, OneOrder
    <3>2. Posted(p)
      BY DEF PaymentInv, Links
    <3>3. \A t \in {"recharge", "payment_reversal"} :
            (\E row \in ledger' : row.type = t /\ row.of = p) <=>
            (\E row \in ledger : row.type = t /\ row.of = p)
      BY <2>2
    <3>4. QED
      BY <3>1, <3>2, <3>3 DEF Posted, Reversed
  <2>3. QED
    BY <2>1, <2>2
<1>3. SessionsAdvance /\ ChargebacksAdvance
  BY ProviderStill DEF ProviderAdvances
<1>4. ASSUME NEW d \in Disputes PROVE DisputeLinked(d)'
  <2>1. dispute'[d] = dispute[d] /\ chargeback'[d] = chargeback[d]
    BY DEF providerVars
  <2>2. chargeback[d] # NoRow \/ chargeback'[d] = NoRow
    BY <2>1
  <2>3. RefKept(d)
    OBVIOUS
  <2>4. QED
    BY <1>1, <1>3, <2>1, <2>2, <2>3, DisputeKept
<1>5. dispute' \in [Disputes -> DisputeFactTypes \cup {"none"}]
  BY DEF PaymentInv, Tables
<1>6. QED
  BY <1>1, <1>2, <1>4, <1>5 DEF Moves

\* No liability moves.
LEMMA LiabilitiesStill ==
    ASSUME UNCHANGED liability
    PROVE  \A d \in Disputes : RefKept(d)
BY DEF RefKept

\* PrepareRefund is HoldRefund of the wallet.
LEMMA PrepareRefundSound ==
    ASSUME PaymentInv, NEW o \in Orders, PrepareRefund(o)
    PROVE  Moves /\ PaymentInv'
<1>1. PICK row \in OrderRow : row = payment[o]
  BY RowOf DEF PrepareRefund
<1>2. RowSound(row) /\ SessionSound(row, session[o]) /\ row # NoRow
  BY <1>1, RowThere DEF PaymentInv, Links, OrderLinked
<1>3. row.status = "paid" /\ ~row.failure
  BY <1>1 DEF PrepareRefund
<1>4. ~row.held
  BY <1>2, <1>3 DEF RowSound
<1>5. PICK new : new = [row EXCEPT !.status = "refund_pending", !.held = TRUE]
  OBVIOUS
<1>6. payment' = [payment EXCEPT ![o] = new]
  BY <1>1, <1>5 DEF PrepareRefund, PaymentInv, Tables
<1>7. /\ new \in OrderRow
      /\ new.status = "refund_pending" /\ new.held = TRUE
      /\ new.trade = row.trade /\ new.failure = row.failure
      /\ new.wallet = row.wallet /\ new.amount = row.amount
      /\ new.refundNo = row.refundNo /\ new.external = row.external
  <2>1. OrderStatus = OrderStatus \cup {"refund_pending"}
    BY DEF OrderStatus
  <2>2. QED
    BY <1>5, <2>1 DEF OrderRow
<1>8. Credited(new) /\ Credited(row) /\ new # NoRow
  BY <1>3, <1>7, RowThere DEF Credited
<1>9. RowAdvances(row, new)
  <2>1. row.external \in 0..MaxMinor /\ new.external >= row.external
    BY <1>7 DEF OrderRow
  <2>2. Transition(row, new)
    BY <1>3, <1>7, <2>1 DEF Transition, AllowedTransitions
  <2>3. QED
    BY <1>7, <1>8, <2>2 DEF RowAdvances
<1>10. RowSound(new)
  BY <1>7, <1>8 DEF RowSound
<1>11. SessionSound(new, session[o])
  BY <1>2, <1>7, <1>8 DEF SessionSound
<1>12. /\ WalletOrders[o] = Standing(row)
       /\ WalletOrders' = [WalletOrders EXCEPT ![o] = Standing(new)]
  BY <1>1, <1>6, <1>7, OrderStands
<1>13. /\ Standing(row) = [status |-> "paid", wallet |-> row.wallet, amount |-> row.amount]
       /\ Standing(new) =
            [status |-> "refund_pending", wallet |-> row.wallet, amount |-> row.amount]
  BY <1>3, <1>4, <1>7, <1>8 DEF Standing
<1>14. B!HoldPaymentRefundInTx(o, row.wallet, row.amount)
  BY <1>1, SameRefunds DEF PrepareRefund
<1>15. UNCHANGED <<reservation, settlement, liability>>
  BY DEF PrepareRefund
<1>16. WalletOrders' = [WalletOrders EXCEPT ![o].status = "refund_pending"]
  <2>1. [Standing(row) EXCEPT !.status = "refund_pending"] = Standing(new)
    BY <1>13
  <2>2. QED
    BY <1>12, <2>1
<1>17. B!HoldRefund(o)
  <2>1. /\ WalletOrders[o].status = "paid"
        /\ WalletOrders[o].wallet = row.wallet /\ WalletOrders[o].amount = row.amount
    BY <1>12, <1>13
  <2>2. B!HoldPaymentRefundInTx(o, WalletOrders[o].wallet, WalletOrders[o].amount)
    BY <1>14, <2>1
  <2>3. QED
    BY <1>15, <1>16, <2>1, <2>2 DEF B!HoldRefund
<1>18. B!Next
  BY <1>17 DEF B!Next, B!RefundNext
<1>19. /\ ledger \subseteq ledger'
       /\ \A new1 \in ledger' \ ledger : new1.type = "payment_refund_hold"
  BY <1>14 DEF B!HoldPaymentRefundInTx, B!insertLedger, B!Row
<1>20. Posted(o)'
  <2>1. Posted(o) /\ payment'[o] = new
    BY <1>6, <1>7, OneOrder DEF PaymentInv, Links
  <2>2. \A t \in {"recharge", "payment_reversal"} :
          (\E old \in ledger' : old.type = t /\ old.of = o) <=>
          (\E old \in ledger : old.type = t /\ old.of = o)
    BY <1>19
  <2>3. QED
    BY <1>1, <1>3, <1>7, <1>8, <2>1, <2>2 DEF Posted, Reversed
<1>21. \A d \in Disputes : RefKept(d)
  BY <1>15, LiabilitiesStill
<1>22. UNCHANGED dispute /\ UNCHANGED providerVars
  BY DEF PrepareRefund
<1>23. Moves
  BY <1>1, <1>6, <1>7, <1>9, <1>10, <1>11, <1>18, <1>19, <1>20, <1>21, <1>22, MoneyMoves
<1>24. NewOperation \in OperationRow /\ "refund" \in OperationTypes
  BY ReferencesAssumption DEF NewOperation, OperationRow, OperationTypes
<1>25. /\ operation' \in [Orders -> [OperationTypes -> OperationRow \cup {NoRow}]]
       /\ OperationsAdvance
       /\ \A p \in Orders, u \in OperationTypes :
            p # o \/ u # "refund" => operation'[p][u] = operation[p][u]
  <2>1. PICK op \in OperationRow, t \in OperationTypes :
          op = NewOperation /\ t = "refund"
    BY <1>24
  <2>2. operation' = [operation EXCEPT ![o][t] = op]
    BY <2>1 DEF PrepareRefund
  <2>3. /\ operation' \in [Orders -> [OperationTypes -> OperationRow \cup {NoRow}]]
        /\ OperationsAdvance
        /\ \A p \in Orders, u \in OperationTypes :
             p # o \/ u # t => operation'[p][u] = operation[p][u]
    BY <2>2, OneOperation, ZenonT(60)
  <2>4. QED
    BY <2>1, <2>3
<1>26. ASSUME NEW p \in Orders PROVE OperationSound(payment'[p], operation'[p])
  <2>1. CASE p = o
    BY <1>6, <1>7, <1>8, <2>1, OneOrder DEF OperationSound
  <2>2. CASE p # o
    BY <1>23, <1>25, <2>2, OperationsSound
  <2>3. QED
    BY <2>1, <2>2
<1>27. call' = call /\ event' = event /\ observed' = observed
  BY DEF PrepareRefund
<1>28. call \subseteq Calls /\ event \subseteq Events /\ observed \subseteq Facts
  BY DEF PaymentInv, Tables
<1>29. PaymentInv'
  BY <1>22, <1>23, <1>25, <1>26, <1>27, <1>28, TransactionSound
<1>30. QED
  BY <1>23, <1>29

\* The row once the refund has failed, and the order is paid again, or is made.
RefundEnded(row, s, n) ==
    [row EXCEPT !.status = s, !.failure = (s = "paid"), !.refundNo = n]

\* The wallet of order o sees its refund end.
RefundStands(o, s) ==
    /\ WalletOrders[o] = [status |-> "refund_pending", wallet |-> payment[o].wallet,
                          amount |-> payment[o].amount]
    /\ WalletOrders' = [WalletOrders EXCEPT ![o].status =
                           IF s = "paid" THEN "refund_failed" ELSE "refunded"]

\* Refund n of order o is under way.
RefundUnderWay(o, n) ==
    /\ payment[o].status = "refund_pending"
    /\ payment[o].refundNo \in {NoRefund, n}
    /\ n \in RefundNos \cup {NoRefund}

\* The new row of an order whose refund ended with status s.
EndedRow(o, s, new) ==
    /\ new \in OrderRow
    /\ RowAdvances(payment[o], new)
    /\ RowSound(new)
    /\ SessionSound(new, session[o])
    /\ Credited(new) /\ new.held /\ new.status = s
    /\ RefundStands(o, s)
    /\ payment'[o] = new

\* The end of a refund that bablo started: the row of its order.
LEMMA RefundEndRow ==
    ASSUME PaymentInv, NEW o \in Orders, NEW s \in {"paid", "refunded"}, NEW n,
           RefundUnderWay(o, n), NEW new,
           new = RefundEnded(payment[o], s, n),
           payment' = [payment EXCEPT ![o] = new]
    PROVE  EndedRow(o, s, new)
<1> USE DEF RefundUnderWay
<1>1. PICK row \in OrderRow : row = payment[o] /\ row # NoRow
  BY RowOf
<1>2. RowSound(row) /\ SessionSound(row, session[o])
  BY <1>1 DEF PaymentInv, Links, OrderLinked
<1>3. row.status = "refund_pending" /\ row.held /\ Credited(row)
  BY <1>1, <1>2 DEF RowSound, Credited
<1>4. /\ new \in OrderRow
      /\ new.status = s /\ new.held = row.held
      /\ new.trade = row.trade /\ new.failure = (s = "paid")
      /\ new.wallet = row.wallet /\ new.amount = row.amount
      /\ new.refundNo = n /\ new.external = row.external
  <2>1. OrderStatus = OrderStatus \cup {s}
    BY DEF OrderStatus
  <2>2. QED
    BY <1>1, <2>1 DEF OrderRow, RefundEnded
<1>5. Credited(new) /\ new # NoRow
  BY <1>4, RowThere DEF Credited
<1>6. RowAdvances(row, new)
  <2>1. row.external \in 0..MaxMinor /\ new.external >= row.external
    BY <1>4 DEF OrderRow
  <2>2. Transition(row, new)
    BY <1>1, <1>3, <1>4, <2>1 DEF Transition, AllowedTransitions
  <2>3. QED
    BY <1>3, <1>4, <1>5, <2>2 DEF RowAdvances
<1>7. RowSound(new)
  BY <1>3, <1>4, <1>5 DEF RowSound
<1>8. SessionSound(new, session[o])
  BY <1>2, <1>3, <1>4, <1>5 DEF SessionSound
<1>9. /\ WalletOrders[o] = Standing(row)
      /\ WalletOrders' = [WalletOrders EXCEPT ![o] = Standing(new)]
  BY <1>1, <1>4, OrderStands
<1>10. /\ Standing(row) =
            [status |-> "refund_pending", wallet |-> row.wallet, amount |-> row.amount]
       /\ Standing(new) =
            [status |-> IF s = "paid" THEN "refund_failed" ELSE "refunded",
             wallet |-> row.wallet, amount |-> row.amount]
  BY <1>3, <1>4, <1>5 DEF Standing
<1>11. WalletOrders' = [WalletOrders EXCEPT ![o].status =
                          IF s = "paid" THEN "refund_failed" ELSE "refunded"]
  <2>1. PICK t : t = IF s = "paid" THEN "refund_failed" ELSE "refunded"
    OBVIOUS
  <2>2. [Standing(row) EXCEPT !.status = t] = Standing(new)
    BY <1>10, <2>1
  <2>3. WalletOrders' = [WalletOrders EXCEPT ![o].status = t]
    BY <1>9, <2>2
  <2>4. QED
    BY <2>1, <2>3
<1>12. payment'[o] = new
  BY <1>4, OneOrder
<1>13. RefundStands(o, s)
  BY <1>1, <1>9, <1>10, <1>11 DEF RefundStands
<1>14. QED
  BY <1>1, <1>3, <1>4, <1>5, <1>6, <1>7, <1>8, <1>12, <1>13 DEF EndedRow

\* The funds of a refund return, or go: ReleaseRefund or CompleteRefund of the
\* wallet.
LEMMA RefundEndMoves ==
    ASSUME PaymentInv, NEW o \in Orders, NEW s \in {"paid", "refunded"}, NEW n,
           RefundUnderWay(o, n),
           payment' = [payment EXCEPT ![o] = RefundEnded(payment[o], s, n)],
           s = "paid" =>
              W!ReleasePaymentRefundInTx(o, payment[o].wallet, payment[o].amount),
           s = "refunded" =>
              W!CompletePaymentRefundInTx(o, payment[o].wallet, payment[o].amount),
           UNCHANGED <<reservation, settlement, liability>>,
           UNCHANGED dispute, UNCHANGED providerVars
    PROVE  Moves
<1>1. PICK new : new = RefundEnded(payment[o], s, n)
  OBVIOUS
<1>2. payment' = [payment EXCEPT ![o] = new]
  BY <1>1
<1>3. /\ new \in OrderRow
      /\ RowAdvances(payment[o], new)
      /\ RowSound(new)
      /\ SessionSound(new, session[o])
      /\ RefundStands(o, s)
      /\ payment'[o] = new
      /\ Credited(new) /\ new.held /\ new.status = s
  <2>1. EndedRow(o, s, new)
    BY <1>1, <1>2, RefundEndRow
  <2>2. QED
    BY <2>1 DEF EndedRow
<1>4. PICK w, a : w = payment[o].wallet /\ a = payment[o].amount
  OBVIOUS
<1>5. /\ WalletOrders[o].status = "refund_pending"
      /\ WalletOrders[o].wallet = w /\ WalletOrders[o].amount = a
  BY <1>3, <1>4 DEF RefundStands
<1>6. /\ s = "paid" => B!ReleasePaymentRefundInTx(o, w, a)
      /\ s = "refunded" => B!CompletePaymentRefundInTx(o, w, a)
  BY <1>4, SameRefunds
<1>7. CASE s = "paid"
  <2>1. B!ReleaseRefund(o)
    BY <1>3, <1>5, <1>6, <1>7 DEF B!ReleaseRefund, RefundStands
  <2>2. B!Next
    BY <2>1 DEF B!Next, B!RefundNext
  <2>3. /\ ledger \subseteq ledger'
        /\ \A row \in ledger' \ ledger : row.type = "payment_refund_release"
    BY <1>6, <1>7 DEF B!ReleasePaymentRefundInTx, B!insertLedger, B!Row
  <2>4. Posted(o)'
    <3>1. Posted(o) /\ Credited(payment[o]) /\ payment[o].status # "refunded"
      BY DEF PaymentInv, Links, Credited, RefundUnderWay
    <3>2. \A t \in {"recharge", "payment_reversal"} :
            (\E old \in ledger' : old.type = t /\ old.of = o) <=>
            (\E old \in ledger : old.type = t /\ old.of = o)
      BY <2>3
    <3>3. QED
      BY <1>3, <1>7, <3>1, <3>2 DEF Posted, Reversed
  <2>5. \A d \in Disputes : RefKept(d)
    BY LiabilitiesStill
  <2>6. QED
    BY <1>2, <1>3, <2>2, <2>3, <2>4, <2>5, MoneyMoves
<1>8. CASE s = "refunded"
  <2>1. B!CompleteRefund(o)
    BY <1>3, <1>5, <1>6, <1>8 DEF B!CompleteRefund, RefundStands
  <2>2. B!Next
    BY <2>1 DEF B!Next, B!RefundNext
  <2>3. PICK entry : entry = B!Row(w, "payment_reversal", o, 0, -a)
    OBVIOUS
  <2>4. entry.type = "payment_reversal" /\ entry.of = o
    BY <2>3 DEF B!Row
  <2>5. ledger' = ledger \cup {entry}
    BY <1>6, <1>8, <2>3 DEF B!CompletePaymentRefundInTx, B!insertLedger
  <2>6. /\ ledger \subseteq ledger'
        /\ \A row \in ledger' \ ledger :
             row.type \in {"recharge", "payment_reversal"} => row.of = o
    BY <2>4, <2>5
  <2>7. Posted(o)'
    <3>1. Posted(o) /\ Credited(payment[o])
      BY DEF PaymentInv, Links, Credited, RefundUnderWay
    <3>2. Reversed(o)'
      BY <2>4, <2>5 DEF Reversed
    <3>3. \E old \in ledger' : old.type = "recharge" /\ old.of = o
      BY <2>6, <3>1 DEF Posted
    <3>4. QED
      BY <1>3, <1>8, <3>2, <3>3 DEF Posted
  <2>8. \A d \in Disputes : RefKept(d)
    BY LiabilitiesStill
  <2>9. QED
    BY <1>2, <1>3, <2>2, <2>6, <2>7, <2>8, MoneyMoves
<1>9. QED
  BY <1>7, <1>8

\* FinishRefundOperation.
LEMMA FinishRefundSound ==
    ASSUME PaymentInv, NEW c \in call, FinishRefundOperation(c)
    PROVE  Moves /\ PaymentInv'
<1>1. PICK o \in Orders, t \in OperationTypes :
        o = c.order /\ t = c.type /\ payment[o] # NoRow /\ payment[o] \in OrderRow
  BY CallOf
<1>2. UNCHANGED dispute /\ UNCHANGED providerVars
      /\ UNCHANGED <<event, observed>> /\ call' = call \ {c}
  BY DEF FinishRefundOperation, CallEnds
<1>3. CASE RefundRefused(c)
  <2>1. /\ payment[o].status = "refund_pending" /\ payment[o].refundNo = NoRefund
        /\ W!ReleasePaymentRefundInTx(o, payment[o].wallet, payment[o].amount)
        /\ payment' = [payment EXCEPT ![o].status = "paid", ![o].failure = TRUE]
        /\ OperationFailed(c)
        /\ UNCHANGED <<reservation, settlement, liability>>
    BY <1>1, <1>3 DEF FinishRefundOperation, RefundRefused
  <2>2. PICK s \in {"paid"}, n \in {NoRefund} : TRUE
    OBVIOUS
  <2>3. PICK row \in OrderRow : row = payment[o] /\ row.refundNo = NoRefund
    BY <1>1, <2>1
  <2>4. [row EXCEPT !.status = "paid", !.failure = TRUE] =
        RefundEnded(row, s, n)
    BY <2>2, <2>3 DEF OrderRow, RefundEnded
  <2>5. payment' = [payment EXCEPT ![o] = RefundEnded(payment[o], s, n)]
    BY <2>1, <2>3, <2>4 DEF PaymentInv, Tables
  <2>6. s # "refunded" /\ s = "paid"
        /\ s \in {"paid", "refunded"} /\ RefundUnderWay(o, n)
    BY <2>1, <2>2 DEF RefundUnderWay
  <2>7. Moves
    BY <1>2, <2>1, <2>5, <2>6, RefundEndMoves
  <2>8. OperationMoves(o, t)
    BY <1>1, <2>1, FailedMoves
  <2>9. call' \subseteq Calls /\ call' \subseteq call
    BY <1>2, CallOf
  <2>10. PaymentInv'
    BY <1>2, <2>7, <2>8, <2>9, CallSound
  <2>11. QED
    BY <2>7, <2>10
<1>4. CASE ~RefundRefused(c)
  <2>1. UNCHANGED walletVars /\ UNCHANGED payment
    BY <1>4 DEF FinishRefundOperation
  <2>2. Moves
    BY <1>2, <2>1, NothingMoves
  <2>3. OperationMoves(o, t)
    <3>1. operation' = operation \/ OperationFailed(c)
      BY <1>4 DEF FinishRefundOperation
    <3>2. QED
      BY <1>1, <3>1, FailedMoves DEF OperationMoves
  <2>4. call' \subseteq Calls /\ call' \subseteq call
    BY <1>2, CallOf
  <2>5. PaymentInv'
    BY <1>2, <2>2, <2>3, <2>4, CallSound
  <2>6. QED
    BY <2>2, <2>5
<1>5. QED
  BY <1>3, <1>4

-----------------------------------------------------------------------------
(* What an event does *)

\* What the provider tells is of an order that bablo has.
LEMMA FactOrder ==
    ASSUME PaymentInv, NEW f \in Facts, Tells(f)
    PROVE  /\ OrderOf(f) \in Orders
           /\ payment[OrderOf(f)] \in OrderRow /\ payment[OrderOf(f)] # NoRow
           /\ f.type \in RefundFactTypes \cup DisputeFactTypes =>
                session[OrderOf(f)] = "paid" /\ AmountOf(f) \in Amounts
<1>1. CASE f.type \in PaymentFactTypes
  <2>1. f.of \in Orders /\ OrderOf(f) = f.of
    BY <1>1, FactSubject DEF OrderOf, PaymentFactTypes, RefundFactTypes, DisputeFactTypes
  <2>2. session[f.of] # "none"
    BY <1>1 DEF Tells, PaymentFactTypes, RefundFactTypes, DisputeFactTypes
  <2>3. SessionSound(payment[f.of], session[f.of])
    BY <2>1 DEF PaymentInv, Links, OrderLinked
  <2>4. payment[f.of] # NoRow
    BY <2>2, <2>3 DEF SessionSound
  <2>5. QED
    BY <1>1, <2>1, <2>4, RowOf DEF PaymentFactTypes, RefundFactTypes, DisputeFactTypes
<1>2. CASE f.type \in RefundFactTypes
  <2>1. f.of \in RefundNos /\ OrderOf(f) = refund[f.of].order
        /\ AmountOf(f) = refund[f.of].amount
    BY <1>2, FactSubject DEF OrderOf, AmountOf
  <2>2. refund[f.of] # NoRow
    BY <1>2 DEF Tells, RefundFactTypes, DisputeFactTypes
  <2>3. refund[f.of] \in RefundRow /\ RefundLinked(f.of)
    BY <2>1, <2>2 DEF PaymentInv, Tables, Links
  <2>4. PICK o \in Orders : o = OrderOf(f) /\ session[o] = "paid"
    BY <2>1, <2>2, <2>3 DEF RefundRow, RefundLinked
  <2>5. SessionSound(payment[o], session[o])
    BY DEF PaymentInv, Links, OrderLinked
  <2>6. payment[o] # NoRow
    BY <2>4, <2>5 DEF SessionSound
  <2>7. AmountOf(f) \in Amounts
    BY <2>1, <2>3 DEF RefundRow
  <2>8. QED
    BY <2>4, <2>6, <2>7, RowOf
<1>3. CASE f.type \in DisputeFactTypes
  <2>1. f.of \in Disputes /\ OrderOf(f) = chargeback[f.of].order
        /\ AmountOf(f) = chargeback[f.of].amount
    BY <1>3, FactSubject DEF OrderOf, AmountOf, RefundFactTypes, DisputeFactTypes
  <2>2. chargeback[f.of] # NoRow
    BY <1>3 DEF Tells, RefundFactTypes, DisputeFactTypes
  <2>3. chargeback[f.of] \in ChargebackRow /\ DisputeLinked(f.of)
    BY <2>1, <2>2 DEF PaymentInv, Tables, Links
  <2>4. PICK o \in Orders : o = OrderOf(f) /\ session[o] = "paid"
    BY <2>1, <2>2, <2>3 DEF ChargebackRow, DisputeLinked
  <2>5. SessionSound(payment[o], session[o])
    BY DEF PaymentInv, Links, OrderLinked
  <2>6. payment[o] # NoRow
    BY <2>4, <2>5 DEF SessionSound
  <2>7. AmountOf(f) \in Amounts
    BY <2>1, <2>3 DEF ChargebackRow
  <2>8. QED
    BY <2>4, <2>6, <2>7, RowOf
<1>4. QED
  BY <1>1, <1>2, <1>3, FactSubject

\* EventPending of a checkout, EventFailed and EventExpired.
LEMMA ApplyCheckoutMoves ==
    ASSUME PaymentInv, NEW f \in Facts, Tells(f), NEW source, Applicable(f, source),
           ApplyCheckout(f), UNCHANGED providerVars
    PROVE  Moves
<1>1. PICK s \in {"pending", "failed", "expired", "closed"} :
        s = f.type /\ s \in {"pending", "failed", "expired"}
  BY DEF ApplyCheckout
<1>2. PICK o \in Orders : o = f.of /\ o = OrderOf(f) /\ payment[o] # NoRow
  <2>1. OrderOf(f) = f.of
    BY <1>1 DEF OrderOf, RefundFactTypes, DisputeFactTypes
  <2>2. QED
    BY <2>1, FactOrder
<1>3. payment[o].status \in {"created", "pending"}
  BY <1>1, <1>2 DEF Applicable, PaymentFactTypes, RefundFactTypes, DisputeFactTypes
<1>4. PICK trade \in BOOLEAN, failure \in BOOLEAN :
        trade = TRUE /\ failure = (s = "failed")
  OBVIOUS
<1>5. PICK new : new = CheckoutOf(payment[o], s, trade, failure)
  OBVIOUS
<1>6. /\ payment' = [payment EXCEPT ![o] = new]
      /\ UNCHANGED walletVars /\ UNCHANGED dispute
  BY <1>1, <1>2, <1>4, <1>5 DEF ApplyCheckout, OrderBecomes, CheckoutOf, walletVars
<1>7. s # "pending" => session[o] \in {"failed", "expired"}
  BY <1>1, <1>2 DEF Tells, RefundFactTypes, DisputeFactTypes
<1>8. CheckoutAllowed(o, s, trade)
  BY <1>1, <1>3, <1>4, <1>7 DEF CheckoutAllowed, AllowedTransitions, Credited
<1>9. /\ new \in OrderRow
      /\ RowAdvances(payment[o], new)
      /\ RowSound(new)
      /\ SessionSound(new, session[o])
      /\ Standing(new) = Standing(payment[o])
  BY <1>2, <1>5, <1>8, CheckoutRow
<1>10. QED
  BY <1>6, <1>9, OrderMoves

\* EventPending of a refund.
LEMMA ApplyRefundPendingMoves ==
    ASSUME PaymentInv, NEW f \in Facts, Tells(f), NEW source, ~Mismatch(f), ~Settled(f),
           Applicable(f, source), ApplyRefundPending(f), UNCHANGED providerVars
    PROVE  Moves
<1>1. f.type = "refund_pending"
  BY DEF ApplyRefundPending
<1>2. PICK o \in Orders : o = OrderOf(f)
  BY FactOrder
<1>3. PICK n \in RefundNos : n = f.of
  BY <1>1, FactSubject DEF RefundFactTypes
<1>4. payment[o].status = "refund_pending"
  BY <1>1, <1>2 DEF Settled
<1>5. Credited(payment[o]) /\ payment[o].refundNo \in {NoRefund, n}
  BY <1>1, <1>2, <1>3, <1>4 DEF Credited, Mismatch, RefundFactTypes
<1>6. PICK new : new = [payment[o] EXCEPT !.refundNo = n]
  OBVIOUS
<1>7. /\ payment' = [payment EXCEPT ![o] = new]
      /\ UNCHANGED walletVars /\ UNCHANGED dispute
  BY <1>2, <1>3, <1>6 DEF ApplyRefundPending, OrderBecomes, walletVars
<1>8. QED
  BY <1>5, <1>6, <1>7, RefundNoMoves

\* EventRefunded and EventRefundFailed of a refund that bablo started.
LEMMA ApplyRefundEndMoves ==
    ASSUME PaymentInv, NEW f \in Facts, Tells(f), NEW source, ~Mismatch(f), ~Settled(f),
           Applicable(f, source), ApplyRefunded(f) \/ ApplyRefundFailed(f),
           UNCHANGED providerVars
    PROVE  Moves
<1>1. f.type \in {"refunded", "refund_failed"}
  BY DEF ApplyRefunded, ApplyRefundFailed
<1>2. PICK o \in Orders : o = OrderOf(f) /\ payment[o] \in OrderRow
  BY FactOrder
<1>3. f.of \in RefundNos
  BY <1>1, FactSubject DEF RefundFactTypes
<1>4. PICK n : n = KnownAs(payment[o], f.of)
  OBVIOUS
<1>5. payment[o].status = "refund_pending"
  <2>1. CASE f.type = "refunded"
    BY <1>2, <2>1 DEF ApplyRefunded, ApplyRefundFailed
  <2>2. CASE f.type = "refund_failed"
    BY <1>2, <2>2 DEF Applicable, PaymentFactTypes, RefundFactTypes, DisputeFactTypes
  <2>3. QED
    BY <1>1, <2>1, <2>2
<1>6. RefundUnderWay(o, n)
  BY <1>2, <1>3, <1>4, <1>5 DEF RefundUnderWay, KnownAs, OrderRow
<1>7. PICK s \in {"paid", "refunded"} : s = IF f.type = "refunded" THEN "refunded" ELSE "paid"
  OBVIOUS
<1>8. PICK new : new = RefundEnded(payment[o], s, n)
  OBVIOUS
<1>9. payment' = [payment EXCEPT ![o] = new]
  BY <1>1, <1>2, <1>4, <1>7, <1>8 DEF ApplyRefunded, ApplyRefundFailed, OrderBecomes, RefundEnded
<1>10. /\ s = "paid" => W!ReleasePaymentRefundInTx(o, payment[o].wallet, payment[o].amount)
       /\ s = "refunded" => W!CompletePaymentRefundInTx(o, payment[o].wallet, payment[o].amount)
       /\ UNCHANGED <<reservation, settlement, liability>>
       /\ UNCHANGED dispute
  BY <1>1, <1>2, <1>7 DEF ApplyRefunded, ApplyRefundFailed, OrderBecomes
<1>11. payment' = [payment EXCEPT ![o] = RefundEnded(payment[o], s, n)]
  BY <1>8, <1>9
<1>12. QED
  BY <1>6, <1>10, <1>11, RefundEndMoves

\* Debts that claim what they claimed keep every reference.
LEMMA ClaimsKept ==
    ASSUME PaymentInv, NEW d,
           \A v \in Wallets : B!SameClaims(liability[v], liability'[v])
    PROVE  RefKept(d)
<1>1. \A v \in Wallets : Len(liability'[v]) = Len(liability[v])
  BY DEF B!SameClaims
<1>2. QED
  BY <1>1 DEF B!SameClaims, RefKept

\* One more debt, of another reference, keeps every reference.
LEMMA ClaimAdded ==
    ASSUME PaymentInv, NEW d, NEW ref, d # ref, NEW w \in Wallets, NEW reversed,
           B!OneMoreClaim(liability[w], liability'[w], ref, reversed),
           B!OthersKept(w)
    PROVE  RefKept(d)
<1>1. ASSUME NEW v \in Wallets
      PROVE  /\ \A i \in 1..Len(liability[v]) :
                  liability[v][i].ref = d =>
                    /\ i \in 1..Len(liability'[v])
                    /\ liability'[v][i].ref = d
                    /\ liability'[v][i].status = "reversed" <=>
                         liability[v][i].status = "reversed"
             /\ \A i \in 1..Len(liability'[v]) :
                  liability'[v][i].ref = d =>
                     i \in 1..Len(liability[v]) /\ liability[v][i].ref = d
  <2>1. CASE v = w
    <3>1. PICK old, new : old = liability[w] /\ new = liability'[w]
      OBVIOUS
    <3>2. Len(old) \in Nat
      BY <3>1 DEF PaymentInv, B!BooksInv, B!HoldInv, B!TypeInv, B!TypeOK
    <3>3. /\ Len(new) = Len(old) + 1
          /\ \A i \in 1..Len(old) :
                /\ new[i].ref = old[i].ref
                /\ new[i].status = "reversed" <=> old[i].status = "reversed"
          /\ new[Len(new)].ref = ref
      BY <3>1 DEF B!OneMoreClaim
    <3>4. \A i \in 1..Len(new) : i \in 1..Len(old) \/ i = Len(new)
      BY <3>2, <3>3
    <3>5. 1..Len(old) \subseteq 1..Len(new)
      BY <3>2, <3>3
    <3>6. QED
      BY <2>1, <3>1, <3>3, <3>4, <3>5
  <2>2. CASE v # w
    BY <2>2 DEF B!OthersKept
  <2>3. QED
    BY <2>1, <2>2
<1>2. QED
  BY <1>1 DEF RefKept

\* EventPaid is PayOrder of the wallet.
LEMMA ApplyPaidMoves ==
    ASSUME PaymentInv, NEW f \in Facts, Tells(f), NEW source, Applicable(f, source),
           ApplyPaid(f), UNCHANGED providerVars
    PROVE  Moves
<1>1. f.type = "paid"
  BY DEF ApplyPaid
<1>2. PICK o \in Orders : o = f.of /\ o = OrderOf(f)
  <2>1. OrderOf(f) = f.of
    BY <1>1 DEF OrderOf, RefundFactTypes, DisputeFactTypes
  <2>2. QED
    BY <2>1, FactOrder
<1>3. PICK row \in OrderRow : row = payment[o] /\ row # NoRow
  BY <1>2, FactOrder
<1>4. RowSound(row) /\ SessionSound(row, session[o])
  BY <1>3 DEF PaymentInv, Links, OrderLinked
<1>5. row.status \in {"created", "pending"} /\ session[o] = "paid"
  BY <1>1, <1>2, <1>3 DEF Applicable, Tells, PaymentFactTypes, RefundFactTypes, DisputeFactTypes
<1>6. ~Credited(row) /\ ~row.held /\ row.external = 0
  BY <1>3, <1>4, <1>5 DEF RowSound, Credited
<1>7. PICK new : new = [row EXCEPT !.status = "paid", !.trade = TRUE, !.failure = FALSE]
  OBVIOUS
<1>8. /\ payment' = [payment EXCEPT ![o] = new]
      /\ UNCHANGED <<reservation, settlement>> /\ UNCHANGED dispute
      /\ W!CreditInTx(row.wallet, "recharge", o, row.amount)
  BY <1>2, <1>3, <1>7 DEF ApplyPaid, OrderBecomes
<1>9. /\ new \in OrderRow
      /\ new.status = "paid" /\ new.held = row.held
      /\ new.trade = TRUE /\ new.failure = FALSE
      /\ new.wallet = row.wallet /\ new.amount = row.amount
      /\ new.refundNo = row.refundNo /\ new.external = row.external
  <2>1. OrderStatus = OrderStatus \cup {"paid"}
    BY DEF OrderStatus
  <2>2. QED
    BY <1>7, <2>1 DEF OrderRow
<1>10. Credited(new) /\ new # NoRow /\ ~new.held
  BY <1>6, <1>9, RowThere DEF Credited
<1>11. RowAdvances(row, new)
  <2>1. row.external \in 0..MaxMinor /\ new.external >= row.external
    BY <1>9 DEF OrderRow
  <2>2. Transition(row, new)
    BY <1>5, <1>6, <1>9, <2>1 DEF Transition, AllowedTransitions
  <2>3. QED
    BY <1>6, <1>9, <1>10, <2>2 DEF RowAdvances
<1>12. RowSound(new)
  BY <1>9, <1>10 DEF RowSound
<1>13. SessionSound(new, session[o])
  BY <1>5, <1>9, <1>10 DEF SessionSound
<1>14. /\ WalletOrders[o] = Standing(row)
       /\ WalletOrders' = [WalletOrders EXCEPT ![o] = Standing(new)]
  BY <1>3, <1>8, <1>9, OrderStands
<1>15. PICK w \in Wallets, a \in Amounts : w = row.wallet /\ a = row.amount
  BY DEF OrderRow
<1>16. /\ Standing(row) = NoRow
       /\ Standing(new) = [status |-> "paid", wallet |-> w, amount |-> a]
  BY <1>6, <1>9, <1>10, <1>15 DEF Standing
<1>17. B!CreditInTx(w, "recharge", o, a)
  BY <1>8, <1>15, SameCredit
<1>18. B!PayOrder(o, w, a)
  BY <1>8, <1>14, <1>16, <1>17 DEF B!PayOrder, B!NoRow, NoRow
<1>19. B!Next
  BY <1>18 DEF B!Next, B!FundingNext
<1>20. /\ \A v \in Wallets : B!SameClaims(liability[v], liability'[v])
       /\ B!PostsOnly({"recharge", "liability_recovery"})
       /\ \E entry \in ledger' : entry.type = "recharge" /\ entry.of = o
       /\ \A entry \in ledger' \ ledger :
            entry.type = "liability_recovery" \/ (entry.type = "recharge" /\ entry.of = o)
  <2>1. B!TypeInv
    BY DEF PaymentInv, B!BooksInv, B!HoldInv
  <2>2. "recharge" \in B!EntryTypes
    BY DEF B!EntryTypes
  <2>3. a \in Amounts \cup B!Debits
    OBVIOUS
  <2>4. QED
    BY <1>17, <2>1, <2>2, <2>3, WalletConstants, B!CreditClaims
<1>21. /\ ledger \subseteq ledger'
       /\ \A entry \in ledger' \ ledger :
            entry.type \in {"recharge", "payment_reversal"} => entry.of = o
  BY <1>20 DEF B!PostsOnly
<1>22. Posted(o)'
  <2>1. Posted(o) /\ payment'[o] = new
    BY <1>8, <1>9, OneOrder DEF PaymentInv, Links
  <2>2. ~Reversed(o)
    BY <1>3, <1>6, <2>1 DEF Posted, Credited
  <2>3. ~Reversed(o)'
    BY <1>20, <2>2 DEF Reversed
  <2>4. QED
    BY <1>10, <1>20, <2>1, <2>3 DEF Posted
<1>23. \A d \in Disputes : RefKept(d)
  BY <1>20, ClaimsKept
<1>24. QED
  BY <1>3, <1>8, <1>9, <1>11, <1>12, <1>13, <1>19, <1>21, <1>22, <1>23, MoneyMoves

\* A refund that bablo did not start, as far as the order knows, was made at the
\* console.
LEMMA RefundOutside ==
    ASSUME PaymentInv, NEW n \in RefundNos, refund[n] # NoRow,
           ~payment[refund[n].order].held
    PROVE  n \in ExternalRefunds
<1>1. ASSUME n \in Orders PROVE FALSE
  <2>1. refund[n].order = n
    BY <1>1 DEF PaymentInv, Links, RefundLinked
  <2>2. Made(n, "refund") /\ "refund" \in OperationTypes
    BY DEF Made, OperationTypes
  <2>3. KeyLinked(n) /\ OperationSound(payment[n], operation[n])
    BY <1>1 DEF PaymentInv, Links, OrderLinked
  <2>4. operation[n]["refund"] # NoRow
    BY <2>2, <2>3 DEF KeyLinked
  <2>5. payment[n].held
    BY <2>3, <2>4 DEF OperationSound
  <2>6. QED
    BY <2>1, <2>5
<1>2. QED
  BY <1>1 DEF RefundNos

\* The row of an order after a refund from outside.
LEMMA ExternalRow ==
    ASSUME PaymentInv, NEW o \in Orders, payment[o] # NoRow,
           TakesExternalRefund(payment[o]),
           NEW a \in Amounts, payment[o].external + a <= payment[o].amount,
           NEW new, new = ExternallyRefunded(payment[o], a)
    PROVE  /\ new \in OrderRow
           /\ RowAdvances(payment[o], new)
           /\ RowSound(new)
           /\ SessionSound(new, session[o])
           /\ Standing(new) = Standing(payment[o])
<1>1. PICK row \in OrderRow : row = payment[o] /\ row # NoRow
  BY RowOf
<1>2. RowSound(row) /\ SessionSound(row, session[o])
  BY <1>1 DEF PaymentInv, Links, OrderLinked
<1>3. row.status = "paid" /\ ~row.held
  BY <1>1 DEF TakesExternalRefund
<1>4. PICK total : total = row.external + a
  OBVIOUS
<1>5. total \in 0..MaxMinor /\ total >= row.external
  <2>1. /\ row.external \in 0..MaxMinor /\ row.amount \in 1..MaxMinor
        /\ a \in 1..MaxMinor /\ MaxMinor \in Nat
    BY WalletAssumption DEF OrderRow
  <2>2. QED
    BY <1>1, <1>4, <2>1
<1>6. PICK s \in {"paid", "refunded"} :
        s = IF total = row.amount THEN "refunded" ELSE "paid"
  OBVIOUS
<1>7. new = [row EXCEPT !.external = total, !.failure = FALSE, !.status = s]
  <2>1. (IF total = row.amount THEN "refunded" ELSE row.status) = s
    BY <1>3, <1>6
  <2>2. new = [row EXCEPT !.external = total, !.failure = FALSE,
                          !.status = IF total = row.amount THEN "refunded" ELSE @]
    BY <1>1, <1>4 DEF ExternallyRefunded, OrderRow
  <2>3. QED
    BY <2>1, <2>2 DEF OrderRow
<1>8. /\ new \in OrderRow
      /\ new.status = s /\ new.held = row.held
      /\ new.trade = row.trade /\ new.failure = FALSE
      /\ new.wallet = row.wallet /\ new.amount = row.amount
      /\ new.refundNo = row.refundNo /\ new.external = total
  <2>1. OrderStatus = OrderStatus \cup {s}
    BY DEF OrderStatus
  <2>2. QED
    BY <1>5, <1>7, <2>1 DEF OrderRow
<1>9. Credited(new) /\ Credited(row) /\ new # NoRow /\ ~new.held
  BY <1>3, <1>8, RowThere DEF Credited
<1>10. RowAdvances(row, new)
  <2>1. Transition(row, new)
    BY <1>3, <1>5, <1>8 DEF Transition, AllowedTransitions
  <2>2. QED
    BY <1>3, <1>8, <1>9, <2>1 DEF RowAdvances
<1>11. RowSound(new)
  BY <1>8, <1>9 DEF RowSound
<1>12. SessionSound(new, session[o])
  BY <1>2, <1>8, <1>9 DEF SessionSound
<1>13. Standing(new) = Standing(row)
  BY <1>3, <1>8, <1>9 DEF Standing
<1>14. QED
  BY <1>1, <1>8, <1>10, <1>11, <1>12, <1>13

\* A refund from outside is OpenLiability of the wallet.
LEMMA ApplyExternalMoves ==
    ASSUME PaymentInv, NEW f \in Facts, Tells(f), NEW source, Applicable(f, source),
           applyExternalRefund(f), UNCHANGED providerVars
    PROVE  Moves
<1>1. f.type = "refunded"
  BY DEF applyExternalRefund
<1>2. PICK o \in Orders : o = OrderOf(f) /\ payment[o] # NoRow
  BY FactOrder
<1>3. PICK row \in OrderRow : row = payment[o]
  BY <1>2, RowOf
<1>4. PICK a \in Amounts : a = AmountOf(f)
  BY <1>1, FactOrder DEF RefundFactTypes
<1>5. row.status = "paid"
  BY <1>2, <1>3 DEF applyExternalRefund
<1>6. TakesExternalRefund(row) /\ row.external + a <= row.amount
  BY <1>1, <1>2, <1>3, <1>4, <1>5 DEF Applicable, PaymentFactTypes, RefundFactTypes, DisputeFactTypes
<1>7. PICK x \in ExternalRefunds : x = f.of
  <2>1. f.of \in RefundNos /\ refund[f.of] # NoRow /\ OrderOf(f) = refund[f.of].order
    BY <1>1, FactSubject DEF Tells, OrderOf, RefundFactTypes, DisputeFactTypes
  <2>2. ~payment[refund[f.of].order].held
    BY <1>2, <1>3, <1>6, <2>1 DEF TakesExternalRefund
  <2>3. QED
    BY <2>1, <2>2, RefundOutside
<1>8. x \in References /\ x \notin Disputes
  BY ReferencesAssumption
<1>9. PICK new : new = ExternallyRefunded(payment[o], a)
  OBVIOUS
<1>10. /\ payment' = [payment EXCEPT ![o] = new]
       /\ UNCHANGED <<reservation, settlement>> /\ UNCHANGED dispute
       /\ W!OpenLiabilityInTx(x, row.wallet, a)
  BY <1>2, <1>3, <1>4, <1>7, <1>9 DEF applyExternalRefund, OrderBecomes
<1>11. /\ new \in OrderRow
       /\ RowAdvances(payment[o], new)
       /\ RowSound(new)
       /\ SessionSound(new, session[o])
       /\ Standing(new) = Standing(payment[o])
  BY <1>2, <1>3, <1>6, <1>9, ExternalRow
<1>12. PICK w \in Wallets : w = row.wallet
  BY DEF OrderRow
<1>13. B!OpenLiabilityInTx(x, w, a)
  BY <1>10, <1>12, SameOpen
<1>14. WalletOrders' = WalletOrders
  <2>1. /\ WalletOrders[o] = Standing(payment[o])
        /\ WalletOrders' = [WalletOrders EXCEPT ![o] = Standing(new)]
    BY <1>10, <1>11, OrderStands
  <2>2. WalletOrders = [p \in Orders |-> Standing(payment[p])]
    BY WalletOrdersStand
  <2>3. QED
    BY <1>11, <2>1, <2>2
<1>15. B!OpenLiability(x, w, a)
  BY <1>10, <1>13, <1>14 DEF B!OpenLiability
<1>16. B!Next
  BY <1>8, <1>15 DEF B!Next, B!FundingNext
<1>17. B!TypeInv
  BY DEF PaymentInv, B!BooksInv, B!HoldInv
<1>18. /\ B!OneMoreClaim(liability[w], liability'[w], x, FALSE)
       /\ B!OthersKept(w)
       /\ B!PostsOnly({"liability_open"})
  BY <1>13, <1>17, WalletConstants, B!OpenClaims
<1>19. ASSUME NEW d \in Disputes PROVE RefKept(d)
  <2>1. d # x
    BY <1>8
  <2>2. QED
    BY <1>18, <2>1, ClaimAdded
<1>20. /\ ledger \subseteq ledger'
       /\ \A entry \in ledger' \ ledger : entry.type = "liability_open"
  BY <1>18 DEF B!PostsOnly
<1>21. Posted(o)'
  <2>1. B!PostsOnly(B!EntryTypes \ {"recharge", "payment_reversal"})
    BY <1>20 DEF B!PostsOnly, B!EntryTypes
  <2>2. Standing(payment'[o]) = Standing(payment[o])
    BY <1>10, <1>11, OneOrder
  <2>3. QED
    BY <2>1, <2>2, PostedKept
<1>22. \A entry \in ledger' \ ledger :
          entry.type \in {"recharge", "payment_reversal"} => entry.of = o
  BY <1>20
<1>23. QED
  BY <1>10, <1>11, <1>16, <1>19, <1>20, <1>21, <1>22, MoneyMoves

\* The liability of dispute d that wallet w has, reversed or not.
Claimed(d, w, reversed) ==
    \E i \in 1..Len(liability[w]) :
        liability[w][i].ref = d /\ (liability[w][i].status = "reversed" <=> reversed)

\* A debt that is added is claimed.
LEMMA AddedIsClaimed ==
    ASSUME PaymentInv, NEW d, NEW w \in Wallets, NEW reversed,
           B!OneMoreClaim(liability[w], liability'[w], d, reversed)
    PROVE  Claimed(d, w, reversed)'
<1>1. Len(liability[w]) \in Nat
  BY DEF PaymentInv, B!BooksInv, B!HoldInv, B!TypeInv, B!TypeOK
<1>2. /\ Len(liability'[w]) = Len(liability[w]) + 1
      /\ liability'[w][Len(liability'[w])].ref = d
      /\ liability'[w][Len(liability'[w])].status = "reversed" <=> reversed
  BY DEF B!OneMoreClaim
<1>3. Len(liability'[w]) \in 1..Len(liability'[w])
  BY <1>1, <1>2
<1>4. QED
  BY <1>2, <1>3 DEF Claimed

\* A transaction that hears of dispute d.
LEMMA DisputeMoves ==
    ASSUME PaymentInv, UNCHANGED payment, UNCHANGED providerVars, [B!Next]_(B!vars),
           B!PostsOnly({"liability_open", "liability_reversal", "liability_recovery"}),
           NEW d \in Disputes, NEW s \in DisputeFactTypes,
           dispute' = [dispute EXCEPT ![d] = s],
           chargeback[d] # NoRow,
           Claimed(d, payment[chargeback[d].order].wallet, s = "dispute_won")',
           \A e \in Disputes \ {d} : RefKept(e)
    PROVE  Moves
<1>1. payment' = payment
  OBVIOUS
<1>2. \A p \in Orders : Standing(payment'[p]) = Standing(payment[p])
  BY <1>1
<1>3. B!PostsOnly(B!EntryTypes \ {"recharge", "payment_reversal"})
  BY DEF B!PostsOnly, B!EntryTypes
<1>4. \A p \in Orders : Posted(p)'
  BY <1>2, <1>3, PostedKept
<1>5. SessionsAdvance /\ ChargebacksAdvance
  BY ProviderStill DEF ProviderAdvances
<1>6. OrdersAdvance
  BY <1>1, RowStays DEF OrdersAdvance
<1>7. /\ dispute' \in [Disputes -> DisputeFactTypes \cup {"none"}]
      /\ dispute'[d] = s /\ s # "none"
      /\ \A e \in Disputes \ {d} : dispute'[e] = dispute[e]
  BY DEF PaymentInv, Tables, DisputeFactTypes
<1>8. chargeback' = chargeback /\ session' = session
  BY DEF providerVars
<1>9. ASSUME NEW e \in Disputes PROVE DisputeLinked(e)'
  <2>1. CASE e = d
    <3>1. DisputeLinked(d)
      BY DEF PaymentInv, Links
    <3>2. chargeback'[d] # NoRow /\ session'[chargeback'[d].order] = "paid"
      BY <1>8, <3>1 DEF DisputeLinked
    <3>3. \E i \in 1..Len(liability'[payment'[chargeback'[d].order].wallet]) :
             /\ liability'[payment'[chargeback'[d].order].wallet][i].ref = d
             /\ liability'[payment'[chargeback'[d].order].wallet][i].status = "reversed"
                  <=> dispute'[d] = "dispute_won"
      BY <1>7 DEF Claimed
    <3>4. QED
      BY <1>7, <2>1, <3>2, <3>3 DEF DisputeLinked
  <2>2. CASE e # d
    <3>1. dispute'[e] = dispute[e] /\ chargeback'[e] = chargeback[e]
      BY <1>7, <1>8, <2>2
    <3>2. chargeback[e] # NoRow \/ chargeback'[e] = NoRow
      BY <3>1
    <3>3. RefKept(e)
      BY <2>2
    <3>4. QED
      BY <1>5, <1>6, <3>1, <3>2, <3>3, DisputeKept
  <2>3. QED
    BY <2>1, <2>2
<1>10. payment' \in [Orders -> OrderRow \cup {NoRow}]
  BY DEF PaymentInv, Tables
<1>11. \A p \in Orders : RowSound(payment'[p]) /\ SessionSound(payment'[p], session[p])
  BY <1>1 DEF PaymentInv, Links, OrderLinked
<1>12. QED
  BY <1>4, <1>6, <1>7, <1>9, <1>10, <1>11 DEF Moves

\* The liability that is reversed when a dispute is won is its own.
LEMMA DebtOfDispute ==
    ASSUME PaymentInv, NEW d \in Disputes, dispute[d] # "none", NEW w \in Wallets,
           w = payment[chargeback[d].order].wallet, NEW i, i = LiabilityOf(w, d)
    PROVE  i \in 1..Len(liability[w]) /\ liability[w][i].ref = d
<1>1. DisputeLinked(d)
  BY DEF PaymentInv, Links
<1>2. \E j \in 1..Len(liability[w]) : liability[w][j].ref = d
  BY <1>1 DEF DisputeLinked
<1>3. QED
  BY <1>2 DEF LiabilityOf

\* Reversing the debt of dispute d keeps every other reference.
LEMMA DebtReversed ==
    ASSUME PaymentInv, NEW d, NEW w \in Wallets, NEW i \in 1..Len(liability[w]),
           liability[w][i].ref = d,
           B!ClaimReversed(liability[w], liability'[w], i), B!OthersKept(w)
    PROVE  /\ Claimed(d, w, TRUE)'
           /\ \A e : e # d => RefKept(e)
<1>1. PICK old, new : old = liability[w] /\ new = liability'[w]
  OBVIOUS
<1>2. /\ Len(new) = Len(old)
      /\ \A j \in 1..Len(old) :
            /\ new[j].ref = old[j].ref
            /\ new[j].status = "reversed" <=> old[j].status = "reversed" \/ j = i
  BY <1>1 DEF B!ClaimReversed
<1>3. i \in 1..Len(new) /\ new[i].ref = d /\ new[i].status = "reversed"
  BY <1>1, <1>2
<1>4. Claimed(d, w, TRUE)'
  BY <1>1, <1>3 DEF Claimed
<1>5. ASSUME NEW e, e # d, NEW v \in Wallets
      PROVE  /\ \A j \in 1..Len(liability[v]) :
                  liability[v][j].ref = e =>
                    /\ j \in 1..Len(liability'[v])
                    /\ liability'[v][j].ref = e
                    /\ liability'[v][j].status = "reversed" <=>
                         liability[v][j].status = "reversed"
             /\ \A j \in 1..Len(liability'[v]) :
                  liability'[v][j].ref = e =>
                     j \in 1..Len(liability[v]) /\ liability[v][j].ref = e
  <2>1. CASE v = w
    BY <1>1, <1>2, <1>5, <2>1
  <2>2. CASE v # w
    BY <2>2 DEF B!OthersKept
  <2>3. QED
    BY <2>1, <2>2
<1>6. QED
  BY <1>4, <1>5 DEF RefKept

\* EventDisputeOpened, Won and Lost.
LEMMA ApplyDisputeMoves ==
    ASSUME PaymentInv, NEW f \in Facts, Tells(f), NEW source, Applicable(f, source),
           ~Settled(f), applyDisputeEvent(f), UNCHANGED providerVars
    PROVE  Moves
<1>1. PICK s \in DisputeFactTypes : s = f.type
  BY DEF applyDisputeEvent
<1>2. PICK d \in Disputes : d = f.of
  BY <1>1, FactSubject
<1>3. OrderOf(f) = chargeback[d].order /\ chargeback[d] # NoRow
  BY <1>1, <1>2 DEF OrderOf, Tells, RefundFactTypes, DisputeFactTypes
<1>4. PICK o \in Orders : o = OrderOf(f) /\ payment[o] \in OrderRow
  BY FactOrder
<1>5. PICK w \in Wallets : w = payment[o].wallet
  BY <1>4 DEF OrderRow
<1>6. PICK a \in Amounts : a = AmountOf(f)
  BY <1>1, FactOrder
<1>7. /\ DisputeEffect(f, w)
      /\ dispute' = [dispute EXCEPT ![d] = s]
      /\ UNCHANGED payment /\ UNCHANGED <<reservation, settlement>>
  BY <1>1, <1>2, <1>4, <1>5 DEF applyDisputeEvent
<1>8. WalletOrders' = WalletOrders
  BY <1>7, WalletOrdersStand
<1>9. B!TypeInv
  BY DEF PaymentInv, B!BooksInv, B!HoldInv
<1>10. d \in References
  BY ReferencesAssumption
<1>11. w = payment[chargeback[d].order].wallet /\ w = payment'[chargeback'[d].order].wallet
  BY <1>3, <1>4, <1>5, <1>7 DEF providerVars
<1>12. CASE dispute[d] = "none" /\ s # "dispute_won"
  <2>1. B!OpenLiabilityInTx(d, w, a)
    BY <1>1, <1>2, <1>6, <1>7, <1>12, SameOpen DEF DisputeEffect
  <2>2. [B!Next]_(B!vars)
    BY <1>7, <1>8, <1>10, <2>1 DEF B!Next, B!FundingNext, B!OpenLiability
  <2>3. /\ B!OneMoreClaim(liability[w], liability'[w], d, FALSE)
        /\ B!OthersKept(w)
        /\ B!PostsOnly({"liability_open"})
    BY <1>9, <2>1, WalletConstants, B!OpenClaims
  <2>4. Claimed(d, w, FALSE)'
    BY <2>3, AddedIsClaimed
  <2>5. Claimed(d, payment[chargeback[d].order].wallet, s = "dispute_won")'
    BY <1>11, <1>12, <2>4 DEF Claimed
  <2>6. \A e \in Disputes \ {d} : RefKept(e)
    BY <2>3, ClaimAdded
  <2>7. B!PostsOnly({"liability_open", "liability_reversal", "liability_recovery"})
    BY <2>3 DEF B!PostsOnly
  <2>8. QED
    BY <1>3, <1>7, <2>2, <2>5, <2>6, <2>7, DisputeMoves
<1>13. CASE dispute[d] = "none" /\ s = "dispute_won"
  <2>1. B!OpenReversedInTx(d, w, a)
    BY <1>1, <1>2, <1>6, <1>7, <1>13, SameOpenReversed DEF DisputeEffect
  <2>2. [B!Next]_(B!vars)
    BY <1>7, <1>8, <1>10, <2>1 DEF B!Next, B!FundingNext, B!OpenReversed
  <2>3. /\ B!OneMoreClaim(liability[w], liability'[w], d, TRUE)
        /\ B!OthersKept(w)
        /\ B!PostsOnly({"liability_open", "liability_reversal", "liability_recovery"})
    BY <1>9, <1>10, <2>1, WalletConstants, B!OpenReversedClaims
  <2>4. Claimed(d, w, TRUE)'
    BY <2>3, AddedIsClaimed
  <2>5. Claimed(d, payment[chargeback[d].order].wallet, s = "dispute_won")'
    BY <1>11, <1>13, <2>4 DEF Claimed
  <2>6. \A e \in Disputes \ {d} : RefKept(e)
    BY <2>3, ClaimAdded
  <2>7. QED
    BY <1>3, <1>7, <2>2, <2>3, <2>5, <2>6, DisputeMoves
<1>14. CASE dispute[d] = "dispute_opened" /\ s = "dispute_won"
  <2>1. PICK i : i = LiabilityOf(w, d)
    OBVIOUS
  <2>2. i \in 1..Len(liability[w]) /\ liability[w][i].ref = d
    BY <1>11, <1>14, <2>1, DebtOfDispute
  <2>3. B!ReverseLiabilityInTx(w, i)
    BY <1>1, <1>2, <1>7, <1>14, <2>1, SameReverse DEF DisputeEffect
  <2>4. [B!Next]_(B!vars)
    BY <1>7, <1>8, <2>2, <2>3 DEF B!Next, B!FundingNext, B!ReverseLiability
  <2>5. /\ B!ClaimReversed(liability[w], liability'[w], i)
        /\ B!OthersKept(w)
        /\ B!PostsOnly({"liability_open", "liability_reversal", "liability_recovery"})
    BY <1>9, <2>2, <2>3, WalletConstants, B!ReverseClaims
  <2>6. /\ Claimed(d, w, TRUE)'
        /\ \A e \in Disputes \ {d} : RefKept(e)
    BY <2>2, <2>5, DebtReversed
  <2>7. Claimed(d, payment[chargeback[d].order].wallet, s = "dispute_won")'
    BY <1>11, <1>14, <2>6 DEF Claimed
  <2>8. QED
    BY <1>3, <1>7, <2>4, <2>5, <2>6, <2>7, DisputeMoves
<1>15. CASE dispute[d] = "dispute_opened" /\ s = "dispute_lost"
  <2>1. UNCHANGED <<wallet, liability, ledger>>
    BY <1>1, <1>2, <1>7, <1>15 DEF DisputeEffect
  <2>2. UNCHANGED B!vars
    BY <1>7, <1>8, <2>1 DEF B!vars
  <2>3. /\ B!PostsOnly({"liability_open", "liability_reversal", "liability_recovery"})
        /\ \A e \in Disputes \ {d} : RefKept(e)
    BY <2>1, LiabilitiesStill DEF B!PostsOnly
  <2>4. \E i \in 1..Len(liability[w]) :
          /\ liability[w][i].ref = d
          /\ liability[w][i].status = "reversed" <=> dispute[d] = "dispute_won"
    <3>1. DisputeLinked(d)
      BY DEF PaymentInv, Links
    <3>2. dispute[d] # "none"
      BY <1>15
    <3>3. QED
      BY <1>11, <3>1, <3>2 DEF DisputeLinked
  <2>5. Claimed(d, payment[chargeback[d].order].wallet, s = "dispute_won")'
    BY <1>11, <1>15, <2>1, <2>4 DEF Claimed
  <2>6. QED
    BY <1>3, <1>7, <2>2, <2>3, <2>5, DisputeMoves
<1>16. QED
  BY <1>1, <1>2, <1>7, <1>12, <1>13, <1>14, <1>15 DEF DisputeEffect

\* An event that changes its order or its dispute.
LEMMA ApplyMoves ==
    ASSUME PaymentInv, NEW f \in Facts, Tells(f), NEW source, ~Mismatch(f), ~Settled(f),
           Applicable(f, source), Apply(f), UNCHANGED providerVars
    PROVE  Moves
<1>1. ASSUME ApplyRefunded(f) \/ ApplyRefundFailed(f) PROVE Moves
  BY <1>1, ApplyRefundEndMoves
<1>2. QED
  BY <1>1, ApplyCheckoutMoves, ApplyPaidMoves, ApplyRefundPendingMoves,
     ApplyExternalMoves, ApplyDisputeMoves DEF Apply

\* The operation of the fact: its order has one.
LEMMA EventOperation ==
    ASSUME PaymentInv, NEW f \in Facts, Tells(f), completeProviderOperationFromEvent(f)
    PROVE  OperationMoves(OrderOf(f), OperationType(f))
<1>1. PICK o \in Orders, t \in OperationTypes : o = OrderOf(f) /\ t = OperationType(f)
  BY FactOrder DEF OperationType, OperationTypes
<1>2. CASE operation' = operation
  BY <1>2 DEF OperationMoves
<1>3. CASE operation' # operation
  <2>1. /\ operation[o][t].status # "none"
        /\ operation' = [operation EXCEPT ![o][t].status = "succeeded",
                                          ![o][t].lease = FALSE]
    BY <1>1, <1>3 DEF completeProviderOperationFromEvent
  <2>2. operation[o][t] # NoRow
    BY <2>1 DEF NoRow
  <2>3. QED
    BY <1>1, <2>1, <2>2, OperationStatusSet
<1>4. QED
  BY <1>2, <1>3

\* A paid event of the webhook finds its order credited, or credits it.
LEMMA PaidIsCredited ==
    ASSUME PaymentInv, NEW f \in Facts, Tells(f), f.type = "paid",
           processAuthenticatedEvent(f, "webhook"), Moves
    PROVE  Credited(payment'[f.of])
<1>1. PICK o \in Orders : o = f.of /\ o = OrderOf(f)
  <2>1. OrderOf(f) = f.of
    BY DEF OrderOf, RefundFactTypes, DisputeFactTypes
  <2>2. QED
    BY <2>1, FactOrder
<1>2. PICK row \in OrderRow : row = payment[o] /\ row # NoRow
  BY <1>1, FactOrder
<1>3. CASE Credited(row)
  BY <1>1, <1>2, <1>3 DEF Moves, OrdersAdvance
<1>4. CASE ~Credited(row)
  <2>1. session[o] = "paid"
    BY <1>1 DEF Tells, RefundFactTypes, DisputeFactTypes
  <2>2. SessionSound(row, session[o])
    BY <1>2 DEF PaymentInv, Links, OrderLinked
  <2>3. row.status \in {"created", "pending"}
    BY <1>2, <1>4, <2>1, <2>2 DEF SessionSound, Credited, OrderRow, OrderStatus
  <2>4. ~Settled(f)
    BY <1>1, <1>2, <2>3 DEF Settled, RefundFactTypes, DisputeFactTypes
  <2>5. Applicable(f, "webhook")
    BY <1>1, <1>2, <2>3 DEF Applicable, DatedTooEarly, PaymentFactTypes
  <2>6. ~Mismatch(f)
    <3>1. AmountOf(f) = row.amount
      BY <1>1, <1>2 DEF AmountOf, RefundFactTypes, DisputeFactTypes
    <3>2. QED
      BY <1>1, <1>2, <3>1 DEF Mismatch, RefundFactTypes
  <2>7. Apply(f)
    BY <2>4, <2>5, <2>6 DEF processAuthenticatedEvent
  <2>8. ApplyPaid(f)
    BY <2>7 DEF Apply, ApplyCheckout, ApplyRefundPending, ApplyRefunded,
       ApplyRefundFailed, applyExternalRefund, applyDisputeEvent, DisputeFactTypes
  <2>9. payment' = [payment EXCEPT ![o] =
          [row EXCEPT !.status = "paid", !.trade = TRUE, !.failure = FALSE]]
    BY <1>1, <1>2, <2>8 DEF ApplyPaid, OrderBecomes
  <2>10. payment'[o].status = "paid"
    BY <2>9 DEF PaymentInv, Tables, OrderRow
  <2>11. QED
    BY <1>1, <2>10 DEF Credited
<1>5. QED
  BY <1>3, <1>4

\* An event of either source.
LEMMA EventSound ==
    ASSUME PaymentInv, NEW f \in Facts, Tells(f), NEW source \in Sources,
           processAuthenticatedEvent(f, source)
    PROVE  Moves /\ PaymentInv'
<1>1. call' = call /\ observed' = observed /\ UNCHANGED providerVars
  BY DEF processAuthenticatedEvent
<1>2. Moves
  <2>1. CASE UNCHANGED <<walletVars, payment, dispute>>
    BY <1>1, <2>1, NothingMoves
  <2>2. CASE ~Mismatch(f) /\ ~Settled(f) /\ Applicable(f, source) /\ Apply(f)
    BY <1>1, <2>2, ApplyMoves
  <2>3. QED
    BY <2>1, <2>2 DEF processAuthenticatedEvent
<1>3. PICK o \in Orders, t \in OperationTypes : o = OrderOf(f) /\ t = OperationType(f)
  BY FactOrder DEF OperationType, OperationTypes
<1>4. OperationMoves(o, t)
  <2>1. operation' = operation \/ completeProviderOperationFromEvent(f)
    BY DEF processAuthenticatedEvent
  <2>2. QED
    BY <1>3, <2>1, EventOperation DEF OperationMoves
<1>5. /\ operation' \in [Orders -> [OperationTypes -> OperationRow \cup {NoRow}]]
      /\ OperationsAdvance
      /\ \A p \in Orders : OperationSound(payment'[p], operation'[p])
  BY <1>2, <1>4, OperationMoved
<1>6. PICK status \in {"processed", "rejected"} : Recorded(f, source, status)
  <2>1. \/ Recorded(f, source, "rejected")
        \/ Recorded(f, source, IF Contradicted(f) THEN "rejected" ELSE "processed")
    BY DEF processAuthenticatedEvent
  <2>2. QED
    BY <2>1
<1>7. PICK e : e = [source |-> source, fact |-> f, status |-> status]
  OBVIOUS
<1>8. e \in Events /\ e.source = source /\ e.fact = f /\ event' = event \cup {e}
  BY <1>6, <1>7 DEF Events, Recorded
<1>9. event' \subseteq Events /\ call \subseteq Calls /\ observed \subseteq Facts
  BY <1>8 DEF PaymentInv, Tables
<1>10. \A new \in event' \ event :
         new.source = "webhook" /\ new.fact.type = "paid" => Credited(payment'[new.fact.of])
  <2>1. ASSUME source = "webhook", f.type = "paid" PROVE Credited(payment'[f.of])
    BY <1>2, <2>1, PaidIsCredited
  <2>2. QED
    BY <1>8, <2>1
<1>11. PaymentInv'
  BY <1>1, <1>2, <1>5, <1>9, <1>10, TransactionSound
<1>12. QED
  BY <1>2, <1>11

\* HandleWebhook and ProcessProviderState: what was observed the provider still
\* tells.
LEMMA EventNextSound ==
    ASSUME PaymentInv, EventNext
    PROVE  Moves /\ PaymentInv'
<1>1. "webhook" \in Sources /\ "api" \in Sources
  BY DEF Sources
<1>2. ASSUME NEW f \in Facts, HandleWebhook(f) PROVE Moves /\ PaymentInv'
  BY <1>1, <1>2, EventSound DEF HandleWebhook
<1>3. ASSUME NEW f \in observed, ProcessProviderState(f) PROVE Moves /\ PaymentInv'
  <2>1. f \in Facts /\ Tells(f)
    BY DEF PaymentInv, Tables, Links
  <2>2. QED
    BY <1>1, <1>3, <2>1, EventSound DEF ProcessProviderState
<1>4. QED
  BY <1>2, <1>3 DEF EventNext

-----------------------------------------------------------------------------
(* What the provider does *)

\* The provider takes a step that bablo does not see yet.
ProviderMoved ==
    /\ session' \in [Orders -> {"none", "open", "processing", "paid", "failed", "expired"}]
    /\ early' \in [Orders -> BOOLEAN]
    /\ key' \in [Orders -> [OperationTypes -> KeyStates]]
    /\ refund' \in [RefundNos -> RefundRow \cup {NoRow}]
    /\ chargeback' \in [Disputes -> ChargebackRow \cup {NoRow}]
    /\ ProviderAdvances
    /\ \A o \in Orders : SessionSound(payment[o], session'[o])
    /\ \A o \in Orders : KeyLinked(o)'
    /\ \A n \in RefundNos : refund[n] = NoRow => RefundLinked(n)'
    /\ \A d \in Disputes : \/ chargeback[d] # NoRow
                           \/ chargeback'[d] = NoRow
                           \/ session'[chargeback'[d].order] = "paid"

\* bablo's tables stay, but for the calls in flight.
TablesStill == UNCHANGED <<walletVars, payment, operation, dispute, event, observed>>

\* A step of the provider, part by part.
LEMMA ProviderSound ==
    ASSUME PaymentInv, ProviderMoved, TablesStill, call' \subseteq Calls,
           \A c \in call' \ call : CallLinked(c)
    PROVE  UNCHANGED B!vars /\ OrdersAdvance /\ PaymentInv'
<1>1. /\ UNCHANGED walletVars /\ payment' = payment /\ operation' = operation
      /\ dispute' = dispute /\ event' = event /\ observed' = observed
  BY DEF TablesStill
<1>2. \A o \in Orders : Standing(payment'[o]) = Standing(payment[o])
  BY <1>1
<1>3. UNCHANGED B!vars /\ \A d \in Disputes : RefKept(d)
  BY <1>1, <1>2, WalletsStill
<1>4. B!BooksInv'
  BY <1>3, WalletConstants, B!BooksInvNext DEF PaymentInv
<1>5. OrdersAdvance
  BY <1>1, RowStays DEF OrdersAdvance
<1>6. Tables'
  BY <1>1 DEF PaymentInv, Tables, ProviderMoved
<1>7. SessionsAdvance /\ RefundsAdvance /\ ChargebacksAdvance /\ ProviderAdvances
  BY DEF ProviderMoved, ProviderAdvances
<1>8. \A o \in Orders : OrderLinked(o)'
  BY <1>1 DEF ProviderMoved, PaymentInv, Links, OrderLinked
<1>9. B!PostsOnly(B!EntryTypes \ {"recharge", "payment_reversal"})
  BY <1>1 DEF walletVars, B!PostsOnly
<1>10. \A o \in Orders : Posted(o)'
  BY <1>2, <1>9, PostedKept
<1>11. \A n \in RefundNos : RefundLinked(n)'
  BY <1>7, RefundKept DEF ProviderMoved
<1>12. ASSUME NEW d \in Disputes PROVE DisputeLinked(d)'
  <2>1. dispute'[d] = dispute[d] /\ RefKept(d)
    BY <1>1, <1>3
  <2>2. chargeback[d] # NoRow \/ chargeback'[d] = NoRow \/ session'[chargeback'[d].order] = "paid"
    BY DEF ProviderMoved
  <2>3. QED
    BY <1>5, <1>7, <2>1, <2>2, DisputeKept
<1>13. \A c \in call' : CallLinked(c)'
  BY <1>1 DEF PaymentInv, Links, CallLinked
<1>14. ASSUME NEW f \in observed' PROVE Tells(f)'
  <2>1. f \in Facts /\ Tells(f)
    BY <1>1 DEF PaymentInv, Tables, Links
  <2>2. QED
    BY <1>7, <2>1, TellsKept
<1>15. PaidWebhookCredits'
  BY <1>1 DEF PaymentInv, Links, PaidWebhookCredits
<1>16. Links'
  BY <1>8, <1>10, <1>11, <1>12, <1>13, <1>14, <1>15 DEF Links, ProviderMoved
<1>17. QED
  BY <1>3, <1>4, <1>5, <1>6, <1>16 DEF PaymentInv

\* A provider that does nothing.
LEMMA ProviderRests ==
    ASSUME PaymentInv, UNCHANGED providerVars, UNCHANGED operation
    PROVE  ProviderMoved
<1>1. /\ session' = session /\ early' = early /\ key' = key /\ refund' = refund
      /\ chargeback' = chargeback
  BY DEF providerVars
<1>2. \A o \in Orders : KeyLinked(o)'
  BY <1>1 DEF PaymentInv, Links, KeyLinked, Made
<1>3. \A n \in RefundNos : refund[n] = NoRow => RefundLinked(n)'
  BY <1>1 DEF RefundLinked
<1>4. ProviderAdvances
  BY ProviderStill
<1>5. \A o \in Orders : SessionSound(payment[o], session'[o])
  BY <1>1 DEF PaymentInv, Links, OrderLinked
<1>6. QED
  BY <1>1, <1>2, <1>3, <1>4, <1>5 DEF ProviderMoved, PaymentInv, Tables

\* The session of an order moves and the rest of the provider does not.
LEMMA SessionMoved ==
    ASSUME PaymentInv, NEW o \in Orders,
           NEW s \in {"open", "processing", "paid", "failed", "expired"},
           session[o] \notin {"paid", "failed", "expired"},
           session[o] = "processing" => s \in {"paid", "failed"},
           SessionSound(payment[o], s), operation[o]["create"] # NoRow,
           session' = [session EXCEPT ![o] = s],
           early' \in [Orders -> BOOLEAN], UNCHANGED <<refund, chargeback>>,
           UNCHANGED operation,
           key' \in [Orders -> [OperationTypes -> KeyStates]],
           \A p \in Orders, t \in OperationTypes : key'[p][t] \in {key[p][t]} \cup FreeKeys,
           key'[o]["create"] \in FreeKeys
    PROVE  ProviderMoved
<1>1. /\ session' \in [Orders -> {"none", "open", "processing", "paid", "failed", "expired"}]
      /\ session'[o] = s
      /\ \A p \in Orders \ {o} : session'[p] = session[p]
  BY DEF PaymentInv, Tables
<1>2. SessionsAdvance
  BY <1>1 DEF SessionsAdvance
<1>3. RefundsAdvance /\ ChargebacksAdvance
  BY DEF RefundsAdvance, ChargebacksAdvance
<1>4. ASSUME NEW p \in Orders PROVE SessionSound(payment[p], session'[p])
  <2>1. CASE p = o
    BY <1>1, <2>1
  <2>2. CASE p # o
    BY <1>1, <2>2 DEF PaymentInv, Links, OrderLinked
  <2>3. QED
    BY <2>1, <2>2
<1>5. ASSUME NEW p \in Orders PROVE KeyLinked(p)'
  <2>1. KeyLinked(p)
    BY DEF PaymentInv, Links
  <2>2. ASSUME NEW t \in OperationTypes
        PROVE  /\ key'[p][t] \notin FreeKeys => operation[p][t] # NoRow /\ ~Made(p, t)'
               /\ Made(p, t)' => operation[p][t] # NoRow
    <3>1. CASE p = o /\ t = "create"
      BY <3>1
    <3>2. CASE ~(p = o /\ t = "create")
      <4>1. Made(p, t)' <=> Made(p, t)
        BY <1>1, <3>2 DEF Made, OperationTypes
      <4>2. key'[p][t] \notin FreeKeys => key[p][t] \notin FreeKeys
        OBVIOUS
      <4>3. QED
        BY <2>1, <4>1, <4>2 DEF KeyLinked
    <3>3. QED
      BY <3>1, <3>2
  <2>3. QED
    BY <2>2 DEF KeyLinked
<1>6. \A n \in RefundNos : refund[n] = NoRow => RefundLinked(n)'
  BY DEF RefundLinked
<1>7. /\ refund' \in [RefundNos -> RefundRow \cup {NoRow}]
      /\ chargeback' \in [Disputes -> ChargebackRow \cup {NoRow}]
      /\ \A d \in Disputes : chargeback[d] # NoRow \/ chargeback'[d] = NoRow
  BY DEF PaymentInv, Tables
<1>8. QED
  BY <1>1, <1>2, <1>3, <1>4, <1>5, <1>6, <1>7 DEF ProviderMoved, ProviderAdvances

\* CloseSession, and what happens to a session without bablo.
LEMMA SessionStep ==
    ASSUME PaymentInv, NEW o \in Orders, NEW s \in {"processing", "paid", "failed", "expired"},
           session[o] \in {"open", "processing"},
           session[o] = "processing" => s \in {"paid", "failed"},
           session[o] = "open" => s = "expired" \/ (payment[o].trade /\ s = "processing"),
           session' = [session EXCEPT ![o] = s],
           UNCHANGED <<early, key, refund, chargeback>>, TablesStill, UNCHANGED call
    PROVE  UNCHANGED B!vars /\ OrdersAdvance /\ PaymentInv'
<1>1. SessionSound(payment[o], session[o]) /\ KeyLinked(o)
  BY DEF PaymentInv, Links, OrderLinked
<1>2. SessionSound(payment[o], s)
  BY <1>1 DEF SessionSound
<1>3. Made(o, "create") /\ "create" \in OperationTypes
  BY DEF Made, OperationTypes
<1>4. operation[o]["create"] # NoRow /\ key[o]["create"] \in FreeKeys
  BY <1>1, <1>3 DEF KeyLinked
<1>5. /\ early' \in [Orders -> BOOLEAN]
      /\ key' \in [Orders -> [OperationTypes -> KeyStates]]
      /\ \A p \in Orders, t \in OperationTypes : key'[p][t] \in {key[p][t]} \cup FreeKeys
      /\ key'[o]["create"] \in FreeKeys
      /\ UNCHANGED <<refund, chargeback>> /\ UNCHANGED operation
  BY <1>4 DEF PaymentInv, Tables, TablesStill
<1>6. /\ s \in {"open", "processing", "paid", "failed", "expired"}
      /\ session[o] \notin {"paid", "failed", "expired"}
  OBVIOUS
<1>7. ProviderMoved
  BY <1>2, <1>4, <1>5, <1>6, SessionMoved
<1>8. call' = call /\ call' \subseteq Calls
  BY DEF PaymentInv, Tables
<1>9. QED
  BY <1>7, <1>8, ProviderSound

\* Every step that moves a session.
LEMMA SessionNextSound ==
    ASSUME PaymentInv, NEW o \in Orders,
           CloseSession(o) \/ StartPayment(o) \/ PaymentEnds(o) \/ SessionExpires(o)
    PROVE  UNCHANGED B!vars /\ OrdersAdvance /\ PaymentInv'
<1>1. PICK s \in {"processing", "paid", "failed", "expired"} :
        /\ session[o] \in {"open", "processing"}
        /\ session[o] = "processing" => s \in {"paid", "failed"}
        /\ session[o] = "open" => s = "expired" \/ (payment[o].trade /\ s = "processing")
        /\ session' = [session EXCEPT ![o] = s]
  <2>1. CASE CloseSession(o) \/ SessionExpires(o)
    <3>1. session[o] = "open" /\ session' = [session EXCEPT ![o] = "expired"]
      BY <2>1 DEF CloseSession, SessionExpires, SessionMoves
    <3>2. QED
      BY <3>1
  <2>2. CASE StartPayment(o)
    BY <2>2 DEF StartPayment, SessionMoves
  <2>3. CASE PaymentEnds(o)
    BY <2>3 DEF PaymentEnds, SessionMoves
  <2>4. QED
    BY <2>1, <2>2, <2>3
<1>2. UNCHANGED <<early, key, refund, chargeback>> /\ TablesStill /\ UNCHANGED call
  BY DEF CloseSession, StartPayment, PaymentEnds, SessionExpires, SessionMoves,
         ProviderMoves, TablesStill
<1>3. QED
  BY <1>1, <1>2, SessionStep

\* Keys and refunds move and no session does.
LEMMA KeysMoved ==
    ASSUME PaymentInv, UNCHANGED <<session, early, chargeback>>, UNCHANGED operation,
           key' \in [Orders -> [OperationTypes -> KeyStates]],
           refund' \in [RefundNos -> RefundRow \cup {NoRow}],
           RefundsAdvance, \A p \in Orders : KeyLinked(p)',
           \A n \in RefundNos : refund[n] = NoRow => RefundLinked(n)'
    PROVE  ProviderMoved
<1>1. session' = session /\ early' = early /\ chargeback' = chargeback
  OBVIOUS
<1>2. SessionsAdvance /\ ChargebacksAdvance
  BY <1>1 DEF SessionsAdvance, ChargebacksAdvance
<1>3. \A p \in Orders : SessionSound(payment[p], session'[p])
  BY <1>1 DEF PaymentInv, Links, OrderLinked
<1>4. QED
  BY <1>1, <1>2, <1>3 DEF ProviderMoved, ProviderAdvances, PaymentInv, Tables

\* One key moves and nothing else: refused or executing, of an operation that has
\* no result.
LEMMA KeyMoved ==
    ASSUME PaymentInv, NEW o \in Orders, NEW t \in OperationTypes,
           NEW k \in KeyStates, operation[o][t] # NoRow, ~Made(o, t),
           key' = [key EXCEPT ![o][t] = k],
           UNCHANGED <<session, early, chargeback>>, UNCHANGED refund, UNCHANGED operation
    PROVE  ProviderMoved
<1>1. /\ key' \in [Orders -> [OperationTypes -> KeyStates]]
      /\ \A p \in Orders, u \in OperationTypes :
           p # o \/ u # t => key'[p][u] = key[p][u]
  BY DEF PaymentInv, Tables
<1>2. \A p \in Orders, u \in OperationTypes : Made(p, u)' <=> Made(p, u)
  BY DEF Made
<1>3. ASSUME NEW p \in Orders PROVE KeyLinked(p)'
  <2>1. KeyLinked(p)
    BY DEF PaymentInv, Links
  <2>2. ASSUME NEW u \in OperationTypes
        PROVE  /\ key'[p][u] \notin FreeKeys => operation[p][u] # NoRow /\ ~Made(p, u)'
               /\ Made(p, u)' => operation[p][u] # NoRow
    <3>1. CASE p = o /\ u = t
      BY <1>2, <3>1
    <3>2. CASE ~(p = o /\ u = t)
      BY <1>1, <1>2, <2>1, <3>2 DEF KeyLinked
    <3>3. QED
      BY <3>1, <3>2
  <2>3. QED
    BY <2>2 DEF KeyLinked
<1>4. RefundsAdvance /\ refund' \in [RefundNos -> RefundRow \cup {NoRow}]
  BY DEF RefundsAdvance, PaymentInv, Tables
<1>5. \A n \in RefundNos : refund[n] = NoRow => RefundLinked(n)'
  BY DEF RefundLinked
<1>6. QED
  BY <1>1, <1>3, <1>4, <1>5, KeysMoved

\* A refund is made, by bablo's request or at the console.
LEMMA RefundMoved ==
    ASSUME PaymentInv, NEW o \in Orders, session[o] = "paid", NEW n \in RefundNos,
           refund[n] = NoRow, n \in Orders => n = o /\ operation[o]["refund"] # NoRow,
           NEW a \in Amounts, RefundMade(o, n, a),
           UNCHANGED <<session, early, chargeback>>, UNCHANGED operation,
           key' \in [Orders -> [OperationTypes -> KeyStates]],
           \A p \in Orders, t \in OperationTypes : key'[p][t] \in {key[p][t]} \cup FreeKeys,
           n \in Orders => key'[o]["refund"] \in FreeKeys
    PROVE  ProviderMoved
<1>1. PICK new : new = [order |-> o, amount |-> a, status |-> "refund_pending"]
  OBVIOUS
<1>2. new \in RefundRow /\ new # NoRow /\ new.order = o
  BY <1>1 DEF RefundRow, RefundFactTypes, NoRow
<1>3. /\ refund' \in [RefundNos -> RefundRow \cup {NoRow}]
      /\ refund'[n] = new
      /\ \A m \in RefundNos \ {n} : refund'[m] = refund[m]
  BY <1>1, <1>2 DEF PaymentInv, Tables, RefundMade
<1>4. RefundsAdvance
  BY <1>3 DEF RefundsAdvance
<1>5. ASSUME NEW m \in RefundNos, refund[m] = NoRow PROVE RefundLinked(m)'
  <2>1. CASE m = n
    BY <1>2, <1>3, <2>1 DEF RefundLinked
  <2>2. CASE m # n
    BY <1>3, <1>5, <2>2 DEF RefundLinked
  <2>3. QED
    BY <2>1, <2>2
<1>6. ASSUME NEW p \in Orders PROVE KeyLinked(p)'
  <2>1. KeyLinked(p) /\ p \in RefundNos
    BY DEF PaymentInv, Links, RefundNos
  <2>2. ASSUME NEW t \in OperationTypes
        PROVE  /\ key'[p][t] \notin FreeKeys => operation[p][t] # NoRow /\ ~Made(p, t)'
               /\ Made(p, t)' => operation[p][t] # NoRow
    <3>1. CASE p = n /\ t = "refund"
      BY <3>1
    <3>2. CASE ~(p = n /\ t = "refund")
      <4>1. Made(p, t)' <=> Made(p, t)
        BY <1>3, <2>1, <3>2 DEF Made, OperationTypes
      <4>2. key'[p][t] \notin FreeKeys => key[p][t] \notin FreeKeys
        OBVIOUS
      <4>3. QED
        BY <2>1, <4>1, <4>2 DEF KeyLinked
    <3>3. QED
      BY <3>1, <3>2
  <2>3. QED
    BY <2>2 DEF KeyLinked
<1>7. QED
  BY <1>3, <1>4, <1>5, <1>6, KeysMoved

\* The provider executes or refuses a request of an operation, or has done it.
LEMMA RequestMoved ==
    ASSUME PaymentInv, NEW o \in Orders, NEW t \in OperationTypes,
           operation[o][t] # NoRow,
           Execute(o, t) \/ Refuse(o, t) \/ Replay(o, t),
           UNCHANGED chargeback, UNCHANGED operation
    PROVE  ProviderMoved
<1>1. OperationSound(payment[o], operation[o]) /\ SessionSound(payment[o], session[o])
      /\ RowSound(payment[o])
  BY DEF PaymentInv, Links, OrderLinked
<1>2. CASE Replay(o, t)
  BY <1>2, ProviderRests DEF Replay, providerVars
<1>3. CASE Refuse(o, t)
  <2>1. PICK k \in {"refused"} : TRUE
    OBVIOUS
  <2>2. key' = [key EXCEPT ![o][t] = k] /\ k \in KeyStates
        /\ UNCHANGED <<session, early, chargeback>> /\ UNCHANGED refund /\ ~Made(o, t)
    BY <1>3, <2>1 DEF Refuse, KeyStates
  <2>3. QED
    BY <2>2, KeyMoved
<1>4. CASE Execute(o, t)
  <2>1. PICK k \in FreeKeys :
          key' = [key EXCEPT ![o][t] = k] /\ Make(o, t) /\ ~Made(o, t)
    BY <1>4 DEF Execute, FreeKeys
  <2>2. /\ key' \in [Orders -> [OperationTypes -> KeyStates]]
        /\ \A p \in Orders, u \in OperationTypes : key'[p][u] \in {key[p][u]} \cup FreeKeys
        /\ key'[o][t] \in FreeKeys
    BY <2>1 DEF PaymentInv, Tables, KeyStates, FreeKeys
  <2>3. CASE t = "create"
    <3>1. PICK s \in {"open"} : TRUE
      OBVIOUS
    <3>2. /\ session' = [session EXCEPT ![o] = s]
          /\ early' \in [Orders -> BOOLEAN]
          /\ UNCHANGED <<refund, chargeback>>
      BY <2>1, <2>3, <3>1 DEF Make, PaymentInv, Tables
    <3>3. session[o] = "none"
      BY <2>1, <2>3 DEF Made
    <3>4. payment[o] # NoRow
      BY <1>1, <2>3 DEF OperationSound
    <3>5. SessionSound(payment[o], s)
      BY <1>1, <3>1, <3>3, <3>4 DEF SessionSound
    <3>6. /\ s \in {"open", "processing", "paid", "failed", "expired"}
          /\ session[o] \notin {"paid", "failed", "expired"}
          /\ session[o] # "processing"
          /\ operation[o]["create"] # NoRow /\ key'[o]["create"] \in FreeKeys
      BY <2>2, <2>3, <3>1, <3>3
    <3>7. QED
      BY <2>2, <3>2, <3>5, <3>6, SessionMoved
  <2>4. CASE t = "refund"
    <3>1. PICK a : a = payment[o].amount
      OBVIOUS
    <3>2. RefundMade(o, o, a) /\ UNCHANGED <<session, early, chargeback>>
      BY <2>1, <2>4, <3>1 DEF Make
    <3>3. refund[o] = NoRow /\ o \in RefundNos
      BY <2>1, <2>4 DEF Made, RefundNos
    <3>4. payment[o] # NoRow /\ payment[o].held
      BY <1>1, <2>4 DEF OperationSound
    <3>5. session[o] = "paid"
      BY <1>1, <3>4 DEF RowSound, SessionSound
    <3>6. a \in Amounts
      BY <3>1, <3>4, RowOf DEF OrderRow
    <3>7. operation[o]["refund"] # NoRow /\ key'[o]["refund"] \in FreeKeys
      BY <2>2, <2>4
    <3>8. QED
      BY <2>2, <3>2, <3>3, <3>5, <3>6, <3>7, RefundMoved
  <2>5. QED
    BY <2>3, <2>4 DEF OperationTypes
<1>5. QED
  BY <1>2, <1>3, <1>4

\* A call gets its answer.
LEMMA AnswerKnown ==
    ASSUME PaymentInv, NEW c \in call, NEW answer \in {"ok", "rejected", "unknown"},
           Answered(c, answer)
    PROVE  /\ call' \subseteq Calls
           /\ \A d \in call' \ call : CallLinked(d)
<1>1. PICK new : new = [c EXCEPT !.answer = answer]
  OBVIOUS
<1>2. c \in Calls /\ operation[c.order][c.type] # NoRow
  BY CallOf
<1>3. new \in Calls /\ new.order = c.order /\ new.type = c.type
  BY <1>1, <1>2 DEF Calls
<1>4. call' = (call \ {c}) \cup {new}
  BY <1>1 DEF Answered
<1>5. QED
  BY <1>2, <1>3, <1>4 DEF CallLinked, PaymentInv, Tables

\* Requests at the provider: answered, lost, still executing, landed, or refused
\* for a conflict of keys.
LEMMA RequestNextSound ==
    ASSUME PaymentInv, RequestNext
    PROVE  UNCHANGED B!vars /\ OrdersAdvance /\ PaymentInv'
<1>1. ASSUME NEW c \in call, ProviderAnswers(c)
      PROVE  UNCHANGED B!vars /\ OrdersAdvance /\ PaymentInv'
  <2>1. PICK o \in Orders, t \in OperationTypes :
          o = c.order /\ t = c.type /\ operation[o][t] # NoRow
    BY CallOf
  <2>2. /\ Execute(o, t) \/ Refuse(o, t) \/ Replay(o, t)
        /\ UNCHANGED chargeback /\ UNCHANGED operation /\ TablesStill
    BY <1>1, <2>1 DEF ProviderAnswers, TablesStill
  <2>3. ProviderMoved
    BY <2>1, <2>2, RequestMoved
  <2>4. PICK answer \in {"ok", "rejected", "unknown"} : Answered(c, answer)
    BY <1>1 DEF ProviderAnswers, Lost
  <2>5. QED
    BY <2>2, <2>3, <2>4, AnswerKnown, ProviderSound
<1>2. ASSUME NEW c \in call, ProviderStalls(c)
      PROVE  UNCHANGED B!vars /\ OrdersAdvance /\ PaymentInv'
  <2>1. PICK o \in Orders, t \in OperationTypes :
          o = c.order /\ t = c.type /\ operation[o][t] # NoRow
    BY CallOf
  <2>2. PICK k \in KeyStates : k = "executing"
    BY DEF KeyStates
  <2>3. /\ key' = [key EXCEPT ![o][t] = k] /\ ~Made(o, t)
        /\ UNCHANGED <<session, early, chargeback>> /\ UNCHANGED refund
        /\ UNCHANGED operation /\ TablesStill
    BY <1>2, <2>1, <2>2 DEF ProviderStalls, TablesStill
  <2>4. ProviderMoved
    BY <2>1, <2>3, KeyMoved
  <2>5. PICK answer \in {"ok", "rejected", "unknown"} : Answered(c, answer)
    BY <1>2 DEF ProviderStalls, Lost
  <2>6. QED
    BY <2>3, <2>4, <2>5, AnswerKnown, ProviderSound
<1>3. ASSUME NEW c \in call, ProviderConflict(c)
      PROVE  UNCHANGED B!vars /\ OrdersAdvance /\ PaymentInv'
  <2>1. PICK o \in Orders, t \in OperationTypes :
          o = c.order /\ t = c.type /\ operation[o][t] # NoRow
    BY CallOf
  <2>2. PICK k \in KeyStates : k = "contested"
    BY DEF KeyStates
  <2>3. /\ key' = [key EXCEPT ![o][t] = k]
        /\ UNCHANGED <<session, early, chargeback>> /\ UNCHANGED refund
        /\ UNCHANGED operation /\ TablesStill
    BY <1>3, <2>1, <2>2 DEF ProviderConflict, TablesStill
  <2>4. KeyLinked(o) /\ key[o][t] \notin FreeKeys
    BY <1>3, <2>1 DEF PaymentInv, Links, ProviderConflict, InUse, FreeKeys
  <2>5. ~Made(o, t)
    BY <2>4 DEF KeyLinked
  <2>6. ProviderMoved
    BY <2>1, <2>3, <2>5, KeyMoved
  <2>7. PICK answer \in {"ok", "rejected", "unknown"} : Answered(c, answer)
    BY <1>3 DEF ProviderConflict
  <2>8. QED
    BY <2>3, <2>6, <2>7, AnswerKnown, ProviderSound
<1>4. ASSUME NEW o \in Orders, NEW t \in OperationTypes, ProviderLands(o, t)
      PROVE  UNCHANGED B!vars /\ OrdersAdvance /\ PaymentInv'
  <2>1. operation[o][t] # NoRow
    <3>1. KeyLinked(o) /\ key[o][t] \notin FreeKeys
      BY <1>4 DEF PaymentInv, Links, ProviderLands, InUse, FreeKeys
    <3>2. QED
      BY <3>1 DEF KeyLinked
  <2>2. /\ Execute(o, t) \/ Refuse(o, t) \/ Replay(o, t)
        /\ UNCHANGED chargeback /\ UNCHANGED operation /\ TablesStill /\ call' = call
    BY <1>4 DEF ProviderLands, TablesStill
  <2>3. ProviderMoved
    BY <2>1, <2>2, RequestMoved
  <2>4. call' \subseteq Calls
    BY <2>2 DEF PaymentInv, Tables
  <2>5. QED
    BY <2>2, <2>3, <2>4, ProviderSound
<1>5. QED
  BY <1>1, <1>2, <1>3, <1>4 DEF RequestNext

\* Refunds and disputes at the provider.
LEMMA ProviderNextSound ==
    ASSUME PaymentInv, ProviderNext
    PROVE  UNCHANGED B!vars /\ OrdersAdvance /\ PaymentInv'
<1>1. ASSUME NEW o \in Orders, StartPayment(o) \/ PaymentEnds(o) \/ SessionExpires(o)
      PROVE  UNCHANGED B!vars /\ OrdersAdvance /\ PaymentInv'
  BY <1>1, SessionNextSound
<1>2. call \subseteq Calls
  BY DEF PaymentInv, Tables
<1>3. ASSUME ProviderMoves
      PROVE  /\ TablesStill /\ call' = call /\ UNCHANGED operation /\ key' = key
             /\ early' = early
             /\ key' \in [Orders -> [OperationTypes -> KeyStates]]
             /\ \A p \in Orders, t \in OperationTypes : key'[p][t] \in {key[p][t]} \cup FreeKeys
  BY <1>3 DEF ProviderMoves, TablesStill, PaymentInv, Tables
<1>4. ASSUME NEW n \in RefundNos, RefundEnds(n)
      PROVE  UNCHANGED B!vars /\ OrdersAdvance /\ PaymentInv'
  <2>1. PICK s \in {"refunded", "refund_failed"} : refund' = [refund EXCEPT ![n].status = s]
    BY <1>4 DEF RefundEnds
  <2>2. ProviderMoves /\ session' = session /\ chargeback' = chargeback
        /\ refund[n].status = "refund_pending"
    BY <1>4 DEF RefundEnds
  <2>3. refund[n] \in RefundRow
    BY <2>2 DEF PaymentInv, Tables, NoRow
  <2>4. PICK new : new = [refund[n] EXCEPT !.status = s]
    OBVIOUS
  <2>5. new \in RefundRow /\ new # NoRow /\ new.order = refund[n].order
        /\ new.amount = refund[n].amount
    BY <2>3, <2>4 DEF RefundRow, RefundFactTypes, NoRow
  <2>6. refund[n] # NoRow
    BY <2>2 DEF NoRow
  <2>7. /\ refund' \in [RefundNos -> RefundRow \cup {NoRow}]
        /\ refund'[n] = new
        /\ \A m \in RefundNos \ {n} : refund'[m] = refund[m]
    BY <2>1, <2>4, <2>5 DEF PaymentInv, Tables
  <2>8. RefundsAdvance
    BY <2>2, <2>5, <2>7 DEF RefundsAdvance
  <2>9. \A m \in RefundNos : (refund'[m] # NoRow) <=> (refund[m] # NoRow)
    BY <2>5, <2>6, <2>7
  <2>10. \A m \in RefundNos : refund[m] = NoRow => RefundLinked(m)'
    BY <2>9 DEF RefundLinked
  <2>11. ASSUME NEW p \in Orders PROVE KeyLinked(p)'
    <3>1. KeyLinked(p) /\ p \in RefundNos
      BY DEF PaymentInv, Links, RefundNos
    <3>2. \A t \in OperationTypes : Made(p, t)' <=> Made(p, t)
      BY <2>2, <2>9, <3>1 DEF Made
    <3>3. key' = key /\ operation' = operation
      BY <1>3, <2>2
    <3>4. QED
      BY <3>1, <3>2, <3>3 DEF KeyLinked
  <2>12. ProviderMoved
    BY <1>3, <2>2, <2>7, <2>8, <2>10, <2>11, KeysMoved
  <2>13. QED
    BY <1>2, <1>3, <2>2, <2>12, ProviderSound
<1>5. ASSUME NEW x \in ExternalRefunds, NEW o \in Orders, NEW a \in Amounts,
             ExternalRefund(x, o, a)
      PROVE  UNCHANGED B!vars /\ OrdersAdvance /\ PaymentInv'
  <2>1. x \in RefundNos /\ x \notin Orders
    BY ReferencesAssumption DEF RefundNos
  <2>2. /\ refund[x] = NoRow /\ session[o] = "paid" /\ RefundMade(o, x, a)
        /\ ProviderMoves /\ session' = session /\ chargeback' = chargeback
    BY <1>5 DEF ExternalRefund
  <2>3. ProviderMoved
    BY <1>3, <2>1, <2>2, RefundMoved
  <2>4. QED
    BY <1>2, <1>3, <2>2, <2>3, ProviderSound
<1>6. ASSUME NEW d \in Disputes, NEW new \in ChargebackRow, ProviderMoves,
             chargeback' = [chargeback EXCEPT ![d] = new],
             session' = session, refund' = refund,
             session[new.order] = "paid",
             chargeback[d] # NoRow =>
               /\ new.order = chargeback[d].order /\ new.amount = chargeback[d].amount
               /\ chargeback[d].status = "dispute_opened"
      PROVE  UNCHANGED B!vars /\ OrdersAdvance /\ PaymentInv'
  <2>1. new # NoRow
    BY DEF ChargebackRow, DisputeFactTypes, NoRow
  <2>2. /\ chargeback' \in [Disputes -> ChargebackRow \cup {NoRow}]
        /\ chargeback'[d] = new
        /\ \A e \in Disputes \ {d} : chargeback'[e] = chargeback[e]
    BY <1>6 DEF PaymentInv, Tables
  <2>3. ChargebacksAdvance
    BY <1>6, <2>1, <2>2 DEF ChargebacksAdvance
  <2>4. SessionsAdvance /\ RefundsAdvance
    BY <1>6 DEF SessionsAdvance, RefundsAdvance
  <2>5. \A e \in Disputes : \/ chargeback[e] # NoRow
                            \/ chargeback'[e] = NoRow
                            \/ session'[chargeback'[e].order] = "paid"
    BY <1>6, <2>2
  <2>6. \A p \in Orders : SessionSound(payment[p], session'[p])
    BY <1>6 DEF PaymentInv, Links, OrderLinked
  <2>7. key' = key /\ operation' = operation /\ early' = early
    BY <1>3, <1>6
  <2>8. \A p \in Orders : KeyLinked(p)'
    BY <1>6, <2>7 DEF PaymentInv, Links, KeyLinked, Made
  <2>9. \A n \in RefundNos : refund[n] = NoRow => RefundLinked(n)'
    BY <1>6 DEF RefundLinked
  <2>10. ProviderMoved
    BY <1>6, <2>2, <2>3, <2>4, <2>5, <2>6, <2>7, <2>8, <2>9
       DEF ProviderMoved, ProviderAdvances, PaymentInv, Tables
  <2>11. QED
    BY <1>2, <1>3, <1>6, <2>10, ProviderSound
<1>7. ASSUME NEW d \in Disputes, NEW o \in Orders, NEW a \in Amounts, OpenDispute(d, o, a)
      PROVE  UNCHANGED B!vars /\ OrdersAdvance /\ PaymentInv'
  <2>1. PICK new : new = [order |-> o, amount |-> a, status |-> "dispute_opened"]
    OBVIOUS
  <2>2. new \in ChargebackRow /\ new.order = o
    BY <2>1 DEF ChargebackRow, DisputeFactTypes
  <2>3. /\ chargeback[d] = NoRow /\ session[o] = "paid" /\ ProviderMoves
        /\ chargeback' = [chargeback EXCEPT ![d] = new]
        /\ session' = session /\ refund' = refund
    BY <1>7, <2>1 DEF OpenDispute
  <2>4. QED
    BY <1>6, <2>2, <2>3
<1>8. ASSUME NEW d \in Disputes, DisputeEnds(d)
      PROVE  UNCHANGED B!vars /\ OrdersAdvance /\ PaymentInv'
  <2>1. PICK s \in {"dispute_won", "dispute_lost"} :
          chargeback' = [chargeback EXCEPT ![d].status = s]
    BY <1>8 DEF DisputeEnds
  <2>2. /\ chargeback[d].status = "dispute_opened" /\ ProviderMoves
        /\ session' = session /\ refund' = refund
    BY <1>8 DEF DisputeEnds
  <2>3. chargeback[d] \in ChargebackRow /\ chargeback[d] # NoRow
    BY <2>2 DEF PaymentInv, Tables, NoRow
  <2>4. PICK new : new = [chargeback[d] EXCEPT !.status = s]
    OBVIOUS
  <2>5. new \in ChargebackRow /\ new.order = chargeback[d].order
        /\ new.amount = chargeback[d].amount
    BY <2>3, <2>4 DEF ChargebackRow, DisputeFactTypes
  <2>6. chargeback' = [chargeback EXCEPT ![d] = new]
    BY <2>1, <2>4 DEF PaymentInv, Tables
  <2>7. session[new.order] = "paid"
    BY <2>3, <2>5 DEF PaymentInv, Links, DisputeLinked
  <2>8. QED
    BY <1>6, <2>2, <2>5, <2>6, <2>7
<1>9. QED
  BY <1>1, <1>4, <1>5, <1>7, <1>8 DEF ProviderNext

-----------------------------------------------------------------------------
(* Every step *)

\* Reservations, settlements and credits of the other users of the wallets.
LEMMA ElsewhereSound ==
    ASSUME PaymentInv, Elsewhere
    PROVE  Moves /\ PaymentInv'
<1>1. /\ payment' = payment /\ operation' = operation /\ call' = call
      /\ dispute' = dispute /\ event' = event /\ observed' = observed
      /\ UNCHANGED providerVars
  BY DEF Elsewhere, paymentVars
<1>2. B!TypeInv
  BY DEF PaymentInv, B!BooksInv, B!HoldInv
<1>3. /\ B!Next
      /\ B!PostsOnly(B!EntryTypes \ {"recharge", "payment_reversal"})
      /\ \A v \in Wallets : B!SameClaims(liability[v], liability'[v])
  <2>1. CASE W!UsageNext
    <3>1. B!UsageNext
      BY <2>1, SameUsage
    <3>2. /\ liability' = liability
          /\ B!PostsOnly({"reservation", "usage_charge", "settlement_release", "release"})
      BY <3>1, WalletConstants, B!UsageClaims
    <3>3. B!PostsOnly(B!EntryTypes \ {"recharge", "payment_reversal"})
      BY <3>2 DEF B!PostsOnly, B!EntryTypes
    <3>4. QED
      BY <3>1, <3>2, <3>3 DEF B!Next, B!SameClaims
  <2>2. ASSUME NEW c \in Credits, NEW w \in Wallets, NEW a \in Amounts \cup W!Debits,
               W!Credit(c, w, a)
        PROVE  /\ B!Next
               /\ B!PostsOnly(B!EntryTypes \ {"recharge", "payment_reversal"})
               /\ \A v \in Wallets : B!SameClaims(liability[v], liability'[v])
    <3>1. a \in Amounts \cup B!Debits /\ "credit" \in B!EntryTypes
      BY DEF W!Debits, B!Debits, B!EntryTypes
    <3>2. B!CreditInTx(w, "credit", c, a)
      BY <2>2, SameCredit DEF W!Credit
    <3>3. B!Credit(c, w, a)
      BY <2>2, <3>2 DEF W!Credit, B!Credit
    <3>4. B!Next
      BY <3>1, <3>3 DEF B!Next, B!FundingNext
    <3>5. /\ \A v \in Wallets : B!SameClaims(liability[v], liability'[v])
          /\ B!PostsOnly({"credit", "liability_recovery"})
      BY <1>2, <3>1, <3>2, WalletConstants, B!CreditClaims
    <3>6. B!PostsOnly(B!EntryTypes \ {"recharge", "payment_reversal"})
      BY <3>5 DEF B!PostsOnly, B!EntryTypes
    <3>7. QED
      BY <3>4, <3>5, <3>6
  <2>3. QED
    BY <2>1, <2>2 DEF Elsewhere
<1>4. \A p \in Orders : Standing(payment'[p]) = Standing(payment[p])
  BY <1>1
<1>5. \A p \in Orders : Posted(p)'
  BY <1>3, <1>4, PostedKept
<1>6. SessionsAdvance /\ ChargebacksAdvance
  BY <1>1, ProviderStill DEF ProviderAdvances
<1>7. OrdersAdvance
  BY <1>1, RowStays DEF OrdersAdvance
<1>8. ASSUME NEW d \in Disputes PROVE DisputeLinked(d)'
  <2>1. dispute'[d] = dispute[d] /\ chargeback'[d] = chargeback[d]
    BY <1>1 DEF providerVars
  <2>2. chargeback[d] # NoRow \/ chargeback'[d] = NoRow
    BY <2>1
  <2>3. RefKept(d)
    BY <1>3, ClaimsKept
  <2>4. QED
    BY <1>6, <1>7, <2>1, <2>2, <2>3, DisputeKept
<1>9. /\ payment' \in [Orders -> OrderRow \cup {NoRow}]
      /\ dispute' \in [Disputes -> DisputeFactTypes \cup {"none"}]
      /\ observed \subseteq Facts
  BY <1>1 DEF PaymentInv, Tables
<1>10. \A p \in Orders : RowSound(payment'[p]) /\ SessionSound(payment'[p], session[p])
  BY <1>1 DEF PaymentInv, Links, OrderLinked
<1>11. Moves
  BY <1>3, <1>5, <1>7, <1>8, <1>9, <1>10 DEF Moves
<1>12. PaymentInv'
  BY <1>1, <1>9, <1>11, OrderAloneSound
<1>13. QED
  BY <1>11, <1>12

\* No order, no call, no event.
LEMMA PaymentInvInit == Init => PaymentInv
<1> SUFFICES ASSUME Init PROVE PaymentInv
  OBVIOUS
<1>1. B!BooksInv
  BY SameInit, WalletConstants, B!BooksInvInit DEF Init
<1>2. Tables
  BY DEF Init, Tables, KeyStates
<1>3. ledger = {} /\ \A w \in Wallets : Len(liability[w]) = 0
  <2>1. B!Init
    BY SameInit DEF Init
  <2>2. QED
    BY <2>1 DEF B!Init
<1>4. ASSUME NEW o \in Orders PROVE OrderLinked(o) /\ KeyLinked(o) /\ Posted(o)
  <2>1. /\ payment[o] = NoRow /\ session[o] = "none" /\ o \in RefundNos
        /\ operation[o] = [t \in OperationTypes |-> NoRow]
        /\ key[o] = [t \in OperationTypes |-> "free"]
        /\ refund[o] = NoRow
    BY DEF Init, RefundNos
  <2>2. ~Credited(payment[o]) /\ payment[o].status # "refunded"
    BY <2>1 DEF Credited, NoRow
  <2>3. "create" \in OperationTypes /\ "refund" \in OperationTypes
    BY DEF OperationTypes
  <2>4. OrderLinked(o)
    BY <2>1, <2>2, <2>3 DEF OrderLinked, RowSound, SessionSound, OperationSound, NoRow
  <2>5. KeyLinked(o)
    BY <2>1 DEF KeyLinked, Made, FreeKeys
  <2>6. Posted(o)
    BY <1>3, <2>2 DEF Posted, Reversed
  <2>7. QED
    BY <2>4, <2>5, <2>6
<1>5. \A n \in RefundNos : RefundLinked(n)
  BY DEF Init, RefundLinked
<1>6. \A d \in Disputes : DisputeLinked(d)
  BY <1>3 DEF Init, DisputeLinked, B!NewReference
<1>7. /\ \A c \in call : CallLinked(c)
      /\ \A f \in observed : Tells(f)
      /\ PaidWebhookCredits
  BY DEF Init, PaidWebhookCredits
<1>8. QED
  BY <1>1, <1>2, <1>4, <1>5, <1>6, <1>7 DEF PaymentInv, Links

\* Every step is one of the wallets or leaves them, moves the orders along, and
\* keeps the invariant.
LEMMA PaymentStep ==
    ASSUME PaymentInv, [Next]_vars
    PROVE  [B!Next]_(B!vars) /\ OrdersAdvance /\ PaymentInv'
<1>1. ASSUME Moves, PaymentInv'
      PROVE  [B!Next]_(B!vars) /\ OrdersAdvance /\ PaymentInv'
  BY <1>1 DEF Moves
<1>2. ASSUME NEW o \in Orders, OrderNext(o)
      PROVE  [B!Next]_(B!vars) /\ OrdersAdvance /\ PaymentInv'
  BY <1>1, <1>2, CreateOrderSound, ClaimSound, LeaseExpiresSound, PrepareRefundSound,
     SessionNextSound, MarkExpiredSound, MarkClosedSound, ReconcileSound DEF OrderNext
<1>3. ASSUME NEW c \in call, CallNext(c)
      PROVE  [B!Next]_(B!vars) /\ OrdersAdvance /\ PaymentInv'
  BY <1>1, <1>3, CompleteCreateSound, FinishCreateSound, CompleteRefundSound,
     FinishRefundSound, CrashSound DEF CallNext, RolledBack
<1>4. ASSUME UNCHANGED vars
      PROVE  [B!Next]_(B!vars) /\ OrdersAdvance /\ PaymentInv'
  <2>1. UNCHANGED providerVars /\ UNCHANGED operation /\ TablesStill /\ call' = call
    BY <1>4 DEF vars, paymentVars, TablesStill
  <2>2. call' \subseteq Calls
    BY <2>1 DEF PaymentInv, Tables
  <2>3. QED
    BY <2>1, <2>2, ProviderRests, ProviderSound
<1>5. QED
  BY <1>1, <1>2, <1>3, <1>4, ElsewhereSound, RequestNextSound, ProviderNextSound,
     EventNextSound DEF Next

-----------------------------------------------------------------------------
(* Theorems *)

\* The types of the wallets, in both instances.
LEMMA SameTypes == W!TypeOK <=> B!TypeOK
BY DEF W!TypeOK, B!TypeOK, W!ReservationRow, B!ReservationRow, W!SettlementRow,
       B!SettlementRow, W!LiabilityRow, B!LiabilityRow, W!OrderRow, B!OrderRow,
       W!LedgerRow, B!LedgerRow, W!EntryTypes, B!EntryTypes, W!Subjects, B!Subjects,
       W!NoRow, B!NoRow

\* PaymentInv holds in every state.
LEMMA PaymentAlwaysSound == Spec => []PaymentInv
<1>1. PaymentInv /\ [Next]_vars => PaymentInv'
  BY PaymentStep
<1>2. QED
  BY <1>1, PaymentInvInit, PTL DEF Spec

\* Every transaction of internal/payment, whatever order provider calls, events
\* and refunds come in, is one operation of internal/billing on the wallets, or
\* leaves them: payment refines Wallet.
THEOREM PaymentImplementsWallet == Spec => WalletSpec
<1>1. Init => W!Init
  BY DEF Init
<1>2. PaymentInv /\ [Next]_vars => [UNCHANGED W!vars \/ W!Next]_(W!vars)
  <2>1. SUFFICES ASSUME PaymentInv, [Next]_vars PROVE UNCHANGED W!vars \/ W!Next
    OBVIOUS
  <2>2. B!Next \/ UNCHANGED B!vars
    BY <2>1, PaymentStep
  <2>3. UNCHANGED B!vars => UNCHANGED W!vars
    BY DEF B!vars, W!vars
  <2>4. QED
    BY <2>2, <2>3, SameNext
<1>3. QED
  BY <1>1, <1>2, PaymentAlwaysSound, PTL DEF Spec, WalletSpec

\* The books of the wallets balance and every charge is exact here too.
THEOREM PaymentBooksBalance == Spec => [](B!BooksBalance /\ B!ChargesExact)
<1>1. PaymentInv => B!BooksBalance /\ B!ChargesExact
  BY DEF PaymentInv, B!BooksInv, B!Books, B!HoldInv, B!TypeInv, B!BooksBalance, B!ChargesExact
<1>2. QED
  BY <1>1, PaymentAlwaysSound, PTL

\* The recharge of an order is in the ledger exactly while its row says that it
\* was paid, and then the provider has the money.
THEOREM MoneyIsCredited == Spec => []CreditedForMoney
<1>1. ASSUME PaymentInv PROVE CreditedForMoney
  <2>1. W!TypeOK
    BY <1>1, SameTypes DEF PaymentInv, B!BooksInv, B!HoldInv, B!TypeInv
  <2>2. PaymentTypeOK
    BY <1>1, <2>1 DEF PaymentInv, Tables, PaymentTypeOK
  <2>3. ASSUME NEW o \in Orders
        PROVE  /\ Credited(payment[o]) <=>
                     \E row \in ledger : row.type = "recharge" /\ row.of = o
               /\ Credited(payment[o]) => session[o] = "paid"
    <3>1. Posted(o) /\ SessionSound(payment[o], session[o])
      BY <1>1 DEF PaymentInv, Links, OrderLinked
    <3>2. QED
      BY <3>1 DEF Posted, SessionSound
  <2>4. QED
    BY <2>2, <2>3 DEF CreditedForMoney
<1>2. QED
  BY <1>1, PaymentAlwaysSound, PTL

\* A session that the customer has paid is never overtaken by expiry, close or a
\* failed create, and a paid webhook event is never spent without its credit.
THEOREM PaymentNeverLost == Spec => []NoPaymentLost
<1>1. ASSUME PaymentInv PROVE NoPaymentLost
  <2>1. ASSUME NEW o \in Orders, session[o] = "paid"
        PROVE  payment[o].status \in {"created", "pending"} \/ Credited(payment[o])
    <3>1. SessionSound(payment[o], session[o])
      BY <1>1 DEF PaymentInv, Links, OrderLinked
    <3>2. payment[o] # NoRow /\ payment[o].trade
      BY <2>1, <3>1 DEF SessionSound
    <3>3. payment[o].status \in OrderStatus
      BY <1>1, <3>2, RowOf DEF OrderRow
    <3>4. payment[o].status \notin {"failed", "expired", "closed"}
      BY <2>1, <3>1, <3>2 DEF SessionSound
    <3>5. QED
      BY <3>3, <3>4 DEF OrderStatus, Credited
  <2>2. QED
    BY <1>1, <2>1 DEF NoPaymentLost, PaidStaysOpen, PaymentInv, Links
<1>2. QED
  BY <1>1, PaymentAlwaysSound, PTL

\* The trigger bablo_validate_payment_order_transition refuses no update of the code
\* for its status or its facts; the date it also looks at is that of RolledBack.
THEOREM EdgesNeverRefused == Spec => TransitionsAllowed
<1>1. ASSUME PaymentInv, [Next]_vars
      PROVE  \A o \in Orders :
                payment[o] # NoRow =>
                  LET old == payment[o] new == payment'[o] IN
                  /\ \/ new.status = old.status
                     \/ <<old.status, new.status>> \in AllowedTransitions
                  /\ old.refundNo \in {NoRefund, new.refundNo}
                  /\ old.held => new.held
                  /\ old.trade => new.trade
                  /\ new.external >= old.external
  <2>1. OrdersAdvance
    BY <1>1, PaymentStep
  <2>2. QED
    BY <2>1 DEF OrdersAdvance, Transition
<1>2. QED
  BY <1>1, PaymentAlwaysSound, PTL DEF Spec, TransitionsAllowed

\* A dispute that bablo heard of has one liability, which stands unless the
\* dispute was won, in whatever order its events came.
THEOREM DisputeKeepsLiability == Spec => []DisputeMatchesLiability
<1>1. ASSUME PaymentInv, NEW d \in Disputes, NEW v \in Wallets,
             NEW j \in 1..Len(liability[v]), liability[v][j].ref = d
      PROVE  /\ dispute[d] # "none"
             /\ liability[v][j].status = "reversed" <=> dispute[d] = "dispute_won"
  <2>1. DisputeLinked(d)
    BY <1>1 DEF PaymentInv, Links
  <2>2. dispute[d] # "none"
    BY <1>1, <2>1 DEF DisputeLinked, B!NewReference
  <2>3. PICK w \in Wallets : w = payment[chargeback[d].order].wallet
    <3>1. chargeback[d] # NoRow /\ session[chargeback[d].order] = "paid"
      BY <2>1, <2>2 DEF DisputeLinked
    <3>2. PICK o \in Orders : o = chargeback[d].order
      BY <1>1, <3>1 DEF PaymentInv, Tables, ChargebackRow
    <3>3. SessionSound(payment[o], session[o])
      BY <1>1 DEF PaymentInv, Links, OrderLinked
    <3>4. payment[o] # NoRow
      BY <3>1, <3>2, <3>3 DEF SessionSound
    <3>5. QED
      BY <1>1, <3>2, <3>4, RowOf DEF OrderRow
  <2>4. PICK i \in 1..Len(liability[w]) :
          /\ liability[w][i].ref = d
          /\ liability[w][i].status = "reversed" <=> dispute[d] = "dispute_won"
    BY <2>1, <2>2, <2>3 DEF DisputeLinked
  <2>5. B!RefsUnique
    BY <1>1 DEF PaymentInv, B!BooksInv, B!Books
  <2>6. w = v /\ i = j
    BY <1>1, <2>4, <2>5 DEF B!RefsUnique
  <2>7. QED
    BY <2>2, <2>4, <2>6
<1>2. ASSUME PaymentInv, NEW d \in Disputes, dispute[d] # "none"
      PROVE  \E w \in Wallets : \E i \in 1..Len(liability[w]) : liability[w][i].ref = d
  <2>1. DisputeLinked(d)
    BY <1>2 DEF PaymentInv, Links
  <2>2. PICK w \in Wallets : w = payment[chargeback[d].order].wallet
    <3>1. chargeback[d] # NoRow /\ session[chargeback[d].order] = "paid"
      BY <1>2, <2>1 DEF DisputeLinked
    <3>2. PICK o \in Orders : o = chargeback[d].order
      BY <1>2, <3>1 DEF PaymentInv, Tables, ChargebackRow
    <3>3. SessionSound(payment[o], session[o])
      BY <1>2 DEF PaymentInv, Links, OrderLinked
    <3>4. payment[o] # NoRow
      BY <3>1, <3>2, <3>3 DEF SessionSound
    <3>5. QED
      BY <1>2, <3>2, <3>4, RowOf DEF OrderRow
  <2>3. QED
    BY <1>2, <2>1, <2>2 DEF DisputeLinked
<1>3. ASSUME PaymentInv PROVE DisputeMatchesLiability
  <2>1. SUFFICES ASSUME NEW d \in Disputes,
                        NEW debts, debts = UNION {{liability[w][i] : i \in 1..Len(liability[w])} :
                                                    w \in Wallets},
                        NEW own, own = {debt \in debts : debt.ref = d}
                 PROVE  /\ dispute[d] = "none" <=> own = {}
                        /\ \A debt \in own :
                              debt.status = "reversed" <=> dispute[d] = "dispute_won"
    BY DEF DisputeMatchesLiability
  <2>2. ASSUME NEW debt \in own
        PROVE  dispute[d] # "none" /\ (debt.status = "reversed" <=> dispute[d] = "dispute_won")
    <3>1. PICK v \in Wallets : debt \in {liability[v][i] : i \in 1..Len(liability[v])}
      BY <2>1, <2>2
    <3>2. PICK j \in 1..Len(liability[v]) : debt = liability[v][j]
      BY <3>1
    <3>3. liability[v][j].ref = d
      BY <2>1, <2>2, <3>2
    <3>4. QED
      BY <1>1, <1>3, <3>2, <3>3
  <2>3. ASSUME dispute[d] # "none" PROVE own # {}
    <3>1. PICK w \in Wallets : \E i \in 1..Len(liability[w]) : liability[w][i].ref = d
      BY <1>2, <1>3, <2>3
    <3>2. PICK i \in 1..Len(liability[w]) : liability[w][i].ref = d
      BY <3>1
    <3>3. liability[w][i] \in debts
      BY <2>1
    <3>4. QED
      BY <2>1, <3>2, <3>3
  <2>4. QED
    BY <2>2, <2>3
<1>4. QED
  BY <1>3, PaymentAlwaysSound, PTL

-----------------------------------------------------------------------------
(* The hold of a refund that the provider may still make.                      *)

\* A request under the key was rejected, rightly or for a conflict.
DeniedKeys == {"refused", "contested", "overruled"}

\* Why the hold of the refund of order o may have been released: the refund
\* failed, a request for it was rejected, or the order knows a refund that is not
\* its own.
Grounded(o) ==
    \/ refund[o].status = "refund_failed"
    \/ key[o]["refund"] \in DeniedKeys
    \/ payment[o].refundNo \notin {NoRefund, o}

\* A call that was rejected left its mark on the key.
RejectionKnown ==
    \A c \in call : c.answer = "rejected" => key[c.order][c.type] \in DeniedKeys

\* The hold of an order that is paid again was released for a good reason.
ReleaseKnown ==
    \A o \in Orders : payment[o].status = "paid" /\ payment[o].held => Grounded(o)

\* The strengthening of ReleasedRefundIsNotMade.
RefundInv == PaymentInv /\ RejectionKnown /\ ReleaseKnown

\* The mark of a rejection stays on the key.
KeysFinal ==
    \A o \in Orders, t \in OperationTypes :
        key[o][t] \in DeniedKeys => key'[o][t] \in DeniedKeys

\* No hold is released in this step, but for a refund that is not made.
ReleasesKnown ==
    \A o \in Orders :
        payment'[o].status = "paid" /\ payment'[o].held =>
           (payment[o].status = "paid" /\ payment[o].held) \/ Grounded(o)'

\* No call is rejected in this step without its key.
RejectionsKnown ==
    \A c \in call' \ call : c.answer = "rejected" => key'[c.order][c.type] \in DeniedKeys

\* The refunds a step of the provider leaves or ends.
LEMMA ProviderRefunds ==
    ASSUME PaymentInv, ProviderNext
    PROVE  RefundsAdvance
<1>1. refund \in [RefundNos -> RefundRow \cup {NoRow}]
  BY DEF PaymentInv, Tables
<1>2. CASE refund' = refund
  BY <1>2 DEF RefundsAdvance
<1>3. ASSUME NEW n \in RefundNos, RefundEnds(n) PROVE RefundsAdvance
  <2>1. PICK s \in {"refunded", "refund_failed"} :
          refund' = [refund EXCEPT ![n].status = s] /\ refund[n].status = "refund_pending"
    BY <1>3 DEF RefundEnds
  <2>2. refund[n] \in RefundRow
    BY <1>1, <2>1 DEF NoRow
  <2>3. /\ refund'[n].order = refund[n].order /\ refund'[n].amount = refund[n].amount
        /\ refund'[n].status = s
        /\ \A m \in RefundNos \ {n} : refund'[m] = refund[m]
    BY <1>1, <2>1, <2>2 DEF RefundRow
  <2>4. refund'[n] # NoRow
    BY <2>3 DEF NoRow
  <2>5. QED
    BY <2>1, <2>3, <2>4 DEF RefundsAdvance
<1>4. ASSUME NEW x \in ExternalRefunds, NEW o \in Orders, NEW a \in Amounts,
             ExternalRefund(x, o, a)
      PROVE  RefundsAdvance
  BY <1>1, <1>4 DEF ExternalRefund, RefundMade, RefundNos, RefundsAdvance
<1>5. QED
  BY <1>2, <1>3, <1>4 DEF ProviderNext, StartPayment, PaymentEnds, SessionExpires,
     SessionMoves, DisputeEnds, OpenDispute

\* An event is of something the provider tells.
LEMMA EventFact ==
    ASSUME PaymentInv, EventNext
    PROVE  \E f \in Facts, source \in Sources :
              Tells(f) /\ processAuthenticatedEvent(f, source)
<1>1. "webhook" \in Sources /\ "api" \in Sources
  BY DEF Sources
<1>2. CASE \E f \in Facts : HandleWebhook(f)
  BY <1>1, <1>2 DEF HandleWebhook
<1>3. CASE \E f \in observed : ProcessProviderState(f)
  <2>1. PICK f \in observed : ProcessProviderState(f)
    BY <1>3
  <2>2. f \in Facts /\ Tells(f)
    BY DEF PaymentInv, Tables, Links
  <2>3. QED
    BY <1>1, <2>1, <2>2 DEF ProcessProviderState
<1>4. QED
  BY <1>2, <1>3 DEF EventNext

\* What a step has to keep.
LEMMA RefundInvKept ==
    ASSUME RefundInv, [Next]_vars, KeysFinal, RefundsAdvance, ReleasesKnown, RejectionsKnown
    PROVE  RefundInv'
<1>1. PaymentInv /\ RejectionKnown /\ ReleaseKnown
  BY DEF RefundInv
<1>2. PaymentInv' /\ OrdersAdvance
  BY <1>1, PaymentStep
<1>3. ASSUME NEW c \in call', c.answer = "rejected"
      PROVE  key'[c.order][c.type] \in DeniedKeys
  <2>1. CASE c \in call
    <3>1. key[c.order][c.type] \in DeniedKeys
      BY <1>1, <1>3, <2>1 DEF RejectionKnown
    <3>2. c.order \in Orders /\ c.type \in OperationTypes
      BY <1>1, <2>1, CallOf
    <3>3. QED
      BY <3>1, <3>2 DEF KeysFinal
  <2>2. QED
    BY <1>3, <2>1 DEF RejectionsKnown
<1>4. ASSUME NEW o \in Orders, Grounded(o), payment[o] # NoRow PROVE Grounded(o)'
  <2>1. o \in RefundNos /\ "refund" \in OperationTypes
    BY DEF RefundNos, OperationTypes
  <2>2. CASE refund[o].status = "refund_failed"
    <3>1. refund[o] # NoRow
      BY <2>2 DEF NoRow
    <3>2. QED
      BY <2>1, <2>2, <3>1 DEF RefundsAdvance, Grounded
  <2>3. CASE key[o]["refund"] \in DeniedKeys
    BY <2>1, <2>3 DEF KeysFinal, Grounded
  <2>4. CASE payment[o].refundNo \notin {NoRefund, o}
    BY <1>2, <1>4, <2>4 DEF OrdersAdvance, Transition, Grounded
  <2>5. QED
    BY <1>4, <2>2, <2>3, <2>4 DEF Grounded
<1>5. ReleaseKnown'
  <2>1. ASSUME NEW o \in Orders, payment'[o].status = "paid", payment'[o].held
        PROVE  Grounded(o)'
    <3>1. (payment[o].status = "paid" /\ payment[o].held) \/ Grounded(o)'
      BY <2>1 DEF ReleasesKnown
    <3>2. payment[o].status = "paid" => payment[o] # NoRow
      BY DEF NoRow
    <3>3. QED
      BY <1>1, <1>4, <3>1, <3>2 DEF ReleaseKnown
  <2>2. QED
    BY <2>1 DEF ReleaseKnown
<1>6. RejectionKnown'
  BY <1>3 DEF RejectionKnown
<1>7. QED
  BY <1>2, <1>5, <1>6 DEF RefundInv

\* A transaction that leaves the provider alone.
LEMMA TransactionKeeps ==
    ASSUME RefundInv, [Next]_vars, UNCHANGED providerVars, ReleasesKnown,
           \A c \in call' \ call : c.answer = "none"
    PROVE  RefundInv'
<1>1. KeysFinal
  BY DEF KeysFinal, providerVars
<1>2. RefundsAdvance
  BY ProviderStill DEF ProviderAdvances
<1>3. RejectionsKnown
  BY DEF RejectionsKnown
<1>4. QED
  BY <1>1, <1>2, <1>3, RefundInvKept

\* One order changes, and is not paid with a hold unless its refund is not made.
LEMMA OneRelease ==
    ASSUME PaymentInv, NEW o \in Orders, NEW new,
           payment' = [payment EXCEPT ![o] = new],
           new.status = "paid" /\ new.held => Grounded(o)'
    PROVE  ReleasesKnown
<1>1. payment'[o] = new /\ \A p \in Orders \ {o} : payment'[p] = payment[p]
  BY DEF PaymentInv, Tables
<1>2. ASSUME NEW p \in Orders, payment'[p].status = "paid", payment'[p].held
      PROVE  (payment[p].status = "paid" /\ payment[p].held) \/ Grounded(p)'
  <2>1. CASE p = o
    BY <1>1, <1>2, <2>1
  <2>2. CASE p # o
    <3>1. payment'[p] = payment[p]
      BY <1>1, <2>2
    <3>2. QED
      BY <1>2, <3>1
  <2>3. QED
    BY <2>1, <2>2
<1>3. QED
  BY <1>2 DEF ReleasesKnown

\* No order changes.
LEMMA NoRelease ==
    ASSUME UNCHANGED payment
    PROVE  ReleasesKnown
BY DEF ReleasesKnown

\* The steps of an order but the release of a hold.
LEMMA OrderKeeps ==
    ASSUME RefundInv, [Next]_vars, NEW o \in Orders, OrderNext(o)
    PROVE  RefundInv'
<1>1. PaymentInv
  BY DEF RefundInv
<1>2. CASE \E w \in Wallets, a \in Amounts : CreateOrder(o, w, a)
  <2>1. PICK w \in Wallets, a \in Amounts : CreateOrder(o, w, a)
    BY <1>2
  <2>2. PICK new : new = [status |-> "created", wallet |-> w, amount |-> a,
                          trade |-> FALSE, refundNo |-> NoRefund, held |-> FALSE,
                          failure |-> FALSE, external |-> 0]
    OBVIOUS
  <2>3. payment' = [payment EXCEPT ![o] = new] /\ new.status # "paid"
    BY <2>1, <2>2 DEF CreateOrder
  <2>4. UNCHANGED providerVars /\ call' = call
    BY <2>1 DEF CreateOrder
  <2>5. QED
    BY <1>1, <2>3, <2>4, OneRelease, TransactionKeeps
<1>3. CASE \E t \in OperationTypes : ClaimProviderOperation(o, t) \/ LeaseExpires(o, t)
  <2>1. UNCHANGED payment /\ UNCHANGED providerVars
    BY <1>3 DEF ClaimProviderOperation, LeaseExpires
  <2>2. \A c \in call' \ call : c.answer = "none"
    BY <1>3 DEF ClaimProviderOperation, LeaseExpires
  <2>3. QED
    BY <2>1, <2>2, NoRelease, TransactionKeeps
<1>4. CASE PrepareRefund(o) \/ MarkExpired(o) \/ MarkClosed(o)
  <2>1. payment[o] \in OrderRow
    BY <1>1, <1>4, RowOf DEF PrepareRefund, MarkExpired, MarkClosed
  <2>2. PICK new : payment' = [payment EXCEPT ![o] = new] /\ new.status # "paid"
    <3>1. CASE PrepareRefund(o)
      <4>1. PICK new : new = [payment[o] EXCEPT !.status = "refund_pending", !.held = TRUE]
        OBVIOUS
      <4>2. payment' = [payment EXCEPT ![o] = new] /\ new.status = "refund_pending"
        BY <1>1, <2>1, <3>1, <4>1 DEF PrepareRefund, OrderRow, PaymentInv, Tables
      <4>3. QED
        BY <4>2
    <3>2. CASE MarkExpired(o)
      <4>1. PICK new : new = [payment[o] EXCEPT !.status = "expired"]
        OBVIOUS
      <4>2. payment' = [payment EXCEPT ![o] = new] /\ new.status = "expired"
        BY <1>1, <2>1, <3>2, <4>1 DEF MarkExpired, OrderRow, PaymentInv, Tables
      <4>3. QED
        BY <4>2
    <3>3. CASE MarkClosed(o)
      <4>1. PICK new : new = [payment[o] EXCEPT !.status = "closed"]
        OBVIOUS
      <4>2. payment' = [payment EXCEPT ![o] = new] /\ new.status = "closed"
        BY <1>1, <2>1, <3>3, <4>1 DEF MarkClosed, OrderRow, PaymentInv, Tables
      <4>3. QED
        BY <4>2
    <3>4. QED
      BY <1>4, <3>1, <3>2, <3>3
  <2>3. UNCHANGED providerVars /\ call' = call
    BY <1>4 DEF PrepareRefund, MarkExpired, MarkClosed
  <2>4. QED
    BY <1>1, <2>2, <2>3, OneRelease, TransactionKeeps
<1>5. CASE CloseSession(o)
  <2>1. UNCHANGED payment /\ call' = call /\ key' = key /\ refund' = refund
    BY <1>5 DEF CloseSession
  <2>2. KeysFinal /\ RefundsAdvance /\ RejectionsKnown
    BY <2>1 DEF KeysFinal, RefundsAdvance, RejectionsKnown
  <2>3. QED
    BY <2>1, <2>2, NoRelease, RefundInvKept
<1>6. CASE Reconcile(o)
  <2>1. UNCHANGED payment /\ UNCHANGED providerVars /\ call' = call
    BY <1>6 DEF Reconcile
  <2>2. QED
    BY <2>1, NoRelease, TransactionKeeps
<1>7. QED
  BY <1>2, <1>3, <1>4, <1>5, <1>6 DEF OrderNext

\* The answers of the provider: a hold is only released for a rejection.
LEMMA CallKeeps ==
    ASSUME RefundInv, [Next]_vars, NEW c \in call, CallNext(c)
    PROVE  RefundInv'
<1>1. PaymentInv /\ RejectionKnown
  BY DEF RefundInv
<1>2. PICK o \in Orders, t \in OperationTypes :
        o = c.order /\ t = c.type /\ payment[o] \in OrderRow
  BY <1>1, CallOf
<1>3. payment \in [Orders -> OrderRow \cup {NoRow}]
  BY <1>1 DEF PaymentInv, Tables
<1>4. UNCHANGED providerVars /\ call' = call \ {c}
  BY DEF CallNext, CompleteCreateOperation, FinishCreateOperation,
         CompleteRefundOperation, FinishRefundOperation, RolledBack, Crash, CallEnds
<1>5. ASSUME NEW new, payment' = [payment EXCEPT ![o] = new], new.status # "paid"
      PROVE  ReleasesKnown
  BY <1>1, <1>5, OneRelease
<1>6. CASE UNCHANGED payment
  BY <1>4, <1>6, NoRelease, TransactionKeeps
<1>7. CASE CompleteCreateOperation(c) /\ payment' # payment
  <2>1. PICK new : new = [payment[o] EXCEPT !.status = "pending", !.trade = TRUE,
                                            !.failure = FALSE]
    OBVIOUS
  <2>2. payment' = [payment EXCEPT ![o] = new] /\ new.status = "pending"
    BY <1>2, <1>3, <1>7, <2>1 DEF CompleteCreateOperation, OrderRow
  <2>3. QED
    BY <1>4, <1>5, <2>2, TransactionKeeps
<1>8. CASE FinishCreateOperation(c) /\ payment' # payment
  <2>1. PICK new : new = [payment[o] EXCEPT !.status = "failed", !.failure = TRUE]
    OBVIOUS
  <2>2. payment' = [payment EXCEPT ![o] = new] /\ new.status = "failed"
    BY <1>2, <1>3, <1>8, <2>1 DEF FinishCreateOperation, OrderRow
  <2>3. QED
    BY <1>4, <1>5, <2>2, TransactionKeeps
<1>9. CASE CompleteRefundOperation(c) /\ payment' # payment
  <2>1. PICK new : new = [payment[o] EXCEPT !.refundNo = o]
    OBVIOUS
  <2>2. payment' = [payment EXCEPT ![o] = new] /\ new.status = payment[o].status
        /\ payment[o].status # "paid"
    BY <1>2, <1>3, <1>9, <2>1 DEF CompleteRefundOperation, OrderRow
  <2>3. QED
    BY <1>4, <1>5, <2>2, TransactionKeeps
<1>10. CASE FinishRefundOperation(c) /\ payment' # payment
  <2>1. /\ payment' = [payment EXCEPT ![o].status = "paid", ![o].failure = TRUE]
        /\ c.answer = "rejected" /\ t = "refund"
    BY <1>2, <1>10 DEF FinishRefundOperation, RefundRefused
  <2>2. key[o]["refund"] \in DeniedKeys
    BY <1>1, <1>2, <2>1 DEF RejectionKnown
  <2>3. Grounded(o)'
    BY <1>4, <2>2 DEF Grounded, providerVars
  <2>4. PICK new : new = [payment[o] EXCEPT !.status = "paid", !.failure = TRUE]
    OBVIOUS
  <2>5. payment' = [payment EXCEPT ![o] = new]
    BY <1>3, <2>1, <2>4
  <2>6. ReleasesKnown
    BY <1>1, <2>3, <2>5, OneRelease
  <2>7. QED
    BY <1>4, <2>6, TransactionKeeps
<1>11. QED
  BY <1>6, <1>7, <1>8, <1>9, <1>10 DEF CallNext, RolledBack, Crash

\* Requests at the provider: a request under a key in use waits, or leaves the
\* mark of its rejection.
LEMMA RequestKeeps ==
    ASSUME RefundInv, [Next]_vars, RequestNext
    PROVE  RefundInv'
<1>1. PaymentInv
  BY DEF RefundInv
<1>2. key \in [Orders -> [OperationTypes -> KeyStates]]
  BY <1>1 DEF PaymentInv, Tables
<1>3. ASSUME NEW o \in Orders, NEW t \in OperationTypes, operation[o][t] # NoRow,
             Execute(o, t) \/ Refuse(o, t) \/ Replay(o, t),
             UNCHANGED chargeback, UNCHANGED operation
      PROVE  KeysFinal /\ RefundsAdvance
  <2>1. ProviderMoved
    BY <1>1, <1>3, RequestMoved
  <2>2. RefundsAdvance
    BY <2>1 DEF ProviderMoved, ProviderAdvances
  <2>3. KeysFinal
    <3>1. CASE Execute(o, t)
      BY <1>2, <3>1 DEF Execute, KeysFinal, DeniedKeys
    <3>2. CASE Refuse(o, t)
      BY <1>2, <3>2 DEF Refuse, KeysFinal, DeniedKeys
    <3>3. CASE Replay(o, t)
      BY <3>3 DEF Replay, KeysFinal
    <3>4. QED
      BY <1>3, <3>1, <3>2, <3>3
  <2>4. QED
    BY <2>2, <2>3
<1>4. ASSUME NEW c \in call, ProviderAnswers(c) PROVE RefundInv'
  <2>1. PICK o \in Orders, t \in OperationTypes :
          o = c.order /\ t = c.type /\ operation[o][t] # NoRow /\ c \in Calls
    BY <1>1, CallOf
  <2>2. /\ Execute(o, t) \/ Refuse(o, t) \/ Replay(o, t)
        /\ UNCHANGED chargeback /\ UNCHANGED operation /\ UNCHANGED payment
    BY <1>4, <2>1 DEF ProviderAnswers
  <2>3. KeysFinal /\ RefundsAdvance
    BY <1>3, <2>1, <2>2
  <2>4. RejectionsKnown
    <3>1. CASE Refuse(o, t)
      <4>1. key'[o][t] \in DeniedKeys
        BY <1>2, <3>1 DEF Refuse, DeniedKeys
      <4>2. PICK answer : Answered(c, answer)
        BY <1>4 DEF ProviderAnswers
      <4>3. ASSUME NEW d \in call' \ call PROVE d.order = o /\ d.type = t
        BY <2>1, <4>2 DEF Answered, Calls
      <4>4. QED
        BY <4>1, <4>3 DEF RejectionsKnown
    <3>2. CASE ~Refuse(o, t)
      <4>1. PICK answer \in {"ok", "unknown"} : Answered(c, answer)
        BY <1>4, <2>1, <3>2 DEF ProviderAnswers, Lost
      <4>2. \A d \in call' \ call : d.answer = answer
        BY <2>1, <4>1 DEF Answered, Calls
      <4>3. QED
        BY <4>2 DEF RejectionsKnown
    <3>3. QED
      BY <3>1, <3>2
  <2>5. QED
    BY <2>2, <2>3, <2>4, NoRelease, RefundInvKept
<1>5. ASSUME NEW c \in call, ProviderStalls(c) PROVE RefundInv'
  <2>1. PICK o \in Orders, t \in OperationTypes : o = c.order /\ t = c.type /\ c \in Calls
    BY <1>1, CallOf
  <2>2. /\ key[o][t] = "free" /\ key' = [key EXCEPT ![o][t] = "executing"]
        /\ UNCHANGED payment /\ refund' = refund
    BY <1>5, <2>1 DEF ProviderStalls
  <2>3. KeysFinal /\ RefundsAdvance
    BY <1>2, <2>2 DEF KeysFinal, RefundsAdvance, DeniedKeys
  <2>4. PICK answer \in {"unknown"} : Answered(c, answer)
    BY <1>5 DEF ProviderStalls, Lost
  <2>5. \A d \in call' \ call : d.answer = answer
    BY <2>1, <2>4 DEF Answered, Calls
  <2>6. RejectionsKnown
    BY <2>5 DEF RejectionsKnown
  <2>7. QED
    BY <2>2, <2>3, <2>6, NoRelease, RefundInvKept
<1>6. ASSUME NEW o \in Orders, NEW t \in OperationTypes, ProviderLands(o, t)
      PROVE  RefundInv'
  <2>1. operation[o][t] # NoRow
    <3>1. KeyLinked(o) /\ key[o][t] \notin FreeKeys
      BY <1>1, <1>6 DEF PaymentInv, Links, ProviderLands, InUse, FreeKeys
    <3>2. QED
      BY <3>1 DEF KeyLinked
  <2>2. /\ Execute(o, t) \/ Refuse(o, t) \/ Replay(o, t)
        /\ UNCHANGED chargeback /\ UNCHANGED operation /\ UNCHANGED payment
        /\ call' = call
    BY <1>6 DEF ProviderLands
  <2>3. KeysFinal /\ RefundsAdvance
    BY <1>3, <2>1, <2>2
  <2>4. RejectionsKnown
    BY <2>2 DEF RejectionsKnown
  <2>5. QED
    BY <2>2, <2>3, <2>4, NoRelease, RefundInvKept
<1>7. ASSUME NEW c \in call, ProviderConflict(c) PROVE RefundInv'
  <2>1. PICK o \in Orders, t \in OperationTypes : o = c.order /\ t = c.type /\ c \in Calls
    BY <1>1, CallOf
  <2>2. /\ key' = [key EXCEPT ![o][t] = "contested"]
        /\ UNCHANGED payment /\ refund' = refund
    BY <1>7, <2>1 DEF ProviderConflict
  <2>3. KeysFinal /\ RefundsAdvance
    BY <1>2, <2>2 DEF KeysFinal, RefundsAdvance, DeniedKeys
  <2>4. key'[o][t] \in DeniedKeys
    BY <1>2, <2>2 DEF DeniedKeys
  <2>5. Answered(c, "rejected")
    BY <1>7 DEF ProviderConflict
  <2>6. ASSUME NEW d \in call' \ call PROVE d.order = o /\ d.type = t
    BY <2>1, <2>5 DEF Answered, Calls
  <2>7. RejectionsKnown
    BY <2>4, <2>6 DEF RejectionsKnown
  <2>8. QED
    BY <2>2, <2>3, <2>7, NoRelease, RefundInvKept
<1>8. QED
  BY <1>4, <1>5, <1>6, <1>7 DEF RequestNext

\* The provider alone.
LEMMA ProviderKeeps ==
    ASSUME RefundInv, [Next]_vars, ProviderNext
    PROVE  RefundInv'
<1>1. PaymentInv
  BY DEF RefundInv
<1>2. UNCHANGED payment /\ call' = call /\ key' = key
  BY DEF ProviderNext, StartPayment, PaymentEnds, SessionExpires, SessionMoves,
         RefundEnds, DisputeEnds, ExternalRefund, OpenDispute, ProviderMoves
<1>3. RefundsAdvance
  BY <1>1, ProviderRefunds
<1>4. KeysFinal /\ RejectionsKnown
  BY <1>2 DEF KeysFinal, RejectionsKnown
<1>5. QED
  BY <1>2, <1>3, <1>4, NoRelease, RefundInvKept

\* Events: the refund that failed is bablo's own, or has a number that is not.
LEMMA EventKeeps ==
    ASSUME RefundInv, [Next]_vars, EventNext
    PROVE  RefundInv'
<1>1. PaymentInv
  BY DEF RefundInv
<1>2. PICK f \in Facts, source \in Sources : Tells(f) /\ processAuthenticatedEvent(f, source)
  BY <1>1, EventFact
<1>3. call' = call /\ UNCHANGED providerVars
  BY <1>2 DEF processAuthenticatedEvent
<1>4. PICK o \in Orders : o = OrderOf(f) /\ payment[o] \in OrderRow /\ payment[o] # NoRow
  BY <1>1, <1>2, FactOrder
<1>5. RowSound(payment[o])
  BY <1>1 DEF PaymentInv, Links, OrderLinked
<1>6. CASE UNCHANGED payment
  BY <1>3, <1>6, NoRelease, TransactionKeeps
<1>7. CASE ~Mismatch(f) /\ ~Settled(f) /\ Applicable(f, source) /\ Apply(f)
  <2>1. ASSUME NEW new, payment' = [payment EXCEPT ![o] = new],
               new.status = "paid" /\ new.held => Grounded(o)'
        PROVE  RefundInv'
    <3>1. ReleasesKnown
      BY <1>1, <2>1, OneRelease
    <3>2. QED
      BY <1>3, <3>1, TransactionKeeps
  <2>2. CASE ApplyCheckout(f)
    <3>1. f.type \in {"pending", "failed", "expired"} /\ OrderOf(f) = f.of
      BY <2>2 DEF ApplyCheckout, OrderOf, RefundFactTypes, DisputeFactTypes
    <3>2. PICK new : new = [payment[o] EXCEPT !.status = f.type, !.trade = TRUE,
                                              !.failure = f.type = "failed"]
      OBVIOUS
    <3>3. payment' = [payment EXCEPT ![o] = new] /\ new.status = f.type
      BY <1>4, <2>2, <3>1, <3>2 DEF ApplyCheckout, OrderBecomes, OrderRow
    <3>4. QED
      BY <2>1, <3>1, <3>3
  <2>3. CASE ApplyPaid(f)
    <3>1. f.type = "paid" /\ OrderOf(f) = f.of
      BY <2>3 DEF ApplyPaid, OrderOf, RefundFactTypes, DisputeFactTypes
    <3>2. payment[o].status \in {"created", "pending"}
      BY <1>4, <1>7, <3>1 DEF Applicable, PaymentFactTypes, RefundFactTypes, DisputeFactTypes
    <3>3. ~payment[o].held
      BY <1>4, <1>5, <3>2 DEF RowSound, Credited
    <3>4. PICK new : new = [payment[o] EXCEPT !.status = "paid", !.trade = TRUE,
                                              !.failure = FALSE]
      OBVIOUS
    <3>5. payment' = [payment EXCEPT ![o] = new] /\ new.held = payment[o].held
      BY <1>4, <2>3, <3>1, <3>4 DEF ApplyPaid, OrderBecomes, OrderRow
    <3>6. ~new.held
      BY <3>3, <3>5
    <3>7. QED
      BY <2>1, <3>5, <3>6
  <2>4. CASE ApplyRefundPending(f)
    <3>1. payment[o].status = "refund_pending"
      BY <1>4, <1>7, <2>4 DEF ApplyRefundPending, Settled
    <3>2. PICK new : new = [payment[o] EXCEPT !.refundNo = f.of]
      OBVIOUS
    <3>3. payment' = [payment EXCEPT ![o] = new] /\ new.status = payment[o].status
      BY <1>4, <2>4, <3>2 DEF ApplyRefundPending, OrderBecomes, OrderRow
    <3>4. QED
      BY <2>1, <3>1, <3>3
  <2>5. CASE ApplyRefunded(f)
    <3>1. PICK new : new = [payment[o] EXCEPT !.status = "refunded", !.failure = FALSE,
                                              !.refundNo = KnownAs(payment[o], f.of)]
      OBVIOUS
    <3>2. payment' = [payment EXCEPT ![o] = new] /\ new.status = "refunded"
      BY <1>4, <2>5, <3>1 DEF ApplyRefunded, OrderBecomes, OrderRow
    <3>3. QED
      BY <2>1, <3>2
  <2>6. CASE ApplyRefundFailed(f)
    <3>1. f.type = "refund_failed"
      BY <2>6 DEF ApplyRefundFailed
    <3>2. /\ f.of \in RefundNos /\ refund[f.of] # NoRow
          /\ refund[f.of].status = "refund_failed" /\ refund[f.of].order = o
      BY <1>2, <1>4, <3>1, FactSubject DEF Tells, OrderOf, RefundFactTypes, DisputeFactTypes
    <3>3. payment[o].refundNo \in {NoRefund, f.of}
      BY <1>4, <1>7, <3>1 DEF Mismatch, RefundFactTypes
    <3>4. f.of # NoRefund
      BY <3>2, NoRefundAssumption
    <3>5. KnownAs(payment[o], f.of) = f.of
      BY <3>3 DEF KnownAs
    <3>6. PICK new : new = [payment[o] EXCEPT !.status = "paid", !.failure = TRUE,
                                              !.refundNo = KnownAs(payment[o], f.of)]
      OBVIOUS
    <3>7. payment' = [payment EXCEPT ![o] = new]
      BY <1>4, <2>6, <3>6 DEF ApplyRefundFailed, OrderBecomes
    <3>8. payment'[o].refundNo = f.of
      BY <1>1, <1>4, <3>5, <3>6, <3>7 DEF OrderRow, PaymentInv, Tables
    <3>9. CASE f.of = o
      <4>1. Grounded(o)'
        BY <1>3, <3>2, <3>9 DEF Grounded, providerVars
      <4>2. QED
        BY <2>1, <3>7, <4>1
    <3>10. CASE f.of # o
      <4>1. Grounded(o)'
        BY <3>4, <3>8, <3>10 DEF Grounded
      <4>2. QED
        BY <2>1, <3>7, <4>1
    <3>11. QED
      BY <3>9, <3>10
  <2>7. CASE applyExternalRefund(f)
    <3>1. f.type = "refunded" /\ payment[o].status = "paid"
      BY <1>4, <2>7 DEF applyExternalRefund
    <3>2. TakesExternalRefund(payment[o])
      BY <1>4, <1>7, <3>1 DEF Applicable, PaymentFactTypes, RefundFactTypes, DisputeFactTypes
    <3>3. PICK new : new = ExternallyRefunded(payment[o], AmountOf(f))
      OBVIOUS
    <3>4. payment' = [payment EXCEPT ![o] = new]
      BY <1>4, <2>7, <3>3 DEF applyExternalRefund, OrderBecomes
    <3>5. new.held = payment[o].held
      BY <1>4, <3>3 DEF ExternallyRefunded, OrderRow
    <3>6. ~new.held
      BY <3>2, <3>5 DEF TakesExternalRefund
    <3>7. QED
      BY <2>1, <3>4, <3>6
  <2>8. CASE applyDisputeEvent(f)
    BY <1>6, <2>8 DEF applyDisputeEvent
  <2>9. QED
    BY <1>7, <2>2, <2>3, <2>4, <2>5, <2>6, <2>7, <2>8 DEF Apply
<1>8. QED
  BY <1>2, <1>6, <1>7 DEF processAuthenticatedEvent

\* Whatever crashes, leases, retries and events come between, the hold of a
\* refund is released under a refund that the provider makes only if a retry was
\* answered 409 or a refund made at the console was taken for bablo's own.
THEOREM ReleasedRefundNeverMade == Spec => []ReleasedRefundIsNotMade
<1>1. Init => RefundInv
  <2>1. SUFFICES ASSUME Init PROVE RefundInv
    OBVIOUS
  <2>2. PaymentInv
    BY <2>1, PaymentInvInit
  <2>3. RejectionKnown /\ ReleaseKnown
    BY <2>1 DEF Init, RejectionKnown, ReleaseKnown, NoRow
  <2>4. QED
    BY <2>2, <2>3 DEF RefundInv
<1>2. RefundInv /\ [Next]_vars => RefundInv'
  <2>1. SUFFICES ASSUME RefundInv, [Next]_vars PROVE RefundInv'
    OBVIOUS
  <2>2. CASE Elsewhere \/ UNCHANGED vars
    <3>1. UNCHANGED payment /\ UNCHANGED providerVars /\ call' = call
      BY <2>2 DEF Elsewhere, vars, paymentVars
    <3>2. QED
      BY <2>1, <3>1, NoRelease, TransactionKeeps
  <2>3. QED
    BY <2>1, <2>2, OrderKeeps, CallKeeps, RequestKeeps, ProviderKeeps, EventKeeps DEF Next
<1>3. RefundInv => ReleasedRefundIsNotMade
  <2>1. SUFFICES ASSUME RefundInv, NEW o \in Orders, Released(o), ~Misled(o)
                 PROVE  NotMade(o)
    BY DEF ReleasedRefundIsNotMade
  <2>2. Grounded(o) /\ KeyLinked(o) /\ "refund" \in OperationTypes
    BY <2>1 DEF RefundInv, ReleaseKnown, Released, PaymentInv, Links, OperationTypes
  <2>3. Made(o, "refund") <=> refund[o] # NoRow
    BY DEF Made
  <2>4. key[o]["refund"] \notin FreeKeys => refund[o] = NoRow
    BY <2>2, <2>3 DEF KeyLinked
  <2>5. CASE refund[o].status = "refund_failed"
    BY <2>4, <2>5 DEF NotMade, InUse, FreeKeys, NoRow
  <2>6. CASE key[o]["refund"] = "refused"
    BY <2>4, <2>6 DEF NotMade, InUse, FreeKeys, NoRow
  <2>7. QED
    BY <2>1, <2>2, <2>5, <2>6 DEF Grounded, Misled, DeniedKeys
<1>4. QED
  BY <1>1, <1>2, <1>3, PTL DEF Spec

-----------------------------------------------------------------------------
(* The totals of refunds *)

\* The amounts of the refunds.
RefundAmounts == [n \in RefundNos |-> refund[n].amount]

\* What the refunds S come to, with the amounts f.
SumOf(f, S) == B!SumFunctionOnSet(f, S)

\* A finite set is one for the lemmas about Wallet.
LEMMA SameFinite ==
    ASSUME NEW S
    PROVE  B!IsFiniteSet(S) <=> IsFiniteSet(S)
BY DEF B!IsFiniteSet, IsFiniteSet

\* The sums of Payment are the sums the lemmas about Wallet speak of.
LEMMA TotalByDefinition ==
    ASSUME NEW S \in SUBSET RefundNos, IsFiniteSet(S)
    PROVE  MapThenSumSet(LAMBDA n : refund[n].amount, S) = SumOf(RefundAmounts, S)
<1> DEFINE f == RefundAmounts
           Step(g, s) == IF s = {} THEN 0
                         ELSE LET x == CHOOSE y \in s : TRUE IN refund[x].amount + g[s \ {x}]
           Sums == CHOOSE g : g = [s \in SUBSET S |-> Step(g, s)]
<1>1. MapThenSumSet(LAMBDA n : refund[n].amount, S) = Sums[S]
  BY DEF MapThenSumSet, MapThenFoldSet
<1>2. ASSUME NEW g PROVE (g = [s \in SUBSET S |-> Step(g, s)]) <=> B!IsSum(f, S, g)
  <2>1. ASSUME NEW s \in SUBSET S PROVE Step(g, s) = B!SumStep(f, g, s)
    <3>1. CASE s = {}
      BY <3>1 DEF B!SumStep
    <3>2. CASE s # {}
      <4>1. PICK x \in s : x = CHOOSE y \in s : TRUE
        BY <3>2
      <4>2. f[x] = refund[x].amount
        BY <2>1, <4>1 DEF RefundAmounts
      <4>3. QED
        BY <3>2, <4>1, <4>2 DEF B!SumStep
    <3>3. QED
      BY <3>1, <3>2
  <2>2. QED
    BY <2>1 DEF B!IsSum
<1>3. PICK g : B!IsSum(f, S, g)
  <2>1. B!IsFiniteSet(S)
    BY SameFinite
  <2>2. \E g : B!IsSum(f, S, g)
    <3> HIDE DEF f
    <3> QED
    BY <2>1, WalletConstants, B!SumsExist
  <2>3. QED
    BY <2>2
<1>4. Sums = [s \in SUBSET S |-> Step(Sums, s)]
  <2>1. g = [s \in SUBSET S |-> Step(g, s)]
    BY <1>2, <1>3
  <2>2. QED
    BY <2>1, Zenon
<1>5. B!IsSum(f, S, Sums)
  BY <1>2, <1>4
<1>6. B!IsSum(f, S, B!SumsOf(f, S))
  BY <1>3 DEF B!SumsOf
<1>7. Sums[S] = B!SumsOf(f, S)[S]
  <2>1. B!IsFiniteSet(S) /\ S \in SUBSET S
    BY SameFinite
  <2> HIDE DEF Sums, f
  <2>2. QED
    BY <1>5, <1>6, <2>1, WalletConstants, B!SumsAgree
<1>8. QED
  BY <1>1, <1>7, WalletConstants, B!SumByDefinition DEF SumOf
\* Finitely many refunds with their amounts f.
Amounted(f, S) == IsFiniteSet(S) /\ \A n \in S : f[n] \in Nat

\* Part of them.
LEMMA PartAmounted ==
    ASSUME NEW f, NEW S, Amounted(f, S), NEW T \in SUBSET S
    PROVE  Amounted(f, T)
BY FS_Subset DEF Amounted

\* Any of them may be taken out of the sum.
LEMMA SumWithout ==
    ASSUME NEW f, NEW S, Amounted(f, S)
    PROVE  SumOf(f, S) \in Int /\ \A n \in S : SumOf(f, S) = f[n] + SumOf(f, S \ {n})
<1>1. B!IsFiniteSet(S) /\ \A x \in S : f[x] \in Int
  BY SameFinite DEF Amounted
<1>2. QED
  BY <1>1, WalletConstants, B!SumOfOne DEF SumOf

\* Nothing comes to zero.
LEMMA SumWithoutAny ==
    ASSUME NEW f
    PROVE  SumOf(f, {}) = 0
BY WalletConstants, B!SumOfNothing DEF SumOf

\* The sum of amounts is no less than zero.
LEMMA SumIsNatural ==
    ASSUME NEW f, NEW S, Amounted(f, S)
    PROVE  SumOf(f, S) \in Nat
<1> DEFINE Bad == {s \in SUBSET S : SumOf(f, s) \notin Nat}
<1>1. SUFFICES ASSUME Bad # {} PROVE FALSE
  BY S \in SUBSET S
<1>2. PICK s \in Bad : \A t \in Bad : ~(t \subseteq s /\ t # s)
  <2>1. Bad \subseteq SUBSET S /\ B!IsFiniteSet(S)
    BY SameFinite DEF Amounted
  <2> HIDE DEF Bad
  <2>2. QED
    BY <1>1, <2>1, WalletConstants, B!SmallestSubset
<1>3. s # {} /\ Amounted(f, s)
  <2>1. s \in SUBSET S /\ SumOf(f, s) \notin Nat
    OBVIOUS
  <2>2. QED
    BY <2>1, SumWithoutAny, PartAmounted
<1>4. PICK c \in s : TRUE
  BY <1>3
<1>5. SumOf(f, s) = f[c] + SumOf(f, s \ {c}) /\ f[c] \in Nat
  BY <1>3, <1>4, SumWithout DEF Amounted
<1>6. SumOf(f, s \ {c}) \in Nat
  BY <1>2, <1>4
<1>7. QED
  BY <1>5, <1>6

\* Part of the refunds comes to no more than all of them.
LEMMA SumOfPart ==
    ASSUME NEW f, NEW S, Amounted(f, S), NEW T \in SUBSET S
    PROVE  SumOf(f, T) <= SumOf(f, S)
<1>1. PICK R \in SUBSET S : R = S \ T
  OBVIOUS
<1>2. Amounted(f, T) /\ Amounted(f, R)
  BY PartAmounted
<1>3. SumOf(f, T) \in Nat /\ SumOf(f, R) \in Nat
  BY <1>2, SumIsNatural
<1>4. /\ B!IsFiniteSet(T) /\ B!IsFiniteSet(R) /\ T \cap R = {} /\ T \cup R = S
      /\ \A x \in T \cup R : f[x] \in Int
  BY <1>1, <1>2, SameFinite DEF Amounted
<1>5. SumOf(f, S) = SumOf(f, T) + SumOf(f, R)
  BY <1>4, WalletConstants, B!SumOfUnion DEF SumOf
<1>6. QED
  BY <1>3, <1>5

\* One more refund adds its amount.
LEMMA SumWith ==
    ASSUME NEW f, NEW S, Amounted(f, S), NEW n, n \notin S, f[n] \in Nat
    PROVE  SumOf(f, S \cup {n}) = SumOf(f, S) + f[n] /\ Amounted(f, S \cup {n})
<1>1. B!IsFiniteSet(S) /\ (\A x \in S : f[x] \in Int) /\ f[n] \in Int
  BY SameFinite DEF Amounted
<1>2. SumOf(f, S \cup {n}) = SumOf(f, S) + f[n]
  BY <1>1, WalletConstants, B!SumWithOneMore DEF SumOf
<1>3. Amounted(f, S \cup {n})
  BY FS_AddElement DEF Amounted
<1>4. QED
  BY <1>2, <1>3

\* The same amounts come to the same.
LEMMA SumSame ==
    ASSUME NEW f, NEW g, NEW S, Amounted(f, S), \A n \in S : g[n] = f[n]
    PROVE  SumOf(g, S) = SumOf(f, S) /\ Amounted(g, S)
<1>1. B!IsFiniteSet(S) /\ \A x \in S : g[x] = f[x]
  BY SameFinite DEF Amounted
<1>2. SumOf(g, S) = SumOf(f, S)
  BY <1>1, WalletConstants, B!SumOfEqual DEF SumOf
<1>3. QED
  BY <1>2 DEF Amounted
-----------------------------------------------------------------------------
(* Refunds from both sides come to no more than the order *)

\* The refunds the provider has.
KnownRefunds == {n \in RefundNos : refund[n] # NoRow}

\* Those of order o that were made, or may still be.
StandingRefunds(o) ==
    {n \in RefundNos : /\ refund[n] # NoRow
                       /\ refund[n].order = o
                       /\ refund[n].status # "refund_failed"}

\* Those of order o that were made at the console and have their liability.
ExternalClaims(o) ==
    {x \in ExternalRefunds : /\ refund[x] # NoRow
                             /\ refund[x].order = o
                             /\ Accounted(x)}

\* An order is refunded by bablo, and then nothing was refunded from outside, or
\* from outside, and then all of it; an order that is not refunded has a rest.
EndFits(row) ==
    IF row.status = "refunded" THEN row.external = (IF row.held THEN 0 ELSE row.amount)
    ELSE row.external < row.amount

\* The provider refunds no more than order o, and the order says what was claimed.
TotalFits(o) ==
    payment[o] # NoRow =>
      /\ SumOf(RefundAmounts, StandingRefunds(o)) <= payment[o].amount
      /\ payment[o].external = SumOf(RefundAmounts, ExternalClaims(o))
      /\ EndFits(payment[o])

\* Only what was made is claimed.
ClaimsMade ==
    \A x \in ExternalRefunds : Accounted(x) => refund[x] # NoRow /\ refund[x].status = "refunded"

\* What RefundsExact needs to be inductive.
TotalsInv ==
    /\ PaymentInv
    /\ IsFiniteSet(KnownRefunds) /\ ClaimsMade
    /\ \A o \in Orders : TotalFits(o)

\* Amounts are positive.
LEMMA AmountsPositive == \A a \in Amounts : a \in Nat /\ a > 0
<1>1. \A a \in 1..MaxMinor : a \in Nat /\ a > 0
  BY WalletAssumption
<1>2. QED
  BY <1>1, WalletAssumption

\* The refunds of an order are among those the provider has, with their amounts.
LEMMA RefundsAmounted ==
    ASSUME PaymentInv, IsFiniteSet(KnownRefunds), ClaimsMade
    PROVE  /\ Amounted(RefundAmounts, KnownRefunds)
           /\ \A o : /\ StandingRefunds(o) \in SUBSET KnownRefunds
                     /\ ExternalClaims(o) \in SUBSET StandingRefunds(o)
                     /\ Amounted(RefundAmounts, StandingRefunds(o))
                     /\ Amounted(RefundAmounts, ExternalClaims(o))
<1>1. ASSUME NEW n \in KnownRefunds PROVE RefundAmounts[n] \in Nat
  <2>1. n \in RefundNos /\ refund[n] \in RefundRow
    BY <1>1 DEF KnownRefunds, PaymentInv, Tables
  <2>2. refund[n].amount \in Nat
    BY <2>1, AmountsPositive DEF RefundRow
  <2>3. QED
    BY <2>1, <2>2 DEF RefundAmounts
<1>2. Amounted(RefundAmounts, KnownRefunds)
  BY <1>1 DEF Amounted
<1>3. ASSUME NEW o
      PROVE  /\ StandingRefunds(o) \in SUBSET KnownRefunds
             /\ ExternalClaims(o) \in SUBSET StandingRefunds(o)
             /\ ExternalClaims(o) \in SUBSET KnownRefunds
  BY DEF StandingRefunds, KnownRefunds, ExternalClaims, RefundNos, ClaimsMade
<1>4. QED
  BY <1>2, <1>3, PartAmounted

\* A refund whose liability is as it was is accounted for as before.
LEMMA AccountedKept ==
    ASSUME NEW x, RefKept(x)
    PROVE  Accounted(x)' <=> Accounted(x)
BY DEF RefKept, Accounted, W!NewReference

\* An order without a row has no refunds.
LEMMA NoRefundsYet ==
    ASSUME PaymentInv, NEW o \in Orders, payment[o] = NoRow
    PROVE  StandingRefunds(o) = {} /\ ExternalClaims(o) = {}
<1>1. session[o] # "paid"
  BY DEF PaymentInv, Links, OrderLinked, SessionSound
<1>2. \A n \in RefundNos : refund[n] # NoRow => refund[n].order # o
  BY <1>1 DEF PaymentInv, Links, RefundLinked
<1>3. QED
  BY <1>2 DEF StandingRefunds, ExternalClaims, RefundNos

\* The new row says of refunds what the old one said.
RowFits(old, new) ==
    new # NoRow =>
      /\ EndFits(new)
      /\ old # NoRow => new.external = old.external /\ new.amount = old.amount
      /\ old = NoRow => new.external = 0

\* A transaction that neither makes nor claims a refund.
LEMMA TotalsKept ==
    ASSUME TotalsInv, [Next]_vars, refund' = refund,
           \A x \in ExternalRefunds : RefKept(x),
           \A o \in Orders : RowFits(payment[o], payment'[o])
    PROVE  TotalsInv'
<1>1. PaymentInv /\ IsFiniteSet(KnownRefunds) /\ ClaimsMade
  BY DEF TotalsInv
<1>2. PaymentInv'
  BY <1>1, PaymentStep
<1>3. \A x \in ExternalRefunds : Accounted(x)' <=> Accounted(x)
  BY AccountedKept
<1>4. KnownRefunds' = KnownRefunds /\ RefundAmounts' = RefundAmounts
      /\ \A o : StandingRefunds(o)' = StandingRefunds(o)
  BY DEF KnownRefunds, RefundAmounts, StandingRefunds
<1>5. \A o : ExternalClaims(o)' = ExternalClaims(o)
  BY <1>3 DEF ExternalClaims
<1>6. ClaimsMade'
  BY <1>1, <1>3 DEF ClaimsMade
<1>7. ASSUME NEW o \in Orders, payment'[o] # NoRow
      PROVE  /\ SumOf(RefundAmounts, StandingRefunds(o)) <= payment'[o].amount
             /\ payment'[o].external = SumOf(RefundAmounts, ExternalClaims(o))
             /\ EndFits(payment'[o])
  <2>1. RowFits(payment[o], payment'[o])
    OBVIOUS
  <2>2. CASE payment[o] = NoRow
    <3>1. /\ SumOf(RefundAmounts, StandingRefunds(o)) = 0
          /\ SumOf(RefundAmounts, ExternalClaims(o)) = 0
      BY <1>1, <2>2, NoRefundsYet, SumWithoutAny
    <3>2. payment'[o].amount \in Nat
      <4>1. payment'[o] \in OrderRow
        BY <1>2, <1>7 DEF PaymentInv, Tables
      <4>2. payment'[o].amount \in Amounts
        BY <4>1 DEF OrderRow
      <4>3. QED
        BY <4>2, AmountsPositive
    <3>3. QED
      BY <1>7, <2>1, <2>2, <3>1, <3>2 DEF RowFits
  <2>3. CASE payment[o] # NoRow
    BY <1>7, <2>1, <2>3 DEF RowFits, TotalsInv, TotalFits
  <2>4. QED
    BY <2>2, <2>3
<1>8. ASSUME NEW o \in Orders PROVE TotalFits(o)'
  BY <1>4, <1>5, <1>7 DEF TotalFits
<1>9. QED
  BY <1>1, <1>2, <1>4, <1>6, <1>8 DEF TotalsInv
\* The provider works on its refunds: what was claimed stays.
LEMMA ProviderTotals ==
    ASSUME TotalsInv, [Next]_vars, payment' = payment, liability' = liability,
           RefundsAdvance, IsFiniteSet(KnownRefunds'),
           \A o \in Orders : payment[o] # NoRow =>
              SumOf(RefundAmounts', StandingRefunds(o)') <= payment[o].amount
    PROVE  TotalsInv'
<1>1. PaymentInv /\ IsFiniteSet(KnownRefunds) /\ ClaimsMade
  BY DEF TotalsInv
<1>2. PaymentInv'
  BY <1>1, PaymentStep
<1>3. \A x : Accounted(x)' <=> Accounted(x)
  BY DEF Accounted, W!NewReference
<1>4. ASSUME NEW x \in ExternalRefunds, Accounted(x)
      PROVE  /\ x \in RefundNos /\ refund[x] # NoRow /\ refund'[x] # NoRow
             /\ refund'[x].order = refund[x].order /\ refund'[x].amount = refund[x].amount
             /\ refund'[x].status = "refunded"
  <2>1. x \in RefundNos /\ refund[x] # NoRow /\ refund[x].status = "refunded"
    BY <1>1, <1>4 DEF ClaimsMade, RefundNos
  <2>2. QED
    BY <2>1 DEF RefundsAdvance
<1>5. ClaimsMade'
  BY <1>3, <1>4 DEF ClaimsMade
<1>6. ASSUME NEW o \in Orders
      PROVE  /\ ExternalClaims(o)' = ExternalClaims(o)
             /\ SumOf(RefundAmounts', ExternalClaims(o)) = SumOf(RefundAmounts, ExternalClaims(o))
  <2>1. ExternalClaims(o)' = ExternalClaims(o)
    BY <1>3, <1>4 DEF ExternalClaims
  <2>2. \A x \in ExternalClaims(o) : RefundAmounts'[x] = RefundAmounts[x]
    BY <1>4 DEF ExternalClaims, RefundAmounts
  <2>3. Amounted(RefundAmounts, ExternalClaims(o))
    BY <1>1, RefundsAmounted
  <2>4. PICK f, g, S : f = RefundAmounts /\ g = RefundAmounts' /\ S = ExternalClaims(o)
    OBVIOUS
  <2>5. SumOf(g, S) = SumOf(f, S)
    BY <2>2, <2>3, <2>4, SumSame
  <2>6. QED
    BY <2>1, <2>4, <2>5
<1>7. ASSUME NEW o \in Orders PROVE TotalFits(o)'
  BY <1>6 DEF TotalsInv, TotalFits
<1>8. QED
  BY <1>2, <1>5, <1>7 DEF TotalsInv

\* What the provider can still refund.
LEMMA RefundableIs ==
    ASSUME TotalsInv, NEW o \in Orders
    PROVE  Refundable(o) = payment[o].amount - SumOf(RefundAmounts, StandingRefunds(o))
<1>1. PaymentInv /\ IsFiniteSet(KnownRefunds) /\ ClaimsMade
  BY DEF TotalsInv
<1>2. IsFiniteSet(StandingRefunds(o)) /\ StandingRefunds(o) \in SUBSET RefundNos
  BY <1>1, RefundsAmounted DEF Amounted, StandingRefunds
<1>3. MapThenSumSet(LAMBDA n : refund[n].amount, StandingRefunds(o))
        = SumOf(RefundAmounts, StandingRefunds(o))
  BY <1>2, TotalByDefinition
<1>4. QED
  BY <1>3 DEF Refundable, StandingRefunds

\* A refund that is made is within what can still be refunded.
LEMMA MadeTotals ==
    ASSUME TotalsInv, [Next]_vars, payment' = payment, liability' = liability,
           RefundsAdvance, NEW n \in RefundNos, refund[n] = NoRow,
           NEW o \in Orders, payment[o] # NoRow, NEW a \in Amounts,
           a <= Refundable(o), RefundMade(o, n, a)
    PROVE  TotalsInv'
<1>1. PaymentInv /\ IsFiniteSet(KnownRefunds) /\ ClaimsMade
  BY DEF TotalsInv
<1>2. /\ refund'[n] = [order |-> o, amount |-> a, status |-> "refund_pending"]
      /\ \A m \in RefundNos \ {n} : refund'[m] = refund[m]
  BY <1>1 DEF RefundMade, PaymentInv, Tables
<1>3. /\ refund'[n] # NoRow /\ refund'[n].order = o /\ refund'[n].amount = a
      /\ refund'[n].status = "refund_pending"
  BY <1>2 DEF NoRow
<1>4. KnownRefunds' = KnownRefunds \cup {n}
  BY <1>2, <1>3 DEF KnownRefunds
<1>5. IsFiniteSet(KnownRefunds')
  BY <1>1, <1>4, FS_AddElement
<1>6. /\ StandingRefunds(o)' = StandingRefunds(o) \cup {n} /\ n \notin StandingRefunds(o)
      /\ \A p \in Orders \ {o} : StandingRefunds(p)' = StandingRefunds(p)
      /\ \A p : n \notin StandingRefunds(p)
  BY <1>2, <1>3 DEF StandingRefunds
<1>7. PICK f, g : f = RefundAmounts /\ g = RefundAmounts'
  OBVIOUS
<1>8. g[n] = a /\ a \in Nat /\ \A m \in RefundNos \ {n} : g[m] = f[m]
  BY <1>2, <1>3, <1>7, AmountsPositive DEF RefundAmounts
<1>9. ASSUME NEW p \in Orders
      PROVE  /\ SumOf(g, StandingRefunds(p)) = SumOf(f, StandingRefunds(p))
             /\ Amounted(g, StandingRefunds(p))
  <2>1. PICK S : S = StandingRefunds(p)
    OBVIOUS
  <2>2. Amounted(f, S)
    BY <1>1, <1>7, <2>1, RefundsAmounted
  <2>3. S \subseteq RefundNos \ {n}
    BY <1>6, <2>1 DEF StandingRefunds
  <2>4. \A m \in S : g[m] = f[m]
    BY <1>8, <2>3
  <2>5. QED
    BY <2>1, <2>2, <2>4, SumSame
<1>10. ASSUME NEW p \in Orders, payment[p] # NoRow
       PROVE  SumOf(g, StandingRefunds(p)') <= payment[p].amount
  <2>1. SumOf(f, StandingRefunds(p)) <= payment[p].amount
    BY <1>7, <1>10 DEF TotalsInv, TotalFits
  <2>2. CASE p # o
    BY <1>6, <1>9, <2>1, <2>2
  <2>3. CASE p = o
    <3>1. PICK S : S = StandingRefunds(o) /\ Amounted(g, S) /\ n \notin S
      BY <1>6, <1>9
    <3>2. SumOf(g, S \cup {n}) = SumOf(g, S) + a
      BY <1>8, <3>1, SumWith
    <3>3. SumOf(g, S) \in Nat /\ SumOf(g, S) = SumOf(f, S)
      BY <1>9, <3>1, SumIsNatural
    <3>4. a <= payment[o].amount - SumOf(f, S)
      BY <1>7, <3>1, RefundableIs
    <3>5. payment[o].amount \in Nat
      <4>1. payment[o].amount \in Amounts
        BY <1>1 DEF PaymentInv, Tables, OrderRow
      <4>2. QED
        BY <4>1, AmountsPositive
    <3>6. SumOf(g, S \cup {n}) <= payment[o].amount
      BY <1>8, <3>2, <3>3, <3>4, <3>5
    <3>7. StandingRefunds(o)' = S \cup {n}
      BY <1>6, <3>1
    <3>8. QED
      BY <2>3, <3>6, <3>7
  <2>4. QED
    BY <2>2, <2>3
<1>11. QED
  BY <1>5, <1>7, <1>10, ProviderTotals

\* A refund that ends, done or failed.
LEMMA EndedTotals ==
    ASSUME TotalsInv, [Next]_vars, payment' = payment, liability' = liability,
           RefundsAdvance, NEW n \in RefundNos, RefundEnds(n)
    PROVE  TotalsInv'
<1>1. PaymentInv /\ IsFiniteSet(KnownRefunds) /\ ClaimsMade
  BY DEF TotalsInv
<1>2. refund \in [RefundNos -> RefundRow \cup {NoRow}]
  BY <1>1 DEF PaymentInv, Tables
<1>3. PICK s \in {"refunded", "refund_failed"} :
        refund' = [refund EXCEPT ![n].status = s] /\ refund[n].status = "refund_pending"
  BY DEF RefundEnds
<1>4. refund[n] \in RefundRow /\ refund[n] # NoRow
  BY <1>2, <1>3 DEF NoRow
<1>5. /\ refund'[n].order = refund[n].order /\ refund'[n].amount = refund[n].amount
      /\ refund'[n].status = s
      /\ \A m \in RefundNos \ {n} : refund'[m] = refund[m]
  BY <1>2, <1>3, <1>4 DEF RefundRow
<1>6. refund'[n] # NoRow
  BY <1>5 DEF NoRow
<1>7. KnownRefunds' = KnownRefunds /\ RefundAmounts' = RefundAmounts
  BY <1>4, <1>5, <1>6 DEF KnownRefunds, RefundAmounts
<1>8. ASSUME NEW o \in Orders, payment[o] # NoRow
      PROVE  SumOf(RefundAmounts, StandingRefunds(o)') <= payment[o].amount
  <2>1. StandingRefunds(o)' \in SUBSET StandingRefunds(o)
    BY <1>3, <1>4, <1>5 DEF StandingRefunds
  <2>2. PICK f, S, T : f = RefundAmounts /\ S = StandingRefunds(o) /\ T = StandingRefunds(o)'
    OBVIOUS
  <2>3. Amounted(f, S) /\ T \in SUBSET S
    BY <1>1, <2>1, <2>2, RefundsAmounted
  <2>4. SumOf(f, T) <= SumOf(f, S) /\ SumOf(f, T) \in Nat /\ SumOf(f, S) \in Nat
    BY <2>3, SumOfPart, PartAmounted, SumIsNatural
  <2>5. SumOf(f, S) <= payment[o].amount
    BY <1>8, <2>2 DEF TotalsInv, TotalFits
  <2>6. payment[o].amount \in Nat
    <3>1. payment[o].amount \in Amounts
      BY <1>1, <1>8 DEF PaymentInv, Tables, OrderRow
    <3>2. QED
      BY <3>1, AmountsPositive
  <2>7. QED
    BY <2>2, <2>4, <2>5, <2>6
<1>9. QED
  BY <1>1, <1>7, <1>8, ProviderTotals
\* One order changes.
LEMMA OneRowFits ==
    ASSUME TotalsInv, NEW o \in Orders, NEW new, payment' = [payment EXCEPT ![o] = new],
           RowFits(payment[o], new)
    PROVE  \A p \in Orders : RowFits(payment[p], payment'[p])
<1>1. payment'[o] = new /\ \A p \in Orders \ {o} : payment'[p] = payment[p]
  BY DEF TotalsInv, PaymentInv, Tables
<1>2. \A p \in Orders : RowFits(payment[p], payment[p])
  BY DEF TotalsInv, TotalFits, RowFits
<1>3. QED
  BY <1>1, <1>2

\* No order changes.
LEMMA NoRowMoves ==
    ASSUME TotalsInv, payment' = payment
    PROVE  \A p \in Orders : RowFits(payment[p], payment'[p])
BY DEF TotalsInv, TotalFits, RowFits

\* The order is not refunded before or after, or as it was.
SameEnd(old, new) ==
    /\ new.external = old.external /\ new.amount = old.amount
    /\ \/ old.status # "refunded" /\ new.status # "refunded"
       \/ new.status = old.status /\ new.held = old.held

\* One order changes, but what was refunded of it does not.
LEMMA OneRowMoves ==
    ASSUME TotalsInv, NEW o \in Orders, payment[o] # NoRow, NEW new,
           payment' = [payment EXCEPT ![o] = new], SameEnd(payment[o], new)
    PROVE  \A p \in Orders : RowFits(payment[p], payment'[p])
<1>1. EndFits(payment[o])
  BY DEF TotalsInv, TotalFits
<1>2. EndFits(new)
  BY <1>1 DEF EndFits, SameEnd
<1>3. RowFits(payment[o], new)
  BY <1>2 DEF RowFits, SameEnd
<1>4. QED
  BY <1>3, OneRowFits

\* A transaction that leaves refunds and liabilities alone.
LEMMA TotalsStill ==
    ASSUME TotalsInv, [Next]_vars, refund' = refund, liability' = liability,
           \A o \in Orders : RowFits(payment[o], payment'[o])
    PROVE  TotalsInv'
<1>1. \A x \in ExternalRefunds : RefKept(x)
  BY DEF RefKept
<1>2. QED
  BY <1>1, TotalsKept

\* The steps of an order.
LEMMA OrderTotals ==
    ASSUME TotalsInv, [Next]_vars, NEW o \in Orders, OrderNext(o)
    PROVE  TotalsInv'
<1>1. PaymentInv
  BY DEF TotalsInv
<1>2. CASE \E w \in Wallets, a \in Amounts : CreateOrder(o, w, a)
  <2>1. PICK w \in Wallets, a \in Amounts : CreateOrder(o, w, a)
    BY <1>2
  <2>2. PICK new : new = [status |-> "created", wallet |-> w, amount |-> a,
                          trade |-> FALSE, refundNo |-> NoRefund, held |-> FALSE,
                          failure |-> FALSE, external |-> 0]
    OBVIOUS
  <2>3. payment' = [payment EXCEPT ![o] = new] /\ payment[o] = NoRow
    BY <2>1, <2>2 DEF CreateOrder
  <2>4. refund' = refund /\ liability' = liability
    BY <2>1 DEF CreateOrder, providerVars, walletVars
  <2>5. RowFits(payment[o], new)
    BY <2>2, <2>3, AmountsPositive DEF RowFits, EndFits
  <2>6. QED
    BY <2>3, <2>4, <2>5, OneRowFits, TotalsStill
<1>3. CASE payment' = payment
  <2>1. refund' = refund /\ liability' = liability
    BY <1>3 DEF OrderNext, CreateOrder, ClaimProviderOperation, LeaseExpires, PrepareRefund,
       CloseSession, MarkExpired, MarkClosed, Reconcile, providerVars, walletVars
  <2>2. QED
    BY <1>3, <2>1, NoRowMoves, TotalsStill
<1>4. CASE PrepareRefund(o) \/ MarkExpired(o) \/ MarkClosed(o)
  <2>1. payment[o] \in OrderRow /\ payment[o] # NoRow
    BY <1>1, <1>4, RowOf DEF PrepareRefund, MarkExpired, MarkClosed, NoRow
  <2>2. payment \in [Orders -> OrderRow \cup {NoRow}]
    BY <1>1 DEF PaymentInv, Tables
  <2>3. PICK new : payment' = [payment EXCEPT ![o] = new] /\ SameEnd(payment[o], new)
    <3>1. CASE PrepareRefund(o)
      <4>1. PICK new : new = [payment[o] EXCEPT !.status = "refund_pending", !.held = TRUE]
        OBVIOUS
      <4>2. payment' = [payment EXCEPT ![o] = new] /\ payment[o].status = "paid"
        BY <2>1, <2>2, <3>1, <4>1 DEF PrepareRefund
      <4>3. SameEnd(payment[o], new)
        BY <2>1, <4>1, <4>2 DEF SameEnd, OrderRow
      <4>4. QED
        BY <4>2, <4>3
    <3>2. CASE MarkExpired(o)
      <4>1. PICK new : new = [payment[o] EXCEPT !.status = "expired"]
        OBVIOUS
      <4>2. payment' = [payment EXCEPT ![o] = new] /\ payment[o].status # "refunded"
        BY <2>1, <2>2, <3>2, <4>1 DEF MarkExpired
      <4>3. SameEnd(payment[o], new)
        BY <2>1, <4>1, <4>2 DEF SameEnd, OrderRow
      <4>4. QED
        BY <4>2, <4>3
    <3>3. CASE MarkClosed(o)
      <4>1. PICK new : new = [payment[o] EXCEPT !.status = "closed"]
        OBVIOUS
      <4>2. payment' = [payment EXCEPT ![o] = new] /\ payment[o].status # "refunded"
        BY <2>1, <2>2, <3>3, <4>1 DEF MarkClosed
      <4>3. SameEnd(payment[o], new)
        BY <2>1, <4>1, <4>2 DEF SameEnd, OrderRow
      <4>4. QED
        BY <4>2, <4>3
    <3>4. QED
      BY <1>4, <3>1, <3>2, <3>3
  <2>4. refund' = refund /\ liability' = liability
    BY <1>4 DEF PrepareRefund, MarkExpired, MarkClosed, providerVars, walletVars
  <2>5. QED
    BY <2>1, <2>3, <2>4, OneRowMoves, TotalsStill
<1>5. QED
  BY <1>2, <1>3, <1>4 DEF OrderNext, ClaimProviderOperation, LeaseExpires, CloseSession, Reconcile

\* The answers of the provider: no order is refunded by one.
LEMMA CallTotals ==
    ASSUME TotalsInv, [Next]_vars, NEW c \in call, CallNext(c)
    PROVE  TotalsInv'
<1>1. PaymentInv
  BY DEF TotalsInv
<1>2. PICK o \in Orders : o = c.order /\ payment[o] \in OrderRow
  BY <1>1, CallOf
<1>3. payment \in [Orders -> OrderRow \cup {NoRow}] /\ payment[o] # NoRow
  BY <1>1, <1>2, RowThere DEF PaymentInv, Tables
<1>4. refund' = refund /\ liability' = liability
  BY DEF CallNext, CompleteCreateOperation, FinishCreateOperation, CompleteRefundOperation,
         FinishRefundOperation, RolledBack, Crash, CallEnds, providerVars, walletVars
<1>5. CASE payment' = payment
  BY <1>4, <1>5, NoRowMoves, TotalsStill
<1>6. ASSUME NEW new, payment' = [payment EXCEPT ![o] = new], SameEnd(payment[o], new)
      PROVE  TotalsInv'
  <2>1. \A p \in Orders : RowFits(payment[p], payment'[p])
    BY <1>3, <1>6, OneRowMoves
  <2>2. QED
    BY <1>4, <2>1, TotalsStill
<1>7. CASE CompleteCreateOperation(c) /\ payment' # payment
  <2>1. PICK new : new = [payment[o] EXCEPT !.status = "pending", !.trade = TRUE,
                                            !.failure = FALSE]
    OBVIOUS
  <2>2. payment' = [payment EXCEPT ![o] = new] /\ payment[o].status # "refunded"
    BY <1>2, <1>3, <1>7, <2>1 DEF CompleteCreateOperation, CheckoutStored
  <2>3. SameEnd(payment[o], new)
    BY <1>2, <2>1, <2>2 DEF SameEnd, OrderRow
  <2>4. QED
    BY <1>6, <2>2, <2>3
<1>8. CASE FinishCreateOperation(c) /\ payment' # payment
  <2>1. PICK new : new = [payment[o] EXCEPT !.status = "failed", !.failure = TRUE]
    OBVIOUS
  <2>2. payment' = [payment EXCEPT ![o] = new] /\ payment[o].status # "refunded"
    BY <1>2, <1>3, <1>8, <2>1 DEF FinishCreateOperation
  <2>3. SameEnd(payment[o], new)
    BY <1>2, <2>1, <2>2 DEF SameEnd, OrderRow
  <2>4. QED
    BY <1>6, <2>2, <2>3
<1>9. CASE CompleteRefundOperation(c) /\ payment' # payment
  <2>1. PICK new : new = [payment[o] EXCEPT !.refundNo = o]
    OBVIOUS
  <2>2. payment' = [payment EXCEPT ![o] = new]
    BY <1>2, <1>3, <1>9, <2>1 DEF CompleteRefundOperation
  <2>3. SameEnd(payment[o], new)
    BY <1>2, <2>1 DEF SameEnd, OrderRow
  <2>4. QED
    BY <1>6, <2>2, <2>3
<1>10. CASE FinishRefundOperation(c) /\ payment' # payment
  <2>1. PICK new : new = [payment[o] EXCEPT !.status = "paid", !.failure = TRUE]
    OBVIOUS
  <2>2. payment' = [payment EXCEPT ![o] = new] /\ payment[o].status # "refunded"
    BY <1>2, <1>3, <1>10, <2>1 DEF FinishRefundOperation, RefundRefused
  <2>3. SameEnd(payment[o], new)
    BY <1>2, <2>1, <2>2 DEF SameEnd, OrderRow
  <2>4. QED
    BY <1>6, <2>2, <2>3
<1>11. QED
  BY <1>5, <1>7, <1>8, <1>9, <1>10 DEF CallNext, RolledBack, Crash
\* A request at the provider: bablo's refund is of the whole order, so there is no other.
LEMMA ExecutedTotals ==
    ASSUME TotalsInv, [Next]_vars, NEW o \in Orders, NEW t \in OperationTypes,
           operation[o][t] # NoRow, Execute(o, t) \/ Refuse(o, t) \/ Replay(o, t),
           UNCHANGED chargeback, UNCHANGED operation, payment' = payment, liability' = liability
    PROVE  TotalsInv'
<1>1. PaymentInv
  BY DEF TotalsInv
<1>2. RefundsAdvance
  BY <1>1, RequestMoved DEF ProviderMoved, ProviderAdvances
<1>3. CASE refund' = refund
  BY <1>3, NoRowMoves, TotalsStill
<1>4. CASE refund' # refund
  <2>1. /\ t = "refund" /\ ~Made(o, t) /\ Refundable(o) >= payment[o].amount
        /\ RefundMade(o, o, payment[o].amount)
    BY <1>4 DEF Execute, Make, Refuse, Replay
  <2>2. o \in RefundNos /\ refund[o] = NoRow
    BY <2>1 DEF Made, RefundNos
  <2>3. payment[o] # NoRow
    BY <1>1, <2>1 DEF PaymentInv, Links, OrderLinked, OperationSound
  <2>4. PICK a \in Amounts : a = payment[o].amount
    BY <1>1, <2>3 DEF PaymentInv, Tables, OrderRow
  <2>5. Refundable(o) \in Int
    <3>1. PICK s : s = SumOf(RefundAmounts, StandingRefunds(o)) /\ s \in Nat
      BY RefundsAmounted, SumIsNatural DEF TotalsInv
    <3>2. Refundable(o) = a - s
      BY <2>4, <3>1, RefundableIs
    <3>3. QED
      BY <2>4, <3>1, <3>2, AmountsPositive
  <2>6. a <= Refundable(o) /\ RefundMade(o, o, a)
    BY <2>1, <2>4, <2>5, AmountsPositive
  <2>7. QED
    BY <1>2, <2>2, <2>3, <2>6, MadeTotals
<1>5. QED
  BY <1>3, <1>4

\* Requests at the provider.
LEMMA RequestTotals ==
    ASSUME TotalsInv, [Next]_vars, RequestNext
    PROVE  TotalsInv'
<1>1. PaymentInv
  BY DEF TotalsInv
<1>2. ASSUME NEW c \in call, ProviderAnswers(c) PROVE TotalsInv'
  <2>1. PICK o \in Orders, t \in OperationTypes :
          o = c.order /\ t = c.type /\ operation[o][t] # NoRow
    BY <1>1, CallOf
  <2>2. /\ Execute(o, t) \/ Refuse(o, t) \/ Replay(o, t)
        /\ UNCHANGED chargeback /\ UNCHANGED operation
        /\ payment' = payment /\ liability' = liability
    BY <1>2, <2>1 DEF ProviderAnswers, walletVars
  <2>3. QED
    BY <2>1, <2>2, ExecutedTotals
<1>3. ASSUME NEW c \in call, ProviderStalls(c) \/ ProviderConflict(c) PROVE TotalsInv'
  <2>1. payment' = payment /\ liability' = liability /\ refund' = refund
    BY <1>3 DEF ProviderStalls, ProviderConflict, walletVars, providerVars
  <2>2. QED
    BY <2>1, NoRowMoves, TotalsStill
<1>4. ASSUME NEW o \in Orders, NEW t \in OperationTypes, ProviderLands(o, t)
      PROVE  TotalsInv'
  <2>1. operation[o][t] # NoRow
    <3>1. KeyLinked(o) /\ key[o][t] \notin FreeKeys
      BY <1>1, <1>4 DEF PaymentInv, Links, ProviderLands, InUse, FreeKeys
    <3>2. QED
      BY <3>1 DEF KeyLinked
  <2>2. /\ Execute(o, t) \/ Refuse(o, t) \/ Replay(o, t)
        /\ UNCHANGED chargeback /\ UNCHANGED operation
        /\ payment' = payment /\ liability' = liability
    BY <1>4 DEF ProviderLands, walletVars
  <2>3. QED
    BY <2>1, <2>2, ExecutedTotals
<1>5. QED
  BY <1>2, <1>3, <1>4 DEF RequestNext

\* The provider alone.
LEMMA ProviderNextTotals ==
    ASSUME TotalsInv, [Next]_vars, ProviderNext
    PROVE  TotalsInv'
<1>1. PaymentInv /\ RefundsAdvance
  BY ProviderRefunds DEF TotalsInv
<1>2. payment' = payment /\ liability' = liability
  BY DEF ProviderNext, StartPayment, PaymentEnds, SessionExpires, SessionMoves,
         RefundEnds, DisputeEnds, ExternalRefund, OpenDispute, ProviderMoves, walletVars
<1>3. CASE refund' = refund
  BY <1>2, <1>3, NoRowMoves, TotalsStill
<1>4. CASE \E n \in RefundNos : RefundEnds(n)
  BY <1>1, <1>2, <1>4, EndedTotals
<1>5. ASSUME NEW x \in ExternalRefunds, NEW o \in Orders, NEW a \in Amounts,
             ExternalRefund(x, o, a)
      PROVE  TotalsInv'
  <2>1. x \in RefundNos /\ refund[x] = NoRow /\ a <= Refundable(o) /\ RefundMade(o, x, a)
        /\ session[o] = "paid"
    BY <1>5 DEF ExternalRefund, RefundNos
  <2>2. payment[o] # NoRow
    BY <1>1, <2>1 DEF PaymentInv, Links, OrderLinked, SessionSound
  <2>3. QED
    BY <1>1, <1>2, <2>1, <2>2, MadeTotals
<1>6. QED
  BY <1>3, <1>4, <1>5 DEF ProviderNext, StartPayment, PaymentEnds, SessionExpires,
     SessionMoves, DisputeEnds, OpenDispute
\* A payment pays debts and adds none.
LEMMA PaidRefs ==
    ASSUME PaymentInv, NEW f \in Facts, Tells(f), ApplyPaid(f)
    PROVE  \A x \in ExternalRefunds : RefKept(x)
<1>1. OrderOf(f) = f.of /\ f.type = "paid"
  BY DEF ApplyPaid, OrderOf, RefundFactTypes, DisputeFactTypes
<1>2. PICK o \in Orders : o = f.of /\ payment[o] \in OrderRow
  BY <1>1, FactOrder
<1>3. PICK w \in Wallets, a \in Amounts : w = payment[o].wallet /\ a = payment[o].amount
  BY <1>2 DEF OrderRow
<1>4. W!CreditInTx(w, "recharge", o, a)
  BY <1>2, <1>3 DEF ApplyPaid
<1>5. B!CreditInTx(w, "recharge", o, a)
  BY <1>4, SameCredit
<1>6. /\ B!TypeInv /\ "recharge" \in B!EntryTypes /\ a \in Amounts \cup B!Debits
  BY DEF PaymentInv, B!BooksInv, B!HoldInv, B!EntryTypes
<1>7. \A v \in Wallets : B!SameClaims(liability[v], liability'[v])
  BY <1>5, <1>6, WalletConstants, B!CreditClaims
<1>8. QED
  BY <1>7, ClaimsKept

\* A dispute touches no liability of a refund.
LEMMA DisputeRefs ==
    ASSUME PaymentInv, NEW f \in Facts, Tells(f), applyDisputeEvent(f)
    PROVE  \A x \in ExternalRefunds : RefKept(x)
<1>1. PICK s \in DisputeFactTypes : s = f.type
  BY DEF applyDisputeEvent
<1>2. PICK d \in Disputes : d = f.of
  BY <1>1, FactSubject
<1>3. OrderOf(f) = chargeback[d].order /\ chargeback[d] # NoRow
  BY <1>1, <1>2 DEF OrderOf, Tells, RefundFactTypes, DisputeFactTypes
<1>4. PICK o \in Orders : o = OrderOf(f) /\ payment[o] \in OrderRow
  BY FactOrder
<1>5. PICK w \in Wallets : w = payment[o].wallet
  BY <1>4 DEF OrderRow
<1>6. PICK a \in Amounts : a = AmountOf(f)
  BY <1>1, FactOrder
<1>7. DisputeEffect(f, w)
  BY <1>4, <1>5 DEF applyDisputeEvent
<1>8. B!TypeInv /\ d \in References /\ \A x \in ExternalRefunds : x # d
  BY ReferencesAssumption DEF PaymentInv, B!BooksInv, B!HoldInv
<1>9. CASE dispute[d] = "none" /\ s # "dispute_won"
  <2>1. B!OpenLiabilityInTx(d, w, a)
    BY <1>1, <1>2, <1>6, <1>7, <1>9, SameOpen DEF DisputeEffect
  <2>2. B!OneMoreClaim(liability[w], liability'[w], d, FALSE) /\ B!OthersKept(w)
    BY <1>8, <2>1, WalletConstants, B!OpenClaims
  <2>3. QED
    BY <1>8, <2>2, ClaimAdded
<1>10. CASE dispute[d] = "none" /\ s = "dispute_won"
  <2>1. B!OpenReversedInTx(d, w, a)
    BY <1>1, <1>2, <1>6, <1>7, <1>10, SameOpenReversed DEF DisputeEffect
  <2>2. B!OneMoreClaim(liability[w], liability'[w], d, TRUE) /\ B!OthersKept(w)
    BY <1>8, <2>1, WalletConstants, B!OpenReversedClaims
  <2>3. QED
    BY <1>8, <2>2, ClaimAdded
<1>11. CASE dispute[d] = "dispute_opened" /\ s = "dispute_won"
  <2>1. PICK i : i = LiabilityOf(w, d)
    OBVIOUS
  <2>2. i \in 1..Len(liability[w]) /\ liability[w][i].ref = d
    BY <1>3, <1>4, <1>5, <1>11, <2>1, DebtOfDispute
  <2>3. B!ReverseLiabilityInTx(w, i)
    BY <1>1, <1>2, <1>7, <1>11, <2>1, SameReverse DEF DisputeEffect
  <2>4. B!ClaimReversed(liability[w], liability'[w], i) /\ B!OthersKept(w)
    BY <1>8, <2>2, <2>3, WalletConstants, B!ReverseClaims
  <2>5. QED
    BY <1>8, <2>2, <2>4, DebtReversed
<1>12. CASE dispute[d] = "dispute_opened" /\ s = "dispute_lost"
  BY <1>1, <1>2, <1>7, <1>12 DEF DisputeEffect, RefKept
<1>13. QED
  BY <1>1, <1>2, <1>7, <1>9, <1>10, <1>11, <1>12 DEF DisputeEffect

\* A refund from outside adds its own liability and no other.
LEMMA ExternalRefs ==
    ASSUME PaymentInv, NEW x, NEW w \in Wallets, NEW a \in Amounts, x \in References,
           W!OpenLiabilityInTx(x, w, a)
    PROVE  /\ ~Accounted(x) /\ Accounted(x)'
           /\ \A y : y # x => RefKept(y)
<1>1. B!OpenLiabilityInTx(x, w, a)
  BY SameOpen
<1>2. B!TypeInv
  BY DEF PaymentInv, B!BooksInv, B!HoldInv
<1>3. B!OneMoreClaim(liability[w], liability'[w], x, FALSE) /\ B!OthersKept(w)
  BY <1>1, <1>2, WalletConstants, B!OpenClaims
<1>4. Claimed(x, w, FALSE)'
  BY <1>3, AddedIsClaimed
<1>5. Accounted(x)'
  BY <1>4 DEF Claimed, Accounted, W!NewReference
<1>6. ~Accounted(x)
  BY DEF Accounted, W!OpenLiabilityInTx
<1>7. \A y : y # x => RefKept(y)
  BY <1>3, ClaimAdded
<1>8. QED
  BY <1>5, <1>6, <1>7
\* The row after a refund from outside: the total grows, and ends the order when it is
\* the whole amount.
LEMMA ExternalEnd ==
    ASSUME NEW row \in OrderRow, TakesExternalRefund(row), NEW a \in Amounts,
           row.external + a <= row.amount, NEW new, new = ExternallyRefunded(row, a)
    PROVE  new.external = row.external + a /\ new.amount = row.amount /\ EndFits(new)
<1>1. /\ row.external \in Nat /\ row.amount \in Nat /\ a \in Nat
  <2>1. row.external \in 0..MaxMinor /\ row.amount \in Amounts
    BY DEF OrderRow
  <2>2. row.external \in Nat
    BY <2>1, WalletAssumption
  <2>3. QED
    BY <2>1, <2>2, AmountsPositive
<1>2. PICK total : total = row.external + a
  OBVIOUS
<1>3. new = [row EXCEPT !.external = total, !.failure = FALSE,
                        !.status = IF total = row.amount THEN "refunded" ELSE @]
  BY <1>2 DEF ExternallyRefunded, OrderRow
<1>4. /\ new.external = total /\ new.amount = row.amount /\ new.held = row.held
      /\ new.status = IF total = row.amount THEN "refunded" ELSE row.status
  BY <1>3 DEF OrderRow
<1>5. ~new.held /\ row.status = "paid"
  BY <1>4 DEF TakesExternalRefund
<1>6. EndFits(new)
  <2>1. CASE total = row.amount
    BY <1>4, <1>5, <2>1 DEF EndFits
  <2>2. CASE total # row.amount
    <3>1. new.status # "refunded" /\ total < row.amount
      BY <1>1, <1>2, <1>4, <1>5, <2>2
    <3>2. QED
      BY <1>4, <3>1 DEF EndFits
  <2>3. QED
    BY <2>1, <2>2
<1>7. QED
  BY <1>2, <1>4, <1>6

\* A refund from outside is claimed.
LEMMA ClaimTotals ==
    ASSUME TotalsInv, [Next]_vars, refund' = refund, NEW o \in Orders, payment[o] # NoRow,
           TakesExternalRefund(payment[o]), NEW x \in ExternalRefunds, refund[x] # NoRow,
           refund[x].order = o, refund[x].status = "refunded",
           NEW a \in Amounts, a = refund[x].amount,
           payment[o].external + a <= payment[o].amount,
           NEW new, new = ExternallyRefunded(payment[o], a),
           payment' = [payment EXCEPT ![o] = new],
           ~Accounted(x), Accounted(x)', \A y : y # x => RefKept(y)
    PROVE  TotalsInv'
<1>1. PaymentInv /\ IsFiniteSet(KnownRefunds) /\ ClaimsMade
  BY DEF TotalsInv
<1>2. PaymentInv'
  BY <1>1, PaymentStep
<1>3. payment[o] \in OrderRow /\ payment'[o] = new
      /\ \A p \in Orders \ {o} : payment'[p] = payment[p]
  BY <1>1 DEF PaymentInv, Tables
<1>4. new.external = payment[o].external + a /\ new.amount = payment[o].amount /\ EndFits(new)
  BY <1>3, ExternalEnd
<1>5. \A y \in ExternalRefunds \ {x} : Accounted(y)' <=> Accounted(y)
  BY AccountedKept
<1>6. KnownRefunds' = KnownRefunds /\ RefundAmounts' = RefundAmounts
      /\ \A p : StandingRefunds(p)' = StandingRefunds(p)
  BY DEF KnownRefunds, RefundAmounts, StandingRefunds
<1>7. ClaimsMade'
  BY <1>1, <1>5 DEF ClaimsMade
<1>8. /\ ExternalClaims(o)' = ExternalClaims(o) \cup {x} /\ x \notin ExternalClaims(o)
      /\ \A p \in Orders \ {o} : ExternalClaims(p)' = ExternalClaims(p)
  BY <1>5 DEF ExternalClaims
<1>9. ASSUME NEW p \in Orders, p # o PROVE TotalFits(p)'
  BY <1>3, <1>6, <1>8, <1>9 DEF TotalsInv, TotalFits
<1>10. TotalFits(o)'
  <2>1. /\ SumOf(RefundAmounts, StandingRefunds(o)) <= payment[o].amount
        /\ payment[o].external = SumOf(RefundAmounts, ExternalClaims(o))
    BY DEF TotalsInv, TotalFits
  <2>2. PICK f, S : f = RefundAmounts /\ S = ExternalClaims(o)
    OBVIOUS
  <2>3. Amounted(f, S) /\ x \notin S
    BY <1>1, <1>8, <2>2, RefundsAmounted
  <2>4. f[x] = a /\ a \in Nat
    BY <2>2, AmountsPositive DEF RefundAmounts, RefundNos
  <2>5. SumOf(f, S \cup {x}) = SumOf(f, S) + a
    BY <2>3, <2>4, SumWith
  <2>6. new.external = SumOf(RefundAmounts, ExternalClaims(o)')
    BY <1>4, <1>8, <2>1, <2>2, <2>5
  <2>7. QED
    BY <1>3, <1>4, <1>6, <2>1, <2>6 DEF TotalFits
<1>11. QED
  BY <1>1, <1>2, <1>6, <1>7, <1>9, <1>10 DEF TotalsInv

\* Once a refund of the whole order was made, nothing else was refunded: a claim from
\* outside would be that refund, and the order would have ended with it, or be a refund
\* beyond the amount.
LEMMA WholeRefundAlone ==
    ASSUME TotalsInv, NEW o \in Orders, payment[o] # NoRow, payment[o].status # "refunded",
           NEW n \in RefundNos, refund[n] # NoRow, refund[n].order = o,
           refund[n].status = "refunded", refund[n].amount = payment[o].amount
    PROVE  payment[o].external = 0
<1>1. PaymentInv /\ IsFiniteSet(KnownRefunds) /\ ClaimsMade
  BY DEF TotalsInv
<1>2. PICK f, S, C : f = RefundAmounts /\ S = StandingRefunds(o) /\ C = ExternalClaims(o)
  OBVIOUS
<1>3. Amounted(f, S) /\ Amounted(f, C) /\ C \in SUBSET S
  BY <1>1, <1>2, RefundsAmounted
<1>4. PICK a \in Amounts : a = payment[o].amount /\ a \in Nat /\ a > 0
  BY <1>1, AmountsPositive DEF PaymentInv, Tables, OrderRow
<1>5. SumOf(f, S) <= a /\ payment[o].external = SumOf(f, C) /\ SumOf(f, C) < a
  BY <1>2, <1>4 DEF TotalsInv, TotalFits, EndFits
<1>6. n \in S /\ f[n] = a
  BY <1>2, <1>4 DEF StandingRefunds, RefundAmounts
<1>7. ASSUME NEW y \in C PROVE FALSE
  <2>1. CASE y = n
    <3>1. SumOf(f, C) = a + SumOf(f, C \ {n})
      BY <1>3, <1>6, <1>7, <2>1, SumWithout
    <3>2. SumOf(f, C \ {n}) \in Nat
      BY <1>3, PartAmounted, SumIsNatural
    <3>3. QED
      BY <1>4, <1>5, <3>1, <3>2
  <2>2. CASE y # n
    <3>1. PICK R \in SUBSET S : R = S \ {n} /\ y \in R
      BY <1>3, <1>7, <2>2
    <3>2. SumOf(f, S) = a + SumOf(f, R)
      BY <1>3, <1>6, <3>1, SumWithout
    <3>3. Amounted(f, R)
      BY <1>3, PartAmounted
    <3>4. SumOf(f, R) = f[y] + SumOf(f, R \ {y}) /\ SumOf(f, R \ {y}) \in Nat
      BY <3>1, <3>3, SumWithout, PartAmounted, SumIsNatural
    <3>5. f[y] \in Nat /\ f[y] > 0
      <4>1. y \in RefundNos /\ refund[y] # NoRow
        BY <1>2, <1>7 DEF ExternalClaims, RefundNos
      <4>2. f[y] \in Amounts
        BY <1>1, <1>2, <4>1 DEF PaymentInv, Tables, RefundRow, RefundAmounts
      <4>3. QED
        BY <4>2, AmountsPositive
    <3>6. QED
      BY <1>4, <1>5, <3>2, <3>4, <3>5
  <2>3. QED
    BY <2>1, <2>2
<1>8. C = {}
  BY <1>7
<1>9. QED
  BY <1>5, <1>8, SumWithoutAny
\* Events: only a refund from outside that is heard of for the first time is claimed.
LEMMA EventTotals ==
    ASSUME TotalsInv, [Next]_vars, EventNext
    PROVE  TotalsInv'
<1>1. PaymentInv
  BY DEF TotalsInv
<1>2. PICK f \in Facts, source \in Sources : Tells(f) /\ processAuthenticatedEvent(f, source)
  BY <1>1, EventFact
<1>3. refund' = refund
  BY <1>2 DEF processAuthenticatedEvent, providerVars
<1>4. PICK o \in Orders : o = OrderOf(f) /\ payment[o] \in OrderRow /\ payment[o] # NoRow
  BY <1>1, <1>2, FactOrder
<1>5. CASE payment' = payment /\ liability' = liability
  BY <1>3, <1>5, NoRowMoves, TotalsStill
<1>6. CASE ~Mismatch(f) /\ ~Settled(f) /\ Applicable(f, source) /\ Apply(f)
  <2>1. ASSUME NEW new, payment' = [payment EXCEPT ![o] = new], SameEnd(payment[o], new),
               \A x \in ExternalRefunds : RefKept(x)
        PROVE  TotalsInv'
    <3>1. \A p \in Orders : RowFits(payment[p], payment'[p])
      BY <1>4, <2>1, OneRowMoves
    <3>2. QED
      BY <1>3, <2>1, <3>1, TotalsKept
  <2>2. liability' = liability => \A x \in ExternalRefunds : RefKept(x)
    BY DEF RefKept
  <2>3. CASE ApplyCheckout(f)
    <3>1. f.type \in {"pending", "failed", "expired"} /\ OrderOf(f) = f.of
          /\ payment[o].status \in {"created", "pending"}
      BY <1>4, <1>6, <2>3 DEF ApplyCheckout, OrderOf, Applicable, PaymentFactTypes,
         RefundFactTypes, DisputeFactTypes
    <3>2. PICK new : new = [payment[o] EXCEPT !.status = f.type, !.trade = TRUE,
                                              !.failure = f.type = "failed"]
      OBVIOUS
    <3>3. payment' = [payment EXCEPT ![o] = new] /\ liability' = liability
      BY <1>4, <2>3, <3>1, <3>2 DEF ApplyCheckout, OrderBecomes
    <3>4. SameEnd(payment[o], new)
      BY <1>4, <3>1, <3>2 DEF SameEnd, OrderRow
    <3>5. QED
      BY <2>1, <2>2, <3>3, <3>4
  <2>4. CASE ApplyPaid(f)
    <3>1. f.type = "paid" /\ OrderOf(f) = f.of
      BY <2>4 DEF ApplyPaid, OrderOf, RefundFactTypes, DisputeFactTypes
    <3>2. payment[o].status \in {"created", "pending"}
      BY <1>4, <1>6, <3>1 DEF Applicable, PaymentFactTypes, RefundFactTypes, DisputeFactTypes
    <3>3. PICK new : new = [payment[o] EXCEPT !.status = "paid", !.trade = TRUE,
                                              !.failure = FALSE]
      OBVIOUS
    <3>4. payment' = [payment EXCEPT ![o] = new]
      BY <1>4, <2>4, <3>1, <3>3 DEF ApplyPaid, OrderBecomes
    <3>5. SameEnd(payment[o], new)
      BY <1>4, <3>2, <3>3 DEF SameEnd, OrderRow
    <3>6. QED
      BY <1>1, <1>2, <2>1, <2>4, <3>4, <3>5, PaidRefs
  <2>5. CASE ApplyRefundPending(f)
    <3>1. PICK new : new = [payment[o] EXCEPT !.refundNo = f.of]
      OBVIOUS
    <3>2. payment' = [payment EXCEPT ![o] = new] /\ liability' = liability
      BY <1>4, <2>5, <3>1 DEF ApplyRefundPending, OrderBecomes
    <3>3. SameEnd(payment[o], new)
      BY <1>4, <3>1 DEF SameEnd, OrderRow
    <3>4. QED
      BY <2>1, <2>2, <3>2, <3>3
  <2>6. CASE ApplyRefundFailed(f)
    <3>1. f.type = "refund_failed"
      BY <2>6 DEF ApplyRefundFailed
    <3>2. payment[o].status = "refund_pending"
      BY <1>4, <1>6, <3>1 DEF Applicable, PaymentFactTypes, RefundFactTypes, DisputeFactTypes
    <3>3. PICK new : new = [payment[o] EXCEPT !.status = "paid", !.failure = TRUE,
                                              !.refundNo = KnownAs(payment[o], f.of)]
      OBVIOUS
    <3>4. payment' = [payment EXCEPT ![o] = new] /\ liability' = liability
      BY <1>4, <2>6, <3>3 DEF ApplyRefundFailed, OrderBecomes
    <3>5. SameEnd(payment[o], new)
      BY <1>4, <3>2, <3>3 DEF SameEnd, OrderRow
    <3>6. QED
      BY <2>1, <2>2, <3>4, <3>5
  <2>7. CASE ApplyRefunded(f) \/ applyExternalRefund(f)
    <3>1. f.type = "refunded"
      BY <2>7 DEF ApplyRefunded, applyExternalRefund
    <3>2. /\ f.of \in RefundNos /\ refund[f.of] # NoRow
          /\ refund[f.of].status = "refunded" /\ refund[f.of].order = o
          /\ AmountOf(f) = refund[f.of].amount
      BY <1>2, <1>4, <3>1, FactSubject DEF Tells, OrderOf, AmountOf, RefundFactTypes,
         DisputeFactTypes
    <3>3. CASE ApplyRefunded(f)
      <4>1. payment[o].status = "refund_pending"
        BY <1>4, <3>3 DEF ApplyRefunded
      <4>2. refund[f.of].amount = payment[o].amount
        BY <1>4, <1>6, <3>1, <3>2, <4>1 DEF Mismatch, TakesExternalRefund, DisputeFactTypes
      <4>3. payment[o].external = 0
        BY <1>4, <3>2, <4>1, <4>2, WholeRefundAlone
      <4>4. payment[o].held
        BY <1>1, <1>4, <4>1 DEF PaymentInv, Links, OrderLinked, RowSound
      <4>5. PICK new : new = [payment[o] EXCEPT !.status = "refunded", !.failure = FALSE,
                                                !.refundNo = KnownAs(payment[o], f.of)]
        OBVIOUS
      <4>6. payment' = [payment EXCEPT ![o] = new] /\ liability' = liability
        BY <1>4, <3>3, <4>5 DEF ApplyRefunded, OrderBecomes
      <4>7. /\ new.status = "refunded" /\ new.held = payment[o].held
            /\ new.external = payment[o].external /\ new.amount = payment[o].amount
        BY <1>4, <4>5 DEF OrderRow
      <4>8. EndFits(new)
        BY <4>3, <4>4, <4>7 DEF EndFits
      <4>9. RowFits(payment[o], new)
        BY <1>4, <4>7, <4>8 DEF RowFits
      <4>10. \A p \in Orders : RowFits(payment[p], payment'[p])
        BY <4>6, <4>9, OneRowFits
      <4>11. QED
        BY <1>3, <4>6, <4>10, TotalsStill
    <3>4. CASE applyExternalRefund(f)
      <4>1. payment[o].status = "paid"
        BY <1>4, <3>4 DEF applyExternalRefund
      <4>2. TakesExternalRefund(payment[o])
            /\ payment[o].external + AmountOf(f) <= payment[o].amount
        BY <1>4, <1>6, <3>1, <4>1 DEF Applicable, PaymentFactTypes, RefundFactTypes,
           DisputeFactTypes
      <4>3. PICK x \in ExternalRefunds : x = f.of
        BY <1>1, <3>2, <4>2, RefundOutside DEF TakesExternalRefund
      <4>4. PICK a \in Amounts : a = refund[x].amount /\ a = AmountOf(f)
        BY <1>1, <1>2, <3>1, <3>2, <4>3, FactOrder DEF RefundFactTypes
      <4>5. PICK w \in Wallets : w = payment[o].wallet
        BY <1>4 DEF OrderRow
      <4>6. x \in References
        BY ReferencesAssumption
      <4>7. W!OpenLiabilityInTx(x, w, a)
        BY <1>4, <3>4, <4>3, <4>4, <4>5 DEF applyExternalRefund
      <4>8. ~Accounted(x) /\ Accounted(x)' /\ \A y : y # x => RefKept(y)
        BY <1>1, <4>6, <4>7, ExternalRefs
      <4>9. PICK new : new = ExternallyRefunded(payment[o], a)
        OBVIOUS
      <4>10. payment' = [payment EXCEPT ![o] = new]
        BY <1>4, <3>4, <4>4, <4>9 DEF applyExternalRefund, OrderBecomes
      <4>11. /\ refund[x] # NoRow /\ refund[x].order = o /\ refund[x].status = "refunded"
             /\ payment[o].external + a <= payment[o].amount
        BY <3>2, <4>2, <4>3, <4>4
      <4>12. QED
        BY <1>3, <1>4, <4>2, <4>4, <4>8, <4>9, <4>10, <4>11, ClaimTotals
    <3>5. QED
      BY <2>7, <3>3, <3>4
  <2>8. CASE applyDisputeEvent(f)
    <3>1. payment' = payment
      BY <2>8 DEF applyDisputeEvent
    <3>2. QED
      BY <1>1, <1>2, <1>3, <2>8, <3>1, DisputeRefs, NoRowMoves, TotalsKept
  <2>9. QED
    BY <1>6, <2>3, <2>4, <2>5, <2>6, <2>7, <2>8 DEF Apply
<1>7. QED
  BY <1>2, <1>5, <1>6 DEF processAuthenticatedEvent, walletVars

\* The other users of the wallets pay debts and add none.
LEMMA ElsewhereRefs ==
    ASSUME PaymentInv, Elsewhere
    PROVE  \A x \in ExternalRefunds : RefKept(x)
<1>1. B!TypeInv
  BY DEF PaymentInv, B!BooksInv, B!HoldInv
<1>2. CASE W!UsageNext
  <2>1. liability' = liability
    BY <1>2, SameUsage, WalletConstants, B!UsageClaims
  <2>2. QED
    BY <2>1 DEF RefKept
<1>3. ASSUME NEW c \in Credits, NEW w \in Wallets, NEW a \in Amounts \cup W!Debits,
             W!Credit(c, w, a)
      PROVE  \A x \in ExternalRefunds : RefKept(x)
  <2>1. a \in Amounts \cup B!Debits /\ "credit" \in B!EntryTypes
    BY DEF W!Debits, B!Debits, B!EntryTypes
  <2>2. B!CreditInTx(w, "credit", c, a)
    BY <1>3, SameCredit DEF W!Credit
  <2>3. \A v \in Wallets : B!SameClaims(liability[v], liability'[v])
    BY <1>1, <2>1, <2>2, WalletConstants, B!CreditClaims
  <2>4. QED
    BY <2>3, ClaimsKept
<1>4. QED
  BY <1>2, <1>3 DEF Elsewhere

\* No refunds, no claims.
LEMMA TotalsInit == Init => TotalsInv
<1> SUFFICES ASSUME Init PROVE TotalsInv
  OBVIOUS
<1>1. PaymentInv
  BY PaymentInvInit
<1>2. KnownRefunds = {}
  BY DEF KnownRefunds, Init
<1>3. IsFiniteSet(KnownRefunds)
  BY <1>2, FS_EmptySet
<1>4. ClaimsMade
  <2>1. \A w \in Wallets : Len(liability[w]) = 0
    BY SameInit DEF Init, B!Init
  <2>2. QED
    BY <2>1 DEF ClaimsMade, Accounted, W!NewReference
<1>5. \A o \in Orders : TotalFits(o)
  BY DEF Init, TotalFits
<1>6. QED
  BY <1>1, <1>3, <1>4, <1>5 DEF TotalsInv

\* Every step.
LEMMA TotalsStep == TotalsInv /\ [Next]_vars => TotalsInv'
<1> SUFFICES ASSUME TotalsInv, [Next]_vars PROVE TotalsInv'
  OBVIOUS
<1>1. CASE Elsewhere
  <2>1. payment' = payment /\ refund' = refund
    BY <1>1 DEF Elsewhere, paymentVars, providerVars
  <2>2. \A x \in ExternalRefunds : RefKept(x)
    BY <1>1, ElsewhereRefs DEF TotalsInv
  <2>3. QED
    BY <2>1, <2>2, NoRowMoves, TotalsKept
<1>2. CASE UNCHANGED vars
  <2>1. payment' = payment /\ refund' = refund /\ liability' = liability
    BY <1>2 DEF vars, paymentVars, providerVars, walletVars
  <2>2. QED
    BY <2>1, NoRowMoves, TotalsStill
<1>3. QED
  BY <1>1, <1>2, OrderTotals, CallTotals, RequestTotals, ProviderNextTotals, EventTotals DEF Next

\* Refunds from both sides are exact, for any number of refunds in whatever order they
\* are made, reported and repeated: what an order says was refunded at the console is
\* what its liabilities claim; it is refunded by bablo or from outside, never both, and
\* never beyond its amount.
THEOREM RefundsStayExact == Spec => []RefundsExact
<1>1. TotalsInv => RefundsExact
  <2> SUFFICES ASSUME TotalsInv PROVE RefundsExact
    OBVIOUS
  <2>1. PaymentInv /\ IsFiniteSet(KnownRefunds) /\ ClaimsMade
    BY DEF TotalsInv
  <2>2. ASSUME NEW o \in Orders, payment[o] # NoRow
        PROVE  payment[o].external
                 = MapThenSumSet(LAMBDA n : refund[n].amount, ExternalClaims(o))
    <3>1. IsFiniteSet(ExternalClaims(o)) /\ ExternalClaims(o) \in SUBSET RefundNos
      BY <2>1, RefundsAmounted DEF Amounted, ExternalClaims, RefundNos
    <3>2. QED
      BY <2>2, <3>1, TotalByDefinition DEF TotalsInv, TotalFits
  <2>3. ExternalTotalExact
    BY <2>2 DEF ExternalTotalExact, ExternalClaims
  <2>4. ASSUME NEW o \in Orders
        PROVE  /\ payment[o].status = "refunded" =>
                    (Reversed(o) <=> payment[o].external # payment[o].amount)
               /\ payment[o] # NoRow =>
                    (IF Reversed(o) THEN payment[o].amount ELSE 0) + payment[o].external
                      <= payment[o].amount
    <3>1. Reversed(o) <=> payment[o].status = "refunded" /\ payment[o].held
      BY <2>1 DEF PaymentInv, Links, Posted
    <3>2. CASE payment[o] = NoRow
      BY <3>2 DEF NoRow
    <3>3. CASE payment[o] # NoRow
      <4>1. EndFits(payment[o]) /\ payment[o] \in OrderRow
        BY <2>1, <3>3 DEF TotalsInv, TotalFits, PaymentInv, Tables
      <4>2. PICK e, a : /\ e = payment[o].external /\ a = payment[o].amount
                        /\ a \in Amounts /\ e \in 0..MaxMinor
        BY <4>1 DEF OrderRow
      <4>3. a \in Nat /\ a > 0 /\ e \in Nat
        BY <4>2, AmountsPositive, WalletAssumption
      <4>4. CASE Reversed(o)
        <5>1. e = 0
          BY <3>1, <4>1, <4>2, <4>4 DEF EndFits
        <5>2. QED
          BY <4>2, <4>3, <4>4, <5>1
      <4>5. CASE ~Reversed(o)
        <5>1. IF payment[o].status = "refunded" THEN e = a ELSE e < a
          BY <3>1, <4>1, <4>2, <4>5 DEF EndFits
        <5>2. QED
          BY <4>2, <4>3, <4>5, <5>1
      <4>6. QED
        BY <4>4, <4>5
    <3>4. QED
      BY <3>2, <3>3
  <2>5. QED
    BY <2>3, <2>4 DEF RefundsExact, RefundedOnce
<1>2. QED
  BY <1>1, TotalsInit, TotalsStep, PTL DEF Spec
=============================================================================
