------------------------------- MODULE Wallet -------------------------------
(***************************************************************************)
(* The money core of bablo (internal/billing): wallets, usage              *)
(* reservations and their settlements, payment liabilities, the refund     *)
(* holds of payment orders, and the append-only ledger.                    *)
(*                                                                         *)
(* Every operation of the code is one PostgreSQL transaction that locks    *)
(* the wallet row before it reads a balance, so every operation is one     *)
(* action here.  An early return (replay of a known key, conflict,         *)
(* insufficient funds, overflow) commits nothing and is therefore a guard. *)
(*                                                                         *)
(* A wallet row is created at zero by its first use, so it is in the model *)
(* from the start.  wallets.status is written by no code of the repository *)
(* and stays 'active'.  A request names the reservation AND the usage      *)
(* event: both tables are unique per request_id.                           *)
(***************************************************************************)
EXTENDS Integers, Sequences, FiniteSetsExt

CONSTANTS
    Wallets,      \* wallet rows, one per user and currency
    Requests,     \* request ids
    Credits,      \* idempotency keys of funding entries that no order owns
    Orders,       \* payment orders
    References,   \* provider refund and dispute numbers behind liabilities
    Amounts,      \* positive amounts the callers use, in minor units
    MaxMinor      \* the largest balance (math.MaxInt64 in the code)

ASSUME AmountsAssumption ==
    /\ MaxMinor \in Nat
    /\ Amounts \subseteq 1..MaxMinor

\* Identifiers of different tables are different things.
ASSUME IdsAssumption ==
    /\ Requests \cap (Credits \cup Orders) = {}
    /\ References \cap (Requests \cup Credits \cup Orders) = {}

VARIABLES
    wallet,        \* wallets: available and reserved balance, financial_hold
    reservation,   \* wallet_reservations by request
    settlement,    \* billing_settlements by request
    liability,     \* wallet_liabilities of each wallet in created_at order
    order,         \* payment_orders, as far as they gate a wallet movement
    ledger         \* wallet_ledger: the rows appended so far

vars == <<wallet, reservation, settlement, liability, order, ledger>>

-----------------------------------------------------------------------------
(* Rows *)

NoRow == [status |-> "none"]

ReservationRow ==
    [status : {"reserved", "settlement_pending", "settled", "released"},
     wallet : Wallets, amount : Amounts]

SettlementRow == [status : {"pending", "settled"}, actual : 0..MaxMinor]

LiabilityRow ==
    [ref : References, principal : Amounts, recovered : 0..MaxMinor,
     status : {"open", "settled", "reversed"}]

OrderRow ==
    [status : {"paid", "refund_pending", "refunded", "refund_failed"},
     wallet : Wallets, amount : Amounts]

\* One per prefix of the idempotency keys: finer than entry_type.
EntryTypes ==
    {"reservation", "usage_charge", "settlement_release", "release",
     "credit", "recharge",
     "payment_refund_hold", "payment_reversal", "payment_refund_release",
     "liability_open", "liability_recovery", "liability_reversal"}

Subjects == Requests \cup Credits \cup Orders \cup References

\* type, of and by make the idempotency key; by is the ledger row that
\* triggered a liability recovery and repeats of in every other entry.
LedgerRow ==
    [wallet : Wallets, type : EntryTypes, of : Subjects, by : Subjects,
     available : Int, reserved : Int]

Row(w, type, of, available, reserved) ==
    [wallet |-> w, type |-> type, of |-> of, by |-> of,
     available |-> available, reserved |-> reserved]

Init ==
    /\ wallet = [w \in Wallets |->
                    [available |-> 0, reserved |-> 0, hold |-> FALSE]]
    /\ reservation = [r \in Requests |-> NoRow]
    /\ settlement = [r \in Requests |-> NoRow]
    /\ liability = [w \in Wallets |-> <<>>]
    /\ order = [o \in Orders |-> NoRow]
    /\ ledger = {}

-----------------------------------------------------------------------------
(* Helpers *)

Least(a, b) == IF a < b THEN a ELSE b

\* Fault: the overflow check is gone.
safeAddUnchecked(a, b) == TRUE

\* safeAdd: a balance is never negative, so only the upper end can overflow.
safeAdd(a, b) == a + b <= MaxMinor

\* insertLedger: the unique index on (wallet_id, idempotency_key) aborts the
\* transaction that posts a key a second time.
insertLedger(rows) ==
    /\ \A new \in rows, old \in ledger :
          <<new.wallet, new.type, new.of, new.by>>
             # <<old.wallet, old.type, old.of, old.by>>
    /\ ledger' = ledger \cup rows

Owes(debts) == \E i \in 1..Len(debts) : debts[i].status = "open"

\* A settlement of wallet w other than those of the requests in except is
\* waiting for funds.
Unsettled(w, except) ==
    \E r \in Requests \ except :
        settlement[r].status = "pending" /\ reservation[r].wallet = w

-----------------------------------------------------------------------------
(* recoverWalletLiabilities: funds that arrive pay the open debts, oldest    *)
(* first, until they run out.  left[i] is what remains after the first i.    *)

Outstanding(debt) ==
    IF debt.status = "open" THEN debt.principal - debt.recovered ELSE 0

\* Fault: the newest debt is paid first.
DrainsNewestFirst(debts, funds, left) ==
    \E right \in [0..Len(debts) -> 0..funds] :
        /\ right[Len(debts)] = funds
        /\ left[0] = funds
        /\ \A i \in 1..Len(debts) :
              /\ right[i-1] = right[i] - Least(Outstanding(debts[i]), right[i])
              /\ left[i] = left[i-1] - (right[i] - right[i-1])

Drains(debts, funds, left) ==
    /\ left[0] = funds
    /\ \A i \in 1..Len(debts) :
          left[i] = left[i-1] - Least(Outstanding(debts[i]), left[i-1])

Repaid(debt, amount) ==
    IF amount = 0 THEN debt
    ELSE [debt EXCEPT
            !.recovered = @ + amount,
            !.status = IF debt.recovered + amount = debt.principal
                       THEN "settled" ELSE "open"]

Recovered(debts, left) ==
    [i \in 1..Len(debts) |-> Repaid(debts[i], left[i-1] - left[i])]

\* Fault: an entry shows the whole debt instead of what was paid.
RecoveryRowsInFull(w, debts, left, source) ==
    {[wallet |-> w, type |-> "liability_recovery",
      of |-> debts[i].ref, by |-> source,
      available |-> -Outstanding(debts[i]), reserved |-> 0] :
        i \in {j \in 1..Len(debts) : left[j] # left[j-1]}}

RecoveryRows(w, debts, left, source) ==
    {[wallet |-> w, type |-> "liability_recovery",
      of |-> debts[i].ref, by |-> source,
      available |-> left[i] - left[i-1], reserved |-> 0] :
        i \in {j \in 1..Len(debts) : left[j] # left[j-1]}}

\* The funds of wallet w after debts is paid from them.  rows are the entries
\* the caller posts itself; source identifies the entry that brought the funds.
\* financial_hold is recomputed only if there was an open debt to look at.
recoverWalletLiabilities(w, debts, funds, rows, source, hold) ==
    \E left \in [0..Len(debts) -> 0..funds] :
        /\ Drains(debts, funds, left)
        /\ liability' = [liability EXCEPT ![w] = Recovered(debts, left)]
        /\ wallet' = [wallet EXCEPT
              ![w].available = left[Len(debts)],
              ![w].hold = IF Owes(debts)
                          THEN Owes(Recovered(debts, left)) \/ Unsettled(w, {})
                          ELSE hold]
        /\ insertLedger(rows \cup RecoveryRows(w, debts, left, source))

-----------------------------------------------------------------------------
(* Usage: reserve, settle, release *)

\* Fault: financial_hold does not stop a reservation.
SpendableInDebt(w, amount) == wallet[w].available >= amount

Spendable(w, amount) == ~wallet[w].hold /\ wallet[w].available >= amount

\* Repository.Reserve for a positive quote.  The budget and price checks only
\* refuse more.
Reserve(r, w, amount) ==
    /\ reservation[r] = NoRow
    /\ Spendable(w, amount)
    /\ safeAdd(wallet[w].reserved, amount)
    /\ wallet' = [wallet EXCEPT ![w].available = @ - amount,
                               ![w].reserved = @ + amount]
    /\ reservation' = [reservation EXCEPT ![r] =
          [status |-> "reserved", wallet |-> w, amount |-> amount]]
    /\ insertLedger({Row(w, "reservation", r, -amount, amount)})
    /\ UNCHANGED <<settlement, liability, order>>

\* Fault: what exceeds the reservation is not collected.
ExtraForgiven(r, actual) == 0

\* What the final charge takes from the available balance, and what it leaves
\* of the reservation.
Extra(r, actual) ==
    IF actual > reservation[r].amount THEN actual - reservation[r].amount ELSE 0

Unused(r, actual) == reservation[r].amount - Least(actual, reservation[r].amount)

\* Fault: a retry of a pending settlement may bring another amount.
SettleableForAnyAmount(r, actual) ==
    /\ reservation[r].status \in {"reserved", "settlement_pending"}
    /\ settlement[r].status # "settled"
    /\ wallet[reservation[r].wallet].reserved >= reservation[r].amount

\* The checks of Repository.Settle before it looks at the balance: the usage
\* event of a settlement under way cannot change its amount.
Settleable(r, actual) ==
    /\ reservation[r].status \in {"reserved", "settlement_pending"}
    /\ settlement[r] \in {NoRow, [status |-> "pending", actual |-> actual]}
    /\ wallet[reservation[r].wallet].reserved >= reservation[r].amount

ReservedAfterSettle(r, actual) ==
    wallet[reservation[r].wallet].reserved - reservation[r].amount

\* Fault: paying one settlement lifts the hold, whatever else is owed.
HoldLiftedBySettle(r) == FALSE

\* Settle recomputes financial_hold from the other settlements and the
\* liabilities of the wallet.
HoldAfterSettle(r) ==
    LET w == reservation[r].wallet IN Unsettled(w, {r}) \/ Owes(liability[w])

UsageCharge(r, actual) ==
    Row(reservation[r].wallet, "usage_charge", r,
        -Extra(r, actual), Unused(r, actual) - reservation[r].amount)

UnusedRelease(r, actual) ==
    Row(reservation[r].wallet, "settlement_release", r,
        Unused(r, actual), -Unused(r, actual))

SettleRows(r, actual) ==
    (IF actual > 0 THEN {UsageCharge(r, actual)} ELSE {})
      \cup (IF Unused(r, actual) > 0 THEN {UnusedRelease(r, actual)} ELSE {})

\* Settle, the funds cover the charge.
Settle(r, actual) ==
    LET w == reservation[r].wallet
        extra == Extra(r, actual)
        unused == Unused(r, actual)
    IN
    /\ Settleable(r, actual)
    /\ wallet[w].available >= extra
    /\ safeAdd(wallet[w].available - extra, unused)
    /\ wallet' = [wallet EXCEPT
          ![w] = [available |-> @.available - extra + unused,
                  reserved |-> ReservedAfterSettle(r, actual),
                  hold |-> HoldAfterSettle(r)]]
    /\ settlement' = [settlement EXCEPT ![r] =
          [status |-> "settled", actual |-> actual]]
    /\ reservation' = [reservation EXCEPT ![r].status = "settled"]
    /\ insertLedger(SettleRows(r, actual))
    /\ UNCHANGED <<liability, order>>

\* Settle, the charge exceeds the reservation and the funds: the settlement
\* is recorded as pending and the wallet is put on hold.
SettlePending(r, actual) ==
    LET w == reservation[r].wallet IN
    /\ Settleable(r, actual)
    /\ wallet[w].available < Extra(r, actual)
    /\ wallet' = [wallet EXCEPT ![w].hold = TRUE]
    /\ settlement' = [settlement EXCEPT ![r] =
          [status |-> "pending", actual |-> actual]]
    /\ reservation' = [reservation EXCEPT ![r].status = "settlement_pending"]
    /\ UNCHANGED <<liability, order, ledger>>

Releasable(r) == reservation[r].status = "reserved"

\* Repository.Release: the reservation is dropped before any charge.
Release(r) ==
    LET w == reservation[r].wallet
        amount == reservation[r].amount
    IN
    /\ Releasable(r)
    /\ wallet[w].reserved >= amount
    /\ safeAdd(wallet[w].available, amount)
    /\ wallet' = [wallet EXCEPT ![w].available = @ + amount,
                               ![w].reserved = @ - amount]
    /\ reservation' = [reservation EXCEPT ![r].status = "released"]
    /\ insertLedger({Row(w, "release", r, amount, -amount)})
    /\ UNCHANGED <<settlement, liability, order>>

-----------------------------------------------------------------------------
(* Funding *)

CreditInTx(w, type, of, amount) ==
    /\ wallet[w].available + amount >= 0
    /\ safeAdd(wallet[w].available, amount)
    /\ recoverWalletLiabilities(
          w, liability[w], wallet[w].available + amount,
          {Row(w, type, of, amount, 0)}, of, wallet[w].hold)

\* Service.Credit: manual recharge, grant, bonus, or an adjustment, which may
\* be a debit.
Credit(c, w, amount) ==
    /\ CreditInTx(w, "credit", c, amount)
    /\ UNCHANGED <<reservation, settlement, order>>

\* The paid event of a payment order: its recharge and its status commit in
\* one transaction.
PayOrder(o, w, amount) ==
    /\ order[o] = NoRow
    /\ order' = [order EXCEPT ![o] =
          [status |-> "paid", wallet |-> w, amount |-> amount]]
    /\ CreditInTx(w, "recharge", o, amount)
    /\ UNCHANGED <<reservation, settlement>>

-----------------------------------------------------------------------------
(* Liabilities: provider refunds and disputes the wallet owes back *)

\* A liability is identified by its provider reference, whatever the wallet.
NewReference(ref) ==
    \A v \in Wallets : \A i \in 1..Len(liability[v]) : liability[v][i].ref # ref

\* Repository.OpenLiabilityInTx: takes what the wallet has, the rest is owed.
OpenLiabilityInTx(ref, w, amount) ==
    LET taken == Least(amount, wallet[w].available)
        debt == [ref |-> ref, principal |-> amount, recovered |-> taken,
                 status |-> IF taken < amount THEN "open" ELSE "settled"]
    IN
    /\ NewReference(ref)
    /\ liability' = [liability EXCEPT ![w] = Append(@, debt)]
    /\ wallet' = [wallet EXCEPT ![w].available = @ - taken,
                               ![w].hold = @ \/ debt.status = "open"]
    /\ insertLedger(IF taken > 0
                    THEN {Row(w, "liability_open", ref, -taken, 0)} ELSE {})

\* debts, with debt among them, is what w owes once debt is reversed.  What
\* debt had recovered returns and, if that is anything, pays the others.
ReturnRecovered(w, debts, debt, balance, rows) ==
    LET hold == Owes(debts) \/ Unsettled(w, {}) IN
    /\ safeAdd(balance, debt.recovered)
    /\ \/ /\ debt.recovered = 0
          /\ liability' = [liability EXCEPT ![w] = debts]
          /\ wallet' = [wallet EXCEPT ![w].hold = hold]
          /\ UNCHANGED ledger
       \/ /\ debt.recovered > 0
          /\ recoverWalletLiabilities(
                w, debts, balance + debt.recovered,
                rows \cup {Row(w, "liability_reversal", debt.ref,
                               debt.recovered, 0)},
                debt.ref, hold)

\* Repository.ReverseLiabilityInTx of the i-th liability of w.
ReverseLiabilityInTx(w, i) ==
    /\ liability[w][i].status # "reversed"
    /\ ReturnRecovered(w, [liability[w] EXCEPT ![i].status = "reversed"],
                       liability[w][i], wallet[w].available, {})

\* OpenLiabilityInTx and then ReverseLiabilityInTx in one transaction: what
\* payment does when the first it hears of a dispute is that it was won.
OpenReversedInTx(ref, w, amount) ==
    LET taken == Least(amount, wallet[w].available)
        debt == [ref |-> ref, principal |-> amount, recovered |-> taken,
                 status |-> "reversed"]
    IN
    /\ NewReference(ref)
    /\ ReturnRecovered(w, Append(liability[w], debt), debt,
                       wallet[w].available - taken,
                       {Row(w, "liability_open", ref, -taken, 0)})

OpenLiability(ref, w, amount) ==
    /\ OpenLiabilityInTx(ref, w, amount)
    /\ UNCHANGED <<reservation, settlement, order>>

ReverseLiability(w, i) ==
    /\ ReverseLiabilityInTx(w, i)
    /\ UNCHANGED <<reservation, settlement, order>>

OpenReversed(ref, w, amount) ==
    /\ OpenReversedInTx(ref, w, amount)
    /\ UNCHANGED <<reservation, settlement, order>>

-----------------------------------------------------------------------------
(* Refunds bablo starts itself: hold, then complete or release *)

\* The funds of w that order o holds move in, out, or back.  financial_hold is
\* not looked at.
HoldPaymentRefundInTx(o, w, amount) ==
    /\ wallet[w].available >= amount
    /\ safeAdd(wallet[w].reserved, amount)
    /\ wallet' = [wallet EXCEPT ![w].available = @ - amount,
                               ![w].reserved = @ + amount]
    /\ insertLedger({Row(w, "payment_refund_hold", o, -amount, amount)})

CompletePaymentRefundInTx(o, w, amount) ==
    /\ wallet[w].reserved >= amount
    /\ wallet' = [wallet EXCEPT ![w].reserved = @ - amount]
    /\ insertLedger({Row(w, "payment_reversal", o, 0, -amount)})

ReleasePaymentRefundInTx(o, w, amount) ==
    /\ wallet[w].reserved >= amount
    /\ safeAdd(wallet[w].available, amount)
    /\ wallet' = [wallet EXCEPT ![w].available = @ + amount,
                               ![w].reserved = @ - amount]
    /\ insertLedger({Row(w, "payment_refund_release", o, amount, -amount)})

\* PrepareRefund of a paid order.
HoldRefund(o) ==
    /\ order[o].status = "paid"
    /\ order' = [order EXCEPT ![o].status = "refund_pending"]
    /\ HoldPaymentRefundInTx(o, order[o].wallet, order[o].amount)
    /\ UNCHANGED <<reservation, settlement, liability>>

\* The refunded event.
CompleteRefund(o) ==
    /\ order[o].status = "refund_pending"
    /\ order' = [order EXCEPT ![o].status = "refunded"]
    /\ CompletePaymentRefundInTx(o, order[o].wallet, order[o].amount)
    /\ UNCHANGED <<reservation, settlement, liability>>

\* A definitive refund failure.  The order is paid again but keeps its hold
\* entry, which forbids another.
ReleaseRefund(o) ==
    /\ order[o].status = "refund_pending"
    /\ order' = [order EXCEPT ![o].status = "refund_failed"]
    /\ ReleasePaymentRefundInTx(o, order[o].wallet, order[o].amount)
    /\ UNCHANGED <<reservation, settlement, liability>>

-----------------------------------------------------------------------------

Debits == {-a : a \in Amounts}

UsageNext ==
    \E r \in Requests :
        \/ \E w \in Wallets, a \in Amounts : Reserve(r, w, a)
        \/ \E a \in Amounts \cup {0} : Settle(r, a) \/ SettlePending(r, a)
        \/ Release(r)

FundingNext ==
    \E w \in Wallets :
        \/ \E c \in Credits, a \in Amounts \cup Debits : Credit(c, w, a)
        \/ \E o \in Orders, a \in Amounts : PayOrder(o, w, a)
        \/ \E ref \in References, a \in Amounts :
              OpenLiability(ref, w, a) \/ OpenReversed(ref, w, a)
        \/ \E i \in 1..Len(liability[w]) : ReverseLiability(w, i)

RefundNext ==
    \E o \in Orders :
        \/ HoldRefund(o)
        \/ CompleteRefund(o)
        \/ ReleaseRefund(o)

Next == UsageNext \/ FundingNext \/ RefundNext

Spec == Init /\ [][Next]_vars

-----------------------------------------------------------------------------
(* Properties *)

\* Type correctness: in particular neither balance is ever negative or past
\* the int64 range, whatever order the operations of billing commit in.
TypeOK ==
    /\ wallet \in [Wallets -> [available : 0..MaxMinor, reserved : 0..MaxMinor,
                               hold : BOOLEAN]]
    /\ reservation \in [Requests -> ReservationRow \cup {NoRow}]
    /\ settlement \in [Requests -> SettlementRow \cup {NoRow}]
    /\ liability \in [Wallets -> Seq(LiabilityRow)]
    /\ order \in [Orders -> OrderRow \cup {NoRow}]
    /\ ledger \subseteq LedgerRow

\* financial_hold, which Settle, CreditInTx, OpenLiabilityInTx and
\* ReverseLiabilityInTx each maintain in a different way, is set exactly while
\* the wallet has a settlement pending or a liability open.
FinancialHoldExact ==
    \A w \in Wallets :
        wallet[w].hold <=> (Unsettled(w, {}) \/ Owes(liability[w]))

\* The reservation and its settlement, written by separate statements of
\* Settle, agree on where the request stands.
SettlementMatchesReservation ==
    \A r \in Requests :
        /\ settlement[r].status = "pending"
              <=> reservation[r].status = "settlement_pending"
        /\ settlement[r].status = "settled" <=> reservation[r].status = "settled"

\* A debt is open exactly while something of it is outstanding, unless it was
\* reversed, and never recovers more than its principal.
DebtExact(debt) ==
    /\ debt.recovered <= debt.principal
    /\ debt.status = "open" => debt.recovered < debt.principal
    /\ debt.status = "settled" => debt.recovered = debt.principal

\* Every liability is exact, although three operations of billing compute its
\* status on their own.
LiabilityStatusExact ==
    \A w \in Wallets : \A i \in 1..Len(liability[w]) :
        DebtExact(liability[w][i])

AvailableDelta == [row \in LedgerRow |-> row.available]

ReservedDelta == [row \in LedgerRow |-> row.reserved]

Total(delta, rows) == SumFunctionOnSet(delta, rows)

EntriesOf(w, rows) == {row \in rows : row.wallet = w}

EntriesAbout(subject, rows) == {row \in rows : row.of = subject}

\* What holds the reserved balance of w: live reservations and pending refunds.
Holding(w) ==
    {r \in Requests : /\ reservation[r].status \in {"reserved", "settlement_pending"}
                      /\ reservation[r].wallet = w}

Refunding(w) ==
    {o \in Orders : order[o].status = "refund_pending" /\ order[o].wallet = w}

HeldAmounts(w) == [r \in Holding(w) |-> reservation[r].amount]

RefundAmounts(w) == [o \in Refunding(w) |-> order[o].amount]

\* RebuildBalance: the deltas of the append-only ledger add up to the balances
\* the transactions maintain.
LedgerRebuildsBalance ==
    \A w \in Wallets :
        /\ wallet[w].available = Total(AvailableDelta, EntriesOf(w, ledger))
        /\ wallet[w].reserved = Total(ReservedDelta, EntriesOf(w, ledger))

\* The reserved balance is exactly what the live reservations and the pending
\* refunds hold, so Settle, Release and CompletePaymentRefundInTx always find
\* the amount they take out.
ReservedIsBacked ==
    \A w \in Wallets :
        wallet[w].reserved = SumFunction(HeldAmounts(w)) + SumFunction(RefundAmounts(w))

\* What the ledger took for a request, over all its entries: its usage once
\* settled, and nothing before, whatever was reserved, deferred or retried.
ChargedExactlyOnce ==
    \A r \in Requests :
        LET rows == EntriesAbout(r, ledger) IN
        Total(AvailableDelta, rows) + Total(ReservedDelta, rows) =
          IF settlement[r].status = "settled" THEN -settlement[r].actual ELSE 0

\* What the ledger took for a liability, over the entry that opened it, every
\* later recovery and its reversal, is what the liability says was recovered.
RecoveryIsPosted ==
    \A w \in Wallets : \A i \in 1..Len(liability[w]) :
        LET debt == liability[w][i] IN
        Total(AvailableDelta, EntriesAbout(debt.ref, ledger)) =
          IF debt.status = "reversed" THEN 0 ELSE -debt.recovered

\* The books balance: the ledger rebuilds the balances, the reserved balance is
\* backed by what holds it, and every debt is exact and posted, although each
\* operation of billing maintains these rows on its own.
BooksBalance ==
    /\ LedgerRebuildsBalance
    /\ ReservedIsBacked
    /\ LiabilityStatusExact
    /\ RecoveryIsPosted

\* A request is charged exactly once, and its reservation and its settlement
\* say so, whatever Settle, its retries and Release do in which order.
ChargesExact == SettlementMatchesReservation /\ ChargedExactlyOnce

\* No new spending in debt: a reservation is only granted to a wallet with no
\* pending settlement and no open liability, though Reserve itself reads only
\* financial_hold.
NoReservationInDebt ==
    [][\A r \in Requests :
          (reservation[r] = NoRow /\ reservation'[r] # NoRow) =>
             LET w == reservation'[r].wallet IN
             ~Unsettled(w, {}) /\ ~Owes(liability[w])]_vars

\* Facts are final: a settled or released reservation, a settled settlement
\* and a reversed liability never change again, a pending settlement keeps its
\* amount, and what a liability recovered never shrinks.
FactsAreFinal ==
    [][/\ \A r \in Requests :
             /\ reservation[r].status \in {"settled", "released"} =>
                   reservation'[r] = reservation[r]
             /\ settlement[r] # NoRow =>
                   settlement'[r].actual = settlement[r].actual
             /\ settlement[r].status = "settled" =>
                   settlement'[r] = settlement[r]
       /\ \A w \in Wallets : \A i \in 1..Len(liability[w]) :
             /\ liability[w][i].status = "reversed" =>
                   liability'[w][i] = liability[w][i]
             /\ liability'[w][i].recovered >= liability[w][i].recovered
             /\ liability[w][i].status = "settled" =>
                   liability'[w][i].status # "open"]_vars

\* Money that comes in pays the debts that are there, oldest first
\* (recoverWalletLiabilities; docs/adr/0003, decision 12, asks it of later
\* recharges): no step pays more of an existing liability while an older one of
\* the wallet stays open, and funding leaves a balance only when none is open.
\* What OpenLiability takes for a new debt is not meant: it comes from the
\* balance of that moment, which a Release may have left beside an older debt.
OldestDebtFirst ==
    [][\A w \in Wallets :
          /\ \A j \in 1..Len(liability[w]) :
                liability'[w][j].recovered > liability[w][j].recovered =>
                   \A i \in 1..(j-1) : liability'[w][i].status # "open"
          /\ (\E row \in ledger' \ ledger :
                 row.wallet = w /\ row.type \in {"credit", "recharge"})
              => (wallet'[w].available = 0 \/ ~Owes(liability'[w]))]_vars
=============================================================================
