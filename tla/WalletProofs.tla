---------------------------- MODULE WalletProofs ----------------------------
(* Theorems about Wallet for every number of wallets, requests, orders,        *)
(* credits and liabilities, and every set of amounts; at the end its books: the *)
(* ledger rebuilds the balances, what is reserved is backed by reservations     *)
(* and refunds, and a request is charged once.                                 *)
EXTENDS Wallet, FiniteSetTheorems, TLAPS

-----------------------------------------------------------------------------
(* Paying debts from funds *)

\* A function on 1..n is a sequence of length n.
LEMMA FunctionIsSequence ==
    ASSUME NEW S, NEW n \in Nat, NEW f \in [1..n -> S]
    PROVE  f \in Seq(S) /\ Len(f) = n
OBVIOUS

\* recoverWalletLiabilities leaves well-formed, exact liabilities behind.
LEMMA RecoveredIsExact ==
    ASSUME NEW debts \in Seq(LiabilityRow), NEW funds \in 0..MaxMinor,
           NEW left \in [0..Len(debts) -> 0..funds],
           \A i \in 1..Len(debts) : DebtExact(debts[i]),
           Drains(debts, funds, left)
    PROVE  /\ Recovered(debts, left) \in Seq(LiabilityRow)
           /\ Len(Recovered(debts, left)) = Len(debts)
           /\ \A i \in 1..Len(debts) : DebtExact(Recovered(debts, left)[i])
<1>1. ASSUME NEW i \in 1..Len(debts)
      PROVE  /\ Repaid(debts[i], left[i-1] - left[i]) \in LiabilityRow
             /\ DebtExact(Repaid(debts[i], left[i-1] - left[i]))
  <2>1. /\ debts[i] \in LiabilityRow
        /\ DebtExact(debts[i])
        /\ left[i-1] \in 0..funds
        /\ left[i] \in 0..funds
        /\ left[i] = left[i-1] - Least(Outstanding(debts[i]), left[i-1])
    BY DEF Drains
  <2>2. /\ debts[i].principal \in 1..MaxMinor
        /\ debts[i].recovered \in 0..MaxMinor
        /\ MaxMinor \in Nat
    BY <2>1, AmountsAssumption DEF LiabilityRow
  <2>3. CASE left[i-1] = left[i]
    BY <2>1, <2>3 DEF Repaid
  <2>4. CASE left[i-1] # left[i]
    <3>1. PICK paid \in Int : paid = left[i-1] - left[i]
      BY <2>1
    <3>2. /\ paid # 0
          /\ paid \in 0..(debts[i].principal - debts[i].recovered)
          /\ debts[i].status = "open"
      <4>1. PICK before \in Nat, after \in Nat :
               before = left[i-1] /\ after = left[i]
        BY <2>1, AmountsAssumption
      <4>2. PICK due \in Nat : due = Outstanding(debts[i])
        BY <2>1, <2>2 DEF Outstanding, DebtExact
      <4>3. paid # 0 /\ paid \in 0..due /\ due # 0
        BY <2>1, <2>4, <3>1, <4>1, <4>2, SMTT(60) DEF Least
      <4>4. debts[i].status = "open" /\ due = debts[i].principal - debts[i].recovered
        BY <4>2, <4>3 DEF Outstanding
      <4>5. QED
        BY <4>3, <4>4
    <3>3. PICK total \in 0..MaxMinor :
             total = debts[i].recovered + paid /\ total <= debts[i].principal
      <4>1. debts[i].recovered + paid \in 0..MaxMinor
        BY <2>2, <3>2
      <4>2. debts[i].recovered + paid <= debts[i].principal
        BY <2>2, <3>2
      <4>3. QED
        BY <4>1, <4>2
    <3>4. Repaid(debts[i], paid) =
            [debts[i] EXCEPT !.recovered = total,
               !.status = IF total = debts[i].principal
                          THEN "settled" ELSE "open"]
      BY <3>2, <3>3, <2>1 DEF Repaid, LiabilityRow
    <3>5. Repaid(debts[i], paid) \in LiabilityRow
      BY <2>1, <3>3, <3>4 DEF LiabilityRow
    <3>6. DebtExact(Repaid(debts[i], paid))
      BY <2>1, <2>2, <3>3, <3>4 DEF LiabilityRow, DebtExact
    <3>7. QED
      BY <3>1, <3>5, <3>6
  <2>5. QED
    BY <2>3, <2>4
<1>2. Recovered(debts, left) \in [1..Len(debts) -> LiabilityRow]
  BY <1>1 DEF Recovered
<1>3. QED
  BY <1>1, <1>2, FunctionIsSequence DEF Recovered

\* Funds that find no open debt change no debt.
LEMMA NothingOwedNothingPaid ==
    ASSUME NEW debts \in Seq(LiabilityRow), NEW funds \in 0..MaxMinor,
           NEW left \in [0..Len(debts) -> 0..funds],
           Drains(debts, funds, left),
           ~Owes(debts)
    PROVE  ~Owes(Recovered(debts, left))
<1>1. ASSUME NEW i \in 1..Len(debts)
      PROVE  Repaid(debts[i], left[i-1] - left[i]) = debts[i]
  <2>1. /\ left[i-1] \in 0..funds
        /\ left[i] \in 0..funds
        /\ left[i] = left[i-1] - Least(Outstanding(debts[i]), left[i-1])
    BY DEF Drains
  <2>2. Outstanding(debts[i]) = 0
    BY DEF Owes, Outstanding
  <2>3. left[i-1] - left[i] = 0
    BY <2>1, <2>2, AmountsAssumption DEF Least
  <2>4. QED
    BY <2>3 DEF Repaid
<1>2. Recovered(debts, left) = [i \in 1..Len(debts) |-> debts[i]]
  BY <1>1 DEF Recovered
<1>3. Len(Recovered(debts, left)) = Len(debts)
  <2>1. Recovered(debts, left) \in [1..Len(debts) -> LiabilityRow]
    BY <1>2
  <2>2. QED
    BY <2>1, FunctionIsSequence
<1>4. QED
  BY <1>2, <1>3 DEF Owes

\* A row of wallets.
WalletRow == [available : 0..MaxMinor, reserved : 0..MaxMinor, hold : BOOLEAN]

\* What a step that ends in recoverWalletLiabilities leaves behind: well-typed
\* rows, exact liabilities, the other wallets untouched, and a financial_hold
\* that is right if hold was right for debts.
RecoveryDone(w, debts, hold) ==
    /\ wallet' \in [Wallets -> WalletRow]
    /\ liability' \in [Wallets -> Seq(LiabilityRow)]
    /\ ledger' \subseteq LedgerRow
    /\ LiabilityStatusExact'
    /\ \A v \in Wallets \ {w} : /\ wallet'[v] = wallet[v]
                                /\ liability'[v] = liability[v]
    /\ (hold <=> (Unsettled(w, {}) \/ Owes(debts))) =>
          (wallet'[w].hold <=> (Unsettled(w, {}) \/ Owes(liability'[w])))

\* The whole of recoverWalletLiabilities: it keeps the types, keeps the
\* liabilities exact, and leaves financial_hold right if its caller computed it.
LEMMA RecoveryKeeps ==
    ASSUME TypeOK, LiabilityStatusExact,
           NEW w \in Wallets, NEW debts \in Seq(LiabilityRow),
           \A i \in 1..Len(debts) : DebtExact(debts[i]),
           NEW funds \in 0..MaxMinor,
           NEW rows \in SUBSET LedgerRow, NEW source \in Subjects,
           NEW hold \in BOOLEAN,
           recoverWalletLiabilities(w, debts, funds, rows, source, hold)
    PROVE  RecoveryDone(w, debts, hold)
<1>1. PICK left \in [0..Len(debts) -> 0..funds] :
        /\ Drains(debts, funds, left)
        /\ liability' = [liability EXCEPT ![w] = Recovered(debts, left)]
        /\ wallet' = [wallet EXCEPT
              ![w].available = left[Len(debts)],
              ![w].hold = IF Owes(debts)
                          THEN Owes(Recovered(debts, left)) \/ Unsettled(w, {})
                          ELSE hold]
        /\ insertLedger(rows \cup RecoveryRows(w, debts, left, source))
  BY DEF recoverWalletLiabilities
<1>2. /\ Recovered(debts, left) \in Seq(LiabilityRow)
      /\ Len(Recovered(debts, left)) = Len(debts)
      /\ \A i \in 1..Len(debts) : DebtExact(Recovered(debts, left)[i])
  BY <1>1, RecoveredIsExact
<1>3. left[Len(debts)] \in 0..MaxMinor
  BY AmountsAssumption
<1>4. wallet' \in [Wallets -> WalletRow]
  <2>1. wallet \in [Wallets -> WalletRow]
    BY DEF TypeOK, WalletRow
  <2>2. PICK h \in BOOLEAN :
          wallet' = [wallet EXCEPT ![w].available = left[Len(debts)], ![w].hold = h]
    <3>1. Owes(Recovered(debts, left)) \/ Unsettled(w, {}) \in BOOLEAN
      BY DEF Owes, Unsettled
    <3>2. QED
      BY <1>1, <3>1
  <2>3. QED
    BY <1>3, <2>1, <2>2 DEF WalletRow
<1>5. liability' \in [Wallets -> Seq(LiabilityRow)]
  BY <1>1, <1>2 DEF TypeOK
<1>6. RecoveryRows(w, debts, left, source) \subseteq LedgerRow
  <2>1. ASSUME NEW i \in 1..Len(debts)
        PROVE  /\ debts[i].ref \in Subjects
               /\ left[i] - left[i-1] \in Int
    <3>1. debts[i] \in LiabilityRow
      OBVIOUS
    <3>2. left[i] \in 0..funds /\ left[i-1] \in 0..funds
      OBVIOUS
    <3>3. QED
      BY <3>1, <3>2, AmountsAssumption DEF LiabilityRow, Subjects
  <2>2. QED
    BY <2>1 DEF RecoveryRows, LedgerRow, EntryTypes
<1>7. ledger' \subseteq LedgerRow
  BY <1>1, <1>6 DEF insertLedger, TypeOK
<1>8. LiabilityStatusExact'
  BY <1>1, <1>2 DEF LiabilityStatusExact, TypeOK
<1>9. \A v \in Wallets \ {w} : /\ wallet'[v] = wallet[v]
                              /\ liability'[v] = liability[v]
  BY <1>1 DEF TypeOK
<1>10. ASSUME hold <=> (Unsettled(w, {}) \/ Owes(debts))
       PROVE  wallet'[w].hold <=> (Unsettled(w, {}) \/ Owes(liability'[w]))
  <2>1. liability'[w] = Recovered(debts, left)
    BY <1>1 DEF TypeOK
  <2>2. wallet'[w].hold = IF Owes(debts)
                          THEN Owes(Recovered(debts, left)) \/ Unsettled(w, {})
                          ELSE hold
    BY <1>1 DEF TypeOK
  <2>3. ~Owes(debts) => ~Owes(Recovered(debts, left))
    BY <1>1, NothingOwedNothingPaid
  <2>4. QED
    BY <1>10, <2>1, <2>2, <2>3
<1>11. QED
  BY <1>4, <1>5, <1>7, <1>8, <1>9, <1>10 DEF RecoveryDone

-----------------------------------------------------------------------------
(* Type correctness.  The liabilities must be exact for what is left of a      *)
(* debt to stay in range, so the two are invariant together.                   *)

\* Types, and the status of every liability: TypeOK alone is not inductive,
\* because what a recovery takes depends on the statuses being exact.
TypeInv == TypeOK /\ LiabilityStatusExact

\* Empty wallets, no rows: the state getOrCreateWallet starts from.
LEMMA TypeInvInit == Init => TypeInv
<1> SUFFICES ASSUME Init PROVE TypeInv
  OBVIOUS
<1>1. MaxMinor \in Nat
  BY AmountsAssumption
<1>2. <<>> \in Seq(LiabilityRow) /\ Len(<<>>) = 0
  OBVIOUS
<1>3. TypeOK
  BY <1>1, <1>2 DEF Init, TypeOK
<1>4. LiabilityStatusExact
  BY <1>2 DEF Init, LiabilityStatusExact
<1>5. QED
  BY <1>3, <1>4 DEF TypeInv

\* A row that Row builds is a ledger row.
LEMMA RowType ==
    ASSUME NEW w \in Wallets, NEW type \in EntryTypes, NEW of \in Subjects,
           NEW a \in Int, NEW b \in Int
    PROVE  Row(w, type, of, a, b) \in LedgerRow
BY DEF Row, LedgerRow

\* Repository.Reserve moves an amount the wallet has, within range.
LEMMA ReserveType ==
    ASSUME TypeInv, NEW r \in Requests, NEW w \in Wallets, NEW amount \in Amounts,
           Reserve(r, w, amount)
    PROVE  TypeInv'
<1>1. amount \in 1..MaxMinor /\ MaxMinor \in Nat
  BY AmountsAssumption
<1>2. wallet[w] \in WalletRow
  BY DEF TypeInv, TypeOK, WalletRow
<1>3. /\ wallet[w].available - amount \in 0..MaxMinor
      /\ wallet[w].reserved + amount \in 0..MaxMinor
  BY <1>1, <1>2 DEF Reserve, Spendable, safeAdd, WalletRow
<1>4. wallet' \in [Wallets -> WalletRow]
  BY <1>2, <1>3 DEF Reserve, TypeInv, TypeOK, WalletRow
<1>5. reservation' \in [Requests -> ReservationRow \cup {NoRow}]
  BY DEF Reserve, TypeInv, TypeOK, ReservationRow
<1>6. Row(w, "reservation", r, -amount, amount) \in LedgerRow
  BY <1>1, RowType DEF EntryTypes, Subjects
<1>7. ledger' \subseteq LedgerRow
  BY <1>6 DEF Reserve, insertLedger, TypeInv, TypeOK
<1>8. QED
  BY <1>4, <1>5, <1>7 DEF Reserve, TypeInv, TypeOK, LiabilityStatusExact, WalletRow

\* What Settleable says of the reservation it is about.
LEMMA SettleableReservation ==
    ASSUME TypeInv, NEW r \in Requests, NEW actual, Settleable(r, actual)
    PROVE  /\ reservation[r] \in ReservationRow
           /\ reservation[r].amount \in 1..MaxMinor
           /\ reservation[r].wallet \in Wallets
           /\ wallet[reservation[r].wallet] \in WalletRow
<1>1. reservation[r] \in ReservationRow
  BY DEF Settleable, TypeInv, TypeOK, NoRow
<1>2. QED
  BY <1>1, AmountsAssumption DEF TypeInv, TypeOK, WalletRow, ReservationRow

\* Repository.Settle, paid: the charge comes out of the reservation and of
\* funds that were checked, and the unused rest returns without overflow.
LEMMA SettleType ==
    ASSUME TypeInv, NEW r \in Requests, NEW actual \in Amounts \cup {0},
           Settle(r, actual)
    PROVE  TypeInv'
<1> DEFINE w == reservation[r].wallet
           amount == reservation[r].amount
           extra == Extra(r, actual)
           unused == Unused(r, actual)
           hold == HoldAfterSettle(r)
           charge == UsageCharge(r, actual)
           rest == UnusedRelease(r, actual)
<1>1. Settleable(r, actual)
  BY DEF Settle
<1>2. /\ actual \in 0..MaxMinor
      /\ MaxMinor \in Nat
  BY AmountsAssumption
<1>3. /\ reservation[r] \in ReservationRow
      /\ amount \in 1..MaxMinor
      /\ w \in Wallets
      /\ wallet[w] \in WalletRow
  BY <1>1, SettleableReservation
<1>4. extra \in 0..MaxMinor /\ unused \in 0..MaxMinor
  BY <1>2, <1>3 DEF Extra, Unused, Least
<1>5. /\ wallet[w].available - extra + unused \in 0..MaxMinor
      /\ wallet[w].reserved - amount \in 0..MaxMinor
  BY <1>1, <1>2, <1>3, <1>4 DEF Settle, Settleable, safeAdd, WalletRow
<1>6. wallet' = [wallet EXCEPT ![w] =
         [available |-> wallet[w].available - extra + unused,
          reserved |-> wallet[w].reserved - amount, hold |-> hold]]
  BY DEF Settle, ReservedAfterSettle
<1>7. hold \in BOOLEAN
  BY DEF HoldAfterSettle, Unsettled, Owes
<1>8. wallet' \in [Wallets -> WalletRow]
  <2> HIDE DEF w, amount, extra, unused, hold
  <2>1. QED
    BY <1>3, <1>5, <1>6, <1>7 DEF TypeInv, TypeOK, WalletRow
<1>9. settlement' \in [Requests -> SettlementRow \cup {NoRow}]
  BY <1>2 DEF Settle, TypeInv, TypeOK, SettlementRow
<1>10. reservation' \in [Requests -> ReservationRow \cup {NoRow}]
  <2>1. reservation' = [reservation EXCEPT ![r].status = "settled"]
    BY DEF Settle
  <2>2. QED
    BY <1>3, <2>1 DEF TypeInv, TypeOK, ReservationRow
<1>11. charge \in LedgerRow /\ rest \in LedgerRow
  <2>1. /\ charge = Row(w, "usage_charge", r, -extra, unused - amount)
        /\ rest = Row(w, "settlement_release", r, unused, -unused)
    BY DEF UsageCharge, UnusedRelease
  <2> HIDE DEF w, amount, extra, unused, charge, rest
  <2>2. QED
    BY <1>2, <1>3, <1>4, <2>1, RowType DEF EntryTypes, Subjects
<1>12. ledger' \subseteq LedgerRow
  <2>1. ledger' \subseteq ledger \cup {charge, rest}
    BY DEF Settle, SettleRows, insertLedger
  <2>2. QED
    BY <1>11, <2>1 DEF TypeInv, TypeOK
<1>13. QED
  BY <1>8, <1>9, <1>10, <1>12
     DEF Settle, TypeInv, TypeOK, LiabilityStatusExact, WalletRow

\* Repository.Settle, unpaid: only statuses and the hold change.
LEMMA SettlePendingType ==
    ASSUME TypeInv, NEW r \in Requests, NEW actual \in Amounts \cup {0},
           SettlePending(r, actual)
    PROVE  TypeInv'
<1>1. Settleable(r, actual)
  BY DEF SettlePending
<1>2. actual \in 0..MaxMinor
  BY AmountsAssumption
<1>3. /\ reservation[r] \in ReservationRow
      /\ reservation[r].wallet \in Wallets
      /\ wallet[reservation[r].wallet] \in WalletRow
  BY <1>1, SettleableReservation
<1>4. wallet' \in [Wallets -> WalletRow]
  BY <1>3 DEF SettlePending, TypeInv, TypeOK, WalletRow
<1>5. settlement' \in [Requests -> SettlementRow \cup {NoRow}]
  BY <1>2 DEF SettlePending, TypeInv, TypeOK, SettlementRow
<1>6. reservation' \in [Requests -> ReservationRow \cup {NoRow}]
  <2>1. reservation' = [reservation EXCEPT ![r].status = "settlement_pending"]
    BY DEF SettlePending
  <2>2. QED
    BY <1>3, <2>1 DEF TypeInv, TypeOK, ReservationRow
<1>7. QED
  BY <1>4, <1>5, <1>6
     DEF SettlePending, TypeInv, TypeOK, LiabilityStatusExact, WalletRow

\* Repository.Release returns what the reservation held, within range.
LEMMA ReleaseType ==
    ASSUME TypeInv, NEW r \in Requests, Release(r)
    PROVE  TypeInv'
<1> DEFINE w == reservation[r].wallet
           amount == reservation[r].amount
<1>1. reservation[r] \in ReservationRow
  BY DEF Release, Releasable, TypeInv, TypeOK, NoRow
<1>2. /\ w \in Wallets
      /\ amount \in 1..MaxMinor
      /\ MaxMinor \in Nat
      /\ wallet[w] \in WalletRow
  BY <1>1, AmountsAssumption DEF TypeInv, TypeOK, WalletRow, ReservationRow
<1>3. /\ wallet[w].available + amount \in 0..MaxMinor
      /\ wallet[w].reserved - amount \in 0..MaxMinor
  BY <1>2 DEF Release, safeAdd, WalletRow
<1>4. wallet' \in [Wallets -> WalletRow]
  BY <1>2, <1>3 DEF Release, TypeInv, TypeOK, WalletRow
<1>5. reservation' \in [Requests -> ReservationRow \cup {NoRow}]
  <2>1. reservation' = [reservation EXCEPT ![r].status = "released"]
    BY DEF Release
  <2>2. QED
    BY <1>1, <2>1 DEF TypeInv, TypeOK, ReservationRow
<1>6. Row(w, "release", r, amount, -amount) \in LedgerRow
  BY <1>2, RowType DEF EntryTypes, Subjects
<1>7. ledger' \subseteq LedgerRow
  BY <1>6 DEF Release, insertLedger, TypeInv, TypeOK
<1>8. QED
  BY <1>4, <1>5, <1>7 DEF Release, TypeInv, TypeOK, LiabilityStatusExact, WalletRow

\* CreditInTx is a recovery from the increased balance.
LEMMA CreditKeeps ==
    ASSUME TypeInv, NEW w \in Wallets, NEW type \in EntryTypes, NEW of \in Subjects,
           NEW amount \in Amounts \cup Debits, CreditInTx(w, type, of, amount)
    PROVE  RecoveryDone(w, liability[w], wallet[w].hold)
<1>1. amount \in Int /\ MaxMinor \in Nat
  BY AmountsAssumption DEF Debits
<1>2. /\ wallet[w].available \in 0..MaxMinor
      /\ wallet[w].hold \in BOOLEAN
      /\ liability[w] \in Seq(LiabilityRow)
  BY DEF TypeInv, TypeOK
<1>3. PICK funds \in 0..MaxMinor : funds = wallet[w].available + amount
  BY <1>1, <1>2 DEF CreditInTx, safeAdd
<1>4. PICK rows \in SUBSET LedgerRow : rows = {Row(w, type, of, amount, 0)}
  <2>1. Row(w, type, of, amount, 0) \in LedgerRow
    BY <1>1, RowType
  <2>2. QED
    BY <2>1
<1>5. recoverWalletLiabilities(w, liability[w], funds, rows, of, wallet[w].hold)
  BY <1>3, <1>4 DEF CreditInTx
<1>6. \A i \in 1..Len(liability[w]) : DebtExact(liability[w][i])
  BY DEF TypeInv, LiabilityStatusExact
<1>7. TypeOK /\ LiabilityStatusExact
  BY DEF TypeInv
<1>8. PICK debts \in Seq(LiabilityRow), hold \in BOOLEAN :
         debts = liability[w] /\ hold = wallet[w].hold
  BY <1>2
<1>9. /\ recoverWalletLiabilities(w, debts, funds, rows, of, hold)
      /\ \A i \in 1..Len(debts) : DebtExact(debts[i])
  BY <1>5, <1>6, <1>8
<1>10. RecoveryDone(w, debts, hold)
  BY <1>7, <1>9, RecoveryKeeps, Zenon
<1>11. QED
  BY <1>8, <1>10

\* Service.Credit, a credit or a debit, through CreditInTx.
LEMMA CreditType ==
    ASSUME TypeInv, NEW c \in Credits, NEW w \in Wallets,
           NEW amount \in Amounts \cup Debits, Credit(c, w, amount)
    PROVE  TypeInv'
<1>1. CreditInTx(w, "credit", c, amount) /\ c \in Subjects /\ "credit" \in EntryTypes
  BY DEF Credit, Subjects, EntryTypes
<1>2. QED
  BY <1>1, CreditKeeps DEF RecoveryDone, Credit, TypeInv, TypeOK, WalletRow

\* The paid event of an order, through CreditInTx.
LEMMA PayOrderType ==
    ASSUME TypeInv, NEW o \in Orders, NEW w \in Wallets, NEW amount \in Amounts,
           PayOrder(o, w, amount)
    PROVE  TypeInv'
<1>1. CreditInTx(w, "recharge", o, amount) /\ o \in Subjects /\ "recharge" \in EntryTypes
  BY DEF PayOrder, Subjects, EntryTypes
<1>2. order' \in [Orders -> OrderRow \cup {NoRow}]
  BY DEF PayOrder, TypeInv, TypeOK, OrderRow
<1>3. QED
  BY <1>1, <1>2, CreditKeeps DEF RecoveryDone, PayOrder, TypeInv, TypeOK, WalletRow

\* OpenLiabilityInTx takes at most the available balance and appends a debt
\* that is exact.
LEMMA OpenLiabilityType ==
    ASSUME TypeInv, NEW ref \in References, NEW w \in Wallets, NEW amount \in Amounts,
           OpenLiability(ref, w, amount)
    PROVE  TypeInv'
<1> DEFINE taken == Least(amount, wallet[w].available)
           debt == [ref |-> ref, principal |-> amount, recovered |-> taken,
                    status |-> IF taken < amount THEN "open" ELSE "settled"]
<1>1. amount \in 1..MaxMinor /\ MaxMinor \in Nat
  BY AmountsAssumption
<1>2. wallet[w] \in WalletRow /\ liability[w] \in Seq(LiabilityRow)
  BY DEF TypeInv, TypeOK, WalletRow
<1>3. /\ taken \in 0..MaxMinor
      /\ taken <= amount
      /\ wallet[w].available - taken \in 0..MaxMinor
  BY <1>1, <1>2 DEF Least, WalletRow
<1>4. debt \in LiabilityRow /\ DebtExact(debt)
  <2> HIDE DEF taken
  <2>1. QED
    BY <1>1, <1>3 DEF LiabilityRow, DebtExact
<1>5. /\ liability' = [liability EXCEPT ![w] = Append(liability[w], debt)]
      /\ wallet' = [wallet EXCEPT ![w].available = wallet[w].available - taken,
                                  ![w].hold = wallet[w].hold \/ debt.status = "open"]
      /\ ledger' \subseteq ledger \cup {Row(w, "liability_open", ref, -taken, 0)}
      /\ UNCHANGED <<reservation, settlement, order>>
  BY DEF OpenLiability, OpenLiabilityInTx, insertLedger
<1>6. Row(w, "liability_open", ref, -taken, 0) \in LedgerRow
  <2> HIDE DEF taken
  <2>1. QED
    BY <1>1, <1>3, RowType DEF EntryTypes, Subjects
<1> HIDE DEF taken, debt
<1>7. wallet' \in [Wallets -> WalletRow]
  <2>1. PICK h \in BOOLEAN : h = (wallet[w].hold \/ debt.status = "open")
    OBVIOUS
  <2>2. QED
    BY <1>2, <1>3, <1>5, <2>1 DEF TypeInv, TypeOK, WalletRow
<1>8. /\ Append(liability[w], debt) \in Seq(LiabilityRow)
      /\ \A i \in 1..Len(Append(liability[w], debt)) :
            DebtExact(Append(liability[w], debt)[i])
  BY <1>2, <1>4 DEF TypeInv, LiabilityStatusExact
<1>9. /\ liability' \in [Wallets -> Seq(LiabilityRow)]
      /\ LiabilityStatusExact'
  BY <1>5, <1>8 DEF TypeInv, TypeOK, LiabilityStatusExact
<1>10. QED
  BY <1>5, <1>6, <1>7, <1>9 DEF TypeInv, TypeOK, WalletRow

\* The liabilities of w once the i-th is marked reversed.
LEMMA ReversedDebts ==
    ASSUME TypeInv, NEW w \in Wallets, NEW i \in 1..Len(liability[w])
    PROVE  LET debts == [liability[w] EXCEPT ![i].status = "reversed"] IN
           /\ debts \in Seq(LiabilityRow)
           /\ \A j \in 1..Len(debts) : DebtExact(debts[j])
<1> DEFINE debts == [liability[w] EXCEPT ![i].status = "reversed"]
<1>1. liability[w] \in Seq(LiabilityRow)
  BY DEF TypeInv, TypeOK
<1>2. debts \in [1..Len(liability[w]) -> LiabilityRow]
  <2>1. PICK debt \in LiabilityRow :
           debt = [liability[w][i] EXCEPT !.status = "reversed"]
    <3>1. liability[w][i] \in LiabilityRow
      BY <1>1
    <3>2. [liability[w][i] EXCEPT !.status = "reversed"] \in LiabilityRow
      BY <3>1 DEF LiabilityRow
    <3>3. QED
      BY <3>2
  <2>2. debts = [liability[w] EXCEPT ![i] = debt]
    BY <1>1, <2>1
  <2>3. liability[w] \in [1..Len(liability[w]) -> LiabilityRow]
    BY <1>1
  <2>4. QED
    BY <2>2, <2>3
<1>3. debts \in Seq(LiabilityRow) /\ Len(debts) = Len(liability[w])
  BY <1>1, <1>2, FunctionIsSequence
<1>4. ASSUME NEW j \in 1..Len(liability[w]) PROVE DebtExact(debts[j])
  <2>1. DebtExact(liability[w][j]) /\ liability[w][j] \in LiabilityRow
    BY <1>1 DEF TypeInv, LiabilityStatusExact
  <2>2. debts[j] = IF j = i THEN [liability[w][j] EXCEPT !.status = "reversed"]
                   ELSE liability[w][j]
    BY <1>1
  <2>3. QED
    BY <2>1, <2>2 DEF DebtExact, LiabilityRow
<1>5. QED
  BY <1>3, <1>4

\* The branch of ReturnRecovered that returns what had been recovered.
LEMMA ReversalKeeps ==
    ASSUME TypeInv, NEW w \in Wallets, NEW debts \in Seq(LiabilityRow),
           \A j \in 1..Len(debts) : DebtExact(debts[j]),
           NEW debt \in LiabilityRow, NEW balance \in 0..MaxMinor,
           NEW rows \in SUBSET LedgerRow, NEW hold \in BOOLEAN,
           safeAdd(balance, debt.recovered),
           recoverWalletLiabilities(
                w, debts, balance + debt.recovered,
                rows \cup {Row(w, "liability_reversal", debt.ref,
                               debt.recovered, 0)},
                debt.ref, hold)
    PROVE  RecoveryDone(w, debts, hold)
<1>1. /\ debt.recovered \in 0..MaxMinor
      /\ debt.ref \in Subjects
      /\ MaxMinor \in Nat
  BY AmountsAssumption DEF LiabilityRow, Subjects
<1>2. PICK funds \in 0..MaxMinor : funds = balance + debt.recovered
  BY <1>1 DEF safeAdd
<1>3. PICK all \in SUBSET LedgerRow :
         all = rows \cup {Row(w, "liability_reversal", debt.ref, debt.recovered, 0)}
  <2>1. Row(w, "liability_reversal", debt.ref, debt.recovered, 0) \in LedgerRow
    BY <1>1, RowType DEF EntryTypes
  <2>2. QED
    BY <2>1
<1>4. PICK source \in Subjects : source = debt.ref
  BY <1>1
<1>5. recoverWalletLiabilities(w, debts, funds, all, source, hold)
  BY <1>2, <1>3, <1>4
<1>6. TypeOK /\ LiabilityStatusExact
  BY DEF TypeInv
<1>7. QED
  BY <1>5, <1>6, RecoveryKeeps, Zenon

\* Either branch of ReturnRecovered ends like a recovery from a right hold.
LEMMA ReturnKeeps ==
    ASSUME TypeInv, NEW w \in Wallets, NEW debts \in Seq(LiabilityRow),
           \A j \in 1..Len(debts) : DebtExact(debts[j]),
           NEW debt \in LiabilityRow, NEW balance \in 0..MaxMinor,
           NEW rows \in SUBSET LedgerRow,
           ReturnRecovered(w, debts, debt, balance, rows)
    PROVE  \E hold : /\ hold <=> (Unsettled(w, {}) \/ Owes(debts))
                     /\ RecoveryDone(w, debts, hold)
<1> DEFINE hold == Owes(debts) \/ Unsettled(w, {})
<1>1. hold \in BOOLEAN
  BY DEF Owes, Unsettled
<1>2. CASE debt.recovered # 0
  <2>1. /\ safeAdd(balance, debt.recovered)
        /\ recoverWalletLiabilities(
              w, debts, balance + debt.recovered,
              rows \cup {Row(w, "liability_reversal", debt.ref,
                             debt.recovered, 0)},
              debt.ref, hold)
    BY <1>2 DEF ReturnRecovered
  <2>2. RecoveryDone(w, debts, hold)
    <3> HIDE DEF hold
    <3>1. QED
      BY <1>1, <2>1, ReversalKeeps
  <2>3. QED
    BY <2>2
<1>3. CASE debt.recovered = 0
  <2>1. /\ liability' = [liability EXCEPT ![w] = debts]
        /\ wallet' = [wallet EXCEPT ![w].hold = hold]
        /\ UNCHANGED ledger
    BY <1>3 DEF ReturnRecovered
  <2>2. /\ liability' \in [Wallets -> Seq(LiabilityRow)]
        /\ liability'[w] = debts
        /\ LiabilityStatusExact'
    BY <2>1 DEF TypeInv, TypeOK, LiabilityStatusExact
  <2>3. /\ wallet' \in [Wallets -> WalletRow]
        /\ wallet'[w].hold = hold
    <3> HIDE DEF hold
    <3>1. QED
      BY <1>1, <2>1 DEF TypeInv, TypeOK, WalletRow
  <2>4. ledger' \subseteq LedgerRow
    BY <2>1 DEF TypeInv, TypeOK
  <2>5. \A v \in Wallets \ {w} : /\ wallet'[v] = wallet[v]
                                /\ liability'[v] = liability[v]
    BY <2>1 DEF TypeInv, TypeOK
  <2>6. RecoveryDone(w, debts, hold)
    BY <2>2, <2>3, <2>4, <2>5, Zenon DEF RecoveryDone
  <2>7. QED
    BY <2>6
<1>4. QED
  BY <1>2, <1>3

\* ReverseLiabilityInTx ends like a recovery from a right hold.
LEMMA ReverseLiabilityKeeps ==
    ASSUME TypeInv, NEW w \in Wallets, NEW i \in 1..Len(liability[w]),
           ReverseLiability(w, i)
    PROVE  \E debts, hold :
             /\ hold <=> (Unsettled(w, {}) \/ Owes(debts))
             /\ RecoveryDone(w, debts, hold)
<1> DEFINE debts == [liability[w] EXCEPT ![i].status = "reversed"]
<1>1. /\ debts \in Seq(LiabilityRow)
      /\ \A j \in 1..Len(debts) : DebtExact(debts[j])
  BY ReversedDebts
<1>2. liability[w][i] \in LiabilityRow /\ wallet[w].available \in 0..MaxMinor
  BY DEF TypeInv, TypeOK
<1>3. ReturnRecovered(w, debts, liability[w][i], wallet[w].available, {})
  BY DEF ReverseLiability, ReverseLiabilityInTx
<1> HIDE DEF debts
<1>4. PICK hold : /\ hold <=> (Unsettled(w, {}) \/ Owes(debts))
                  /\ RecoveryDone(w, debts, hold)
  BY <1>1, <1>2, <1>3, ReturnKeeps
<1>5. QED
  BY <1>4

\* So does a liability opened and reversed in one transaction.
LEMMA OpenReversedKeeps ==
    ASSUME TypeInv, NEW ref \in References, NEW w \in Wallets, NEW amount \in Amounts,
           OpenReversed(ref, w, amount)
    PROVE  \E debts, hold :
             /\ hold <=> (Unsettled(w, {}) \/ Owes(debts))
             /\ RecoveryDone(w, debts, hold)
<1> DEFINE taken == Least(amount, wallet[w].available)
           debt == [ref |-> ref, principal |-> amount, recovered |-> taken,
                    status |-> "reversed"]
           row == Row(w, "liability_open", ref, -taken, 0)
<1>1. amount \in 1..MaxMinor /\ MaxMinor \in Nat
  BY AmountsAssumption
<1>2. wallet[w] \in WalletRow /\ liability[w] \in Seq(LiabilityRow)
  BY DEF TypeInv, TypeOK, WalletRow
<1>3. /\ taken \in 0..MaxMinor
      /\ taken <= amount
      /\ wallet[w].available - taken \in 0..MaxMinor
  BY <1>1, <1>2 DEF Least, WalletRow
<1>4. ReturnRecovered(w, Append(liability[w], debt), debt,
                      wallet[w].available - taken, {row})
  BY DEF OpenReversed, OpenReversedInTx
<1> HIDE DEF taken
<1>5. debt \in LiabilityRow /\ DebtExact(debt)
  BY <1>1, <1>3 DEF LiabilityRow, DebtExact
<1>6. row \in LedgerRow
  BY <1>1, <1>3, RowType DEF EntryTypes, Subjects
<1> HIDE DEF debt, row
<1>7. /\ Append(liability[w], debt) \in Seq(LiabilityRow)
      /\ \A i \in 1..Len(Append(liability[w], debt)) :
            DebtExact(Append(liability[w], debt)[i])
  BY <1>2, <1>5 DEF TypeInv, LiabilityStatusExact
<1>8. PICK debts \in Seq(LiabilityRow) : debts = Append(liability[w], debt)
  BY <1>7
<1>9. PICK hold : /\ hold <=> (Unsettled(w, {}) \/ Owes(debts))
                  /\ RecoveryDone(w, debts, hold)
  BY <1>3, <1>4, <1>5, <1>6, <1>7, <1>8, ReturnKeeps
<1>10. QED
  BY <1>9

\* ReverseLiabilityInTx returns what the debt recovered, within range.
LEMMA ReverseLiabilityType ==
    ASSUME TypeInv, NEW w \in Wallets, NEW i \in 1..Len(liability[w]),
           ReverseLiability(w, i)
    PROVE  TypeInv'
<1>1. PICK debts, hold : RecoveryDone(w, debts, hold)
  BY ReverseLiabilityKeeps
<1>2. UNCHANGED <<reservation, settlement, order>>
  BY DEF ReverseLiability
<1>3. QED
  BY <1>1, <1>2 DEF RecoveryDone, TypeInv, TypeOK, WalletRow

\* OpenReversedInTx gives back what it takes, unless an older debt needs it.
LEMMA OpenReversedType ==
    ASSUME TypeInv, NEW ref \in References, NEW w \in Wallets, NEW amount \in Amounts,
           OpenReversed(ref, w, amount)
    PROVE  TypeInv'
<1>1. PICK debts, hold : RecoveryDone(w, debts, hold)
  BY OpenReversedKeeps
<1>2. UNCHANGED <<reservation, settlement, order>>
  BY DEF OpenReversed
<1>3. QED
  BY <1>1, <1>2 DEF RecoveryDone, TypeInv, TypeOK, WalletRow

\* The order and the wallet of a refund under way, or about to start.
LEMMA RefundOrder ==
    ASSUME TypeInv, NEW o \in Orders, order[o].status \in {"paid", "refund_pending"}
    PROVE  /\ order[o] \in OrderRow
           /\ order[o].wallet \in Wallets
           /\ order[o].amount \in 1..MaxMinor
           /\ MaxMinor \in Nat
           /\ wallet[order[o].wallet] \in WalletRow
<1>1. order[o] \in OrderRow
  BY DEF TypeInv, TypeOK, NoRow
<1>2. QED
  BY <1>1, AmountsAssumption DEF TypeInv, TypeOK, OrderRow, WalletRow

\* HoldPaymentRefundInTx moves an amount the wallet has, within range.
LEMMA HoldRefundType ==
    ASSUME TypeInv, NEW o \in Orders, HoldRefund(o)
    PROVE  TypeInv'
<1> DEFINE w == order[o].wallet
           amount == order[o].amount
<1>1. /\ order[o] \in OrderRow
      /\ w \in Wallets
      /\ amount \in 1..MaxMinor
      /\ MaxMinor \in Nat
      /\ wallet[w] \in WalletRow
  BY RefundOrder DEF HoldRefund
<1>2. /\ wallet[w].available - amount \in 0..MaxMinor
      /\ wallet[w].reserved + amount \in 0..MaxMinor
  BY <1>1 DEF HoldRefund, HoldPaymentRefundInTx, safeAdd, WalletRow
<1>3. wallet' \in [Wallets -> WalletRow]
  BY <1>1, <1>2 DEF HoldRefund, HoldPaymentRefundInTx, TypeInv, TypeOK, WalletRow
<1>4. order' \in [Orders -> OrderRow \cup {NoRow}]
  <2>1. order' = [order EXCEPT ![o].status = "refund_pending"]
    BY DEF HoldRefund
  <2>2. QED
    BY <1>1, <2>1 DEF TypeInv, TypeOK, OrderRow
<1>5. Row(w, "payment_refund_hold", o, -amount, amount) \in LedgerRow
  BY <1>1, RowType DEF EntryTypes, Subjects
<1>6. ledger' \subseteq LedgerRow
  BY <1>5 DEF HoldRefund, HoldPaymentRefundInTx, insertLedger, TypeInv, TypeOK
<1>7. QED
  BY <1>3, <1>4, <1>6
     DEF HoldRefund, HoldPaymentRefundInTx, TypeInv, TypeOK,
         LiabilityStatusExact, WalletRow

\* CompletePaymentRefundInTx takes out a held amount.
LEMMA CompleteRefundType ==
    ASSUME TypeInv, NEW o \in Orders, CompleteRefund(o)
    PROVE  TypeInv'
<1> DEFINE w == order[o].wallet
           amount == order[o].amount
<1>1. /\ order[o] \in OrderRow
      /\ w \in Wallets
      /\ amount \in 1..MaxMinor
      /\ MaxMinor \in Nat
      /\ wallet[w] \in WalletRow
  BY RefundOrder DEF CompleteRefund
<1>2. wallet[w].reserved - amount \in 0..MaxMinor
  BY <1>1 DEF CompleteRefund, CompletePaymentRefundInTx, WalletRow
<1>3. wallet' \in [Wallets -> WalletRow]
  BY <1>1, <1>2 DEF CompleteRefund, CompletePaymentRefundInTx, TypeInv, TypeOK, WalletRow
<1>4. order' \in [Orders -> OrderRow \cup {NoRow}]
  <2>1. order' = [order EXCEPT ![o].status = "refunded"]
    BY DEF CompleteRefund
  <2>2. QED
    BY <1>1, <2>1 DEF TypeInv, TypeOK, OrderRow
<1>5. Row(w, "payment_reversal", o, 0, -amount) \in LedgerRow
  BY <1>1, RowType DEF EntryTypes, Subjects
<1>6. ledger' \subseteq LedgerRow
  BY <1>5 DEF CompleteRefund, CompletePaymentRefundInTx, insertLedger, TypeInv, TypeOK
<1>7. QED
  BY <1>3, <1>4, <1>6
     DEF CompleteRefund, CompletePaymentRefundInTx, TypeInv, TypeOK,
         LiabilityStatusExact, WalletRow

\* ReleasePaymentRefundInTx returns a held amount, within range.
LEMMA ReleaseRefundType ==
    ASSUME TypeInv, NEW o \in Orders, ReleaseRefund(o)
    PROVE  TypeInv'
<1> DEFINE w == order[o].wallet
           amount == order[o].amount
<1>1. /\ order[o] \in OrderRow
      /\ w \in Wallets
      /\ amount \in 1..MaxMinor
      /\ MaxMinor \in Nat
      /\ wallet[w] \in WalletRow
  BY RefundOrder DEF ReleaseRefund
<1>2. /\ wallet[w].available + amount \in 0..MaxMinor
      /\ wallet[w].reserved - amount \in 0..MaxMinor
  BY <1>1 DEF ReleaseRefund, ReleasePaymentRefundInTx, safeAdd, WalletRow
<1>3. wallet' \in [Wallets -> WalletRow]
  BY <1>1, <1>2 DEF ReleaseRefund, ReleasePaymentRefundInTx, TypeInv, TypeOK, WalletRow
<1>4. order' \in [Orders -> OrderRow \cup {NoRow}]
  <2>1. order' = [order EXCEPT ![o].status = "refund_failed"]
    BY DEF ReleaseRefund
  <2>2. QED
    BY <1>1, <2>1 DEF TypeInv, TypeOK, OrderRow
<1>5. Row(w, "payment_refund_release", o, amount, -amount) \in LedgerRow
  BY <1>1, RowType DEF EntryTypes, Subjects
<1>6. ledger' \subseteq LedgerRow
  BY <1>5 DEF ReleaseRefund, ReleasePaymentRefundInTx, insertLedger, TypeInv, TypeOK
<1>7. QED
  BY <1>3, <1>4, <1>6
     DEF ReleaseRefund, ReleasePaymentRefundInTx, TypeInv, TypeOK,
         LiabilityStatusExact, WalletRow

\* Every operation of billing keeps TypeInv.
LEMMA TypeInvNext == TypeInv /\ [Next]_vars => TypeInv'
<1> SUFFICES ASSUME TypeInv, [Next]_vars PROVE TypeInv'
  OBVIOUS
<1>1. CASE UsageNext
  BY <1>1, ReserveType, SettleType, SettlePendingType, ReleaseType DEF UsageNext
<1>2. CASE FundingNext
  BY <1>2, CreditType, PayOrderType, OpenLiabilityType,
     OpenReversedType, ReverseLiabilityType DEF FundingNext
<1>3. CASE RefundNext
  BY <1>3, HoldRefundType, CompleteRefundType, ReleaseRefundType DEF RefundNext
<1>4. CASE UNCHANGED vars
  BY <1>4 DEF vars, TypeInv, TypeOK, LiabilityStatusExact
<1>5. QED
  BY <1>1, <1>2, <1>3, <1>4 DEF Next

\* Every state of billing is well typed: no balance is ever negative or beyond
\* the int64 range, whatever operations commit, on whatever wallets.
THEOREM TypeCorrect == Spec => []TypeOK
<1>1. TypeInv => TypeOK
  BY DEF TypeInv
<1>2. QED
  BY <1>1, TypeInvInit, TypeInvNext, PTL DEF Spec

\* Every liability's status follows from what it recovered (OpenLiabilityInTx,
\* recoverWalletLiabilities and ReverseLiabilityInTx compute it separately).
THEOREM LiabilitiesExact == Spec => []LiabilityStatusExact
<1>1. TypeInv => LiabilityStatusExact
  BY DEF TypeInv
<1>2. QED
  BY <1>1, TypeInvInit, TypeInvNext, PTL DEF Spec

-----------------------------------------------------------------------------
(* financial_hold.  Settle, the funding operations and the liability           *)
(* operations maintain it on their own, each from the part of the state it     *)
(* knows has changed.  That the flag is exact is inductive together with the   *)
(* agreement of reservations and settlements: Reserve attaches a request to a  *)
(* wallet, so a request without a reservation must have no settlement.         *)

\* The hold is exact only together with the agreement of settlements and
\* reservations.
HoldInv == TypeInv /\ SettlementMatchesReservation /\ FinancialHoldExact

\* No wallet starts on hold and none owes anything.
LEMMA HoldInvInit == Init => HoldInv
<1> SUFFICES ASSUME Init PROVE HoldInv
  OBVIOUS
<1>1. SettlementMatchesReservation
  BY DEF Init, SettlementMatchesReservation, NoRow
<1>2. FinancialHoldExact
  <2>1. Len(<<>>) = 0
    OBVIOUS
  <2>2. ASSUME NEW w \in Wallets PROVE ~Owes(liability[w]) /\ ~Unsettled(w, {})
    BY <2>1 DEF Init, Owes, Unsettled, NoRow
  <2>3. QED
    BY <2>2 DEF Init, FinancialHoldExact
<1>3. QED
  BY <1>1, <1>2, TypeInvInit DEF HoldInv

\* A step of the funding or refund operations leaves the requests alone.
LEMMA RequestsUntouched ==
    ASSUME SettlementMatchesReservation, UNCHANGED <<reservation, settlement>>
    PROVE  /\ SettlementMatchesReservation'
           /\ \A v \in Wallets : Unsettled(v, {})' <=> Unsettled(v, {})
BY DEF SettlementMatchesReservation, Unsettled

\* A step that ends in a recovery from a right hold leaves every hold right.
LEMMA RecoveryHold ==
    ASSUME HoldInv, NEW w \in Wallets, NEW debts, NEW hold,
           RecoveryDone(w, debts, hold),
           hold <=> (Unsettled(w, {}) \/ Owes(debts)),
           UNCHANGED <<reservation, settlement>>
    PROVE  SettlementMatchesReservation' /\ FinancialHoldExact'
<1>1. /\ SettlementMatchesReservation'
      /\ \A v \in Wallets : Unsettled(v, {})' <=> Unsettled(v, {})
  BY RequestsUntouched DEF HoldInv
<1>2. ASSUME NEW v \in Wallets
      PROVE  wallet'[v].hold <=> (Unsettled(v, {}) \/ Owes(liability'[v]))
  <2>1. CASE v = w
    BY <2>1, Zenon DEF RecoveryDone
  <2>2. CASE v # w
    <3>1. wallet'[v] = wallet[v] /\ liability'[v] = liability[v]
      BY <2>2 DEF RecoveryDone
    <3>2. QED
      BY <3>1 DEF HoldInv, FinancialHoldExact
  <2>3. QED
    BY <2>1, <2>2
<1>3. ASSUME NEW v \in Wallets PROVE Owes(liability[v])' <=> Owes(liability'[v])
  BY DEF Owes
<1>4. QED
  BY <1>1, <1>2, <1>3, Zenon DEF FinancialHoldExact

\* Repository.Reserve: a fresh request has no settlement to be pending.
LEMMA ReserveHold ==
    ASSUME HoldInv, NEW r \in Requests, NEW w \in Wallets, NEW amount \in Amounts,
           Reserve(r, w, amount)
    PROVE  SettlementMatchesReservation' /\ FinancialHoldExact'
<1>1. settlement[r].status \notin {"pending", "settled"}
  BY DEF HoldInv, SettlementMatchesReservation, Reserve, NoRow
<1>2. /\ \A q \in Requests \ {r} : reservation'[q] = reservation[q]
      /\ reservation'[r].status = "reserved"
      /\ settlement' = settlement
      /\ liability' = liability
  BY DEF Reserve, HoldInv, TypeInv, TypeOK
<1>3. SettlementMatchesReservation'
  BY <1>1, <1>2 DEF HoldInv, SettlementMatchesReservation
<1>4. ASSUME NEW v \in Wallets PROVE Unsettled(v, {})' <=> Unsettled(v, {})
  BY <1>1, <1>2 DEF Unsettled
<1>5. ASSUME NEW v \in Wallets PROVE wallet'[v].hold = wallet[v].hold
  BY DEF Reserve, HoldInv, TypeInv, TypeOK
<1>6. QED
  BY <1>2, <1>3, <1>4, <1>5 DEF HoldInv, FinancialHoldExact, Owes

\* Repository.Settle, paid: the hold is recomputed without this request, which
\* stops being pending.
LEMMA SettleHold ==
    ASSUME HoldInv, NEW r \in Requests, NEW actual \in Amounts \cup {0},
           Settle(r, actual)
    PROVE  SettlementMatchesReservation' /\ FinancialHoldExact'
<1>0. PICK w \in Wallets : w = reservation[r].wallet
  BY SettleableReservation DEF HoldInv, Settle
<1>1. reservation[r] \in ReservationRow
  BY SettleableReservation DEF HoldInv, Settle
<1>2. /\ \A q \in Requests \ {r} : /\ reservation'[q] = reservation[q]
                                   /\ settlement'[q] = settlement[q]
      /\ reservation'[r].status = "settled"
      /\ settlement'[r].status = "settled"
      /\ liability' = liability
  BY DEF Settle, HoldInv, TypeInv, TypeOK
<1>3. SettlementMatchesReservation'
  BY <1>2 DEF HoldInv, SettlementMatchesReservation
<1>4. /\ wallet'[w].hold = (Unsettled(w, {r}) \/ Owes(liability[w]))
      /\ \A v \in Wallets \ {w} : wallet'[v] = wallet[v]
  BY <1>0, <1>1 DEF Settle, HoldAfterSettle, HoldInv, TypeInv, TypeOK
<1>5. Unsettled(w, {})' <=> Unsettled(w, {r})
  BY <1>2 DEF Unsettled
<1>6. ASSUME NEW v \in Wallets \ {w} PROVE Unsettled(v, {})' <=> Unsettled(v, {})
  <2>1. reservation'[r].wallet = w
    BY <1>0, <1>1 DEF Settle, HoldInv, TypeInv, TypeOK
  <2>2. QED
    BY <1>0, <1>2, <2>1 DEF Unsettled
<1>7. ASSUME NEW v \in Wallets PROVE Owes(liability[v])' <=> Owes(liability[v])
  BY <1>2 DEF Owes
<1>8. ASSUME NEW v \in Wallets
      PROVE  wallet'[v].hold <=> (Unsettled(v, {})' \/ Owes(liability[v])')
  <2>1. CASE v = w
    BY <2>1, <1>4, <1>5, <1>7, Zenon
  <2>2. CASE v # w
    BY <2>2, <1>4, <1>6, <1>7 DEF HoldInv, FinancialHoldExact
  <2>3. QED
    BY <2>1, <2>2
<1>9. QED
  BY <1>3, <1>8, Zenon DEF FinancialHoldExact

\* Repository.Settle, unpaid: the hold is set and the request is pending.
LEMMA SettlePendingHold ==
    ASSUME HoldInv, NEW r \in Requests, NEW actual \in Amounts \cup {0},
           SettlePending(r, actual)
    PROVE  SettlementMatchesReservation' /\ FinancialHoldExact'
<1>0. PICK w \in Wallets : w = reservation[r].wallet
  BY SettleableReservation DEF HoldInv, SettlePending
<1>1. reservation[r] \in ReservationRow
  BY SettleableReservation DEF HoldInv, SettlePending
<1>2. /\ \A q \in Requests \ {r} : /\ reservation'[q] = reservation[q]
                                   /\ settlement'[q] = settlement[q]
      /\ reservation'[r].status = "settlement_pending"
      /\ reservation'[r].wallet = w
      /\ settlement'[r].status = "pending"
      /\ liability' = liability
  BY <1>0, <1>1 DEF SettlePending, HoldInv, TypeInv, TypeOK, ReservationRow
<1>3. SettlementMatchesReservation'
  BY <1>2 DEF HoldInv, SettlementMatchesReservation
<1>4. /\ wallet'[w].hold
      /\ \A v \in Wallets \ {w} : wallet'[v] = wallet[v]
  BY <1>0, <1>1 DEF SettlePending, HoldInv, TypeInv, TypeOK
<1>5. Unsettled(w, {})'
  BY <1>2 DEF Unsettled
<1>6. ASSUME NEW v \in Wallets \ {w} PROVE Unsettled(v, {})' <=> Unsettled(v, {})
  BY <1>0, <1>2 DEF Unsettled
<1>7. ASSUME NEW v \in Wallets PROVE Owes(liability[v])' <=> Owes(liability[v])
  BY <1>2 DEF Owes
<1>8. ASSUME NEW v \in Wallets
      PROVE  wallet'[v].hold <=> (Unsettled(v, {})' \/ Owes(liability[v])')
  <2>1. CASE v = w
    BY <2>1, <1>4, <1>5
  <2>2. CASE v # w
    BY <2>2, <1>4, <1>6, <1>7 DEF HoldInv, FinancialHoldExact
  <2>3. QED
    BY <2>1, <2>2
<1>9. QED
  BY <1>3, <1>8, Zenon DEF FinancialHoldExact

\* Repository.Release: a reserved request has no settlement, so no hold moves.
LEMMA ReleaseHold ==
    ASSUME HoldInv, NEW r \in Requests, Release(r)
    PROVE  SettlementMatchesReservation' /\ FinancialHoldExact'
<1>1. reservation[r] \in ReservationRow
  BY DEF Release, Releasable, HoldInv, TypeInv, TypeOK, NoRow
<1>2. /\ \A q \in Requests \ {r} : reservation'[q] = reservation[q]
      /\ reservation'[r].status = "released"
      /\ reservation'[r].wallet = reservation[r].wallet
      /\ settlement' = settlement
      /\ liability' = liability
  BY <1>1 DEF Release, HoldInv, TypeInv, TypeOK, ReservationRow
<1>3. SettlementMatchesReservation'
  BY <1>2 DEF HoldInv, SettlementMatchesReservation, Release, Releasable
<1>4. ASSUME NEW v \in Wallets PROVE Unsettled(v, {})' <=> Unsettled(v, {})
  BY <1>2 DEF Unsettled
<1>5. ASSUME NEW v \in Wallets PROVE wallet'[v].hold = wallet[v].hold
  BY DEF Release, HoldInv, TypeInv, TypeOK
<1>6. QED
  BY <1>2, <1>3, <1>4, <1>5 DEF HoldInv, FinancialHoldExact, Owes

\* OpenLiabilityInTx: the hold is set if the new debt is open, kept otherwise.
LEMMA OpenLiabilityHold ==
    ASSUME HoldInv, NEW ref \in References, NEW w \in Wallets, NEW amount \in Amounts,
           OpenLiability(ref, w, amount)
    PROVE  SettlementMatchesReservation' /\ FinancialHoldExact'
<1> DEFINE taken == Least(amount, wallet[w].available)
           debt == [ref |-> ref, principal |-> amount, recovered |-> taken,
                    status |-> IF taken < amount THEN "open" ELSE "settled"]
<1>1. /\ SettlementMatchesReservation'
      /\ \A v \in Wallets : Unsettled(v, {})' <=> Unsettled(v, {})
  BY RequestsUntouched DEF HoldInv, OpenLiability, OpenLiabilityInTx
<1>2. /\ liability' = [liability EXCEPT ![w] = Append(liability[w], debt)]
      /\ wallet' = [wallet EXCEPT ![w].available = wallet[w].available - taken,
                                  ![w].hold = wallet[w].hold \/ debt.status = "open"]
  BY DEF OpenLiability, OpenLiabilityInTx
<1> HIDE DEF taken, debt
<1>3. /\ liability'[w] = Append(liability[w], debt)
      /\ wallet'[w].hold = (wallet[w].hold \/ debt.status = "open")
      /\ liability[w] \in Seq(LiabilityRow)
      /\ \A v \in Wallets \ {w} : wallet'[v] = wallet[v] /\ liability'[v] = liability[v]
  BY <1>2 DEF HoldInv, TypeInv, TypeOK
<1>4. Owes(liability'[w]) <=> (Owes(liability[w]) \/ debt.status = "open")
  BY <1>3 DEF Owes
<1>5. ASSUME NEW v \in Wallets
      PROVE  wallet'[v].hold <=> (Unsettled(v, {}) \/ Owes(liability'[v]))
  <2>1. CASE v = w
    BY <2>1, <1>3, <1>4 DEF HoldInv, FinancialHoldExact
  <2>2. CASE v # w
    BY <2>2, <1>3 DEF HoldInv, FinancialHoldExact
  <2>3. QED
    BY <2>1, <2>2
<1>6. ASSUME NEW v \in Wallets PROVE Owes(liability[v])' <=> Owes(liability'[v])
  BY DEF Owes
<1>7. QED
  BY <1>1, <1>5, <1>6, Zenon DEF FinancialHoldExact

\* The refund operations touch neither a hold nor a reason for one.
LEMMA RefundHold ==
    ASSUME HoldInv, NEW o \in Orders,
           \/ HoldRefund(o)
           \/ CompleteRefund(o)
           \/ ReleaseRefund(o)
    PROVE  SettlementMatchesReservation' /\ FinancialHoldExact'
<1>1. UNCHANGED <<reservation, settlement, liability>>
  BY DEF HoldRefund, CompleteRefund, ReleaseRefund
<1>2. ASSUME NEW v \in Wallets PROVE wallet'[v].hold = wallet[v].hold
  <2>1. CASE HoldRefund(o)
    BY <2>1 DEF HoldRefund, HoldPaymentRefundInTx, HoldInv, TypeInv, TypeOK
  <2>2. CASE CompleteRefund(o)
    BY <2>2 DEF CompleteRefund, CompletePaymentRefundInTx, HoldInv, TypeInv, TypeOK
  <2>3. CASE ReleaseRefund(o)
    BY <2>3 DEF ReleaseRefund, ReleasePaymentRefundInTx, HoldInv, TypeInv, TypeOK
  <2>4. QED
    BY <2>1, <2>2, <2>3
<1>3. /\ SettlementMatchesReservation'
      /\ \A v \in Wallets : Unsettled(v, {})' <=> Unsettled(v, {})
  BY <1>1, RequestsUntouched DEF HoldInv
<1>4. ASSUME NEW v \in Wallets PROVE Owes(liability[v])' <=> Owes(liability[v])
  BY <1>1 DEF Owes
<1>5. QED
  BY <1>2, <1>3, <1>4 DEF HoldInv, FinancialHoldExact

\* Every operation of billing keeps HoldInv.
LEMMA HoldInvNext == HoldInv /\ [Next]_vars => HoldInv'
<1> SUFFICES ASSUME HoldInv, [Next]_vars
             PROVE  SettlementMatchesReservation' /\ FinancialHoldExact'
  BY TypeInvNext DEF HoldInv
<1>1. CASE UsageNext
  BY <1>1, ReserveHold, SettleHold, SettlePendingHold, ReleaseHold DEF UsageNext
<1>2. CASE FundingNext
  <2>1. PICK w \in Wallets :
          \/ \E c \in Credits, a \in Amounts \cup Debits : Credit(c, w, a)
          \/ \E o \in Orders, a \in Amounts : PayOrder(o, w, a)
          \/ \E ref \in References, a \in Amounts :
                OpenLiability(ref, w, a) \/ OpenReversed(ref, w, a)
          \/ \E i \in 1..Len(liability[w]) : ReverseLiability(w, i)
    BY <1>2 DEF FundingNext
  <2>2. ASSUME NEW type \in EntryTypes, NEW of \in Subjects,
               NEW a \in Amounts \cup Debits, CreditInTx(w, type, of, a),
               UNCHANGED <<reservation, settlement>>
        PROVE  SettlementMatchesReservation' /\ FinancialHoldExact'
    <3>1. RecoveryDone(w, liability[w], wallet[w].hold)
      BY <2>2, CreditKeeps DEF HoldInv
    <3>2. wallet[w].hold <=> (Unsettled(w, {}) \/ Owes(liability[w]))
      BY DEF HoldInv, FinancialHoldExact
    <3>3. QED
      BY <2>2, <3>1, <3>2, RecoveryHold, Zenon
  <2>3. ASSUME NEW c \in Credits, NEW a \in Amounts \cup Debits, Credit(c, w, a)
        PROVE  SettlementMatchesReservation' /\ FinancialHoldExact'
    BY <2>2, <2>3 DEF Credit, EntryTypes, Subjects
  <2>4. ASSUME NEW o \in Orders, NEW a \in Amounts, PayOrder(o, w, a)
        PROVE  SettlementMatchesReservation' /\ FinancialHoldExact'
    BY <2>2, <2>4 DEF PayOrder, EntryTypes, Subjects
  <2>5. ASSUME NEW i \in 1..Len(liability[w]), ReverseLiability(w, i)
        PROVE  SettlementMatchesReservation' /\ FinancialHoldExact'
    <3>1. PICK debts, hold :
             /\ hold <=> (Unsettled(w, {}) \/ Owes(debts))
             /\ RecoveryDone(w, debts, hold)
      BY <2>5, ReverseLiabilityKeeps DEF HoldInv
    <3>2. UNCHANGED <<reservation, settlement>>
      BY <2>5 DEF ReverseLiability
    <3>3. QED
      BY <3>1, <3>2, RecoveryHold, Zenon
  <2>6. ASSUME NEW ref \in References, NEW a \in Amounts, OpenReversed(ref, w, a)
        PROVE  SettlementMatchesReservation' /\ FinancialHoldExact'
    <3>1. PICK debts, hold :
             /\ hold <=> (Unsettled(w, {}) \/ Owes(debts))
             /\ RecoveryDone(w, debts, hold)
      BY <2>6, OpenReversedKeeps DEF HoldInv
    <3>2. UNCHANGED <<reservation, settlement>>
      BY <2>6 DEF OpenReversed
    <3>3. QED
      BY <3>1, <3>2, RecoveryHold, Zenon
  <2>7. QED
    BY <2>1, <2>3, <2>4, <2>5, <2>6, OpenLiabilityHold
<1>3. CASE RefundNext
  BY <1>3, RefundHold DEF RefundNext
<1>4. CASE UNCHANGED vars
  BY <1>4 DEF vars, HoldInv, SettlementMatchesReservation, FinancialHoldExact,
              Unsettled, Owes
<1>5. QED
  BY <1>1, <1>2, <1>3, <1>4 DEF Next

\* financial_hold is always exact: set if and only if a settlement of the
\* wallet is pending or one of its liabilities is open.
THEOREM HoldIsExact == Spec => []FinancialHoldExact
<1>1. HoldInv => FinancialHoldExact
  BY DEF HoldInv
<1>2. QED
  BY <1>1, HoldInvInit, HoldInvNext, PTL DEF Spec

\* A reservation and its settlement never disagree, whatever Settle, its
\* retries by the recovery worker and Release do to the two rows.
THEOREM SettlementAgrees == Spec => []SettlementMatchesReservation
<1>1. HoldInv => SettlementMatchesReservation
  BY DEF HoldInv
<1>2. QED
  BY <1>1, HoldInvInit, HoldInvNext, PTL DEF Spec

\* Reserve trusts financial_hold alone, and that is enough: no reservation is
\* ever granted to a wallet with a pending settlement or an open liability.
THEOREM NoSpendingInDebt == Spec => NoReservationInDebt
<1> DEFINE Granted(r) == reservation[r] = NoRow /\ reservation'[r] # NoRow
           Clear(r) == LET w == reservation'[r].wallet IN
                       ~Unsettled(w, {}) /\ ~Owes(liability[w])
<1>1. HoldInv /\ [Next]_vars => \A r \in Requests : Granted(r) => Clear(r)
  <2> SUFFICES ASSUME HoldInv, [Next]_vars, NEW r \in Requests, Granted(r)
               PROVE  Clear(r)
    OBVIOUS
  <2>1. ASSUME NEW q \in Requests, NEW w \in Wallets, NEW a \in Amounts,
               Reserve(q, w, a)
        PROVE  Clear(r)
    <3>1. q = r
      BY <2>1 DEF Reserve, HoldInv, TypeInv, TypeOK
    <3>2. reservation'[r].wallet = w
      BY <2>1, <3>1 DEF Reserve, HoldInv, TypeInv, TypeOK
    <3>3. ~wallet[w].hold
      BY <2>1 DEF Reserve, Spendable
    <3>4. QED
      BY <3>2, <3>3 DEF HoldInv, FinancialHoldExact
  <2>2. ASSUME NEW q \in Requests, NEW a \in Amounts \cup {0},
               Settle(q, a) \/ SettlePending(q, a) \/ Release(q)
        PROVE  FALSE
    <3>1. reservation[q] # NoRow
      BY <2>2 DEF Settle, SettlePending, Settleable, Release, Releasable, NoRow
    <3>2. \A p \in Requests \ {q} : reservation'[p] = reservation[p]
      BY <2>2 DEF Settle, SettlePending, Release, HoldInv, TypeInv, TypeOK
    <3>3. QED
      BY <3>1, <3>2
  <2>3. CASE UNCHANGED reservation
    BY <2>3
  <2>4. CASE UsageNext
    BY <2>1, <2>2, <2>4 DEF UsageNext
  <2>5. CASE FundingNext \/ RefundNext \/ UNCHANGED vars
    <3>1. UNCHANGED reservation
      BY <2>5 DEF FundingNext, Credit, PayOrder, OpenLiability,
                  OpenReversed, ReverseLiability, RefundNext, HoldRefund,
                  CompleteRefund, ReleaseRefund, vars
    <3>2. QED
      BY <2>3, <3>1
  <2>6. QED
    BY <2>4, <2>5 DEF Next
<1>2. QED
  BY <1>1, HoldInvInit, HoldInvNext, PTL DEF Spec, NoReservationInDebt

-----------------------------------------------------------------------------
(* Facts stay, and debts are paid in order.  A step changes the liabilities of *)
(* one wallet, in two stages: its caller may append a debt or reverse one, and *)
(* recoverWalletLiabilities may then pay some of what is open.                 *)

\* The caller's part: an old debt stays, or it is reversed once.
Revised(old, debts) ==
    /\ debts \in Seq(LiabilityRow)
    /\ Len(old) <= Len(debts)
    /\ \A i \in 1..Len(old) :
          /\ debts[i].recovered = old[i].recovered
          /\ \/ debts[i] = old[i]
             \/ old[i].status # "reversed" /\ debts[i].status = "reversed"

\* The recovery's part: only an open debt is paid, and only when no older one
\* stays open.
PaidInOrder(debts, paid) ==
    /\ Len(paid) = Len(debts)
    /\ \A i \in 1..Len(debts) :
          /\ debts[i].status # "open" => paid[i] = debts[i]
          /\ paid[i].recovered >= debts[i].recovered
          /\ paid[i].recovered > debts[i].recovered =>
                \A k \in 1..(i-1) : paid[k].status # "open"

\* A set of naturals that is not empty has a least member: induction over
\* numbers, by the least counterexample.
LEMMA LeastNumber ==
    ASSUME NEW T, T \subseteq Nat, T # {}
    PROVE  \E n \in T : \A m \in T : n <= m
<1>1. PICK n \in T : \A m \in T : ~(<<m, n>> \in OpToRel(<, Nat))
  BY NatLessThanWellFounded, WFMin
<1>2. ASSUME NEW m \in T PROVE ~(m < n)
  BY <1>1 DEF OpToRel
<1>3. QED
  BY <1>2

\* What is left after a debt is never more than what was left before it.
LEMMA FundsShrink ==
    ASSUME NEW debts \in Seq(LiabilityRow), NEW funds \in Nat,
           NEW left \in [0..Len(debts) -> 0..funds], Drains(debts, funds, left),
           \A i \in 1..Len(debts) : Outstanding(debts[i]) \in Nat,
           NEW i \in 0..Len(debts)
    PROVE  \A k \in i..Len(debts) : left[k] <= left[i]
<1> DEFINE Bad == {k \in i..Len(debts) : ~(left[k] <= left[i])}
<1>1. SUFFICES ASSUME Bad # {} PROVE FALSE
  OBVIOUS
<1>2. PICK n \in Nat : n = Len(debts)
  OBVIOUS
<1>3. PICK k \in Bad : \A m \in Bad : k <= m
  <2>1. PICK T : T = Bad
    OBVIOUS
  <2>2. T \subseteq Nat /\ T # {}
    BY <1>1, <1>2, <2>1
  <2>3. QED
    BY <2>1, <2>2, LeastNumber
<1>4. k \in i..n /\ k # i /\ ~(left[k] <= left[i])
  BY <1>2, <1>3
<1>5. k - 1 \in i..n /\ k \in 1..n /\ k - 1 < k
  BY <1>2, <1>4
<1>6. left[k-1] <= left[i]
  BY <1>2, <1>3, <1>5
<1>7. /\ left[k] = left[k-1] - Least(Outstanding(debts[k]), left[k-1])
      /\ left[k] \in 0..funds /\ left[k-1] \in 0..funds /\ left[i] \in 0..funds
      /\ Outstanding(debts[k]) \in Nat
  <2>1. /\ left[k] = left[k-1] - Least(Outstanding(debts[k]), left[k-1])
        /\ Outstanding(debts[k]) \in Nat
    BY <1>2, <1>5 DEF Drains
  <2>2. k \in 0..n /\ k - 1 \in 0..n /\ i \in 0..n
    BY <1>2, <1>5
  <2>3. QED
    BY <1>2, <2>1, <2>2
<1>8. left[k] <= left[k-1]
  BY <1>7 DEF Least
<1>9. QED
  BY <1>4, <1>6, <1>7, <1>8

\* recoverWalletLiabilities pays in created_at order and stops only when the
\* funds or the open debts have run out.
LEMMA RecoveryInOrder ==
    ASSUME NEW debts \in Seq(LiabilityRow), NEW funds \in 0..MaxMinor,
           \A i \in 1..Len(debts) : DebtExact(debts[i]),
           NEW left \in [0..Len(debts) -> 0..funds], Drains(debts, funds, left),
           NEW paid, paid = Recovered(debts, left)
    PROVE  /\ PaidInOrder(debts, paid)
           /\ left[Len(debts)] = 0 \/ ~Owes(paid)
<1>1. PICK n \in Nat : n = Len(debts)
  OBVIOUS
<1>2. funds \in Nat
  BY AmountsAssumption
<1>3. ASSUME NEW i \in 1..n
      PROVE  /\ debts[i] \in LiabilityRow /\ DebtExact(debts[i])
             /\ debts[i].recovered \in Nat /\ debts[i].principal \in Nat
             /\ debts[i].recovered <= debts[i].principal
             /\ debts[i].status \in {"open", "settled", "reversed"}
             /\ Outstanding(debts[i]) \in Nat
  <2>1. debts[i] \in LiabilityRow /\ DebtExact(debts[i])
    BY <1>1
  <2>2. debts[i].principal \in 1..MaxMinor /\ debts[i].recovered \in 0..MaxMinor
        /\ MaxMinor \in Nat
    BY <2>1, AmountsAssumption DEF LiabilityRow
  <2>3. QED
    BY <2>1, <2>2 DEF LiabilityRow, DebtExact, Outstanding
<1>4. ASSUME NEW i \in 1..n
      PROVE  /\ left[i] \in Nat /\ left[i-1] \in Nat
             /\ left[i] = left[i-1] - Least(Outstanding(debts[i]), left[i-1])
             /\ paid[i] = Repaid(debts[i], left[i-1] - left[i])
  <2>1. left[i] \in 0..funds /\ left[i-1] \in 0..funds
    BY <1>1
  <2>2. QED
    BY <1>1, <1>2, <2>1 DEF Drains, Recovered
<1>5. Len(paid) = n
  BY <1>1, RecoveredIsExact
<1>6. ASSUME NEW i \in 1..n
      PROVE  /\ debts[i].status # "open" => paid[i] = debts[i]
             /\ paid[i].recovered >= debts[i].recovered
             /\ paid[i].recovered > debts[i].recovered => left[i-1] > 0
             /\ left[i] > 0 => paid[i].status # "open"
  <2>1. PICK debt, b, a :
          /\ debt = debts[i] /\ b = left[i-1] /\ a = left[i] /\ b \in Nat /\ a \in Nat
          /\ a = b - Least(Outstanding(debt), b)
    BY <1>4
  <2>2. /\ debt \in LiabilityRow /\ DebtExact(debt)
        /\ debt.recovered \in Nat /\ debt.principal \in Nat
        /\ debt.status \in {"open", "settled", "reversed"}
    BY <1>3, <2>1
  <2>3. paid[i] = Repaid(debt, b - a)
    BY <1>4, <2>1
  <2>4. CASE b - a = 0
    <3>1. paid[i] = debt
      BY <2>3, <2>4 DEF Repaid
    <3>2. a > 0 => debt.status # "open"
      BY <2>1, <2>2, <2>4, SMTT(60) DEF Least, Outstanding, DebtExact
    <3>3. QED
      BY <2>1, <2>2, <3>1, <3>2
  <2>5. CASE b - a # 0
    <3>1. /\ paid[i].recovered = debt.recovered + (b - a)
          /\ paid[i].status = IF debt.recovered + (b - a) = debt.principal
                              THEN "settled" ELSE "open"
      BY <2>2, <2>3, <2>5 DEF Repaid, LiabilityRow
    <3>2. PICK out \in Nat : out = Outstanding(debt) /\ a = b - Least(out, b)
      BY <1>3, <2>1
    <3>3. b > a /\ out > 0 /\ (a > 0 => b - a = out)
      <4>1. a \in Nat /\ b \in Nat /\ a = b - (IF out < b THEN out ELSE b) /\ b - a # 0
        BY <2>1, <2>5, <3>2 DEF Least
      <4>2. QED
        BY <4>1
    <3>4. debt.status = "open" /\ out = debt.principal - debt.recovered
      BY <3>2, <3>3 DEF Outstanding
    <3>5. a > 0 => debt.recovered + (b - a) = debt.principal
      BY <2>2, <3>2, <3>3, <3>4
    <3>6. QED
      BY <2>1, <2>2, <3>1, <3>3, <3>4, <3>5, SMTT(60)
  <2>6. QED
    BY <2>4, <2>5
<1>7. ASSUME NEW i \in 1..n, NEW k \in i..n, left[k] > 0 PROVE paid[i].status # "open"
  <2>1. \A m \in i..n : left[m] <= left[i]
    <3>1. i \in 0..n
      OBVIOUS
    <3>2. \A j \in 1..n : Outstanding(debts[j]) \in Nat
      BY <1>3
    <3>3. \A m \in i..Len(debts) : left[m] <= left[i]
      BY <1>1, <1>2, <3>1, <3>2, FundsShrink
    <3>4. QED
      BY <1>1, <3>3
  <2>2. k \in 1..n
    OBVIOUS
  <2>3. left[i] > 0
    BY <1>4, <1>7, <2>1, <2>2
  <2>4. QED
    BY <1>6, <2>3
<1>8. ASSUME NEW i \in 1..n, paid[i].recovered > debts[i].recovered, NEW k \in 1..(i-1)
      PROVE  paid[k].status # "open"
  <2>1. left[i-1] > 0 /\ k \in 1..n /\ i - 1 \in k..n
    BY <1>6, <1>8
  <2>2. QED
    BY <1>7, <2>1
<1>9. PaidInOrder(debts, paid)
  BY <1>1, <1>5, <1>6, <1>8 DEF PaidInOrder
<1>10. ASSUME left[n] # 0 PROVE ~Owes(paid)
  <2>1. left[n] > 0
    <3>1. left[n] \in 0..funds
      BY <1>1
    <3>2. QED
      BY <1>2, <1>10, <3>1
  <2>2. ASSUME NEW i \in 1..n PROVE paid[i].status # "open"
    BY <1>7, <2>1
  <2>3. QED
    BY <1>5, <2>2 DEF Owes
<1>11. QED
  BY <1>1, <1>9, <1>10

\* What a step may do to the debts of w: open one, reverse one, or repay from
\* the oldest on.
DebtsAdvance(w) ==
    \E debts : Revised(liability[w], debts) /\ PaidInOrder(debts, liability'[w])

\* A wallet whose liabilities the step leaves alone.
LEMMA DebtsUntouched ==
    ASSUME TypeInv, NEW w \in Wallets, NEW debts, Revised(liability[w], debts),
           liability'[w] = debts
    PROVE  DebtsAdvance(w)
<1>1. ASSUME NEW i \in 1..Len(debts) PROVE debts[i].recovered \in Int
  <2>1. debts[i] \in LiabilityRow
    BY DEF Revised
  <2>2. debts[i].recovered \in 0..MaxMinor
    BY <2>1 DEF LiabilityRow
  <2>3. QED
    BY <2>2
<1>2. PaidInOrder(debts, debts)
  BY <1>1 DEF PaidInOrder
<1>3. QED
  BY <1>2 DEF DebtsAdvance

\* Debts are a revision of themselves.
LEMMA RevisedToItself ==
    ASSUME TypeInv, NEW w \in Wallets
    PROVE  Revised(liability[w], liability[w])
<1>1. liability[w] \in Seq(LiabilityRow)
  BY DEF TypeInv, TypeOK
<1>2. Len(liability[w]) \in Nat
  BY <1>1
<1>3. QED
  BY <1>1, <1>2 DEF Revised

\* A step that ends in recoverWalletLiabilities.
LEMMA RecoveryAdvances ==
    ASSUME TypeInv, NEW w \in Wallets, NEW debts, Revised(liability[w], debts),
           \A i \in 1..Len(debts) : DebtExact(debts[i]),
           NEW funds \in 0..MaxMinor, NEW rows, NEW source, NEW hold,
           recoverWalletLiabilities(w, debts, funds, rows, source, hold)
    PROVE  /\ \A v \in Wallets : DebtsAdvance(v)
           /\ wallet'[w].available = 0 \/ ~Owes(liability'[w])
           /\ \A row \in ledger' \ ledger :
                row \in rows \/ row.type = "liability_recovery"
<1>1. PICK left \in [0..Len(debts) -> 0..funds] :
        /\ Drains(debts, funds, left)
        /\ liability' = [liability EXCEPT ![w] = Recovered(debts, left)]
        /\ wallet' = [wallet EXCEPT
              ![w].available = left[Len(debts)],
              ![w].hold = IF Owes(debts)
                          THEN Owes(Recovered(debts, left)) \/ Unsettled(w, {})
                          ELSE hold]
        /\ insertLedger(rows \cup RecoveryRows(w, debts, left, source))
  BY DEF recoverWalletLiabilities
<1>2. PICK paid : paid = Recovered(debts, left)
  OBVIOUS
<1>3. /\ liability'[w] = paid
      /\ \A v \in Wallets \ {w} : liability'[v] = liability[v]
      /\ wallet'[w].available = left[Len(debts)]
  BY <1>1, <1>2 DEF TypeInv, TypeOK
<1>4. debts \in Seq(LiabilityRow)
  BY DEF Revised
<1>5. PaidInOrder(debts, paid) /\ (left[Len(debts)] = 0 \/ ~Owes(paid))
  BY <1>1, <1>2, <1>4, RecoveryInOrder
<1>6. ASSUME NEW v \in Wallets PROVE DebtsAdvance(v)
  <2>1. CASE v = w
    BY <1>3, <1>5, <2>1 DEF DebtsAdvance
  <2>2. CASE v # w
    BY <1>3, <2>2, DebtsUntouched, RevisedToItself
  <2>3. QED
    BY <2>1, <2>2
<1>7. ASSUME NEW row \in ledger' \ ledger
      PROVE  row \in rows \/ row.type = "liability_recovery"
  BY <1>1 DEF insertLedger, RecoveryRows
<1>8. QED
  BY <1>3, <1>5, <1>6, <1>7

\* A step that leaves every liability alone.
LEMMA NoDebtMoves ==
    ASSUME TypeInv, liability' = liability
    PROVE  \A w \in Wallets : DebtsAdvance(w)
BY DebtsUntouched, RevisedToItself

\* A step that brings funds to w.
Funded(w) ==
    \E row \in ledger' \ ledger :
        row.wallet = w /\ row.type \in {"credit", "recharge"}

\* After a recovery the wallet is empty or owes nothing.
Drained(w) == wallet'[w].available = 0 \/ ~Owes(liability'[w])

\* Credit and PayOrder, through CreditInTx.
LEMMA CreditAdvances ==
    ASSUME TypeInv, NEW w \in Wallets, NEW type \in EntryTypes, NEW of,
           NEW amount \in Amounts \cup Debits, CreditInTx(w, type, of, amount)
    PROVE  \A v \in Wallets : DebtsAdvance(v) /\ (Funded(v) => Drained(v))
<1>1. PICK funds : funds = wallet[w].available + amount
  OBVIOUS
<1>2. funds \in 0..MaxMinor
  <2>1. MaxMinor \in Nat /\ \A a \in Amounts : a \in 1..MaxMinor
    BY AmountsAssumption
  <2>2. amount \in Int
    BY <2>1 DEF Debits
  <2>3. wallet[w].available \in 0..MaxMinor
    BY DEF TypeInv, TypeOK
  <2>4. QED
    BY <1>1, <2>1, <2>2, <2>3 DEF CreditInTx, safeAdd
<1>3. PICK row : row = Row(w, type, of, amount, 0)
  OBVIOUS
<1>4. recoverWalletLiabilities(w, liability[w], funds, {row}, of, wallet[w].hold)
  BY <1>1, <1>3 DEF CreditInTx
<1>5. PICK debts, hold : debts = liability[w] /\ hold = wallet[w].hold
  OBVIOUS
<1>6. Revised(liability[w], debts) /\ \A i \in 1..Len(debts) : DebtExact(debts[i])
  BY <1>5, RevisedToItself DEF TypeInv, LiabilityStatusExact
<1>7. /\ \A v \in Wallets : DebtsAdvance(v)
      /\ Drained(w)
  BY <1>2, <1>4, <1>5, <1>6, RecoveryAdvances DEF Drained
<1>8. PICK left : insertLedger({row} \cup RecoveryRows(w, debts, left, of))
  BY <1>4, <1>5 DEF recoverWalletLiabilities
<1>9. ASSUME NEW new \in ledger' \ ledger PROVE new.wallet = w
  BY <1>3, <1>8 DEF insertLedger, RecoveryRows, Row
<1>10. QED
  BY <1>7, <1>9 DEF Funded

\* The appended debt is a new one: what was there keeps its place.
LEMMA RevisedByAppend ==
    ASSUME TypeInv, NEW w \in Wallets, NEW debt \in LiabilityRow,
           NEW debts, debts = Append(liability[w], debt)
    PROVE  Revised(liability[w], debts)
<1>1. PICK old \in Seq(LiabilityRow) : old = liability[w]
  BY DEF TypeInv, TypeOK
<1>2. PICK n \in Nat : n = Len(old)
  OBVIOUS
<1>3. /\ debts \in Seq(LiabilityRow) /\ Len(debts) = n + 1
      /\ \A i \in 1..n : debts[i] = old[i]
  BY <1>1, <1>2
<1>4. QED
  BY <1>1, <1>2, <1>3 DEF Revised

\* A chargeback adds a debt and repays in order.
LEMMA OpenLiabilityAdvances ==
    ASSUME TypeInv, NEW ref \in References, NEW w \in Wallets, NEW amount \in Amounts,
           OpenLiability(ref, w, amount)
    PROVE  \A v \in Wallets : DebtsAdvance(v) /\ (Funded(v) => Drained(v))
<1>1. amount \in 1..MaxMinor /\ MaxMinor \in Nat /\ wallet[w].available \in 0..MaxMinor
  BY AmountsAssumption DEF TypeInv, TypeOK
<1>2. PICK taken \in 0..MaxMinor : taken = Least(amount, wallet[w].available)
  BY <1>1 DEF Least
<1>3. PICK debt : debt = [ref |-> ref, principal |-> amount, recovered |-> taken,
                          status |-> IF taken < amount THEN "open" ELSE "settled"]
  OBVIOUS
<1>4. debt \in LiabilityRow
  BY <1>3 DEF LiabilityRow
<1>5. PICK debts : debts = Append(liability[w], debt)
  OBVIOUS
<1>6. /\ liability' = [liability EXCEPT ![w] = debts]
      /\ insertLedger(IF taken > 0 THEN {Row(w, "liability_open", ref, -taken, 0)} ELSE {})
  BY <1>2, <1>3, <1>5 DEF OpenLiability, OpenLiabilityInTx
<1>7. ASSUME NEW row \in ledger' \ ledger PROVE row.type = "liability_open"
  BY <1>6 DEF insertLedger, Row
<1>8. liability'[w] = debts /\ \A v \in Wallets \ {w} : liability'[v] = liability[v]
  BY <1>6 DEF TypeInv, TypeOK
<1>9. Revised(liability[w], debts)
  BY <1>4, <1>5, RevisedByAppend
<1>10. ASSUME NEW v \in Wallets PROVE DebtsAdvance(v)
  <2>1. CASE v = w
    BY <1>8, <1>9, <2>1, DebtsUntouched
  <2>2. CASE v # w
    BY <1>8, <2>2, DebtsUntouched, RevisedToItself
  <2>3. QED
    BY <2>1, <2>2
<1>11. QED
  BY <1>7, <1>10 DEF Funded

\* ReverseLiabilityInTx, alone or after OpenLiabilityInTx.
LEMMA ReturnAdvances ==
    ASSUME TypeInv, NEW w \in Wallets, NEW debts, Revised(liability[w], debts),
           \A i \in 1..Len(debts) : DebtExact(debts[i]),
           NEW debt \in LiabilityRow, NEW balance \in 0..MaxMinor, NEW rows,
           \A row \in rows : row.type = "liability_open",
           ReturnRecovered(w, debts, debt, balance, rows)
    PROVE  \A v \in Wallets : DebtsAdvance(v) /\ (Funded(v) => Drained(v))
<1>1. PICK hold : hold = (Owes(debts) \/ Unsettled(w, {}))
  OBVIOUS
<1>2. PICK row : row = Row(w, "liability_reversal", debt.ref, debt.recovered, 0)
  OBVIOUS
<1>3. CASE debt.recovered = 0
  <2>1. liability' = [liability EXCEPT ![w] = debts] /\ ledger' = ledger
    BY <1>3 DEF ReturnRecovered
  <2>2. liability'[w] = debts /\ \A v \in Wallets \ {w} : liability'[v] = liability[v]
    BY <2>1 DEF TypeInv, TypeOK
  <2>3. ASSUME NEW v \in Wallets PROVE DebtsAdvance(v)
    <3>1. CASE v = w
      BY <2>2, <3>1, DebtsUntouched
    <3>2. CASE v # w
      BY <2>2, <3>2, DebtsUntouched, RevisedToItself
    <3>3. QED
      BY <3>1, <3>2
  <2>4. QED
    BY <2>1, <2>3 DEF Funded
<1>4. CASE debt.recovered > 0
  <2>1. debt.recovered \in 0..MaxMinor /\ MaxMinor \in Nat /\ debt.recovered # 0
    BY <1>4, AmountsAssumption DEF LiabilityRow
  <2>2. PICK funds \in 0..MaxMinor : funds = balance + debt.recovered
    BY <2>1 DEF ReturnRecovered, safeAdd
  <2>3. recoverWalletLiabilities(w, debts, funds, rows \cup {row}, debt.ref, hold)
    BY <1>1, <1>2, <2>1, <2>2 DEF ReturnRecovered
  <2>4. PICK all : all = rows \cup {row}
    OBVIOUS
  <2>5. /\ \A v \in Wallets : DebtsAdvance(v)
        /\ \A new \in ledger' \ ledger : new \in all \/ new.type = "liability_recovery"
    BY <2>3, <2>4, RecoveryAdvances
  <2>6. row.type = "liability_reversal"
    BY <1>2 DEF Row
  <2>7. ASSUME NEW new \in ledger' \ ledger
        PROVE  new.type \in {"liability_open", "liability_reversal", "liability_recovery"}
    BY <2>4, <2>5, <2>6
  <2>8. QED
    BY <2>5, <2>7 DEF Funded
<1>5. QED
  BY <1>3, <1>4 DEF ReturnRecovered

\* A reversal gives back what was recovered and repays the other debts in order.
LEMMA ReverseLiabilityAdvances ==
    ASSUME TypeInv, NEW w \in Wallets, NEW i \in 1..Len(liability[w]),
           ReverseLiability(w, i)
    PROVE  \A v \in Wallets : DebtsAdvance(v) /\ (Funded(v) => Drained(v))
<1>1. PICK old \in Seq(LiabilityRow) : old = liability[w]
  BY DEF TypeInv, TypeOK
<1>2. PICK debt \in LiabilityRow : debt = liability[w][i] /\ debt.status # "reversed"
  BY <1>1 DEF ReverseLiability, ReverseLiabilityInTx
<1>3. PICK debts : debts = [liability[w] EXCEPT ![i].status = "reversed"]
  OBVIOUS
<1>4. /\ debts \in Seq(LiabilityRow)
      /\ \A j \in 1..Len(debts) : DebtExact(debts[j])
  BY <1>3, ReversedDebts
<1>5. /\ Len(debts) = Len(old) /\ Len(old) \in Nat
      /\ debts[i].recovered = debt.recovered /\ debts[i].status = "reversed"
      /\ \A j \in 1..Len(old) : j # i => debts[j] = old[j]
  BY <1>1, <1>2, <1>3 DEF LiabilityRow
<1>6. Revised(liability[w], debts)
  <2>1. \A j \in 1..Len(old) :
          /\ debts[j].recovered = old[j].recovered
          /\ \/ debts[j] = old[j]
             \/ old[j].status # "reversed" /\ debts[j].status = "reversed"
    BY <1>1, <1>2, <1>5
  <2>2. QED
    BY <1>1, <1>4, <1>5, <2>1 DEF Revised
<1>7. PICK balance \in 0..MaxMinor : balance = wallet[w].available
  BY DEF TypeInv, TypeOK
<1>8. ReturnRecovered(w, debts, debt, balance, {})
  BY <1>2, <1>3, <1>7 DEF ReverseLiability, ReverseLiabilityInTx
<1>9. QED
  BY <1>4, <1>6, <1>8, ReturnAdvances

\* A chargeback that arrives already reversed adds a debt that asks for nothing.
LEMMA OpenReversedAdvances ==
    ASSUME TypeInv, NEW ref \in References, NEW w \in Wallets, NEW amount \in Amounts,
           OpenReversed(ref, w, amount)
    PROVE  \A v \in Wallets : DebtsAdvance(v) /\ (Funded(v) => Drained(v))
<1>1. amount \in 1..MaxMinor /\ MaxMinor \in Nat /\ wallet[w].available \in 0..MaxMinor
  BY AmountsAssumption DEF TypeInv, TypeOK
<1>2. PICK taken \in 0..MaxMinor :
        /\ taken = Least(amount, wallet[w].available) /\ taken <= amount
        /\ wallet[w].available - taken \in 0..MaxMinor
  BY <1>1 DEF Least
<1>3. PICK debt : debt = [ref |-> ref, principal |-> amount, recovered |-> taken,
                          status |-> "reversed"]
  OBVIOUS
<1>4. debt \in LiabilityRow /\ DebtExact(debt)
  BY <1>1, <1>2, <1>3 DEF LiabilityRow, DebtExact
<1>5. PICK debts : debts = Append(liability[w], debt)
  OBVIOUS
<1>6. PICK row, balance : /\ row = Row(w, "liability_open", ref, -taken, 0)
                          /\ balance = wallet[w].available - taken
  OBVIOUS
<1>7. ReturnRecovered(w, debts, debt, balance, {row})
  BY <1>2, <1>3, <1>5, <1>6 DEF OpenReversed, OpenReversedInTx
<1>8. Revised(liability[w], debts)
  BY <1>4, <1>5, RevisedByAppend
<1>9. \A i \in 1..Len(debts) : DebtExact(debts[i])
  <2>1. liability[w] \in Seq(LiabilityRow) /\ \A i \in 1..Len(liability[w]) : DebtExact(liability[w][i])
    BY DEF TypeInv, TypeOK, LiabilityStatusExact
  <2>2. QED
    BY <1>4, <1>5, <2>1
<1>10. balance \in 0..MaxMinor /\ \A new \in {row} : new.type = "liability_open"
  BY <1>2, <1>6 DEF Row
<1>11. QED
  BY <1>4, <1>7, <1>8, <1>9, <1>10, ReturnAdvances

\* Every operation of billing.
LEMMA DebtsAdvanceNext ==
    TypeInv /\ [Next]_vars =>
       \A w \in Wallets : DebtsAdvance(w) /\ (Funded(w) => Drained(w))
<1> SUFFICES ASSUME TypeInv, [Next]_vars
             PROVE  \A w \in Wallets : DebtsAdvance(w) /\ (Funded(w) => Drained(w))
  OBVIOUS
<1>1. ASSUME liability' = liability,
             \A row \in ledger' \ ledger : row.type \notin {"credit", "recharge"}
      PROVE  \A w \in Wallets : DebtsAdvance(w) /\ (Funded(w) => Drained(w))
  BY <1>1, NoDebtMoves DEF Funded
<1>2. CASE UsageNext
  <2>1. liability' = liability
    BY <1>2 DEF UsageNext, Reserve, Settle, SettlePending, Release
  <2>2. \A row \in ledger' \ ledger :
          row.type \in {"reservation", "usage_charge", "settlement_release", "release"}
    <3>1. PICK r \in Requests :
            \/ \E w \in Wallets, a \in Amounts : Reserve(r, w, a)
            \/ \E a \in Amounts \cup {0} : Settle(r, a)
            \/ \E a \in Amounts \cup {0} : SettlePending(r, a)
            \/ Release(r)
      BY <1>2 DEF UsageNext
    <3>2. ASSUME NEW w \in Wallets, NEW a \in Amounts, Reserve(r, w, a)
          PROVE  \A row \in ledger' \ ledger : row.type = "reservation"
      BY <3>2 DEF Reserve, insertLedger, Row
    <3>3. ASSUME NEW a \in Amounts \cup {0}, Settle(r, a)
          PROVE  \A row \in ledger' \ ledger : row.type \in {"usage_charge", "settlement_release"}
      <4>1. insertLedger(SettleRows(r, a))
        BY <3>3 DEF Settle
      <4>2. QED
        BY <4>1 DEF insertLedger, SettleRows, UsageCharge, UnusedRelease, Row
    <3>4. ASSUME NEW a \in Amounts \cup {0}, SettlePending(r, a)
          PROVE  ledger' = ledger
      BY <3>4 DEF SettlePending
    <3>5. ASSUME Release(r) PROVE \A row \in ledger' \ ledger : row.type = "release"
      BY <3>5 DEF Release, insertLedger, Row
    <3>6. QED
      BY <3>1, <3>2, <3>3, <3>4, <3>5
  <2>3. QED
    BY <1>1, <2>1, <2>2
<1>3. CASE FundingNext
  <2>1. "credit" \in EntryTypes /\ "recharge" \in EntryTypes
    BY DEF EntryTypes
  <2>2. ASSUME NEW w \in Wallets, NEW a \in Amounts \cup Debits, NEW x,
               CreditInTx(w, "credit", x, a) \/ CreditInTx(w, "recharge", x, a)
        PROVE  \A v \in Wallets : DebtsAdvance(v) /\ (Funded(v) => Drained(v))
    BY <2>1, <2>2, CreditAdvances
  <2>3. QED
    BY <1>3, <2>2, OpenLiabilityAdvances, OpenReversedAdvances, ReverseLiabilityAdvances
       DEF FundingNext, Credit, PayOrder
<1>4. CASE RefundNext
  <2>1. liability' = liability
    BY <1>4 DEF RefundNext, HoldRefund, CompleteRefund, ReleaseRefund
  <2>2. \A row \in ledger' \ ledger :
          row.type \in {"payment_refund_hold", "payment_reversal", "payment_refund_release"}
    BY <1>4 DEF RefundNext, HoldRefund, CompleteRefund, ReleaseRefund, insertLedger, Row,
                HoldPaymentRefundInTx, CompletePaymentRefundInTx, ReleasePaymentRefundInTx
  <2>3. QED
    BY <1>1, <2>1, <2>2
<1>5. CASE UNCHANGED vars
  BY <1>1, <1>5 DEF vars
<1>6. QED
  BY <1>2, <1>3, <1>4, <1>5 DEF Next

\* The debts that are there are paid oldest first, and a recharge leaves a
\* balance only once no debt is open: the loop of recoverWalletLiabilities over
\* the open liabilities in created_at order.
THEOREM DebtsPaidInOrder == Spec => OldestDebtFirst
<1> DEFINE InOrder(w) ==
             \A j \in 1..Len(liability[w]) :
                liability'[w][j].recovered > liability[w][j].recovered =>
                   \A i \in 1..(j-1) : liability'[w][i].status # "open"
<1>1. ASSUME NEW w \in Wallets, DebtsAdvance(w) PROVE InOrder(w)
  <2>1. PICK debts : Revised(liability[w], debts) /\ PaidInOrder(debts, liability'[w])
    BY <1>1 DEF DebtsAdvance
  <2>2. ASSUME NEW j \in 1..Len(liability[w])
        PROVE  j \in 1..Len(debts) /\ debts[j].recovered = liability[w][j].recovered
    <3>1. Len(debts) \in Nat /\ Len(liability[w]) <= Len(debts)
      BY <2>1 DEF Revised
    <3>2. QED
      BY <2>1, <3>1 DEF Revised
  <2>3. QED
    BY <2>1, <2>2 DEF PaidInOrder
<1>2. TypeInv /\ [Next]_vars => \A w \in Wallets : InOrder(w) /\ (Funded(w) => Drained(w))
  BY <1>1, DebtsAdvanceNext
<1>3. TypeInv /\ [Next]_vars =>
        [\A w \in Wallets : /\ InOrder(w)
                            /\ (\E row \in ledger' \ ledger :
                                  row.wallet = w /\ row.type \in {"credit", "recharge"})
                               => (wallet'[w].available = 0 \/ ~Owes(liability'[w]))]_vars
  BY <1>2 DEF Funded, Drained
<1>4. QED
  BY <1>3, TypeInvInit, TypeInvNext, PTL DEF Spec, OldestDebtFirst

\* Facts are final: Settle refuses a settled, a released and a differently
\* priced request, and no recovery or reversal undoes what a liability says.
THEOREM FactsStayFinal == Spec => FactsAreFinal
<1> DEFINE RequestFinal(r) ==
             /\ reservation[r].status \in {"settled", "released"} =>
                   reservation'[r] = reservation[r]
             /\ settlement[r] # NoRow => settlement'[r].actual = settlement[r].actual
             /\ settlement[r].status = "settled" => settlement'[r] = settlement[r]
           DebtFinal(w, i) ==
             /\ liability[w][i].status = "reversed" =>
                   liability'[w][i] = liability[w][i]
             /\ liability'[w][i].recovered >= liability[w][i].recovered
             /\ liability[w][i].status = "settled" =>
                   liability'[w][i].status # "open"
<1>1. ASSUME TypeInv, [Next]_vars, NEW r \in Requests PROVE RequestFinal(r)
  <2>1. ASSUME NEW q \in Requests, NEW w \in Wallets, NEW a \in Amounts, Reserve(q, w, a)
        PROVE  RequestFinal(r)
    <3>1. /\ reservation[q].status = "none" /\ settlement' = settlement
          /\ \A p \in Requests \ {q} : reservation'[p] = reservation[p]
      BY <1>1, <2>1 DEF Reserve, NoRow, TypeInv, TypeOK
    <3>2. QED
      BY <3>1
  <2>2. ASSUME NEW q \in Requests, NEW a \in Amounts \cup {0},
               Settle(q, a) \/ SettlePending(q, a)
        PROVE  RequestFinal(r)
    <3>1. /\ reservation[q].status \in {"reserved", "settlement_pending"}
          /\ settlement[q] \in {NoRow, [status |-> "pending", actual |-> a]}
      BY <2>2 DEF Settle, SettlePending, Settleable
    <3>2. /\ settlement'[q].actual = a
          /\ \A p \in Requests \ {q} : /\ reservation'[p] = reservation[p]
                                       /\ settlement'[p] = settlement[p]
      BY <1>1, <2>2 DEF Settle, SettlePending, TypeInv, TypeOK
    <3>3. QED
      BY <3>1, <3>2 DEF NoRow
  <2>3. ASSUME NEW q \in Requests, Release(q) PROVE RequestFinal(r)
    <3>1. /\ reservation[q].status = "reserved" /\ settlement' = settlement
          /\ \A p \in Requests \ {q} : reservation'[p] = reservation[p]
      BY <1>1, <2>3 DEF Release, Releasable, TypeInv, TypeOK
    <3>2. QED
      BY <3>1
  <2>4. CASE UsageNext
    BY <2>1, <2>2, <2>3, <2>4 DEF UsageNext
  <2>5. CASE FundingNext \/ RefundNext \/ UNCHANGED vars
    <3>1. UNCHANGED <<reservation, settlement>>
      BY <2>5 DEF FundingNext, Credit, PayOrder, OpenLiability, OpenReversed,
                  ReverseLiability, RefundNext, HoldRefund, CompleteRefund,
                  ReleaseRefund, vars
    <3>2. QED
      BY <3>1
  <2>6. QED
    BY <1>1, <2>4, <2>5 DEF Next
<1>2. ASSUME TypeInv, [Next]_vars, NEW w \in Wallets, NEW i \in 1..Len(liability[w])
      PROVE  DebtFinal(w, i)
  <2>1. PICK debts : Revised(liability[w], debts) /\ PaidInOrder(debts, liability'[w])
    BY <1>2, DebtsAdvanceNext DEF DebtsAdvance
  <2>2. i \in 1..Len(debts)
    <3>1. Len(debts) \in Nat /\ Len(liability[w]) <= Len(debts)
      BY <2>1 DEF Revised
    <3>2. QED
      BY <3>1
  <2>3. PICK old, mid, new :
          old = liability[w][i] /\ mid = debts[i] /\ new = liability'[w][i]
    OBVIOUS
  <2>4. /\ mid.recovered = old.recovered
        /\ mid = old \/ (old.status # "reversed" /\ mid.status = "reversed")
    BY <2>1, <2>3 DEF Revised
  <2>5. /\ mid.status # "open" => new = mid
        /\ new.recovered >= mid.recovered
    BY <2>1, <2>2, <2>3 DEF PaidInOrder
  <2>6. QED
    BY <2>3, <2>4, <2>5
<1>3. TypeInv /\ [Next]_vars =>
        [/\ \A r \in Requests : RequestFinal(r)
         /\ \A w \in Wallets : \A i \in 1..Len(liability[w]) : DebtFinal(w, i)]_vars
  BY <1>1, <1>2
<1>4. QED
  BY <1>3, TypeInvInit, TypeInvNext, PTL DEF Spec, FactsAreFinal

-----------------------------------------------------------------------------
(* What payment builds on: which references have a liability, which of these   *)
(* are reversed, and what the ledger says of an order.                         *)

\* Two lists of debts claim the same references and have the same ones reversed.
SameClaims(old, new) ==
    /\ Len(new) = Len(old)
    /\ \A i \in 1..Len(old) :
          /\ new[i].ref = old[i].ref
          /\ new[i].status = "reversed" <=> old[i].status = "reversed"

\* new is old with one more debt, of reference ref, reversed or not.
OneMoreClaim(old, new, ref, reversed) ==
    /\ Len(new) = Len(old) + 1
    /\ \A i \in 1..Len(old) :
          /\ new[i].ref = old[i].ref
          /\ new[i].status = "reversed" <=> old[i].status = "reversed"
    /\ new[Len(new)].ref = ref
    /\ new[Len(new)].status = "reversed" <=> reversed

\* new is old with the i-th debt reversed.
ClaimReversed(old, new, i) ==
    /\ Len(new) = Len(old)
    /\ \A j \in 1..Len(old) :
          /\ new[j].ref = old[j].ref
          /\ new[j].status = "reversed" <=> old[j].status = "reversed" \/ j = i

\* The liabilities of the wallets other than w stay.
OthersKept(w) == \A v \in Wallets \ {w} : liability'[v] = liability[v]

\* The step only appends to the ledger, entries of these types and nothing else.
PostsOnly(types) == ledger \subseteq ledger' /\ \A row \in ledger' \ ledger : row.type \in types

\* Recovery pays debts and neither adds, renames nor reverses one.
LEMMA RecoveryClaims ==
    ASSUME TypeInv, NEW w \in Wallets, NEW debts \in Seq(LiabilityRow),
           \A i \in 1..Len(debts) : DebtExact(debts[i]),
           NEW funds \in 0..MaxMinor, NEW rows, NEW source, NEW hold,
           recoverWalletLiabilities(w, debts, funds, rows, source, hold)
    PROVE  /\ SameClaims(debts, liability'[w])
           /\ OthersKept(w)
           /\ ledger \cup rows \subseteq ledger'
           /\ \A row \in ledger' \ ledger :
                row \in rows \/ row.type = "liability_recovery"
<1>1. PICK left \in [0..Len(debts) -> 0..funds] :
        /\ Drains(debts, funds, left)
        /\ liability' = [liability EXCEPT ![w] = Recovered(debts, left)]
        /\ insertLedger(rows \cup RecoveryRows(w, debts, left, source))
  BY DEF recoverWalletLiabilities
<1>2. PICK paid : paid = Recovered(debts, left)
  OBVIOUS
<1>3. liability'[w] = paid /\ OthersKept(w)
  BY <1>1, <1>2 DEF TypeInv, TypeOK, OthersKept
<1>4. PaidInOrder(debts, paid)
  BY <1>1, <1>2, RecoveryInOrder
<1>5. ASSUME NEW i \in 1..Len(debts)
      PROVE  /\ paid[i].ref = debts[i].ref
             /\ paid[i].status = "reversed" <=> debts[i].status = "reversed"
  <2>1. PICK debt \in LiabilityRow : debt = debts[i]
    OBVIOUS
  <2> DEFINE x == left[i-1] - left[i]
  <2>2. paid[i] = Repaid(debt, x)
    BY <1>2, <2>1 DEF Recovered
  <2>3. /\ paid[i].ref = debt.ref
        /\ paid[i] = debt \/ paid[i].status \in {"open", "settled"}
    BY <2>1, <2>2 DEF Repaid, LiabilityRow
  <2>4. debt.status # "open" => paid[i] = debt
    BY <1>4, <2>1 DEF PaidInOrder
  <2>5. QED
    BY <2>1, <2>3, <2>4
<1>6. SameClaims(debts, paid)
  BY <1>4, <1>5 DEF SameClaims, PaidInOrder
<1>7. /\ ledger \cup rows \subseteq ledger'
      /\ \A row \in ledger' \ ledger : row \in rows \/ row.type = "liability_recovery"
  BY <1>1 DEF insertLedger, RecoveryRows
<1>8. QED
  BY <1>3, <1>6, <1>7

\* CreditInTx leaves every claim as it is and posts its own entry.
LEMMA CreditClaims ==
    ASSUME TypeInv, NEW w \in Wallets, NEW type \in EntryTypes, NEW of,
           NEW amount \in Amounts \cup Debits, CreditInTx(w, type, of, amount)
    PROVE  /\ \A v \in Wallets : SameClaims(liability[v], liability'[v])
           /\ PostsOnly({type, "liability_recovery"})
           /\ \E row \in ledger' : row.type = type /\ row.of = of
           /\ \A row \in ledger' \ ledger :
                row.type = "liability_recovery" \/ (row.type = type /\ row.of = of)
<1>1. PICK funds : funds = wallet[w].available + amount
  OBVIOUS
<1>2. funds \in 0..MaxMinor
  <2>1. MaxMinor \in Nat /\ \A a \in Amounts : a \in 1..MaxMinor
    BY AmountsAssumption
  <2>2. amount \in Int
    BY <2>1 DEF Debits
  <2>3. wallet[w].available \in 0..MaxMinor
    BY DEF TypeInv, TypeOK
  <2>4. QED
    BY <1>1, <2>1, <2>2, <2>3 DEF CreditInTx, safeAdd
<1>3. PICK row : row = Row(w, type, of, amount, 0)
  OBVIOUS
<1>4. PICK debts, hold : debts = liability[w] /\ hold = wallet[w].hold
  OBVIOUS
<1>5. recoverWalletLiabilities(w, debts, funds, {row}, of, hold)
  BY <1>1, <1>3, <1>4 DEF CreditInTx
<1>6. debts \in Seq(LiabilityRow) /\ \A i \in 1..Len(debts) : DebtExact(debts[i])
  BY <1>4 DEF TypeInv, TypeOK, LiabilityStatusExact
<1>7. /\ SameClaims(debts, liability'[w])
      /\ OthersKept(w)
      /\ ledger \cup {row} \subseteq ledger'
      /\ \A new \in ledger' \ ledger : new \in {row} \/ new.type = "liability_recovery"
  BY <1>2, <1>5, <1>6, RecoveryClaims
<1>8. row.type = type /\ row.of = of
  BY <1>3 DEF Row
<1>9. \A v \in Wallets : SameClaims(liability[v], liability'[v])
  BY <1>4, <1>7 DEF OthersKept, SameClaims
<1>10. QED
  BY <1>7, <1>8, <1>9 DEF PostsOnly
\* OpenLiabilityInTx adds the claim of its reference.
LEMMA OpenClaims ==
    ASSUME TypeInv, NEW ref, NEW w \in Wallets, NEW amount,
           OpenLiabilityInTx(ref, w, amount)
    PROVE  /\ OneMoreClaim(liability[w], liability'[w], ref, FALSE)
           /\ OthersKept(w)
           /\ PostsOnly({"liability_open"})
<1>1. PICK taken : taken = Least(amount, wallet[w].available)
  OBVIOUS
<1>2. PICK debt : debt = [ref |-> ref, principal |-> amount, recovered |-> taken,
                          status |-> IF taken < amount THEN "open" ELSE "settled"]
  OBVIOUS
<1>3. /\ liability' = [liability EXCEPT ![w] = Append(@, debt)]
      /\ insertLedger(IF taken > 0
                      THEN {Row(w, "liability_open", ref, -taken, 0)} ELSE {})
  BY <1>1, <1>2 DEF OpenLiabilityInTx
<1>4. liability'[w] = Append(liability[w], debt) /\ OthersKept(w)
  BY <1>3 DEF TypeInv, TypeOK, OthersKept
<1>5. liability[w] \in Seq(LiabilityRow)
  BY DEF TypeInv, TypeOK
<1>6. PICK old, new : old = liability[w] /\ new = Append(old, debt)
  OBVIOUS
<1>7. /\ Len(old) \in Nat /\ Len(new) = Len(old) + 1
      /\ \A i \in 1..Len(old) : new[i] = old[i]
      /\ new[Len(old) + 1] = debt
  BY <1>5, <1>6
<1>8. debt.ref = ref /\ debt.status # "reversed"
  BY <1>2
<1>9. OneMoreClaim(old, new, ref, FALSE)
  BY <1>7, <1>8 DEF OneMoreClaim
<1>10. PostsOnly({"liability_open"})
  BY <1>3 DEF insertLedger, Row, PostsOnly
<1>11. QED
  BY <1>4, <1>6, <1>9, <1>10

\* ReverseLiabilityInTx, alone or after OpenLiabilityInTx: the claims are those
\* of the debts it starts from.
LEMMA ReturnClaims ==
    ASSUME TypeInv, NEW w \in Wallets, NEW debts \in Seq(LiabilityRow),
           \A i \in 1..Len(debts) : DebtExact(debts[i]),
           NEW debt \in LiabilityRow, NEW balance \in 0..MaxMinor, NEW rows,
           \A row \in rows : row.type = "liability_open",
           ReturnRecovered(w, debts, debt, balance, rows)
    PROVE  /\ SameClaims(debts, liability'[w])
           /\ OthersKept(w)
           /\ PostsOnly({"liability_open", "liability_reversal", "liability_recovery"})
<1>1. PICK hold : hold = (Owes(debts) \/ Unsettled(w, {}))
  OBVIOUS
<1>2. PICK row : row = Row(w, "liability_reversal", debt.ref, debt.recovered, 0)
  OBVIOUS
<1>3. CASE debt.recovered = 0
  <2>1. liability' = [liability EXCEPT ![w] = debts] /\ ledger' = ledger
    BY <1>3 DEF ReturnRecovered
  <2>2. liability'[w] = debts /\ OthersKept(w)
    BY <2>1 DEF TypeInv, TypeOK, OthersKept
  <2>3. QED
    BY <2>1, <2>2 DEF PostsOnly, SameClaims
<1>4. CASE debt.recovered > 0
  <2>1. debt.recovered \in 0..MaxMinor /\ MaxMinor \in Nat /\ debt.recovered # 0
    BY <1>4, AmountsAssumption DEF LiabilityRow
  <2>2. PICK funds \in 0..MaxMinor : funds = balance + debt.recovered
    BY <2>1 DEF ReturnRecovered, safeAdd
  <2>3. recoverWalletLiabilities(w, debts, funds, rows \cup {row}, debt.ref, hold)
    BY <1>1, <1>2, <2>1, <2>2 DEF ReturnRecovered
  <2>4. PICK all, source : all = rows \cup {row} /\ source = debt.ref
    OBVIOUS
  <2>5. recoverWalletLiabilities(w, debts, funds, all, source, hold)
    BY <2>3, <2>4
  <2>6. /\ SameClaims(debts, liability'[w])
        /\ OthersKept(w)
        /\ ledger \cup all \subseteq ledger'
        /\ \A new \in ledger' \ ledger : new \in all \/ new.type = "liability_recovery"
    BY <2>5, RecoveryClaims
  <2>7. row.type = "liability_reversal"
    BY <1>2 DEF Row
  <2>8. QED
    BY <2>4, <2>6, <2>7 DEF PostsOnly
<1>5. QED
  BY <1>3, <1>4 DEF ReturnRecovered

\* ReverseLiabilityInTx reverses one debt.
LEMMA ReverseClaims ==
    ASSUME TypeInv, NEW w \in Wallets, NEW i \in 1..Len(liability[w]),
           ReverseLiabilityInTx(w, i)
    PROVE  /\ ClaimReversed(liability[w], liability'[w], i)
           /\ OthersKept(w)
           /\ PostsOnly({"liability_open", "liability_reversal", "liability_recovery"})
<1>1. PICK old \in Seq(LiabilityRow) : old = liability[w]
  BY DEF TypeInv, TypeOK
<1>2. PICK debt \in LiabilityRow : debt = liability[w][i] /\ debt.status # "reversed"
  BY <1>1 DEF ReverseLiabilityInTx
<1>3. PICK debts : debts = [liability[w] EXCEPT ![i].status = "reversed"]
  OBVIOUS
<1>4. /\ debts \in Seq(LiabilityRow)
      /\ \A j \in 1..Len(debts) : DebtExact(debts[j])
  BY <1>3, ReversedDebts
<1>5. /\ Len(debts) = Len(old) /\ Len(old) \in Nat
      /\ debts[i].ref = debt.ref /\ debts[i].status = "reversed"
      /\ \A j \in 1..Len(old) : j # i => debts[j] = old[j]
  BY <1>1, <1>2, <1>3 DEF LiabilityRow
<1>6. PICK balance \in 0..MaxMinor : balance = wallet[w].available
  BY DEF TypeInv, TypeOK
<1>7. ReturnRecovered(w, debts, debt, balance, {})
  BY <1>2, <1>3, <1>6 DEF ReverseLiabilityInTx
<1>8. /\ SameClaims(debts, liability'[w])
      /\ OthersKept(w)
      /\ PostsOnly({"liability_open", "liability_reversal", "liability_recovery"})
  BY <1>4, <1>7, ReturnClaims
<1>9. ClaimReversed(old, liability'[w], i)
  BY <1>1, <1>2, <1>5, <1>8 DEF ClaimReversed, SameClaims
<1>10. QED
  BY <1>1, <1>8, <1>9

\* OpenReversedInTx adds a claim that is reversed from the start.
LEMMA OpenReversedClaims ==
    ASSUME TypeInv, NEW ref \in References, NEW w \in Wallets, NEW amount \in Amounts,
           OpenReversedInTx(ref, w, amount)
    PROVE  /\ OneMoreClaim(liability[w], liability'[w], ref, TRUE)
           /\ OthersKept(w)
           /\ PostsOnly({"liability_open", "liability_reversal", "liability_recovery"})
<1>1. amount \in 1..MaxMinor /\ MaxMinor \in Nat /\ wallet[w].available \in 0..MaxMinor
  BY AmountsAssumption DEF TypeInv, TypeOK
<1>2. PICK taken \in 0..MaxMinor :
        /\ taken = Least(amount, wallet[w].available) /\ taken <= amount
        /\ wallet[w].available - taken \in 0..MaxMinor
  BY <1>1 DEF Least
<1>3. PICK debt : debt = [ref |-> ref, principal |-> amount, recovered |-> taken,
                          status |-> "reversed"]
  OBVIOUS
<1>4. debt \in LiabilityRow /\ DebtExact(debt)
  BY <1>1, <1>2, <1>3 DEF LiabilityRow, DebtExact
<1>5. PICK old, debts : /\ old = liability[w] /\ old \in Seq(LiabilityRow)
                        /\ debts = Append(old, debt)
  BY DEF TypeInv, TypeOK
<1>6. PICK row, balance : /\ row = Row(w, "liability_open", ref, -taken, 0)
                          /\ balance = wallet[w].available - taken
  OBVIOUS
<1>7. ReturnRecovered(w, debts, debt, balance, {row})
  BY <1>2, <1>3, <1>5, <1>6 DEF OpenReversedInTx
<1>8. /\ debts \in Seq(LiabilityRow)
      /\ Len(old) \in Nat /\ Len(debts) = Len(old) + 1
      /\ \A i \in 1..Len(old) : debts[i] = old[i]
      /\ debts[Len(old) + 1] = debt
  BY <1>4, <1>5
<1>9. \A i \in 1..Len(debts) : DebtExact(debts[i])
  <2>1. \A i \in 1..Len(old) : DebtExact(old[i])
    BY <1>5 DEF TypeInv, LiabilityStatusExact
  <2>2. QED
    BY <1>4, <1>8, <2>1
<1>10. balance \in 0..MaxMinor /\ \A new \in {row} : new.type = "liability_open"
  BY <1>2, <1>6 DEF Row
<1>11. /\ SameClaims(debts, liability'[w])
       /\ OthersKept(w)
       /\ PostsOnly({"liability_open", "liability_reversal", "liability_recovery"})
  <2>1. PICK rows : rows = {row}
    OBVIOUS
  <2>2. ReturnRecovered(w, debts, debt, balance, rows)
        /\ \A new \in rows : new.type = "liability_open"
    BY <1>7, <1>10, <2>1
  <2>3. QED
    BY <1>4, <1>8, <1>9, <1>10, <2>2, ReturnClaims
<1>12. debt.ref = ref /\ debt.status = "reversed"
  BY <1>3
<1>13. OneMoreClaim(old, liability'[w], ref, TRUE)
  BY <1>8, <1>11, <1>12 DEF OneMoreClaim, SameClaims
<1>14. QED
  BY <1>5, <1>11, <1>13
\* Usage touches no liability and posts its own entries.
LEMMA UsageClaims ==
    ASSUME UsageNext
    PROVE  /\ liability' = liability
           /\ PostsOnly({"reservation", "usage_charge", "settlement_release", "release"})
<1>1. PICK r \in Requests :
        \/ \E w \in Wallets, a \in Amounts : Reserve(r, w, a)
        \/ \E a \in Amounts \cup {0} : Settle(r, a)
        \/ \E a \in Amounts \cup {0} : SettlePending(r, a)
        \/ Release(r)
  BY DEF UsageNext
<1>2. ASSUME NEW w \in Wallets, NEW a \in Amounts, Reserve(r, w, a)
      PROVE  liability' = liability /\ PostsOnly({"reservation"})
  BY <1>2 DEF Reserve, insertLedger, Row, PostsOnly
<1>3. ASSUME NEW a \in Amounts \cup {0}, Settle(r, a)
      PROVE  liability' = liability /\ PostsOnly({"usage_charge", "settlement_release"})
  <2>1. liability' = liability /\ insertLedger(SettleRows(r, a))
    BY <1>3 DEF Settle
  <2>2. QED
    BY <2>1 DEF insertLedger, SettleRows, UsageCharge, UnusedRelease, Row, PostsOnly
<1>4. ASSUME NEW a \in Amounts \cup {0}, SettlePending(r, a)
      PROVE  liability' = liability /\ PostsOnly({})
  BY <1>4 DEF SettlePending, PostsOnly
<1>5. ASSUME Release(r) PROVE liability' = liability /\ PostsOnly({"release"})
  BY <1>5 DEF Release, insertLedger, Row, PostsOnly
<1>6. QED
  BY <1>1, <1>2, <1>3, <1>4, <1>5 DEF PostsOnly

-----------------------------------------------------------------------------
(* Sums over finite sets.  The library defines SumFunctionOnSet by a fold over *)
(* a chosen order and proves nothing of it; what the ledger needs follows here *)
(* from its definition.                                                        *)

\* One unfolding of the library's fold for a sum: the value of the element it
\* chooses, and the sum of the others.
SumStep(f, g, s) ==
    IF s = {} THEN 0
    ELSE f[CHOOSE x \in s : TRUE] + g[s \ {CHOOSE x \in s : TRUE}]

\* g gives the sum of f over every subset of S.
IsSum(f, S, g) == g = [s \in SUBSET S |-> SumStep(f, g, s)]

\* The function the fold chooses.
SumsOf(f, S) == CHOOSE g : IsSum(f, S, g)

\* SumFunctionOnSet, the sum the ledger properties use, is that function at S.
LEMMA SumByDefinition ==
    ASSUME NEW f, NEW S
    PROVE  SumFunctionOnSet(f, S) = SumsOf(f, S)[S]
BY DEF SumFunctionOnSet, FoldFunctionOnSet, MapThenFoldSet, SumsOf, IsSum, SumStep

\* Among sets of subsets of a finite set there is a smallest: induction over
\* finite sets, by the smallest counterexample.
LEMMA SmallestSubset ==
    ASSUME NEW S, IsFiniteSet(S), NEW T, T \subseteq SUBSET S, T # {}
    PROVE  \E s \in T : \A t \in T : ~(t \subseteq s /\ t # s)
<1>1. IsWellFoundedOn(StrictSubsetOrdering(S), SUBSET S)
  BY FS_StrictSubsetOrderingWellFounded, FS_FiniteSubsetsOfFinite
<1>2. PICK s \in T : \A t \in T : ~(<<t, s>> \in StrictSubsetOrdering(S))
  BY <1>1, WFMin
<1>3. QED
  BY <1>2 DEF StrictSubsetOrdering

\* The sum over T does not depend on the set it was computed in.
LEMMA SumsAgree ==
    ASSUME NEW f, NEW S, IsFiniteSet(S), NEW T \in SUBSET S, NEW g, NEW h,
           IsSum(f, S, g), IsSum(f, T, h)
    PROVE  g[T] = h[T]
<1> DEFINE Differ == {s \in SUBSET T : g[s] # h[s]}
<1>1. SUFFICES ASSUME Differ # {} PROVE FALSE
  BY T \in SUBSET T
<1>2. IsFiniteSet(T)
  BY FS_Subset
<1>3. PICK s \in Differ : \A t \in Differ : ~(t \subseteq s /\ t # s)
  <2>1. Differ \subseteq SUBSET T
    OBVIOUS
  <2> HIDE DEF Differ
  <2>2. QED
    BY <1>1, <1>2, <2>1, SmallestSubset
<1>4. g[s] = SumStep(f, g, s) /\ h[s] = SumStep(f, h, s)
  BY DEF IsSum
<1>5. s # {}
  BY <1>4 DEF SumStep
<1>6. PICK x : x = CHOOSE y \in s : TRUE
  OBVIOUS
<1>7. x \in s
  BY <1>5, <1>6
<1>8. s \ {x} \notin Differ
  BY <1>3, <1>7
<1>9. g[s \ {x}] = h[s \ {x}]
  BY <1>8
<1>10. g[s] = h[s]
  BY <1>4, <1>5, <1>6, <1>9 DEF SumStep
<1>11. QED
  BY <1>10

\* Every finite set has a sum: the fold's choice is not arbitrary.
LEMMA SumsExist ==
    ASSUME NEW f, NEW S, IsFiniteSet(S)
    PROVE  \E g : IsSum(f, S, g)
<1> DEFINE None == {s \in SUBSET S : ~\E g : IsSum(f, s, g)}
<1>1. SUFFICES ASSUME None # {} PROVE FALSE
  BY S \in SUBSET S
<1>2. PICK s \in None : \A t \in None : ~(t \subseteq s /\ t # s)
  <2>1. None \subseteq SUBSET S
    OBVIOUS
  <2> HIDE DEF None
  <2>2. QED
    BY <1>1, <2>1, SmallestSubset
<1>3. ASSUME NEW t \in SUBSET s, t # s
      PROVE  IsSum(f, t, SumsOf(f, t)) /\ IsFiniteSet(t)
  <2>1. t \notin None /\ t \in SUBSET S
    BY <1>2, <1>3
  <2>2. \E g : IsSum(f, t, g)
    BY <2>1
  <2>3. QED
    BY <2>1, <2>2, FS_Subset DEF SumsOf
<1>4. PICK G : G = [t \in SUBSET s |-> SumsOf(f, t)[t]]
  OBVIOUS
<1>5. PICK g : g = [t \in SUBSET s |-> IF t = s THEN SumStep(f, G, s) ELSE G[t]]
  OBVIOUS
<1>6. ASSUME NEW t \in SUBSET s
      PROVE  g[t] = SumStep(f, g, t)
  <2>1. CASE t = {}
    <3>1. CASE t = s
      BY <2>1, <3>1, <1>5 DEF SumStep
    <3>2. CASE t # s
      <4>1. g[t] = SumsOf(f, t)[t]
        BY <3>2, <1>4, <1>5
      <4>2. SumsOf(f, t)[t] = SumStep(f, SumsOf(f, t), t)
        BY <3>2, <1>3 DEF IsSum
      <4>3. QED
        BY <2>1, <4>1, <4>2 DEF SumStep
    <3>3. QED
      BY <3>1, <3>2
  <2>2. CASE t # {}
    <3>1. PICK x : x = CHOOSE y \in t : TRUE
      OBVIOUS
    <3>2. x \in t
      BY <2>2, <3>1
    <3>3. /\ t \ {x} \in SUBSET s
          /\ t \ {x} # s
      BY <3>2
    <3>4. g[t \ {x}] = G[t \ {x}]
      BY <3>3, <1>5
    <3>5. CASE t = s
      BY <2>2, <3>1, <3>4, <3>5, <1>5 DEF SumStep
    <3>6. CASE t # s
      <4>1. g[t] = SumsOf(f, t)[t]
        BY <3>6, <1>4, <1>5
      <4>2. SumsOf(f, t)[t] = SumStep(f, SumsOf(f, t), t)
        BY <3>6, <1>3 DEF IsSum
      <4>3. SumsOf(f, t)[t \ {x}] = SumsOf(f, t \ {x})[t \ {x}]
        <5>1. t \ {x} \in SUBSET t
          OBVIOUS
        <5>2. /\ IsSum(f, t, SumsOf(f, t)) /\ IsFiniteSet(t)
              /\ IsSum(f, t \ {x}, SumsOf(f, t \ {x}))
          BY <3>3, <3>6, <1>3
        <5>3. QED
          BY <5>1, <5>2, SumsAgree
      <4>4. SumsOf(f, t)[t \ {x}] = g[t \ {x}]
        BY <4>3, <3>3, <3>4, <1>4
      <4>5. QED
        BY <2>2, <3>1, <4>1, <4>2, <4>4 DEF SumStep
    <3>7. QED
      BY <3>5, <3>6
  <2>3. QED
    BY <2>1, <2>2
<1>7. g = [t \in SUBSET s |-> g[t]]
  BY <1>5
<1>8. IsSum(f, s, g)
  BY <1>6, <1>7 DEF IsSum
<1>9. QED
  BY <1>8

\* Nothing sums to zero.
LEMMA SumOfNothing ==
    ASSUME NEW f
    PROVE  SumFunctionOnSet(f, {}) = 0
<1>1. IsSum(f, {}, SumsOf(f, {}))
  BY SumsExist, FS_EmptySet DEF SumsOf
<1>2. SumsOf(f, {})[{}] = SumStep(f, SumsOf(f, {}), {})
  BY <1>1 DEF IsSum
<1>3. QED
  BY <1>2, SumByDefinition DEF SumStep

\* The sum is one element, the one the fold chooses, and the sum of the others.
LEMMA SumOfChosen ==
    ASSUME NEW f, NEW S, IsFiniteSet(S), S # {}
    PROVE  LET x == CHOOSE y \in S : TRUE IN
           SumFunctionOnSet(f, S) = f[x] + SumFunctionOnSet(f, S \ {x})
<1>1. PICK x : x = CHOOSE y \in S : TRUE
  OBVIOUS
<1>2. IsFiniteSet(S \ {x})
  BY FS_RemoveElement
<1>3. IsSum(f, S, SumsOf(f, S)) /\ IsSum(f, S \ {x}, SumsOf(f, S \ {x}))
  BY <1>2, SumsExist DEF SumsOf
<1>4. SumsOf(f, S)[S] = SumStep(f, SumsOf(f, S), S)
  BY <1>3, S \in SUBSET S DEF IsSum
<1>5. SumsOf(f, S)[S \ {x}] = SumsOf(f, S \ {x})[S \ {x}]
  BY <1>3, S \ {x} \in SUBSET S, SumsAgree
<1>6. SumsOf(f, S)[S] = f[x] + SumsOf(f, S \ {x})[S \ {x}]
  BY <1>1, <1>4, <1>5 DEF SumStep
<1>7. QED
  BY <1>1, <1>6, SumByDefinition

\* The sum of integers is an integer, and any element may be taken out of it:
\* the order of the fold does not matter.
LEMMA SumOfOne ==
    ASSUME NEW f, NEW S, IsFiniteSet(S), \A x \in S : f[x] \in Int
    PROVE  /\ SumFunctionOnSet(f, S) \in Int
           /\ \A x \in S : SumFunctionOnSet(f, S) = f[x] + SumFunctionOnSet(f, S \ {x})
<1> DEFINE Sum(s) == SumFunctionOnSet(f, s)
           Good(s) == Sum(s) \in Int /\ \A x \in s : Sum(s) = f[x] + Sum(s \ {x})
           Bad == {s \in SUBSET S : ~Good(s)}
<1>1. SUFFICES ASSUME Bad # {} PROVE FALSE
  BY S \in SUBSET S
<1>2. PICK s \in Bad : \A t \in Bad : ~(t \subseteq s /\ t # s)
  <2>1. Bad \subseteq SUBSET S
    OBVIOUS
  <2> HIDE DEF Bad
  <2>2. QED
    BY <1>1, <2>1, SmallestSubset
<1>3. ASSUME NEW t \in SUBSET s, t # s PROVE Good(t)
  <2>1. t \notin Bad /\ t \in SUBSET S
    BY <1>2, <1>3
  <2> HIDE DEF Good
  <2>2. QED
    BY <2>1
<1>4. Sum({}) = 0
  BY SumOfNothing
<1>5. s # {}
  <2>1. Good({})
    BY <1>4
  <2> HIDE DEF Good
  <2>2. QED
    BY <2>1
<1>6. PICK c : c = CHOOSE y \in s : TRUE
  OBVIOUS
<1>7. c \in s /\ IsFiniteSet(s)
  BY <1>5, <1>6, FS_Subset
<1>8. Sum(s) = f[c] + Sum(s \ {c})
  BY <1>5, <1>6, <1>7, SumOfChosen, ZenonT(60)
<1>9. Good(s \ {c}) /\ f[c] \in Int
  <2> HIDE DEF Good
  <2>1. QED
    BY <1>3, <1>7
<1> HIDE DEF Sum
<1>10. Sum(s) \in Int
  BY <1>8, <1>9
<1>11. ASSUME NEW x \in s PROVE Sum(s) = f[x] + Sum(s \ {x})
  <2>1. CASE x = c
    BY <2>1, <1>8
  <2>2. CASE x # c
    <3>1. Good(s \ {x}) /\ f[x] \in Int
      <4> HIDE DEF Good
      <4>1. QED
        BY <1>3
    <3>2. /\ x \in s \ {c}
          /\ c \in s \ {x}
          /\ (s \ {x}) \ {c} = (s \ {c}) \ {x}
      BY <1>7, <2>2
    <3>3. Sum(s \ {c}) = f[x] + Sum((s \ {c}) \ {x})
      BY <1>9, <3>2
    <3>4. Sum(s \ {x}) = f[c] + Sum((s \ {c}) \ {x})
      BY <3>1, <3>2
    <3>5. Sum((s \ {c}) \ {x}) \in Int
      <4>1. (s \ {c}) \ {x} \in SUBSET s /\ (s \ {c}) \ {x} # s
        BY <1>7
      <4>2. Good((s \ {c}) \ {x})
        <5> HIDE DEF Good
        <5>1. QED
          BY <4>1, <1>3
      <4>3. QED
        BY <4>2
    <3>6. QED
      BY <1>8, <1>9, <3>1, <3>3, <3>4, <3>5
  <2>3. QED
    BY <2>1, <2>2
<1>12. QED
  BY <1>10, <1>11

\* Functions that agree on S have the same sum over S.
LEMMA SumOfEqual ==
    ASSUME NEW f, NEW g, NEW S, IsFiniteSet(S), \A x \in S : f[x] = g[x]
    PROVE  SumFunctionOnSet(f, S) = SumFunctionOnSet(g, S)
<1> DEFINE Bad == {s \in SUBSET S : SumFunctionOnSet(f, s) # SumFunctionOnSet(g, s)}
<1>1. SUFFICES ASSUME Bad # {} PROVE FALSE
  BY S \in SUBSET S
<1>2. PICK s \in Bad : \A t \in Bad : ~(t \subseteq s /\ t # s)
  <2>1. Bad \subseteq SUBSET S
    OBVIOUS
  <2> HIDE DEF Bad
  <2>2. QED
    BY <1>1, <2>1, SmallestSubset
<1>3. s # {}
  BY SumOfNothing
<1>4. PICK c : c = CHOOSE y \in s : TRUE
  OBVIOUS
<1>5. c \in s /\ IsFiniteSet(s)
  BY <1>3, <1>4, FS_Subset
<1>6. /\ SumFunctionOnSet(f, s) = f[c] + SumFunctionOnSet(f, s \ {c})
      /\ SumFunctionOnSet(g, s) = g[c] + SumFunctionOnSet(g, s \ {c})
  BY <1>3, <1>4, <1>5, SumOfChosen
<1>7. s \ {c} \notin Bad
  BY <1>2, <1>5
<1>8. SumFunctionOnSet(f, s \ {c}) = SumFunctionOnSet(g, s \ {c}) /\ f[c] = g[c]
  BY <1>5, <1>7
<1>9. QED
  BY <1>6, <1>8

\* A new element adds its value.
LEMMA SumWithOneMore ==
    ASSUME NEW f, NEW S, IsFiniteSet(S), \A x \in S : f[x] \in Int,
           NEW x, x \notin S, f[x] \in Int
    PROVE  SumFunctionOnSet(f, S \cup {x}) = SumFunctionOnSet(f, S) + f[x]
<1>1. IsFiniteSet(S \cup {x})
  BY FS_AddElement
<1>2. (S \cup {x}) \ {x} = S
  OBVIOUS
<1>3. \A y \in S \cup {x} : f[y] \in Int
  OBVIOUS
<1>4. SumFunctionOnSet(f, S \cup {x}) = f[x] + SumFunctionOnSet(f, S)
  BY <1>1, <1>2, <1>3, SumOfOne
<1>5. QED
  BY <1>4, SumOfOne

\* The sum over two disjoint sets is the sum of their sums.
LEMMA SumOfUnion ==
    ASSUME NEW f, NEW S, IsFiniteSet(S), NEW T, IsFiniteSet(T), S \cap T = {},
           \A x \in S \cup T : f[x] \in Int
    PROVE  SumFunctionOnSet(f, S \cup T) = SumFunctionOnSet(f, S) + SumFunctionOnSet(f, T)
<1> DEFINE Sum(s) == SumFunctionOnSet(f, s)
           Good(t) == Sum(S \cup t) = Sum(S) + Sum(t)
           Bad == {t \in SUBSET T : ~Good(t)}
<1>1. SUFFICES ASSUME Bad # {} PROVE FALSE
  BY T \in SUBSET T
<1>2. PICK t \in Bad : \A u \in Bad : ~(u \subseteq t /\ u # t)
  <2>1. Bad \subseteq SUBSET T
    OBVIOUS
  <2> HIDE DEF Bad
  <2>2. QED
    BY <1>1, <2>1, SmallestSubset
<1>3. Sum(S) \in Int
  BY SumOfOne
<1>4. t # {}
  <2>1. Sum({}) = 0
    BY SumOfNothing
  <2> HIDE DEF Sum
  <2>2. S \cup {} = S
    OBVIOUS
  <2>3. Good({})
    BY <1>3, <2>1, <2>2
  <2> HIDE DEF Good
  <2>4. QED
    BY <2>3
<1>5. PICK c : c \in t
  BY <1>4
<1>6. t \ {c} \notin Bad /\ t \ {c} \in SUBSET T
  BY <1>2, <1>5
<1>7. Good(t \ {c})
  <2> HIDE DEF Good
  <2>1. QED
    BY <1>6
<1>8. /\ IsFiniteSet(t) /\ IsFiniteSet(t \ {c}) /\ IsFiniteSet(S \cup (t \ {c}))
  BY FS_Subset, FS_RemoveElement, FS_Union
<1>9. /\ \A x \in S \cup (t \ {c}) : f[x] \in Int
      /\ c \notin S \cup (t \ {c})
      /\ f[c] \in Int
      /\ S \cup t = (S \cup (t \ {c})) \cup {c}
      /\ t = (t \ {c}) \cup {c}
  BY <1>5
<1>10. Sum(S \cup t) = Sum(S \cup (t \ {c})) + f[c]
  BY <1>8, <1>9, SumWithOneMore
<1>11. Sum(t) = Sum(t \ {c}) + f[c] /\ Sum(t \ {c}) \in Int
  <2>1. PICK u : u = t \ {c}
    OBVIOUS
  <2>2. IsFiniteSet(u) /\ (\A x \in u : f[x] \in Int) /\ c \notin u /\ t = u \cup {c}
    BY <2>1, <1>8, <1>9
  <2>3. Sum(u \cup {c}) = Sum(u) + f[c] /\ Sum(u) \in Int
    BY <2>2, <1>9, SumWithOneMore, SumOfOne
  <2> HIDE DEF Sum
  <2>4. QED
    BY <2>1, <2>2, <2>3
<1> HIDE DEF Sum
<1>12. Good(t)
  BY <1>3, <1>7, <1>9, <1>10, <1>11
<1> HIDE DEF Good
<1>13. QED
  BY <1>12

\* g is f with one more element x in its domain.
Extends(g, T, f, S, x) ==
    /\ IsFiniteSet(S) /\ f \in [S -> Int]
    /\ x \notin S /\ T = S \cup {x}
    /\ g \in [T -> Int] /\ \A y \in S : g[y] = f[y]

\* The sum of a function with one more element.
LEMMA SumGrows ==
    ASSUME NEW g, NEW T, NEW f, NEW S, NEW x, Extends(g, T, f, S, x)
    PROVE  SumFunction(g) = SumFunction(f) + g[x]
<1> USE DEF Extends
<1>1. DOMAIN f = S /\ DOMAIN g = S \cup {x}
  OBVIOUS
<1>2. /\ \A y \in S : g[y] = f[y] /\ g[y] \in Int
      /\ g[x] \in Int
  OBVIOUS
<1>3. SumFunctionOnSet(g, S) = SumFunctionOnSet(f, S)
  BY <1>2, SumOfEqual
<1>4. SumFunctionOnSet(g, S \cup {x}) = SumFunctionOnSet(g, S) + g[x]
  BY <1>2, SumWithOneMore
<1>5. QED
  BY <1>1, <1>3, <1>4 DEF SumFunction

\* The sum of an integer function is an integer.
LEMMA SumIsInteger ==
    ASSUME NEW S, IsFiniteSet(S), NEW f \in [S -> Int]
    PROVE  SumFunction(f) \in Int
BY SumOfOne DEF SumFunction

\* Zeros sum to zero.
LEMMA SumOfZeros ==
    ASSUME NEW f, NEW S, IsFiniteSet(S), \A x \in S : f[x] = 0
    PROVE  SumFunctionOnSet(f, S) = 0
<1> DEFINE Bad == {s \in SUBSET S : SumFunctionOnSet(f, s) # 0}
<1>1. SUFFICES ASSUME Bad # {} PROVE FALSE
  BY S \in SUBSET S
<1>2. PICK s \in Bad : \A t \in Bad : ~(t \subseteq s /\ t # s)
  <2>1. Bad \subseteq SUBSET S
    OBVIOUS
  <2> HIDE DEF Bad
  <2>2. QED
    BY <1>1, <2>1, SmallestSubset
<1>3. s # {} /\ IsFiniteSet(s)
  BY SumOfNothing, FS_Subset
<1>4. PICK c : c \in s
  BY <1>3
<1>5. SumFunctionOnSet(f, s) = f[c] + SumFunctionOnSet(f, s \ {c})
  BY <1>3, <1>4, SumOfOne
<1>6. s \ {c} \notin Bad
  BY <1>2, <1>4
<1>7. SumFunctionOnSet(f, s \ {c}) = 0 /\ f[c] = 0
  BY <1>4, <1>6
<1>8. QED
  BY <1>5, <1>7

-----------------------------------------------------------------------------
(* Totals of ledger rows *)

\* Both columns of a ledger row are integers.
LEMMA DeltaType ==
    /\ AvailableDelta \in [LedgerRow -> Int]
    /\ ReservedDelta \in [LedgerRow -> Int]
BY DEF AvailableDelta, ReservedDelta, LedgerRow

\* Rows whose columns can be added up.
Summable(rows) == rows \subseteq LedgerRow /\ IsFiniteSet(rows)

\* A column of finitely many rows has an integer total.
LEMMA TotalType ==
    ASSUME NEW rows, Summable(rows), NEW delta \in [LedgerRow -> Int]
    PROVE  Total(delta, rows) \in Int
BY SumOfOne DEF Total, Summable

\* Part of summable rows is summable.
LEMMA SummableParts ==
    ASSUME NEW rows, Summable(rows), NEW part, part \subseteq rows
    PROVE  Summable(part)
BY FS_Subset DEF Summable

\* Two lots of summable rows together are summable.
LEMMA SummableUnion ==
    ASSUME NEW a, Summable(a), NEW b, Summable(b)
    PROVE  Summable(a \cup b)
BY FS_Union DEF Summable

\* A single row is summable, and so are no rows.
LEMMA SummableOne ==
    ASSUME NEW row \in LedgerRow
    PROVE  Summable({row}) /\ Summable({})
BY FS_Singleton, FS_EmptySet DEF Summable

\* Rows that are not the same add up.
LEMMA TotalUnion ==
    ASSUME NEW a, Summable(a), NEW b, Summable(b), a \cap b = {},
           NEW delta \in [LedgerRow -> Int]
    PROVE  Total(delta, a \cup b) = Total(delta, a) + Total(delta, b)
BY SumOfUnion DEF Total, Summable

\* The total of one row.
LEMMA TotalOne ==
    ASSUME NEW row \in LedgerRow, NEW delta \in [LedgerRow -> Int]
    PROVE  Total(delta, {row}) = delta[row]
<1>1. {} \cup {row} = {row}
  OBVIOUS
<1>2. SumFunctionOnSet(delta, {} \cup {row}) = SumFunctionOnSet(delta, {}) + delta[row]
  BY SumWithOneMore, FS_EmptySet
<1>3. QED
  BY <1>1, <1>2, SumOfNothing DEF Total

\* The total of no rows.
LEMMA TotalNone ==
    ASSUME NEW delta
    PROVE  Total(delta, {}) = 0
BY SumOfNothing DEF Total

\* insertLedger adds rows that were not there: the unique keys of
\* wallet_ledger refuse a row that is.
LEMMA Posting ==
    ASSUME Summable(ledger), NEW rows, Summable(rows), insertLedger(rows)
    PROVE  /\ ledger' = ledger \cup rows
           /\ ledger \cap rows = {}
           /\ Summable(ledger')
BY SummableUnion DEF insertLedger

\* The totals per wallet and per subject after a posting.
LEMMA PostingTotals ==
    ASSUME Summable(ledger), NEW rows, Summable(rows), insertLedger(rows),
           NEW delta \in [LedgerRow -> Int], NEW x
    PROVE  /\ Total(delta, EntriesOf(x, ledger)) \in Int
           /\ Total(delta, EntriesOf(x, rows)) \in Int
           /\ Total(delta, EntriesOf(x, ledger')) =
                Total(delta, EntriesOf(x, ledger)) + Total(delta, EntriesOf(x, rows))
           /\ Total(delta, EntriesAbout(x, ledger)) \in Int
           /\ Total(delta, EntriesAbout(x, rows)) \in Int
           /\ Total(delta, EntriesAbout(x, ledger')) =
                Total(delta, EntriesAbout(x, ledger)) + Total(delta, EntriesAbout(x, rows))
<1>1. ledger' = ledger \cup rows /\ ledger \cap rows = {}
  BY Posting
<1>2. /\ EntriesOf(x, ledger') = EntriesOf(x, ledger) \cup EntriesOf(x, rows)
      /\ EntriesOf(x, ledger) \cap EntriesOf(x, rows) = {}
      /\ EntriesAbout(x, ledger') = EntriesAbout(x, ledger) \cup EntriesAbout(x, rows)
      /\ EntriesAbout(x, ledger) \cap EntriesAbout(x, rows) = {}
  BY <1>1 DEF EntriesOf, EntriesAbout
<1>3. /\ Summable(EntriesOf(x, ledger)) /\ Summable(EntriesOf(x, rows))
      /\ Summable(EntriesAbout(x, ledger)) /\ Summable(EntriesAbout(x, rows))
  BY SummableParts DEF EntriesOf, EntriesAbout
<1>4. Total(delta, EntriesOf(x, ledger')) =
        Total(delta, EntriesOf(x, ledger)) + Total(delta, EntriesOf(x, rows))
  BY <1>2, <1>3, TotalUnion
<1>5. Total(delta, EntriesAbout(x, ledger')) =
        Total(delta, EntriesAbout(x, ledger)) + Total(delta, EntriesAbout(x, rows))
  BY <1>2, <1>3, TotalUnion
<1>6. QED
  BY <1>3, <1>4, <1>5, TotalType

\* Rows of another wallet or subject do not count, rows of one count in full.
LEMMA NoEntries ==
    ASSUME NEW rows, NEW x
    PROVE  /\ (\A row \in rows : row.wallet # x) => EntriesOf(x, rows) = {}
           /\ (\A row \in rows : row.wallet = x) => EntriesOf(x, rows) = rows
           /\ (\A row \in rows : row.of # x) => EntriesAbout(x, rows) = {}
           /\ (\A row \in rows : row.of = x) => EntriesAbout(x, rows) = rows
BY DEF EntriesOf, EntriesAbout

-----------------------------------------------------------------------------
(* The invariant *)

\* A payment reference has one liability, in one wallet (the unique key of
\* wallet_liabilities).
RefsUnique ==
    \A v, w \in Wallets : \A i \in 1..Len(liability[v]), j \in 1..Len(liability[w]) :
        liability[v][i].ref = liability[w][j].ref => v = w /\ i = j

\* The ledger speaks of a reference only once it has a liability.
PostedRefs ==
    \A row \in ledger : row.of \in References => ~NewReference(row.of)

\* What a wallet has held is a finite set of requests and orders.
HoldersFinite ==
    \A w \in Wallets : IsFiniteSet(Holding(w)) /\ IsFiniteSet(Refunding(w))

\* The strengthening of BooksBalance and ChargesExact: finite books, and
\* references whose entries cannot be mistaken for those of another liability.
Books ==
    /\ Summable(ledger)
    /\ HoldersFinite
    /\ RefsUnique
    /\ PostedRefs
    /\ LedgerRebuildsBalance
    /\ ReservedIsBacked
    /\ RecoveryIsPosted
    /\ ChargedExactlyOnce

\* The inductive invariant of the books.
BooksInv == HoldInv /\ Books

\* Empty books balance.
LEMMA BooksInvInit == Init => BooksInv
<1> SUFFICES ASSUME Init PROVE BooksInv
  OBVIOUS
<1>1. HoldInv
  BY HoldInvInit
<1>2. Summable(ledger)
  BY FS_EmptySet DEF Init, Summable
<1>3. ASSUME NEW w \in Wallets PROVE Holding(w) = {} /\ Refunding(w) = {}
  BY DEF Init, Holding, Refunding, NoRow
<1>4. HoldersFinite
  BY <1>3, FS_EmptySet DEF HoldersFinite
<1>5. Len(<<>>) = 0
  OBVIOUS
<1>6. RefsUnique /\ PostedRefs /\ RecoveryIsPosted
  BY <1>5 DEF Init, RefsUnique, PostedRefs, RecoveryIsPosted
<1>7. ASSUME NEW x PROVE EntriesOf(x, ledger) = {} /\ EntriesAbout(x, ledger) = {}
  BY DEF Init, EntriesOf, EntriesAbout
<1>8. LedgerRebuildsBalance
  BY <1>7, TotalNone DEF LedgerRebuildsBalance, Init
<1>9. ChargedExactlyOnce
  <2>1. ASSUME NEW r \in Requests PROVE settlement[r].status # "settled"
    BY DEF Init, NoRow
  <2>2. ASSUME NEW r \in Requests
        PROVE  /\ Total(AvailableDelta, EntriesAbout(r, ledger)) = 0
               /\ Total(ReservedDelta, EntriesAbout(r, ledger)) = 0
    BY <1>7, TotalNone
  <2>3. QED
    BY <2>1, <2>2 DEF ChargedExactlyOnce
<1>10. ReservedIsBacked
  <2>1. ASSUME NEW w \in Wallets
        PROVE  SumFunction(HeldAmounts(w)) = 0 /\ SumFunction(RefundAmounts(w)) = 0
    <3>1. DOMAIN HeldAmounts(w) = {} /\ DOMAIN RefundAmounts(w) = {}
      BY <1>3 DEF HeldAmounts, RefundAmounts
    <3>2. QED
      BY <3>1, SumOfNothing DEF SumFunction
  <2>2. QED
    BY <2>1 DEF ReservedIsBacked, Init
<1>11. QED
  BY <1>1, <1>2, <1>4, <1>6, <1>8, <1>9, <1>10 DEF BooksInv, Books

-----------------------------------------------------------------------------
(* What holds the reserved balance *)

\* The amounts a wallet has held are integers.
HeldType ==
    \A w \in Wallets : /\ HeldAmounts(w) \in [Holding(w) -> Int]
                       /\ RefundAmounts(w) \in [Refunding(w) -> Int]

\* Reservations and orders hold integer amounts.
LEMMA AmountsHeld == TypeInv => HeldType
<1> SUFFICES ASSUME TypeInv, NEW w \in Wallets
             PROVE  /\ HeldAmounts(w) \in [Holding(w) -> Int]
                    /\ RefundAmounts(w) \in [Refunding(w) -> Int]
  BY DEF HeldType
<1>1. ASSUME NEW r \in Holding(w) PROVE reservation[r].amount \in Int
  <2>1. reservation[r] \in ReservationRow
    BY DEF Holding, TypeInv, TypeOK, NoRow
  <2>2. reservation[r].amount \in 1..MaxMinor /\ MaxMinor \in Nat
    BY <2>1, AmountsAssumption DEF ReservationRow
  <2>3. QED
    BY <2>2
<1>2. ASSUME NEW o \in Refunding(w) PROVE order[o].amount \in Int
  <2>1. order[o] \in OrderRow
    BY DEF Refunding, TypeInv, TypeOK, NoRow
  <2>2. order[o].amount \in 1..MaxMinor /\ MaxMinor \in Nat
    BY <2>1, AmountsAssumption DEF OrderRow
  <2>3. QED
    BY <2>2
<1>3. QED
  BY <1>1, <1>2 DEF HeldAmounts, RefundAmounts

\* A new reservation adds its amount to what its wallet has held.
LEMMA HoldOneMore ==
    ASSUME TypeInv, HoldersFinite, NEW r \in Requests, NEW w \in Wallets,
           NEW amount \in Amounts, reservation[r] = NoRow,
           reservation' = [reservation EXCEPT ![r] =
              [status |-> "reserved", wallet |-> w, amount |-> amount]]
    PROVE  \A v \in Wallets :
             /\ IsFiniteSet(Holding(v)')
             /\ SumFunction(HeldAmounts(v))' =
                  SumFunction(HeldAmounts(v)) + IF v = w THEN amount ELSE 0
<1> SUFFICES ASSUME NEW v \in Wallets
             PROVE  /\ IsFiniteSet(Holding(v)')
                    /\ SumFunction(HeldAmounts(v))' =
                         SumFunction(HeldAmounts(v)) + IF v = w THEN amount ELSE 0
  OBVIOUS
<1>1. /\ IsFiniteSet(Holding(v))
      /\ HeldAmounts(v) \in [Holding(v) -> Int]
      /\ amount \in Int
  BY AmountsHeld, AmountsAssumption DEF HoldersFinite, HeldType
<1>2. r \notin Holding(v)
  BY DEF Holding, NoRow
<1>3. reservation \in [Requests -> ReservationRow \cup {NoRow}]
  BY DEF TypeInv, TypeOK
<1>4. SumFunction(HeldAmounts(v)) \in Int
  BY <1>1, SumIsInteger
<1>5. CASE v = w
  <2>1. Holding(v)' = Holding(v) \cup {r}
    BY <1>3, <1>5 DEF Holding
  <2>2. HeldAmounts(v)' =
          [y \in Holding(v) \cup {r} |-> IF y = r THEN amount ELSE HeldAmounts(v)[y]]
    BY <1>2, <1>3, <2>1 DEF HeldAmounts, Holding
  <2>3. SumFunction(HeldAmounts(v)') = SumFunction(HeldAmounts(v)) + amount
    <3>1. PICK T : T = Holding(v) \cup {r}
      OBVIOUS
    <3>2. PICK g \in [T -> Int] : g = HeldAmounts(v)'
      BY <1>1, <1>2, <1>3, <2>2, <3>1
    <3>3. g[r] = amount /\ \A y \in Holding(v) : g[y] = HeldAmounts(v)[y]
      BY <1>2, <1>5, <2>2, <3>2
    <3>4. PICK S : S = Holding(v)
      OBVIOUS
    <3>5. PICK f \in [S -> Int] : f = HeldAmounts(v)
      BY <1>1, <1>3, <3>4
    <3>6. Extends(g, T, f, S, r)
      BY <1>1, <1>2, <1>3, <1>5, <3>1, <3>3, <3>4, <3>5 DEF Extends
    <3>7. SumFunction(g) = SumFunction(f) + g[r]
      BY <3>6, SumGrows
    <3>8. QED
      BY <3>2, <3>3, <3>5, <3>7
  <2>4. QED
    BY <1>1, <1>5, <2>1, <2>3, FS_AddElement
<1>6. CASE v # w
  <2>1. Holding(v)' = Holding(v)
    BY <1>2, <1>3, <1>6 DEF Holding
  <2>2. HeldAmounts(v)' = HeldAmounts(v)
    BY <1>2, <1>3, <2>1 DEF HeldAmounts, Holding
  <2>3. QED
    BY <1>1, <1>4, <1>6, <2>1, <2>2
<1>7. QED
  BY <1>5, <1>6

\* A reservation that ends takes its amount out of what its wallet has held.
LEMMA HoldOneLess ==
    ASSUME TypeInv, TypeInv', HoldersFinite, NEW r \in Requests,
           reservation[r].status \in {"reserved", "settlement_pending"},
           reservation'[r].status \notin {"reserved", "settlement_pending"},
           \A q \in Requests \ {r} : reservation'[q] = reservation[q]
    PROVE  \A v \in Wallets :
             /\ IsFiniteSet(Holding(v)')
             /\ SumFunction(HeldAmounts(v))' =
                  SumFunction(HeldAmounts(v))
                    - IF v = reservation[r].wallet THEN reservation[r].amount ELSE 0
<1>1. reservation[r] \in ReservationRow
  BY DEF TypeInv, TypeOK, NoRow
<1>2. PICK w \in Wallets, amount \in Int :
         w = reservation[r].wallet /\ amount = reservation[r].amount
  <2>1. reservation[r].wallet \in Wallets /\ reservation[r].amount \in 1..MaxMinor /\ MaxMinor \in Nat
    BY <1>1, AmountsAssumption DEF ReservationRow
  <2>2. QED
    BY <2>1
<1> SUFFICES ASSUME NEW v \in Wallets
             PROVE  /\ IsFiniteSet(Holding(v)')
                    /\ SumFunction(HeldAmounts(v))' =
                         SumFunction(HeldAmounts(v)) - IF v = w THEN amount ELSE 0
  BY <1>2
<1>3. /\ IsFiniteSet(Holding(v))
      /\ HeldAmounts(v) \in [Holding(v) -> Int]
      /\ HeldAmounts(v)' \in [Holding(v)' -> Int]
  <2>1. HeldType'
    BY AmountsHeld, PTL
  <2>2. QED
    BY <2>1, AmountsHeld DEF HoldersFinite, HeldType
<1>4. \A q \in Requests \ {r} : reservation'[q] = reservation[q]
  OBVIOUS
<1>5. r \notin Holding(v)'
  BY DEF Holding
<1>6. SumFunction(HeldAmounts(v)) \in Int
  BY <1>3, SumIsInteger
<1>7. CASE v = w
  <2>1. Holding(v) = Holding(v)' \cup {r} /\ Holding(v)' = Holding(v) \ {r}
    BY <1>2, <1>4, <1>7 DEF Holding
  <2>2. HeldAmounts(v) =
          [y \in Holding(v)' \cup {r} |-> IF y = r THEN amount ELSE HeldAmounts(v)'[y]]
    BY <1>2, <1>4, <1>5, <2>1 DEF HeldAmounts, Holding
  <2>3. IsFiniteSet(Holding(v)')
    BY <1>3, <2>1, FS_RemoveElement
  <2>4. SumFunction(HeldAmounts(v)) = SumFunction(HeldAmounts(v)') + amount
    <3>0. PICK S : S = Holding(v)'
      OBVIOUS
    <3>1. PICK f \in [S -> Int] : f = HeldAmounts(v)'
      BY <1>3, <3>0
    <3>2. PICK T : T = S \cup {r}
      OBVIOUS
    <3>3. PICK g \in [T -> Int] : g = HeldAmounts(v)
      BY <1>3, <2>1, <3>0, <3>2
    <3>4. /\ IsFiniteSet(S) /\ r \notin S /\ g[r] = amount
          /\ \A y \in S : g[y] = f[y]
      BY <1>5, <2>2, <2>3, <3>0, <3>1, <3>3
    <3>5. SumFunction(g) = SumFunction(f) + g[r]
      <4>1. Extends(g, T, f, S, r)
        BY <3>2, <3>4 DEF Extends
      <4>2. QED
        BY <4>1, SumGrows
    <3>6. QED
      BY <3>1, <3>3, <3>4, <3>5
  <2>5. SumFunction(HeldAmounts(v)') \in Int
    BY <1>3, <2>3, SumIsInteger
  <2>6. QED
    BY <1>7, <2>3, <2>4, <2>5
<1>8. CASE v # w
  <2>1. Holding(v)' = Holding(v)
    BY <1>2, <1>4, <1>5, <1>8 DEF Holding
  <2>2. HeldAmounts(v)' = HeldAmounts(v)
    BY <1>4, <1>5, <2>1 DEF HeldAmounts, Holding
  <2>3. QED
    BY <1>3, <1>6, <1>8, <2>1, <2>2
<1>9. QED
  BY <1>7, <1>8

\* A refund that starts adds the order's amount to what its wallet has held.
LEMMA RefundOneMore ==
    ASSUME TypeInv, HoldersFinite, NEW o \in Orders, order[o].status = "paid",
           order' = [order EXCEPT ![o].status = "refund_pending"]
    PROVE  \A v \in Wallets :
             /\ IsFiniteSet(Refunding(v)')
             /\ SumFunction(RefundAmounts(v))' =
                  SumFunction(RefundAmounts(v))
                    + IF v = order[o].wallet THEN order[o].amount ELSE 0
<1>1. order[o] \in OrderRow
  BY DEF TypeInv, TypeOK, NoRow
<1>2. PICK w \in Wallets, amount \in Int :
         w = order[o].wallet /\ amount = order[o].amount
  <2>1. order[o].wallet \in Wallets /\ order[o].amount \in 1..MaxMinor /\ MaxMinor \in Nat
    BY <1>1, AmountsAssumption DEF OrderRow
  <2>2. QED
    BY <2>1
<1> SUFFICES ASSUME NEW v \in Wallets
             PROVE  /\ IsFiniteSet(Refunding(v)')
                    /\ SumFunction(RefundAmounts(v))' =
                         SumFunction(RefundAmounts(v)) + IF v = w THEN amount ELSE 0
  BY <1>2
<1>3. /\ IsFiniteSet(Refunding(v))
      /\ RefundAmounts(v) \in [Refunding(v) -> Int]
  BY AmountsHeld DEF HoldersFinite, HeldType
<1>4. /\ order \in [Orders -> OrderRow \cup {NoRow}]
      /\ \A q \in Orders \ {o} : order'[q] = order[q]
      /\ order'[o].status = "refund_pending"
      /\ order'[o].wallet = w
      /\ order'[o].amount = amount
  BY <1>1, <1>2 DEF TypeInv, TypeOK, OrderRow
<1>5. o \notin Refunding(v)
  BY DEF Refunding
<1>6. SumFunction(RefundAmounts(v)) \in Int
  BY <1>3, SumIsInteger
<1>7. CASE v = w
  <2>1. Refunding(v)' = Refunding(v) \cup {o}
    BY <1>4, <1>7 DEF Refunding
  <2>2. RefundAmounts(v)' =
          [y \in Refunding(v) \cup {o} |-> IF y = o THEN amount ELSE RefundAmounts(v)[y]]
    BY <1>4, <1>5, <2>1 DEF RefundAmounts, Refunding
  <2>3. SumFunction(RefundAmounts(v)') = SumFunction(RefundAmounts(v)) + amount
    <3>1. PICK T : T = Refunding(v) \cup {o}
      OBVIOUS
    <3>2. PICK g \in [T -> Int] : g = RefundAmounts(v)'
      BY <1>1, <1>2, <1>3, <2>2, <3>1
    <3>3. g[o] = amount /\ \A y \in Refunding(v) : g[y] = RefundAmounts(v)[y]
      BY <1>2, <1>5, <2>2, <3>2
    <3>4. PICK S : S = Refunding(v)
      OBVIOUS
    <3>5. PICK f \in [S -> Int] : f = RefundAmounts(v)
      BY <1>1, <1>3, <3>4
    <3>6. Extends(g, T, f, S, o)
      BY <1>1, <1>2, <1>3, <1>5, <3>1, <3>3, <3>4, <3>5 DEF Extends
    <3>7. SumFunction(g) = SumFunction(f) + g[o]
      BY <3>6, SumGrows
    <3>8. QED
      BY <3>2, <3>3, <3>5, <3>7
  <2>4. QED
    BY <1>3, <1>7, <2>1, <2>3, FS_AddElement
<1>8. CASE v # w
  <2>1. Refunding(v)' = Refunding(v)
    BY <1>4, <1>5, <1>8 DEF Refunding
  <2>2. RefundAmounts(v)' = RefundAmounts(v)
    BY <1>4, <1>5, <2>1 DEF RefundAmounts, Refunding
  <2>3. QED
    BY <1>3, <1>6, <1>8, <2>1, <2>2
<1>9. QED
  BY <1>7, <1>8

\* A refund that ends takes the order's amount out of it.
LEMMA RefundOneLess ==
    ASSUME TypeInv, TypeInv', HoldersFinite, NEW o \in Orders,
           order[o].status = "refund_pending", order'[o].status # "refund_pending",
           \A q \in Orders \ {o} : order'[q] = order[q]
    PROVE  \A v \in Wallets :
             /\ IsFiniteSet(Refunding(v)')
             /\ SumFunction(RefundAmounts(v))' =
                  SumFunction(RefundAmounts(v))
                    - IF v = order[o].wallet THEN order[o].amount ELSE 0
<1>1. order[o] \in OrderRow
  BY DEF TypeInv, TypeOK, NoRow
<1>2. PICK w \in Wallets, amount \in Int :
         w = order[o].wallet /\ amount = order[o].amount
  <2>1. order[o].wallet \in Wallets /\ order[o].amount \in 1..MaxMinor /\ MaxMinor \in Nat
    BY <1>1, AmountsAssumption DEF OrderRow
  <2>2. QED
    BY <2>1
<1> SUFFICES ASSUME NEW v \in Wallets
             PROVE  /\ IsFiniteSet(Refunding(v)')
                    /\ SumFunction(RefundAmounts(v))' =
                         SumFunction(RefundAmounts(v)) - IF v = w THEN amount ELSE 0
  BY <1>2
<1>3. /\ IsFiniteSet(Refunding(v))
      /\ RefundAmounts(v) \in [Refunding(v) -> Int]
      /\ RefundAmounts(v)' \in [Refunding(v)' -> Int]
  <2>1. HeldType'
    BY AmountsHeld, PTL
  <2>2. QED
    BY <2>1, AmountsHeld DEF HoldersFinite, HeldType
<1>4. \A q \in Orders \ {o} : order'[q] = order[q]
  OBVIOUS
<1>5. o \notin Refunding(v)'
  BY DEF Refunding
<1>6. SumFunction(RefundAmounts(v)) \in Int
  BY <1>3, SumIsInteger
<1>7. CASE v = w
  <2>1. Refunding(v) = Refunding(v)' \cup {o} /\ Refunding(v)' = Refunding(v) \ {o}
    BY <1>2, <1>4, <1>7 DEF Refunding
  <2>2. RefundAmounts(v) =
          [y \in Refunding(v)' \cup {o} |-> IF y = o THEN amount ELSE RefundAmounts(v)'[y]]
    BY <1>2, <1>4, <1>5, <2>1 DEF RefundAmounts, Refunding
  <2>3. IsFiniteSet(Refunding(v)')
    BY <1>3, <2>1, FS_RemoveElement
  <2>4. SumFunction(RefundAmounts(v)) = SumFunction(RefundAmounts(v)') + amount
    <3>0. PICK S : S = Refunding(v)'
      OBVIOUS
    <3>1. PICK f \in [S -> Int] : f = RefundAmounts(v)'
      BY <1>3, <3>0
    <3>2. PICK T : T = S \cup {o}
      OBVIOUS
    <3>3. PICK g \in [T -> Int] : g = RefundAmounts(v)
      BY <1>3, <2>1, <3>0, <3>2
    <3>4. /\ IsFiniteSet(S) /\ o \notin S /\ g[o] = amount
          /\ \A y \in S : g[y] = f[y]
      BY <1>5, <2>2, <2>3, <3>0, <3>1, <3>3
    <3>5. SumFunction(g) = SumFunction(f) + g[o]
      <4>1. Extends(g, T, f, S, o)
        BY <3>2, <3>4 DEF Extends
      <4>2. QED
        BY <4>1, SumGrows
    <3>6. QED
      BY <3>1, <3>3, <3>4, <3>5
  <2>5. SumFunction(RefundAmounts(v)') \in Int
    BY <1>3, <2>3, SumIsInteger
  <2>6. QED
    BY <1>7, <2>3, <2>4, <2>5
<1>8. CASE v # w
  <2>1. Refunding(v)' = Refunding(v)
    BY <1>2, <1>4, <1>5, <1>8 DEF Refunding
  <2>2. RefundAmounts(v)' = RefundAmounts(v)
    BY <1>4, <1>5, <2>1 DEF RefundAmounts, Refunding
  <2>3. QED
    BY <1>3, <1>6, <1>8, <2>1, <2>2
<1>9. QED
  BY <1>7, <1>8

-----------------------------------------------------------------------------
(* Entries and balances *)

\* Balances that move by what is posted stay explained by the ledger.
LEMMA BalanceKept ==
    ASSUME LedgerRebuildsBalance, Summable(ledger),
           NEW rows, Summable(rows), insertLedger(rows),
           \A v \in Wallets :
             /\ wallet'[v].available =
                  wallet[v].available + Total(AvailableDelta, EntriesOf(v, rows))
             /\ wallet'[v].reserved =
                  wallet[v].reserved + Total(ReservedDelta, EntriesOf(v, rows))
    PROVE  LedgerRebuildsBalance'
<1>1. ASSUME NEW v \in Wallets
      PROVE  /\ wallet'[v].available = Total(AvailableDelta, EntriesOf(v, ledger'))
             /\ wallet'[v].reserved = Total(ReservedDelta, EntriesOf(v, ledger'))
  <2>1. Total(AvailableDelta, EntriesOf(v, ledger')) =
          Total(AvailableDelta, EntriesOf(v, ledger)) + Total(AvailableDelta, EntriesOf(v, rows))
    BY PostingTotals, DeltaType
  <2>2. Total(ReservedDelta, EntriesOf(v, ledger')) =
          Total(ReservedDelta, EntriesOf(v, ledger)) + Total(ReservedDelta, EntriesOf(v, rows))
    BY PostingTotals, DeltaType
  <2>3. QED
    BY <2>1, <2>2 DEF LedgerRebuildsBalance
<1>2. QED
  BY <1>1 DEF LedgerRebuildsBalance

\* The rows move a and b of wallet w, all on account of one subject.
Posts(rows, w, of, a, b) ==
    /\ Summable(rows)
    /\ \A x : /\ Total(AvailableDelta, EntriesOf(x, rows)) = IF x = w THEN a ELSE 0
              /\ Total(ReservedDelta, EntriesOf(x, rows)) = IF x = w THEN b ELSE 0
              /\ Total(AvailableDelta, EntriesAbout(x, rows)) = IF x = of THEN a ELSE 0
              /\ Total(ReservedDelta, EntriesAbout(x, rows)) = IF x = of THEN b ELSE 0

\* What one row posts.
LEMMA OneEntry ==
    ASSUME NEW w \in Wallets, NEW type \in EntryTypes, NEW of \in Subjects,
           NEW a \in Int, NEW b \in Int, NEW row, row = Row(w, type, of, a, b)
    PROVE  row \in LedgerRow /\ Posts({row}, w, of, a, b)
<1>1. row \in LedgerRow
  BY RowType
<1>2. /\ row.wallet = w /\ row.of = of
      /\ AvailableDelta[row] = a /\ ReservedDelta[row] = b
  BY <1>1 DEF Row, AvailableDelta, ReservedDelta
<1>3. /\ Total(AvailableDelta, {row}) = a /\ Total(ReservedDelta, {row}) = b
      /\ Total(AvailableDelta, {}) = 0 /\ Total(ReservedDelta, {}) = 0
  BY <1>1, <1>2, TotalOne, TotalNone, DeltaType
<1>4. ASSUME NEW x
      PROVE  /\ EntriesOf(x, {row}) = IF x = w THEN {row} ELSE {}
             /\ EntriesAbout(x, {row}) = IF x = of THEN {row} ELSE {}
  BY <1>2 DEF EntriesOf, EntriesAbout
<1>5. QED
  BY <1>1, <1>3, <1>4, SummableOne DEF Posts

\* A liability is a row about a reference.
LEMMA DebtType ==
    ASSUME TypeInv, NEW w \in Wallets, NEW i \in 1..Len(liability[w])
    PROVE  liability[w][i] \in LiabilityRow /\ liability[w][i].ref \in References
<1>1. liability[w] \in Seq(LiabilityRow)
  BY DEF TypeInv, TypeOK
<1>2. liability[w][i] \in LiabilityRow
  BY <1>1
<1>3. QED
  BY <1>2 DEF LiabilityRow

\* Entries about requests, orders and credits say nothing of liabilities.
LEMMA LiabilitiesKept ==
    ASSUME BooksInv, NEW rows, Summable(rows), insertLedger(rows),
           \A row \in rows : row.of \notin References,
           liability' = liability
    PROVE  RefsUnique' /\ PostedRefs' /\ RecoveryIsPosted'
<1>1. RefsUnique'
  BY DEF BooksInv, Books, RefsUnique
<1>2. PostedRefs'
  <2>1. ledger' = ledger \cup rows
    BY DEF insertLedger
  <2>2. ASSUME NEW ref PROVE NewReference(ref)' <=> NewReference(ref)
    BY DEF NewReference
  <2>3. QED
    BY <2>1, <2>2 DEF BooksInv, Books, PostedRefs
<1>3. ASSUME NEW w \in Wallets, NEW i \in 1..Len(liability[w])
      PROVE  Total(AvailableDelta, EntriesAbout(liability[w][i].ref, ledger')) =
               Total(AvailableDelta, EntriesAbout(liability[w][i].ref, ledger))
  <2>1. PICK ref \in References : ref = liability[w][i].ref
    BY DebtType DEF BooksInv, HoldInv
  <2>2. EntriesAbout(ref, rows) = {}
    BY DEF EntriesAbout
  <2>3. /\ Total(AvailableDelta, EntriesAbout(ref, ledger')) =
             Total(AvailableDelta, EntriesAbout(ref, ledger))
               + Total(AvailableDelta, EntriesAbout(ref, rows))
        /\ Total(AvailableDelta, EntriesAbout(ref, ledger)) \in Int
    BY PostingTotals, DeltaType DEF BooksInv, Books
  <2>4. QED
    BY <2>1, <2>2, <2>3, TotalNone
<1>4. RecoveryIsPosted'
  BY <1>3 DEF BooksInv, Books, RecoveryIsPosted
<1>5. QED
  BY <1>1, <1>2, <1>4

\* Entries that charge no request leave the charges exact.
LEMMA ChargesKept ==
    ASSUME BooksInv, NEW rows, Summable(rows), insertLedger(rows),
           \A r \in Requests : Total(AvailableDelta, EntriesAbout(r, rows))
                                 + Total(ReservedDelta, EntriesAbout(r, rows)) = 0,
           settlement' = settlement
    PROVE  ChargedExactlyOnce'
<1>1. ASSUME NEW r \in Requests
      PROVE  Total(AvailableDelta, EntriesAbout(r, ledger'))
               + Total(ReservedDelta, EntriesAbout(r, ledger')) =
             Total(AvailableDelta, EntriesAbout(r, ledger))
               + Total(ReservedDelta, EntriesAbout(r, ledger))
  <2>1. /\ Total(AvailableDelta, EntriesAbout(r, ledger')) =
             Total(AvailableDelta, EntriesAbout(r, ledger))
               + Total(AvailableDelta, EntriesAbout(r, rows))
        /\ Total(AvailableDelta, EntriesAbout(r, ledger)) \in Int
        /\ Total(AvailableDelta, EntriesAbout(r, rows)) \in Int
    BY PostingTotals, DeltaType DEF BooksInv, Books
  <2>2. /\ Total(ReservedDelta, EntriesAbout(r, ledger')) =
             Total(ReservedDelta, EntriesAbout(r, ledger))
               + Total(ReservedDelta, EntriesAbout(r, rows))
        /\ Total(ReservedDelta, EntriesAbout(r, ledger)) \in Int
        /\ Total(ReservedDelta, EntriesAbout(r, rows)) \in Int
    BY PostingTotals, DeltaType DEF BooksInv, Books
  <2>3. QED
    BY <2>1, <2>2
<1>2. QED
  BY <1>1 DEF BooksInv, Books, ChargedExactlyOnce

\* Without a change of reservations or orders nothing else is held.
LEMMA HoldersKept ==
    ASSUME BooksInv
    PROVE  /\ reservation' = reservation =>
                \A v \in Wallets : /\ IsFiniteSet(Holding(v)')
                                   /\ SumFunction(HeldAmounts(v))' = SumFunction(HeldAmounts(v))
           /\ order' = order =>
                \A v \in Wallets : /\ IsFiniteSet(Refunding(v)')
                                   /\ SumFunction(RefundAmounts(v))' = SumFunction(RefundAmounts(v))
<1>1. ASSUME reservation' = reservation, NEW v \in Wallets
      PROVE  Holding(v)' = Holding(v) /\ HeldAmounts(v)' = HeldAmounts(v)
  BY <1>1 DEF Holding, HeldAmounts
<1>2. ASSUME order' = order, NEW v \in Wallets
      PROVE  Refunding(v)' = Refunding(v) /\ RefundAmounts(v)' = RefundAmounts(v)
  BY <1>2 DEF Refunding, RefundAmounts
<1>3. QED
  BY <1>1, <1>2 DEF BooksInv, Books, HoldersFinite

\* The invariant at one wallet: its reserved balance is what it has held.
LEMMA SumsHeld ==
    ASSUME BooksInv, NEW v \in Wallets
    PROVE  /\ SumFunction(HeldAmounts(v)) \in Int
           /\ SumFunction(RefundAmounts(v)) \in Int
           /\ wallet[v].available \in Int /\ wallet[v].reserved \in Int
           /\ wallet[v].reserved = SumFunction(HeldAmounts(v)) + SumFunction(RefundAmounts(v))
<1>1. HeldType /\ IsFiniteSet(Holding(v)) /\ IsFiniteSet(Refunding(v))
  BY AmountsHeld DEF BooksInv, Books, HoldInv, HoldersFinite
<1>2. SumFunction(HeldAmounts(v)) \in Int /\ SumFunction(RefundAmounts(v)) \in Int
  BY <1>1, SumIsInteger DEF HeldType
<1>3. wallet[v].available \in 0..MaxMinor /\ wallet[v].reserved \in 0..MaxMinor /\ MaxMinor \in Nat
  BY AmountsAssumption DEF BooksInv, HoldInv, TypeInv, TypeOK
<1>4. wallet[v].available \in Int /\ wallet[v].reserved \in Int
  BY <1>3
<1>5. QED
  BY <1>2, <1>4 DEF BooksInv, Books, ReservedIsBacked

-----------------------------------------------------------------------------
(* One operation at a time *)

\* No rows post nothing.
LEMMA PostsNothing ==
    ASSUME NEW w, NEW of
    PROVE  Posts({}, w, of, 0, 0)
<1>1. ASSUME NEW x PROVE EntriesOf(x, {}) = {} /\ EntriesAbout(x, {}) = {}
  BY DEF EntriesOf, EntriesAbout
<1>2. Summable({})
  BY FS_EmptySet DEF Summable
<1>3. QED
  BY <1>1, <1>2, TotalNone DEF Posts

\* Two lots of rows on account of the same subject.
LEMMA PostsBoth ==
    ASSUME NEW A, NEW B, A \cap B = {}, NEW w, NEW of,
           NEW a \in Int, NEW b \in Int, NEW c \in Int, NEW d \in Int,
           Posts(A, w, of, a, b), Posts(B, w, of, c, d)
    PROVE  Posts(A \cup B, w, of, a + c, b + d)
<1>1. Summable(A) /\ Summable(B) /\ Summable(A \cup B)
  BY SummableUnion DEF Posts
<1>2. ASSUME NEW x, NEW delta \in [LedgerRow -> Int]
      PROVE  /\ Total(delta, EntriesOf(x, A \cup B)) =
                  Total(delta, EntriesOf(x, A)) + Total(delta, EntriesOf(x, B))
             /\ Total(delta, EntriesAbout(x, A \cup B)) =
                  Total(delta, EntriesAbout(x, A)) + Total(delta, EntriesAbout(x, B))
  <2>1. /\ EntriesOf(x, A \cup B) = EntriesOf(x, A) \cup EntriesOf(x, B)
        /\ EntriesOf(x, A) \cap EntriesOf(x, B) = {}
        /\ EntriesAbout(x, A \cup B) = EntriesAbout(x, A) \cup EntriesAbout(x, B)
        /\ EntriesAbout(x, A) \cap EntriesAbout(x, B) = {}
    BY DEF EntriesOf, EntriesAbout
  <2>2. /\ Summable(EntriesOf(x, A)) /\ Summable(EntriesOf(x, B))
        /\ Summable(EntriesAbout(x, A)) /\ Summable(EntriesAbout(x, B))
    BY <1>1, SummableParts DEF EntriesOf, EntriesAbout
  <2>3. Total(delta, EntriesOf(x, A \cup B)) =
          Total(delta, EntriesOf(x, A)) + Total(delta, EntriesOf(x, B))
    BY <2>1, <2>2, TotalUnion, SMTT(60)
  <2>4. Total(delta, EntriesAbout(x, A \cup B)) =
          Total(delta, EntriesAbout(x, A)) + Total(delta, EntriesAbout(x, B))
    <3>1. PICK P, Q : P = EntriesAbout(x, A) /\ Q = EntriesAbout(x, B)
      OBVIOUS
    <3>2. Total(delta, P \cup Q) = Total(delta, P) + Total(delta, Q)
      BY <2>1, <2>2, <3>1, TotalUnion
    <3>3. QED
      BY <2>1, <3>1, <3>2
  <2>5. QED
    BY <2>3, <2>4
<1>3. ASSUME NEW x
      PROVE  /\ Total(AvailableDelta, EntriesOf(x, A \cup B)) = IF x = w THEN a + c ELSE 0
             /\ Total(ReservedDelta, EntriesOf(x, A \cup B)) = IF x = w THEN b + d ELSE 0
             /\ Total(AvailableDelta, EntriesAbout(x, A \cup B)) = IF x = of THEN a + c ELSE 0
             /\ Total(ReservedDelta, EntriesAbout(x, A \cup B)) = IF x = of THEN b + d ELSE 0
  <2>1. /\ Total(AvailableDelta, EntriesOf(x, A \cup B)) =
             Total(AvailableDelta, EntriesOf(x, A)) + Total(AvailableDelta, EntriesOf(x, B))
        /\ Total(AvailableDelta, EntriesAbout(x, A \cup B)) =
             Total(AvailableDelta, EntriesAbout(x, A)) + Total(AvailableDelta, EntriesAbout(x, B))
    BY <1>2, DeltaType
  <2>2. /\ Total(ReservedDelta, EntriesOf(x, A \cup B)) =
             Total(ReservedDelta, EntriesOf(x, A)) + Total(ReservedDelta, EntriesOf(x, B))
        /\ Total(ReservedDelta, EntriesAbout(x, A \cup B)) =
             Total(ReservedDelta, EntriesAbout(x, A)) + Total(ReservedDelta, EntriesAbout(x, B))
    BY <1>2, DeltaType
  <2>3. /\ Total(AvailableDelta, EntriesOf(x, A)) = IF x = w THEN a ELSE 0
        /\ Total(ReservedDelta, EntriesOf(x, A)) = IF x = w THEN b ELSE 0
        /\ Total(AvailableDelta, EntriesAbout(x, A)) = IF x = of THEN a ELSE 0
        /\ Total(ReservedDelta, EntriesAbout(x, A)) = IF x = of THEN b ELSE 0
    BY DEF Posts
  <2>4. /\ Total(AvailableDelta, EntriesOf(x, B)) = IF x = w THEN c ELSE 0
        /\ Total(ReservedDelta, EntriesOf(x, B)) = IF x = w THEN d ELSE 0
        /\ Total(AvailableDelta, EntriesAbout(x, B)) = IF x = of THEN c ELSE 0
        /\ Total(ReservedDelta, EntriesAbout(x, B)) = IF x = of THEN d ELSE 0
    BY DEF Posts
  <2>5. QED
    BY <2>1, <2>2, <2>3, <2>4
<1>4. QED
  BY <1>1, <1>3 DEF Posts

\* A transaction about one request or order: its rows, its balances and its
\* holds move together.
LEMMA EntriesBooks ==
    ASSUME BooksInv, NEW w \in Wallets, NEW of \in Requests \cup Orders,
           NEW a \in Int, NEW b \in Int,
           NEW rows, Posts(rows, w, of, a, b), insertLedger(rows),
           \A row \in rows : row.of = of,
           \A v \in Wallets :
             /\ wallet'[v].available = wallet[v].available + IF v = w THEN a ELSE 0
             /\ wallet'[v].reserved = wallet[v].reserved + IF v = w THEN b ELSE 0
             /\ IsFiniteSet(Holding(v)') /\ IsFiniteSet(Refunding(v)')
             /\ SumFunction(HeldAmounts(v))' + SumFunction(RefundAmounts(v))' =
                  SumFunction(HeldAmounts(v)) + SumFunction(RefundAmounts(v))
                    + IF v = w THEN b ELSE 0,
           liability' = liability,
           ChargedExactlyOnce'
    PROVE  Books'
<1>1. Summable(rows) /\ Summable(ledger)
  BY DEF Posts, BooksInv, Books
<1>2. Summable(ledger')
  BY <1>1, Posting
<1>3. LedgerRebuildsBalance'
  <2>1. ASSUME NEW v \in Wallets
        PROVE  /\ wallet'[v].available =
                    wallet[v].available + Total(AvailableDelta, EntriesOf(v, rows))
               /\ wallet'[v].reserved =
                    wallet[v].reserved + Total(ReservedDelta, EntriesOf(v, rows))
    BY DEF Posts
  <2>2. QED
    BY <1>1, <2>1, BalanceKept DEF BooksInv, Books
<1>4. RefsUnique' /\ PostedRefs' /\ RecoveryIsPosted'
  <2>1. ASSUME NEW row \in rows PROVE row.of \notin References
    BY IdsAssumption
  <2>2. QED
    BY <1>1, <2>1, LiabilitiesKept
<1>5. HoldersFinite'
  BY DEF HoldersFinite
<1>6. ReservedIsBacked'
  <2>1. ASSUME NEW v \in Wallets
        PROVE  wallet'[v].reserved = SumFunction(HeldAmounts(v))' + SumFunction(RefundAmounts(v))'
    BY SumsHeld
  <2>2. QED
    BY <2>1 DEF ReservedIsBacked
<1>7. QED
  BY <1>2, <1>3, <1>4, <1>5, <1>6 DEF Books

\* The same for a transaction with one row that charges nothing.
LEMMA OneEntryBooks ==
    ASSUME BooksInv, NEW w \in Wallets, NEW type \in EntryTypes,
           NEW of \in Requests \cup Orders, NEW a \in Int, NEW b \in Int,
           of \in Requests => a + b = 0,
           insertLedger({Row(w, type, of, a, b)}),
           \A v \in Wallets :
             /\ wallet'[v].available = wallet[v].available + IF v = w THEN a ELSE 0
             /\ wallet'[v].reserved = wallet[v].reserved + IF v = w THEN b ELSE 0
             /\ IsFiniteSet(Holding(v)') /\ IsFiniteSet(Refunding(v)')
             /\ SumFunction(HeldAmounts(v))' + SumFunction(RefundAmounts(v))' =
                  SumFunction(HeldAmounts(v)) + SumFunction(RefundAmounts(v))
                    + IF v = w THEN b ELSE 0,
           settlement' = settlement, liability' = liability
    PROVE  Books'
<1>1. PICK row : row = Row(w, type, of, a, b)
  OBVIOUS
<1>2. of \in Subjects
  BY DEF Subjects
<1>3. Posts({row}, w, of, a, b) /\ row.of = of
  BY <1>1, <1>2, OneEntry DEF Row
<1>4. ChargedExactlyOnce'
  <2>1. ASSUME NEW q \in Requests
        PROVE  Total(AvailableDelta, EntriesAbout(q, {row}))
                 + Total(ReservedDelta, EntriesAbout(q, {row})) = 0
    <3>1. /\ Total(AvailableDelta, EntriesAbout(q, {row})) = IF q = of THEN a ELSE 0
          /\ Total(ReservedDelta, EntriesAbout(q, {row})) = IF q = of THEN b ELSE 0
      BY <1>3 DEF Posts
    <3>2. QED
      BY <3>1
  <2>2. Summable({row})
    BY <1>3 DEF Posts
  <2>3. QED
    BY <1>1, <2>1, <2>2, ChargesKept
<1>5. insertLedger({row}) /\ \A new \in {row} : new.of = of
  BY <1>1, <1>3
<1>6. QED
  BY <1>3, <1>4, <1>5, EntriesBooks

\* Reserve moves the amount from available to reserved.
LEMMA ReserveBooks ==
    ASSUME BooksInv, NEW r \in Requests, NEW w \in Wallets, NEW amount \in Amounts,
           Reserve(r, w, amount)
    PROVE  Books'
<1>1. amount \in 1..MaxMinor /\ MaxMinor \in Nat
  BY AmountsAssumption
<1>2. /\ amount \in Int /\ -amount \in Int /\ -amount + amount = 0
      /\ "reservation" \in EntryTypes
  BY <1>1 DEF EntryTypes
<1>3. /\ settlement' = settlement /\ liability' = liability /\ order' = order
      /\ reservation[r] = NoRow
      /\ reservation' = [reservation EXCEPT ![r] =
            [status |-> "reserved", wallet |-> w, amount |-> amount]]
      /\ insertLedger({Row(w, "reservation", r, -amount, amount)})
  BY DEF Reserve
<1>4. ASSUME NEW v \in Wallets
      PROVE  /\ wallet'[v].available = wallet[v].available + IF v = w THEN -amount ELSE 0
             /\ wallet'[v].reserved = wallet[v].reserved + IF v = w THEN amount ELSE 0
  <2>1. /\ wallet'[w].available = wallet[w].available - amount
        /\ wallet'[w].reserved = wallet[w].reserved + amount
        /\ v # w => wallet'[v] = wallet[v]
    BY DEF Reserve, BooksInv, HoldInv, TypeInv, TypeOK
  <2>2. QED
    BY <1>2, <2>1, SumsHeld
<1>5. ASSUME NEW v \in Wallets
      PROVE  /\ IsFiniteSet(Holding(v)') /\ IsFiniteSet(Refunding(v)')
             /\ SumFunction(HeldAmounts(v))' + SumFunction(RefundAmounts(v))' =
                  SumFunction(HeldAmounts(v)) + SumFunction(RefundAmounts(v))
                    + IF v = w THEN amount ELSE 0
  <2>1. /\ IsFiniteSet(Holding(v)')
        /\ SumFunction(HeldAmounts(v))' =
             SumFunction(HeldAmounts(v)) + IF v = w THEN amount ELSE 0
    BY <1>3, HoldOneMore DEF BooksInv, Books, HoldInv
  <2>2. /\ IsFiniteSet(Refunding(v)')
        /\ SumFunction(RefundAmounts(v))' = SumFunction(RefundAmounts(v))
    BY <1>3, HoldersKept
  <2>3. QED
    BY <1>2, <2>1, <2>2, SumsHeld
<1>6. QED
  BY <1>2, <1>3, <1>4, <1>5, OneEntryBooks

\* Release moves it back.
LEMMA ReleaseBooks ==
    ASSUME BooksInv, TypeInv', NEW r \in Requests, Release(r)
    PROVE  Books'
<1>1. reservation[r] \in ReservationRow
  BY DEF Release, Releasable, BooksInv, HoldInv, TypeInv, TypeOK, NoRow
<1>2. PICK w \in Wallets, amount \in 1..MaxMinor :
         w = reservation[r].wallet /\ amount = reservation[r].amount
  <2>1. reservation[r].wallet \in Wallets /\ reservation[r].amount \in 1..MaxMinor /\ MaxMinor \in Nat
    BY <1>1, AmountsAssumption DEF ReservationRow
  <2>2. QED
    BY <2>1
<1>3. /\ amount \in Int /\ -amount \in Int /\ amount + (-amount) = 0
      /\ "release" \in EntryTypes
  BY AmountsAssumption DEF EntryTypes
<1>4. /\ settlement' = settlement /\ liability' = liability /\ order' = order
      /\ reservation[r].status \in {"reserved", "settlement_pending"}
      /\ reservation' = [reservation EXCEPT ![r].status = "released"]
      /\ insertLedger({Row(w, "release", r, amount, -amount)})
  BY <1>2 DEF Release, Releasable
<1>5. ASSUME NEW v \in Wallets
      PROVE  /\ wallet'[v].available = wallet[v].available + IF v = w THEN amount ELSE 0
             /\ wallet'[v].reserved = wallet[v].reserved + IF v = w THEN -amount ELSE 0
  <2>1. /\ wallet'[w].available = wallet[w].available + amount
        /\ wallet'[w].reserved = wallet[w].reserved - amount
        /\ v # w => wallet'[v] = wallet[v]
    BY <1>2 DEF Release, BooksInv, HoldInv, TypeInv, TypeOK
  <2>2. QED
    BY <1>3, <2>1, SumsHeld
<1>6. ASSUME NEW v \in Wallets
      PROVE  /\ IsFiniteSet(Holding(v)') /\ IsFiniteSet(Refunding(v)')
             /\ SumFunction(HeldAmounts(v))' + SumFunction(RefundAmounts(v))' =
                  SumFunction(HeldAmounts(v)) + SumFunction(RefundAmounts(v))
                    + IF v = w THEN -amount ELSE 0
  <2>1. /\ IsFiniteSet(Holding(v)')
        /\ SumFunction(HeldAmounts(v))' =
             SumFunction(HeldAmounts(v)) - IF v = w THEN amount ELSE 0
    <3>1. TypeInv /\ HoldersFinite
      BY DEF BooksInv, Books, HoldInv
    <3>2. /\ reservation'[r].status \notin {"reserved", "settlement_pending"}
          /\ \A q \in Requests \ {r} : reservation'[q] = reservation[q]
      BY <1>1, <1>4 DEF BooksInv, HoldInv, TypeInv, TypeOK
    <3>3. QED
      BY <1>2, <1>4, <3>1, <3>2, HoldOneLess
  <2>2. /\ IsFiniteSet(Refunding(v)')
        /\ SumFunction(RefundAmounts(v))' = SumFunction(RefundAmounts(v))
    BY <1>4, HoldersKept
  <2>3. QED
    BY <1>3, <2>1, <2>2, SumsHeld
<1>7. QED
  BY <1>3, <1>4, <1>5, <1>6, OneEntryBooks

\* A refund in progress holds the amount of its order.
LEMMA HoldRefundBooks ==
    ASSUME BooksInv, NEW o \in Orders, HoldRefund(o)
    PROVE  Books'
<1>1. PICK w \in Wallets, amount \in 1..MaxMinor :
         w = order[o].wallet /\ amount = order[o].amount
  BY RefundOrder DEF HoldRefund, BooksInv, HoldInv
<1>2. /\ amount \in Int /\ -amount \in Int /\ o \notin Requests
      /\ "payment_refund_hold" \in EntryTypes
  BY AmountsAssumption, IdsAssumption DEF EntryTypes
<1>3. /\ settlement' = settlement /\ liability' = liability /\ reservation' = reservation
      /\ order[o].status = "paid"
      /\ order' = [order EXCEPT ![o].status = "refund_pending"]
      /\ insertLedger({Row(w, "payment_refund_hold", o, -amount, amount)})
  BY <1>1 DEF HoldRefund, HoldPaymentRefundInTx
<1>4. ASSUME NEW v \in Wallets
      PROVE  /\ wallet'[v].available = wallet[v].available + IF v = w THEN -amount ELSE 0
             /\ wallet'[v].reserved = wallet[v].reserved + IF v = w THEN amount ELSE 0
  <2>1. /\ wallet'[w].available = wallet[w].available - amount
        /\ wallet'[w].reserved = wallet[w].reserved + amount
        /\ v # w => wallet'[v] = wallet[v]
    BY <1>1 DEF HoldRefund, HoldPaymentRefundInTx, BooksInv, HoldInv, TypeInv, TypeOK
  <2>2. QED
    BY <1>2, <2>1, SumsHeld
<1>5. ASSUME NEW v \in Wallets
      PROVE  /\ IsFiniteSet(Holding(v)') /\ IsFiniteSet(Refunding(v)')
             /\ SumFunction(HeldAmounts(v))' + SumFunction(RefundAmounts(v))' =
                  SumFunction(HeldAmounts(v)) + SumFunction(RefundAmounts(v))
                    + IF v = w THEN amount ELSE 0
  <2>1. /\ IsFiniteSet(Holding(v)')
        /\ SumFunction(HeldAmounts(v))' = SumFunction(HeldAmounts(v))
    BY <1>3, HoldersKept
  <2>2. /\ IsFiniteSet(Refunding(v)')
        /\ SumFunction(RefundAmounts(v))' =
             SumFunction(RefundAmounts(v)) + IF v = w THEN amount ELSE 0
    BY <1>1, <1>3, RefundOneMore DEF BooksInv, Books, HoldInv
  <2>3. QED
    BY <1>2, <2>1, <2>2, SumsHeld
<1>6. QED
  BY <1>2, <1>3, <1>4, <1>5, OneEntryBooks

\* A refund that ends gives the amount away or back.
LEMMA EndRefundBooks ==
    ASSUME BooksInv, TypeInv', NEW o \in Orders, CompleteRefund(o) \/ ReleaseRefund(o)
    PROVE  Books'
<1>1. PICK w \in Wallets, amount \in 1..MaxMinor :
         w = order[o].wallet /\ amount = order[o].amount
  BY RefundOrder DEF CompleteRefund, ReleaseRefund, BooksInv, HoldInv
<1>2. amount \in Int /\ -amount \in Int /\ o \notin Requests /\ o \in Requests \cup Orders
  BY AmountsAssumption, IdsAssumption
<1>3. /\ settlement' = settlement /\ liability' = liability /\ reservation' = reservation
      /\ order[o].status = "refund_pending"
  BY DEF CompleteRefund, ReleaseRefund
<1>4. PICK type \in EntryTypes, status \in {"refunded", "refund_failed"}, back \in Int :
        /\ order' = [order EXCEPT ![o].status = status]
        /\ insertLedger({Row(w, type, o, back, -amount)})
        /\ wallet'[w].available = wallet[w].available + back
        /\ wallet'[w].reserved = wallet[w].reserved - amount
        /\ \A v \in Wallets \ {w} : wallet'[v] = wallet[v]
  <2>1. CASE CompleteRefund(o)
    <3>1. /\ order' = [order EXCEPT ![o].status = "refunded"]
          /\ insertLedger({Row(w, "payment_reversal", o, 0, -amount)})
          /\ wallet'[w].available = wallet[w].available
          /\ wallet'[w].reserved = wallet[w].reserved - amount
          /\ \A v \in Wallets \ {w} : wallet'[v] = wallet[v]
      BY <1>1, <2>1
         DEF CompleteRefund, CompletePaymentRefundInTx, BooksInv, HoldInv, TypeInv, TypeOK
    <3>2. wallet'[w].available = wallet[w].available + 0
      BY <3>1, SumsHeld
    <3>3. "payment_reversal" \in EntryTypes /\ 0 \in Int
      BY DEF EntryTypes
    <3>4. QED
      BY <3>1, <3>2, <3>3
  <2>2. CASE ReleaseRefund(o)
    <3>1. /\ order' = [order EXCEPT ![o].status = "refund_failed"]
          /\ insertLedger({Row(w, "payment_refund_release", o, amount, -amount)})
          /\ wallet'[w].available = wallet[w].available + amount
          /\ wallet'[w].reserved = wallet[w].reserved - amount
          /\ \A v \in Wallets \ {w} : wallet'[v] = wallet[v]
      BY <1>1, <2>2
         DEF ReleaseRefund, ReleasePaymentRefundInTx, BooksInv, HoldInv, TypeInv, TypeOK
    <3>2. QED
      BY <1>2, <3>1 DEF EntryTypes
  <2>3. QED
    BY <2>1, <2>2
<1>5. ASSUME NEW v \in Wallets
      PROVE  /\ wallet'[v].available = wallet[v].available + IF v = w THEN back ELSE 0
             /\ wallet'[v].reserved = wallet[v].reserved + IF v = w THEN -amount ELSE 0
  <2>1. v # w => wallet'[v] = wallet[v]
    BY <1>4
  <2>2. QED
    BY <1>2, <1>4, <2>1, SumsHeld
<1>6. ASSUME NEW v \in Wallets
      PROVE  /\ IsFiniteSet(Holding(v)') /\ IsFiniteSet(Refunding(v)')
             /\ SumFunction(HeldAmounts(v))' + SumFunction(RefundAmounts(v))' =
                  SumFunction(HeldAmounts(v)) + SumFunction(RefundAmounts(v))
                    + IF v = w THEN -amount ELSE 0
  <2>1. /\ IsFiniteSet(Holding(v)')
        /\ SumFunction(HeldAmounts(v))' = SumFunction(HeldAmounts(v))
    BY <1>3, HoldersKept
  <2>2. /\ IsFiniteSet(Refunding(v)')
        /\ SumFunction(RefundAmounts(v))' =
             SumFunction(RefundAmounts(v)) - IF v = w THEN amount ELSE 0
    <3>1. TypeInv /\ HoldersFinite
      BY DEF BooksInv, Books, HoldInv
    <3>2. /\ order'[o].status # "refund_pending"
          /\ \A q \in Orders \ {o} : order'[q] = order[q]
      <4>1. /\ order[o] \in OrderRow
            /\ order \in [Orders -> OrderRow \cup {NoRow}]
        BY <1>3, RefundOrder DEF BooksInv, HoldInv, TypeInv, TypeOK
      <4>2. order'[o].status = status /\ \A q \in Orders \ {o} : order'[q] = order[q]
        BY <1>4, <4>1 DEF OrderRow
      <4>3. QED
        BY <4>2
    <3>3. QED
      BY <1>1, <1>3, <3>1, <3>2, RefundOneLess
  <2>3. QED
    BY <1>2, <2>1, <2>2, SumsHeld
<1>7. QED
  BY <1>2, <1>3, <1>4, <1>5, <1>6, OneEntryBooks

\* Settle takes the extra, charges the actual amount and returns the unused:
\* its rows about the request add up to minus the charge.
LEMMA SettleBooks ==
    ASSUME BooksInv, TypeInv', NEW r \in Requests, NEW actual \in Amounts \cup {0},
           Settle(r, actual)
    PROVE  Books'
<1>1. /\ Settleable(r, actual)
      /\ reservation[r].status \in {"reserved", "settlement_pending"}
      /\ settlement[r].status # "settled"
  BY DEF Settle, Settleable, NoRow
<1>2. PICK w \in Wallets, amount \in 1..MaxMinor :
         w = reservation[r].wallet /\ amount = reservation[r].amount
  BY <1>1, SettleableReservation DEF BooksInv, HoldInv
<1>3. actual \in Nat /\ amount \in Nat
  BY AmountsAssumption
<1>4. PICK extra \in Int, unused \in Int :
        /\ extra = Extra(r, actual) /\ unused = Unused(r, actual)
        /\ extra - unused = actual - amount
        /\ actual = 0 => extra = 0 /\ unused = amount
  BY <1>2, <1>3 DEF Extra, Unused, Least
<1>5. PICK charge, rest :
        /\ charge = Row(w, "usage_charge", r, -extra, unused - amount)
        /\ rest = Row(w, "settlement_release", r, unused, -unused)
        /\ charge = UsageCharge(r, actual) /\ rest = UnusedRelease(r, actual)
  BY <1>2, <1>4 DEF UsageCharge, UnusedRelease
<1>6. /\ Posts({charge}, w, r, -extra, unused - amount)
      /\ Posts({rest}, w, r, unused, -unused)
  <2>1. r \in Subjects /\ "usage_charge" \in EntryTypes /\ "settlement_release" \in EntryTypes
    BY DEF Subjects, EntryTypes
  <2>2. -extra \in Int /\ unused - amount \in Int /\ -unused \in Int
    BY <1>3
  <2>3. QED
    BY <1>5, <2>1, <2>2, OneEntry
<1>7. PICK A, B : /\ A = (IF actual > 0 THEN {charge} ELSE {})
                  /\ B = (IF unused > 0 THEN {rest} ELSE {})
                  /\ SettleRows(r, actual) = A \cup B
  BY <1>4, <1>5 DEF SettleRows
<1>8. Posts(A, w, r, -extra, unused - amount)
  <2>1. CASE actual > 0
    BY <1>6, <1>7, <2>1
  <2>2. CASE ~(actual > 0)
    <3>1. A = {} /\ -extra = 0 /\ unused - amount = 0
      BY <1>3, <1>4, <1>7, <2>2
    <3>2. QED
      BY <3>1, PostsNothing
  <2>3. QED
    BY <2>1, <2>2
<1>9. Posts(B, w, r, unused, -unused)
  <2>1. CASE unused > 0
    BY <1>6, <1>7, <2>1
  <2>2. CASE ~(unused > 0)
    <3>1. unused = 0
      BY <1>2, <1>3, <1>4, <2>2 DEF Unused, Least
    <3>2. B = {}
      BY <1>7, <2>2
    <3>3. PICK d \in Int : d = -unused /\ d = 0
      BY <3>1
    <3>4. QED
      BY <3>1, <3>2, <3>3, PostsNothing
  <2>3. QED
    BY <2>1, <2>2
<1>10. Posts(A \cup B, w, r, unused - extra, -amount)
  <2>1. A \cap B = {}
    BY <1>5, <1>7 DEF Row
  <2>2. PICK a \in Int, b \in Int, d \in Int : a = -extra /\ b = unused - amount /\ d = -unused
    BY <1>3
  <2>3. Posts(A \cup B, w, r, a + unused, b + d)
    BY <1>8, <1>9, <2>1, <2>2, PostsBoth
  <2>4. a + unused = unused - extra /\ b + d = -amount
    BY <1>3, <2>2
  <2>5. QED
    BY <2>3, <2>4
<1>11. PICK a \in Int, b \in Int :
         a = unused - extra /\ b = -amount /\ a + b = -actual
  BY <1>3, <1>4
<1>12. /\ Posts(A \cup B, w, r, a, b)
       /\ insertLedger(A \cup B)
       /\ \A row \in A \cup B : row.of = r
       /\ liability' = liability /\ order' = order
  BY <1>5, <1>7, <1>10, <1>11 DEF Settle, Row
<1>13. ASSUME NEW v \in Wallets
       PROVE  /\ wallet'[v].available = wallet[v].available + IF v = w THEN a ELSE 0
              /\ wallet'[v].reserved = wallet[v].reserved + IF v = w THEN b ELSE 0
  <2>1. /\ wallet'[w].available = wallet[w].available - extra + unused
        /\ wallet'[w].reserved = wallet[w].reserved - amount
        /\ v # w => wallet'[v] = wallet[v]
    BY <1>2, <1>4 DEF Settle, ReservedAfterSettle, BooksInv, HoldInv, TypeInv, TypeOK
  <2>2. QED
    BY <1>3, <1>11, <2>1, SumsHeld
<1>14. /\ reservation'[r].status = "settled"
       /\ \A q \in Requests \ {r} : reservation'[q] = reservation[q] /\ settlement'[q] = settlement[q]
       /\ settlement'[r] = [status |-> "settled", actual |-> actual]
  BY DEF Settle, BooksInv, HoldInv, TypeInv, TypeOK
<1>15. ASSUME NEW v \in Wallets
       PROVE  /\ IsFiniteSet(Holding(v)') /\ IsFiniteSet(Refunding(v)')
              /\ SumFunction(HeldAmounts(v))' + SumFunction(RefundAmounts(v))' =
                   SumFunction(HeldAmounts(v)) + SumFunction(RefundAmounts(v))
                     + IF v = w THEN b ELSE 0
  <2>1. /\ IsFiniteSet(Holding(v)')
        /\ SumFunction(HeldAmounts(v))' =
             SumFunction(HeldAmounts(v)) - IF v = w THEN amount ELSE 0
    <3>1. TypeInv /\ HoldersFinite
      BY DEF BooksInv, Books, HoldInv
    <3>2. /\ reservation'[r].status \notin {"reserved", "settlement_pending"}
          /\ \A q \in Requests \ {r} : reservation'[q] = reservation[q]
      BY <1>14
    <3>3. QED
      BY <1>1, <1>2, <3>1, <3>2, HoldOneLess
  <2>2. /\ IsFiniteSet(Refunding(v)')
        /\ SumFunction(RefundAmounts(v))' = SumFunction(RefundAmounts(v))
    BY <1>12, HoldersKept
  <2>3. QED
    BY <1>3, <1>11, <2>1, <2>2, SumsHeld
<1>16. ChargedExactlyOnce'
  <2>1. Summable(A \cup B) /\ Summable(ledger)
    BY <1>12 DEF Posts, BooksInv, Books
  <2>2. ASSUME NEW q \in Requests
        PROVE  Total(AvailableDelta, EntriesAbout(q, ledger'))
                 + Total(ReservedDelta, EntriesAbout(q, ledger')) =
               IF settlement'[q].status = "settled" THEN -settlement'[q].actual ELSE 0
    <3>1. /\ Total(AvailableDelta, EntriesAbout(q, ledger)) \in Int
          /\ Total(AvailableDelta, EntriesAbout(q, ledger')) =
               Total(AvailableDelta, EntriesAbout(q, ledger))
                 + Total(AvailableDelta, EntriesAbout(q, A \cup B))
      BY <1>12, <2>1, PostingTotals, DeltaType
    <3>2. /\ Total(ReservedDelta, EntriesAbout(q, ledger)) \in Int
          /\ Total(ReservedDelta, EntriesAbout(q, ledger')) =
               Total(ReservedDelta, EntriesAbout(q, ledger))
                 + Total(ReservedDelta, EntriesAbout(q, A \cup B))
      BY <1>12, <2>1, PostingTotals, DeltaType
    <3>3. /\ Total(AvailableDelta, EntriesAbout(q, A \cup B)) = IF q = r THEN a ELSE 0
          /\ Total(ReservedDelta, EntriesAbout(q, A \cup B)) = IF q = r THEN b ELSE 0
      BY <1>12 DEF Posts
    <3>4. Total(AvailableDelta, EntriesAbout(q, ledger))
            + Total(ReservedDelta, EntriesAbout(q, ledger)) =
          IF settlement[q].status = "settled" THEN -settlement[q].actual ELSE 0
      BY DEF BooksInv, Books, ChargedExactlyOnce
    <3>5. CASE q = r
      <4>1. settlement'[q].status = "settled" /\ settlement'[q].actual = actual
        BY <1>14, <3>5
      <4>2. /\ Total(AvailableDelta, EntriesAbout(q, A \cup B)) = a
            /\ Total(ReservedDelta, EntriesAbout(q, A \cup B)) = b
            /\ Total(AvailableDelta, EntriesAbout(q, ledger))
                 + Total(ReservedDelta, EntriesAbout(q, ledger)) = 0
        BY <1>1, <3>3, <3>4, <3>5
      <4>3. Total(AvailableDelta, EntriesAbout(q, ledger'))
              + Total(ReservedDelta, EntriesAbout(q, ledger')) = a + b
        BY <3>1, <3>2, <4>2
      <4>4. QED
        BY <1>11, <4>1, <4>3
    <3>6. CASE q # r
      BY <1>14, <3>1, <3>2, <3>3, <3>4, <3>6
    <3>7. QED
      BY <3>5, <3>6
  <2>3. QED
    BY <2>2 DEF ChargedExactlyOnce
<1>17. QED
  BY <1>12, <1>13, <1>15, <1>16, EntriesBooks

\* A settlement the wallet cannot pay yet posts nothing: the reservation stays
\* held and the request uncharged.
LEMMA SettlePendingBooks ==
    ASSUME BooksInv, TypeInv', NEW r \in Requests, NEW actual \in Amounts \cup {0},
           SettlePending(r, actual)
    PROVE  Books'
<1>1. /\ Settleable(r, actual)
      /\ reservation[r].status \in {"reserved", "settlement_pending"}
      /\ settlement[r].status # "settled"
      /\ liability' = liability /\ order' = order /\ ledger' = ledger
  BY DEF SettlePending, Settleable, NoRow
<1>2. reservation[r] \in ReservationRow /\ reservation[r].wallet \in Wallets
  BY <1>1, SettleableReservation DEF BooksInv, HoldInv
<1>3. /\ reservation'[r].status = "settlement_pending"
      /\ reservation'[r].wallet = reservation[r].wallet
      /\ reservation'[r].amount = reservation[r].amount
      /\ settlement'[r].status = "pending"
      /\ \A q \in Requests \ {r} : reservation'[q] = reservation[q] /\ settlement'[q] = settlement[q]
  BY <1>2 DEF SettlePending, BooksInv, HoldInv, TypeInv, TypeOK, ReservationRow
<1>4. ASSUME NEW v \in Wallets
      PROVE  /\ wallet'[v].available = wallet[v].available
             /\ wallet'[v].reserved = wallet[v].reserved
  BY <1>2 DEF SettlePending, BooksInv, HoldInv, TypeInv, TypeOK
<1>5. ASSUME NEW v \in Wallets
      PROVE  /\ IsFiniteSet(Holding(v)') /\ IsFiniteSet(Refunding(v)')
             /\ SumFunction(HeldAmounts(v))' = SumFunction(HeldAmounts(v))
             /\ SumFunction(RefundAmounts(v))' = SumFunction(RefundAmounts(v))
  <2>1. Holding(v)' = Holding(v)
    BY <1>1, <1>3 DEF Holding
  <2>2. HeldAmounts(v)' = HeldAmounts(v)
    BY <1>3, <2>1 DEF HeldAmounts, Holding
  <2>3. /\ IsFiniteSet(Refunding(v)')
        /\ SumFunction(RefundAmounts(v))' = SumFunction(RefundAmounts(v))
    BY <1>1, HoldersKept
  <2>4. IsFiniteSet(Holding(v))
    BY DEF BooksInv, Books, HoldersFinite
  <2>5. QED
    BY <2>1, <2>2, <2>3, <2>4
<1>6. HoldersFinite' /\ ReservedIsBacked'
  BY <1>4, <1>5, SumsHeld DEF HoldersFinite, ReservedIsBacked
<1>7. RefsUnique' /\ PostedRefs' /\ RecoveryIsPosted' /\ Summable(ledger')
  BY <1>1 DEF BooksInv, Books, RefsUnique, PostedRefs, NewReference, RecoveryIsPosted
<1>8. LedgerRebuildsBalance'
  BY <1>1, <1>4 DEF BooksInv, Books, LedgerRebuildsBalance
<1>9. ChargedExactlyOnce'
  <2>1. ASSUME NEW q \in Requests
        PROVE  (IF settlement'[q].status = "settled" THEN -settlement'[q].actual ELSE 0)
                 = IF settlement[q].status = "settled" THEN -settlement[q].actual ELSE 0
    <3>1. CASE q = r
      BY <1>1, <1>3, <3>1
    <3>2. CASE q # r
      BY <1>3, <3>2
    <3>3. QED
      BY <3>1, <3>2
  <2>2. QED
    BY <1>1, <2>1 DEF BooksInv, Books, ChargedExactlyOnce
<1>10. QED
  BY <1>6, <1>7, <1>8, <1>9 DEF Books

-----------------------------------------------------------------------------
(* Recoveries *)

\* The rows of the first k debts that were paid something.
Entries(e, left, k) == {e[i] : i \in {j \in 1..k : left[j] # left[j-1]}}

\* One possible row per debt, for what is left before and after paying it.
Payments(e, left, n) ==
    /\ e \in [1..n -> LedgerRow]
    /\ left \in [0..n -> Int]
    /\ \A i \in 1..n : e[i].available = left[i] - left[i-1] /\ e[i].reserved = 0
    /\ \A i, j \in 1..n : e[i].of = e[j].of => i = j

\* What the rows of a recovery take is what left the wallet: induction over
\* the number of debts.
LEMMA PaymentsTotal ==
    ASSUME NEW n \in Nat, NEW e, NEW left, Payments(e, left, n)
    PROVE  /\ Summable(Entries(e, left, n))
           /\ Total(AvailableDelta, Entries(e, left, n)) = left[n] - left[0]
<1> DEFINE Good(k) == /\ Summable(Entries(e, left, k))
                      /\ Total(AvailableDelta, Entries(e, left, k)) = left[k] - left[0]
           Bad == {k \in 0..n : ~Good(k)}
<1>1. SUFFICES ASSUME Bad # {} PROVE FALSE
  OBVIOUS
<1>2. PICK k \in Bad : \A m \in Bad : k <= m
  <2>1. PICK T : T = Bad
    OBVIOUS
  <2>2. T \subseteq Nat /\ T # {}
    BY <1>1, <2>1
  <2>3. QED
    BY <2>1, <2>2, LeastNumber
<1>3. CASE k = 0
  <2>1. Entries(e, left, 0) = {}
    BY DEF Entries
  <2>2. left[0] - left[0] = 0
    BY DEF Payments
  <2>3. Good(0)
    BY <2>1, <2>2, TotalNone, FS_EmptySet DEF Summable
  <2>4. QED
    BY <1>2, <1>3, <2>3
<1>4. CASE k # 0
  <2>1. PICK m \in 0..n : k = m + 1 /\ k \in 1..n /\ k - 1 = m
    BY <1>2, <1>4
  <2>2. Good(m)
    BY <1>2, <2>1
  <2>3. /\ left[k] \in Int /\ left[m] \in Int /\ left[0] \in Int
        /\ e[k] \in LedgerRow /\ e[k].available = left[k] - left[m]
    BY <2>1 DEF Payments
  <2>4. CASE left[k] = left[m]
    <3>1. Entries(e, left, k) = Entries(e, left, m)
      BY <2>1, <2>4 DEF Entries
    <3>2. QED
      BY <1>2, <2>2, <2>4, <3>1
  <2>5. CASE left[k] # left[m]
    <3>1. Entries(e, left, k) = Entries(e, left, m) \cup {e[k]}
      <4>1. {j \in 1..k : left[j] # left[j-1]} = {j \in 1..m : left[j] # left[j-1]} \cup {k}
        BY <2>1, <2>5
      <4>2. QED
        BY <4>1 DEF Entries
    <3>2. e[k] \notin Entries(e, left, m)
      <4>1. SUFFICES ASSUME NEW i \in 1..m, e[k] = e[i] PROVE FALSE
        BY DEF Entries
      <4>2. i \in 1..n /\ i # k /\ e[k].of = e[i].of
        BY <2>1, <4>1
      <4>3. QED
        BY <2>1, <4>2 DEF Payments
    <3>3. PICK S : S = Entries(e, left, m)
      OBVIOUS
    <3>4. PICK row \in LedgerRow : S = Entries(e, left, m) /\ row = e[k]
      BY <2>3, <3>3
    <3>5. Summable(S) /\ Summable({row}) /\ S \cap {row} = {}
      BY <2>2, <3>2, <3>4, SummableOne
    <3>6. Summable(S \cup {row})
      BY <3>5, SummableUnion
    <3>7. Total(AvailableDelta, S \cup {row}) =
            Total(AvailableDelta, S) + Total(AvailableDelta, {row})
      BY <3>5, TotalUnion, DeltaType
    <3>8. Total(AvailableDelta, {row}) = left[k] - left[m]
      BY <2>3, <3>4, TotalOne, DeltaType DEF AvailableDelta
    <3>9. Good(k)
      BY <2>2, <2>3, <3>1, <3>4, <3>6, <3>7, <3>8
    <3>10. QED
      BY <1>2, <3>9
  <2>6. QED
    BY <2>4, <2>5
<1>5. QED
  BY <1>3, <1>4

\* Rows that reserve nothing have a reserved total of zero.
LEMMA NothingReserved ==
    ASSUME NEW rows, Summable(rows), \A row \in rows : row.reserved = 0
    PROVE  Total(ReservedDelta, rows) = 0
BY SumOfZeros DEF Total, Summable, ReservedDelta

\* No two debts have the same reference.
Distinct(debts) ==
    \A i, j \in 1..Len(debts) : debts[i].ref = debts[j].ref => i = j

\* The reference has a debt.
Known(debts, ref) == \E i \in 1..Len(debts) : debts[i].ref = ref

\* The rows of a recovery: for every debt what was taken for it, together what
\* left the wallet, and nothing else.
RecoveryEntries(rows, w, debts, left) ==
    /\ Summable(rows)
    /\ Total(AvailableDelta, rows) = left[Len(debts)] - left[0]
    /\ \A row \in rows : /\ row.wallet = w /\ row.type = "liability_recovery"
                         /\ row.reserved = 0 /\ row.of \in References
                         /\ Known(debts, row.of)
    /\ \A i \in 1..Len(debts) :
         Total(AvailableDelta, EntriesAbout(debts[i].ref, rows)) = left[i] - left[i-1]

\* RecoveryRows are such rows.
LEMMA RecoveryTotals ==
    ASSUME NEW w \in Wallets, NEW debts \in Seq(LiabilityRow), Distinct(debts),
           NEW funds \in 0..MaxMinor, NEW left \in [0..Len(debts) -> 0..funds],
           NEW source \in Subjects, left[0] = funds,
           NEW rows, rows = RecoveryRows(w, debts, left, source)
    PROVE  RecoveryEntries(rows, w, debts, left)
<1>1. PICK n \in Nat : n = Len(debts)
  OBVIOUS
<1>2. funds \in Nat /\ left \in [0..n -> Int]
  BY <1>1, AmountsAssumption
<1>3. PICK e : e = [i \in 1..n |->
                      [wallet |-> w, type |-> "liability_recovery",
                       of |-> debts[i].ref, by |-> source,
                       available |-> left[i] - left[i-1], reserved |-> 0]]
  OBVIOUS
<1>4. ASSUME NEW i \in 1..n
      PROVE  /\ debts[i].ref \in References
             /\ left[i] - left[i-1] \in Int
             /\ e[i] = [wallet |-> w, type |-> "liability_recovery",
                        of |-> debts[i].ref, by |-> source,
                        available |-> left[i] - left[i-1], reserved |-> 0]
  <2>1. debts[i] \in LiabilityRow
    BY <1>1
  <2>2. left[i] \in Int /\ left[i-1] \in Int
    BY <1>2
  <2>3. QED
    BY <1>3, <2>1, <2>2, SMTT(60) DEF LiabilityRow
<1>5. ASSUME NEW i \in 1..n
      PROVE  /\ e[i] \in LedgerRow /\ e[i].wallet = w /\ e[i].of = debts[i].ref
             /\ e[i].type = "liability_recovery"
             /\ e[i].available = left[i] - left[i-1] /\ e[i].reserved = 0
  <2>1. PICK ref \in References, paid \in Int : ref = debts[i].ref /\ paid = left[i] - left[i-1]
    BY <1>4
  <2>2. e[i] = [wallet |-> w, type |-> "liability_recovery", of |-> ref, by |-> source,
                available |-> paid, reserved |-> 0]
    BY <1>4, <2>1
  <2>3. ref \in Subjects /\ "liability_recovery" \in EntryTypes
    BY DEF Subjects, EntryTypes
  <2>4. QED
    BY <2>1, <2>2, <2>3 DEF LedgerRow
<1>6. rows = Entries(e, left, n)
  BY <1>1, <1>4 DEF RecoveryRows, Entries
<1>7. Payments(e, left, n)
  <2>1. e \in [1..n -> LedgerRow]
    BY <1>3, <1>5
  <2>2. ASSUME NEW i \in 1..n, NEW j \in 1..n, e[i].of = e[j].of PROVE i = j
    BY <1>1, <1>5, <2>2 DEF Distinct
  <2>3. QED
    BY <1>2, <1>5, <2>1, <2>2 DEF Payments
<1>8. Summable(rows) /\ Total(AvailableDelta, rows) = left[n] - left[0]
  BY <1>6, <1>7, PaymentsTotal
<1>9. ASSUME NEW row \in rows
      PROVE  /\ row.wallet = w /\ row.type = "liability_recovery"
             /\ row.reserved = 0 /\ row.of \in References
             /\ Known(debts, row.of)
  <2>1. PICK i \in 1..n : row = e[i]
    BY <1>6 DEF Entries
  <2>2. QED
    BY <1>1, <1>4, <1>5, <2>1 DEF Known
<1>10. ASSUME NEW i \in 1..n
       PROVE  Total(AvailableDelta, EntriesAbout(debts[i].ref, rows)) = left[i] - left[i-1]
  <2>1. CASE left[i] = left[i-1]
    <3>1. EntriesAbout(debts[i].ref, rows) = {}
      BY <1>1, <1>5, <1>6, <2>1 DEF EntriesAbout, Entries, Distinct
    <3>2. left[i] - left[i-1] = 0
      BY <1>2, <2>1
    <3>3. QED
      BY <3>1, <3>2, TotalNone
  <2>2. CASE left[i] # left[i-1]
    <3>1. EntriesAbout(debts[i].ref, rows) = {e[i]}
      <4>1. e[i] \in EntriesAbout(debts[i].ref, rows)
        BY <1>5, <1>6, <2>2 DEF EntriesAbout, Entries
      <4>2. ASSUME NEW row \in EntriesAbout(debts[i].ref, rows) PROVE row = e[i]
        <5>1. PICK j \in 1..n : row = e[j]
          BY <1>6 DEF EntriesAbout, Entries
        <5>2. debts[j].ref = debts[i].ref
          BY <1>5, <5>1 DEF EntriesAbout
        <5>3. QED
          BY <1>1, <5>1, <5>2 DEF Distinct
      <4>3. QED
        BY <4>1, <4>2
    <3>2. Total(AvailableDelta, {e[i]}) = AvailableDelta[e[i]]
      BY <1>5, TotalOne, DeltaType
    <3>3. QED
      BY <1>5, <3>1, <3>2 DEF AvailableDelta
  <2>3. QED
    BY <2>1, <2>2
<1>11. QED
  BY <1>1, <1>8, <1>9, <1>10 DEF RecoveryEntries

\* The debts that replace those of w: still distinct, not another wallet's,
\* and none forgotten.
OwnDebts(w, debts) ==
    /\ Distinct(debts)
    /\ \A v \in Wallets \ {w} : \A i \in 1..Len(debts) : ~Known(liability[v], debts[i].ref)
    /\ \A i \in 1..Len(liability[w]) : Known(debts, liability[w][i].ref)

\* What the ledger must show for a debt: a reversed one was given back.
Taken(debt) == IF debt.status = "reversed" THEN 0 ELSE -debt.recovered

\* With the rows of this step the ledger shows it.
DebtPosted(debt, rows) ==
    Total(AvailableDelta, EntriesAbout(debt.ref, ledger))
      + Total(AvailableDelta, EntriesAbout(debt.ref, rows)) = Taken(debt)

\* The refunds in progress stay as they are.
RefundsKept ==
    \A v \in Wallets : /\ IsFiniteSet(Refunding(v)')
                       /\ SumFunction(RefundAmounts(v))' = SumFunction(RefundAmounts(v))

\* Rows of w that charge no request and speak only of its debts.
EntriesForDebts(rows, w, debts) ==
    /\ Summable(rows)
    /\ \A row \in rows : /\ row.wallet = w /\ row.reserved = 0 /\ row.of \notin Requests
                         /\ row.of \in References => Known(debts, row.of)

\* A transaction that replaces the debts of w: its balance moves by its rows,
\* and every debt is posted.
LEMMA DebtsBooks ==
    ASSUME BooksInv, NEW w \in Wallets, NEW debts \in Seq(LiabilityRow), NEW rows,
           EntriesForDebts(rows, w, debts), insertLedger(rows),
           liability'[w] = debts, \A v \in Wallets \ {w} : liability'[v] = liability[v],
           OwnDebts(w, debts),
           \A i \in 1..Len(debts) : DebtPosted(debts[i], rows),
           \A v \in Wallets :
             /\ wallet'[v].available =
                  wallet[v].available + IF v = w THEN Total(AvailableDelta, rows) ELSE 0
             /\ wallet'[v].reserved = wallet[v].reserved,
           settlement' = settlement, reservation' = reservation, RefundsKept
    PROVE  Books'
<1>1. Summable(rows) /\ Summable(ledger)
  BY DEF EntriesForDebts, BooksInv, Books
<1>2. /\ Summable(ledger') /\ ledger' = ledger \cup rows
  BY <1>1, Posting
<1>3. Total(AvailableDelta, rows) \in Int /\ Total(AvailableDelta, {}) = 0
  BY <1>1, TotalType, TotalNone, DeltaType
<1>4. LedgerRebuildsBalance'
  <2>1. ASSUME NEW v \in Wallets
        PROVE  /\ Total(AvailableDelta, EntriesOf(v, rows)) =
                    IF v = w THEN Total(AvailableDelta, rows) ELSE 0
               /\ Total(ReservedDelta, EntriesOf(v, rows)) = 0
    <3>1. EntriesOf(v, rows) = IF v = w THEN rows ELSE {}
      BY DEF EntriesOf, EntriesForDebts
    <3>2. Summable(EntriesOf(v, rows))
      BY <1>1, SummableParts DEF EntriesOf
    <3>3. Total(ReservedDelta, EntriesOf(v, rows)) = 0
      <4>1. ASSUME NEW row \in EntriesOf(v, rows) PROVE row.reserved = 0
        BY DEF EntriesOf, EntriesForDebts
      <4>2. QED
        BY <3>2, <4>1, NothingReserved
    <3>4. QED
      BY <1>3, <3>1, <3>3
  <2>2. ASSUME NEW v \in Wallets
        PROVE  /\ wallet'[v].available =
                    wallet[v].available + Total(AvailableDelta, EntriesOf(v, rows))
               /\ wallet'[v].reserved =
                    wallet[v].reserved + Total(ReservedDelta, EntriesOf(v, rows))
    BY <2>1, SumsHeld
  <2>3. QED
    BY <1>1, <2>2, BalanceKept DEF BooksInv, Books
<1>5. ASSUME NEW v \in Wallets
      PROVE  /\ IsFiniteSet(Holding(v)')
             /\ SumFunction(HeldAmounts(v))' = SumFunction(HeldAmounts(v))
  BY HoldersKept
<1>6. HoldersFinite' /\ ReservedIsBacked'
  <2>1. ASSUME NEW v \in Wallets
        PROVE  wallet'[v].reserved = SumFunction(HeldAmounts(v))' + SumFunction(RefundAmounts(v))'
    BY <1>5, SumsHeld DEF RefundsKept
  <2>2. QED
    BY <1>5, <2>1 DEF HoldersFinite, ReservedIsBacked, RefundsKept
<1>7. ChargedExactlyOnce'
  <2>1. ASSUME NEW r \in Requests
        PROVE  Total(AvailableDelta, EntriesAbout(r, rows))
                 + Total(ReservedDelta, EntriesAbout(r, rows)) = 0
    <3>1. EntriesAbout(r, rows) = {}
      BY DEF EntriesAbout, EntriesForDebts
    <3>2. QED
      BY <3>1, TotalNone
  <2>2. QED
    BY <1>1, <2>1, ChargesKept
<1>8. RefsUnique'
  <2>1. SUFFICES ASSUME NEW u \in Wallets, NEW v \in Wallets,
                        NEW i \in 1..Len(liability'[u]), NEW j \in 1..Len(liability'[v]),
                        liability'[u][i].ref = liability'[v][j].ref
                 PROVE  u = v /\ i = j
    BY DEF RefsUnique
  <2>2. CASE u = w /\ v = w
    BY <2>1, <2>2 DEF OwnDebts, Distinct
  <2>3. CASE u = w /\ v # w
    BY <2>1, <2>3 DEF OwnDebts, Known
  <2>4. CASE u # w /\ v = w
    BY <2>1, <2>4 DEF OwnDebts, Known
  <2>5. CASE u # w /\ v # w
    BY <2>1, <2>5, SMTT(60) DEF BooksInv, Books, RefsUnique
  <2>6. QED
    BY <2>2, <2>3, <2>4, <2>5
<1>9. PostedRefs'
  <2>1. SUFFICES ASSUME NEW row \in ledger', row.of \in References
                 PROVE  \E v \in Wallets : Known(liability'[v], row.of)
    BY DEF PostedRefs, NewReference, Known
  <2>2. CASE row \in rows
    BY <2>1, <2>2 DEF EntriesForDebts
  <2>3. CASE row \in ledger
    <3>1. PICK v \in Wallets : Known(liability[v], row.of)
      BY <2>1, <2>3 DEF BooksInv, Books, PostedRefs, NewReference, Known
    <3>2. CASE v = w
      BY <3>1, <3>2 DEF OwnDebts, Known
    <3>3. CASE v # w
      BY <3>1, <3>3
    <3>4. QED
      BY <3>2, <3>3
  <2>4. QED
    BY <1>2, <2>2, <2>3
<1>10. RecoveryIsPosted'
  <2>1. SUFFICES ASSUME NEW v \in Wallets, NEW i \in 1..Len(liability'[v])
                 PROVE  LET debt == liability'[v][i] IN
                        Total(AvailableDelta, EntriesAbout(debt.ref, ledger')) =
                          IF debt.status = "reversed" THEN 0 ELSE -debt.recovered
    BY DEF RecoveryIsPosted
  <2>2. PICK debt : debt = liability'[v][i]
    OBVIOUS
  <2>3. Total(AvailableDelta, EntriesAbout(debt.ref, ledger')) =
          Total(AvailableDelta, EntriesAbout(debt.ref, ledger))
            + Total(AvailableDelta, EntriesAbout(debt.ref, rows))
    <3>1. PICK ref : ref = debt.ref
      OBVIOUS
    <3>2. Total(AvailableDelta, EntriesAbout(ref, ledger')) =
            Total(AvailableDelta, EntriesAbout(ref, ledger))
              + Total(AvailableDelta, EntriesAbout(ref, rows))
      BY <1>1, PostingTotals, DeltaType
    <3>3. QED
      BY <3>1, <3>2
  <2>4. CASE v = w
    <3>1. DebtPosted(debt, rows)
      BY <2>1, <2>2, <2>4
    <3>2. QED
      BY <2>2, <2>3, <3>1 DEF DebtPosted, Taken
  <2>5. CASE v # w
    <3>1. debt = liability[v][i] /\ i \in 1..Len(liability[v])
      BY <2>1, <2>2, <2>5
    <3>2. debt.ref \in References
      BY <3>1, DebtType DEF BooksInv, HoldInv
    <3>3. EntriesAbout(debt.ref, rows) = {}
      BY <2>5, <3>1, <3>2 DEF EntriesForDebts, OwnDebts, Known, EntriesAbout
    <3>4. /\ Total(AvailableDelta, EntriesAbout(debt.ref, ledger)) =
               IF debt.status = "reversed" THEN 0 ELSE -debt.recovered
          /\ Total(AvailableDelta, EntriesAbout(debt.ref, ledger)) \in Int
      <4>1. Total(AvailableDelta, EntriesAbout(debt.ref, ledger)) =
               IF debt.status = "reversed" THEN 0 ELSE -debt.recovered
        BY <3>1 DEF BooksInv, Books, RecoveryIsPosted
      <4>2. Summable(EntriesAbout(debt.ref, ledger))
        BY <1>1, SummableParts DEF EntriesAbout
      <4>3. QED
        BY <4>1, <4>2, TotalType, DeltaType
    <3>5. QED
      BY <1>3, <2>2, <2>3, <3>3, <3>4
  <2>6. QED
    BY <2>4, <2>5
<1>11. QED
  BY <1>2, <1>4, <1>6, <1>7, <1>8, <1>9, <1>10 DEF Books

\* The rows that bring funds for a recovery, posted before it.
SourceEntries(rows, w, debts, funds) ==
    /\ EntriesForDebts(rows, w, debts)
    /\ \A row \in rows : row.type # "liability_recovery"
    /\ Total(AvailableDelta, rows) = funds - wallet[w].available
    /\ \A i \in 1..Len(debts) : DebtPosted(debts[i], rows)

\* Repaying a debt posts exactly what it is given.
LEMMA RepaidDebt ==
    ASSUME NEW debt \in LiabilityRow, DebtExact(debt), NEW before \in Nat,
           NEW after \in Nat, after = before - Least(Outstanding(debt), before),
           NEW new, new = Repaid(debt, before - after)
    PROVE  new.ref = debt.ref /\ Taken(new) = Taken(debt) + (after - before)
<1> USE DEF Taken
<1>1. /\ debt.principal \in Nat /\ debt.recovered \in Nat /\ debt.recovered <= debt.principal
      /\ debt.status \in {"open", "settled", "reversed"}
  <2>1. debt.principal \in 1..MaxMinor /\ debt.recovered \in 0..MaxMinor /\ MaxMinor \in Nat
    BY AmountsAssumption DEF LiabilityRow
  <2>2. QED
    BY <2>1 DEF LiabilityRow, DebtExact
<1>2. CASE before - after = 0
  BY <1>1, <1>2 DEF Repaid
<1>3. CASE before - after # 0
  <2>1. debt.status = "open"
    BY <1>1, <1>3 DEF Least, Outstanding
  <2>2. /\ new.ref = debt.ref /\ new.recovered = debt.recovered + (before - after)
        /\ new.status \in {"settled", "open"}
    BY <1>3 DEF Repaid, LiabilityRow
  <2>3. QED
    BY <1>1, <2>1, <2>2
<1>4. QED
  BY <1>2, <1>3

\* recoverWalletLiabilities posts what it takes and leaves every debt posted.
LEMMA RecoveryBooks ==
    ASSUME BooksInv, NEW w \in Wallets, NEW debts \in Seq(LiabilityRow),
           \A i \in 1..Len(debts) : DebtExact(debts[i]), OwnDebts(w, debts),
           NEW funds \in 0..MaxMinor, NEW rows, SourceEntries(rows, w, debts, funds),
           NEW source \in Subjects, NEW hold \in BOOLEAN,
           recoverWalletLiabilities(w, debts, funds, rows, source, hold),
           settlement' = settlement, reservation' = reservation, RefundsKept
    PROVE  Books'
<1>1. PICK left \in [0..Len(debts) -> 0..funds] :
        /\ Drains(debts, funds, left)
        /\ liability' = [liability EXCEPT ![w] = Recovered(debts, left)]
        /\ wallet' = [wallet EXCEPT
              ![w].available = left[Len(debts)],
              ![w].hold = IF Owes(debts)
                          THEN Owes(Recovered(debts, left)) \/ Unsettled(w, {})
                          ELSE hold]
        /\ insertLedger(rows \cup RecoveryRows(w, debts, left, source))
  BY DEF recoverWalletLiabilities
<1>2. PICK paid, more : paid = Recovered(debts, left) /\ more = RecoveryRows(w, debts, left, source)
  OBVIOUS
<1>3. /\ paid \in Seq(LiabilityRow) /\ Len(paid) = Len(debts)
      /\ Distinct(debts) /\ left[0] = funds /\ funds \in Nat
  <2>1. paid \in Seq(LiabilityRow) /\ Len(paid) = Len(debts)
    BY <1>1, <1>2, RecoveredIsExact
  <2>2. Distinct(debts) /\ left[0] = funds
    BY <1>1 DEF OwnDebts, Drains
  <2>3. funds \in Nat
    BY AmountsAssumption
  <2>4. QED
    BY <2>1, <2>2, <2>3
<1>4. RecoveryEntries(more, w, debts, left)
  BY <1>2, <1>3, RecoveryTotals
<1>5. /\ Summable(rows) /\ rows \cap more = {} /\ Summable(rows \cup more)
      /\ Total(AvailableDelta, rows \cup more) =
           Total(AvailableDelta, rows) + Total(AvailableDelta, more)
  <2>1. Summable(rows) /\ Summable(more) /\ rows \cap more = {}
    BY <1>4 DEF SourceEntries, EntriesForDebts, RecoveryEntries
  <2>2. QED
    BY <2>1, SummableUnion, TotalUnion, DeltaType
<1>6. ASSUME NEW i \in 1..Len(debts)
      PROVE  /\ paid[i].ref = debts[i].ref
             /\ Taken(paid[i]) = Taken(debts[i]) + (left[i] - left[i-1])
             /\ left[i] \in Int /\ left[i-1] \in Int /\ Taken(debts[i]) \in Int
  <2>1. PICK before \in Nat, after \in Nat :
          before = left[i-1] /\ after = left[i]
          /\ after = before - Least(Outstanding(debts[i]), before)
    <3>1. left[i-1] \in 0..funds /\ left[i] \in 0..funds
      OBVIOUS
    <3>2. QED
      BY <1>1, <1>3, <3>1 DEF Drains
  <2>2. debts[i] \in LiabilityRow /\ DebtExact(debts[i])
    OBVIOUS
  <2>3. paid[i] = Repaid(debts[i], before - after)
    BY <1>2, <2>1 DEF Recovered
  <2>4. Taken(debts[i]) \in Int
    <3>1. debts[i].recovered \in 0..MaxMinor
      BY <2>2 DEF LiabilityRow
    <3>2. QED
      BY <3>1, AmountsAssumption DEF Taken
  <2>5. PICK debt, new : debt = debts[i] /\ new = paid[i] /\ debt \in LiabilityRow
    BY <2>2
  <2>6. new.ref = debt.ref /\ Taken(new) = Taken(debt) + (after - before)
    BY <2>1, <2>2, <2>3, <2>5, RepaidDebt
  <2>7. QED
    BY <2>1, <2>4, <2>5, <2>6
<1>7. OwnDebts(w, paid)
  BY <1>3, <1>6 DEF OwnDebts, Distinct, Known
<1>8. EntriesForDebts(rows \cup more, w, paid)
  <2>1. ASSUME NEW ref, Known(debts, ref) PROVE Known(paid, ref)
    BY <1>3, <1>6, <2>1 DEF Known
  <2>2. ASSUME NEW row \in rows \cup more
        PROVE  /\ row.wallet = w /\ row.reserved = 0 /\ row.of \notin Requests
               /\ row.of \in References => Known(paid, row.of)
    BY <1>4, <2>1, IdsAssumption DEF SourceEntries, EntriesForDebts, RecoveryEntries
  <2>3. QED
    BY <1>5, <2>2 DEF EntriesForDebts
<1>9. ASSUME NEW i \in 1..Len(paid) PROVE DebtPosted(paid[i], rows \cup more)
  <2>1. PICK ref : ref = paid[i].ref
    OBVIOUS
  <2>2. i \in 1..Len(debts) /\ ref = debts[i].ref
    BY <1>3, <1>6, <2>1
  <2>3. PICK P, Q : P = EntriesAbout(ref, rows) /\ Q = EntriesAbout(ref, more)
    OBVIOUS
  <2>4. /\ Summable(P) /\ Summable(Q) /\ P \cap Q = {}
        /\ EntriesAbout(ref, rows \cup more) = P \cup Q
    BY <1>4, <1>5, <2>3, SummableParts DEF EntriesAbout, RecoveryEntries
  <2>5. /\ Total(AvailableDelta, P \cup Q) = Total(AvailableDelta, P) + Total(AvailableDelta, Q)
        /\ Total(AvailableDelta, P) \in Int /\ Total(AvailableDelta, Q) \in Int
    BY <2>4, TotalUnion, TotalType, DeltaType
  <2>6. Total(AvailableDelta, Q) = left[i] - left[i-1]
    BY <1>4, <2>2, <2>3 DEF RecoveryEntries
  <2>7. Total(AvailableDelta, EntriesAbout(ref, ledger)) \in Int
    <3>1. Summable(EntriesAbout(ref, ledger))
      BY SummableParts DEF EntriesAbout, BooksInv, Books
    <3>2. QED
      BY <3>1, TotalType, DeltaType
  <2>8. Total(AvailableDelta, EntriesAbout(ref, ledger)) + Total(AvailableDelta, P) =
          Taken(debts[i])
    BY <2>2, <2>3 DEF SourceEntries, DebtPosted
  <2>9. Taken(paid[i]) = Taken(debts[i]) + (left[i] - left[i-1])
    BY <1>6, <2>2
  <2>10. Total(AvailableDelta, EntriesAbout(ref, ledger)) + Total(AvailableDelta, P \cup Q) =
           Taken(paid[i])
    BY <2>5, <2>6, <2>7, <2>8, <2>9
  <2>11. QED
    BY <2>1, <2>4, <2>10 DEF DebtPosted
<1>10. ASSUME NEW v \in Wallets
       PROVE  /\ wallet'[v].available =
                   wallet[v].available + IF v = w THEN Total(AvailableDelta, rows \cup more) ELSE 0
              /\ wallet'[v].reserved = wallet[v].reserved
  <2>1. /\ wallet'[w].available = left[Len(debts)]
        /\ wallet'[w].reserved = wallet[w].reserved
        /\ v # w => wallet'[v] = wallet[v]
    BY <1>1 DEF BooksInv, HoldInv, TypeInv, TypeOK
  <2>2. left[Len(debts)] \in 0..funds /\ wallet[w].available \in Int /\ wallet[v].available \in Int
    <3>1. Len(debts) \in 0..Len(debts)
      OBVIOUS
    <3>2. QED
      BY <3>1, SumsHeld
  <2>3. Total(AvailableDelta, rows \cup more) =
          (funds - wallet[w].available) + (left[Len(debts)] - funds)
    BY <1>3, <1>4, <1>5 DEF SourceEntries, RecoveryEntries
  <2>4. QED
    BY <1>3, <2>1, <2>2, <2>3, SMTT(60)
<1>11. /\ insertLedger(rows \cup more) /\ liability'[w] = paid
       /\ \A v \in Wallets \ {w} : liability'[v] = liability[v]
  BY <1>1, <1>2 DEF BooksInv, HoldInv, TypeInv, TypeOK
<1>12. QED
  BY <1>3, <1>7, <1>8, <1>9, <1>10, <1>11, DebtsBooks

\* The debts of w as they are.
LEMMA OwnLiabilities ==
    ASSUME BooksInv, NEW w \in Wallets
    PROVE  /\ liability[w] \in Seq(LiabilityRow)
           /\ \A i \in 1..Len(liability[w]) : DebtExact(liability[w][i])
           /\ OwnDebts(w, liability[w])
<1>1. /\ liability[w] \in Seq(LiabilityRow)
      /\ \A i \in 1..Len(liability[w]) : DebtExact(liability[w][i])
  BY DEF BooksInv, HoldInv, TypeInv, TypeOK, LiabilityStatusExact
<1>2. OwnDebts(w, liability[w])
  BY DEF BooksInv, Books, RefsUnique, OwnDebts, Distinct, Known
<1>3. QED
  BY <1>1, <1>2

\* A debt the rows say nothing of is posted as it is.
LEMMA AlreadyPosted ==
    ASSUME BooksInv, NEW w \in Wallets, NEW i \in 1..Len(liability[w]), NEW rows,
           \A row \in rows : row.of # liability[w][i].ref
    PROVE  DebtPosted(liability[w][i], rows)
<1>1. PICK debt : debt = liability[w][i]
  OBVIOUS
<1>2. EntriesAbout(debt.ref, rows) = {}
  BY <1>1 DEF EntriesAbout
<1>3. Total(AvailableDelta, EntriesAbout(debt.ref, ledger)) = Taken(debt)
  BY <1>1 DEF BooksInv, Books, RecoveryIsPosted, Taken
<1>4. Total(AvailableDelta, EntriesAbout(debt.ref, ledger)) \in Int
  <2>1. Summable(EntriesAbout(debt.ref, ledger))
    BY SummableParts DEF EntriesAbout, BooksInv, Books
  <2>2. QED
    BY <2>1, TotalType, DeltaType
<1>5. DebtPosted(debt, rows)
  BY <1>2, <1>3, <1>4, TotalNone DEF DebtPosted
<1>6. QED
  BY <1>1, <1>5

\* CreditInTx: the funds, and what is recovered from them.
LEMMA CreditBooks ==
    ASSUME BooksInv, NEW w \in Wallets, NEW type \in EntryTypes,
           type # "liability_recovery", NEW of \in Credits \cup Orders,
           NEW amount \in Amounts \cup Debits, CreditInTx(w, type, of, amount),
           settlement' = settlement, reservation' = reservation, RefundsKept
    PROVE  Books'
<1>1. amount \in Int
  <2>1. MaxMinor \in Nat /\ \A a \in Amounts : a \in 1..MaxMinor
    BY AmountsAssumption
  <2>2. QED
    BY <2>1 DEF Debits
<1>2. PICK funds : funds = wallet[w].available + amount
  OBVIOUS
<1>3. funds \in 0..MaxMinor /\ wallet[w].available \in Int
  BY <1>1, <1>2, SumsHeld, AmountsAssumption DEF CreditInTx, safeAdd
<1>4. PICK row : row = Row(w, type, of, amount, 0)
  OBVIOUS
<1>5. /\ of \in Subjects /\ of \notin Requests /\ of \notin References
      /\ wallet[w].hold \in BOOLEAN
  BY IdsAssumption DEF Subjects, BooksInv, HoldInv, TypeInv, TypeOK
<1>6. /\ row \in LedgerRow /\ Posts({row}, w, of, amount, 0)
      /\ row.wallet = w /\ row.reserved = 0 /\ row.of = of /\ row.type = type
  BY <1>1, <1>4, <1>5, OneEntry DEF Row
<1>7. Total(AvailableDelta, {row}) = amount /\ Summable({row})
  BY <1>1, <1>4, <1>6, TotalOne, DeltaType, SummableOne DEF AvailableDelta, Row
<1>8. EntriesForDebts({row}, w, liability[w])
  BY <1>5, <1>6, <1>7 DEF EntriesForDebts
<1>9. ASSUME NEW i \in 1..Len(liability[w]) PROVE DebtPosted(liability[w][i], {row})
  <2>1. row.of # liability[w][i].ref
    BY <1>5, <1>6, DebtType DEF BooksInv, HoldInv
  <2>2. QED
    BY <2>1, AlreadyPosted, SMTT(60)
<1>10. SourceEntries({row}, w, liability[w], funds)
  <2>1. Total(AvailableDelta, {row}) = funds - wallet[w].available
    BY <1>1, <1>2, <1>3, <1>7
  <2>2. QED
    BY <1>6, <1>8, <1>9, <2>1 DEF SourceEntries
<1>11. recoverWalletLiabilities(w, liability[w], funds, {row}, of, wallet[w].hold)
  BY <1>2, <1>4 DEF CreditInTx
<1>12. PICK debts, hold : debts = liability[w] /\ hold = wallet[w].hold /\ hold \in BOOLEAN
  BY <1>5
<1>13. /\ debts \in Seq(LiabilityRow) /\ OwnDebts(w, debts)
       /\ \A i \in 1..Len(debts) : DebtExact(debts[i])
  BY <1>12, OwnLiabilities
<1>14. QED
  BY <1>3, <1>5, <1>10, <1>11, <1>12, <1>13, RecoveryBooks

\* A recharge or an adjustment.
LEMMA CreditStepBooks ==
    ASSUME BooksInv, NEW c \in Credits, NEW w \in Wallets,
           NEW amount \in Amounts \cup Debits, Credit(c, w, amount)
    PROVE  Books'
<1>1. RefundsKept
  BY HoldersKept DEF Credit, RefundsKept
<1>2. QED
  BY <1>1, CreditBooks DEF Credit, EntryTypes

\* The paid event of an order.
LEMMA PayOrderBooks ==
    ASSUME BooksInv, NEW o \in Orders, NEW w \in Wallets, NEW amount \in Amounts,
           PayOrder(o, w, amount)
    PROVE  Books'
<1>1. RefundsKept
  <2>1. /\ \A q \in Orders \ {o} : order'[q] = order[q]
        /\ order'[o].status = "paid" /\ order[o].status = "none"
    BY DEF PayOrder, NoRow, BooksInv, HoldInv, TypeInv, TypeOK
  <2>2. ASSUME NEW v \in Wallets
        PROVE  Refunding(v)' = Refunding(v) /\ RefundAmounts(v)' = RefundAmounts(v)
    <3>1. Refunding(v)' = Refunding(v) /\ o \notin Refunding(v)
      BY <2>1 DEF Refunding
    <3>2. QED
      BY <2>1, <3>1 DEF RefundAmounts, Refunding
  <2>3. QED
    BY <2>2 DEF RefundsKept, BooksInv, Books, HoldersFinite
<1>2. QED
  BY <1>1, CreditBooks DEF PayOrder, EntryTypes

\* A debt for a reference that has none.
NewDebt(debt) == debt \in LiabilityRow /\ DebtExact(debt) /\ NewReference(debt.ref)

\* The debts of w with a new one.
LEMMA NewDebtOwn ==
    ASSUME BooksInv, NEW w \in Wallets, NEW debt, NewDebt(debt),
           NEW debts, debts = Append(liability[w], debt)
    PROVE  /\ debts \in Seq(LiabilityRow)
           /\ \A i \in 1..Len(debts) : DebtExact(debts[i])
           /\ OwnDebts(w, debts)
           /\ Known(debts, debt.ref)
<1>1. PICK old \in Seq(LiabilityRow) : old = liability[w]
  BY OwnLiabilities
<1>2. PICK n \in Nat : n = Len(old)
  OBVIOUS
<1>3. /\ debts \in Seq(LiabilityRow) /\ Len(debts) = n + 1 /\ debts[n+1] = debt
      /\ \A i \in 1..n : debts[i] = old[i]
  BY <1>1, <1>2 DEF NewDebt
<1>4. ASSUME NEW i \in 1..Len(debts) PROVE i = n + 1 \/ (i \in 1..n /\ debts[i] = liability[w][i])
  BY <1>1, <1>2, <1>3
<1>5. ASSUME NEW i \in 1..Len(debts) PROVE DebtExact(debts[i])
  BY <1>1, <1>2, <1>3, <1>4, OwnLiabilities DEF NewDebt
<1>6. ASSUME NEW v \in Wallets PROVE ~Known(liability[v], debt.ref)
  BY DEF Known, NewDebt, NewReference
<1>7. Distinct(debts)
  <2>1. SUFFICES ASSUME NEW i \in 1..Len(debts), NEW j \in 1..Len(debts),
                        debts[i].ref = debts[j].ref
                 PROVE  i = j
    BY DEF Distinct
  <2>2. \A k \in 1..n : debts[k].ref # debt.ref
    BY <1>1, <1>2, <1>3, <1>6 DEF Known
  <2>3. CASE i = n + 1 \/ j = n + 1
    BY <1>3, <1>4, <2>1, <2>2, <2>3
  <2>4. CASE i # n + 1 /\ j # n + 1
    BY <1>1, <1>2, <1>3, <1>4, <2>1, <2>4, OwnLiabilities DEF OwnDebts, Distinct
  <2>5. QED
    BY <2>3, <2>4
<1>8. ASSUME NEW v \in Wallets \ {w}, NEW i \in 1..Len(debts)
      PROVE  ~Known(liability[v], debts[i].ref)
  <2>1. CASE i = n + 1
    BY <1>3, <1>6, <2>1
  <2>2. CASE i # n + 1
    BY <1>1, <1>2, <1>4, <2>2, OwnLiabilities DEF OwnDebts
  <2>3. QED
    BY <2>1, <2>2
<1>9. ASSUME NEW i \in 1..Len(liability[w]) PROVE Known(debts, liability[w][i].ref)
  BY <1>1, <1>2, <1>3 DEF Known
<1>10. Known(debts, debt.ref)
  <2>1. n + 1 \in 1..Len(debts)
    BY <1>3
  <2>2. QED
    BY <1>3, <2>1 DEF Known
<1>11. QED
  BY <1>3, <1>5, <1>7, <1>8, <1>9, <1>10 DEF OwnDebts

\* A new debt is posted by its own rows alone: PostedRefs is needed here.
LEMMA NewDebtPosted ==
    ASSUME BooksInv, NEW w \in Wallets, NEW debt, NewDebt(debt),
           NEW debts, debts = Append(liability[w], debt),
           NEW rows, \A row \in rows : row.of = debt.ref,
           Total(AvailableDelta, rows) = Taken(debt), Taken(debt) \in Int
    PROVE  \A i \in 1..Len(debts) : DebtPosted(debts[i], rows)
<1>1. PICK old \in Seq(LiabilityRow) : old = liability[w]
  BY OwnLiabilities
<1>2. PICK n \in Nat : n = Len(old)
  OBVIOUS
<1>3. /\ Len(debts) = n + 1 /\ debts[n+1] = debt
      /\ \A i \in 1..n : debts[i] = old[i]
  BY <1>1, <1>2 DEF NewDebt
<1>4. DebtPosted(debt, rows)
  <2>1. debt.ref \in References
    BY DEF NewDebt, LiabilityRow
  <2>2. EntriesAbout(debt.ref, ledger) = {}
    BY <2>1 DEF EntriesAbout, NewDebt, BooksInv, Books, PostedRefs
  <2>3. EntriesAbout(debt.ref, rows) = rows
    BY DEF EntriesAbout
  <2>4. QED
    BY <2>2, <2>3, TotalNone DEF DebtPosted
<1>5. ASSUME NEW i \in 1..n PROVE DebtPosted(debts[i], rows)
  <2>1. i \in 1..Len(liability[w]) /\ debts[i] = liability[w][i]
    BY <1>1, <1>2, <1>3
  <2>2. liability[w][i].ref # debt.ref
    BY <2>1 DEF NewDebt, NewReference
  <2>3. QED
    BY <2>1, <2>2, AlreadyPosted
<1>6. ASSUME NEW i \in 1..Len(debts) PROVE i = n + 1 \/ i \in 1..n
  BY <1>3
<1>7. QED
  BY <1>3, <1>4, <1>5, <1>6

\* A chargeback: a new debt, paid from what is available.
LEMMA OpenLiabilityBooks ==
    ASSUME BooksInv, NEW ref \in References, NEW w \in Wallets, NEW amount \in Amounts,
           OpenLiability(ref, w, amount)
    PROVE  Books'
<1>1. amount \in 1..MaxMinor /\ MaxMinor \in Nat
  BY AmountsAssumption
<1>2. wallet[w].available \in 0..MaxMinor
  BY DEF BooksInv, HoldInv, TypeInv, TypeOK
<1>3. PICK taken \in 0..MaxMinor :
        taken = Least(amount, wallet[w].available) /\ taken <= amount
  BY <1>1, <1>2 DEF Least
<1>4. PICK debt : debt = [ref |-> ref, principal |-> amount, recovered |-> taken,
                          status |-> IF taken < amount THEN "open" ELSE "settled"]
  OBVIOUS
<1>5. /\ debt \in LiabilityRow /\ DebtExact(debt)
      /\ debt.ref = ref /\ debt.recovered = taken /\ debt.status # "reversed"
  BY <1>1, <1>3, <1>4 DEF LiabilityRow, DebtExact
<1>6. PICK debts : debts = Append(liability[w], debt)
  OBVIOUS
<1>7. PICK row : row = Row(w, "liability_open", ref, -taken, 0)
  OBVIOUS
<1>8. PICK rows : rows = IF taken > 0 THEN {row} ELSE {}
  OBVIOUS
<1>9. /\ NewReference(ref)
      /\ liability' = [liability EXCEPT ![w] = debts]
      /\ wallet' = [wallet EXCEPT ![w].available = wallet[w].available - taken,
                                  ![w].hold = wallet[w].hold \/ debt.status = "open"]
      /\ insertLedger(rows)
      /\ UNCHANGED <<reservation, settlement, order>>
  BY <1>3, <1>4, <1>6, <1>7, <1>8 DEF OpenLiability, OpenLiabilityInTx
<1>10. NewDebt(debt)
  BY <1>5, <1>9 DEF NewDebt
<1>11. /\ -taken \in Int /\ Taken(debt) = -taken
       /\ row \in LedgerRow /\ row.wallet = w /\ row.of = ref
       /\ row.available = -taken /\ row.reserved = 0
  <2>1. -taken \in Int /\ ref \in Subjects /\ "liability_open" \in EntryTypes
    BY <1>1 DEF Subjects, EntryTypes
  <2>2. row \in LedgerRow
    BY <1>7, <2>1, RowType
  <2>3. QED
    BY <1>5, <1>7, <2>1, <2>2 DEF Taken, Row
<1>12. Summable(rows) /\ Total(AvailableDelta, rows) = -taken
  <2>1. CASE taken > 0
    BY <1>8, <1>11, <2>1, TotalOne, DeltaType, SummableOne DEF AvailableDelta
  <2>2. CASE ~(taken > 0)
    <3>1. PICK d \in Int : d = -taken /\ d = 0
      BY <1>1, <2>2
    <3>2. QED
      BY <1>8, <1>11, <2>2, <3>1, TotalNone, SummableOne
  <2>3. QED
    BY <2>1, <2>2
<1>13. ASSUME NEW new \in rows PROVE new = row
  BY <1>8
<1>14. /\ debts \in Seq(LiabilityRow) /\ OwnDebts(w, debts) /\ Known(debts, ref)
  BY <1>5, <1>6, <1>10, NewDebtOwn
<1>15. EntriesForDebts(rows, w, debts)
  BY <1>11, <1>12, <1>13, <1>14, IdsAssumption DEF EntriesForDebts
<1>16. \A i \in 1..Len(debts) : DebtPosted(debts[i], rows)
  <2>1. \A new \in rows : new.of = debt.ref
    BY <1>5, <1>11, <1>13
  <2>2. QED
    BY <1>6, <1>10, <1>11, <1>12, <2>1, NewDebtPosted
<1>17. ASSUME NEW v \in Wallets
       PROVE  /\ wallet'[v].available =
                   wallet[v].available + IF v = w THEN Total(AvailableDelta, rows) ELSE 0
              /\ wallet'[v].reserved = wallet[v].reserved
  <2>1. /\ wallet'[w].available = wallet[w].available - taken
        /\ wallet'[w].reserved = wallet[w].reserved
        /\ v # w => wallet'[v] = wallet[v]
    BY <1>9 DEF BooksInv, HoldInv, TypeInv, TypeOK
  <2>2. QED
    BY <1>1, <1>12, <2>1, SumsHeld
<1>18. /\ liability'[w] = debts /\ \A v \in Wallets \ {w} : liability'[v] = liability[v]
       /\ settlement' = settlement /\ reservation' = reservation /\ insertLedger(rows)
  BY <1>9 DEF BooksInv, HoldInv, TypeInv, TypeOK
<1>19. RefundsKept
  BY <1>9, HoldersKept DEF RefundsKept
<1>20. QED
  BY <1>14, <1>15, <1>16, <1>17, <1>18, <1>19, DebtsBooks

\* ReturnRecovered gives back what a debt took and pays the others from it.
LEMMA ReturnBooks ==
    ASSUME BooksInv, NEW w \in Wallets, NEW debts \in Seq(LiabilityRow),
           \A i \in 1..Len(debts) : DebtExact(debts[i]), OwnDebts(w, debts),
           NEW debt \in LiabilityRow, NEW balance \in 0..MaxMinor, NEW rows, NEW row,
           row = Row(w, "liability_reversal", debt.ref, debt.recovered, 0),
           ReturnRecovered(w, debts, debt, balance, rows),
           debt.recovered = 0 => \A i \in 1..Len(debts) : DebtPosted(debts[i], {}),
           debt.recovered > 0 =>
              SourceEntries(rows \cup {row}, w, debts, balance + debt.recovered),
           settlement' = settlement, reservation' = reservation, order' = order
    PROVE  Books'
<1>1. RefundsKept
  BY HoldersKept DEF RefundsKept
<1>2. PICK hold \in BOOLEAN : hold = (Owes(debts) \/ Unsettled(w, {}))
  BY DEF Owes, Unsettled
<1>3. PICK funds \in 0..MaxMinor : funds = balance + debt.recovered
  <2>1. debt.recovered \in 0..MaxMinor /\ MaxMinor \in Nat
    BY AmountsAssumption DEF LiabilityRow
  <2>2. balance + debt.recovered <= MaxMinor
    BY DEF ReturnRecovered, safeAdd
  <2>3. QED
    BY <2>1, <2>2
<1>4. CASE debt.recovered = 0
  <2>1. /\ liability' = [liability EXCEPT ![w] = debts]
        /\ wallet' = [wallet EXCEPT ![w].hold = hold]
        /\ ledger' = ledger
    BY <1>2, <1>4 DEF ReturnRecovered
  <2>2. /\ EntriesForDebts({}, w, debts) /\ insertLedger({})
        /\ Total(AvailableDelta, {}) = 0
    BY <2>1, TotalNone, FS_EmptySet DEF EntriesForDebts, insertLedger, Summable
  <2>3. ASSUME NEW v \in Wallets
        PROVE  /\ wallet'[v].available =
                    wallet[v].available + IF v = w THEN Total(AvailableDelta, {}) ELSE 0
               /\ wallet'[v].reserved = wallet[v].reserved
    <3>1. wallet'[v].available = wallet[v].available /\ wallet'[v].reserved = wallet[v].reserved
      BY <2>1 DEF BooksInv, HoldInv, TypeInv, TypeOK
    <3>2. QED
      BY <2>2, <3>1, SumsHeld
  <2>4. liability'[w] = debts /\ \A v \in Wallets \ {w} : liability'[v] = liability[v]
    BY <2>1 DEF BooksInv, HoldInv, TypeInv, TypeOK
  <2>5. QED
    BY <1>1, <1>4, <2>2, <2>3, <2>4, DebtsBooks
<1>5. CASE debt.recovered > 0
  <2>1. debt.recovered # 0
    BY <1>5
  <2>2. recoverWalletLiabilities(w, debts, funds, rows \cup {row}, debt.ref, hold)
    BY <1>2, <1>3, <2>1 DEF ReturnRecovered
  <2>3. debt.ref \in Subjects
    BY DEF LiabilityRow, Subjects
  <2>4. SourceEntries(rows \cup {row}, w, debts, funds)
    BY <1>3, <1>5
  <2>5. QED
    BY <1>1, <2>2, <2>3, <2>4, RecoveryBooks
<1>6. QED
  BY <1>4, <1>5 DEF ReturnRecovered

\* A chargeback that is won.
LEMMA ReverseLiabilityBooks ==
    ASSUME BooksInv, NEW w \in Wallets, NEW i \in 1..Len(liability[w]),
           ReverseLiability(w, i)
    PROVE  Books'
<1>1. PICK old \in Seq(LiabilityRow) : old = liability[w]
  BY OwnLiabilities
<1>2. PICK debt \in LiabilityRow : debt = liability[w][i]
  BY DebtType DEF BooksInv, HoldInv
<1>3. /\ debt.ref \in References /\ debt.recovered \in Int /\ debt.recovered >= 0
      /\ debt.status # "reversed"
  <2>1. debt.recovered \in 0..MaxMinor /\ MaxMinor \in Nat
    BY AmountsAssumption DEF LiabilityRow
  <2>2. QED
    BY <1>2, <2>1 DEF LiabilityRow, ReverseLiability, ReverseLiabilityInTx
<1>4. PICK debts : debts = [liability[w] EXCEPT ![i].status = "reversed"]
  OBVIOUS
<1>5. /\ debts \in Seq(LiabilityRow)
      /\ \A j \in 1..Len(debts) : DebtExact(debts[j])
  BY <1>4, ReversedDebts DEF BooksInv, HoldInv
<1>6. /\ Len(debts) = Len(liability[w])
      /\ debts[i].ref = debt.ref /\ debts[i].status = "reversed"
      /\ \A j \in 1..Len(debts) : j # i => debts[j] = liability[w][j]
  BY <1>1, <1>2, <1>4 DEF LiabilityRow
<1>7. \A j \in 1..Len(debts) : debts[j].ref = liability[w][j].ref
  BY <1>2, <1>6
<1>8. OwnDebts(w, debts)
  BY <1>6, <1>7, OwnLiabilities DEF OwnDebts, Distinct, Known
<1>9. PICK row : row = Row(w, "liability_reversal", debt.ref, debt.recovered, 0)
  OBVIOUS
<1>10. /\ row \in LedgerRow /\ row.wallet = w /\ row.of = debt.ref
       /\ row.available = debt.recovered /\ row.reserved = 0 /\ row.type = "liability_reversal"
  <2>1. debt.ref \in Subjects /\ "liability_reversal" \in EntryTypes
    BY <1>3 DEF Subjects, EntryTypes
  <2>2. row \in LedgerRow
    BY <1>3, <1>9, <2>1, RowType
  <2>3. QED
    BY <1>9, <2>2 DEF Row
<1>11. Summable({row}) /\ Total(AvailableDelta, {row}) = debt.recovered
  BY <1>10, SummableOne, TotalOne, DeltaType DEF AvailableDelta
<1>12. ASSUME NEW rows, \A new \in rows : new.of = debt.ref,
              Total(AvailableDelta, rows) = debt.recovered,
              NEW j \in 1..Len(debts)
       PROVE  DebtPosted(debts[j], rows)
  <2>1. CASE j # i
    <3>1. debts[j] = liability[w][j] /\ j \in 1..Len(liability[w])
      BY <1>6, <2>1
    <3>2. liability[w][j].ref # debt.ref
      BY <1>2, <2>1, <3>1, OwnLiabilities DEF OwnDebts, Distinct
    <3>3. \A new \in rows : new.of # liability[w][j].ref
      BY <1>12, <3>2
    <3>4. QED
      BY <3>1, <3>3, AlreadyPosted
  <2>2. CASE j = i
    <3>1. Total(AvailableDelta, EntriesAbout(debt.ref, ledger)) = -debt.recovered
      BY <1>2, <1>3 DEF BooksInv, Books, RecoveryIsPosted
    <3>2. EntriesAbout(debt.ref, rows) = rows
      BY <1>12 DEF EntriesAbout
    <3>3. Total(AvailableDelta, EntriesAbout(debt.ref, ledger))
            + Total(AvailableDelta, EntriesAbout(debt.ref, rows)) = 0
      BY <1>3, <1>12, <3>1, <3>2
    <3>4. QED
      BY <1>6, <2>2, <3>3 DEF DebtPosted, Taken
  <2>3. QED
    BY <2>1, <2>2
<1>13. ASSUME debt.recovered = 0 PROVE \A j \in 1..Len(debts) : DebtPosted(debts[j], {})
  BY <1>12, <1>13, TotalNone
<1>14. PICK balance \in 0..MaxMinor : balance = wallet[w].available
  BY DEF BooksInv, HoldInv, TypeInv, TypeOK
<1>15. SourceEntries({} \cup {row}, w, debts, balance + debt.recovered)
  <2>1. {} \cup {row} = {row}
    OBVIOUS
  <2>2. Known(debts, debt.ref) /\ debt.ref \notin Requests
    BY <1>3, <1>6, IdsAssumption DEF Known
  <2>3. EntriesForDebts({row}, w, debts)
    BY <1>10, <1>11, <2>2 DEF EntriesForDebts
  <2>4. \A j \in 1..Len(debts) : DebtPosted(debts[j], {row})
    BY <1>10, <1>11, <1>12
  <2>5. PICK funds : funds = balance + debt.recovered
    OBVIOUS
  <2>6. Total(AvailableDelta, {row}) = funds - wallet[w].available
    BY <1>3, <1>11, <1>14, <2>5, AmountsAssumption
  <2>7. SourceEntries({row}, w, debts, funds)
    BY <1>10, <2>3, <2>4, <2>6 DEF SourceEntries
  <2>8. QED
    BY <2>1, <2>5, <2>7
<1>16. ReturnRecovered(w, debts, debt, balance, {})
  BY <1>2, <1>4, <1>14 DEF ReverseLiability, ReverseLiabilityInTx
<1>17. settlement' = settlement /\ reservation' = reservation /\ order' = order
  BY DEF ReverseLiability
<1>18. QED
  BY <1>5, <1>8, <1>9, <1>13, <1>15, <1>16, <1>17, ReturnBooks

\* A chargeback that arrives already reversed leaves the balance where it was.
LEMMA OpenReversedBooks ==
    ASSUME BooksInv, NEW ref \in References, NEW w \in Wallets, NEW amount \in Amounts,
           OpenReversed(ref, w, amount)
    PROVE  Books'
<1>1. amount \in 1..MaxMinor /\ MaxMinor \in Nat
  BY AmountsAssumption
<1>2. wallet[w].available \in 0..MaxMinor
  BY DEF BooksInv, HoldInv, TypeInv, TypeOK
<1>3. PICK taken \in 0..MaxMinor :
        taken = Least(amount, wallet[w].available) /\ taken <= amount
        /\ wallet[w].available - taken \in 0..MaxMinor
  BY <1>1, <1>2 DEF Least
<1>4. PICK debt : debt = [ref |-> ref, principal |-> amount, recovered |-> taken,
                          status |-> "reversed"]
  OBVIOUS
<1>5. /\ debt \in LiabilityRow /\ DebtExact(debt)
      /\ debt.ref = ref /\ debt.recovered = taken /\ Taken(debt) = 0
  BY <1>1, <1>3, <1>4 DEF LiabilityRow, DebtExact, Taken
<1>6. PICK debts : debts = Append(liability[w], debt)
  OBVIOUS
<1>7. PICK open, row : /\ open = Row(w, "liability_open", ref, -taken, 0)
                       /\ row = Row(w, "liability_reversal", debt.ref, debt.recovered, 0)
  OBVIOUS
<1>8. PICK balance \in 0..MaxMinor : balance = wallet[w].available - taken
  BY <1>3
<1>9. NewReference(ref) /\ ReturnRecovered(w, debts, debt, balance, {open})
  BY <1>3, <1>4, <1>6, <1>7, <1>8 DEF OpenReversed, OpenReversedInTx
<1>10. NewDebt(debt)
  BY <1>5, <1>9 DEF NewDebt
<1>11. /\ open \in LedgerRow /\ open.wallet = w /\ open.of = ref
       /\ open.available = -taken /\ open.reserved = 0 /\ open.type = "liability_open"
       /\ row \in LedgerRow /\ row.wallet = w /\ row.of = ref
       /\ row.available = taken /\ row.reserved = 0 /\ row.type = "liability_reversal"
  <2>1. /\ -taken \in Int /\ taken \in Int /\ ref \in Subjects
        /\ "liability_open" \in EntryTypes /\ "liability_reversal" \in EntryTypes
    BY <1>1 DEF Subjects, EntryTypes
  <2>2. open \in LedgerRow /\ row \in LedgerRow
    BY <1>5, <1>7, <2>1, RowType
  <2>3. QED
    BY <1>5, <1>7, <2>2 DEF Row
<1>12. Summable({open} \cup {row}) /\ Total(AvailableDelta, {open} \cup {row}) = 0
  <2>1. Summable({open}) /\ Summable({row}) /\ {open} \cap {row} = {}
    BY <1>11, SummableOne
  <2>2. Total(AvailableDelta, {open}) = -taken /\ Total(AvailableDelta, {row}) = taken
    BY <1>11, TotalOne, DeltaType DEF AvailableDelta
  <2>3. Total(AvailableDelta, {open} \cup {row}) =
          Total(AvailableDelta, {open}) + Total(AvailableDelta, {row})
    BY <2>1, TotalUnion, DeltaType
  <2>4. -taken + taken = 0
    BY <1>1
  <2>5. QED
    BY <2>1, <2>2, <2>3, <2>4, SummableUnion
<1>13. /\ debts \in Seq(LiabilityRow) /\ OwnDebts(w, debts) /\ Known(debts, ref)
       /\ \A i \in 1..Len(debts) : DebtExact(debts[i])
  BY <1>5, <1>6, <1>10, NewDebtOwn
<1>14. \A i \in 1..Len(debts) : DebtPosted(debts[i], {})
  <2>1. PICK none : none = {}
    OBVIOUS
  <2>2. Total(AvailableDelta, none) = Taken(debt) /\ Taken(debt) \in Int
    BY <1>5, <2>1, TotalNone
  <2>3. \A new \in none : new.of = debt.ref
    BY <2>1
  <2>4. \A i \in 1..Len(debts) : DebtPosted(debts[i], none)
    BY <1>6, <1>10, <2>2, <2>3, NewDebtPosted
  <2>5. QED
    BY <2>1, <2>4
<1>15. SourceEntries({open} \cup {row}, w, debts, balance + debt.recovered)
  <2>1. PICK rows : rows = {open} \cup {row}
    OBVIOUS
  <2>2. ASSUME NEW new \in rows
        PROVE  /\ new.wallet = w /\ new.of = ref /\ new.reserved = 0
               /\ new.type # "liability_recovery"
    BY <1>11, <2>1
  <2>3. EntriesForDebts(rows, w, debts)
    BY <1>12, <1>13, <2>1, <2>2, IdsAssumption DEF EntriesForDebts
  <2>4. \A i \in 1..Len(debts) : DebtPosted(debts[i], rows)
    <3>1. \A new \in rows : new.of = debt.ref
      BY <1>5, <2>2
    <3>2. Total(AvailableDelta, rows) = Taken(debt) /\ Taken(debt) \in Int
      BY <1>5, <1>12, <2>1
    <3>3. QED
      BY <1>6, <1>10, <3>1, <3>2, NewDebtPosted
  <2>5. PICK funds : funds = balance + debt.recovered
    OBVIOUS
  <2>6. Total(AvailableDelta, rows) = funds - wallet[w].available
    <3>1. funds - wallet[w].available = 0
      BY <1>1, <1>2, <1>5, <1>8, <2>5
    <3>2. QED
      BY <1>12, <2>1, <3>1
  <2>7. SourceEntries(rows, w, debts, funds)
    BY <2>2, <2>3, <2>4, <2>6 DEF SourceEntries
  <2>8. QED
    BY <2>1, <2>5, <2>7
<1>16. settlement' = settlement /\ reservation' = reservation /\ order' = order
  BY DEF OpenReversed
<1>17. QED
  BY <1>5, <1>7, <1>9, <1>13, <1>14, <1>15, <1>16, ReturnBooks

\* Every operation of billing keeps the books.
LEMMA BooksInvNext == BooksInv /\ [Next]_vars => BooksInv'
<1> SUFFICES ASSUME BooksInv, [Next]_vars PROVE Books'
  BY HoldInvNext DEF BooksInv
<1>1. HoldInv' /\ TypeInv'
  BY HoldInvNext DEF BooksInv, HoldInv
<1>2. CASE UsageNext
  BY <1>1, <1>2, ReserveBooks, SettleBooks, SettlePendingBooks, ReleaseBooks DEF UsageNext
<1>3. CASE FundingNext
  BY <1>3, CreditStepBooks, PayOrderBooks, OpenLiabilityBooks, OpenReversedBooks,
     ReverseLiabilityBooks DEF FundingNext
<1>4. CASE RefundNext
  BY <1>1, <1>4, HoldRefundBooks, EndRefundBooks DEF RefundNext
<1>5. CASE UNCHANGED vars
  <2>1. /\ wallet' = wallet /\ liability' = liability /\ ledger' = ledger
        /\ settlement' = settlement /\ reservation' = reservation /\ order' = order
    BY <1>5 DEF vars
  <2>2. Summable(ledger') /\ RefsUnique' /\ PostedRefs' /\ LedgerRebuildsBalance'
    BY <2>1 DEF BooksInv, Books, RefsUnique, PostedRefs, NewReference, LedgerRebuildsBalance
  <2>3. RecoveryIsPosted' /\ ChargedExactlyOnce'
    BY <2>1 DEF BooksInv, Books, RecoveryIsPosted, ChargedExactlyOnce
  <2>4. ASSUME NEW w \in Wallets
        PROVE  /\ Holding(w)' = Holding(w) /\ HeldAmounts(w)' = HeldAmounts(w)
               /\ Refunding(w)' = Refunding(w) /\ RefundAmounts(w)' = RefundAmounts(w)
    BY <2>1 DEF Holding, HeldAmounts, Refunding, RefundAmounts
  <2>5. HoldersFinite' /\ ReservedIsBacked'
    BY <2>1, <2>4 DEF BooksInv, Books, HoldersFinite, ReservedIsBacked
  <2>6. QED
    BY <2>2, <2>3, <2>5 DEF Books
<1>6. QED
  BY <1>2, <1>3, <1>4, <1>5 DEF Next

-----------------------------------------------------------------------------
(* Theorems *)

\* For any number of wallets, requests, orders and chargebacks: the ledger
\* rebuilds both balances of every wallet, the reserved balance is exactly what
\* open reservations and refunds hold, and the ledger shows for every liability
\* what was recovered for it.
THEOREM BooksAlwaysBalance == Spec => []BooksBalance
<1>1. BooksInv => BooksBalance
  BY DEF BooksInv, Books, HoldInv, TypeInv, BooksBalance
<1>2. QED
  BY <1>1, BooksInvInit, BooksInvNext, PTL DEF Spec

\* A settled request is charged its actual amount and a request that is not
\* settled nothing, by the entries of the ledger about it.
THEOREM ChargedOnce == Spec => []ChargesExact
<1>1. BooksInv => ChargesExact
  BY DEF BooksInv, Books, HoldInv, ChargesExact
<1>2. QED
  BY <1>1, BooksInvInit, BooksInvNext, PTL DEF Spec
=============================================================================
