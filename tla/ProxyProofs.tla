----------------------------- MODULE ProxyProofs -----------------------------
(* Theorems about Proxy for every number of handlers, workers, requests,       *)
(* failures and crashes: the proxy moves money only by the operations of       *)
(* billing, charges a request what its usage event says, and answers normally  *)
(* only for what it has charged.                                               *)
EXTENDS Proxy, WalletProofs

-----------------------------------------------------------------------------
(* The inductive invariant: how the rows of a request and the local states of  *)
(* the handlers that work on it depend on each other.                          *)

\* The record, the event, the reservation and the settlement of a request.
\* Finalize writes the event with the closed record, Reserve and Settle act on
\* what the record and the event say.
RequestLinked(r) ==
    /\ event[r] # NoRow <=> record[r].status \in Terminal
    /\ reservation[r] # NoRow =>
          record[r] # NoRow /\ reservation[r].wallet = record[r].wallet
    /\ settlement[r] # NoRow =>
          /\ event[r] # NoRow
          /\ event[r].held
          /\ settlement[r].actual = event[r].amount

\* What a handler has read stays true while it works: its request has a record,
\* the reservation it believes in exists, and it settles its own event.
StateLinked(c) ==
    /\ c.pc # "idle" => record[c.req] # NoRow
    /\ c.pc = "upstream" /\ c.held => reservation[c.req] # NoRow
    /\ c.pc \in {"settling", "answered"} => event[c.req] = EventOf(c)
    /\ c.pc = "settling" => c.held
    /\ c.pc = "answered" /\ c.held =>
          settlement[c.req] # NoRow /\ settlement[c.req].actual = c.amount

\* Every handler is right about its request.
HandlerLinked(h) == StateLinked(handler[h])

\* A worker only holds settlements that exist.
BatchLinked(k) == \A r \in batch[k] : settlement[r] # NoRow

\* The invariant of the proxy: the wallet's, types, and the links.
ProxyInv ==
    /\ HoldInv
    /\ ProxyTypeOK
    /\ \A r \in Requests : RequestLinked(r)
    /\ \A h \in Handlers : HandlerLinked(h)
    /\ \A k \in Workers : BatchLinked(k)

\* Before the first request there is nothing to link.
LEMMA ProxyInvInit == ProxyInit => ProxyInv
<1> SUFFICES ASSUME ProxyInit PROVE ProxyInv
  OBVIOUS
<1>1. HoldInv
  BY HoldInvInit DEF ProxyInit
<1>2. ProxyTypeOK
  BY ProxyAssumption DEF ProxyInit, ProxyTypeOK, HandlerState
<1>3. ASSUME NEW r \in Requests PROVE RequestLinked(r)
  BY DEF ProxyInit, Init, RequestLinked, NoRow, Terminal
<1>4. ASSUME NEW h \in Handlers PROVE HandlerLinked(h)
  BY DEF ProxyInit, HandlerLinked, StateLinked, Idle
<1>5. ASSUME NEW k \in Workers PROVE BatchLinked(k)
  BY DEF ProxyInit, BatchLinked
<1>6. QED
  BY <1>1, <1>2, <1>3, <1>4, <1>5 DEF ProxyInv

-----------------------------------------------------------------------------
(* What every step keeps.  No transaction of the proxy takes a row back, so    *)
(* what a handler or a worker read in an earlier one is still true.            *)

\* A row stays, and so do a record's wallet, an event, a reservation's wallet
\* and a settlement's amount.
RowsKept ==
    \A r \in Requests :
        /\ record[r] # NoRow =>
              record'[r] # NoRow /\ record'[r].wallet = record[r].wallet
        /\ event[r] # NoRow => event'[r] = event[r]
        /\ reservation[r] # NoRow =>
              reservation'[r] # NoRow /\ reservation'[r].wallet = reservation[r].wallet
        /\ settlement[r] # NoRow =>
              settlement'[r] # NoRow /\ settlement'[r].actual = settlement[r].actual

\* The request a handler works on.
LEMMA HandlerRequest ==
    ASSUME ProxyTypeOK, NEW h \in Handlers, handler[h].pc # "idle"
    PROVE  handler[h].req \in Requests
BY DEF ProxyTypeOK, HandlerState, Idle

\* A handler that did not move is still right about its request.
LEMMA HandlerKept ==
    ASSUME ProxyInv, RowsKept, NEW h \in Handlers, handler'[h] = handler[h]
    PROVE  HandlerLinked(h)'
<1>1. CASE handler[h].pc = "idle"
  BY <1>1 DEF HandlerLinked, StateLinked
<1>2. CASE handler[h].pc # "idle"
  <2>1. PICK c, r : c = handler[h] /\ r = c.req /\ r \in Requests
    BY <1>2, HandlerRequest DEF ProxyInv
  <2>2. /\ record[r] # NoRow
        /\ c.pc = "upstream" /\ c.held => reservation[r] # NoRow
        /\ c.pc \in {"settling", "answered"} => event[r] = EventOf(c)
        /\ c.pc = "settling" => c.held
        /\ c.pc = "answered" /\ c.held =>
              settlement[r] # NoRow /\ settlement[r].actual = c.amount
    BY <1>2, <2>1 DEF ProxyInv, HandlerLinked, StateLinked
  <2>3. EventOf(c) # NoRow
    <3>1. DOMAIN EventOf(c) # DOMAIN NoRow
      BY DEF EventOf, NoRow
    <3>2. QED
      BY <3>1
  <2>4. /\ record'[r] # NoRow
        /\ c.pc = "upstream" /\ c.held => reservation'[r] # NoRow
        /\ c.pc \in {"settling", "answered"} => event'[r] = EventOf(c)
        /\ c.pc = "answered" /\ c.held =>
              settlement'[r] # NoRow /\ settlement'[r].actual = c.amount
    BY <2>1, <2>2, <2>3 DEF RowsKept
  <2>5. handler'[h] = c
    BY <2>1
  <2>6. QED
    BY <2>1, <2>2, <2>4, <2>5 DEF HandlerLinked, StateLinked, EventOf
<1>3. QED
  BY <1>1, <1>2

\* Only handler h moved, and its new state is right about its request.
LEMMA HandlerMoved ==
    ASSUME ProxyInv, RowsKept, NEW h \in Handlers, NEW s \in HandlerState,
           Goto(h, s), StateLinked(s)'
    PROVE  /\ handler' \in [Handlers -> HandlerState]
           /\ \A g \in Handlers : HandlerLinked(g)'
<1>1. /\ handler' \in [Handlers -> HandlerState]
      /\ handler'[h] = s
      /\ \A g \in Handlers \ {h} : handler'[g] = handler[g]
  BY DEF ProxyInv, ProxyTypeOK, Goto
<1>2. HandlerLinked(h)'
  BY <1>1 DEF HandlerLinked, StateLinked, EventOf
<1>3. ASSUME NEW g \in Handlers \ {h} PROVE HandlerLinked(g)'
  BY <1>1, HandlerKept
<1>4. QED
  BY <1>1, <1>2, <1>3

\* A step that leaves the four rows of a request alone leaves them linked.
LEMMA RequestKept ==
    ASSUME ProxyInv, NEW r \in Requests, record'[r] = record[r], event'[r] = event[r],
           reservation'[r] = reservation[r], settlement'[r] = settlement[r]
    PROVE  RequestLinked(r)'
BY DEF ProxyInv, RequestLinked

\* What the workers claimed still exists.
LEMMA BatchKept ==
    ASSUME ProxyInv, RowsKept, NEW k \in Workers, batch'[k] \subseteq batch[k]
    PROVE  BatchLinked(k)'
<1>1. batch[k] \subseteq Requests
  BY DEF ProxyInv, ProxyTypeOK
<1>2. QED
  BY <1>1 DEF ProxyInv, BatchLinked, RowsKept

\* Nothing but a handler, the retry schedule, the batches and the fault counters
\* changed: no row did.
LEMMA NoRowMoved ==
    ASSUME ProxyInv, UNCHANGED <<vars, usageVars>>
    PROVE  /\ [Next]_vars
           /\ RowsKept
           /\ \A r \in Requests : RequestLinked(r)'
           /\ record' \in [Requests -> RecordRow \cup {NoRow}]
           /\ event' \in [Requests -> EventRow \cup {NoRow}]
<1>1. /\ record' = record /\ event' = event /\ reservation' = reservation
      /\ settlement' = settlement /\ vars' = vars
  BY DEF vars, usageVars
<1>2. RowsKept
  BY <1>1 DEF RowsKept
<1>3. \A r \in Requests : RequestLinked(r)'
  BY <1>1, RequestKept
<1>4. QED
  BY <1>1, <1>2, <1>3 DEF ProxyInv, ProxyTypeOK

\* Reserve gives the request of the handler a reservation on its own wallet.
LEMMA ReserveLinks ==
    ASSUME ProxyInv, NEW r \in Requests, record[r] # NoRow,
           NEW a \in Amounts, Reserve(r, record[r].wallet, a), UNCHANGED usageVars
    PROVE  /\ [Next]_vars
           /\ RowsKept
           /\ \A q \in Requests : RequestLinked(q)'
           /\ reservation'[r] # NoRow
<1>1. record[r].wallet \in Wallets
  BY DEF ProxyInv, ProxyTypeOK, RecordRow
<1>2. Next
  BY <1>1 DEF Next, UsageNext
<1>3. /\ record' = record /\ event' = event /\ settlement' = settlement
      /\ reservation[r] = NoRow
      /\ reservation'[r] = [status |-> "reserved", wallet |-> record[r].wallet, amount |-> a]
      /\ \A q \in Requests \ {r} : reservation'[q] = reservation[q]
  BY DEF Reserve, usageVars, ProxyInv, HoldInv, TypeInv, TypeOK
<1>4. reservation'[r] # NoRow /\ reservation'[r].wallet = record[r].wallet
  BY <1>3 DEF NoRow
<1>5. RowsKept
  BY <1>3 DEF RowsKept
<1>6. RequestLinked(r)'
  BY <1>3, <1>4 DEF ProxyInv, RequestLinked
<1>7. ASSUME NEW q \in Requests \ {r} PROVE RequestLinked(q)'
  BY <1>3, RequestKept
<1>8. QED
  BY <1>2, <1>4, <1>5, <1>6, <1>7

\* The transaction of Settle, for the amount of the stored event.
LEMMA SettleTxLinks ==
    ASSUME ProxyInv, NEW r \in Requests, event[r] # NoRow, event[r].held,
           SettleTx(r), UNCHANGED usageVars
    PROVE  /\ [Next]_vars
           /\ RowsKept
           /\ \A q \in Requests : RequestLinked(q)'
           /\ settlement'[r] # NoRow /\ settlement'[r].actual = event[r].amount
           /\ attempt' \in [Requests -> {"none", "waiting", "due", "leased"}]
<1>1. PICK a \in Amounts \cup {0} : a = event[r].amount
  BY DEF ProxyInv, ProxyTypeOK, EventRow
<1>2. record' = record /\ event' = event
  BY DEF usageVars
<1>3. attempt' \in [Requests -> {"none", "waiting", "due", "leased"}]
  BY DEF SettleTx, ProxyInv, ProxyTypeOK
<1>4. CASE Settle(r, a) \/ SettlePending(r, a)
  <2>1. Next
    BY <1>4 DEF Next, UsageNext
  <2>2. Settleable(r, a)
    BY <1>4 DEF Settle, SettlePending
  <2>3. reservation[r] \in ReservationRow /\ reservation[r] # NoRow
    <3>1. reservation[r] \in ReservationRow
      BY <2>2, SettleableReservation DEF ProxyInv, HoldInv
    <3>2. QED
      BY <2>2, <3>1 DEF Settleable, NoRow
  <2>4. /\ settlement'[r] \in {[status |-> "settled", actual |-> a],
                               [status |-> "pending", actual |-> a]}
        /\ reservation'[r].wallet = reservation[r].wallet
        /\ reservation'[r].status \in {"settled", "settlement_pending"}
        /\ \A q \in Requests \ {r} : /\ reservation'[q] = reservation[q]
                                     /\ settlement'[q] = settlement[q]
    BY <1>4, <2>3 DEF Settle, SettlePending, ReservationRow, ProxyInv, HoldInv, TypeInv, TypeOK
  <2>5. settlement'[r] # NoRow /\ settlement'[r].actual = a /\ reservation'[r] # NoRow
    BY <2>4 DEF NoRow
  <2>6. settlement[r] # NoRow => settlement[r].actual = a
    BY <2>2 DEF Settleable
  <2>7. RowsKept
    BY <1>2, <2>4, <2>5, <2>6 DEF RowsKept
  <2>8. RequestLinked(r)'
    BY <1>1, <1>2, <2>3, <2>4, <2>5 DEF ProxyInv, RequestLinked
  <2>9. ASSUME NEW q \in Requests \ {r} PROVE RequestLinked(q)'
    BY <1>2, <2>4, RequestKept
  <2>10. QED
    BY <1>1, <1>3, <2>1, <2>5, <2>7, <2>8, <2>9
<1>5. CASE settlement[r] = [status |-> "settled", actual |-> a] /\ UNCHANGED vars
  <2>1. UNCHANGED <<vars, usageVars>>
    BY <1>5
  <2>2. settlement[r] # NoRow /\ settlement[r].actual = a /\ settlement' = settlement
    BY <1>5 DEF NoRow, vars
  <2>3. QED
    BY <1>1, <1>3, <2>1, <2>2, NoRowMoved
<1>6. QED
  BY <1>1, <1>4, <1>5 DEF SettleTx

\* A recharge touches no request.
LEMMA FundLinks ==
    ASSUME ProxyInv, Fund
    PROVE  /\ [Next]_vars
           /\ RowsKept
           /\ \A r \in Requests : RequestLinked(r)'
<1>1. PICK c \in Credits, w \in Wallets, a \in Amounts : Credit(c, w, a)
  BY DEF Fund
<1>2. Next
  BY <1>1 DEF Next, FundingNext
<1>3. /\ record' = record /\ event' = event
      /\ reservation' = reservation /\ settlement' = settlement
  BY <1>1 DEF Credit, Fund, usageVars
<1>4. RowsKept
  BY <1>3 DEF RowsKept
<1>5. \A r \in Requests : RequestLinked(r)'
  BY <1>3, RequestKept
<1>6. QED
  BY <1>2, <1>4, <1>5

\* BeginRequest inserts a record that is open and has no event, or changes
\* nothing.
LEMMA BeginLinks ==
    ASSUME ProxyInv, NEW r \in Requests, NEW w \in Wallets,
           BeginRequest(r, w), UNCHANGED <<vars, event>>
    PROVE  /\ RowsKept
           /\ \A q \in Requests : RequestLinked(q)'
           /\ record' \in [Requests -> RecordRow \cup {NoRow}]
           /\ record'[r] # NoRow
<1> DEFINE row == [status |-> "open", wallet |-> w]
<1>1. event' = event /\ reservation' = reservation /\ settlement' = settlement
  BY DEF vars
<1>2. row \in RecordRow /\ row # NoRow /\ row.status = "open"
  BY DEF RecordRow, NoRow
<1>3. /\ record[r] = NoRow \/ record[r] = row
      /\ record'[r] = row
      /\ \A q \in Requests \ {r} : record'[q] = record[q]
      /\ record' \in [Requests -> RecordRow \cup {NoRow}]
  BY <1>2 DEF BeginRequest, ProxyInv, ProxyTypeOK
<1>4. record[r].status \notin Terminal /\ record'[r].status \notin Terminal
  BY <1>2, <1>3 DEF NoRow, Terminal
<1>5. RowsKept
  BY <1>1, <1>2, <1>3 DEF RowsKept
<1>6. RequestLinked(r)'
  <2>1. event'[r] = NoRow
    BY <1>1, <1>4 DEF ProxyInv, RequestLinked
  <2>2. reservation[r] # NoRow => record[r] = row /\ reservation[r].wallet = row.wallet
    BY <1>3 DEF ProxyInv, RequestLinked
  <2>3. settlement[r] = NoRow
    BY <1>1, <2>1 DEF ProxyInv, RequestLinked
  <2>4. QED
    BY <1>1, <1>2, <1>3, <1>4, <2>1, <2>2, <2>3 DEF RequestLinked
<1>7. ASSUME NEW q \in Requests \ {r} PROVE RequestLinked(q)'
  BY <1>1, <1>3, RequestKept
<1>8. QED
  BY <1>2, <1>3, <1>5, <1>6, <1>7

\* What a handler knows from the moment it has an outcome to record.
LEMMA ClosingState ==
    ASSUME NEW c \in HandlerState,
           c.pc \in {"closing", "settling", "answered", "unavailable"}
    PROVE  c \in [pc : {"closing", "settling", "answered", "unavailable"},
                  req : Requests, status : Terminal, amount : Amounts \cup {0},
                  held : BOOLEAN, ran : BOOLEAN]
BY DEF HandlerState, Idle

\* Finalize closes an open record and writes its event, or finds that event.
LEMMA FinalizeTxLinks ==
    ASSUME ProxyInv, NEW h \in Handlers, handler[h].pc = "closing",
           FinalizeTx(handler[h]), UNCHANGED vars
    PROVE  /\ RowsKept
           /\ \A q \in Requests : RequestLinked(q)'
           /\ record' \in [Requests -> RecordRow \cup {NoRow}]
           /\ event' \in [Requests -> EventRow \cup {NoRow}]
           /\ event'[handler[h].req] = EventOf(handler[h])
<1>1. PICK c \in HandlerState : c = handler[h]
  BY DEF ProxyInv, ProxyTypeOK
<1>2. /\ c.req \in Requests /\ c.status \in Terminal
      /\ c.amount \in Amounts \cup {0} /\ c.held \in BOOLEAN
  BY <1>1, ClosingState
<1>3. EventOf(c) \in EventRow
  BY <1>2 DEF EventRow, EventOf
<1>4. PICK r, e : /\ c = handler[h] /\ r = c.req /\ r \in Requests
                  /\ e = EventOf(c) /\ e \in EventRow /\ c.status \in Terminal
  BY <1>1, <1>2, <1>3
<1>5. e # NoRow
  <2>1. DOMAIN e # DOMAIN NoRow
    BY <1>4 DEF EventOf, NoRow
  <2>2. QED
    BY <2>1
<1>6. reservation' = reservation /\ settlement' = settlement
  BY DEF vars
<1>7. CASE record[r].status = "open"
  <2>1. /\ record' = [record EXCEPT ![r].status = c.status]
        /\ event' = [event EXCEPT ![r] = e]
    BY <1>4, <1>7 DEF FinalizeTx
  <2>2. record[r] \in RecordRow /\ record[r] # NoRow
    BY <1>4, <1>7 DEF ProxyInv, ProxyTypeOK, NoRow
  <2>3. /\ record'[r] \in RecordRow /\ record'[r].status = c.status
        /\ record'[r].wallet = record[r].wallet
        /\ \A q \in Requests \ {r} : record'[q] = record[q]
        /\ record' \in [Requests -> RecordRow \cup {NoRow}]
    BY <1>4, <2>1, <2>2 DEF RecordRow, ProxyInv, ProxyTypeOK
  <2>4. /\ event'[r] = e
        /\ \A q \in Requests \ {r} : event'[q] = event[q]
        /\ event' \in [Requests -> EventRow \cup {NoRow}]
    BY <1>4, <2>1 DEF ProxyInv, ProxyTypeOK
  <2>5. event[r] = NoRow /\ settlement[r] = NoRow
    BY <1>4, <1>7 DEF ProxyInv, RequestLinked, Terminal
  <2>6. record'[r] # NoRow
    BY <1>4, <2>3 DEF Terminal, NoRow
  <2>7. RowsKept
    BY <1>6, <2>3, <2>4, <2>5, <2>6 DEF RowsKept
  <2>8. RequestLinked(r)'
    BY <1>4, <1>5, <1>6, <2>2, <2>3, <2>4, <2>5, <2>6 DEF ProxyInv, RequestLinked
  <2>9. ASSUME NEW q \in Requests \ {r} PROVE RequestLinked(q)'
    BY <1>6, <2>3, <2>4, RequestKept
  <2>10. QED
    BY <1>4, <2>3, <2>4, <2>7, <2>8, <2>9
<1>8. CASE record[r].status # "open"
  <2>1. event[r] = e /\ UNCHANGED usageVars
    BY <1>4, <1>8 DEF FinalizeTx
  <2>2. QED
    BY <1>4, <2>1, NoRowMoved DEF usageVars
<1>9. QED
  BY <1>7, <1>8

-----------------------------------------------------------------------------
(* The steps of the proxy.  Each is a step of Wallet or leaves the wallet      *)
(* alone, and keeps the types and the links.                                   *)

\* What every step of the proxy is shown to do.
StepSound ==
    /\ [Next]_vars
    /\ ProxyTypeOK'
    /\ \A r \in Requests : RequestLinked(r)'
    /\ \A h \in Handlers : HandlerLinked(h)'
    /\ \A k \in Workers : BatchLinked(k)'

\* What remains to be shown of a step in which one handler moves.
LEMMA HandlerSound ==
    ASSUME ProxyInv, [Next]_vars, RowsKept, \A r \in Requests : RequestLinked(r)',
           record' \in [Requests -> RecordRow \cup {NoRow}],
           event' \in [Requests -> EventRow \cup {NoRow}],
           attempt' \in [Requests -> {"none", "waiting", "due", "leased"}],
           failures' \in 0..MaxFailures, crashes' = crashes, batch' = batch,
           NEW h \in Handlers, NEW s \in HandlerState, Goto(h, s), StateLinked(s)'
    PROVE  StepSound
<1>1. /\ handler' \in [Handlers -> HandlerState]
      /\ \A g \in Handlers : HandlerLinked(g)'
  BY HandlerMoved
<1>2. \A k \in Workers : BatchLinked(k)'
  BY BatchKept
<1>3. ProxyTypeOK'
  BY <1>1 DEF ProxyInv, ProxyTypeOK
<1>4. QED
  BY <1>1, <1>2, <1>3 DEF StepSound

\* The same when no row moves either.
LEMMA LocalSound ==
    ASSUME ProxyInv, UNCHANGED <<vars, usageVars, attempt, batch, crashes>>,
           failures' \in 0..MaxFailures,
           NEW h \in Handlers, NEW s \in HandlerState, Goto(h, s), StateLinked(s)'
    PROVE  StepSound
<1>1. /\ [Next]_vars /\ RowsKept
      /\ \A r \in Requests : RequestLinked(r)'
      /\ record' \in [Requests -> RecordRow \cup {NoRow}]
      /\ event' \in [Requests -> EventRow \cup {NoRow}]
  BY NoRowMoved
<1>2. /\ attempt' \in [Requests -> {"none", "waiting", "due", "leased"}]
      /\ crashes' = crashes /\ batch' = batch
  BY DEF ProxyInv, ProxyTypeOK
<1>3. QED
  BY <1>1, <1>2, HandlerSound

\* A handler starts on a record that is there.
LEMMA BeginSound ==
    ASSUME ProxyInv, NEW h \in Handlers, NEW r \in Requests, NEW w \in Wallets,
           beginUsage(h, r, w)
    PROVE  StepSound
<1>1. PICK s \in HandlerState : s = [pc |-> "started", req |-> r]
  BY DEF HandlerState
<1>2. /\ BeginRequest(r, w) /\ UNCHANGED <<vars, event>> /\ Goto(h, s)
      /\ attempt' = attempt /\ batch' = batch /\ failures' = failures
      /\ crashes' = crashes
  BY <1>1 DEF beginUsage, recoveryVars, faultVars
<1>3. /\ RowsKept
      /\ \A q \in Requests : RequestLinked(q)'
      /\ record' \in [Requests -> RecordRow \cup {NoRow}]
      /\ record'[r] # NoRow
  BY <1>2, BeginLinks
<1>4. StateLinked(s)'
  BY <1>1, <1>3 DEF StateLinked
<1>5. /\ [Next]_vars
      /\ event' \in [Requests -> EventRow \cup {NoRow}]
      /\ attempt' \in [Requests -> {"none", "waiting", "due", "leased"}]
      /\ failures' \in 0..MaxFailures
  BY <1>2 DEF ProxyInv, ProxyTypeOK
<1>6. QED
  BY <1>2, <1>3, <1>4, <1>5, HandlerSound

\* The record of a request whose handler is at work.
LEMMA RecordThere ==
    ASSUME ProxyInv, NEW h \in Handlers, handler[h].pc # "idle"
    PROVE  handler[h].req \in Requests /\ record[handler[h].req] # NoRow
BY HandlerRequest DEF ProxyInv, HandlerLinked, StateLinked

\* An outcome a handler is about to record: nothing is written yet.
LEMMA ClosingLinked ==
    ASSUME NEW r \in Requests, NEW status \in Terminal, NEW amount \in Amounts \cup {0},
           NEW held \in BOOLEAN, NEW ran \in BOOLEAN, record'[r] # NoRow
    PROVE  /\ Closing(r, status, amount, held, ran) \in HandlerState
           /\ StateLinked(Closing(r, status, amount, held, ran))'
<1>1. PICK s : s = Closing(r, status, amount, held, ran)
  OBVIOUS
<1>2. s \in HandlerState
  BY <1>1 DEF HandlerState, Closing
<1>3. s.pc = "closing" /\ s.req = r
  BY <1>1 DEF Closing
<1>4. StateLinked(s)'
  BY <1>3 DEF StateLinked
<1>5. QED
  BY <1>1, <1>2, <1>4 DEF StateLinked, EventOf

\* A handler that reserved nothing prepares to close its request.
LEMMA RefusedState ==
    ASSUME ProxyInv, NEW h \in Handlers, At(h, "started"), RowsKept,
           NEW idle \in Amounts \cup {0}, Refused(h, idle)
    PROVE  \E s \in HandlerState : Goto(h, s) /\ StateLinked(s)'
<1>1. PICK status \in {"failed", "cancelled"} :
         Goto(h, Closing(handler[h].req, status, idle, FALSE, FALSE))
  BY DEF Refused
<1>2. handler[h].req \in Requests /\ record'[handler[h].req] # NoRow
  BY RecordThere DEF At, RowsKept
<1>3. status \in Terminal
  BY DEF Terminal
<1>4. QED
  BY <1>1, <1>2, <1>3, ClosingLinked

\* Route, scheduler or price resolution failed: nothing was written.
LEMMA AbortSound ==
    ASSUME ProxyInv, NEW h \in Handlers, Abort(h)
    PROVE  StepSound
<1>1. /\ At(h, "started") /\ Refused(h, 0)
      /\ UNCHANGED <<vars, usageVars, attempt, batch, crashes>>
      /\ failures' \in 0..MaxFailures
  BY DEF Abort, recoveryVars, faultVars, ProxyInv, ProxyTypeOK
<1>2. RowsKept
  BY <1>1, NoRowMoved
<1>3. PICK s \in HandlerState : Goto(h, s) /\ StateLinked(s)'
  BY <1>1, <1>2, RefusedState
<1>4. QED
  BY <1>1, <1>3, LocalSound

\* Reserve refused: the handler closes with the price of no usage.
LEMMA ReserveRefusedSound ==
    ASSUME ProxyInv, NEW h \in Handlers, NEW p \in Prices, ReserveRefused(h, p)
    PROVE  StepSound
<1>1. /\ At(h, "started") /\ Refused(h, p.idle)
      /\ UNCHANGED <<vars, usageVars, attempt, batch, crashes>>
      /\ failures' \in 0..MaxFailures
  BY DEF ReserveRefused, recoveryVars, faultVars, ProxyInv, ProxyTypeOK
<1>2. RowsKept
  BY <1>1, NoRowMoved
<1>3. p.idle \in Amounts \cup {0}
  BY ProxyAssumption DEF PriceType
<1>4. PICK s \in HandlerState : Goto(h, s) /\ StateLinked(s)'
  BY <1>1, <1>2, <1>3, RefusedState
<1>5. QED
  BY <1>1, <1>4, LocalSound

\* The reservation of a handler: a new one on the wallet of the record, the one
\* that is there, or none for a price of zero.
LEMMA ReserveForLinks ==
    ASSUME ProxyInv, NEW h \in Handlers, NEW p \in Prices, At(h, "started"),
           ReserveFor(h, p), UNCHANGED usageVars
    PROVE  /\ [Next]_vars
           /\ RowsKept
           /\ \A q \in Requests : RequestLinked(q)'
           /\ p.estimate > 0 => reservation'[handler[h].req] # NoRow
<1>1. PICK r \in Requests : r = handler[h].req /\ record[r] # NoRow
  BY RecordThere DEF At
<1>2. PICK a \in Amounts \cup {0} : a = p.estimate
  BY ProxyAssumption DEF PriceType
<1>3. CASE a > 0 /\ Reserve(r, record[r].wallet, a)
  <2>1. a \in Amounts
    BY <1>3
  <2>2. QED
    BY <1>1, <1>2, <1>3, <2>1, ReserveLinks
<1>4. CASE (a > 0 => reservation[r] # NoRow) /\ UNCHANGED vars
  <2>1. UNCHANGED <<vars, usageVars>> /\ reservation' = reservation
    BY <1>4 DEF vars
  <2>2. QED
    BY <1>1, <1>2, <1>4, <2>1, NoRowMoved
<1>5. QED
  BY <1>1, <1>2, <1>3, <1>4 DEF ReserveFor

\* The handler goes upstream with the reservation it holds.
LEMMA ReservedSound ==
    ASSUME ProxyInv, NEW h \in Handlers, NEW p \in Prices, Reserved(h, p)
    PROVE  StepSound
<1>1. PICK r \in Requests : r = handler[h].req /\ record[r] # NoRow
  BY RecordThere DEF Reserved, At
<1>2. PICK s : s = [pc |-> "upstream", req |-> r, price |-> p, held |-> p.estimate > 0]
  OBVIOUS
<1>3. /\ s.pc = "upstream" /\ s.req = r /\ s.held = (p.estimate > 0)
      /\ s \in HandlerState
  BY <1>2 DEF HandlerState
<1>4. /\ At(h, "started") /\ ReserveFor(h, p) /\ Goto(h, s) /\ UNCHANGED usageVars
      /\ record' = record /\ event' = event /\ attempt' = attempt /\ batch' = batch
      /\ failures' = failures /\ crashes' = crashes
  BY <1>1, <1>2 DEF Reserved, usageVars, recoveryVars, faultVars
<1>5. /\ [Next]_vars /\ RowsKept
      /\ \A q \in Requests : RequestLinked(q)'
      /\ p.estimate > 0 => reservation'[r] # NoRow
  BY <1>1, <1>4, ReserveForLinks
<1>6. StateLinked(s)'
  BY <1>1, <1>3, <1>4, <1>5 DEF StateLinked
<1>7. /\ record' \in [Requests -> RecordRow \cup {NoRow}]
      /\ event' \in [Requests -> EventRow \cup {NoRow}]
      /\ attempt' \in [Requests -> {"none", "waiting", "due", "leased"}]
      /\ failures' \in 0..MaxFailures
  BY <1>4 DEF ProxyInv, ProxyTypeOK
<1>8. QED
  BY <1>3, <1>4, <1>5, <1>6, <1>7, HandlerSound

\* What a handler knows while the upstream works.
LEMMA UpstreamState ==
    ASSUME NEW c \in HandlerState, c.pc = "upstream"
    PROVE  c.req \in Requests /\ c.price \in Prices /\ c.held \in BOOLEAN
BY DEF HandlerState, Idle

\* A handler that could not quote the usage returns; nothing was written.
LEMMA QuoteFailsSound ==
    ASSUME ProxyInv, NEW h \in Handlers, QuoteFails(h)
    PROVE  StepSound
<1>1. /\ UNCHANGED <<vars, usageVars, attempt, batch, crashes>>
      /\ failures' \in 0..MaxFailures
  BY DEF QuoteFails, recoveryVars, faultVars, ProxyInv, ProxyTypeOK
<1>2. RowsKept
  BY <1>1, NoRowMoved
<1>3. handler[h].req \in Requests /\ record'[handler[h].req] # NoRow
  BY <1>2, RecordThere DEF QuoteFails, At, RowsKept
<1>4. PICK s : s = [pc |-> "unquoted", req |-> handler[h].req]
  OBVIOUS
<1>5. s \in HandlerState /\ StateLinked(s)'
  BY <1>3, <1>4 DEF HandlerState, StateLinked
<1>6. Goto(h, s)
  BY <1>4 DEF QuoteFails
<1>7. QED
  BY <1>1, <1>5, <1>6, LocalSound

\* Whatever the upstream reports, the handler has an amount of a wallet to
\* close with: a quote, or the reservation that is still there.
LEMMA ExecuteSound ==
    ASSUME ProxyInv, NEW h \in Handlers, Execute(h)
    PROVE  StepSound
<1>1. PICK c \in HandlerState : c = handler[h] /\ c.pc = "upstream"
  BY DEF ProxyInv, ProxyTypeOK, Execute, At
<1>2. PICK r \in Requests, p \in Prices, held \in BOOLEAN :
         r = handler[h].req /\ p = handler[h].price /\ held = handler[h].held
  BY <1>1, UpstreamState
<1>3. record[r] # NoRow /\ (held => reservation[r] # NoRow)
  BY <1>1, <1>2 DEF ProxyInv, HandlerLinked, StateLinked
<1>4. MissingUsageCharge(r, p, held) \in Amounts \cup {0}
  <2>1. reservation[r] # NoRow => reservation[r].amount \in Amounts
    BY DEF ProxyInv, HoldInv, TypeInv, TypeOK, ReservationRow
  <2>2. p.idle \in Amounts \cup {0}
    BY ProxyAssumption DEF PriceType
  <2>3. QED
    BY <1>3, <2>1, <2>2 DEF MissingUsageCharge
<1>5. p.final \subseteq Amounts \cup {0}
  BY ProxyAssumption DEF PriceType
<1>6. PICK status \in Terminal, amount \in Amounts \cup {0} :
         Goto(h, Closing(r, status, amount, held, TRUE))
  BY <1>2, <1>4, <1>5 DEF Execute, Terminal
<1>7. /\ UNCHANGED <<vars, usageVars, attempt, batch, crashes>>
      /\ failures' \in 0..MaxFailures /\ record'[r] # NoRow
  BY <1>3 DEF Execute, usageVars, recoveryVars, faultVars, ProxyInv, ProxyTypeOK
<1>8. /\ Closing(r, status, amount, held, TRUE) \in HandlerState
      /\ StateLinked(Closing(r, status, amount, held, TRUE))'
  BY <1>7, ClosingLinked
<1>9. QED
  BY <1>6, <1>7, <1>8, LocalSound

\* The handler keeps its outcome and moves on to another stage.
Stage(c, pc) == [c EXCEPT !.pc = pc]

\* The outcome a stage keeps.
LEMMA StageState ==
    ASSUME NEW c \in HandlerState,
           c.pc \in {"closing", "settling", "answered", "unavailable"},
           NEW pc \in {"closing", "settling", "answered", "unavailable"}
    PROVE  /\ Stage(c, pc) \in HandlerState
           /\ Stage(c, pc).pc = pc /\ Stage(c, pc).req = c.req
           /\ Stage(c, pc).amount = c.amount /\ Stage(c, pc).held = c.held
           /\ EventOf(Stage(c, pc)) = EventOf(c)
<1> DEFINE s == [c EXCEPT !.pc = pc]
<1>1. c \in [pc : {"closing", "settling", "answered", "unavailable"},
             req : Requests, status : Terminal, amount : Amounts \cup {0},
             held : BOOLEAN, ran : BOOLEAN]
  BY ClosingState
<1>2. /\ s \in [pc : {"closing", "settling", "answered", "unavailable"},
                req : Requests, status : Terminal, amount : Amounts \cup {0},
                held : BOOLEAN, ran : BOOLEAN]
      /\ s.pc = pc /\ s.req = c.req /\ s.amount = c.amount /\ s.held = c.held
      /\ s.status = c.status
  BY <1>1
<1>3. s \in HandlerState
  BY <1>2 DEF HandlerState
<1>4. EventOf(s) = EventOf(c)
  BY <1>2 DEF EventOf
<1>5. QED
  BY <1>2, <1>3, <1>4 DEF Stage

\* A handler that moves between the stages of its outcome: what the new stage
\* relies on is in the books.
LEMMA StageReached ==
    ASSUME ProxyInv, RowsKept, NEW h \in Handlers,
           handler[h].pc \in {"closing", "settling"},
           NEW pc \in {"settling", "answered", "unavailable"},
           Goto(h, [handler[h] EXCEPT !.pc = pc]),
           pc \in {"settling", "answered"} => event'[handler[h].req] = EventOf(handler[h]),
           pc = "settling" => handler[h].held,
           pc = "answered" /\ handler[h].held =>
              /\ settlement'[handler[h].req] # NoRow
              /\ settlement'[handler[h].req].actual = handler[h].amount
    PROVE  \E s \in HandlerState : Goto(h, s) /\ StateLinked(s)'
<1>1. PICK c \in HandlerState : c = handler[h] /\ c.pc \in {"closing", "settling"}
  BY DEF ProxyInv, ProxyTypeOK
<1>2. PICK s : s = Stage(c, pc)
  OBVIOUS
<1>3. /\ s \in HandlerState
      /\ s.pc = pc /\ s.req = c.req /\ s.amount = c.amount /\ s.held = c.held
      /\ EventOf(s) = EventOf(c)
  <2>1. /\ c.pc \in {"closing", "settling", "answered", "unavailable"}
        /\ pc \in {"closing", "settling", "answered", "unavailable"}
    BY <1>1
  <2>2. QED
    BY <1>2, <2>1, StageState
<1>4. record'[c.req] # NoRow
  BY <1>1, RecordThere DEF RowsKept
<1>5. /\ s.pc \in {"settling", "answered"} => event'[s.req] = EventOf(s)
      /\ s.pc = "settling" => s.held
      /\ s.pc = "answered" /\ s.held =>
            settlement'[s.req] # NoRow /\ settlement'[s.req].actual = s.amount
      /\ record'[s.req] # NoRow
  BY <1>1, <1>3, <1>4
<1>6. StateLinked(s)'
  BY <1>3, <1>5 DEF StateLinked, EventOf
<1>7. Goto(h, s)
  BY <1>1, <1>2 DEF Stage
<1>8. QED
  BY <1>3, <1>6, <1>7

\* The event of the handler is written: it settles its reservation, or answers
\* when it has none.
LEMMA FinalizeSound ==
    ASSUME ProxyInv, NEW h \in Handlers, Finalize(h)
    PROVE  StepSound
<1>1. PICK pc \in {"settling", "answered"} :
         pc = IF Settles(handler[h]) THEN "settling" ELSE "answered"
  OBVIOUS
<1>2. /\ handler[h].pc = "closing" /\ FinalizeTx(handler[h]) /\ UNCHANGED vars
      /\ Goto(h, [handler[h] EXCEPT !.pc = pc])
      /\ attempt' = attempt /\ batch' = batch /\ failures' = failures
      /\ crashes' = crashes
  BY <1>1 DEF Finalize, At, recoveryVars, faultVars
<1>3. /\ RowsKept
      /\ \A q \in Requests : RequestLinked(q)'
      /\ record' \in [Requests -> RecordRow \cup {NoRow}]
      /\ event' \in [Requests -> EventRow \cup {NoRow}]
      /\ event'[handler[h].req] = EventOf(handler[h])
  BY <1>2, FinalizeTxLinks
<1>4. /\ pc = "settling" => handler[h].held
      /\ ~(pc = "answered" /\ handler[h].held)
  <2>1. handler[h].held \in BOOLEAN
    BY <1>2, ClosingState DEF ProxyInv, ProxyTypeOK
  <2>2. QED
    BY <1>1, <2>1 DEF Settles
<1>5. PICK s \in HandlerState : Goto(h, s) /\ StateLinked(s)'
  BY <1>2, <1>3, <1>4, StageReached
<1>6. /\ [Next]_vars
      /\ attempt' \in [Requests -> {"none", "waiting", "due", "leased"}]
      /\ failures' \in 0..MaxFailures
  BY <1>2 DEF ProxyInv, ProxyTypeOK
<1>7. QED
  BY <1>2, <1>3, <1>5, <1>6, HandlerSound

\* A handler that gives up relies on nothing.
LEMMA FinalizeRefusedSound ==
    ASSUME ProxyInv, NEW h \in Handlers, FinalizeRefused(h)
    PROVE  StepSound
<1>1. /\ handler[h].pc = "closing"
      /\ Goto(h, [handler[h] EXCEPT !.pc = "unavailable"])
      /\ UNCHANGED <<vars, usageVars, attempt, batch, crashes>>
      /\ failures' \in 0..MaxFailures
  BY DEF FinalizeRefused, At, recoveryVars, faultVars, ProxyInv, ProxyTypeOK
<1>2. RowsKept
  BY <1>1, NoRowMoved
<1>3. PICK s \in HandlerState : Goto(h, s) /\ StateLinked(s)'
  BY <1>1, <1>2, StageReached
<1>4. QED
  BY <1>1, <1>3, LocalSound

\* What the transaction of a settling handler does: it finds its own event, and
\* the settlement it leaves is for that event's amount.
LEMMA HandlerSettles ==
    ASSUME ProxyInv, NEW h \in Handlers, At(h, "settling"),
           SettleTx(handler[h].req), UNCHANGED usageVars
    PROVE  /\ [Next]_vars
           /\ RowsKept
           /\ \A q \in Requests : RequestLinked(q)'
           /\ event'[handler[h].req] = EventOf(handler[h])
           /\ settlement'[handler[h].req] # NoRow
           /\ settlement'[handler[h].req].actual = handler[h].amount
           /\ attempt' \in [Requests -> {"none", "waiting", "due", "leased"}]
<1>1. PICK c, r : c = handler[h] /\ c.pc = "settling" /\ r = c.req /\ r \in Requests
  BY RecordThere DEF At
<1>2. event[r] = EventOf(c) /\ c.held
  BY <1>1 DEF ProxyInv, HandlerLinked, StateLinked
<1>3. event[r] # NoRow /\ event[r].held /\ event[r].amount = c.amount
  <2>1. DOMAIN EventOf(c) # DOMAIN NoRow
    BY DEF EventOf, NoRow
  <2>2. EventOf(c).held = c.held /\ EventOf(c).amount = c.amount
    BY DEF EventOf
  <2>3. EventOf(c) # NoRow
    BY <2>1
  <2>4. QED
    BY <1>2, <2>2, <2>3
<1>4. /\ [Next]_vars /\ RowsKept
      /\ \A q \in Requests : RequestLinked(q)'
      /\ settlement'[r] # NoRow /\ settlement'[r].actual = event[r].amount
      /\ attempt' \in [Requests -> {"none", "waiting", "due", "leased"}]
  BY <1>1, <1>3, SettleTxLinks
<1>5. event' = event
  BY DEF usageVars
<1>6. QED
  BY <1>1, <1>2, <1>3, <1>4, <1>5

\* The handler settles and answers, or meets an overflow and gives up.
LEMMA SettleByHandlerSound ==
    ASSUME ProxyInv, NEW h \in Handlers, SettleByHandler(h)
    PROVE  StepSound
<1>1. /\ At(h, "settling") /\ handler[h].pc \in {"closing", "settling"}
      /\ UNCHANGED usageVars /\ record' = record /\ event' = event
      /\ batch' = batch /\ failures' = failures /\ crashes' = crashes
  BY DEF SettleByHandler, At, usageVars, faultVars
<1>2. /\ record' \in [Requests -> RecordRow \cup {NoRow}]
      /\ event' \in [Requests -> EventRow \cup {NoRow}]
      /\ failures' \in 0..MaxFailures
  BY <1>1 DEF ProxyInv, ProxyTypeOK
<1>3. CASE /\ SettleTx(handler[h].req)
           /\ Goto(h, [handler[h] EXCEPT !.pc = "answered"])
  <2>1. /\ [Next]_vars
        /\ RowsKept
        /\ \A q \in Requests : RequestLinked(q)'
        /\ event'[handler[h].req] = EventOf(handler[h])
        /\ settlement'[handler[h].req] # NoRow
        /\ settlement'[handler[h].req].actual = handler[h].amount
        /\ attempt' \in [Requests -> {"none", "waiting", "due", "leased"}]
    BY <1>1, <1>3, HandlerSettles
  <2>2. PICK s \in HandlerState : Goto(h, s) /\ StateLinked(s)'
    BY <1>1, <1>3, <2>1, StageReached
  <2>3. QED
    BY <1>1, <1>2, <2>1, <2>2, HandlerSound
<1>4. CASE /\ Goto(h, [handler[h] EXCEPT !.pc = "unavailable"])
           /\ UNCHANGED <<vars, attempt>>
  <2>1. UNCHANGED <<vars, usageVars, attempt, batch, crashes>>
    BY <1>1, <1>4
  <2>2. RowsKept
    BY <2>1, NoRowMoved
  <2>3. PICK s \in HandlerState : Goto(h, s) /\ StateLinked(s)'
    BY <1>1, <1>4, <2>2, StageReached
  <2>4. QED
    BY <1>2, <2>1, <2>3, LocalSound
<1>5. QED
  BY <1>3, <1>4 DEF SettleByHandler

\* What remains to be shown of a step that moves no handler.
LEMMA ElsewhereSound ==
    ASSUME ProxyInv, [Next]_vars, RowsKept, \A r \in Requests : RequestLinked(r)',
           record' \in [Requests -> RecordRow \cup {NoRow}],
           event' \in [Requests -> EventRow \cup {NoRow}],
           attempt' \in [Requests -> {"none", "waiting", "due", "leased"}],
           batch' \in [Workers -> SUBSET Requests],
           failures' \in 0..MaxFailures, crashes' \in 0..MaxCrashes,
           handler' = handler, \A k \in Workers : BatchLinked(k)'
    PROVE  StepSound
<1>1. \A h \in Handlers : HandlerLinked(h)'
  BY HandlerKept
<1>2. ProxyTypeOK'
  BY DEF ProxyInv, ProxyTypeOK
<1>3. QED
  BY <1>1, <1>2 DEF StepSound

\* A call of a handler fails, with or without its transaction committed.
LEMMA HandlerFailureSound ==
    ASSUME ProxyInv, NEW h \in Handlers, HandlerFailure(h)
    PROVE  StepSound
<1>1. failures' \in 0..MaxFailures /\ batch' = batch /\ crashes' = crashes
  BY ProxyAssumption DEF HandlerFailure, ProxyInv, ProxyTypeOK
<1>2. CASE /\ At(h, "idle")
           /\ \E r \in Requests, w \in Wallets : BeginRequest(r, w)
           /\ UNCHANGED <<vars, event, handler, attempt>>
  <2>1. PICK r \in Requests, w \in Wallets : BeginRequest(r, w)
    BY <1>2
  <2>2. /\ RowsKept
        /\ \A q \in Requests : RequestLinked(q)'
        /\ record' \in [Requests -> RecordRow \cup {NoRow}]
    BY <1>2, <2>1, BeginLinks
  <2>3. /\ [Next]_vars /\ handler' = handler
        /\ event' \in [Requests -> EventRow \cup {NoRow}]
        /\ attempt' \in [Requests -> {"none", "waiting", "due", "leased"}]
        /\ batch' \in [Workers -> SUBSET Requests]
        /\ crashes' \in 0..MaxCrashes
    BY <1>1, <1>2 DEF ProxyInv, ProxyTypeOK
  <2>4. \A k \in Workers : BatchLinked(k)'
    BY <1>1, <2>2, BatchKept
  <2>5. QED
    BY <1>1, <2>2, <2>3, <2>4, ElsewhereSound
<1>3. CASE /\ At(h, "started")
           /\ \E p \in Prices :
                 /\ p.estimate > 0
                 /\ ReserveFor(h, p) \/ UNCHANGED vars
                 /\ Refused(h, p.idle)
           /\ UNCHANGED <<usageVars, attempt>>
  <2>1. PICK p \in Prices : /\ ReserveFor(h, p) \/ UNCHANGED vars
                            /\ Refused(h, p.idle)
    BY <1>3
  <2>2. /\ [Next]_vars /\ RowsKept
        /\ \A q \in Requests : RequestLinked(q)'
    <3>1. CASE ReserveFor(h, p)
      BY <1>3, <3>1, ReserveForLinks
    <3>2. CASE UNCHANGED vars
      BY <1>3, <3>2, NoRowMoved
    <3>3. QED
      BY <2>1, <3>1, <3>2
  <2>3. p.idle \in Amounts \cup {0}
    BY ProxyAssumption DEF PriceType
  <2>4. PICK s \in HandlerState : Goto(h, s) /\ StateLinked(s)'
    BY <1>3, <2>1, <2>2, <2>3, RefusedState
  <2>5. /\ record' \in [Requests -> RecordRow \cup {NoRow}]
        /\ event' \in [Requests -> EventRow \cup {NoRow}]
        /\ attempt' \in [Requests -> {"none", "waiting", "due", "leased"}]
    BY <1>3 DEF ProxyInv, ProxyTypeOK, usageVars
  <2>6. QED
    BY <1>1, <2>2, <2>4, <2>5, HandlerSound
<1>4. CASE /\ At(h, "closing")
           /\ FinalizeTx(handler[h]) \/ UNCHANGED usageVars
           /\ Goto(h, [handler[h] EXCEPT !.pc = "unavailable"])
           /\ UNCHANGED <<vars, attempt>>
  <2>1. handler[h].pc = "closing"
    BY <1>4 DEF At
  <2>2. /\ RowsKept
        /\ \A q \in Requests : RequestLinked(q)'
        /\ record' \in [Requests -> RecordRow \cup {NoRow}]
        /\ event' \in [Requests -> EventRow \cup {NoRow}]
    <3>1. CASE FinalizeTx(handler[h])
      BY <1>4, <2>1, <3>1, FinalizeTxLinks
    <3>2. CASE UNCHANGED usageVars
      BY <1>4, <3>2, NoRowMoved
    <3>3. QED
      BY <1>4, <3>1, <3>2
  <2>3. PICK s \in HandlerState : Goto(h, s) /\ StateLinked(s)'
    BY <1>4, <2>1, <2>2, StageReached
  <2>4. [Next]_vars /\ attempt' \in [Requests -> {"none", "waiting", "due", "leased"}]
    BY <1>4 DEF ProxyInv, ProxyTypeOK
  <2>5. QED
    BY <1>1, <2>2, <2>3, <2>4, HandlerSound
<1>5. CASE /\ At(h, "settling")
           /\ SettleTx(handler[h].req) \/ UNCHANGED <<vars, attempt>>
           /\ Goto(h, [handler[h] EXCEPT !.pc = "unavailable"])
           /\ UNCHANGED usageVars
  <2>1. handler[h].pc = "settling"
    BY <1>5 DEF At
  <2>2. /\ [Next]_vars /\ RowsKept
        /\ \A q \in Requests : RequestLinked(q)'
        /\ attempt' \in [Requests -> {"none", "waiting", "due", "leased"}]
    <3>1. CASE SettleTx(handler[h].req)
      BY <1>5, <3>1, HandlerSettles
    <3>2. CASE UNCHANGED <<vars, attempt>>
      <4>1. attempt' \in [Requests -> {"none", "waiting", "due", "leased"}]
        BY <3>2 DEF ProxyInv, ProxyTypeOK
      <4>2. QED
        BY <1>5, <3>2, <4>1, NoRowMoved
    <3>3. QED
      BY <1>5, <3>1, <3>2
  <2>3. PICK s \in HandlerState : Goto(h, s) /\ StateLinked(s)'
    BY <1>5, <2>1, <2>2, StageReached
  <2>4. /\ record' \in [Requests -> RecordRow \cup {NoRow}]
        /\ event' \in [Requests -> EventRow \cup {NoRow}]
    BY <1>5 DEF ProxyInv, ProxyTypeOK, usageVars
  <2>5. QED
    BY <1>1, <2>2, <2>3, <2>4, HandlerSound
<1>6. QED
  BY <1>2, <1>3, <1>4, <1>5 DEF HandlerFailure

\* A worker claims settlements that are pending, and so exist.
LEMMA ClaimSound ==
    ASSUME ProxyInv, NEW k \in Workers, ClaimPendingSettlements(k)
    PROVE  StepSound
<1>1. /\ [Next]_vars /\ RowsKept
      /\ \A r \in Requests : RequestLinked(r)'
      /\ record' \in [Requests -> RecordRow \cup {NoRow}]
      /\ event' \in [Requests -> EventRow \cup {NoRow}]
  BY NoRowMoved DEF ClaimPendingSettlements
<1>2. /\ handler' = handler /\ failures' \in 0..MaxFailures /\ crashes' \in 0..MaxCrashes
      /\ settlement' = settlement
  BY DEF ClaimPendingSettlements, faultVars, vars, ProxyInv, ProxyTypeOK
<1>3. attempt' \in [Requests -> {"none", "waiting", "due", "leased"}]
  BY DEF ClaimPendingSettlements, ProxyInv, ProxyTypeOK
<1>4. /\ Due \subseteq Requests
      /\ batch'[k] = Due
      /\ \A j \in Workers \ {k} : batch'[j] = batch[j]
      /\ batch' \in [Workers -> SUBSET Requests]
  BY DEF ClaimPendingSettlements, Due, ProxyInv, ProxyTypeOK
<1>5. BatchLinked(k)'
  BY <1>2, <1>4 DEF BatchLinked, Due, NoRow
<1>6. ASSUME NEW j \in Workers \ {k} PROVE BatchLinked(j)'
  BY <1>1, <1>4, BatchKept
<1>7. QED
  BY <1>1, <1>2, <1>3, <1>4, <1>5, <1>6, ElsewhereSound

\* A worker drops a settlement from its batch.
LEMMA BatchShrinks ==
    ASSUME ProxyInv, RowsKept, NEW k \in Workers, NEW r,
           batch' = [batch EXCEPT ![k] = @ \ {r}]
    PROVE  /\ batch' \in [Workers -> SUBSET Requests]
           /\ \A j \in Workers : BatchLinked(j)'
<1>1. /\ batch' \in [Workers -> SUBSET Requests]
      /\ \A j \in Workers : batch'[j] \subseteq batch[j]
  BY DEF ProxyInv, ProxyTypeOK
<1>2. QED
  BY <1>1, BatchKept

\* A worker settles what it claimed, for the amount of the stored event.
LEMMA RecoverSound ==
    ASSUME ProxyInv, NEW k \in Workers, NEW r \in Requests, RecoverPendingSettlement(k, r)
    PROVE  StepSound
<1>1. /\ SettleTx(r) /\ UNCHANGED usageVars /\ batch' = [batch EXCEPT ![k] = @ \ {r}]
      /\ handler' = handler /\ failures' = failures /\ crashes' = crashes
  BY DEF RecoverPendingSettlement, faultVars
<1>2. event[r] # NoRow /\ event[r].held
  BY DEF RecoverPendingSettlement, ProxyInv, BatchLinked, RequestLinked
<1>3. /\ [Next]_vars /\ RowsKept
      /\ \A q \in Requests : RequestLinked(q)'
      /\ attempt' \in [Requests -> {"none", "waiting", "due", "leased"}]
  BY <1>1, <1>2, SettleTxLinks
<1>4. /\ batch' \in [Workers -> SUBSET Requests]
      /\ \A j \in Workers : BatchLinked(j)'
  BY <1>1, <1>3, BatchShrinks
<1>5. /\ record' \in [Requests -> RecordRow \cup {NoRow}]
      /\ event' \in [Requests -> EventRow \cup {NoRow}]
      /\ failures' \in 0..MaxFailures /\ crashes' \in 0..MaxCrashes
  BY <1>1 DEF ProxyInv, ProxyTypeOK, usageVars
<1>6. QED
  BY <1>1, <1>3, <1>4, <1>5, ElsewhereSound

\* A worker that failed leaves the rows alone.
LEMMA WorkerFailureSound ==
    ASSUME ProxyInv, NEW k \in Workers, NEW r \in Requests, WorkerFailure(k, r)
    PROVE  StepSound
<1>1. /\ [Next]_vars /\ RowsKept
      /\ \A q \in Requests : RequestLinked(q)'
      /\ record' \in [Requests -> RecordRow \cup {NoRow}]
      /\ event' \in [Requests -> EventRow \cup {NoRow}]
  BY NoRowMoved DEF WorkerFailure
<1>2. /\ batch' \in [Workers -> SUBSET Requests]
      /\ \A j \in Workers : BatchLinked(j)'
  BY <1>1, BatchShrinks DEF WorkerFailure
<1>3. attempt' \in [Requests -> {"none", "waiting", "due", "leased"}]
  BY DEF WorkerFailure, ProxyInv, ProxyTypeOK
<1>4. handler' = handler /\ failures' \in 0..MaxFailures /\ crashes' \in 0..MaxCrashes
  BY ProxyAssumption DEF WorkerFailure, ProxyInv, ProxyTypeOK
<1>5. QED
  BY <1>1, <1>2, <1>3, <1>4, ElsewhereSound

\* A retry delay or a lease runs out.
LEMMA TimePassesSound ==
    ASSUME ProxyInv, NEW r \in Requests, TimePasses(r)
    PROVE  StepSound
<1>1. /\ [Next]_vars /\ RowsKept
      /\ \A q \in Requests : RequestLinked(q)'
      /\ record' \in [Requests -> RecordRow \cup {NoRow}]
      /\ event' \in [Requests -> EventRow \cup {NoRow}]
  BY NoRowMoved DEF TimePasses
<1>2. attempt' \in [Requests -> {"none", "waiting", "due", "leased"}]
  BY DEF TimePasses, ProxyInv, ProxyTypeOK
<1>3. /\ handler' = handler /\ failures' \in 0..MaxFailures /\ crashes' \in 0..MaxCrashes
      /\ batch' = batch /\ batch' \in [Workers -> SUBSET Requests]
  BY DEF TimePasses, faultVars, ProxyInv, ProxyTypeOK
<1>4. \A k \in Workers : BatchLinked(k)'
  BY <1>1, <1>3, BatchKept
<1>5. QED
  BY <1>1, <1>2, <1>3, <1>4, ElsewhereSound

\* A recharge.
LEMMA FundSound ==
    ASSUME ProxyInv, Fund
    PROVE  StepSound
<1>1. /\ [Next]_vars /\ RowsKept
      /\ \A q \in Requests : RequestLinked(q)'
  BY FundLinks
<1>2. /\ record' \in [Requests -> RecordRow \cup {NoRow}]
      /\ event' \in [Requests -> EventRow \cup {NoRow}]
      /\ attempt' \in [Requests -> {"none", "waiting", "due", "leased"}]
      /\ handler' = handler /\ failures' \in 0..MaxFailures /\ crashes' \in 0..MaxCrashes
      /\ batch' = batch /\ batch' \in [Workers -> SUBSET Requests]
  BY DEF Fund, usageVars, recoveryVars, faultVars, ProxyInv, ProxyTypeOK
<1>3. \A k \in Workers : BatchLinked(k)'
  BY <1>1, <1>2, BatchKept
<1>4. QED
  BY <1>1, <1>2, <1>3, ElsewhereSound

\* The process dies: its handlers and batches are gone, the rows stay.
LEMMA CrashSound ==
    ASSUME ProxyInv, Crash
    PROVE  StepSound
<1>1. /\ [Next]_vars /\ RowsKept
      /\ \A q \in Requests : RequestLinked(q)'
      /\ record' \in [Requests -> RecordRow \cup {NoRow}]
      /\ event' \in [Requests -> EventRow \cup {NoRow}]
  BY NoRowMoved DEF Crash
<1>2. ProxyTypeOK'
  BY <1>1, ProxyAssumption DEF Crash, ProxyInv, ProxyTypeOK, HandlerState
<1>3. \A h \in Handlers : HandlerLinked(h)'
  BY DEF Crash, HandlerLinked, StateLinked, Idle
<1>4. \A k \in Workers : BatchLinked(k)'
  BY DEF Crash, BatchLinked
<1>5. QED
  BY <1>1, <1>2, <1>3, <1>4 DEF StepSound

\* Nothing happens.
LEMMA StutterSound ==
    ASSUME ProxyInv, UNCHANGED proxyVars
    PROVE  StepSound
<1>1. /\ UNCHANGED <<vars, usageVars>> /\ handler' = handler /\ attempt' = attempt
      /\ batch' = batch /\ failures' = failures /\ crashes' = crashes
  BY DEF proxyVars, recoveryVars, faultVars
<1>2. /\ [Next]_vars /\ RowsKept
      /\ \A q \in Requests : RequestLinked(q)'
      /\ record' \in [Requests -> RecordRow \cup {NoRow}]
      /\ event' \in [Requests -> EventRow \cup {NoRow}]
  BY <1>1, NoRowMoved
<1>3. /\ attempt' \in [Requests -> {"none", "waiting", "due", "leased"}]
      /\ batch' \in [Workers -> SUBSET Requests]
      /\ failures' \in 0..MaxFailures /\ crashes' \in 0..MaxCrashes
  BY <1>1 DEF ProxyInv, ProxyTypeOK
<1>4. \A k \in Workers : BatchLinked(k)'
  BY <1>1, <1>2, BatchKept
<1>5. QED
  BY <1>1, <1>2, <1>3, <1>4, ElsewhereSound

\* Every step of the proxy is a step of the wallet and keeps the invariant.
LEMMA ProxyStep == ProxyInv /\ [ProxyNext]_proxyVars => [Next]_vars /\ ProxyInv'
<1> SUFFICES ASSUME ProxyInv, [ProxyNext]_proxyVars
             PROVE  [Next]_vars /\ ProxyInv'
  OBVIOUS
<1>1. ASSUME NEW h \in Handlers, NEW r \in Requests, NEW w \in Wallets,
             beginUsage(h, r, w)
      PROVE  StepSound
  BY <1>1, BeginSound
<1>2. ASSUME NEW h \in Handlers, HandlerStep(h)
      PROVE  StepSound
  <2>1. CASE Abort(h)
    BY <2>1, AbortSound
  <2>2. CASE \E p \in Prices : Reserved(h, p) \/ ReserveRefused(h, p)
    BY <2>2, ReservedSound, ReserveRefusedSound
  <2>3. CASE Execute(h)
    BY <2>3, ExecuteSound
  <2>4. CASE Finalize(h)
    BY <2>4, FinalizeSound
  <2>5. CASE FinalizeRefused(h)
    BY <2>5, FinalizeRefusedSound
  <2>6. CASE SettleByHandler(h)
    BY <2>6, SettleByHandlerSound
  <2>7. CASE QuoteFails(h)
    BY <2>7, QuoteFailsSound
  <2>8. QED
    BY <1>2, <2>1, <2>2, <2>3, <2>4, <2>5, <2>6, <2>7 DEF HandlerStep
<1>3. ASSUME NEW h \in Handlers, HandlerFailure(h)
      PROVE  StepSound
  BY <1>3, HandlerFailureSound
<1>4. ASSUME NEW k \in Workers, WorkerStep(k)
      PROVE  StepSound
  BY <1>4, ClaimSound, RecoverSound DEF WorkerStep
<1>5. ASSUME NEW k \in Workers, NEW r \in Requests, WorkerFailure(k, r)
      PROVE  StepSound
  BY <1>5, WorkerFailureSound
<1>6. ASSUME NEW r \in Requests, TimePasses(r)
      PROVE  StepSound
  BY <1>6, TimePassesSound
<1>7. StepSound
  BY <1>1, <1>2, <1>3, <1>4, <1>5, <1>6, FundSound, CrashSound, StutterSound DEF ProxyNext
<1>8. HoldInv'
  BY <1>7, HoldInvNext DEF StepSound, ProxyInv
<1>9. QED
  BY <1>7, <1>8 DEF StepSound, ProxyInv

-----------------------------------------------------------------------------
(* Theorems *)

\* The links hold in every reachable state of the proxy.
LEMMA ProxyInvAlways == ProxySpec => []ProxyInv
<1>1. ProxyInv /\ [ProxyNext]_proxyVars => ProxyInv'
  BY ProxyStep
<1>2. QED
  BY <1>1, ProxyInvInit, PTL DEF ProxySpec

\* The proxy implements the wallet: whatever handlers, recovery workers, failed
\* calls and crashes do, the balances, reservations and settlements move by the
\* operations of billing alone, each as one transaction.
THEOREM ProxyImplementsWallet == ProxySpec => ImplementsWallet
<1>1. ProxyInit => Init
  BY DEF ProxyInit
<1>2. ProxyInv /\ [ProxyNext]_proxyVars => [Next]_vars
  BY ProxyStep
<1>3. QED
  BY <1>1, <1>2, ProxyInvAlways, PTL DEF ProxySpec, ImplementsWallet, Spec

\* What is true of every wallet is true of the proxy's, however its requests
\* interleave, fail and crash: the ledger explains the balances, a request is
\* charged once, nothing is reserved in debt, recharges repay the oldest debt
\* first and no settled fact is taken back.
THEOREM ProxyWalletSafe ==
    ProxySpec => /\ []BooksBalance
                 /\ []ChargesExact
                 /\ []FinancialHoldExact
                 /\ NoReservationInDebt
                 /\ OldestDebtFirst
                 /\ FactsAreFinal
BY ProxyImplementsWallet, BooksAlwaysBalance, ChargedOnce, HoldIsExact, NoSpendingInDebt,
   DebtsPaidInOrder, FactsStayFinal, PTL DEF ImplementsWallet

\* A settlement is for the amount of the stored usage event and falls on the
\* wallet of the request's record, although the handler and the workers settle
\* from copies they read in earlier transactions.
THEOREM ChargeFollowsEvent == ProxySpec => []ChargeMatchesEvent
<1>1. ProxyInv => ChargeMatchesEvent
  <2> SUFFICES ASSUME ProxyInv, NEW r \in Requests, settlement[r] # NoRow
               PROVE  /\ event[r] # NoRow
                      /\ event[r].held
                      /\ settlement[r].actual = event[r].amount
                      /\ reservation[r].wallet = record[r].wallet
    BY DEF ChargeMatchesEvent, ProxyInv
  <2>1. reservation[r] # NoRow
    BY DEF ProxyInv, HoldInv, SettlementMatchesReservation, NoRow, TypeInv, TypeOK,
           SettlementRow
  <2>2. QED
    BY <2>1 DEF ProxyInv, RequestLinked
<1>2. QED
  BY <1>1, ProxyInvAlways, PTL

\* A client is answered normally only when the usage event is its handler's own
\* and the charge is settled or durably pending for that amount.
THEOREM AnswerFollowsCharge == ProxySpec => []AnsweredIsCharged
<1>1. ProxyInv => AnsweredIsCharged
  <2> SUFFICES ASSUME ProxyInv, NEW h \in Handlers, At(h, "answered")
               PROVE  /\ event[handler[h].req] = EventOf(handler[h])
                      /\ handler[h].held =>
                            /\ settlement[handler[h].req].status \in {"pending", "settled"}
                            /\ settlement[handler[h].req].actual = handler[h].amount
    BY DEF AnsweredIsCharged
  <2>1. /\ event[handler[h].req] = EventOf(handler[h])
        /\ handler[h].held => /\ settlement[handler[h].req] # NoRow
                              /\ settlement[handler[h].req].actual = handler[h].amount
    BY DEF ProxyInv, HandlerLinked, StateLinked, At
  <2>2. handler[h].req \in Requests
    BY HandlerRequest DEF ProxyInv, At
  <2>3. settlement[handler[h].req] # NoRow =>
           settlement[handler[h].req].status \in {"pending", "settled"}
    BY <2>2 DEF ProxyInv, HoldInv, TypeInv, TypeOK, SettlementRow
  <2>4. QED
    BY <2>1, <2>3
<1>2. QED
  BY <1>1, ProxyInvAlways, PTL
=============================================================================
