---------------------------- MODULE ApiKeyProofs ----------------------------
(* Theorems about ApiKey for every number of keys, models, addresses and       *)
(* requests, any policy an operator assigns and any capacity of the limiter.   *)
EXTENDS ApiKey, FiniteSetTheorems, TLAPS

-----------------------------------------------------------------------------
(* The inductive invariant *)

\* A counter of the limiter.
Count == [requests : Nat, tokens : Nat]

\* A row of api_keys, with the models of its managed policy.
KeyRow ==
    [status : {"active", "revoked"}, version : Nat, expires : Nat,
     ips : SUBSET Addresses, rpm : Nat, tpm : Nat, models : SUBSET Models]

\* A request that has a principal.
Principal ==
    [pc : {"authenticated", "listing"}, key : Keys, version : Nat, rpm : Nat, tpm : Nat]

\* A request that has read the clock in Authorize.
Dated ==
    [pc : {"authorizing", "limiting"}, key : Keys, version : Nat, rpm : Nat,
     tpm : Nat, model : Models, tokens : Nat, at : Minutes]

\* The types of the tables, the limiter and the requests.
InvType ==
    /\ now \in Minutes /\ edits \in 0..MaxEdits /\ requests \in 0..MaxRequests
    /\ limiter \in Limiters
    /\ key \in [Keys -> {NoKey} \cup KeyRow]
    /\ assigned \in Assigned
    /\ offered \subseteq Models
    /\ window \in [Keys \X Minutes -> Count]
    /\ request \in [Requests -> {Idle} \cup Principal \cup Dated]
    /\ admitted \in [Keys -> Count]

\* A retired secret is not the one of its key any more, or the key is revoked.
RetiredGone ==
    \A s \in retired :
        /\ s \in Keys \X Nat
        /\ \/ key[s[1]].status = "revoked" /\ s[2] <= key[s[1]].version
           \/ key[s[1]].status = "active" /\ s[2] < key[s[1]].version

\* No request is dated in a minute to come.
DatedBefore == \A r \in Requests : request[r] \in Dated => request[r].at <= now

\* What the current minute let through was counted in its window.
AdmittedCounted ==
    \A k \in Keys :
        /\ admitted[k].requests <= window[<<k, now>>].requests
        /\ admitted[k].tokens <= window[<<k, now>>].tokens

\* The windows in memory are no more than their limit.
WindowsBounded ==
    limiter = "memory" => IsFiniteSet(Windows) /\ Cardinality(Windows) <= MaxWindows

\* The inductive invariant.
ApiKeyInv ==
    /\ InvType
    /\ RetiredGone
    /\ DatedBefore
    /\ AdmittedCounted
    /\ WindowsBounded

-----------------------------------------------------------------------------
(* The start, and what the steps of others leave alone *)

\* The invariant holds at the start.
LEMMA ApiKeyInvInit == ApiKeyInit => ApiKeyInv
<1> SUFFICES ASSUME ApiKeyInit PROVE ApiKeyInv
  OBVIOUS
<1> USE ApiKeyAssumption DEF ApiKeyInit
<1>1. InvType
  BY DEF InvType, Minutes, Count, NoCount
<1>2. RetiredGone
  BY DEF RetiredGone
<1>3. DatedBefore
  BY DEF DatedBefore, Idle, Dated
<1>4. AdmittedCounted
  <2>1. \A k \in Keys : <<k, now>> \in Keys \X Minutes
    BY DEF Minutes
  <2>2. \A k \in Keys : window[<<k, now>>] = NoCount /\ admitted[k] = NoCount
    BY <2>1
  <2>3. NoCount.requests <= NoCount.requests /\ NoCount.tokens <= NoCount.tokens
    BY DEF NoCount
  <2>4. QED
    BY <2>2, <2>3, Zenon DEF AdmittedCounted
<1>5. WindowsBounded
  <2>1. Windows = {}
    BY DEF Windows, NoCount
  <2>2. QED
    BY <2>1, FS_EmptySet DEF WindowsBounded
<1>6. QED
  BY <1>1, <1>2, <1>3, <1>4, <1>5 DEF ApiKeyInv

\* The owner's edits leave what the limiter and the requests rest on.
LEMMA CountsKept ==
    ASSUME ApiKeyInv, UNCHANGED <<now, limiter, window, request, admitted>>
    PROVE  DatedBefore' /\ AdmittedCounted' /\ WindowsBounded'
<1>1. Windows' = Windows
  BY DEF Windows
<1>2. QED
  BY <1>1 DEF ApiKeyInv, DatedBefore, AdmittedCounted, WindowsBounded

\* Requests leave what is known of retired secrets.
LEMMA RetiredKept ==
    ASSUME ApiKeyInv, UNCHANGED <<key, retired>>
    PROVE  RetiredGone'
BY DEF ApiKeyInv, RetiredGone

-----------------------------------------------------------------------------
(* The owner's edits *)

\* A key that is created has no retired secret yet.
LEMMA CreateKeeps ==
    ASSUME ApiKeyInv, NEW k \in Keys, Create(k)
    PROVE  ApiKeyInv'
<1> USE ApiKeyAssumption
<1>1. InvType /\ RetiredGone
  BY DEF ApiKeyInv
<1>2. PICK p \in Profiles, e \in {None, now, now + 1} :
        key' = [key EXCEPT ![k] = [status |-> "active", version |-> 1, expires |-> e,
                                   ips |-> p.ips, rpm |-> p.rpm, tpm |-> p.tpm,
                                   models |-> p.models]]
  BY DEF Create
<1>3. e \in Nat
  BY <1>1 DEF InvType, Minutes, None
<1>4. [status |-> "active", version |-> 1, expires |-> e, ips |-> p.ips,
       rpm |-> p.rpm, tpm |-> p.tpm, models |-> p.models] \in KeyRow
  BY <1>3 DEF KeyRow
<1>5. InvType'
  BY <1>1, <1>2, <1>4 DEF InvType, Create, Edit, OwnerUnchanged
<1>6. RetiredGone'
  <2>1. \A s \in retired : s[1] # k
    BY <1>1 DEF RetiredGone, Create
  <2>2. \A s \in retired : key'[s[1]] = key[s[1]]
    BY <2>1, <1>1, <1>2 DEF InvType, RetiredGone
  <2>3. QED
    BY <2>2, <1>1 DEF RetiredGone, Create
<1>7. QED
  BY <1>5, <1>6, CountsKept DEF ApiKeyInv, Create, OwnerUnchanged

\* An edit of a row that keeps its status and does not turn back its version.
LEMMA RowEdited ==
    ASSUME ApiKeyInv, NEW k \in Keys, NEW row \in KeyRow,
           key[k] \in KeyRow, key' = [key EXCEPT ![k] = row],
           row.version = key[k].version, retired' = retired,
           row.status = key[k].status
    PROVE  RetiredGone'
<1>1. InvType /\ RetiredGone
  BY DEF ApiKeyInv
<1>2. key'[k] = row /\ \A j \in Keys \ {k} : key'[j] = key[j]
  BY <1>1 DEF InvType
<1>3. QED
  BY <1>1, <1>2 DEF RetiredGone

\* An update changes neither the status nor the version.
LEMMA UpdateKeeps ==
    ASSUME ApiKeyInv, NEW k \in Keys, Update(k)
    PROVE  ApiKeyInv'
<1> USE ApiKeyAssumption
<1>1. InvType /\ RetiredGone
  BY DEF ApiKeyInv
<1>2. key[k] \in KeyRow
  BY <1>1 DEF InvType, Update, Editable, NoKey
<1>3. PICK p \in Profiles,
          e \in {x \in {None, now, now + 1} : validate(x)} \cup {key[k].expires},
          ms \in {key[k].models} \cup {x \in {m.models : m \in Profiles} : requireModels(x)} :
        key' = [key EXCEPT ![k].expires = e, ![k].ips = p.ips, ![k].rpm = p.rpm,
                           ![k].tpm = p.tpm, ![k].models = ms]
  BY DEF Update
<1> DEFINE row == [key[k] EXCEPT !.expires = e, !.ips = p.ips, !.rpm = p.rpm,
                                 !.tpm = p.tpm, !.models = ms]
<1>4. e \in Nat
  BY <1>1, <1>2 DEF InvType, Minutes, None, KeyRow
<1>5. ms \subseteq Models
  BY <1>2 DEF KeyRow
<1>6. row \in KeyRow
  BY <1>2, <1>4, <1>5 DEF KeyRow
<1>7. key' = [key EXCEPT ![k] = row]
  BY <1>1, <1>3 DEF InvType
<1>8. row.version = key[k].version /\ row.status = key[k].status
  BY <1>2 DEF KeyRow
<1> HIDE DEF row
<1>9. InvType'
  <2>1. key' \in [Keys -> {NoKey} \cup KeyRow]
    BY <1>1, <1>6, <1>7 DEF InvType
  <2>2. QED
    BY <1>1, <2>1 DEF InvType, Update, Edit, OwnerUnchanged
<1>10. RetiredGone'
  BY <1>2, <1>6, <1>7, <1>8, RowEdited DEF Update
<1>11. QED
  BY <1>9, <1>10, CountsKept DEF ApiKeyInv, Update, OwnerUnchanged

\* A rotation leaves the retired version behind.
LEMMA RotateKeeps ==
    ASSUME ApiKeyInv, NEW k \in Keys, Rotate(k)
    PROVE  ApiKeyInv'
<1>1. InvType /\ RetiredGone
  BY DEF ApiKeyInv
<1>2. key[k] \in KeyRow /\ key[k].status = "active"
  BY <1>1 DEF InvType, Rotate, Effective, NoKey
<1> DEFINE row == [key[k] EXCEPT !.version = @ + 1]
<1>3. row \in KeyRow /\ row.status = "active" /\ row.version = key[k].version + 1
  BY <1>2 DEF KeyRow
<1>4. key' = [key EXCEPT ![k] = row]
  BY <1>1, <1>2 DEF InvType, Rotate
<1> HIDE DEF row
<1>5. InvType'
  BY ApiKeyAssumption, <1>1, <1>3, <1>4 DEF InvType, Rotate, Edit, OwnerUnchanged
<1>6. RetiredGone'
  <2>1. key'[k] = row /\ \A j \in Keys \ {k} : key'[j] = key[j]
    BY <1>1, <1>4 DEF InvType
  <2>2. retired' = retired \cup {<<k, key[k].version>>} /\ key[k].version \in Nat
    BY <1>2 DEF Rotate, KeyRow
  <2>3. QED
    BY <1>1, <1>2, <1>3, <2>1, <2>2 DEF RetiredGone
<1>7. QED
  BY <1>5, <1>6, CountsKept DEF ApiKeyInv, Rotate, OwnerUnchanged

\* A revoked key has no secret that works.
LEMMA RevokeKeeps ==
    ASSUME ApiKeyInv, NEW k \in Keys, Revoke(k)
    PROVE  ApiKeyInv'
<1>1. InvType /\ RetiredGone
  BY DEF ApiKeyInv
<1>2. key[k] \in KeyRow /\ key[k].status = "active"
  BY <1>1 DEF InvType, Revoke, NoKey
<1> DEFINE row == [key[k] EXCEPT !.status = "revoked"]
<1>3. row \in KeyRow /\ row.status = "revoked" /\ row.version = key[k].version
  BY <1>2 DEF KeyRow
<1>4. key' = [key EXCEPT ![k] = row]
  BY <1>1, <1>2 DEF InvType, Revoke
<1> HIDE DEF row
<1>5. InvType'
  BY ApiKeyAssumption, <1>1, <1>3, <1>4 DEF InvType, Revoke, Edit, OwnerUnchanged
<1>6. RetiredGone'
  <2>1. key'[k] = row /\ \A j \in Keys \ {k} : key'[j] = key[j]
    BY <1>1, <1>4 DEF InvType
  <2>2. retired' = retired \cup {<<k, key[k].version>>} /\ key[k].version \in Nat
    BY <1>2 DEF Revoke, KeyRow
  <2>3. QED
    BY <1>1, <1>2, <1>3, <2>1, <2>2 DEF RetiredGone
<1>7. QED
  BY <1>5, <1>6, CountsKept DEF ApiKeyInv, Revoke, OwnerUnchanged

\* The catalogue's edits concern no secret and no window.
LEMMA OfferKeeps ==
    ASSUME ApiKeyInv, NEW m \in Models, Offer(m)
    PROVE  ApiKeyInv'
<1>1. InvType'
  BY ApiKeyAssumption DEF ApiKeyInv, InvType, Offer, Edit
<1>2. QED
  BY <1>1, CountsKept, RetiredKept DEF ApiKeyInv, Offer

-----------------------------------------------------------------------------
(* Requests before the limiter *)

\* A step of a request that leaves the limiter alone.
LEMMA RequestMoves ==
    ASSUME ApiKeyInv, NEW r \in Requests, NEW next \in {Idle} \cup Principal \cup Dated,
           request' = [request EXCEPT ![r] = next],
           next \in Dated => next.at <= now,
           requests' \in 0..MaxRequests,
           UNCHANGED <<now, limiter, key, assigned, offered, edits, retired,
                       window, admitted>>
    PROVE  ApiKeyInv'
<1>1. InvType /\ DatedBefore /\ AdmittedCounted /\ WindowsBounded
  BY DEF ApiKeyInv
<1>2. request'[r] = next /\ \A q \in Requests \ {r} : request'[q] = request[q]
  BY <1>1 DEF InvType
<1>3. InvType'
  BY <1>1 DEF InvType
<1>4. DatedBefore'
  BY <1>1, <1>2 DEF DatedBefore
<1>5. Windows' = Windows
  BY DEF Windows
<1>6. AdmittedCounted' /\ WindowsBounded'
  BY <1>1, <1>5 DEF AdmittedCounted, WindowsBounded
<1>7. QED
  BY <1>3, <1>4, <1>6, RetiredKept DEF ApiKeyInv

\* A request that is authenticated has a principal.
LEMMA AuthenticateKeeps ==
    ASSUME ApiKeyInv, NEW r \in Requests, Authenticate(r)
    PROVE  ApiKeyInv'
<1>1. InvType
  BY DEF ApiKeyInv
<1>2. PICK k \in Keys :
        /\ Effective(k, now)
        /\ Goes(r, [pc |-> "authenticated", key |-> k, version |-> key[k].version,
                    rpm |-> key[k].rpm, tpm |-> key[k].tpm])
  BY DEF Authenticate
<1>3. key[k] \in KeyRow
  BY <1>1, <1>2 DEF InvType, Effective, NoKey
<1> DEFINE next == [pc |-> "authenticated", key |-> k, version |-> key[k].version,
                    rpm |-> key[k].rpm, tpm |-> key[k].tpm]
<1>4. next \in Principal /\ next \notin Dated
  BY <1>3 DEF KeyRow, Principal, Dated
<1>5. request' = [request EXCEPT ![r] = next]
  BY <1>2 DEF Goes
<1>6. requests' \in 0..MaxRequests
  BY <1>1, ApiKeyAssumption DEF InvType, Authenticate
<1> HIDE DEF next
<1>7. QED
  BY <1>4, <1>5, <1>6, RequestMoves DEF Authenticate, RequestUnchanged

\* A request is dated with the time of its authorization.
LEMMA AuthorizeKeeps ==
    ASSUME ApiKeyInv, NEW r \in Requests, Authorize(r)
    PROVE  ApiKeyInv'
<1>1. InvType
  BY DEF ApiKeyInv
<1>2. request[r] \in Principal
  BY <1>1 DEF InvType, Authorize, Idle, Dated
<1>3. PICK m \in Models, t \in Tokens :
        Goes(r, [pc |-> "authorizing", key |-> request[r].key,
                 version |-> request[r].version, rpm |-> request[r].rpm,
                 tpm |-> request[r].tpm, model |-> m, tokens |-> t, at |-> now])
  BY DEF Authorize
<1> DEFINE next == [pc |-> "authorizing", key |-> request[r].key,
                    version |-> request[r].version, rpm |-> request[r].rpm,
                    tpm |-> request[r].tpm, model |-> m, tokens |-> t, at |-> now]
<1>4. next \in Dated /\ next.at <= now
  BY <1>1, <1>2, ApiKeyAssumption DEF Principal, Dated, InvType, Minutes
<1>5. request' = [request EXCEPT ![r] = next]
  BY <1>3 DEF Goes
<1>6. requests' \in 0..MaxRequests
  BY <1>1 DEF InvType, Authorize
<1> HIDE DEF next
<1>7. QED
  BY <1>4, <1>5, <1>6, RequestMoves DEF Authorize, RequestUnchanged

\* Authorization moves a request on or ends it.
LEMMA authorizeModelKeeps ==
    ASSUME ApiKeyInv, NEW r \in Requests, authorizeModel(r)
    PROVE  ApiKeyInv'
<1>1. InvType /\ DatedBefore
  BY DEF ApiKeyInv
<1>2. request[r] \in Dated /\ request[r].at <= now
  BY <1>1 DEF InvType, authorizeModel, Idle, Principal, DatedBefore
<1>3. requests' \in 0..MaxRequests
  BY <1>1 DEF InvType, authorizeModel
<1>4. CASE Goes(r, [request[r] EXCEPT !.pc = "limiting"])
  <2> DEFINE next == [request[r] EXCEPT !.pc = "limiting"]
  <2>1. next \in Dated /\ next.at <= now
    BY <1>2 DEF Dated
  <2>2. request' = [request EXCEPT ![r] = next]
    BY <1>4 DEF Goes
  <2> HIDE DEF next
  <2>3. QED
    BY <2>1, <2>2, <1>3, RequestMoves DEF authorizeModel, RequestUnchanged
<1>5. CASE Goes(r, Idle)
  <2>1. Idle \notin Dated
    BY DEF Idle, Dated
  <2>2. request' = [request EXCEPT ![r] = Idle]
    BY <1>5 DEF Goes
  <2>3. QED
    BY <2>1, <2>2, <1>3, RequestMoves DEF authorizeModel, RequestUnchanged
<1>6. QED
  BY <1>4, <1>5 DEF authorizeModel

\* A request for the list goes on with the principal it has, or ends.
LEMMA ValidateListingKeeps ==
    ASSUME ApiKeyInv, NEW r \in Requests, ValidateListing(r)
    PROVE  ApiKeyInv'
<1>1. InvType
  BY DEF ApiKeyInv
<1>2. request[r] \in Principal
  BY <1>1 DEF InvType, ValidateListing, Idle, Dated
<1>3. requests' \in 0..MaxRequests
  BY <1>1 DEF InvType, ValidateListing
<1>4. CASE Goes(r, [request[r] EXCEPT !.pc = "listing"])
  <2> DEFINE next == [request[r] EXCEPT !.pc = "listing"]
  <2>1. next \in Principal /\ next \notin Dated
    BY <1>2 DEF Principal, Dated
  <2>2. request' = [request EXCEPT ![r] = next]
    BY <1>4 DEF Goes
  <2> HIDE DEF next
  <2>3. QED
    BY <2>1, <2>2, <1>3, RequestMoves DEF ValidateListing, RequestUnchanged
<1>5. CASE Goes(r, Idle)
  <2>1. Idle \notin Dated
    BY DEF Idle, Dated
  <2>2. request' = [request EXCEPT ![r] = Idle]
    BY <1>5 DEF Goes
  <2>3. QED
    BY <2>1, <2>2, <1>3, RequestMoves DEF ValidateListing, RequestUnchanged
<1>6. QED
  BY <1>4, <1>5 DEF ValidateListing

\* A request that has its list ends.
LEMMA ListAuthorizedModelsKeeps ==
    ASSUME ApiKeyInv, NEW r \in Requests, ListAuthorizedModels(r)
    PROVE  ApiKeyInv'
<1>1. requests' \in 0..MaxRequests
  BY DEF ApiKeyInv, InvType, ListAuthorizedModels
<1>2. Idle \notin Dated
  BY DEF Idle, Dated
<1>3. request' = [request EXCEPT ![r] = Idle]
  BY DEF ListAuthorizedModels, Goes
<1>4. QED
  BY <1>1, <1>2, <1>3, RequestMoves DEF ListAuthorizedModels, RequestUnchanged

-----------------------------------------------------------------------------
(* The limiter *)

\* Adding to a counter.
LEMMA PlusType ==
    ASSUME NEW count \in Count, NEW t \in Nat
    PROVE  /\ Plus(count, t) \in Count
           /\ Plus(count, t).requests = count.requests + 1
           /\ Plus(count, t).tokens = count.tokens + t
BY DEF Plus, Count

\* What a request finds when it reaches the limiter.
LEMMA Limiting ==
    ASSUME ApiKeyInv, NEW r \in Requests, request[r].pc = "limiting"
    PROVE  /\ request[r] \in Dated
           /\ request[r].key \in Keys /\ request[r].at \in Minutes
           /\ request[r].tokens \in Nat
           /\ <<request[r].key, request[r].at>> \in Keys \X Minutes
           /\ window[<<request[r].key, request[r].at>>] \in Count
           /\ request[r].at <= now
<1>1. InvType /\ DatedBefore
  BY DEF ApiKeyInv
<1>2. request[r] \in Dated
  BY <1>1 DEF InvType, Idle, Principal
<1>3. QED
  BY <1>1, <1>2 DEF InvType, DatedBefore, Dated

\* A window that makes room for itself drops none of its own minute, and the
\* ones it keeps are unchanged.
LEMMA KeptWindows ==
    ASSUME ApiKeyInv, NEW w \in Keys \X Minutes
    PROVE  /\ Kept(w) \in [Keys \X Minutes -> Count]
           /\ Kept(w)[w] = window[w]
           /\ \A x \in Keys \X Minutes :
                 /\ x \in Dropped(w) => Kept(w)[x] = NoCount
                 /\ x \notin Dropped(w) => Kept(w)[x] = window[x]
           /\ Dropped(w) \subseteq Windows
           /\ \A x \in Dropped(w) : x[2] # w[2]
<1>1. window \in [Keys \X Minutes -> Count]
  BY DEF ApiKeyInv, InvType
<1>2. Dropped(w) \subseteq Windows /\ \A x \in Dropped(w) : x[2] # w[2]
  BY DEF Dropped, Evicted
<1>3. NoCount \in Count
  BY DEF NoCount, Count
<1>4. QED
  BY <1>1, <1>2, <1>3 DEF Kept

\* What the current minute has let through after windows were dropped was
\* counted in the windows that are left.
LEMMA StillCounted ==
    ASSUME ApiKeyInv, NEW w \in Keys \X Minutes, w[2] <= now
    PROVE  /\ StillAdmitted(w) \in [Keys -> Count]
           /\ \A k \in Keys :
                /\ StillAdmitted(w)[k].requests <= Kept(w)[<<k, now>>].requests
                /\ StillAdmitted(w)[k].tokens <= Kept(w)[<<k, now>>].tokens
<1>1. InvType /\ AdmittedCounted
  BY DEF ApiKeyInv
<1>2. \A k \in Keys : <<k, now>> \in Keys \X Minutes
  BY <1>1 DEF InvType
<1>3. \A k \in Keys : Kept(w)[<<k, now>>] \in Count
  BY <1>2, KeptWindows
<1>4. CASE Forgets(w)
  <2>1. StillAdmitted(w) = [k \in Keys |-> NoCount]
    BY <1>4 DEF StillAdmitted
  <2>2. NoCount \in Count /\ NoCount.requests = 0 /\ NoCount.tokens = 0
    BY DEF NoCount, Count
  <2>3. \A k \in Keys : StillAdmitted(w)[k] = NoCount
    BY <2>1
  <2>4. \A k \in Keys :
          /\ NoCount.requests <= Kept(w)[<<k, now>>].requests
          /\ NoCount.tokens <= Kept(w)[<<k, now>>].tokens
    BY <1>3, <2>2 DEF Count
  <2>5. StillAdmitted(w) \in [Keys -> Count]
    BY <2>1, <2>2
  <2>6. QED
    BY <2>3, <2>4, <2>5, Zenon
<1>5. CASE ~Forgets(w)
  <2>1. StillAdmitted(w) = admitted
    BY <1>5 DEF StillAdmitted
  <2>2. \A k \in Keys : <<k, now>> \notin Dropped(w)
    <3> SUFFICES ASSUME NEW k \in Keys, <<k, now>> \in Dropped(w) PROVE FALSE
      OBVIOUS
    <3>1. w[2] # now
      BY KeptWindows
    <3>2. w[2] < now
      BY <3>1, <1>1 DEF InvType, Minutes
    <3>3. <<k, now>>[2] = now
      OBVIOUS
    <3>4. QED
      BY <3>2, <3>3, <1>5 DEF Forgets
  <2>3. \A k \in Keys : Kept(w)[<<k, now>>] = window[<<k, now>>]
    BY <1>2, <2>2, KeptWindows
  <2>4. QED
    BY <1>1, <2>1, <2>3 DEF AdmittedCounted, InvType
<1>6. QED
  BY <1>4, <1>5

\* A window in memory for which there is room fits.
LEMMA RoomBounded ==
    ASSUME ApiKeyInv, NEW w \in Keys \X Minutes, Room(w), limiter = "memory"
    PROVE  /\ IsFiniteSet((Windows \ Dropped(w)) \cup {w})
           /\ Cardinality((Windows \ Dropped(w)) \cup {w}) <= MaxWindows
<1>1. IsFiniteSet(Windows) /\ Cardinality(Windows) <= MaxWindows
  BY DEF ApiKeyInv, WindowsBounded
<1>2. PICK rest : rest = Windows \ Dropped(w)
  OBVIOUS
<1>3. IsFiniteSet(rest)
  BY <1>1, <1>2, FS_Subset
<1>4. Cardinality(rest) \in Nat /\ MaxWindows \in Nat
  BY <1>3, FS_CardinalityType, ApiKeyAssumption
<1>5. /\ IsFiniteSet(rest \cup {w})
      /\ Cardinality(rest \cup {w}) =
           IF w \in rest THEN Cardinality(rest) ELSE Cardinality(rest) + 1
  BY <1>3, FS_AddElement
<1>6. CASE w \in Windows
  <2>1. Dropped(w) = {}
    BY <1>6 DEF Dropped
  <2>2. rest \cup {w} = Windows
    BY <2>1, <1>2, <1>6
  <2>3. QED
    BY <1>1, <1>2, <2>2
<1>7. CASE w \notin Windows
  <2>1. Cardinality(rest) < MaxWindows
    BY <1>2, <1>7 DEF Room
  <2>2. Cardinality(rest \cup {w}) <= MaxWindows
    BY <2>1, <1>4, <1>5
  <2>3. QED
    BY <2>2, <1>5, <1>2
<1>8. QED
  BY <1>6, <1>7

\* Fewer windows are bounded as well.
LEMMA FewerWindows ==
    ASSUME NEW S, NEW T, T \subseteq S, IsFiniteSet(S), Cardinality(S) <= MaxWindows
    PROVE  IsFiniteSet(T) /\ Cardinality(T) <= MaxWindows
<1>1. IsFiniteSet(T) /\ Cardinality(T) <= Cardinality(S)
  BY FS_Subset
<1>2. Cardinality(T) \in Nat /\ Cardinality(S) \in Nat /\ MaxWindows \in Nat
  BY <1>1, FS_CardinalityType, ApiKeyAssumption
<1>3. QED
  BY <1>1, <1>2

\* A request ends: what a step of the limiter keeps besides its counters.
LEMMA RequestEnds ==
    ASSUME ApiKeyInv, NEW r \in Requests, request[r].pc = "limiting",
           Goes(r, Idle), RequestUnchanged, requests' = requests,
           window' \in [Keys \X Minutes -> Count], admitted' \in [Keys -> Count]
    PROVE  InvType' /\ RetiredGone' /\ DatedBefore'
<1>1. InvType /\ DatedBefore
  BY DEF ApiKeyInv
<1>2. request' = [request EXCEPT ![r] = Idle]
  BY DEF Goes
<1>3. request'[r] = Idle /\ \A q \in Requests \ {r} : request'[q] = request[q]
  BY <1>1, <1>2 DEF InvType
<1>4. InvType'
  BY <1>1, <1>2 DEF InvType, RequestUnchanged
<1>5. DatedBefore'
  BY <1>1, <1>3 DEF DatedBefore, RequestUnchanged, Idle, Dated
<1>6. QED
  BY <1>4, <1>5, RetiredKept DEF RequestUnchanged

\* The request that is counted in its window, admitted or not.
LEMMA CountedKeeps ==
    ASSUME ApiKeyInv, NEW r \in Requests, request[r].pc = "limiting",
           Goes(r, Idle), RequestUnchanged, requests' = requests,
           NEW w, w = <<request[r].key, request[r].at>>,
           NEW count, count = Plus(window[w], request[r].tokens),
           Room(w), window' = [Kept(w) EXCEPT ![w] = count],
           Admit(request[r], StillAdmitted(w)) \/ admitted' = StillAdmitted(w)
    PROVE  /\ ApiKeyInv'
           /\ request[r].at = now =>
                /\ admitted'[request[r].key].requests <= count.requests
                /\ admitted'[request[r].key].tokens <= count.tokens
<1>1. /\ w \in Keys \X Minutes /\ w[1] = request[r].key /\ w[2] = request[r].at
      /\ w[2] <= now /\ window[w] \in Count /\ request[r].tokens \in Nat
      /\ request[r].key \in Keys
  BY Limiting
<1>2. InvType
  BY DEF ApiKeyInv
<1>3. /\ count \in Count /\ count.requests = Kept(w)[w].requests + 1
      /\ count.tokens = Kept(w)[w].tokens + request[r].tokens
  <2>1. Kept(w)[w] = window[w]
    BY <1>1, KeptWindows
  <2>2. QED
    BY <2>1, <1>1, PlusType, ZenonT(60)
<1>4. /\ window' \in [Keys \X Minutes -> Count]
      /\ window'[w] = count
      /\ \A x \in (Keys \X Minutes) \ {w} : window'[x] = Kept(w)[x]
  BY <1>1, <1>3, KeptWindows
<1>5. \A x \in Keys \X Minutes : /\ window'[x].requests >= Kept(w)[x].requests
                                 /\ window'[x].tokens >= Kept(w)[x].tokens
  <2> SUFFICES ASSUME NEW x \in Keys \X Minutes
               PROVE  /\ window'[x].requests >= Kept(w)[x].requests
                      /\ window'[x].tokens >= Kept(w)[x].tokens
    OBVIOUS
  <2>1. Kept(w)[x] \in Count /\ Kept(w)[w] \in Count
    BY <1>1, KeptWindows
  <2>2. QED
    BY <2>1, <1>1, <1>3, <1>4 DEF Count
<1>6. /\ StillAdmitted(w) \in [Keys -> Count]
      /\ \A k \in Keys :
           /\ StillAdmitted(w)[k].requests <= Kept(w)[<<k, now>>].requests
           /\ StillAdmitted(w)[k].tokens <= Kept(w)[<<k, now>>].tokens
  BY <1>1, StillCounted
<1>7. \A k \in Keys : <<k, now>> \in Keys \X Minutes /\ Kept(w)[<<k, now>>] \in Count
  BY <1>1, <1>2, KeptWindows DEF InvType
<1>8. now' = now /\ limiter' = limiter
  BY DEF RequestUnchanged
<1>9. ASSUME admitted' = StillAdmitted(w)
      PROVE  admitted' \in [Keys -> Count] /\ AdmittedCounted'
  <2>1. \A k \in Keys :
          /\ window'[<<k, now>>] \in Count /\ StillAdmitted(w)[k] \in Count
          /\ window'[<<k, now>>].requests >= Kept(w)[<<k, now>>].requests
          /\ window'[<<k, now>>].tokens >= Kept(w)[<<k, now>>].tokens
    BY <1>4, <1>5, <1>6, <1>7
  <2>2. \A k \in Keys :
          /\ admitted'[k].requests <= window'[<<k, now>>].requests
          /\ admitted'[k].tokens <= window'[<<k, now>>].tokens
    <3> SUFFICES ASSUME NEW k \in Keys
                 PROVE  /\ admitted'[k].requests <= window'[<<k, now>>].requests
                        /\ admitted'[k].tokens <= window'[<<k, now>>].tokens
      OBVIOUS
    <3>1. PICK a \in Count : a = StillAdmitted(w)[k]
      BY <2>1
    <3>2. PICK b \in Count : b = Kept(w)[<<k, now>>]
      BY <1>7
    <3>3. PICK c \in Count : c = window'[<<k, now>>]
      BY <2>1
    <3>4. /\ a.requests <= b.requests /\ a.tokens <= b.tokens
          /\ c.requests >= b.requests /\ c.tokens >= b.tokens
      BY <3>1, <3>2, <3>3, <2>1, <1>6
    <3>5. a.requests <= c.requests /\ a.tokens <= c.tokens
      BY <3>4 DEF Count
    <3>6. QED
      BY <3>1, <3>3, <3>5, <1>9
  <2>3. QED
    BY <2>2, <1>6, <1>8, <1>9 DEF AdmittedCounted
<1>10. ASSUME request[r].at = now,
              admitted' = [StillAdmitted(w) EXCEPT ![request[r].key] =
                              Plus(@, request[r].tokens)]
       PROVE  /\ admitted' \in [Keys -> Count] /\ AdmittedCounted'
              /\ admitted'[request[r].key].requests <= count.requests
              /\ admitted'[request[r].key].tokens <= count.tokens
  <2>1. PICK k \in Keys : k = request[r].key
    BY <1>1
  <2>2. w = <<k, now>> /\ StillAdmitted(w)[k] \in Count
    BY <2>1, <1>6, <1>10
  <2>3. PICK new \in Count : new = Plus(StillAdmitted(w)[k], request[r].tokens)
    BY <2>2, <1>1, PlusType
  <2>4. /\ new.requests = StillAdmitted(w)[k].requests + 1
        /\ new.tokens = StillAdmitted(w)[k].tokens + request[r].tokens
    BY <2>2, <2>3, <1>1, PlusType
  <2>5. admitted' = [StillAdmitted(w) EXCEPT ![k] = new]
    BY <2>1, <2>3, <1>10
  <2>6. /\ admitted' \in [Keys -> Count] /\ admitted'[k] = new
        /\ \A j \in Keys \ {k} : admitted'[j] = StillAdmitted(w)[j]
    BY <2>5, <1>6
  <2>7. new.requests <= count.requests /\ new.tokens <= count.tokens
    BY <2>2, <2>4, <1>1, <1>3, <1>6, <1>7, SMTT(60) DEF Count
  <2>8. \A j \in Keys \ {k} :
          /\ admitted'[j].requests <= window'[<<j, now>>].requests
          /\ admitted'[j].tokens <= window'[<<j, now>>].tokens
    <3> SUFFICES ASSUME NEW j \in Keys \ {k}
                 PROVE  /\ admitted'[j].requests <= window'[<<j, now>>].requests
                        /\ admitted'[j].tokens <= window'[<<j, now>>].tokens
      OBVIOUS
    <3>1. <<j, now>> # w
      BY <2>2
    <3>2. window'[<<j, now>>] = Kept(w)[<<j, now>>]
      BY <3>1, <1>4, <1>7
    <3>3. QED
      BY <3>2, <2>6, <1>6
  <2>9. \A j \in Keys :
          /\ admitted'[j].requests <= window'[<<j, now>>].requests
          /\ admitted'[j].tokens <= window'[<<j, now>>].tokens
    <3> SUFFICES ASSUME NEW j \in Keys
                 PROVE  /\ admitted'[j].requests <= window'[<<j, now>>].requests
                        /\ admitted'[j].tokens <= window'[<<j, now>>].tokens
      OBVIOUS
    <3>1. CASE j = k
      BY <3>1, <2>2, <2>6, <2>7, <1>4
    <3>2. CASE j # k
      BY <3>2, <2>8
    <3>3. QED
      BY <3>1, <3>2
  <2>10. QED
    BY <2>1, <2>6, <2>7, <2>9, <1>8 DEF AdmittedCounted
<1>11. admitted' \in [Keys -> Count] /\ AdmittedCounted'
  BY <1>9, <1>10 DEF Admit
<1>12. WindowsBounded'
  <2>1. SUFFICES ASSUME limiter = "memory"
                 PROVE  IsFiniteSet(Windows') /\ Cardinality(Windows') <= MaxWindows
    BY <1>8 DEF WindowsBounded
  <2>2. Windows' \subseteq (Windows \ Dropped(w)) \cup {w}
    <3> SUFFICES ASSUME NEW x \in Keys \X Minutes, window'[x].requests > 0, x # w
                 PROVE  x \in Windows /\ x \notin Dropped(w)
      BY DEF Windows
    <3>1. Kept(w)[x].requests > 0
      BY <1>4
    <3>2. x \notin Dropped(w)
      BY <3>1, <1>1, KeptWindows DEF NoCount
    <3>3. QED
      BY <3>1, <3>2, <1>1, KeptWindows DEF Windows
  <2>3. QED
    <3>1. PICK S : S = (Windows \ Dropped(w)) \cup {w}
      OBVIOUS
    <3>2. IsFiniteSet(S) /\ Cardinality(S) <= MaxWindows
      BY <3>1, <2>1, <1>1, RoomBounded
    <3>3. Windows' \subseteq S
      BY <2>2, <3>1
    <3>4. QED
      BY <3>2, <3>3, FewerWindows
<1>13. InvType' /\ RetiredGone' /\ DatedBefore'
  BY <1>4, <1>11, RequestEnds
<1>14. ASSUME request[r].at = now
       PROVE  /\ admitted'[request[r].key].requests <= count.requests
              /\ admitted'[request[r].key].tokens <= count.tokens
  <2>1. CASE Admit(request[r], StillAdmitted(w))
    BY <2>1, <1>10, <1>14 DEF Admit
  <2>2. CASE admitted' = StillAdmitted(w)
    <3>1. PICK k \in Keys : k = request[r].key
      BY <1>1
    <3>2. w = <<k, now>> /\ window'[w] = count
      BY <3>1, <1>4, <1>14
    <3>3. admitted'[k].requests <= window'[<<k, now>>].requests /\
          admitted'[k].tokens <= window'[<<k, now>>].tokens
      BY <1>8, <1>11 DEF AdmittedCounted
    <3>4. QED
      BY <3>1, <3>2, <3>3
  <2>3. QED
    BY <2>1, <2>2
<1>15. QED
  BY <1>11, <1>12, <1>13, <1>14 DEF ApiKeyInv

\* Counting a request keeps the invariant, whichever way it ends.
LEMMA AllowKeeps ==
    ASSUME ApiKeyInv, NEW r \in Requests, Allow(r)
    PROVE  ApiKeyInv'
<1> DEFINE w == <<request[r].key, request[r].at>>
<1>1. /\ request[r].pc = "limiting" /\ Goes(r, Idle) /\ RequestUnchanged
      /\ requests' = requests
  BY DEF Allow
<1>2. w \in Keys \X Minutes /\ w[2] <= now
  BY <1>1, Limiting
<1>3. InvType /\ now' = now /\ limiter' = limiter
  BY <1>1 DEF ApiKeyInv, RequestUnchanged
<1>4. CASE UNCHANGED <<window, admitted>>
  <2>1. AdmittedCounted' /\ WindowsBounded'
    BY <1>3, <1>4 DEF ApiKeyInv, AdmittedCounted, WindowsBounded, Windows
  <2>2. InvType' /\ RetiredGone' /\ DatedBefore'
    BY <1>1, <1>3, <1>4, RequestEnds DEF InvType
  <2>3. QED
    BY <2>1, <2>2 DEF ApiKeyInv
<1>5. CASE /\ Room(w) /\ window' = [Kept(w) EXCEPT ![w] = Plus(window[w], request[r].tokens)]
           /\ Admit(request[r], StillAdmitted(w)) \/ admitted' = StillAdmitted(w)
  <2>1. PICK v : v = w
    OBVIOUS
  <2>2. PICK count : count = Plus(window[v], request[r].tokens)
    OBVIOUS
  <2>3. Room(v) /\ window' = [Kept(v) EXCEPT ![v] = count]
    BY <2>1, <2>2, <1>5
  <2>4. Admit(request[r], StillAdmitted(v)) \/ admitted' = StillAdmitted(v)
    BY <2>1, <1>5
  <2>5. QED
    BY <1>1, <2>1, <2>2, <2>3, <2>4, CountedKeeps
<1>6. CASE window' = Kept(w) /\ admitted' = StillAdmitted(w)
  <2>1. PICK v \in Keys \X Minutes : v = w
    BY <1>2
  <2> HIDE DEF w
  <2>2. window' = Kept(v) /\ admitted' = StillAdmitted(v) /\ v[2] <= now
    BY <2>1, <1>2, <1>6
  <2>3. window' \in [Keys \X Minutes -> Count] /\ admitted' \in [Keys -> Count]
    BY <2>2, KeptWindows, StillCounted
  <2>4. AdmittedCounted'
    BY <2>2, <1>3, StillCounted DEF AdmittedCounted
  <2>5. Windows' \subseteq Windows
    <3> SUFFICES ASSUME NEW x \in Keys \X Minutes, window'[x].requests > 0
                 PROVE  window[x].requests > 0
      BY DEF Windows
    <3>1. x \notin Dropped(v)
      BY <2>2, KeptWindows DEF NoCount
    <3>2. QED
      BY <3>1, <2>2, KeptWindows
  <2>6. WindowsBounded'
    BY <2>5, <1>3, FewerWindows DEF ApiKeyInv, WindowsBounded
  <2>7. QED
    BY <2>3, <2>4, <2>6, <1>1, RequestEnds DEF ApiKeyInv
<1>7. QED
  BY <1>4, <1>5, <1>6 DEF Allow

\* Redis has no capacity to keep within.
LEMMA UnavailableKeeps ==
    ASSUME ApiKeyInv, NEW r \in Requests, Unavailable(r)
    PROVE  ApiKeyInv'
<1>1. /\ request[r].pc = "limiting" /\ Goes(r, Idle) /\ RequestUnchanged
      /\ requests' = requests /\ limiter = "redis" /\ admitted' = admitted
  BY DEF Unavailable
<1>2. InvType /\ AdmittedCounted /\ now' = now /\ limiter' = limiter
  BY <1>1 DEF ApiKeyInv, RequestUnchanged
<1>3. PICK w \in Keys \X Minutes : w = <<request[r].key, request[r].at>>
  BY <1>1, Limiting
<1>4. PICK count \in Count : count = Plus(window[w], request[r].tokens)
  BY <1>1, <1>3, Limiting, PlusType
<1>5. window' = window \/ window' = [window EXCEPT ![w] = count]
  BY <1>3, <1>4 DEF Unavailable
<1>6. window' \in [Keys \X Minutes -> Count]
  BY <1>2, <1>4, <1>5 DEF InvType
<1>7. \A x \in Keys \X Minutes : /\ window'[x].requests >= window[x].requests
                                 /\ window'[x].tokens >= window[x].tokens
  <2> SUFFICES ASSUME NEW x \in Keys \X Minutes
               PROVE  /\ window'[x].requests >= window[x].requests
                      /\ window'[x].tokens >= window[x].tokens
    OBVIOUS
  <2>1. window[x] \in Count
    BY <1>2 DEF InvType
  <2>2. CASE window'[x] = window[x]
    BY <2>1, <2>2 DEF Count
  <2>3. CASE x = w /\ window'[x] = count
    <3>1. request[r].tokens \in Nat
      BY <1>1, Limiting
    <3>2. count.requests = window[w].requests + 1 /\
          count.tokens = window[w].tokens + request[r].tokens
      <4>1. PICK c \in Count : c = window[w]
        BY <2>1, <2>3
      <4>2. count = Plus(c, request[r].tokens)
        BY <4>1, <1>4
      <4>3. QED
        BY <4>1, <4>2, <3>1, PlusType
    <3>3. QED
      BY <2>1, <2>3, <3>1, <3>2 DEF Count
  <2>4. QED
    BY <2>2, <2>3, <1>2, <1>5 DEF InvType
<1>8. AdmittedCounted'
  <2> SUFFICES ASSUME NEW k \in Keys
               PROVE  /\ admitted[k].requests <= window'[<<k, now>>].requests
                      /\ admitted[k].tokens <= window'[<<k, now>>].tokens
    BY <1>1, <1>2 DEF AdmittedCounted
  <2>1. PICK x \in Keys \X Minutes : x = <<k, now>>
    BY <1>2 DEF InvType
  <2>2. admitted[k] \in Count /\ window[x] \in Count /\ window'[x] \in Count
    BY <1>2, <1>6 DEF InvType
  <2>3. admitted[k].requests <= window[x].requests /\ admitted[k].tokens <= window[x].tokens
    BY <2>1, <1>2 DEF AdmittedCounted
  <2>4. QED
    BY <2>1, <2>2, <2>3, <1>7 DEF Count
<1>9. WindowsBounded'
  BY <1>1, <1>2 DEF WindowsBounded
<1>10. InvType' /\ RetiredGone' /\ DatedBefore'
  BY <1>1, <1>2, <1>6, RequestEnds DEF InvType
<1>11. QED
  BY <1>8, <1>9, <1>10 DEF ApiKeyInv

\* Redis forgets past minutes only.
LEMMA ExpireKeeps ==
    ASSUME ApiKeyInv, NEW w \in Keys \X Minutes, Expire(w)
    PROVE  ApiKeyInv'
<1>1. /\ limiter = "redis" /\ w[2] < now /\ UNCHANGED <<request, requests, admitted>>
      /\ UNCHANGED <<now, limiter, key, assigned, offered, edits, retired>>
      /\ window' = [window EXCEPT ![w] = NoCount]
  BY DEF Expire, RequestUnchanged
<1>2. InvType /\ DatedBefore /\ AdmittedCounted
  BY DEF ApiKeyInv
<1>3. NoCount \in Count
  BY DEF NoCount, Count
<1>4. InvType'
  BY <1>1, <1>2, <1>3 DEF InvType
<1>5. \A k \in Keys : window'[<<k, now>>] = window[<<k, now>>]
  <2> SUFFICES ASSUME NEW k \in Keys PROVE window'[<<k, now>>] = window[<<k, now>>]
    OBVIOUS
  <2>1. <<k, now>> # w
    BY <1>1, <1>2 DEF InvType, Minutes
  <2>2. QED
    BY <2>1, <1>1, <1>2 DEF InvType
<1>6. AdmittedCounted'
  BY <1>1, <1>2, <1>5 DEF AdmittedCounted
<1>7. DatedBefore' /\ WindowsBounded'
  BY <1>1, <1>2 DEF DatedBefore, WindowsBounded
<1>8. QED
  BY <1>1, <1>4, <1>6, <1>7, RetiredKept DEF ApiKeyInv

\* Counters that start again at nothing.
LEMMA NothingAdmitted ==
    ASSUME ApiKeyInv, now' \in Minutes, window' \in [Keys \X Minutes -> Count],
           admitted' = [k \in Keys |-> NoCount]
    PROVE  AdmittedCounted' /\ admitted' \in [Keys -> Count]
<1>1. NoCount \in Count /\ NoCount.requests = 0 /\ NoCount.tokens = 0
  BY DEF NoCount, Count
<1>2. \A k \in Keys : admitted'[k] = NoCount /\ window'[<<k, now'>>] \in Count
  OBVIOUS
<1>3. \A k \in Keys :
        /\ NoCount.requests <= window'[<<k, now'>>].requests
        /\ NoCount.tokens <= window'[<<k, now'>>].tokens
  <2> SUFFICES ASSUME NEW k \in Keys
               PROVE  /\ NoCount.requests <= window'[<<k, now'>>].requests
                      /\ NoCount.tokens <= window'[<<k, now'>>].tokens
    OBVIOUS
  <2>1. PICK c \in Count : c = window'[<<k, now'>>]
    BY <1>2
  <2>2. 0 <= c.requests /\ 0 <= c.tokens
    BY DEF Count
  <2>3. QED
    BY <2>1, <2>2, <1>1
<1>4. AdmittedCounted'
  BY <1>2, <1>3, Zenon DEF AdmittedCounted
<1>5. QED
  BY <1>1, <1>4

\* A restart ends the requests and may empty the counters.
LEMMA RestartKeeps ==
    ASSUME ApiKeyInv, Restart
    PROVE  ApiKeyInv'
<1>1. /\ UNCHANGED <<now, limiter, key, assigned, offered, edits, retired, requests>>
      /\ request' = [r \in Requests |-> Idle]
  BY DEF Restart, RequestUnchanged
<1>2. InvType /\ AdmittedCounted /\ WindowsBounded
  BY DEF ApiKeyInv
<1>3. DatedBefore'
  BY <1>1 DEF DatedBefore, Idle, Dated
<1>4. CASE UNCHANGED <<window, admitted>>
  <2>1. InvType' /\ AdmittedCounted' /\ WindowsBounded'
    BY <1>1, <1>2, <1>4 DEF InvType, AdmittedCounted, WindowsBounded, Windows
  <2>2. QED
    BY <2>1, <1>1, <1>3, RetiredKept DEF ApiKeyInv
<1>5. CASE /\ window' = [w \in Keys \X Minutes |-> NoCount]
           /\ admitted' = [k \in Keys |-> NoCount]
  <2>1. NoCount \in Count
    BY DEF NoCount, Count
  <2>2. window' \in [Keys \X Minutes -> Count]
    BY <2>1, <1>5
  <2>3. AdmittedCounted' /\ admitted' \in [Keys -> Count]
    BY <2>2, <1>1, <1>2, <1>5, NothingAdmitted DEF InvType
  <2>4. InvType'
    BY <2>2, <2>3, <1>1, <1>2 DEF InvType
  <2>5. Windows' = {}
    BY <1>5 DEF Windows, NoCount
  <2>6. WindowsBounded'
    BY <2>5, FS_EmptySet, ApiKeyAssumption DEF WindowsBounded
  <2>7. QED
    BY <2>3, <2>4, <2>6, <1>1, <1>3, RetiredKept DEF ApiKeyInv
<1>6. QED
  BY <1>4, <1>5 DEF Restart

\* A new minute has let nothing through.
LEMMA TickKeeps ==
    ASSUME ApiKeyInv, Tick
    PROVE  ApiKeyInv'
<1>1. /\ UNCHANGED <<limiter, key, assigned, offered, window, request, edits, requests,
                     retired>>
      /\ now < MaxTime /\ now' = now + 1 /\ admitted' = [k \in Keys |-> NoCount]
  BY DEF Tick
<1>2. InvType /\ DatedBefore /\ WindowsBounded
  BY DEF ApiKeyInv
<1>3. now' \in Minutes
  BY <1>1, <1>2, ApiKeyAssumption DEF InvType, Minutes
<1>4. window' \in [Keys \X Minutes -> Count]
  BY <1>1, <1>2 DEF InvType
<1>5. AdmittedCounted' /\ admitted' \in [Keys -> Count]
  BY <1>1, <1>3, <1>4, NothingAdmitted
<1>6. InvType'
  BY <1>1, <1>2, <1>3, <1>5 DEF InvType
<1>7. DatedBefore'
  BY <1>1, <1>2, <1>3 DEF DatedBefore, InvType, Minutes, Dated
<1>8. WindowsBounded'
  BY <1>1, <1>2 DEF WindowsBounded, Windows
<1>9. QED
  BY <1>1, <1>5, <1>6, <1>7, <1>8, RetiredKept DEF ApiKeyInv

\* Every step keeps the invariant.
LEMMA ApiKeyInvNext ==
    ASSUME ApiKeyInv, [ApiKeyNext]_vars
    PROVE  ApiKeyInv'
<1>1. CASE UNCHANGED vars
  BY <1>1, CountsKept, RetiredKept DEF vars, ApiKeyInv, InvType
<1>2. CASE ApiKeyNext
  BY <1>2, CreateKeeps, UpdateKeeps, RotateKeeps, RevokeKeeps, OfferKeeps,
     AuthenticateKeeps, AuthorizeKeeps, authorizeModelKeeps, AllowKeeps,
     ValidateListingKeeps, ListAuthorizedModelsKeeps,
     UnavailableKeeps, ExpireKeeps, RestartKeeps, TickKeeps DEF ApiKeyNext
<1>3. QED
  BY <1>1, <1>2

\* The invariant holds in every reachable state.
LEMMA ApiKeyInvAlways == ApiKeySpec => []ApiKeyInv
<1>1. ApiKeyInv /\ [ApiKeyNext]_vars => ApiKeyInv'
  BY ApiKeyInvNext
<1>2. QED
  BY <1>1, ApiKeyInvInit, PTL DEF ApiKeySpec

-----------------------------------------------------------------------------
(* The theorems *)

\* The two loops over policies agree: a model is listed exactly when a request
\* for it is authorized (listAuthorizedModels, authorizeModel).
LEMMA ListedExactly ==
    ASSUME ApiKeyInv, NEW k \in Keys
    PROVE  listAuthorizedModels(k) = {m \in Models : Authorized(k, m)}
<1>1. offered \subseteq Models
  BY DEF ApiKeyInv, InvType
<1>2. QED
  BY <1>1 DEF listAuthorizedModels, Authorized

\* For any keys, policies and edits, the list of models of a key is exactly what
\* its requests are let through to, and the limiter in memory never holds more
\* windows than its capacity (listAuthorizedModels, memoryLimiter.Allow).
THEOREM ListIsAuthorized == ApiKeySpec => []ListedIsAuthorized
<1>1. ApiKeyInv => ListedIsAuthorized
  <2> SUFFICES ASSUME ApiKeyInv PROVE ListedIsAuthorized
    OBVIOUS
  <2>1. InvType /\ WindowsBounded
    BY DEF ApiKeyInv
  <2>2. \A k \in Keys : key[k].status \in {"none", "active", "revoked"}
    BY <2>1 DEF InvType, NoKey, KeyRow
  <2>3. \A w \in Keys \X Minutes : window[w] \in [requests : Nat, tokens : Nat]
    BY <2>1 DEF InvType, Count
  <2>4. \A r \in Requests :
          request[r].pc \in {"idle", "authenticated", "authorizing", "limiting", "listing"}
    BY <2>1 DEF InvType, Idle, Principal, Dated
  <2>5. ApiKeyTypeOK
    BY <2>1, <2>2, <2>3, <2>4 DEF InvType, WindowsBounded, ApiKeyTypeOK
  <2>6. QED
    BY <2>5, ListedExactly DEF ListedIsAuthorized
<1>2. QED
  BY <1>1, ApiKeyInvAlways, PTL

\* What a request that gets on shows is the current secret of an active key.
LEMMA NotRetired ==
    ASSUME ApiKeyInv, NEW k \in Keys, NEW v, key[k].status = "active", key[k].version = v
    PROVE  <<k, v>> \notin retired
<1> SUFFICES ASSUME <<k, v>> \in retired PROVE FALSE
  OBVIOUS
<1>1. PICK s \in retired : s = <<k, v>>
  OBVIOUS
<1>2. key[k] \in KeyRow
  BY DEF ApiKeyInv, InvType, NoKey
<1>3. s[1] = k /\ s[2] = v /\ v \in Nat
  BY <1>1, <1>2 DEF KeyRow
<1>4. v < key[k].version
  BY <1>3 DEF ApiKeyInv, RetiredGone
<1>5. QED
  BY <1>3, <1>4

\* Only three steps let a request get on with a secret.
LEMMA RequestsGetOn ==
    ASSUME ApiKeyInv, [ApiKeyNext]_vars, NEW r \in Requests,
           request'[r] # request[r],
           request'[r].pc \in {"authenticated", "limiting", "listing"}
    PROVE  Authenticate(r) \/ authorizeModel(r) \/ ValidateListing(r)
<1>1. request \in [Requests -> {Idle} \cup Principal \cup Dated]
  BY DEF ApiKeyInv, InvType
<1>2. request'[r] # request[r] /\ request'[r] # Idle
  BY DEF Idle
<1>3. PICK q \in Requests :
        \/ Authenticate(q) \/ Authorize(q) \/ authorizeModel(q) \/ Allow(q) \/ Unavailable(q)
        \/ ValidateListing(q) \/ ListAuthorizedModels(q)
  BY <1>1, <1>2 DEF ApiKeyNext, vars, Create, Update, Rotate, Revoke, Offer,
     OwnerUnchanged, Expire, RequestUnchanged, Restart, Tick
<1>4. \E next : request' = [request EXCEPT ![q] = next]
  BY <1>3 DEF Authenticate, Authorize, authorizeModel, Allow, Unavailable, Goes,
     ValidateListing, ListAuthorizedModels
<1>5. q = r
  BY <1>1, <1>2, <1>4
<1>6. ~Allow(r) /\ ~Unavailable(r) /\ ~Authorize(r) /\ ~ListAuthorizedModels(r)
  BY <1>1, <1>2 DEF Allow, Unavailable, Authorize, ListAuthorizedModels, Goes
<1>7. QED
  BY <1>3, <1>5, <1>6

\* For any keys and requests, no step authenticates or authorizes a request, or
\* lets it list models, with a secret that was rotated away or whose key was
\* revoked (Rotate, Revoke).
THEOREM RetiredStops == ApiKeySpec => RetiredSecretStops
<1>1. ASSUME ApiKeyInv, [ApiKeyNext]_vars, NEW r \in Requests,
             request'[r] # request[r],
             request'[r].pc \in {"authenticated", "limiting", "listing"}
      PROVE  <<request'[r].key, request'[r].version>> \notin retired
  <2>1. InvType
    BY <1>1 DEF ApiKeyInv
  <2>2. CASE Authenticate(r)
    <3>1. PICK k \in Keys :
            /\ Effective(k, now)
            /\ Goes(r, [pc |-> "authenticated", key |-> k, version |-> key[k].version,
                        rpm |-> key[k].rpm, tpm |-> key[k].tpm])
      BY <2>2 DEF Authenticate
    <3>2. request'[r].key = k /\ request'[r].version = key[k].version
      BY <2>1, <3>1 DEF InvType, Goes
    <3>3. QED
      BY <1>1, <3>1, <3>2, NotRetired DEF Effective
  <2>3. CASE authorizeModel(r)
    <3>1. request[r] \in Dated
      BY <2>1, <2>3 DEF InvType, authorizeModel, Idle, Principal
    <3>2. PICK k \in Keys : k = request[r].key
      BY <3>1 DEF Dated
    <3>3. /\ ValidKey(k, request[r].version, request[r].at)
          /\ request' = [request EXCEPT ![r] = [request[r] EXCEPT !.pc = "limiting"]]
      BY <1>1, <2>1, <2>3, <3>2 DEF authorizeModel, Goes, InvType, Idle
    <3>4. request'[r].key = k /\ request'[r].version = request[r].version
      BY <2>1, <3>1, <3>2, <3>3 DEF InvType, Dated
    <3>5. QED
      BY <1>1, <3>3, <3>4, NotRetired DEF ValidKey, Effective
  <2>4. CASE ValidateListing(r)
    <3>1. request[r] \in Principal
      BY <2>1, <2>4 DEF InvType, ValidateListing, Idle, Dated
    <3>2. PICK k \in Keys : k = request[r].key
      BY <3>1 DEF Principal
    <3>3. /\ ValidKey(k, request[r].version, now)
          /\ request' = [request EXCEPT ![r] = [request[r] EXCEPT !.pc = "listing"]]
      BY <1>1, <2>1, <2>4, <3>2 DEF ValidateListing, Goes, InvType, Idle
    <3>4. request'[r].key = k /\ request'[r].version = request[r].version
      BY <2>1, <3>1, <3>2, <3>3 DEF InvType, Principal
    <3>5. QED
      BY <1>1, <3>3, <3>4, NotRetired DEF ValidKey, Effective
  <2>5. QED
    BY <1>1, <2>2, <2>3, <2>4, RequestsGetOn
<1>2. ApiKeyInv /\ [ApiKeyNext]_vars =>
        [\A r \in Requests :
           /\ request'[r] # request[r]
           /\ request'[r].pc \in {"authenticated", "limiting", "listing"}
           => <<request'[r].key, request'[r].version>> \notin retired]_vars
  BY <1>1
<1>3. QED
  BY <1>2, ApiKeyInvAlways, PTL DEF ApiKeySpec, RetiredSecretStops

\* Only Allow lets more requests through.
LEMMA OnlyAllowAdmits ==
    ASSUME ApiKeyInv, [ApiKeyNext]_vars, NEW r \in Requests,
           request[r].pc = "limiting", request'[r].pc = "idle",
           admitted'[request[r].key].requests > admitted[request[r].key].requests
    PROVE  Allow(r)
<1>1. InvType
  BY DEF ApiKeyInv
<1>2. PICK k \in Keys : k = request[r].key
  BY Limiting
<1>3. admitted[k] \in Count
  BY <1>1 DEF InvType
<1>4. admitted' # admitted
  BY <1>2, <1>3 DEF Count
<1>5. admitted' # [j \in Keys |-> NoCount]
  <2> SUFFICES ASSUME admitted' = [j \in Keys |-> NoCount] PROVE FALSE
    OBVIOUS
  <2>1. admitted'[k].requests = 0
    BY DEF NoCount
  <2>2. admitted[k].requests >= 0
    BY <1>3 DEF Count
  <2>3. admitted'[k].requests > admitted[k].requests /\ admitted[k].requests \in Nat
    BY <1>2, <1>3 DEF Count
  <2>4. QED
    BY <2>1, <2>2, <2>3
<1>6. PICK q \in Requests : Allow(q)
  BY <1>4, <1>5 DEF ApiKeyNext, vars, Create, Update, Rotate, Revoke, Offer,
     OwnerUnchanged, Expire, RequestUnchanged, Restart, Tick, Authenticate,
     Authorize, authorizeModel, Unavailable, ValidateListing, ListAuthorizedModels
<1>7. request' = [request EXCEPT ![q] = Idle]
  BY <1>6 DEF Allow, Goes
<1>8. q = r
  BY <1>1, <1>7 DEF InvType
<1>9. QED
  BY <1>6, <1>8

\* For any keys, limits, minutes and capacities, whatever the limiter evicts, a
\* request is let through only within the limits it was authenticated with,
\* counted over all that its minute let through (limiter.Allow).
THEOREM WithinRate == ApiKeySpec => RateLimited
<1>1. ASSUME ApiKeyInv, [ApiKeyNext]_vars, NEW r \in Requests,
             request[r].pc = "limiting", request'[r].pc = "idle", ~Unlimited(request[r]),
             admitted'[request[r].key].requests > admitted[request[r].key].requests
      PROVE  WithinLimits(request[r], admitted'[request[r].key])
  <2>1. Allow(r)
    BY <1>1, OnlyAllowAdmits
  <2>2. InvType
    BY <1>1 DEF ApiKeyInv
  <2>3. PICK w \in Keys \X Minutes : w = <<request[r].key, request[r].at>>
    BY <1>1, Limiting
  <2>4. PICK k \in Keys : k = request[r].key
    BY <1>1, Limiting
  <2>5. PICK count : count = Plus(window[w], request[r].tokens)
    OBVIOUS
  <2>6. admitted[k] \in Count /\ w[2] <= now
    BY <1>1, <2>2, <2>3, Limiting DEF InvType
  <2>7. admitted' # StillAdmitted(w)
    <3>1. StillAdmitted(w)[k].requests <= admitted[k].requests
      <4>1. CASE Forgets(w)
        <5>1. StillAdmitted(w)[k].requests = 0
          BY <4>1 DEF StillAdmitted, NoCount
        <5>2. QED
          BY <5>1, <2>6 DEF Count
      <4>2. CASE ~Forgets(w)
        BY <4>2, <2>6 DEF StillAdmitted, Count
      <4>3. QED
        BY <4>1, <4>2
    <3>2. StillAdmitted(w)[k] \in Count
      BY <1>1, <2>6, StillCounted
    <3>3. QED
      BY <1>1, <2>4, <2>6, <3>1, <3>2 DEF Count
  <2>8. /\ Room(w) /\ window' = [Kept(w) EXCEPT ![w] = count]
        /\ WithinLimits(request[r], count) /\ Admit(request[r], StillAdmitted(w))
    <3>1. admitted' # admitted
      BY <1>1, <2>4, <2>6 DEF Count
    <3>2. QED
      BY <1>1, <2>1, <2>3, <2>5, <2>7, <3>1 DEF Allow
  <2>9. request[r].at = now
    BY <2>7, <2>8 DEF Admit
  <2>10. /\ Goes(r, Idle) /\ RequestUnchanged /\ requests' = requests
    BY <2>1 DEF Allow
  <2>11. /\ ApiKeyInv'
         /\ admitted'[request[r].key].requests <= count.requests
         /\ admitted'[request[r].key].tokens <= count.tokens
    BY <1>1, <2>3, <2>5, <2>8, <2>9, <2>10, CountedKeeps
  <2>12. admitted'[k] \in Count /\ count \in Count
    <3>1. window[w] \in Count /\ request[r].tokens \in Nat
      BY <1>1, <2>3, Limiting
    <3>2. QED
      BY <2>5, <2>11, <3>1, PlusType DEF ApiKeyInv, InvType
  <2>13. request[r].rpm \in Nat /\ request[r].tpm \in Nat
    BY <1>1, Limiting DEF Dated
  <2>14. PICK a \in Count : a = admitted'[k]
    BY <2>12
  <2>15. a.requests <= count.requests /\ a.tokens <= count.tokens
    BY <2>4, <2>11, <2>14
  <2>16. WithinLimits(request[r], a)
    BY <2>8, <2>12, <2>13, <2>15 DEF WithinLimits, Count
  <2>17. QED
    BY <2>4, <2>14, <2>16
<1>2. ApiKeyInv /\ [ApiKeyNext]_vars =>
        [\A r \in Requests :
           /\ request[r].pc = "limiting" /\ request'[r].pc = "idle"
           /\ ~Unlimited(request[r])
           /\ admitted'[request[r].key].requests > admitted[request[r].key].requests
           => WithinLimits(request[r], admitted'[request[r].key])]_vars
  BY <1>1
<1>3. QED
  BY <1>2, ApiKeyInvAlways, PTL DEF ApiKeySpec, RateLimited
=============================================================================
