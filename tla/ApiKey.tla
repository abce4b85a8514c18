------------------------------- MODULE ApiKey -------------------------------
(***************************************************************************)
(* API keys (internal/apikey): the owner's edits, and what an inference    *)
(* request does with a key.  A request is authenticated first, keeps the   *)
(* principal it got, and is authorized for a model and counted against     *)
(* the limits of that principal in later steps, at a time it reads before. *)
(*                                                                         *)
(* A secret is a key and a version.  Time is counted in minutes, the       *)
(* windows of the limiter.  An edit is one transaction on the locked row.  *)
(* last_used_at, names and budgets are left out: budgets are checked by    *)
(* the wallet (billing.checkBudgets).                                      *)
(***************************************************************************)
EXTENDS Integers, FiniteSets

CONSTANTS
    Keys, Models, Addresses,
    Requests,    \* requests that can be under way at once
    Profiles,    \* limits, addresses and models an owner asks for
    Assigned,    \* policies an operator may have assigned to every key
    Tokens,      \* tokens a request asks for
    Limiters,    \* the limiters to consider, of "memory" and "redis"
    MaxWindows,  \* maxMemoryWindows
    MaxTime, MaxEdits, MaxRequests

None == 0        \* no limit, no expiry

ASSUME ApiKeyAssumption ==
    /\ Limiters \subseteq {"memory", "redis"}
    /\ Tokens \subseteq Nat
    /\ MaxWindows \in Nat \ {0} /\ MaxTime \in Nat \ {0}
    /\ MaxEdits \in Nat /\ MaxRequests \in Nat
    /\ Assigned \subseteq
         [default : {"deny", "allow"}, allow : SUBSET Models, deny : SUBSET Models]
    /\ \A p \in Profiles :
         {p.rpm, p.tpm} \subseteq Nat /\ p.ips \subseteq Addresses /\ p.models \subseteq Models

VARIABLES
    now,
    limiter,
    key,       \* api_keys with the entitlements of the managed policy
    assigned,  \* the policy an operator assigned to every key
    offered,   \* models enabled, public and not deleted
    window,    \* the counters of the limiter, by key and minute
    request,
    edits, requests,
    retired,   \* secrets rotated away and secrets of revoked keys
    admitted   \* requests and tokens let through in this minute, by key

vars == <<now, limiter, key, assigned, offered, window, request, edits, requests,
          retired, admitted>>

Minutes == 1..MaxTime
NoKey == [status |-> "none"]
Idle == [pc |-> "idle"]
NoCount == [requests |-> 0, tokens |-> 0]

ApiKeyInit ==
    /\ now = 1
    /\ limiter \in Limiters
    /\ key = [k \in Keys |-> NoKey]
    /\ assigned \in Assigned
    /\ offered = Models
    /\ window = [w \in Keys \X Minutes |-> NoCount]
    /\ request = [r \in Requests |-> Idle]
    /\ edits = 0 /\ requests = 0
    /\ retired = {}
    /\ admitted = [k \in Keys |-> NoCount]

-----------------------------------------------------------------------------
(* The owner's operations *)

Edit == edits < MaxEdits /\ edits' = edits + 1

OwnerUnchanged ==
    UNCHANGED <<now, limiter, assigned, offered, window, request, requests, admitted>>

requireModels(ms) == ms \subseteq offered

(* The expiry an input may ask for; its limits, addresses and models are   *)
(* well formed here.                                                       *)
validate(e) == e = None \/ e > now

Create(k) ==
    /\ key[k].status = "none"
    /\ Edit
    /\ \E p \in Profiles, e \in {None, now, now + 1} :
         /\ validate(e)
         /\ requireModels(p.models)
         /\ key' = [key EXCEPT ![k] = [status |-> "active", version |-> 1, expires |-> e,
                                       ips |-> p.ips, rpm |-> p.rpm, tpm |-> p.tpm,
                                       models |-> p.models]]
    /\ UNCHANGED retired
    /\ OwnerUnchanged

(* EffectiveStatus is "active". *)
Effective(k, at) ==
    /\ key[k].status = "active"
    /\ key[k].expires = None \/ key[k].expires > at

(* What update asks of the row it locked: an expired key can be edited. *)
Editable(k) == key[k].status = "active"

(* A patch leaves out the expiry or the models by keeping the old ones. *)
Update(k) ==
    /\ Editable(k)
    /\ Edit
    /\ \E p \in Profiles,
          e \in {x \in {None, now, now + 1} : validate(x)} \cup {key[k].expires},
          ms \in {key[k].models} \cup {x \in {m.models : m \in Profiles} : requireModels(x)} :
           key' = [key EXCEPT ![k].expires = e, ![k].ips = p.ips, ![k].rpm = p.rpm,
                              ![k].tpm = p.tpm, ![k].models = ms]
    /\ UNCHANGED retired
    /\ OwnerUnchanged

Rotate(k) ==
    /\ Effective(k, now)
    /\ Edit
    /\ key' = [key EXCEPT ![k].version = @ + 1]
    /\ retired' = retired \cup {<<k, key[k].version>>}
    /\ OwnerUnchanged

(* Nothing happens to a key that is revoked already. *)
Revoke(k) ==
    /\ key[k].status = "active"
    /\ Edit
    /\ key' = [key EXCEPT ![k].status = "revoked"]
    /\ retired' = retired \cup {<<k, key[k].version>>}
    /\ OwnerUnchanged

(* The catalogue withdraws a model or offers it again. *)
Offer(m) ==
    /\ Edit
    /\ offered' = IF m \in offered THEN offered \ {m} ELSE offered \cup {m}
    /\ UNCHANGED <<now, limiter, key, assigned, window, request, requests, retired, admitted>>

-----------------------------------------------------------------------------
(* Requests *)

allowsIP(k, ip) == key[k].ips = {} \/ ip \in key[k].ips

Goes(r, next) == request' = [request EXCEPT ![r] = next]

RequestUnchanged == UNCHANGED <<now, limiter, key, assigned, offered, edits, retired>>

(* The principal of a secret that is still the one of its key. *)
Authenticate(r) ==
    /\ request[r].pc = "idle"
    /\ requests < MaxRequests
    /\ requests' = requests + 1
    /\ \E k \in Keys, ip \in Addresses :
         /\ Effective(k, now)
         /\ allowsIP(k, ip)
         /\ Goes(r, [pc |-> "authenticated", key |-> k, version |-> key[k].version,
                     rpm |-> key[k].rpm, tpm |-> key[k].tpm])
    /\ RequestUnchanged
    /\ UNCHANGED <<window, admitted>>

(* Authorize reads the clock once, for the policy and for the limiter. *)
Authorize(r) ==
    /\ request[r].pc = "authenticated"
    /\ \E m \in Models, t \in Tokens :
         Goes(r, [pc |-> "authorizing", key |-> request[r].key, version |-> request[r].version,
                  rpm |-> request[r].rpm, tpm |-> request[r].tpm,
                  model |-> m, tokens |-> t, at |-> now])
    /\ RequestUnchanged
    /\ UNCHANGED <<requests, window, admitted>>

ValidAnyVersion(k, v, at) == Effective(k, at)

ValidKey(k, v, at) == Effective(k, at) /\ key[k].version = v

(* The policies of a key: the managed one, which denies by default and has *)
(* no denials, and the one an operator assigned.                           *)
Policies(k) == {[default |-> "deny", allow |-> key[k].models, deny |-> {}], assigned}

Authorized(k, m) ==
    /\ m \in offered
    /\ \A p \in Policies(k) : m \notin p.deny
    /\ \/ \E p \in Policies(k) : m \in p.allow
       \/ \E p \in Policies(k) : p.default = "allow"

authorizeModel(r) ==
    LET q == request[r]
    IN /\ q.pc = "authorizing"
       /\ \/ ValidKey(q.key, q.version, q.at) /\ Authorized(q.key, q.model)
             /\ Goes(r, [q EXCEPT !.pc = "limiting"])
          \/ ~(ValidKey(q.key, q.version, q.at) /\ Authorized(q.key, q.model))
             /\ Goes(r, Idle)
       /\ RequestUnchanged
       /\ UNCHANGED <<requests, window, admitted>>

ListedDenied(k) ==
    {m \in offered : \E p \in Policies(k) : p.default = "allow" \/ m \in p.allow}

(* The statement of listAuthorizedModels that lists. *)
listAuthorizedModels(k) ==
    {m \in offered :
       /\ \E p \in Policies(k) : p.default = "allow" \/ m \in p.allow
       /\ ~ \E p \in Policies(k) : m \in p.deny}

(* A statement before it asks whether the secret still is the key's. *)
ValidateListing(r) ==
    LET q == request[r]
    IN /\ q.pc = "authenticated"
       /\ \/ ValidKey(q.key, q.version, now) /\ Goes(r, [q EXCEPT !.pc = "listing"])
          \/ ~ValidKey(q.key, q.version, now) /\ Goes(r, Idle)
       /\ RequestUnchanged
       /\ UNCHANGED <<requests, window, admitted>>

(* The answer is listAuthorizedModels of this moment; it counts nowhere. *)
ListAuthorizedModels(r) ==
    /\ request[r].pc = "listing"
    /\ Goes(r, Idle)
    /\ RequestUnchanged
    /\ UNCHANGED <<requests, window, admitted>>

-----------------------------------------------------------------------------
(* The limiter *)

Windows == {w \in Keys \X Minutes : window[w].requests > 0}

EvictAny(w) == Windows

(* A new window that finds the map full drops those of other minutes. *)
Evicted(w) == {x \in Windows : x[2] # w[2]}

Dropped(w) ==
    IF limiter = "memory" /\ w \notin Windows /\ Cardinality(Windows) >= MaxWindows
    THEN Evicted(w) ELSE {}

(* ErrRateLimitUnavailable otherwise *)
Room(w) == limiter = "redis" \/ w \in Windows \/ Cardinality(Windows \ Dropped(w)) < MaxWindows

(* A request of a past minute may drop the windows of this one. *)
Forgets(w) == w[2] < now /\ \E x \in Dropped(w) : x[2] = now

Plus(count, tokens) == [requests |-> count.requests + 1, tokens |-> count.tokens + tokens]

WithinLimits(q, count) ==
    /\ q.rpm # None => count.requests <= q.rpm
    /\ q.tpm # None => count.tokens <= q.tpm

Unlimited(q) == q.rpm = None /\ q.tpm = None

Kept(w) == [x \in Keys \X Minutes |-> IF x \in Dropped(w) THEN NoCount ELSE window[x]]

StillAdmitted(w) == IF Forgets(w) THEN [k \in Keys |-> NoCount] ELSE admitted

Admit(q, before) ==
    admitted' = IF q.at = now THEN [before EXCEPT ![q.key] = Plus(@, q.tokens)] ELSE before

(* A request that is refused counts as well. *)
Allow(r) ==
    LET q == request[r]
        w == <<q.key, q.at>>
        count == Plus(window[w], q.tokens)
    IN /\ q.pc = "limiting"
       /\ Goes(r, Idle)
       /\ \/ Unlimited(q) /\ UNCHANGED <<window, admitted>>
          \/ ~Unlimited(q) /\ Room(w)
             /\ window' = [Kept(w) EXCEPT ![w] = count]
             /\ IF WithinLimits(q, count) THEN Admit(q, StillAdmitted(w))
                                          ELSE admitted' = StillAdmitted(w)
          \/ ~Unlimited(q) /\ ~Room(w)
             /\ window' = Kept(w) /\ admitted' = StillAdmitted(w)
       /\ RequestUnchanged
       /\ UNCHANGED requests

(* Redis fails a request, which it may have counted. *)
Unavailable(r) ==
    LET q == request[r] IN
    /\ q.pc = "limiting" /\ limiter = "redis" /\ ~Unlimited(q)
    /\ Goes(r, Idle)
    /\ window' \in {window, [window EXCEPT ![<<q.key, q.at>>] = Plus(@, q.tokens)]}
    /\ RequestUnchanged
    /\ UNCHANGED <<requests, admitted>>

(* Redis drops a window a second after its minute, at the earliest. *)
Expire(w) ==
    /\ limiter = "redis" /\ w \in Windows /\ w[2] < now
    /\ window' = [window EXCEPT ![w] = NoCount]
    /\ RequestUnchanged
    /\ UNCHANGED <<request, requests, admitted>>

(* A restart ends every request and empties a limiter in memory. *)
Restart ==
    /\ \E r \in Requests : request[r].pc # "idle"
    /\ request' = [r \in Requests |-> Idle]
    /\ IF limiter = "memory"
       THEN /\ window' = [w \in Keys \X Minutes |-> NoCount]
            /\ admitted' = [k \in Keys |-> NoCount]
       ELSE UNCHANGED <<window, admitted>>
    /\ RequestUnchanged
    /\ UNCHANGED requests

Tick ==
    /\ now < MaxTime
    /\ now' = now + 1
    /\ admitted' = [k \in Keys |-> NoCount]
    /\ UNCHANGED <<limiter, key, assigned, offered, window, request, edits, requests, retired>>

ApiKeyNext ==
    \/ \E k \in Keys : Create(k) \/ Update(k) \/ Rotate(k) \/ Revoke(k)
    \/ \E m \in Models : Offer(m)
    \/ \E r \in Requests :
         \/ Authenticate(r) \/ Authorize(r) \/ authorizeModel(r) \/ Allow(r) \/ Unavailable(r)
         \/ ValidateListing(r) \/ ListAuthorizedModels(r)
    \/ \E w \in Keys \X Minutes : Expire(w)
    \/ Restart
    \/ Tick

ApiKeySpec == ApiKeyInit /\ [][ApiKeyNext]_vars

-----------------------------------------------------------------------------
(* Properties *)

(* The state has its type, and the limiter in memory stays within its      *)
(* capacity (memoryLimiter.Allow), whatever minute its windows are of.     *)
ApiKeyTypeOK ==
    /\ now \in Minutes /\ edits \in 0..MaxEdits /\ requests \in 0..MaxRequests
    /\ \A k \in Keys : key[k].status \in {"none", "active", "revoked"}
    /\ offered \subseteq Models
    /\ \A w \in Keys \X Minutes : window[w] \in [requests : Nat, tokens : Nat]
    /\ \A r \in Requests :
         request[r].pc \in {"idle", "authenticated", "authorizing", "limiting", "listing"}
    /\ limiter = "memory" => Cardinality(Windows) <= MaxWindows

(* "The previous secret stops working when the transaction commits"        *)
(* (Service.Rotate), also for a request authenticated with it before, to   *)
(* use a model or to list them; and a revoked key stays unusable whatever  *)
(* update its owner tries.                                                 *)
RetiredSecretStops ==
    [][\A r \in Requests :
         /\ request'[r] # request[r]
         /\ request'[r].pc \in {"authenticated", "limiting", "listing"}
         => <<request'[r].key, request'[r].version>> \notin retired]_vars

(* Of the requests with a limit that Authorize dates in the current minute *)
(* it lets through no more, and no more tokens, than the limits the last   *)
(* of them was authenticated with, whatever keys fill the limiter          *)
(* meanwhile and whatever limits the others of the key have.  Requests     *)
(* authenticated while the key had no limit are not counted.  A restart,   *)
(* or a request of an earlier minute that finds the limiter full, makes it *)
(* start to count again.                                                   *)
RateLimited ==
    [][\A r \in Requests :
         /\ request[r].pc = "limiting" /\ request'[r].pc = "idle"
         /\ ~Unlimited(request[r])
         /\ admitted'[request[r].key].requests > admitted[request[r].key].requests
         => WithinLimits(request[r], admitted'[request[r].key])]_vars

(* The list of models a key may use (ListAuthorizedModels) names exactly   *)
(* the models a request of the key is let through to (authorizeModel),     *)
(* with any policy assigned and after any edit.                            *)
ListedIsAuthorized ==
    ApiKeyTypeOK /\ \A k \in Keys : key[k].status # "none" =>
      listAuthorizedModels(k) = {m \in Models : Authorized(k, m)}
=============================================================================
