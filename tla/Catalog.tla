------------------------------ MODULE Catalog ------------------------------
(***************************************************************************)
(* What a request is resolved against: public models with their aliases    *)
(* (internal/model), the upstream models mapped to them                    *)
(* (internal/provider), versioned routes (internal/route) and price        *)
(* versions (internal/pricing), with the guards the migrations put on      *)
(* these tables.                                                           *)
(*                                                                         *)
(* An editor validates a change against what it reads and commits it later *)
(* in a transaction that checks again, but not everything.  A request      *)
(* reads the tables in one statement after the other while they change.    *)
(* Pools, priorities, commercial policies, currencies and amounts are left  *)
(* out (the scheduler filters candidates), as are the parts of an input    *)
(* that do not depend on the tables.                                       *)
(***************************************************************************)
EXTENDS Integers, Sequences, FiniteSetsExt

CONSTANTS
    Models, Ids, None,
    CapSets,         \* sets of capabilities
    AliasSets,       \* sets of aliases a model is given
    Classes,         \* billing classes
    ProviderModels,  \* upstream models of one provider
    Editors, Requests,
    Prices,          \* what a price version prices: scope, targets, dimensions
    Budgets,         \* bound: how often each table is edited in one behaviour;
                     \* identifiers of models count for themselves
    MaxTime, MaxVersions, MaxRequests

Tables == {"model", "identifier", "provider_model", "route", "price"}
Open == 0            \* the end of an interval that has none
Scopes == <<"provider_model", "model", "global">>

ASSUME CatalogAssumption ==
    /\ None \notin Models \cup Ids
    /\ Budgets \subseteq [Tables -> Nat]
    /\ MaxTime \in Nat \ {0}
    /\ UNION CapSets \in CapSets
    /\ \A as \in AliasSets : as \subseteq Ids
    /\ "token" \in Classes /\ Classes \subseteq {"token", "request", "free", "disabled"}
    /\ \A p \in Prices :
         /\ \/ p.scope = "global" /\ p.targets = {None}
            \/ p.scope = "model" /\ p.targets \subseteq Models
            \/ p.scope = "provider_model" /\ p.targets \subseteq ProviderModels
         /\ p.targets # {} /\ p.dimensions \subseteq {"request", "input", "output"}

VARIABLES
    now,
    model,    \* models; id None where there is no row
    alias,    \* model_aliases, by alias; model None where there is no row
    upstream, \* provider_models
    route,    \* model_routes by match value, with their versions
    price,    \* price_versions, in the order of their creation
    edit,     \* changes validated and not committed yet
    request,
    budget, requests

catalogVars == <<model, alias, upstream>>
vars == <<now, catalogVars, route, price, edit, request, budget, requests>>

NoModel == [id |-> None, class |-> "disabled", enabled |-> FALSE, public |-> FALSE, caps |-> {}]
NoAlias == [model |-> None, enabled |-> FALSE]
NoUpstream == [review |-> "none", model |-> None, caps |-> {}, enabled |-> FALSE,
               discovery |-> "unknown", discovered |-> 0, seen |-> 0]
NoRoute == [model |-> None, enabled |-> FALSE, active |-> 0, versions |-> <<>>]
Idle == [pc |-> "idle"]

All == UNION CapSets
Few == CHOOSE caps \in CapSets : CapSets # {All} => caps # All

Offered(id, caps) ==
    [id |-> id, class |-> "token", enabled |-> TRUE, public |-> TRUE, caps |-> caps]

(* A model with an approved provider model and an enabled route, maybe     *)
(* another model, and maybe a price for everything.                        *)
CatalogInit ==
    /\ now = 1
    /\ \E m \in Models, i \in Ids, p \in ProviderModels :
         /\ \E n \in Models \ {m}, j \in Ids \ {i} : \E other \in
              {NoModel, Offered(j, Few)} :
              model = [x \in Models |->
                         IF x = m THEN Offered(i, All) ELSE IF x = n THEN other ELSE NoModel]
         /\ upstream = [x \in ProviderModels |->
                          IF x = p THEN [NoUpstream EXCEPT !.review = "approved", !.model = m,
                                                           !.caps = Few, !.enabled = TRUE]
                          ELSE NoUpstream]
         /\ route = [x \in Ids |->
                       IF x = i THEN [model |-> m, enabled |-> TRUE, active |-> 1,
                                      versions |-> <<[from |-> 1, to |-> Open, targets |-> {p}]>>]
                       ELSE NoRoute]
    /\ alias = [i \in Ids |-> NoAlias]
    /\ price \in {<<>>, <<[scope |-> "global", targets |-> {None},
                         dimensions |-> {"input", "output"}, from |-> 1, to |-> Open,
                         status |-> "active"]>>}
    /\ edit = [e \in Editors |-> Idle]
    /\ request = [r \in Requests |-> Idle]
    /\ budget \in Budgets
    /\ requests = 0

-----------------------------------------------------------------------------
(* Identifiers and capabilities *)

(* The models an identifier names, enabled and public or not. *)
Names(i) ==
    {m \in Models : model[m].id = i} \cup {m \in {alias[i].model} \ {None} : alias[i].enabled}

FreeOfEnabledAliases(i, m) ==
    /\ \A n \in Models \ {m} : model[n].id # i
    /\ alias[i].enabled => alias[i].model = m

(* models_identifier_guard and the unique public id: an alias of another   *)
(* model is in the way even when it is disabled.                           *)
IdFree(i, m) ==
    /\ \A n \in Models \ {m} : model[n].id # i
    /\ alias[i].model \in {None, m}

(* model_aliases_identifier_guard, and ON CONFLICT for the model's own row *)
AliasFree(i, m, id) ==
    /\ i # id /\ \A n \in Models \ {m} : model[n].id # i
    /\ alias[i].model \in {None, m}

(* The old aliases are disabled, never removed; the new public id is not   *)
(* an alias any more.                                                      *)
replaceAliases(m, as, id) ==
    [i \in Ids |-> IF i \in as THEN [model |-> m, enabled |-> i # id]
                   ELSE IF alias[i].model = m THEN [model |-> m, enabled |-> FALSE]
                   ELSE alias[i]]

Aliases(m) == {i \in Ids : alias[i] = [model |-> m, enabled |-> TRUE]}

Supports(caps, needed) == needed \subseteq caps

(* validateProviderCapabilities: reviewed or not *)
CoversProviders(m, caps) ==
    \A p \in ProviderModels : upstream[p].model = m => Supports(caps, upstream[p].caps)

-----------------------------------------------------------------------------
(* Editing models and provider models *)

Edit(table) == budget[table] > 0 /\ budget' = [budget EXCEPT ![table] = @ - 1]

Await(e, change) == edit' = [edit EXCEPT ![e] = change]

EditUnchanged == UNCHANGED <<now, request, requests>>

CreateModel(m) ==
    /\ model[m].id = None
    /\ Edit("model")
    /\ \E i \in Ids, c \in Classes, enabled, public \in BOOLEAN, caps \in CapSets,
          as \in AliasSets :
         /\ ~(c = "disabled" /\ enabled)
         /\ IdFree(i, m) /\ \A a \in as : AliasFree(a, m, i)
         /\ model' = [model EXCEPT ![m] = [id |-> i, class |-> c, enabled |-> enabled,
                                           public |-> public, caps |-> caps]]
         /\ alias' = replaceAliases(m, as, i)
    /\ UNCHANGED <<upstream, route, price, edit>>
    /\ EditUnchanged

(* One field of a model, and the aliases. *)
ModelPatches ==
    [field : {"id"}, value : Ids] \cup [field : {"class"}, value : Classes]
      \cup [field : {"enabled", "public"}, value : BOOLEAN] \cup [field : {"caps"}, value : CapSets]
      \cup [field : {"aliases"}, value : AliasSets]

Patched(row, patch) ==
    [f \in DOMAIN row |-> IF f = patch.field THEN patch.value ELSE row[f]]

(* Service.Update checks on what it reads that a model whose billing is    *)
(* disabled is not enabled, and that no alias is the public id.            *)
UpdateModel(e, m) ==
    /\ edit[e].pc = "idle" /\ model[m].id # None
    /\ \E patch \in ModelPatches :
         /\ Edit(IF patch.field \in {"id", "aliases"} THEN "identifier" ELSE "model")
         /\ LET new == Patched(model[m], patch)
            IN ~(new.class = "disabled" /\ new.enabled)
         /\ patch.field = "aliases" => model[m].id \notin patch.value
         /\ Await(e, [pc |-> "model", row |-> m, patch |-> patch])
    /\ UNCHANGED <<catalogVars, route, price>>
    /\ EditUnchanged

(* What the transaction checks, under a lock of the model's capabilities *)
Accepted(m, new, patch) ==
    /\ CoversProviders(m, new.caps)
    /\ IdFree(new.id, m)
    /\ patch.field = "aliases" => \A i \in patch.value : AliasFree(i, m, new.id)

CommitModel(e) ==
    LET m == edit[e].row
        patch == edit[e].patch
        new == Patched(model[m], patch)
        as == IF patch.field = "aliases" THEN patch.value ELSE Aliases(m)
    IN /\ edit[e].pc = "model"
       /\ Await(e, Idle)
       /\ \/ Accepted(m, new, patch)
             /\ model' = [model EXCEPT ![m] = new]
             /\ alias' = replaceAliases(m, as, new.id)
          \/ ~Accepted(m, new, patch)
             /\ UNCHANGED <<model, alias>>
       /\ UNCHANGED <<upstream, route, price, budget>>
       /\ EditUnchanged

(* validateModelCapabilities, under the lock CommitModel takes too *)
WithinModel(row) == row.model # None => Supports(model[row.model].caps, row.caps)

CreateProviderModel(p) ==
    /\ upstream[p].review = "none"
    /\ Edit("provider_model")
    /\ \E m \in {n \in Models : model[n].id # None}, caps \in CapSets,
          enabled \in BOOLEAN :
         LET row == [NoUpstream EXCEPT !.review = "approved", !.model = m, !.caps = caps,
                                       !.enabled = enabled]
         IN WithinModel(row) /\ upstream' = [upstream EXCEPT ![p] = row]
    /\ UNCHANGED <<model, alias, route, price, edit>>
    /\ EditUnchanged

ProviderModelPatches ==
    [field : {"model"}, value : {n \in Models : model[n].id # None} \cup {None}]
      \cup [field : {"caps"}, value : CapSets]
      \cup [field : {"enabled"}, value : BOOLEAN]
      \cup [field : {"review"}, value : {"pending", "approved", "rejected"}]

(* A rejected model is not enabled. *)
Reviewed(row) == [row EXCEPT !.enabled = @ /\ row.review # "rejected"]

(* UpdateModel of the service, on what it reads *)
UpdateProviderModel(e, p) ==
    /\ edit[e].pc = "idle" /\ upstream[p].review # "none"
    /\ Edit("provider_model")
    /\ \E patch \in ProviderModelPatches :
         LET row == Reviewed(Patched(upstream[p], patch))
         IN /\ row.review = "approved" => row.model # None
            /\ row.enabled => row.review = "approved"
            /\ WithinModel(row)
            /\ Await(e, [pc |-> "provider_model", row |-> p, patch |-> patch])
    /\ UNCHANGED <<catalogVars, route, price>>
    /\ EditUnchanged

Allowed(row) ==
    /\ row.enabled => row.model # None /\ row.review = "approved"
    /\ WithinModel(row)

CommitProviderModel(e) ==
    LET p == edit[e].row
        row == Reviewed(Patched(upstream[p], edit[e].patch))
    IN /\ edit[e].pc = "provider_model"
       /\ Await(e, Idle)
       /\ upstream' = IF Allowed(row) THEN [upstream EXCEPT ![p] = row] ELSE upstream
       /\ UNCHANGED <<model, alias, route, price, budget>>
       /\ EditUnchanged

(* Only a model nobody has reviewed takes over what was discovered. *)
Seen(row, caps, at) ==
    [row EXCEPT !.caps = IF row.review \in {"none", "pending"} THEN caps ELSE @,
                !.review = IF @ = "none" THEN "pending" ELSE @,
                !.discovery = "present",
                !.discovered = IF @ = 0 THEN at ELSE @,
                !.seen = at]

NotSeen(row, at) ==
    IF row.discovered # 0 /\ row.seen < at THEN [row EXCEPT !.discovery = "missing"] ELSE row

(* provider_models_discovery_time_ck *)
InOrder(row, at) == row.discovered <= at

(* A snapshot of what the provider offers, dated before it is recorded.    *)
(* One that is older than a model's discovery is refused as a whole.       *)
Reconcile ==
    /\ Edit("provider_model")
    /\ \E found \in SUBSET ProviderModels, caps \in CapSets, at \in {now - 1, now} \ {0} :
         /\ \A p \in found : InOrder(upstream[p], at)
         /\ upstream' = [p \in ProviderModels |->
                           IF p \in found THEN Seen(upstream[p], caps, at)
                                          ELSE NotSeen(upstream[p], at)]
    /\ UNCHANGED <<model, alias, route, price, edit>>
    /\ EditUnchanged

-----------------------------------------------------------------------------
(* Routes *)

(* validateTargets: some targets, all mapped to the model of the route *)
ValidTargets(m, ts) == ts # {} /\ \A p \in ts : upstream[p].model = m

Version(from, ts) == [from |-> from, to |-> Open, targets |-> ts]

(* The clock of the database may be behind by one. *)
Clock == {now - 1, now}

(* A match value has one route for ever. *)
CreateRoute(i) ==
    /\ route[i].model = None
    /\ Edit("route")
    /\ \E m \in Names(i), ts \in SUBSET ProviderModels, enabled \in BOOLEAN, at \in Clock :
         /\ ValidTargets(m, ts)
         /\ route' = [route EXCEPT ![i] = [model |-> m, enabled |-> enabled, active |-> 1,
                                           versions |-> <<Version(at, ts)>>]]
    /\ UNCHANGED <<catalogVars, price, edit>>
    /\ EditUnchanged

(* update reads the row without a lock and writes back what it read of the *)
(* switch when only metadata changes.                                      *)
UpdateRoute(e, i) ==
    /\ edit[e].pc = "idle" /\ route[i].model # None
    /\ Edit("route")
    /\ \E enabled \in BOOLEAN : Await(e, [pc |-> "route", row |-> i, enabled |-> enabled])
    /\ UNCHANGED <<catalogVars, route, price>>
    /\ EditUnchanged

CommitRoute(e) ==
    /\ edit[e].pc = "route"
    /\ Await(e, Idle)
    /\ route' = [route EXCEPT ![edit[e].row].enabled = edit[e].enabled]
    /\ UNCHANGED <<catalogVars, price, budget>>
    /\ EditUnchanged

(* GREATEST(clock_timestamp(), effective_from + 1 microsecond) *)
ClosedAt(version, at) == Max({at, version.from + 1})

Publish(i) ==
    LET r == route[i]
        last == Len(r.versions)
    IN /\ r.model # None /\ last < MaxVersions
       /\ Edit("route")
       /\ \E ts \in SUBSET ProviderModels, at \in Clock :
            LET end == ClosedAt(r.versions[last], at)
            IN /\ ValidTargets(r.model, ts)
               /\ route' = [route EXCEPT
                    ![i].versions = Append([@ EXCEPT ![last].to = end], Version(end, ts)),
                    ![i].active = last + 1]
       /\ UNCHANGED <<catalogVars, price, edit>>
       /\ EditUnchanged

-----------------------------------------------------------------------------
(* Prices *)

CreatePrice ==
    /\ Len(price) < MaxVersions
    /\ Edit("price")
    /\ \E p \in Prices, from \in 1..MaxTime : \E to \in {Open, from + 1} :
         price' = Append(price, [scope |-> p.scope, targets |-> p.targets,
                                    dimensions |-> p.dimensions, from |-> from, to |-> to,
                                    status |-> "draft"])
    /\ UNCHANGED <<catalogVars, route, edit>>
    /\ EditUnchanged

publishable(v) == "request" \in v.dimensions \/ {"input", "output"} \subseteq v.dimensions

Published(v) == v.status \in {"active", "retired"}

InForce(v, at) == Published(v) /\ v.from <= at /\ (v.to = Open \/ at < v.to)

Overlap(v, w) ==
    /\ v.scope = w.scope
    /\ v.to = Open \/ w.from < v.to
    /\ w.to = Open \/ v.from < w.to

ExclusiveWhileActive(v, n) ==
    ~ \E k \in DOMAIN price \ {n} : price[k].status = "active" /\ Overlap(price[k], v)

(* price_versions_interval_guard *)
Exclusive(v, n) == ~ \E k \in DOMAIN price \ {n} : Published(price[k]) /\ Overlap(price[k], v)

Activate(n) ==
    /\ price[n].status = "draft" /\ publishable(price[n])
    /\ Edit("price")
    /\ Exclusive(price[n], n)
    /\ price' = [price EXCEPT ![n].status = "active"]
    /\ UNCHANGED <<catalogVars, route, edit>>
    /\ EditUnchanged

(* The end of a version may lie in the past or the future; one that was    *)
(* created with an end cannot be given another.                            *)
Retire(n) ==
    /\ price[n].status = "active"
    /\ Edit("price")
    /\ \E at \in 1..MaxTime + 1 :
         /\ at > price[n].from
         /\ price[n].to \in {Open, at}
         /\ price' = [price EXCEPT ![n].status = "retired", ![n].to = at]
    /\ UNCHANGED <<catalogVars, route, edit>>
    /\ EditUnchanged

-----------------------------------------------------------------------------
(* A request *)

Goes(r, next) == request' = [request EXCEPT ![r] = next]

RequestUnchanged == UNCHANGED <<now, catalogVars, route, price, edit, budget>>

(* ResolvePublic; the key is authorized for the model it finds (ApiKey). *)
ResolvePublic(r) ==
    /\ request[r].pc = "idle"
    /\ requests < MaxRequests
    /\ requests' = requests + 1
    /\ \E i \in Ids, m \in Models :
         /\ m \in Names(i) /\ model[m].enabled /\ model[m].public
         /\ Goes(r, [pc |-> "matching", id |-> model[m].id])
    /\ RequestUnchanged

(* The first statement of resolve: the route of the public id *)
Resolve(r) ==
    LET i == request[r].id
    IN /\ request[r].pc = "matching"
       /\ IF route[i].model \in Names(i) /\ route[i].enabled
          THEN Goes(r, [pc |-> "route", id |-> i, model |-> route[i].model])
          ELSE Goes(r, Idle)
       /\ UNCHANGED requests
       /\ RequestUnchanged

(* getRoute reads the route again. *)
getRoute(r) ==
    LET q == request[r]
    IN /\ q.pc = "route"
       /\ Goes(r, [pc |-> "version", id |-> q.id, model |-> q.model,
                   version |-> route[q.id].active])
       /\ UNCHANGED requests
       /\ RequestUnchanged

Targets(q) == route[q.id].versions[q.version].targets

Eligible(p) == upstream[p].enabled /\ upstream[p].review = "approved"

(* The targets of the version, with the rows they name; the scheduler then *)
(* takes one that may be used.                                             *)
loadTargets(r) ==
    LET q == request[r]
        eligible == {p \in Targets(q) : Eligible(p)}
    IN /\ q.pc = "version"
       /\ \/ eligible = {} /\ Goes(r, Idle)
          \/ \E p \in eligible :
               Goes(r, [pc |-> "class", id |-> q.id, model |-> q.model, version |-> q.version,
                        upstream |-> p])
       /\ UNCHANGED requests
       /\ RequestUnchanged

Required(class) == IF class = "token" THEN {"input", "output"} ELSE {"request"}

(* ResolveSnapshot first reads the billing class: a model that is not      *)
(* enabled any more, or not billed, is refused, public or not; a free one  *)
(* needs no price.  "known" remembers the versions published by then.      *)
billingClass(r) ==
    LET q == request[r]
        class == model[q.model].class
    IN /\ q.pc = "class"
       /\ \/ (~model[q.model].enabled \/ class \in {"disabled", "free"}) /\ Goes(r, Idle)
          \/ /\ model[q.model].enabled /\ class \in {"token", "request"}
             /\ Goes(r, [pc |-> "pricing", model |-> q.model, upstream |-> q.upstream, at |-> now,
                         required |-> Required(class), scope |-> 1,
                         known |-> {n \in DOMAIN price : InForce(price[n], now)}])
       /\ UNCHANGED requests
       /\ RequestUnchanged

Target(q, scope) ==
    CASE scope = "provider_model" -> q.upstream
      [] scope = "model" -> q.model
      [] scope = "global" -> None

(* The version of a scope that prices the target, the newest if several *)
Found(q, scope) ==
    {n \in DOMAIN price :
       price[n].scope = scope /\ InForce(price[n], q.at) /\ Target(q, scope) \in price[n].targets}

FallsThrough(q, n) == IF n = 0 THEN TRUE ELSE ~(q.required \subseteq price[n].dimensions)

(* Only a scope without a version for the target passes to the next one. *)
Continues(q, n) == n = 0

ResolveSnapshot(r) ==
    LET q == request[r]
        found == Found(q, Scopes[q.scope])
        n == IF found = {} THEN 0 ELSE Max(found)
    IN /\ q.pc = "pricing"
       /\ \/ /\ Continues(q, n) /\ q.scope < Len(Scopes)
             /\ Goes(r, [q EXCEPT !.scope = @ + 1])
          \/ /\ Continues(q, n) /\ q.scope = Len(Scopes)
             /\ Goes(r, Idle)
          \/ /\ ~Continues(q, n) /\ ~(q.required \subseteq price[n].dimensions)
             /\ Goes(r, Idle)
          \/ /\ ~Continues(q, n) /\ q.required \subseteq price[n].dimensions
             /\ Goes(r, [q EXCEPT !.pc = "quoted", !.scope = n])
       /\ UNCHANGED requests
       /\ RequestUnchanged

Tick ==
    /\ now < MaxTime
    /\ now' = now + 1
    /\ UNCHANGED <<catalogVars, route, price, edit, request, budget, requests>>

CatalogNext ==
    \/ \E m \in Models : CreateModel(m)
    \/ \E e \in Editors :
         \/ CommitModel(e) \/ CommitProviderModel(e) \/ CommitRoute(e)
         \/ \E m \in Models : UpdateModel(e, m)
         \/ \E p \in ProviderModels : UpdateProviderModel(e, p)
         \/ \E i \in Ids : UpdateRoute(e, i)
    \/ \E p \in ProviderModels : CreateProviderModel(p)
    \/ Reconcile
    \/ \E i \in Ids : CreateRoute(i) \/ Publish(i)
    \/ CreatePrice
    \/ \E n \in DOMAIN price : Activate(n) \/ Retire(n)
    \/ \E r \in Requests :
         \/ ResolvePublic(r) \/ Resolve(r) \/ getRoute(r) \/ loadTargets(r)
         \/ billingClass(r) \/ ResolveSnapshot(r)
    \/ Tick

CatalogSpec == CatalogInit /\ [][CatalogNext]_vars

-----------------------------------------------------------------------------
(* Properties *)

(* The rows have their types, also after races between editors; a provider *)
(* model in use is approved and mapped, and was discovered before it was   *)
(* last seen, also when snapshots are recorded out of order                *)
(* (provider_models_enabled_reviewed_ck, provider_models_discovery_time_ck).*)
CatalogTypeOK ==
    /\ now \in 1..MaxTime
    /\ model \in [Models -> [id : Ids \cup {None}, class : Classes \cup {"disabled"},
                             enabled : BOOLEAN, public : BOOLEAN,
                             caps : CapSets \cup {{}}]]
    /\ alias \in [Ids -> [model : Models \cup {None}, enabled : BOOLEAN]]
    /\ \A p \in ProviderModels :
         /\ upstream[p].review \in {"none", "pending", "approved", "rejected"}
         /\ upstream[p].discovered <= upstream[p].seen
         /\ upstream[p].enabled => upstream[p].review = "approved" /\ upstream[p].model # None

(* An identifier never names two models, and one that was an alias is      *)
(* "never silently reassigned" (model.go): it names no other model later,  *)
(* whoever renames models and replaces aliases meanwhile.                  *)
OneMeaning ==
    \A i \in Ids :
      /\ Cardinality(Names(i)) <= 1
      /\ alias[i].model # None => Names(i) \subseteq {alias[i].model}
      /\ alias[i].enabled => \A m \in Models : model[m].id # i

(* An approved provider model offers no capability that its public model   *)
(* does not have, whatever editors, reviews and discoveries commit in      *)
(* between ("避免并发更新", docs/implementation-status.md:164).            *)
WithinCapabilities ==
    \A p \in ProviderModels :
      upstream[p].review = "approved" /\ upstream[p].model # None
        => upstream[p].caps \subseteq model[upstream[p].model].caps

(* The catalogue keeps what clients rely on, identifiers and capabilities,  *)
(* through every race of editors, reviews and discoveries.                  *)
CatalogIntegrity == CatalogTypeOK /\ OneMeaning /\ WithinCapabilities

(* The versions of a route follow one another without gap or overlap, only *)
(* the last is open and it is the active one, even if the clock of the     *)
(* database steps back (Repository.publish).                               *)
VersionsFollow ==
    \A i \in Ids : route[i].model # None =>
      LET vs == route[i].versions IN
      /\ route[i].active = Len(vs)
      /\ \A n \in DOMAIN vs :
           IF n = Len(vs) THEN vs[n].to = Open
           ELSE vs[n].to = vs[n + 1].from /\ vs[n].from < vs[n].to

(* The provider model a request ends up with is a target of the version it *)
(* is accounted under, although the route may get new versions while it    *)
(* reads ("一个请求使用固定 route version", docs/architecture.md:168).     *)
FixedVersion ==
    \A r \in Requests : request[r].pc = "class" =>
      request[r].upstream \in route[request[r].id].versions[request[r].version].targets

(* At no instant are two published versions of a scope in force, whatever  *)
(* was retired early or late before another was activated.                 *)
OnePriceInForce ==
    \A k, n \in DOMAIN price : k # n /\ Published(price[k]) /\ Published(price[n])
      => ~Overlap(price[k], price[n])

(* The histories of routes and prices are linear: one version at a time.    *)
VersionIntegrity == VersionsFollow /\ OnePriceInForce

Rank(scope) == CHOOSE k \in DOMAIN Scopes : Scopes[k] = scope

(* A quote has the prices that the billing class needs, and comes from the *)
(* most specific scope: no version known when the request began, and still *)
(* in force for its time, prices its target in a more specific one.        *)
MostSpecificPrice ==
    \A r \in Requests : request[r].pc = "quoted" =>
      LET q == request[r]
          quote == price[q.scope]
      IN /\ q.required \subseteq quote.dimensions
         /\ \A n \in q.known : InForce(price[n], q.at) /\ Target(q, price[n].scope) \in price[n].targets
              => Rank(quote.scope) <= Rank(price[n].scope)

(* A request is resolved consistently, though it reads in many statements: a *)
(* target of its route version, at the most specific price.                  *)
ResolvedConsistently == FixedVersion /\ MostSpecificPrice
=============================================================================
