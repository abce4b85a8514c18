---------------------------- MODULE CatalogProofs ----------------------------
(* Theorems about Catalog for every number of models, identifiers, provider   *)
(* models, editors and requests, and every set of price versions.             *)
EXTENDS Catalog, FiniteSetTheorems, TLAPS

-----------------------------------------------------------------------------
(* The inductive invariant, by table *)

\* The rows of the models.
ModelRow ==
    [id : Ids \cup {None}, class : Classes \cup {"disabled"},
     enabled : BOOLEAN, public : BOOLEAN, caps : CapSets \cup {{}}]

\* The rows of model_aliases.
AliasRow == [model : Models \cup {None}, enabled : BOOLEAN]

\* The rows of provider_models.
UpstreamRow ==
    [review : {"none", "pending", "approved", "rejected"}, model : Models \cup {None},
     caps : CapSets \cup {{}}, enabled : BOOLEAN,
     discovery : {"unknown", "present", "missing"}, discovered : Nat, seen : Nat]

\* A model that is enabled exists, and no two models have one public id.
ModelsSound ==
    /\ model \in [Models -> ModelRow]
    /\ \A m \in Models : model[m].enabled => model[m].id # None
    /\ \A m, n \in Models : model[m].id # None /\ model[m].id = model[n].id => m = n

\* The alias i is of a model that exists, and in the way of no other: a model
\* whose public id it is owns it, and then it is disabled.
AliasApart(i) ==
    /\ alias[i].enabled => alias[i].model # None
    /\ alias[i].model # None => model[alias[i].model].id # None
    /\ \A m \in Models : model[m].id = i => alias[i].model \in {None, m} /\ ~alias[i].enabled

\* The aliases and the public ids are apart.
AliasesSound ==
    /\ alias \in [Ids -> AliasRow]
    /\ \A i \in Ids : AliasApart(i)

\* A provider model in use is approved and mapped; the model it is mapped to
\* exists, and covers it once it is approved.
UpstreamSound(p) ==
    /\ upstream[p].discovered <= upstream[p].seen
    /\ upstream[p].enabled => upstream[p].review = "approved" /\ upstream[p].model # None
    /\ upstream[p].model # None => model[upstream[p].model].id # None
    /\ upstream[p].review = "approved" /\ upstream[p].model # None
         => upstream[p].caps \subseteq model[upstream[p].model].caps

\* The provider models are sound.
UpstreamsSound ==
    /\ upstream \in [ProviderModels -> UpstreamRow]
    /\ \A p \in ProviderModels : UpstreamSound(p)

\* A validated change is of a row that exists, and of one of its fields.
EditSound(e) ==
    /\ edit[e].pc = "model" =>
         /\ edit[e].row \in Models /\ model[edit[e].row].id # None
         /\ edit[e].patch \in ModelPatches
    /\ edit[e].pc = "provider_model" =>
         edit[e].row \in ProviderModels /\ edit[e].patch \in ProviderModelPatches
    /\ edit[e].pc = "route" => edit[e].row \in Ids

\* The validated changes are sound.
EditsSound ==
    /\ DOMAIN edit = Editors
    /\ \A e \in Editors : EditSound(e)

\* What holds of the models, the aliases and the provider models whatever editors
\* and discoveries commit.
TablesInv ==
    /\ now \in 1..MaxTime
    /\ ModelsSound /\ AliasesSound /\ UpstreamsSound /\ EditsSound

-----------------------------------------------------------------------------
(* Patches *)

\* A patch of a model changes the field it names; the aliases are no field.
LEMMA PatchedModel ==
    ASSUME NEW row \in ModelRow, NEW patch \in ModelPatches
    PROVE  /\ Patched(row, patch) \in ModelRow
           /\ row.id # None => Patched(row, patch).id # None
           /\ patch.field = "aliases" => patch.value \in AliasSets
<1>1. /\ DOMAIN row = {"id", "class", "enabled", "public", "caps"}
      /\ row = [id |-> row.id, class |-> row.class, enabled |-> row.enabled,
                public |-> row.public, caps |-> row.caps]
  BY DEF ModelRow
<1> DEFINE new == Patched(row, patch)
<1>2. new = [id |-> IF patch.field = "id" THEN patch.value ELSE row.id,
             class |-> IF patch.field = "class" THEN patch.value ELSE row.class,
             enabled |-> IF patch.field = "enabled" THEN patch.value ELSE row.enabled,
             public |-> IF patch.field = "public" THEN patch.value ELSE row.public,
             caps |-> IF patch.field = "caps" THEN patch.value ELSE row.caps]
  BY <1>1 DEF Patched
<1>3. /\ patch.field = "id" => patch.value \in Ids
      /\ patch.field = "class" => patch.value \in Classes
      /\ patch.field \in {"enabled", "public"} => patch.value \in BOOLEAN
      /\ patch.field = "caps" => patch.value \in CapSets
      /\ patch.field = "aliases" => patch.value \in AliasSets
  BY DEF ModelPatches
<1>4. new \in ModelRow
  BY <1>2, <1>3 DEF ModelRow
<1>5. row.id # None => new.id # None
  BY <1>2, <1>3, CatalogAssumption
<1>6. QED
  BY <1>3, <1>4, <1>5
\* A patch of a provider model changes the field it names, and a rejected model is
\* not enabled.
LEMMA PatchedUpstream ==
    ASSUME NEW row \in UpstreamRow, NEW patch \in ProviderModelPatches
    PROVE  LET new == Reviewed(Patched(row, patch)) IN
           /\ new \in UpstreamRow
           /\ new.discovered = row.discovered /\ new.seen = row.seen
           /\ new.model = row.model \/ new.model \in {n \in Models : model[n].id # None} \cup {None}
<1>1. /\ DOMAIN row = {"review", "model", "caps", "enabled", "discovery", "discovered", "seen"}
      /\ row = [review |-> row.review, model |-> row.model, caps |-> row.caps,
                enabled |-> row.enabled, discovery |-> row.discovery,
                discovered |-> row.discovered, seen |-> row.seen]
  BY DEF UpstreamRow
<1> DEFINE mid == Patched(row, patch)
           new == Reviewed(mid)
<1>2. /\ patch.field = "model" => patch.value \in {n \in Models : model[n].id # None} \cup {None}
      /\ patch.field = "caps" => patch.value \in CapSets
      /\ patch.field = "enabled" => patch.value \in BOOLEAN
      /\ patch.field = "review" => patch.value \in {"pending", "approved", "rejected"}
      /\ patch.field \in {"model", "caps", "enabled", "review"}
  BY DEF ProviderModelPatches
<1>3. mid = [review |-> IF patch.field = "review" THEN patch.value ELSE row.review,
             model |-> IF patch.field = "model" THEN patch.value ELSE row.model,
             caps |-> IF patch.field = "caps" THEN patch.value ELSE row.caps,
             enabled |-> IF patch.field = "enabled" THEN patch.value ELSE row.enabled,
             discovery |-> row.discovery, discovered |-> row.discovered, seen |-> row.seen]
  BY <1>1, <1>2 DEF Patched
<1>4. mid \in UpstreamRow
  BY <1>2, <1>3 DEF UpstreamRow
<1>5. (mid.enabled /\ mid.review # "rejected") \in BOOLEAN
  OBVIOUS
<1>6. new \in UpstreamRow /\ new.model = mid.model /\ new.discovered = mid.discovered
      /\ new.seen = mid.seen
  BY <1>4, <1>5 DEF UpstreamRow, Reviewed
<1>7. mid.model = row.model \/ mid.model \in {n \in Models : model[n].id # None} \cup {None}
  BY <1>2, <1>3
<1>8. QED
  BY <1>3, <1>6, <1>7

-----------------------------------------------------------------------------
(* The tables at the start *)

\* The two sets of capabilities the catalogue starts with.
LEMMA CapsAtStart == All \in CapSets /\ Few \in CapSets /\ Few \subseteq All
<1>1. All \in CapSets
  BY CatalogAssumption DEF All
<1>2. \E caps \in CapSets : CapSets # {All} => caps # All
  BY <1>1
<1>3. Few \in CapSets
  BY <1>2 DEF Few
<1>4. QED
  BY <1>1, <1>3 DEF All

\* The tables are sound at the start.
LEMMA TablesInit == CatalogInit => TablesInv
<1> SUFFICES ASSUME CatalogInit PROVE TablesInv
  OBVIOUS
<1>1. PICK m \in Models, i \in Ids, p \in ProviderModels :
        /\ \E n \in Models \ {m}, j \in Ids \ {i} : \E other \in
             {NoModel, Offered(j, Few)} :
             model = [x \in Models |->
                        IF x = m THEN Offered(i, All)
                        ELSE IF x = n THEN other ELSE NoModel]
        /\ upstream = [x \in ProviderModels |->
                         IF x = p THEN [NoUpstream EXCEPT !.review = "approved", !.model = m,
                                                          !.caps = Few, !.enabled = TRUE]
                         ELSE NoUpstream]
        /\ route = [x \in Ids |->
                      IF x = i THEN [model |-> m, enabled |-> TRUE, active |-> 1,
                                     versions |-> <<[from |-> 1, to |-> Open, targets |-> {p}]>>]
                      ELSE NoRoute]
  BY DEF CatalogInit
<1>2a. PICK n \in Models \ {m}, j \in Ids \ {i} : \E other \in
             {NoModel, Offered(j, Few)} :
             model = [x \in Models |->
                        IF x = m THEN Offered(i, All)
                        ELSE IF x = n THEN other ELSE NoModel]
  BY <1>1
<1>2. PICK other \in {NoModel, Offered(j, Few)} :
             model = [x \in Models |->
                        IF x = m THEN Offered(i, All)
                        ELSE IF x = n THEN other ELSE NoModel]
  BY <1>2a
<1>3. NoModel \in ModelRow /\ ~NoModel.enabled /\ NoModel.id = None
  BY DEF NoModel, ModelRow
<1>4. ModelsSound
  <2> DEFINE first == Offered(i, All)
             second == Offered(j, Few)
  <2>1. first \in ModelRow /\ second \in ModelRow
    BY CapsAtStart, CatalogAssumption DEF ModelRow, Offered
  <2>2. other \in ModelRow /\ other.id \in {None, j} /\ (other.enabled => other.id # None)
    <3>1. CASE other = NoModel
      BY <1>3, <3>1
    <3>2. CASE other = second
      BY <2>1, <3>2, CatalogAssumption DEF Offered
    <3>3. QED
      BY <3>1, <3>2
  <2>3. i # None /\ j # None /\ i # j
    BY CatalogAssumption
  <2>4. \A x \in Models : model[x] = IF x = m THEN first ELSE IF x = n THEN other ELSE NoModel
    BY <1>2
  <2>5. first.id = i
    BY DEF Offered
  <2> HIDE DEF first, second
  <2>6. \A x \in Models : model[x].enabled => model[x].id # None
    BY <1>3, <2>2, <2>3, <2>4, <2>5
  <2>7. \A x, y \in Models : model[x].id # None /\ model[x].id = model[y].id => x = y
    BY <1>3, <2>2, <2>3, <2>4, <2>5
  <2>8. \A x \in Models : model[x] \in ModelRow
    BY <1>3, <2>1, <2>2, <2>4
  <2>9. model = [x \in Models |-> model[x]]
    BY <1>2
  <2>10. model \in [Models -> ModelRow]
    BY <2>8, <2>9
  <2>11. QED
    BY <2>6, <2>7, <2>10 DEF ModelsSound
<1>5. AliasesSound
  BY DEF CatalogInit, AliasesSound, AliasApart, NoAlias, AliasRow
<1>6. UpstreamsSound
  <2>1. NoUpstream \in UpstreamRow /\ ~NoUpstream.enabled /\ NoUpstream.model = None
        /\ NoUpstream.discovered = 0 /\ NoUpstream.seen = 0
    BY DEF NoUpstream, UpstreamRow
  <2> DEFINE first == [NoUpstream EXCEPT !.review = "approved", !.model = m, !.caps = Few,
                                         !.enabled = TRUE]
  <2>2. first \in UpstreamRow /\ first.enabled /\ first.model = m /\ first.review = "approved"
        /\ first.caps = Few /\ first.discovered = 0 /\ first.seen = 0
    BY CapsAtStart DEF NoUpstream, UpstreamRow
  <2>3. \A x \in ProviderModels : upstream[x] = first \/ upstream[x] = NoUpstream
    BY <1>1
  <2>4. upstream \in [ProviderModels -> UpstreamRow]
    BY <1>1, <2>1, <2>2
  <2>5. model[m].id = i /\ model[m].caps = All
    BY <1>2 DEF Offered
  <2>6. m # None /\ i # None
    BY CatalogAssumption
  <2> HIDE DEF first
  <2>7. ASSUME NEW x \in ProviderModels PROVE UpstreamSound(x)
    <3>1. CASE upstream[x] = NoUpstream
      BY <2>1, <3>1 DEF UpstreamSound
    <3>2. CASE upstream[x] = first
      BY <2>2, <2>5, <2>6, <3>2, CapsAtStart DEF UpstreamSound
    <3>3. QED
      BY <2>3, <3>1, <3>2
  <2>8. QED
    BY <2>4, <2>7 DEF UpstreamsSound
<1>7. EditsSound
  BY DEF CatalogInit, EditsSound, EditSound, Idle
<1>8. now \in 1..MaxTime
  BY CatalogAssumption DEF CatalogInit
<1>9. QED
  BY <1>4, <1>5, <1>6, <1>7, <1>8 DEF TablesInv
-----------------------------------------------------------------------------
(* What the editors of models leave sound *)

\* A model that exists stays.
IdsStay == \A m \in Models : model[m].id # None => model'[m].id # None

\* The validated changes stay sound while models only come, and each editor keeps
\* its change or ends it.
LEMMA EditsKept ==
    ASSUME EditsSound, IdsStay, DOMAIN edit' = Editors,
           \A e \in Editors : edit'[e] = edit[e] \/ edit'[e] = Idle
    PROVE  EditsSound'
<1>1. \A patch \in ProviderModelPatches : patch \in ProviderModelPatches'
  BY DEF ProviderModelPatches, IdsStay
<1>2. ASSUME NEW e \in Editors PROVE EditSound(e)'
  <2>1. CASE edit'[e] = Idle
    BY <2>1 DEF EditSound, Idle
  <2>2. CASE edit'[e] = edit[e]
    BY <1>1, <2>2 DEF EditSound, EditsSound, IdsStay, ModelPatches
  <2>3. QED
    BY <2>1, <2>2
<1>3. QED
  BY <1>2 DEF EditsSound

\* A provider model stays sound while its row does and its model keeps its
\* capabilities.
LEMMA UpstreamKept ==
    ASSUME NEW p \in ProviderModels, UpstreamsSound, IdsStay, upstream'[p] = upstream[p],
           upstream[p].model # None => model'[upstream[p].model].caps = model[upstream[p].model].caps
    PROVE  UpstreamSound(p)'
<1>1. upstream[p].model \in Models \cup {None} /\ UpstreamSound(p)
  BY DEF UpstreamsSound, UpstreamRow
<1>2. upstream[p].model # None => model'[upstream[p].model].id # None
  BY <1>1 DEF UpstreamSound, IdsStay
<1>3. QED
  BY <1>1, <1>2 DEF UpstreamSound

\* A step that leaves the models and the edits alone keeps what is said of them.
LEMMA TablesStill ==
    ASSUME TablesInv, UNCHANGED <<model, alias, upstream, edit>>, now' \in 1..MaxTime
    PROVE  TablesInv'
<1>1. ModelsSound' /\ AliasesSound' /\ UpstreamsSound'
  BY DEF TablesInv, ModelsSound, AliasesSound, AliasApart, UpstreamsSound, UpstreamSound
<1>2. EditsSound'
  BY DEF TablesInv, EditsSound, EditSound, ModelPatches, ProviderModelPatches
<1>3. QED
  BY <1>1, <1>2 DEF TablesInv

\* A step that validates a change of one editor and touches no table.
LEMMA ValidationKeeps ==
    ASSUME TablesInv, UNCHANGED <<model, alias, upstream, now>>, NEW e \in Editors, NEW change,
           Await(e, change), EditSound(e)'
    PROVE  TablesInv'
<1>1. ModelsSound' /\ AliasesSound' /\ UpstreamsSound'
  BY DEF TablesInv, ModelsSound, AliasesSound, AliasApart, UpstreamsSound, UpstreamSound
<1>2. DOMAIN edit' = Editors /\ \A d \in Editors \ {e} : edit'[d] = edit[d]
  BY DEF TablesInv, EditsSound, Await
<1>3. \A d \in Editors \ {e} : EditSound(d)'
  BY <1>2 DEF TablesInv, EditsSound, EditSound, ModelPatches, ProviderModelPatches
<1>4. QED
  BY <1>1, <1>2, <1>3 DEF TablesInv, EditsSound

\* The change the editor e has validated.
LEMMA Awaited ==
    ASSUME EditsSound, NEW e \in Editors, NEW change, Await(e, change)
    PROVE  edit'[e] = change
BY DEF Await, EditsSound

\* Validating a change of a model.
LEMMA UpdateModelKeeps ==
    ASSUME TablesInv, NEW e \in Editors, NEW m \in Models, UpdateModel(e, m)
    PROVE  TablesInv'
<1>1. PICK patch \in ModelPatches : Await(e, [pc |-> "model", row |-> m, patch |-> patch])
  BY DEF UpdateModel
<1>2. edit'[e] = [pc |-> "model", row |-> m, patch |-> patch]
  BY <1>1, Awaited DEF TablesInv
<1>3. model[m].id # None /\ UNCHANGED <<model, alias, upstream, now>>
  BY DEF UpdateModel, catalogVars, EditUnchanged
<1>4. EditSound(e)'
  BY <1>2, <1>3 DEF EditSound, ModelPatches
<1>5. QED
  BY <1>1, <1>3, <1>4, ValidationKeeps

\* Validating a change of a provider model.
LEMMA UpdateProviderModelKeeps ==
    ASSUME TablesInv, NEW e \in Editors, NEW p \in ProviderModels, UpdateProviderModel(e, p)
    PROVE  TablesInv'
<1>1. PICK patch \in ProviderModelPatches :
        Await(e, [pc |-> "provider_model", row |-> p, patch |-> patch])
  BY DEF UpdateProviderModel
<1>2. edit'[e] = [pc |-> "provider_model", row |-> p, patch |-> patch]
  BY <1>1, Awaited DEF TablesInv
<1>3. UNCHANGED <<model, alias, upstream, now>>
  BY DEF UpdateProviderModel, catalogVars, EditUnchanged
<1>4. EditSound(e)'
  BY <1>2, <1>3 DEF EditSound, ProviderModelPatches
<1>5. QED
  BY <1>1, <1>3, <1>4, ValidationKeeps

\* Validating a change of a route.
LEMMA UpdateRouteKeeps ==
    ASSUME TablesInv, NEW e \in Editors, NEW i \in Ids, UpdateRoute(e, i)
    PROVE  TablesInv'
<1>1. PICK enabled \in BOOLEAN : Await(e, [pc |-> "route", row |-> i, enabled |-> enabled])
  BY DEF UpdateRoute
<1>2. edit'[e] = [pc |-> "route", row |-> i, enabled |-> enabled]
  BY <1>1, Awaited DEF TablesInv
<1>3. UNCHANGED <<model, alias, upstream, now>>
  BY DEF UpdateRoute, catalogVars, EditUnchanged
<1>4. EditSound(e)'
  BY <1>2 DEF EditSound
<1>5. QED
  BY <1>1, <1>3, <1>4, ValidationKeeps

\* Committing a change of a route touches no other table.
LEMMA CommitRouteKeeps ==
    ASSUME TablesInv, NEW e \in Editors, CommitRoute(e)
    PROVE  TablesInv'
<1>1. Await(e, Idle) /\ UNCHANGED <<model, alias, upstream, now>>
  BY DEF CommitRoute, catalogVars, EditUnchanged
<1>2. edit'[e] = Idle
  BY <1>1, Awaited DEF TablesInv
<1>3. EditSound(e)'
  BY <1>2 DEF EditSound, Idle
<1>4. QED
  BY <1>1, <1>3, ValidationKeeps

\* The row of the alias i once the aliases of m are those of "as": the given ones
\* are enabled, the public id excepted, and its old aliases stay its own.
Replaced(row, m, as, id, i) ==
    /\ row \in AliasRow
    /\ i \in as => row.model = m /\ (row.enabled <=> i # id)
    /\ i \notin as /\ alias[i].model = m => row.model = m /\ ~row.enabled
    /\ i \notin as /\ alias[i].model # m => row = alias[i]

\* The rows replaceAliases writes.
LEMMA ReplacedAliases ==
    ASSUME AliasesSound, NEW m \in Models, NEW as, NEW id, NEW i \in Ids,
           NEW row, row = replaceAliases(m, as, id)[i]
    PROVE  Replaced(row, m, as, id, i)
<1>1. row = IF i \in as THEN [model |-> m, enabled |-> i # id]
            ELSE IF alias[i].model = m THEN [model |-> m, enabled |-> FALSE]
            ELSE alias[i]
  BY DEF replaceAliases
<1>2. alias[i] \in AliasRow /\ (i # id) \in BOOLEAN
  BY DEF AliasesSound
<1>3. CASE i \in as
  <2>1. PICK b \in BOOLEAN : b = (i # id)
    BY <1>2
  <2>2. row = [model |-> m, enabled |-> b]
    BY <1>1, <1>3, <2>1
  <2>3. row \in AliasRow /\ row.model = m /\ row.enabled = b
    BY <2>2 DEF AliasRow
  <2>4. QED
    BY <1>3, <2>1, <2>3 DEF Replaced
<1>4. CASE i \notin as /\ alias[i].model = m
  <2>1. row = [model |-> m, enabled |-> FALSE]
    BY <1>1, <1>4
  <2>2. row \in AliasRow /\ row.model = m /\ row.enabled = FALSE
    BY <2>1 DEF AliasRow
  <2>3. QED
    BY <1>4, <2>2 DEF Replaced
<1>5. CASE i \notin as /\ alias[i].model # m
  BY <1>1, <1>2, <1>5 DEF Replaced
<1>6. QED
  BY <1>3, <1>4, <1>5
\* The aliases after a change of the model m that the transaction accepts: each is
\* still of one model, and no model has it as its public id while it is enabled.
LEMMA AliasesAfterCommit ==
    ASSUME ModelsSound, AliasesSound, NEW m \in Models, NEW as, as \subseteq Ids, NEW new,
           new.id \in Ids, \A n \in Models : model'[n] = IF n = m THEN new ELSE model[n], IdsStay,
           alias' = replaceAliases(m, as, new.id), IdFree(new.id, m),
           \A i \in as : \A n \in Models \ {m} : model[n].id # i
    PROVE  AliasesSound'
<1>0. m # None /\ new.id # None
  BY CatalogAssumption
<1>1. ASSUME NEW i \in Ids PROVE alias'[i] \in AliasRow /\ AliasApart(i)'
  <2>1. /\ alias'[i] \in AliasRow
        /\ i \in as => alias'[i].model = m /\ (alias'[i].enabled <=> i # new.id)
        /\ i \notin as /\ alias[i].model = m => alias'[i].model = m /\ ~alias'[i].enabled
        /\ i \notin as /\ alias[i].model # m => alias'[i] = alias[i]
    <3>1. PICK row : row = alias'[i]
      OBVIOUS
    <3>2. row = replaceAliases(m, as, new.id)[i]
      BY <3>1
    <3>3. Replaced(row, m, as, new.id, i)
      BY <3>2, ReplacedAliases
    <3>4. QED
      BY <3>1, <3>3 DEF Replaced
  <2>2. AliasApart(i) /\ alias[i].model \in Models \cup {None}
    BY DEF AliasesSound, AliasRow
  <2>3. i = new.id => alias[i].model \in {None, m} /\ \A n \in Models \ {m} : model[n].id # i
    BY DEF IdFree
  <2>4. CASE i \in as
    <3>1. alias'[i].enabled => alias'[i].model # None
      BY <1>0, <2>1, <2>4
    <3>2. alias'[i].model # None => model'[alias'[i].model].id # None
      BY <1>0, <2>1, <2>4
    <3>3. ASSUME NEW n \in Models, model'[n].id = i
          PROVE  alias'[i].model \in {None, n} /\ ~alias'[i].enabled
      BY <2>1, <2>4, <3>3
    <3>4. QED
      BY <2>1, <3>1, <3>2, <3>3 DEF AliasApart
  <2>5. CASE i \notin as /\ alias[i].model = m
    <3>1. alias'[i].model = m /\ ~alias'[i].enabled
      BY <2>1, <2>5
    <3>2. model'[m].id # None
      BY <1>0
    <3>3. ASSUME NEW n \in Models, model'[n].id = i PROVE n = m
      BY <1>0, <2>2, <2>5, <3>3 DEF AliasApart
    <3>4. QED
      BY <2>1, <3>1, <3>2, <3>3 DEF AliasApart
  <2>6. CASE i \notin as /\ alias[i].model # m
    <3>1. alias'[i] = alias[i]
      BY <2>1, <2>6
    <3>2. alias[i].model # None => model'[alias[i].model].id # None
      BY <2>2 DEF IdsStay, AliasApart
    <3>3. ASSUME NEW n \in Models, model'[n].id = i
          PROVE  alias[i].model \in {None, n} /\ ~alias[i].enabled
      <4>1. CASE n = m
        <5>1. i = new.id
          BY <3>3, <4>1
        <5>2. alias[i].model = None
          BY <2>3, <2>6, <5>1
        <5>3. QED
          BY <2>2, <5>2 DEF AliasApart
      <4>2. CASE n # m
        BY <2>2, <3>3, <4>2 DEF AliasApart
      <4>3. QED
        BY <4>1, <4>2
    <3>4. QED
      BY <2>1, <2>2, <3>1, <3>2, <3>3 DEF AliasApart
  <2>7. QED
    BY <2>4, <2>5, <2>6
<1>2. alias' = [i \in Ids |-> alias'[i]]
  BY DEF replaceAliases
<1>3. alias' \in [Ids -> AliasRow]
  BY <1>1, <1>2
<1>4. QED
  BY <1>1, <1>3 DEF AliasesSound

\* A new model: its public id is nobody's, not even a disabled alias of another.
LEMMA CreateModelKeeps ==
    ASSUME TablesInv, NEW m \in Models, CreateModel(m)
    PROVE  TablesInv'
<1>1. PICK i \in Ids, c \in Classes, enabled \in BOOLEAN, public \in BOOLEAN,
           caps \in CapSets, as \in AliasSets :
        /\ IdFree(i, m) /\ \A a \in as : AliasFree(a, m, i)
        /\ model' = [model EXCEPT ![m] = [id |-> i, class |-> c, enabled |-> enabled,
                                          public |-> public, caps |-> caps]]
        /\ alias' = replaceAliases(m, as, i)
  BY DEF CreateModel
<1>2. /\ model[m].id = None /\ i # None
      /\ UNCHANGED <<upstream, edit, now>>
      /\ model \in [Models -> ModelRow]
  BY CatalogAssumption DEF CreateModel, EditUnchanged, TablesInv, ModelsSound
<1> DEFINE new == [id |-> i, class |-> c, enabled |-> enabled, public |-> public,
                   caps |-> caps]
<1>3. new \in ModelRow /\ new.id = i
  BY DEF ModelRow
<1>4. \A n \in Models : model'[n] = IF n = m THEN new ELSE model[n]
  BY <1>1, <1>2
<1>5. model' \in [Models -> ModelRow]
  BY <1>1, <1>2, <1>3
<1> HIDE DEF new
<1>6. IdsStay
  BY <1>2, <1>3, <1>4 DEF IdsStay
<1>7. ModelsSound'
  <2>1. \A n \in Models : model'[n].enabled => model'[n].id # None
    BY <1>2, <1>3, <1>4 DEF TablesInv, ModelsSound
  <2>2. \A n \in Models \ {m} : model'[n].id # i
    BY <1>1, <1>4 DEF IdFree
  <2>3. \A n, k \in Models : model'[n].id # None /\ model'[n].id = model'[k].id => n = k
    BY <1>3, <1>4, <2>2 DEF TablesInv, ModelsSound
  <2>4. QED
    BY <1>5, <2>1, <2>3 DEF ModelsSound
<1>8. AliasesSound'
  <2>1. as \subseteq Ids
    BY CatalogAssumption
  <2>2. \A j \in as : \A n \in Models \ {m} : model[n].id # j
    BY <1>1 DEF AliasFree
  <2>3. new.id \in Ids
    BY <1>3
  <2>4. IdFree(new.id, m)
    BY <1>1, <1>3
  <2>5. alias' = replaceAliases(m, as, new.id)
    BY <1>1, <1>3
  <2>6. ModelsSound /\ AliasesSound
    BY DEF TablesInv
  <2>7. QED
    BY <1>4, <1>6, <2>1, <2>2, <2>3, <2>4, <2>5, <2>6, AliasesAfterCommit
<1>9. UpstreamsSound'
  <2>1. ASSUME NEW p \in ProviderModels PROVE UpstreamSound(p)'
    <3>1. upstream[p].model # m /\ upstream[p].model \in Models \cup {None}
      BY <1>2, CatalogAssumption DEF TablesInv, UpstreamsSound, UpstreamSound, UpstreamRow
    <3>2. QED
      BY <1>2, <1>4, <1>6, <3>1, UpstreamKept DEF TablesInv
  <2>2. QED
    BY <1>2, <2>1 DEF UpstreamsSound, TablesInv
<1>10. EditsSound'
  BY <1>2, <1>6, EditsKept DEF TablesInv, EditsSound
<1>11. QED
  BY <1>2, <1>7, <1>8, <1>9, <1>10 DEF TablesInv

\* Committing a change of a model, or refusing it.
LEMMA CommitModelKeeps ==
    ASSUME TablesInv, NEW e \in Editors, CommitModel(e)
    PROVE  TablesInv'
<1> DEFINE m == edit[e].row
           patch == edit[e].patch
           new == Patched(model[m], patch)
           as == IF patch.field = "aliases" THEN patch.value ELSE Aliases(m)
<1>1. /\ m \in Models /\ model[m].id # None /\ patch \in ModelPatches
      /\ Await(e, Idle) /\ UNCHANGED <<upstream, now>>
      /\ model \in [Models -> ModelRow]
  BY DEF CommitModel, TablesInv, EditsSound, EditSound, EditUnchanged, ModelsSound
<1>2. edit'[e] = Idle
  BY <1>1, Awaited DEF TablesInv
<1>3. CASE ~Accepted(m, new, patch) /\ UNCHANGED <<model, alias>>
  <2>1. EditSound(e)'
    BY <1>2 DEF EditSound, Idle
  <2>2. QED
    BY <1>1, <1>3, <2>1, ValidationKeeps
<1>4. CASE /\ Accepted(m, new, patch)
           /\ model' = [model EXCEPT ![m] = new]
           /\ alias' = replaceAliases(m, as, new.id)
  <2>1. /\ new \in ModelRow /\ new.id # None
        /\ patch.field = "aliases" => patch.value \in AliasSets
    BY <1>1, PatchedModel
  <2>2. new.id \in Ids
    BY <2>1 DEF ModelRow
  <2>3. as \subseteq Ids
    BY <2>1, CatalogAssumption DEF Aliases
  <2>4. IdFree(new.id, m) /\ CoversProviders(m, new.caps)
    BY <1>4 DEF Accepted
  <2>5. \A i \in as : \A n \in Models \ {m} : model[n].id # i
    <3>1. CASE patch.field = "aliases"
      BY <1>4, <3>1 DEF Accepted, AliasFree
    <3>2. CASE patch.field # "aliases"
      BY <3>2 DEF Aliases, TablesInv, AliasesSound, AliasApart
    <3>3. QED
      BY <3>1, <3>2
  <2> HIDE DEF new, as, patch, m
  <2>6. \A n \in Models : model'[n] = IF n = m THEN new ELSE model[n]
    BY <1>1, <1>4
  <2>7. model' \in [Models -> ModelRow]
    BY <1>1, <1>4, <2>1
  <2>8. IdsStay
    BY <2>1, <2>6 DEF IdsStay
  <2>9. ModelsSound'
    <3>1. \A n \in Models : model'[n].enabled => model'[n].id # None
      BY <2>1, <2>6 DEF TablesInv, ModelsSound
    <3>2. \A n \in Models \ {m} : model'[n].id # new.id
      BY <2>4, <2>6 DEF IdFree
    <3>3. \A n, k \in Models : model'[n].id # None /\ model'[n].id = model'[k].id => n = k
      BY <2>6, <3>2 DEF TablesInv, ModelsSound
    <3>4. QED
      BY <2>7, <3>1, <3>3 DEF ModelsSound
  <2>10. AliasesSound'
    BY <1>1, <1>4, <2>2, <2>3, <2>4, <2>5, <2>6, <2>8, AliasesAfterCommit DEF TablesInv
  <2>11. UpstreamsSound'
    <3>1. ASSUME NEW p \in ProviderModels PROVE UpstreamSound(p)'
      <4>1. upstream[p].model \in Models \cup {None} /\ UpstreamSound(p)
        BY DEF TablesInv, UpstreamsSound, UpstreamRow
      <4>2. CASE upstream[p].model = m
        <5>1. upstream[p].caps \subseteq new.caps
          BY <2>4, <4>2 DEF CoversProviders, Supports
        <5>2. QED
          BY <1>1, <2>1, <2>6, <4>1, <4>2, <5>1 DEF UpstreamSound
      <4>3. CASE upstream[p].model # m
        <5>1. upstream[p].model # None
                => model'[upstream[p].model].caps = model[upstream[p].model].caps
          BY <2>6, <4>1, <4>3
        <5>2. upstream'[p] = upstream[p]
          BY <1>1
        <5>3. QED
          BY <2>8, <5>1, <5>2, UpstreamKept DEF TablesInv
      <4>4. QED
        BY <4>2, <4>3
    <3>2. QED
      BY <1>1, <3>1 DEF UpstreamsSound, TablesInv
  <2>12. EditsSound'
    <3>1. DOMAIN edit' = Editors /\ \A d \in Editors : edit'[d] = edit[d] \/ edit'[d] = Idle
      BY <1>1 DEF Await, TablesInv, EditsSound
    <3>2. QED
      BY <2>8, <3>1, EditsKept DEF TablesInv
  <2>13. QED
    BY <1>1, <2>9, <2>10, <2>11, <2>12 DEF TablesInv
<1>5. QED
  BY <1>3, <1>4 DEF CommitModel
-----------------------------------------------------------------------------
(* What reviews and discoveries leave sound *)

\* A step that writes one provider model, soundly.
LEMMA UpstreamWritten ==
    ASSUME TablesInv, UNCHANGED <<model, alias, now>>, NEW p \in ProviderModels,
           NEW row \in UpstreamRow, upstream' = [upstream EXCEPT ![p] = row],
           row.discovered <= row.seen,
           row.enabled => row.review = "approved" /\ row.model # None,
           row.model # None => model[row.model].id # None,
           WithinModel(row), DOMAIN edit' = Editors,
           \A e \in Editors : edit'[e] = edit[e] \/ edit'[e] = Idle
    PROVE  TablesInv'
<1>1. upstream \in [ProviderModels -> UpstreamRow]
  BY DEF TablesInv, UpstreamsSound
<1>2. upstream' \in [ProviderModels -> UpstreamRow] /\ upstream'[p] = row
      /\ \A q \in ProviderModels \ {p} : upstream'[q] = upstream[q]
  BY <1>1
<1>3. IdsStay
  BY DEF IdsStay
<1>4. \A q \in ProviderModels \ {p} : UpstreamSound(q)'
  BY <1>2, <1>3, UpstreamKept DEF TablesInv
<1>5. UpstreamSound(p)'
  BY <1>2 DEF UpstreamSound, WithinModel, Supports
<1>6. UpstreamsSound'
  BY <1>2, <1>4, <1>5 DEF UpstreamsSound
<1>7. ModelsSound' /\ AliasesSound'
  BY DEF TablesInv, ModelsSound, AliasesSound, AliasApart
<1>8. EditsSound'
  BY <1>3, EditsKept DEF TablesInv
<1>9. QED
  BY <1>6, <1>7, <1>8 DEF TablesInv

\* The row of a provider model created as approved.
CreatedRow(row, m) ==
    /\ row \in UpstreamRow /\ row.model = m /\ row.review = "approved"
    /\ row.discovered <= row.seen

\* It is a row, in use or not.
LEMMA CreatedRowSound ==
    ASSUME NEW m \in Models, NEW caps \in CapSets, NEW row, NEW b \in BOOLEAN,
           row = [NoUpstream EXCEPT !.review = "approved", !.model = m, !.caps = caps, !.enabled = b]
    PROVE  CreatedRow(row, m)
<1>1. CASE b = TRUE
  <2>1. row = [NoUpstream EXCEPT !.review = "approved", !.model = m, !.caps = caps, !.enabled = TRUE]
    BY <1>1
  <2> DEFINE new == [NoUpstream EXCEPT !.review = "approved", !.model = m, !.caps = caps, !.enabled = TRUE]
  <2>2. new \in UpstreamRow /\ new.model = m /\ new.review = "approved"
        /\ new.discovered = 0 /\ new.seen = 0
    BY DEF NoUpstream, UpstreamRow
  <2>3. QED
    BY <2>1, <2>2 DEF CreatedRow
<1>2. CASE b = FALSE
  <2>1. row = [NoUpstream EXCEPT !.review = "approved", !.model = m, !.caps = caps, !.enabled = FALSE]
    BY <1>2
  <2> DEFINE new == [NoUpstream EXCEPT !.review = "approved", !.model = m, !.caps = caps, !.enabled = FALSE]
  <2>2. new \in UpstreamRow /\ new.model = m /\ new.review = "approved"
        /\ new.discovered = 0 /\ new.seen = 0
    BY DEF NoUpstream, UpstreamRow
  <2>3. QED
    BY <2>1, <2>2 DEF CreatedRow
<1>3. QED
  BY <1>1, <1>2

\* Mapping a new provider model to a model that covers it.
LEMMA CreateProviderModelKeeps ==
    ASSUME TablesInv, NEW p \in ProviderModels, CreateProviderModel(p)
    PROVE  TablesInv'
<1>1. PICK m \in {n \in Models : model[n].id # None}, caps \in CapSets, enabled \in BOOLEAN :
        LET row == [NoUpstream EXCEPT !.review = "approved", !.model = m, !.caps = caps,
                                      !.enabled = enabled]
        IN WithinModel(row) /\ upstream' = [upstream EXCEPT ![p] = row]
  BY DEF CreateProviderModel
<1> DEFINE row == [NoUpstream EXCEPT !.review = "approved", !.model = m, !.caps = caps,
                                     !.enabled = enabled]
<1>2. row \in UpstreamRow /\ row.model = m /\ row.review = "approved"
      /\ row.discovered <= row.seen
  <2>1. CreatedRow(row, m)
    BY CreatedRowSound
  <2>2. QED
    BY <2>1 DEF CreatedRow
<1>3. WithinModel(row) /\ upstream' = [upstream EXCEPT ![p] = row]
  BY <1>1
<1>4. UNCHANGED <<model, alias, now, edit>> /\ DOMAIN edit = Editors
  BY DEF CreateProviderModel, EditUnchanged, TablesInv, EditsSound
<1>5. m # None /\ model[m].id # None
  BY CatalogAssumption
<1> HIDE DEF row
<1>6. QED
  BY <1>2, <1>3, <1>4, <1>5, UpstreamWritten

\* Committing a change of a provider model, or refusing it.
LEMMA CommitProviderModelKeeps ==
    ASSUME TablesInv, NEW e \in Editors, CommitProviderModel(e)
    PROVE  TablesInv'
<1> DEFINE p == edit[e].row
           patch == edit[e].patch
           row == Reviewed(Patched(upstream[p], patch))
<1>1. /\ p \in ProviderModels /\ patch \in ProviderModelPatches
      /\ Await(e, Idle) /\ UNCHANGED <<model, alias, now>>
      /\ upstream[p] \in UpstreamRow /\ UpstreamSound(p)
  BY DEF CommitProviderModel, TablesInv, EditsSound, EditSound, EditUnchanged, UpstreamsSound
<1>2. DOMAIN edit' = Editors /\ edit'[e] = Idle
      /\ \A d \in Editors : edit'[d] = edit[d] \/ edit'[d] = Idle
  BY <1>1 DEF Await, TablesInv, EditsSound
<1>3. CASE Allowed(row)
  <2>1. upstream' = [upstream EXCEPT ![p] = row]
    BY <1>3 DEF CommitProviderModel
  <2>2. /\ row \in UpstreamRow
        /\ row.discovered = upstream[p].discovered /\ row.seen = upstream[p].seen
        /\ row.model = upstream[p].model \/ row.model \in {n \in Models : model[n].id # None} \cup {None}
    BY <1>1, PatchedUpstream
  <2>3. row.enabled => row.review = "approved" /\ row.model # None
    BY <1>3 DEF Allowed
  <2>4. WithinModel(row)
    BY <1>3 DEF Allowed
  <2> HIDE DEF row, p, patch
  <2>5. row.discovered <= row.seen /\ (row.model # None => model[row.model].id # None)
    BY <1>1, <2>2 DEF UpstreamSound
  <2>6. QED
    BY <1>1, <1>2, <2>1, <2>2, <2>3, <2>4, <2>5, UpstreamWritten
<1>4. CASE ~Allowed(row)
  <2>1. upstream' = upstream
    BY <1>4 DEF CommitProviderModel
  <2>2. EditSound(e)'
    BY <1>2 DEF EditSound, Idle
  <2>3. QED
    BY <1>1, <2>1, <2>2, ValidationKeeps
<1>5. QED
  BY <1>3, <1>4

\* A snapshot of what the provider offers, dated at or after every discovery it
\* touches: what is reviewed keeps its capabilities.
LEMMA ReconcileKeeps ==
    ASSUME TablesInv, Reconcile
    PROVE  TablesInv'
<1>1. PICK found \in SUBSET ProviderModels, caps \in CapSets, at \in {now - 1, now} \ {0} :
        /\ \A p \in found : InOrder(upstream[p], at)
        /\ upstream' = [p \in ProviderModels |->
                          IF p \in found THEN Seen(upstream[p], caps, at)
                                         ELSE NotSeen(upstream[p], at)]
  BY DEF Reconcile
<1>2. at \in Nat /\ UNCHANGED <<model, alias, now, edit>> /\ IdsStay
  BY CatalogAssumption DEF Reconcile, EditUnchanged, TablesInv, IdsStay
<1>3. ASSUME NEW p \in ProviderModels PROVE upstream'[p] \in UpstreamRow /\ UpstreamSound(p)'
  <2>1. upstream[p] \in UpstreamRow /\ UpstreamSound(p)
    BY DEF TablesInv, UpstreamsSound
  <2>2. CASE p \in found
    <3>1. upstream'[p] = Seen(upstream[p], caps, at) /\ upstream[p].discovered <= at
      BY <1>1, <2>2 DEF InOrder
    <3>2. /\ upstream'[p] \in UpstreamRow
          /\ upstream'[p].enabled = upstream[p].enabled /\ upstream'[p].model = upstream[p].model
          /\ upstream'[p].discovered <= upstream'[p].seen
      <4> DEFINE old == upstream[p]
      <4>1. upstream'[p] =
              [review |-> IF old.review = "none" THEN "pending" ELSE old.review,
               model |-> old.model,
               caps |-> IF old.review \in {"none", "pending"} THEN caps ELSE old.caps,
               enabled |-> old.enabled, discovery |-> "present",
               discovered |-> IF old.discovered = 0 THEN at ELSE old.discovered, seen |-> at]
        BY <2>1, <3>1 DEF Seen, UpstreamRow
      <4>2. QED
        BY <1>2, <2>1, <3>1, <4>1 DEF UpstreamRow
    <3>3. /\ upstream[p].review = "approved" => upstream'[p].review = "approved"
          /\ upstream'[p].review = "approved"
               => upstream[p].review = "approved" /\ upstream'[p].caps = upstream[p].caps
      BY <2>1, <3>1 DEF Seen, UpstreamRow
    <3>4. QED
      BY <1>2, <2>1, <3>2, <3>3 DEF UpstreamSound
  <2>3. CASE p \notin found
    <3>1. upstream'[p] = NotSeen(upstream[p], at)
      BY <1>1, <2>3
    <3>2. /\ upstream'[p] \in UpstreamRow
          /\ upstream'[p].enabled = upstream[p].enabled /\ upstream'[p].model = upstream[p].model
          /\ upstream'[p].discovered = upstream[p].discovered
          /\ upstream'[p].seen = upstream[p].seen /\ upstream'[p].review = upstream[p].review
          /\ upstream'[p].caps = upstream[p].caps
      BY <2>1, <3>1 DEF NotSeen, UpstreamRow
    <3>3. QED
      BY <1>2, <2>1, <3>2 DEF UpstreamSound
  <2>4. QED
    BY <2>2, <2>3
<1>4. upstream' = [p \in ProviderModels |-> upstream'[p]]
  BY <1>1
<1>5. upstream' \in [ProviderModels -> UpstreamRow]
  BY <1>3, <1>4
<1>6. UpstreamsSound'
  BY <1>3, <1>5 DEF UpstreamsSound
<1>7. ModelsSound' /\ AliasesSound'
  BY <1>2 DEF TablesInv, ModelsSound, AliasesSound, AliasApart
<1>8. EditsSound'
  BY <1>2, EditsKept DEF TablesInv, EditsSound
<1>9. QED
  BY <1>2, <1>6, <1>7, <1>8 DEF TablesInv
-----------------------------------------------------------------------------
(* The catalogue keeps its integrity *)

\* The steps of a request.
RequestStep(r) ==
    \/ ResolvePublic(r) \/ Resolve(r) \/ getRoute(r) \/ loadTargets(r)
    \/ billingClass(r) \/ ResolveSnapshot(r)

\* A request changes nothing but what it has read.
LEMMA RequestReads ==
    ASSUME NEW r, RequestStep(r)
    PROVE  UNCHANGED <<now, model, alias, upstream, route, price, edit>>
BY DEF RequestStep, ResolvePublic, Resolve, getRoute, loadTargets, billingClass,
       ResolveSnapshot, RequestUnchanged, catalogVars

\* Every step keeps the tables sound.
LEMMA TablesStep == TablesInv /\ [CatalogNext]_vars => TablesInv'
<1> SUFFICES ASSUME TablesInv, [CatalogNext]_vars PROVE TablesInv'
  OBVIOUS
<1>1. CASE \E m \in Models : CreateModel(m)
  BY <1>1, CreateModelKeeps
<1>2. ASSUME NEW e \in Editors,
             \/ CommitModel(e) \/ CommitProviderModel(e) \/ CommitRoute(e)
             \/ \E m \in Models : UpdateModel(e, m)
             \/ \E p \in ProviderModels : UpdateProviderModel(e, p)
             \/ \E i \in Ids : UpdateRoute(e, i)
      PROVE  TablesInv'
  BY <1>2, CommitModelKeeps, CommitProviderModelKeeps, CommitRouteKeeps, UpdateModelKeeps,
     UpdateProviderModelKeeps, UpdateRouteKeeps
<1>3. CASE \E p \in ProviderModels : CreateProviderModel(p)
  BY <1>3, CreateProviderModelKeeps
<1>4. CASE Reconcile
  BY <1>4, ReconcileKeeps
<1>5. CASE \E i \in Ids : CreateRoute(i) \/ Publish(i)
  <2>1. UNCHANGED <<model, alias, upstream, edit, now>>
    BY <1>5 DEF CreateRoute, Publish, catalogVars, EditUnchanged
  <2>2. QED
    BY <2>1, TablesStill DEF TablesInv
<1>6. CASE CreatePrice \/ \E n \in DOMAIN price : Activate(n) \/ Retire(n)
  <2>1. UNCHANGED <<model, alias, upstream, edit, now>>
    BY <1>6 DEF CreatePrice, Activate, Retire, catalogVars, EditUnchanged
  <2>2. QED
    BY <2>1, TablesStill DEF TablesInv
<1>7. CASE \E r \in Requests : RequestStep(r)
  <2>1. UNCHANGED <<model, alias, upstream, edit, now>>
    BY <1>7, RequestReads
  <2>2. QED
    BY <2>1, TablesStill DEF TablesInv
<1>8. CASE Tick
  <2>1. UNCHANGED <<model, alias, upstream, edit>> /\ now' \in 1..MaxTime
    BY <1>8, CatalogAssumption DEF Tick, catalogVars, TablesInv
  <2>2. QED
    BY <2>1, TablesStill
<1>9. CASE UNCHANGED vars
  <2>1. UNCHANGED <<model, alias, upstream, edit, now>>
    BY <1>9 DEF vars, catalogVars
  <2>2. QED
    BY <2>1, TablesStill DEF TablesInv
<1>10. QED
  BY <1>1, <1>2, <1>3, <1>4, <1>5, <1>6, <1>7, <1>8, <1>9 DEF CatalogNext, RequestStep

\* A set whose members are all equal has at most one.
LEMMA AtMostOne ==
    ASSUME NEW S, \A x, y \in S : x = y
    PROVE  Cardinality(S) <= 1
<1>1. CASE S = {}
  BY <1>1, FS_EmptySet
<1>2. CASE S # {}
  <2>1. PICK x : x \in S
    BY <1>2
  <2>2. S = {x}
    BY <2>1
  <2>3. QED
    BY <2>2, FS_Singleton
<1>3. QED
  BY <1>1, <1>2

\* Sound tables give every identifier one meaning.
LEMMA SoundMeansOneMeaning == TablesInv => OneMeaning
<1> SUFFICES ASSUME TablesInv, NEW i \in Ids
             PROVE  /\ Cardinality(Names(i)) <= 1
                    /\ alias[i].model # None => Names(i) \subseteq {alias[i].model}
                    /\ alias[i].enabled => \A m \in Models : model[m].id # i
  BY DEF OneMeaning
<1>1. AliasApart(i) /\ i # None
  BY CatalogAssumption DEF TablesInv, AliasesSound
<1>2. alias[i].model # None => Names(i) \subseteq {alias[i].model}
  BY <1>1 DEF Names, AliasApart
<1>3. alias[i].enabled => \A m \in Models : model[m].id # i
  BY <1>1 DEF AliasApart
<1>4. \A x, y \in Names(i) : x = y
  BY <1>1 DEF Names, AliasApart, TablesInv, ModelsSound
<1>5. Cardinality(Names(i)) <= 1
  BY <1>4, AtMostOne
<1>6. QED
  BY <1>2, <1>3, <1>5

\* The catalogue keeps its integrity: whatever editors validate and commit, and
\* however reviews and discoveries interleave with them, an identifier never names
\* two models, an alias is never reassigned, and no approved provider model offers
\* more than its public model has.
THEOREM CatalogKeepsIntegrity == CatalogSpec => []CatalogIntegrity
<1>1. CatalogSpec => []TablesInv
  BY TablesInit, TablesStep, PTL DEF CatalogSpec
<1>2. TablesInv => CatalogIntegrity
  <2> SUFFICES ASSUME TablesInv PROVE CatalogIntegrity
    OBVIOUS
  <2>1. CatalogTypeOK
    BY DEF TablesInv, CatalogTypeOK, ModelsSound, ModelRow, AliasesSound, AliasRow,
           UpstreamsSound, UpstreamRow, UpstreamSound
  <2>2. WithinCapabilities
    BY DEF WithinCapabilities, TablesInv, UpstreamsSound, UpstreamSound
  <2>3. QED
    BY <2>1, <2>2, SoundMeansOneMeaning DEF CatalogIntegrity
<1>3. QED
  BY <1>1, <1>2, PTL
-----------------------------------------------------------------------------
(* Routes *)

\* The rows of model_route_versions.
VersionRow == [from : Nat, to : Nat, targets : SUBSET ProviderModels]

\* The versions follow one another, and only the last is open.
Following(vs) ==
    \A n \in DOMAIN vs :
      IF n = Len(vs) THEN vs[n].to = Open
      ELSE vs[n].to = vs[n + 1].from /\ vs[n].from < vs[n].to

\* A route has versions, of which the last is active; what is no route has none.
RouteSound(i) ==
    /\ DOMAIN route[i] = {"model", "enabled", "active", "versions"}
    /\ route[i].versions \in Seq(VersionRow)
    /\ route[i].model = None => route[i].versions = <<>>
    /\ route[i].model # None =>
         /\ Len(route[i].versions) > 0 /\ route[i].active = Len(route[i].versions)
         /\ Following(route[i].versions)

\* The routes are sound.
RoutesSound == DOMAIN route = Ids /\ \A i \in Ids : RouteSound(i)

\* A step may add a route or a version, and never changes the targets of one.
RoutesGrow ==
    \A i \in Ids :
      /\ route[i].model # None => route'[i].model # None
      /\ Len(route'[i].versions) >= Len(route[i].versions)
      /\ \A n \in 1..Len(route[i].versions) :
           route'[i].versions[n].targets = route[i].versions[n].targets

\* The larger of two numbers.
LEMMA MaxOfTwo ==
    ASSUME NEW a \in Nat, NEW b \in Nat
    PROVE  Max({a, b}) \in Nat /\ Max({a, b}) >= a /\ Max({a, b}) >= b
<1>1. \E x \in {a, b} : \A y \in {a, b} : x >= y
  OBVIOUS
<1>2. Max({a, b}) \in {a, b} /\ \A y \in {a, b} : Max({a, b}) >= y
  BY <1>1 DEF Max
<1>3. QED
  BY <1>2

\* The versions "new" are those of vs, the last closed at "end", and one more.
Extended(new, vs, end, ts) == new = Append([vs EXCEPT ![Len(vs)].to = end], Version(end, ts))

\* The versions "new" are one more than vs, with the same targets.
Continued(new, vs) ==
    /\ new \in Seq(VersionRow) /\ Len(new) = Len(vs) + 1
    /\ Following(new)
    /\ \A n \in 1..Len(vs) : new[n].targets = vs[n].targets

\* Publishing closes the last version at a time after it began, whatever the clock
\* says, and the next begins there: the versions go on following one another.
LEMMA PublishedFollow ==
    ASSUME NEW vs \in Seq(VersionRow), Len(vs) > 0, Following(vs), NEW end \in Nat,
           end > vs[Len(vs)].from, NEW ts \in SUBSET ProviderModels, NEW new,
           Extended(new, vs, end, ts)
    PROVE  Continued(new, vs)
<1> DEFINE last == Len(vs)
           mid == [vs EXCEPT ![last].to = end]
<1>1. last \in Nat /\ last \in DOMAIN vs /\ DOMAIN vs = 1..last /\ \A n \in 1..last : vs[n] \in VersionRow
  OBVIOUS
<1>2. /\ \A n \in 1..last : mid[n] = IF n = last THEN [vs[last] EXCEPT !.to = end] ELSE vs[n]
      /\ DOMAIN mid = 1..last
  BY <1>1
<1>3. /\ [vs[last] EXCEPT !.to = end] \in VersionRow
      /\ [vs[last] EXCEPT !.to = end].to = end
      /\ [vs[last] EXCEPT !.to = end].from = vs[last].from
      /\ [vs[last] EXCEPT !.to = end].targets = vs[last].targets
  BY <1>1 DEF VersionRow
<1>4. mid \in Seq(VersionRow) /\ Len(mid) = last
  <2>1. \A n \in 1..last : mid[n] \in VersionRow
    BY <1>1, <1>2, <1>3
  <2>2. mid \in [1..last -> VersionRow]
    BY <1>2, <2>1
  <2>3. QED
    BY <1>1, <2>2
<1>5. Version(end, ts) \in VersionRow /\ Version(end, ts).from = end /\ Version(end, ts).to = Open
  BY DEF Version, VersionRow, Open
<1>5a. last \in Nat /\ last = Len(vs) /\ last > 0
  BY <1>1
<1> HIDE DEF mid, last
<1>6. /\ new \in Seq(VersionRow) /\ Len(new) = last + 1
      /\ \A n \in 1..last : new[n] = mid[n]
      /\ new[last + 1] = Version(end, ts)
      /\ DOMAIN new = 1..last + 1
  <2>1. PICK v \in VersionRow : v = Version(end, ts)
    BY <1>5
  <2>2. new = Append(mid, v)
    BY <2>1 DEF mid, last, Extended
  <2>3. new \in Seq(VersionRow) /\ Len(new) = last + 1 /\ new[last + 1] = v
    BY <1>4, <1>5a, <2>1, <2>2
  <2>4. \A n \in 1..last : new[n] = mid[n]
    BY <1>4, <1>5a, <2>1, <2>2
  <2>5. QED
    BY <1>5a, <2>1, <2>3, <2>4
<1>7. \A n \in 1..last : new[n].targets = vs[n].targets /\ new[n].from = vs[n].from
  BY <1>2, <1>3, <1>6
<1>8. ASSUME NEW n \in 1..last + 1
      PROVE  IF n = last + 1 THEN new[n].to = Open
             ELSE new[n].to = new[n + 1].from /\ new[n].from < new[n].to
  <2>1. CASE n = last + 1
    BY <1>5, <1>6, <2>1
  <2>2. CASE n = last
    <3>1. last \in 1..last /\ last # last + 1
      BY <1>5a
    <3>2. new[last].to = end /\ new[last].from = vs[last].from /\ new[last + 1].from = end
      BY <1>2, <1>3, <1>5, <1>6, <3>1
    <3>3. vs[last].from < end
      BY <1>1, <1>5a, <3>1 DEF VersionRow
    <3>4. QED
      BY <2>2, <3>1, <3>2, <3>3
  <2>3. CASE n < last
    <3>1. n \in 1..last /\ n + 1 \in 1..last /\ n # last
      BY <1>5a, <1>8, <2>3
    <3>2. vs[n].to = vs[n + 1].from /\ vs[n].from < vs[n].to
      BY <1>1, <3>1 DEF Following
    <3>3. new[n] = vs[n] /\ new[n + 1].from = vs[n + 1].from
      BY <1>2, <1>6, <1>7, <3>1
    <3>4. QED
      BY <1>1, <1>8, <2>3, <3>2, <3>3
  <2>4. QED
    BY <1>5a, <1>8, <2>1, <2>2, <2>3
<1>9. QED
  BY <1>5a, <1>6, <1>7, <1>8 DEF Following, Continued

\* The routes at the start.
LEMMA RoutesInit == CatalogInit => RoutesSound
<1> SUFFICES ASSUME CatalogInit PROVE RoutesSound
  OBVIOUS
<1>1. PICK m \in Models, i \in Ids, p \in ProviderModels :
        route = [x \in Ids |->
                   IF x = i THEN [model |-> m, enabled |-> TRUE, active |-> 1,
                                  versions |-> <<[from |-> 1, to |-> Open, targets |-> {p}]>>]
                   ELSE NoRoute]
  BY ZenonT(60) DEF CatalogInit
<1>2. DOMAIN route = Ids
  BY <1>1
<1> DEFINE vs == <<[from |-> 1, to |-> Open, targets |-> {p}]>>
<1>3. vs \in Seq(VersionRow) /\ Len(vs) = 1 /\ Following(vs)
  BY DEF VersionRow, Following, Open
<1> HIDE DEF vs
<1>4. route[i] = [model |-> m, enabled |-> TRUE, active |-> 1, versions |-> vs]
  BY <1>1 DEF vs
<1>5. RouteSound(i)
  <2>1. DOMAIN route[i] = {"model", "enabled", "active", "versions"}
    BY <1>4
  <2>2. route[i].versions = vs /\ route[i].active = 1 /\ route[i].model = m
    BY <1>4
  <2>3. m # None
    BY CatalogAssumption
  <2>4. QED
    <3>1. route[i].versions \in Seq(VersionRow)
      BY <1>3, <2>2
    <3>2. route[i].model # None
      BY <2>2, <2>3
    <3>3. Len(route[i].versions) > 0 /\ route[i].active = Len(route[i].versions)
      <4>1. Len(vs) = 1
        BY <1>3
      <4>2. route[i].versions = vs /\ route[i].active = 1
        BY <2>2
      <4>3. Len(route[i].versions) = 1
        BY <4>1, <4>2
      <4>4. QED
        BY <4>2, <4>3
    <3>4. Following(route[i].versions)
      BY <1>3, <2>2
    <3>5. QED
      BY <2>1, <3>1, <3>2, <3>3, <3>4 DEF RouteSound
<1>6. ASSUME NEW x \in Ids, x # i PROVE RouteSound(x)
  <2>1. route[x] = NoRoute
    BY <1>1, <1>6
  <2>2. QED
    BY <2>1 DEF RouteSound, NoRoute
<1>7. QED
  BY <1>2, <1>5, <1>6 DEF RoutesSound
\* A step that writes one route, soundly and without touching its old versions.
LEMMA RouteWritten ==
    ASSUME RoutesSound, NEW i \in Ids, DOMAIN route' = Ids,
           \A j \in Ids \ {i} : route'[j] = route[j], RouteSound(i)',
           route[i].model # None => route'[i].model # None,
           Len(route'[i].versions) >= Len(route[i].versions),
           \A n \in 1..Len(route[i].versions) :
             route'[i].versions[n].targets = route[i].versions[n].targets
    PROVE  RoutesSound' /\ RoutesGrow
<1>1. ASSUME NEW j \in Ids \ {i} PROVE RouteSound(j)'
  BY DEF RoutesSound, RouteSound
<1>2. RoutesSound'
  BY <1>1 DEF RoutesSound
<1>3. ASSUME NEW j \in Ids \ {i} PROVE Len(route[j].versions) \in Nat
  BY DEF RoutesSound, RouteSound
<1>4. RoutesGrow
  BY <1>3 DEF RoutesGrow
<1>5. QED
  BY <1>2, <1>4

\* A step that leaves the routes alone.
LEMMA RoutesStill ==
    ASSUME RoutesSound, route' = route
    PROVE  RoutesSound' /\ RoutesGrow
<1>1. RoutesSound'
  BY DEF RoutesSound, RouteSound
<1>2. \A j \in Ids : Len(route[j].versions) \in Nat
  BY DEF RoutesSound, RouteSound
<1>3. QED
  BY <1>1, <1>2 DEF RoutesGrow

\* Switching a route on or off.
LEMMA CommitRouteFollows ==
    ASSUME RoutesSound, NEW e \in Editors, edit[e].row \in Ids, CommitRoute(e)
    PROVE  RoutesSound' /\ RoutesGrow
<1>0. PICK i \in Ids : i = edit[e].row
  OBVIOUS
<1>1. RouteSound(i) /\ DOMAIN route = Ids
  BY DEF RoutesSound
<1>2. PICK x : x = edit[e].enabled
  OBVIOUS
<1>3. route' = [route EXCEPT ![i].enabled = x]
  BY <1>0, <1>2 DEF CommitRoute
<1>4. route'[i] = [route[i] EXCEPT !.enabled = x]
  BY <1>1, <1>3
<1>4a. DOMAIN route' = Ids /\ \A j \in Ids \ {i} : route'[j] = route[j]
  BY <1>1, <1>3
<1>5. /\ DOMAIN route'[i] = DOMAIN route[i] /\ route'[i].model = route[i].model
      /\ route'[i].active = route[i].active /\ route'[i].versions = route[i].versions
  BY <1>1, <1>4 DEF RouteSound
<1>6. RouteSound(i)'
  BY <1>1, <1>5 DEF RouteSound
<1>7. Len(route[i].versions) \in Nat
  BY <1>1 DEF RouteSound
<1>8. QED
  BY <1>4a, <1>5, <1>6, <1>7, RouteWritten

\* A new route has one version.
LEMMA CreateRouteFollows ==
    ASSUME RoutesSound, now \in Nat \ {0}, NEW i \in Ids, CreateRoute(i), None \notin Models,
           AliasesSound
    PROVE  RoutesSound' /\ RoutesGrow
<1>1. PICK m \in Names(i), ts \in SUBSET ProviderModels, enabled \in BOOLEAN, at \in Clock :
        route' = [route EXCEPT ![i] = [model |-> m, enabled |-> enabled, active |-> 1,
                                       versions |-> <<Version(at, ts)>>]]
  BY DEF CreateRoute
<1>2. route[i].model = None /\ RouteSound(i) /\ DOMAIN route = Ids
  BY DEF RoutesSound, CreateRoute
<1>3. m # None /\ at \in Nat
  BY DEF Names, Clock, AliasesSound, AliasRow
<1> DEFINE vs == <<Version(at, ts)>>
<1>4. vs \in Seq(VersionRow) /\ Len(vs) = 1 /\ Following(vs)
  <2>1. Version(at, ts) \in VersionRow /\ Version(at, ts).to = Open
    BY <1>3 DEF Version, VersionRow, Open
  <2>2. PICK v \in VersionRow : v = Version(at, ts) /\ v.to = Open
    BY <2>1
  <2>3. QED
    BY <2>2 DEF Following
<1> HIDE DEF vs
<1>5. route' = [route EXCEPT ![i] = [model |-> m, enabled |-> enabled, active |-> 1,
                                     versions |-> vs]]
  BY <1>1 DEF vs
<1>6. /\ DOMAIN route'[i] = {"model", "enabled", "active", "versions"}
      /\ route'[i].model = m /\ route'[i].active = 1 /\ route'[i].versions = vs
  BY <1>2, <1>5
<1>7. DOMAIN route' = Ids /\ \A j \in Ids \ {i} : route'[j] = route[j]
  BY <1>2, <1>5
<1>8. Len(route'[i].versions) = 1
  BY <1>4, <1>6
<1>9. RouteSound(i)'
  <2>1. route'[i].versions \in Seq(VersionRow) /\ Following(route'[i].versions)
    BY <1>4, <1>6
  <2>2. QED
    BY <1>3, <1>6, <1>8, <2>1 DEF RouteSound
<1>10. Len(route[i].versions) = 0
  BY <1>2 DEF RouteSound
<1>11. QED
  BY <1>2, <1>7, <1>8, <1>9, <1>10, RouteWritten

\* A new version closes the one before it.
LEMMA PublishFollows ==
    ASSUME RoutesSound, now \in Nat \ {0}, NEW i \in Ids, Publish(i)
    PROVE  RoutesSound' /\ RoutesGrow
<1>0. PICK vs : vs = route[i].versions
  OBVIOUS
<1> DEFINE last == Len(vs)
<1>1. PICK ts \in SUBSET ProviderModels, at \in Clock :
        route' = [route EXCEPT
           ![i].versions = Append([@ EXCEPT ![last].to = ClosedAt(vs[last], at)],
                                  Version(ClosedAt(vs[last], at), ts)),
           ![i].active = last + 1]
  BY <1>0 DEF Publish
<1>2. route[i].model # None /\ RouteSound(i) /\ DOMAIN route = Ids
  BY DEF RoutesSound, Publish
<1>3. /\ vs \in Seq(VersionRow) /\ last > 0 /\ last \in Nat /\ Following(vs) /\ vs[last].from \in Nat
      /\ DOMAIN route[i] = {"model", "enabled", "active", "versions"}
  <2>1. vs \in Seq(VersionRow) /\ Len(vs) > 0 /\ Following(vs)
        /\ DOMAIN route[i] = {"model", "enabled", "active", "versions"}
    BY <1>0, <1>2 DEF RouteSound
  <2>2. vs[Len(vs)] \in VersionRow
    BY <2>1
  <2>3. QED
    BY <2>1, <2>2 DEF VersionRow
<1>4. PICK end \in Nat : end = ClosedAt(vs[last], at) /\ end > vs[last].from
  <2>1. at \in Nat /\ vs[last].from + 1 \in Nat
    BY <1>3 DEF Clock
  <2>2. PICK next \in Nat : next = vs[last].from + 1
    BY <2>1
  <2>3. Max({at, next}) \in Nat /\ Max({at, next}) >= next
    BY <2>1, MaxOfTwo
  <2>4. ClosedAt(vs[last], at) = Max({at, next})
    BY <2>2 DEF ClosedAt
  <2>5. QED
    BY <1>3, <2>2, <2>3, <2>4
<1>5. PICK new : new = Append([vs EXCEPT ![last].to = end], Version(end, ts))
  OBVIOUS
<1>6. route'[i] = [route[i] EXCEPT !.versions = new, !.active = last + 1]
      /\ DOMAIN route' = Ids /\ \A j \in Ids \ {i} : route'[j] = route[j]
  BY <1>0, <1>1, <1>2, <1>3, <1>4, <1>5
<1>7. /\ new \in Seq(VersionRow) /\ Len(new) = last + 1
      /\ Following(new)
      /\ \A n \in 1..last : new[n].targets = vs[n].targets
  <2>1. Extended(new, vs, end, ts)
    BY <1>5 DEF Extended
  <2>2. Continued(new, vs)
    BY <1>3, <1>4, <2>1, PublishedFollow
  <2>3. QED
    BY <2>2 DEF Continued
<1>8. /\ DOMAIN route'[i] = {"model", "enabled", "active", "versions"}
      /\ route'[i].model = route[i].model /\ route'[i].active = last + 1
      /\ route'[i].versions = new
  BY <1>3, <1>6
<1>9. RouteSound(i)'
  <2>1. Len(new) > 0
    BY <1>3, <1>7
  <2>2. QED
    BY <1>2, <1>7, <1>8, <2>1 DEF RouteSound
<1>10. Len(new) >= last
  BY <1>3, <1>7
<1>11. QED
  BY <1>0, <1>6, <1>7, <1>8, <1>9, <1>10, RouteWritten
-----------------------------------------------------------------------------
(* Prices *)

\* The rows of price_versions.
PriceRow ==
    [scope : {"provider_model", "model", "global"},
     targets : SUBSET (Models \cup ProviderModels \cup {None}),
     dimensions : SUBSET {"request", "input", "output"}, from : Nat, to : Nat,
     status : {"draft", "active", "retired"}]

\* The price versions have their types, and no two published ones of a scope overlap.
PricesSound == price \in Seq(PriceRow) /\ OnePriceInForce

\* A step may add a version, and may end a published one; it never puts one back in
\* force at any time, nor changes what it prices.
PricesSettle ==
    /\ Len(price') >= Len(price)
    /\ \A n \in 1..Len(price) :
         /\ price'[n].scope = price[n].scope /\ price'[n].targets = price[n].targets
         /\ price'[n].dimensions = price[n].dimensions
         /\ Published(price[n]) =>
              /\ Published(price'[n])
              /\ \A at \in Nat : InForce(price'[n], at) => InForce(price[n], at)

\* The prices at the start.
LEMMA PricesInit == CatalogInit => PricesSound
<1> SUFFICES ASSUME CatalogInit PROVE PricesSound
  OBVIOUS
<1> DEFINE row == [scope |-> "global", targets |-> {None}, dimensions |-> {"input", "output"},
                   from |-> 1, to |-> Open, status |-> "active"]
<1>1. row \in PriceRow
  BY DEF PriceRow, Open
<1>2. price = <<>> \/ price = <<row>>
  BY DEF CatalogInit
<1> HIDE DEF row
<1>3. price \in Seq(PriceRow) /\ (Len(price) = 0 \/ Len(price) = 1)
  <2>1. CASE price = <<>>
    BY <2>1
  <2>2. CASE price = <<row>>
    BY <1>1, <2>2
  <2>3. QED
    BY <1>2, <2>1, <2>2
<1>4. \A k, n \in DOMAIN price : k = n
  BY <1>3
<1>5. QED
  BY <1>3, <1>4 DEF PricesSound, OnePriceInForce

\* A step that leaves the prices alone.
LEMMA PricesStill ==
    ASSUME PricesSound, price' = price
    PROVE  PricesSound' /\ PricesSettle
<1>1. PricesSound'
  BY DEF PricesSound, OnePriceInForce
<1>2. Len(price) \in Nat
  BY DEF PricesSound
<1>3. QED
  BY <1>1, <1>2 DEF PricesSettle

\* A new version is a draft.
LEMMA CreatePriceSettles ==
    ASSUME PricesSound, CreatePrice
    PROVE  PricesSound' /\ PricesSettle
<1>1. PICK p \in Prices, from \in 1..MaxTime : \E to \in {Open, from + 1} :
        price' = Append(price, [scope |-> p.scope, targets |-> p.targets,
                                dimensions |-> p.dimensions, from |-> from, to |-> to,
                                status |-> "draft"])
  BY DEF CreatePrice
<1>2. PICK to \in {Open, from + 1} :
        price' = Append(price, [scope |-> p.scope, targets |-> p.targets,
                                dimensions |-> p.dimensions, from |-> from, to |-> to,
                                status |-> "draft"])
  BY <1>1
<1>3. from \in Nat /\ to \in Nat
  BY CatalogAssumption DEF Open
<1>4. /\ p.scope \in {"provider_model", "model", "global"}
      /\ p.targets \subseteq Models \cup ProviderModels \cup {None}
      /\ p.dimensions \subseteq {"request", "input", "output"}
  BY CatalogAssumption
<1>5. PICK row : row = [scope |-> p.scope, targets |-> p.targets,
                        dimensions |-> p.dimensions, from |-> from, to |-> to, status |-> "draft"]
  OBVIOUS
<1>6. row \in PriceRow /\ row.status = "draft"
  BY <1>3, <1>4, <1>5 DEF PriceRow
<1>7. price' = Append(price, row) /\ price \in Seq(PriceRow)
  BY <1>2, <1>5 DEF PricesSound
<1>8. /\ price' \in Seq(PriceRow) /\ Len(price) \in Nat /\ Len(price') = Len(price) + 1
      /\ DOMAIN price = 1..Len(price) /\ DOMAIN price' = 1..Len(price) + 1
      /\ price'[Len(price) + 1] = row /\ \A n \in 1..Len(price) : price'[n] = price[n]
  BY <1>6, <1>7
<1>9. ~Published(row)
  BY <1>6 DEF Published
<1>10. \A n \in DOMAIN price' : Published(price'[n]) => n \in DOMAIN price /\ price'[n] = price[n]
  BY <1>8, <1>9
<1>11. OnePriceInForce'
  BY <1>10 DEF PricesSound, OnePriceInForce
<1>12. Len(price') >= Len(price)
  BY <1>8
<1>13. QED
  BY <1>8, <1>11, <1>12 DEF PricesSound, PricesSettle

\* Activating a draft that overlaps no published version.
LEMMA ActivateSettles ==
    ASSUME PricesSound, NEW n \in DOMAIN price, Activate(n)
    PROVE  PricesSound' /\ PricesSettle
<1>1. /\ price \in Seq(PriceRow) /\ DOMAIN price = 1..Len(price) /\ Len(price) \in Nat
      /\ price[n] \in PriceRow /\ price[n].status = "draft" /\ Exclusive(price[n], n)
      /\ price' = [price EXCEPT ![n].status = "active"]
  BY DEF PricesSound, Activate
<1>2. PICK row \in PriceRow : row = [price[n] EXCEPT !.status = "active"]
  BY <1>1 DEF PriceRow
<1>3. /\ row.scope = price[n].scope /\ row.targets = price[n].targets
      /\ row.dimensions = price[n].dimensions /\ row.from = price[n].from /\ row.to = price[n].to
  BY <1>1, <1>2 DEF PriceRow
<1>4. price' = [price EXCEPT ![n] = row]
  BY <1>1, <1>2
<1>5. /\ price' \in Seq(PriceRow) /\ Len(price') = Len(price) /\ DOMAIN price' = DOMAIN price
      /\ price'[n] = row /\ \A k \in DOMAIN price \ {n} : price'[k] = price[k]
  BY <1>1, <1>4
<1>6. \A k \in DOMAIN price \ {n} :
        Published(price[k]) => ~Overlap(price[k], row) /\ ~Overlap(row, price[k])
  BY <1>1, <1>3 DEF Exclusive, Overlap
<1>7. OnePriceInForce'
  BY <1>5, <1>6 DEF PricesSound, OnePriceInForce
<1>8. ~Published(price[n])
  BY <1>1 DEF Published
<1>9. PricesSettle
  BY <1>1, <1>3, <1>5, <1>8 DEF PricesSettle
<1>10. QED
  BY <1>5, <1>7, <1>9 DEF PricesSound

\* Retiring a version ends it, and only shortens the time it was in force.
LEMMA RetireSettles ==
    ASSUME PricesSound, NEW n \in DOMAIN price, Retire(n)
    PROVE  PricesSound' /\ PricesSettle
<1>1. PICK at \in 1..MaxTime + 1 :
        /\ at > price[n].from /\ price[n].to \in {Open, at}
        /\ price' = [price EXCEPT ![n].status = "retired", ![n].to = at]
  BY DEF Retire
<1>2. /\ price \in Seq(PriceRow) /\ DOMAIN price = 1..Len(price) /\ Len(price) \in Nat
      /\ price[n] \in PriceRow /\ price[n].status = "active" /\ at \in Nat \ {0}
  BY CatalogAssumption DEF PricesSound, Retire
<1>3. PICK row \in PriceRow : row = [price[n] EXCEPT !.status = "retired", !.to = at]
  BY <1>2 DEF PriceRow
<1>4. /\ row.scope = price[n].scope /\ row.targets = price[n].targets
      /\ row.dimensions = price[n].dimensions /\ row.from = price[n].from /\ row.to = at
      /\ row.status = "retired" /\ row.from \in Nat
  BY <1>2, <1>3 DEF PriceRow
<1>5. price' = [price EXCEPT ![n] = row]
  BY <1>1, <1>2, <1>3
<1>6. /\ price' \in Seq(PriceRow) /\ Len(price') = Len(price) /\ DOMAIN price' = DOMAIN price
      /\ price'[n] = row /\ \A k \in DOMAIN price \ {n} : price'[k] = price[k]
  BY <1>2, <1>5
<1>7. Published(price[n]) /\ Published(row)
  BY <1>2, <1>4 DEF Published
<1>8. \A k \in DOMAIN price \ {n} :
        /\ Overlap(price[k], row) => Overlap(price[k], price[n])
        /\ Overlap(row, price[k]) => Overlap(price[n], price[k])
  BY <1>1, <1>2, <1>4 DEF Overlap, Open
<1>9. OnePriceInForce'
  BY <1>6, <1>7, <1>8 DEF PricesSound, OnePriceInForce
<1>10. \A x \in Nat : InForce(row, x) => InForce(price[n], x)
  BY <1>1, <1>2, <1>4, <1>7 DEF InForce, Open
<1>11. PricesSettle
  BY <1>2, <1>4, <1>6, <1>7, <1>10 DEF PricesSettle
<1>12. QED
  BY <1>6, <1>9, <1>11 DEF PricesSound
-----------------------------------------------------------------------------
(* Requests *)

\* What a request has found of its route, in the order it reads.
RouteRead(r) ==
    LET q == request[r] IN
    /\ q.pc = "matching" => q.id \in Ids
    /\ q.pc = "route" => q.id \in Ids /\ route[q.id].model # None
    /\ q.pc \in {"version", "class"} =>
         q.id \in Ids /\ q.version \in 1..Len(route[q.id].versions)
    /\ q.pc = "class" => q.upstream \in route[q.id].versions[q.version].targets

\* The version n prices what the request q asks for, at its time.
Applies(q, n) == InForce(price[n], q.at) /\ Target(q, price[n].scope) \in price[n].targets

\* A request that looks for a price has left behind every scope with a version it
\* could have taken; one that has a quote took it from the first such scope.
PriceRead(r) ==
    LET q == request[r] IN
    /\ q.pc \in {"pricing", "quoted"} =>
         /\ DOMAIN q = {"pc", "model", "upstream", "at", "required", "scope", "known"}
         /\ q.at \in Nat /\ q.known \subseteq DOMAIN price
         /\ \A n \in q.known : Published(price[n])
    /\ q.pc = "pricing" =>
         q.scope \in 1..3 /\ \A n \in q.known : Applies(q, n) => q.scope <= Rank(price[n].scope)
    /\ q.pc = "quoted" =>
         /\ q.scope \in DOMAIN price /\ q.required \subseteq price[q.scope].dimensions
         /\ \A n \in q.known : Applies(q, n) => Rank(price[q.scope].scope) <= Rank(price[n].scope)

\* What requests have read is sound.
RequestsSound ==
    DOMAIN request = Requests /\ \A r \in Requests : RouteRead(r) /\ PriceRead(r)

\* The scopes in the order of their rank.
LEMMA Ranks ==
    /\ Len(Scopes) = 3 /\ DOMAIN Scopes = 1..3
    /\ \A k \in 1..3 : Rank(Scopes[k]) = k
    /\ \A scope \in {"provider_model", "model", "global"} :
         Rank(scope) \in 1..3 /\ Scopes[Rank(scope)] = scope
<1>1. DOMAIN Scopes = 1..3 /\ Len(Scopes) = 3 /\ Scopes[1] = "provider_model"
      /\ Scopes[2] = "model" /\ Scopes[3] = "global"
  BY DEF Scopes
<1>2. \A k \in 1..3 : k = 1 \/ k = 2 \/ k = 3
  OBVIOUS
<1>3. \A scope \in {"provider_model", "model", "global"} :
        \E k \in DOMAIN Scopes : Scopes[k] = scope
  BY <1>1
<1>4. \A scope \in {"provider_model", "model", "global"} :
        Rank(scope) \in 1..3 /\ Scopes[Rank(scope)] = scope
  BY <1>1, <1>3 DEF Rank
<1>5. ASSUME NEW k \in 1..3 PROVE Rank(Scopes[k]) = k
  <2>1. Scopes[k] \in {"provider_model", "model", "global"}
    BY <1>1, <1>2
  <2>2. Rank(Scopes[k]) \in 1..3 /\ Scopes[Rank(Scopes[k])] = Scopes[k]
    BY <1>4, <2>1
  <2>3. \A i, j \in 1..3 : Scopes[i] = Scopes[j] => i = j
    BY <1>1, <1>2
  <2>4. QED
    BY <2>2, <2>3
<1>6. QED
  BY <1>1, <1>4, <1>5

\* A set of naturals that is not empty has a least member.
LEMMA LeastNumber ==
    ASSUME NEW T, T \subseteq Nat, T # {}
    PROVE  \E n \in T : \A m \in T : n <= m
<1>1. PICK n \in T : \A m \in T : ~(<<m, n>> \in OpToRel(<, Nat))
  BY NatLessThanWellFounded, WFMin
<1>2. ASSUME NEW m \in T PROVE ~(m < n)
  BY <1>1 DEF OpToRel
<1>3. QED
  BY <1>2

\* A nonempty set of positions of a sequence has a largest one.
LEMMA MaxOfPositions ==
    ASSUME NEW N \in Nat, NEW S, S \subseteq 1..N, S # {}
    PROVE  Max(S) \in S
<1> DEFINE T == {N - x : x \in S}
<1>1. T \subseteq Nat /\ T # {}
  <2>1. \A x \in S : N - x \in Nat
    OBVIOUS
  <2>2. QED
    BY <2>1
<1>2. PICK t \in T : \A u \in T : t <= u
  BY <1>1, LeastNumber
<1>3. PICK x \in S : t = N - x
  BY <1>2
<1>4. ASSUME NEW y \in S PROVE x >= y
  <2>1. N - y \in T
    OBVIOUS
  <2>2. N - x <= N - y
    BY <1>2, <1>3, <2>1
  <2>3. QED
    BY <2>2
<1>5. QED
  BY <1>4 DEF Max
\* What a request has read of its route stays sound while routes only grow.
LEMMA RouteReadKept ==
    ASSUME NEW r \in Requests, RouteRead(r), RoutesSound, RoutesSound', RoutesGrow,
           request'[r] = request[r]
    PROVE  RouteRead(r)'
<1>1. ASSUME NEW i \in Ids PROVE Len(route[i].versions) \in Nat /\ Len(route'[i].versions) \in Nat
  BY DEF RoutesSound, RouteSound
<1>2. ASSUME NEW i \in Ids, NEW n \in 1..Len(route[i].versions)
      PROVE  n \in 1..Len(route'[i].versions)
             /\ route'[i].versions[n].targets = route[i].versions[n].targets
  BY <1>1 DEF RoutesGrow
<1>3. QED
  BY <1>2 DEF RouteRead, RoutesGrow

\* What it has read of the prices stays sound while they only settle.
LEMMA PriceReadKept ==
    ASSUME NEW r \in Requests, PriceRead(r), PricesSound, PricesSound', PricesSettle,
           request'[r] = request[r]
    PROVE  PriceRead(r)'
<1> DEFINE q == request[r]
<1>1. /\ DOMAIN price = 1..Len(price) /\ Len(price) \in Nat
      /\ DOMAIN price' = 1..Len(price') /\ Len(price') \in Nat
  BY DEF PricesSound
<1>2. DOMAIN price \subseteq DOMAIN price'
  BY <1>1 DEF PricesSettle
<1>3. \A n \in DOMAIN price : /\ price'[n].scope = price[n].scope
                              /\ price'[n].dimensions = price[n].dimensions
                              /\ Published(price[n]) => Published(price'[n])
  BY <1>1 DEF PricesSettle
<1>4. ASSUME q.at \in Nat, NEW n \in DOMAIN price, Published(price[n]), Applies(q, n)'
      PROVE  Applies(q, n)
  <2>1. InForce(price'[n], q.at) /\ Target(q, price'[n].scope) \in price'[n].targets
    BY <1>4 DEF Applies, Target
  <2>2. InForce(price[n], q.at) /\ price'[n].targets = price[n].targets
    BY <1>1, <1>4, <2>1 DEF PricesSettle
  <2>3. QED
    BY <1>3, <2>1, <2>2 DEF Applies
<1>5. q.pc \in {"pricing", "quoted"} => \A n \in q.known : Applies(q, n)' => Applies(q, n)
  BY <1>4 DEF PriceRead
<1>6. QED
  BY <1>2, <1>3, <1>5 DEF PriceRead
\* What a request with nothing read, or its route only, needs not know of prices.
LEMMA NothingRead ==
    ASSUME NEW r \in Requests, request'[r].pc \notin {"pricing", "quoted"}
    PROVE  PriceRead(r)'
BY DEF PriceRead

\* A request that ends knows nothing.
LEMMA EndedRead ==
    ASSUME NEW r \in Requests, request'[r] = Idle
    PROVE  RouteRead(r)' /\ PriceRead(r)'
BY DEF RouteRead, PriceRead, Idle

\* Resolving the identifier, the route and its version.
LEMMA RouteIsRead ==
    ASSUME TablesInv, RoutesSound, RequestsSound, NEW r \in Requests,
           ResolvePublic(r) \/ Resolve(r) \/ getRoute(r) \/ loadTargets(r)
    PROVE  RouteRead(r)' /\ PriceRead(r)'
<1>1. RouteRead(r) /\ DOMAIN request = Requests /\ UNCHANGED route
  BY DEF RequestsSound, ResolvePublic, Resolve, getRoute, loadTargets, RequestUnchanged
<1>2. CASE ResolvePublic(r)
  <2>1. PICK i \in Ids, m \in Models :
          model[m].enabled /\ Goes(r, [pc |-> "matching", id |-> model[m].id])
    BY <1>2 DEF ResolvePublic
  <2>2. request'[r] = [pc |-> "matching", id |-> model[m].id]
    BY <1>1, <2>1 DEF Goes
  <2>3. model[m].id \in Ids
    BY <2>1 DEF TablesInv, ModelsSound, ModelRow
  <2>4. QED
    BY <2>2, <2>3, NothingRead DEF RouteRead
<1>3. CASE Resolve(r)
  <2> DEFINE i == request[r].id
  <2>1. i \in Ids
    BY <1>1, <1>3 DEF Resolve, RouteRead
  <2>2. CASE route[i].model \in Names(i) /\ route[i].enabled
    <3>1. request'[r] = [pc |-> "route", id |-> i, model |-> route[i].model]
      BY <1>1, <1>3, <2>2 DEF Resolve, Goes
    <3>2. route[i].model # None
      BY <2>2, CatalogAssumption DEF Names
    <3>3. request'[r].pc = "route" /\ request'[r].id = i
      BY <3>1
    <3>4. QED
      BY <1>1, <2>1, <3>2, <3>3, NothingRead DEF RouteRead
  <2>3. CASE ~(route[i].model \in Names(i) /\ route[i].enabled)
    <3>1. request'[r] = Idle
      BY <1>1, <1>3, <2>3 DEF Resolve, Goes
    <3>2. QED
      BY <3>1, EndedRead
  <2>4. QED
    BY <2>2, <2>3
<1>4. CASE getRoute(r)
  <2> DEFINE q == request[r]
  <2>1. q.id \in Ids /\ route[q.id].model # None
    BY <1>1, <1>4 DEF getRoute, RouteRead
  <2>2. request'[r] = [pc |-> "version", id |-> q.id, model |-> q.model,
                       version |-> route[q.id].active]
    BY <1>1, <1>4 DEF getRoute, Goes
  <2>3. /\ request'[r].pc = "version" /\ request'[r].id = q.id
        /\ request'[r].version = route[q.id].active
    BY <2>2
  <2>4. route[q.id].active \in 1..Len(route[q.id].versions)
    BY <2>1 DEF RoutesSound, RouteSound
  <2>5. QED
    BY <1>1, <2>1, <2>3, <2>4, NothingRead DEF RouteRead
<1>5. CASE loadTargets(r)
  <2> DEFINE q == request[r]
  <2>1. q.id \in Ids /\ q.version \in 1..Len(route[q.id].versions)
    BY <1>1, <1>5 DEF loadTargets, RouteRead
  <2>2. CASE Goes(r, Idle)
    BY <1>1, <2>2, EndedRead DEF Goes
  <2>3. ASSUME NEW p \in Targets(q),
               Goes(r, [pc |-> "class", id |-> q.id, model |-> q.model, version |-> q.version,
                        upstream |-> p])
        PROVE  RouteRead(r)' /\ PriceRead(r)'
    <3>1. /\ request'[r].pc = "class" /\ request'[r].id = q.id
          /\ request'[r].version = q.version /\ request'[r].upstream = p
      BY <1>1, <2>3 DEF Goes
    <3>2. p \in route[q.id].versions[q.version].targets
      BY DEF Targets
    <3>3. QED
      BY <1>1, <2>1, <3>1, <3>2, NothingRead DEF RouteRead
  <2>4. QED
    BY <1>5, <2>2, <2>3 DEF loadTargets
<1>6. QED
  BY <1>2, <1>3, <1>4, <1>5

\* Reading the billing class: the search begins with the most specific scope.
LEMMA ClassIsRead ==
    ASSUME TablesInv, PricesSound, RequestsSound, NEW r \in Requests, billingClass(r)
    PROVE  RouteRead(r)' /\ PriceRead(r)'
<1> DEFINE q == request[r]
<1>1. DOMAIN request = Requests /\ UNCHANGED price /\ now \in Nat
  BY CatalogAssumption DEF RequestsSound, billingClass, RequestUnchanged, TablesInv
<1>2. CASE Goes(r, Idle)
  BY <1>1, <1>2, EndedRead DEF Goes
<1>3. ASSUME NEW required,
             Goes(r, [pc |-> "pricing", model |-> q.model, upstream |-> q.upstream, at |-> now,
                      required |-> required, scope |-> 1,
                      known |-> {n \in DOMAIN price : InForce(price[n], now)}])
      PROVE  RouteRead(r)' /\ PriceRead(r)'
  <2> DEFINE new == request'[r]
  <2>1. PICK known : known = {n \in DOMAIN price : InForce(price[n], now)}
    OBVIOUS
  <2>2. new = [pc |-> "pricing", model |-> q.model, upstream |-> q.upstream, at |-> now,
               required |-> required, scope |-> 1, known |-> known]
    BY <1>1, <1>3, <2>1 DEF Goes
  <2>3. /\ DOMAIN new = {"pc", "model", "upstream", "at", "required", "scope", "known"}
        /\ new.pc = "pricing" /\ new.at = now /\ new.scope = 1 /\ new.known = known
    BY <2>2
  <2>4. RouteRead(r)'
    BY <2>3 DEF RouteRead
  <2>5. known \subseteq DOMAIN price' /\ \A n \in known : Published(price'[n])
    BY <1>1, <2>1 DEF InForce
  <2>6. ASSUME NEW n \in known PROVE 1 <= Rank(price'[n].scope)
    <3>1. price[n] \in PriceRow
      BY <2>1 DEF PricesSound
    <3>2. Rank(price[n].scope) \in 1..3
      BY <3>1, Ranks DEF PriceRow
    <3>3. QED
      BY <1>1, <3>2
  <2>7. PriceRead(r)'
    BY <1>1, <2>3, <2>5, <2>6 DEF PriceRead
  <2>8. QED
    BY <2>4, <2>7
<1>4. QED
  BY <1>2, <1>3 DEF billingClass
\* The request "new" asks for what q does, knowing the same versions.
SameQuestion(new, q) ==
    /\ new.model = q.model /\ new.upstream = q.upstream /\ new.at = q.at
    /\ new.required = q.required /\ new.known = q.known
    /\ DOMAIN new = {"pc", "model", "upstream", "at", "required", "scope", "known"}

\* It is priced by the same versions.
LEMMA SameAnswers ==
    ASSUME NEW q, NEW new, SameQuestion(new, q), NEW n
    PROVE  Applies(new, n) <=> Applies(q, n)
<1>1. \A scope : Target(new, scope) = Target(q, scope)
  BY DEF Target, SameQuestion
<1>2. QED
  BY <1>1 DEF Applies, SameQuestion

\* Searching one scope: the search goes on only if no version of it applies, and
\* the quote is a version of the scope that is searched.
LEMMA PriceIsRead ==
    ASSUME PricesSound, RequestsSound, NEW r \in Requests, ResolveSnapshot(r)
    PROVE  RouteRead(r)' /\ PriceRead(r)'
<1>0. PICK q : q = request[r]
  OBVIOUS
<1> DEFINE found == Found(q, Scopes[q.scope])
           n == IF found = {} THEN 0 ELSE Max(found)
<1>0a. PICK new : new = request'[r]
  OBVIOUS
<1>1. /\ DOMAIN request = Requests /\ UNCHANGED price /\ q.pc = "pricing"
      /\ price \in Seq(PriceRow)
  BY <1>0 DEF RequestsSound, ResolveSnapshot, RequestUnchanged, PricesSound
<1>2. /\ DOMAIN q = {"pc", "model", "upstream", "at", "required", "scope", "known"}
      /\ q.at \in Nat /\ q.known \subseteq DOMAIN price
      /\ \A k \in q.known : Published(price[k])
      /\ q.scope \in 1..3 /\ \A k \in q.known : Applies(q, k) => q.scope <= Rank(price[k].scope)
  BY <1>0, <1>1 DEF RequestsSound, PriceRead
<1>3. found # {} => n \in found /\ n # 0
  <2>1. found \subseteq 1..Len(price) /\ Len(price) \in Nat
    BY <1>1 DEF Found
  <2>2. found # {} => Max(found) \in found
    BY <2>1, MaxOfPositions
  <2>3. QED
    BY <2>1, <2>2
<1>4. Goes(r, Idle) \/ (/\ n = 0 /\ q.scope < 3 /\ Goes(r, [q EXCEPT !.scope = @ + 1]))
      \/ (/\ n # 0 /\ q.required \subseteq price[n].dimensions
          /\ Goes(r, [q EXCEPT !.pc = "quoted", !.scope = n]))
  BY <1>0, Ranks DEF ResolveSnapshot, Continues
<1>4a. ASSUME NEW k PROVE Applies(new, k)' <=> Applies(new, k)
  BY <1>1 DEF Applies, InForce, Published, Target
<1>5. CASE Goes(r, Idle)
  BY <1>1, <1>5, EndedRead DEF Goes
<1>6. CASE /\ n = 0 /\ q.scope < 3 /\ Goes(r, [q EXCEPT !.scope = @ + 1])
  <2>1. new = [q EXCEPT !.scope = @ + 1]
    BY <1>0a, <1>1, <1>6 DEF Goes
  <2>2. SameQuestion(new, q) /\ new.pc = "pricing" /\ new.scope = q.scope + 1
    BY <1>1, <1>2, <2>1 DEF SameQuestion
  <2>3. found = {}
    BY <1>3, <1>6
  <2>4. ASSUME NEW k \in q.known, Applies(q, k) PROVE q.scope + 1 <= Rank(price[k].scope)
    <3>1. k \in DOMAIN price /\ price[k] \in PriceRow /\ q.scope <= Rank(price[k].scope)
      BY <1>1, <1>2, <2>4
    <3>2. Rank(price[k].scope) \in 1..3 /\ Scopes[Rank(price[k].scope)] = price[k].scope
      BY <3>1, Ranks DEF PriceRow
    <3>3. Rank(price[k].scope) # q.scope
      BY <2>3, <2>4, <3>1, <3>2 DEF Found, Applies
    <3>4. QED
      BY <1>2, <3>1, <3>2, <3>3
  <2>5. new.scope \in 1..3
    BY <1>2, <1>6, <2>2
  <2> HIDE DEF found, n
  <2>6. \A k \in q.known : Applies(new, k)' => Applies(q, k)
    BY <1>4a, <2>2, SameAnswers
  <2>7. PriceRead(r)'
    BY <1>0a, <1>1, <1>2, <2>2, <2>4, <2>5, <2>6 DEF PriceRead, SameQuestion
  <2>8. RouteRead(r)'
    BY <1>0a, <2>2 DEF RouteRead
  <2>9. QED
    BY <2>7, <2>8
<1>7. CASE /\ n # 0 /\ q.required \subseteq price[n].dimensions
           /\ Goes(r, [q EXCEPT !.pc = "quoted", !.scope = n])
  <2>1. new = [q EXCEPT !.pc = "quoted", !.scope = n]
    BY <1>0a, <1>1, <1>7 DEF Goes
  <2>2. SameQuestion(new, q) /\ new.pc = "quoted" /\ new.scope = n
    BY <1>1, <1>2, <2>1 DEF SameQuestion
  <2>3. n \in DOMAIN price /\ price[n].scope = Scopes[q.scope]
    BY <1>3, <1>7 DEF Found
  <2>4. Rank(price[n].scope) = q.scope
    BY <1>2, <2>3, Ranks
  <2> HIDE DEF found, n
  <2>5. \A k \in q.known : Applies(new, k)' => Applies(q, k)
    BY <1>4a, <2>2, SameAnswers
  <2>6. PriceRead(r)'
    BY <1>0a, <1>1, <1>2, <1>7, <2>2, <2>3, <2>4, <2>5 DEF PriceRead, SameQuestion
  <2>7. RouteRead(r)'
    BY <1>0a, <2>2 DEF RouteRead
  <2>8. QED
    BY <2>6, <2>7
<1>8. QED
  BY <1>4, <1>5, <1>6, <1>7
-----------------------------------------------------------------------------
(* Histories are linear, and requests are resolved consistently *)

\* The whole catalogue: tables, routes, prices, and what requests have read of them.
CatalogInv == TablesInv /\ RoutesSound /\ PricesSound /\ RequestsSound

\* It holds at the start.
LEMMA CatalogInvInit == CatalogInit => CatalogInv
<1>1. CatalogInit => RequestsSound
  BY DEF CatalogInit, RequestsSound, RouteRead, PriceRead, Idle
<1>2. QED
  BY <1>1, TablesInit, RoutesInit, PricesInit DEF CatalogInv

\* Every step keeps the routes and the prices sound, and only adds to them.
LEMMA HistoriesStep ==
    ASSUME CatalogInv, [CatalogNext]_vars
    PROVE  RoutesSound' /\ RoutesGrow /\ PricesSound' /\ PricesSettle
<1> USE DEF CatalogInv
<1>1. now \in Nat \ {0} /\ AliasesSound /\ EditsSound
  BY CatalogAssumption DEF TablesInv
<1>2. CASE UNCHANGED <<route, price>>
  BY <1>2, RoutesStill, PricesStill
<1>3. ASSUME NEW e \in Editors, CommitRoute(e)
      PROVE  RoutesSound' /\ RoutesGrow /\ PricesSound' /\ PricesSettle
  <2>1. edit[e].row \in Ids /\ price' = price
    BY <1>1, <1>3 DEF CommitRoute, EditsSound, EditSound
  <2>2. QED
    BY <1>3, <2>1, CommitRouteFollows, PricesStill
<1>4. ASSUME NEW i \in Ids, CreateRoute(i) \/ Publish(i)
      PROVE  RoutesSound' /\ RoutesGrow /\ PricesSound' /\ PricesSettle
  <2>1. price' = price /\ None \notin Models
    BY <1>4, CatalogAssumption DEF CreateRoute, Publish
  <2>2. QED
    BY <1>1, <1>4, <2>1, CreateRouteFollows, PublishFollows, PricesStill
<1>5. CASE CreatePrice \/ \E n \in DOMAIN price : Activate(n) \/ Retire(n)
  <2>1. route' = route
    BY <1>5 DEF CreatePrice, Activate, Retire
  <2>2. QED
    BY <1>5, <2>1, RoutesStill, CreatePriceSettles, ActivateSettles, RetireSettles
<1>6. CASE \E r \in Requests : RequestStep(r)
  BY <1>2, <1>6, RequestReads
<1>7. CASE Tick \/ UNCHANGED vars
  BY <1>2, <1>7 DEF Tick, vars
<1>8. CASE \/ \E m \in Models : CreateModel(m)
           \/ \E e \in Editors :
                \/ CommitModel(e) \/ CommitProviderModel(e)
                \/ \E m \in Models : UpdateModel(e, m)
                \/ \E p \in ProviderModels : UpdateProviderModel(e, p)
                \/ \E i \in Ids : UpdateRoute(e, i)
           \/ \E p \in ProviderModels : CreateProviderModel(p)
           \/ Reconcile
  <2>1. UNCHANGED <<route, price>>
    BY <1>8 DEF CreateModel, CommitModel, CommitProviderModel, UpdateModel, UpdateProviderModel,
       UpdateRoute, CreateProviderModel, Reconcile
  <2>2. QED
    BY <1>2, <2>1
<1>9. QED
  BY <1>3, <1>4, <1>5, <1>6, <1>7, <1>8 DEF CatalogNext, RequestStep

\* A step that is not of a request leaves the requests alone.
LEMMA EditsLeaveRequests ==
    ASSUME [CatalogNext]_vars, ~\E r \in Requests : RequestStep(r)
    PROVE  request' = request
BY DEF CatalogNext, RequestStep, CreateModel, CommitModel, CommitProviderModel, CommitRoute,
   UpdateModel, UpdateProviderModel, UpdateRoute, CreateProviderModel, Reconcile, CreateRoute,
   Publish, CreatePrice, Activate, Retire, Tick, EditUnchanged, vars

\* A step of a request leaves the others alone.
LEMMA RequestsApart ==
    ASSUME RequestsSound, NEW r \in Requests, RequestStep(r)
    PROVE  DOMAIN request' = Requests /\ \A s \in Requests \ {r} : request'[s] = request[s]
<1>1. \E next : Goes(r, next)
  BY DEF RequestStep, ResolvePublic, Resolve, getRoute, loadTargets, billingClass, ResolveSnapshot
<1>2. QED
  BY <1>1 DEF Goes, RequestsSound

\* Every step keeps it.
LEMMA CatalogInvStep == CatalogInv /\ [CatalogNext]_vars => CatalogInv'
<1> SUFFICES ASSUME CatalogInv, [CatalogNext]_vars PROVE CatalogInv'
  OBVIOUS
<1>1. TablesInv' /\ RoutesSound' /\ RoutesGrow /\ PricesSound' /\ PricesSettle
  BY TablesStep, HistoriesStep DEF CatalogInv
<1>2. ASSUME NEW r \in Requests, request'[r] = request[r] PROVE RouteRead(r)' /\ PriceRead(r)'
  BY <1>1, <1>2, RouteReadKept, PriceReadKept DEF CatalogInv, RequestsSound
<1>3. CASE ~\E r \in Requests : RequestStep(r)
  <2>1. request' = request
    BY <1>3, EditsLeaveRequests
  <2>2. RequestsSound'
    BY <1>2, <2>1 DEF CatalogInv, RequestsSound
  <2>3. QED
    BY <1>1, <2>2 DEF CatalogInv
<1>4. ASSUME NEW r \in Requests, RequestStep(r) PROVE CatalogInv'
  <2>1. RouteRead(r)' /\ PriceRead(r)'
    BY <1>4, RouteIsRead, ClassIsRead, PriceIsRead DEF RequestStep, CatalogInv
  <2>2. DOMAIN request' = Requests /\ \A s \in Requests \ {r} : RouteRead(s)' /\ PriceRead(s)'
    BY <1>2, <1>4, RequestsApart DEF CatalogInv
  <2>3. QED
    BY <1>1, <2>1, <2>2 DEF CatalogInv, RequestsSound
<1>5. QED
  BY <1>3, <1>4

\* The invariant in every state.
LEMMA CatalogStaysSound == CatalogSpec => []CatalogInv
BY CatalogInvInit, CatalogInvStep, PTL DEF CatalogSpec

\* Histories are linear: the versions of a route follow one another without gap or
\* overlap, whatever the clock of the database says when they are published, and no
\* two published price versions of a scope are in force at one time, whatever was
\* retired early or late.
THEOREM HistoriesAreLinear == CatalogSpec => []VersionIntegrity
<1>1. CatalogInv => VersionIntegrity
  BY DEF CatalogInv, VersionIntegrity, VersionsFollow, RoutesSound, RouteSound, Following,
         PricesSound
<1>2. QED
  BY <1>1, CatalogStaysSound, PTL

\* A request is resolved consistently although it reads in many statements: the
\* provider model is a target of the route version it is accounted under, and the
\* price is of the most specific scope that had one when the request began.
THEOREM RequestsResolveConsistently == CatalogSpec => []ResolvedConsistently
<1>1. CatalogInv => ResolvedConsistently
  BY DEF CatalogInv, ResolvedConsistently, FixedVersion, MostSpecificPrice, RequestsSound,
         RouteRead, PriceRead, Applies
<1>2. QED
  BY <1>1, CatalogStaysSound, PTL
=============================================================================
