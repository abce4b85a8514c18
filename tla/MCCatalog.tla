----------------------------- MODULE MCCatalog -----------------------------
(* Two models and two provider models, edited while a request is resolved. *)
EXTENDS Catalog, TLC

CONSTANTS c1, c2

MCPrices ==
    {[scope |-> "global", targets |-> {None}, dimensions |-> {"input", "output"}]}
      \cup {[scope |-> "model", targets |-> {m}, dimensions |-> {"request"}] : m \in Models}
      \cup {[scope |-> "provider_model", targets |-> {p}, dimensions |-> {"input", "output"}] :
              p \in ProviderModels}

MCAliasSets == {{}} \cup {{i} : i \in Ids}

MCCapSets == {{c1}, {c1, c2}}

Budget(m, i, p, r, c) ==
    [model |-> m, identifier |-> i, provider_model |-> p, route |-> r, price |-> c]

MCBudgets ==
    {Budget(0, 3, 0, 0, 0), Budget(1, 2, 0, 0, 0), Budget(2, 0, 0, 0, 0),
     Budget(1, 0, 1, 0, 0), Budget(0, 1, 1, 0, 0), Budget(0, 0, 2, 0, 0),
     Budget(0, 0, 1, 1, 0), Budget(1, 0, 0, 1, 0), Budget(0, 1, 0, 1, 0),
     Budget(0, 0, 0, 2, 0), Budget(0, 0, 0, 0, 3), Budget(1, 0, 0, 0, 1),
     Budget(0, 1, 0, 0, 1)}

Symmetry ==
    Permutations(Models) \cup Permutations(Ids)
      \cup Permutations(ProviderModels) \cup Permutations(Editors) \cup Permutations(Requests)
=============================================================================
