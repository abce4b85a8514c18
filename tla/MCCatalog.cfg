SPECIFICATION CatalogSpec
CONSTANTS
    None = None
    Models = {m1, m2}
    Ids = {i1, i2, i3}
    c1 = c1
    c2 = c2
    CapSets <- MCCapSets
    AliasSets <- MCAliasSets
    Classes = {"token", "request", "free", "disabled"}
    ProviderModels = {p1, p2}
    Editors = {e1, e2}
    Requests = {r1}
    Prices <- MCPrices
    Budgets <- MCBudgets
    MaxTime = 2
    MaxVersions = 2
    MaxRequests = 1
SYMMETRY Symmetry
CHECK_DEADLOCK FALSE
INVARIANTS
    CatalogIntegrity
    VersionIntegrity
    ResolvedConsistently
