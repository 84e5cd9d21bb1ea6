SPECIFICATION ExecSpec
CONSTANTS
    p1 = p1
    c1 = c1
    a1 = a1
    r1 = r1
    Policies = {p1}
    Cycles = {c1}
    Actions = {a1}
    PolicyInfo <- OnePolicyInfo
    CycleInfo <- OneCycleInfo
    ActionInfo <- OneActionInfo
    Refs = {r1}
    Amounts = {1}
    ExecutionSurface = TRUE
    MaxCrashes = 0
    MinAgreeingProviders = 2
    MinConfirmationDepth = 1
    Workers = {w1}
    Providers = {x, z}
    TxFacts <- AllFacts
    RefOf <- OneRef
    Grant <- UnitGrant
    MaxVersions = 2
    MaxObs = 3
SYMMETRY Interchangeable
INVARIANTS
    FilledMatchesChain
PROPERTIES
    AmbiguityIsFrozen
CHECK_DEADLOCK FALSE
