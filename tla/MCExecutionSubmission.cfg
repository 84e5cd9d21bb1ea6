SPECIFICATION ReplayExecSpec
CONSTANTS
    p1 = p1
    c1 = c1
    a1 = a1
    r1 = r1
    Policies = {p1}
    Cycles = {c1}
    Actions = {a1}
    PolicyInfo <- OnePolicyInfo
    CycleInfo <- OneCycleInfo
    ActionInfo <- OneActionInfo
    Refs = {r1}
    Amounts = {1}
    ExecutionSurface = TRUE
    MaxCrashes = 1
    MinAgreeingProviders = 1
    MinConfirmationDepth = 1
    Workers = {w1, w2}
    Providers = {x, z}
    TxFacts <- AllFacts
    RefOf <- OneRef
    Grant <- UnitGrant
    MaxVersions = 1
    MaxObs = 1
SYMMETRY Interchangeable
INVARIANTS
    ExecutionReplays
    CapitalFollowsLifecycle
    CrossedIsHeld
    AttemptedNeverSignedAgain
PROPERTIES
    TransactionsNotAbandoned
CHECK_DEADLOCK FALSE
