SPECIFICATION FairSpec
CONSTANTS
    p1 = p1
    c1 = c1
    a1 = a1
    a2 = a2
    Policies = {p1}
    Cycles = {c1}
    Actions = {a1, a2}
    PolicyInfo <- OnePolicyInfo
    CycleInfo <- OneCycleInfo
    ActionInfo <- TwoActionInfo
    Refs = {r1}
    Amounts = {1}
    ExecutionSurface = FALSE
    MaxCrashes = 2
INVARIANTS
    CompletionHasReceipt
    ReturnMeansEnded
PROPERTIES
    SignedCapitalNeverFreed
    RunningIntentsEnd
CHECK_DEADLOCK FALSE
