SPECIFICATION Spec
CONSTANTS
    p1 = p1
    c1 = c1
    a1 = a1
    a2 = a2
    Policies = {p1}
    Cycles = {c1}
    Actions = {a1}
    PolicyInfo <- OnePolicyInfo
    CycleInfo <- OneCycleInfo
    ActionInfo <- OneActionInfo
    Refs = {r1}
    Amounts = {1}
    ExecutionSurface = TRUE
    MaxCrashes = 1
PROPERTY
    RestartKeepsReferencedHold
CHECK_DEADLOCK FALSE
