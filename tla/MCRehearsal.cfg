SPECIFICATION PrepareSpec
CONSTANTS
    pb = pb
    pl = pl
    p1 = p1
    p2 = p2
    p3 = p3
    cb = cb
    cl = cl
    c1 = c1
    c2 = c2
    c3 = c3
    ab = ab
    al = al
    a1 = a1
    a2 = a2
    a3 = a3
    n1 = n1
    n2 = n2
    n3 = n3
    g1 = g1
    g2 = g2
    Policies = {pb, pl, p1, p2, p3}
    Cycles = {cb, cl, c1, c2, c3}
    Actions = {ab, al, a1, a2, a3}
    PolicyInfo <- MCPolicyInfo
    CycleInfo <- MCCycleInfo
    ActionInfo <- MCActionInfo
    Refs = {r0}
    Amounts = {1}
    ExecutionSurface = TRUE
    Grants = {g1, g2}
    GrantInfo <- MCGrantInfo
    Sessions = {n1, n2, n3}
    SessionInfo <- MCSessionInfo
    TrustedRoot <- MCRoot
    InkScope = "ink"
    MaxTime = 1
    Runs = {r1, r2}
    Repaired = {}
    BuyCycle = cb
    LegacyCycle = cl
    LegacyStates = {"SIMULATED", "EXPIRED"}
    Plans = {n1, n2, n3}
    PlanInfo <- MCPlanInfo
    PolicyExpiry <- MCPolicyExpiry
    Quantity = 1
SYMMETRY Interchangeable
INVARIANTS
    RehearsedIsRecorded
CHECK_DEADLOCK FALSE
