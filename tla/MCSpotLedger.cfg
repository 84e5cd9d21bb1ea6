SPECIFICATION LedgerSpec
CONSTANTS
    p1 = p1
    p2 = p2
    p3 = p3
    c1 = c1
    c2 = c2
    a1 = a1
    a2 = a2
    a3 = a3
    Policies = {p1, p2, p3}
    Cycles = {c1, c2}
    Actions = {a1, a2, a3}
    PolicyInfo <- MCPolicyInfo
    CycleInfo <- MCCycleInfo
    ActionInfo <- MCActionInfo
    Refs = {r1, r2}
    Amounts = {1, 2}
    ExecutionSurface = FALSE
SYMMETRY RefSymmetry
CONSTRAINT CapitalBound
INVARIANTS
    TypeOK
    OutOfBoundsFillIsHalted
PROPERTIES
    CapsBindEveryReservation
    ImplementsAccount
CHECK_DEADLOCK FALSE
