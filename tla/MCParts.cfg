SPECIFICATION PartsSpec
CONSTANTS
    d1 = d1
    d2 = d2
    h1 = h1
    h2 = h2
    h3 = h3
    i1 = i1
    i2 = i2
    x = x
    z = z
    p1 = p1
    p2 = p2
    c1 = c1
    c2 = c2
    c3 = c3
    a1 = a1
    a2 = a2
    a3 = a3
    a4 = a4
    Daemons = {d1, d2}
    Handles = {h1, h2, h3}
    HomeOf <- HandleHomes
    Reporters = {i1, i2}
    SeatOf <- ReporterSeats
    Copiers = {b1, b2}
    MaxCommits = 2
    Runs = {1, 2}
    Grants = {g1, g2}
    Facts = {f1, f2}
    None = None
    Openers = {w1, w2}
    FeeNumerator = 9
    FeeDenominator = 10
    Bps = 10
    Reserves = {20, 40, 60}
    Desires = {5, 12, 25}
    Ceilings = {0, 1, 3, 5, 9, 10}
    Coarse = 8
    Endpoints <- MCEndpoints
    Untrusted = {x}
    Intents <- MCIntents
    Risk <- MCRisk
    LedgerFacts <- MCFacts
    Market <- MCMarket
    MaxHeadLag = 1
    MaxAge = 1
    MaxHeight = 2
    MaxReplaced = 1
    Providers = {x, z}
    Faulty = {z}
    MinAgreeingProviders = 2
    MinConfirmationDepth = 1
    MaxHead = 2
    MaxForks = 1
    MaxObs = 4
    Policies = {p1, p2}
    Cycles = {c1, c2, c3}
    Actions = {a1, a2, a3, a4}
    PolicyInfo <- MCPolicyInfo
    CycleInfo <- MCCycleInfo
    ActionInfo <- MCActionInfo
    Refs = {r1, r2, r3}
    Amounts = {1}
    ExecutionSurface = FALSE
SYMMETRY RefSymmetry
CONSTRAINT InventoryBound
INVARIANTS
    ReplayEqualsTables
    BaseConserved
    OnlyCarriedCyclesOversold
    RecordedIsCommitted
    OpenStaysGuarded
    SizingIsSafe
    TermsAreOfTheChain
    TermsKeepTheLimit
    ConclusionIsFinal
    ConclusionNeverFlips
PROPERTIES
    CarryMovesEverything
    InspectionTrue
    ReportedIsWhole
CHECK_DEADLOCK FALSE
