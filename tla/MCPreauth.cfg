SPECIFICATION PreauthSpec
CONSTANTS
    a1 = a1
    a2 = a2
    wallet = wallet
    Actions = {a1, a2}
    Sessions = {s1}
    Nonces = {n1, n2}
    Quotes = {q1, q2}
    Planners = {w1}
    Submitters = {w2, w3}
    SideOf <- TwoSides
    InputOf <- TwoInputs
    WalletOf <- OneWallet
    Unbound = Unbound
    MaxEnvelopes = 2
    MaxApprovals = 2
SYMMETRY Interchangeable
INVARIANTS
    ApprovalHasItsSwap
    NonceSignedOnce
    ApprovalLeavesOnce
PROPERTIES
    KillStopsAuthority
CHECK_DEADLOCK FALSE
