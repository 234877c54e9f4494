SPECIFICATION Spec
CONSTANTS
    alice = alice
    bob = bob
    carol = carol
    gold = gold
    k1 = k1
    k2 = k2
    r1 = r1
    r2 = r2
    r3 = r3
    NoKey = NoKey
    NoOrder = NoOrder
    NoInput = NoInput
    EmptyKey = k2
    Keys = {k1, k2}
    Scale = 2
    Inexact = TRUE
    Users = {alice, bob, carol}
    WalletOwners = {alice, bob, carol}
    Assets = {gold}
    ActiveAssets = {gold}
    OrderIds = {1, 2, 3}
    Requests = {r1, r2, r3}
    Amounts = {}
    MaxNumeric = 6
    Ticks = {1}
    QueueCap = 3
    InitBalance <- Balance4
    InitPortfolios <- BobAndCarolHold
    Faults = {}
    Inputs <- MatchingInputs
SYMMETRY CallSymmetry
INVARIANTS
    StatusMatchesFill
    TradesRespectLimits
    NoMissedMatch
    CandidateIsBest
    FillsMatchTrades
    AssetsConserved
    LedgerDrift
CHECK_DEADLOCK FALSE
