SPECIFICATION FairSpec
CONSTANTS
    alice = alice
    bob = bob
    carol = carol
    gold = gold
    k1 = k1
    k2 = k2
    r1 = r1
    r2 = r2
    r3 = r3
    NoKey = NoKey
    NoOrder = NoOrder
    NoInput = NoInput
    EmptyKey = k2
    Keys = {k1, k2}
    Scale = 1
    Inexact = FALSE
    Users = {alice, bob, carol}
    WalletOwners = {alice, bob}
    Assets = {gold}
    ActiveAssets = {gold}
    OrderIds = {1, 2}
    Requests = {r1, r2}
    Amounts = {2}
    MaxNumeric = 4
    Ticks = {1}
    QueueCap = 1
    InitBalance <- Balance2
    InitPortfolios <- BobAndCarolHold
    Faults = {"crash", "db"}
    Inputs <- FaultInputs
INVARIANTS
    TypeOK
    SellersHoldRows
    NoMissedMatch
    Idempotent
PROPERTIES
    RowsOnlyAdvance
    ImplementsLedger
    PlacedOrdersAreProcessed
CHECK_DEADLOCK FALSE
