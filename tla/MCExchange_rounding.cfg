SPECIFICATION FairSpec
CONSTANTS
    alice = alice
    bob = bob
    carol = carol
    gold = gold
    k1 = k1
    k2 = k2
    r1 = r1
    r2 = r2
    r3 = r3
    NoKey = NoKey
    NoOrder = NoOrder
    NoInput = NoInput
    EmptyKey = k2
    Keys = {k1, k2}
    Scale = 1
    Inexact = TRUE
    Users = {alice, bob}
    WalletOwners = {alice, bob}
    Assets = {gold}
    ActiveAssets = {gold}
    OrderIds = {1, 2, 3}
    Requests = {r1, r2, r3}
    Amounts = {}
    MaxNumeric = 8
    Ticks = {0}
    QueueCap = 3
    InitBalance <- Balance4
    InitPortfolios <- BobHolds
    Faults = {}
    Inputs <- RoundingInputs
PROPERTIES
    PlacedOrdersAreProcessed
CHECK_DEADLOCK FALSE
