SPECIFICATION Spec
CONSTANTS
    gold = gold
    oil = oil
    ann = ann
    ben = ben
    r1 = r1
    r2 = r2
    r3 = r3
    r4 = r4
    NoEntry = NoEntry
    Brokers = {ann, ben}
    Prices = {1, 2, 3}
    Requests = {r1, r2, r3, r4}
    CallTime = 1
    Assets = {gold, oil}
    Inputs <- Calls
    TTL = 2
    MaxTime = 3
    Faults = {"redis"}
SYMMETRY CallSymmetry
INVARIANTS
    ServedPricesAreRecent
PROPERTIES
    RevivedOnlyByOverlap
CHECK_DEADLOCK FALSE
