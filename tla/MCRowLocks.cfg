SPECIFICATION FairLockSpec
CONSTANTS
    alice = alice
    bob = bob
    e1 = e1
    s1 = s1
    j1 = j1
    Nobody = Nobody
    Users = {alice, bob}
    OrderIds = {1, 2, 3, 4}
    Owner <- TwoTraders
    BuyOrders = {1, 4}
    Engines = {e1}
    Sessions = {s1}
    Jobs = {j1}
INVARIANTS
    LocksHaveOwners
    DeadlocksNeedTwo
PROPERTIES
    TransactionsEnd
