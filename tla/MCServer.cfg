SPECIFICATION ServerSpec
CONSTANTS
    x1 = x1
    x2 = x2
    Txns = {x1, x2}
    Kind <- TradeAndCancel
    Partitions = {1}
    Groups = {"audit-group", "analytics-group"}
    Faults = {"commit", "handle", "kill", "leave"}
    MaxTxns = 1
    MaxRetries = 1
    MaxFailures = 1
    MaxStops = 1
INVARIANTS
    HandledAtMostOnce
    ShutdownCutsOnlyTrades
PROPERTIES
    EveryEffectHappens
    ShutdownEnds
CHECK_DEADLOCK FALSE
