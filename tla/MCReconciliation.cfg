SPECIFICATION Spec
CONSTANTS
    alice = alice
    bob = bob
    Users = {alice, bob}
    InitBalance <- Balance4
    InitHolding <- Holdings
    Amounts = {16, 41}
    TradeInputs <- TheTrades
    Scale = 10
    Inexact = TRUE
    Precision = 80
    MaxRecords = 4
    Faults = {"db"}
INVARIANTS
    SettlementsVerified
    BooksAgree
    AverageWithinPaid
PROPERTIES
    ReportedWalletsMoved
CHECK_DEADLOCK FALSE
