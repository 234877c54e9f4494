SPECIFICATION ListedSpec
CONSTANTS
    alice = alice
    c1 = c1
    c2 = c2
    c3 = c3
    c4 = c4
    NoInput = NoInput
    Emails = {alice}
    Calls = {c1, c2, c3, c4}
    AccessTTL = 1
    RefreshTTL = 3
    CallTime = 1
    MaxTime = 3
    Inputs <- Requests
    Faults = {"crash", "db"}
    Rows = {c1, c2, c3, c4}
    Times = {1, 2, 3}
    Lists = {"users", "audit"}
    MaxSize = 2
    DefaultSize = 1
    Queries <- PagesSent
SYMMETRY CallSymmetry
INVARIANTS
    OneAccountPerEmail
    AcceptedRecently
    AuditTellsStatus
    NothingSkipped
    NothingRepeated
CHECK_DEADLOCK FALSE
