SPECIFICATION Spec
CONSTANTS
    q1 = q1
    q2 = q2
    q3 = q3
    u1 = u1
    Requests = {q1, q2, q3}
    Callers = {u1}
    Limiters = {"login", "order", "wallet"}
    maxRequests <- Maxima
    window = 3
    Timeout = 1
    MaxRetries = 1
    MaxTime = 5
    Faults = {"redis"}
SYMMETRY RequestSymmetry
INVARIANTS
    EffectiveLimit
    BlockedOnlyOverLimit
CHECK_DEADLOCK FALSE
