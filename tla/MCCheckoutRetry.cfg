SPECIFICATION Spec
CONSTANTS
    w1 = w1
    w2 = w2
    w3 = w3
    w4 = w4
    w5 = w5
    Workers = {w1, w2}
    Roles <- BuyerRetries
    HasPromo = FALSE
    MaxAttempts = 2
    MaxTroubles = 1
    Payments = {p1, p2, p3}
    Attempts = 2
    MaxFaults = 0
    None = None
    first = p1
    refundId = r1
CHECK_DEADLOCK FALSE
PROPERTIES AuthorisationsSettle
