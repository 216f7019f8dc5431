SPECIFICATION Spec
CONSTANTS
    Payments = {p1}
    RefundIds = {r1, r2}
    Callers = {c1, c2}
    Attempts = 3
    MaxFaults = 2
    None = None
INVARIANTS TypeOK LedgerAgrees CancelReleasesHold RefundedOnce
PROPERTIES ApprovalArrives
CHECK_DEADLOCK TRUE
