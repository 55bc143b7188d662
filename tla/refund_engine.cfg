SPECIFICATION MCSpec
CONSTANTS
    r1 = r1
    r2 = r2
    w1 = w1
    w2 = w2
    Amount = 3
    Targets = {2, 3}
    ManualAmounts = {1}
    Subscribed = {"refund.created", "refund.processed", "refund.failed"}
    RefundId = {r1, r2}
    Worker = {w1, w2}
    MaxFailures = 1
    MaxCrashes = 1
CHECK_DEADLOCK FALSE
SYMMETRY MCWorkerSymmetry
INVARIANTS
    LedgerCountsOnce
    GoesBackOnce
    RefundedIsPaidOut
