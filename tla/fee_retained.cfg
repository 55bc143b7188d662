SPECIFICATION Spec
CONSTANTS
    r1 = r1
    r2 = r2
    w1 = w1
    w2 = w2
    Amount = 3
    Targets = {2}
    ManualAmounts = {1}
    Subscribed = {"refund.processed"}
    RefundId = {r1, r2}
    Worker = {w1}
    MaxFailures = 0
    MaxCrashes = 0
CHECK_DEADLOCK FALSE
PROPERTY FeeIsRetained
