SPECIFICATION MCSpec
CONSTANTS
    o1 = o1
    o2 = o2
    p1 = p1
    p2 = p2
    t1 = t1
    t2 = t2
    w1 = w1
    w2 = w2
    None = None
    Otp = {o1, o2}
    Proof = {p1, p2}
    Token = {t1, t2}
    Worker = {w1, w2}
    MaxAttempts = 2
    MaxLogouts = 2
    MaxCrashes = 1
    Code = {o1, o2}
    Message = {p1, p2}
    NoCode = NoCode
    Attempts = 2
    MaxStalls = 1
    MaxReports = 2
    MaxHooks = 1
    Event = {t1, t2}
    Handler = {w1, w2}
    MaxFailures = 2
CHECK_DEADLOCK FALSE
SYMMETRY MCEdgeSymmetry
INVARIANTS
    TypeOK
    OneLoginPerCode
    LogoutEndsSessions
    DeliveryIsReported
    EventNotLost
PROPERTIES
    RetiredStaysRetired
    DeliveryNeverGoesBack
