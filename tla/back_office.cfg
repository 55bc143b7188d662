SPECIFICATION MCSpec
CONSTANTS
    Admin = {x1, x2}
    Link = {l1, l2, l3}
    Desk = {y1, y2}
    NoLink = NoLink
    MaxDecisions = 2
    MaxSignIns = 1
    MaxChanges = 2
    g1 = g1
    g2 = g2
    Goods = {g1, g2}
    GoodsPrices = {1, 99}
    GoodsRates = {0, 5, 18}
    Carts <- MCCarts
    Coupons <- MCCoupons
    FreeThreshold = 200
    ZoneCharges = {0, 25}
    MinimumCharge = 10
    NoOrder = NoOrder
    DayLength = 5
    WeekLength = 2
    LookAhead = 3
    LastInstant = 10
    WeeklyHours <- MCWeeklyHours
    SpecialDays <- MCSpecialDays
    Closures <- MCClosures
    ZoneSets <- MCZoneSets
    Distances = {1, 2}
    NoDistance = NoDistance
    Never = Never
    Delivered = {oa}
    Ticket = {x1, x2}
    Clerk = {y1, y2}
    RejectionsAllowed = 1
    MaxAttempts = 2
    MaxDeaths = 1
    MaxAddresses = 3
    Device = {y1, y2}
    Picture = {p1, p2, p3}
    BadPicture = {p2}
    OwnPicture = own
    ImageField = {x1, x2}
    SourceFile = {x1, x2}
    Uploader = {y1, y2}
    MaxScripts = 2
    MaxEdits = 1
    Variant = {v1, v2}
    FirstOnes = {v1}
    MaxStock = 2
    Editor = {y1, y2}
    MaxHolds = 2
    MaxSaves = 2
    Order = {o1, o2}
    Handled = {o1}
    NoteKey = {k1}
    Staff = {s1}
    NoShape = NoShape
    LastDay = 3
    MaxSequence = 2
    InvoiceShapes <- MCInvoiceShapes
    CreditAmounts = {3}
    MaxFilings = 2
    MaxUnderWay = 2
SYMMETRY Symmetric
CHECK_DEADLOCK FALSE
INVARIANTS
    OneSeatOneLink
    EndedSessionsStayEnded
    InvoiceAddsUp
    PaidCartIsHonoured
    NextOpeningIsOpen
    TicketFollowsRefund
    BlockedAfterRejections
    OneActiveTicket
    AddressesConsistent
    ImagesKept
    FilesRecoverable
    ReservationsKept
    AvailableIsNet
    StockReturnedOnce
    CreditsWithinInvoice
    SeriesGapless
    CancelledIsCredited
    FilingIsComplete
PROPERTIES
    SeatTakenByStandingInvitation
