SPECIFICATION Spec
CONSTANTS
    ann = ann
    bob = bob
    i1 = i1
    i2 = i2
    k1 = k1
    k2 = k2
    rice = rice
    milk = milk
    cart1 = cart1
    cart2 = cart2
    Product = {rice, milk}
    User = {ann, bob}
    Cart = {cart1, cart2}
    Qty <- MCQty
    InitialStock <- MCInitialStock
    UserOf <- MCUserOf
    CartOf <- MCCartOf
    Intent = {i1}
    Cod = {k1, k2}
    CouponUsers = {i1, k2}
    Capacity = 2
    UsageLimit = 1
    Worker = {w1, w2}
    MaxCrashes = 0
CHECK_DEADLOCK FALSE
SYMMETRY MCWorkerSymmetry
INVARIANTS
    TypeOK
    StockLedger
    SlotLedger
    CouponLedger
    OrderIsPaid
PROPERTIES
    LedgerSpec

