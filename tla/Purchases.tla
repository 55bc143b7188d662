----------------------------- MODULE Purchases -----------------------------
(***************************************************************************)
(* What customers ask the shop for.  A purchase is one checkout: online    *)
(* (an Intent, which reserves before it is paid) or cash on delivery (a    *)
(* Cod, which is sold at once).  Both the promise (ReservationLedger) and  *)
(* the code that keeps it (Resources, Checkout) are stated over these.     *)
(***************************************************************************)
EXTENDS Integers, FiniteSets

CONSTANTS
    Product,        \* products (or variants) on sale
    Intent,         \* online checkouts: PaymentIntent documents
    Cod,            \* cash-on-delivery checkouts
    User,           \* customers
    UserOf,         \* who makes each purchase
    Qty,            \* units of each product each purchase asks for
    CouponUsers,    \* the purchases that apply the coupon
    InitialStock,   \* on-hand stock of each product before any purchase
    Capacity,       \* bookings the delivery slot admits
    UsageLimit      \* redemptions the coupon admits; 0 means unlimited

Purchase == Intent \union Cod

MAX_ITEM_QUANTITY == 5

ASSUME PurchaseAssumption ==
    /\ IsFiniteSet(Intent)
    /\ IsFiniteSet(Cod)
    /\ Intent \intersect Cod = {}

ASSUME ResourceAssumption ==
    /\ UserOf \in [Purchase -> User]
    /\ Qty \in [Purchase -> [Product -> 0..MAX_ITEM_QUANTITY]]
    /\ CouponUsers \subseteq Purchase
    /\ InitialStock \in [Product -> Nat]
    /\ Capacity \in Nat
    /\ UsageLimit \in Nat

\* The units of p that the purchases of S ask for together: their sum, written
\* as a count of <<purchase, unit>> pairs so that facts about finite sets apply.
UnitsOf(S, p) == Cardinality({u \in S \X (1..MAX_ITEM_QUANTITY) : u[2] <= Qty[u[1]][p]})
=============================================================================
