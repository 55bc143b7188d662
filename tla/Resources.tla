----------------------------- MODULE Resources -----------------------------
(***************************************************************************)
(* The three counted resources an order draws on, and the primitive        *)
(* mutations that inventory.service, delivery.service and coupon.service   *)
(* offer the checkout and order services:                                  *)
(*                                                                         *)
(*   stock, reservedStock   on-hand and held units of each Product         *)
(*   booked                 bookings of the delivery slot                  *)
(*   redemption             the CouponRedemption of each purchase          *)
(*   reservedCount,         the coupon's counters                          *)
(*   usedCount                                                             *)
(*                                                                         *)
(* Every operator here runs inside the caller's MongoDB transaction, so it *)
(* is a conjunct of the caller's action.  An operator that throws in the   *)
(* code aborts that transaction: it is a guard.  An operator that silently *)
(* returns null in the code leaves its variables unchanged.  One slot and  *)
(* one coupon are modelled: purchases that use different ones do not       *)
(* interact.                                                               *)
(***************************************************************************)
EXTENDS Purchases

VARIABLES stock, reservedStock, booked, redemption, reservedCount, usedCount

stockVars == <<stock, reservedStock>>
couponVars == <<redemption, reservedCount, usedCount>>
resourceVars == <<stock, reservedStock, booked, redemption, reservedCount, usedCount>>

RedemptionStatus == {"none", "reserved", "consumed", "released"}

ResourcesTypeOK ==
    /\ stock \in [Product -> Int]
    /\ reservedStock \in [Product -> Int]
    /\ booked \in Int
    /\ redemption \in [Purchase -> RedemptionStatus]
    /\ reservedCount \in Int
    /\ usedCount \in Int

ResourcesInit ==
    /\ stock = InitialStock
    /\ reservedStock = [p \in Product |-> 0]
    /\ booked = 0
    /\ redemption = [c \in Purchase |-> "none"]
    /\ reservedCount = 0
    /\ usedCount = 0

-----------------------------------------------------------------------------
(* inventory.service: each call mutates every item of the purchase, or     *)
(* throws on the first item it cannot serve and changes nothing.           *)

\* netAvailableStock(stock, reservedStock)
Available(p) == IF stock[p] > reservedStock[p] THEN stock[p] - reservedStock[p] ELSE 0

ReserveInventory(c) ==
    /\ \A p \in Product : Available(p) >= Qty[c][p]
    /\ reservedStock' = [p \in Product |-> reservedStock[p] + Qty[c][p]]
    /\ UNCHANGED stock

ReleaseReservedInventory(c) ==
    /\ \A p \in Product : reservedStock[p] >= Qty[c][p]
    /\ reservedStock' = [p \in Product |-> reservedStock[p] - Qty[c][p]]
    /\ UNCHANGED stock

\* Mutant: the hold ends and the units stay on the shelf.
ConsumeReservationOnly(c) ==
    /\ \A p \in Product : reservedStock[p] >= Qty[c][p] /\ stock[p] >= Qty[c][p]
    /\ reservedStock' = [p \in Product |-> reservedStock[p] - Qty[c][p]]
    /\ UNCHANGED stock

ConsumeReservedInventory(c) ==
    /\ \A p \in Product : reservedStock[p] >= Qty[c][p] /\ stock[p] >= Qty[c][p]
    /\ stock' = [p \in Product |-> stock[p] - Qty[c][p]]
    /\ reservedStock' = [p \in Product |-> reservedStock[p] - Qty[c][p]]

\* Mutant: a cash order checks on-hand stock and overlooks what other checkouts hold.
SellOnHandInventory(c) ==
    /\ \A p \in Product : stock[p] >= Qty[c][p]
    /\ stock' = [p \in Product |-> stock[p] - Qty[c][p]]
    /\ UNCHANGED reservedStock

SellAvailableInventory(c) ==
    /\ \A p \in Product : Available(p) >= Qty[c][p]
    /\ stock' = [p \in Product |-> stock[p] - Qty[c][p]]
    /\ UNCHANGED reservedStock

RestoreOrderInventory(c) ==
    /\ stock' = [p \in Product |-> stock[p] + Qty[c][p]]
    /\ UNCHANGED reservedStock

-----------------------------------------------------------------------------
(* delivery.service                                                        *)

\* Mutant: the filter booked < capacity is dropped.
ReserveAnySlot == booked' = booked + 1

ReserveSlot ==
    /\ booked < Capacity
    /\ booked' = booked + 1

\* The filter booked > 0 makes a surplus release a silent no-op.
ReleaseSlot == booked' = IF booked > 0 THEN booked - 1 ELSE booked

-----------------------------------------------------------------------------
(* coupon.service.  A redemption is active while reserved and for good once*)
(* consumed; the partial unique index admits one active redemption per     *)
(* customer.                                                               *)

ActiveRedemption(c) == redemption[c] \in {"reserved", "consumed"}

\* claimCoupon: the counter moves only below the limit, and the insert of the
\* redemption hits the unique index if the customer already has an active one.
ClaimCoupon(c) ==
    IF c \in CouponUsers
    THEN /\ UsageLimit = 0 \/ usedCount + reservedCount < UsageLimit
         /\ \A d \in Purchase : ActiveRedemption(d) => UserOf[d] # UserOf[c]
         /\ redemption' = [redemption EXCEPT ![c] = "reserved"]
         /\ reservedCount' = reservedCount + 1
         /\ UNCHANGED usedCount
    ELSE UNCHANGED couponVars

\* consumeCouponReservation: a missing reservation makes the order throw
\* COUPON_RESERVATION_MISMATCH, so it is a guard of the order's transaction.
ConsumeCoupon(c) ==
    IF c \in CouponUsers
    THEN /\ redemption[c] = "reserved"
         /\ reservedCount > 0
         /\ redemption' = [redemption EXCEPT ![c] = "consumed"]
         /\ reservedCount' = reservedCount - 1
         /\ usedCount' = usedCount + 1
    ELSE UNCHANGED couponVars

\* Mutant: the occupancy check forgets the redemptions still reserved.
RedeemUnlessUsedUp(c) ==
    IF c \in CouponUsers
    THEN /\ UsageLimit = 0 \/ usedCount < UsageLimit
         /\ \A d \in Purchase : ActiveRedemption(d) => UserOf[d] # UserOf[c]
         /\ redemption' = [redemption EXCEPT ![c] = "consumed"]
         /\ usedCount' = usedCount + 1
         /\ UNCHANGED reservedCount
    ELSE UNCHANGED couponVars

\* A cash order claims and consumes in the same transaction.
RedeemCoupon(c) ==
    IF c \in CouponUsers
    THEN /\ UsageLimit = 0 \/ usedCount + reservedCount < UsageLimit
         /\ \A d \in Purchase : ActiveRedemption(d) => UserOf[d] # UserOf[c]
         /\ redemption' = [redemption EXCEPT ![c] = "consumed"]
         /\ usedCount' = usedCount + 1
         /\ UNCHANGED reservedCount
    ELSE UNCHANGED couponVars

\* releaseCouponReservation: returns null unless the redemption is reserved;
\* throws if the counter disagrees with the redemption.
ReleaseCoupon(c) ==
    IF c \in CouponUsers /\ redemption[c] = "reserved"
    THEN /\ reservedCount > 0
         /\ redemption' = [redemption EXCEPT ![c] = "released"]
         /\ reservedCount' = reservedCount - 1
         /\ UNCHANGED usedCount
    ELSE UNCHANGED couponVars
=============================================================================
