------------------------- MODULE ReservationLedger -------------------------
(***************************************************************************)
(* What checkout promises, with no counters, documents or messages: each   *)
(* purchase is in one phase, and stock, slot and coupon are granted to the *)
(* purchases whose phase claims them, first come first served.             *)
(*                                                                         *)
(* A purchase claims its units and its booking while it is held or sold.   *)
(* It claims the coupon from the hold on, and keeps it for good once sold: *)
(* a cancelled order gives back stock and slot, not the coupon.            *)
(***************************************************************************)
EXTENDS Purchases

VARIABLE phase

Claimants == {c \in Purchase : phase[c] \in {"held", "sold"}}
Redeemers == {c \in CouponUsers : phase[c] \in {"held", "sold", "returned"}}

LedgerInit == phase = [c \in Purchase |-> "none"]

\* Purchase c can be granted everything it asks for.
Fits(c) ==
    /\ \A p \in Product : UnitsOf(Claimants, p) + Qty[c][p] <= InitialStock[p]
    /\ Cardinality(Claimants) < Capacity
    /\ c \in CouponUsers =>
        /\ UsageLimit = 0 \/ Cardinality(Redeemers) < UsageLimit
        /\ \A d \in Redeemers : UserOf[d] # UserOf[c]

Hold(i) ==
    /\ phase[i] = "none" /\ Fits(i)
    /\ phase' = [phase EXCEPT ![i] = "held"]

SellHeld(i) ==
    /\ phase[i] = "held"
    /\ phase' = [phase EXCEPT ![i] = "sold"]

Release(i) ==
    /\ phase[i] = "held"
    /\ phase' = [phase EXCEPT ![i] = "released"]

SellNow(c) ==
    /\ phase[c] = "none" /\ Fits(c)
    /\ phase' = [phase EXCEPT ![c] = "sold"]

Return(c) ==
    /\ phase[c] = "sold"
    /\ phase' = [phase EXCEPT ![c] = "returned"]

LedgerNext ==
    \/ \E i \in Intent : Hold(i) \/ SellHeld(i) \/ Release(i)
    \/ \E c \in Cod : SellNow(c)
    \/ \E c \in Purchase : Return(c)

LedgerSpec == LedgerInit /\ [][LedgerNext]_phase
=============================================================================
