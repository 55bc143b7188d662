----------------------------- MODULE MCCheckout -----------------------------
(***************************************************************************)
(* Values for the model checker.  There is rice for one of i1 and k1, the  *)
(* slot takes two bookings, and the coupon is good for one purchase: each  *)
(* resource runs out for someone, and not for the same purchases.          *)
(***************************************************************************)
EXTENDS Checkout, TLC

CONSTANTS ann, bob, i1, i2, k1, k2, rice, milk, cart1, cart2

MCUserOf == [c \in Purchase |-> IF c \in {i1, k1} THEN ann ELSE bob]
MCQty == [c \in Purchase |->
    CASE c \in {i1, k1} -> (rice :> 1) @@ (milk :> 2)
      [] c \in {i2, k2} -> (rice :> 0) @@ (milk :> 1)]
MCInitialStock == (rice :> 1) @@ (milk :> 5)
MCAmpleStock == (rice :> 2) @@ (milk :> 5)

\* Two carts of two customers, or one cart opened twice by one.
MCCartOf == [i \in Intent |-> IF i = i1 THEN cart1 ELSE cart2]
MCOneUser == [c \in Purchase |-> ann]
MCOneCart == [i \in Intent |-> cart1]

MCWorkerSymmetry == Permutations(Worker)
=============================================================================
