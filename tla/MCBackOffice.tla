---------------------------- MODULE MCBackOffice ----------------------------
(***************************************************************************)
(* The components of the back office for model checking, side by side.     *)
(* They share no state, so a behaviour of one says nothing about another:  *)
(* `part' names the component that moves, the others rest in one of their  *)
(* initial states.                                                         *)
(***************************************************************************)
EXTENDS AdminSeat, Pricing, StoreAvailability, SupportTickets, AddressBook,
        ImageMigration, CatalogStock, GstFilings, MCFulfilment, TLC

CONSTANTS
    g1, g2,
    MaxUnderWay  \* bounds the transactions of orders and tax documents under way at once

VARIABLE part

-----------------------------------------------------------------------------
(* Values of the constants *)

Item(product, quantity) == [product |-> product, quantity |-> quantity]
MCCarts == {<<Item(g1, 1), Item(g2, 1)>>, <<Item(g2, 1), Item(g1, 1)>>,
            <<Item(g1, 3), Item(g2, 2)>>, <<Item(g1, 3)>>}
MCCoupons == {[type |-> "flat", value |-> 7, max |-> 0, least |-> 10],
              [type |-> "percentage", value |-> 15, max |-> 20, least |-> 0]}

Hours(opensAt, closesAt) == [isOpen |-> TRUE, opensAt |-> opensAt, closesAt |-> closesAt]
DayOff == [isOpen |-> FALSE, opensAt |-> 0, closesAt |-> 1]
Schedules == {DayOff, Hours(0, 3), Hours(1, 4), Hours(2, 3)}
MCWeeklyHours == [0..1 -> Schedules]
MCSpecialDays == {<<>>} \union {[d \in {1} |-> h] : h \in Schedules}
MCClosures == {[isActive |-> FALSE, from |-> 0, to |-> 1]} \union
              {[isActive |-> TRUE, from |-> f, to |-> t] : f \in {0, 4}, t \in {3, 6, 8, 11}}
ZoneWith(limit, cutoff, isActive) == [limit |-> limit, cutoff |-> cutoff, isActive |-> isActive]
MCZoneSets == {{}, {ZoneWith(1, 1, FALSE)}, {ZoneWith(1, 2, TRUE)},
               {ZoneWith(1, 3, TRUE), ZoneWith(2, 2, TRUE)},
               {ZoneWith(1, 1, TRUE), ZoneWith(2, 4, TRUE)},
               {ZoneWith(1, 1, FALSE), ZoneWith(2, 4, TRUE)}}

-----------------------------------------------------------------------------
\* Two calls at a time, or one where a call was lost to a crash.
SupportBound == deaths > 0 => Cardinality(clerks) <= 1

\* The documents of two orders, of which the one that is handled is paid online;
\* the seals of months with no other order than that, paid in cash.
UnderWayBound ==
    Cardinality(updates) + Cardinality(placements) + Cardinality(cancellations) + Cardinality(notes)
        <= MaxUnderWay
PaidOnline == \A t \in placements : t.order \in Handled => t.method = "razorpay"
OneCashOrder == \A t \in placements : t.order \in Handled /\ t.method = "cod"
GstNotes(orders) == \A n \in notes : n.order \in orders => n.class = "CREDIT_NOTE"
OneReturn == \A a \in acknowledgements : a.returnType = "GSTR1"

Parts == {"seat", "pricing", "availability", "support", "addresses", "images", "stock",
          "fulfilment", "filings"}

\* A component that rests is in one of its initial states; the store is open.
OneOf(S) == CHOOSE x \in S : TRUE
Starts(p, S, resting) == IF part = p THEN S ELSE {resting}

MCInit ==
    /\ part \in Parts
    /\ chosen \in Starts("images", [ImageField -> Picture], OneOf([ImageField -> Picture]))
    /\ printed \in Starts("images", [SourceFile -> Picture], OneOf([SourceFile -> Picture]))
    /\ LET Catalogs == [Goods -> [price : GoodsPrices, rate : GoodsRates]]
       IN catalog \in Starts("pricing", Catalogs, OneOf(Catalogs))
    /\ weekly \in Starts("availability", WeeklyHours, [d \in 0..1 |-> Hours(0, 3)])
    /\ special \in Starts("availability", SpecialDays, <<>>)
    /\ closure \in Starts("availability", Closures, [isActive |-> FALSE, from |-> 0, to |-> 1])
    /\ zones \in Starts("availability", ZoneSets, {ZoneWith(1, 2, TRUE)})
    /\ distance \in Starts("availability", Distances \union {NoDistance}, 1)
    /\ cash \in Starts("support", SUBSET Delivered, {})
    /\ SeatInit /\ AddressInit /\ CatalogInit /\ ImageInit /\ PricingInit
    /\ AvailabilityInit /\ SupportInit /\ FulfilmentInit /\ FilingInit
    /\ part \notin {"fulfilment", "filings"} => \A o \in Order : ~order[o].legacy

storeVars == <<pricingVars, availabilityVars>>
goodsVars == <<imageVars, catalogVars>>
taxVariables == <<fulfilmentVars, filingVars>>

\* One component moves, the others keep their variables.
MCNext ==
    \/ part = "seat" /\ SeatNext
       /\ UNCHANGED <<storeVars, supportVars, addressVars, goodsVars, taxVariables, part>>
    \/ part = "pricing" /\ PricingNext
       /\ UNCHANGED <<seatVars, availabilityVars, supportVars, addressVars, goodsVars,
                      taxVariables, part>>
    \/ part = "availability" /\ AvailabilityNext
       /\ UNCHANGED <<seatVars, pricingVars, supportVars, addressVars, goodsVars,
                      taxVariables, part>>
    \/ part = "support" /\ SupportNext /\ SupportBound'
       /\ UNCHANGED <<seatVars, storeVars, addressVars, goodsVars, taxVariables, part>>
    \/ part = "addresses" /\ AddressNext
       /\ UNCHANGED <<seatVars, storeVars, supportVars, goodsVars, taxVariables, part>>
    \/ part = "images" /\ ImageNext
       /\ UNCHANGED <<seatVars, storeVars, supportVars, addressVars, catalogVars,
                      taxVariables, part>>
    \/ part = "stock" /\ CatalogNext
       /\ UNCHANGED <<seatVars, storeVars, supportVars, addressVars, imageVars,
                      taxVariables, part>>
    \/ part = "fulfilment" /\ FulfilmentNext /\ UnderWayBound' /\ PaidOnline' /\ GstNotes(Order \ Handled)'
       /\ UNCHANGED <<seatVars, storeVars, supportVars, addressVars, goodsVars, filingVars, part>>
    \/ part = "filings" /\ FilingNext /\ UnderWayBound' /\ OneCashOrder' /\ GstNotes(Order)' /\ OneReturn'
       /\ UNCHANGED <<seatVars, storeVars, supportVars, addressVars, goodsVars, part>>

MCSpec == MCInit /\ [][MCNext]_<<seatVars, storeVars, supportVars, addressVars, goodsVars,
                                 taxVariables, part>>

\* Interchangeable accounts, tickets, fields and files, and interchangeable calls:
\* each component has its own by these names.
Symmetric == Permutations(Admin) \union Permutations(Desk)
=============================================================================
