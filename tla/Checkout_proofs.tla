--------------------------- MODULE Checkout_proofs --------------------------
(***************************************************************************)
(* Theorems about Checkout, for every set of purchases, carts, workers and *)
(* products: its type invariant, and that nothing is oversold - the counters*)
(* of stock, slot and coupon are exactly what the held sessions and the live*)
(* orders account for.                                                     *)
(*                                                                         *)
(* Checkout moves a purchase through four ledger steps: it is held, its    *)
(* hold is released, its hold is sold (or a cash order sold at once), and  *)
(* a sold order is returned.  One lemma per step shows that it keeps the   *)
(* three ledgers; every action is then one of these steps, or none.        *)
(***************************************************************************)
EXTENDS Checkout, FiniteSetTheorems, TLAPS

-----------------------------------------------------------------------------
(* Types.  First the operators an action is built from, then the actions.  *)

IntentsTypeOK ==
    /\ status \in [Intent -> Statuses]
    /\ reservation \in [Intent -> Reservations]
    /\ activeDedupeKey \in [Intent -> BOOLEAN]
    /\ expired \in [Intent -> BOOLEAN]
    /\ authorizedAt \in [Intent -> {"unset", "set", "past"}]

LEMMA CallOfTyped ==
    ASSUME TypeOK, NEW w \in Worker, NEW i \in Intent,
           NEW op \in {"initialize", "confirm", "webhook", "abandon", "resume", "sweep", "refuse"},
           NEW pc \in {"fetch", "mark", "finish"}, NEW e \in Events \union {"none"}
    PROVE  CallOf(w, op, i, pc, e) \in Call
BY SMT DEF TypeOK, CallOf, Call, PaymentStatuses

LEMMA StartTyped ==
    ASSUME TypeOK, NEW w \in Worker, NEW i \in Intent,
           NEW op \in {"initialize", "confirm", "webhook", "abandon", "resume", "sweep", "refuse"},
           NEW pc \in {"fetch", "mark", "finish"}, Start(w, op, i, pc)
    PROVE  calls' \subseteq Call /\ crashes' \in 0..MaxCrashes
<1>1. CallOf(w, op, i, pc, "none") \in Call
  BY CallOfTyped
<1> QED
  BY <1>1 DEF TypeOK, Start

LEMMA AdvanceTyped ==
    ASSUME TypeOK, NEW c \in calls, NEW d \in Call, Advance(c, d)
    PROVE  calls' \subseteq Call /\ crashes' \in 0..MaxCrashes
BY DEF TypeOK, Advance

LEMMA ReturnTyped ==
    ASSUME TypeOK, NEW c \in calls, Return(c)
    PROVE  calls' \subseteq Call /\ crashes' \in 0..MaxCrashes
BY DEF TypeOK, Return

LEMMA SetStatusTyped ==
    ASSUME TypeOK, NEW i \in Intent, NEW s \in Statuses, SetStatus(i, s)
    PROVE  IntentsTypeOK'
BY DEF TypeOK, SetStatus, IntentsTypeOK

LEMMA UnchangedTyped ==
    ASSUME TypeOK
    PROVE  /\ UNCHANGED resourceVars => ResourcesTypeOK'
           /\ UNCHANGED intentVars => IntentsTypeOK'
           /\ UNCHANGED callVars => calls' \subseteq Call /\ crashes' \in 0..MaxCrashes
BY DEF TypeOK, ResourcesTypeOK, IntentsTypeOK, resourceVars, intentVars, callVars

LEMMA QtyTyped == \A c \in Purchase, p \in Product : Qty[c][p] \in 0..5
BY ResourceAssumption, SMT DEF MAX_ITEM_QUANTITY

LEMMA ReleaseTyped ==
    ASSUME TypeOK, NEW i \in Intent, ReleaseReservationResources(i)
    PROVE  /\ ResourcesTypeOK'
           /\ reservation' \in [Intent -> Reservations]
           /\ activeDedupeKey' \in [Intent -> BOOLEAN]
<1> USE DEF TypeOK, ResourcesTypeOK, ReleaseReservationResources
<1>1. stock' \in [Product -> Int] /\ reservedStock' \in [Product -> Int]
  BY QtyTyped, SMT DEF ReleaseReservedInventory, Purchase
<1>2. booked' \in Int
  BY SMT DEF ReleaseSlot
<1>3. redemption' \in [Purchase -> RedemptionStatus] /\ reservedCount' \in Int /\ usedCount' \in Int
  BY SMT DEF ReleaseCoupon, couponVars, RedemptionStatus
<1>4. reservation' \in [Intent -> Reservations] /\ activeDedupeKey' \in [Intent -> BOOLEAN]
  BY DEF Reservations
<1> QED
  BY <1>1, <1>2, <1>3, <1>4

LEMMA ReleaseIntentTyped ==
    ASSUME TypeOK, NEW i \in Intent, ReleasePaymentIntentReservation(i)
    PROVE  ResourcesTypeOK' /\ IntentsTypeOK'
<1>1. CASE ReleaseReservationResources(i) /\ UNCHANGED <<status, expired, authorizedAt>>
  BY <1>1, ReleaseTyped DEF TypeOK, IntentsTypeOK
<1>2. CASE UNCHANGED <<resourceVars, intentVars>>
  BY <1>2, UnchangedTyped
<1> QED
  BY <1>1, <1>2 DEF ReleasePaymentIntentReservation

LEMMA QueueRefundTyped ==
    ASSUME TypeOK, NEW i \in Intent, QueueRefundAndRelease(i)
    PROVE  ResourcesTypeOK' /\ IntentsTypeOK'
<1>1. CASE UNCHANGED <<resourceVars, intentVars>>
  BY <1>1, UnchangedTyped
<1>2. CASE /\ \E s \in QueuedStatuses(i) : status' = [status EXCEPT ![i] = s]
           /\ IF reservation[i] = "held"
              THEN ReleaseReservationResources(i)
              ELSE UNCHANGED <<resourceVars, reservation, activeDedupeKey>>
           /\ UNCHANGED <<expired, authorizedAt>>
  <2>1. status' \in [Intent -> Statuses]
    <3>1. QueuedStatuses(i) \subseteq Statuses
      BY DEF QueuedStatuses, Statuses
    <3> QED
      BY <1>2, <3>1 DEF TypeOK
  <2>2. CASE ReleaseReservationResources(i)
    BY <1>2, <2>1, <2>2, ReleaseTyped DEF TypeOK, IntentsTypeOK
  <2>3. CASE UNCHANGED <<resourceVars, reservation, activeDedupeKey>>
    BY <1>2, <2>1, <2>3, UnchangedTyped DEF TypeOK, IntentsTypeOK
  <2> QED
    BY <1>2, <2>2, <2>3
<1> QED
  BY <1>1, <1>2 DEF QueueRefundAndRelease

LEMMA HoldTyped ==
    ASSUME TypeOK, NEW i \in Intent, HoldResources(i)
    PROVE  ResourcesTypeOK'
<1> USE DEF TypeOK, ResourcesTypeOK, HoldResources
<1>1. stock' \in [Product -> Int] /\ reservedStock' \in [Product -> Int]
  BY QtyTyped, SMT DEF ReserveInventory, Purchase
<1>2. booked' \in Int
  BY SMT DEF ReserveSlot
<1>3. redemption' \in [Purchase -> RedemptionStatus] /\ reservedCount' \in Int /\ usedCount' \in Int
  BY SMT DEF ClaimCoupon, couponVars, RedemptionStatus
<1> QED
  BY <1>1, <1>2, <1>3

LEMMA OpenTyped ==
    ASSUME TypeOK, NEW w \in Worker, NEW i \in Intent, Open(w, i)
    PROVE  TypeOK'
<1>1. ResourcesTypeOK'
  BY HoldTyped DEF Open
<1>2. CallOf(w, "initialize", i, "fetch", "none") \in Call
  BY CallOfTyped
<1>3. [CallOf(w, "initialize", i, "fetch", "none") EXCEPT !.seen = "initializing", !.held = TRUE] \in Call
  BY <1>2 DEF Call, Statuses
<1> QED
  BY <1>1, <1>3 DEF TypeOK, Open, Statuses, Reservations, providerVars

\* A request that only starts a call.
LEMMA StartsTyped ==
    ASSUME TypeOK, NEW w \in Worker, NEW i \in Intent,
           Resume(w, i) \/ Verify(w, i) \/ Reconcile(w, i) \/ Abandon(w, i)
             \/ Refuse(w, i) \/ Sweep(w, i)
    PROVE  TypeOK'
<1>1. calls' \subseteq Call /\ crashes' \in 0..MaxCrashes
  BY StartTyped DEF Resume, Verify, Reconcile, Abandon, Refuse, Sweep
<1>2. UNCHANGED <<resourceVars, intentVars, order, providerVars>>
  BY DEF Resume, Verify, Reconcile, Abandon, Refuse, Sweep
<1> QED
  BY <1>1, <1>2, UnchangedTyped DEF TypeOK, IntentsTypeOK, providerVars

LEMMA WebhookTyped ==
    ASSUME TypeOK, NEW w \in Worker, NEW h \in webhooks, AcceptWebhook(w, h)
    PROVE  TypeOK'
<1>1. h.intent \in Intent /\ h.event \in Events
  BY DEF TypeOK, Webhook
<1>2. CallOf(w, "webhook", h.intent, "mark", h.event) \in Call
  BY <1>1, CallOfTyped
<1>3. [CallOf(w, "webhook", h.intent, "mark", h.event) EXCEPT !.got = EventStatus(h.event)] \in Call
  BY <1>2 DEF Call, EventStatus, PaymentStatuses
<1>4. calls' \subseteq Call /\ crashes' \in 0..MaxCrashes /\ webhooks' \subseteq Webhook
  BY <1>3 DEF TypeOK, AcceptWebhook
<1> QED
  BY <1>4, UnchangedTyped DEF TypeOK, IntentsTypeOK, AcceptWebhook

LEMMA InitializeTyped ==
    ASSUME TypeOK, NEW c \in calls,
           AttachProviderOrder(c) \/ FailInitialization(c) \/ ReleaseUninitialized(c)
    PROVE  TypeOK'
<1>1. c \in Call /\ c.intent \in Intent
  BY DEF TypeOK, Call
<1>2. CASE AttachProviderOrder(c)
  <2>1. IntentsTypeOK' /\ payment' \in [Intent -> PaymentStatuses]
    BY <1>1, <1>2, SetStatusTyped, UnchangedTyped
       DEF AttachProviderOrder, TypeOK, Statuses, PaymentStatuses
  <2> QED
    BY <2>1, <1>1, <1>2, ReturnTyped, UnchangedTyped DEF AttachProviderOrder, TypeOK, IntentsTypeOK
<1>3. CASE FailInitialization(c)
  <2>1. IntentsTypeOK'
    BY <1>1, <1>3, SetStatusTyped, UnchangedTyped DEF FailInitialization, Statuses
  <2>2. [c EXCEPT !.pc = "finish"] \in Call
    BY <1>1 DEF Call
  <2> QED
    BY <2>1, <2>2, <1>3, AdvanceTyped, UnchangedTyped
       DEF FailInitialization, TypeOK, IntentsTypeOK, providerVars
<1>4. CASE ReleaseUninitialized(c)
  BY <1>1, <1>4, ReleaseIntentTyped, ReturnTyped
     DEF ReleaseUninitialized, TypeOK, IntentsTypeOK, providerVars
<1> QED
  BY <1>2, <1>3, <1>4

LEMMA FetchTyped ==
    ASSUME TypeOK, NEW c \in calls, Fetch(c) \/ FetchError(c)
    PROVE  TypeOK'
<1>1. c \in Call /\ payment[c.intent] \in PaymentStatuses
  BY DEF TypeOK, Call
<1>2. /\ [c EXCEPT !.pc = "finish"] \in Call
      /\ [c EXCEPT !.pc = "mark", !.got = payment[c.intent]] \in Call
  BY <1>1 DEF Call
<1>3. calls' \subseteq Call /\ crashes' \in 0..MaxCrashes
  BY <1>2, AdvanceTyped, ReturnTyped DEF Fetch, FetchError
<1> QED
  BY <1>3, UnchangedTyped DEF Fetch, FetchError, TypeOK, IntentsTypeOK, providerVars

LEMMA MarkTyped ==
    ASSUME TypeOK, NEW c \in calls, Mark(c)
    PROVE  TypeOK'
<1>1. c \in Call /\ c.intent \in Intent /\ c.seen \in Statuses
  BY DEF TypeOK, Call
<1>2. IntentsTypeOK'
  <2>1. CASE RecordCapture(c)
    BY <1>1, <2>1 DEF RecordCapture, TypeOK, IntentsTypeOK, Statuses
  <2>2. CASE RefundLateCapture(c)
    BY <1>1, <2>2, SetStatusTyped DEF RefundLateCapture, Statuses
  <2>3. CASE RecordUncaptured(c)
    BY <1>1, <2>3 DEF RecordUncaptured, TypeOK, IntentsTypeOK, Statuses
  <2>4. CASE RecordNothing(c)
    BY <2>4, UnchangedTyped DEF RecordNothing
  <2> QED
    BY <2>1, <2>2, <2>3, <2>4 DEF Mark
<1> DEFINE d == [c EXCEPT !.pc = "finish",
                          !.seen = status'[c.intent],
                          !.held = reservation'[c.intent] = "held",
                          !.dated = authorizedAt'[c.intent] # "unset"]
<1>3. d \in Call
  <2>1. status'[c.intent] \in Statuses
    BY <1>1, <1>2 DEF IntentsTypeOK
  <2> QED
    BY <1>1, <2>1 DEF Call
<1>4. Return(c) \/ Advance(c, d)
  BY DEF Mark
<1>5. calls' \subseteq Call /\ crashes' \in 0..MaxCrashes
  BY <1>3, <1>4, AdvanceTyped, ReturnTyped
<1>6. webhooks' \subseteq Webhook
  BY DEF Mark, TypeOK
<1> QED
  BY <1>2, <1>5, <1>6, UnchangedTyped DEF Mark, TypeOK, IntentsTypeOK

LEMMA FinishTyped ==
    ASSUME TypeOK, NEW c \in calls,
           FinishResume(c) \/ FinishRefuse(c) \/ ReleaseExpired(c) \/ RefundExpired(c) \/ SkipJob(c)
    PROVE  TypeOK'
<1>1. c.intent \in Intent
  BY DEF TypeOK, Call
<1>2. ResourcesTypeOK' /\ IntentsTypeOK'
  BY <1>1, ReleaseIntentTyped, QueueRefundTyped, UnchangedTyped
     DEF FinishResume, FinishRefuse, ReleaseExpired, RefundExpired, SkipJob
<1>3. Return(c) /\ UNCHANGED <<order, providerVars>>
  BY DEF FinishResume, FinishRefuse, ReleaseExpired, RefundExpired, SkipJob
<1> QED
  BY <1>2, <1>3, ReturnTyped DEF TypeOK, IntentsTypeOK, providerVars

LEMMA FinishAbandonTyped ==
    ASSUME TypeOK, NEW c \in calls, FinishAbandon(c)
    PROVE  TypeOK'
<1>1. c.intent \in Intent
  BY DEF TypeOK, Call
<1>2. ResourcesTypeOK' /\ IntentsTypeOK'
  <2>1. CASE UNCHANGED <<resourceVars, intentVars>>
    BY <2>1, UnchangedTyped
  <2>2. CASE /\ ReleaseReservationResources(c.intent)
             /\ status' = [status EXCEPT ![c.intent] = "failed"]
             /\ UNCHANGED <<expired, authorizedAt>>
    BY <1>1, <2>2, ReleaseTyped DEF TypeOK, IntentsTypeOK, Statuses
  <2>3. CASE /\ activeDedupeKey' = [activeDedupeKey EXCEPT ![c.intent] = FALSE]
             /\ UNCHANGED <<resourceVars, reservation>>
             /\ status' = [status EXCEPT ![c.intent] = "failed"]
             /\ UNCHANGED <<expired, authorizedAt>>
    BY <1>1, <2>3, UnchangedTyped DEF TypeOK, IntentsTypeOK, Statuses
  <2> QED
    BY <2>1, <2>2, <2>3 DEF FinishAbandon
<1> QED
  BY <1>2, ReturnTyped DEF FinishAbandon, TypeOK, IntentsTypeOK, providerVars

LEMMA ExtendTyped ==
    ASSUME TypeOK, NEW c \in calls, ExtendAuthorized(c)
    PROVE  TypeOK'
<1>1. c.intent \in Intent
  BY DEF TypeOK, Call
<1> QED
  BY <1>1, ReturnTyped, UnchangedTyped DEF ExtendAuthorized, TypeOK, IntentsTypeOK, providerVars

LEMMA CreateOrderTyped ==
    ASSUME TypeOK, NEW i \in Intent, CreateOrder(i)
    PROVE  TypeOK'
<1>1. ResourcesTypeOK'
  <2> USE DEF TypeOK, ResourcesTypeOK, CreateOrder
  <2>1. stock' \in [Product -> Int] /\ reservedStock' \in [Product -> Int]
    <3>1. /\ stock' = [p \in Product |-> stock[p] - Qty[i][p]]
          /\ reservedStock' = [p \in Product |-> reservedStock[p] - Qty[i][p]]
      BY DEF ConsumeReservedInventory
    <3>2. \A p \in Product : Qty[i][p] \in Int
      BY QtyTyped DEF Purchase
    <3> HIDE DEF CreateOrder
    <3> QED
      BY <3>1, <3>2
  <2>2. redemption' \in [Purchase -> RedemptionStatus] /\ reservedCount' \in Int /\ usedCount' \in Int
    BY SMT DEF ConsumeCoupon, couponVars, RedemptionStatus
  <2> QED
    BY <2>1, <2>2
<1> QED
  BY <1>1 DEF CreateOrder, TypeOK, Statuses, Reservations, Purchase, providerVars, callVars

LEMMA PlaceCodOrderTyped ==
    ASSUME TypeOK, NEW c \in Cod, PlaceCodOrder(c)
    PROVE  TypeOK'
<1>1. ResourcesTypeOK'
  <2> USE DEF TypeOK, ResourcesTypeOK, PlaceCodOrder
  <2>1. stock' \in [Product -> Int] /\ reservedStock' \in [Product -> Int]
    BY QtyTyped, SMT DEF SellAvailableInventory, Purchase
  <2>2. booked' \in Int
    BY SMT DEF ReserveSlot
  <2>3. redemption' \in [Purchase -> RedemptionStatus] /\ reservedCount' \in Int /\ usedCount' \in Int
    BY SMT DEF RedeemCoupon, couponVars, RedemptionStatus
  <2> QED
    BY <2>1, <2>2, <2>3
<1> QED
  BY <1>1, UnchangedTyped DEF PlaceCodOrder, TypeOK, IntentsTypeOK, Purchase, providerVars, callVars

LEMMA CancelOrderTyped ==
    ASSUME TypeOK, NEW c \in Purchase, CancelOrder(c)
    PROVE  TypeOK'
<1>1. ResourcesTypeOK'
  <2> USE DEF TypeOK, ResourcesTypeOK, CancelOrder
  <2>1. stock' \in [Product -> Int] /\ reservedStock' \in [Product -> Int]
    BY QtyTyped, SMT DEF RestoreOrderInventory
  <2>2. booked' \in Int
    BY SMT DEF ReleaseSlot
  <2> QED
    BY <2>1, <2>2 DEF couponVars
<1>2. IntentsTypeOK'
  BY SetStatusTyped, UnchangedTyped DEF CancelOrder, Statuses
<1> QED
  BY <1>1, <1>2 DEF CancelOrder, TypeOK, IntentsTypeOK, providerVars, callVars

LEMMA WorldTyped ==
    ASSUME TypeOK,
           \/ \E i \in Intent : RefundJob(i) \/ Expire(i) \/ AuthorizationLapses(i)
           \/ \E i \in Intent, s \in {"authorized", "captured", "failed"} : Pay(i, s)
           \/ \E c \in calls : Crash(c)
           \/ UNCHANGED vars
    PROVE  TypeOK'
<1>1. ASSUME NEW i \in Intent, RefundJob(i) PROVE TypeOK'
  <2>1. IntentsTypeOK'
    BY <1>1, SetStatusTyped DEF RefundJob, RefundStatuses, Statuses
  <2> QED
    BY <1>1, <2>1, UnchangedTyped DEF RefundJob, TypeOK, IntentsTypeOK, providerVars, callVars
<1>2. ASSUME NEW i \in Intent, Expire(i) \/ AuthorizationLapses(i) PROVE TypeOK'
  BY <1>2, UnchangedTyped DEF Expire, AuthorizationLapses, TypeOK, IntentsTypeOK, providerVars, callVars
<1>3. ASSUME NEW i \in Intent, NEW s \in {"authorized", "captured", "failed"}, Pay(i, s) PROVE TypeOK'
  <2>1. webhooks' \subseteq Webhook
    BY <1>3 DEF Pay, WebhooksOf, TypeOK, Webhook, Events
  <2> QED
    BY <1>3, <2>1, UnchangedTyped DEF Pay, TypeOK, IntentsTypeOK, PaymentStatuses, callVars
<1>4. ASSUME NEW c \in calls, Crash(c) PROVE TypeOK'
  <2>1. crashes' \in 0..MaxCrashes /\ calls' \subseteq Call /\ webhooks' \subseteq Webhook
    BY <1>4, CheckoutAssumption DEF Crash, TypeOK
  <2> QED
    BY <1>4, <2>1, UnchangedTyped DEF Crash, TypeOK, IntentsTypeOK
<1>5. ASSUME UNCHANGED vars PROVE TypeOK'
  BY <1>5, UnchangedTyped DEF vars, TypeOK, IntentsTypeOK, providerVars
<1> QED
  BY <1>1, <1>2, <1>3, <1>4, <1>5

\* In every behaviour, every document, counter, event and call in flight is one
\* the schemas and handlers of the payment, order and resource services know.
THEOREM TypeCorrect == Spec => []TypeOK
<1>1. Init => TypeOK
  BY ResourceAssumption, CheckoutAssumption
     DEF Init, TypeOK, ResourcesInit, ResourcesTypeOK, RedemptionStatus, Statuses, Reservations,
         PaymentStatuses
<1>2. ASSUME TypeOK, [Next]_vars PROVE TypeOK'
  <2>1. ASSUME NEW w \in Worker, NEW i \in Intent, Request(w, i) \/ Sweep(w, i) PROVE TypeOK'
    BY <1>2, <2>1, OpenTyped, StartsTyped DEF Request
  <2>2. ASSUME NEW w \in Worker, NEW h \in webhooks, AcceptWebhook(w, h) PROVE TypeOK'
    BY <1>2, <2>2, WebhookTyped
  <2>3. ASSUME NEW c \in calls, Handle(c) PROVE TypeOK'
    BY <1>2, <2>3, InitializeTyped, FetchTyped, MarkTyped, FinishTyped, FinishAbandonTyped, ExtendTyped
       DEF Handle
  <2>4. ASSUME NEW i \in Intent, CreateOrder(i) PROVE TypeOK'
    BY <1>2, <2>4, CreateOrderTyped
  <2>5. ASSUME NEW c \in Cod, PlaceCodOrder(c) PROVE TypeOK'
    BY <1>2, <2>5, PlaceCodOrderTyped
  <2>6. ASSUME NEW c \in Purchase, CancelOrder(c) PROVE TypeOK'
    BY <1>2, <2>6, CancelOrderTyped
  <2> QED
    BY <1>2, <2>1, <2>2, <2>3, <2>4, <2>5, <2>6, WorldTyped DEF Next
<1> QED
  BY <1>1, <1>2, PTL DEF Spec

-----------------------------------------------------------------------------
(* Sums over finite sets of purchases *)

LEMMA PurchasesFinite == IsFiniteSet(Purchase)
BY PurchaseAssumption, FS_Union DEF Purchase

LEMMA UnitsFinite ==
    ASSUME NEW S \in SUBSET Purchase, NEW p \in Product
    PROVE  /\ IsFiniteSet({u \in S \X (1..MAX_ITEM_QUANTITY) : u[2] <= Qty[u[1]][p]})
           /\ UnitsOf(S, p) \in Nat
<1> DEFINE U == {u \in S \X (1..MAX_ITEM_QUANTITY) : u[2] <= Qty[u[1]][p]}
<1>1. IsFiniteSet(S)
  BY PurchasesFinite, FS_Subset
<1>2. IsFiniteSet(1..MAX_ITEM_QUANTITY)
  <2>1. 1 \in Int /\ MAX_ITEM_QUANTITY \in Int
    BY DEF MAX_ITEM_QUANTITY
  <2> QED
    BY <2>1, FS_Interval, Zenon
<1>3. IsFiniteSet(S \X (1..MAX_ITEM_QUANTITY))
  BY <1>1, <1>2, FS_Product
<1>4. IsFiniteSet(U)
  BY <1>3, FS_Subset
<1> QED
  BY <1>4, FS_CardinalityType DEF UnitsOf

\* One purchase asks for Qty units.
LEMMA UnitsOfOne ==
    ASSUME NEW c \in Purchase, NEW p \in Product
    PROVE  UnitsOf({c}, p) = Qty[c][p]
<1> DEFINE q == Qty[c][p]
           U == {u \in {c} \X (1..MAX_ITEM_QUANTITY) : u[2] <= Qty[u[1]][p]}
           f == [k \in 1..q |-> <<c, k>>]
<1>1. q \in 0..5
  BY QtyTyped
<1>2. U = {<<c, k>> : k \in 1..q}
  BY <1>1 DEF MAX_ITEM_QUANTITY
<1>3. f \in [1..q -> U]
  BY <1>2
<1>4. f \in Bijection(1..q, U)
  <2>1. \A j, k \in 1..q : f[j] = f[k] => j = k
    OBVIOUS
  <2>2. \A u \in U : \E k \in 1..q : f[k] = u
    BY <1>2
  <2> QED
    BY <1>3, <2>1, <2>2 DEF Bijection, Injection, Surjection, IsInjective
<1>5. Cardinality(U) = q
  <2> HIDE DEF q, U, f
  <2>1. ExistsBijection(1..q, U)
    BY <1>4 DEF ExistsBijection
  <2> QED
    BY <1>1, <2>1, FS_CountingElements
<1> QED
  BY <1>5 DEF UnitsOf

\* Units add up: one purchase more asks for its quantity more.
LEMMA UnitsAdd ==
    ASSUME NEW S \in SUBSET Purchase, NEW c \in Purchase, c \notin S, NEW p \in Product
    PROVE  UnitsOf(S \union {c}, p) = UnitsOf(S, p) + Qty[c][p]
<1> DEFINE A == {u \in S \X (1..MAX_ITEM_QUANTITY) : u[2] <= Qty[u[1]][p]}
           B == {u \in {c} \X (1..MAX_ITEM_QUANTITY) : u[2] <= Qty[u[1]][p]}
           C == {u \in (S \union {c}) \X (1..MAX_ITEM_QUANTITY) : u[2] <= Qty[u[1]][p]}
<1>1. C = A \union B /\ A \intersect B = {}
  OBVIOUS
<1>2. IsFiniteSet(A) /\ IsFiniteSet(B) /\ Cardinality(A) \in Nat /\ Cardinality(B) \in Nat
  BY UnitsFinite, FS_CardinalityType
<1>3. Cardinality(C) = Cardinality(A) + Cardinality(B)
  <2> HIDE DEF A, B, C
  <2>1. Cardinality(C) = Cardinality(A) + Cardinality(B) - Cardinality({})
    BY <1>1, <1>2, FS_Union
  <2> QED
    BY <1>2, <2>1, FS_EmptySet
<1> QED
  BY <1>3, UnitsOfOne DEF UnitsOf

LEMMA UnitsRemove ==
    ASSUME NEW S \in SUBSET Purchase, NEW c \in S, NEW p \in Product
    PROVE  UnitsOf(S \ {c}, p) = UnitsOf(S, p) - Qty[c][p]
<1>1. UnitsOf((S \ {c}) \union {c}, p) = UnitsOf(S \ {c}, p) + Qty[c][p]
  BY UnitsAdd
<1>2. (S \ {c}) \union {c} = S
  OBVIOUS
<1>3. UnitsOf(S \ {c}, p) \in Int
  <2>1. S \ {c} \in SUBSET Purchase
    OBVIOUS
  <2>2. UnitsOf(S \ {c}, p) \in Nat
    BY <2>1, UnitsFinite
  <2> QED
    BY <2>2
<1>4. Qty[c][p] \in Int
  BY QtyTyped
<1>5. UnitsOf(S, p) = UnitsOf(S \ {c}, p) + Qty[c][p]
  BY <1>1, <1>2, Zenon
<1> QED
  BY <1>3, <1>4, <1>5

LEMMA CountAdd ==
    ASSUME NEW S \in SUBSET Purchase, NEW c
    PROVE  /\ Cardinality(S) \in Nat
           /\ c \notin S => Cardinality(S \union {c}) = Cardinality(S) + 1
           /\ c \in S => Cardinality(S \ {c}) = Cardinality(S) - 1 /\ Cardinality(S) > 0
<1>1. IsFiniteSet(S) /\ Cardinality(S) \in Nat
  BY PurchasesFinite, FS_Subset, FS_CardinalityType
<1>2. c \in S => Cardinality(S) # 0
  BY <1>1, FS_EmptySet
<1>3. c \notin S => Cardinality(S \union {c}) = Cardinality(S) + 1
  BY <1>1, FS_AddElement
<1>4. c \in S => Cardinality(S \ {c}) = Cardinality(S) - 1
  BY <1>1, FS_RemoveElement
<1> QED
  BY <1>1, <1>2, <1>3, <1>4

-----------------------------------------------------------------------------
(* The ledger steps *)

Ledgers == StockLedger /\ SlotLedger /\ CouponLedger

Reserved == {c \in Purchase : redemption[c] = "reserved"}
Consumed == {c \in Purchase : redemption[c] = "consumed"}
Redeemed == {c \in CouponUsers : order[c] # "none"}

LEMMA CouponLedgerParts ==
    CouponLedger <=>
        /\ reservedCount = Cardinality(Reserved)
        /\ usedCount = Cardinality(Consumed)
        /\ UsageLimit = 0 \/ usedCount + reservedCount <= UsageLimit
        /\ Reserved = Held \intersect CouponUsers
        /\ Consumed = Redeemed
        /\ \A c, d \in Reserved \union Consumed : c # d => UserOf[c] # UserOf[d]
BY DEF CouponLedger, Reserved, Consumed, Redeemed

LEMMA SetsTyped ==
    TypeOK => Held \in SUBSET Purchase /\ Placed \in SUBSET Purchase
              /\ Reserved \in SUBSET Purchase /\ Consumed \in SUBSET Purchase
BY DEF Held, Placed, Reserved, Consumed, Purchase

LEMMA StockTyped ==
    ASSUME TypeOK, NEW p \in Product
    PROVE  /\ stock[p] \in Int /\ reservedStock[p] \in Int /\ InitialStock[p] \in Int
           /\ UnitsOf(Held, p) \in Int /\ UnitsOf(Placed, p) \in Int
<1>1. UnitsOf(Held, p) \in Nat /\ UnitsOf(Placed, p) \in Nat
  BY SetsTyped, UnitsFinite
<1> QED
  BY <1>1, ResourceAssumption DEF TypeOK, ResourcesTypeOK

LEMMA SameStep ==
    ASSUME TypeOK, Ledgers, UNCHANGED resourceVars, UNCHANGED order, Held' = Held
    PROVE  Ledgers'
<1>1. Placed' = Placed
  BY DEF Placed
<1>2. StockLedger' /\ SlotLedger'
  BY <1>1 DEF Ledgers, StockLedger, SlotLedger, resourceVars
<1>3. CouponLedger'
  BY DEF Ledgers, CouponLedger, resourceVars
<1> QED
  BY <1>2, <1>3 DEF Ledgers

\* A session takes its hold.
LEMMA HoldStep ==
    ASSUME TypeOK, Ledgers, NEW i \in Intent, i \notin Held, order[i] = "none",
           Held' = Held \union {i}, UNCHANGED order, HoldResources(i)
    PROVE  Ledgers'
<1>1. i \in Purchase /\ Placed' = Placed
  BY DEF Purchase, Placed
<1>2. StockLedger'
  <2> SUFFICES ASSUME NEW p \in Product
               PROVE  /\ reservedStock'[p] = UnitsOf(Held', p)
                      /\ stock'[p] + UnitsOf(Placed', p) = InitialStock[p]
                      /\ reservedStock'[p] <= stock'[p]
    BY DEF StockLedger
  <2>1. UnitsOf(Held', p) = UnitsOf(Held, p) + Qty[i][p]
    BY <1>1, SetsTyped, UnitsAdd
  <2>2. /\ reservedStock[p] = UnitsOf(Held, p)
        /\ stock[p] + UnitsOf(Placed, p) = InitialStock[p]
        /\ reservedStock[p] <= stock[p]
    BY DEF Ledgers, StockLedger
  <2>3. Available(p) >= Qty[i][p] /\ reservedStock'[p] = reservedStock[p] + Qty[i][p] /\ stock'[p] = stock[p]
    BY DEF HoldResources, ReserveInventory
  <2>4. Qty[i][p] \in 0..5
    BY <1>1, QtyTyped
  <2> QED
    BY <1>1, <2>1, <2>2, <2>3, <2>4, StockTyped DEF Available
<1>3. SlotLedger'
  <2>1. Cardinality(Held') = Cardinality(Held) + 1
    BY SetsTyped, CountAdd
  <2>2. Cardinality(Held) \in Nat /\ Cardinality(Placed) \in Nat
    BY SetsTyped, CountAdd
  <2> QED
    BY <1>1, <2>1, <2>2, ResourceAssumption
       DEF HoldResources, ReserveSlot, Ledgers, SlotLedger, TypeOK, ResourcesTypeOK
<1>4. CouponLedger'
  <2>1. Redeemed' = Redeemed
    BY DEF Redeemed
  <2>2. CASE i \notin CouponUsers
    <3>1. UNCHANGED couponVars
      BY <2>2 DEF HoldResources, ClaimCoupon
    <3>2. Reserved' = Reserved /\ Consumed' = Consumed /\ Held' \intersect CouponUsers = Held \intersect CouponUsers
      BY <2>2, <3>1 DEF Reserved, Consumed, couponVars
    <3> QED
      BY <2>1, <3>1, <3>2, CouponLedgerParts DEF Ledgers, CouponLedger, Reserved, Consumed, Redeemed, couponVars
  <2>3. CASE i \in CouponUsers
    <3>1. /\ UsageLimit = 0 \/ usedCount + reservedCount < UsageLimit
          /\ \A d \in Purchase : ActiveRedemption(d) => UserOf[d] # UserOf[i]
          /\ redemption' = [redemption EXCEPT ![i] = "reserved"]
          /\ reservedCount' = reservedCount + 1
          /\ usedCount' = usedCount
      BY <2>3 DEF HoldResources, ClaimCoupon
    <3>2. i \notin Reserved /\ i \notin Consumed
      BY CouponLedgerParts DEF Ledgers, Redeemed
    <3>3. Reserved' = Reserved \union {i} /\ Consumed' = Consumed
      BY <1>1, <3>1, <3>2 DEF Reserved, Consumed, TypeOK, ResourcesTypeOK
    <3>4. Cardinality(Reserved') = Cardinality(Reserved) + 1
      BY <3>2, <3>3, SetsTyped, CountAdd
    <3>5. reservedCount' = Cardinality(Reserved') /\ usedCount' = Cardinality(Consumed')
      BY <3>1, <3>3, <3>4, CouponLedgerParts DEF Ledgers
    <3>6. UsageLimit = 0 \/ usedCount' + reservedCount' <= UsageLimit
      BY <3>1, ResourceAssumption DEF TypeOK, ResourcesTypeOK
    <3>7. Reserved' = Held' \intersect CouponUsers /\ Consumed' = Redeemed'
      BY <2>1, <2>3, <3>3, CouponLedgerParts DEF Ledgers
    <3>8. \A c, d \in Reserved' \union Consumed' : c # d => UserOf[c] # UserOf[d]
      BY <1>1, <3>1, <3>3, CouponLedgerParts DEF Ledgers, ActiveRedemption, Reserved, Consumed
    <3> QED
      BY <3>5, <3>6, <3>7, <3>8 DEF CouponLedger, Reserved, Consumed, Redeemed
  <2> QED
    BY <2>2, <2>3
<1> QED
  BY <1>2, <1>3, <1>4 DEF Ledgers

\* A hold is given back.
LEMMA ReleaseStep ==
    ASSUME TypeOK, Ledgers, NEW i \in Held, Held' = Held \ {i}, UNCHANGED order,
           ReleaseReservedInventory(i), ReleaseSlot, ReleaseCoupon(i)
    PROVE  Ledgers'
<1>1. i \in Purchase /\ Placed' = Placed
  BY DEF Purchase, Placed, Held
<1>2. StockLedger'
  <2> SUFFICES ASSUME NEW p \in Product
               PROVE  /\ reservedStock'[p] = UnitsOf(Held', p)
                      /\ stock'[p] + UnitsOf(Placed', p) = InitialStock[p]
                      /\ reservedStock'[p] <= stock'[p]
    BY DEF StockLedger
  <2>1. UnitsOf(Held', p) = UnitsOf(Held, p) - Qty[i][p]
    BY SetsTyped, UnitsRemove
  <2>2. /\ reservedStock[p] = UnitsOf(Held, p)
        /\ stock[p] + UnitsOf(Placed, p) = InitialStock[p]
        /\ reservedStock[p] <= stock[p]
    BY DEF Ledgers, StockLedger
  <2>3. reservedStock'[p] = reservedStock[p] - Qty[i][p] /\ stock'[p] = stock[p]
    BY DEF ReleaseReservedInventory
  <2>4. Qty[i][p] \in 0..5
    BY <1>1, QtyTyped
  <2> QED
    BY <1>1, <2>1, <2>2, <2>3, <2>4, StockTyped
<1>3. SlotLedger'
  <2>1. Cardinality(Held') = Cardinality(Held) - 1 /\ Cardinality(Held) > 0
    BY SetsTyped, CountAdd
  <2>2. Cardinality(Held) \in Nat /\ Cardinality(Placed) \in Nat
    BY SetsTyped, CountAdd
  <2> QED
    BY <1>1, <2>1, <2>2, ResourceAssumption
       DEF ReleaseSlot, Ledgers, SlotLedger, TypeOK, ResourcesTypeOK
<1>4. CouponLedger'
  <2>1. Redeemed' = Redeemed
    BY DEF Redeemed
  <2>2. CASE i \notin CouponUsers
    <3>1. UNCHANGED couponVars
      BY <2>2 DEF ReleaseCoupon
    <3>2. Reserved' = Reserved /\ Consumed' = Consumed /\ Held' \intersect CouponUsers = Held \intersect CouponUsers
      BY <2>2, <3>1 DEF Reserved, Consumed, couponVars
    <3> QED
      BY <2>1, <3>1, <3>2, CouponLedgerParts DEF Ledgers, CouponLedger, Reserved, Consumed, Redeemed, couponVars
  <2>3. CASE i \in CouponUsers
    <3>1. i \in Reserved
      BY <2>3, CouponLedgerParts DEF Ledgers
    <3>2. /\ redemption' = [redemption EXCEPT ![i] = "released"]
          /\ reservedCount' = reservedCount - 1
          /\ usedCount' = usedCount
      BY <2>3, <3>1 DEF ReleaseCoupon, Reserved
    <3>3. Reserved' = Reserved \ {i} /\ Consumed' = Consumed
      BY <1>1, <3>1, <3>2 DEF Reserved, Consumed, TypeOK, ResourcesTypeOK
    <3>4. Cardinality(Reserved') = Cardinality(Reserved) - 1
      BY <3>1, <3>3, SetsTyped, CountAdd
    <3>5. reservedCount' = Cardinality(Reserved') /\ usedCount' = Cardinality(Consumed')
      BY <3>2, <3>3, <3>4, CouponLedgerParts DEF Ledgers
    <3>6. UsageLimit = 0 \/ usedCount' + reservedCount' <= UsageLimit
      BY <3>2, ResourceAssumption, CouponLedgerParts DEF Ledgers, TypeOK, ResourcesTypeOK
    <3>7. Reserved' = Held' \intersect CouponUsers /\ Consumed' = Redeemed'
      BY <2>1, <2>3, <3>3, CouponLedgerParts DEF Ledgers
    <3>8. \A c, d \in Reserved' \union Consumed' : c # d => UserOf[c] # UserOf[d]
      BY <3>3, CouponLedgerParts DEF Ledgers
    <3> QED
      BY <3>5, <3>6, <3>7, <3>8 DEF CouponLedger, Reserved, Consumed, Redeemed
  <2> QED
    BY <2>2, <2>3
<1> QED
  BY <1>2, <1>3, <1>4 DEF Ledgers

\* A hold becomes an order: what was held leaves the shelf.
LEMMA ConsumeStep ==
    ASSUME TypeOK, Ledgers, NEW i \in Held, order[i] = "none", Held' = Held \ {i},
           order' = [order EXCEPT ![i] = "placed"],
           ConsumeReservedInventory(i), UNCHANGED booked, ConsumeCoupon(i)
    PROVE  Ledgers'
<1>1. i \in Purchase
  BY DEF Purchase, Held
<1>2. i \notin Placed /\ Placed' = Placed \union {i}
  BY <1>1 DEF Placed, TypeOK
<1>3. StockLedger'
  <2> SUFFICES ASSUME NEW p \in Product
               PROVE  /\ reservedStock'[p] = UnitsOf(Held', p)
                      /\ stock'[p] + UnitsOf(Placed', p) = InitialStock[p]
                      /\ reservedStock'[p] <= stock'[p]
    BY DEF StockLedger
  <2>1. UnitsOf(Held', p) = UnitsOf(Held, p) - Qty[i][p]
    BY SetsTyped, UnitsRemove
  <2>2. UnitsOf(Placed', p) = UnitsOf(Placed, p) + Qty[i][p]
    BY <1>1, <1>2, SetsTyped, UnitsAdd
  <2>3. /\ reservedStock[p] = UnitsOf(Held, p)
        /\ stock[p] + UnitsOf(Placed, p) = InitialStock[p]
        /\ reservedStock[p] <= stock[p]
    BY DEF Ledgers, StockLedger
  <2>4. reservedStock'[p] = reservedStock[p] - Qty[i][p] /\ stock'[p] = stock[p] - Qty[i][p]
    BY DEF ConsumeReservedInventory
  <2>5. Qty[i][p] \in 0..5
    BY <1>1, QtyTyped
  <2> QED
    BY <2>1, <2>2, <2>3, <2>4, <2>5, StockTyped
<1>4. SlotLedger'
  <2>1. /\ Cardinality(Held') = Cardinality(Held) - 1
        /\ Cardinality(Placed') = Cardinality(Placed) + 1
    BY <1>2, SetsTyped, CountAdd
  <2>2. Cardinality(Held) \in Nat /\ Cardinality(Placed) \in Nat
    BY SetsTyped, CountAdd
  <2> QED
    BY <2>1, <2>2 DEF Ledgers, SlotLedger
<1>5. CouponLedger'
  <2>1. CASE i \notin CouponUsers
    <3>1. UNCHANGED couponVars
      BY <2>1 DEF ConsumeCoupon
    <3>2. /\ Reserved' = Reserved /\ Consumed' = Consumed /\ Redeemed' = Redeemed
          /\ Held' \intersect CouponUsers = Held \intersect CouponUsers
      BY <2>1, <3>1, ResourceAssumption DEF Reserved, Consumed, Redeemed, couponVars, TypeOK
    <3> QED
      BY <3>1, <3>2, CouponLedgerParts DEF Ledgers, CouponLedger, Reserved, Consumed, Redeemed, couponVars
  <2>2. CASE i \in CouponUsers
    <3>1. /\ redemption[i] = "reserved"
          /\ redemption' = [redemption EXCEPT ![i] = "consumed"]
          /\ reservedCount' = reservedCount - 1
          /\ usedCount' = usedCount + 1
      BY <2>2 DEF ConsumeCoupon
    <3>2. i \in Reserved /\ i \notin Consumed
      BY <1>1, <3>1 DEF Reserved, Consumed
    <3>3. Reserved' = Reserved \ {i} /\ Consumed' = Consumed \union {i}
      BY <1>1, <3>1 DEF Reserved, Consumed, TypeOK, ResourcesTypeOK
    <3>4. /\ Cardinality(Reserved') = Cardinality(Reserved) - 1
          /\ Cardinality(Consumed') = Cardinality(Consumed) + 1
      BY <3>2, <3>3, SetsTyped, CountAdd
    <3>5. reservedCount' = Cardinality(Reserved') /\ usedCount' = Cardinality(Consumed')
      BY <3>1, <3>4, CouponLedgerParts DEF Ledgers
    <3>6. UsageLimit = 0 \/ usedCount' + reservedCount' <= UsageLimit
      BY <3>1, CouponLedgerParts DEF Ledgers, TypeOK, ResourcesTypeOK
    <3>7. Redeemed' = Redeemed \union {i}
      BY <2>2, <1>1, ResourceAssumption DEF Redeemed, TypeOK
    <3>8. Reserved' = Held' \intersect CouponUsers /\ Consumed' = Redeemed'
      BY <2>2, <3>3, <3>7, CouponLedgerParts DEF Ledgers
    <3>9. \A c, d \in Reserved' \union Consumed' : c # d => UserOf[c] # UserOf[d]
      BY <3>2, <3>3, CouponLedgerParts DEF Ledgers
    <3> QED
      BY <3>5, <3>6, <3>8, <3>9 DEF CouponLedger, Reserved, Consumed, Redeemed
  <2> QED
    BY <2>1, <2>2
<1> QED
  BY <1>3, <1>4, <1>5 DEF Ledgers

\* A cash order is sold at once.
LEMMA SellStep ==
    ASSUME TypeOK, Ledgers, NEW c \in Purchase, order[c] = "none", c \notin Held, Held' = Held,
           order' = [order EXCEPT ![c] = "placed"],
           SellAvailableInventory(c), ReserveSlot, RedeemCoupon(c)
    PROVE  Ledgers'
<1>1. c \notin Placed /\ Placed' = Placed \union {c}
  BY DEF Placed, TypeOK
<1>2. StockLedger'
  <2> SUFFICES ASSUME NEW p \in Product
               PROVE  /\ reservedStock'[p] = UnitsOf(Held', p)
                      /\ stock'[p] + UnitsOf(Placed', p) = InitialStock[p]
                      /\ reservedStock'[p] <= stock'[p]
    BY DEF StockLedger
  <2>1. UnitsOf(Placed', p) = UnitsOf(Placed, p) + Qty[c][p]
    BY <1>1, SetsTyped, UnitsAdd
  <2>2. /\ reservedStock[p] = UnitsOf(Held, p)
        /\ stock[p] + UnitsOf(Placed, p) = InitialStock[p]
        /\ reservedStock[p] <= stock[p]
    BY DEF Ledgers, StockLedger
  <2>3. Available(p) >= Qty[c][p] /\ stock'[p] = stock[p] - Qty[c][p] /\ reservedStock'[p] = reservedStock[p]
    BY DEF SellAvailableInventory
  <2>4. Qty[c][p] \in 0..5
    BY QtyTyped
  <2> QED
    BY <2>1, <2>2, <2>3, <2>4, StockTyped DEF Available
<1>3. SlotLedger'
  <2>1. Cardinality(Placed') = Cardinality(Placed) + 1
    BY <1>1, SetsTyped, CountAdd
  <2>2. Cardinality(Held) \in Nat /\ Cardinality(Placed) \in Nat
    BY SetsTyped, CountAdd
  <2> QED
    BY <2>1, <2>2, ResourceAssumption
       DEF ReserveSlot, Ledgers, SlotLedger, TypeOK, ResourcesTypeOK
<1>4. CouponLedger'
  <2>1. CASE c \notin CouponUsers
    <3>1. UNCHANGED couponVars
      BY <2>1 DEF RedeemCoupon
    <3>2. Reserved' = Reserved /\ Consumed' = Consumed /\ Redeemed' = Redeemed
      BY <2>1, <3>1, ResourceAssumption DEF Reserved, Consumed, Redeemed, couponVars, TypeOK
    <3> QED
      BY <3>1, <3>2, CouponLedgerParts DEF Ledgers, CouponLedger, Reserved, Consumed, Redeemed, couponVars
  <2>2. CASE c \in CouponUsers
    <3>1. /\ UsageLimit = 0 \/ usedCount + reservedCount < UsageLimit
          /\ \A d \in Purchase : ActiveRedemption(d) => UserOf[d] # UserOf[c]
          /\ redemption' = [redemption EXCEPT ![c] = "consumed"]
          /\ usedCount' = usedCount + 1
          /\ reservedCount' = reservedCount
      BY <2>2 DEF RedeemCoupon
    <3>2. c \notin Reserved /\ c \notin Consumed
      BY CouponLedgerParts DEF Ledgers, Redeemed
    <3>3. Reserved' = Reserved /\ Consumed' = Consumed \union {c}
      BY <3>1, <3>2 DEF Reserved, Consumed, TypeOK, ResourcesTypeOK
    <3>4. Cardinality(Consumed') = Cardinality(Consumed) + 1
      BY <3>2, <3>3, SetsTyped, CountAdd
    <3>5. reservedCount' = Cardinality(Reserved') /\ usedCount' = Cardinality(Consumed')
      BY <3>1, <3>3, <3>4, CouponLedgerParts DEF Ledgers
    <3>6. UsageLimit = 0 \/ usedCount' + reservedCount' <= UsageLimit
      BY <3>1, ResourceAssumption DEF TypeOK, ResourcesTypeOK
    <3>7. Redeemed' = Redeemed \union {c}
      BY <2>2, ResourceAssumption DEF Redeemed, TypeOK
    <3>8. Reserved' = Held' \intersect CouponUsers /\ Consumed' = Redeemed'
      BY <3>3, <3>7, CouponLedgerParts DEF Ledgers
    <3>9. \A d, e \in Reserved' \union Consumed' : d # e => UserOf[d] # UserOf[e]
      BY <3>1, <3>3, CouponLedgerParts DEF Ledgers, ActiveRedemption, Reserved, Consumed
    <3> QED
      BY <3>5, <3>6, <3>8, <3>9 DEF CouponLedger, Reserved, Consumed, Redeemed
  <2> QED
    BY <2>1, <2>2
<1> QED
  BY <1>2, <1>3, <1>4 DEF Ledgers

\* A live order is cancelled: units and booking come back, the coupon stays used.
LEMMA ReturnStep ==
    ASSUME TypeOK, Ledgers, NEW c \in Purchase, order[c] = "placed", Held' = Held,
           order' = [order EXCEPT ![c] = "cancelled"],
           RestoreOrderInventory(c), ReleaseSlot, UNCHANGED couponVars
    PROVE  Ledgers'
<1>1. c \in Placed /\ Placed' = Placed \ {c}
  BY DEF Placed, TypeOK
<1>2. StockLedger'
  <2> SUFFICES ASSUME NEW p \in Product
               PROVE  /\ reservedStock'[p] = UnitsOf(Held', p)
                      /\ stock'[p] + UnitsOf(Placed', p) = InitialStock[p]
                      /\ reservedStock'[p] <= stock'[p]
    BY DEF StockLedger
  <2>1. UnitsOf(Placed', p) = UnitsOf(Placed, p) - Qty[c][p]
    BY <1>1, SetsTyped, UnitsRemove
  <2>2. /\ reservedStock[p] = UnitsOf(Held, p)
        /\ stock[p] + UnitsOf(Placed, p) = InitialStock[p]
        /\ reservedStock[p] <= stock[p]
    BY DEF Ledgers, StockLedger
  <2>3. stock'[p] = stock[p] + Qty[c][p] /\ reservedStock'[p] = reservedStock[p]
    BY DEF RestoreOrderInventory
  <2>4. Qty[c][p] \in 0..5
    BY QtyTyped
  <2> QED
    BY <2>1, <2>2, <2>3, <2>4, StockTyped
<1>3. SlotLedger'
  <2>1. Cardinality(Placed') = Cardinality(Placed) - 1 /\ Cardinality(Placed) > 0
    BY <1>1, SetsTyped, CountAdd
  <2>2. Cardinality(Held) \in Nat /\ Cardinality(Placed) \in Nat
    BY SetsTyped, CountAdd
  <2> QED
    BY <2>1, <2>2, ResourceAssumption
       DEF ReleaseSlot, Ledgers, SlotLedger, TypeOK, ResourcesTypeOK
<1>4. CouponLedger'
  <2>1. Redeemed' = Redeemed
    BY ResourceAssumption DEF Redeemed, TypeOK
  <2>2. Reserved' = Reserved /\ Consumed' = Consumed
    BY DEF Reserved, Consumed, couponVars
  <2> QED
    BY <2>1, <2>2, CouponLedgerParts DEF Ledgers, CouponLedger, Reserved, Consumed, Redeemed, couponVars
<1> QED
  BY <1>2, <1>3, <1>4 DEF Ledgers

-----------------------------------------------------------------------------
(* The inductive invariant.  The ledgers alone are not inductive: a session *)
(* must not be held and ordered at once, a session is opened only once, and *)
(* a call in flight must not write "none" back into the document it read.   *)

OrdersConsume == \A i \in Intent : order[i] # "none" => reservation[i] = "consumed"

FreshIntents == \A i \in Intent : status[i] = "none" => reservation[i] = "none"

CallsRemember == \A c \in calls :
    IF c.op = "webhook"
    THEN c.pc = "mark" /\ c.got \in {"authorized", "captured"}
    ELSE c.seen # "none" /\ status[c.intent] # "none"

Documents == Ledgers /\ OrdersConsume /\ FreshIntents

LedgerInv == TypeOK /\ Documents /\ CallsRemember

\* No document that exists disappears.
DocumentsStay == \A i \in Intent : status[i] # "none" => status'[i] # "none"

LEMMA CallsStay ==
    ASSUME CallsRemember, TypeOK, DocumentsStay, calls' \subseteq calls
    PROVE  CallsRemember'
BY DEF CallsRemember, DocumentsStay, TypeOK, Call

LEMMA HeldIsOpen ==
    ASSUME Documents, TypeOK, NEW i \in Held
    PROVE  i \in Intent /\ order[i] = "none" /\ status[i] # "none"
BY DEF Documents, OrdersConsume, FreshIntents, Held, TypeOK, Purchase

LEMMA IntentSameStep ==
    ASSUME TypeOK, Documents, UNCHANGED <<resourceVars, order, reservation>>, DocumentsStay
    PROVE  Documents'
<1>1. Held' = Held
  BY DEF Held
<1>2. Ledgers'
  BY <1>1, SameStep DEF Documents
<1>3. OrdersConsume'
  BY DEF Documents, OrdersConsume
<1>4. FreshIntents'
  BY DEF Documents, FreshIntents, DocumentsStay
<1> QED
  BY <1>2, <1>3, <1>4 DEF Documents

LEMMA IntentReleaseStep ==
    ASSUME TypeOK, Documents, NEW i \in Intent, reservation[i] = "held",
           ReleaseReservationResources(i), UNCHANGED order, DocumentsStay
    PROVE  Documents'
<1>1. i \in Held /\ Held' = Held \ {i}
  BY DEF Held, ReleaseReservationResources, TypeOK
<1>2. Ledgers'
  BY <1>1, ReleaseStep DEF Documents, ReleaseReservationResources
<1>3. OrdersConsume'
  BY <1>1, HeldIsOpen DEF Documents, OrdersConsume, ReleaseReservationResources, TypeOK
<1>4. FreshIntents'
  BY <1>1, HeldIsOpen DEF Documents, FreshIntents, DocumentsStay, ReleaseReservationResources, TypeOK
<1> QED
  BY <1>2, <1>3, <1>4 DEF Documents

LEMMA ReleaseIntentStep ==
    ASSUME TypeOK, Documents, NEW i \in Intent, ReleasePaymentIntentReservation(i), UNCHANGED order
    PROVE  Documents' /\ DocumentsStay
<1>1. UNCHANGED status
  BY DEF ReleasePaymentIntentReservation, intentVars
<1>2. DocumentsStay
  BY <1>1 DEF DocumentsStay
<1>3. CASE reservation[i] = "held" /\ ReleaseReservationResources(i)
  BY <1>2, <1>3, IntentReleaseStep
<1>4. CASE UNCHANGED <<resourceVars, intentVars>>
  BY <1>2, <1>4, IntentSameStep DEF intentVars
<1> QED
  BY <1>2, <1>3, <1>4 DEF ReleasePaymentIntentReservation

LEMMA QueueRefundStep ==
    ASSUME TypeOK, Documents, NEW i \in Intent, QueueRefundAndRelease(i), UNCHANGED order
    PROVE  Documents' /\ DocumentsStay
<1>1. DocumentsStay
  BY DEF QueueRefundAndRelease, QueuedStatuses, RefundableStatuses, intentVars, DocumentsStay, TypeOK
<1>2. CASE reservation[i] = "held" /\ ReleaseReservationResources(i)
  BY <1>1, <1>2, IntentReleaseStep
<1>3. CASE UNCHANGED <<resourceVars, reservation>>
  BY <1>1, <1>3, IntentSameStep
<1>4. status[i] \in RefundableStatuses
         => (reservation[i] = "held" /\ ReleaseReservationResources(i))
            \/ UNCHANGED <<resourceVars, reservation>>
  BY DEF QueueRefundAndRelease
<1>5. status[i] \notin RefundableStatuses => UNCHANGED <<resourceVars, reservation>>
  BY DEF QueueRefundAndRelease, intentVars
<1> QED
  BY <1>2, <1>3, <1>4, <1>5

LEMMA SetStatusStep ==
    ASSUME TypeOK, Documents, NEW i \in Intent, NEW s \in Statuses \ {"none"}, SetStatus(i, s),
           UNCHANGED <<resourceVars, order>>
    PROVE  Documents' /\ DocumentsStay
<1>1. DocumentsStay /\ UNCHANGED reservation
  BY DEF SetStatus, DocumentsStay, TypeOK
<1> QED
  BY <1>1, IntentSameStep

-----------------------------------------------------------------------------
(* One lemma per kind of action *)

LEMMA OpenKeeps ==
    ASSUME LedgerInv, NEW w \in Worker, NEW i \in Intent, Open(w, i)
    PROVE  Documents' /\ CallsRemember'
<1> USE DEF LedgerInv
<1>1. reservation[i] = "none" /\ order[i] = "none"
  BY DEF Open, Documents, FreshIntents, OrdersConsume, TypeOK, Purchase
<1>2. i \notin Held /\ Held' = Held \union {i}
  BY <1>1 DEF Held, Open, TypeOK
<1>3. Ledgers'
  BY <1>1, <1>2, HoldStep DEF Documents, Open
<1>4. OrdersConsume' /\ FreshIntents' /\ DocumentsStay
  BY <1>1 DEF Documents, OrdersConsume, FreshIntents, DocumentsStay, Open, TypeOK
<1>5. CallsRemember'
  <2> DEFINE d == [CallOf(w, "initialize", i, "fetch", "none") EXCEPT !.seen = "initializing", !.held = TRUE]
  <2>1. d.op = "initialize" /\ d.seen = "initializing" /\ d.intent = i
    BY DEF CallOf
  <2>2. status'[i] # "none"
    BY DEF Open, TypeOK
  <2>3. calls' = calls \union {d}
    BY DEF Open
  <2> HIDE DEF d
  <2> QED
    BY <2>1, <2>2, <2>3, <1>4 DEF CallsRemember, DocumentsStay, TypeOK, Call
<1> QED
  BY <1>3, <1>4, <1>5 DEF Documents

LEMMA StartsKeep ==
    ASSUME LedgerInv, NEW w \in Worker, NEW i \in Intent,
           Resume(w, i) \/ Verify(w, i) \/ Reconcile(w, i) \/ Abandon(w, i)
             \/ Refuse(w, i) \/ Sweep(w, i)
    PROVE  Documents' /\ CallsRemember'
<1> USE DEF LedgerInv
<1>1. UNCHANGED <<resourceVars, intentVars, order>> /\ DocumentsStay
  BY DEF Resume, Verify, Reconcile, Abandon, Refuse, Sweep, intentVars, DocumentsStay
<1>2. Documents'
  BY <1>1, IntentSameStep DEF intentVars
<1>3. status[i] # "none"
  BY HeldIsOpen DEF Resume, Verify, Reconcile, Abandon, Refuse, Sweep, Held
<1>4. PICK op \in {"initialize", "confirm", "abandon", "resume", "sweep", "refuse"}, pc \in {"fetch", "finish"} :
        Start(w, op, i, pc)
  BY DEF Resume, Verify, Reconcile, Abandon, Refuse, Sweep
<1> DEFINE d == CallOf(w, op, i, pc, "none")
<1>5. calls' = calls \union {d}
  BY <1>4 DEF Start
<1>6. d.op # "webhook" /\ d.seen # "none" /\ d.intent = i
  BY <1>3 DEF CallOf
<1>7. CallsRemember'
  <2> HIDE DEF d
  <2> QED
    BY <1>1, <1>3, <1>5, <1>6 DEF CallsRemember, intentVars, DocumentsStay, TypeOK, Call
<1> QED
  BY <1>2, <1>7

LEMMA WebhookKeeps ==
    ASSUME LedgerInv, NEW w \in Worker, NEW h \in webhooks, AcceptWebhook(w, h)
    PROVE  Documents' /\ CallsRemember'
<1> USE DEF LedgerInv
<1>1. UNCHANGED <<resourceVars, intentVars, order>> /\ DocumentsStay
  BY DEF AcceptWebhook, intentVars, DocumentsStay
<1>2. Documents'
  BY <1>1, IntentSameStep DEF intentVars
<1> DEFINE d == [CallOf(w, "webhook", h.intent, "mark", h.event) EXCEPT !.got = EventStatus(h.event)]
<1>3. d.op = "webhook" /\ d.pc = "mark" /\ d.got \in {"authorized", "captured"}
  BY DEF CallOf, EventStatus
<1>4. calls' \subseteq calls \union {d}
  BY DEF AcceptWebhook
<1>5. CallsRemember'
  <2> HIDE DEF d
  <2> QED
    BY <1>1, <1>3, <1>4 DEF CallsRemember, intentVars
<1> QED
  BY <1>2, <1>5

LEMMA InitializeKeeps ==
    ASSUME LedgerInv, NEW c \in calls,
           AttachProviderOrder(c) \/ FailInitialization(c) \/ ReleaseUninitialized(c)
    PROVE  Documents' /\ CallsRemember'
<1> USE DEF LedgerInv
<1>1. c.intent \in Intent
  BY DEF TypeOK, Call
<1>2. Documents' /\ DocumentsStay
  <2>1. CASE AttachProviderOrder(c) \/ FailInitialization(c)
    <3>1. UNCHANGED <<resourceVars, order, reservation>> /\ DocumentsStay
      BY <1>1, <2>1 DEF AttachProviderOrder, FailInitialization, SetStatus, intentVars, DocumentsStay, TypeOK
    <3> QED
      BY <3>1, IntentSameStep
  <2>2. CASE ReleaseUninitialized(c)
    BY <1>1, <2>2, ReleaseIntentStep DEF ReleaseUninitialized
  <2> QED
    BY <2>1, <2>2
<1>3. CASE FailInitialization(c)
  <2> DEFINE d == [c EXCEPT !.pc = "finish"]
  <2>1. c.op = "initialize" /\ d.op = c.op /\ d.seen = c.seen /\ d.intent = c.intent
    BY <1>3 DEF FailInitialization, TypeOK, Call
  <2>2. calls' \subseteq calls \union {d}
    BY <1>3 DEF FailInitialization, Advance
  <2> HIDE DEF d
  <2> QED
    BY <1>1, <1>2, <2>1, <2>2 DEF CallsRemember, DocumentsStay, TypeOK, Call
<1>4. CASE AttachProviderOrder(c) \/ ReleaseUninitialized(c)
  BY <1>2, <1>4, CallsStay DEF AttachProviderOrder, ReleaseUninitialized, Return
<1> QED
  BY <1>2, <1>3, <1>4

LEMMA FetchKeeps ==
    ASSUME LedgerInv, NEW c \in calls, Fetch(c) \/ FetchError(c)
    PROVE  Documents' /\ CallsRemember'
<1> USE DEF LedgerInv
<1>1. UNCHANGED <<resourceVars, intentVars, order>> /\ DocumentsStay
  BY DEF Fetch, FetchError, intentVars, DocumentsStay
<1>2. Documents'
  BY <1>1, IntentSameStep DEF intentVars
<1> DEFINE d1 == [c EXCEPT !.pc = "finish"]
           d2 == [c EXCEPT !.pc = "mark", !.got = payment[c.intent]]
<1>3. /\ d1.op = c.op /\ d1.seen = c.seen /\ d1.intent = c.intent
      /\ d2.op = c.op /\ d2.seen = c.seen /\ d2.intent = c.intent
  BY DEF TypeOK, Call
<1>4. c.op # "webhook"
  BY DEF Fetch, FetchError, CallsRemember
<1>5. calls' \subseteq calls \union {d1, d2} /\ UNCHANGED status
  BY DEF Fetch, FetchError, Advance, Return, intentVars
<1>6. CallsRemember'
  <2> HIDE DEF d1, d2
  <2> QED
    BY <1>3, <1>4, <1>5 DEF CallsRemember
<1> QED
  BY <1>2, <1>6

LEMMA MarkKeeps ==
    ASSUME LedgerInv, NEW c \in calls, Mark(c)
    PROVE  Documents' /\ CallsRemember'
<1> USE DEF LedgerInv
<1>1. c \in Call /\ c.intent \in Intent
  BY DEF TypeOK, Call
<1>2. UNCHANGED <<resourceVars, order, reservation>> /\ DocumentsStay
  <2>1. CASE RecordCapture(c)
    BY <1>1, <2>1 DEF RecordCapture, Mark, DocumentsStay, TypeOK
  <2>2. CASE RefundLateCapture(c)
    BY <1>1, <2>2 DEF RefundLateCapture, SetStatus, Mark, DocumentsStay, TypeOK
  <2>3. CASE RecordUncaptured(c)
    <3>1. c.got = "authorized" \/ c.seen # "none"
      BY <2>3 DEF RecordUncaptured, CallsRemember
    <3> QED
      BY <1>1, <2>3, <3>1 DEF RecordUncaptured, Mark, DocumentsStay, TypeOK
  <2>4. CASE RecordNothing(c)
    BY <2>4 DEF RecordNothing, Mark, DocumentsStay, intentVars
  <2> QED
    BY <2>1, <2>2, <2>3, <2>4 DEF Mark
<1>3. Documents'
  BY <1>2, IntentSameStep
<1> DEFINE d == [c EXCEPT !.pc = "finish",
                          !.seen = status'[c.intent],
                          !.held = reservation'[c.intent] = "held",
                          !.dated = authorizedAt'[c.intent] # "unset"]
<1>4. CASE calls' \subseteq calls
  BY <1>2, <1>3, <1>4, CallsStay
<1>5. CASE c.op # "webhook" /\ calls' \subseteq calls \union {d}
  <2>1. d.op = c.op /\ d.seen = status'[c.intent] /\ d.intent = c.intent
    BY <1>1 DEF Call
  <2>2. status'[c.intent] # "none"
    BY <1>1, <1>2, <1>5 DEF CallsRemember, DocumentsStay
  <2> HIDE DEF d
  <2> QED
    BY <1>1, <1>2, <1>3, <1>5, <2>1, <2>2 DEF CallsRemember, DocumentsStay, TypeOK, Call
<1>6. calls' \subseteq calls \/ (c.op # "webhook" /\ calls' \subseteq calls \union {d})
  BY DEF Mark, Return, Advance
<1> QED
  BY <1>4, <1>5, <1>6

LEMMA FinishKeeps ==
    ASSUME LedgerInv, NEW c \in calls,
           FinishResume(c) \/ FinishRefuse(c) \/ ReleaseExpired(c) \/ RefundExpired(c) \/ SkipJob(c)
    PROVE  Documents' /\ CallsRemember'
<1> USE DEF LedgerInv
<1>1. c.intent \in Intent
  BY DEF TypeOK, Call
<1>2. UNCHANGED order /\ calls' \subseteq calls
  BY DEF FinishResume, FinishRefuse, ReleaseExpired, RefundExpired, SkipJob, Return
<1>3. \/ ReleasePaymentIntentReservation(c.intent)
      \/ QueueRefundAndRelease(c.intent)
      \/ UNCHANGED <<resourceVars, intentVars>>
  BY DEF FinishResume, FinishRefuse, ReleaseExpired, RefundExpired, SkipJob
<1>4. CASE UNCHANGED <<resourceVars, intentVars>>
  <2>1. DocumentsStay
    BY <1>4 DEF intentVars, DocumentsStay
  <2> QED
    BY <1>2, <1>4, <2>1, IntentSameStep, CallsStay DEF intentVars
<1> QED
  BY <1>1, <1>2, <1>3, <1>4, ReleaseIntentStep, QueueRefundStep, CallsStay

LEMMA FinishAbandonKeeps ==
    ASSUME LedgerInv, NEW c \in calls, FinishAbandon(c)
    PROVE  Documents' /\ CallsRemember'
<1> USE DEF LedgerInv
<1>1. c.intent \in Intent
  BY DEF TypeOK, Call
<1>2. UNCHANGED order /\ calls' \subseteq calls
  BY DEF FinishAbandon, Return
<1>3. DocumentsStay
  BY <1>1 DEF FinishAbandon, DocumentsStay, intentVars, TypeOK
<1>4. \/ reservation[c.intent] = "held" /\ ReleaseReservationResources(c.intent)
      \/ UNCHANGED <<resourceVars, reservation>>
  BY DEF FinishAbandon, intentVars
<1> QED
  BY <1>1, <1>2, <1>3, <1>4, IntentReleaseStep, IntentSameStep, CallsStay

LEMMA ExtendKeeps ==
    ASSUME LedgerInv, NEW c \in calls, ExtendAuthorized(c)
    PROVE  Documents' /\ CallsRemember'
<1> USE DEF LedgerInv
<1>1. UNCHANGED <<resourceVars, order, reservation>> /\ DocumentsStay /\ calls' \subseteq calls
  BY DEF ExtendAuthorized, DocumentsStay, Return
<1> QED
  BY <1>1, IntentSameStep, CallsStay

LEMMA CreateOrderKeeps ==
    ASSUME LedgerInv, NEW i \in Intent, CreateOrder(i)
    PROVE  Documents' /\ CallsRemember'
<1> USE DEF LedgerInv
<1>1. i \in Held /\ Held' = Held \ {i} /\ i \in Purchase
  BY DEF Held, CreateOrder, TypeOK, Purchase
<1>2. order[i] = "none"
  BY <1>1, HeldIsOpen
<1>3. Ledgers'
  BY <1>1, <1>2, ConsumeStep DEF Documents, CreateOrder
<1>4. OrdersConsume' /\ FreshIntents' /\ DocumentsStay
  BY <1>1 DEF Documents, OrdersConsume, FreshIntents, DocumentsStay, CreateOrder, TypeOK, Purchase
<1>5. CallsRemember'
  BY <1>4, CallsStay DEF CreateOrder, callVars
<1> QED
  BY <1>3, <1>4, <1>5 DEF Documents

LEMMA PlaceCodOrderKeeps ==
    ASSUME LedgerInv, NEW c \in Cod, PlaceCodOrder(c)
    PROVE  Documents' /\ CallsRemember'
<1> USE DEF LedgerInv
<1>1. c \in Purchase /\ c \notin Intent
  BY PurchaseAssumption DEF Purchase
<1>2. c \notin Held /\ Held' = Held
  BY <1>1 DEF Held, PlaceCodOrder, intentVars
<1>3. Ledgers'
  BY <1>1, <1>2, SellStep DEF Documents, PlaceCodOrder
<1>4. OrdersConsume' /\ FreshIntents' /\ DocumentsStay
  BY <1>1 DEF Documents, OrdersConsume, FreshIntents, DocumentsStay, PlaceCodOrder, intentVars, TypeOK, Purchase
<1>5. CallsRemember'
  BY <1>4, CallsStay DEF PlaceCodOrder, callVars
<1> QED
  BY <1>3, <1>4, <1>5 DEF Documents

LEMMA CancelOrderKeeps ==
    ASSUME LedgerInv, NEW c \in Purchase, CancelOrder(c)
    PROVE  Documents' /\ CallsRemember'
<1> USE DEF LedgerInv
<1>1. UNCHANGED <<reservation, calls>>
  BY DEF CancelOrder, SetStatus, intentVars, callVars
<1>2. Held' = Held
  BY <1>1 DEF Held
<1>3. Ledgers'
  BY <1>2, ReturnStep DEF Documents, CancelOrder
<1>4. DocumentsStay
  BY DEF CancelOrder, SetStatus, intentVars, DocumentsStay, TypeOK
<1>5. OrdersConsume' /\ FreshIntents'
  BY <1>1, <1>4 DEF Documents, OrdersConsume, FreshIntents, DocumentsStay, CancelOrder, TypeOK, Purchase
<1>6. CallsRemember'
  BY <1>1, <1>4, CallsStay
<1> QED
  BY <1>3, <1>5, <1>6 DEF Documents

LEMMA WorldKeeps ==
    ASSUME LedgerInv,
           \/ \E i \in Intent : RefundJob(i) \/ Expire(i) \/ AuthorizationLapses(i)
           \/ \E i \in Intent, s \in {"authorized", "captured", "failed"} : Pay(i, s)
           \/ \E c \in calls : Crash(c)
           \/ UNCHANGED vars
    PROVE  Documents' /\ CallsRemember'
<1> USE DEF LedgerInv
<1>1. UNCHANGED <<resourceVars, order, reservation>> /\ calls' \subseteq calls
  BY DEF RefundJob, SetStatus, Expire, AuthorizationLapses, Pay, Crash, vars, intentVars, callVars
<1>2. DocumentsStay
  BY DEF RefundJob, SetStatus, Expire, AuthorizationLapses, Pay, Crash, vars, intentVars,
         DocumentsStay, TypeOK, RefundStatuses
<1> QED
  BY <1>1, <1>2, IntentSameStep, CallsStay

-----------------------------------------------------------------------------
(* The theorems *)

LEMMA LedgerInvInit == Init => LedgerInv
<1> SUFFICES ASSUME Init PROVE LedgerInv
  OBVIOUS
<1>1. TypeOK
  BY ResourceAssumption, CheckoutAssumption
     DEF Init, TypeOK, ResourcesInit, ResourcesTypeOK, RedemptionStatus, Statuses, Reservations,
         PaymentStatuses
<1>2. Held = {} /\ Placed = {} /\ Reserved = {} /\ Consumed = {} /\ Redeemed = {}
  BY ResourceAssumption DEF Init, ResourcesInit, Held, Placed, Reserved, Consumed, Redeemed
<1>3. Cardinality({}) = 0
  BY FS_EmptySet
<1>4. \A p \in Product : UnitsOf({}, p) = 0
  <2> SUFFICES ASSUME NEW p \in Product PROVE UnitsOf({}, p) = 0
    OBVIOUS
  <2>1. {u \in {} \X (1..MAX_ITEM_QUANTITY) : u[2] <= Qty[u[1]][p]} = {}
    OBVIOUS
  <2> QED
    BY <1>3, <2>1 DEF UnitsOf
<1>5. StockLedger
  BY <1>2, <1>4, ResourceAssumption DEF StockLedger, Init, ResourcesInit
<1>6. SlotLedger
  BY <1>2, <1>3, ResourceAssumption DEF SlotLedger, Init, ResourcesInit
<1>7. CouponLedger
  BY <1>2, <1>3, ResourceAssumption, CouponLedgerParts DEF Init, ResourcesInit
<1>8. OrdersConsume /\ FreshIntents /\ CallsRemember
  BY DEF OrdersConsume, FreshIntents, CallsRemember, Init, Purchase
<1> QED
  BY <1>1, <1>5, <1>6, <1>7, <1>8 DEF LedgerInv, Documents, Ledgers

LEMMA LedgerInvNext ==
    ASSUME LedgerInv, [Next]_vars
    PROVE  Documents' /\ CallsRemember'
<1>1. ASSUME NEW w \in Worker, NEW i \in Intent, Request(w, i) \/ Sweep(w, i)
      PROVE  Documents' /\ CallsRemember'
  BY <1>1, OpenKeeps, StartsKeep DEF Request
<1>2. ASSUME NEW w \in Worker, NEW h \in webhooks, AcceptWebhook(w, h)
      PROVE  Documents' /\ CallsRemember'
  BY <1>2, WebhookKeeps
<1>3. ASSUME NEW c \in calls, Handle(c)
      PROVE  Documents' /\ CallsRemember'
  BY <1>3, InitializeKeeps, FetchKeeps, MarkKeeps, FinishKeeps, FinishAbandonKeeps, ExtendKeeps
     DEF Handle
<1> QED
  BY <1>1, <1>2, <1>3, CreateOrderKeeps, PlaceCodOrderKeeps, CancelOrderKeeps, WorldKeeps DEF Next

\* The ledgers of stock, slot and coupon, with the types, are kept by every step.
THEOREM LedgerInvariant == Spec => []LedgerInv
<1>1. Init => LedgerInv
  BY LedgerInvInit
<1>2. LedgerInv /\ [Next]_vars => (Documents /\ CallsRemember)'
  BY LedgerInvNext
<1>3. (Documents /\ CallsRemember) /\ TypeOK => LedgerInv
  BY DEF LedgerInv
<1> QED
  BY <1>1, <1>2, <1>3, TypeCorrect, PTL DEF Spec

\* Stock is never oversold, and reservedStock is exactly what sessions hold.
THEOREM StockNeverOversold == Spec => []StockLedger
<1>1. LedgerInv => StockLedger
  BY DEF LedgerInv, Documents, Ledgers
<1> QED
  BY <1>1, LedgerInvariant, PTL

\* The slot is booked once per held session and live order, within capacity.
THEOREM SlotNeverOverbooked == Spec => []SlotLedger
<1>1. LedgerInv => SlotLedger
  BY DEF LedgerInv, Documents, Ledgers
<1> QED
  BY <1>1, LedgerInvariant, PTL

\* The coupon stays within its limit, once per customer, and its counters agree.
THEOREM CouponNeverOverused == Spec => []CouponLedger
<1>1. LedgerInv => CouponLedger
  BY DEF LedgerInv, Documents, Ledgers
<1> QED
  BY <1>1, LedgerInvariant, PTL
=============================================================================
