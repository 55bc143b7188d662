------------------------------ MODULE Checkout ------------------------------
(***************************************************************************)
(* Online checkout: the PaymentIntent state machine of payment.service and *)
(* the order service that consumes it, over the resources of Resources.    *)
(*                                                                         *)
(* A step is one MongoDB transaction or one compare-and-set update; both   *)
(* are atomic in the database.  A handler that awaits the provider, or     *)
(* that decides on a document it read earlier, is a call in `calls`, which *)
(* carries what the handler remembers: the status it read (seen, held,     *)
(* dated) and what the provider told it (got).  Several calls are in       *)
(* flight at once: customer requests, webhook deliveries and the sweep.    *)
(*                                                                         *)
(* Time is abstract: expired[i] says reservation.expiresAt is past, and    *)
(* authorizedAt[i] = "past" that the 30 minutes granted to an authorized   *)
(* payment are over.                                                       *)
(***************************************************************************)
EXTENDS Resources

CONSTANTS
    Cart,       \* what activeDedupeKey hashes: a customer's cart
    CartOf,     \* the cart each online checkout is for
    Worker,     \* bounds the calls in flight
    MaxCrashes  \* bounds how many calls are lost to a crash

ASSUME CheckoutAssumption ==
    /\ CartOf \in [Intent -> Cart]
    /\ MaxCrashes \in Nat

VARIABLES
    status,           \* PaymentIntent.status; "none" before the document exists
    reservation,      \* PaymentIntent.reservation.state
    activeDedupeKey,  \* is PaymentIntent.activeDedupeKey set?
    expired,          \* is reservation.expiresAt past?
    authorizedAt,     \* PaymentIntent.authorizedAt against its 30 minutes
    order,            \* the Order of each purchase
    payment,          \* external: the customer's payment at Razorpay
    webhooks,         \* external: events Razorpay has yet to get accepted
    calls,            \* handlers in flight
    crashes           \* calls lost so far

intentVars == <<status, reservation, activeDedupeKey, expired, authorizedAt>>
providerVars == <<payment, webhooks>>
callVars == <<calls, crashes>>
vars == <<resourceVars, intentVars, order, providerVars, callVars>>

Statuses == {"none", "initializing", "created", "authorized", "verified", "consumed",
             "failed", "refund_pending", "refunded", "refund_failed"}
Reservations == {"none", "held", "consumed", "released"}
RefundStatuses == {"refund_pending", "refunded", "refund_failed"}
PaymentStatuses == {"noorder", "open", "authorized", "captured", "failed"}
Events == {"payment.authorized", "payment.captured", "order.paid"}
Webhook == [intent : Intent, event : Events]
Call == [worker : Worker,
         op : {"initialize", "confirm", "webhook", "abandon", "resume", "sweep", "refuse"},
         intent : Intent,
         pc : {"fetch", "mark", "finish"},
         seen : Statuses,            \* status of the document the handler holds
         held : BOOLEAN,             \* is its reservation held?
         dated : BOOLEAN,            \* is its authorizedAt set?
         got : PaymentStatuses,      \* what the provider answered
         event : Events \union {"none"}]

TypeOK ==
    /\ ResourcesTypeOK
    /\ status \in [Intent -> Statuses]
    /\ reservation \in [Intent -> Reservations]
    /\ activeDedupeKey \in [Intent -> BOOLEAN]
    /\ expired \in [Intent -> BOOLEAN]
    /\ authorizedAt \in [Intent -> {"unset", "set", "past"}]
    /\ order \in [Purchase -> {"none", "placed", "cancelled"}]
    /\ payment \in [Intent -> PaymentStatuses]
    /\ webhooks \subseteq Webhook
    /\ calls \subseteq Call
    /\ crashes \in 0..MaxCrashes

Init ==
    /\ ResourcesInit
    /\ status = [i \in Intent |-> "none"]
    /\ reservation = [i \in Intent |-> "none"]
    /\ activeDedupeKey = [i \in Intent |-> FALSE]
    /\ expired = [i \in Intent |-> FALSE]
    /\ authorizedAt = [i \in Intent |-> "unset"]
    /\ order = [c \in Purchase |-> "none"]
    /\ payment = [i \in Intent |-> "noorder"]
    /\ webhooks = {}
    /\ calls = {}
    /\ crashes = 0

-----------------------------------------------------------------------------
(* Calls in flight *)

Idle(w) == \A c \in calls : c.worker # w

\* The call worker w starts after reading intent i.
CallOf(w, op, i, pc, event) ==
    [worker |-> w, op |-> op, intent |-> i, pc |-> pc,
     seen |-> status[i], held |-> reservation[i] = "held", dated |-> authorizedAt[i] # "unset",
     got |-> "noorder", event |-> event]

Start(w, op, i, pc) ==
    /\ Idle(w)
    /\ calls' = calls \union {CallOf(w, op, i, pc, "none")}
    /\ UNCHANGED crashes

Advance(c, d) ==
    /\ calls' = (calls \ {c}) \union {d}
    /\ UNCHANGED crashes

Return(c) ==
    /\ calls' = calls \ {c}
    /\ UNCHANGED crashes

SetStatus(i, s) ==
    /\ status' = [status EXCEPT ![i] = s]
    /\ UNCHANGED <<reservation, activeDedupeKey, expired, authorizedAt>>

-----------------------------------------------------------------------------
(* Reservations *)

HoldResources(i) ==
    /\ ReserveInventory(i)
    /\ ReserveSlot
    /\ ClaimCoupon(i)

\* releaseReservationResources: the three releases and the document's own fields.
ReleaseReservationResources(i) ==
    /\ ReleaseReservedInventory(i)
    /\ ReleaseSlot
    /\ ReleaseCoupon(i)
    /\ reservation' = [reservation EXCEPT ![i] = "released"]
    /\ activeDedupeKey' = [activeDedupeKey EXCEPT ![i] = FALSE]

ReleasableStatuses ==
    {"initializing", "created", "authorized", "failed", "refund_pending", "refund_failed", "refunded"}

\* Mutant: the filter loses its status list, so a captured payment's hold can go too.
ReleaseIfHeld(i) ==
    \/ /\ reservation[i] = "held"
       /\ ReleaseReservationResources(i)
       /\ UNCHANGED <<status, expired, authorizedAt>>
    \/ /\ reservation[i] # "held"
       /\ UNCHANGED <<resourceVars, intentVars>>

\* releasePaymentIntentReservation: a transaction that releases what is held
\* unless the payment was captured or consumed, and otherwise does nothing.
ReleasePaymentIntentReservation(i) ==
    \/ /\ status[i] \in ReleasableStatuses
       /\ reservation[i] = "held"
       /\ ReleaseReservationResources(i)
       /\ UNCHANGED <<status, expired, authorizedAt>>
    \/ /\ ~(status[i] \in ReleasableStatuses /\ reservation[i] = "held")
       /\ UNCHANGED <<resourceVars, intentVars>>

RefundableStatuses == {"verified", "consumed", "refund_pending", "refund_failed", "refunded"}

\* Mutant: the refund is queued and the hold forgotten.
QueueRefundKeepingHold(i) ==
    \/ /\ status[i] \in RefundableStatuses
       /\ status' = [status EXCEPT ![i] = IF status[i] = "refunded" THEN "refunded" ELSE "refund_pending"]
       /\ UNCHANGED <<resourceVars, reservation, activeDedupeKey, expired, authorizedAt>>
    \/ /\ status[i] \notin RefundableStatuses
       /\ UNCHANGED <<resourceVars, intentVars>>

\* What queueing a refund of everything paid makes of the session.  A session
\* refunded before it had an order was refunded in full and has nothing left;
\* one of a cancelled order may have kept a fee, and is then refunded again.
QueuedStatuses(i) ==
    IF status[i] # "refunded" THEN {"refund_pending"}
    ELSE IF order[i] = "none" THEN {"refunded"} ELSE {"refunded", "refund_pending"}

\* queuePaymentIntentRefund with releaseHeld, as one transaction.
QueueRefundAndRelease(i) ==
    \/ /\ status[i] \in RefundableStatuses
       /\ \E s \in QueuedStatuses(i) : status' = [status EXCEPT ![i] = s]
       /\ IF reservation[i] = "held"
          THEN ReleaseReservationResources(i)
          ELSE UNCHANGED <<resourceVars, reservation, activeDedupeKey>>
       /\ UNCHANGED <<expired, authorizedAt>>
    \/ /\ status[i] \notin RefundableStatuses
       /\ UNCHANGED <<resourceVars, intentVars>>

-----------------------------------------------------------------------------
(* createRazorpayCheckoutSession *)

\* Mutant: the transaction trusts the earlier lookup and inserts a second hold.
OpenUnchecked(w, i) ==
    /\ status[i] = "none"
    /\ HoldResources(i)
    /\ status' = [status EXCEPT ![i] = "initializing"]
    /\ reservation' = [reservation EXCEPT ![i] = "held"]
    /\ activeDedupeKey' = [activeDedupeKey EXCEPT ![i] = TRUE]
    /\ Idle(w)
    /\ calls' = calls \union {[CallOf(w, "initialize", i, "fetch", "none") EXCEPT !.seen = "initializing", !.held = TRUE]}
    /\ UNCHANGED <<expired, authorizedAt, order, providerVars, crashes>>

\* Mutant: the lookup by idempotency key misses a session that was released.
OpenAgain(w, i) ==
    /\ status[i] = "none" \/ reservation[i] = "released"
    /\ \A j \in Intent : activeDedupeKey[j] => CartOf[j] # CartOf[i]
    /\ HoldResources(i)
    /\ status' = [status EXCEPT ![i] = "initializing"]
    /\ reservation' = [reservation EXCEPT ![i] = "held"]
    /\ activeDedupeKey' = [activeDedupeKey EXCEPT ![i] = TRUE]
    /\ Idle(w)
    /\ calls' = calls \union {[CallOf(w, "initialize", i, "fetch", "none") EXCEPT !.seen = "initializing", !.held = TRUE]}
    /\ UNCHANGED <<expired, authorizedAt, order, providerVars, crashes>>

\* A new session: nothing with its idempotency key (the intent itself) or its
\* activeDedupeKey exists; the transaction takes every hold or none, and this
\* request goes on to initialise the provider order.
Open(w, i) ==
    /\ status[i] = "none"
    /\ \A j \in Intent : activeDedupeKey[j] => CartOf[j] # CartOf[i]
    /\ HoldResources(i)
    /\ status' = [status EXCEPT ![i] = "initializing"]
    /\ reservation' = [reservation EXCEPT ![i] = "held"]
    /\ activeDedupeKey' = [activeDedupeKey EXCEPT ![i] = TRUE]
    /\ Idle(w)
    /\ calls' = calls \union {[CallOf(w, "initialize", i, "fetch", "none") EXCEPT !.seen = "initializing", !.held = TRUE]}
    /\ UNCHANGED <<expired, authorizedAt, order, providerVars, crashes>>

\* reusableIntent: the same key or cart again, on a session that still holds.
\* A stale initialisation is retried; an expired unpaid session is reconciled.
\* Its other branches return or throw and change nothing.
Resume(w, i) ==
    /\ reservation[i] = "held"
    /\ \/ status[i] = "initializing" /\ Start(w, "initialize", i, "fetch")
       \/ status[i] \in {"created", "authorized"} /\ expired[i] /\ Start(w, "resume", i, "fetch")
    /\ UNCHANGED <<resourceVars, intentVars, order, providerVars>>

\* initializeProviderOrder: the provider order exists (created, or recovered by
\* receipt) and a compare-and-set attaches it, unless the hold is gone.
AttachProviderOrder(c) ==
    /\ c.op = "initialize" /\ c.pc = "fetch"
    /\ IF status[c.intent] = "initializing" /\ reservation[c.intent] = "held"
       THEN /\ SetStatus(c.intent, "created")
            /\ payment' = [payment EXCEPT ![c.intent] = "open"]
       ELSE UNCHANGED <<intentVars, payment>>
    /\ Return(c)
    /\ UNCHANGED <<resourceVars, order, webhooks>>

\* ... or it cannot be confirmed: the session fails, then its hold is released.
FailInitialization(c) ==
    /\ c.op = "initialize" /\ c.pc = "fetch"
    /\ IF status[c.intent] = "initializing"
       THEN SetStatus(c.intent, "failed")
       ELSE UNCHANGED intentVars
    /\ Advance(c, [c EXCEPT !.pc = "finish"])
    /\ UNCHANGED <<resourceVars, order, providerVars>>

ReleaseUninitialized(c) ==
    /\ c.op = "initialize" /\ c.pc = "finish"
    /\ ReleasePaymentIntentReservation(c.intent)
    /\ Return(c)
    /\ UNCHANGED <<order, providerVars>>

-----------------------------------------------------------------------------
(* Asking the provider, and recording what it said *)

\* verifyRazorpayPayment: the customer's callback names a payment of this order.
Verify(w, i) ==
    /\ status[i] \in {"created", "authorized", "failed"}
    /\ payment[i] \notin {"noorder", "open"}
    /\ Start(w, "confirm", i, "fetch")
    /\ UNCHANGED <<resourceVars, intentVars, order, providerVars>>

\* reconcileRazorpayPaymentSession
Reconcile(w, i) ==
    /\ status[i] \in {"created", "authorized", "failed"}
    /\ payment[i] # "noorder"
    /\ Start(w, "confirm", i, "fetch")
    /\ UNCHANGED <<resourceVars, intentVars, order, providerVars>>

\* The provider answers with the payment it knows at that moment.  With no
\* payment yet there is nothing to record, and the handler keeps its document.
Fetch(c) ==
    /\ c.op # "initialize" /\ c.pc = "fetch"
    /\ \/ /\ payment[c.intent] \notin {"noorder", "open"}
          /\ Advance(c, [c EXCEPT !.pc = "mark", !.got = payment[c.intent]])
       \/ /\ payment[c.intent] \in {"noorder", "open"}
          /\ IF c.op = "confirm" THEN Return(c) ELSE Advance(c, [c EXCEPT !.pc = "finish"])
    /\ UNCHANGED <<resourceVars, intentVars, order, providerVars>>

\* The provider times out or fails: the request throws, the sweep skips the job.
FetchError(c) ==
    /\ c.op # "initialize" /\ c.pc = "fetch"
    /\ Return(c)
    /\ UNCHANGED <<resourceVars, intentVars, order, providerVars>>

\* Statuses markIntentFromPayment's compare-and-set leaves alone.
Settled == {"consumed"} \union RefundStatuses

Markable(i) == status[i] \notin Settled /\ reservation[i] = "held"

\* A capture found in time: verified, with a fresh half hour to place the order.
RecordCapture(c) ==
    /\ c.got = "captured" /\ Markable(c.intent)
    /\ status' = [status EXCEPT ![c.intent] = "verified"]
    /\ expired' = [expired EXCEPT ![c.intent] = FALSE]
    /\ UNCHANGED <<reservation, activeDedupeKey, authorizedAt>>

\* refundReleasedCapture: a capture that comes after the release becomes a refund job.
RefundLateCapture(c) ==
    /\ c.got = "captured" /\ reservation[c.intent] = "released"
    /\ status[c.intent] \in {"initializing", "created", "authorized", "verified", "failed"}
    /\ SetStatus(c.intent, "refund_pending")

\* Anything else writes what the handler saw: "authorized", or for any other
\* payment status the status of the document as it was read.
RecordUncaptured(c) ==
    /\ c.got # "captured" /\ Markable(c.intent)
    /\ status' = [status EXCEPT ![c.intent] = IF c.got = "authorized" THEN "authorized" ELSE c.seen]
    /\ authorizedAt' = IF c.got = "authorized" /\ ~c.dated
                       THEN [authorizedAt EXCEPT ![c.intent] = "set"]
                       ELSE authorizedAt
    /\ UNCHANGED <<reservation, activeDedupeKey, expired>>

RecordNothing(c) ==
    /\ ~Markable(c.intent)
    /\ ~(c.got = "captured" /\ reservation[c.intent] = "released"
          /\ status[c.intent] \in {"initializing", "created", "authorized", "verified", "failed"})
    /\ UNCHANGED intentVars

\* markIntentFromPayment, and what its caller does with the document it returns.
Mark(c) ==
    /\ c.pc = "mark"
    /\ RecordCapture(c) \/ RefundLateCapture(c) \/ RecordUncaptured(c) \/ RecordNothing(c)
    /\ IF c.op \in {"confirm", "webhook"}
       THEN Return(c)
       ELSE Advance(c, [c EXCEPT !.pc = "finish",
                                 !.seen = status'[c.intent],
                                 !.held = reservation'[c.intent] = "held",
                                 !.dated = authorizedAt'[c.intent] # "unset"])
    /\ webhooks' = IF c.op = "webhook"
                   THEN webhooks \ {[intent |-> c.intent, event |-> c.event]}
                   ELSE webhooks
    /\ UNCHANGED <<resourceVars, order, payment>>

\* resume: an expired session whose payment has not arrived is released.
FinishResume(c) ==
    /\ c.op = "resume" /\ c.pc = "finish"
    /\ IF c.seen \in {"authorized", "verified", "consumed"}
       THEN UNCHANGED <<resourceVars, intentVars>>
       ELSE ReleasePaymentIntentReservation(c.intent)
    /\ Return(c)
    /\ UNCHANGED <<order, providerVars>>

-----------------------------------------------------------------------------
(* applyRazorpayWebhookPayment, one call per accepted event *)

\* Mutant: the event's name is taken for the payment's status.
EventName(e) == e

EventStatus(e) ==
    IF e = "payment.authorized" THEN "authorized" ELSE "captured"

\* The handler's early returns: such an event is accepted and changes nothing
\* here (processWebhook starts the refund job of a cancelled order: RefundJob).
\* A payment.failed event never changes what is modelled, and is left out.
EventIgnored(i, e) ==
    \/ status[i] \in Settled
    \/ e = "payment.authorized" /\ status[i] = "verified"

AcceptWebhook(w, h) ==
    /\ h \in webhooks
    /\ \A c \in calls : ~(c.op = "webhook" /\ c.intent = h.intent /\ c.event = h.event)
    /\ Idle(w)
    /\ \/ /\ EventIgnored(h.intent, h.event)
          /\ webhooks' = webhooks \ {h}
          /\ UNCHANGED <<calls, crashes>>
       \/ /\ ~EventIgnored(h.intent, h.event)
          /\ calls' = calls \union
                {[CallOf(w, "webhook", h.intent, "mark", h.event) EXCEPT !.got = EventStatus(h.event)]}
          /\ UNCHANGED <<webhooks, crashes>>
    /\ UNCHANGED <<resourceVars, intentVars, order, payment>>

-----------------------------------------------------------------------------
(* abandonRazorpayPaymentSession: reconcile a created session, then release. *)

Abandon(w, i) ==
    /\ \/ status[i] = "created" /\ Start(w, "abandon", i, "fetch")
       \/ status[i] = "failed" /\ Start(w, "abandon", i, "finish")
    /\ UNCHANGED <<resourceVars, intentVars, order, providerVars>>

\* Mutant: abandoning a session that was released already releases it again.
FinishAbandonAgain(c) ==
    /\ c.op = "abandon" /\ c.pc = "finish"
    /\ \/ /\ c.seen \in {"created", "failed"}
          /\ status[c.intent] \in {"created", "failed"}
          /\ ReleaseReservationResources(c.intent)
          /\ status' = [status EXCEPT ![c.intent] = "failed"]
          /\ UNCHANGED <<expired, authorizedAt>>
       \/ /\ ~(c.seen \in {"created", "failed"} /\ status[c.intent] \in {"created", "failed"})
          /\ UNCHANGED <<resourceVars, intentVars>>
    /\ Return(c)
    /\ UNCHANGED <<order, providerVars>>

FinishAbandon(c) ==
    /\ c.op = "abandon" /\ c.pc = "finish"
    /\ \/ /\ c.seen \in {"created", "failed"}
          /\ status[c.intent] \in {"created", "failed"}
          /\ \/ /\ reservation[c.intent] = "held"
                /\ ReleaseReservationResources(c.intent)
             \/ /\ reservation[c.intent] = "released"
                /\ activeDedupeKey' = [activeDedupeKey EXCEPT ![c.intent] = FALSE]
                /\ UNCHANGED <<resourceVars, reservation>>
          /\ status' = [status EXCEPT ![c.intent] = "failed"]
          /\ UNCHANGED <<expired, authorizedAt>>
       \/ /\ ~(c.seen \in {"created", "failed"} /\ status[c.intent] \in {"created", "failed"})
          /\ UNCHANGED <<resourceVars, intentVars>>
    /\ Return(c)
    /\ UNCHANGED <<order, providerVars>>

-----------------------------------------------------------------------------
(* order.service: createOrder and cancelOrder *)

\* Mutant: the order consumes any session whose resources are held.
CreateOrderUnverified(i) ==
    /\ reservation[i] = "held"
    /\ ConsumeReservedInventory(i)
    /\ ConsumeCoupon(i)
    /\ UNCHANGED booked
    /\ status' = [status EXCEPT ![i] = "consumed"]
    /\ reservation' = [reservation EXCEPT ![i] = "consumed"]
    /\ activeDedupeKey' = [activeDedupeKey EXCEPT ![i] = FALSE]
    /\ order' = [order EXCEPT ![i] = "placed"]
    /\ UNCHANGED <<expired, authorizedAt, providerVars, callVars>>

\* performCreateOrder for a paid session: one transaction takes the intent from
\* verified/held through processing/consuming to consumed/consumed.
CreateOrder(i) ==
    /\ status[i] = "verified"
    /\ reservation[i] = "held"
    /\ ConsumeReservedInventory(i)
    /\ ConsumeCoupon(i)
    /\ UNCHANGED booked
    /\ status' = [status EXCEPT ![i] = "consumed"]
    /\ reservation' = [reservation EXCEPT ![i] = "consumed"]
    /\ activeDedupeKey' = [activeDedupeKey EXCEPT ![i] = FALSE]
    /\ order' = [order EXCEPT ![i] = "placed"]
    /\ UNCHANGED <<expired, authorizedAt, providerVars, callVars>>

\* That transaction fails for good (a product or address gone, a coupon or slot
\* reservation missing): refundUnfulfillablePayment reads the intent, which
\* by now may be on its way back already ...
Refuse(w, i) ==
    /\ status[i] \in {"verified", "refund_pending", "refund_failed"}
    /\ Start(w, "refuse", i, "finish")
    /\ UNCHANGED <<resourceVars, intentVars, order, providerVars>>

\* ... and queues the full refund.
FinishRefuse(c) ==
    /\ c.op = "refuse" /\ c.pc = "finish"
    /\ QueueRefundAndRelease(c.intent)
    /\ Return(c)
    /\ UNCHANGED <<order, providerVars>>

\* performCreateOrder for cash on delivery: no reservation, no intent.
PlaceCodOrder(c) ==
    /\ order[c] = "none"
    /\ SellAvailableInventory(c)
    /\ ReserveSlot
    /\ RedeemCoupon(c)
    /\ order' = [order EXCEPT ![c] = "placed"]
    /\ UNCHANGED <<intentVars, providerVars, callVars>>

\* Mutant: the booking of the slot is not given back.
CancelKeepingSlot(c) ==
    /\ order[c] = "placed"
    /\ RestoreOrderInventory(c)
    /\ UNCHANGED <<booked, couponVars>>
    /\ order' = [order EXCEPT ![c] = "cancelled"]
    /\ IF c \in Intent
       THEN \/ \E s \in {"refund_pending", "refunded"} : SetStatus(c, s)
            \/ status[c] \in RefundStatuses /\ UNCHANGED intentVars
       ELSE UNCHANGED intentVars
    /\ UNCHANGED <<providerVars, callVars>>

\* cancelOrder: inventory and slot come back, the coupon stays used, and a paid
\* order's refund is queued (or is nothing, when the retained fee is the total).
CancelOrder(c) ==
    /\ order[c] = "placed"
    /\ RestoreOrderInventory(c)
    /\ ReleaseSlot
    /\ UNCHANGED couponVars
    /\ order' = [order EXCEPT ![c] = "cancelled"]
    /\ IF c \in Intent
       THEN \/ \E s \in {"refund_pending", "refunded"} : SetStatus(c, s)
            \/ status[c] \in RefundStatuses /\ UNCHANGED intentVars
       ELSE UNCHANGED intentVars
    /\ UNCHANGED <<providerVars, callVars>>

-----------------------------------------------------------------------------
(* sweepExpiredPaymentReservations *)

\* The job list: held and expired.  Created and authorized sessions ask the
\* provider first; the list is read once and the jobs are handled one by one.
Sweep(w, i) ==
    /\ reservation[i] = "held"
    /\ expired[i] \/ status[i] = "refunded"
    /\ Start(w, "sweep", i, IF status[i] \in {"created", "authorized"} THEN "fetch" ELSE "finish")
    /\ UNCHANGED <<resourceVars, intentVars, order, providerVars>>

SweepStep(c) == c.op = "sweep" /\ c.pc = "finish"

\* extendAuthorizedReservation, while the 30 minutes last.
ExtendAuthorized(c) ==
    /\ SweepStep(c) /\ c.seen = "authorized" /\ authorizedAt[c.intent] # "past"
    /\ IF status[c.intent] = "authorized" /\ reservation[c.intent] = "held"
       THEN /\ expired' = [expired EXCEPT ![c.intent] = FALSE]
            /\ authorizedAt' = [authorizedAt EXCEPT ![c.intent] = "set"]
       ELSE UNCHANGED <<expired, authorizedAt>>
    /\ Return(c)
    /\ UNCHANGED <<resourceVars, status, reservation, activeDedupeKey, order, providerVars>>

\* Mutant: a session found unpaid is left for the next sweep.
SkipExpired(c) ==
    /\ SweepStep(c) /\ c.held
    /\ c.seen \notin {"verified", "authorized"}
    /\ Return(c)
    /\ UNCHANGED <<resourceVars, intentVars, order, providerVars>>

\* AUTHORIZATION_EXPIRED, CHECKOUT_EXPIRED and the refund repairs: release.
ReleaseExpired(c) ==
    /\ SweepStep(c) /\ c.held
    /\ \/ c.seen = "authorized" /\ authorizedAt[c.intent] = "past"
       \/ c.seen \notin {"verified", "authorized"}
    /\ ReleasePaymentIntentReservation(c.intent)
    /\ Return(c)
    /\ UNCHANGED <<order, providerVars>>

\* A job listed as verified: nobody placed the order in time, so refund it.
RefundExpired(c) ==
    /\ SweepStep(c) /\ c.held /\ c.seen = "verified" /\ c.got = "noorder"
    /\ QueueRefundAndRelease(c.intent)
    /\ Return(c)
    /\ UNCHANGED <<order, providerVars>>

\* Reconciliation found the capture, or the hold has gone meanwhile.
SkipJob(c) ==
    /\ SweepStep(c)
    /\ \/ c.seen = "verified" /\ c.got # "noorder"
       \/ ~c.held /\ c.seen # "authorized"
       \/ ~c.held /\ c.seen = "authorized" /\ authorizedAt[c.intent] = "past"
    /\ Return(c)
    /\ UNCHANGED <<resourceVars, intentVars, order, providerVars>>

\* refundIntentPayment and the refund webhooks, seen from here: a refund job of
\* a released or consumed reservation is pending, failed for now, or done.
\* Module RefundEngine models its steps.
RefundJob(i) ==
    /\ status[i] \in {"refund_pending", "refund_failed"}
    /\ reservation[i] \in {"released", "consumed"}
    /\ \E s \in RefundStatuses \ {status[i]} : SetStatus(i, s)
    /\ UNCHANGED <<resourceVars, order, providerVars, callVars>>

-----------------------------------------------------------------------------
(* The world: the customer pays, time passes, a process dies *)

WebhooksOf(s) ==
    CASE s = "authorized" -> {"payment.authorized"}
      [] s = "captured" -> {"payment.captured", "order.paid"}
      [] s = "failed" -> {}

\* The provider order accepts attempts until one is captured.
Pay(i, s) ==
    /\ \/ payment[i] \in {"open", "failed"} /\ s # payment[i]
       \/ payment[i] = "authorized" /\ s \in {"captured", "failed"}
    /\ payment' = [payment EXCEPT ![i] = s]
    /\ webhooks' = webhooks \union {[intent |-> i, event |-> e] : e \in WebhooksOf(s)}
    /\ UNCHANGED <<resourceVars, intentVars, order, callVars>>

Expire(i) ==
    /\ reservation[i] = "held" /\ ~expired[i]
    /\ expired' = [expired EXCEPT ![i] = TRUE]
    /\ UNCHANGED <<resourceVars, status, reservation, activeDedupeKey, authorizedAt, order, providerVars, callVars>>

AuthorizationLapses(i) ==
    /\ reservation[i] = "held" /\ authorizedAt[i] = "set"
    /\ authorizedAt' = [authorizedAt EXCEPT ![i] = "past"]
    /\ UNCHANGED <<resourceVars, status, reservation, activeDedupeKey, expired, order, providerVars, callVars>>

\* A webhook that dies mid-way is redelivered, or answered 200 unprocessed when
\* the redelivery comes within the lease of its event record.
Crash(c) ==
    /\ crashes < MaxCrashes
    /\ crashes' = crashes + 1
    /\ calls' = calls \ {c}
    /\ webhooks' \in {webhooks, webhooks \ {[intent |-> c.intent, event |-> c.event]}}
    /\ UNCHANGED <<resourceVars, intentVars, order, payment>>

-----------------------------------------------------------------------------
Request(w, i) ==
    \/ Open(w, i) \/ Resume(w, i) \/ Verify(w, i) \/ Reconcile(w, i)
    \/ Abandon(w, i) \/ Refuse(w, i)

Handle(c) ==
    \/ AttachProviderOrder(c) \/ FailInitialization(c) \/ ReleaseUninitialized(c)
    \/ Fetch(c) \/ FetchError(c) \/ Mark(c)
    \/ FinishResume(c) \/ FinishAbandon(c) \/ FinishRefuse(c)
    \/ ExtendAuthorized(c) \/ ReleaseExpired(c) \/ RefundExpired(c) \/ SkipJob(c)

Next ==
    \/ \E w \in Worker, i \in Intent : Request(w, i) \/ Sweep(w, i)
    \/ \E w \in Worker, h \in webhooks : AcceptWebhook(w, h)
    \/ \E c \in calls : Handle(c) \/ Crash(c)
    \/ \E i \in Intent : CreateOrder(i) \/ RefundJob(i) \/ Expire(i) \/ AuthorizationLapses(i)
    \/ \E i \in Intent, s \in {"authorized", "captured", "failed"} : Pay(i, s)
    \/ \E c \in Cod : PlaceCodOrder(c)
    \/ \E c \in Purchase : CancelOrder(c)

Spec == Init /\ [][Next]_vars

-----------------------------------------------------------------------------
(* Fairness.  The sweep runs every minute and inspects every hold that ran  *)
(* out; a handler that started goes on or dies; timers elapse; and the      *)
(* provider is not down for ever.  Customers promise nothing.               *)

SweepOf(i) == \E w \in Worker : Sweep(w, i)
HandleBy(w) == \E c \in calls : c.worker = w /\ Handle(c)
AnswerSweep(i) == \E c \in calls : c.intent = i /\ c.op = "sweep" /\ Fetch(c)

Fairness ==
    /\ \A w \in Worker : WF_vars(HandleBy(w))
    /\ \A i \in Intent :
        /\ WF_vars(Expire(i)) /\ WF_vars(AuthorizationLapses(i))
        /\ SF_vars(SweepOf(i)) /\ SF_vars(AnswerSweep(i))

FairSpec == Spec /\ Fairness

-----------------------------------------------------------------------------
(* Correctness *)

Held == {i \in Intent : reservation[i] = "held"}
Placed == {c \in Purchase : order[c] = "placed"}

\* Stock is never oversold: reservedStock is exactly what the held sessions ask
\* for, what left the shelf is exactly what live orders took, and what is held
\* is on the shelf -- whatever checkouts, cash orders, cancellations, webhooks
\* and sweeps interleave (inventory.service; Product's pre-save validator).
StockLedger ==
    \A p \in Product :
        /\ reservedStock[p] = UnitsOf(Held, p)
        /\ stock[p] + UnitsOf(Placed, p) = InitialStock[p]
        /\ reservedStock[p] <= stock[p]

\* Each held session and each live order has exactly one booking of the slot,
\* which never takes more than its capacity (reserveSlot, releaseSlot).
SlotLedger ==
    /\ booked = Cardinality(Held) + Cardinality(Placed)
    /\ booked <= Capacity

\* The coupon's counters count its redemptions, stay within the usage limit,
\* and no customer has two; a redemption is reserved exactly while its session
\* holds, and consumed exactly once an order was placed (coupon.service).
CouponLedger ==
    LET Redemptions(s) == {c \in Purchase : redemption[c] = s}
    IN  /\ reservedCount = Cardinality(Redemptions("reserved"))
        /\ usedCount = Cardinality(Redemptions("consumed"))
        /\ UsageLimit = 0 \/ usedCount + reservedCount <= UsageLimit
        /\ Redemptions("reserved") = Held \intersect CouponUsers
        /\ Redemptions("consumed") = {c \in CouponUsers : order[c] # "none"}
        /\ \A c, d \in Redemptions("reserved") \union Redemptions("consumed") :
              c # d => UserOf[c] # UserOf[d]

\* The phase of a purchase in the ledger that checkout promises.
Phase == [c \in Purchase |->
    CASE order[c] = "placed" -> "sold"
      [] order[c] = "cancelled" -> "returned"
      [] order[c] = "none" /\ c \in Intent /\ reservation[c] = "held" -> "held"
      [] order[c] = "none" /\ c \in Intent /\ reservation[c] = "released" -> "released"
      [] OTHER -> "none"]

Ledger == INSTANCE ReservationLedger WITH phase <- Phase

\* Checkout implements the ledger: counters, documents and calls in flight grant
\* and return stock, slot and coupon exactly as one atomic decision per purchase
\* would, and a hold that ended never comes back.
LedgerSpec == Ledger!LedgerSpec

\* Two tabs, two instances or a retry under a new idempotency key never hold
\* the same cart twice (the unique activeDedupeKey of the PaymentIntent).
OneHoldPerCart ==
    \A i, j \in Held : CartOf[i] = CartOf[j] => i = j

\* An order of an online session stands for a captured payment, however stale
\* the document the handlers acted on (getVerifiedPaymentIntentForOrder).
OrderIsPaid ==
    \A i \in Intent : order[i] # "none" => payment[i] = "captured"

\* A payment on its way back holds nothing: no refund is queued, done or failed
\* while its session still keeps stock, slot or coupon from other customers
\* (the refund paths release in the transaction that queues the refund).
RefundHoldsNothing ==
    \A i \in Intent : status[i] \in RefundStatuses => reservation[i] \in {"released", "consumed"}

\* A captured payment never loses its hold to a timeout or an abandonment: its
\* hold goes to an order, or in the same transaction the refund is queued.
CapturedHoldIsKept ==
    [][\A i \in Intent :
         status[i] = "verified" /\ reservation[i] = "held" /\ reservation'[i] # "held"
            => status'[i] \in {"consumed", "refund_pending"}]_vars

\* Every hold ends: whatever the customer does, and however calls crash, stock,
\* slot and coupon are sold or given back (sweepExpiredPaymentReservations).
HoldsEnd ==
    \A i \in Intent : reservation[i] = "held" ~> reservation[i] # "held"

\* The release matrix, case 8, asks that duplicate and out-of-order webhooks do
\* not regress a captured or consumed payment: once recorded as captured, a
\* payment is fulfilled or refunded, never open again.
NoCaptureRegression ==
    [][\A i \in Intent :
         status[i] \in {"verified", "consumed"}
            => status'[i] \in {"verified", "consumed"} \union RefundStatuses]_vars

\* A captured payment is refunded because it cannot be fulfilled (razorpay-
\* production.md): the payment of an order that stands is not on its way back.
NoRefundOfLiveOrder ==
    \A i \in Intent : order[i] = "placed" => status[i] \notin RefundStatuses
=============================================================================
