-------------------------- MODULE Guarantees_proofs --------------------------
(***************************************************************************)
(* What a customer may rely on, for every set of purchases and every       *)
(* interleaving: an order is paid, a cart is held once, a payment on its   *)
(* way back holds nothing, and a captured payment keeps its hold until it  *)
(* is ordered or refunded.  And what the shop may rely on: checkout, with  *)
(* all its documents, implements ReservationLedger.                        *)
(***************************************************************************)
EXTENDS Checkout_proofs

-----------------------------------------------------------------------------
(* The inductive invariant, on top of LedgerInv. *)

PaidStatuses == {"verified", "consumed"} \union RefundStatuses

\* A payment is recorded as captured only if it is, and there is none before
\* the provider order is attached.
StatusIsPaid == \A i \in Intent :
    /\ status[i] \in PaidStatuses => payment[i] = "captured"
    /\ status[i] \in {"none", "initializing"} => payment[i] = "noorder"

EventsAreTrue == \A h \in webhooks :
    h.event \in {"payment.captured", "order.paid"} => payment[h.intent] = "captured"

\* A call that may write back the status it read has read an unpaid session's.
WritesUnpaid(c) ==
    /\ c.op \notin {"webhook", "initialize"} /\ c.pc \in {"fetch", "mark"}
          => c.seen \in {"created", "authorized", "failed"}
    /\ c.op = "initialize" => c.pc # "mark"

CallsAreTrue == \A c \in calls :
    /\ c.got = "captured" => payment[c.intent] = "captured"
    /\ WritesUnpaid(c)

OpenedHolds == \A i \in Intent : status[i] # "none" => reservation[i] # "none"
HoldsHaveKeys == \A i \in Intent : reservation[i] = "held" => activeDedupeKey[i]
KeysAreUnique == \A i, j \in Intent :
    activeDedupeKey[i] /\ activeDedupeKey[j] /\ CartOf[i] = CartOf[j] => i = j

Sessions == StatusIsPaid /\ EventsAreTrue /\ OrderIsPaid
Holds == OpenedHolds /\ HoldsHaveKeys /\ KeysAreUnique /\ RefundHoldsNothing

GuaranteeInv == LedgerInv /\ Sessions /\ CallsAreTrue /\ Holds

-----------------------------------------------------------------------------
(* What most actions have in common *)

\* The fields the guarantees speak of.
factVars == <<status, reservation, activeDedupeKey, order, payment>>

CapturesStay == \A i \in Intent : payment[i] = "captured" => payment'[i] = "captured"

LEMMA SameFacts ==
    ASSUME Sessions, Holds, UNCHANGED factVars, webhooks' \subseteq webhooks
    PROVE  Sessions' /\ Holds' /\ CapturesStay
BY DEF Sessions, Holds, StatusIsPaid, EventsAreTrue, OrderIsPaid, OpenedHolds, HoldsHaveKeys,
       KeysAreUnique, RefundHoldsNothing, factVars, CapturesStay

LEMMA CallsStep ==
    ASSUME TypeOK, CallsAreTrue, CapturesStay,
           \A c \in calls' \ calls :
               WritesUnpaid(c) /\ (c.got = "captured" => payment'[c.intent] = "captured")
    PROVE  CallsAreTrue'
BY DEF CallsAreTrue, CapturesStay, TypeOK, Call

LEMMA FewerCalls ==
    ASSUME TypeOK, CallsAreTrue, CapturesStay, calls' \subseteq calls
    PROVE  CallsAreTrue'
BY CallsStep

\* A hold is given back and the session's status is, or becomes, one with the
\* same claim on the payment.
LEMMA ReleaseFacts ==
    ASSUME TypeOK, Sessions, Holds, NEW i \in Intent, NEW s \in Statuses \ {"none"},
           reservation[i] = "held", ReleaseReservationResources(i),
           status' = [status EXCEPT ![i] = s], s \in PaidStatuses => payment[i] = "captured",
           s = "initializing" => status[i] = "initializing",
           UNCHANGED <<order, payment, webhooks>>
    PROVE  Sessions' /\ Holds'
<1>1. Sessions'
  BY DEF Sessions, StatusIsPaid, EventsAreTrue, OrderIsPaid, TypeOK
<1>2. Holds'
  BY DEF Holds, OpenedHolds, HoldsHaveKeys, KeysAreUnique, RefundHoldsNothing,
         ReleaseReservationResources, TypeOK
<1> QED
  BY <1>1, <1>2

\* Only the status changes, and keeps with the payment and the hold.
LEMMA StatusFacts ==
    ASSUME TypeOK, Sessions, Holds, NEW i \in Intent, NEW s \in Statuses \ {"none", "initializing"},
           status' = [status EXCEPT ![i] = s], status[i] # "none",
           s \in PaidStatuses => payment[i] = "captured",
           s \in RefundStatuses => reservation[i] \in {"released", "consumed"},
           UNCHANGED <<reservation, activeDedupeKey, order, payment>>, webhooks' \subseteq webhooks
    PROVE  Sessions' /\ Holds' /\ CapturesStay
<1>1. Sessions' /\ CapturesStay
  BY DEF Sessions, StatusIsPaid, EventsAreTrue, OrderIsPaid, CapturesStay, TypeOK
<1>2. Holds'
  BY DEF Holds, OpenedHolds, HoldsHaveKeys, KeysAreUnique, RefundHoldsNothing, TypeOK
<1> QED
  BY <1>1, <1>2

LEMMA ReleaseIntentFacts ==
    ASSUME TypeOK, Sessions, Holds, FreshIntents, NEW i \in Intent, ReleasePaymentIntentReservation(i),
           UNCHANGED <<order, payment, webhooks>>
    PROVE  Sessions' /\ Holds'
<1>1. CASE reservation[i] = "held" /\ ReleaseReservationResources(i) /\ UNCHANGED status
  <2>1. status[i] \in Statuses \ {"none"} /\ status' = [status EXCEPT ![i] = status[i]]
    BY <1>1 DEF FreshIntents, TypeOK
  <2>2. status[i] \in PaidStatuses => payment[i] = "captured"
    BY DEF Sessions, StatusIsPaid
  <2> DEFINE s == status[i]
  <2>3. s \in Statuses \ {"none"} /\ status' = [status EXCEPT ![i] = s]
        /\ (s \in PaidStatuses => payment[i] = "captured")
        /\ (s = "initializing" => status[i] = "initializing")
    BY <2>1, <2>2
  <2> HIDE DEF s
  <2> QED
    BY <1>1, <2>3, ReleaseFacts
<1>2. CASE UNCHANGED <<resourceVars, intentVars>>
  BY <1>2, SameFacts DEF intentVars, factVars
<1> QED
  BY <1>1, <1>2 DEF ReleasePaymentIntentReservation

LEMMA QueueRefundFacts ==
    ASSUME TypeOK, Sessions, Holds, NEW i \in Intent, QueueRefundAndRelease(i),
           UNCHANGED <<order, payment, webhooks>>
    PROVE  Sessions' /\ Holds'
<1>1. CASE UNCHANGED <<resourceVars, intentVars>>
  BY <1>1, SameFacts DEF intentVars, factVars
<1>2. CASE status[i] \in RefundableStatuses /\ ~UNCHANGED <<resourceVars, intentVars>>
  <2>0. PICK s \in QueuedStatuses(i) : status' = [status EXCEPT ![i] = s]
    BY <1>2 DEF QueueRefundAndRelease
  <2>1. /\ s \in Statuses \ {"none", "initializing"} /\ s \in RefundStatuses
        /\ status[i] # "none" /\ payment[i] = "captured"
        /\ status' = [status EXCEPT ![i] = s]
    BY <1>2, <2>0 DEF QueuedStatuses, RefundableStatuses, RefundStatuses, Statuses, Sessions,
                      StatusIsPaid, PaidStatuses
  <2>2. CASE reservation[i] = "held"
    <3>1. ReleaseReservationResources(i)
      BY <1>2, <2>2 DEF QueueRefundAndRelease
    <3> QED
      BY <2>1, <2>2, <3>1, ReleaseFacts
  <2>3. CASE reservation[i] # "held"
    <3>1. UNCHANGED <<reservation, activeDedupeKey>>
      BY <1>2, <2>3 DEF QueueRefundAndRelease
    <3>2. reservation[i] \in {"released", "consumed"}
      BY <2>1, <2>3 DEF Holds, OpenedHolds, TypeOK, Reservations
    <3> QED
      BY <2>1, <3>1, <3>2, StatusFacts
  <2> QED
    BY <2>2, <2>3
<1> QED
  BY <1>1, <1>2 DEF QueueRefundAndRelease

-----------------------------------------------------------------------------
(* One lemma per kind of action *)

LEMMA OpenGuarantees ==
    ASSUME GuaranteeInv, NEW w \in Worker, NEW i \in Intent, Open(w, i)
    PROVE  Sessions' /\ CallsAreTrue' /\ Holds'
<1> USE DEF GuaranteeInv, LedgerInv
<1>1. /\ status[i] = "none" /\ reservation[i] = "none"
      /\ status' = [status EXCEPT ![i] = "initializing"]
      /\ reservation' = [reservation EXCEPT ![i] = "held"]
      /\ activeDedupeKey' = [activeDedupeKey EXCEPT ![i] = TRUE]
      /\ UNCHANGED <<order, payment, webhooks>>
  BY DEF Open, Documents, FreshIntents, providerVars
<1>2. Sessions' /\ CapturesStay
  BY <1>1 DEF Sessions, StatusIsPaid, EventsAreTrue, OrderIsPaid, CapturesStay, PaidStatuses,
             RefundStatuses, TypeOK
<1>3. OpenedHolds' /\ HoldsHaveKeys' /\ RefundHoldsNothing'
  BY <1>1 DEF Holds, OpenedHolds, HoldsHaveKeys, RefundHoldsNothing, RefundStatuses, TypeOK
<1>4. KeysAreUnique'
  <2>1. \A j \in Intent : activeDedupeKey[j] => CartOf[j] # CartOf[i]
    BY DEF Open
  <2> QED
    BY <1>1, <2>1 DEF Holds, KeysAreUnique, TypeOK
<1> DEFINE d == [CallOf(w, "initialize", i, "fetch", "none") EXCEPT !.seen = "initializing", !.held = TRUE]
<1>5. WritesUnpaid(d) /\ d.got # "captured"
  BY DEF WritesUnpaid, CallOf
<1>6. calls' = calls \union {d}
  BY DEF Open
<1>7. CallsAreTrue'
  <2> HIDE DEF d
  <2> QED
    BY <1>2, <1>5, <1>6, CallsStep
<1> QED
  BY <1>2, <1>3, <1>4, <1>7 DEF Holds

LEMMA StartsGuarantee ==
    ASSUME GuaranteeInv, NEW w \in Worker, NEW i \in Intent,
           Resume(w, i) \/ Verify(w, i) \/ Reconcile(w, i) \/ Abandon(w, i)
             \/ Refuse(w, i) \/ Sweep(w, i)
    PROVE  Sessions' /\ CallsAreTrue' /\ Holds'
<1> USE DEF GuaranteeInv, LedgerInv
<1>1. UNCHANGED factVars /\ UNCHANGED webhooks
  BY DEF Resume, Verify, Reconcile, Abandon, Refuse, Sweep, factVars, intentVars, providerVars
<1>2. Sessions' /\ Holds' /\ CapturesStay
  BY <1>1, SameFacts
<1>3. PICK op \in {"initialize", "confirm", "abandon", "resume", "sweep", "refuse"}, pc \in {"fetch", "finish"} :
        /\ Start(w, op, i, pc)
        /\ op # "initialize" /\ pc = "fetch" => status[i] \in {"created", "authorized", "failed"}
  BY DEF Resume, Verify, Reconcile, Abandon, Refuse, Sweep
<1> DEFINE d == CallOf(w, op, i, pc, "none")
<1>4. WritesUnpaid(d) /\ d.got # "captured"
  BY <1>3 DEF WritesUnpaid, CallOf
<1>5. calls' = calls \union {d}
  BY <1>3 DEF Start
<1>6. CallsAreTrue'
  <2> HIDE DEF d
  <2> QED
    BY <1>2, <1>4, <1>5, CallsStep
<1> QED
  BY <1>2, <1>6

LEMMA WebhookGuarantees ==
    ASSUME GuaranteeInv, NEW w \in Worker, NEW h \in webhooks, AcceptWebhook(w, h)
    PROVE  Sessions' /\ CallsAreTrue' /\ Holds'
<1> USE DEF GuaranteeInv, LedgerInv
<1>1. UNCHANGED factVars /\ webhooks' \subseteq webhooks
  BY DEF AcceptWebhook, factVars, intentVars
<1>2. Sessions' /\ Holds' /\ CapturesStay
  BY <1>1, SameFacts
<1> DEFINE d == [CallOf(w, "webhook", h.intent, "mark", h.event) EXCEPT !.got = EventStatus(h.event)]
<1>3. h.event \in Events /\ h.intent \in Intent
  BY DEF TypeOK, Webhook
<1>4. d.intent = h.intent /\ d.op = "webhook" /\ d.got = EventStatus(h.event)
  BY DEF CallOf
<1>5. WritesUnpaid(d) /\ (d.got = "captured" => payment'[d.intent] = "captured")
  BY <1>1, <1>3, <1>4 DEF WritesUnpaid, EventStatus, Events, Sessions, EventsAreTrue, factVars
<1>6. calls' \subseteq calls \union {d}
  BY DEF AcceptWebhook
<1>7. CallsAreTrue'
  <2> HIDE DEF d
  <2> QED
    BY <1>2, <1>5, <1>6, CallsStep
<1> QED
  BY <1>2, <1>7

LEMMA InitializeGuarantees ==
    ASSUME GuaranteeInv, NEW c \in calls,
           AttachProviderOrder(c) \/ FailInitialization(c) \/ ReleaseUninitialized(c)
    PROVE  Sessions' /\ CallsAreTrue' /\ Holds'
<1> USE DEF GuaranteeInv, LedgerInv
<1>1. c \in Call /\ c.intent \in Intent
  BY DEF TypeOK, Call
<1>2. CASE AttachProviderOrder(c)
  <2>1. CASE UNCHANGED <<intentVars, payment>>
    <3>1. UNCHANGED factVars /\ webhooks' \subseteq webhooks /\ calls' \subseteq calls
      BY <1>2, <2>1 DEF AttachProviderOrder, Return, intentVars, factVars
    <3> QED
      BY <3>1, SameFacts, FewerCalls
  <2>2. CASE /\ status[c.intent] = "initializing"
             /\ SetStatus(c.intent, "created")
             /\ payment' = [payment EXCEPT ![c.intent] = "open"]
    <3>1. UNCHANGED <<reservation, activeDedupeKey, order, webhooks>> /\ calls' \subseteq calls
          /\ status' = [status EXCEPT ![c.intent] = "created"]
      BY <1>2, <2>2 DEF AttachProviderOrder, Return, SetStatus
    <3>2. payment[c.intent] # "captured"
      BY <1>1, <2>2 DEF Sessions, StatusIsPaid
    <3>3. Sessions' /\ CapturesStay
      BY <1>1, <2>2, <3>1, <3>2 DEF Sessions, StatusIsPaid, EventsAreTrue, OrderIsPaid, CapturesStay,
                                    PaidStatuses, RefundStatuses, TypeOK, Webhook
    <3>4. Holds'
      BY <1>1, <2>2, <3>1 DEF Holds, OpenedHolds, HoldsHaveKeys, KeysAreUnique, RefundHoldsNothing,
                              RefundStatuses, TypeOK
    <3> QED
      BY <3>1, <3>3, <3>4, FewerCalls
  <2> QED
    BY <1>2, <2>1, <2>2 DEF AttachProviderOrder
<1>3. CASE FailInitialization(c)
  <2>1. Sessions' /\ Holds' /\ CapturesStay
    <3>1. CASE UNCHANGED intentVars
      BY <1>3, <3>1, SameFacts DEF FailInitialization, intentVars, factVars, providerVars
    <3>2. CASE status[c.intent] = "initializing" /\ SetStatus(c.intent, "failed")
      <4>1. "failed" \in Statuses \ {"none", "initializing"} /\ "failed" \notin PaidStatuses
        BY DEF Statuses, PaidStatuses, RefundStatuses
      <4> QED
        BY <1>1, <1>3, <3>2, <4>1, StatusFacts
           DEF FailInitialization, SetStatus, providerVars, PaidStatuses
    <3> QED
      BY <1>3, <3>1, <3>2 DEF FailInitialization
  <2> DEFINE d == [c EXCEPT !.pc = "finish"]
  <2>2. WritesUnpaid(d) /\ d.got = c.got /\ d.intent = c.intent
    BY <1>1, <1>3 DEF FailInitialization, WritesUnpaid, Call
  <2>3. calls' \subseteq calls \union {d}
    BY <1>3 DEF FailInitialization, Advance
  <2>4. CallsAreTrue'
    <3>1. d.got = "captured" => payment'[d.intent] = "captured"
      BY <1>1, <2>1, <2>2 DEF CallsAreTrue, CapturesStay
    <3> HIDE DEF d
    <3> QED
      BY <2>1, <2>2, <2>3, <3>1, CallsStep
  <2> QED
    BY <2>1, <2>4
<1>4. CASE ReleaseUninitialized(c)
  <2>1. Sessions' /\ Holds' /\ calls' \subseteq calls /\ UNCHANGED payment
    BY <1>1, <1>4, ReleaseIntentFacts DEF ReleaseUninitialized, Return, providerVars, Documents
  <2> QED
    BY <2>1, FewerCalls DEF CapturesStay
<1> QED
  BY <1>2, <1>3, <1>4

LEMMA FetchGuarantees ==
    ASSUME GuaranteeInv, NEW c \in calls, Fetch(c) \/ FetchError(c)
    PROVE  Sessions' /\ CallsAreTrue' /\ Holds'
<1> USE DEF GuaranteeInv, LedgerInv
<1>1. UNCHANGED factVars /\ webhooks' \subseteq webhooks
  BY DEF Fetch, FetchError, factVars, intentVars, providerVars
<1>2. Sessions' /\ Holds' /\ CapturesStay
  BY <1>1, SameFacts
<1> DEFINE d1 == [c EXCEPT !.pc = "finish"]
           d2 == [c EXCEPT !.pc = "mark", !.got = payment[c.intent]]
<1>3. c \in Call /\ c.op # "initialize" /\ c.pc = "fetch" /\ c.op # "webhook"
  BY DEF Fetch, FetchError, TypeOK, CallsRemember
<1>4. /\ d1.op = c.op /\ d1.seen = c.seen /\ d1.intent = c.intent /\ d1.got = c.got /\ d1.pc = "finish"
      /\ d2.op = c.op /\ d2.seen = c.seen /\ d2.intent = c.intent /\ d2.got = payment[c.intent]
  BY <1>3 DEF Call
<1>5. /\ WritesUnpaid(d1) /\ (d1.got = "captured" => payment[d1.intent] = "captured")
      /\ WritesUnpaid(d2) /\ (d2.got = "captured" => payment[d2.intent] = "captured")
  BY <1>3, <1>4 DEF WritesUnpaid, CallsAreTrue
<1>6. calls' \subseteq calls \union {d1, d2} /\ UNCHANGED payment
  BY DEF Fetch, FetchError, Advance, Return, providerVars
<1>7. CallsAreTrue'
  <2> HIDE DEF d1, d2
  <2> QED
    BY <1>2, <1>5, <1>6, CallsStep
<1> QED
  BY <1>2, <1>7

LEMMA MarkGuarantees ==
    ASSUME GuaranteeInv, NEW c \in calls, Mark(c)
    PROVE  Sessions' /\ CallsAreTrue' /\ Holds'
<1> USE DEF GuaranteeInv, LedgerInv
<1>1. c \in Call /\ c.intent \in Intent /\ c.pc = "mark"
  BY DEF TypeOK, Call, Mark
<1>2. UNCHANGED <<order, payment>> /\ webhooks' \subseteq webhooks
  BY DEF Mark
<1>3. c.got = "captured" => payment[c.intent] = "captured"
  BY DEF CallsAreTrue
<1>4. WritesUnpaid(c)
  BY DEF CallsAreTrue
<1>5. Markable(c.intent) => status[c.intent] \in {"initializing", "created", "authorized", "verified", "failed"}
  BY <1>1 DEF Markable, Settled, FreshIntents, Documents, TypeOK, Statuses, RefundStatuses
<1>6. Sessions' /\ Holds' /\ CapturesStay
  <2>1. CASE RecordCapture(c)
    <3>1. "verified" \in Statuses \ {"none", "initializing"} /\ "verified" \notin RefundStatuses
      BY DEF Statuses, RefundStatuses
    <3> QED
      BY <1>1, <1>2, <1>3, <1>5, <2>1, <3>1, StatusFacts DEF RecordCapture
  <2>2. CASE RefundLateCapture(c)
    <3>1. "refund_pending" \in Statuses \ {"none", "initializing"}
      BY DEF Statuses
    <3> QED
      BY <1>1, <1>2, <1>3, <2>2, <3>1, StatusFacts DEF RefundLateCapture, SetStatus
  <2>3. CASE RecordUncaptured(c)
    <3> DEFINE s == IF c.got = "authorized" THEN "authorized" ELSE c.seen
    <3>1. c.got \in {"authorized", "failed", "open", "noorder"}
      BY <1>1, <2>3 DEF RecordUncaptured, Call, PaymentStatuses
    <3>2. s \in {"created", "authorized", "failed"}
      BY <1>1, <1>4, <3>1, <2>3 DEF WritesUnpaid, CallsRemember, RecordUncaptured
    <3>3. /\ s \in Statuses \ {"none", "initializing"} /\ s \notin PaidStatuses /\ s \notin RefundStatuses
      BY <3>2 DEF Statuses, PaidStatuses, RefundStatuses
    <3>4. status' = [status EXCEPT ![c.intent] = s] /\ status[c.intent] # "none"
          /\ UNCHANGED <<reservation, activeDedupeKey>>
      BY <1>5, <2>3 DEF RecordUncaptured
    <3> HIDE DEF s
    <3> QED
      BY <1>1, <1>2, <3>3, <3>4, StatusFacts
  <2>4. CASE RecordNothing(c)
    BY <1>2, <2>4, SameFacts DEF RecordNothing, intentVars, factVars
  <2> QED
    BY <2>1, <2>2, <2>3, <2>4 DEF Mark
<1> DEFINE d == [c EXCEPT !.pc = "finish",
                          !.seen = status'[c.intent],
                          !.held = reservation'[c.intent] = "held",
                          !.dated = authorizedAt'[c.intent] # "unset"]
<1>7. CASE calls' \subseteq calls
  BY <1>6, <1>7, FewerCalls
<1>8. CASE c.op \notin {"confirm", "webhook"} /\ calls' \subseteq calls \union {d}
  <2>1. d.op = c.op /\ d.pc = "finish" /\ d.got = c.got /\ d.intent = c.intent
    BY <1>1 DEF Call
  <2>2. WritesUnpaid(d) /\ (d.got = "captured" => payment'[d.intent] = "captured")
    BY <1>2, <1>3, <1>8, <2>1 DEF WritesUnpaid
  <2> HIDE DEF d
  <2>3. CallsAreTrue'
    BY <1>6, <1>8, <2>2, CallsStep
  <2> QED
    BY <1>6, <2>3
<1>9. calls' \subseteq calls \/ (c.op \notin {"confirm", "webhook"} /\ calls' \subseteq calls \union {d})
  BY DEF Mark, Return, Advance
<1> QED
  BY <1>7, <1>8, <1>9

LEMMA FinishGuarantees ==
    ASSUME GuaranteeInv, NEW c \in calls,
           FinishResume(c) \/ FinishRefuse(c) \/ ReleaseExpired(c) \/ RefundExpired(c) \/ SkipJob(c)
    PROVE  Sessions' /\ CallsAreTrue' /\ Holds'
<1> USE DEF GuaranteeInv, LedgerInv
<1>1. c.intent \in Intent
  BY DEF TypeOK, Call
<1>2. UNCHANGED <<order, payment, webhooks>> /\ calls' \subseteq calls
  BY DEF FinishResume, FinishRefuse, ReleaseExpired, RefundExpired, SkipJob, Return, providerVars
<1>3. \/ ReleasePaymentIntentReservation(c.intent)
      \/ QueueRefundAndRelease(c.intent)
      \/ UNCHANGED intentVars
  BY DEF FinishResume, FinishRefuse, ReleaseExpired, RefundExpired, SkipJob
<1>4. CASE UNCHANGED intentVars
  BY <1>2, <1>4, SameFacts, FewerCalls DEF intentVars, factVars
<1>5. CASE ReleasePaymentIntentReservation(c.intent) \/ QueueRefundAndRelease(c.intent)
  <2>1. Sessions' /\ Holds'
    BY <1>1, <1>2, <1>5, ReleaseIntentFacts, QueueRefundFacts DEF Documents
  <2> QED
    BY <1>2, <2>1, FewerCalls DEF CapturesStay
<1> QED
  BY <1>3, <1>4, <1>5

LEMMA FinishAbandonGuarantees ==
    ASSUME GuaranteeInv, NEW c \in calls, FinishAbandon(c)
    PROVE  Sessions' /\ CallsAreTrue' /\ Holds'
<1> USE DEF GuaranteeInv, LedgerInv
<1>1. c.intent \in Intent
  BY DEF TypeOK, Call
<1>2. UNCHANGED <<order, payment, webhooks>> /\ calls' \subseteq calls
  BY DEF FinishAbandon, Return, providerVars
<1>3. "failed" \in Statuses \ {"none"} /\ "failed" \notin PaidStatuses
  BY DEF Statuses, PaidStatuses, RefundStatuses
<1>4. Sessions' /\ Holds'
  <2>1. CASE UNCHANGED intentVars
    BY <1>2, <2>1, SameFacts DEF intentVars, factVars
  <2>2. CASE /\ reservation[c.intent] = "held" /\ ReleaseReservationResources(c.intent)
             /\ status' = [status EXCEPT ![c.intent] = "failed"]
    BY <1>1, <1>2, <1>3, <2>2, ReleaseFacts
  <2>3. CASE /\ status[c.intent] \in {"created", "failed"}
             /\ reservation[c.intent] = "released" /\ UNCHANGED reservation
             /\ activeDedupeKey' = [activeDedupeKey EXCEPT ![c.intent] = FALSE]
             /\ status' = [status EXCEPT ![c.intent] = "failed"]
    <3>1. Sessions'
      BY <1>1, <1>2, <1>3, <2>3 DEF Sessions, StatusIsPaid, EventsAreTrue, OrderIsPaid, TypeOK
    <3>2. Holds'
      BY <1>1, <1>2, <1>3, <2>3 DEF Holds, OpenedHolds, HoldsHaveKeys, KeysAreUnique,
                                    RefundHoldsNothing, PaidStatuses, TypeOK
    <3> QED
      BY <3>1, <3>2
  <2> QED
    BY <2>1, <2>2, <2>3 DEF FinishAbandon
<1> QED
  BY <1>2, <1>4, FewerCalls DEF CapturesStay

LEMMA ExtendGuarantees ==
    ASSUME GuaranteeInv, NEW c \in calls, ExtendAuthorized(c)
    PROVE  Sessions' /\ CallsAreTrue' /\ Holds'
<1> USE DEF GuaranteeInv, LedgerInv
<1>1. UNCHANGED factVars /\ webhooks' \subseteq webhooks /\ calls' \subseteq calls
  BY DEF ExtendAuthorized, Return, factVars, providerVars
<1> QED
  BY <1>1, SameFacts, FewerCalls

LEMMA CreateOrderGuarantees ==
    ASSUME GuaranteeInv, NEW i \in Intent, CreateOrder(i)
    PROVE  Sessions' /\ CallsAreTrue' /\ Holds'
<1> USE DEF GuaranteeInv, LedgerInv
<1>1. /\ status[i] = "verified"
      /\ status' = [status EXCEPT ![i] = "consumed"]
      /\ reservation' = [reservation EXCEPT ![i] = "consumed"]
      /\ activeDedupeKey' = [activeDedupeKey EXCEPT ![i] = FALSE]
      /\ order' = [order EXCEPT ![i] = "placed"]
      /\ UNCHANGED <<payment, webhooks, calls>>
  BY DEF CreateOrder, providerVars, callVars
<1>2. payment[i] = "captured"
  BY <1>1 DEF Sessions, StatusIsPaid, PaidStatuses
<1>3. Sessions'
  BY <1>1, <1>2 DEF Sessions, StatusIsPaid, EventsAreTrue, OrderIsPaid, TypeOK, Purchase
<1>4. Holds'
  BY <1>1 DEF Holds, OpenedHolds, HoldsHaveKeys, KeysAreUnique, RefundHoldsNothing,
              RefundStatuses, TypeOK
<1> QED
  BY <1>1, <1>3, <1>4, FewerCalls DEF CapturesStay

LEMMA PlaceCodOrderGuarantees ==
    ASSUME GuaranteeInv, NEW c \in Cod, PlaceCodOrder(c)
    PROVE  Sessions' /\ CallsAreTrue' /\ Holds'
<1> USE DEF GuaranteeInv, LedgerInv
<1>1. UNCHANGED <<status, reservation, activeDedupeKey, payment, webhooks, calls>>
  BY DEF PlaceCodOrder, intentVars, providerVars, callVars
<1>2. \A i \in Intent : order'[i] = order[i]
  BY PurchaseAssumption DEF PlaceCodOrder, TypeOK, Purchase
<1>3. Sessions' /\ Holds'
  BY <1>1, <1>2 DEF Sessions, StatusIsPaid, EventsAreTrue, OrderIsPaid, Holds, OpenedHolds,
                    HoldsHaveKeys, KeysAreUnique, RefundHoldsNothing
<1> QED
  BY <1>1, <1>3, FewerCalls DEF CapturesStay

LEMMA CancelOrderGuarantees ==
    ASSUME GuaranteeInv, NEW c \in Purchase, CancelOrder(c)
    PROVE  Sessions' /\ CallsAreTrue' /\ Holds'
<1> USE DEF GuaranteeInv, LedgerInv
<1>1. UNCHANGED <<reservation, activeDedupeKey, payment, webhooks, calls>>
  BY DEF CancelOrder, SetStatus, intentVars, providerVars, callVars
<1>2. order[c] = "placed" /\ order' = [order EXCEPT ![c] = "cancelled"]
  BY DEF CancelOrder
<1>3. CASE UNCHANGED status
  <2>1. Sessions' /\ Holds'
    BY <1>1, <1>2, <1>3 DEF Sessions, StatusIsPaid, EventsAreTrue, OrderIsPaid, Holds, OpenedHolds,
                            HoldsHaveKeys, KeysAreUnique, RefundHoldsNothing, TypeOK
  <2> QED
    BY <1>1, <2>1, FewerCalls DEF CapturesStay
<1>4. CASE c \in Intent /\ \E s \in {"refund_pending", "refunded"} : status' = [status EXCEPT ![c] = s]
  <2>1. PICK s \in {"refund_pending", "refunded"} : status' = [status EXCEPT ![c] = s]
    BY <1>4
  <2>2. payment[c] = "captured" /\ reservation[c] = "consumed" /\ s \in RefundStatuses
    BY <1>2, <1>4 DEF Sessions, OrderIsPaid, Documents, OrdersConsume, RefundStatuses
  <2>3. Sessions'
    BY <1>1, <1>2, <1>4, <2>1, <2>2 DEF Sessions, StatusIsPaid, EventsAreTrue, OrderIsPaid, TypeOK
  <2>4. Holds'
    BY <1>1, <1>4, <2>1, <2>2 DEF Holds, OpenedHolds, HoldsHaveKeys, KeysAreUnique,
                                  RefundHoldsNothing, TypeOK
  <2> QED
    BY <1>1, <2>3, <2>4, FewerCalls DEF CapturesStay
<1> QED
  BY <1>3, <1>4 DEF CancelOrder, SetStatus, intentVars

LEMMA WorldGuarantees ==
    ASSUME GuaranteeInv,
           \/ \E i \in Intent : RefundJob(i) \/ Expire(i) \/ AuthorizationLapses(i)
           \/ \E i \in Intent, s \in {"authorized", "captured", "failed"} : Pay(i, s)
           \/ \E c \in calls : Crash(c)
           \/ UNCHANGED vars
    PROVE  Sessions' /\ CallsAreTrue' /\ Holds'
<1> USE DEF GuaranteeInv, LedgerInv
<1>1. CASE \/ \E i \in Intent : Expire(i) \/ AuthorizationLapses(i)
           \/ \E c \in calls : Crash(c)
           \/ UNCHANGED vars
  <2>1. UNCHANGED factVars /\ webhooks' \subseteq webhooks /\ calls' \subseteq calls
    BY <1>1 DEF Expire, AuthorizationLapses, Crash, vars, factVars, intentVars, providerVars, callVars
  <2> QED
    BY <2>1, SameFacts, FewerCalls
<1>2. ASSUME NEW i \in Intent, RefundJob(i)
      PROVE  Sessions' /\ CallsAreTrue' /\ Holds'
  <2>1. PICK s \in RefundStatuses : SetStatus(i, s)
    BY <1>2 DEF RefundJob
  <2>2. s \in Statuses \ {"none", "initializing"} /\ payment[i] = "captured" /\ status[i] # "none"
    BY <1>2 DEF RefundJob, RefundStatuses, Statuses, Sessions, StatusIsPaid, PaidStatuses
  <2>3. /\ UNCHANGED <<reservation, activeDedupeKey, order, payment, webhooks, calls>>
        /\ status' = [status EXCEPT ![i] = s] /\ reservation[i] \in {"released", "consumed"}
    BY <1>2, <2>1 DEF RefundJob, SetStatus, providerVars, callVars
  <2> QED
    BY <2>2, <2>3, StatusFacts, FewerCalls
<1>3. ASSUME NEW i \in Intent, NEW s \in {"authorized", "captured", "failed"}, Pay(i, s)
      PROVE  Sessions' /\ CallsAreTrue' /\ Holds'
  <2>1. /\ UNCHANGED <<status, reservation, activeDedupeKey, order, calls>>
        /\ payment[i] \in {"open", "failed", "authorized"} /\ payment' = [payment EXCEPT ![i] = s]
        /\ webhooks' = webhooks \union {[intent |-> i, event |-> e] : e \in WebhooksOf(s)}
    BY <1>3 DEF Pay, intentVars, callVars
  <2>2. CapturesStay
    BY <2>1 DEF CapturesStay, TypeOK
  <2>3. StatusIsPaid' /\ OrderIsPaid'
    BY <2>1 DEF Sessions, StatusIsPaid, OrderIsPaid, TypeOK
  <2>4. EventsAreTrue'
    <3>1. \A h \in webhooks : h.intent \in Intent
      BY DEF TypeOK, Webhook
    <3>2. \A h \in webhooks' \ webhooks :
             h.intent = i /\ (h.event \in {"payment.captured", "order.paid"} => s = "captured")
      BY <2>1 DEF WebhooksOf
    <3> QED
      BY <2>1, <2>2, <3>1, <3>2 DEF Sessions, EventsAreTrue, CapturesStay, TypeOK
  <2>5. Holds'
    BY <2>1 DEF Holds, OpenedHolds, HoldsHaveKeys, KeysAreUnique, RefundHoldsNothing
  <2> QED
    BY <2>1, <2>2, <2>3, <2>4, <2>5, FewerCalls DEF Sessions
<1> QED
  BY <1>1, <1>2, <1>3

-----------------------------------------------------------------------------
(* The theorems *)

LEMMA GuaranteeInit == Init => Sessions /\ CallsAreTrue /\ Holds
BY DEF Init, Sessions, StatusIsPaid, EventsAreTrue, OrderIsPaid, CallsAreTrue, Holds, OpenedHolds,
       HoldsHaveKeys, KeysAreUnique, RefundHoldsNothing, PaidStatuses, RefundStatuses, Purchase

LEMMA GuaranteeNext ==
    ASSUME GuaranteeInv, [Next]_vars
    PROVE  Sessions' /\ CallsAreTrue' /\ Holds'
<1>1. ASSUME NEW w \in Worker, NEW i \in Intent, Request(w, i) \/ Sweep(w, i)
      PROVE  Sessions' /\ CallsAreTrue' /\ Holds'
  BY <1>1, OpenGuarantees, StartsGuarantee DEF Request
<1>2. ASSUME NEW w \in Worker, NEW h \in webhooks, AcceptWebhook(w, h)
      PROVE  Sessions' /\ CallsAreTrue' /\ Holds'
  BY <1>2, WebhookGuarantees
<1>3. ASSUME NEW c \in calls, Handle(c)
      PROVE  Sessions' /\ CallsAreTrue' /\ Holds'
  BY <1>3, InitializeGuarantees, FetchGuarantees, MarkGuarantees, FinishGuarantees,
     FinishAbandonGuarantees, ExtendGuarantees DEF Handle
<1> QED
  BY <1>1, <1>2, <1>3, CreateOrderGuarantees, PlaceCodOrderGuarantees, CancelOrderGuarantees,
     WorldGuarantees DEF Next

\* The invariant the guarantees follow from: what sessions, provider events, calls
\* in flight and holds say about one another.
THEOREM GuaranteeInvariant == Spec => []GuaranteeInv
<1>1. Init => Sessions /\ CallsAreTrue /\ Holds
  BY GuaranteeInit
<1>2. GuaranteeInv /\ [Next]_vars => (Sessions /\ CallsAreTrue /\ Holds)'
  BY GuaranteeNext
<1>3. LedgerInv /\ (Sessions /\ CallsAreTrue /\ Holds) => GuaranteeInv
  BY DEF GuaranteeInv
<1> QED
  BY <1>1, <1>2, <1>3, LedgerInvariant, PTL DEF Spec

\* An order of an online session stands for a captured payment.
THEOREM EveryOrderIsPaid == Spec => []OrderIsPaid
<1>1. GuaranteeInv => OrderIsPaid
  BY DEF GuaranteeInv, Sessions
<1> QED
  BY <1>1, GuaranteeInvariant, PTL

\* The same cart is never held twice.
THEOREM CartIsHeldOnce == Spec => []OneHoldPerCart
<1>1. GuaranteeInv => OneHoldPerCart
  BY DEF GuaranteeInv, Holds, HoldsHaveKeys, KeysAreUnique, OneHoldPerCart, Held
<1> QED
  BY <1>1, GuaranteeInvariant, PTL

\* A payment on its way back holds nothing.
THEOREM RefundReleasesHold == Spec => []RefundHoldsNothing
<1>1. GuaranteeInv => RefundHoldsNothing
  BY DEF GuaranteeInv, Holds
<1> QED
  BY <1>1, GuaranteeInvariant, PTL

-----------------------------------------------------------------------------
(* What a step may do to the hold of a captured payment *)

CapturedKept(i) ==
    status[i] = "verified" /\ reservation[i] = "held" /\ reservation'[i] # "held"
        => status'[i] \in {"consumed", "refund_pending"}

LEMMA ReleaseSparesCapture ==
    ASSUME TypeOK, NEW j \in Intent,
           ReleasePaymentIntentReservation(j) \/ QueueRefundAndRelease(j)
    PROVE  \A i \in Intent : CapturedKept(i)
<1>1. CASE ReleasePaymentIntentReservation(j)
  BY <1>1 DEF ReleasePaymentIntentReservation, ReleaseReservationResources, ReleasableStatuses,
              CapturedKept, intentVars, TypeOK
<1>2. CASE QueueRefundAndRelease(j)
  BY <1>2 DEF QueueRefundAndRelease, QueuedStatuses, ReleaseReservationResources, CapturedKept,
              intentVars, TypeOK
<1> QED
  BY <1>1, <1>2

LEMMA StepKeepsCapture ==
    ASSUME TypeOK, [Next]_vars, NEW i \in Intent
    PROVE  CapturedKept(i)
<1>1. CASE UNCHANGED reservation
  BY <1>1 DEF CapturedKept
<1>2. CASE \E w \in Worker, j \in Intent : Open(w, j)
  BY <1>2 DEF Open, CapturedKept, TypeOK
<1>3. CASE \E j \in Intent : ReleasePaymentIntentReservation(j) \/ QueueRefundAndRelease(j)
  BY <1>3, ReleaseSparesCapture
<1>4. CASE \E c \in calls : FinishAbandon(c)
  BY <1>4 DEF FinishAbandon, ReleaseReservationResources, CapturedKept, intentVars, TypeOK
<1>5. CASE \E j \in Intent : CreateOrder(j)
  BY <1>5 DEF CreateOrder, CapturedKept, TypeOK
<1>6. ASSUME NEW c \in calls, Handle(c), ~UNCHANGED reservation
      PROVE  \/ FinishAbandon(c)
             \/ ReleasePaymentIntentReservation(c.intent) \/ QueueRefundAndRelease(c.intent)
  BY <1>6 DEF Handle, AttachProviderOrder, FailInitialization, ReleaseUninitialized, Fetch, FetchError,
              Mark, RecordCapture, RefundLateCapture, RecordUncaptured, RecordNothing, FinishResume,
              FinishRefuse, ExtendAuthorized, ReleaseExpired, RefundExpired, SkipJob, SetStatus,
              intentVars
<1>7. ASSUME ~UNCHANGED reservation
      PROVE  \/ \E w \in Worker, j \in Intent : Open(w, j)
             \/ \E j \in Intent : CreateOrder(j)
             \/ \E c \in calls : Handle(c)
  <2>1. UNCHANGED vars => UNCHANGED reservation
    BY DEF vars, intentVars
  <2>2. \A w \in Worker, j \in Intent : Request(w, j) \/ Sweep(w, j) => Open(w, j) \/ UNCHANGED reservation
    BY DEF Request, Resume, Verify, Reconcile, Abandon, Refuse, Sweep, intentVars
  <2>3. \A w \in Worker, h \in webhooks : AcceptWebhook(w, h) => UNCHANGED reservation
    BY DEF AcceptWebhook, intentVars
  <2>4. \A j \in Intent : RefundJob(j) \/ Expire(j) \/ AuthorizationLapses(j) => UNCHANGED reservation
    BY DEF RefundJob, Expire, AuthorizationLapses, SetStatus
  <2>5. \A j \in Intent, s \in {"authorized", "captured", "failed"} : Pay(j, s) => UNCHANGED reservation
    BY DEF Pay, intentVars
  <2>6. \A c \in Purchase : CancelOrder(c) => UNCHANGED reservation
    BY DEF CancelOrder, SetStatus, intentVars
  <2>7. (\A c \in Cod : PlaceCodOrder(c) => UNCHANGED reservation)
        /\ (\A c \in calls : Crash(c) => UNCHANGED reservation)
    BY DEF PlaceCodOrder, Crash, intentVars
  <2> QED
    BY <1>7, <2>1, <2>2, <2>3, <2>4, <2>5, <2>6, <2>7 DEF Next
<1>8. \A c \in calls : c.intent \in Intent
  BY DEF TypeOK, Call
<1> QED
  BY <1>1, <1>2, <1>3, <1>4, <1>5, <1>6, <1>7, <1>8

\* A captured payment never loses its hold to a timeout or an abandonment.
THEOREM CapturedKeepsHold == Spec => CapturedHoldIsKept
<1>1. TypeOK /\ [Next]_vars =>
        [\A i \in Intent :
           status[i] = "verified" /\ reservation[i] = "held" /\ reservation'[i] # "held"
              => status'[i] \in {"consumed", "refund_pending"}]_vars
  BY StepKeepsCapture DEF CapturedKept
<1> QED
  BY <1>1, TypeCorrect, PTL DEF Spec, CapturedHoldIsKept

-----------------------------------------------------------------------------
(* How far two stale writes go.  A recorded capture may be taken back, and  *)
(* the payment of an order that stands may be refunded, against what the    *)
(* documentation says; here is all that can do it.                          *)

\* markIntentFromPayment at work on i, by what the call c learned.
MarkMoves(c, i) ==
    /\ c.intent = i /\ Mark(c)
    /\ status[i] \notin Settled /\ payment'[i] = payment[i]
    /\ \/ reservation'[i] = "held" /\ c.got = "captured" /\ status'[i] = "verified"
       \/ /\ reservation'[i] = "held" /\ c.got # "captured"
          /\ status'[i] = IF c.got = "authorized" THEN "authorized" ELSE c.seen
       \/ reservation[i] = "released" /\ status'[i] \in RefundStatuses

\* A refund decided by a failed createOrder request or by the sweep.
DecisionMoves(c, i) ==
    /\ c.intent = i /\ (FinishRefuse(c) \/ RefundExpired(c))
    /\ status[i] \in {"verified", "consumed"} /\ status'[i] = "refund_pending"

\* All that a step may do to the status of a session.
StatusMoves(i) ==
    \/ status'[i] = status[i]
    \/ status[i] \in {"none", "initializing", "created", "failed"}
         /\ status'[i] \in {"initializing", "created", "failed"} /\ order'[i] = order[i]
    \/ status[i] = "verified" /\ status'[i] = "consumed"
    \/ order'[i] = "cancelled" /\ status'[i] \in RefundStatuses
    \/ status[i] \in RefundStatuses /\ status'[i] \in RefundStatuses
    \/ \E c \in calls : (MarkMoves(c, i) \/ DecisionMoves(c, i)) /\ order'[i] = order[i]

\* An order's payment is consumed, or on its way back.
OrdersAreSettled == \A i \in Intent : order[i] # "none" => status[i] \in Settled

LEMMA RequestMovesStatus ==
    ASSUME TypeOK, NEW w \in Worker, NEW j \in Intent, Request(w, j) \/ Sweep(w, j), NEW i \in Intent
    PROVE  StatusMoves(i) /\ order'[i] = order[i]
<1>1. CASE Open(w, j)
  BY <1>1 DEF Open, StatusMoves, TypeOK
<1>2. CASE ~Open(w, j)
  BY <1>2 DEF Request, Resume, Verify, Reconcile, Abandon, Refuse, Sweep, intentVars, StatusMoves
<1> QED
  BY <1>1, <1>2

LEMMA MarkMovesStatus ==
    ASSUME TypeOK, NEW c \in calls, Mark(c), NEW i \in Intent
    PROVE  StatusMoves(i) /\ order'[i] = order[i]
<1>1. c.intent \in Intent /\ order' = order /\ payment' = payment
  BY DEF Mark, TypeOK, Call
<1>2. CASE RecordCapture(c)
  BY <1>1, <1>2 DEF RecordCapture, Markable, MarkMoves, StatusMoves, TypeOK
<1>3. CASE RefundLateCapture(c)
  BY <1>1, <1>3 DEF RefundLateCapture, SetStatus, MarkMoves, StatusMoves, Settled, RefundStatuses, TypeOK
<1>4. CASE RecordUncaptured(c)
  BY <1>1, <1>4 DEF RecordUncaptured, Markable, MarkMoves, StatusMoves, TypeOK
<1>5. CASE RecordNothing(c)
  BY <1>1, <1>5 DEF RecordNothing, intentVars, StatusMoves
<1> QED
  BY <1>2, <1>3, <1>4, <1>5 DEF Mark

LEMMA DecisionMovesStatus ==
    ASSUME TypeOK, NEW c \in calls, FinishRefuse(c) \/ RefundExpired(c), NEW i \in Intent
    PROVE  StatusMoves(i) /\ order'[i] = order[i]
<1>1. c.intent \in Intent /\ order' = order /\ QueueRefundAndRelease(c.intent)
  BY DEF FinishRefuse, RefundExpired, SweepStep, TypeOK, Call
<1>2. CASE status[c.intent] \in RefundableStatuses
  BY <1>1, <1>2 DEF QueueRefundAndRelease, QueuedStatuses, RefundableStatuses, DecisionMoves, StatusMoves,
                    RefundStatuses, TypeOK
<1>3. CASE status[c.intent] \notin RefundableStatuses
  BY <1>1, <1>3 DEF QueueRefundAndRelease, intentVars, StatusMoves
<1> QED
  BY <1>2, <1>3

LEMMA HandlersMoveStatus ==
    ASSUME TypeOK, NEW c \in calls, Handle(c), NEW i \in Intent
    PROVE  StatusMoves(i) /\ order'[i] = order[i]
<1>1. c.intent \in Intent
  BY DEF TypeOK, Call
<1>2. CASE AttachProviderOrder(c) \/ FailInitialization(c)
  BY <1>1, <1>2 DEF AttachProviderOrder, FailInitialization, SetStatus, intentVars, StatusMoves, TypeOK
<1>3. CASE FinishAbandon(c)
  BY <1>1, <1>3 DEF FinishAbandon, intentVars, providerVars, StatusMoves, TypeOK
<1>4. CASE ReleaseUninitialized(c) \/ FinishResume(c) \/ ReleaseExpired(c)
  BY <1>4 DEF ReleaseUninitialized, FinishResume, ReleaseExpired, ReleasePaymentIntentReservation,
              intentVars, StatusMoves
<1>5. CASE Fetch(c) \/ FetchError(c) \/ ExtendAuthorized(c) \/ SkipJob(c)
  BY <1>5 DEF Fetch, FetchError, ExtendAuthorized, SkipJob, intentVars, StatusMoves
<1> QED
  BY <1>2, <1>3, <1>4, <1>5, MarkMovesStatus, DecisionMovesStatus DEF Handle

LEMMA OrdersMoveStatus ==
    ASSUME TypeOK, NEW i \in Intent,
           \/ \E j \in Intent : CreateOrder(j)
           \/ \E c \in Cod : PlaceCodOrder(c)
           \/ \E c \in Purchase : CancelOrder(c)
    PROVE  /\ StatusMoves(i)
           /\ order'[i] # order[i] => status'[i] \in Settled
<1>1. ASSUME NEW j \in Intent, CreateOrder(j)
      PROVE  StatusMoves(i) /\ (order'[i] # order[i] => status'[i] \in Settled)
  BY <1>1 DEF CreateOrder, StatusMoves, Settled, TypeOK, Purchase
<1>2. ASSUME NEW c \in Cod, PlaceCodOrder(c)
      PROVE  StatusMoves(i) /\ (order'[i] # order[i] => status'[i] \in Settled)
  BY <1>2, PurchaseAssumption DEF PlaceCodOrder, intentVars, StatusMoves, TypeOK, Purchase
<1>3. ASSUME NEW c \in Purchase, CancelOrder(c)
      PROVE  StatusMoves(i) /\ (order'[i] # order[i] => status'[i] \in Settled)
  BY <1>3 DEF CancelOrder, SetStatus, intentVars, StatusMoves, Settled, RefundStatuses, TypeOK, Purchase
<1> QED
  BY <1>1, <1>2, <1>3

LEMMA StepMovesStatus ==
    ASSUME TypeOK, [Next]_vars, NEW i \in Intent
    PROVE  /\ StatusMoves(i)
           /\ order'[i] # order[i] => status'[i] \in Settled
<1>1. CASE UNCHANGED vars
  BY <1>1 DEF vars, intentVars, StatusMoves
<1>2. ASSUME NEW w \in Worker, NEW h \in webhooks, AcceptWebhook(w, h)
      PROVE  StatusMoves(i) /\ order'[i] = order[i]
  BY <1>2 DEF AcceptWebhook, intentVars, StatusMoves
<1>3. ASSUME NEW c \in calls, Crash(c)
      PROVE  StatusMoves(i) /\ order'[i] = order[i]
  BY <1>3 DEF Crash, intentVars, StatusMoves
<1>4. ASSUME NEW j \in Intent, RefundJob(j)
      PROVE  StatusMoves(i) /\ order'[i] = order[i]
  BY <1>4 DEF RefundJob, SetStatus, RefundStatuses, StatusMoves, TypeOK
<1>5. ASSUME NEW j \in Intent, Expire(j) \/ AuthorizationLapses(j)
      PROVE  StatusMoves(i) /\ order'[i] = order[i]
  BY <1>5 DEF Expire, AuthorizationLapses, StatusMoves
<1>6. ASSUME NEW j \in Intent, NEW s \in {"authorized", "captured", "failed"}, Pay(j, s)
      PROVE  StatusMoves(i) /\ order'[i] = order[i]
  BY <1>6 DEF Pay, intentVars, StatusMoves
<1> QED
  BY <1>1, <1>2, <1>3, <1>4, <1>5, <1>6, RequestMovesStatus, HandlersMoveStatus, OrdersMoveStatus DEF Next

LEMMA OrdersStaySettled ==
    ASSUME TypeOK, OrdersAreSettled, [Next]_vars
    PROVE  OrdersAreSettled'
<1> SUFFICES ASSUME NEW i \in Intent, order'[i] # "none" PROVE status'[i] \in Settled
  BY DEF OrdersAreSettled
<1>1. CASE order'[i] # order[i]
  BY <1>1, StepMovesStatus
<1>2. CASE order'[i] = order[i]
  BY <1>2, StepMovesStatus DEF OrdersAreSettled, StatusMoves, MarkMoves, DecisionMoves, Settled, RefundStatuses
<1> QED
  BY <1>1, <1>2

\* The payment of an order is never open again: once it stands, or is cancelled,
\* no event, answer, sweep or retry takes its session back to an unpaid one.
THEOREM OrderedPaymentsAreSettled == Spec => []OrdersAreSettled
<1>1. Init => OrdersAreSettled
  BY DEF Init, OrdersAreSettled, Purchase
<1> QED
  BY <1>1, OrdersStaySettled, TypeCorrect, PTL DEF Spec

\* A createOrder request that failed is about to refund what it read as verified,
\* or what is on its way back anyway.
RefusalsRead == \A c \in calls :
    c.op = "refuse" => c.pc = "finish" /\ (c.seen = "verified" \/ status[c.intent] \in RefundStatuses)

LEMMA RefusalsStay ==
    ASSUME TypeOK, RefusalsRead, [Next]_vars
    PROVE  RefusalsRead'
<1> DEFINE Begins(d) ==
             /\ d.pc = "finish" /\ d.intent \in Intent /\ status' = status
             /\ d.seen = "verified" \/ status[d.intent] \in RefundStatuses
<1>1. \A c \in calls : c.op = "refuse" => c.pc = "finish" /\ c.intent \in Intent
  BY DEF RefusalsRead, TypeOK, Call
<1>2. \A i \in Intent : status[i] \in RefundStatuses => status'[i] \in RefundStatuses
  <2> SUFFICES ASSUME NEW i \in Intent, status[i] \in RefundStatuses PROVE status'[i] \in RefundStatuses
    OBVIOUS
  <2> QED
    BY StepMovesStatus DEF StatusMoves, MarkMoves, DecisionMoves, Settled, RefundStatuses
<1>3. ASSUME NEW d \in calls', d.op = "refuse", d \notin calls
      PROVE  Begins(d)
  <2>1. ~UNCHANGED vars
    BY <1>3 DEF vars, callVars
  <2>2. ASSUME NEW w \in Worker, NEW i \in Intent, Request(w, i) \/ Sweep(w, i)
        PROVE  Begins(d)
    <3>1. ~Open(w, i)
      <4> SUFFICES ASSUME Open(w, i) PROVE FALSE
        OBVIOUS
      <4> DEFINE read == CallOf(w, "initialize", i, "fetch", "none")
      <4>1. d = [read EXCEPT !.seen = "initializing", !.held = TRUE]
        BY <1>3 DEF Open
      <4>2. d.op = read.op
        BY <4>1 DEF CallOf
      <4> QED
        BY <1>3, <4>2 DEF CallOf
    <3>2. \A op, pc : Start(w, op, i, pc) => op = "refuse" /\ d = CallOf(w, op, i, pc, "none")
      BY <1>3 DEF Start, CallOf
    <3>3. Refuse(w, i)
      BY <2>2, <3>1, <3>2 DEF Request, Resume, Verify, Reconcile, Abandon, Sweep
    <3> QED
      BY <3>2, <3>3 DEF Refuse, CallOf, intentVars, RefundStatuses
  <2>3. \A w \in Worker, h \in webhooks : ~AcceptWebhook(w, h)
    BY <1>3 DEF AcceptWebhook, CallOf
  <2>4. \A c \in calls : ~Crash(c)
    BY <1>3 DEF Crash
  <2>5. \A c \in calls : ~Handle(c)
    <3> SUFFICES ASSUME NEW c \in calls, Handle(c) PROVE FALSE
      OBVIOUS
    <3>1. ~(calls' \subseteq calls) /\ c \in Call
      BY <1>3 DEF TypeOK
    <3>2. CASE FailInitialization(c)
      BY <1>3, <3>1, <3>2 DEF Call, FailInitialization, Advance
    <3>3. ASSUME NEW e, Advance(c, e)
          PROVE  d = e
      BY <1>3, <3>3 DEF Advance
    <3>4. CASE Fetch(c)
      <4>1. c.op # "refuse"
        BY <1>1, <3>4 DEF Fetch
      <4>2. d = [c EXCEPT !.pc = "mark", !.got = payment[c.intent]] \/ d = [c EXCEPT !.pc = "finish"]
        BY <3>1, <3>3, <3>4 DEF Fetch, Return
      <4> QED
        BY <1>3, <3>1, <4>1, <4>2 DEF Call
    <3>5. CASE Mark(c)
      <4>1. c.op # "refuse"
        BY <1>1, <3>5 DEF Mark
      <4>2. d = [c EXCEPT !.pc = "finish", !.seen = status'[c.intent],
                          !.held = reservation'[c.intent] = "held",
                          !.dated = authorizedAt'[c.intent] # "unset"]
        BY <3>1, <3>3, <3>5 DEF Mark, Return
      <4> QED
        BY <1>3, <3>1, <4>1, <4>2 DEF Call
    <3> QED
      BY <3>1, <3>2, <3>4, <3>5 DEF Handle, AttachProviderOrder, ReleaseUninitialized, FetchError,
         FinishResume, FinishAbandon, FinishRefuse, ExtendAuthorized, ReleaseExpired, RefundExpired,
         SkipJob, Return
  <2>6. calls' = calls => FALSE
    BY <1>3
  <2> QED
    BY <2>1, <2>2, <2>3, <2>4, <2>5, <2>6 DEF Next, CreateOrder, RefundJob, Expire,
       AuthorizationLapses, Pay, PlaceCodOrder, CancelOrder, callVars
<1> QED
  BY <1>1, <1>2, <1>3 DEF RefusalsRead

\* A recorded capture is taken back by one thing only: a call that learned of an
\* uncaptured attempt and writes when the capture has been recorded.  The session
\* still holds then, and its payment is captured: nothing was given away.
Regresses(i) ==
    status[i] \in {"verified", "consumed"} /\ status'[i] \notin {"verified", "consumed"} \union RefundStatuses
LateAnswer(i) ==
    /\ status[i] = "verified" /\ reservation'[i] = "held" /\ payment'[i] = "captured"
    /\ status'[i] \in {"created", "authorized", "failed"}
    /\ \E c \in calls : c.intent = i /\ c.got # "captured" /\ Mark(c)
RegressesByLateAnswer == [][\A i \in Intent : Regresses(i) => LateAnswer(i)]_vars

\* What NoCaptureRegression denies is a late answer about an earlier attempt, and
\* nothing else does it.
THEOREM OnlyLateAnswersRegress == Spec => RegressesByLateAnswer
<1>1. ASSUME GuaranteeInv, [Next]_vars, NEW i \in Intent, Regresses(i)
      PROVE  LateAnswer(i)
  <2>1. TypeOK /\ CallsRemember /\ CallsAreTrue /\ StatusIsPaid
    BY <1>1 DEF GuaranteeInv, LedgerInv, Sessions
  <2>2. PICK c \in calls : MarkMoves(c, i)
    BY <1>1, <2>1, StepMovesStatus DEF Regresses, StatusMoves, DecisionMoves, RefundStatuses
  <2>3. /\ status[i] = "verified" /\ payment'[i] = "captured" /\ c.got # "captured"
        /\ reservation'[i] = "held" /\ c.intent = i /\ Mark(c) /\ c.pc = "mark"
        /\ status'[i] = IF c.got = "authorized" THEN "authorized" ELSE c.seen
    BY <1>1, <2>1, <2>2 DEF Regresses, MarkMoves, Mark, Settled, StatusIsPaid, PaidStatuses
  <2>4. c.got = "authorized" \/ c.seen \in {"created", "authorized", "failed"}
    BY <2>1, <2>3 DEF CallsRemember, CallsAreTrue, WritesUnpaid
  <2> QED
    BY <2>3, <2>4 DEF LateAnswer
<1>2. GuaranteeInv /\ [Next]_vars => [\A i \in Intent : Regresses(i) => LateAnswer(i)]_vars
  BY <1>1
<1> QED
  BY <1>2, GuaranteeInvariant, PTL DEF Spec, RegressesByLateAnswer

\* The payment of an order that stands is sent back by one thing only: a createOrder
\* request that failed, or a sweep, that read the session verified before the order came.
RefundsStanding(i) ==
    order[i] = "placed" /\ order'[i] = "placed" /\ status[i] \notin RefundStatuses /\ status'[i] \in RefundStatuses
StaleDecision(i) ==
    /\ status[i] = "consumed"
    /\ \E c \in calls : c.intent = i /\ c.seen = "verified" /\ (FinishRefuse(c) \/ RefundExpired(c))
RefundedByStaleDecision == [][\A i \in Intent : RefundsStanding(i) => StaleDecision(i)]_vars

\* What NoRefundOfLiveOrder denies is done by one of these two decisions: no webhook,
\* reconcile, abandonment or late capture refunds an order that stands.
THEOREM OnlyStaleDecisionsRefund == Spec => RefundedByStaleDecision
<1>1. ASSUME TypeOK, OrdersAreSettled, RefusalsRead, [Next]_vars, NEW i \in Intent, RefundsStanding(i)
      PROVE  StaleDecision(i)
  <2>1. status[i] = "consumed"
    BY <1>1 DEF RefundsStanding, OrdersAreSettled, Settled
  <2>2. PICK c \in calls : MarkMoves(c, i) \/ DecisionMoves(c, i)
    BY <1>1, <2>1, StepMovesStatus DEF RefundsStanding, StatusMoves, RefundStatuses
  <2>3. DecisionMoves(c, i)
    BY <2>1, <2>2 DEF MarkMoves, Settled
  <2>4. c.seen = "verified"
    BY <1>1, <2>1, <2>3 DEF DecisionMoves, RefusalsRead, FinishRefuse, RefundExpired, RefundStatuses
  <2> QED
    BY <2>1, <2>3, <2>4 DEF StaleDecision, DecisionMoves
<1>2. Init => RefusalsRead
  BY DEF Init, RefusalsRead
<1>3. TypeOK /\ OrdersAreSettled /\ RefusalsRead /\ [Next]_vars =>
        [\A i \in Intent : RefundsStanding(i) => StaleDecision(i)]_vars
  BY <1>1
<1> QED
  BY <1>2, <1>3, RefusalsStay, TypeCorrect, OrderedPaymentsAreSettled, PTL DEF Spec, RefundedByStaleDecision

-----------------------------------------------------------------------------
(***************************************************************************)
(* Checkout implements ReservationLedger: documents, counters, handlers in *)
(* flight and stale reads grant stock, slot and coupon exactly as one      *)
(* decision per purchase would, for every set of purchases.                *)
(*                                                                         *)
(* What a purchase claims in the ledger is what checkout counts: claimants *)
(* are the held sessions and the placed orders, redeemers the reserved and *)
(* the consumed redemptions.  So what checkout's guards read off its       *)
(* counters, by LedgerInv, is that the purchase fits.                      *)
(***************************************************************************)

-----------------------------------------------------------------------------
(* Phases *)

LEMMA PhaseOf ==
    ASSUME NEW c \in Purchase
    PROVE  /\ order[c] = "placed" => Phase[c] = "sold"
           /\ order[c] = "cancelled" => Phase[c] = "returned"
           /\ order[c] = "none" =>
                /\ c \notin Intent => Phase[c] = "none"
                /\ c \in Intent =>
                     /\ reservation[c] = "held" => Phase[c] = "held"
                     /\ reservation[c] = "released" => Phase[c] = "released"
                     /\ reservation[c] \in {"none", "consumed"} => Phase[c] = "none"
BY DEF Phase

LEMMA PhaseTyped == Phase = [c \in Purchase |-> Phase[c]]
BY DEF Phase

\* A step that leaves orders and reservations alone leaves every phase alone.
LEMMA SamePhase ==
    ASSUME UNCHANGED <<order, reservation>>
    PROVE  UNCHANGED Phase
BY DEF Phase

\* A step that moves one purchase.
LEMMA PhaseMoves ==
    ASSUME NEW c \in Purchase, NEW s,
           Phase'[c] = s,
           \A d \in Purchase \ {c} : order'[d] = order[d] /\ (d \in Intent => reservation'[d] = reservation[d])
    PROVE  Phase' = [Phase EXCEPT ![c] = s]
<1>1. \A d \in Purchase \ {c} : Phase'[d] = Phase[d]
  BY DEF Phase
<1>2. Phase' = [d \in Purchase |-> Phase'[d]] /\ Phase = [d \in Purchase |-> Phase[d]]
  BY DEF Phase
<1> QED
  BY <1>1, <1>2

-----------------------------------------------------------------------------
(* What fits *)

\* The ledger counts as checkout counts.
LEMMA SameCount == \A S : Ledger!Cardinality(S) = Cardinality(S)
BY Zenon DEF Ledger!Cardinality, Cardinality

LEMMA SameUnits ==
    ASSUME NEW S, NEW p
    PROVE  Ledger!UnitsOf(S, p) = UnitsOf(S, p)
BY SameCount, Zenon DEF Ledger!UnitsOf, UnitsOf, Ledger!MAX_ITEM_QUANTITY, MAX_ITEM_QUANTITY

LEMMA ClaimantsAre ==
    ASSUME LedgerInv
    PROVE  /\ Ledger!Claimants = Held \union Placed
           /\ Held \intersect Placed = {}
<1> USE DEF LedgerInv, Documents
<1>1. \A c \in Purchase : Phase[c] \in {"held", "sold"} <=> c \in Held \union Placed
  BY PhaseOf, HeldIsOpen DEF Held, Placed, TypeOK, Reservations
<1>2. Held \subseteq Purchase /\ Placed \subseteq Purchase
  BY DEF Held, Placed, Purchase
<1>3. Held \intersect Placed = {}
  BY HeldIsOpen DEF Placed
<1> QED
  BY <1>1, <1>2, <1>3 DEF Ledger!Claimants, Ledger!Purchase, Purchase

LEMMA RedeemersAre ==
    ASSUME LedgerInv
    PROVE  Ledger!Redeemers = Reserved \union Consumed
<1> USE DEF LedgerInv, Documents
<1>1. \A c \in CouponUsers : Phase[c] \in {"held", "sold", "returned"} <=> c \in Held \/ order[c] # "none"
  BY ResourceAssumption, PhaseOf DEF Held, TypeOK, Reservations
<1>2. Reserved = Held \intersect CouponUsers /\ Consumed = Redeemed
  BY CouponLedgerParts DEF Ledgers
<1> QED
  BY <1>1, <1>2 DEF Ledger!Redeemers, Redeemed

LEMMA UnitsDisjoint ==
    ASSUME NEW S \in SUBSET Purchase, NEW T \in SUBSET Purchase, S \intersect T = {}, NEW p \in Product
    PROVE  UnitsOf(S \union T, p) = UnitsOf(S, p) + UnitsOf(T, p)
<1> DEFINE A == {u \in S \X (1..MAX_ITEM_QUANTITY) : u[2] <= Qty[u[1]][p]}
           B == {u \in T \X (1..MAX_ITEM_QUANTITY) : u[2] <= Qty[u[1]][p]}
           C == {u \in (S \union T) \X (1..MAX_ITEM_QUANTITY) : u[2] <= Qty[u[1]][p]}
<1>1. C = A \union B /\ A \intersect B = {}
  OBVIOUS
<1>2. IsFiniteSet(A) /\ IsFiniteSet(B) /\ Cardinality(A) \in Nat /\ Cardinality(B) \in Nat
  BY UnitsFinite, FS_CardinalityType
<1>3. Cardinality(C) = Cardinality(A) + Cardinality(B)
  <2> HIDE DEF A, B, C
  <2>1. Cardinality(C) = Cardinality(A) + Cardinality(B) - Cardinality({})
    BY <1>1, <1>2, FS_Union
  <2> QED
    BY <1>2, <2>1, FS_EmptySet
<1> QED
  BY <1>3 DEF UnitsOf

LEMMA CountDisjoint ==
    ASSUME NEW S \in SUBSET Purchase, NEW T \in SUBSET Purchase, S \intersect T = {}
    PROVE  Cardinality(S \union T) = Cardinality(S) + Cardinality(T)
<1>1. /\ IsFiniteSet(S) /\ IsFiniteSet(T) /\ Cardinality(S) \in Nat /\ Cardinality(T) \in Nat
  BY PurchasesFinite, FS_Subset, FS_CardinalityType
<1>2. Cardinality(S \union T) = Cardinality(S) + Cardinality(T) - Cardinality({})
  BY <1>1, FS_Union
<1> QED
  BY <1>1, <1>2, FS_EmptySet

\* Checkout's guards: enough is available, the slot has room, the coupon is left.
LEMMA GuardsMeanFits ==
    ASSUME LedgerInv, NEW c \in Purchase,
           \A p \in Product : Available(p) >= Qty[c][p],
           booked < Capacity,
           c \in CouponUsers =>
               /\ UsageLimit = 0 \/ usedCount + reservedCount < UsageLimit
               /\ \A d \in Purchase : ActiveRedemption(d) => UserOf[d] # UserOf[c]
    PROVE  Ledger!Fits(c)
<1> USE DEF LedgerInv, Documents
<1>1. ASSUME NEW p \in Product
      PROVE  UnitsOf(Ledger!Claimants, p) + Qty[c][p] <= InitialStock[p]
  <2>1. UnitsOf(Ledger!Claimants, p) = UnitsOf(Held, p) + UnitsOf(Placed, p)
    BY ClaimantsAre, SetsTyped, UnitsDisjoint
  <2>2. /\ reservedStock[p] = UnitsOf(Held, p)
        /\ stock[p] + UnitsOf(Placed, p) = InitialStock[p]
        /\ reservedStock[p] <= stock[p]
    BY DEF Ledgers, StockLedger
  <2>3. Qty[c][p] \in 0..5
    BY QtyTyped
  <2> QED
    BY <2>1, <2>2, <2>3, StockTyped DEF Available
<1>2. Cardinality(Ledger!Claimants) < Capacity
  <2>1. Cardinality(Ledger!Claimants) = Cardinality(Held) + Cardinality(Placed)
    BY ClaimantsAre, SetsTyped, CountDisjoint
  <2> QED
    BY <2>1 DEF Ledgers, SlotLedger
<1>3. ASSUME c \in CouponUsers
      PROVE  /\ UsageLimit = 0 \/ Cardinality(Ledger!Redeemers) < UsageLimit
             /\ \A d \in Ledger!Redeemers : UserOf[d] # UserOf[c]
  <2>1. reservedCount = Cardinality(Reserved) /\ usedCount = Cardinality(Consumed)
    BY CouponLedgerParts DEF Ledgers
  <2>2. Reserved \intersect Consumed = {}
    BY DEF Reserved, Consumed
  <2>3. Cardinality(Ledger!Redeemers) = reservedCount + usedCount
    BY <2>1, <2>2, RedeemersAre, SetsTyped, CountDisjoint
  <2>4. \A d \in Ledger!Redeemers : UserOf[d] # UserOf[c]
    BY <1>3, RedeemersAre DEF ActiveRedemption, Reserved, Consumed
  <2> QED
    BY <1>3, <2>3, <2>4 DEF TypeOK, ResourcesTypeOK
<1> QED
  BY <1>1, <1>2, <1>3, SameCount, SameUnits DEF Ledger!Fits

-----------------------------------------------------------------------------
(* Every step of checkout is a step of the ledger, or none. *)

LEMMA OpenHolds ==
    ASSUME LedgerInv, NEW w \in Worker, NEW i \in Intent, Open(w, i)
    PROVE  Ledger!LedgerNext
<1> USE DEF LedgerInv, Documents
<1>1. i \in Purchase /\ reservation[i] = "none" /\ order[i] = "none"
  BY DEF Open, FreshIntents, OrdersConsume, TypeOK, Purchase
<1>2. Phase[i] = "none" /\ Phase'[i] = "held"
  BY <1>1, PhaseOf DEF Open, Phase, TypeOK
<1>3. Ledger!Fits(i)
  BY <1>1, GuardsMeanFits DEF Open, HoldResources, ReserveInventory, ReserveSlot, ClaimCoupon
<1>4. Phase' = [Phase EXCEPT ![i] = "held"]
  BY <1>1, <1>2, PhaseMoves DEF Open, TypeOK
<1> QED
  BY <1>2, <1>3, <1>4 DEF Ledger!LedgerNext, Ledger!Hold

LEMMA ReleaseReleases ==
    ASSUME LedgerInv, NEW i \in Intent, reservation[i] = "held", ReleaseReservationResources(i),
           UNCHANGED order
    PROVE  Ledger!LedgerNext
<1> USE DEF LedgerInv, Documents
<1>1. i \in Purchase /\ order[i] = "none"
  BY HeldIsOpen DEF Held, Purchase
<1>2. Phase[i] = "held" /\ Phase'[i] = "released"
  BY <1>1 DEF Phase, ReleaseReservationResources, TypeOK
<1>3. Phase' = [Phase EXCEPT ![i] = "released"]
  BY <1>1, <1>2, PhaseMoves DEF ReleaseReservationResources, TypeOK
<1> QED
  BY <1>2, <1>3 DEF Ledger!LedgerNext, Ledger!Release

LEMMA CreateOrderSells ==
    ASSUME LedgerInv, NEW i \in Intent, CreateOrder(i)
    PROVE  Ledger!LedgerNext
<1> USE DEF LedgerInv, Documents
<1>1. i \in Purchase /\ reservation[i] = "held" /\ order[i] = "none"
  BY HeldIsOpen DEF CreateOrder, Held, Purchase
<1>2. Phase[i] = "held" /\ Phase'[i] = "sold"
  BY <1>1 DEF Phase, CreateOrder, TypeOK
<1>3. Phase' = [Phase EXCEPT ![i] = "sold"]
  BY <1>1, <1>2, PhaseMoves DEF CreateOrder, TypeOK
<1> QED
  BY <1>2, <1>3 DEF Ledger!LedgerNext, Ledger!SellHeld

LEMMA PlaceCodOrderSells ==
    ASSUME LedgerInv, NEW c \in Cod, PlaceCodOrder(c)
    PROVE  Ledger!LedgerNext
<1> USE DEF LedgerInv, Documents
<1>1. c \in Purchase /\ c \notin Intent
  BY PurchaseAssumption DEF Purchase
<1>2. Phase[c] = "none" /\ Phase'[c] = "sold"
  BY <1>1 DEF Phase, PlaceCodOrder, TypeOK
<1>3. Ledger!Fits(c)
  BY <1>1, GuardsMeanFits DEF PlaceCodOrder, SellAvailableInventory, ReserveSlot, RedeemCoupon
<1>4. Phase' = [Phase EXCEPT ![c] = "sold"]
  BY <1>1, <1>2, PhaseMoves DEF PlaceCodOrder, intentVars, TypeOK
<1> QED
  BY <1>2, <1>3, <1>4 DEF Ledger!LedgerNext, Ledger!SellNow

LEMMA CancelOrderReturns ==
    ASSUME LedgerInv, NEW c \in Purchase, CancelOrder(c)
    PROVE  Ledger!LedgerNext
<1> USE DEF LedgerInv, Documents
<1>1. UNCHANGED reservation
  BY DEF CancelOrder, SetStatus, intentVars
<1>2. Phase[c] = "sold" /\ Phase'[c] = "returned"
  BY <1>1 DEF Phase, CancelOrder, TypeOK
<1>3. Phase' = [Phase EXCEPT ![c] = "returned"]
  BY <1>1, <1>2, PhaseMoves DEF CancelOrder, TypeOK
<1> QED
  BY <1>2, <1>3 DEF Ledger!LedgerNext, Ledger!Return, Ledger!Purchase, Purchase

\* A handler releases a hold or moves no phase.
LEMMA HandlersRelease ==
    ASSUME LedgerInv, NEW c \in calls, Handle(c)
    PROVE  Ledger!LedgerNext \/ UNCHANGED Phase
<1> USE DEF LedgerInv
<1>1. c.intent \in Intent
  BY DEF TypeOK, Call
<1>2. UNCHANGED order
  BY DEF Handle, AttachProviderOrder, FailInitialization, ReleaseUninitialized, Fetch, FetchError, Mark,
         FinishResume, FinishAbandon, FinishRefuse, ExtendAuthorized, ReleaseExpired, RefundExpired, SkipJob
<1>3. \/ UNCHANGED reservation
      \/ reservation[c.intent] = "held" /\ ReleaseReservationResources(c.intent)
  BY DEF Handle, AttachProviderOrder, FailInitialization, ReleaseUninitialized, Fetch, FetchError, Mark,
         RecordCapture, RefundLateCapture, RecordUncaptured, RecordNothing, FinishResume, FinishAbandon,
         FinishRefuse, ExtendAuthorized, ReleaseExpired, RefundExpired, SkipJob, SetStatus, intentVars,
         ReleasePaymentIntentReservation, QueueRefundAndRelease
<1> QED
  BY <1>1, <1>2, <1>3, ReleaseReleases, SamePhase

LEMMA OthersStutter ==
    ASSUME \/ \E w \in Worker, i \in Intent :
                 \/ Resume(w, i) \/ Verify(w, i) \/ Reconcile(w, i) \/ Abandon(w, i)
                 \/ Refuse(w, i) \/ Sweep(w, i)
           \/ \E w \in Worker, h \in webhooks : AcceptWebhook(w, h)
           \/ \E c \in calls : Crash(c)
           \/ \E i \in Intent : RefundJob(i) \/ Expire(i) \/ AuthorizationLapses(i)
           \/ \E i \in Intent, s \in {"authorized", "captured", "failed"} : Pay(i, s)
           \/ UNCHANGED vars
    PROVE  UNCHANGED Phase
<1>1. UNCHANGED <<order, reservation>>
  BY DEF Resume, Verify, Reconcile, Abandon, Refuse, Sweep, AcceptWebhook, Crash, RefundJob, SetStatus,
         Expire, AuthorizationLapses, Pay, vars, intentVars
<1> QED
  BY <1>1, SamePhase

LEMMA LedgerStep ==
    ASSUME LedgerInv, [Next]_vars
    PROVE  Ledger!LedgerNext \/ UNCHANGED Phase
<1>1. ASSUME NEW w \in Worker, NEW i \in Intent, Request(w, i) \/ Sweep(w, i)
      PROVE  Ledger!LedgerNext \/ UNCHANGED Phase
  BY <1>1, OpenHolds, OthersStutter DEF Request
<1>2. ASSUME NEW c \in calls, Handle(c) \/ Crash(c)
      PROVE  Ledger!LedgerNext \/ UNCHANGED Phase
  BY <1>2, HandlersRelease, OthersStutter
<1> QED
  BY <1>1, <1>2, CreateOrderSells, PlaceCodOrderSells, CancelOrderReturns, OthersStutter DEF Next

\* Checkout implements the ledger: every grant fits, no hold that ended comes back.
THEOREM ImplementsLedger == Spec => LedgerSpec
<1>1. Init => Ledger!LedgerInit
  BY DEF Init, Ledger!LedgerInit, Phase, Ledger!Purchase, Purchase
<1>2. LedgerInv /\ [Next]_vars => [Ledger!LedgerNext]_Phase
  BY LedgerStep
<1> QED
  BY <1>1, <1>2, LedgerInvariant, PTL DEF Spec, LedgerSpec, Ledger!LedgerSpec
=============================================================================
