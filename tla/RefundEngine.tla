---------------------------- MODULE RefundEngine ----------------------------
(***************************************************************************)
(* How one captured payment goes back: the refund fields of its            *)
(* PaymentIntent, the ledger of refunds the provider confirmed, and the    *)
(* payment status of its order (payment.service, queueRefundInSession to   *)
(* refundIntentPayment, applyRazorpayRefund, syncOrderRefundState).        *)
(* Checkout sees all of this as its action RefundJob.                      *)
(*                                                                         *)
(* If the payment bought an order the ledger is the order's Payment;       *)
(* otherwise it is on the intent.  The branches of the code differ, and    *)
(* `ordered` chooses.                                                      *)
(*                                                                         *)
(* A call is one execution of refundIntentPayment (from the sweep, a       *)
(* cancellation or a late capture) or of applyRazorpayRefund (from a       *)
(* refund webhook); the first may end in the second.  It is suspended      *)
(* wherever the code awaits the provider or the database.  A refund        *)
(* receipt is a hash of intent and amount, so it is its amount here (0 for *)
(* an undefined amount; a dashboard refund has none).                      *)
(***************************************************************************)
EXTENDS Integers, FiniteSets, FiniteSetsExt

CONSTANTS
    Amount,         \* amountPaise: what was captured
    Targets,        \* what a cancellation may give back in total
    ManualAmounts,  \* refunds staff may make in the provider's dashboard
    Subscribed,     \* the refund events the webhook is subscribed to
    RefundId,       \* bounds the refunds the provider ever creates
    Worker,         \* bounds the calls in flight
    MaxFailures,    \* bounds the refunds that fail at the provider
    MaxCrashes      \* bounds the calls lost to a crash

\* The fee a cancellation retains is a small share of the payment.
ASSUME RefundAssumption ==
    /\ Amount \in Nat \ {0}
    /\ Targets \subseteq 0..Amount
    /\ \A t \in Targets : t = 0 \/ 2 * t > Amount
    /\ ManualAmounts \subseteq 1..Amount
    /\ MaxFailures \in Nat /\ MaxCrashes \in Nat

VARIABLES
    ordered,             \* does the payment have an order (and a Payment)?
    status,              \* PaymentIntent.status
    reservation,         \* PaymentIntent.reservation.state
    refundTarget,        \* refundTargetPaise
    refundAmount,        \* refundAmountPaise: what is left to request
    refundReceipt,       \* refundReceipt
    refundId,            \* refundId
    refundStatus,        \* refundStatus
    requestedAt,         \* refundRequestedAt against its 30 seconds
    refunded,            \* amountRefunded, in paise
    processedRefundIds,  \* the refunds counted in it
    orderPayment,        \* Order.paymentStatus
    timeline,            \* the event keys of Order.refundTimeline
    cancelTarget,        \* set when the order is cancelled: what it gives back
    refunds,             \* external: the provider's refunds of this payment
    delayed,             \* external: requests the code gave up that may still arrive
    events,              \* external: refund webhooks not yet accepted
    calls,
    crashes

intentVars == <<status, reservation, refundTarget, refundAmount, refundReceipt,
                refundId, refundStatus, requestedAt>>
ledgerVars == <<refunded, processedRefundIds>>
orderVars == <<ordered, orderPayment, timeline, cancelTarget>>
providerVars == <<refunds, delayed, events>>
vars == <<intentVars, ledgerVars, orderVars, providerVars, calls, crashes>>

Unset == -1
Refunding == {"refund_pending", "refund_failed"}
OrderPayments == {"paid", "refund_pending", "refund_failed", "partially_refunded", "refunded"}
RefundStates == {"none", "pending", "processed", "failed"}
Call == [worker : Worker,
         from : {"engine", "event"},
         pc : {"queue", "known", "keep", "drop", "claim", "lookup", "request", "relookup",
               "giveup", "record", "note", "ledger", "order", "settle", "remainder",
               "mention", "requeue", "sync"},
         id : RefundId \union {"none", "receipt"},  \* the provider refund at hand
         got : RefundStates,                        \* its status when it was fetched
         amount : Unset..Amount,                    \* claimed: what to request
         receipt : Unset..Amount,                   \* ... under which receipt
         total : 0..Amount]                         \* the ledger after it was counted

TypeOK ==
    /\ ordered \in BOOLEAN
    /\ status \in {"verified", "consumed", "refunded"} \union Refunding
    /\ reservation \in {"held", "consumed", "released"}
    /\ refundTarget \in Unset..Amount
    /\ refundAmount \in Unset..Amount
    /\ refundReceipt \in Unset..Amount
    /\ refundId \in RefundId \union {"none"}
    /\ refundStatus \in RefundStates \union {"unconfirmed", "requires_review"}
    /\ requestedAt \in {"unset", "recent", "stale"}
    /\ refunded \in 0..Amount
    /\ processedRefundIds \subseteq RefundId
    /\ orderPayment \in OrderPayments
    /\ timeline \subseteq (RefundId \union {"receipt"}) \X OrderPayments
    /\ cancelTarget \in Unset..Amount
    /\ refunds \in [RefundId -> [state : RefundStates, amount : 0..Amount, receipt : Unset..Amount]]
    /\ delayed \subseteq [amount : 0..Amount, receipt : Unset..Amount]
    /\ events \subseteq [id : RefundId, status : RefundStates]
    /\ calls \subseteq Call
    /\ crashes \in 0..MaxCrashes

\* A captured payment: its order is placed, or its session still holds.
Init ==
    /\ ordered \in BOOLEAN
    /\ status = IF ordered THEN "consumed" ELSE "verified"
    /\ reservation = IF ordered THEN "consumed" ELSE "held"
    /\ refundTarget = Unset /\ refundAmount = Unset /\ refundReceipt = Unset
    /\ refundId = "none" /\ refundStatus = "none" /\ requestedAt = "unset"
    /\ refunded = 0 /\ processedRefundIds = {}
    /\ orderPayment = "paid" /\ timeline = {} /\ cancelTarget = Unset
    /\ refunds = [r \in RefundId |-> [state |-> "none", amount |-> 0, receipt |-> Unset]]
    /\ delayed = {} /\ events = {} /\ calls = {} /\ crashes = 0

-----------------------------------------------------------------------------
(* Calls *)

Idle(w) == \A c \in calls : c.worker # w

Blank(w) == [worker |-> w, from |-> "engine", pc |-> "known", id |-> "none", got |-> "none",
             amount |-> Unset, receipt |-> Unset, total |-> 0]

Begin(c) ==
    /\ Idle(c.worker)
    /\ calls' = calls \union {c}
    /\ UNCHANGED crashes

Continue(c, d) ==
    /\ calls' = (calls \ {c}) \union {d}
    /\ UNCHANGED crashes

Go(c, pc) == Continue(c, [c EXCEPT !.pc = pc])

Return(c) ==
    /\ calls' = calls \ {c}
    /\ UNCHANGED crashes

\* refundIntentPayment enters with the document its caller has: nothing to do
\* for a refunded one or one with nothing left, a check of the refund it names,
\* or straight to the claim.
NothingLeft(s, amount) == s = "refunded" \/ amount = 0
EngineCall(w, id, receipt) ==
    [Blank(w) EXCEPT !.pc = IF id = "none" THEN "claim" ELSE "known", !.id = id, !.receipt = receipt]

-----------------------------------------------------------------------------
(* Queueing *)

TargetNow == IF refundTarget = Unset THEN Amount ELSE refundTarget
Owing(target) == IF target > refunded THEN target - refunded ELSE 0
ActiveRefund == refundId # "none" /\ refundStatus \notin {"processed", "failed"}

\* Mutant: all of the payment is asked for, the retained fee included.
QueueRest(target) ==
    /\ refundTarget' = target
    /\ status' = "refund_pending"
    /\ refundAmount' = Amount - refunded /\ refundReceipt' = Amount - refunded
    /\ refundId' = "none" /\ refundStatus' = "none" /\ requestedAt' = "unset"

\* queueRefundInSession: the intent's fields.  A refund already under way at the
\* provider keeps its amount.
QueueRefund(target) ==
    /\ refundTarget' = target
    /\ status' = IF Owing(target) = 0 THEN "refunded" ELSE "refund_pending"
    /\ \/ /\ Owing(target) = 0
          /\ refundAmount' = 0
          /\ UNCHANGED <<refundReceipt, refundId, refundStatus, requestedAt>>
       \/ /\ Owing(target) # 0 /\ ActiveRefund
          /\ UNCHANGED <<refundAmount, refundReceipt, refundId, refundStatus, requestedAt>>
       \/ /\ Owing(target) # 0 /\ ~ActiveRefund
          /\ refundAmount' = Owing(target) /\ refundReceipt' = Owing(target)
          /\ refundId' = "none" /\ refundStatus' = "none" /\ requestedAt' = "unset"

\* What the order shows when there is nothing left to request.
PaidBack(target) == IF target >= Amount THEN "refunded" ELSE "partially_refunded"

\* cancelOrder: the refund is queued in the transaction that cancels, unless the
\* order's payment is on its way back already.
Cancel(target) ==
    /\ ordered /\ cancelTarget = Unset
    /\ cancelTarget' = target
    /\ \/ /\ orderPayment \in {"paid", "partially_refunded"}
          /\ QueueRefund(target)
          /\ orderPayment' = IF Owing(target) = 0 THEN PaidBack(target) ELSE "refund_pending"
       \/ /\ orderPayment \notin {"paid", "partially_refunded"}
          /\ UNCHANGED <<refundTarget, status, refundAmount, refundReceipt, refundId,
                         refundStatus, requestedAt, orderPayment>>
    /\ UNCHANGED <<reservation, ledgerVars, ordered, timeline, providerVars, calls, crashes>>

\* initiateOrderRefund, after cancelOrder commits or when a capture event comes
\* for the cancelled order: queue what is not queued, then run the engine.
Initiate(w) ==
    /\ ordered /\ cancelTarget # Unset /\ orderPayment # "refunded"
    /\ \/ /\ status \in Refunding /\ refundAmount # 0
          /\ Begin(EngineCall(w, refundId, refundReceipt))
       \/ /\ status \notin Refunding
          /\ Begin([Blank(w) EXCEPT !.pc = "queue"])
    /\ UNCHANGED <<intentVars, ledgerVars, orderVars, providerVars>>

QueueCancelled(c) ==
    /\ c.pc = "queue"
    /\ QueueRefund(cancelTarget)
    /\ orderPayment' = IF Owing(cancelTarget) = 0 /\ orderPayment \notin {"refunded", "partially_refunded"}
                       THEN PaidBack(cancelTarget) ELSE orderPayment
    /\ IF NothingLeft(status', refundAmount')
       THEN Return(c)
       ELSE Continue(c, EngineCall(c.worker, refundId', refundReceipt'))
    /\ UNCHANGED <<reservation, ledgerVars, ordered, timeline, cancelTarget, providerVars>>

\* refundUnfulfillablePayment (for each order request that fails for good), and
\* the sweep for a captured session nobody ordered: queue the whole, give the
\* hold back, run the engine.
Unfulfillable(w) ==
    /\ ~ordered /\ status \in {"verified"} \union Refunding
    /\ QueueRefund(Amount)
    /\ reservation' = "released"
    /\ IF NothingLeft(status', refundAmount')
       THEN UNCHANGED <<calls, crashes>>
       ELSE Begin(EngineCall(w, refundId', refundReceipt'))
    /\ UNCHANGED <<ledgerVars, orderVars, providerVars>>

\* sweepExpiredPaymentReservations, for a refund job.
SweepRefund(w) ==
    /\ status \in Refunding /\ reservation \in {"released", "consumed"}
    /\ refundAmount # 0
    /\ Begin(EngineCall(w, refundId, refundReceipt))
    /\ UNCHANGED <<intentVars, ledgerVars, orderVars, providerVars>>

\* ... and for one whose expired session still holds: release first.
SweepHeldRefund(w) ==
    /\ status \in Refunding /\ reservation = "held"
    /\ reservation' = "released"
    /\ IF refundAmount = 0
       THEN UNCHANGED <<calls, crashes>>
       ELSE Begin(EngineCall(w, refundId, refundReceipt))
    /\ UNCHANGED <<status, refundTarget, refundAmount, refundReceipt, refundId, refundStatus, requestedAt,
                   ledgerVars, orderVars, providerVars>>

-----------------------------------------------------------------------------
(* refundIntentPayment *)

\* matchingProviderRefund: the refund named, or a live one with the receipt.
Matches(id, receipt) ==
    IF id # "none"
    THEN {id}
    ELSE {r \in RefundId : refunds[r].receipt = receipt /\ refunds[r].state \in {"pending", "processed"}}

ProviderError(c) ==
    /\ c.pc = "known"
    /\ Return(c)
    /\ UNCHANGED <<intentVars, ledgerVars, orderVars, providerVars>>

Known(c) ==
    /\ c.pc = "known"
    /\ LET s == refunds[c.id].state
       IN  Continue(c, [c EXCEPT !.got = s, !.pc = CASE s = "processed" -> "ledger"
                                                     [] s = "pending" -> "keep"
                                                     [] OTHER -> "drop"])
    /\ UNCHANGED <<intentVars, ledgerVars, orderVars, providerVars>>

\* The refund is still pending, says the answer: an unconditional update.
Keep(c) ==
    /\ c.pc = "keep"
    /\ status' = "refund_pending" /\ refundStatus' = c.got
    /\ Return(c)
    /\ UNCHANGED <<reservation, refundTarget, refundAmount, refundReceipt, refundId, requestedAt,
                   ledgerVars, orderVars, providerVars>>

Drop(c) ==
    /\ c.pc = "drop"
    /\ IF refundId = c.id
       THEN /\ status' = "refund_failed" /\ refundStatus' = c.got
            /\ refundId' = "none" /\ requestedAt' = "unset"
       ELSE UNCHANGED <<status, refundStatus, refundId, requestedAt>>
    /\ Go(c, "claim")
    /\ UNCHANGED <<reservation, refundTarget, refundAmount, refundReceipt, ledgerVars, orderVars, providerVars>>

\* Mutant: a claim is never taken over, whatever became of its owner.
ClaimableOnce ==
    /\ reservation \in {"released", "consumed"}
    /\ \/ status = "refund_failed"
       \/ status = "refund_pending" /\ requestedAt = "unset"

Claimable ==
    /\ reservation \in {"released", "consumed"}
    /\ \/ status = "refund_failed"
       \/ status = "refund_pending" /\ requestedAt # "recent"

\* The compare-and-set that lets one execution at a time talk to the provider.
Claim(c) ==
    /\ c.pc = "claim"
    /\ \/ /\ Claimable
          /\ status' = "refund_pending" /\ requestedAt' = "recent"
          /\ Continue(c, [c EXCEPT !.pc = "lookup", !.id = refundId, !.got = "none",
                                   !.amount = refundAmount,
                                   !.receipt = IF refundReceipt = Unset THEN Max({refundAmount, 0})
                                                                       ELSE refundReceipt])
       \/ /\ ~Claimable
          /\ Return(c)
          /\ UNCHANGED <<status, requestedAt>>
    /\ UNCHANGED <<reservation, refundTarget, refundAmount, refundReceipt, refundId, refundStatus,
                   ledgerVars, orderVars, providerVars>>

\* The receipt is looked up before and, if the request failed, after it.
Found(c, r) ==
    /\ c.pc \in {"lookup", "relookup"}
    /\ r \in Matches(c.id, c.receipt)
    /\ Continue(c, [c EXCEPT !.pc = "record", !.id = r, !.got = refunds[r].state])
    /\ UNCHANGED <<intentVars, ledgerVars, orderVars, providerVars>>

\* Nothing matches, or the lookup itself failed: the code does not distinguish.
NotFound(c) ==
    /\ c.pc \in {"lookup", "relookup"}
    /\ Go(c, IF c.pc = "lookup" THEN "request" ELSE "giveup")
    /\ UNCHANGED <<intentVars, ledgerVars, orderVars, providerVars>>

Live == {r \in RefundId : refunds[r].state \in {"pending", "processed"}}
\* What a set of refunds comes to, paisa by paisa.
Paise(S) == {p \in S \X (1..Amount) : p[2] <= refunds[p[1]].amount}
Sum(S) == Cardinality(Paise(S))

Emitted(id, state) ==
    LET name == CASE state = "pending" -> "refund.created"
                  [] state = "processed" -> "refund.processed"
                  [] state = "failed" -> "refund.failed"
    IN  IF name \in Subscribed THEN {[id |-> id, status |-> state]} ELSE {}

NewRefund == CHOOSE r \in RefundId : refunds[r].state = "none"

\* The provider accepts a refund within what is left of the payment.
CreateRefund(amount, receipt, state) ==
    /\ \E r \in RefundId : refunds[r].state = "none"
    /\ amount > 0 /\ Sum(Live) + amount <= Amount
    /\ refunds' = [refunds EXCEPT ![NewRefund] = [state |-> state, amount |-> amount, receipt |-> receipt]]
    /\ events' = events \union Emitted(NewRefund, "pending") \union Emitted(NewRefund, state)

\* An amount the code left undefined means the whole payment.
Asked(c) == IF c.amount = Unset THEN Amount ELSE c.amount

Request(c, state) ==
    /\ c.pc = "request"
    /\ CreateRefund(Asked(c), c.receipt, state)
    /\ Continue(c, [c EXCEPT !.pc = "record", !.id = NewRefund, !.got = state])
    /\ UNCHANGED <<intentVars, ledgerVars, orderVars, delayed>>

\* Refused, lost, or timed out: withProviderTimeout gives up on a request that
\* may still be served.
RequestFails(c, mayArrive) ==
    /\ c.pc = "request"
    /\ delayed' = IF mayArrive THEN delayed \union {[amount |-> Asked(c), receipt |-> c.receipt]} ELSE delayed
    /\ Go(c, "relookup")
    /\ UNCHANGED <<intentVars, ledgerVars, orderVars, refunds, events>>

Arrives(q, state) ==
    /\ CreateRefund(q.amount, q.receipt, state)
    /\ delayed' = delayed \ {q}
    /\ UNCHANGED <<intentVars, ledgerVars, orderVars, calls, crashes>>

GiveUp(c) ==
    /\ c.pc = "giveup"
    /\ IF status = "refund_pending"
       THEN status' = "refund_failed" /\ refundStatus' = "requires_review"
       ELSE UNCHANGED <<status, refundStatus>>
    /\ Continue(c, [c EXCEPT !.pc = "sync", !.got = "failed", !.id = IF c.id = "none" THEN "receipt" ELSE c.id])
    /\ UNCHANGED <<reservation, refundTarget, refundAmount, refundReceipt, refundId, requestedAt,
                   ledgerVars, orderVars, providerVars>>

\* Mutant: a refund the provider accepted is taken for done.
RecordAsDone(c) ==
    /\ c.pc = "record"
    /\ status' = IF c.got = "failed" THEN "refund_failed" ELSE "refunded"
    /\ refundId' = c.id /\ refundStatus' = c.got /\ refundReceipt' = c.receipt
    /\ Go(c, IF c.got = "processed" THEN "ledger" ELSE "sync")
    /\ UNCHANGED <<reservation, refundTarget, refundAmount, requestedAt, ledgerVars, orderVars, providerVars>>

\* Mutant: the intent takes over the provider's word for the refund.
RecordProviderStatus(c) ==
    /\ c.pc = "record"
    /\ status' = c.got
    /\ refundId' = c.id /\ refundStatus' = c.got /\ refundReceipt' = c.receipt
    /\ Go(c, IF c.got = "processed" THEN "ledger" ELSE "sync")
    /\ UNCHANGED <<reservation, refundTarget, refundAmount, requestedAt, ledgerVars, orderVars, providerVars>>

\* The unconditional update that records the refund the provider has.
Record(c) ==
    /\ c.pc = "record"
    /\ status' = IF c.got = "failed" THEN "refund_failed" ELSE "refund_pending"
    /\ refundId' = c.id /\ refundStatus' = c.got /\ refundReceipt' = c.receipt
    /\ Go(c, IF c.got = "processed" THEN "ledger" ELSE "sync")
    /\ UNCHANGED <<reservation, refundTarget, refundAmount, requestedAt, ledgerVars, orderVars, providerVars>>

-----------------------------------------------------------------------------
(* applyRazorpayRefund *)

\* A refund webhook is accepted; the event record keeps duplicates out.
Deliver(w, e) ==
    /\ e \in events
    /\ events' = events \ {e}
    /\ Begin([Blank(w) EXCEPT !.from = "event", !.id = e.id, !.got = e.status,
                              !.pc = IF e.status = "processed" THEN "ledger" ELSE "note"])
    /\ UNCHANGED <<intentVars, ledgerVars, orderVars, refunds, delayed>>

\* Created or failed: noted on the intent unless it is refunded.
Note(c) ==
    /\ c.pc = "note"
    /\ IF status # "refunded"
       THEN /\ status' = IF c.got = "failed" THEN "refund_failed" ELSE "refund_pending"
            /\ refundId' = c.id /\ refundStatus' = c.got
       ELSE UNCHANGED <<status, refundId, refundStatus>>
    /\ Go(c, "sync")
    /\ UNCHANGED <<reservation, refundTarget, refundAmount, refundReceipt, requestedAt,
                   ledgerVars, orderVars, providerVars>>

\* Mutant: the ledger forgets which refunds it has counted.
CountAlways(r) ==
    /\ processedRefundIds' = processedRefundIds \union {r}
    /\ refunded' = Min({Amount, refunded + refunds[r].amount})

\* Mutant: the amount the code asked for is counted, whoever made the refund.
CountRequested(r) ==
    IF r \in processedRefundIds
    THEN UNCHANGED ledgerVars
    ELSE /\ processedRefundIds' = processedRefundIds \union {r}
         /\ refunded' = Min({Amount, refunded + Max({refundAmount, 0})})

\* Each refund is counted once, by whoever comes first.
Count(r) ==
    IF r \in processedRefundIds
    THEN UNCHANGED ledgerVars
    ELSE /\ processedRefundIds' = processedRefundIds \union {r}
         /\ refunded' = Min({Amount, refunded + refunds[r].amount})

\* Processed, with a Payment: its ledger moves, then order and intent follow.
CountOnPayment(c) ==
    /\ c.pc = "ledger" /\ ordered
    /\ Count(c.id)
    /\ Continue(c, [c EXCEPT !.pc = "order", !.got = "processed", !.total = refunded'])
    /\ UNCHANGED <<intentVars, orderVars, providerVars>>

\* Mutant: the order is called refunded once the target is reached.
UpdateOrderAtTarget(c) ==
    /\ c.pc = "order"
    /\ orderPayment' = CASE c.total >= TargetNow /\ orderPayment \in {"paid", "partially_refunded"} -> "refunded"
                         [] c.total < TargetNow /\ orderPayment = "paid" -> "partially_refunded"
                         [] OTHER -> orderPayment
    /\ Go(c, CASE c.total >= TargetNow -> "settle"
               [] c.total < TargetNow /\ status \in Refunding -> "remainder"
               [] OTHER -> "mention")
    /\ UNCHANGED <<intentVars, ledgerVars, ordered, timeline, cancelTarget, providerVars>>

\* OrderPaymentStatusUpdate, and the read of the intent that decides the rest.
UpdateOrder(c) ==
    /\ c.pc = "order"
    /\ orderPayment' = CASE c.total = Amount /\ orderPayment \in {"paid", "partially_refunded"} -> "refunded"
                         [] c.total # Amount /\ orderPayment = "paid" -> "partially_refunded"
                         [] OTHER -> orderPayment
    /\ Go(c, CASE c.total >= TargetNow -> "settle"
               [] c.total < TargetNow /\ status \in Refunding -> "remainder"
               [] OTHER -> "mention")
    /\ UNCHANGED <<intentVars, ledgerVars, ordered, timeline, cancelTarget, providerVars>>

SettlePaid(c) ==
    /\ c.pc = "settle" /\ ordered
    /\ status' = "refunded" /\ refundAmount' = 0
    /\ refundId' = c.id /\ refundStatus' = "processed"
    /\ Go(c, "sync")
    /\ UNCHANGED <<reservation, refundTarget, refundReceipt, requestedAt, ledgerVars, orderVars, providerVars>>

\* The target is not reached: ask for what is left of the payment.
Remainder(c) ==
    /\ c.pc = "remainder"
    /\ IF status # "refunded"
       THEN /\ status' = "refund_pending"
            /\ refundAmount' = Amount - c.total /\ refundReceipt' = Amount - c.total
            /\ refundId' = "none" /\ refundStatus' = "none" /\ requestedAt' = "unset"
       ELSE UNCHANGED <<status, refundAmount, refundReceipt, refundId, refundStatus, requestedAt>>
    /\ Go(c, "sync")
    /\ UNCHANGED <<reservation, refundTarget, ledgerVars, orderVars, providerVars>>

Mention(c) ==
    /\ c.pc = "mention"
    /\ IF status # "refunded"
       THEN refundId' = c.id /\ refundStatus' = "processed"
       ELSE UNCHANGED <<refundId, refundStatus>>
    /\ Go(c, "sync")
    /\ UNCHANGED <<status, reservation, refundTarget, refundAmount, refundReceipt, requestedAt,
                   ledgerVars, orderVars, providerVars>>

\* Processed, without an order: the ledger is on the intent itself.
CountOnIntent(c) ==
    /\ c.pc = "ledger" /\ ~ordered
    /\ Count(c.id)
    /\ IF c.id \in processedRefundIds
       THEN UNCHANGED <<refundId, refundStatus>>
       ELSE refundId' = c.id /\ refundStatus' = "processed"
    /\ \/ /\ refunded' >= TargetNow
          /\ Go(c, "settle")
       \/ /\ refunded' < TargetNow /\ reservation = "held"
          /\ Go(c, "requeue")
       \/ /\ refunded' < TargetNow /\ reservation # "held"
          /\ Return(c)
    /\ UNCHANGED <<status, reservation, refundTarget, refundAmount, refundReceipt, requestedAt,
                   orderVars, providerVars>>

SettleReleased(c) ==
    /\ c.pc = "settle" /\ ~ordered
    /\ status' = "refunded" /\ refundId' = c.id /\ refundStatus' = "processed"
    /\ reservation' = IF reservation = "held" THEN "released" ELSE reservation
    /\ Return(c)
    /\ UNCHANGED <<refundTarget, refundAmount, refundReceipt, requestedAt, ledgerVars, orderVars, providerVars>>

\* MANUAL_PARTIAL_REFUND: a session still held is given up and the rest queued.
Requeue(c) ==
    /\ c.pc = "requeue"
    /\ QueueRefund(Amount)
    /\ reservation' = IF reservation = "held" THEN "released" ELSE reservation
    /\ Return(c)
    /\ UNCHANGED <<ledgerVars, orderVars, providerVars>>

\* syncOrderRefundState: the order follows, once per refund and status, unless
\* it shows a full refund already.
Sync(c) ==
    LET shown == CASE c.got = "failed" -> "refund_failed"
                   [] c.got = "pending" -> "refund_pending"
                   [] c.got = "processed" -> PaidBack(c.total)
    IN  /\ c.pc = "sync"
        /\ IF ordered /\ orderPayment # "refunded" /\ <<c.id, shown>> \notin timeline
           THEN /\ orderPayment' = shown
                /\ timeline' = timeline \union {<<c.id, shown>>}
           ELSE UNCHANGED <<orderPayment, timeline>>
        /\ Return(c)
        /\ UNCHANGED <<intentVars, ledgerVars, ordered, cancelTarget, providerVars>>

-----------------------------------------------------------------------------
(* The world *)

RefundSettles(r, state) ==
    /\ refunds[r].state = "pending"
    /\ state = "failed" => Cardinality({q \in RefundId : refunds[q].state = "failed"}) < MaxFailures
    /\ refunds' = [refunds EXCEPT ![r].state = state]
    /\ events' = events \union Emitted(r, state)
    /\ UNCHANGED <<intentVars, ledgerVars, orderVars, delayed, calls, crashes>>

\* Staff refund part of the payment in the provider's dashboard, without a receipt.
RefundByHand(amount, state) ==
    /\ CreateRefund(amount, Unset, state)
    /\ UNCHANGED <<intentVars, ledgerVars, orderVars, delayed, calls, crashes>>

ThirtySecondsPass ==
    /\ requestedAt = "recent"
    /\ requestedAt' = "stale"
    /\ UNCHANGED <<status, reservation, refundTarget, refundAmount, refundReceipt, refundId, refundStatus,
                   ledgerVars, orderVars, providerVars, calls, crashes>>

\* A webhook whose handler died comes again, or is lost with its event record.
Crash(c) ==
    /\ crashes < MaxCrashes
    /\ crashes' = crashes + 1
    /\ calls' = calls \ {c}
    /\ events' \in {events} \union
          (IF c.from = "event" THEN {events \union {[id |-> c.id, status |-> c.got]}} ELSE {})
    /\ UNCHANGED <<intentVars, ledgerVars, orderVars, refunds, delayed>>

-----------------------------------------------------------------------------
Ask(c) ==
    \/ Known(c)
    \/ \E r \in RefundId : Found(c, r)
    \/ \E s \in {"pending", "processed"} : Request(c, s)

AskInVain(c) ==
    \/ ProviderError(c) \/ NotFound(c)
    \/ \E m \in BOOLEAN : RequestFails(c, m)

Step(c) ==
    \/ QueueCancelled(c) \/ Keep(c) \/ Drop(c) \/ Claim(c) \/ GiveUp(c) \/ Record(c)
    \/ Note(c) \/ CountOnPayment(c) \/ UpdateOrder(c) \/ SettlePaid(c) \/ Remainder(c) \/ Mention(c)
    \/ CountOnIntent(c) \/ SettleReleased(c) \/ Requeue(c) \/ Sync(c)

Handle(c) == Ask(c) \/ AskInVain(c) \/ Step(c)

Next ==
    \/ \E t \in Targets : Cancel(t)
    \/ \E w \in Worker : Initiate(w) \/ Unfulfillable(w) \/ SweepRefund(w) \/ SweepHeldRefund(w)
    \/ \E w \in Worker, e \in events : Deliver(w, e)
    \/ \E c \in calls : Handle(c) \/ Crash(c)
    \/ \E r \in RefundId, s \in {"processed", "failed"} : RefundSettles(r, s)
    \/ \E a \in ManualAmounts, s \in {"pending", "processed"} : RefundByHand(a, s)
    \/ \E q \in delayed, s \in {"pending", "processed"} : Arrives(q, s)
    \/ ThirtySecondsPass

Spec == Init /\ [][Next]_vars

-----------------------------------------------------------------------------
(* Fairness.  The sweep runs every minute; a handler that started goes on    *)
(* or dies; thirty seconds pass; the provider settles its refunds and is not *)
(* down for ever for any of the questions it is asked.  No webhook has to    *)
(* arrive.                                                                   *)

SweepAgain == \E w \in Worker : SweepRefund(w) \/ SweepHeldRefund(w)
HandleBy(w) == \E c \in calls : c.worker = w /\ Handle(c)

Fairness ==
    /\ \A w \in Worker : WF_vars(HandleBy(w))
    /\ SF_vars(SweepAgain)
    /\ WF_vars(ThirtySecondsPass)
    /\ \A r \in RefundId :
        /\ WF_vars(\E s \in {"processed", "failed"} : RefundSettles(r, s))
        /\ SF_vars(\E c \in calls : c.id = r /\ Known(c))
        /\ SF_vars(\E c \in calls : Found(c, r))
    /\ SF_vars(\E c \in calls, s \in {"pending", "processed"} : Request(c, s))

-----------------------------------------------------------------------------
(* Correctness *)

\* However often a refund is reported -- by its webhooks, again after a crash,
\* and by the engine itself -- the ledger counts it once, and counts nothing
\* that the provider did not pay out (processedRefundIds, applyRazorpayRefund).
LedgerCountsOnce ==
    /\ \A r \in processedRefundIds : refunds[r].state = "processed"
    /\ refunded = Min({Amount, Sum(processedRefundIds)})

RefundedByHand == \E r \in RefundId : refunds[r].state # "none" /\ refunds[r].receipt = Unset

\* Timeouts, retries and concurrent sweeps never have more under way or paid
\* out than the shop decided to give back: the fee a cancellation retains stays
\* retained (refund claim, receipt lookup).  Dashboard refunds are the staff's.
GoesBackOnce == ~RefundedByHand => Sum(Live) <= TargetNow

\* A payment is called refunded only when the money is out: the intent when the
\* target is reached, the order when all of it is.
RefundedIsPaidOut ==
    /\ status = "refunded" => refunded >= TargetNow
    /\ orderPayment = "refunded" => refunded = Amount

\* A payment whose session could not be fulfilled goes back in full: whatever
\* times out, fails once at the provider or dies, the sweep finishes the job.
ReleasedPaymentGoesBack ==
    (~ordered /\ status \in Refunding) ~> (~ordered /\ refunded = Amount)

\* The refund is created once and its webhook updates the order ledger
\* (razorpay-production.md): when no call is in flight, a refund job has
\* something left to ask the provider, or it would wait for ever.
RefundJobsCanFinish ==
    ordered /\ calls = {} /\ status \in Refunding => refundAmount # 0

\* A voluntary cancellation retains exactly the provider's fee (razorpay-
\* production.md): no refund is requested that would take the ledger beyond
\* what the cancellation gives back.
FeeIsRetained ==
    [][\A r \in RefundId :
         refunds[r].state = "none" /\ refunds'[r].state # "none" /\ refunds'[r].receipt # Unset
            => refunded + refunds'[r].amount <= TargetNow]_vars
=============================================================================
