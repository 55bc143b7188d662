--------------------------- MODULE SupportTickets ---------------------------
(***************************************************************************)
(* Support tickets for delivered orders (supportTicket.service): a         *)
(* customer opens one within five hours of the delivery, an administrator  *)
(* rejects or approves it, at once or once the goods were picked up, and   *)
(* an approval gives the order's money back.                               *)
(*                                                                         *)
(* Three documents must agree in the end: the ticket, the order's          *)
(* paymentStatus and the PaymentIntent.  They are written by the approval  *)
(* and by syncOrderRefundState, which runs for every refund event and at   *)
(* the end of every refund call, and no transaction spans them.  A call is *)
(* suspended between its writes.  What the refund engine does with the     *)
(* provider is RefundEngine's; here a request and its answer are one step. *)
(***************************************************************************)
EXTENDS Integers, FiniteSets

CONSTANTS
    Delivered,          \* the delivered orders, of one customer
    Ticket,             \* bounds the tickets
    Clerk,              \* bounds the calls in flight
    RejectionsAllowed,  \* 2 in the code: the next one blocks cash on delivery
    MaxAttempts,        \* bounds the refunds the provider creates per order
    MaxDeaths           \* bounds the calls lost to a crash

ASSUME SupportAssumption ==
    /\ RejectionsAllowed \in Nat /\ MaxAttempts \in Nat /\ MaxDeaths \in Nat
    /\ "none" \notin Delivered

VARIABLES
    cash,         \* the orders paid on delivery
    window,       \* the orders whose support window is open
    payment,      \* Order.paymentStatus
    mentions,     \* the event keys of Order.refundTimeline
    intent,       \* PaymentIntent.status
    bySupport,    \* the orders whose refundReason is SUPPORT_TICKET_APPROVED
    refund,       \* external: the provider's latest refund
    notices,      \* external: refund webhooks not answered yet
    ticket,       \* SupportTicket
    customer,     \* rejectedTicketsCount and isCodDisabled
    clerks,       \* calls in flight
    interrupted,  \* history: orders with a crashed call, an overwritten result
                  \* or an approval after the money was already back
    deaths

supportVars == <<cash, window, payment, mentions, intent, bySupport, refund, notices,
                 ticket, customer, clerks, interrupted, deaths>>
moneyVars == <<payment, mentions, intent, bySupport, refund, notices>>

Online == Delivered \ cash
ActiveStatus == {"open", "pickup_scheduled", "processing", "refund_pending", "refund_failed"}
TicketStatus == ActiveStatus \union {"none", "refunded", "cod_refund_approved", "rejected"}
RefundStatus == {"refund_pending", "refund_failed", "refunded"}
PaymentStatus == RefundStatus \union {"paid", "cod_refund_approved"}
\* Mutant: an order already pending is passed over.
MutableUnlessPending == {"paid", "refund_failed"}
\* mutablePaymentStatuses of syncOrderRefundState
Mutable == {"paid", "refund_pending", "refund_failed"}
Receipt == 0   \* the event id of a refund that could not be confirmed

TicketCall == [clerk : Clerk, order : Delivered, ticket : Ticket \union {"none"},
               pc : {"create", "read", "cod_ticket", "cod_order", "order", "queue", "refund",
                     "sync_order", "mention", "sync_ticket", "save", "error_ticket",
                     "error_order", "count", "block"},
               then : {"end", "save", "error_ticket"},  \* where the refund part returns to
               id : 0..MaxAttempts,                     \* the refund being synchronised
               status : RefundStatus,                   \* ... and its status; the result
               settled : BOOLEAN]                       \* the order was read as refunded

SupportTypeOK ==
    /\ cash \subseteq Delivered /\ window \subseteq Delivered
    /\ payment \in [Delivered -> PaymentStatus]
    /\ mentions \subseteq Delivered \X (0..MaxAttempts) \X RefundStatus
    /\ intent \in [Online -> {"consumed"} \union RefundStatus]
    /\ bySupport \subseteq Delivered
    /\ refund \in [Online -> [id : 0..MaxAttempts,
                              state : {"none", "pending", "processed", "failed"}]]
    /\ notices \subseteq Delivered \X (0..MaxAttempts) \X RefundStatus
    /\ ticket \in [Ticket -> [order : Delivered \union {"none"}, status : TicketStatus,
                              keyed : BOOLEAN]]
    /\ customer \in [rejected : Nat, codDisabled : BOOLEAN]
    /\ clerks \subseteq TicketCall
    /\ interrupted \subseteq Delivered
    /\ deaths \in 0..MaxDeaths

SupportInit ==
    /\ cash \in SUBSET Delivered /\ window = Delivered
    /\ payment = [o \in Delivered |-> "paid"]
    /\ mentions = {} /\ bySupport = {} /\ notices = {}
    /\ intent = [o \in Online |-> "consumed"]
    /\ refund = [o \in Online |-> [id |-> 0, state |-> "none"]]
    /\ ticket = [t \in Ticket |-> [order |-> "none", status |-> "none", keyed |-> FALSE]]
    /\ customer = [rejected |-> 0, codDisabled |-> FALSE]
    /\ clerks = {} /\ interrupted = {} /\ deaths = 0

-----------------------------------------------------------------------------
(* Calls *)

At(c, pc) == c.pc = pc
CallAt(w, o, t, pc, then) ==
    [clerk |-> w, order |-> o, ticket |-> t, pc |-> pc, then |-> then,
     id |-> 0, status |-> "refund_pending", settled |-> FALSE]
Takes(w, call) ==
    /\ \A c \in clerks : c.clerk # w
    /\ clerks' = clerks \union {call}
Becomes(c, call) == clerks' = (clerks \ {c}) \union {call}
GoesTo(c, pc) == Becomes(c, [c EXCEPT !.pc = pc])
Leaves(c) == clerks' = clerks \ {c}

Interrupting(o, when) == interrupted' = IF when THEN interrupted \union {o} ELSE interrupted

-----------------------------------------------------------------------------
(* The customer *)

Active(o) == \E t \in Ticket : ticket[t].order = o /\ ticket[t].status \in ActiveStatus
KeyTaken(o) == \E t \in Ticket : ticket[t].order = o /\ ticket[t].keyed

\* createSupportTicket, up to the duplicate lookup.
OpenTicket(w, o) ==
    /\ o \in window /\ ~Active(o)
    /\ Takes(w, CallAt(w, o, "none", "create", "end"))
    /\ UNCHANGED <<cash, window, moneyVars, ticket, customer, interrupted, deaths>>

\* Mutant of TicketPossible: no unique index.
TicketInWindow(o) == o \in window
\* The window again; the unique index on activeOrderKey decides.
TicketPossible(o) == o \in window /\ ~KeyTaken(o)
CreateTicket(c) ==
    /\ At(c, "create")
    /\ \/ /\ TicketPossible(c.order)
          /\ \E t \in Ticket :
                /\ ticket[t].status = "none"
                /\ ticket' = [ticket EXCEPT ![t] =
                                [order |-> c.order, status |-> "open", keyed |-> TRUE]]
       \/ ~TicketPossible(c.order) /\ UNCHANGED ticket
    /\ Leaves(c)
    /\ UNCHANGED <<cash, window, moneyVars, customer, interrupted, deaths>>

\* Time: five hours after the delivery.
WindowCloses(o) ==
    /\ o \in window /\ window' = window \ {o}
    /\ UNCHANGED <<cash, moneyVars, ticket, customer, clerks, interrupted, deaths>>

-----------------------------------------------------------------------------
(* The administrator *)

\* approveSupportTicket with a pickup; the refund waits for it.
SchedulePickup(t) ==
    /\ ticket[t].status = "open"
    /\ ticket' = [ticket EXCEPT ![t].status = "pickup_scheduled"]
    /\ UNCHANGED <<cash, window, moneyVars, customer, clerks, interrupted, deaths>>

\* approveSupportTicket without one, verifySupportPickup: findOneAndUpdate on
\* the status, then applyApprovedRefund.
Approve(w, t) ==
    /\ ticket[t].status \in {"open", "pickup_scheduled"}
    /\ ticket' = [ticket EXCEPT ![t].status = "processing"]
    /\ Takes(w, CallAt(w, ticket[t].order, t, "read", "save"))
    /\ UNCHANGED <<cash, window, moneyVars, customer, interrupted, deaths>>

\* rejectSupportTicket: the ticket, the counter, the block.
Reject(w, t) ==
    /\ ticket[t].status = "open"
    /\ ticket' = [ticket EXCEPT ![t].status = "rejected", ![t].keyed = FALSE]
    /\ Takes(w, CallAt(w, ticket[t].order, t, "count", "end"))
    /\ UNCHANGED <<cash, window, moneyVars, customer, interrupted, deaths>>

Blocks(read) == read.rejected > RejectionsAllowed /\ ~read.codDisabled

\* Mutant of CountRejection: the decision is taken on the customer as it was.
CountRejectionLate(c) ==
    /\ At(c, "count")
    /\ customer' = [customer EXCEPT !.rejected = @ + 1]
    /\ IF Blocks(customer) THEN GoesTo(c, "block") ELSE Leaves(c)
    /\ UNCHANGED <<cash, window, moneyVars, ticket, interrupted, deaths>>

CountRejection(c) ==
    /\ At(c, "count")
    /\ customer' = [customer EXCEPT !.rejected = @ + 1]
    /\ IF Blocks(customer') THEN GoesTo(c, "block") ELSE Leaves(c)
    /\ UNCHANGED <<cash, window, moneyVars, ticket, interrupted, deaths>>

BlockCash(c) ==
    /\ At(c, "block")
    /\ customer' = [customer EXCEPT !.codDisabled = TRUE]
    /\ Leaves(c)
    /\ UNCHANGED <<cash, window, moneyVars, ticket, interrupted, deaths>>

-----------------------------------------------------------------------------
(* applyApprovedRefund *)

ReadApprovedOrder(c) ==
    /\ At(c, "read")
    /\ Becomes(c, [c EXCEPT !.pc = IF c.order \in cash THEN "cod_ticket" ELSE "order",
                            !.settled = payment[c.order] = "refunded"])
    /\ UNCHANGED <<cash, window, moneyVars, ticket, customer, interrupted, deaths>>

SaveCashTicket(c) ==
    /\ At(c, "cod_ticket")
    /\ ticket' = [ticket EXCEPT ![c.ticket].status = "cod_refund_approved",
                                ![c.ticket].keyed = FALSE]
    /\ GoesTo(c, "cod_order")
    /\ UNCHANGED <<cash, window, moneyVars, customer, interrupted, deaths>>

SaveCashOrder(c) ==
    /\ At(c, "cod_order")
    /\ payment' = [payment EXCEPT ![c.order] = "cod_refund_approved"]
    /\ Leaves(c)
    /\ UNCHANGED <<cash, window, mentions, intent, bySupport, refund, notices, ticket, customer,
                   interrupted, deaths>>

\* Unconditional: an order already refunded is pending again.
MarkOrderPending(c) ==
    /\ At(c, "order")
    /\ payment' = [payment EXCEPT ![c.order] = "refund_pending"]
    /\ Interrupting(c.order, c.settled)
    /\ GoesTo(c, "queue")
    /\ UNCHANGED <<cash, window, mentions, intent, bySupport, refund, notices, ticket, customer, deaths>>

\* initiateOrderRefund and queueOrderRefund: nothing for an order read as
\* refunded; an intent already refunded settles the order.
QueueRefund(c) ==
    /\ At(c, "queue")
    /\ \/ /\ c.settled
          /\ GoesTo(c, "save") /\ UNCHANGED <<payment, intent, bySupport>>
       \/ /\ ~c.settled /\ intent[c.order] = "refunded"
          /\ payment' = [payment EXCEPT ![c.order] = "refunded"]
          /\ bySupport' = bySupport \union {c.order}
          /\ Becomes(c, [c EXCEPT !.pc = "save", !.status = "refunded"])
          /\ UNCHANGED intent
       \/ /\ ~c.settled /\ intent[c.order] = "consumed"
          /\ intent' = [intent EXCEPT ![c.order] = "refund_pending"]
          /\ bySupport' = bySupport \union {c.order}
          /\ GoesTo(c, "refund") /\ UNCHANGED payment
       \/ /\ ~c.settled /\ intent[c.order] \in {"refund_pending", "refund_failed"}
          /\ GoesTo(c, "refund") /\ UNCHANGED <<payment, intent, bySupport>>
    /\ UNCHANGED <<cash, window, mentions, refund, notices, ticket, customer, interrupted, deaths>>

\* What the call goes on with once refundIntentPayment returned.
Returns(c) ==
    IF c.then = "end" THEN Leaves(c)
    ELSE Becomes(c, [c EXCEPT !.pc = c.then,
                              !.status = IF intent'[c.order] = "consumed" THEN "refund_pending"
                                         ELSE intent'[c.order]])

\* ticket.save() writes the status it computed over whatever is there.
Overwrites(c, status) == ticket[c.ticket].status = "refunded" /\ status # "refunded"

SaveTicket(c) ==
    /\ At(c, "save")
    /\ ticket' = [ticket EXCEPT ![c.ticket].status = c.status,
                                ![c.ticket].keyed = @ /\ c.status # "refunded"]
    /\ Interrupting(c.order, Overwrites(c, c.status))
    /\ Leaves(c)
    /\ UNCHANGED <<cash, window, moneyVars, customer, deaths>>

\* The catch block.
SaveFailedTicket(c) ==
    /\ At(c, "error_ticket")
    /\ ticket' = [ticket EXCEPT ![c.ticket].status = "refund_failed"]
    /\ Interrupting(c.order, Overwrites(c, "refund_failed"))
    /\ GoesTo(c, "error_order")
    /\ UNCHANGED <<cash, window, moneyVars, customer, deaths>>

SaveFailedOrder(c) ==
    /\ At(c, "error_order")
    /\ payment' = [payment EXCEPT ![c.order] = "refund_failed"]
    /\ Interrupting(c.order, payment[c.order] = "refunded")
    /\ Leaves(c)
    /\ UNCHANGED <<cash, window, mentions, intent, bySupport, refund, notices, ticket, customer, deaths>>

-----------------------------------------------------------------------------
(* The refund engine, the provider and its webhooks *)

StatusOf(state) == CASE state = "processed" -> "refunded"
                     [] state = "failed" -> "refund_failed"
                     [] OTHER -> "refund_pending"
Syncs(c, id, status) == Becomes(c, [c EXCEPT !.pc = "sync_order", !.id = id, !.status = status])

\* refundIntentPayment finds the refund it asked for.
FindRefund(c) ==
    LET o == c.order IN
    /\ At(c, "refund")
    /\ \/ /\ intent[o] = "refunded"
          /\ UNCHANGED intent /\ Returns(c)
       \/ /\ intent[o] # "refunded" /\ refund[o].state = "pending"
          /\ intent' = [intent EXCEPT ![o] = "refund_pending"] /\ Returns(c)
       \/ /\ intent[o] # "refunded" /\ refund[o].state = "processed"
          /\ intent' = [intent EXCEPT ![o] = "refunded"]
          /\ Syncs(c, refund[o].id, "refunded")
    /\ UNCHANGED <<cash, window, payment, mentions, bySupport, refund, notices, ticket, customer,
                   interrupted, deaths>>

\* ... or asks for one; the answer may already be final.
RequestRefund(c) ==
    LET o == c.order IN
    /\ At(c, "refund") /\ intent[o] # "refunded" /\ refund[o].state \in {"none", "failed"}
    /\ \/ /\ refund[o].id < MaxAttempts
          /\ \E state \in {"pending", "processed", "failed"} :
                /\ refund' = [refund EXCEPT ![o] = [id |-> @.id + 1, state |-> state]]
                /\ intent' = [intent EXCEPT ![o] = StatusOf(state)]
                /\ Syncs(c, refund[o].id + 1, StatusOf(state))
       \/ /\ intent' = [intent EXCEPT ![o] = "refund_failed"]
          /\ Becomes(c, [c EXCEPT !.pc = "sync_order", !.id = Receipt, !.status = "refund_failed",
                                  !.then = IF @ = "save" THEN "error_ticket" ELSE "end"])
          /\ UNCHANGED refund
    /\ UNCHANGED <<cash, window, payment, mentions, bySupport, notices, ticket, customer,
                   interrupted, deaths>>

\* sweepExpiredPaymentReservations takes a refund job.
SweepRefund(w, o) ==
    /\ o \in Online /\ intent[o] \in {"refund_pending", "refund_failed"}
    /\ Takes(w, CallAt(w, o, "none", "refund", "end"))
    /\ UNCHANGED <<cash, window, moneyVars, ticket, customer, interrupted, deaths>>

\* External: the provider decides, and says so.
ProviderSettles(o) ==
    /\ o \in Online /\ refund[o].state = "pending"
    /\ \E state \in {"processed", "failed"} :
          /\ refund' = [refund EXCEPT ![o].state = state]
          /\ notices' = notices \union {<<o, refund[o].id, StatusOf(state)>>}
    /\ UNCHANGED <<cash, window, payment, mentions, intent, bySupport, ticket, customer, clerks,
                   interrupted, deaths>>

\* External: staff refund the payment in the provider's dashboard.
DashboardRefund(o) ==
    /\ o \in Online /\ refund[o].id = 0 /\ intent[o] = "consumed" /\ MaxAttempts > 0
    /\ refund' = [refund EXCEPT ![o] = [id |-> 1, state |-> "processed"]]
    /\ notices' = notices \union {<<o, 1, "refunded">>}
    /\ UNCHANGED <<cash, window, payment, mentions, intent, bySupport, ticket, customer, clerks,
                   interrupted, deaths>>

\* applyRazorpayRefund up to syncOrderRefundState: the intent, and, for a
\* processed refund, OrderPaymentStatusUpdate before it.
RefundNotice(w, n) ==
    LET o == n[1] IN
    /\ \A c \in clerks : ~(c.order = o /\ c.id = n[2] /\ c.then = "end" /\ c.pc \in
                             {"sync_order", "mention", "sync_ticket"})
    /\ intent' = [intent EXCEPT ![o] = IF @ = "refunded" THEN @ ELSE n[3]]
    /\ payment' = [payment EXCEPT ![o] = IF n[3] = "refunded" /\ @ = "paid" THEN "refunded" ELSE @]
    /\ Takes(w, [CallAt(w, o, "none", "sync_order", "end") EXCEPT !.id = n[2], !.status = n[3]])
    /\ notices' = notices \ {n}
    /\ UNCHANGED <<cash, window, mentions, bySupport, refund, ticket, customer, interrupted, deaths>>

-----------------------------------------------------------------------------
(* syncOrderRefundState *)

EventKey(c) == <<c.order, c.id, c.status>>

SyncOrder(c) ==
    /\ At(c, "sync_order")
    /\ IF payment[c.order] \in Mutable /\ EventKey(c) \notin mentions
       THEN /\ payment' = [payment EXCEPT ![c.order] = c.status]
            /\ GoesTo(c, "mention") /\ UNCHANGED intent
       ELSE UNCHANGED <<payment, intent>> /\ Returns(c)
    /\ UNCHANGED <<cash, window, mentions, bySupport, refund, notices, ticket, customer,
                   interrupted, deaths>>

Mention(c) ==
    /\ At(c, "mention")
    /\ mentions' = IF payment[c.order] = c.status THEN mentions \union {EventKey(c)} ELSE mentions
    /\ GoesTo(c, "sync_ticket")
    /\ UNCHANGED <<cash, window, payment, intent, bySupport, refund, notices, ticket, customer,
                   interrupted, deaths>>

\* The tickets an event of the order's refund may still move.
Refundable(o) == {t \in Ticket : /\ ticket[t].order = o
                                 /\ ticket[t].status \in {"processing", "refund_pending",
                                                          "refund_failed"}}
SyncTicket(c) ==
    /\ At(c, "sync_ticket")
    /\ IF c.order \in bySupport /\ Refundable(c.order) # {}
       THEN \E t \in Refundable(c.order) :
               ticket' = [ticket EXCEPT ![t].status = c.status,
                                        ![t].keyed = @ /\ c.status # "refunded"]
       ELSE UNCHANGED ticket
    /\ UNCHANGED intent /\ Returns(c)
    /\ UNCHANGED <<cash, window, payment, mentions, bySupport, refund, notices, customer,
                   interrupted, deaths>>

\* The process dies in the middle of a call.  The provider repeats a webhook.
CallDies(c) ==
    /\ deaths < MaxDeaths /\ deaths' = deaths + 1
    /\ Leaves(c) /\ Interrupting(c.order, TRUE)
    /\ notices' = IF c.then = "end" /\ c.id > 0 THEN notices \union {EventKey(c)} ELSE notices
    /\ UNCHANGED <<cash, window, payment, mentions, intent, bySupport, refund, ticket, customer>>

SupportNext ==
    \/ \E w \in Clerk :
          \/ \E o \in Delivered : OpenTicket(w, o) \/ SweepRefund(w, o)
          \/ \E t \in Ticket : Approve(w, t) \/ Reject(w, t)
          \/ \E n \in notices : RefundNotice(w, n)
    \/ \E o \in Delivered : WindowCloses(o) \/ ProviderSettles(o) \/ DashboardRefund(o)
    \/ \E t \in Ticket : SchedulePickup(t)
    \/ \E c \in clerks :
          \/ CreateTicket(c) \/ CountRejection(c) \/ BlockCash(c)
          \/ ReadApprovedOrder(c) \/ SaveCashTicket(c) \/ SaveCashOrder(c)
          \/ MarkOrderPending(c) \/ QueueRefund(c) \/ FindRefund(c) \/ RequestRefund(c)
          \/ SaveTicket(c) \/ SaveFailedTicket(c) \/ SaveFailedOrder(c)
          \/ SyncOrder(c) \/ Mention(c) \/ SyncTicket(c) \/ CallDies(c)

SupportSpec == SupportInit /\ [][SupportNext]_supportVars

-----------------------------------------------------------------------------
(* Properties *)

Quiet(o) == (\A c \in clerks : c.order # o) /\ (\A n \in notices : n[1] # o)

\* Once nothing is going on, an order, its intent and its approved ticket say
\* the same of a refund the provider finished: all three refunded, and the
\* customer may open another ticket.  Whatever the order of webhooks, sweeps
\* and the approval's own saves, unless a call crashed, an approval's save
\* overtook the event, or the money was back before the approval.
TicketFollowsRefund ==
    \A o \in Online :
        (Quiet(o) /\ o \notin interrupted /\ refund[o].state = "processed") =>
            /\ payment[o] = "refunded" /\ intent[o] = "refunded"
            /\ \A t \in Ticket :
                  (ticket[t].order = o /\ ticket[t].status \notin {"open", "pickup_scheduled",
                                                                   "rejected"}) =>
                      ticket[t].status = "refunded" /\ ~ticket[t].keyed

\* A customer with more rejected tickets than allowed cannot pay cash, however
\* many administrators reject at once, unless one of their calls crashed.
BlockedAfterRejections ==
    (/\ customer.rejected > RejectionsAllowed
     /\ interrupted = {}
     /\ \A c \in clerks : c.pc \notin {"count", "block"}) => customer.codDisabled

\* An order has at most one ticket that is still being dealt with, two
\* requests at the same moment included, unless a save revived a finished one.
OneActiveTicket ==
    \A s, t \in Ticket :
        (/\ s # t /\ ticket[s].order = ticket[t].order
         /\ ticket[s].order # "none" /\ ticket[s].order \notin interrupted
         /\ ticket[s].status \in ActiveStatus) => ticket[t].status \notin ActiveStatus

=============================================================================
