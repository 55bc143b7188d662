---------------------------- MODULE WebhookEvents ---------------------------
(***************************************************************************)
(* The intake of Razorpay's webhooks (razorpay.webhook): an event is       *)
(* recorded by its id, handled under a lease of five minutes, and answered *)
(* 200 when it was handled or is a duplicate.  The provider calls again    *)
(* until it gets a 200.                                                    *)
(*                                                                         *)
(* What handling an event does, any number of times, is in Checkout and    *)
(* RefundEngine.                                                           *)
(***************************************************************************)
EXTENDS Integers, FiniteSets

CONSTANTS
    Event,          \* events the provider has (x-razorpay-event-id)
    Handler,        \* bounds the calls in flight
    MaxFailures     \* bounds the calls that fail or die

ASSUME WebhookAssumption == MaxFailures \in Nat

VARIABLES
    record,      \* PaymentWebhookEvent: its status, or none
    leased,      \* the events whose record was last written within the lease
    handlers,    \* recordAndProcess calls under way
    answered,    \* the events the provider got a 200 for
    failures,
    handled,     \* history: the events processWebhook has run to its end for
    early        \* history: the events answered 200 while under lease

webhookVars == <<record, leased, handlers, answered, failures, handled, early>>

WebhookInit ==
    /\ record = [e \in Event |-> "none"]
    /\ leased = {} /\ handlers = {} /\ answered = {} /\ failures = 0
    /\ handled = {} /\ early = {}

Saves(e, status) ==
    /\ record' = [record EXCEPT ![e] = status]
    /\ leased' = leased \union {e}

\* Mutant: only the lease tells whether a record may be claimed.
ClaimableByLease(e) == record[e] = "processing" /\ e \notin leased

\* The filter of findOneAndUpdate.
Claimable(e) == record[e] = "failed" \/ (record[e] = "processing" /\ e \notin leased)

\* recordAndProcess, up to processWebhook: the first to insert the event's
\* record handles it, or whoever claims it later.
StartHandling(w, e) ==
    /\ e \notin answered
    /\ \A h \in handlers : h.worker # w
    /\ record[e] = "none" \/ Claimable(e)
    /\ Saves(e, "processing")
    /\ handlers' = handlers \union {[worker |-> w, event |-> e, outcome |-> "none"]}
    /\ UNCHANGED <<answered, failures, handled, early>>

\* Neither inserted nor claimed: a duplicate.
AnswerDuplicate(e) ==
    /\ e \notin answered
    /\ record[e] # "none" /\ ~Claimable(e)
    /\ answered' = answered \union {e}
    /\ early' = IF record[e] = "processing" THEN early \union {e} ELSE early
    /\ UNCHANGED <<record, leased, handlers, failures, handled>>

Becomes(h, outcome) == handlers' = (handlers \ {h}) \union {[h EXCEPT !.outcome = outcome]}
Done(h) == handlers' = handlers \ {h}

\* processWebhook returns: the event was applied, or is none of the store's.
ProcessEvent(h, outcome) ==
    /\ h.outcome = "none"
    /\ handled' = handled \union {h.event}
    /\ Becomes(h, outcome)
    /\ UNCHANGED <<record, leased, answered, failures, early>>

\* ... or throws, with nothing said about what it has done so far.
ProcessFails(h) ==
    /\ h.outcome = "none" /\ failures < MaxFailures
    /\ failures' = failures + 1
    /\ Becomes(h, "failed")
    /\ UNCHANGED <<record, leased, answered, handled, early>>

\* Mutant: the error is swallowed.
SaveOutcomeQuietly(h) ==
    /\ h.outcome # "none"
    /\ Saves(h.event, "processed")
    /\ answered' = answered \union {h.event}
    /\ Done(h)
    /\ UNCHANGED <<failures, handled, early>>

\* record.save: the outcome overwrites what another handler wrote.
SaveOutcome(h) ==
    /\ h.outcome # "none"
    /\ Saves(h.event, h.outcome)
    /\ answered' = IF h.outcome = "failed" THEN answered ELSE answered \union {h.event}
    /\ Done(h)
    /\ UNCHANGED <<failures, handled, early>>

\* The first save of an outcome fails and the record is saved as failed.
SaveFails(h) ==
    /\ h.outcome \in {"processed", "ignored"} /\ failures < MaxFailures
    /\ failures' = failures + 1
    /\ Becomes(h, "failed")
    /\ UNCHANGED <<record, leased, answered, handled, early>>

\* The process dies, or the database is gone: the record stays as it is.
HandlerStops(h) ==
    /\ failures < MaxFailures
    /\ failures' = failures + 1
    /\ Done(h)
    /\ UNCHANGED <<record, leased, answered, handled, early>>

LeaseEnds(e) ==
    /\ e \in leased
    /\ leased' = leased \ {e}
    /\ UNCHANGED <<record, handlers, answered, failures, handled, early>>

WebhookNext ==
    \/ \E e \in Event : AnswerDuplicate(e) \/ LeaseEnds(e) \/ \E w \in Handler : StartHandling(w, e)
    \/ \E h \in handlers :
          \/ \E outcome \in {"processed", "ignored"} : ProcessEvent(h, outcome)
          \/ ProcessFails(h) \/ SaveOutcome(h) \/ SaveFails(h) \/ HandlerStops(h)

WebhookSpec == WebhookInit /\ [][WebhookNext]_webhookVars

-----------------------------------------------------------------------------
(* Properties *)

\* An event the provider stops to send has been handled, also when handlers
\* outlive their lease and overwrite each other's outcome: except one that was
\* answered as a duplicate while a handler held it, and that handler then failed.
EventNotLost ==
    \A e \in answered \ handled :
        e \in early /\ (failures > 0 \/ \E h \in handlers : h.event = e)
=============================================================================
