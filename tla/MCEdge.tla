------------------------------- MODULE MCEdge -------------------------------
(***************************************************************************)
(* What meets the outside world, for model checking: a customer who may    *)
(* ask for two codes with two calls in flight, the delivery of two codes,  *)
(* and the intake of two events.  The three share no state: `part' names   *)
(* the one that moves, the others rest.                                    *)
(***************************************************************************)
EXTENDS OtpLogin, OtpDelivery, WebhookEvents, TLC

CONSTANTS o1, o2, p1, p2, t1, t2, w1, w2

VARIABLE part

MCInit ==
    /\ part \in {"login", "delivery", "webhooks"}
    /\ Init /\ DeliveryInit /\ WebhookInit

\* One component moves, the others keep their variables.
MCNext ==
    \/ part = "login" /\ Next /\ UNCHANGED <<deliveryVars, webhookVars, part>>
    \/ part = "delivery" /\ DeliveryNext /\ UNCHANGED <<vars, webhookVars, part>>
    \/ part = "webhooks" /\ WebhookNext /\ UNCHANGED <<vars, deliveryVars, part>>

MCSpec == MCInit /\ [][MCNext]_<<vars, deliveryVars, webhookVars, part>>

\* Nothing refers to one of these by name.  The codes of the login are those of
\* the delivery, a message bears the name of a proof, an event that of a token,
\* a webhook's handler that of a worker.
MCEdgeSymmetry == Permutations(Otp) \union Permutations(Proof) \union Permutations(Token)
                      \union Permutations(Worker)
=============================================================================
