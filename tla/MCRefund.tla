------------------------------ MODULE MCRefund ------------------------------
(***************************************************************************)
(* A payment of three units of which a customer's cancellation gives back  *)
(* two and a staff cancellation all three.                                 *)
(***************************************************************************)
EXTENDS RefundEngine, TLC

CONSTANTS r1, r2, w1, w2

MCWorkerSymmetry == Permutations(Worker)

\* Two calls at a time, or one with a crash, a refund made by hand or a
\* cancellation in full.
MCBound == (crashes > 0 \/ RefundedByHand \/ cancelTarget = Amount) => Cardinality(calls) <= 1
MCSpec == Init /\ [][Next /\ MCBound']_vars
MCFairSpec == MCSpec /\ Fairness
=============================================================================
