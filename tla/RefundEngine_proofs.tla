------------------------ MODULE RefundEngine_proofs -------------------------
(***************************************************************************)
(* For any amount, targets, dashboard refunds, calls, failures and         *)
(* crashes: the types of RefundEngine, that a payment is called refunded   *)
(* only when the money is out, that the ledger counts each refund once,    *)
(* and that no more goes back than was decided.                            *)
(*                                                                         *)
(* What a call has read may be long past.  It stays true enough because    *)
(* the ledger never shrinks, the target never grows, and a refund of the   *)
(* provider never disappears (`Grows').                                    *)
(***************************************************************************)
EXTENDS RefundEngine, FiniteSetTheorems, TLAPS

-----------------------------------------------------------------------------
(* The inductive invariant *)

IntentOK ==
    /\ status \in {"verified", "consumed", "refunded"} \union Refunding
    /\ reservation \in {"held", "consumed", "released"}
    /\ refundTarget \in Unset..Amount
    /\ refundAmount \in Unset..Amount
    /\ refundReceipt \in Unset..Amount
    /\ refundId \in RefundId \union {"none"}
    /\ refundStatus \in RefundStates \union {"unconfirmed", "requires_review"}
    /\ requestedAt \in {"unset", "recent", "stale"}
LedgerOK == refunded \in 0..Amount /\ processedRefundIds \subseteq RefundId
OrderOK ==
    /\ ordered \in BOOLEAN
    /\ orderPayment \in OrderPayments
    /\ timeline \subseteq (RefundId \union {"receipt"}) \X OrderPayments
    /\ cancelTarget \in Unset..Amount
ProviderOK ==
    /\ refunds \in [RefundId -> [state : RefundStates, amount : 0..Amount, receipt : Unset..Amount]]
    /\ delayed \subseteq [amount : 0..Amount, receipt : Unset..Amount]
    /\ events \subseteq [id : RefundId, status : RefundStates]

\* A refund the provider made, and a name of one, if any.
Made(r) == r \in RefundId /\ refunds[r].state # "none"
Named(id) == id = "none" \/ Made(id)

\* What the documents and the events on their way say of refunds and targets.
NamesAreMade == Named(refundId) /\ \A e \in events : Made(e.id) /\ e.status # "none"
TargetIsDecided ==
    /\ ordered => refundTarget \in {Unset, cancelTarget}
    /\ ~ordered => refundTarget \in {Unset, Amount}

Facts ==
    /\ IntentOK /\ LedgerOK /\ OrderOK /\ ProviderOK /\ crashes \in 0..MaxCrashes
    /\ NamesAreMade /\ TargetIsDecided /\ RefundedIsPaidOut

\* What a call in flight may rely on, at each await.
EventPcs == {"note", "ledger", "order", "settle", "remainder", "mention", "requeue", "sync"}
CallTrue(c) ==
    /\ c.total <= refunded
    /\ c.pc \in {"queue", "claim", "lookup", "request", "relookup", "giveup"} => Named(c.id)
    /\ c.pc \in {"known", "keep", "drop", "record", "note", "ledger", "order", "settle",
                 "remainder", "mention"} => Made(c.id)
    /\ c.pc = "sync" => Made(c.id) \/ c.id = "receipt"
    /\ c.pc \in {"record", "note", "ledger", "order", "settle", "remainder", "mention",
                 "sync"} => c.got # "none"
    /\ c.pc = "queue" => ordered /\ cancelTarget # Unset
    /\ c.pc = "requeue" => ~ordered
    /\ c.pc = "settle" => refunded >= TargetNow
    /\ c.from = "event" => c.pc \in EventPcs /\ Made(c.id) /\ c.got # "none"

RefundInv == Facts /\ calls \subseteq Call /\ \A c \in calls : CallTrue(c)

LEMMA FactsTyped == RefundInv => TypeOK
BY DEF RefundInv, Facts, IntentOK, LedgerOK, OrderOK, ProviderOK, TypeOK

-----------------------------------------------------------------------------
(* What never shrinks *)

Grows ==
    /\ refunded' >= refunded
    /\ TargetNow' <= TargetNow
    /\ \A r \in RefundId : refunds[r].state # "none" => refunds'[r].state # "none"
    /\ ordered' = ordered
    /\ cancelTarget # Unset => cancelTarget' # Unset

LEMMA TargetTyped ==
    /\ IntentOK => TargetNow \in 0..Amount
    /\ IntentOK' => TargetNow' \in 0..Amount
BY RefundAssumption DEF IntentOK, TargetNow, Unset

LEMMA CallKept ==
    ASSUME Facts, Facts', Grows, NEW c \in Call, CallTrue(c)
    PROVE  CallTrue(c)'
<1>1. TargetNow \in Int /\ TargetNow' \in Int /\ refunded \in Int /\ refunded' \in Int /\ c.total \in Int
  BY TargetTyped, RefundAssumption DEF Facts, LedgerOK, Call
<1>2. /\ \A r : Made(r) => Made(r)'
      /\ \A r : Named(r) => Named(r)'
  BY DEF Grows, Made, Named
<1>3. c.total <= refunded' /\ (refunded >= TargetNow => refunded' >= TargetNow')
  BY <1>1 DEF Grows, CallTrue
<1> QED
  BY <1>2, <1>3 DEF Grows, CallTrue

\* New calls are to be looked at, the others stay true.
LEMMA CallsStep ==
    ASSUME RefundInv, Facts', Grows,
           \A c \in calls' \ calls : c \in Call /\ CallTrue(c)'
    PROVE  RefundInv'
BY CallKept DEF RefundInv

-----------------------------------------------------------------------------
(* Steps by what they write *)

\* The intent is written and nothing else; its target stays.
LEMMA IntentWritten ==
    ASSUME Facts, IntentOK', UNCHANGED <<refundTarget, ledgerVars, orderVars, providerVars>>,
           crashes' \in 0..MaxCrashes, Named(refundId'),
           status' = "refunded" => status = "refunded" \/ refunded >= TargetNow
    PROVE  Facts' /\ Grows
<1>1. UNCHANGED <<refunded, processedRefundIds, ordered, orderPayment, timeline, cancelTarget,
                  refunds, delayed, events>>
  BY DEF ledgerVars, orderVars, providerVars
<1>2. TargetNow' = TargetNow /\ TargetNow \in Int /\ refunded \in Int
  BY TargetTyped, RefundAssumption DEF TargetNow, Facts, LedgerOK
<1>3. LedgerOK' /\ OrderOK' /\ ProviderOK'
  BY <1>1 DEF Facts, LedgerOK, OrderOK, ProviderOK
<1>4. NamesAreMade' /\ TargetIsDecided'
  BY <1>1 DEF Facts, NamesAreMade, TargetIsDecided, Named, Made
<1>5. RefundedIsPaidOut'
  BY <1>1, <1>2 DEF Facts, RefundedIsPaidOut
<1>6. Grows
  BY <1>1, <1>2 DEF Grows
<1> QED
  BY <1>3, <1>4, <1>5, <1>6 DEF Facts

\* Nothing is written but the calls.
LEMMA NothingWritten ==
    ASSUME Facts, UNCHANGED <<intentVars, ledgerVars, orderVars, providerVars>>,
           crashes' \in 0..MaxCrashes
    PROVE  Facts' /\ Grows
<1>1. UNCHANGED <<status, reservation, refundTarget, refundAmount, refundReceipt, refundId,
                  refundStatus, requestedAt>>
  BY DEF intentVars
<1>2. IntentOK'
  BY <1>1 DEF Facts, IntentOK
<1>3. Named(refundId')
  BY <1>1 DEF Facts, NamesAreMade
<1> QED
  BY <1>1, <1>2, <1>3, IntentWritten

\* The order's payment status is written and nothing else.
LEMMA OrderWritten ==
    ASSUME Facts, UNCHANGED <<intentVars, ledgerVars, ordered, cancelTarget, providerVars>>,
           crashes' \in 0..MaxCrashes, orderPayment' \in OrderPayments,
           timeline' \subseteq (RefundId \union {"receipt"}) \X OrderPayments,
           orderPayment' = "refunded" => orderPayment = "refunded" \/ refunded = Amount
    PROVE  Facts' /\ Grows
<1>1. UNCHANGED <<status, reservation, refundTarget, refundAmount, refundReceipt, refundId,
                  refundStatus, requestedAt, refunded, processedRefundIds, refunds, delayed, events>>
  BY DEF intentVars, ledgerVars, providerVars
<1>2. TargetNow' = TargetNow /\ TargetNow \in Int /\ refunded \in Int
  BY <1>1, TargetTyped, RefundAssumption DEF TargetNow, Facts, LedgerOK
<1>3. IntentOK' /\ LedgerOK' /\ OrderOK' /\ ProviderOK'
  BY <1>1 DEF Facts, IntentOK, LedgerOK, OrderOK, ProviderOK
<1>4. NamesAreMade' /\ TargetIsDecided'
  BY <1>1 DEF Facts, NamesAreMade, TargetIsDecided, Named, Made
<1>5. RefundedIsPaidOut'
  BY <1>1, <1>2 DEF Facts, RefundedIsPaidOut
<1>6. Grows
  BY <1>1, <1>2 DEF Grows
<1> QED
  BY <1>3, <1>4, <1>5, <1>6 DEF Facts

\* The provider moves: refunds it made stay made.
LEMMA ProviderMoves ==
    ASSUME Facts, UNCHANGED <<intentVars, ledgerVars, orderVars>>, crashes' \in 0..MaxCrashes,
           ProviderOK', \A r \in RefundId : refunds[r].state # "none" => refunds'[r].state # "none",
           \A e \in events' \ events : Made(e.id)' /\ e.status # "none"
    PROVE  Facts' /\ Grows
<1>1. UNCHANGED <<status, reservation, refundTarget, refundAmount, refundReceipt, refundId,
                  refundStatus, requestedAt, refunded, processedRefundIds, ordered, orderPayment,
                  timeline, cancelTarget>>
  BY DEF intentVars, ledgerVars, orderVars
<1>2. TargetNow' = TargetNow /\ TargetNow \in Int /\ refunded \in Int
  BY <1>1, TargetTyped, RefundAssumption DEF TargetNow, Facts, LedgerOK
<1>3. IntentOK' /\ LedgerOK' /\ OrderOK'
  BY <1>1 DEF Facts, IntentOK, LedgerOK, OrderOK
<1>4. NamesAreMade'
  BY <1>1 DEF Facts, NamesAreMade, Named, Made
<1>5. TargetIsDecided' /\ RefundedIsPaidOut'
  BY <1>1, <1>2 DEF Facts, TargetIsDecided, RefundedIsPaidOut
<1>6. Grows
  BY <1>1, <1>2 DEF Grows
<1> QED
  BY <1>3, <1>4, <1>5, <1>6 DEF Facts

\* A refund is queued: the target does not grow by it.
LEMMA RefundQueued ==
    ASSUME Facts, NEW target \in 0..Amount, QueueRefund(target), target <= TargetNow,
           ~ordered => target = Amount, UNCHANGED <<ledgerVars, providerVars>>,
           reservation' \in {"held", "consumed", "released"}, ordered' = ordered,
           ordered => cancelTarget' = target, cancelTarget' \in Unset..Amount,
           cancelTarget # Unset => cancelTarget' # Unset,
           orderPayment' \in OrderPayments, UNCHANGED timeline, crashes' \in 0..MaxCrashes,
           orderPayment' = "refunded" =>
               orderPayment = "refunded" \/ (target >= Amount /\ Owing(target) = 0)
    PROVE  /\ Facts' /\ Grows
           /\ refundAmount' \in Unset..Amount /\ refundReceipt' \in Unset..Amount /\ Named(refundId)'
<1>1. UNCHANGED <<refunded, processedRefundIds, refunds, delayed, events>>
  BY DEF ledgerVars, providerVars
<1>2. /\ refunded \in Int /\ 0 <= refunded /\ refunded <= Amount /\ TargetNow \in Int
      /\ Amount \in Int /\ Amount > 0
  BY TargetTyped, RefundAssumption DEF Facts, LedgerOK
<1>3. Owing(target) \in 0..Amount /\ (Owing(target) = 0 => refunded >= target)
  BY <1>2 DEF Owing
<1>4. TargetNow' = target
  BY <1>2 DEF QueueRefund, TargetNow, Unset
<1>5. IntentOK'
  BY <1>2, <1>3 DEF QueueRefund, IntentOK, Facts, Refunding, RefundStates, Unset
<1>6. Named(refundId)'
  BY <1>1 DEF QueueRefund, Facts, NamesAreMade, Named, Made
<1>7. LedgerOK' /\ OrderOK' /\ ProviderOK'
  BY <1>1 DEF Facts, LedgerOK, OrderOK, ProviderOK
<1>8. NamesAreMade'
  BY <1>1, <1>6 DEF Facts, NamesAreMade, Named, Made
<1>9. TargetIsDecided'
  BY DEF QueueRefund, TargetIsDecided
<1>10. RefundedIsPaidOut'
  BY <1>1, <1>2, <1>3, <1>4 DEF QueueRefund, Facts, RefundedIsPaidOut
<1>11. Grows
  BY <1>1, <1>2, <1>4 DEF Grows
<1> QED
  BY <1>5, <1>6, <1>7, <1>8, <1>9, <1>10, <1>11 DEF Facts, IntentOK

\* The ledger counts a refund that was made; the intent may name it.
LEMMA LedgerCounts ==
    ASSUME Facts, NEW r, Made(r), Count(r), crashes' \in 0..MaxCrashes,
           UNCHANGED <<status, reservation, refundTarget, refundAmount, refundReceipt, requestedAt,
                       orderVars, providerVars>>,
           \/ UNCHANGED <<refundId, refundStatus>>
           \/ refundId' = r /\ refundStatus' = "processed"
    PROVE  Facts' /\ Grows
<1>1. UNCHANGED <<ordered, orderPayment, timeline, cancelTarget, refunds, delayed, events>>
  BY DEF orderVars, providerVars
<1>2. /\ refunded \in Int /\ 0 <= refunded /\ refunded <= Amount /\ TargetNow \in Int /\ Amount \in Int
      /\ refunds[r].amount \in Int /\ refunds[r].amount >= 0 /\ r \in RefundId
  BY TargetTyped, RefundAssumption DEF Facts, LedgerOK, ProviderOK, Made
<1>3. \A n \in Int : Min({Amount, n}) = IF Amount <= n THEN Amount ELSE n
  BY <1>2 DEF Min
<1>4. refunded' \in 0..Amount /\ refunded' >= refunded /\ processedRefundIds' \subseteq RefundId
  BY <1>2, <1>3 DEF Count, ledgerVars, Facts, LedgerOK
<1>5. TargetNow' = TargetNow
  BY DEF TargetNow
<1>6. IntentOK'
  BY <1>2 DEF Facts, IntentOK, RefundStates
<1>7. LedgerOK' /\ OrderOK' /\ ProviderOK'
  BY <1>1, <1>4 DEF Facts, LedgerOK, OrderOK, ProviderOK
<1>8. NamesAreMade' /\ TargetIsDecided'
  BY <1>1 DEF Facts, NamesAreMade, TargetIsDecided, Named, Made
<1>9. RefundedIsPaidOut'
  BY <1>1, <1>2, <1>4, <1>5 DEF Facts, RefundedIsPaidOut
<1>10. Grows
  BY <1>1, <1>2, <1>4, <1>5 DEF Grows
<1> QED
  BY <1>6, <1>7, <1>8, <1>9, <1>10 DEF Facts

-----------------------------------------------------------------------------
(* Calls *)

LEMMA MadeStays ==
    ASSUME Grows
    PROVE  \A r : (Made(r) => Made(r)') /\ (Named(r) => Named(r)')
BY DEF Grows, Made, Named

LEMMA CallsAre == RefundInv => \A c \in calls : c \in Call /\ CallTrue(c)
BY DEF RefundInv

LEMMA GoesOn ==
    ASSUME RefundInv, Facts', Grows, NEW c, NEW d \in Call, Continue(c, d), CallTrue(d)'
    PROVE  RefundInv'
BY CallsStep DEF Continue

LEMMA Ends ==
    ASSUME RefundInv, Facts', Grows, calls' \subseteq calls
    PROVE  RefundInv'
BY CallsStep

LEMMA Starts ==
    ASSUME RefundInv, Facts', Grows, NEW d \in Call, Begin(d), CallTrue(d)'
    PROVE  RefundInv'
BY CallsStep DEF Begin

Pcs == {"queue", "known", "keep", "drop", "claim", "lookup", "request", "relookup",
        "giveup", "record", "note", "ledger", "order", "settle", "remainder",
        "mention", "requeue", "sync"}

LEMMA EngineCallTrue ==
    ASSUME Facts', NEW w \in Worker, NEW id \in RefundId \union {"none"},
           NEW receipt \in Unset..Amount, Named(id)'
    PROVE  EngineCall(w, id, receipt) \in Call /\ CallTrue(EngineCall(w, id, receipt))'
<1> DEFINE d == EngineCall(w, id, receipt)
           pc == IF id = "none" THEN "claim" ELSE "known"
<1>1. pc \in {"claim", "known"}
  OBVIOUS
<1>2. Blank(w) \in Call /\ Blank(w).total = 0 /\ Blank(w).from = "engine"
  BY RefundAssumption DEF Blank, Call, RefundStates, Unset
<1>3. d = [Blank(w) EXCEPT !.pc = pc, !.id = id, !.receipt = receipt]
  BY DEF EngineCall
<1>4. refunded' >= 0
  BY RefundAssumption DEF Facts, LedgerOK
<1>5. id # "none" => Made(id)'
  BY DEF Named
<1>6. pc = "known" => id # "none"
  OBVIOUS
<1>7. pc \in Pcs
  BY DEF Pcs
<1> HIDE DEF d, pc
<1>8. d \in Call /\ d.total = 0 /\ d.from = "engine" /\ d.id = id /\ d.pc = pc
  BY <1>2, <1>3, <1>7 DEF Call, Pcs
<1>9. CallTrue(d)'
  BY <1>1, <1>4, <1>5, <1>6, <1>8 DEF CallTrue
<1> QED
  BY <1>8, <1>9 DEF d

\* The engine is entered with a refund that was made, or none.
LEMMA EngineEntered ==
    ASSUME RefundInv, Facts', Grows, NEW c, NEW w \in Worker,
           NEW id \in RefundId \union {"none"}, NEW receipt \in Unset..Amount, Named(id)',
           Begin(EngineCall(w, id, receipt)) \/ Continue(c, EngineCall(w, id, receipt))
    PROVE  RefundInv'
<1>1. EngineCall(w, id, receipt) \in Call /\ CallTrue(EngineCall(w, id, receipt))'
  BY EngineCallTrue
<1> DEFINE d == EngineCall(w, id, receipt)
<1> HIDE DEF d
<1>2. d \in Call /\ CallTrue(d)' /\ (Begin(d) \/ Continue(c, d))
  BY <1>1 DEF d
<1> QED
  BY <1>2, GoesOn, Starts

\* A call goes on with another refund at hand, or the same.
LEMMA GoesTo ==
    ASSUME RefundInv, Facts', Grows, NEW c \in calls, NEW d, Continue(c, d), d \in Call,
           d.total <= refunded', d.from = c.from,
           d.pc \in {"queue", "claim", "lookup", "request", "relookup", "giveup"} => Named(d.id)',
           d.pc \in {"known", "keep", "drop", "record", "note", "ledger", "order", "settle",
                     "remainder", "mention"} => Made(d.id)',
           d.pc = "sync" => Made(d.id)' \/ d.id = "receipt",
           d.pc \in {"record", "note", "ledger", "order", "settle", "remainder", "mention",
                     "sync"} => d.got # "none",
           d.pc # "queue", d.pc = "requeue" => ~ordered, d.pc = "settle" => refunded' >= TargetNow',
           c.from = "event" => d.pc \in EventPcs /\ Made(d.id)' /\ d.got # "none"
    PROVE  RefundInv'
<1>1. ordered' = ordered
  BY DEF Grows
<1>2. CallTrue(d)'
  BY <1>1 DEF CallTrue
<1> QED
  BY <1>2, GoesOn

\* ... only further.
LEMMA Went ==
    ASSUME RefundInv, Facts', Grows, NEW c \in calls, NEW pc \in Pcs, Go(c, pc),
           pc \in {"claim", "lookup", "request", "relookup", "giveup"} => Named(c.id),
           pc \in {"known", "keep", "drop", "record", "note", "ledger", "order", "settle",
                   "remainder", "mention"} => Made(c.id),
           pc = "sync" => Made(c.id) \/ c.id = "receipt",
           pc \in {"record", "note", "ledger", "order", "settle", "remainder", "mention",
                   "sync"} => c.got # "none",
           pc # "queue", pc = "requeue" => ~ordered, pc = "settle" => refunded' >= TargetNow',
           c.from = "event" => pc \in EventPcs
    PROVE  RefundInv'
<1> DEFINE d == [c EXCEPT !.pc = pc]
<1>1. c \in Call /\ CallTrue(c)
  BY CallsAre
<1>2. /\ d \in Call /\ d.pc = pc /\ d.id = c.id /\ d.got = c.got /\ d.total = c.total
      /\ d.from = c.from
  BY <1>1 DEF Call, Pcs
<1>3. Continue(c, d)
  BY DEF Go
<1> HIDE DEF d
<1>4. c.total <= refunded'
  <2>1. c.total \in Int /\ refunded \in Int /\ refunded' \in Int
    BY <1>1, RefundAssumption DEF Call, RefundInv, Facts, LedgerOK
  <2> QED
    BY <2>1, <1>1 DEF CallTrue, Grows
<1>5. /\ Named(c.id) => Named(c.id)'
      /\ Made(c.id) => Made(c.id)'
  BY MadeStays
<1>6. c.from = "event" => Made(c.id) /\ c.got # "none"
  BY <1>1 DEF CallTrue
<1> QED
  BY <1>2, <1>3, <1>4, <1>5, <1>6, GoesTo

-----------------------------------------------------------------------------
(* Queueing *)

LEMMA CancelStep ==
    ASSUME RefundInv, NEW target \in Targets, Cancel(target)
    PROVE  RefundInv'
<1>1. /\ Facts /\ target \in 0..Amount /\ ordered /\ refundTarget = Unset /\ TargetNow = Amount
      /\ UNCHANGED <<reservation, ledgerVars, ordered, timeline, providerVars, calls, crashes>>
      /\ cancelTarget' = target /\ cancelTarget = Unset /\ crashes' \in 0..MaxCrashes
  BY RefundAssumption DEF Cancel, RefundInv, Facts, TargetIsDecided, TargetNow
<1>2. reservation' \in {"held", "consumed", "released"} /\ target <= TargetNow /\ target \in Unset..Amount
  BY <1>1, RefundAssumption DEF Facts, IntentOK, Unset
<1>3. CASE /\ QueueRefund(target)
           /\ orderPayment' = IF Owing(target) = 0 THEN PaidBack(target) ELSE "refund_pending"
  <2>1. orderPayment' \in OrderPayments /\ (orderPayment' = "refunded" => target >= Amount /\ Owing(target) = 0)
    BY <1>3 DEF PaidBack, OrderPayments
  <2>2. Facts' /\ Grows
    BY <1>1, <1>2, <1>3, <2>1, RefundQueued
  <2> QED
    BY <2>2, <1>1, Ends
<1>4. CASE UNCHANGED <<refundTarget, status, refundAmount, refundReceipt, refundId, refundStatus,
                       requestedAt, orderPayment>>
  <2>1. IntentOK' /\ LedgerOK' /\ OrderOK' /\ ProviderOK'
    BY <1>1, <1>2, <1>4 DEF Facts, IntentOK, LedgerOK, OrderOK, ProviderOK, ledgerVars, providerVars
  <2>2. NamesAreMade' /\ TargetIsDecided'
    BY <1>1, <1>4 DEF Facts, NamesAreMade, TargetIsDecided, Named, Made, providerVars
  <2>3. TargetNow' = TargetNow /\ UNCHANGED <<refunded, refunds>>
    BY <1>1, <1>4 DEF TargetNow, ledgerVars, providerVars
  <2>4. RefundedIsPaidOut'
    BY <1>1, <1>4, <2>3 DEF Facts, RefundedIsPaidOut
  <2>5. Grows
    <3>1. TargetNow \in Int /\ refunded \in Int
      BY <1>1, TargetTyped, RefundAssumption DEF Facts, LedgerOK
    <3> QED
      BY <1>1, <2>3, <3>1 DEF Grows
  <2> QED
    BY <1>1, <2>1, <2>2, <2>4, <2>5, Ends DEF Facts
<1> QED
  BY <1>3, <1>4 DEF Cancel

\* refundIntentPayment entered with the refund the document names.
LEMMA FieldsEnter ==
    ASSUME RefundInv, Facts', Grows, NEW w \in Worker, UNCHANGED <<refundId, refundReceipt>>,
           Begin(EngineCall(w, refundId, refundReceipt))
    PROVE  RefundInv'
<1>1. PICK id \in RefundId \union {"none"}, receipt \in Unset..Amount :
        id = refundId /\ receipt = refundReceipt
  BY DEF RefundInv, Facts, IntentOK
<1>2. Named(id)'
  BY <1>1, MadeStays DEF RefundInv, Facts, NamesAreMade
<1>3. Begin(EngineCall(w, id, receipt))
  BY <1>1
<1> QED
  BY <1>2, <1>3, EngineEntered

LEMMA InitiateStep ==
    ASSUME RefundInv, NEW w \in Worker, Initiate(w)
    PROVE  RefundInv'
<1>1. Facts /\ UNCHANGED <<intentVars, ledgerVars, orderVars, providerVars, crashes>>
  BY DEF Initiate, Begin, RefundInv
<1>2. Facts' /\ Grows
  BY <1>1, NothingWritten DEF Facts
<1>3. CASE Begin(EngineCall(w, refundId, refundReceipt))
  BY <1>1, <1>2, <1>3, FieldsEnter DEF intentVars
<1>4. CASE Begin([Blank(w) EXCEPT !.pc = "queue"])
  <2> DEFINE d == [Blank(w) EXCEPT !.pc = "queue"]
  <2>1. d \in Call /\ d.total = 0 /\ d.from = "engine" /\ d.id = "none" /\ d.pc = "queue"
    BY RefundAssumption DEF Blank, Call, RefundStates, Unset
  <2>2. refunded' >= 0 /\ ordered' /\ cancelTarget' # Unset
    BY <1>1, <1>2, RefundAssumption DEF Facts, LedgerOK, Initiate, orderVars
  <2> HIDE DEF d
  <2>3. CallTrue(d)'
    BY <2>1, <2>2 DEF CallTrue, Named
  <2> QED
    BY <1>2, <1>4, <2>1, <2>3, Starts DEF d
<1> QED
  BY <1>3, <1>4 DEF Initiate

LEMMA SweepRefundStep ==
    ASSUME RefundInv, NEW w \in Worker, SweepRefund(w)
    PROVE  RefundInv'
<1>1. Facts /\ UNCHANGED <<intentVars, ledgerVars, orderVars, providerVars, crashes>>
  BY DEF SweepRefund, Begin, RefundInv
<1>2. Facts' /\ Grows
  BY <1>1, NothingWritten DEF Facts
<1> QED
  BY <1>1, <1>2, FieldsEnter DEF SweepRefund, intentVars

LEMMA SweepHeldRefundStep ==
    ASSUME RefundInv, NEW w \in Worker, SweepHeldRefund(w)
    PROVE  RefundInv'
<1>1. /\ Facts
      /\ UNCHANGED <<status, refundTarget, refundAmount, refundReceipt, refundId, refundStatus,
                     requestedAt, ledgerVars, orderVars, providerVars, crashes>>
      /\ reservation' = "released"
  BY DEF SweepHeldRefund, Begin, RefundInv
<1>2. IntentOK' /\ Named(refundId')
  BY <1>1 DEF Facts, IntentOK, NamesAreMade
<1>3. Facts' /\ Grows
  BY <1>1, <1>2, IntentWritten DEF Facts
<1>4. CASE UNCHANGED calls
  BY <1>3, <1>4, Ends
<1>5. CASE Begin(EngineCall(w, refundId, refundReceipt))
  BY <1>1, <1>3, <1>5, FieldsEnter
<1> QED
  BY <1>4, <1>5 DEF SweepHeldRefund

\* The engine entered with the fields the queueing transaction wrote.
LEMMA NewFieldsEnter ==
    ASSUME RefundInv, Facts', Grows, NEW c, NEW w \in Worker,
           \/ Begin(EngineCall(w, refundId', refundReceipt'))
           \/ Continue(c, EngineCall(w, refundId', refundReceipt'))
    PROVE  RefundInv'
<1>1. PICK id \in RefundId \union {"none"}, receipt \in Unset..Amount :
        id = refundId' /\ receipt = refundReceipt'
  BY DEF Facts, IntentOK
<1>2. Named(id)'
  BY <1>1 DEF Facts, NamesAreMade, Named, Made
<1>3. Begin(EngineCall(w, id, receipt)) \/ Continue(c, EngineCall(w, id, receipt))
  BY <1>1
<1> QED
  BY <1>2, <1>3, EngineEntered

LEMMA WholeIsTarget == Facts /\ ~ordered => Amount <= TargetNow /\ Amount \in 0..Amount
BY RefundAssumption DEF Facts, TargetIsDecided, TargetNow

LEMMA UnfulfillableStep ==
    ASSUME RefundInv, NEW w \in Worker, Unfulfillable(w)
    PROVE  RefundInv'
<1>1. /\ Facts /\ ~ordered /\ UNCHANGED <<ledgerVars, orderVars, providerVars>>
      /\ QueueRefund(Amount) /\ reservation' = "released" /\ crashes' = crashes
  BY DEF Unfulfillable, Begin, RefundInv
<1>2. UNCHANGED <<ordered, cancelTarget, timeline, orderPayment>>
  BY <1>1 DEF orderVars
<1>3. /\ cancelTarget' \in Unset..Amount /\ orderPayment' \in OrderPayments
      /\ crashes' \in 0..MaxCrashes
  BY <1>1, <1>2 DEF Facts, OrderOK
<1>4. Facts' /\ Grows
  BY <1>1, <1>2, <1>3, WholeIsTarget, RefundQueued
<1>5. CASE UNCHANGED calls
  BY <1>4, <1>5, Ends
<1>6. CASE Begin(EngineCall(w, refundId', refundReceipt'))
  BY <1>4, <1>6, NewFieldsEnter
<1> QED
  BY <1>5, <1>6 DEF Unfulfillable

LEMMA RequeueStep ==
    ASSUME RefundInv, NEW c \in calls, Requeue(c)
    PROVE  RefundInv'
<1>1. /\ Facts /\ c \in Call /\ CallTrue(c) /\ UNCHANGED <<ledgerVars, orderVars, providerVars>>
      /\ QueueRefund(Amount) /\ c.pc = "requeue" /\ crashes' = crashes /\ calls' \subseteq calls
      /\ reservation' = IF reservation = "held" THEN "released" ELSE reservation
  BY CallsAre DEF Requeue, Return, RefundInv
<1>2. UNCHANGED <<ordered, cancelTarget, timeline, orderPayment>> /\ ~ordered
  BY <1>1 DEF orderVars, CallTrue
<1>3. /\ cancelTarget' \in Unset..Amount /\ orderPayment' \in OrderPayments
      /\ crashes' \in 0..MaxCrashes /\ reservation' \in {"held", "consumed", "released"}
  BY <1>1, <1>2 DEF Facts, OrderOK, IntentOK
<1>4. Facts' /\ Grows
  BY <1>1, <1>2, <1>3, WholeIsTarget, RefundQueued
<1> QED
  BY <1>1, <1>4, Ends

LEMMA QueueCancelledStep ==
    ASSUME RefundInv, NEW c \in calls, QueueCancelled(c)
    PROVE  RefundInv'
<1>1. /\ Facts /\ c \in Call /\ CallTrue(c) /\ c.pc = "queue" /\ crashes' = crashes
      /\ UNCHANGED <<reservation, ledgerVars, ordered, timeline, cancelTarget, providerVars>>
  BY CallsAre DEF QueueCancelled, Return, Continue, RefundInv
<1>2. ordered /\ cancelTarget \in 0..Amount
  BY <1>1, RefundAssumption DEF CallTrue, Facts, OrderOK, Unset
<1>3. PICK target \in 0..Amount : target = cancelTarget
  BY <1>2
<1>4. /\ QueueRefund(target)
      /\ orderPayment' = IF Owing(target) = 0 /\ orderPayment \notin {"refunded", "partially_refunded"}
                         THEN PaidBack(target) ELSE orderPayment
  BY <1>3 DEF QueueCancelled, QueueRefund, Owing
<1>5. target <= TargetNow /\ TargetNow \in Int
  BY <1>1, <1>2, <1>3, RefundAssumption DEF Facts, TargetIsDecided, TargetNow
<1>6. /\ orderPayment' \in OrderPayments
      /\ orderPayment' = "refunded" =>
             orderPayment = "refunded" \/ (target >= Amount /\ Owing(target) = 0)
  BY <1>1, <1>4 DEF PaidBack, OrderPayments, Facts, OrderOK
<1>7. /\ reservation' \in {"held", "consumed", "released"} /\ cancelTarget' = target
      /\ cancelTarget' \in Unset..Amount /\ cancelTarget' # Unset /\ crashes' \in 0..MaxCrashes
  BY <1>1, <1>2, <1>3, RefundAssumption DEF Facts, IntentOK, OrderOK, Unset
<1>8. Facts' /\ Grows
  BY <1>1, <1>2, <1>4, <1>5, <1>6, <1>7, RefundQueued
<1>9. CASE Return(c)
  BY <1>8, <1>9, Ends DEF Return
<1>10. CASE Continue(c, EngineCall(c.worker, refundId', refundReceipt'))
  <2>1. c.worker \in Worker
    BY <1>1 DEF Call
  <2> QED
    BY <1>8, <1>10, <2>1, NewFieldsEnter
<1> QED
  BY <1>9, <1>10 DEF QueueCancelled

-----------------------------------------------------------------------------
(* refundIntentPayment *)

\* A step that only asks.
LEMMA OnlyAsks ==
    ASSUME RefundInv, UNCHANGED <<intentVars, ledgerVars, orderVars, providerVars, crashes>>
    PROVE  Facts' /\ Grows
<1>1. Facts /\ crashes' \in 0..MaxCrashes
  BY DEF RefundInv, Facts
<1> QED
  BY <1>1, NothingWritten

LEMMA ProviderErrorStep ==
    ASSUME RefundInv, NEW c \in calls, ProviderError(c)
    PROVE  RefundInv'
BY OnlyAsks, Ends DEF ProviderError, Return

LEMMA KnownStep ==
    ASSUME RefundInv, NEW c \in calls, Known(c)
    PROVE  RefundInv'
<1>1. /\ Facts' /\ Grows /\ Facts /\ c \in Call /\ CallTrue(c) /\ c.pc = "known"
      /\ refunds' = refunds /\ refunded' = refunded
  BY OnlyAsks, CallsAre DEF Known, Continue, RefundInv, providerVars, ledgerVars
<1>2. Made(c.id) /\ Made(c.id)'
  BY <1>1, MadeStays DEF CallTrue
<1>3. PICK s \in RefundStates : s = refunds[c.id].state
  BY <1>1, <1>2 DEF Made, Facts, ProviderOK
<1>4. s # "none"
  BY <1>2, <1>3 DEF Made
<1>5. PICK pc \in {"ledger", "keep", "drop"} :
        pc = CASE s = "processed" -> "ledger" [] s = "pending" -> "keep" [] OTHER -> "drop"
  OBVIOUS
<1> DEFINE d == [c EXCEPT !.got = s, !.pc = pc]
<1>6. pc \in Pcs
  BY <1>5 DEF Pcs
<1>7. /\ d \in Call /\ d.pc = pc /\ d.id = c.id /\ d.got = s /\ d.total = c.total
      /\ d.from = c.from
  BY <1>1, <1>6 DEF Call, Pcs
<1>8. Continue(c, d)
  BY <1>3, <1>5 DEF Known
<1>9. c.from # "event" /\ c.total <= refunded'
  BY <1>1 DEF CallTrue, EventPcs
<1> HIDE DEF d
<1> QED
  BY <1>1, <1>2, <1>4, <1>5, <1>7, <1>8, <1>9, GoesTo

LEMMA KeepStep ==
    ASSUME RefundInv, NEW c \in calls, Keep(c)
    PROVE  RefundInv'
<1>1. /\ Facts /\ c \in Call /\ crashes' = crashes /\ calls' \subseteq calls
      /\ status' = "refund_pending" /\ refundStatus' = c.got
      /\ UNCHANGED <<reservation, refundTarget, refundAmount, refundReceipt, refundId, requestedAt,
                     ledgerVars, orderVars, providerVars>>
  BY CallsAre DEF Keep, Return, RefundInv
<1>2. IntentOK' /\ Named(refundId') /\ crashes' \in 0..MaxCrashes
  BY <1>1 DEF Facts, IntentOK, NamesAreMade, Call, Refunding
<1>3. Facts' /\ Grows
  BY <1>1, <1>2, IntentWritten
<1> QED
  BY <1>1, <1>3, Ends

LEMMA DropStep ==
    ASSUME RefundInv, NEW c \in calls, Drop(c)
    PROVE  RefundInv'
<1>1. /\ Facts /\ c \in Call /\ CallTrue(c) /\ c.pc = "drop" /\ crashes' = crashes
      /\ UNCHANGED <<reservation, refundTarget, refundAmount, refundReceipt,
                     ledgerVars, orderVars, providerVars>>
      /\ \/ /\ status' = "refund_failed" /\ refundStatus' = c.got
            /\ refundId' = "none" /\ requestedAt' = "unset"
         \/ UNCHANGED <<status, refundStatus, refundId, requestedAt>>
  BY CallsAre DEF Drop, Go, Continue, RefundInv
<1>2. IntentOK' /\ Named(refundId') /\ crashes' \in 0..MaxCrashes
  BY <1>1 DEF Facts, IntentOK, NamesAreMade, Named, Call, Refunding
<1>3. Facts' /\ Grows
  BY <1>1, <1>2, IntentWritten
<1>4. Go(c, "claim") /\ Named(c.id) /\ c.from # "event"
  BY <1>1 DEF Drop, CallTrue, Named, EventPcs
<1> QED
  BY <1>3, <1>4, Went DEF Pcs

LEMMA ClaimStep ==
    ASSUME RefundInv, NEW c \in calls, Claim(c)
    PROVE  RefundInv'
<1>1. /\ Facts /\ c \in Call /\ CallTrue(c) /\ c.pc = "claim" /\ crashes' = crashes
      /\ UNCHANGED <<reservation, refundTarget, refundAmount, refundReceipt, refundId, refundStatus,
                     ledgerVars, orderVars, providerVars>>
      /\ \/ status' = "refund_pending" /\ requestedAt' = "recent"
         \/ UNCHANGED <<status, requestedAt>>
  BY CallsAre DEF Claim, Continue, Return, RefundInv
<1>2. IntentOK' /\ Named(refundId') /\ crashes' \in 0..MaxCrashes
  BY <1>1 DEF Facts, IntentOK, NamesAreMade, Refunding
<1>3. Facts' /\ Grows
  BY <1>1, <1>2, IntentWritten
<1>4. CASE Return(c)
  BY <1>3, <1>4, Ends DEF Return
<1>5. CASE ~Return(c)
  <2>1. refundAmount \in Unset..Amount /\ refundReceipt \in Unset..Amount /\ refundAmount \in Int
    BY <1>1, RefundAssumption DEF Facts, IntentOK, Unset
  <2>2. Max({refundAmount, 0}) = IF refundAmount >= 0 THEN refundAmount ELSE 0
    BY <2>1 DEF Max
  <2>3. Max({refundAmount, 0}) \in Unset..Amount
    BY <2>1, <2>2, RefundAssumption DEF Unset
  <2>4. PICK id \in RefundId \union {"none"}, a \in Unset..Amount, b \in Unset..Amount :
          id = refundId /\ a = refundAmount
          /\ b = IF refundReceipt = Unset THEN Max({refundAmount, 0}) ELSE refundReceipt
    BY <1>1, <2>1, <2>3 DEF Facts, IntentOK
  <2> DEFINE d == [c EXCEPT !.pc = "lookup", !.id = id, !.got = "none", !.amount = a, !.receipt = b]
  <2>5. Continue(c, d)
    BY <1>5, <2>4 DEF Claim
  <2>6. d \in Call /\ d.pc = "lookup" /\ d.id = id /\ d.total = c.total /\ d.from = c.from
    BY <1>1 DEF Call, RefundStates
  <2>7. c.from # "event" /\ c.total <= refunded'
    BY <1>1 DEF CallTrue, EventPcs, ledgerVars
  <2>8. Named(id)'
    BY <1>2, <2>4, <1>3, <1>1, MadeStays DEF Facts, NamesAreMade
  <2> HIDE DEF d
  <2> QED
    BY <1>3, <2>5, <2>6, <2>7, <2>8, GoesTo
<1> QED
  BY <1>4, <1>5

LEMMA FoundStep ==
    ASSUME RefundInv, NEW c \in calls, NEW r \in RefundId, Found(c, r)
    PROVE  RefundInv'
<1>1. /\ Facts' /\ Grows /\ Facts /\ c \in Call /\ CallTrue(c) /\ c.pc \in {"lookup", "relookup"}
      /\ refunded' = refunded /\ r \in Matches(c.id, c.receipt)
  BY OnlyAsks, CallsAre DEF Found, Continue, RefundInv, ledgerVars
<1>2. Made(r) /\ Made(r)'
  BY <1>1, MadeStays DEF CallTrue, Matches, Named, Made
<1>3. PICK s \in RefundStates : s = refunds[r].state
  BY <1>1, <1>2 DEF Facts, ProviderOK
<1>4. s # "none"
  BY <1>2, <1>3 DEF Made
<1> DEFINE d == [c EXCEPT !.pc = "record", !.id = r, !.got = s]
<1>5. /\ d \in Call /\ d.pc = "record" /\ d.id = r /\ d.got = s /\ d.total = c.total
      /\ d.from = c.from
  BY <1>1 DEF Call
<1>6. Continue(c, d)
  BY <1>3 DEF Found
<1>7. c.from # "event" /\ c.total <= refunded'
  BY <1>1 DEF CallTrue, EventPcs
<1> HIDE DEF d
<1> QED
  BY <1>1, <1>2, <1>4, <1>5, <1>6, <1>7, GoesTo

LEMMA NotFoundStep ==
    ASSUME RefundInv, NEW c \in calls, NotFound(c)
    PROVE  RefundInv'
<1>1. /\ Facts' /\ Grows /\ CallTrue(c) /\ c.pc \in {"lookup", "relookup"}
  BY OnlyAsks, CallsAre DEF NotFound, Go, Continue
<1>2. PICK pc \in {"request", "giveup"} : pc = IF c.pc = "lookup" THEN "request" ELSE "giveup"
  OBVIOUS
<1>3. Go(c, pc) /\ Named(c.id) /\ c.from # "event"
  BY <1>1, <1>2 DEF NotFound, CallTrue, EventPcs
<1> QED
  BY <1>1, <1>2, <1>3, Went DEF Pcs

\* The provider makes a refund where there was none.
LEMMA Created ==
    ASSUME Facts, NEW amount \in Unset..Amount, NEW receipt \in Unset..Amount,
           NEW state \in {"pending", "processed"}, CreateRefund(amount, receipt, state),
           UNCHANGED <<intentVars, ledgerVars, orderVars>>, delayed' \subseteq delayed,
           crashes' \in 0..MaxCrashes
    PROVE  Facts' /\ Grows /\ \E r \in RefundId : r = NewRefund /\ Made(r)'
<1>1. PICK r \in RefundId : r = NewRefund /\ refunds[r].state = "none"
  BY DEF CreateRefund, NewRefund
<1>2. refunds' = [refunds EXCEPT ![r] = [state |-> state, amount |-> amount, receipt |-> receipt]]
  BY <1>1 DEF CreateRefund
<1>3. refunds \in [RefundId -> [state : RefundStates, amount : 0..Amount, receipt : Unset..Amount]]
  BY DEF Facts, ProviderOK
<1>4. amount \in 0..Amount
  BY RefundAssumption DEF CreateRefund, Unset
<1>5. /\ refunds' \in [RefundId -> [state : RefundStates, amount : 0..Amount, receipt : Unset..Amount]]
      /\ refunds'[r].state = state
      /\ \A q \in RefundId : q # r => refunds'[q] = refunds[q]
  BY <1>2, <1>3, <1>4 DEF RefundStates
<1>6. Made(r)'
  BY <1>5 DEF Made
<1>7. \A e \in events' \ events : e \in [id : {r}, status : {"pending", "processed"}]
  BY <1>1 DEF CreateRefund, Emitted
<1>8. \A e \in events' \ events :
        e \in [id : RefundId, status : RefundStates] /\ Made(e.id)' /\ e.status # "none"
  BY <1>6, <1>7 DEF RefundStates
<1>9. ProviderOK'
  BY <1>5, <1>8 DEF Facts, ProviderOK
<1>10. \A q \in RefundId : refunds[q].state # "none" => refunds'[q].state # "none"
  BY <1>1, <1>5
<1>11. Facts' /\ Grows
  BY <1>8, <1>9, <1>10, ProviderMoves
<1> QED
  BY <1>1, <1>6, <1>11

LEMMA AskedTyped == ASSUME NEW c \in Call PROVE Asked(c) \in 0..Amount
BY RefundAssumption DEF Asked, Call, Unset

LEMMA RequestStep ==
    ASSUME RefundInv, NEW c \in calls, NEW state \in {"pending", "processed"}, Request(c, state)
    PROVE  RefundInv'
<1>1. /\ Facts /\ c \in Call /\ CallTrue(c) /\ c.pc = "request" /\ crashes' \in 0..MaxCrashes
      /\ UNCHANGED <<intentVars, ledgerVars, orderVars, delayed>>
  BY CallsAre DEF Request, Continue, RefundInv, Facts
<1>2. PICK amount \in Unset..Amount, receipt \in Unset..Amount :
        amount = Asked(c) /\ receipt = c.receipt
  BY <1>1, AskedTyped, RefundAssumption DEF Call, Unset
<1>3. CreateRefund(amount, receipt, state)
  BY <1>2 DEF Request
<1>4. /\ Facts' /\ Grows /\ \E r \in RefundId : r = NewRefund /\ Made(r)'
  BY <1>1, <1>3, Created
<1>5. PICK r \in RefundId : r = NewRefund /\ Made(r)'
  BY <1>4
<1> DEFINE d == [c EXCEPT !.pc = "record", !.id = r, !.got = state]
<1>6. Continue(c, d)
  BY <1>5 DEF Request
<1>7. /\ d \in Call /\ d.pc = "record" /\ d.id = r /\ d.got = state /\ d.total = c.total
      /\ d.from = c.from
  BY <1>1 DEF Call, RefundStates
<1>8. c.from # "event" /\ c.total <= refunded'
  BY <1>1 DEF CallTrue, EventPcs, ledgerVars
<1> HIDE DEF d
<1> QED
  BY <1>4, <1>5, <1>6, <1>7, <1>8, GoesTo

LEMMA RequestFailsStep ==
    ASSUME RefundInv, NEW c \in calls, NEW mayArrive \in BOOLEAN, RequestFails(c, mayArrive)
    PROVE  RefundInv'
<1>1. /\ Facts /\ c \in Call /\ CallTrue(c) /\ c.pc = "request" /\ crashes' \in 0..MaxCrashes
      /\ UNCHANGED <<intentVars, ledgerVars, orderVars, refunds, events>> /\ Go(c, "relookup")
  BY CallsAre DEF RequestFails, Go, Continue, RefundInv, Facts
<1>2. [amount |-> Asked(c), receipt |-> c.receipt] \in [amount : 0..Amount, receipt : Unset..Amount]
  BY <1>1, AskedTyped DEF Call
<1>3. ProviderOK'
  BY <1>1, <1>2 DEF RequestFails, Facts, ProviderOK
<1>4. Facts' /\ Grows
  BY <1>1, <1>3, ProviderMoves
<1>5. Named(c.id) /\ c.from # "event"
  BY <1>1 DEF CallTrue, EventPcs
<1> QED
  BY <1>1, <1>4, <1>5, Went DEF Pcs

LEMMA ArrivesStep ==
    ASSUME RefundInv, NEW q \in delayed, NEW state \in {"pending", "processed"}, Arrives(q, state)
    PROVE  RefundInv'
<1>1. /\ Facts /\ delayed' \subseteq delayed /\ crashes' \in 0..MaxCrashes /\ calls' \subseteq calls
      /\ UNCHANGED <<intentVars, ledgerVars, orderVars>>
  BY DEF Arrives, RefundInv, Facts
<1>2. PICK amount \in Unset..Amount, receipt \in Unset..Amount :
        amount = q.amount /\ receipt = q.receipt
  BY <1>1, RefundAssumption DEF Facts, ProviderOK, Unset
<1>3. CreateRefund(amount, receipt, state)
  BY <1>2 DEF Arrives
<1>4. Facts' /\ Grows
  BY <1>1, <1>3, Created
<1> QED
  BY <1>1, <1>4, Ends

LEMMA GiveUpStep ==
    ASSUME RefundInv, NEW c \in calls, GiveUp(c)
    PROVE  RefundInv'
<1>1. /\ Facts /\ c \in Call /\ CallTrue(c) /\ c.pc = "giveup" /\ crashes' \in 0..MaxCrashes
      /\ UNCHANGED <<reservation, refundTarget, refundAmount, refundReceipt, refundId, requestedAt,
                     ledgerVars, orderVars, providerVars>>
      /\ \/ status' = "refund_failed" /\ refundStatus' = "requires_review"
         \/ UNCHANGED <<status, refundStatus>>
  BY CallsAre DEF GiveUp, Continue, RefundInv, Facts
<1>2. IntentOK' /\ Named(refundId')
  BY <1>1 DEF Facts, IntentOK, NamesAreMade, Refunding
<1>3. Facts' /\ Grows
  BY <1>1, <1>2, IntentWritten
<1>4. PICK id \in RefundId \union {"none", "receipt"} : id = IF c.id = "none" THEN "receipt" ELSE c.id
  BY <1>1 DEF Call
<1> DEFINE d == [c EXCEPT !.pc = "sync", !.got = "failed", !.id = id]
<1>5. Continue(c, d)
  BY <1>4 DEF GiveUp
<1>6. /\ d \in Call /\ d.pc = "sync" /\ d.id = id /\ d.got = "failed" /\ d.total = c.total
      /\ d.from = c.from
  BY <1>1 DEF Call, RefundStates
<1>7. /\ c.from # "event" /\ c.total <= refunded'
      /\ Made(id) \/ id = "receipt"
  BY <1>1, <1>4 DEF CallTrue, EventPcs, ledgerVars, Named
<1>8. Made(id)' \/ id = "receipt"
  BY <1>3, <1>7, MadeStays
<1> HIDE DEF d
<1> QED
  BY <1>3, <1>5, <1>6, <1>7, <1>8, GoesTo

LEMMA RecordStep ==
    ASSUME RefundInv, NEW c \in calls, Record(c)
    PROVE  RefundInv'
<1>1. /\ Facts /\ c \in Call /\ CallTrue(c) /\ c.pc = "record" /\ crashes' \in 0..MaxCrashes
      /\ status' \in Refunding /\ refundId' = c.id /\ refundStatus' = c.got
      /\ refundReceipt' = c.receipt
      /\ UNCHANGED <<reservation, refundTarget, refundAmount, requestedAt, ledgerVars, orderVars,
                     providerVars>>
  BY CallsAre DEF Record, Refunding, Go, Continue, RefundInv, Facts
<1>2. Made(c.id) /\ c.got # "none" /\ c.from # "event"
  BY <1>1 DEF CallTrue, EventPcs
<1>3. IntentOK' /\ Named(refundId') /\ status' # "refunded"
  BY <1>1, <1>2 DEF Facts, IntentOK, Named, Made, Call, Refunding
<1>4. Facts' /\ Grows
  BY <1>1, <1>3, IntentWritten
<1>5. PICK pc \in {"ledger", "sync"} : pc = IF c.got = "processed" THEN "ledger" ELSE "sync"
  OBVIOUS
<1>6. Go(c, pc)
  BY <1>5 DEF Record
<1> QED
  BY <1>2, <1>4, <1>5, <1>6, Went DEF Pcs

-----------------------------------------------------------------------------
(* applyRazorpayRefund *)

LEMMA DeliverStep ==
    ASSUME RefundInv, NEW w \in Worker, NEW e \in events, Deliver(w, e)
    PROVE  RefundInv'
<1>1. /\ Facts /\ events' \subseteq events /\ crashes' \in 0..MaxCrashes
      /\ UNCHANGED <<intentVars, ledgerVars, orderVars, refunds, delayed>>
  BY DEF Deliver, Begin, RefundInv, Facts
<1>2. ProviderOK'
  BY <1>1 DEF Facts, ProviderOK
<1>3. Facts' /\ Grows
  BY <1>1, <1>2, ProviderMoves
<1>4. e \in [id : RefundId, status : RefundStates] /\ Made(e.id) /\ e.status # "none"
  BY <1>1 DEF Facts, ProviderOK, NamesAreMade
<1>5. PICK pc \in {"ledger", "note"} : pc = IF e.status = "processed" THEN "ledger" ELSE "note"
  OBVIOUS
<1>6. Blank(w) \in Call /\ Blank(w).total = 0
  BY RefundAssumption DEF Blank, Call, RefundStates, Unset
<1> DEFINE d == [Blank(w) EXCEPT !.from = "event", !.id = e.id, !.got = e.status, !.pc = pc]
<1>7. Begin(d)
  BY <1>5 DEF Deliver
<1>8. /\ d \in Call /\ d.pc = pc /\ d.id = e.id /\ d.got = e.status /\ d.total = 0
      /\ d.from = "event"
  BY <1>4, <1>5, <1>6 DEF Call
<1>9. Made(e.id)' /\ refunded' >= 0
  BY <1>3, <1>4, MadeStays, RefundAssumption DEF Facts, LedgerOK
<1> HIDE DEF d
<1>10. CallTrue(d)'
  BY <1>4, <1>5, <1>8, <1>9 DEF CallTrue, EventPcs
<1> QED
  BY <1>3, <1>7, <1>8, <1>10, Starts

LEMMA NoteStep ==
    ASSUME RefundInv, NEW c \in calls, Note(c)
    PROVE  RefundInv'
<1>1. /\ Facts /\ c \in Call /\ CallTrue(c) /\ c.pc = "note" /\ crashes' \in 0..MaxCrashes
      /\ Go(c, "sync")
      /\ UNCHANGED <<reservation, refundTarget, refundAmount, refundReceipt, requestedAt,
                     ledgerVars, orderVars, providerVars>>
      /\ \/ status' \in Refunding /\ refundId' = c.id /\ refundStatus' = c.got
         \/ UNCHANGED <<status, refundId, refundStatus>>
  BY CallsAre DEF Note, Refunding, Go, Continue, RefundInv, Facts
<1>2. Made(c.id) /\ c.got # "none"
  BY <1>1 DEF CallTrue
<1>3. IntentOK' /\ Named(refundId') /\ (status' = "refunded" => status = "refunded")
  BY <1>1, <1>2 DEF Facts, IntentOK, NamesAreMade, Named, Made, Call, Refunding
<1>4. Facts' /\ Grows
  BY <1>1, <1>3, IntentWritten
<1> QED
  BY <1>1, <1>2, <1>4, Went DEF Pcs, EventPcs

LEMMA CountOnPaymentStep ==
    ASSUME RefundInv, NEW c \in calls, CountOnPayment(c)
    PROVE  RefundInv'
<1>1. /\ Facts /\ c \in Call /\ CallTrue(c) /\ c.pc = "ledger" /\ crashes' \in 0..MaxCrashes
      /\ Count(c.id) /\ UNCHANGED <<intentVars, orderVars, providerVars>>
  BY CallsAre DEF CountOnPayment, Continue, RefundInv, Facts
<1>2. UNCHANGED <<status, reservation, refundTarget, refundAmount, refundReceipt, requestedAt,
                  refundId, refundStatus>>
  BY <1>1 DEF intentVars
<1>3. Made(c.id)
  BY <1>1 DEF CallTrue
<1>4. Facts' /\ Grows
  BY <1>1, <1>2, <1>3, LedgerCounts
<1>5. PICK n \in 0..Amount : n = refunded'
  BY <1>4 DEF Facts, LedgerOK
<1> DEFINE d == [c EXCEPT !.pc = "order", !.got = "processed", !.total = n]
<1>6. Continue(c, d)
  BY <1>5 DEF CountOnPayment
<1>7. /\ d \in Call /\ d.pc = "order" /\ d.id = c.id /\ d.got = "processed" /\ d.total = n
      /\ d.from = c.from
  BY <1>1 DEF Call, RefundStates
<1>8. Made(c.id)' /\ n <= refunded'
  BY <1>3, <1>4, <1>5, MadeStays, RefundAssumption
<1> HIDE DEF d
<1> QED
  BY <1>4, <1>6, <1>7, <1>8, GoesTo DEF EventPcs

LEMMA UpdateOrderStep ==
    ASSUME RefundInv, NEW c \in calls, UpdateOrder(c)
    PROVE  RefundInv'
<1>1. /\ Facts /\ c \in Call /\ CallTrue(c) /\ c.pc = "order" /\ crashes' \in 0..MaxCrashes
      /\ UNCHANGED <<intentVars, ledgerVars, ordered, timeline, cancelTarget, providerVars>>
  BY CallsAre DEF UpdateOrder, Go, Continue, RefundInv, Facts
<1>2. /\ c.total \in Int /\ refunded \in Int /\ c.total <= refunded /\ refunded <= Amount
      /\ Amount \in Int /\ TargetNow \in Int /\ TargetNow' \in Int /\ refunded' = refunded
  BY <1>1, TargetTyped, RefundAssumption DEF CallTrue, Call, Facts, LedgerOK, IntentOK, ledgerVars,
     intentVars, TargetNow
<1>3. /\ orderPayment' \in OrderPayments
      /\ orderPayment' = "refunded" => orderPayment = "refunded" \/ refunded = Amount
      /\ timeline' \subseteq (RefundId \union {"receipt"}) \X OrderPayments
  BY <1>1, <1>2 DEF UpdateOrder, Facts, OrderOK, OrderPayments
<1>4. Facts' /\ Grows
  BY <1>1, <1>3, OrderWritten
<1>5. PICK pc \in {"settle", "remainder", "mention"} :
        /\ pc = CASE c.total >= TargetNow -> "settle"
                  [] c.total < TargetNow /\ status \in Refunding -> "remainder"
                  [] OTHER -> "mention"
        /\ pc = "settle" => c.total >= TargetNow
  <2>1. CASE c.total >= TargetNow
    BY <2>1, <1>2
  <2>2. CASE c.total < TargetNow
    BY <2>2, <1>2
  <2> QED
    BY <2>1, <2>2, <1>2
<1>6. Go(c, pc)
  BY <1>5 DEF UpdateOrder
<1>7. pc = "settle" => refunded' >= TargetNow'
  BY <1>2, <1>4, <1>5 DEF Grows
<1>8. Made(c.id) /\ c.got # "none"
  BY <1>1 DEF CallTrue
<1> QED
  BY <1>4, <1>5, <1>6, <1>7, <1>8, Went DEF Pcs, EventPcs

LEMMA SettlePaidStep ==
    ASSUME RefundInv, NEW c \in calls, SettlePaid(c)
    PROVE  RefundInv'
<1>1. /\ Facts /\ c \in Call /\ CallTrue(c) /\ c.pc = "settle" /\ crashes' \in 0..MaxCrashes
      /\ Go(c, "sync") /\ status' = "refunded" /\ refundAmount' = 0
      /\ refundId' = c.id /\ refundStatus' = "processed"
      /\ UNCHANGED <<reservation, refundTarget, refundReceipt, requestedAt, ledgerVars, orderVars,
                     providerVars>>
  BY CallsAre DEF SettlePaid, Go, Continue, RefundInv, Facts
<1>2. Made(c.id) /\ c.got # "none" /\ refunded >= TargetNow
  BY <1>1 DEF CallTrue
<1>3. IntentOK' /\ Named(refundId')
  BY <1>1, <1>2, RefundAssumption DEF Facts, IntentOK, Named, Made, RefundStates, Unset
<1>4. Facts' /\ Grows
  BY <1>1, <1>2, <1>3, IntentWritten
<1> QED
  BY <1>1, <1>2, <1>4, Went DEF Pcs, EventPcs

LEMMA RemainderStep ==
    ASSUME RefundInv, NEW c \in calls, Remainder(c)
    PROVE  RefundInv'
<1>1. /\ Facts /\ c \in Call /\ CallTrue(c) /\ c.pc = "remainder" /\ crashes' \in 0..MaxCrashes
      /\ Go(c, "sync") /\ UNCHANGED <<reservation, refundTarget, ledgerVars, orderVars, providerVars>>
      /\ \/ /\ status' = "refund_pending"
            /\ refundAmount' = Amount - c.total /\ refundReceipt' = Amount - c.total
            /\ refundId' = "none" /\ refundStatus' = "none" /\ requestedAt' = "unset"
         \/ UNCHANGED <<status, refundAmount, refundReceipt, refundId, refundStatus, requestedAt>>
  BY CallsAre DEF Remainder, Go, Continue, RefundInv, Facts
<1>2. Made(c.id) /\ c.got # "none" /\ Amount - c.total \in Unset..Amount
  BY <1>1, RefundAssumption DEF CallTrue, Call, Unset
<1>3. IntentOK' /\ Named(refundId') /\ (status' = "refunded" => status = "refunded")
  BY <1>1, <1>2 DEF Facts, IntentOK, NamesAreMade, Named, RefundStates, Refunding
<1>4. Facts' /\ Grows
  BY <1>1, <1>3, IntentWritten
<1> QED
  BY <1>1, <1>2, <1>4, Went DEF Pcs, EventPcs

LEMMA MentionStep ==
    ASSUME RefundInv, NEW c \in calls, Mention(c)
    PROVE  RefundInv'
<1>1. /\ Facts /\ c \in Call /\ CallTrue(c) /\ c.pc = "mention" /\ crashes' \in 0..MaxCrashes
      /\ Go(c, "sync")
      /\ UNCHANGED <<status, reservation, refundTarget, refundAmount, refundReceipt, requestedAt,
                     ledgerVars, orderVars, providerVars>>
      /\ \/ refundId' = c.id /\ refundStatus' = "processed"
         \/ UNCHANGED <<refundId, refundStatus>>
  BY CallsAre DEF Mention, Go, Continue, RefundInv, Facts
<1>2. Made(c.id) /\ c.got # "none"
  BY <1>1 DEF CallTrue
<1>3. IntentOK' /\ Named(refundId')
  BY <1>1, <1>2 DEF Facts, IntentOK, NamesAreMade, Named, Made, RefundStates
<1>4. Facts' /\ Grows
  BY <1>1, <1>3, IntentWritten
<1> QED
  BY <1>1, <1>2, <1>4, Went DEF Pcs, EventPcs

LEMMA CountOnIntentStep ==
    ASSUME RefundInv, NEW c \in calls, CountOnIntent(c)
    PROVE  RefundInv'
<1>1. /\ Facts /\ c \in Call /\ CallTrue(c) /\ c.pc = "ledger" /\ crashes' \in 0..MaxCrashes
      /\ ~ordered /\ Count(c.id)
      /\ UNCHANGED <<status, reservation, refundTarget, refundAmount, refundReceipt, requestedAt,
                     orderVars, providerVars>>
      /\ UNCHANGED <<refundId, refundStatus>> \/ (refundId' = c.id /\ refundStatus' = "processed")
  BY CallsAre DEF CountOnIntent, Go, Continue, Return, RefundInv, Facts
<1>2. Made(c.id) /\ c.got # "none"
  BY <1>1 DEF CallTrue
<1>3. Facts' /\ Grows
  BY <1>1, <1>2, LedgerCounts
<1>4. TargetNow' = TargetNow
  BY <1>1 DEF TargetNow
<1>5. CASE refunded' >= TargetNow /\ Go(c, "settle")
  BY <1>2, <1>3, <1>4, <1>5, Went DEF Pcs, EventPcs
<1>6. CASE Go(c, "requeue")
  BY <1>1, <1>2, <1>3, <1>6, Went DEF Pcs, EventPcs
<1>7. CASE Return(c)
  BY <1>3, <1>7, Ends DEF Return
<1> QED
  BY <1>5, <1>6, <1>7 DEF CountOnIntent

LEMMA SettleReleasedStep ==
    ASSUME RefundInv, NEW c \in calls, SettleReleased(c)
    PROVE  RefundInv'
<1>1. /\ Facts /\ c \in Call /\ CallTrue(c) /\ c.pc = "settle" /\ crashes' \in 0..MaxCrashes
      /\ calls' \subseteq calls /\ status' = "refunded"
      /\ refundId' = c.id /\ refundStatus' = "processed"
      /\ reservation' = IF reservation = "held" THEN "released" ELSE reservation
      /\ UNCHANGED <<refundTarget, refundAmount, refundReceipt, requestedAt, ledgerVars, orderVars,
                     providerVars>>
  BY CallsAre DEF SettleReleased, Return, RefundInv, Facts
<1>2. Made(c.id) /\ refunded >= TargetNow
  BY <1>1 DEF CallTrue
<1>3. IntentOK' /\ Named(refundId')
  BY <1>1, <1>2 DEF Facts, IntentOK, Named, Made, RefundStates
<1>4. Facts' /\ Grows
  BY <1>1, <1>2, <1>3, IntentWritten
<1> QED
  BY <1>1, <1>4, Ends

LEMMA SyncStep ==
    ASSUME RefundInv, NEW c \in calls, Sync(c)
    PROVE  RefundInv'
<1>1. /\ Facts /\ c \in Call /\ CallTrue(c) /\ c.pc = "sync" /\ crashes' \in 0..MaxCrashes
      /\ calls' \subseteq calls /\ UNCHANGED <<intentVars, ledgerVars, ordered, cancelTarget, providerVars>>
  BY CallsAre DEF Sync, Return, RefundInv, Facts
<1>2. /\ c.total \in Int /\ refunded \in Int /\ c.total <= refunded /\ refunded <= Amount
      /\ Amount \in Int
  BY <1>1, RefundAssumption DEF CallTrue, Call, Facts, LedgerOK
<1>3. c.got \in {"pending", "processed", "failed"} /\ c.id \in RefundId \union {"receipt"}
  BY <1>1 DEF CallTrue, Call, RefundStates, Made
<1>4. PICK shown \in OrderPayments :
        /\ shown = CASE c.got = "failed" -> "refund_failed"
                     [] c.got = "pending" -> "refund_pending"
                     [] c.got = "processed" -> PaidBack(c.total)
        /\ shown = "refunded" => refunded = Amount
  <2>1. CASE c.got = "processed"
    BY <2>1, <1>2 DEF PaidBack, OrderPayments
  <2>2. CASE c.got # "processed"
    BY <2>2, <1>3 DEF OrderPayments
  <2> QED
    BY <2>1, <2>2
<1>5. \/ orderPayment' = shown /\ timeline' = timeline \union {<<c.id, shown>>}
      \/ UNCHANGED <<orderPayment, timeline>>
  BY <1>4 DEF Sync
<1>6. <<c.id, shown>> \in (RefundId \union {"receipt"}) \X OrderPayments
  BY <1>3
<1>7. /\ orderPayment' \in OrderPayments
      /\ orderPayment' = "refunded" => orderPayment = "refunded" \/ refunded = Amount
      /\ timeline' \subseteq (RefundId \union {"receipt"}) \X OrderPayments
  BY <1>1, <1>4, <1>5, <1>6 DEF Facts, OrderOK
<1>8. Facts' /\ Grows
  BY <1>1, <1>7, OrderWritten
<1> QED
  BY <1>1, <1>8, Ends

-----------------------------------------------------------------------------
(* The world *)

LEMMA RefundSettlesStep ==
    ASSUME RefundInv, NEW r \in RefundId, NEW state \in {"processed", "failed"}, RefundSettles(r, state)
    PROVE  RefundInv'
<1>1. /\ Facts /\ crashes' \in 0..MaxCrashes /\ calls' \subseteq calls
      /\ refunds[r].state = "pending" /\ refunds' = [refunds EXCEPT ![r].state = state]
      /\ UNCHANGED <<intentVars, ledgerVars, orderVars, delayed>>
  BY DEF RefundSettles, RefundInv, Facts
<1>2. refunds \in [RefundId -> [state : RefundStates, amount : 0..Amount, receipt : Unset..Amount]]
  BY <1>1 DEF Facts, ProviderOK
<1>3. /\ refunds' \in [RefundId -> [state : RefundStates, amount : 0..Amount, receipt : Unset..Amount]]
      /\ refunds'[r].state = state
      /\ \A q \in RefundId : q # r => refunds'[q] = refunds[q]
  BY <1>1, <1>2 DEF RefundStates
<1>4. \A e \in events' \ events : e \in [id : {r}, status : {"processed", "failed"}]
  BY <1>1 DEF RefundSettles, Emitted
<1>5. Made(r)'
  BY <1>3 DEF Made
<1>6. \A e \in events' \ events :
        e \in [id : RefundId, status : RefundStates] /\ Made(e.id)' /\ e.status # "none"
  BY <1>4, <1>5 DEF RefundStates
<1>7. ProviderOK'
  BY <1>1, <1>3, <1>6 DEF Facts, ProviderOK
<1>8. \A q \in RefundId : refunds[q].state # "none" => refunds'[q].state # "none"
  BY <1>3
<1>9. Facts' /\ Grows
  BY <1>1, <1>6, <1>7, <1>8, ProviderMoves
<1> QED
  BY <1>1, <1>9, Ends

LEMMA RefundByHandStep ==
    ASSUME RefundInv, NEW amount \in ManualAmounts, NEW state \in {"pending", "processed"},
           RefundByHand(amount, state)
    PROVE  RefundInv'
<1>1. /\ Facts /\ crashes' \in 0..MaxCrashes /\ calls' \subseteq calls /\ delayed' \subseteq delayed
      /\ UNCHANGED <<intentVars, ledgerVars, orderVars>>
  BY DEF RefundByHand, RefundInv, Facts
<1>2. amount \in Unset..Amount /\ Unset \in Unset..Amount
  BY RefundAssumption DEF Unset
<1>3. Facts' /\ Grows
  BY <1>1, <1>2, Created DEF RefundByHand
<1> QED
  BY <1>1, <1>3, Ends

LEMMA ThirtySecondsStep ==
    ASSUME RefundInv, ThirtySecondsPass
    PROVE  RefundInv'
<1>1. /\ Facts /\ crashes' \in 0..MaxCrashes /\ calls' \subseteq calls /\ requestedAt' = "stale"
      /\ UNCHANGED <<status, reservation, refundTarget, refundAmount, refundReceipt, refundId,
                     refundStatus, ledgerVars, orderVars, providerVars>>
  BY DEF ThirtySecondsPass, RefundInv, Facts
<1>2. IntentOK' /\ Named(refundId')
  BY <1>1 DEF Facts, IntentOK, NamesAreMade
<1>3. Facts' /\ Grows
  BY <1>1, <1>2, IntentWritten
<1> QED
  BY <1>1, <1>3, Ends

LEMMA CrashStep ==
    ASSUME RefundInv, NEW c \in calls, Crash(c)
    PROVE  RefundInv'
<1>1. /\ Facts /\ c \in Call /\ CallTrue(c) /\ crashes' \in 0..MaxCrashes /\ calls' \subseteq calls
      /\ UNCHANGED <<intentVars, ledgerVars, orderVars, refunds, delayed>>
  BY CallsAre, RefundAssumption DEF Crash, RefundInv, Facts
<1>2. \A e \in events' \ events :
        e = [id |-> c.id, status |-> c.got] /\ Made(c.id) /\ c.got # "none"
  BY <1>1 DEF Crash, CallTrue
<1>3. \A e \in events' \ events :
        e \in [id : RefundId, status : RefundStates] /\ Made(e.id)' /\ e.status # "none"
  BY <1>1, <1>2 DEF Call, Made
<1>4. ProviderOK'
  BY <1>1, <1>3 DEF Facts, ProviderOK
<1>5. Facts' /\ Grows
  BY <1>1, <1>3, <1>4, ProviderMoves
<1> QED
  BY <1>1, <1>5, Ends

-----------------------------------------------------------------------------
(* The theorems *)

LEMMA InitFacts == Init => RefundInv
<1> SUFFICES ASSUME Init PROVE RefundInv
  OBVIOUS
<1>1. IntentOK
  BY RefundAssumption DEF Init, IntentOK, RefundStates, Unset
<1>2. LedgerOK /\ crashes \in 0..MaxCrashes
  BY RefundAssumption DEF Init, LedgerOK
<1>3. OrderOK
  BY RefundAssumption DEF Init, OrderOK, OrderPayments, Unset
<1>4. ProviderOK
  BY RefundAssumption DEF Init, ProviderOK, RefundStates, Unset
<1>5. NamesAreMade /\ TargetIsDecided /\ RefundedIsPaidOut
  BY DEF Init, NamesAreMade, Named, TargetIsDecided, RefundedIsPaidOut
<1>6. calls = {}
  BY DEF Init
<1> QED
  BY <1>1, <1>2, <1>3, <1>4, <1>5, <1>6 DEF RefundInv, Facts

LEMMA HandleStep ==
    ASSUME RefundInv, NEW c \in calls, Handle(c)
    PROVE  RefundInv'
<1>1. CASE Ask(c)
  BY <1>1, KnownStep, FoundStep, RequestStep DEF Ask
<1>2. CASE AskInVain(c)
  BY <1>2, ProviderErrorStep, NotFoundStep, RequestFailsStep DEF AskInVain
<1>3. CASE Step(c)
  BY <1>3, QueueCancelledStep, KeepStep, DropStep, ClaimStep, GiveUpStep, RecordStep, NoteStep,
     CountOnPaymentStep, UpdateOrderStep, SettlePaidStep, RemainderStep, MentionStep,
     CountOnIntentStep, SettleReleasedStep, RequeueStep, SyncStep DEF Step
<1> QED
  BY <1>1, <1>2, <1>3 DEF Handle

LEMMA StutterStep ==
    ASSUME RefundInv, UNCHANGED vars
    PROVE  RefundInv'
<1>1. UNCHANGED <<intentVars, ledgerVars, orderVars, providerVars, calls, crashes>>
  BY DEF vars
<1> QED
  BY <1>1, OnlyAsks, Ends

LEMMA RefundInvariant == Spec => []RefundInv
<1>1. ASSUME RefundInv, [Next]_vars PROVE RefundInv'
  <2>1. CASE \E t \in Targets : Cancel(t)
    BY <1>1, <2>1, CancelStep
  <2>2. CASE \E w \in Worker : Initiate(w) \/ Unfulfillable(w) \/ SweepRefund(w) \/ SweepHeldRefund(w)
    BY <1>1, <2>2, InitiateStep, UnfulfillableStep, SweepRefundStep, SweepHeldRefundStep
  <2>3. CASE \E w \in Worker, e \in events : Deliver(w, e)
    BY <1>1, <2>3, DeliverStep
  <2>4. CASE \E c \in calls : Handle(c) \/ Crash(c)
    BY <1>1, <2>4, HandleStep, CrashStep
  <2>5. CASE \E r \in RefundId, s \in {"processed", "failed"} : RefundSettles(r, s)
    BY <1>1, <2>5, RefundSettlesStep
  <2>6. CASE \E a \in ManualAmounts, s \in {"pending", "processed"} : RefundByHand(a, s)
    BY <1>1, <2>6, RefundByHandStep
  <2>7. CASE \E q \in delayed, s \in {"pending", "processed"} : Arrives(q, s)
    BY <1>1, <2>7, ArrivesStep
  <2>8. CASE ThirtySecondsPass
    BY <1>1, <2>8, ThirtySecondsStep
  <2>9. CASE UNCHANGED vars
    BY <1>1, <2>9, StutterStep
  <2> QED
    BY <1>1, <2>1, <2>2, <2>3, <2>4, <2>5, <2>6, <2>7, <2>8, <2>9 DEF Next
<1> QED
  BY InitFacts, <1>1, PTL DEF Spec

\* For every amount, set of targets, dashboard refunds, number of calls, refunds,
\* failures and crashes: the fields of the refund job, its ledger, its order and
\* its calls stay within their types (PaymentIntent and Payment schemas).
THEOREM RefundTypeCorrect == Spec => []TypeOK
<1>1. RefundInv => TypeOK
  BY FactsTyped
<1> QED
  BY <1>1, RefundInvariant, PTL

\* ... and whatever calls race, retry, time out or die, an intent is called
\* refunded only when the ledger has reached its target, and an order only when
\* all of the payment is out (applyRazorpayRefund, syncOrderRefundState).
THEOREM RefundedMeansPaidOut == Spec => []RefundedIsPaidOut
<1>1. RefundInv => RefundedIsPaidOut
  BY DEF RefundInv, Facts
<1> QED
  BY <1>1, RefundInvariant, PTL

-----------------------------------------------------------------------------
(* Sums of paise *)

LEMMA PaiseFinite ==
    ASSUME NEW S, IsFiniteSet(S)
    PROVE  IsFiniteSet(Paise(S)) /\ Sum(S) \in Nat
<1>1. IsFiniteSet(1..Amount)
  BY FS_Interval, RefundAssumption
<1>2. IsFiniteSet(S \X (1..Amount))
  BY <1>1, FS_Product
<1>3. Paise(S) \in SUBSET (S \X (1..Amount))
  BY DEF Paise
<1> QED
  BY <1>2, <1>3, FS_Subset, FS_CardinalityType DEF Sum

LEMMA SumOfNone == Sum({}) = 0
<1>1. Paise({}) = {}
  BY DEF Paise
<1> QED
  BY <1>1, FS_EmptySet DEF Sum

LEMMA Row ==
    ASSUME NEW r, NEW n \in Nat
    PROVE  IsFiniteSet({r} \X (1..n)) /\ Cardinality({r} \X (1..n)) = n
<1>1. IsFiniteSet(1..n) /\ Cardinality(1..n) = n
  BY FS_Interval
<1>2. IsFiniteSet({r}) /\ Cardinality({r}) = 1
  BY FS_Singleton
<1> QED
  BY <1>1, <1>2, FS_Product

LEMMA Apart ==
    ASSUME NEW S, NEW T, IsFiniteSet(S), IsFiniteSet(T), S \cap T = {}
    PROVE  Cardinality(S \union T) = Cardinality(S) + Cardinality(T)
<1>1. Cardinality(S) \in Nat /\ Cardinality(T) \in Nat
  BY FS_CardinalityType
<1>2. Cardinality(S \cap T) = 0
  BY FS_EmptySet
<1>3. Cardinality(S \union T) = Cardinality(S) + Cardinality(T) - Cardinality(S \cap T)
  BY FS_Union
<1> QED
  BY <1>1, <1>2, <1>3

\* A refund that joins a set adds its amount to the sum.
LEMMA SumGrows ==
    ASSUME NEW S, IsFiniteSet(S), NEW r, r \notin S, NEW T, T = S \union {r},
           refunds[r].amount \in 0..Amount
    PROVE  Sum(T) = Sum(S) + refunds[r].amount
<1>1. PICK a \in 0..Amount : a = refunds[r].amount
  OBVIOUS
<1>2. a \in Nat /\ a <= Amount /\ Amount \in Nat
  BY RefundAssumption
<1>3. PICK P : P = Paise(S)
  OBVIOUS
<1>4. IsFiniteSet(P)
  BY <1>3, PaiseFinite
<1>5. Paise(T) = P \union ({r} \X (1..a))
  <2>1. ASSUME NEW p PROVE p \in Paise(T) <=> p \in P \union ({r} \X (1..a))
    <3>1. CASE p \in Paise(T)
      BY <3>1, <1>1, <1>2, <1>3 DEF Paise
    <3>2. CASE p \in P
      BY <3>2, <1>3 DEF Paise
    <3>3. CASE p \in {r} \X (1..a)
      BY <3>3, <1>1, <1>2 DEF Paise
    <3> QED
      BY <3>1, <3>2, <3>3
  <2> QED
    BY <2>1
<1>6. P \cap ({r} \X (1..a)) = {}
  BY <1>3 DEF Paise
<1>7. Cardinality(P \union ({r} \X (1..a))) = Cardinality(P) + a
  <2> DEFINE Q == {r} \X (1..a)
  <2>1. IsFiniteSet(Q) /\ Cardinality(Q) = a
    BY <1>2, Row
  <2>2. P \cap Q = {}
    BY <1>6
  <2> HIDE DEF Q
  <2>3. Cardinality(P \union Q) = Cardinality(P) + Cardinality(Q)
    BY <1>4, <2>1, <2>2, Apart
  <2> QED
    BY <2>1, <2>3 DEF Q
<1>8. Sum(S) = Cardinality(P)
  BY <1>3 DEF Sum
<1>9. Sum(T) = Cardinality(P \union ({r} \X (1..a)))
  BY <1>5 DEF Sum
<1> QED
  BY <1>1, <1>7, <1>8, <1>9

LEMMA SumCovers ==
    ASSUME NEW S, IsFiniteSet(S), NEW r \in S, refunds[r].amount \in 0..Amount
    PROVE  Sum(S) >= refunds[r].amount
<1>1. PICK U : U = S \ {r}
  OBVIOUS
<1>2. IsFiniteSet(U) /\ S = U \union {r} /\ r \notin U
  BY <1>1, FS_RemoveElement
<1>3. Sum(S) = Sum(U) + refunds[r].amount /\ Sum(U) \in Nat
  BY <1>2, SumGrows, PaiseFinite
<1>4. refunds[r].amount \in Int
  BY RefundAssumption
<1> QED
  BY <1>3, <1>4

LEMMA SumOfOne ==
    ASSUME NEW r, refunds[r].amount \in 0..Amount
    PROVE  Sum({r}) = refunds[r].amount
<1>1. Sum({r}) = Sum({}) + refunds[r].amount
  BY SumGrows, FS_EmptySet
<1> QED
  BY <1>1, SumOfNone, RefundAssumption

LEMMA SumKept ==
    ASSUME NEW S, \A r \in S : refunds'[r].amount = refunds[r].amount
    PROVE  Sum(S)' = Sum(S)
<1>1. Paise(S)' = Paise(S)
  BY DEF Paise
<1> QED
  BY <1>1 DEF Sum

-----------------------------------------------------------------------------
(* The ledger counts what was paid out *)

MadeRefunds == {r \in RefundId : refunds[r].state # "none"}

PaidFacts ==
    /\ LedgerCountsOnce
    /\ \A e \in events : e.status = "processed" => refunds[e.id].state = "processed"
    /\ IsFiniteSet(MadeRefunds)

\* A call that says "processed" names a refund that is, and only such a one counts.
PaidCall(c) ==
    /\ c.got = "processed" => c.id \in RefundId /\ refunds[c.id].state = "processed"
    /\ c.pc = "ledger" => c.got = "processed"

PaidInv == PaidFacts /\ \A c \in calls : PaidCall(c)

\* What the provider said of a refund it never takes back.
Stands ==
    \A r \in MadeRefunds :
        /\ refunds'[r].state # "none"
        /\ refunds'[r].amount = refunds[r].amount /\ refunds'[r].receipt = refunds[r].receipt
        /\ refunds[r].state = "processed" => refunds'[r].state = "processed"

LEMMA PaidStep ==
    ASSUME PaidInv, PaidFacts', Stands, \A d \in calls' \ calls : PaidCall(d)'
    PROVE  PaidInv'
<1>1. ASSUME NEW c \in calls PROVE PaidCall(c)'
  <2>1. PaidCall(c)
    BY DEF PaidInv
  <2> QED
    BY <2>1 DEF PaidCall, Stands, MadeRefunds
<1> QED
  BY <1>1 DEF PaidInv

\* A step that neither counts nor pays.
LEMMA QuietStep ==
    ASSUME PaidInv, UNCHANGED <<ledgerVars, providerVars>>, \A d \in calls' \ calls : PaidCall(d)
    PROVE  PaidInv'
<1>1. UNCHANGED <<refunded, processedRefundIds, refunds, delayed, events>>
  BY DEF ledgerVars, providerVars
<1>2. PaidFacts'
  BY <1>1 DEF PaidInv, PaidFacts, LedgerCountsOnce, MadeRefunds, Sum, Paise
<1>3. Stands
  BY <1>1 DEF Stands, MadeRefunds
<1>4. \A d \in calls' \ calls : PaidCall(d)'
  BY <1>1 DEF PaidCall
<1> QED
  BY <1>2, <1>3, <1>4, PaidStep

\* Where the calls stand after a step of each kind.
LEMMA CallsEnd ==
    ASSUME PaidInv, UNCHANGED <<ledgerVars, providerVars>>, calls' \subseteq calls
    PROVE  PaidInv'
BY QuietStep

LEMMA CallsMove ==
    ASSUME PaidInv, UNCHANGED <<ledgerVars, providerVars>>, NEW c, NEW d,
           Continue(c, d) \/ Begin(d), PaidCall(d)
    PROVE  PaidInv'
BY QuietStep DEF Continue, Begin

LEMMA EngineIsQuiet ==
    ASSUME PaidInv, UNCHANGED <<ledgerVars, providerVars>>, NEW c, NEW w, NEW id, NEW receipt,
           Continue(c, EngineCall(w, id, receipt)) \/ Begin(EngineCall(w, id, receipt))
    PROVE  PaidInv'
<1> DEFINE d == EngineCall(w, id, receipt)
<1>1. d.got = "none" /\ d.pc # "ledger"
  BY DEF EngineCall, Blank
<1> HIDE DEF d
<1>2. PaidCall(d)
  BY <1>1 DEF PaidCall
<1>3. Continue(c, d) \/ Begin(d)
  BY DEF d
<1> QED
  BY <1>2, <1>3, CallsMove

LEMMA GoIsQuiet ==
    ASSUME RefundInv, PaidInv, UNCHANGED <<ledgerVars, providerVars>>, NEW c \in calls,
           NEW pc \in Pcs, Go(c, pc), pc = "ledger" => c.got = "processed"
    PROVE  PaidInv'
<1> DEFINE d == [c EXCEPT !.pc = pc]
<1>1. c \in Call /\ PaidCall(c)
  BY CallsAre DEF PaidInv
<1>2. d.pc = pc /\ d.id = c.id /\ d.got = c.got
  BY <1>1 DEF Call, Pcs
<1>3. Continue(c, d)
  BY DEF Go
<1> HIDE DEF d
<1>4. PaidCall(d)
  BY <1>1, <1>2 DEF PaidCall
<1> QED
  BY <1>3, <1>4, CallsMove

LEMMA EntersQuietly ==
    ASSUME PaidInv, UNCHANGED <<ledgerVars, providerVars>>, NEW c, NEW w,
           \/ Begin(EngineCall(w, refundId, refundReceipt))
           \/ Begin(EngineCall(w, refundId', refundReceipt'))
           \/ Continue(c, EngineCall(w, refundId', refundReceipt'))
    PROVE  PaidInv'
<1>1. PICK id, receipt : id = refundId /\ receipt = refundReceipt
  OBVIOUS
<1>2. PICK id2, receipt2 : id2 = refundId' /\ receipt2 = refundReceipt'
  OBVIOUS
<1>3. \/ Begin(EngineCall(w, id, receipt))
      \/ Begin(EngineCall(w, id2, receipt2))
      \/ Continue(c, EngineCall(w, id2, receipt2))
  BY <1>1, <1>2
<1> QED
  BY <1>3, EngineIsQuiet

LEMMA PaidCancel ==
    ASSUME PaidInv, NEW target \in Targets, Cancel(target)
    PROVE  PaidInv'
BY CallsEnd DEF Cancel

LEMMA PaidInitiate ==
    ASSUME PaidInv, NEW w \in Worker, Initiate(w)
    PROVE  PaidInv'
<1>1. CASE Begin([Blank(w) EXCEPT !.pc = "queue"])
  <2> DEFINE d == [Blank(w) EXCEPT !.pc = "queue"]
  <2>1. PaidCall(d)
    BY DEF PaidCall, Blank
  <2> QED
    BY <1>1, <2>1, CallsMove DEF Initiate
<1> QED
  BY <1>1, EntersQuietly DEF Initiate

LEMMA PaidQueues ==
    ASSUME PaidInv, NEW w, NEW c, QueueCancelled(c) \/ Unfulfillable(w) \/ SweepRefund(w) \/ SweepHeldRefund(w)
    PROVE  PaidInv'
<1>1. CASE QueueCancelled(c)
  BY <1>1, EntersQuietly, CallsEnd DEF QueueCancelled, Return
<1>2. CASE Unfulfillable(w)
  BY <1>2, EntersQuietly, CallsEnd DEF Unfulfillable
<1>3. CASE SweepRefund(w)
  BY <1>3, EntersQuietly DEF SweepRefund
<1>4. CASE SweepHeldRefund(w)
  BY <1>4, EntersQuietly, CallsEnd DEF SweepHeldRefund
<1> QED
  BY <1>1, <1>2, <1>3, <1>4

LEMMA PaidReturns ==
    ASSUME PaidInv, NEW c \in calls,
           ProviderError(c) \/ Keep(c) \/ SettleReleased(c) \/ Requeue(c) \/ Sync(c)
    PROVE  PaidInv'
BY CallsEnd DEF ProviderError, Keep, SettleReleased, Requeue, Sync, Return

LEMMA PaidGoes ==
    ASSUME RefundInv, PaidInv, NEW c \in calls,
           \/ Drop(c) \/ NotFound(c) \/ Note(c) \/ UpdateOrder(c) \/ SettlePaid(c)
           \/ Remainder(c) \/ Mention(c)
    PROVE  PaidInv'
<1>1. UNCHANGED <<ledgerVars, providerVars>>
  BY DEF Drop, NotFound, Note, UpdateOrder, SettlePaid, Remainder, Mention
<1>2. \E pc \in Pcs : pc # "ledger" /\ Go(c, pc)
  BY DEF Drop, NotFound, Note, UpdateOrder, SettlePaid, Remainder, Mention, Pcs
<1> QED
  BY <1>1, <1>2, GoIsQuiet

LEMMA PaidRecord ==
    ASSUME RefundInv, PaidInv, NEW c \in calls, Record(c)
    PROVE  PaidInv'
<1>1. PICK pc \in Pcs : /\ pc = IF c.got = "processed" THEN "ledger" ELSE "sync"
                        /\ pc = "ledger" => c.got = "processed"
  BY DEF Pcs
<1>2. Go(c, pc) /\ UNCHANGED <<ledgerVars, providerVars>>
  BY <1>1 DEF Record
<1> QED
  BY <1>1, <1>2, GoIsQuiet

LEMMA PaidKnown ==
    ASSUME RefundInv, PaidInv, NEW c \in calls, Known(c)
    PROVE  PaidInv'
<1>1. c \in Call /\ CallTrue(c) /\ c.pc = "known" /\ UNCHANGED <<ledgerVars, providerVars>>
  BY CallsAre DEF Known
<1>2. c.id \in RefundId
  BY <1>1 DEF CallTrue, Made
<1>3. PICK s \in RefundStates : s = refunds[c.id].state
  BY <1>2 DEF RefundInv, Facts, ProviderOK
<1>4. PICK pc \in Pcs :
        /\ pc = CASE s = "processed" -> "ledger" [] s = "pending" -> "keep" [] OTHER -> "drop"
        /\ pc = "ledger" => s = "processed"
  BY DEF Pcs
<1> DEFINE d == [c EXCEPT !.got = s, !.pc = pc]
<1>5. Continue(c, d)
  BY <1>3, <1>4 DEF Known
<1>6. d.pc = pc /\ d.id = c.id /\ d.got = s
  BY <1>1 DEF Call, Pcs
<1> HIDE DEF d
<1>7. PaidCall(d)
  BY <1>2, <1>3, <1>4, <1>6 DEF PaidCall
<1> QED
  BY <1>1, <1>5, <1>7, CallsMove

LEMMA PaidClaim ==
    ASSUME RefundInv, PaidInv, NEW c \in calls, Claim(c)
    PROVE  PaidInv'
<1>1. c \in Call /\ UNCHANGED <<ledgerVars, providerVars>>
  BY CallsAre DEF Claim
<1>2. CASE Return(c)
  BY <1>1, <1>2, CallsEnd DEF Return
<1>3. CASE ~Return(c)
  <2>1. PICK id, a, b : /\ id = refundId /\ a = refundAmount
                        /\ b = IF refundReceipt = Unset THEN Max({refundAmount, 0}) ELSE refundReceipt
    OBVIOUS
  <2> DEFINE d == [c EXCEPT !.pc = "lookup", !.id = id, !.got = "none", !.amount = a, !.receipt = b]
  <2>2. Continue(c, d)
    BY <1>3, <2>1 DEF Claim
  <2>3. d.pc = "lookup" /\ d.got = "none"
    BY <1>1 DEF Call
  <2> HIDE DEF d
  <2>4. PaidCall(d)
    BY <2>3 DEF PaidCall
  <2> QED
    BY <1>1, <2>2, <2>4, CallsMove
<1> QED
  BY <1>2, <1>3

LEMMA PaidFound ==
    ASSUME RefundInv, PaidInv, NEW c \in calls, NEW r \in RefundId, Found(c, r)
    PROVE  PaidInv'
<1>1. c \in Call /\ UNCHANGED <<ledgerVars, providerVars>>
  BY CallsAre DEF Found
<1>2. PICK s : s = refunds[r].state
  OBVIOUS
<1> DEFINE d == [c EXCEPT !.pc = "record", !.id = r, !.got = s]
<1>3. Continue(c, d)
  BY <1>2 DEF Found
<1>4. d.pc = "record" /\ d.id = r /\ d.got = s
  BY <1>1 DEF Call
<1> HIDE DEF d
<1>5. PaidCall(d)
  BY <1>2, <1>4 DEF PaidCall
<1> QED
  BY <1>1, <1>3, <1>5, CallsMove

LEMMA PaidGivesUp ==
    ASSUME RefundInv, PaidInv, NEW c \in calls, GiveUp(c)
    PROVE  PaidInv'
<1>1. c \in Call /\ UNCHANGED <<ledgerVars, providerVars>>
  BY CallsAre DEF GiveUp
<1>2. PICK id : id = IF c.id = "none" THEN "receipt" ELSE c.id
  OBVIOUS
<1> DEFINE d == [c EXCEPT !.pc = "sync", !.got = "failed", !.id = id]
<1>3. Continue(c, d)
  BY <1>2 DEF GiveUp
<1>4. d.pc = "sync" /\ d.got = "failed"
  BY <1>1 DEF Call
<1> HIDE DEF d
<1>5. PaidCall(d)
  BY <1>4 DEF PaidCall
<1> QED
  BY <1>1, <1>3, <1>5, CallsMove

LEMMA LesserOf ==
    ASSUME NEW n \in Int
    PROVE  Min({Amount, n}) = IF Amount <= n THEN Amount ELSE n
BY RefundAssumption DEF Min

LEMMA FactsOfRefunds ==
    ASSUME PaidInv, UNCHANGED <<refunds, delayed, events>>, LedgerCountsOnce'
    PROVE  PaidFacts'
<1>1. MadeRefunds' = MadeRefunds
  BY DEF MadeRefunds
<1>2. IsFiniteSet(MadeRefunds')
  BY <1>1 DEF PaidInv, PaidFacts
<1>3. \A e \in events' : e.status = "processed" => refunds'[e.id].state = "processed"
  BY DEF PaidInv, PaidFacts
<1> QED
  BY <1>2, <1>3 DEF PaidFacts

\* A refund that is paid out is counted: once, for what it is.
LEMMA PaidCounts ==
    ASSUME RefundInv, PaidInv, NEW r \in RefundId, refunds[r].state = "processed", Count(r),
           UNCHANGED providerVars
    PROVE  PaidFacts' /\ Stands
<1>1. UNCHANGED <<refunds, delayed, events>>
  BY DEF providerVars
<1>2. Stands
  BY <1>1 DEF Stands, MadeRefunds
<1>3. CASE UNCHANGED ledgerVars
  <2>1. UNCHANGED <<refunded, processedRefundIds>>
    BY <1>3 DEF ledgerVars
  <2>2. LedgerCountsOnce'
    BY <1>1, <2>1 DEF PaidInv, PaidFacts, LedgerCountsOnce, Sum, Paise
  <2> QED
    BY <1>1, <1>2, <2>2, FactsOfRefunds
<1>4. CASE /\ r \notin processedRefundIds
           /\ processedRefundIds' = processedRefundIds \union {r}
           /\ refunded' = Min({Amount, refunded + refunds[r].amount})
  <2>1. PICK S : S = processedRefundIds
    OBVIOUS
  <2>2. PICK T : T = S \union {r}
    OBVIOUS
  <2>3. PICK a \in 0..Amount : a = refunds[r].amount
    BY DEF RefundInv, Facts, ProviderOK
  <2>4. IsFiniteSet(MadeRefunds) /\ S \subseteq MadeRefunds
    BY <2>1 DEF PaidInv, PaidFacts, LedgerCountsOnce, MadeRefunds, RefundInv, Facts, LedgerOK
  <2>5. PICK M : M = MadeRefunds
    OBVIOUS
  <2>6. IsFiniteSet(S)
    BY <2>4, <2>5, FS_Subset
  <2>7. Sum(T) = Sum(S) + a
    BY <1>4, <2>1, <2>2, <2>3, <2>6, SumGrows
  <2>8. Sum(S) \in Nat
    BY <2>6, PaiseFinite
  <2>9. PICK n \in Nat, m \in Nat : n = Sum(S) /\ m = Sum(T) /\ m = n + a
    BY <2>3, <2>7, <2>8, RefundAssumption
  <2>10. refunded = Min({Amount, n})
    BY <2>1, <2>9 DEF PaidInv, PaidFacts, LedgerCountsOnce, Sum, Paise
  <2>11. refunded' = Min({Amount, refunded + a})
    BY <1>4, <2>3
  <2>12. refunded' = Min({Amount, m})
    BY <2>3, <2>9, <2>10, <2>11, LesserOf, RefundAssumption
  <2>13. Sum(processedRefundIds)' = m
    BY <1>1, <1>4, <2>1, <2>2, <2>9 DEF Sum, Paise
  <2>14. LedgerCountsOnce'
    BY <1>1, <1>4, <2>12, <2>13 DEF PaidInv, PaidFacts, LedgerCountsOnce
  <2> QED
    BY <1>1, <1>2, <2>14, FactsOfRefunds
<1> QED
  BY <1>2, <1>3, <1>4 DEF Count

LEMMA PaidCountOnPayment ==
    ASSUME RefundInv, PaidInv, NEW c \in calls, CountOnPayment(c)
    PROVE  PaidInv'
<1>1. c \in Call /\ CallTrue(c) /\ PaidCall(c) /\ c.pc = "ledger" /\ Count(c.id) /\ UNCHANGED providerVars
  BY CallsAre DEF CountOnPayment, PaidInv
<1>2. c.got = "processed" /\ c.id \in RefundId /\ refunds[c.id].state = "processed"
  BY <1>1 DEF PaidCall
<1>3. PaidFacts' /\ Stands
  BY <1>1, <1>2, PaidCounts
<1>4. PICK n : n = refunded'
  OBVIOUS
<1> DEFINE d == [c EXCEPT !.pc = "order", !.got = "processed", !.total = n]
<1>5. Continue(c, d)
  BY <1>4 DEF CountOnPayment
<1>6. d.pc = "order" /\ d.id = c.id
  BY <1>1 DEF Call
<1> HIDE DEF d
<1>7. PaidCall(d)'
  BY <1>1, <1>2, <1>6 DEF PaidCall, providerVars
<1> QED
  BY <1>3, <1>5, <1>7, PaidStep DEF Continue

LEMMA PaidCountOnIntent ==
    ASSUME RefundInv, PaidInv, NEW c \in calls, CountOnIntent(c)
    PROVE  PaidInv'
<1>1. c \in Call /\ PaidCall(c) /\ c.pc = "ledger" /\ Count(c.id) /\ UNCHANGED providerVars
  BY CallsAre DEF CountOnIntent, PaidInv
<1>2. c.got = "processed" /\ c.id \in RefundId /\ refunds[c.id].state = "processed"
  BY <1>1 DEF PaidCall
<1>3. PaidFacts' /\ Stands
  BY <1>1, <1>2, PaidCounts
<1>4. ASSUME NEW pc \in {"settle", "requeue"}, Go(c, pc) PROVE PaidInv'
  <2> DEFINE d == [c EXCEPT !.pc = pc]
  <2>1. Continue(c, d)
    BY <1>4 DEF Go
  <2>2. d.pc = pc /\ d.id = c.id
    BY <1>1 DEF Call
  <2> HIDE DEF d
  <2>3. PaidCall(d)'
    BY <1>1, <1>2, <2>2 DEF PaidCall, providerVars
  <2> QED
    BY <1>3, <2>1, <2>3, PaidStep DEF Continue
<1>5. CASE calls' \subseteq calls
  BY <1>3, <1>5, PaidStep
<1> QED
  BY <1>4, <1>5 DEF CountOnIntent, Return

\* The provider makes a refund: it was not there, so it was not counted.
LEMMA PaidCreates ==
    ASSUME RefundInv, PaidInv, NEW amount \in Unset..Amount, NEW receipt,
           NEW state \in {"pending", "processed"}, CreateRefund(amount, receipt, state),
           UNCHANGED ledgerVars
    PROVE  /\ PaidFacts' /\ Stands
           /\ \E r \in RefundId : r = NewRefund /\ refunds'[r].state = state
<1>1. PICK r \in RefundId : r = NewRefund /\ refunds[r].state = "none"
  BY DEF CreateRefund, NewRefund
<1>2. refunds' = [refunds EXCEPT ![r] = [state |-> state, amount |-> amount, receipt |-> receipt]]
  BY <1>1 DEF CreateRefund
<1>3. refunds \in [RefundId -> [state : RefundStates, amount : 0..Amount, receipt : Unset..Amount]]
  BY DEF RefundInv, Facts, ProviderOK
<1>4. refunds'[r].state = state /\ \A q \in RefundId : q # r => refunds'[q] = refunds[q]
  BY <1>2, <1>3
<1>5. Stands
  BY <1>1, <1>4 DEF Stands, MadeRefunds
<1>6. UNCHANGED <<refunded, processedRefundIds>>
  BY DEF ledgerVars
<1>7. \A q \in processedRefundIds : q \in RefundId /\ q # r /\ refunds'[q] = refunds[q]
  BY <1>1, <1>4 DEF PaidInv, PaidFacts, LedgerCountsOnce, RefundInv, Facts, LedgerOK
<1>8. PICK S : S = processedRefundIds
  OBVIOUS
<1>9. Sum(S)' = Sum(S)
  BY <1>7, <1>8, SumKept
<1>10. Sum(processedRefundIds)' = Sum(processedRefundIds)
  <2>1. Sum(processedRefundIds) = Sum(S)
    BY <1>8 DEF Sum, Paise
  <2>2. Sum(processedRefundIds)' = Sum(S)'
    BY <1>6, <1>8 DEF Sum, Paise
  <2> QED
    BY <1>9, <2>1, <2>2
<1>11. LedgerCountsOnce'
  BY <1>6, <1>7, <1>10 DEF PaidInv, PaidFacts, LedgerCountsOnce
<1>12. IsFiniteSet(MadeRefunds')
  <2>1. PICK M : M = MadeRefunds
    OBVIOUS
  <2>2. IsFiniteSet(M \union {r})
    BY <2>1, FS_AddElement DEF PaidInv, PaidFacts
  <2>3. MadeRefunds' \subseteq M \union {r}
    BY <1>4, <2>1 DEF MadeRefunds
  <2>4. PICK N : N = MadeRefunds'
    OBVIOUS
  <2> QED
    BY <2>2, <2>3, <2>4, FS_Subset
<1>13. \A e \in events' : e.status = "processed" => refunds'[e.id].state = "processed"
  <2>1. ASSUME NEW e \in events PROVE e.status = "processed" => refunds'[e.id].state = "processed"
    <3>1. e.id \in RefundId
      BY DEF RefundInv, Facts, ProviderOK
    <3>2. e.status = "processed" => refunds[e.id].state = "processed"
      BY DEF PaidInv, PaidFacts
    <3> QED
      BY <1>1, <1>4, <3>1, <3>2
  <2>2. ASSUME NEW e \in events' \ events PROVE e.id = r /\ e.status \in {"pending", state}
    BY <1>1 DEF CreateRefund, Emitted
  <2> QED
    BY <1>4, <2>1, <2>2
<1> QED
  BY <1>1, <1>4, <1>5, <1>11, <1>12, <1>13 DEF PaidFacts

LEMMA PaidRequest ==
    ASSUME RefundInv, PaidInv, NEW c \in calls, NEW state \in {"pending", "processed"}, Request(c, state)
    PROVE  PaidInv'
<1>1. c \in Call /\ UNCHANGED ledgerVars
  BY CallsAre DEF Request
<1>2. PICK amount, receipt : amount \in Unset..Amount /\ amount = Asked(c) /\ receipt = c.receipt
  BY <1>1, AskedTyped, RefundAssumption DEF Unset
<1>3. CreateRefund(amount, receipt, state)
  BY <1>2 DEF Request
<1>4. /\ PaidFacts' /\ Stands
      /\ \E r \in RefundId : r = NewRefund /\ refunds'[r].state = state
  BY <1>1, <1>2, <1>3, PaidCreates
<1>5. PICK r \in RefundId : r = NewRefund /\ refunds'[r].state = state
  BY <1>4
<1> DEFINE d == [c EXCEPT !.pc = "record", !.id = r, !.got = state]
<1>6. Continue(c, d)
  BY <1>5 DEF Request
<1>7. d.pc = "record" /\ d.id = r /\ d.got = state
  BY <1>1 DEF Call
<1> HIDE DEF d
<1>8. PaidCall(d)'
  BY <1>5, <1>7 DEF PaidCall
<1> QED
  BY <1>4, <1>6, <1>8, PaidStep DEF Continue

LEMMA PaidByOthers ==
    ASSUME RefundInv, PaidInv, NEW amount \in 0..Amount, NEW state \in {"pending", "processed"}, NEW q,
           \/ RefundByHand(amount, state)
           \/ q \in delayed /\ Arrives(q, state)
    PROVE  PaidInv'
<1>1. UNCHANGED <<ledgerVars, calls>>
  BY DEF RefundByHand, Arrives
<1>2. PICK n, receipt : n \in Unset..Amount /\ CreateRefund(n, receipt, state)
  <2>1. CASE RefundByHand(amount, state)
    BY <2>1, RefundAssumption DEF RefundByHand, Unset
  <2>2. CASE q \in delayed /\ Arrives(q, state)
    <3>1. q.amount \in Unset..Amount
      BY <2>2, RefundAssumption DEF RefundInv, Facts, ProviderOK, Unset
    <3>2. PICK n, receipt : n \in Unset..Amount /\ n = q.amount /\ receipt = q.receipt
      BY <3>1
    <3> QED
      BY <2>2, <3>2 DEF Arrives
  <2> QED
    BY <2>1, <2>2
<1>3. PaidFacts' /\ Stands
  BY <1>1, <1>2, PaidCreates
<1> QED
  BY <1>1, <1>3, PaidStep

LEMMA PaidRequestFails ==
    ASSUME RefundInv, PaidInv, NEW c \in calls, NEW m \in BOOLEAN, RequestFails(c, m)
    PROVE  PaidInv'
<1>1. c \in Call /\ PaidCall(c) /\ UNCHANGED <<ledgerVars, refunds, events>> /\ Go(c, "relookup")
  BY CallsAre DEF RequestFails, PaidInv
<1>2. UNCHANGED <<refunded, processedRefundIds>>
  BY <1>1 DEF ledgerVars
<1>3. PaidFacts' /\ Stands
  BY <1>1, <1>2 DEF Stands, MadeRefunds, PaidInv, PaidFacts, LedgerCountsOnce, Sum, Paise
<1> DEFINE d == [c EXCEPT !.pc = "relookup"]
<1>4. Continue(c, d)
  BY <1>1 DEF Go
<1>5. d.pc = "relookup" /\ d.id = c.id /\ d.got = c.got
  BY <1>1 DEF Call
<1> HIDE DEF d
<1>6. PaidCall(d)'
  BY <1>1, <1>5 DEF PaidCall
<1> QED
  BY <1>3, <1>4, <1>6, PaidStep DEF Continue

LEMMA PaidSettles ==
    ASSUME RefundInv, PaidInv, NEW r \in RefundId, NEW state \in {"processed", "failed"}, RefundSettles(r, state)
    PROVE  PaidInv'
<1>1. /\ refunds[r].state = "pending" /\ UNCHANGED <<refunded, processedRefundIds, calls>>
      /\ refunds' = [refunds EXCEPT ![r].state = state]
  BY DEF RefundSettles, ledgerVars
<1>2. refunds \in [RefundId -> [state : RefundStates, amount : 0..Amount, receipt : Unset..Amount]]
  BY DEF RefundInv, Facts, ProviderOK
<1>3. /\ refunds'[r].state = state /\ refunds'[r].amount = refunds[r].amount
      /\ refunds'[r].receipt = refunds[r].receipt
      /\ \A q \in RefundId : q # r => refunds'[q] = refunds[q]
  BY <1>1, <1>2
<1>4. Stands /\ MadeRefunds' = MadeRefunds
  BY <1>1, <1>3 DEF Stands, MadeRefunds
<1>5. PICK S : S = processedRefundIds
  OBVIOUS
<1>6. \A q \in S : q \in RefundId /\ q # r /\ refunds'[q] = refunds[q]
  BY <1>1, <1>3, <1>5 DEF PaidInv, PaidFacts, LedgerCountsOnce, RefundInv, Facts, LedgerOK
<1>7. Sum(S)' = Sum(S)
  BY <1>6, SumKept
<1>8. Sum(processedRefundIds)' = Sum(processedRefundIds)
  <2>1. Sum(processedRefundIds) = Sum(S)
    BY <1>5 DEF Sum, Paise
  <2>2. Sum(processedRefundIds)' = Sum(S)'
    BY <1>1, <1>5 DEF Sum, Paise
  <2> QED
    BY <1>7, <2>1, <2>2
<1>9. LedgerCountsOnce'
  BY <1>1, <1>5, <1>6, <1>8 DEF PaidInv, PaidFacts, LedgerCountsOnce
<1>10. \A e \in events' : e.status = "processed" => refunds'[e.id].state = "processed"
  <2>1. ASSUME NEW e \in events PROVE e.status = "processed" => refunds'[e.id].state = "processed"
    <3>1. e.id \in RefundId
      BY DEF RefundInv, Facts, ProviderOK
    <3>2. e.status = "processed" => refunds[e.id].state = "processed"
      BY DEF PaidInv, PaidFacts
    <3> QED
      BY <1>1, <1>3, <3>1, <3>2
  <2>2. ASSUME NEW e \in events' \ events PROVE e.id = r /\ e.status = state
    BY DEF RefundSettles, Emitted
  <2> QED
    BY <1>3, <2>1, <2>2
<1>11. PaidFacts'
  BY <1>4, <1>9, <1>10 DEF PaidInv, PaidFacts
<1> QED
  BY <1>1, <1>4, <1>11, PaidStep

LEMMA PaidDelivers ==
    ASSUME RefundInv, PaidInv, NEW w \in Worker, NEW e \in events, Deliver(w, e)
    PROVE  PaidInv'
<1>1. UNCHANGED <<refunded, processedRefundIds, refunds>> /\ events' \subseteq events
  BY DEF Deliver, ledgerVars
<1>2. PaidFacts' /\ Stands
  BY <1>1 DEF Stands, MadeRefunds, PaidInv, PaidFacts, LedgerCountsOnce, Sum, Paise
<1>3. /\ e.id \in RefundId /\ e.status \in RefundStates
      /\ e.status = "processed" => refunds[e.id].state = "processed"
  BY DEF RefundInv, Facts, ProviderOK, PaidInv, PaidFacts
<1>4. PICK pc \in {"ledger", "note"} :
        /\ pc = IF e.status = "processed" THEN "ledger" ELSE "note"
        /\ pc = "ledger" => e.status = "processed"
  OBVIOUS
<1> DEFINE d == [Blank(w) EXCEPT !.from = "event", !.id = e.id, !.got = e.status, !.pc = pc]
<1>5. Begin(d)
  BY <1>4 DEF Deliver
<1>6. d.pc = pc /\ d.id = e.id /\ d.got = e.status
  <2>1. Blank(w) \in Call
    BY RefundAssumption DEF Blank, Call, RefundStates, Unset
  <2> QED
    BY <2>1 DEF Call
<1> HIDE DEF d
<1>7. PaidCall(d)'
  BY <1>1, <1>3, <1>4, <1>6 DEF PaidCall
<1> QED
  BY <1>2, <1>5, <1>7, PaidStep DEF Begin

LEMMA PaidCrash ==
    ASSUME RefundInv, PaidInv, NEW c \in calls, Crash(c)
    PROVE  PaidInv'
<1>1. PaidCall(c) /\ UNCHANGED <<refunded, processedRefundIds, refunds>> /\ calls' \subseteq calls
  BY DEF Crash, ledgerVars, PaidInv
<1>2. \A e \in events' \ events : e = [id |-> c.id, status |-> c.got]
  BY DEF Crash
<1>3. \A e \in events' : e.status = "processed" => refunds[e.id].state = "processed"
  BY <1>1, <1>2 DEF PaidCall, PaidInv, PaidFacts
<1>4. PaidFacts' /\ Stands
  BY <1>1, <1>3 DEF Stands, MadeRefunds, PaidInv, PaidFacts, LedgerCountsOnce, Sum, Paise
<1> QED
  BY <1>1, <1>4, PaidStep

LEMMA PaidHandle ==
    ASSUME RefundInv, PaidInv, NEW c \in calls, Handle(c)
    PROVE  PaidInv'
<1>1. CASE Ask(c)
  BY <1>1, PaidKnown, PaidFound, PaidRequest DEF Ask
<1>2. CASE AskInVain(c)
  BY <1>2, PaidReturns, PaidGoes, PaidRequestFails DEF AskInVain
<1>3. CASE Step(c)
  BY <1>3, PaidQueues, PaidReturns, PaidGoes, PaidClaim, PaidGivesUp, PaidRecord,
     PaidCountOnPayment, PaidCountOnIntent DEF Step
<1> QED
  BY <1>1, <1>2, <1>3 DEF Handle

LEMMA PaidInvariant == Spec => []PaidInv
<1>1. Init => PaidInv
  <2> SUFFICES ASSUME Init PROVE PaidInv
    OBVIOUS
  <2>1. MadeRefunds = {} /\ processedRefundIds = {} /\ events = {} /\ calls = {} /\ refunded = 0
    BY DEF Init, MadeRefunds
  <2>2. Sum(processedRefundIds) = 0
    <3>1. Sum(processedRefundIds) = Sum({})
      BY <2>1 DEF Sum, Paise
    <3> QED
      BY <3>1, SumOfNone
  <2>3. Min({Amount, 0}) = 0
    BY LesserOf, RefundAssumption
  <2>4. IsFiniteSet({})
    BY FS_EmptySet
  <2> QED
    BY <2>1, <2>2, <2>3, <2>4 DEF PaidInv, PaidFacts, LedgerCountsOnce
<1>2. ASSUME RefundInv, PaidInv, [Next]_vars PROVE PaidInv'
  <2>1. CASE \E t \in Targets : Cancel(t)
    BY <1>2, <2>1, PaidCancel
  <2>2. CASE \E w \in Worker : Initiate(w) \/ Unfulfillable(w) \/ SweepRefund(w) \/ SweepHeldRefund(w)
    BY <1>2, <2>2, PaidInitiate, PaidQueues
  <2>3. CASE \E w \in Worker, e \in events : Deliver(w, e)
    BY <1>2, <2>3, PaidDelivers
  <2>4. CASE \E c \in calls : Handle(c) \/ Crash(c)
    BY <1>2, <2>4, PaidHandle, PaidCrash
  <2>5. CASE \E r \in RefundId, s \in {"processed", "failed"} : RefundSettles(r, s)
    BY <1>2, <2>5, PaidSettles
  <2>6. CASE \E a \in ManualAmounts, s \in {"pending", "processed"} : RefundByHand(a, s)
    <3>1. \A a \in ManualAmounts : a \in 0..Amount
      BY RefundAssumption
    <3> QED
      BY <1>2, <2>6, <3>1, PaidByOthers
  <2>7. CASE \E q \in delayed, s \in {"pending", "processed"} : Arrives(q, s)
    <3>1. 0 \in 0..Amount
      BY RefundAssumption
    <3> QED
      BY <1>2, <2>7, <3>1, PaidByOthers
  <2>8. CASE ThirtySecondsPass
    BY <1>2, <2>8, CallsEnd DEF ThirtySecondsPass
  <2>9. CASE UNCHANGED vars
    BY <1>2, <2>9, CallsEnd DEF vars
  <2> QED
    BY <1>2, <2>1, <2>2, <2>3, <2>4, <2>5, <2>6, <2>7, <2>8, <2>9 DEF Next
<1> QED
  BY RefundInvariant, <1>1, <1>2, PTL DEF Spec

\* However often a refund is reported -- by its webhooks, again after a crash,
\* by the engine -- the ledger counts it once, for what the provider paid out,
\* for every amount and any number of refunds and calls (applyRazorpayRefund).
THEOREM EachRefundCountedOnce == Spec => []LedgerCountsOnce
<1>1. PaidInv => LedgerCountsOnce
  BY DEF PaidInv, PaidFacts
<1> QED
  BY <1>1, PaidInvariant, PTL

-----------------------------------------------------------------------------
(* No more goes back than was decided *)

\* Until staff refund by hand, every refund is for the target, and as that is
\* more than half of the payment there is never room for a second one.
OnceFacts ==
    /\ \A r \in MadeRefunds : refundTarget # Unset /\ refunds[r].amount = refundTarget
    /\ \A r, s \in Live : r = s
    /\ refundTarget # Unset => refundAmount \in {0, refundTarget}
    /\ status \in Refunding => refundTarget # Unset
    /\ \A q \in delayed : refundTarget # Unset /\ q.amount \in {0, refundTarget}

OnceCall(c) ==
    /\ c.pc \in {"lookup", "request"} => refundTarget # Unset /\ c.amount \in {0, refundTarget}
    /\ c.pc = "order" => c.total >= TargetNow
    /\ c.pc \notin {"remainder", "mention", "requeue"}

OnceInv ==
    /\ cancelTarget \in Targets \union {Unset}
    /\ ~RefundedByHand => OnceFacts /\ \A c \in calls : OnceCall(c)

PlainPcs == Pcs \ {"lookup", "request", "order", "remainder", "mention", "requeue"}

LEMMA PlainCall == ASSUME NEW c, c.pc \in PlainPcs PROVE OnceCall(c) /\ OnceCall(c)'
BY DEF PlainPcs, OnceCall

LEMMA OnceStep ==
    ASSUME RefundInv, RefundInv', OnceInv, Stands, cancelTarget' \in Targets \union {Unset},
           refundTarget # Unset => refundTarget' = refundTarget,
           ~RefundedByHand => OnceFacts' /\ \A d \in calls' \ calls : OnceCall(d)'
    PROVE  OnceInv'
<1>1. RefundedByHand => RefundedByHand'
  BY DEF Stands, MadeRefunds, RefundedByHand
<1>2. TargetNow \in Int /\ TargetNow' \in Int /\ TargetNow' <= TargetNow
  <2>1. TargetNow \in 0..Amount /\ TargetNow' \in 0..Amount
    BY TargetTyped DEF RefundInv, Facts
  <2>2. refundTarget = Unset => TargetNow = Amount
    BY DEF TargetNow
  <2>3. refundTarget # Unset => TargetNow' = TargetNow
    BY DEF TargetNow
  <2> QED
    BY <2>1, <2>2, <2>3, RefundAssumption
<1>3. ASSUME NEW c \in calls, ~RefundedByHand PROVE OnceCall(c)'
  <2>1. OnceCall(c) /\ c.total \in Int
    BY <1>3, CallsAre, RefundAssumption DEF OnceInv, Call
  <2>2. c.pc = "order" => c.total >= TargetNow'
    BY <1>2, <2>1 DEF OnceCall
  <2> QED
    BY <2>1, <2>2 DEF OnceCall
<1> QED
  BY <1>1, <1>3 DEF OnceInv

LEMMA OnceQuiet ==
    ASSUME RefundInv, RefundInv', OnceInv, UNCHANGED <<refundTarget, cancelTarget, refunds, delayed>>,
           ~RefundedByHand =>
               /\ refundAmount' \in {refundAmount, 0}
               /\ status' \in Refunding => refundTarget # Unset
               /\ \A d \in calls' \ calls : OnceCall(d)
    PROVE  OnceInv'
<1>1. Stands /\ MadeRefunds' = MadeRefunds /\ Live' = Live
  BY DEF Stands, MadeRefunds, Live
<1>2. ~RefundedByHand => OnceFacts'
  BY <1>1 DEF OnceInv, OnceFacts
<1>3. ~RefundedByHand => \A d \in calls' \ calls : OnceCall(d)'
  <2>1. TargetNow' = TargetNow
    BY DEF TargetNow
  <2> QED
    BY <2>1 DEF OnceCall
<1>4. cancelTarget' \in Targets \union {Unset}
  BY DEF OnceInv
<1> QED
  BY <1>1, <1>2, <1>3, <1>4, OnceStep

\* A call goes on to a place of which nothing is claimed.
LEMMA OnceGoes ==
    ASSUME RefundInv, RefundInv', OnceInv, UNCHANGED <<refundTarget, cancelTarget, refunds, delayed>>,
           NEW c \in calls, NEW pc,
           ~RefundedByHand =>
               /\ refundAmount' \in {refundAmount, 0}
               /\ status' \in Refunding => refundTarget # Unset
               /\ pc \in PlainPcs \/ (pc = "request" /\ c.pc = "lookup"),
           Go(c, pc)
    PROVE  OnceInv'
<1>1. ASSUME ~RefundedByHand, NEW d \in calls' \ calls PROVE OnceCall(d)
  <2>1. d = [c EXCEPT !.pc = pc] /\ c \in Call
    BY <1>1, CallsAre DEF Go, Continue
  <2>2. d.pc = pc /\ d.amount = c.amount
    BY <1>1, <2>1 DEF Call, PlainPcs, Pcs
  <2>3. CASE pc \in PlainPcs
    BY <2>2, <2>3, PlainCall
  <2>4. CASE pc = "request" /\ c.pc = "lookup"
    BY <1>1, <2>2, <2>4 DEF OnceInv, OnceCall
  <2> QED
    BY <1>1, <2>3, <2>4
<1> QED
  BY <1>1, OnceQuiet

LEMMA EngineIsPlain ==
    ASSUME NEW w, NEW id, NEW receipt
    PROVE  EngineCall(w, id, receipt).pc \in PlainPcs
BY DEF EngineCall, Blank, PlainPcs, Pcs

LEMMA EntersPlainly ==
    ASSUME NEW c, NEW w,
           \/ Begin(EngineCall(w, refundId, refundReceipt))
           \/ Begin(EngineCall(w, refundId', refundReceipt'))
           \/ Continue(c, EngineCall(w, refundId', refundReceipt'))
    PROVE  \A d \in calls' \ calls : d.pc \in PlainPcs
<1>1. PICK id, receipt : id = refundId /\ receipt = refundReceipt
  OBVIOUS
<1>2. PICK id2, receipt2 : id2 = refundId' /\ receipt2 = refundReceipt'
  OBVIOUS
<1>3. \/ Begin(EngineCall(w, id, receipt))
      \/ Begin(EngineCall(w, id2, receipt2))
      \/ Continue(c, EngineCall(w, id2, receipt2))
  BY <1>1, <1>2
<1> QED
  BY <1>3, EngineIsPlain DEF Begin, Continue

\* Steps that leave the target, its amount and the provider alone.
LEMMA OnceReadsOn ==
    ASSUME RefundInv, RefundInv', OnceInv, UNCHANGED <<refundTarget, refundAmount, status, cancelTarget, refunds, delayed>>,
           \A d \in calls' \ calls : d.pc \in PlainPcs
    PROVE  OnceInv'
<1>1. ~RefundedByHand => (status' \in Refunding => refundTarget # Unset)
  BY DEF OnceInv, OnceFacts
<1>2. \A d \in calls' \ calls : OnceCall(d)
  BY PlainCall
<1> QED
  BY <1>1, <1>2, OnceQuiet

LEMMA OnceInitiate ==
    ASSUME RefundInv, RefundInv', OnceInv, NEW w \in Worker, Initiate(w) \/ SweepRefund(w) \/ SweepHeldRefund(w)
    PROVE  OnceInv'
<1>1. UNCHANGED <<refundTarget, refundAmount, status, cancelTarget, refunds, delayed>>
  BY DEF Initiate, SweepRefund, SweepHeldRefund, intentVars, orderVars, providerVars
<1>2. CASE Begin([Blank(w) EXCEPT !.pc = "queue"])
  <2> DEFINE d == [Blank(w) EXCEPT !.pc = "queue"]
  <2>1. d.pc \in PlainPcs
    BY DEF Blank, PlainPcs, Pcs
  <2>2. Begin(d)
    BY <1>2
  <2> HIDE DEF d
  <2> QED
    BY <1>1, <2>1, <2>2, OnceReadsOn DEF Begin
<1>3. CASE Begin(EngineCall(w, refundId, refundReceipt))
  BY <1>1, <1>3, EntersPlainly, OnceReadsOn
<1>4. CASE UNCHANGED <<calls, crashes>>
  BY <1>1, <1>4, OnceReadsOn
<1> QED
  BY <1>2, <1>3, <1>4 DEF Initiate, SweepRefund, SweepHeldRefund

LEMMA OnceEnds ==
    ASSUME RefundInv, RefundInv', OnceInv, NEW c \in calls,
           ProviderError(c) \/ Sync(c) \/ Crash(c) \/ UNCHANGED vars
    PROVE  OnceInv'
<1>1. UNCHANGED <<refundTarget, refundAmount, status, cancelTarget, refunds, delayed>> /\ calls' \subseteq calls
  BY DEF ProviderError, Sync, Crash, Return, vars, intentVars, orderVars, providerVars
<1> QED
  BY <1>1, OnceReadsOn

LEMMA OnceWaits ==
    ASSUME RefundInv, RefundInv', OnceInv, ThirtySecondsPass \/ UNCHANGED vars
    PROVE  OnceInv'
<1>1. UNCHANGED <<refundTarget, refundAmount, status, cancelTarget, refunds, delayed>> /\ calls' = calls
  BY DEF ThirtySecondsPass, vars, intentVars, orderVars, providerVars
<1> QED
  BY <1>1, OnceReadsOn

LEMMA OnceDelivers ==
    ASSUME RefundInv, RefundInv', OnceInv, NEW w \in Worker, NEW e \in events, Deliver(w, e)
    PROVE  OnceInv'
<1>1. UNCHANGED <<refundTarget, refundAmount, status, cancelTarget, refunds, delayed>>
  BY DEF Deliver, intentVars, orderVars
<1>2. PICK pc \in {"ledger", "note"} : pc = IF e.status = "processed" THEN "ledger" ELSE "note"
  OBVIOUS
<1> DEFINE d == [Blank(w) EXCEPT !.from = "event", !.id = e.id, !.got = e.status, !.pc = pc]
<1>3. Begin(d)
  BY <1>2 DEF Deliver
<1>4. d.pc \in PlainPcs
  BY DEF Blank, PlainPcs, Pcs
<1> HIDE DEF d
<1> QED
  BY <1>1, <1>3, <1>4, OnceReadsOn DEF Begin

\* Whoever names a refund that was made finds the target decided.
LEMMA MadeMeansDecided ==
    ASSUME OnceInv, ~RefundedByHand, NEW r, Made(r)
    PROVE  refundTarget # Unset /\ refunds[r].amount = refundTarget
BY DEF OnceInv, OnceFacts, Made, MadeRefunds

LEMMA OnceKnown ==
    ASSUME RefundInv, RefundInv', OnceInv, NEW c \in calls, Known(c)
    PROVE  OnceInv'
<1>1. c \in Call /\ UNCHANGED <<refundTarget, refundAmount, status, cancelTarget, refunds, delayed>>
  BY CallsAre DEF Known, intentVars, orderVars, providerVars
<1>2. PICK s : s = refunds[c.id].state
  OBVIOUS
<1>3. PICK pc \in {"ledger", "keep", "drop"} :
        pc = CASE s = "processed" -> "ledger" [] s = "pending" -> "keep" [] OTHER -> "drop"
  OBVIOUS
<1> DEFINE d == [c EXCEPT !.got = s, !.pc = pc]
<1>4. Continue(c, d)
  BY <1>2, <1>3 DEF Known
<1>5. d.pc = pc
  BY <1>1 DEF Call
<1> HIDE DEF d
<1>6. d.pc \in PlainPcs
  BY <1>5 DEF PlainPcs, Pcs
<1> QED
  BY <1>1, <1>4, <1>6, OnceReadsOn DEF Continue

LEMMA OnceFound ==
    ASSUME RefundInv, RefundInv', OnceInv, NEW c \in calls, NEW r \in RefundId, Found(c, r)
    PROVE  OnceInv'
<1>1. c \in Call /\ UNCHANGED <<refundTarget, refundAmount, status, cancelTarget, refunds, delayed>>
  BY CallsAre DEF Found, intentVars, orderVars, providerVars
<1>2. PICK s : s = refunds[r].state
  OBVIOUS
<1> DEFINE d == [c EXCEPT !.pc = "record", !.id = r, !.got = s]
<1>3. Continue(c, d)
  BY <1>2 DEF Found
<1>4. d.pc = "record"
  BY <1>1 DEF Call
<1> HIDE DEF d
<1>5. d.pc \in PlainPcs
  BY <1>4 DEF PlainPcs, Pcs
<1> QED
  BY <1>1, <1>3, <1>5, OnceReadsOn DEF Continue

LEMMA OnceGivesUp ==
    ASSUME RefundInv, RefundInv', OnceInv, NEW c \in calls, GiveUp(c)
    PROVE  OnceInv'
<1>1. /\ c \in Call /\ UNCHANGED <<refundTarget, refundAmount, cancelTarget, refunds, delayed>>
      /\ status' \in Refunding => status \in Refunding
  BY CallsAre DEF GiveUp, orderVars, providerVars, Refunding
<1>2. PICK id : id = IF c.id = "none" THEN "receipt" ELSE c.id
  OBVIOUS
<1> DEFINE d == [c EXCEPT !.pc = "sync", !.got = "failed", !.id = id]
<1>3. Continue(c, d)
  BY <1>2 DEF GiveUp
<1>4. d.pc = "sync"
  BY <1>1 DEF Call
<1> HIDE DEF d
<1>5. \A e \in calls' \ calls : OnceCall(e)
  BY <1>3, <1>4, PlainCall DEF Continue, PlainPcs, Pcs
<1>6. ~RefundedByHand => (status' \in Refunding => refundTarget # Unset)
  BY <1>1 DEF OnceInv, OnceFacts
<1> QED
  BY <1>1, <1>5, <1>6, OnceQuiet

LEMMA OnceKeep ==
    ASSUME RefundInv, RefundInv', OnceInv, NEW c \in calls, Keep(c)
    PROVE  OnceInv'
<1>1. /\ UNCHANGED <<refundTarget, refundAmount, cancelTarget, refunds, delayed>>
      /\ calls' \subseteq calls /\ Made(c.id)
  BY CallsAre DEF Keep, Return, orderVars, providerVars, CallTrue
<1>2. ~RefundedByHand => refundTarget # Unset
  BY <1>1, MadeMeansDecided
<1> QED
  BY <1>1, <1>2, OnceQuiet

\* Drop, Note and Record write what the provider said of a refund it made.
LEMMA OnceWrites ==
    ASSUME RefundInv, RefundInv', OnceInv, NEW c \in calls, Drop(c) \/ Note(c) \/ Record(c)
    PROVE  OnceInv'
<1>1. UNCHANGED <<refundTarget, refundAmount, cancelTarget, refunds, delayed>> /\ Made(c.id)
  BY CallsAre DEF Drop, Note, Record, orderVars, providerVars, CallTrue
<1>2. ~RefundedByHand => refundTarget # Unset
  BY <1>1, MadeMeansDecided
<1>3. PICK pc \in {"claim", "sync", "ledger"} : Go(c, pc)
  <2>1. PICK pc \in {"ledger", "sync"} : pc = IF c.got = "processed" THEN "ledger" ELSE "sync"
    OBVIOUS
  <2> QED
    BY <2>1 DEF Drop, Note, Record
<1>4. pc \in PlainPcs
  BY DEF PlainPcs, Pcs
<1> QED
  BY <1>1, <1>2, <1>3, <1>4, OnceGoes

LEMMA OnceNotFound ==
    ASSUME RefundInv, RefundInv', OnceInv, NEW c \in calls, NotFound(c)
    PROVE  OnceInv'
<1>1. UNCHANGED <<refundTarget, refundAmount, status, cancelTarget, refunds, delayed>>
  BY DEF NotFound, intentVars, orderVars, providerVars
<1>2. PICK pc \in {"request", "giveup"} :
        /\ pc = IF c.pc = "lookup" THEN "request" ELSE "giveup"
        /\ pc = "request" => c.pc = "lookup"
  OBVIOUS
<1>3. Go(c, pc)
  BY <1>2 DEF NotFound
<1>4. pc \in PlainPcs \/ (pc = "request" /\ c.pc = "lookup")
  BY <1>2 DEF PlainPcs, Pcs
<1>5. ~RefundedByHand => (status' \in Refunding => refundTarget # Unset)
  BY <1>1 DEF OnceInv, OnceFacts
<1> QED
  BY <1>1, <1>3, <1>4, <1>5, OnceGoes

LEMMA OnceClaim ==
    ASSUME RefundInv, RefundInv', OnceInv, NEW c \in calls, Claim(c)
    PROVE  OnceInv'
<1>1. c \in Call /\ UNCHANGED <<refundTarget, refundAmount, cancelTarget, refunds, delayed>>
  BY CallsAre DEF Claim, orderVars, providerVars
<1>2. CASE Return(c) /\ UNCHANGED status
  BY <1>1, <1>2, OnceReadsOn DEF Return
<1>3. CASE Claimable
  <2>1. ~RefundedByHand => refundTarget # Unset /\ refundAmount \in {0, refundTarget}
    BY <1>3 DEF Claimable, OnceInv, OnceFacts, Refunding
  <2>2. PICK id, a, b : /\ id = refundId /\ a = refundAmount
                        /\ b = IF refundReceipt = Unset THEN Max({refundAmount, 0}) ELSE refundReceipt
    OBVIOUS
  <2> DEFINE d == [c EXCEPT !.pc = "lookup", !.id = id, !.got = "none", !.amount = a, !.receipt = b]
  <2>3. Continue(c, d)
    BY <1>3, <2>2 DEF Claim
  <2>4. d.pc = "lookup" /\ d.amount = a
    BY <1>1 DEF Call
  <2> HIDE DEF d
  <2>5. ~RefundedByHand => OnceCall(d)
    BY <2>1, <2>2, <2>4 DEF OnceCall
  <2> QED
    BY <1>1, <2>1, <2>3, <2>5, OnceQuiet DEF Continue
<1> QED
  BY <1>2, <1>3 DEF Claim

-----------------------------------------------------------------------------
(* The ledger *)

\* The ledger has all of the target or nothing.
LEMMA AllOrNothing ==
    ASSUME RefundInv, PaidInv, OnceInv, ~RefundedByHand
    PROVE  refunded = 0 \/ (refundTarget # Unset /\ refunded = refundTarget)
<1>1. PICK S : S = processedRefundIds
  OBVIOUS
<1>2. S \subseteq Live /\ refunded = Min({Amount, Sum(S)})
  <2>1. Sum(processedRefundIds) = Sum(S)
    BY <1>1 DEF Sum, Paise
  <2> QED
    BY <1>1, <2>1 DEF PaidInv, PaidFacts, LedgerCountsOnce, Live, RefundInv, Facts, LedgerOK
<1>3. CASE S = {}
  BY <1>2, <1>3, SumOfNone, LesserOf, RefundAssumption
<1>4. CASE S # {}
  <2>1. PICK r \in S : TRUE
    BY <1>4
  <2>2. \A s \in S : s = r
    BY <1>2, <2>1 DEF OnceInv, OnceFacts
  <2>3. S = {r}
    BY <2>1, <2>2
  <2>4. /\ r \in RefundId /\ refunds[r].amount \in 0..Amount
        /\ refundTarget # Unset /\ refunds[r].amount = refundTarget
    BY <1>2, <2>1 DEF Live, MadeRefunds, OnceInv, OnceFacts, RefundInv, Facts, ProviderOK
  <2>5. Sum(S) = refundTarget
    BY <2>3, <2>4, SumOfOne
  <2>6. refundTarget \in 0..Amount
    BY <2>4
  <2>7. refunded = refundTarget
    BY <1>2, <2>5, <2>6, LesserOf, RefundAssumption
  <2> QED
    BY <2>4, <2>7
<1> QED
  BY <1>3, <1>4

LEMMA CountReaches ==
    ASSUME RefundInv, PaidInv, OnceInv, ~RefundedByHand, NEW r, Made(r), Count(r),
           UNCHANGED refundTarget
    PROVE  refunded' >= TargetNow /\ TargetNow' = TargetNow
<1>1. PICK T : T = refundTarget
  OBVIOUS
<1>2. T # Unset /\ refunds[r].amount = T
  BY <1>1, MadeMeansDecided
<1>3. T \in 0..Amount /\ refunded \in 0..Amount /\ TargetNow = T
  BY <1>1, <1>2, RefundAssumption DEF RefundInv, Facts, IntentOK, LedgerOK, TargetNow, Unset
<1>4. CASE r \in processedRefundIds
  <2>1. PICK S : S = processedRefundIds
    OBVIOUS
  <2>2. PICK M : M = MadeRefunds
    OBVIOUS
  <2>3. IsFiniteSet(S)
    <3>1. S \subseteq M /\ IsFiniteSet(M)
      BY <2>1, <2>2 DEF PaidInv, PaidFacts, LedgerCountsOnce, MadeRefunds, RefundInv, Facts, LedgerOK
    <3> QED
      BY <3>1, FS_Subset
  <2>4. Sum(S) >= T /\ Sum(S) \in Nat
    BY <1>2, <1>3, <1>4, <2>1, <2>3, SumCovers, PaiseFinite
  <2>5. refunded = Min({Amount, Sum(S)})
    <3>1. Sum(processedRefundIds) = Sum(S)
      BY <2>1 DEF Sum, Paise
    <3> QED
      BY <3>1 DEF PaidInv, PaidFacts, LedgerCountsOnce
  <2>6. refunded >= T
    BY <1>3, <2>4, <2>5, LesserOf, RefundAssumption
  <2>7. refunded' = refunded
    BY <1>4 DEF Count, ledgerVars
  <2> QED
    BY <1>3, <2>6, <2>7 DEF TargetNow
<1>5. CASE r \notin processedRefundIds
  <2>1. refunded' = Min({Amount, refunded + T})
    BY <1>2, <1>5 DEF Count
  <2>2. refunded' >= T
    BY <1>3, <2>1, LesserOf, RefundAssumption
  <2> QED
    BY <1>3, <2>2 DEF TargetNow
<1> QED
  BY <1>4, <1>5

LEMMA OnceCountOnPayment ==
    ASSUME RefundInv, RefundInv', PaidInv, OnceInv, NEW c \in calls, CountOnPayment(c)
    PROVE  OnceInv'
<1>1. /\ c \in Call /\ Made(c.id) /\ Count(c.id)
      /\ UNCHANGED <<refundTarget, refundAmount, status, cancelTarget, refunds, delayed>>
  BY CallsAre DEF CountOnPayment, CallTrue, intentVars, orderVars, providerVars
<1>2. ~RefundedByHand => refunded' >= TargetNow
  BY <1>1, CountReaches
<1>3. PICK n : n = refunded'
  OBVIOUS
<1> DEFINE d == [c EXCEPT !.pc = "order", !.got = "processed", !.total = n]
<1>4. Continue(c, d)
  BY <1>3 DEF CountOnPayment
<1>5. d.pc = "order" /\ d.total = n
  BY <1>1 DEF Call
<1> HIDE DEF d
<1>6. ~RefundedByHand => OnceCall(d)
  BY <1>2, <1>3, <1>5 DEF OnceCall
<1>7. ~RefundedByHand => (status' \in Refunding => refundTarget # Unset)
  BY <1>1 DEF OnceInv, OnceFacts
<1> QED
  BY <1>1, <1>4, <1>6, <1>7, OnceQuiet DEF Continue

LEMMA OnceCountOnIntent ==
    ASSUME RefundInv, RefundInv', PaidInv, OnceInv, NEW c \in calls, CountOnIntent(c)
    PROVE  OnceInv'
<1>1. /\ Made(c.id) /\ Count(c.id)
      /\ UNCHANGED <<refundTarget, refundAmount, status, cancelTarget, refunds, delayed>>
  BY CallsAre DEF CountOnIntent, CallTrue, orderVars, providerVars
<1>2. ~RefundedByHand => ~(refunded' < TargetNow)
  <2>1. TargetNow \in Int /\ refunded' \in Int
    BY TargetTyped, RefundAssumption DEF RefundInv, Facts, LedgerOK
  <2> QED
    BY <1>1, <2>1, CountReaches
<1>3. ~RefundedByHand => (status' \in Refunding => refundTarget # Unset)
  BY <1>1 DEF OnceInv, OnceFacts
<1>4. CASE Go(c, "settle")
  <2>1. "settle" \in PlainPcs
    BY DEF PlainPcs, Pcs
  <2> QED
    BY <1>1, <1>3, <1>4, <2>1, OnceGoes
<1>5. CASE refunded' < TargetNow /\ Go(c, "requeue")
  BY <1>1, <1>2, <1>3, <1>5, OnceGoes
<1>6. CASE Return(c)
  BY <1>1, <1>6, OnceReadsOn DEF Return
<1> QED
  BY <1>4, <1>5, <1>6 DEF CountOnIntent

LEMMA OnceUpdateOrder ==
    ASSUME RefundInv, RefundInv', OnceInv, NEW c \in calls, UpdateOrder(c)
    PROVE  OnceInv'
<1>1. /\ c.pc = "order" /\ c \in Call
      /\ UNCHANGED <<refundTarget, refundAmount, status, cancelTarget, refunds, delayed>>
  BY CallsAre DEF UpdateOrder, intentVars, providerVars
<1>2. ~RefundedByHand => (status' \in Refunding => refundTarget # Unset)
  BY <1>1 DEF OnceInv, OnceFacts
<1>3. ~RefundedByHand => c.total >= TargetNow
  BY <1>1 DEF OnceInv, OnceCall
<1>4. PICK pc \in {"settle", "remainder", "mention"} :
        /\ pc = CASE c.total >= TargetNow -> "settle"
                  [] c.total < TargetNow /\ status \in Refunding -> "remainder"
                  [] OTHER -> "mention"
        /\ c.total >= TargetNow => pc = "settle"
  <2>1. c.total \in Int /\ TargetNow \in Int
    BY <1>1, TargetTyped, RefundAssumption DEF RefundInv, Facts, Call
  <2>2. CASE c.total >= TargetNow
    BY <2>1, <2>2
  <2>3. CASE ~(c.total >= TargetNow)
    BY <2>1, <2>3
  <2> QED
    BY <2>2, <2>3
<1>5. Go(c, pc)
  BY <1>4 DEF UpdateOrder
<1>6. pc = "settle" => pc \in PlainPcs
  BY DEF PlainPcs, Pcs
<1> QED
  BY <1>1, <1>2, <1>3, <1>4, <1>5, <1>6, OnceGoes

LEMMA OnceSettles ==
    ASSUME RefundInv, RefundInv', OnceInv, NEW c \in calls,
           SettlePaid(c) \/ SettleReleased(c) \/ Remainder(c) \/ Mention(c)
    PROVE  OnceInv'
<1>1. UNCHANGED <<refundTarget, cancelTarget, refunds, delayed>>
  BY DEF SettlePaid, SettleReleased, Remainder, Mention, orderVars, providerVars
<1>2. ~RefundedByHand => c.pc \notin {"remainder", "mention"}
  BY DEF OnceInv, OnceCall
<1>3. "sync" \in PlainPcs /\ "refunded" \notin Refunding
  BY DEF PlainPcs, Pcs, Refunding
<1>4. CASE SettlePaid(c)
  BY <1>1, <1>3, <1>4, OnceGoes DEF SettlePaid
<1>5. CASE SettleReleased(c)
  BY <1>1, <1>3, <1>5, OnceQuiet DEF SettleReleased, Return
<1>6. CASE Remainder(c) \/ Mention(c)
  <2>1. RefundedByHand /\ Go(c, "sync")
    BY <1>2, <1>6 DEF Remainder, Mention
  <2> QED
    BY <1>1, <2>1, OnceGoes
<1> QED
  BY <1>4, <1>5, <1>6

-----------------------------------------------------------------------------
(* Queueing *)

LEMMA OnceQueued ==
    ASSUME RefundInv, RefundInv', PaidInv, OnceInv, NEW target \in 0..Amount, QueueRefund(target),
           refundTarget \in {Unset, target}, UNCHANGED providerVars,
           cancelTarget' \in Targets \union {Unset}, \A d \in calls' \ calls : d.pc \in PlainPcs
    PROVE  OnceInv'
<1>1. UNCHANGED <<refunds, delayed>> /\ refundTarget' = target /\ target # Unset
  BY RefundAssumption DEF providerVars, QueueRefund, Unset
<1>2. Stands /\ MadeRefunds' = MadeRefunds /\ Live' = Live
  BY <1>1 DEF Stands, MadeRefunds, Live
<1>3. ASSUME ~RefundedByHand PROVE OnceFacts'
  <2>1. /\ \A r \in MadeRefunds' : refunds'[r].amount = target
        /\ \A r, s \in Live' : r = s
        /\ \A q \in delayed' : q.amount \in {0, target}
    BY <1>1, <1>2, <1>3 DEF OnceInv, OnceFacts
  <2>2. refunded \in {0, target}
    BY <1>1, <1>3, AllOrNothing
  <2>3. Owing(target) \in {0, target}
    BY <2>2, RefundAssumption DEF Owing
  <2>4. ActiveRefund => refundAmount \in {0, target}
    <3>1. ActiveRefund => Made(refundId)
      BY DEF ActiveRefund, RefundInv, Facts, NamesAreMade, Named
    <3>2. ActiveRefund => refundTarget # Unset
      BY <1>3, <3>1, MadeMeansDecided
    <3> QED
      BY <1>3, <3>2 DEF OnceInv, OnceFacts
  <2>5. refundAmount' \in {0, target}
    BY <2>3, <2>4 DEF QueueRefund
  <2> QED
    BY <1>1, <2>1, <2>5 DEF OnceFacts
<1> QED
  BY <1>1, <1>2, <1>3, PlainCall, OnceStep

LEMMA OnceCancel ==
    ASSUME RefundInv, RefundInv', PaidInv, OnceInv, NEW target \in Targets, Cancel(target)
    PROVE  OnceInv'
<1>1. /\ ordered /\ cancelTarget = Unset /\ cancelTarget' = target /\ target \in 0..Amount
      /\ UNCHANGED <<refunds, delayed, calls>>
  BY RefundAssumption DEF Cancel, providerVars
<1>2. CASE QueueRefund(target)
  <2>1. refundTarget = Unset
    BY <1>1 DEF RefundInv, Facts, TargetIsDecided
  <2> QED
    BY <1>1, <1>2, <2>1, OnceQueued DEF Cancel
<1>3. CASE UNCHANGED <<refundTarget, status, refundAmount>>
  <2>1. Stands /\ MadeRefunds' = MadeRefunds /\ Live' = Live
    BY <1>1 DEF Stands, MadeRefunds, Live
  <2>2. ~RefundedByHand => OnceFacts'
    BY <1>1, <1>3, <2>1 DEF OnceInv, OnceFacts
  <2> QED
    BY <1>1, <1>3, <2>1, <2>2, OnceStep
<1> QED
  BY <1>2, <1>3 DEF Cancel

LEMMA OnceQueueCancelled ==
    ASSUME RefundInv, RefundInv', PaidInv, OnceInv, NEW c \in calls, QueueCancelled(c)
    PROVE  OnceInv'
<1>1. PICK target : target = cancelTarget
  OBVIOUS
<1>2. ordered /\ cancelTarget # Unset /\ UNCHANGED <<cancelTarget, providerVars>>
  BY CallsAre DEF QueueCancelled, CallTrue
<1>3. target \in 0..Amount /\ refundTarget \in {Unset, target} /\ cancelTarget' \in Targets \union {Unset}
  BY <1>1, <1>2, RefundAssumption DEF OnceInv, RefundInv, Facts, TargetIsDecided
<1>4. QueueRefund(target)
  BY <1>1 DEF QueueCancelled
<1>5. \A d \in calls' \ calls : d.pc \in PlainPcs
  BY EntersPlainly DEF QueueCancelled, Return
<1> QED
  BY <1>2, <1>3, <1>4, <1>5, OnceQueued

LEMMA OnceReleases ==
    ASSUME RefundInv, RefundInv', PaidInv, OnceInv, NEW w, NEW c \in calls \union {w},
           Unfulfillable(w) \/ (c \in calls /\ Requeue(c))
    PROVE  OnceInv'
<1>1. /\ ~ordered /\ UNCHANGED <<cancelTarget, providerVars>> /\ QueueRefund(Amount)
      /\ cancelTarget' \in Targets \union {Unset}
  BY CallsAre DEF Unfulfillable, Requeue, CallTrue, orderVars, OnceInv
<1>2. refundTarget \in {Unset, Amount} /\ Amount \in 0..Amount
  BY <1>1, RefundAssumption DEF RefundInv, Facts, TargetIsDecided
<1>3. \A d \in calls' \ calls : d.pc \in PlainPcs
  BY EntersPlainly DEF Unfulfillable, Requeue, Return
<1> QED
  BY <1>1, <1>2, <1>3, OnceQueued

-----------------------------------------------------------------------------
(* The provider *)

\* There is no room for a second refund of the target.
LEMMA NoSecond ==
    ASSUME RefundInv, PaidInv, OnceInv, ~RefundedByHand, refundTarget # Unset, refundTarget > 0,
           Sum(Live) + refundTarget <= Amount
    PROVE  Live = {}
<1>1. PICK T : T = refundTarget
  OBVIOUS
<1>2. T \in Targets \union {Amount}
  BY <1>1 DEF RefundInv, Facts, TargetIsDecided, OrderOK, OnceInv
<1>3. 2 * T > Amount /\ T \in 0..Amount
  BY <1>1, <1>2, RefundAssumption
<1>4. ASSUME NEW r \in Live PROVE FALSE
  <2>1. PICK L : L = Live
    OBVIOUS
  <2>2. PICK M : M = MadeRefunds
    OBVIOUS
  <2>3. L \subseteq M /\ IsFiniteSet(M)
    BY <2>1, <2>2 DEF Live, MadeRefunds, PaidInv, PaidFacts
  <2>4. IsFiniteSet(L)
    BY <2>3, FS_Subset
  <2>5. refunds[r].amount = T
    BY <1>1, <1>4 DEF Live, MadeRefunds, OnceInv, OnceFacts
  <2>6. Sum(L) >= T /\ Sum(L) \in Nat
    BY <1>3, <1>4, <2>1, <2>4, <2>5, SumCovers, PaiseFinite
  <2>7. Sum(Live) = Sum(L)
    BY <2>1 DEF Sum, Paise
  <2> QED
    BY <1>1, <1>3, <2>6, <2>7, RefundAssumption
<1> QED
  BY <1>4

LEMMA OnceCreates ==
    ASSUME RefundInv, RefundInv', PaidInv, OnceInv, NEW amount \in Unset..Amount, NEW receipt,
           NEW state \in {"pending", "processed"}, CreateRefund(amount, receipt, state),
           UNCHANGED <<intentVars, ledgerVars, orderVars>>, delayed' \subseteq delayed,
           \/ receipt = Unset
           \/ ~RefundedByHand => refundTarget # Unset /\ amount \in {0, refundTarget},
           \A d \in calls' \ calls : d.pc \in PlainPcs
    PROVE  OnceInv'
<1>1. Stands
  BY PaidCreates
<1>2. UNCHANGED <<status, refundTarget, refundAmount, cancelTarget>>
  BY DEF intentVars, orderVars
<1>3. PICK r \in RefundId : r = NewRefund /\ refunds[r].state = "none"
  BY DEF CreateRefund, NewRefund
<1>4. refunds' = [refunds EXCEPT ![r] = [state |-> state, amount |-> amount, receipt |-> receipt]]
  BY <1>3 DEF CreateRefund
<1>5. refunds \in [RefundId -> [state : RefundStates, amount : 0..Amount, receipt : Unset..Amount]]
  BY DEF RefundInv, Facts, ProviderOK
<1>6. /\ refunds'[r].state = state /\ refunds'[r].amount = amount /\ refunds'[r].receipt = receipt
      /\ \A q \in RefundId : q # r => refunds'[q] = refunds[q]
  BY <1>4, <1>5
<1>7. CASE receipt = Unset
  <2>1. RefundedByHand'
    BY <1>6, <1>7 DEF RefundedByHand
  <2> QED
    BY <1>2, <2>1 DEF OnceInv
<1>8. CASE receipt # Unset
  <2>1. ASSUME ~RefundedByHand PROVE OnceFacts'
    <3>1. refundTarget # Unset /\ amount \in {0, refundTarget} /\ amount > 0 /\ Sum(Live) + amount <= Amount
      BY <1>8, <2>1 DEF CreateRefund
    <3>2. Live = {}
      BY <2>1, <3>1, NoSecond
    <3>3. \A q \in Live' : q = r
      BY <1>6, <3>2 DEF Live
    <3>4. \A q \in MadeRefunds' : refunds'[q].amount = refundTarget
      BY <1>6, <2>1, <3>1 DEF MadeRefunds, OnceInv, OnceFacts
    <3> QED
      BY <1>2, <2>1, <3>1, <3>3, <3>4 DEF OnceInv, OnceFacts
  <2>2. \A d \in calls' \ calls : OnceCall(d)'
    BY PlainCall
  <2> QED
    BY <1>1, <1>2, <2>1, <2>2, OnceStep DEF OnceInv
<1> QED
  BY <1>7, <1>8

LEMMA OnceRequest ==
    ASSUME RefundInv, RefundInv', PaidInv, OnceInv, NEW c \in calls,
           NEW state \in {"pending", "processed"}, Request(c, state)
    PROVE  OnceInv'
<1>1. c \in Call /\ c.pc = "request" /\ UNCHANGED <<intentVars, ledgerVars, orderVars, delayed>>
  BY CallsAre DEF Request
<1>2. PICK amount, receipt : amount \in Unset..Amount /\ amount = Asked(c) /\ receipt = c.receipt
  BY <1>1, AskedTyped, RefundAssumption DEF Unset
<1>3. CreateRefund(amount, receipt, state)
  BY <1>2 DEF Request
<1>4. ~RefundedByHand => refundTarget # Unset /\ amount \in {0, refundTarget}
  BY <1>1, <1>2 DEF OnceInv, OnceCall, Asked, Unset
<1>5. PICK r : r = NewRefund
  OBVIOUS
<1> DEFINE d == [c EXCEPT !.pc = "record", !.id = r, !.got = state]
<1>6. Continue(c, d)
  BY <1>5 DEF Request
<1>7. d.pc = "record"
  BY <1>1 DEF Call
<1> HIDE DEF d
<1>8. \A e \in calls' \ calls : e.pc \in PlainPcs
  BY <1>6, <1>7 DEF Continue, PlainPcs, Pcs
<1> QED
  BY <1>1, <1>2, <1>3, <1>4, <1>8, OnceCreates

LEMMA OnceByHand ==
    ASSUME RefundInv, RefundInv', PaidInv, OnceInv, NEW amount \in ManualAmounts,
           NEW state \in {"pending", "processed"}, RefundByHand(amount, state)
    PROVE  OnceInv'
<1>1. PICK receipt : receipt = Unset
  OBVIOUS
<1>2. CreateRefund(amount, receipt, state) /\ amount \in Unset..Amount
  BY <1>1, RefundAssumption DEF RefundByHand, Unset
<1>3. UNCHANGED <<intentVars, ledgerVars, orderVars>> /\ delayed' = delayed /\ calls' = calls
  BY DEF RefundByHand
<1> QED
  BY <1>1, <1>2, <1>3, OnceCreates

LEMMA OnceArrives ==
    ASSUME RefundInv, RefundInv', PaidInv, OnceInv, NEW q \in delayed,
           NEW state \in {"pending", "processed"}, Arrives(q, state)
    PROVE  OnceInv'
<1>1. q.amount \in 0..Amount
  BY DEF RefundInv, Facts, ProviderOK
<1>2. PICK amount, receipt : amount \in Unset..Amount /\ amount = q.amount /\ receipt = q.receipt
  BY <1>1, RefundAssumption DEF Unset
<1>3. CreateRefund(amount, receipt, state)
  BY <1>2 DEF Arrives
<1>4. ~RefundedByHand => refundTarget # Unset /\ amount \in {0, refundTarget}
  BY <1>2 DEF OnceInv, OnceFacts
<1>5. UNCHANGED <<intentVars, ledgerVars, orderVars>> /\ delayed' \subseteq delayed /\ calls' = calls
  BY DEF Arrives
<1> QED
  BY <1>2, <1>3, <1>4, <1>5, OnceCreates

LEMMA OnceRequestFails ==
    ASSUME RefundInv, RefundInv', OnceInv, NEW c \in calls, NEW m \in BOOLEAN, RequestFails(c, m)
    PROVE  OnceInv'
<1>1. /\ c \in Call /\ c.pc = "request" /\ Go(c, "relookup")
      /\ UNCHANGED <<status, refundTarget, refundAmount, cancelTarget, refunds>>
  BY CallsAre DEF RequestFails, intentVars, orderVars
<1>2. PICK amount : amount = Asked(c)
  OBVIOUS
<1>3. ~RefundedByHand => refundTarget # Unset /\ amount \in {0, refundTarget}
  BY <1>1, <1>2 DEF OnceInv, OnceCall, Asked, Unset
<1>4. \A q \in delayed' \ delayed : q = [amount |-> amount, receipt |-> c.receipt]
  BY <1>2 DEF RequestFails
<1>5. Stands /\ MadeRefunds' = MadeRefunds /\ Live' = Live
  BY <1>1 DEF Stands, MadeRefunds, Live
<1>6. ASSUME ~RefundedByHand PROVE OnceFacts'
  <2>1. \A q \in delayed' : refundTarget # Unset /\ q.amount \in {0, refundTarget}
    BY <1>3, <1>4, <1>6 DEF OnceInv, OnceFacts
  <2> QED
    BY <1>1, <1>5, <1>6, <2>1 DEF OnceInv, OnceFacts
<1>7. \A d \in calls' \ calls : d.pc = "relookup"
  BY <1>1 DEF Go, Continue, Call
<1>8. \A d \in calls' \ calls : OnceCall(d)'
  BY <1>7, PlainCall DEF PlainPcs, Pcs
<1> QED
  BY <1>1, <1>5, <1>6, <1>8, OnceStep DEF OnceInv

LEMMA OnceRefundSettles ==
    ASSUME RefundInv, RefundInv', OnceInv, NEW r \in RefundId, NEW state \in {"processed", "failed"},
           RefundSettles(r, state)
    PROVE  OnceInv'
<1>1. /\ refunds[r].state = "pending" /\ refunds' = [refunds EXCEPT ![r].state = state]
      /\ UNCHANGED <<status, refundTarget, refundAmount, cancelTarget, delayed, calls>>
  BY DEF RefundSettles, intentVars, orderVars
<1>2. refunds \in [RefundId -> [state : RefundStates, amount : 0..Amount, receipt : Unset..Amount]]
  BY DEF RefundInv, Facts, ProviderOK
<1>3. /\ refunds'[r].state = state /\ refunds'[r].amount = refunds[r].amount
      /\ refunds'[r].receipt = refunds[r].receipt
      /\ \A q \in RefundId : q # r => refunds'[q] = refunds[q]
  BY <1>1, <1>2
<1>4. Stands /\ MadeRefunds' = MadeRefunds /\ Live' \subseteq Live
  BY <1>1, <1>3 DEF Stands, MadeRefunds, Live
<1>5. \A q \in MadeRefunds : refunds'[q].amount = refunds[q].amount
  BY <1>4 DEF Stands
<1>6. ~RefundedByHand => OnceFacts'
  BY <1>1, <1>4, <1>5 DEF OnceInv, OnceFacts
<1> QED
  BY <1>1, <1>4, <1>6, OnceStep DEF OnceInv

-----------------------------------------------------------------------------

LEMMA OnceHandle ==
    ASSUME RefundInv, RefundInv', PaidInv, OnceInv, NEW c \in calls, Handle(c)
    PROVE  OnceInv'
<1>1. CASE Ask(c)
  BY <1>1, OnceKnown, OnceFound, OnceRequest DEF Ask
<1>2. CASE AskInVain(c)
  BY <1>2, OnceEnds, OnceNotFound, OnceRequestFails DEF AskInVain
<1>3. CASE Step(c)
  BY <1>3, OnceQueueCancelled, OnceKeep, OnceWrites, OnceClaim, OnceGivesUp, OnceCountOnPayment,
     OnceUpdateOrder, OnceSettles, OnceCountOnIntent, OnceReleases, OnceEnds DEF Step
<1> QED
  BY <1>1, <1>2, <1>3 DEF Handle

LEMMA OnceInvariant == Spec => []OnceInv
<1>1. Init => OnceInv
  BY DEF Init, OnceInv, OnceFacts, MadeRefunds, Live, Refunding
<1>2. ASSUME RefundInv, RefundInv', PaidInv, OnceInv, [Next]_vars PROVE OnceInv'
  <2>1. CASE \E t \in Targets : Cancel(t)
    BY <1>2, <2>1, OnceCancel
  <2>2. CASE \E w \in Worker : Initiate(w) \/ Unfulfillable(w) \/ SweepRefund(w) \/ SweepHeldRefund(w)
    BY <1>2, <2>2, OnceInitiate, OnceReleases
  <2>3. CASE \E w \in Worker, e \in events : Deliver(w, e)
    BY <1>2, <2>3, OnceDelivers
  <2>4. CASE \E c \in calls : Handle(c) \/ Crash(c)
    BY <1>2, <2>4, OnceHandle, OnceEnds
  <2>5. CASE \E r \in RefundId, s \in {"processed", "failed"} : RefundSettles(r, s)
    BY <1>2, <2>5, OnceRefundSettles
  <2>6. CASE \E a \in ManualAmounts, s \in {"pending", "processed"} : RefundByHand(a, s)
    BY <1>2, <2>6, OnceByHand
  <2>7. CASE \E q \in delayed, s \in {"pending", "processed"} : Arrives(q, s)
    BY <1>2, <2>7, OnceArrives
  <2>8. CASE ThirtySecondsPass \/ UNCHANGED vars
    BY <1>2, <2>8, OnceWaits
  <2> QED
    BY <1>2, <2>1, <2>2, <2>3, <2>4, <2>5, <2>6, <2>7, <2>8 DEF Next
<1> QED
  BY RefundInvariant, PaidInvariant, <1>1, <1>2, PTL DEF Spec

\* Whatever times out, arrives late, fails or runs twice, until staff refund by
\* hand the refunds under way or paid out never come to more than the shop
\* decided to give back, for every amount and number of calls and refunds
\* (refund claim, receipt lookup).
THEOREM NoMoreThanDecided == Spec => []GoesBackOnce
<1>1. RefundInv /\ PaidInv /\ OnceInv => GoesBackOnce
  <2> SUFFICES ASSUME RefundInv, PaidInv, OnceInv, ~RefundedByHand PROVE Sum(Live) <= TargetNow
    BY DEF GoesBackOnce
  <2>1. PICK L : L = Live
    OBVIOUS
  <2>2. Sum(Live) = Sum(L)
    BY <2>1 DEF Sum, Paise
  <2>3. TargetNow \in 0..Amount
    BY TargetTyped DEF RefundInv, Facts
  <2>4. CASE L = {}
    BY <2>2, <2>3, <2>4, SumOfNone, RefundAssumption
  <2>5. CASE L # {}
    <3>1. PICK r \in L : L = {r}
      BY <2>1, <2>5 DEF OnceInv, OnceFacts
    <3>2. /\ refundTarget # Unset /\ refunds[r].amount = refundTarget
          /\ refunds[r].amount \in 0..Amount
      BY <2>1, <3>1 DEF Live, MadeRefunds, OnceInv, OnceFacts, RefundInv, Facts, ProviderOK
    <3>3. Sum(L) = refundTarget
      BY <3>1, <3>2, SumOfOne
    <3> QED
      BY <2>2, <2>3, <3>2, <3>3, RefundAssumption DEF TargetNow
  <2> QED
    BY <2>4, <2>5
<1> QED
  BY <1>1, RefundInvariant, PaidInvariant, OnceInvariant, PTL

-----------------------------------------------------------------------------
(* Where findings 3 and 4 of the README begin *)

\* As long as staff refund nothing by hand, no request of the code takes the
\* ledger beyond what was decided: the retained fee stays retained.
FeeKept ==
    ~RefundedByHand =>
      \A r \in RefundId :
        refunds[r].state = "none" /\ refunds'[r].state # "none" /\ refunds'[r].receipt # Unset
           => refunded + refunds'[r].amount <= TargetNow
FeeIsRetainedByTheEngine == [][FeeKept]_vars

LEMMA CreateKeepsFee ==
    ASSUME RefundInv, PaidInv, OnceInv, NEW amount \in Unset..Amount, NEW receipt,
           NEW state \in {"pending", "processed"}, CreateRefund(amount, receipt, state),
           \/ receipt = Unset
           \/ ~RefundedByHand => refundTarget # Unset /\ amount \in {0, refundTarget}
    PROVE  FeeKept
<1> SUFFICES ASSUME ~RefundedByHand, NEW r \in RefundId, refunds[r].state = "none",
                    refunds'[r].state # "none", refunds'[r].receipt # Unset
             PROVE  refunded + refunds'[r].amount <= TargetNow
  BY DEF FeeKept
<1>1. PICK q \in RefundId : q = NewRefund /\ refunds[q].state = "none"
  BY DEF CreateRefund, NewRefund
<1>2. refunds' = [refunds EXCEPT ![q] = [state |-> state, amount |-> amount, receipt |-> receipt]]
  BY <1>1 DEF CreateRefund
<1>3. refunds \in [RefundId -> [state : RefundStates, amount : 0..Amount, receipt : Unset..Amount]]
  BY DEF RefundInv, Facts, ProviderOK
<1>4. q = r /\ refunds'[r].amount = amount /\ receipt # Unset
  BY <1>2, <1>3
<1>5. amount > 0 /\ Sum(Live) + amount <= Amount /\ refundTarget # Unset /\ amount = refundTarget
  BY <1>4 DEF CreateRefund
<1>6. Live = {}
  BY <1>5, NoSecond
<1>7. processedRefundIds = {}
  BY <1>6 DEF PaidInv, PaidFacts, LedgerCountsOnce, RefundInv, Facts, LedgerOK, Live
<1>8. refunded = Min({Amount, 0})
  BY <1>7, SumOfNone DEF PaidInv, PaidFacts, LedgerCountsOnce
<1>9. refunded = 0
  <2>1. \A n \in {Amount, 0} : n \in Int /\ n >= 0
    BY RefundAssumption
  <2> QED
    BY <1>8, <2>1 DEF Min
<1> QED
  BY <1>4, <1>5, <1>9, RefundAssumption DEF TargetNow

\* Until staff refund by hand, the retained fee stays retained: what FeeIsRetained
\* denies begins with a dashboard refund and never without one.
THEOREM FeeRetainedByTheEngine == Spec => FeeIsRetainedByTheEngine
<1>1. ASSUME RefundInv, PaidInv, OnceInv, [Next]_vars PROVE FeeKept
  <2>1. ASSUME NEW c \in calls, NEW state \in {"pending", "processed"}, Request(c, state)
        PROVE  FeeKept
    <3>1. c \in Call /\ c.pc = "request"
      BY <1>1, <2>1, CallsAre DEF Request
    <3>2. PICK amount, receipt : amount \in Unset..Amount /\ amount = Asked(c) /\ receipt = c.receipt
      BY <3>1, AskedTyped, RefundAssumption DEF Unset
    <3>3. CreateRefund(amount, receipt, state)
      BY <2>1, <3>2 DEF Request
    <3>4. ~RefundedByHand => refundTarget # Unset /\ amount \in {0, refundTarget}
      BY <1>1, <3>1, <3>2 DEF OnceInv, OnceCall, Asked, Unset
    <3> QED
      BY <1>1, <3>2, <3>3, <3>4, CreateKeepsFee
  <2>2. ASSUME NEW q \in delayed, NEW state \in {"pending", "processed"}, Arrives(q, state)
        PROVE  FeeKept
    <3>1. q.amount \in 0..Amount
      BY <1>1 DEF RefundInv, Facts, ProviderOK
    <3>2. PICK amount, receipt : amount \in Unset..Amount /\ amount = q.amount /\ receipt = q.receipt
      BY <3>1, RefundAssumption DEF Unset
    <3>3. CreateRefund(amount, receipt, state)
      BY <2>2, <3>2 DEF Arrives
    <3>4. ~RefundedByHand => refundTarget # Unset /\ amount \in {0, refundTarget}
      BY <1>1, <3>2 DEF OnceInv, OnceFacts
    <3> QED
      BY <1>1, <3>2, <3>3, <3>4, CreateKeepsFee
  <2>3. ASSUME NEW a \in ManualAmounts, NEW state \in {"pending", "processed"}, RefundByHand(a, state)
        PROVE  FeeKept
    <3>1. PICK receipt : receipt = Unset
      OBVIOUS
    <3>2. CreateRefund(a, receipt, state) /\ a \in Unset..Amount
      BY <2>3, <3>1, RefundAssumption DEF RefundByHand, Unset
    <3> QED
      BY <1>1, <3>1, <3>2, CreateKeepsFee
  <2>4. ASSUME NEW r \in RefundId, NEW state \in {"processed", "failed"}, RefundSettles(r, state)
        PROVE  FeeKept
    <3>1. refunds \in [RefundId -> [state : RefundStates, amount : 0..Amount, receipt : Unset..Amount]]
      BY <1>1 DEF RefundInv, Facts, ProviderOK
    <3> QED
      BY <2>4, <3>1 DEF RefundSettles, FeeKept
  <2>5. ASSUME UNCHANGED refunds PROVE FeeKept
    BY <2>5 DEF FeeKept
  <2>6. ASSUME NEW c \in calls, AskInVain(c) \/ Step(c) \/ Known(c) \/ Crash(c) PROVE UNCHANGED refunds
    BY <2>6 DEF AskInVain, ProviderError, NotFound, RequestFails, Known, Crash, Step, QueueCancelled,
       Keep, Drop, Claim, GiveUp, Record, Note, CountOnPayment, UpdateOrder, SettlePaid, Remainder,
       Mention, CountOnIntent, SettleReleased, Requeue, Sync, providerVars
  <2>7. ASSUME NEW c \in calls, NEW r \in RefundId, Found(c, r) PROVE UNCHANGED refunds
    BY <2>7 DEF Found, providerVars
  <2>8. ASSUME \/ \E t \in Targets : Cancel(t)
               \/ \E w \in Worker : Initiate(w) \/ Unfulfillable(w) \/ SweepRefund(w) \/ SweepHeldRefund(w)
               \/ \E w \in Worker, e \in events : Deliver(w, e)
               \/ ThirtySecondsPass
               \/ UNCHANGED vars
        PROVE  UNCHANGED refunds
    BY <2>8 DEF Cancel, Initiate, Unfulfillable, SweepRefund, SweepHeldRefund, Deliver, ThirtySecondsPass,
       vars, providerVars
  <2> QED
    BY <1>1, <2>1, <2>2, <2>3, <2>4, <2>5, <2>6, <2>7, <2>8 DEF Next, Handle, Ask
<1>2. RefundInv /\ PaidInv /\ OnceInv /\ [Next]_vars => [FeeKept]_vars
  BY <1>1
<1> QED
  BY <1>2, RefundInvariant, PaidInvariant, OnceInvariant, PTL DEF Spec, FeeIsRetainedByTheEngine

\* A refund that is done is taken up again by refundIntentPayment recording what
\* the provider answered before it was, and by nothing else.
Reopens == status = "refunded" /\ status' # "refunded"
ReopenedByLateAnswer ==
    [][Reopens => \E c \in calls : Keep(c) \/ Drop(c) \/ Record(c)]_vars

LEMMA QueueStaysRefunded ==
    ASSUME RefundInv, NEW target \in 0..Amount, target <= TargetNow, QueueRefund(target)
    PROVE  ~Reopens
<1>1. TargetNow \in Int /\ refunded \in Int /\ target \in Int
  BY TargetTyped, RefundAssumption DEF RefundInv, Facts, LedgerOK
<1>2. status = "refunded" => refunded >= TargetNow
  BY DEF RefundInv, Facts, RefundedIsPaidOut
<1> QED
  BY <1>1, <1>2 DEF Reopens, QueueRefund, Owing

LEMMA LateAnswersReopen ==
    ASSUME RefundInv, [Next]_vars, Reopens
    PROVE  \E c \in calls : Keep(c) \/ Drop(c) \/ Record(c)
<1>1. Facts /\ status # status'
  BY DEF RefundInv, Reopens
<1>2. ASSUME NEW t \in Targets, Cancel(t) PROVE FALSE
  <2>1. t \in 0..Amount /\ t <= TargetNow
    BY <1>1, <1>2, RefundAssumption DEF Cancel, Facts, TargetIsDecided, TargetNow
  <2> QED
    BY <1>1, <1>2, <2>1, QueueStaysRefunded DEF Cancel
<1>3. ASSUME NEW c \in calls, QueueCancelled(c) PROVE FALSE
  <2>1. ordered /\ cancelTarget \in 0..Amount
    BY <1>1, <1>3, CallsAre, RefundAssumption DEF QueueCancelled, CallTrue, Facts, OrderOK, Unset
  <2>2. cancelTarget <= TargetNow
    BY <1>1, <2>1, RefundAssumption DEF Facts, TargetIsDecided, TargetNow
  <2> QED
    BY <1>3, <2>1, <2>2, QueueStaysRefunded DEF QueueCancelled
<1>4. ASSUME NEW c \in calls, Requeue(c) PROVE FALSE
  <2>1. Amount \in 0..Amount /\ Amount <= TargetNow
    BY <1>1, <1>4, CallsAre, WholeIsTarget DEF Requeue, CallTrue
  <2> QED
    BY <1>4, <2>1, QueueStaysRefunded DEF Requeue
<1>5. ASSUME NEW w \in Worker, Unfulfillable(w) PROVE FALSE
  BY <1>5 DEF Unfulfillable, Reopens, Refunding
<1>6. ASSUME NEW w \in Worker, Initiate(w) \/ SweepRefund(w) \/ SweepHeldRefund(w) PROVE FALSE
  BY <1>1, <1>6 DEF Initiate, SweepRefund, SweepHeldRefund, intentVars
<1>7. ASSUME NEW c \in calls, Handle(c) \/ Crash(c)
      PROVE  Keep(c) \/ Drop(c) \/ Record(c)
  <2>1. ~Ask(c) /\ ~AskInVain(c) /\ ~Crash(c)
    BY <1>1 DEF Ask, Known, Found, Request, AskInVain, ProviderError, NotFound, RequestFails, Crash,
       intentVars
  <2>2. ~Claim(c) /\ ~GiveUp(c) /\ ~Note(c) /\ ~Remainder(c)
    BY <1>1 DEF Reopens, Claim, Claimable, GiveUp, Note, Remainder
  <2>3. ~CountOnPayment(c) /\ ~UpdateOrder(c) /\ ~Mention(c) /\ ~CountOnIntent(c) /\ ~Sync(c)
    BY <1>1 DEF CountOnPayment, UpdateOrder, Mention, CountOnIntent, Sync, intentVars
  <2>4. ~SettlePaid(c) /\ ~SettleReleased(c)
    BY DEF Reopens, SettlePaid, SettleReleased
  <2> QED
    BY <1>3, <1>4, <1>7, <2>1, <2>2, <2>3, <2>4 DEF Handle, Step
<1>8. ~UNCHANGED vars /\ ~ThirtySecondsPass
  BY <1>1 DEF vars, intentVars, ThirtySecondsPass
<1>9. (\A w \in Worker, e \in events : ~Deliver(w, e))
      /\ (\A r \in RefundId, s \in {"processed", "failed"} : ~RefundSettles(r, s))
      /\ (\A a \in ManualAmounts, s \in {"pending", "processed"} : ~RefundByHand(a, s))
      /\ (\A q \in delayed, s \in {"pending", "processed"} : ~Arrives(q, s))
  BY <1>1 DEF Deliver, RefundSettles, RefundByHand, Arrives, intentVars
<1> QED
  BY <1>2, <1>5, <1>6, <1>7, <1>8, <1>9 DEF Next

\* No queueing, claim, event or retry takes up a refund that is done.
THEOREM OnlyLateAnswersReopen == Spec => ReopenedByLateAnswer
<1>1. RefundInv /\ [Next]_vars =>
        [Reopens => \E c \in calls : Keep(c) \/ Drop(c) \/ Record(c)]_vars
  BY LateAnswersReopen
<1> QED
  BY <1>1, RefundInvariant, PTL DEF Spec, ReopenedByLateAnswer

\* A refund job with nothing left to ask for: no sweep can finish it.
Stuck == status \in Refunding /\ refundAmount = 0
StuckByLateAnswer ==
    [][~Stuck /\ Stuck' => status = "refunded" /\ \E c \in calls : Keep(c) \/ Drop(c) \/ Record(c)]_vars

\* Only what is refunded, or refunded again, has nothing left; and a call that will
\* ask for the remainder has seen one.
RestIsLeft ==
    /\ refundAmount = 0 => status \in {"refunded"} \union Refunding
    /\ \A c \in calls : c.pc = "remainder" => c.total < Amount

LEMMA GoneTo ==
    ASSUME NEW c \in Call, NEW pc, Go(c, pc), NEW d \in calls' \ calls
    PROVE  d.pc = pc /\ d.total = c.total
<1>1. d = [c EXCEPT !.pc = pc]
  BY DEF Go, Continue
<1> QED
  BY <1>1 DEF Call

\* A call comes to the remainder from an update of the order, below the target.
LEMMA RemainderFollows ==
    ASSUME RefundInv, NEW c \in calls, Handle(c), NEW d \in calls' \ calls, d.pc = "remainder"
    PROVE  d.total < Amount
<1>1. c \in Call /\ ~(calls' \subseteq calls)
  BY CallsAre
<1>2. CASE UpdateOrder(c)
  <2>1. c.total \in Int /\ TargetNow \in Int /\ TargetNow <= Amount /\ Amount \in Int
    BY <1>1, TargetTyped, RefundAssumption DEF RefundInv, Facts, Call
  <2>2. PICK pc : /\ pc = CASE c.total >= TargetNow -> "settle"
                            [] c.total < TargetNow /\ status \in Refunding -> "remainder"
                            [] OTHER -> "mention"
                  /\ Go(c, pc)
    BY <1>2 DEF UpdateOrder
  <2>3. pc = "remainder" /\ d.total = c.total
    BY <1>1, <2>2, GoneTo
  <2>4. ~(c.total >= TargetNow)
    BY <2>1, <2>2, <2>3
  <2> QED
    BY <2>1, <2>3, <2>4
<1>3. ASSUME NEW pc, Go(c, pc) PROVE pc = "remainder"
  BY <1>1, <1>3, GoneTo
<1>4. ~Drop(c) /\ ~Note(c) /\ ~SettlePaid(c) /\ ~Remainder(c) /\ ~Mention(c) /\ ~RequestFails(c, TRUE)
      /\ ~RequestFails(c, FALSE)
  BY <1>3 DEF Drop, Note, SettlePaid, Remainder, Mention, RequestFails
<1>5. ~NotFound(c)
  BY <1>3 DEF NotFound
<1>6. ~Record(c)
  BY <1>3 DEF Record
<1>7. ~CountOnIntent(c)
  BY <1>1, <1>3 DEF CountOnIntent, Return
<1>8. ASSUME NEW e, Continue(c, e) PROVE d = e
  BY <1>8 DEF Continue
<1>9. ~CountOnPayment(c)
  <2>1. PICK n : n = refunded'
    OBVIOUS
  <2>2. ASSUME CountOnPayment(c) PROVE d = [c EXCEPT !.pc = "order", !.got = "processed", !.total = n]
    BY <1>8, <2>1, <2>2 DEF CountOnPayment
  <2> QED
    BY <1>1, <2>2 DEF Call
<1>10. ~GiveUp(c)
  <2>1. PICK id : id = IF c.id = "none" THEN "receipt" ELSE c.id
    OBVIOUS
  <2>2. ASSUME GiveUp(c) PROVE d = [c EXCEPT !.pc = "sync", !.got = "failed", !.id = id]
    BY <1>8, <2>1, <2>2 DEF GiveUp
  <2> QED
    BY <1>1, <2>2 DEF Call
<1>11. ~Claim(c)
  <2>1. PICK id, a, b : /\ id = refundId /\ a = refundAmount
                        /\ b = IF refundReceipt = Unset THEN Max({refundAmount, 0}) ELSE refundReceipt
    OBVIOUS
  <2>2. ASSUME Claim(c)
        PROVE  d = [c EXCEPT !.pc = "lookup", !.id = id, !.got = "none", !.amount = a, !.receipt = b]
    BY <1>1, <1>8, <2>1, <2>2 DEF Claim, Return
  <2> QED
    BY <1>1, <2>2 DEF Call
<1>12. ~Known(c)
  <2>1. PICK s, pc : /\ s = refunds[c.id].state
                     /\ pc = CASE s = "processed" -> "ledger" [] s = "pending" -> "keep" [] OTHER -> "drop"
    OBVIOUS
  <2>2. ASSUME Known(c) PROVE d = [c EXCEPT !.got = s, !.pc = pc]
    BY <1>8, <2>1, <2>2 DEF Known
  <2> QED
    BY <1>1, <2>1, <2>2 DEF Call
<1>13. \A r \in RefundId : ~Found(c, r)
  <2> SUFFICES ASSUME NEW r \in RefundId, Found(c, r) PROVE FALSE
    OBVIOUS
  <2>1. PICK s : s = refunds[r].state
    OBVIOUS
  <2>2. d = [c EXCEPT !.pc = "record", !.id = r, !.got = s]
    BY <1>8, <2>1 DEF Found
  <2> QED
    BY <1>1, <2>2 DEF Call
<1>14. \A s \in {"pending", "processed"} : ~Request(c, s)
  <2> SUFFICES ASSUME NEW s \in {"pending", "processed"}, Request(c, s) PROVE FALSE
    OBVIOUS
  <2>1. PICK r : r = NewRefund
    OBVIOUS
  <2>2. d = [c EXCEPT !.pc = "record", !.id = r, !.got = s]
    BY <1>8, <2>1 DEF Request
  <2> QED
    BY <1>1, <2>2 DEF Call
<1>15. ~QueueCancelled(c)
  <2>1. PICK w, id, receipt : w = c.worker /\ id = refundId' /\ receipt = refundReceipt'
    OBVIOUS
  <2>2. ASSUME QueueCancelled(c) PROVE d = EngineCall(w, id, receipt)
    BY <1>1, <1>8, <2>1, <2>2 DEF QueueCancelled, Return
  <2> QED
    BY <2>2, EngineIsPlain DEF PlainPcs
<1>16. ~ProviderError(c) /\ ~Keep(c) /\ ~SettleReleased(c) /\ ~Requeue(c) /\ ~Sync(c)
  BY <1>1 DEF ProviderError, Keep, SettleReleased, Requeue, Sync, Return
<1> QED
  BY <1>2, <1>4, <1>5, <1>6, <1>7, <1>9, <1>10, <1>11, <1>12, <1>13, <1>14, <1>15, <1>16
  DEF Handle, Ask, AskInVain, Step

\* How a step may leave nothing to ask for.
AmountMoves ==
    refundAmount' = 0 =>
        /\ refundAmount = 0 \/ status' = "refunded"
        /\ status' \in {"refunded"} \union Refunding

LEMMA AmountKept ==
    ASSUME RestIsLeft, UNCHANGED refundAmount, status' \in {status, "refunded"} \union Refunding
    PROVE  AmountMoves
BY DEF AmountMoves, RestIsLeft

LEMMA QueuedAmount ==
    ASSUME NEW target, QueueRefund(target)
    PROVE  AmountMoves
BY DEF AmountMoves, QueueRefund, Refunding

LEMMA HandlersMoveAmount ==
    ASSUME RefundInv, RestIsLeft, NEW c \in calls, Handle(c)
    PROVE  AmountMoves
<1>1. CASE Ask(c) \/ AskInVain(c)
  BY <1>1, AmountKept DEF Ask, Known, Found, Request, AskInVain, ProviderError, NotFound, RequestFails,
     intentVars
<1>2. CASE Keep(c) \/ Drop(c) \/ Claim(c) \/ GiveUp(c) \/ Record(c) \/ Note(c) \/ SettleReleased(c)
  BY <1>2, AmountKept DEF Keep, Drop, Claim, GiveUp, Record, Note, SettleReleased, Refunding
<1>3. CASE CountOnPayment(c) \/ UpdateOrder(c) \/ Mention(c) \/ CountOnIntent(c) \/ Sync(c)
  BY <1>3, AmountKept DEF CountOnPayment, UpdateOrder, Mention, CountOnIntent, Sync, intentVars
<1>4. CASE QueueCancelled(c) \/ Requeue(c)
  <2>1. PICK target : QueueRefund(target)
    BY <1>4 DEF QueueCancelled, Requeue
  <2> QED
    BY <2>1, QueuedAmount
<1>5. CASE SettlePaid(c)
  BY <1>5 DEF SettlePaid, AmountMoves
<1>6. CASE Remainder(c)
  <2>1. c.total \in Int /\ c.total < Amount /\ Amount \in Int
    BY <1>6, CallsAre, RefundAssumption DEF Remainder, RestIsLeft, Call
  <2>2. CASE status # "refunded"
    BY <1>6, <2>1, <2>2 DEF Remainder, AmountMoves
  <2>3. CASE status = "refunded"
    BY <1>6, <2>3, AmountKept DEF Remainder
  <2> QED
    BY <2>2, <2>3
<1> QED
  BY <1>1, <1>2, <1>3, <1>4, <1>5, <1>6 DEF Handle, Step

LEMMA StepsMoveAmount ==
    ASSUME RefundInv, RestIsLeft, [Next]_vars
    PROVE  AmountMoves
<1>1. ASSUME NEW t \in Targets, Cancel(t) PROVE AmountMoves
  BY <1>1, QueuedAmount, AmountKept DEF Cancel
<1>2. ASSUME NEW w \in Worker, Unfulfillable(w) PROVE AmountMoves
  <2>1. PICK target : QueueRefund(target)
    BY <1>2 DEF Unfulfillable
  <2> QED
    BY <2>1, QueuedAmount
<1>3. ASSUME NEW w \in Worker, Initiate(w) \/ SweepRefund(w) \/ SweepHeldRefund(w) PROVE AmountMoves
  BY <1>3, AmountKept DEF Initiate, SweepRefund, SweepHeldRefund, intentVars
<1>4. ASSUME NEW w \in Worker, NEW e \in events, Deliver(w, e) PROVE AmountMoves
  BY <1>4, AmountKept DEF Deliver, intentVars
<1>5. ASSUME NEW c \in calls, Crash(c) PROVE AmountMoves
  BY <1>5, AmountKept DEF Crash, intentVars
<1>6. ASSUME NEW r \in RefundId, NEW s \in {"processed", "failed"}, RefundSettles(r, s) PROVE AmountMoves
  BY <1>6, AmountKept DEF RefundSettles, intentVars
<1>7. ASSUME NEW a \in ManualAmounts, NEW s \in {"pending", "processed"}, RefundByHand(a, s)
      PROVE  AmountMoves
  BY <1>7, AmountKept DEF RefundByHand, intentVars
<1>8. ASSUME NEW q \in delayed, NEW s \in {"pending", "processed"}, Arrives(q, s) PROVE AmountMoves
  BY <1>8, AmountKept DEF Arrives, intentVars
<1>9. CASE ThirtySecondsPass \/ UNCHANGED vars
  BY <1>9, AmountKept DEF ThirtySecondsPass, vars, intentVars
<1> QED
  BY <1>1, <1>2, <1>3, <1>4, <1>5, <1>6, <1>7, <1>8, <1>9, HandlersMoveAmount DEF Next

LEMMA RestStaysLeft ==
    ASSUME RefundInv, RestIsLeft, [Next]_vars
    PROVE  RestIsLeft'
<1>1. \A d \in calls' \ calls : d.pc = "remainder" => d.total < Amount
  <2> SUFFICES ASSUME NEW d \in calls' \ calls, d.pc = "remainder" PROVE d.total < Amount
    OBVIOUS
  <2>1. d.pc \notin PlainPcs /\ calls' # calls
    BY DEF PlainPcs
  <2>2. \A w \in Worker : ~Unfulfillable(w) /\ ~SweepRefund(w) /\ ~SweepHeldRefund(w)
    BY <2>1, EntersPlainly DEF Unfulfillable, SweepRefund, SweepHeldRefund
  <2>3. \A w \in Worker : ~Initiate(w)
    <3> SUFFICES ASSUME NEW w \in Worker, Initiate(w) PROVE FALSE
      OBVIOUS
    <3>1. CASE Begin(EngineCall(w, refundId, refundReceipt))
      BY <2>1, <3>1, EntersPlainly
    <3>2. CASE Begin([Blank(w) EXCEPT !.pc = "queue"])
      BY <3>2 DEF Begin, Blank
    <3> QED
      BY <3>1, <3>2 DEF Initiate
  <2>4. \A w \in Worker, e \in events : ~Deliver(w, e)
    <3> SUFFICES ASSUME NEW w \in Worker, NEW e \in events, Deliver(w, e) PROVE FALSE
      OBVIOUS
    <3>1. PICK pc \in {"ledger", "note"} : pc = IF e.status = "processed" THEN "ledger" ELSE "note"
      OBVIOUS
    <3>2. d = [Blank(w) EXCEPT !.from = "event", !.id = e.id, !.got = e.status, !.pc = pc]
      BY <3>1 DEF Deliver, Begin
    <3> QED
      BY <3>2 DEF Blank
  <2>5. ~(\E t \in Targets : Cancel(t)) /\ ~(\E c \in calls : Crash(c)) /\ ~ThirtySecondsPass
        /\ ~UNCHANGED vars
    BY <2>1 DEF Cancel, Crash, ThirtySecondsPass, vars
  <2>6. (\A r \in RefundId, s \in {"processed", "failed"} : ~RefundSettles(r, s))
        /\ (\A a \in ManualAmounts, s \in {"pending", "processed"} : ~RefundByHand(a, s))
        /\ (\A q \in delayed, s \in {"pending", "processed"} : ~Arrives(q, s))
    BY <2>1 DEF RefundSettles, RefundByHand, Arrives
  <2>7. PICK c \in calls : Handle(c)
    BY <2>2, <2>3, <2>4, <2>5, <2>6 DEF Next
  <2> QED
    BY <2>7, RemainderFollows
<1> QED
  BY <1>1, StepsMoveAmount DEF RestIsLeft, AmountMoves

\* What RefundJobsCanFinish denies begins with one of these three updates of a refund
\* that is done: whatever else races, fails or dies, a job has something left to ask.
THEOREM OnlyLateAnswersStick == Spec => StuckByLateAnswer
<1>1. Init => RestIsLeft
  BY RefundAssumption DEF Init, RestIsLeft, Unset
<1>2. ASSUME RefundInv, RestIsLeft, [Next]_vars, ~Stuck, Stuck'
      PROVE  status = "refunded" /\ \E c \in calls : Keep(c) \/ Drop(c) \/ Record(c)
  <2>1. status' \in Refunding /\ refundAmount = 0
    BY <1>2, StepsMoveAmount DEF Stuck, AmountMoves, Refunding
  <2>2. status = "refunded" /\ Reopens
    BY <1>2, <2>1 DEF Stuck, RestIsLeft, Reopens, Refunding
  <2> QED
    BY <1>2, <2>2, LateAnswersReopen
<1>3. RefundInv /\ RestIsLeft /\ [Next]_vars =>
        [~Stuck /\ Stuck' => status = "refunded" /\ \E c \in calls : Keep(c) \/ Drop(c) \/ Record(c)]_vars
  BY <1>2
<1> QED
  BY <1>1, <1>3, RestStaysLeft, RefundInvariant, PTL DEF Spec, StuckByLateAnswer
=============================================================================
