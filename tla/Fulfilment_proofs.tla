------------------------- MODULE Fulfilment_proofs --------------------------
(***************************************************************************)
(* For any orders, invoices, staff and credit notes: what a cancelled      *)
(* order sold goes back once, the numbers of a series have no gap, the     *)
(* notes of an invoice never take back more than it charged, a cancelled   *)
(* order is credited to the last paisa, and a sealed month is complete but *)
(* for what was under way.                                                 *)
(***************************************************************************)
EXTENDS GstFilings, FiniteSetTheorems, TLAPS

-----------------------------------------------------------------------------
(* Stock goes back once *)

OrderRecord ==
    [status : Status, method : {"cod", "razorpay"}, pay : {"pending", "paid", "refund_pending"},
     shape : InvoiceShapes \union {NoShape}, restored : BOOLEAN, returned : {0, 1},
     cancelledOn : Nat, legacy : BOOLEAN]

\* An update under way never cancels, and an order that was cancelled once is
\* known to have given its stock back, whatever its status says now.
ReturnInv ==
    /\ order \in [Order -> OrderRecord]
    /\ today \in Nat
    /\ \A u \in updates : u.to \in Status \ {"cancelled"}
    /\ StockReturnedOnce

LEMMA StatusIs == Status = {"placed", "confirmed", "packed", "out_for_delivery", "delivered", "cancelled"}
BY DEF Status, AllowedTransitions

\* The transactions under way: two never place the same order, which does not
\* exist yet, and a cancellation read an order that does.
TransactionsInv ==
    /\ today \in 1..LastDay
    /\ \A t \in placements :
          /\ t.order \in Order /\ t.method \in {"cod", "razorpay"} /\ t.shape \in InvoiceShapes
          /\ t.day \in 1..LastDay /\ ~Exists(t.order)
          /\ \A u \in placements : u.order = t.order => u = t
    /\ \A t \in cancellations :
          t.order \in Handled /\ t.day \in 1..LastDay /\ t.read.shape # NoShape

\* What the commit of a transaction does, by its order and its day.
PlacedAs(o, method, shape, day) ==
    /\ ~Exists(o)
    /\ order' = [order EXCEPT ![o].shape = shape, ![o].method = method,
                              ![o].pay = IF method = "razorpay" THEN "paid" ELSE "pending"]
    /\ IssueInvoice(o, shape.class, shape.lines, day)
    /\ UNCHANGED <<updates, cancellations, notes, lock, today>>
    /\ \E t \in placements : t.order = o /\ t.day = day /\ placements' = placements \ {t}

CancelNote(o, day) ==
    [kind |-> "CREDIT_NOTE", class |-> "CREDIT_NOTE", order |-> o, day |-> day,
     event |-> <<"cancel", o>>, sequence |-> counter[<<"CREDIT_NOTE", day>>] + 1,
     lines |-> CreditLines(Original(o), CreditsOf(o), Remainder(Original(o), CreditsOf(o)))]
WithNote(o, day) ==
    /\ FinancialYear(Original(o).day) = FinancialYear(day)
    /\ DOMAIN Remainder(Original(o), CreditsOf(o)) # {}

CancelledAs(o, day) ==
    /\ Exists(o) /\ order' = Cancelled(o, day)
    /\ \/ /\ WithNote(o, day)
          /\ documents' = documents \union {Original(o), CancelNote(o, day)}
          /\ counter' = [counter EXCEPT ![<<"CREDIT_NOTE", day>>] = @ + 1]
          /\ lock' = [lock EXCEPT ![o] = @ + 1]
       \/ /\ ~WithNote(o, day)
          /\ documents' = documents \union {Original(o)} /\ counter' = counter /\ lock' = lock
    /\ UNCHANGED <<updates, placements, notes, today>>
    /\ \E t \in cancellations : t.order = o /\ t.day = day /\ cancellations' = cancellations \ {t}

LEMMA Placing ==
    ASSUME TransactionsInv, NEW t \in placements, PlaceOrder(t)
    PROVE  \E o \in Order, method \in {"cod", "razorpay"}, shape \in InvoiceShapes, day \in 1..LastDay :
              PlacedAs(o, method, shape, day)
<1>1. PICK o \in Order, method \in {"cod", "razorpay"}, shape \in InvoiceShapes, day \in 1..LastDay :
        o = t.order /\ method = t.method /\ shape = t.shape /\ day = t.day
  BY DEF TransactionsInv
<1>2. ~Exists(o)
  BY <1>1 DEF TransactionsInv
<1>3. PlacedAs(o, method, shape, day)
  BY <1>1, <1>2 DEF PlaceOrder, PlacedAs
<1> QED
  BY <1>3

LEMMA Cancelling ==
    ASSUME TransactionsInv, NEW t \in cancellations, CancelOrder(t)
    PROVE  \E o \in Handled, day \in 1..LastDay : CancelledAs(o, day)
<1>1. PICK o \in Handled, day \in 1..LastDay : o = t.order /\ day = t.day
  BY DEF TransactionsInv
<1>2. Exists(o)
  BY <1>1 DEF TransactionsInv, CancelOrder, Exists
<1>3. order' = Cancelled(o, day) /\ UNCHANGED <<updates, placements, notes, today>>
      /\ cancellations' = cancellations \ {t}
  BY <1>1 DEF CancelOrder
<1>4. \/ /\ WithNote(o, day)
         /\ documents' = documents \union {Original(o), CancelNote(o, day)}
         /\ counter' = [counter EXCEPT ![<<"CREDIT_NOTE", day>>] = @ + 1]
         /\ lock' = [lock EXCEPT ![o] = @ + 1]
      \/ /\ ~WithNote(o, day)
         /\ documents' = documents \union {Original(o)} /\ counter' = counter /\ lock' = lock
  BY <1>1 DEF CancelOrder, RecordCancellation, WithNote, CancelNote
<1>5. CancelledAs(o, day)
  BY <1>1, <1>2, <1>3, <1>4 DEF CancelledAs
<1> QED
  BY <1>5

LEMMA ReturnInit == FulfilmentInit => ReturnInv
<1> SUFFICES ASSUME FulfilmentInit PROVE ReturnInv
  OBVIOUS
<1>1. PICK legacy \in SUBSET Handled, shape \in InvoiceShapes :
          order = [o \in Order |->
                     IF o \in legacy
                     THEN [Unplaced EXCEPT !.shape = shape, !.legacy = TRUE] ELSE Unplaced]
  BY DEF FulfilmentInit
<1>2. /\ Unplaced \in OrderRecord
      /\ [Unplaced EXCEPT !.shape = shape, !.legacy = TRUE] \in OrderRecord
  BY StatusIs DEF Unplaced, OrderRecord
<1>3. order \in [Order -> OrderRecord]
  BY <1>1, <1>2
<1>4. \A o \in Order : order[o].status = "placed" /\ order[o].returned = 0 /\ order[o].restored = FALSE
  BY <1>1 DEF Unplaced
<1> QED
  BY <1>3, <1>4 DEF FulfilmentInit, TaxInit, ReturnInv, StockReturnedOnce

\* Steps that leave the orders alone, or change only how they are paid and billed.
LEMMA OrdersKept ==
    ASSUME ReturnInv, UNCHANGED order, updates' \subseteq updates, today' \in Nat
    PROVE  ReturnInv'
BY DEF ReturnInv, StockReturnedOnce

ReturnedOnce(r) ==
    /\ r.returned <= 1
    /\ r.status = "cancelled" => r.returned = 1
    /\ r.restored <=> r.returned = 1

LEMMA OrdersReturnedOnce == ReturnInv => \A o \in Order : order[o] \in OrderRecord /\ ReturnedOnce(order[o])
BY DEF ReturnInv, StockReturnedOnce, ReturnedOnce

\* One order changes.
LEMMA OneOrder ==
    ASSUME ReturnInv, NEW o, NEW r, order' = [order EXCEPT ![o] = r],
           o \in Order => r \in OrderRecord /\ ReturnedOnce(r),
           updates' \subseteq updates, UNCHANGED today
    PROVE  ReturnInv'
<1>1. /\ order' \in [Order -> OrderRecord]
      /\ \A p \in Order : order'[p] = order[p] \/ (order'[p] = r /\ o \in Order)
  BY DEF ReturnInv
<1>2. \A p \in Order : ReturnedOnce(order'[p])
  BY <1>1, OrdersReturnedOnce
<1> QED
  BY <1>1, <1>2 DEF ReturnInv, StockReturnedOnce, ReturnedOnce

LEMMA PlaceReturns ==
    ASSUME ReturnInv, NEW o \in Order, NEW method \in {"cod", "razorpay"}, NEW shape \in InvoiceShapes,
           NEW day, PlacedAs(o, method, shape, day)
    PROVE  ReturnInv'
<1> DEFINE r == [order[o] EXCEPT !.shape = shape, !.method = method,
                                 !.pay = IF method = "razorpay" THEN "paid" ELSE "pending"]
<1>1. order' = [order EXCEPT ![o] = r]
  BY DEF PlacedAs
<1>2. order[o] \in OrderRecord /\ ReturnedOnce(order[o])
  BY OrdersReturnedOnce
<1>3. r \in OrderRecord /\ ReturnedOnce(r)
  BY <1>2 DEF OrderRecord, ReturnedOnce
<1> HIDE DEF r
<1> QED
  BY <1>1, <1>3, OneOrder DEF PlacedAs

LEMMA SaveReturns ==
    ASSUME ReturnInv, NEW u \in updates, SaveOrder(u)
    PROVE  ReturnInv'
<1> DEFINE r == [order[u.order] EXCEPT !.status = u.to]
<1>1. order' = [order EXCEPT ![u.order] = r]
  BY DEF SaveOrder
<1>2. ASSUME u.order \in Order PROVE r \in OrderRecord /\ ReturnedOnce(r)
  <2>1. order[u.order] \in OrderRecord /\ ReturnedOnce(order[u.order])
    BY <1>2, OrdersReturnedOnce
  <2>2. u.to \in Status /\ u.to # "cancelled"
    BY DEF ReturnInv
  <2> QED
    BY <2>1, <2>2 DEF OrderRecord, ReturnedOnce
<1> HIDE DEF r
<1> QED
  BY <1>1, <1>2, OneOrder DEF SaveOrder, taxVars

LEMMA DeliverReturns ==
    ASSUME ReturnInv, NEW o, VerifyDelivery(o)
    PROVE  ReturnInv'
<1> DEFINE r == [order[o] EXCEPT !.status = "delivered",
                                 !.pay = IF order[o].method = "cod" THEN "paid" ELSE @]
<1>1. order' = [order EXCEPT ![o] = r]
  BY DEF VerifyDelivery
<1>2. ASSUME o \in Order PROVE r \in OrderRecord /\ ReturnedOnce(r)
  <2>1. order[o] \in OrderRecord /\ ReturnedOnce(order[o])
    BY <1>2, OrdersReturnedOnce
  <2> QED
    BY <2>1, StatusIs DEF OrderRecord, ReturnedOnce
<1> HIDE DEF r
<1> QED
  BY <1>1, <1>2, OneOrder DEF VerifyDelivery, taxVars

\* A cancellation gives back what was not given back before.
LEMMA CancelReturns ==
    ASSUME ReturnInv, NEW o, NEW day \in 1..LastDay, CancelledAs(o, day)
    PROVE  ReturnInv'
<1> DEFINE r == [order[o] EXCEPT !.status = "cancelled", !.pay = PayAfterCancel(o), !.restored = TRUE,
                                 !.returned = IF order[o].restored THEN @ ELSE @ + 1,
                                 !.cancelledOn = day]
<1>1. order' = [order EXCEPT ![o] = r]
  BY DEF CancelledAs, Cancelled
<1>2. ASSUME o \in Order PROVE r \in OrderRecord /\ ReturnedOnce(r)
  <2>1. order[o] \in OrderRecord /\ ReturnedOnce(order[o])
    BY <1>2, OrdersReturnedOnce
  <2>2. PayAfterCancel(o) \in {"pending", "paid", "refund_pending"} /\ day \in Nat
    BY <2>1 DEF PayAfterCancel, OrderRecord
  <2>3. r.returned = 1
    BY <2>1 DEF OrderRecord, ReturnedOnce
  <2>4. r \in OrderRecord
    <3>1. r = [order[o] EXCEPT !.status = "cancelled", !.pay = PayAfterCancel(o), !.restored = TRUE,
                               !.returned = 1, !.cancelledOn = day]
      BY <2>1, <2>3 DEF OrderRecord
    <3> QED
      BY <3>1, <2>1, <2>2, StatusIs DEF OrderRecord
  <2>5. r.status = "cancelled" /\ r.restored = TRUE
    BY <2>1 DEF OrderRecord
  <2> QED
    BY <2>3, <2>4, <2>5 DEF ReturnedOnce
<1> HIDE DEF r
<1> QED
  BY <1>1, <1>2, OneOrder DEF CancelledAs

LEMMA ReturnStep == ReturnInv /\ TransactionsInv /\ [FulfilmentNext]_fulfilmentVars => ReturnInv'
<1> SUFFICES ASSUME ReturnInv, TransactionsInv, [FulfilmentNext]_fulfilmentVars PROVE ReturnInv'
  OBVIOUS
<1>1. CASE UNCHANGED fulfilmentVars
  BY <1>1, OrdersKept DEF fulfilmentVars, ReturnInv
<1>2. ASSUME NEW s \in Staff, NEW o \in Handled, NEW to \in Status, ReadOrder(s, o, to)
      PROVE  ReturnInv'
  BY <1>2 DEF ReadOrder, taxVars, ReturnInv, StockReturnedOnce
<1>3. ASSUME NEW o \in Order, ImportLegacyInvoice(o) PROVE ReturnInv'
  BY <1>3, OrdersKept DEF ImportLegacyInvoice, ReturnInv
<1>4. ASSUME NEW o \in Order, NEW key \in NoteKey, NEW selection \in Selections,
             NEW gst \in BOOLEAN, BeginCreditNote(key, o, selection, gst)
      PROVE  ReturnInv'
  BY <1>4, OrdersKept DEF BeginCreditNote, taxVars, ReturnInv
<1>5. ASSUME NEW n \in notes, CommitCreditNote(n) \/ AbortCreditNote(n) PROVE ReturnInv'
  BY <1>5, OrdersKept DEF CommitCreditNote, AbortCreditNote, taxVars, ReturnInv
<1>6. CASE DayPasses
  BY <1>6, OrdersKept DEF DayPasses, ReturnInv
<1>7. ASSUME NEW o \in Order, NEW method, NEW shape, DateInvoice(o, method, shape) PROVE ReturnInv'
  BY <1>7, OrdersKept DEF DateInvoice, taxVars, ReturnInv
<1>8. ASSUME NEW o \in Handled, NEW byCustomer, BeginCancel(o, byCustomer) PROVE ReturnInv'
  BY <1>8, OrdersKept DEF BeginCancel, taxVars, ReturnInv
<1>9. ASSUME NEW t, AbortPlacement(t) \/ AbortCancellation(t) PROVE ReturnInv'
  BY <1>9, OrdersKept DEF AbortPlacement, AbortCancellation, taxVars, ReturnInv
<1>10. ASSUME NEW t \in placements, PlaceOrder(t) PROVE ReturnInv'
  BY <1>10, Placing, PlaceReturns
<1>11. ASSUME NEW t \in cancellations, CancelOrder(t) PROVE ReturnInv'
  BY <1>11, Cancelling, CancelReturns
<1> QED
  BY <1>1, <1>2, <1>3, <1>4, <1>5, <1>6, <1>7, <1>8, <1>9, <1>10, <1>11, SaveReturns, DeliverReturns
  DEF FulfilmentNext

LEMMA TransactionsInit == FulfilmentInit => TransactionsInv
BY TaxAssumption DEF FulfilmentInit, TaxInit, TransactionsInv

\* Transactions end, and no order comes to exist.
LEMMA TransactionsKept ==
    ASSUME TransactionsInv, placements' \subseteq placements, cancellations' \subseteq cancellations,
           today' \in 1..LastDay, \A o \in Order : order'[o].shape = order[o].shape
    PROVE  TransactionsInv'
BY DEF TransactionsInv, Exists

LEMMA TransactionBegins ==
    ASSUME TransactionsInv, NEW o \in Order,
           \/ \E method \in Method(o), shape \in InvoiceShapes : DateInvoice(o, method, shape)
           \/ o \in Handled /\ \E byCustomer \in BOOLEAN : BeginCancel(o, byCustomer)
    PROVE  TransactionsInv'
<1>1. UNCHANGED <<order, today>>
  BY DEF DateInvoice, BeginCancel, taxVars
<1>2. ASSUME NEW method \in Method(o), NEW shape \in InvoiceShapes, DateInvoice(o, method, shape)
      PROVE  TransactionsInv'
  <2>1. PICK t : t = [order |-> o, method |-> method, shape |-> shape, day |-> today,
                      sequence |-> counter[<<shape.class, today>>]]
    OBVIOUS
  <2>2. /\ t.order = o /\ t.method \in {"cod", "razorpay"} /\ t.shape = shape /\ t.day = today
        /\ placements' = placements \union {t} /\ cancellations' = cancellations
        /\ ~Exists(o) /\ \A u \in placements : u.order # o
    BY <1>2, <2>1 DEF DateInvoice, Method
  <2> QED
    BY <1>1, <2>2 DEF TransactionsInv, Exists
<1>3. ASSUME o \in Handled, NEW byCustomer \in BOOLEAN, BeginCancel(o, byCustomer)
      PROVE  TransactionsInv'
  <2>1. PICK t : t = [order |-> o, read |-> order[o], imports |-> InvoiceOf(o) = {}, day |-> today,
                      lock |-> lock[o], sequence |-> counter[<<"CREDIT_NOTE", today>>]]
    OBVIOUS
  <2>2. /\ t.order = o /\ t.read = order[o] /\ t.day = today
        /\ cancellations' = cancellations \union {t} /\ placements' = placements
        /\ Exists(o)
    BY <1>3, <2>1 DEF BeginCancel
  <2> QED
    BY <1>1, <1>3, <2>2 DEF TransactionsInv, Exists
<1> QED
  BY <1>2, <1>3

LEMMA TransactionsStep ==
    ReturnInv /\ TransactionsInv /\ [FulfilmentNext]_fulfilmentVars => TransactionsInv'
<1> SUFFICES ASSUME ReturnInv, TransactionsInv, [FulfilmentNext]_fulfilmentVars PROVE TransactionsInv'
  OBVIOUS
<1>0. order \in [Order -> OrderRecord] /\ Handled \subseteq Order /\ today \in 1..LastDay
  BY FulfilmentAssumption DEF ReturnInv, TransactionsInv
<1>1. CASE UNCHANGED fulfilmentVars
  BY <1>0, <1>1, TransactionsKept DEF fulfilmentVars
<1>2. ASSUME NEW o, VerifyDelivery(o) PROVE TransactionsInv'
  <2>1. \A p \in Order : order'[p].shape = order[p].shape
    BY <1>0, <1>2 DEF VerifyDelivery, OrderRecord
  <2> QED
    BY <1>0, <1>2, <2>1, TransactionsKept DEF VerifyDelivery, transactionVars, taxVars
<1>3. ASSUME NEW u \in updates, SaveOrder(u) PROVE TransactionsInv'
  <2>1. \A p \in Order : order'[p].shape = order[p].shape
    BY <1>0, <1>3 DEF SaveOrder, OrderRecord
  <2> QED
    BY <1>0, <1>3, <2>1, TransactionsKept DEF SaveOrder, transactionVars, taxVars
<1>4. ASSUME NEW t \in cancellations, CancelOrder(t) PROVE TransactionsInv'
  <2>1. PICK o \in Handled, day \in 1..LastDay : CancelledAs(o, day)
    BY <1>4, Cancelling
  <2>2. \A p \in Order : order'[p].shape = order[p].shape
    BY <1>0, <2>1 DEF CancelledAs, Cancelled, OrderRecord
  <2> QED
    BY <1>0, <2>1, <2>2, TransactionsKept DEF CancelledAs
<1>5. ASSUME NEW t \in placements, PlaceOrder(t) PROVE TransactionsInv'
  <2>1. PICK o \in Order : o = t.order
    BY <1>5 DEF TransactionsInv
  <2>2. /\ placements' = placements \ {t} /\ UNCHANGED <<cancellations, today>>
        /\ \A p \in Order : p # o => order'[p] = order[p]
    BY <1>0, <1>5, <2>1 DEF PlaceOrder
  <2>3. \A u \in placements' : u.order \in Order /\ u.order # o
    BY <2>1, <2>2 DEF TransactionsInv
  <2> QED
    BY <2>2, <2>3 DEF TransactionsInv, Exists
<1>6. ASSUME NEW s, NEW o, NEW to, ReadOrder(s, o, to) PROVE TransactionsInv'
  BY <1>0, <1>6, TransactionsKept DEF ReadOrder, transactionVars, taxVars
<1>7. ASSUME NEW o, ImportLegacyInvoice(o) PROVE TransactionsInv'
  BY <1>0, <1>7, TransactionsKept DEF ImportLegacyInvoice, transactionVars
<1>8. ASSUME NEW o, NEW key, NEW selection, NEW gst, BeginCreditNote(key, o, selection, gst)
      PROVE  TransactionsInv'
  BY <1>0, <1>8, TransactionsKept DEF BeginCreditNote, taxVars
<1>9. ASSUME NEW t, AbortPlacement(t) \/ AbortCancellation(t) \/ CommitCreditNote(t) \/ AbortCreditNote(t)
      PROVE  TransactionsInv'
  BY <1>0, <1>9, TransactionsKept DEF AbortPlacement, AbortCancellation, CommitCreditNote,
     AbortCreditNote, taxVars
<1>10. CASE DayPasses
  <2>1. today' \in 1..LastDay
    BY <1>0, <1>10, TaxAssumption DEF DayPasses
  <2> QED
    BY <1>10, <2>1, TransactionsKept DEF DayPasses, transactionVars
<1> QED
  BY <1>0, <1>1, <1>2, <1>3, <1>4, <1>5, <1>6, <1>7, <1>8, <1>9, <1>10, TransactionBegins
  DEF FulfilmentNext

\* Stock and slot of a cancelled order go back exactly once.
THEOREM StockIsReturnedOnce == FulfilmentSpec => []StockReturnedOnce
<1>1. ReturnInv => StockReturnedOnce
  BY DEF ReturnInv
<1> QED
  BY <1>1, ReturnInit, ReturnStep, TransactionsInit, TransactionsStep, PTL DEF FulfilmentSpec

-----------------------------------------------------------------------------
(* What a save over a cancellation does *)

\* updateOrderStatus is about to save the next step of an order's delivery.
UpdatesAdvance == \A u \in updates : u.to \in {"confirmed", "packed", "out_for_delivery"}

LEMMA UpdatesStep == ReturnInv /\ UpdatesAdvance /\ [FulfilmentNext]_fulfilmentVars => UpdatesAdvance'
<1> SUFFICES ASSUME ReturnInv, UpdatesAdvance, [FulfilmentNext]_fulfilmentVars PROVE UpdatesAdvance'
  OBVIOUS
<1>1. ASSUME NEW s \in Staff, NEW o \in Handled, NEW to \in Status, ReadOrder(s, o, to)
      PROVE  UpdatesAdvance'
  <2> DEFINE from == order[o].status
  <2>1. from \in Status /\ to \in AllowedTransitions[from] /\ to \notin {"cancelled", "delivered"}
    BY <1>1, FulfilmentAssumption DEF ReadOrder, CanTransition, ReturnInv, OrderRecord
  <2> HIDE DEF from
  <2>2. to \in {"confirmed", "packed", "out_for_delivery"}
    BY <2>1, StatusIs DEF AllowedTransitions
  <2> QED
    BY <1>1, <2>2 DEF ReadOrder, UpdatesAdvance
<1>2. ASSUME updates' \subseteq updates PROVE UpdatesAdvance'
  BY <1>2 DEF UpdatesAdvance
<1> QED
  BY <1>1, <1>2 DEF FulfilmentNext, fulfilmentVars, VerifyDelivery, DateInvoice, BeginCancel,
     CancelOrder, ImportLegacyInvoice, PlaceOrder, BeginCreditNote, SaveOrder, CommitCreditNote,
     AbortPlacement, AbortCancellation, AbortCreditNote, DayPasses

\* A cancelled order comes back by one thing only: updateOrderStatus saving what it
\* decided on before.  It comes back as an order under way, never as delivered; its
\* stock stays given back, its payment on its way back, and its day of cancellation.
Revives(o) == order[o].status = "cancelled" /\ order'[o].status # "cancelled"
StaleSave(o) ==
    /\ \E u \in updates : u.order = o /\ SaveOrder(u)
    /\ order'[o].status \in {"confirmed", "packed", "out_for_delivery"}
    /\ order'[o].restored /\ order'[o].returned = 1
    /\ order'[o].pay = order[o].pay /\ order'[o].cancelledOn = order[o].cancelledOn
RevivedByStaleSave == [][\A o \in Order : Revives(o) => StaleSave(o)]_fulfilmentVars

\* What CancelledStaysCancelled denies is the save of a status update, and nothing
\* else does it.
THEOREM OnlySavesRevive == FulfilmentSpec => RevivedByStaleSave
<1>1. ASSUME ReturnInv, TransactionsInv, UpdatesAdvance, [FulfilmentNext]_fulfilmentVars,
             NEW o \in Order, Revives(o)
      PROVE  StaleSave(o)
  <2>1. order \in [Order -> OrderRecord] /\ order[o].restored = TRUE /\ order[o].returned = 1
    BY <1>1, OrdersReturnedOnce DEF Revives, ReturnInv, ReturnedOnce, OrderRecord
  <2>2. order' # order
    BY <1>1 DEF Revives
  <2>3. ASSUME NEW t \in placements, PlaceOrder(t)
        PROVE  FALSE
    BY <1>1, <2>1, <2>3 DEF Revives, PlaceOrder, OrderRecord
  <2>4. ASSUME NEW p \in Handled, VerifyDelivery(p)
        PROVE  FALSE
    BY <1>1, <2>1, <2>4 DEF Revives, VerifyDelivery, OrderRecord
  <2>5. ASSUME NEW t \in cancellations, CancelOrder(t)
        PROVE  FALSE
    BY <1>1, <2>1, <2>5 DEF Revives, CancelOrder, Cancelled, OrderRecord
  <2>6. PICK u \in updates : SaveOrder(u)
    BY <1>1, <2>2, <2>3, <2>4, <2>5 DEF FulfilmentNext, fulfilmentVars, ReadOrder, ImportLegacyInvoice,
       DateInvoice, BeginCancel, BeginCreditNote, CommitCreditNote, AbortPlacement, AbortCancellation,
       AbortCreditNote, DayPasses
  <2>7. u.order = o
    BY <1>1, <2>1, <2>6 DEF Revives, SaveOrder
  <2>8. order'[o] = [order[o] EXCEPT !.status = u.to]
    BY <2>1, <2>6, <2>7 DEF SaveOrder
  <2> QED
    BY <1>1, <2>1, <2>6, <2>7, <2>8 DEF StaleSave, OrderRecord, UpdatesAdvance
<1>2. FulfilmentInit => UpdatesAdvance
  BY DEF FulfilmentInit, UpdatesAdvance
<1>3. ReturnInv /\ TransactionsInv /\ UpdatesAdvance /\ [FulfilmentNext]_fulfilmentVars =>
        [\A o \in Order : Revives(o) => StaleSave(o)]_fulfilmentVars
  BY <1>1
<1> QED
  BY <1>2, <1>3, ReturnInit, ReturnStep, TransactionsInit, TransactionsStep, UpdatesStep, PTL DEF FulfilmentSpec, RevivedByStaleSave

-----------------------------------------------------------------------------
(* Gapless series *)

Issued(docs, s) == {d \in docs : <<d.class, d.day>> = s /\ d.sequence > 0}
Gapless(docs, numbers, s) ==
    /\ IsFiniteSet(Issued(docs, s))
    /\ {d.sequence : d \in Issued(docs, s)} = 1..numbers[s]
    /\ Cardinality(Issued(docs, s)) = numbers[s]

SeriesInv ==
    /\ counter \in [Series -> Nat]
    /\ \A s \in Series : Gapless(documents, counter, s)

LEMMA CountersCount ==
    ASSUME NEW numbers \in [Series -> Nat], NEW t
    PROVE  [numbers EXCEPT ![t] = @ + 1] \in [Series -> Nat]
<1> DEFINE next == [numbers EXCEPT ![t] = @ + 1]
<1>1. ASSUME NEW s \in Series PROVE next[s] \in Nat
  <2>1. CASE s = t
    BY <2>1
  <2>2. CASE s # t
    BY <2>2
  <2> QED
    BY <2>1, <2>2
<1>2. next = [s \in Series |-> next[s]]
  BY Zenon
<1> HIDE DEF next
<1>3. next \in [Series -> Nat]
  BY <1>1, <1>2
<1> QED
  BY <1>3 DEF next

\* The next document of its series joins.
LEMMA NextNumber ==
    ASSUME NEW docs, NEW numbers \in [Series -> Nat], NEW d, NEW s \in Series,
           Gapless(docs, numbers, s), d.sequence = numbers[<<d.class, d.day>>] + 1
    PROVE  Gapless(docs \union {d}, [numbers EXCEPT ![<<d.class, d.day>>] = @ + 1], s)
<1> DEFINE t == <<d.class, d.day>>
           I == Issued(docs, s)
           J == Issued(docs \union {d}, s)
           next == [numbers EXCEPT ![t] = @ + 1]
<1>1. numbers[s] \in Nat
  OBVIOUS
<1>2. CASE s = t
  <2>1. d.sequence = numbers[s] + 1 /\ next[s] = numbers[s] + 1
    BY <1>2
  <2>2. d \notin I
    BY <2>1, <1>1 DEF Gapless
  <2>3. J = I \union {d}
    BY <2>1, <1>1, <1>2 DEF Issued
  <2>4. IsFiniteSet(J) /\ Cardinality(J) = Cardinality(I) + 1
    <3>1. IsFiniteSet(I)
      BY DEF Gapless
    <3> HIDE DEF I, J
    <3> QED
      BY <3>1, <2>2, <2>3, FS_AddElement
  <2>5. {e.sequence : e \in J} = 1..next[s]
    <3>1. {e.sequence : e \in I} = 1..numbers[s]
      BY DEF Gapless
    <3>2. next[s] = numbers[s] + 1
      BY <2>1
    <3> HIDE DEF I, J, next
    <3>3. {e.sequence : e \in J} = {e.sequence : e \in I} \union {d.sequence}
      BY <2>3
    <3>4. 1..next[s] = (1..numbers[s]) \union {numbers[s] + 1}
      BY <3>2, <1>1
    <3> QED
      BY <3>1, <3>3, <3>4, <2>1
  <2> QED
    BY <2>1, <2>4, <2>5 DEF Gapless
<1>3. CASE s # t
  <2>1. next[s] = numbers[s]
    BY <1>3
  <2>2. J = I
    BY <1>3 DEF Issued
  <2> QED
    BY <2>1, <2>2 DEF Gapless
<1> QED
  BY <1>2, <1>3

\* A document without a number of the series joins, or one that is there.
LEMMA NoNumber ==
    ASSUME NEW docs, NEW numbers, NEW d, NEW s, Gapless(docs, numbers, s),
           d \in docs \/ d.sequence = 0
    PROVE  Gapless(docs \union {d}, numbers, s)
<1>1. Issued(docs \union {d}, s) = Issued(docs, s)
  BY DEF Issued
<1> QED
  BY <1>1 DEF Gapless

LEMMA OriginalHasNoNumber ==
    ASSUME NEW o
    PROVE  Original(o) \in documents \/ Original(o).sequence = 0
<1>1. CASE InvoiceOf(o) # {}
  <2>1. Original(o) \in InvoiceOf(o)
    BY <1>1 DEF Original
  <2> QED
    BY <2>1 DEF InvoiceOf
<1>2. CASE InvoiceOf(o) = {}
  BY <1>2 DEF Original, Legacy
<1> QED
  BY <1>1, <1>2

LEMMA SeriesInit == FulfilmentInit => SeriesInv
<1> SUFFICES ASSUME FulfilmentInit PROVE SeriesInv
  OBVIOUS
<1>1. documents = {} /\ counter = [s \in Series |-> 0]
  BY DEF FulfilmentInit, TaxInit
<1>2. ASSUME NEW s \in Series PROVE Gapless(documents, counter, s)
  <2>1. Issued(documents, s) = {} /\ counter[s] = 0
    BY <1>1 DEF Issued
  <2>2. IsFiniteSet({}) /\ Cardinality({}) = 0
    BY FS_EmptySet
  <2>3. {d.sequence : d \in {}} = 1..0
    OBVIOUS
  <2> QED
    BY <2>1, <2>2, <2>3 DEF Gapless
<1> QED
  BY <1>1, <1>2 DEF SeriesInv

LEMMA SeriesKept ==
    ASSUME SeriesInv, UNCHANGED <<documents, counter>>
    PROVE  SeriesInv'
BY DEF SeriesInv, Gapless, Issued

\* insertDocument, and the commit of a credit note.
LEMMA Numbered ==
    ASSUME SeriesInv, NEW d, d.sequence = counter[<<d.class, d.day>>] + 1,
           documents' = documents \union {d},
           counter' = [counter EXCEPT ![<<d.class, d.day>>] = @ + 1]
    PROVE  SeriesInv'
<1>1. counter' \in [Series -> Nat]
  BY CountersCount DEF SeriesInv
<1>2. ASSUME NEW s \in Series PROVE Gapless(documents', counter', s)
  BY NextNumber DEF SeriesInv
<1>3. \A s \in Series : Gapless(documents, counter, s)'
  BY <1>2 DEF Gapless, Issued
<1> QED
  BY <1>1, <1>3 DEF SeriesInv

LEMMA PlaceNumbers ==
    ASSUME SeriesInv, NEW o, NEW method, NEW shape, NEW day,
           PlacedAs(o, method, shape, day)
    PROVE  SeriesInv'
<1> DEFINE d == [kind |-> "INVOICE", class |-> shape.class, order |-> o, day |-> day,
                 event |-> <<"invoice", o>>, sequence |-> counter[<<shape.class, day>>] + 1,
                 lines |-> shape.lines]
<1>1. /\ documents' = documents \union {d}
      /\ counter' = [counter EXCEPT ![<<shape.class, day>>] = @ + 1]
  BY DEF PlacedAs, IssueInvoice, Insert
<1>2. d.class = shape.class /\ d.day = day /\ d.sequence = counter[<<shape.class, day>>] + 1
  OBVIOUS
<1> HIDE DEF d
<1> QED
  BY <1>1, <1>2, Numbered

LEMMA CommitNumbers ==
    ASSUME SeriesInv, NEW n, CommitCreditNote(n)
    PROVE  SeriesInv'
<1> DEFINE d == [kind |-> "CREDIT_NOTE", class |-> n.class, order |-> n.order, day |-> n.day,
                 event |-> <<"credit", n.order, n.key>>, sequence |-> n.sequence + 1,
                 lines |-> n.lines]
<1>1. /\ documents' = documents \union {d}
      /\ counter' = [counter EXCEPT ![<<n.class, n.day>>] = @ + 1]
      /\ counter[<<n.class, n.day>>] = n.sequence
  BY DEF CommitCreditNote, NoConflict
<1>2. d.class = n.class /\ d.day = n.day /\ d.sequence = n.sequence + 1
  OBVIOUS
<1> HIDE DEF d
<1> QED
  BY <1>1, <1>2, Numbered

\* The invoice a cancellation imports has no number of a series, its note has.
LEMMA CancelNumbers ==
    ASSUME SeriesInv, NEW o, NEW day, CancelledAs(o, day)
    PROVE  SeriesInv'
<1> DEFINE i == Original(o)
           c == CancelNote(o, day)
           docs == documents \union {i}
<1>1. \/ /\ documents' = documents \union {i, c}
         /\ counter' = [counter EXCEPT ![<<"CREDIT_NOTE", day>>] = @ + 1]
      \/ documents' = docs /\ counter' = counter
  BY DEF CancelledAs
<1>2. c.class = "CREDIT_NOTE" /\ c.day = day /\ c.sequence = counter[<<"CREDIT_NOTE", day>>] + 1
  BY DEF CancelNote
<1> HIDE DEF i, c
<1>3. \A s \in Series : Gapless(docs, counter, s)
  BY OriginalHasNoNumber, NoNumber DEF SeriesInv, i
<1>4. CASE documents' = docs /\ counter' = counter
  <2>1. \A s \in Series : Gapless(documents, counter, s)'
    BY <1>3, <1>4 DEF Gapless, Issued
  <2> QED
    BY <2>1, <1>4 DEF SeriesInv
<1>5. CASE /\ documents' = documents \union {i, c}
           /\ counter' = [counter EXCEPT ![<<"CREDIT_NOTE", day>>] = @ + 1]
  <2>1. documents' = docs \union {c}
    BY <1>5
  <2>2. counter' = [counter EXCEPT ![<<c.class, c.day>>] = @ + 1]
    BY <1>5, <1>2
  <2>3. counter \in [Series -> Nat] /\ counter' \in [Series -> Nat]
    BY <2>2, CountersCount DEF SeriesInv
  <2>4. c.sequence = counter[<<c.class, c.day>>] + 1
    BY <1>2
  <2> HIDE DEF docs
  <2>5. ASSUME NEW s \in Series PROVE Gapless(documents', counter', s)
    <3>1. Gapless(docs \union {c}, [counter EXCEPT ![<<c.class, c.day>>] = @ + 1], s)
      BY <1>3, <2>3, <2>4, NextNumber
    <3> QED
      BY <3>1, <2>1, <2>2
  <2>6. \A s \in Series : Gapless(documents, counter, s)'
    BY <2>5 DEF Gapless, Issued
  <2> QED
    BY <2>3, <2>6 DEF SeriesInv
<1> QED
  BY <1>1, <1>4, <1>5

LEMMA ImportNumbers ==
    ASSUME SeriesInv, NEW o, ImportLegacyInvoice(o)
    PROVE  SeriesInv'
<1> DEFINE i == Original(o)
           docs == documents \union {i}
<1>1. documents' = docs /\ counter' = counter
  BY DEF ImportLegacyInvoice
<1> HIDE DEF i
<1>2. \A s \in Series : Gapless(docs, counter, s)
  BY OriginalHasNoNumber, NoNumber DEF SeriesInv, i
<1>3. \A s \in Series : Gapless(documents, counter, s)'
  BY <1>1, <1>2 DEF Gapless, Issued
<1> QED
  BY <1>1, <1>3 DEF SeriesInv

LEMMA SeriesStep == TransactionsInv /\ SeriesInv /\ [FulfilmentNext]_fulfilmentVars => SeriesInv'
<1> SUFFICES ASSUME TransactionsInv, SeriesInv, [FulfilmentNext]_fulfilmentVars PROVE SeriesInv'
  OBVIOUS
<1>1. CASE UNCHANGED fulfilmentVars
  BY <1>1, SeriesKept DEF fulfilmentVars
<1>2. ASSUME NEW o, VerifyDelivery(o) PROVE SeriesInv'
  BY <1>2, SeriesKept DEF VerifyDelivery, transactionVars, taxVars
<1>3. ASSUME NEW s \in Staff, NEW o \in Handled, NEW to \in Status, ReadOrder(s, o, to)
      PROVE  SeriesInv'
  BY <1>3, SeriesKept DEF ReadOrder, taxVars
<1>4. ASSUME NEW u \in updates, SaveOrder(u) PROVE SeriesInv'
  BY <1>4, SeriesKept DEF SaveOrder, taxVars
<1>5. ASSUME NEW o \in Order, NEW key \in NoteKey, NEW selection \in Selections,
             NEW gst \in BOOLEAN, BeginCreditNote(key, o, selection, gst)
      PROVE  SeriesInv'
  BY <1>5, SeriesKept DEF BeginCreditNote, taxVars
<1>6. ASSUME NEW n \in notes, AbortCreditNote(n) PROVE SeriesInv'
  BY <1>6, SeriesKept DEF AbortCreditNote, taxVars
<1>7. CASE DayPasses
  BY <1>7, SeriesKept DEF DayPasses
<1>8. ASSUME NEW o, NEW method, NEW shape, DateInvoice(o, method, shape) PROVE SeriesInv'
  BY <1>8, SeriesKept DEF DateInvoice, taxVars
<1>9. ASSUME NEW o, NEW byCustomer, BeginCancel(o, byCustomer) PROVE SeriesInv'
  BY <1>9, SeriesKept DEF BeginCancel, taxVars
<1>10. ASSUME NEW t, AbortPlacement(t) \/ AbortCancellation(t) PROVE SeriesInv'
  BY <1>10, SeriesKept DEF AbortPlacement, AbortCancellation, taxVars
<1>11. ASSUME NEW t \in placements, PlaceOrder(t) PROVE SeriesInv'
  BY <1>11, Placing, PlaceNumbers
<1>12. ASSUME NEW t \in cancellations, CancelOrder(t) PROVE SeriesInv'
  BY <1>12, Cancelling, CancelNumbers
<1> QED
  BY <1>1, <1>2, <1>3, <1>4, <1>5, <1>6, <1>7, <1>8, <1>9, <1>10, <1>11, <1>12, CommitNumbers,
     ImportNumbers
  DEF FulfilmentNext

\* The numbers of a series run from one without a gap or a repetition.
THEOREM SeriesHaveNoGap == FulfilmentSpec => []SeriesGapless
<1>1. SeriesInv => SeriesGapless
  BY DEF SeriesInv, Gapless, Issued, SeriesGapless
<1> QED
  BY <1>1, ReturnInit, ReturnStep, TransactionsInit, TransactionsStep, SeriesInit, SeriesStep, PTL
  DEF FulfilmentSpec

-----------------------------------------------------------------------------
(* Credit notes *)

Fields == {"lineTotal", "quantity", "tax", "cgst"}

Charged(line) ==
    /\ \A field \in Fields : line[field] \in Nat
    /\ line.cgst <= line.tax /\ line.tax <= line.lineTotal

\* The notes of an invoice leave of each line what can still be credited.
Balanced(original, credits) ==
    /\ \A i \in DOMAIN original.lines :
          /\ Charged(original.lines[i])
          /\ \A field \in Fields : IsFiniteSet(Units(credits, i, field))
          /\ Left(original, credits, i, "lineTotal") >= 0
          /\ Left(original, credits, i, "quantity") >= 0
          /\ Left(original, credits, i, "cgst") >= 0
          /\ Left(original, credits, i, "tax") >= Left(original, credits, i, "cgst")
          /\ Left(original, credits, i, "lineTotal") = 0 =>
                Left(original, credits, i, "tax") = 0 /\ Left(original, credits, i, "cgst") = 0
    /\ \A note \in credits : \A i \in DOMAIN note.lines : \A field \in Fields :
          note.lines[i][field] \in Nat

\* The lines of a note that fits what the notes before it left.
Fits(original, credits, lines) ==
    \A i \in DOMAIN lines :
        /\ i \in DOMAIN original.lines
        /\ \A field \in Fields : lines[i][field] \in Nat
        /\ lines[i].lineTotal <= Left(original, credits, i, "lineTotal")
        /\ lines[i].quantity <= Left(original, credits, i, "quantity")
        /\ lines[i].cgst <= Left(original, credits, i, "cgst")
        /\ lines[i].tax - lines[i].cgst <=
              Left(original, credits, i, "tax") - Left(original, credits, i, "cgst")
        /\ lines[i].lineTotal = Left(original, credits, i, "lineTotal") =>
              /\ lines[i].tax = Left(original, credits, i, "tax")
              /\ lines[i].cgst = Left(original, credits, i, "cgst")

Invoices(docs, o) == {d \in docs : d.order = o /\ d.kind = "INVOICE"}
Credits(docs, o) == {d \in docs : d.order = o /\ d.kind = "CREDIT_NOTE"}

Bill(docs, r, o) ==
    /\ \A d \in Invoices(docs, o) : d.lines = r.shape.lines /\ Balanced(d, Credits(docs, o))
    /\ \A d, e \in Invoices(docs, o) : d = e
    /\ Credits(docs, o) # {} => Invoices(docs, o) # {}
    /\ r.shape \in InvoiceShapes \union {NoShape}
    /\ r.shape = NoShape => Invoices(docs, o) = {} /\ r.cancelledOn = 0
    /\ r.shape # NoShape /\ Invoices(docs, o) = {} => r.legacy
    /\ r.legacy => r.shape # NoShape
    /\ r.cancelledOn > 0 =>
          \E d \in Invoices(docs, o) :
              FinancialYear(d.day) = FinancialYear(r.cancelledOn) =>
                  \A i \in DOMAIN d.lines : Left(d, Credits(docs, o), i, "lineTotal") = 0

\* A note whose lock still holds fits what is in the ledger.
StillFits(docs, locks, n) ==
    /\ n.order \in Order /\ n.lock \in Nat /\ n.lock <= locks[n.order]
    /\ Invoices(docs, n.order) # {}
    /\ n.lock = locks[n.order] =>
          \A d \in Invoices(docs, n.order) : Fits(d, Credits(docs, n.order), n.lines)

BillsInv ==
    /\ lock \in [Order -> Nat]
    /\ \A d \in documents : d.order \in Order /\ d.kind \in {"INVOICE", "CREDIT_NOTE"}
    /\ \A o \in Order : Bill(documents, order[o], o)
    /\ \A n \in notes : StillFits(documents, lock, n)

\* The transactions that dated their document in the month are among those that
\* were under way at its seal.
DatedKnown(filing) ==
    /\ \A t \in placements : t.day = filing.period => <<"invoice", t.order>> \in filing.underWay
    /\ \A t \in cancellations : t.day = filing.period => <<"cancel", t.order>> \in filing.underWay
    /\ \A n \in notes : n.day = filing.period => <<"credit", n.order, n.key>> \in filing.underWay

FilingInv ==
    /\ \A filing \in filings :
          /\ filing.period \in Nat /\ filing.period < today
          /\ filing.period = 1 =>
                \A o \in Order : order[o].legacy => InvoiceOf(o) # {}
          /\ DatedKnown(filing)
    /\ FilingIsComplete

LEMMA FieldsAre == Fields = {"lineTotal", "quantity", "tax", "cgst"}
BY DEF Fields

\* A note joins the notes of an invoice: its units are counted once more.
Adds(a, b, c) == a \in Nat /\ b \in Nat /\ c \in Nat /\ c = a + b

LEMMA PairsCount ==
    ASSUME NEW d, NEW k \in Nat
    PROVE  IsFiniteSet({d} \X (1..k)) /\ Cardinality({d} \X (1..k)) = k
<1>1. IsFiniteSet(1..k) /\ Cardinality(1..k) = k
  BY FS_Interval
<1>2. IsFiniteSet({d}) /\ Cardinality({d}) = 1
  BY FS_Singleton
<1>3. IsFiniteSet({d} \X (1..k)) /\ Cardinality({d} \X (1..k)) = 1 * k
  BY <1>1, <1>2, FS_Product
<1> QED
  BY <1>3

LEMMA UsedGrows ==
    ASSUME NEW credits, NEW d, NEW i, NEW field,
           IsFiniteSet(Units(credits, i, field)), d \notin credits,
           i \in DOMAIN d.lines, d.lines[i][field] \in Nat
    PROVE  /\ IsFiniteSet(Units(credits \union {d}, i, field))
           /\ Adds(Used(credits, i, field), d.lines[i][field], Used(credits \union {d}, i, field))
<1> DEFINE old == Units(credits, i, field)
           new == {d} \X (1..d.lines[i][field])
<1>1. Units(credits \union {d}, i, field) = old \union new
  <2>1. {e \in credits \union {d} : i \in DOMAIN e.lines} = {e \in credits : i \in DOMAIN e.lines} \union {d}
    OBVIOUS
  <2> QED
    BY <2>1 DEF Units
<1>2. old \cap new = {}
  BY DEF Units
<1>3. IsFiniteSet(new) /\ Cardinality(new) = d.lines[i][field]
  BY PairsCount
<1> HIDE DEF old, new
<1>4. IsFiniteSet(old)
  BY DEF old
<1>5. Cardinality(old \cap new) = 0
  BY <1>2, FS_EmptySet
<1>6. /\ IsFiniteSet(old \union new)
      /\ Cardinality(old \union new) = Cardinality(old) + Cardinality(new) - Cardinality(old \cap new)
  BY <1>3, <1>4, FS_Union
<1>7. Cardinality(old) \in Nat
  BY <1>4, FS_CardinalityType
<1>8. /\ IsFiniteSet(Units(credits \union {d}, i, field))
      /\ Used(credits \union {d}, i, field) = Cardinality(old \union new)
      /\ Cardinality(old \union new) \in Nat
  BY <1>1, <1>6, FS_CardinalityType DEF Used
<1>9. Used(credits, i, field) = Cardinality(old)
  BY DEF Used, old
<1>10. Cardinality(old \union new) = Cardinality(old) + d.lines[i][field]
  BY <1>3, <1>5, <1>6, <1>7
<1> QED
  BY <1>7, <1>8, <1>9, <1>10 DEF Adds

\* A note that has nothing of a line.
LEMMA UsedKept ==
    ASSUME NEW credits, NEW d, NEW i, NEW field, i \notin DOMAIN d.lines
    PROVE  /\ Units(credits \union {d}, i, field) = Units(credits, i, field)
           /\ Used(credits \union {d}, i, field) = Used(credits, i, field)
<1>1. {e \in credits \union {d} : i \in DOMAIN e.lines} = {e \in credits : i \in DOMAIN e.lines}
  OBVIOUS
<1> QED
  BY <1>1 DEF Units, Used

LEMMA UsedIsNat ==
    ASSUME NEW credits, NEW i, NEW field, IsFiniteSet(Units(credits, i, field))
    PROVE  Used(credits, i, field) \in Nat
BY FS_CardinalityType DEF Used

LEMMA NoneUsed ==
    ASSUME NEW i, NEW field
    PROVE  IsFiniteSet(Units({}, i, field)) /\ Used({}, i, field) = 0
<1>1. Units({}, i, field) = {}
  BY DEF Units
<1> QED
  BY <1>1, FS_EmptySet DEF Used

\* An invoice no note takes anything of.
LEMMA FreshBalance ==
    ASSUME NEW d, \A i \in DOMAIN d.lines : Charged(d.lines[i])
    PROVE  Balanced(d, {})
<1>1. ASSUME NEW i \in DOMAIN d.lines
      PROVE  \A field \in Fields : /\ IsFiniteSet(Units({}, i, field))
                                   /\ Left(d, {}, i, field) = d.lines[i][field]
  <2> SUFFICES ASSUME NEW field \in Fields
               PROVE  /\ IsFiniteSet(Units({}, i, field))
                      /\ Left(d, {}, i, field) = d.lines[i][field]
    OBVIOUS
  <2>1. d.lines[i][field] \in Nat
    BY DEF Charged
  <2> QED
    BY <2>1, NoneUsed DEF Left
<1>2. ASSUME NEW i \in DOMAIN d.lines
      PROVE  /\ d.lines[i]["lineTotal"] \in Nat /\ d.lines[i]["quantity"] \in Nat
             /\ d.lines[i]["tax"] \in Nat /\ d.lines[i]["cgst"] \in Nat
             /\ d.lines[i]["cgst"] <= d.lines[i]["tax"]
             /\ d.lines[i]["tax"] <= d.lines[i]["lineTotal"]
  BY FieldsAre DEF Charged
<1> QED
  BY <1>1, <1>2, FieldsAre DEF Balanced

\* A line with what is left of its fields.
LEMMA LeftIsInt ==
    ASSUME NEW original, NEW credits, Balanced(original, credits), NEW i \in DOMAIN original.lines
    PROVE  \A field \in Fields : /\ Left(original, credits, i, field) \in Int
                                 /\ original.lines[i][field] \in Nat
                                 /\ Used(credits, i, field) \in Nat
BY UsedIsNat DEF Balanced, Left, Charged

\* How the notes with one more, all, leave the amounts the notes before it left.
Takes(original, credits, all, lines) ==
    \A i \in DOMAIN original.lines :
        Left(original, all, i, "lineTotal") =
           IF i \in DOMAIN lines
           THEN Left(original, credits, i, "lineTotal") - lines[i]["lineTotal"]
           ELSE Left(original, credits, i, "lineTotal")

\* A note that fits leaves what can still be credited.
LEMMA NoteFits ==
    ASSUME NEW original, NEW credits, NEW d, Balanced(original, credits),
           Fits(original, credits, d.lines), d \notin credits
    PROVE  /\ Balanced(original, credits \union {d})
           /\ Takes(original, credits, credits \union {d}, d.lines)
<1> DEFINE all == credits \union {d}
<1>1. ASSUME NEW i \in DOMAIN original.lines, i \in DOMAIN d.lines
      PROVE  \A field \in Fields :
                /\ IsFiniteSet(Units(all, i, field))
                /\ Left(original, all, i, field) = Left(original, credits, i, field) - d.lines[i][field]
  <2> SUFFICES ASSUME NEW field \in Fields
               PROVE  /\ IsFiniteSet(Units(all, i, field))
                      /\ Left(original, all, i, field) = Left(original, credits, i, field) - d.lines[i][field]
    OBVIOUS
  <2>1. IsFiniteSet(Units(credits, i, field)) /\ d.lines[i][field] \in Nat
    BY <1>1 DEF Balanced, Fits
  <2>2. original.lines[i][field] \in Nat /\ Used(credits, i, field) \in Nat
    BY LeftIsInt
  <2>3. /\ IsFiniteSet(Units(credits \union {d}, i, field))
        /\ Adds(Used(credits, i, field), d.lines[i][field], Used(credits \union {d}, i, field))
    BY <1>1, <2>1, UsedGrows
  <2> QED
    BY <2>2, <2>3 DEF Left, Adds
<1>2. ASSUME NEW i \in DOMAIN original.lines, i \notin DOMAIN d.lines
      PROVE  \A field \in Fields :
                /\ Units(all, i, field) = Units(credits, i, field)
                /\ Left(original, all, i, field) = Left(original, credits, i, field)
  BY <1>2, UsedKept DEF Left
<1>3. \A note \in all : \A i \in DOMAIN note.lines : \A field \in Fields : note.lines[i][field] \in Nat
  BY DEF Balanced, Fits
<1> HIDE DEF all
<1>4. ASSUME NEW i \in DOMAIN original.lines
      PROVE  /\ Charged(original.lines[i])
             /\ \A field \in Fields : IsFiniteSet(Units(all, i, field))
             /\ Left(original, all, i, "lineTotal") >= 0
             /\ Left(original, all, i, "quantity") >= 0
             /\ Left(original, all, i, "cgst") >= 0
             /\ Left(original, all, i, "tax") >= Left(original, all, i, "cgst")
             /\ Left(original, all, i, "lineTotal") = 0 =>
                   Left(original, all, i, "tax") = 0 /\ Left(original, all, i, "cgst") = 0
  <2>1. Charged(original.lines[i])
    BY DEF Balanced
  <2>2. /\ Left(original, credits, i, "lineTotal") >= 0
        /\ Left(original, credits, i, "quantity") >= 0
        /\ Left(original, credits, i, "cgst") >= 0
        /\ Left(original, credits, i, "tax") >= Left(original, credits, i, "cgst")
        /\ Left(original, credits, i, "lineTotal") = 0 =>
              Left(original, credits, i, "tax") = 0 /\ Left(original, credits, i, "cgst") = 0
    BY DEF Balanced
  <2>3. /\ Left(original, credits, i, "lineTotal") \in Int /\ Left(original, credits, i, "quantity") \in Int
        /\ Left(original, credits, i, "tax") \in Int /\ Left(original, credits, i, "cgst") \in Int
    BY LeftIsInt, FieldsAre
  <2>4. CASE i \in DOMAIN d.lines
    <3>1. \A field \in Fields : IsFiniteSet(Units(all, i, field))
      BY <1>1, <2>4
    <3>2. /\ Left(original, all, i, "lineTotal") = Left(original, credits, i, "lineTotal") - d.lines[i]["lineTotal"]
          /\ Left(original, all, i, "quantity") = Left(original, credits, i, "quantity") - d.lines[i]["quantity"]
          /\ Left(original, all, i, "tax") = Left(original, credits, i, "tax") - d.lines[i]["tax"]
          /\ Left(original, all, i, "cgst") = Left(original, credits, i, "cgst") - d.lines[i]["cgst"]
      BY <1>1, <2>4, FieldsAre
    <3>3. /\ d.lines[i]["lineTotal"] \in Nat /\ d.lines[i]["quantity"] \in Nat
          /\ d.lines[i]["tax"] \in Nat /\ d.lines[i]["cgst"] \in Nat
      BY <2>4, FieldsAre DEF Fits
    <3>4. /\ d.lines[i]["lineTotal"] <= Left(original, credits, i, "lineTotal")
          /\ d.lines[i]["quantity"] <= Left(original, credits, i, "quantity")
          /\ d.lines[i]["cgst"] <= Left(original, credits, i, "cgst")
          /\ d.lines[i]["tax"] - d.lines[i]["cgst"] <=
                Left(original, credits, i, "tax") - Left(original, credits, i, "cgst")
          /\ d.lines[i]["lineTotal"] = Left(original, credits, i, "lineTotal") =>
                /\ d.lines[i]["tax"] = Left(original, credits, i, "tax")
                /\ d.lines[i]["cgst"] = Left(original, credits, i, "cgst")
      BY <2>4 DEF Fits
    <3>5. /\ Left(original, all, i, "lineTotal") >= 0
          /\ Left(original, all, i, "quantity") >= 0
          /\ Left(original, all, i, "cgst") >= 0
          /\ Left(original, all, i, "tax") >= Left(original, all, i, "cgst")
      BY <2>3, <3>2, <3>3, <3>4
    <3>6. ASSUME Left(original, all, i, "lineTotal") = 0
          PROVE  Left(original, all, i, "tax") = 0 /\ Left(original, all, i, "cgst") = 0
      <4>1. d.lines[i]["lineTotal"] = Left(original, credits, i, "lineTotal")
        <5>1. PICK a \in Int, b \in Int :
                 a = Left(original, credits, i, "lineTotal") /\ b = d.lines[i]["lineTotal"]
          BY <2>3, <3>3
        <5>2. a - b = 0
          BY <3>2, <3>6, <5>1
        <5> QED
          BY <5>1, <5>2
      <4> QED
        BY <2>3, <3>2, <3>3, <3>4, <4>1
    <3> QED
      BY <2>1, <3>1, <3>5, <3>6
  <2>5. CASE i \notin DOMAIN d.lines
    <3>1. \A field \in Fields : IsFiniteSet(Units(all, i, field))
      BY <1>2, <2>5 DEF Balanced
    <3>2. /\ Left(original, all, i, "lineTotal") = Left(original, credits, i, "lineTotal")
          /\ Left(original, all, i, "quantity") = Left(original, credits, i, "quantity")
          /\ Left(original, all, i, "tax") = Left(original, credits, i, "tax")
          /\ Left(original, all, i, "cgst") = Left(original, credits, i, "cgst")
      BY <1>2, <2>5, FieldsAre
    <3> QED
      BY <2>1, <2>2, <2>3, <3>1, <3>2
  <2> QED
    BY <2>4, <2>5
<1>5. Balanced(original, all)
  BY <1>3, <1>4 DEF Balanced
<1>6. Takes(original, credits, all, d.lines)
  BY <1>1, <1>2, FieldsAre DEF Takes
<1> QED
  BY <1>5, <1>6 DEF all

-----------------------------------------------------------------------------
(* The lines of a credit note fit *)

\* A share is rounded, and never negative.
LEMMA ShareIsNat ==
    ASSUME NEW n \in Nat, NEW part \in Nat, NEW whole \in Nat, whole > 0
    PROVE  Share(n, part, whole) \in Nat
<1>1. 2 * n * part \in Nat
  OBVIOUS
<1>2. PICK a \in Nat : a = 2 * n * part + whole
  BY <1>1
<1>3. PICK b \in Nat : b = 2 * whole /\ b > 0
  OBVIOUS
<1>4. a \div b \in Nat
  BY <1>2, <1>3
<1> QED
  BY <1>2, <1>3, <1>4 DEF Share

\* The tax of a partial note and its half, cut to what is left: `left' and
\* `half' are what is left of the tax and of its half, a and b the shares.
PartTax(left, a) == Smaller(left, a)
PartHalf(left, half, a, b) ==
    Smaller(Smaller(PartTax(left, a), half), Larger(PartTax(left, a) - (left - half), b))

LEMMA PartFits ==
    ASSUME NEW left \in Nat, NEW half \in Nat, half <= left, NEW a \in Nat, NEW b \in Nat
    PROVE  /\ PartTax(left, a) \in Nat /\ PartHalf(left, half, a, b) \in Nat
           /\ PartHalf(left, half, a, b) <= half
           /\ PartTax(left, a) - PartHalf(left, half, a, b) <= left - half
BY DEF PartTax, PartHalf, Smaller, Larger

LEMMA CreditLinesFit ==
    ASSUME NEW original, NEW credits, NEW selection, Balanced(original, credits),
           DOMAIN selection \subseteq DOMAIN original.lines,
           \A i \in DOMAIN selection : selection[i].amount \in Nat /\ selection[i].quantity \in Nat,
           Creditable(original, credits, selection)
    PROVE  Fits(original, credits, CreditLines(original, credits, selection))
<1> DEFINE lines == CreditLines(original, credits, selection)
<1>1. DOMAIN lines = DOMAIN selection
  BY DEF CreditLines
<1>2. ASSUME NEW i \in DOMAIN selection
      PROVE  /\ lines[i]["lineTotal"] \in Nat /\ lines[i]["quantity"] \in Nat
             /\ lines[i]["tax"] \in Nat /\ lines[i]["cgst"] \in Nat
             /\ lines[i].lineTotal <= Left(original, credits, i, "lineTotal")
             /\ lines[i].quantity <= Left(original, credits, i, "quantity")
             /\ lines[i].cgst <= Left(original, credits, i, "cgst")
             /\ lines[i].tax - lines[i].cgst <=
                   Left(original, credits, i, "tax") - Left(original, credits, i, "cgst")
             /\ lines[i].lineTotal = Left(original, credits, i, "lineTotal") =>
                   /\ lines[i].tax = Left(original, credits, i, "tax")
                   /\ lines[i].cgst = Left(original, credits, i, "cgst")
  <2>1. i \in DOMAIN original.lines
    OBVIOUS
  <2>2. PICK gross \in Nat, quantity \in Nat : gross = selection[i].amount /\ quantity = selection[i].quantity
    OBVIOUS
  <2>3. PICK total \in Nat, pieces \in Nat, left \in Nat, half \in Nat :
           /\ total = Left(original, credits, i, "lineTotal")
           /\ pieces = Left(original, credits, i, "quantity")
           /\ left = Left(original, credits, i, "tax")
           /\ half = Left(original, credits, i, "cgst")
    <3>1. /\ Left(original, credits, i, "lineTotal") \in Int /\ Left(original, credits, i, "quantity") \in Int
          /\ Left(original, credits, i, "tax") \in Int /\ Left(original, credits, i, "cgst") \in Int
      BY <2>1, LeftIsInt, FieldsAre
    <3>2. /\ Left(original, credits, i, "lineTotal") >= 0
          /\ Left(original, credits, i, "quantity") >= 0
          /\ Left(original, credits, i, "cgst") >= 0
          /\ Left(original, credits, i, "tax") >= Left(original, credits, i, "cgst")
      BY <2>1 DEF Balanced
    <3> QED
      BY <3>1, <3>2
  <2>4. half <= left
    BY <2>1, <2>3 DEF Balanced
  <2>5. gross > 0 /\ gross <= total /\ quantity <= pieces
    BY <2>2, <2>3 DEF Creditable
  <2>6. PICK whole \in Nat, tax \in Nat, cgst \in Nat, used \in Nat :
           /\ whole = original.lines[i].lineTotal /\ tax = original.lines[i].tax
           /\ cgst = original.lines[i].cgst /\ used = Used(credits, i, "lineTotal")
    BY <2>1, LeftIsInt, FieldsAre
  <2>7. whole > 0
    <3>1. total = whole - used
      BY <2>3, <2>6 DEF Left
    <3> QED
      BY <3>1, <2>5
  <2>8. PICK a \in Nat, b \in Nat : a = Share(tax, gross, whole) /\ b = Share(cgst, gross, whole)
    BY <2>7, ShareIsNat
  <2>9. lines[i] =
          [lineTotal |-> gross, quantity |-> quantity,
           tax |-> IF gross = total THEN left ELSE PartTax(left, a),
           cgst |-> IF gross = total THEN half ELSE PartHalf(left, half, a, b)]
    BY <2>2, <2>3, <2>6, <2>8 DEF CreditLines, PartTax, PartHalf
  <2>10. /\ PartTax(left, a) \in Nat /\ PartHalf(left, half, a, b) \in Nat
         /\ PartHalf(left, half, a, b) <= half
         /\ PartTax(left, a) - PartHalf(left, half, a, b) <= left - half
    BY <2>4, PartFits
  <2> HIDE DEF lines
  <2>11. PICK t \in Nat, c \in Nat :
            /\ t = (IF gross = total THEN left ELSE PartTax(left, a))
            /\ c = (IF gross = total THEN half ELSE PartHalf(left, half, a, b))
    BY <2>10
  <2>12. /\ lines[i].lineTotal = gross /\ lines[i].quantity = quantity
         /\ lines[i].tax = t /\ lines[i].cgst = c
    BY <2>9, <2>11
  <2>13. /\ c <= half /\ t - c <= left - half
         /\ gross = total => t = left /\ c = half
    BY <2>10, <2>11
  <2> QED
    BY <2>3, <2>5, <2>12, <2>13
<1> HIDE DEF lines
<1>3. ASSUME NEW i \in DOMAIN lines
      PROVE  /\ i \in DOMAIN original.lines
             /\ \A field \in Fields : lines[i][field] \in Nat
  BY <1>1, <1>2, FieldsAre
<1>4. Fits(original, credits, lines)
  BY <1>1, <1>2, <1>3 DEF Fits
<1> QED
  BY <1>4 DEF lines

\* What a cancellation credits fits, and leaves nothing of the amount of a line.
LEMMA RemainderFits ==
    ASSUME NEW original, NEW credits, Balanced(original, credits)
    PROVE  LET selection == Remainder(original, credits)
               lines == CreditLines(original, credits, selection)
           IN /\ Fits(original, credits, lines)
              /\ \A i \in DOMAIN original.lines :
                    \/ i \in DOMAIN lines /\ lines[i]["lineTotal"] = Left(original, credits, i, "lineTotal")
                    \/ i \notin DOMAIN lines /\ Left(original, credits, i, "lineTotal") = 0
              /\ DOMAIN lines = DOMAIN selection
<1> DEFINE selection == Remainder(original, credits)
           lines == CreditLines(original, credits, selection)
<1>1. DOMAIN selection = {j \in DOMAIN original.lines : Left(original, credits, j, "lineTotal") > 0}
  BY DEF Remainder
<1>2. \A i \in DOMAIN selection :
         /\ selection[i].amount = Left(original, credits, i, "lineTotal")
         /\ selection[i].quantity = Left(original, credits, i, "quantity")
  BY DEF Remainder
<1> HIDE DEF selection
<1>3. ASSUME NEW i \in DOMAIN original.lines
      PROVE  Left(original, credits, i, "lineTotal") \in Nat /\ Left(original, credits, i, "quantity") \in Nat
  BY LeftIsInt, FieldsAre DEF Balanced
<1>4. Creditable(original, credits, selection)
  BY <1>1, <1>2, <1>3 DEF Creditable
<1>5. Fits(original, credits, lines)
  BY <1>1, <1>2, <1>3, <1>4, CreditLinesFit
<1>6. DOMAIN lines = DOMAIN selection /\ \A i \in DOMAIN lines : lines[i]["lineTotal"] = selection[i].amount
  BY DEF CreditLines
<1> HIDE DEF lines
<1>7. ASSUME NEW i \in DOMAIN original.lines
      PROVE  \/ i \in DOMAIN lines /\ lines[i]["lineTotal"] = Left(original, credits, i, "lineTotal")
             \/ i \notin DOMAIN lines /\ Left(original, credits, i, "lineTotal") = 0
  BY <1>1, <1>2, <1>3, <1>6
<1> QED
  BY <1>5, <1>6, <1>7 DEF lines, selection

-----------------------------------------------------------------------------
(* A document joins the ledger *)

LEMMA JoinsOther ==
    ASSUME NEW docs, NEW d, NEW o, d.order # o
    PROVE  /\ Invoices(docs \union {d}, o) = Invoices(docs, o)
           /\ Credits(docs \union {d}, o) = Credits(docs, o)
BY DEF Invoices, Credits

LEMMA InvoiceJoins ==
    ASSUME NEW docs, NEW d, NEW o, d.order = o, d.kind = "INVOICE"
    PROVE  /\ Invoices(docs \union {d}, o) = Invoices(docs, o) \union {d}
           /\ Credits(docs \union {d}, o) = Credits(docs, o)
BY DEF Invoices, Credits

LEMMA CreditJoins ==
    ASSUME NEW docs, NEW d, NEW o, d.order = o, d.kind = "CREDIT_NOTE"
    PROVE  /\ Invoices(docs \union {d}, o) = Invoices(docs, o)
           /\ Credits(docs \union {d}, o) = Credits(docs, o) \union {d}
BY DEF Invoices, Credits

LEMMA SameBill ==
    ASSUME NEW docs, NEW more, NEW r, NEW s, NEW o, Bill(docs, r, o),
           Invoices(more, o) = Invoices(docs, o), Credits(more, o) = Credits(docs, o),
           s.shape = r.shape, s.cancelledOn = r.cancelledOn, s.legacy = r.legacy
    PROVE  Bill(more, s, o)
BY DEF Bill

\* The invoice of an order, issued or imported.
LEMMA BillWithInvoice ==
    ASSUME NEW docs, NEW r, NEW s, NEW o, NEW d, Bill(docs, r, o), Invoices(docs, o) = {},
           d.order = o, d.kind = "INVOICE", s.shape \in InvoiceShapes, d.lines = s.shape.lines,
           s.cancelledOn = 0
    PROVE  Bill(docs \union {d}, s, o)
<1>1. Credits(docs, o) = {}
  BY DEF Bill
<1>2. Invoices(docs \union {d}, o) = {d} /\ Credits(docs \union {d}, o) = {}
  BY <1>1, InvoiceJoins
<1>3. \A i \in DOMAIN d.lines : Charged(d.lines[i])
  BY FulfilmentAssumption, FieldsAre DEF Charged
<1>4. Balanced(d, {})
  BY <1>3, FreshBalance
<1>5. s.shape # NoShape /\ ~(s.cancelledOn > 0)
  BY FulfilmentAssumption
<1> QED
  BY <1>2, <1>4, <1>5 DEF Bill

\* A note that fits joins; what was credited to the end stays so.
LEMMA BillWithCredit ==
    ASSUME NEW docs, NEW r, NEW o, NEW d, NEW original \in Invoices(docs, o), Bill(docs, r, o),
           d.order = o, d.kind = "CREDIT_NOTE", Fits(original, Credits(docs, o), d.lines)
    PROVE  Bill(docs \union {d}, r, o)
<1>1. CASE d \in docs
  <2>1. docs \union {d} = docs
    BY <1>1
  <2> QED
    BY <2>1
<1>2. CASE d \notin docs
  <2> DEFINE old == Credits(docs, o)
             all == old \union {d}
  <2>1. /\ Invoices(docs \union {d}, o) = Invoices(docs, o) /\ Credits(docs \union {d}, o) = all
    BY CreditJoins
  <2>2. d \notin old
    BY <1>2 DEF Credits
  <2>3. Balanced(original, old) /\ \A e \in Invoices(docs, o) : e = original
    BY DEF Bill
  <2>4. Balanced(original, all) /\ Takes(original, old, all, d.lines)
    BY <2>2, <2>3, NoteFits
  <2>5. ASSUME NEW i \in DOMAIN original.lines, Left(original, old, i, "lineTotal") = 0
        PROVE  Left(original, all, i, "lineTotal") = 0
    <3>1. CASE i \in DOMAIN d.lines
      <4>1. PICK n \in Nat : n = d.lines[i]["lineTotal"] /\ n <= 0
        BY <2>5, <3>1, FieldsAre DEF Fits
      <4>2. Left(original, all, i, "lineTotal") = 0 - n
        BY <2>4, <2>5, <3>1, <4>1 DEF Takes
      <4> QED
        BY <4>1, <4>2
    <3>2. CASE i \notin DOMAIN d.lines
      BY <2>4, <2>5, <3>2 DEF Takes
    <3> QED
      BY <3>1, <3>2
  <2> HIDE DEF all
  <2>6. r.cancelledOn > 0 =>
          \E e \in Invoices(docs, o) :
              FinancialYear(e.day) = FinancialYear(r.cancelledOn) =>
                  \A i \in DOMAIN e.lines : Left(e, all, i, "lineTotal") = 0
    BY <2>3, <2>5 DEF Bill
  <2> QED
    BY <2>1, <2>3, <2>4, <2>6 DEF Bill
<1> QED
  BY <1>1, <1>2

LEMMA StillUnderWay ==
    ASSUME NEW docs, NEW more, NEW locks, NEW after, NEW n, StillFits(docs, locks, n),
           Invoices(more, n.order) = Invoices(docs, n.order),
           Credits(more, n.order) = Credits(docs, n.order), after[n.order] = locks[n.order]
    PROVE  StillFits(more, after, n)
BY DEF StillFits

\* A note whose lock another took will not commit.
LEMMA StaleUnderWay ==
    ASSUME NEW docs, NEW more, NEW locks \in [Order -> Nat], NEW after, NEW n, StillFits(docs, locks, n),
           Invoices(more, n.order) = Invoices(docs, n.order), after = [locks EXCEPT ![n.order] = @ + 1]
    PROVE  StillFits(more, after, n)
<1>1. n.order \in Order /\ n.lock \in Nat /\ locks[n.order] \in Nat /\ n.lock <= locks[n.order]
  BY DEF StillFits
<1>2. n.lock <= after[n.order] /\ n.lock # after[n.order]
  BY <1>1
<1> QED
  BY <1>1, <1>2 DEF StillFits

-----------------------------------------------------------------------------
(* The bills of the orders through the steps *)

LEMMA BillsInit == FulfilmentInit => BillsInv
<1> SUFFICES ASSUME FulfilmentInit PROVE BillsInv
  OBVIOUS
<1>1. documents = {} /\ lock = [o \in Order |-> 0] /\ notes = {}
  BY DEF FulfilmentInit, TaxInit
<1>2. PICK legacy \in SUBSET Handled, shape \in InvoiceShapes :
          order = [o \in Order |->
                     IF o \in legacy
                     THEN [Unplaced EXCEPT !.shape = shape, !.legacy = TRUE] ELSE Unplaced]
  BY DEF FulfilmentInit
<1>3. ASSUME NEW o \in Order
      PROVE  /\ \/ order[o].shape = NoShape /\ order[o].legacy = FALSE
                \/ order[o].shape \in InvoiceShapes /\ order[o].legacy = TRUE
             /\ order[o].cancelledOn = 0
  BY <1>2 DEF Unplaced
<1>4. \A o \in Order : Invoices(documents, o) = {} /\ Credits(documents, o) = {}
  BY <1>1 DEF Invoices, Credits
<1>5. ASSUME NEW o \in Order PROVE Bill(documents, order[o], o)
  <2>1. ~(order[o].cancelledOn > 0)
    <3>1. order[o].cancelledOn = 0
      BY <1>3
    <3> QED
      BY <3>1
  <2> QED
    BY <1>3, <1>4, <2>1, FulfilmentAssumption DEF Bill
<1> QED
  BY <1>1, <1>5 DEF BillsInv

\* The documents are left alone, and of the orders what they billed.
LEMMA BillsKept ==
    ASSUME BillsInv, UNCHANGED <<documents, lock>>, notes' \subseteq notes,
           \A o \in Order : /\ order'[o].shape = order[o].shape
                            /\ order'[o].cancelledOn = order[o].cancelledOn
                            /\ order'[o].legacy = order[o].legacy
    PROVE  BillsInv'
<1>1. \A o \in Order : Bill(documents', order'[o], o)
  BY SameBill DEF BillsInv
<1>2. \A n \in notes' : StillFits(documents', lock', n)
  BY DEF BillsInv
<1> QED
  BY <1>1, <1>2 DEF BillsInv

LEMMA OriginalIs ==
    ASSUME NEW o
    PROVE  /\ InvoiceOf(o) = Invoices(documents, o) /\ CreditsOf(o) = Credits(documents, o)
           /\ Invoices(documents, o) # {} => Original(o) \in Invoices(documents, o) /\ Original(o) \in documents
           /\ Invoices(documents, o) = {} =>
                 /\ Original(o).order = o /\ Original(o).kind = "INVOICE" /\ Original(o).day = 1
                 /\ Original(o).lines = order[o].shape.lines
<1>1. InvoiceOf(o) = Invoices(documents, o) /\ CreditsOf(o) = Credits(documents, o)
  BY DEF InvoiceOf, CreditsOf, Invoices, Credits
<1>2. CASE Invoices(documents, o) # {}
  BY <1>1, <1>2 DEF Original, Invoices
<1>3. CASE Invoices(documents, o) = {}
  BY <1>1, <1>3 DEF Original, Legacy
<1> QED
  BY <1>1, <1>2, <1>3

LEMMA PlaceBills ==
    ASSUME ReturnInv, BillsInv, NEW o \in Order, NEW method, NEW shape \in InvoiceShapes,
           NEW day, PlacedAs(o, method, shape, day)
    PROVE  BillsInv'
<1> DEFINE d == [kind |-> "INVOICE", class |-> shape.class, order |-> o, day |-> day,
                 event |-> <<"invoice", o>>, sequence |-> counter[<<shape.class, day>>] + 1,
                 lines |-> shape.lines]
<1>1. /\ documents' = documents \union {d} /\ lock' = lock /\ notes' = notes
      /\ order[o].shape = NoShape
      /\ order' = [order EXCEPT ![o].shape = shape, ![o].method = method,
                                ![o].pay = IF method = "razorpay" THEN "paid" ELSE "pending"]
  BY DEF PlacedAs, IssueInvoice, Insert, Exists
<1>2. d.order = o /\ d.kind = "INVOICE" /\ d.lines = shape.lines
  OBVIOUS
<1> HIDE DEF d
<1>3. order[o] \in OrderRecord
  BY DEF ReturnInv
<1>4. Bill(documents, order[o], o)
  BY DEF BillsInv
<1>5. Invoices(documents, o) = {} /\ order[o].cancelledOn = 0
  BY <1>1, <1>4 DEF Bill
<1>6. order'[o].shape = shape /\ order'[o].cancelledOn = 0
  BY <1>1, <1>3, <1>5 DEF ReturnInv, OrderRecord
<1>7. ASSUME NEW p \in Order PROVE Bill(documents', order'[p], p)
  <2>1. CASE p = o
    <3>1. PICK s : s = order'[o]
      OBVIOUS
    <3>2. Bill(documents \union {d}, s, o)
      BY <1>2, <1>4, <1>5, <1>6, <3>1, BillWithInvoice
    <3> QED
      BY <1>1, <2>1, <3>1, <3>2
  <2>2. CASE p # o
    <3>1. order'[p] = order[p]
      BY <1>1, <2>2 DEF ReturnInv
    <3>2. Bill(documents, order[p], p)
      BY DEF BillsInv
    <3>3. d.order # p
      BY <1>2, <2>2
    <3> QED
      BY <1>1, <3>1, <3>2, <3>3, JoinsOther, SameBill
  <2> QED
    BY <2>1, <2>2
<1>8. ASSUME NEW n \in notes' PROVE StillFits(documents', lock', n)
  <2>1. StillFits(documents, lock, n)
    BY <1>1 DEF BillsInv
  <2>2. d.order # n.order
    BY <1>2, <1>5, <2>1 DEF StillFits
  <2> QED
    BY <1>1, <2>1, <2>2, JoinsOther, StillUnderWay
<1>9. \A e \in documents' : e.order \in Order /\ e.kind \in {"INVOICE", "CREDIT_NOTE"}
  BY <1>1, <1>2 DEF BillsInv
<1> QED
  BY <1>1, <1>7, <1>8, <1>9 DEF BillsInv

\* An earlier invoice joins: what the import and the cancellation do first.
LEMMA WithOriginal ==
    ASSUME ReturnInv, BillsInv, NEW o \in Order, Exists(o)
    PROVE  LET docs == documents \union {Original(o)} IN
           /\ \A p \in Order : Bill(docs, order[p], p)
           /\ \A n \in notes : StillFits(docs, lock, n)
           /\ \A d \in docs : d.order \in Order /\ d.kind \in {"INVOICE", "CREDIT_NOTE"}
           /\ Original(o) \in Invoices(docs, o)
           /\ Credits(docs, o) = CreditsOf(o)
<1> DEFINE d == Original(o)
           docs == documents \union {d}
<1>0. Bill(documents, order[o], o) /\ order[o] \in OrderRecord /\ order[o].shape # NoShape
  BY DEF BillsInv, ReturnInv, Exists
<1>1. CASE Invoices(documents, o) # {}
  <2>1. d \in Invoices(documents, o) /\ d \in documents
    BY <1>1, OriginalIs
  <2> HIDE DEF d
  <2>2. docs = documents
    BY <2>1
  <2> QED
    BY <2>1, <2>2, OriginalIs DEF BillsInv, d
<1>2. CASE Invoices(documents, o) = {}
  <2>1. d.order = o /\ d.kind = "INVOICE" /\ d.lines = order[o].shape.lines
    BY <1>2, OriginalIs
  <2> HIDE DEF d
  <2>2. order[o].shape \in InvoiceShapes /\ order[o].cancelledOn = 0
    BY <1>0, <1>2 DEF Bill, OrderRecord
  <2>3. ASSUME NEW p \in Order PROVE Bill(docs, order[p], p)
    <3>1. CASE p = o
      BY <1>0, <1>2, <2>1, <2>2, <3>1, BillWithInvoice
    <3>2. CASE p # o
      <4>1. d.order # p
        BY <2>1, <3>2
      <4>2. Bill(documents, order[p], p)
        BY DEF BillsInv
      <4> QED
        BY <4>1, <4>2, JoinsOther, SameBill
    <3> QED
      BY <3>1, <3>2
  <2>4. ASSUME NEW n \in notes PROVE StillFits(docs, lock, n)
    <3>1. StillFits(documents, lock, n)
      BY DEF BillsInv
    <3>2. d.order # n.order
      BY <1>2, <2>1, <3>1 DEF StillFits
    <3> QED
      BY <3>1, <3>2, JoinsOther, StillUnderWay
  <2>5. \A e \in docs : e.order \in Order /\ e.kind \in {"INVOICE", "CREDIT_NOTE"}
    BY <2>1 DEF BillsInv
  <2>6. d \in Invoices(docs, o) /\ Credits(docs, o) = CreditsOf(o)
    <3>1. Credits(documents, o) = CreditsOf(o)
      BY OriginalIs
    <3>2. d \in docs
      OBVIOUS
    <3>3. d \in Invoices(docs, o)
      BY <2>1, <3>2 DEF Invoices
    <3>4. Credits(docs, o) = Credits(documents, o)
      BY <2>1, InvoiceJoins
    <3> QED
      BY <3>1, <3>3, <3>4
  <2> QED
    BY <2>3, <2>4, <2>5, <2>6 DEF d
<1> QED
  BY <1>1, <1>2

LEMMA ImportBills ==
    ASSUME ReturnInv, BillsInv, NEW o \in Order, ImportLegacyInvoice(o)
    PROVE  BillsInv'
<1> DEFINE docs == documents \union {Original(o)}
<1>1. /\ documents' = docs /\ lock' = lock /\ notes' = notes /\ order' = order
  BY DEF ImportLegacyInvoice, transactionVars
<1>2. CASE Exists(o)
  <2>1. /\ \A p \in Order : Bill(docs, order[p], p)
        /\ \A n \in notes : StillFits(docs, lock, n)
        /\ \A d \in docs : d.order \in Order /\ d.kind \in {"INVOICE", "CREDIT_NOTE"}
    BY <1>2, WithOriginal
  <2> HIDE DEF docs
  <2> QED
    BY <1>1, <2>1 DEF BillsInv
<1>3. CASE ~Exists(o)
  <2>1. order[o].legacy => Exists(o)
    BY DEF BillsInv, Bill, Exists
  <2> QED
    BY <1>3, <2>1 DEF ImportLegacyInvoice
<1> QED
  BY <1>2, <1>3

\* A note of an order joins, and its lock is taken.
LEMMA NoteBills ==
    ASSUME BillsInv, NEW docs, NEW o \in Order, NEW d, NEW original \in Invoices(docs, o),
           \A p \in Order : Bill(docs, order[p], p),
           \A n \in notes : StillFits(docs, lock, n),
           d.order = o, d.kind = "CREDIT_NOTE", Fits(original, Credits(docs, o), d.lines),
           NEW locks, locks = [lock EXCEPT ![o] = @ + 1]
    PROVE  /\ \A p \in Order : Bill(docs \union {d}, order[p], p)
           /\ \A n \in notes : StillFits(docs \union {d}, locks, n)
           /\ locks \in [Order -> Nat]
<1>1. ASSUME NEW p \in Order PROVE Bill(docs \union {d}, order[p], p)
  <2>1. CASE p = o
    <3>1. PICK r : r = order[o]
      OBVIOUS
    <3>2. Bill(docs \union {d}, r, o)
      BY <3>1, BillWithCredit
    <3> QED
      BY <2>1, <3>1, <3>2
  <2>2. CASE p # o
    <3>1. d.order # p
      BY <2>2
    <3> QED
      BY <3>1, JoinsOther, SameBill
  <2> QED
    BY <2>1, <2>2
<1>2. lock \in [Order -> Nat]
  BY DEF BillsInv
<1>3. ASSUME NEW n \in notes PROVE StillFits(docs \union {d}, locks, n)
  <2>1. StillFits(docs, lock, n) /\ n.order \in Order
    BY DEF StillFits
  <2>2. CASE n.order = o
    <3>1. Invoices(docs \union {d}, n.order) = Invoices(docs, n.order)
      BY <2>2, CreditJoins
    <3>2. PICK held \in [Order -> Nat] : held = lock
      BY <1>2
    <3>3. locks = [held EXCEPT ![n.order] = @ + 1]
      BY <2>2, <3>2
    <3>4. StillFits(docs, held, n)
      BY <2>1, <3>2
    <3> QED
      BY <3>1, <3>3, <3>4, StaleUnderWay
  <2>3. CASE n.order # o
    <3>1. PICK held \in [Order -> Nat] : held = lock
      BY <1>2
    <3>2. d.order # n.order /\ locks[n.order] = held[n.order] /\ StillFits(docs, held, n)
      BY <2>1, <2>3, <3>1
    <3> QED
      <4>1. /\ Invoices(docs \union {d}, n.order) = Invoices(docs, n.order)
            /\ Credits(docs \union {d}, n.order) = Credits(docs, n.order)
        BY <3>2, JoinsOther
      <4> QED
        BY <3>2, <4>1 DEF StillFits
  <2> QED
    BY <2>2, <2>3
<1>4. locks \in [Order -> Nat]
  BY <1>2
<1> QED
  BY <1>1, <1>3, <1>4

LEMMA CommitBills ==
    ASSUME BillsInv, NEW n \in notes, CommitCreditNote(n)
    PROVE  BillsInv'
<1> DEFINE d == [kind |-> "CREDIT_NOTE", class |-> n.class, order |-> n.order, day |-> n.day,
                 event |-> <<"credit", n.order, n.key>>, sequence |-> n.sequence + 1,
                 lines |-> n.lines]
<1>1. /\ documents' = documents \union {d} /\ lock' = [lock EXCEPT ![n.order] = @ + 1]
      /\ notes' \subseteq notes /\ order' = order /\ lock[n.order] = n.lock
  BY DEF CommitCreditNote, NoConflict
<1>2. d.order = n.order /\ d.kind = "CREDIT_NOTE" /\ d.lines = n.lines
  OBVIOUS
<1> HIDE DEF d
<1>3. PICK original \in Invoices(documents, n.order) :
         /\ n.order \in Order
         /\ Fits(original, Credits(documents, n.order), n.lines)
  BY <1>1 DEF BillsInv, StillFits
<1>4. PICK docs, locks : docs = documents /\ locks = lock'
  OBVIOUS
<1>5. /\ \A p \in Order : Bill(docs \union {d}, order[p], p)
      /\ \A m \in notes : StillFits(docs \union {d}, locks, m)
      /\ locks \in [Order -> Nat]
  <2>1. /\ \A p \in Order : Bill(docs, order[p], p)
        /\ \A m \in notes : StillFits(docs, lock, m)
    BY <1>4 DEF BillsInv
  <2>2. /\ original \in Invoices(docs, n.order) /\ Fits(original, Credits(docs, n.order), d.lines)
        /\ locks = [lock EXCEPT ![n.order] = @ + 1] /\ n.order \in Order
    BY <1>1, <1>2, <1>3, <1>4
  <2> QED
    BY <1>2, <2>1, <2>2, NoteBills
<1>6. \A e \in documents' : e.order \in Order /\ e.kind \in {"INVOICE", "CREDIT_NOTE"}
  BY <1>1, <1>2, <1>3 DEF BillsInv
<1> QED
  BY <1>1, <1>4, <1>5, <1>6 DEF BillsInv

LEMMA BeginBills ==
    ASSUME BillsInv, NEW key, NEW o \in Order, NEW selection \in Selections, NEW gst,
           BeginCreditNote(key, o, selection, gst)
    PROVE  BillsInv'
<1> DEFINE original == Original(o)
           class == IF gst THEN "CREDIT_NOTE" ELSE "COMMERCIAL_CREDIT_NOTE"
           n == [key |-> key, order |-> o, class |-> class, day |-> today,
                 lock |-> lock[o], sequence |-> counter[<<class, today>>],
                 lines |-> CreditLines(original, CreditsOf(o), selection)]
<1>1. /\ documents' = documents /\ lock' = lock /\ order' = order /\ notes' = notes \union {n}
      /\ InvoiceOf(o) # {} /\ DOMAIN selection \subseteq DOMAIN original.lines
      /\ Creditable(original, CreditsOf(o), selection)
  BY DEF BeginCreditNote, taxVars
<1>2. n.order = o /\ n.lock = lock[o] /\ n.lines = CreditLines(original, CreditsOf(o), selection)
  OBVIOUS
<1>3. original \in Invoices(documents, o) /\ CreditsOf(o) = Credits(documents, o)
  BY <1>1, OriginalIs
<1> HIDE DEF n, original
<1>4. \A i \in DOMAIN selection : selection[i].amount \in Nat /\ selection[i].quantity \in Nat
  <2>1. ASSUME NEW D, NEW Q \in SUBSET Nat, selection \in [D -> [amount : CreditAmounts, quantity : Q]]
        PROVE  \A i \in DOMAIN selection : selection[i].amount \in Nat /\ selection[i].quantity \in Nat
    BY <2>1, FulfilmentAssumption
  <2>2. {0, 1} \in SUBSET Nat /\ {0} \in SUBSET Nat
    OBVIOUS
  <2>3. \/ selection \in [{1} -> [amount : CreditAmounts, quantity : {0, 1}]]
        \/ selection \in [{2} -> [amount : CreditAmounts, quantity : {0}]]
    BY DEF Selections
  <2> QED
    BY <2>1, <2>2, <2>3
<1>5. PICK docs, invoice, credits :
         docs = documents /\ invoice = original /\ credits = Credits(documents, o)
  OBVIOUS
<1>6. Bill(docs, order[o], o) /\ invoice \in Invoices(docs, o) /\ credits = Credits(docs, o)
  BY <1>3, <1>5 DEF BillsInv
<1>7. Balanced(invoice, credits) /\ \A e \in Invoices(docs, o) : e = invoice
  BY <1>6 DEF Bill
<1>8. Fits(invoice, credits, CreditLines(invoice, credits, selection))
  <2>1. DOMAIN selection \subseteq DOMAIN invoice.lines /\ Creditable(invoice, credits, selection)
    BY <1>1, <1>3, <1>5
  <2> QED
    BY <1>4, <1>7, <2>1, CreditLinesFit
<1>9. n.lines = CreditLines(invoice, credits, selection)
  BY <1>2, <1>3, <1>5
<1>10. lock[o] \in Nat /\ lock[o] <= lock[o]
  BY DEF BillsInv
<1>11. StillFits(docs, lock, n)
  BY <1>2, <1>6, <1>7, <1>8, <1>9, <1>10 DEF StillFits
<1> QED
  BY <1>1, <1>5, <1>11 DEF BillsInv

\* An order cancelled later than its bill.
LEMMA CancelledBill ==
    ASSUME NEW docs, NEW r, NEW s, NEW o, NEW original \in Invoices(docs, o), Bill(docs, r, o),
           s.shape = r.shape, s.legacy = r.legacy,
           FinancialYear(original.day) = FinancialYear(s.cancelledOn) =>
              \A i \in DOMAIN original.lines : Left(original, Credits(docs, o), i, "lineTotal") = 0
    PROVE  Bill(docs, s, o)
<1>1. r.shape # NoShape
  BY DEF Bill
<1> QED
  BY <1>1 DEF Bill

\* The remainder joins: nothing of the invoice is left.
LEMMA RemainderCredited ==
    ASSUME NEW docs, NEW r, NEW o, NEW d, NEW original \in Invoices(docs, o), Bill(docs, r, o),
           d \notin docs,
           d.order = o, d.kind = "CREDIT_NOTE",
           d.lines = CreditLines(original, Credits(docs, o), Remainder(original, Credits(docs, o)))
    PROVE  \A i \in DOMAIN original.lines :
              Left(original, Credits(docs \union {d}, o), i, "lineTotal") = 0
<1> DEFINE old == Credits(docs, o)
           all == old \union {d}
           lines == CreditLines(original, old, Remainder(original, old))
<1>1. Balanced(original, old) /\ d \notin old
  BY DEF Bill, Credits
<1>2. /\ Fits(original, old, lines)
      /\ \A i \in DOMAIN original.lines :
            \/ i \in DOMAIN lines /\ lines[i]["lineTotal"] = Left(original, old, i, "lineTotal")
            \/ i \notin DOMAIN lines /\ Left(original, old, i, "lineTotal") = 0
  BY <1>1, RemainderFits
<1>3. d.lines = lines
  OBVIOUS
<1> HIDE DEF lines
<1>4. Takes(original, old, all, lines)
  BY <1>1, <1>2, <1>3, NoteFits
<1>5. ASSUME NEW i \in DOMAIN original.lines PROVE Left(original, all, i, "lineTotal") = 0
  <2>1. PICK n \in Nat : n = Left(original, old, i, "lineTotal")
    BY <1>1, LeftIsInt, FieldsAre DEF Balanced
  <2>2. CASE i \in DOMAIN lines
    <3>1. Left(original, all, i, "lineTotal") = n - n
      BY <1>2, <1>4, <2>1, <2>2 DEF Takes
    <3> QED
      BY <3>1
  <2>3. CASE i \notin DOMAIN lines
    BY <1>2, <1>4, <2>3 DEF Takes
  <2> QED
    BY <2>2, <2>3
<1>6. Credits(docs \union {d}, o) = all
  BY CreditJoins
<1> QED
  BY <1>5, <1>6

\* A number that was not given out is of no document.
LEMMA NumberIsFresh ==
    ASSUME SeriesInv, NEW d, <<d.class, d.day>> \in Series,
           d.sequence = counter[<<d.class, d.day>>] + 1
    PROVE  d \notin documents
<1> SUFFICES ASSUME d \in documents PROVE FALSE
  OBVIOUS
<1>1. PICK s \in Series, n \in Nat : s = <<d.class, d.day>> /\ n = counter[s]
  BY DEF SeriesInv
<1>2. d.sequence = n + 1
  BY <1>1
<1>3. d \in Issued(documents, s)
  BY <1>1, <1>2 DEF Issued
<1>4. d.sequence \in 1..n
  BY <1>1, <1>3 DEF SeriesInv, Gapless
<1> QED
  BY <1>2, <1>4

LEMMA CancelBills ==
    ASSUME ReturnInv, SeriesInv, BillsInv, NEW day \in 1..LastDay, NEW o \in Order, CancelledAs(o, day)
    PROVE  BillsInv'
<1> DEFINE i == Original(o)
           docs == documents \union {i}
           selection == Remainder(i, CreditsOf(o))
           c == CancelNote(o, day)
           sameYear == FinancialYear(i.day) = FinancialYear(day)
<1>1. Exists(o) /\ order' = Cancelled(o, day) /\ notes' = notes
  BY DEF CancelledAs
<1>2. \/ /\ sameYear /\ DOMAIN selection # {}
         /\ documents' = documents \union {i, c}
         /\ lock' = [lock EXCEPT ![o] = @ + 1]
      \/ /\ ~(sameYear /\ DOMAIN selection # {})
         /\ documents' = docs /\ lock' = lock
  BY DEF CancelledAs, WithNote
<1>3. /\ \A p \in Order : p # o => order'[p] = order[p]
      /\ order'[o].shape = order[o].shape /\ order'[o].legacy = order[o].legacy
      /\ order'[o].cancelledOn = day
  <2>1. order \in [Order -> OrderRecord] /\ order[o] \in OrderRecord
    BY DEF ReturnInv
  <2> QED
    BY <1>1, <2>1 DEF Cancelled, OrderRecord
<1>4. /\ \A p \in Order : Bill(docs, order[p], p)
      /\ \A n \in notes : StillFits(docs, lock, n)
      /\ \A d \in docs : d.order \in Order /\ d.kind \in {"INVOICE", "CREDIT_NOTE"}
      /\ i \in Invoices(docs, o)
      /\ Credits(docs, o) = CreditsOf(o)
  BY <1>1, WithOriginal
<1>5. /\ c.order = o /\ c.kind = "CREDIT_NOTE" /\ c.lines = CreditLines(i, CreditsOf(o), selection)
      /\ c.class = "CREDIT_NOTE" /\ c.day = day /\ c.sequence = counter[<<"CREDIT_NOTE", day>>] + 1
  BY DEF CancelNote
<1> HIDE DEF c
<1>6. c \notin documents
  <2>1. <<c.class, c.day>> \in Series
    BY <1>5 DEF Series, CreditClass
  <2> QED
    BY <1>5, <2>1, NumberIsFresh
<1>7. PICK original, ledger, r, s :
         original = i /\ ledger = docs /\ r = order[o] /\ s = order'[o]
  OBVIOUS
<1> HIDE DEF i, docs, selection
<1>8. /\ Bill(ledger, r, o) /\ original \in Invoices(ledger, o)
      /\ s.shape = r.shape /\ s.legacy = r.legacy /\ s.cancelledOn = day
      /\ ledger = documents \union {i}
  BY <1>3, <1>4, <1>7 DEF docs
<1>9. Balanced(original, Credits(ledger, o))
  BY <1>8 DEF Bill
<1>10. selection = Remainder(original, Credits(ledger, o))
  BY <1>4, <1>7 DEF selection
<1>11. c.lines = CreditLines(original, Credits(ledger, o), Remainder(original, Credits(ledger, o)))
  BY <1>4, <1>5, <1>7, <1>10
<1>12. c \notin ledger
  BY <1>5, <1>6, <1>7, <1>8 DEF Invoices
<1>13. CASE /\ sameYear /\ DOMAIN selection # {}
            /\ documents' = documents \union {i, c}
            /\ lock' = [lock EXCEPT ![o] = @ + 1]
  <2>1. PICK locks : locks = lock'
    OBVIOUS
  <2>2. Fits(original, Credits(ledger, o), c.lines)
    BY <1>9, <1>11, RemainderFits
  <2>3. /\ \A p \in Order : Bill(ledger \union {c}, order[p], p)
        /\ \A n \in notes : StillFits(ledger \union {c}, locks, n)
        /\ locks \in [Order -> Nat]
    <3>1. /\ \A p \in Order : Bill(ledger, order[p], p)
          /\ \A n \in notes : StillFits(ledger, lock, n)
      BY <1>4, <1>7
    <3>2. locks = [lock EXCEPT ![o] = @ + 1]
      BY <1>13, <2>1
    <3> QED
      BY <1>5, <1>8, <2>2, <3>1, <3>2, NoteBills
  <2>4. documents' = ledger \union {c}
    BY <1>8, <1>13
  <2>5. \A j \in DOMAIN original.lines : Left(original, Credits(ledger \union {c}, o), j, "lineTotal") = 0
    BY <1>5, <1>8, <1>11, <1>12, RemainderCredited
  <2>6. Bill(ledger \union {c}, s, o)
    <3>1. original \in Invoices(ledger \union {c}, o)
      BY <1>8 DEF Invoices
    <3>2. Bill(ledger \union {c}, r, o)
      BY <1>7, <2>3
    <3> QED
      BY <1>8, <2>5, <3>1, <3>2, CancelledBill
  <2>7. \A p \in Order : Bill(documents', order'[p], p)
    BY <1>3, <1>7, <2>3, <2>4, <2>6
  <2>8. \A n \in notes' : StillFits(documents', lock', n)
    BY <1>1, <2>1, <2>3, <2>4
  <2>9. \A d \in documents' : d.order \in Order /\ d.kind \in {"INVOICE", "CREDIT_NOTE"}
    BY <1>4, <1>5, <1>7, <2>4
  <2> QED
    BY <2>1, <2>3, <2>7, <2>8, <2>9 DEF BillsInv
<1>14. CASE /\ ~(sameYear /\ DOMAIN selection # {})
            /\ documents' = docs /\ lock' = lock
  <2>1. ASSUME DOMAIN selection = {}, NEW j \in DOMAIN original.lines
        PROVE  Left(original, Credits(ledger, o), j, "lineTotal") = 0
    BY <1>9, <1>10, <2>1, RemainderFits
  <2>2. FinancialYear(original.day) = FinancialYear(s.cancelledOn) =>
           \A j \in DOMAIN original.lines : Left(original, Credits(ledger, o), j, "lineTotal") = 0
    BY <1>7, <1>8, <1>14, <2>1
  <2>3. Bill(ledger, s, o)
    BY <1>8, <2>2, CancelledBill
  <2>4. \A p \in Order : Bill(documents', order'[p], p)
    BY <1>3, <1>4, <1>7, <1>14, <2>3
  <2>5. \A n \in notes' : StillFits(documents', lock', n)
    BY <1>1, <1>4, <1>14
  <2>6. \A d \in documents' : d.order \in Order /\ d.kind \in {"INVOICE", "CREDIT_NOTE"}
    BY <1>4, <1>14
  <2> QED
    BY <1>14, <2>4, <2>5, <2>6 DEF BillsInv
<1> QED
  BY <1>2, <1>13, <1>14

\* The day, which only passes until the last.
LEMMA DayInit == FulfilmentInit => today \in 1..LastDay
BY TaxAssumption DEF FulfilmentInit, TaxInit

LEMMA DayStep ==
    ASSUME today \in 1..LastDay, [FulfilmentNext]_fulfilmentVars
    PROVE  today' \in 1..LastDay /\ today' >= today
<1>1. CASE DayPasses
  BY <1>1, TaxAssumption DEF DayPasses
<1>2. today' = today \/ DayPasses
  BY DEF FulfilmentNext, fulfilmentVars, taxVars, VerifyDelivery, CancelOrder, ReadOrder, ImportLegacyInvoice,
         PlaceOrder, BeginCreditNote, SaveOrder, CommitCreditNote, AbortCreditNote, DateInvoice,
         BeginCancel, AbortPlacement, AbortCancellation
<1> QED
  BY <1>1, <1>2

LEMMA BillsStep ==
    ASSUME ReturnInv, TransactionsInv, SeriesInv, BillsInv, [FulfilmentNext]_fulfilmentVars
    PROVE  BillsInv'
<1>1. CASE UNCHANGED fulfilmentVars
  BY <1>1, BillsKept DEF fulfilmentVars
<1>2. ASSUME NEW o \in Handled, VerifyDelivery(o) PROVE BillsInv'
  <2>1. \A p \in Order : /\ order'[p].shape = order[p].shape
                         /\ order'[p].cancelledOn = order[p].cancelledOn
                         /\ order'[p].legacy = order[p].legacy
    BY <1>2 DEF VerifyDelivery, ReturnInv, OrderRecord
  <2> QED
    BY <1>2, <2>1, BillsKept DEF VerifyDelivery, transactionVars, taxVars
<1>3. ASSUME NEW s \in Staff, NEW o \in Handled, NEW to \in Status, ReadOrder(s, o, to)
      PROVE  BillsInv'
  BY <1>3, BillsKept DEF ReadOrder, transactionVars, taxVars
<1>4. ASSUME NEW u \in updates, SaveOrder(u) PROVE BillsInv'
  <2>1. \A p \in Order : /\ order'[p].shape = order[p].shape
                         /\ order'[p].cancelledOn = order[p].cancelledOn
                         /\ order'[p].legacy = order[p].legacy
    BY <1>4 DEF SaveOrder, ReturnInv, OrderRecord
  <2> QED
    BY <1>4, <2>1, BillsKept DEF SaveOrder, transactionVars, taxVars
<1>5. ASSUME NEW n \in notes, AbortCreditNote(n) PROVE BillsInv'
  BY <1>5, BillsKept DEF AbortCreditNote, taxVars
<1>6. CASE DayPasses
  BY <1>6, BillsKept DEF DayPasses, transactionVars
<1>7. ASSUME NEW o, NEW method, NEW shape, DateInvoice(o, method, shape) PROVE BillsInv'
  BY <1>7, BillsKept DEF DateInvoice, taxVars
<1>8. ASSUME NEW o, NEW byCustomer, BeginCancel(o, byCustomer) PROVE BillsInv'
  BY <1>8, BillsKept DEF BeginCancel, taxVars
<1>9. ASSUME NEW t, AbortPlacement(t) \/ AbortCancellation(t) PROVE BillsInv'
  BY <1>9, BillsKept DEF AbortPlacement, AbortCancellation, taxVars
<1>10. ASSUME NEW t \in placements, PlaceOrder(t) PROVE BillsInv'
  BY <1>10, Placing, PlaceBills
<1>11. ASSUME NEW t \in cancellations, CancelOrder(t) PROVE BillsInv'
  BY <1>11, Cancelling, CancelBills, FulfilmentAssumption
<1> QED
  BY <1>1, <1>2, <1>3, <1>4, <1>5, <1>6, <1>7, <1>8, <1>9, <1>10, <1>11, ImportBills, BeginBills,
     CommitBills, FulfilmentAssumption
  DEF FulfilmentNext

\* What holds of the ledger and of the orders it bills.
LedgerInv == ReturnInv /\ TransactionsInv /\ SeriesInv /\ BillsInv /\ today \in 1..LastDay

LEMMA LedgerInit == FulfilmentInit => LedgerInv
BY ReturnInit, TransactionsInit, SeriesInit, BillsInit, DayInit DEF LedgerInv

LEMMA LedgerStep == LedgerInv /\ [FulfilmentNext]_fulfilmentVars => LedgerInv'
BY ReturnStep, TransactionsStep, SeriesStep, BillsStep, DayStep DEF LedgerInv

LEMMA LedgerHolds == FulfilmentSpec => []LedgerInv
BY LedgerInit, LedgerStep, PTL DEF FulfilmentSpec

\* The credit notes of an invoice never take back more of a line than it charged,
\* in amount, quantity, tax or either half of it: a note commits only if its lock
\* still holds, and then what it read is what is left.
THEOREM CreditsStayWithinInvoice == FulfilmentSpec => []CreditsWithinInvoice
<1>1. ASSUME BillsInv, NEW original \in documents, original.kind = "INVOICE",
             NEW i \in DOMAIN original.lines
      PROVE  LET left(field) == Left(original, CreditsOf(original.order), i, field) IN
             /\ left("lineTotal") >= 0 /\ left("quantity") >= 0
             /\ left("cgst") >= 0 /\ left("tax") >= left("cgst")
             /\ left("lineTotal") = 0 => left("tax") = 0 /\ left("cgst") = 0
             /\ \A note \in CreditsOf(original.order) :
                   i \in DOMAIN note.lines =>
                       \A field \in {"quantity", "tax", "cgst"} : note.lines[i][field] >= 0
  <2>0. original.order \in Order
    BY <1>1 DEF BillsInv
  <2>1. PICK o, credits : o \in Order /\ o = original.order /\ credits = CreditsOf(o)
    BY <2>0
  <2>2. Bill(documents, order[o], o) /\ original \in Invoices(documents, o)
    BY <1>1, <2>1 DEF BillsInv, Invoices
  <2>3. credits = Credits(documents, o)
    BY <2>1 DEF CreditsOf, Credits
  <2>4. Balanced(original, credits)
    BY <2>2, <2>3 DEF Bill
  <2>5. CreditsOf(original.order) = credits
    BY <2>1
  <2>6. ASSUME NEW note \in credits, i \in DOMAIN note.lines, NEW field \in {"quantity", "tax", "cgst"}
        PROVE  note.lines[i][field] >= 0
    <3>1. note.lines[i][field] \in Nat
      BY <2>4, <2>6, FieldsAre DEF Balanced
    <3> QED
      BY <3>1
  <2> QED
    BY <2>4, <2>5, <2>6 DEF Balanced
<1>2. BillsInv => CreditsWithinInvoice
  BY <1>1 DEF CreditsWithinInvoice
<1> QED
  BY <1>2, LedgerHolds, PTL DEF LedgerInv

\* An order cancelled in the financial year of its invoice is credited to the last
\* paisa by then: the cancellation takes the lock, so what it read is what is left.
THEOREM CancellationsAreCredited == FulfilmentSpec => []CancelledIsCredited
<1>1. ASSUME BillsInv, NEW o \in Order, order[o].cancelledOn > 0
      PROVE  \E original \in InvoiceOf(o) :
                FinancialYear(original.day) = FinancialYear(order[o].cancelledOn) =>
                    \A i \in DOMAIN original.lines :
                        Left(original, CreditsOf(o), i, "lineTotal") = 0
  <2>1. Bill(documents, order[o], o)
    BY <1>1 DEF BillsInv
  <2>2. InvoiceOf(o) = Invoices(documents, o) /\ CreditsOf(o) = Credits(documents, o)
    BY OriginalIs
  <2> QED
    BY <1>1, <2>1, <2>2 DEF Bill
<1>2. BillsInv => CancelledIsCredited
  BY <1>1 DEF CancelledIsCredited
<1> QED
  BY <1>2, LedgerHolds, PTL DEF LedgerInv

-----------------------------------------------------------------------------
(* The sealed filings are complete *)

LEMMA FilingStarts == FulfilmentInit /\ FilingInit => FilingInv
BY DEF FilingInit, FilingInv, FilingIsComplete

\* A step of the orders: what joins the ledger is of a transaction under way, or an
\* earlier invoice of a month not sealed yet; what begins is dated today.
Dated(d) ==
    \/ \E t \in placements : d.day = t.day /\ d.event = <<"invoice", t.order>>
    \/ \E t \in cancellations : d.day = t.day /\ d.event = <<"cancel", t.order>>
    \/ \E n \in notes : d.day = n.day /\ d.event = <<"credit", n.order, n.key>>
    \/ \E o \in Order : d.day = 1 /\ order[o].legacy /\ InvoiceOf(o) = {}

BegunToday ==
    /\ \A t \in placements' \ placements : t.day = today
    /\ \A t \in cancellations' \ cancellations : t.day = today
    /\ \A n \in notes' \ notes : n.day = today

Joining ==
    /\ \A d \in documents' \ documents : Dated(d)
    /\ documents \subseteq documents'
    /\ \A o \in Order : order'[o].legacy => order[o].legacy
    /\ BegunToday

LEMMA OriginalDated ==
    ASSUME BillsInv, NEW o \in Order, Exists(o)
    PROVE  Original(o) \in documents \/ Dated(Original(o))
<1>1. CASE Invoices(documents, o) # {}
  BY <1>1, OriginalIs
<1>2. CASE Invoices(documents, o) = {}
  <2>1. Original(o).day = 1 /\ InvoiceOf(o) = {}
    BY <1>2, OriginalIs
  <2>2. order[o].legacy
    BY <1>2 DEF BillsInv, Bill, Exists
  <2> QED
    BY <2>1, <2>2 DEF Dated
<1> QED
  BY <1>1, <1>2

LEMMA PlacingJoins ==
    ASSUME ReturnInv, NEW o \in Order, NEW method, NEW shape, NEW day, PlacedAs(o, method, shape, day)
    PROVE  Joining
<1>1. /\ documents \subseteq documents'
      /\ \A d \in documents' \ documents : d.day = day /\ d.event = <<"invoice", o>>
      /\ placements' \subseteq placements /\ UNCHANGED <<cancellations, notes>>
      /\ \E t \in placements : t.order = o /\ t.day = day
  BY DEF PlacedAs, IssueInvoice, Insert
<1>2. \A p \in Order : order'[p].legacy => order[p].legacy
  BY DEF PlacedAs, ReturnInv, OrderRecord
<1> QED
  BY <1>1, <1>2 DEF Joining, Dated, BegunToday

LEMMA CancellingJoins ==
    ASSUME ReturnInv, BillsInv, NEW o \in Order, NEW day, CancelledAs(o, day)
    PROVE  Joining
<1>1. Original(o) \in documents \/ Dated(Original(o))
  BY OriginalDated DEF CancelledAs
<1>2. CancelNote(o, day).day = day /\ CancelNote(o, day).event = <<"cancel", o>>
  BY DEF CancelNote
<1>3. /\ documents \subseteq documents'
      /\ \A d \in documents' \ documents : d = Original(o) \/ d = CancelNote(o, day)
      /\ cancellations' \subseteq cancellations /\ UNCHANGED <<placements, notes>>
      /\ \E t \in cancellations : t.order = o /\ t.day = day
  BY DEF CancelledAs
<1>4. \A p \in Order : order'[p].legacy => order[p].legacy
  BY DEF CancelledAs, Cancelled, ReturnInv, OrderRecord
<1>5. Dated(CancelNote(o, day))
  BY <1>2, <1>3 DEF Dated
<1>6. \A d \in documents' \ documents : Dated(d)
  BY <1>1, <1>3, <1>5
<1> QED
  BY <1>3, <1>4, <1>6 DEF Joining, BegunToday

LEMMA WhatJoins ==
    ASSUME LedgerInv, [FulfilmentNext]_fulfilmentVars
    PROVE  Joining
<1>0. order \in [Order -> OrderRecord] /\ Handled \subseteq Order
  BY FulfilmentAssumption DEF LedgerInv, ReturnInv
<1>1. ASSUME NEW t \in placements, PlaceOrder(t) PROVE Joining
  BY <1>1, Placing, PlacingJoins DEF LedgerInv
<1>2. ASSUME NEW t \in cancellations, CancelOrder(t) PROVE Joining
  BY <1>0, <1>2, Cancelling, CancellingJoins DEF LedgerInv
<1>3. ASSUME NEW o \in Order, ImportLegacyInvoice(o) PROVE Joining
  <2>1. /\ documents \subseteq documents' /\ UNCHANGED <<order, placements, cancellations, notes>>
        /\ \A d \in documents' \ documents : d = Original(o)
        /\ order[o].legacy /\ InvoiceOf(o) = {}
    BY <1>3 DEF ImportLegacyInvoice, transactionVars
  <2>2. Original(o).day = 1
    BY <2>1, OriginalIs
  <2> QED
    BY <2>1, <2>2 DEF Joining, Dated, BegunToday
<1>4. ASSUME NEW n \in notes, CommitCreditNote(n) PROVE Joining
  <2>1. /\ documents \subseteq documents' /\ UNCHANGED <<order, placements, cancellations>>
        /\ notes' \subseteq notes
        /\ \A d \in documents' \ documents :
              d.day = n.day /\ d.event = <<"credit", n.order, n.key>>
    BY <1>4 DEF CommitCreditNote
  <2> QED
    BY <2>1 DEF Joining, Dated, BegunToday
<1>5. ASSUME NEW o, NEW key, NEW selection, NEW gst, BeginCreditNote(key, o, selection, gst)
      PROVE  Joining
  BY <1>5 DEF BeginCreditNote, taxVars, Joining, BegunToday
<1>6. ASSUME NEW o, VerifyDelivery(o) PROVE Joining
  <2>1. \A p \in Order : order'[p].legacy => order[p].legacy
    BY <1>0, <1>6 DEF VerifyDelivery, OrderRecord
  <2> QED
    BY <1>6, <2>1 DEF VerifyDelivery, transactionVars, taxVars, Joining, BegunToday
<1>7. ASSUME NEW u \in updates, SaveOrder(u) PROVE Joining
  <2>1. \A p \in Order : order'[p].legacy => order[p].legacy
    BY <1>0, <1>7 DEF SaveOrder, OrderRecord
  <2> QED
    BY <1>7, <2>1 DEF SaveOrder, transactionVars, taxVars, Joining, BegunToday
<1>8. ASSUME NEW s, NEW o, NEW to, ReadOrder(s, o, to) PROVE Joining
  BY <1>8 DEF ReadOrder, transactionVars, taxVars, Joining, BegunToday
<1>9. ASSUME NEW t, AbortPlacement(t) \/ AbortCancellation(t) \/ AbortCreditNote(t) PROVE Joining
  BY <1>9 DEF AbortPlacement, AbortCancellation, AbortCreditNote, taxVars, Joining, BegunToday
<1>10. ASSUME DayPasses \/ UNCHANGED fulfilmentVars PROVE Joining
  BY <1>10 DEF DayPasses, fulfilmentVars, transactionVars, Joining, BegunToday
<1>11. ASSUME NEW o, NEW method, NEW shape, DateInvoice(o, method, shape) PROVE Joining
  BY <1>11 DEF DateInvoice, taxVars, Joining, BegunToday
<1>12. ASSUME NEW o, NEW byCustomer, BeginCancel(o, byCustomer) PROVE Joining
  BY <1>12 DEF BeginCancel, taxVars, Joining, BegunToday
<1> QED
  BY <1>0, <1>1, <1>2, <1>3, <1>4, <1>5, <1>6, <1>7, <1>8, <1>9, <1>10, <1>11, <1>12
  DEF FulfilmentNext

\* What one sealed filing needs: nothing of its month can still join but what was
\* under way at the seal.
Complete(filing) ==
    /\ filing.period \in Nat /\ filing.period < today
    /\ filing.period = 1 => \A o \in Order : order[o].legacy => InvoiceOf(o) # {}
    /\ DatedKnown(filing)
    /\ \A d \in DocumentsOf(filing.period) \ filing.references : d.event \in filing.underWay

LEMMA FilingIs == FilingInv <=> \A filing \in filings : Complete(filing)
BY DEF FilingInv, FilingIsComplete, Complete

LEMMA CompleteStays ==
    ASSUME LedgerInv, NEW filing, Complete(filing), [FulfilmentNext]_fulfilmentVars
    PROVE  Complete(filing)'
<1>1. /\ \A d \in documents' \ documents : Dated(d)
      /\ documents \subseteq documents'
      /\ \A o \in Order : order'[o].legacy => order[o].legacy
      /\ BegunToday
  BY WhatJoins DEF Joining
<1>2. today \in Nat /\ today' \in Nat /\ today' >= today
  BY DayStep DEF LedgerInv
<1>3. filing.period \in Nat /\ filing.period < today /\ filing.period # today
  BY <1>2 DEF Complete
<1>4. filing.period < today'
  BY <1>2, <1>3
<1>5. filing.period = 1 => \A o \in Order : order'[o].legacy => (InvoiceOf(o) # {})'
  BY <1>1 DEF Complete, InvoiceOf
<1>6. DatedKnown(filing)'
  BY <1>1, <1>3 DEF Complete, DatedKnown, BegunToday
<1>7. ASSUME NEW d \in documents', d.day = filing.period, d \notin filing.references
      PROVE  d.event \in filing.underWay
  <2>1. CASE d \in documents
    BY <1>7, <2>1 DEF Complete, DocumentsOf
  <2>2. CASE d \notin documents
    <3>1. Dated(d)
      BY <1>1, <1>7, <2>2
    <3> QED
      BY <1>3, <1>7, <3>1 DEF Dated, Complete, DatedKnown
  <2> QED
    BY <2>1, <2>2
<1> QED
  BY <1>3, <1>4, <1>5, <1>6, <1>7 DEF Complete, DocumentsOf

LEMMA FilingStep ==
    ASSUME LedgerInv, FilingInv, [FilingNext]_<<fulfilmentVars, filingVars>>
    PROVE  FilingInv'
<1>1. \A filing \in filings : Complete(filing)
  BY FilingIs
<1>2. CASE UNCHANGED filingVars /\ [FulfilmentNext]_fulfilmentVars
  <2>1. \A filing \in filings : Complete(filing)'
    BY <1>1, <1>2, CompleteStays
  <2>2. filings' = filings
    BY <1>2 DEF filingVars
  <2> QED
    BY <2>1, <2>2 DEF FilingInv, FilingIsComplete, Complete
<1>3. ASSUME UNCHANGED fulfilmentVars, NEW filing, Complete(filing) PROVE Complete(filing)'
  BY <1>3 DEF Complete, DatedKnown, DocumentsOf, InvoiceOf, fulfilmentVars
<1>4. ASSUME NEW period \in 1..LastDay, PrepareGstFiling(period) PROVE FilingInv'
  <2> DEFINE f == [period |-> period, references |-> DocumentsOf(period),
                   underWay |-> UnderWay(period)]
  <2>1. filings' = filings \union {f} /\ UNCHANGED fulfilmentVars /\ CanSeal(period)
    BY <1>4 DEF PrepareGstFiling
  <2>2. /\ f.period = period /\ f.references = DocumentsOf(period)
        /\ f.underWay = UnderWay(period)
    OBVIOUS
  <2> HIDE DEF f
  <2>3. period \in Nat /\ period < today
    BY <2>1 DEF CanSeal, LedgerInv
  <2>4. period = 1 => \A o \in Order : order[o].legacy => InvoiceOf(o) # {}
    BY <2>1 DEF CanSeal, Unimported
  <2>5. Complete(f)
    <3>1. DatedKnown(f)
      BY <2>2 DEF DatedKnown, UnderWay
    <3> QED
      BY <2>2, <2>3, <2>4, <3>1 DEF Complete
  <2>6. \A filing \in filings' : Complete(filing)'
    BY <1>1, <1>3, <2>1, <2>5
  <2> QED
    BY <2>6 DEF FilingInv, FilingIsComplete, Complete
<1>5. ASSUME NEW filing, NEW returnType, RecordPortalFiling(filing, returnType) PROVE FilingInv'
  <2>1. filings' = filings /\ UNCHANGED fulfilmentVars
    BY <1>5 DEF RecordPortalFiling
  <2>2. \A g \in filings' : Complete(g)'
    BY <1>1, <1>3, <2>1
  <2> QED
    BY <2>2 DEF FilingInv, FilingIsComplete, Complete
<1> QED
  BY <1>2, <1>4, <1>5 DEF FilingNext, filingVars

\* The filings only read the ledger.
LEMMA LedgerUnderFilings ==
    LedgerInv /\ [FilingNext]_<<fulfilmentVars, filingVars>> => LedgerInv'
<1>1. [FilingNext]_<<fulfilmentVars, filingVars>> => [FulfilmentNext]_fulfilmentVars
  BY DEF FilingNext, PrepareGstFiling, RecordPortalFiling
<1> QED
  BY <1>1, LedgerStep

\* A document of a sealed month that the seal does not refer to is one whose
\* transaction - the placing of an order, its cancellation, the owner's note - had
\* dated it when the month was sealed and was not over (prepareGstFiling).
THEOREM FilingsAreComplete == FilingSpec => []FilingIsComplete
<1>1. FulfilmentInit /\ FilingInit => LedgerInv /\ FilingInv
  BY LedgerInit, FilingStarts
<1>2. LedgerInv /\ FilingInv /\ [FilingNext]_<<fulfilmentVars, filingVars>> => LedgerInv' /\ FilingInv'
  BY LedgerUnderFilings, FilingStep
<1>3. FilingInv => FilingIsComplete
  BY DEF FilingInv
<1> QED
  BY <1>1, <1>2, <1>3, PTL DEF FilingSpec
=============================================================================
