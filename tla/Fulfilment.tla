----------------------------- MODULE Fulfilment -----------------------------
(***************************************************************************)
(* An order after checkout (order.service): staff move it along, the       *)
(* customer or staff cancel it, the customer's code delivers it; and the   *)
(* tax documents that go with it, with the owner's credit notes            *)
(* (tax.routes).                                                           *)
(*                                                                         *)
(* A transaction that issues a tax document - the placing of an order, its *)
(* cancellation, the owner's credit note - is two steps: it reads what it  *)
(* works from and dates its document, and it commits, unless what it wrote *)
(* was committed by another since (a write conflict: the transaction is    *)
(* run again from its reads).  Its two looks at the clock, of the          *)
(* financial year and of the date, are one.  What the provider makes of a  *)
(* queued refund is RefundEngine's.                                        *)
(***************************************************************************)
EXTENDS TaxLedger

CONSTANTS
    InvoiceShapes,  \* the invoices considered: class and lines
    CreditAmounts,  \* bounds the amounts of the owner's credit notes
    NoteKey,        \* bounds the owner's credit notes: their idempotency keys
    Staff,          \* bounds the status updates in flight
    Handled,        \* bounds the orders staff and customers act on after checkout
    NoShape

\* The prices of an invoice include its tax, whose first half is cgst.
ASSUME FulfilmentAssumption ==
    /\ Handled \subseteq Order
    /\ NoShape \notin InvoiceShapes /\ CreditAmounts \subseteq Nat
    /\ \A shape \in InvoiceShapes :
          /\ shape.class \in InvoiceClass
          /\ \A i \in DOMAIN shape.lines :
                LET line == shape.lines[i] IN
                /\ line.lineTotal \in Nat /\ line.quantity \in Nat
                /\ line.tax \in 0..line.lineTotal /\ line.cgst \in 0..line.tax

VARIABLES
    order,    \* Order: status, method, payment status, what it sold, legacy invoice
    updates,        \* updateOrderStatus calls that read the order
    placements,     \* createOrder transactions under way, from their date on
    cancellations,  \* cancelOrder transactions under way, likewise
    notes           \* credit-note transactions under way

transactionVars == <<placements, cancellations, notes>>
fulfilmentVars == <<order, updates, placements, cancellations, notes,
                    documents, counter, lock, today>>

AllowedTransitions ==
    [placed |-> {"confirmed", "cancelled"}, confirmed |-> {"packed", "cancelled"},
     packed |-> {"out_for_delivery", "cancelled"}, out_for_delivery |-> {"delivered"},
     delivered |-> {}, cancelled |-> {}]
Status == DOMAIN AllowedTransitions
CanTransition(from, to) == to \in AllowedTransitions[from]
CanCustomerCancel(status) == status \in {"placed", "confirmed"}

Unplaced == [status |-> "placed", method |-> "cod", pay |-> "pending", shape |-> NoShape,
             restored |-> FALSE, returned |-> 0, cancelledOn |-> 0, legacy |-> FALSE]
Exists(o) == order[o].shape # NoShape

FulfilmentInit ==
    /\ TaxInit
    /\ \E legacy \in SUBSET Handled, shape \in InvoiceShapes :
          order = [o \in Order |->
                     IF o \in legacy
                     THEN [Unplaced EXCEPT !.shape = shape, !.legacy = TRUE] ELSE Unplaced]
    /\ updates = {} /\ placements = {} /\ cancellations = {} /\ notes = {}

-----------------------------------------------------------------------------
(* createOrder *)

\* performCreateOrder reaches issueOrderInvoice, which dates the invoice.
DateInvoice(o, method, shape) ==
    /\ ~Exists(o) /\ \A t \in placements : t.order # o
    /\ placements' = placements \union
          {[order |-> o, method |-> method, shape |-> shape, day |-> today,
            sequence |-> counter[<<shape.class, today>>]]}
    /\ UNCHANGED <<order, updates, cancellations, notes, taxVars>>

\* The transaction commits: the payment is made or owed, the invoice numbered.
PlaceOrder(t) ==
    /\ counter[<<t.shape.class, t.day>>] = t.sequence
    /\ order' = [order EXCEPT ![t.order].shape = t.shape, ![t.order].method = t.method,
                              ![t.order].pay = IF t.method = "razorpay" THEN "paid" ELSE "pending"]
    /\ IssueInvoice(t.order, t.shape.class, t.shape.lines, t.day)
    /\ placements' = placements \ {t}
    /\ UNCHANGED <<updates, cancellations, notes, lock, today>>

AbortPlacement(t) ==
    /\ placements' = placements \ {t}
    /\ UNCHANGED <<order, updates, cancellations, notes, taxVars>>

-----------------------------------------------------------------------------
(* updateOrderStatus: read, check, save *)

ReadOrder(s, o, to) ==
    /\ \A u \in updates : u.staff # s
    /\ Exists(o) /\ to \notin {"cancelled", "delivered"}
    /\ CanTransition(order[o].status, to)
    /\ updates' = updates \union {[staff |-> s, order |-> o, to |-> to]}
    /\ UNCHANGED <<order, transactionVars, taxVars>>

SaveOrder(u) ==
    /\ order' = [order EXCEPT ![u.order].status = u.to]
    /\ updates' = updates \ {u}
    /\ UNCHANGED <<transactionVars, taxVars>>

\* verifyDeliveryOtp: one conditional update.
VerifyDelivery(o) ==
    /\ Exists(o) /\ order[o].status = "out_for_delivery"
    /\ order' = [order EXCEPT ![o].status = "delivered",
                              ![o].pay = IF order[o].method = "cod" THEN "paid" ELSE @]
    /\ UNCHANGED <<updates, transactionVars, taxVars>>

-----------------------------------------------------------------------------
(* cancelOrder *)

\* The invoice in the ledger, or the one the transaction imports.
Original(o) == IF InvoiceOf(o) # {} THEN CHOOSE d \in InvoiceOf(o) : TRUE
               ELSE Legacy(o, 1, order[o].shape.lines)

\* queueOrderRefund; what the refund makes of the order later is RefundEngine's.
PayAfterCancel(o) ==
    IF order[o].method = "razorpay" /\ order[o].pay = "paid" THEN "refund_pending" ELSE order[o].pay

\* Mutant: the stock goes back whether or not it went back before.
CancelledAgain(o, day) ==
    [order EXCEPT ![o].status = "cancelled", ![o].pay = PayAfterCancel(o), ![o].restored = TRUE,
                  ![o].returned = @ + 1, ![o].cancelledOn = day]

\* inventoryRestoredAt is set when restoreOrderInventory and releaseSlot have run.
Cancelled(o, day) ==
    [order EXCEPT ![o].status = "cancelled", ![o].pay = PayAfterCancel(o), ![o].restored = TRUE,
                  ![o].returned = IF order[o].restored THEN @ ELSE @ + 1,
                  ![o].cancelledOn = day]

\* The transaction reads the order and dates its credit note.  Of two it is the
\* first to write the credit lock that dates a note; the other conflicts before.
BeginCancel(o, byCustomer) ==
    /\ Exists(o) /\ order[o].status # "cancelled"
    /\ byCustomer => CanCustomerCancel(order[o].status)
    /\ CanTransition(order[o].status, "cancelled")
    /\ \A t \in cancellations : t.order # o
    /\ cancellations' = cancellations \union
          {[order |-> o, read |-> order[o], imports |-> InvoiceOf(o) = {}, day |-> today,
            lock |-> lock[o], sequence |-> counter[<<"CREDIT_NOTE", today>>]]}
    /\ UNCHANGED <<order, updates, placements, notes, taxVars>>

\* The order it saves was not saved since, and an invoice it imports not imported.
CancelOrder(t) ==
    /\ order[t.order] = t.read /\ (InvoiceOf(t.order) = {}) = t.imports
    /\ order' = Cancelled(t.order, t.day)
    /\ RecordCancellation(Original(t.order), t)
    /\ cancellations' = cancellations \ {t}
    /\ UNCHANGED <<updates, placements, notes, today>>

AbortCancellation(t) ==
    /\ cancellations' = cancellations \ {t}
    /\ UNCHANGED <<order, updates, placements, notes, taxVars>>

-----------------------------------------------------------------------------
(* The owner's credit notes: issueCreditNote in a transaction of its own *)

\* The transaction reads; a call whose key has its note already returns it.
BeginCreditNote(key, o, selection, gst) ==
    LET original == Original(o)
        class == IF gst THEN "CREDIT_NOTE" ELSE "COMMERCIAL_CREDIT_NOTE"
    IN /\ InvoiceOf(o) # {} /\ \A n \in notes : n.key # key
       /\ ~HasEvent(<<"credit", o, key>>)
       /\ gst => ~PastDeadline(today, original)
       /\ DOMAIN selection \subseteq DOMAIN original.lines
       /\ Creditable(original, CreditsOf(o), selection)
       /\ CanNumber(<<class, today>>)
       /\ notes' = notes \union {[key |-> key, order |-> o, class |-> class, day |-> today,
                                  lock |-> lock[o], sequence |-> counter[<<class, today>>],
                                  lines |-> CreditLines(original, CreditsOf(o), selection)]}
       /\ UNCHANGED <<order, updates, placements, cancellations, taxVars>>

\* Mutant: without the credit lock only the counter of the series conflicts.
NoConflictOfSeries(n) == counter[<<n.class, n.day>>] = n.sequence

\* Mutant: the counter of the series does not conflict.
NoConflictOfLock(n) == lock[n.order] = n.lock

\* A write conflict on the lock or on the counter ends the transaction, which
\* is then run again from its reads.
NoConflict(n) == lock[n.order] = n.lock /\ counter[<<n.class, n.day>>] = n.sequence

CommitCreditNote(n) ==
    /\ NoConflict(n)
    /\ lock' = [lock EXCEPT ![n.order] = @ + 1]
    /\ counter' = [counter EXCEPT ![<<n.class, n.day>>] = @ + 1]
    /\ documents' = documents \union
          {[kind |-> "CREDIT_NOTE", class |-> n.class, order |-> n.order, day |-> n.day,
            event |-> <<"credit", n.order, n.key>>, sequence |-> n.sequence + 1,
            lines |-> n.lines]}
    /\ notes' = notes \ {n}
    /\ UNCHANGED <<order, updates, placements, cancellations, today>>

AbortCreditNote(n) ==
    /\ notes' = notes \ {n}
    /\ UNCHANGED <<order, updates, placements, cancellations, taxVars>>

\* migrate-tax-ledger: the invoices of earlier orders join the ledger.
ImportLegacyInvoice(o) ==
    /\ order[o].legacy /\ InvoiceOf(o) = {}
    /\ documents' = documents \union {Original(o)}
    /\ UNCHANGED <<order, updates, transactionVars, counter, lock, today>>

DayPasses ==
    /\ today < LastDay
    /\ today' = today + 1
    /\ UNCHANGED <<order, updates, transactionVars, documents, counter, lock>>

Selections == [{1} -> [amount : CreditAmounts, quantity : {0, 1}]]
                 \union [{2} -> [amount : CreditAmounts, quantity : {0}]]

\* How an order was paid shows only in what is done with it later.
Method(o) == IF o \in Handled THEN {"cod", "razorpay"} ELSE {"cod"}

FulfilmentNext ==
    \/ \E o \in Handled :
          \/ VerifyDelivery(o)
          \/ \E byCustomer \in BOOLEAN : BeginCancel(o, byCustomer)
          \/ \E s \in Staff, to \in Status : ReadOrder(s, o, to)
    \/ \E o \in Order :
          \/ ImportLegacyInvoice(o)
          \/ \E method \in Method(o), shape \in InvoiceShapes : DateInvoice(o, method, shape)
          \/ \E key \in NoteKey, selection \in Selections, gst \in BOOLEAN :
                BeginCreditNote(key, o, selection, gst)
    \/ \E u \in updates : SaveOrder(u)
    \/ \E t \in placements : PlaceOrder(t) \/ AbortPlacement(t)
    \/ \E t \in cancellations : CancelOrder(t) \/ AbortCancellation(t)
    \/ \E n \in notes : CommitCreditNote(n) \/ AbortCreditNote(n)
    \/ DayPasses

FulfilmentSpec == FulfilmentInit /\ [][FulfilmentNext]_fulfilmentVars

-----------------------------------------------------------------------------
(* Properties *)

\* Stock and slot go back exactly once for an order that was cancelled, also
\* when a status update read before the cancellation is saved over it and the
\* order is cancelled again.
StockReturnedOnce ==
    \A o \in Order :
        /\ order[o].returned <= 1
        /\ order[o].status = "cancelled" => order[o].returned = 1
        /\ order[o].restored <=> order[o].returned = 1

\* An order cancelled in the financial year of its invoice is credited to the
\* last paisa by then, whatever notes were issued before or under way.
CancelledIsCredited ==
    \A o \in Order :
        order[o].cancelledOn > 0 =>
            \E original \in InvoiceOf(o) :
                FinancialYear(original.day) = FinancialYear(order[o].cancelledOn) =>
                    \A i \in DOMAIN original.lines :
                        Left(original, CreditsOf(o), i, "lineTotal") = 0

\* As the transition table has it, a cancelled order stays cancelled.
CancelledStaysCancelled ==
    [][\A o \in Order : order[o].status = "cancelled" => order'[o].status = "cancelled"]_fulfilmentVars
=============================================================================
