----------------------------- MODULE TaxLedger ------------------------------
(***************************************************************************)
(* The append-only ledger of tax documents (modules/taxes): the invoice of *)
(* an order, its credit notes, and the counters that number them.          *)
(*                                                                         *)
(* Amounts are whole paise.  The operators here are the parts of a         *)
(* database transaction; Fulfilment composes them with the order.          *)
(***************************************************************************)
EXTENDS Integers, FiniteSets, FiniteSetsExt

CONSTANTS
    Order,        \* orders
    LastDay,      \* bounds the calendar
    MaxSequence   \* numbers of a series: 999999 in the code

ASSUME TaxAssumption == LastDay \in Nat \ {0} /\ MaxSequence \in Nat \ {0}

VARIABLES
    documents,  \* TaxDocument
    counter,    \* InvoiceCounter of a series
    lock,       \* InvoiceCounter "credit-lock" of an invoice
    today       \* the store's date

taxVars == <<documents, counter, lock, today>>

InvoiceClass == {"TAX_INVOICE", "BILL_OF_SUPPLY", "INVOICE_CUM_BILL_OF_SUPPLY"}
CreditClass == {"CREDIT_NOTE", "COMMERCIAL_CREDIT_NOTE"}
Series == (InvoiceClass \union CreditClass) \X (1..LastDay)

\* The calendar, a month a day: the first is in one financial year, whose
\* credit-note deadline is the second, the others are in the next.
FinancialYear(day) == IF day = 1 THEN 1 ELSE 2
PastDeadline(day, original) == original.day = 1 /\ day > 2

TaxInit ==
    /\ documents = {} /\ counter = [s \in Series |-> 0]
    /\ lock = [o \in Order |-> 0] /\ today = 1

-----------------------------------------------------------------------------
InvoiceOf(o) == {d \in documents : d.order = o /\ d.kind = "INVOICE"}
CreditsOf(o) == {d \in documents : d.order = o /\ d.kind = "CREDIT_NOTE"}
HasEvent(event) == \E d \in documents : d.event = event

\* nextTaxNumber with sequentialInvoiceNumber: the last number ends the series.
CanNumber(series) == counter[series] < MaxSequence

\* insertDocument
Insert(kind, class, o, day, event, lines) ==
    /\ counter' = [counter EXCEPT ![<<class, day>>] = @ + 1]
    /\ documents' = documents \union
         {[kind |-> kind, class |-> class, order |-> o, day |-> day, event |-> event,
           sequence |-> counter[<<class, day>>] + 1, lines |-> lines]}

\* issueOrderInvoice, dated when it was called
IssueInvoice(o, class, lines, day) ==
    /\ CanNumber(<<class, day>>)
    /\ Insert("INVOICE", class, o, day, <<"invoice", o>>, lines)

\* importLegacyInvoice: an invoice issued before the ledger keeps its number.
Legacy(o, day, lines) ==
    [kind |-> "INVOICE", class |-> "TAX_INVOICE", order |-> o, day |-> day,
     event |-> <<"invoice", o>>, sequence |-> 0, lines |-> lines]

-----------------------------------------------------------------------------
(* creditNoteLines *)

\* A sum counts the units the notes took back: whole paise, or pieces.
Units(notes, i, field) ==
    UNION {{d} \X (1..d.lines[i][field]) : d \in {e \in notes : i \in DOMAIN e.lines}}
Used(notes, i, field) == Cardinality(Units(notes, i, field))
Left(original, notes, i, field) == original.lines[i][field] - Used(notes, i, field)

Smaller(a, b) == IF a < b THEN a ELSE b
Larger(a, b) == IF a < b THEN b ELSE a
Share(n, part, whole) == (2 * n * part + whole) \div (2 * whole)

Creditable(original, notes, selection) ==
    \A i \in DOMAIN selection :
        /\ selection[i].amount > 0
        /\ selection[i].amount <= Left(original, notes, i, "lineTotal")
        /\ selection[i].quantity <= Left(original, notes, i, "quantity")

CreditLines(original, notes, selection) ==
    [i \in DOMAIN selection |->
        LET gross == selection[i].amount
            line == original.lines[i]
            full == gross = Left(original, notes, i, "lineTotal")
            taxLeft == Left(original, notes, i, "tax")
            cgstLeft == Left(original, notes, i, "cgst")
            sgstLeft == taxLeft - cgstLeft
            tax == IF full THEN taxLeft
                   ELSE Smaller(taxLeft, Share(line.tax, gross, line.lineTotal))
            cgst == IF full THEN cgstLeft
                    ELSE Smaller(Smaller(tax, cgstLeft),
                                 Larger(tax - sgstLeft, Share(line.cgst, gross, line.lineTotal)))
        IN [lineTotal |-> gross, quantity |-> selection[i].quantity, tax |-> tax, cgst |-> cgst]]

\* Mutant: a line with a credit note is passed over.
RemainderUntouched(original, notes) ==
    [i \in {j \in DOMAIN original.lines : Used(notes, j, "lineTotal") = 0} |->
        [amount |-> Left(original, notes, i, "lineTotal"),
         quantity |-> Left(original, notes, i, "quantity")]]

\* What an order's cancellation credits: all that is left of each line.
Remainder(original, notes) ==
    [i \in {j \in DOMAIN original.lines : Left(original, notes, j, "lineTotal") > 0} |->
        [amount |-> Left(original, notes, i, "lineTotal"),
         quantity |-> Left(original, notes, i, "quantity")]]

\* recordOrderCancellation, whose note the deadline cannot miss: it is issued only
\* within the financial year of the invoice, and if anything is left to credit.
\* The note has the date of the call; the lock and the counter are those it read.
RecordCancellation(original, t) ==
    LET o == t.order
        selection == Remainder(original, CreditsOf(o)) IN
    IF FinancialYear(original.day) = FinancialYear(t.day) /\ DOMAIN selection # {}
    THEN /\ CanNumber(<<"CREDIT_NOTE", t.day>>)
         /\ lock[o] = t.lock /\ counter[<<"CREDIT_NOTE", t.day>>] = t.sequence
         /\ lock' = [lock EXCEPT ![o] = @ + 1]
         /\ counter' = [counter EXCEPT ![<<"CREDIT_NOTE", t.day>>] = @ + 1]
         /\ documents' = documents \union {original,
               [kind |-> "CREDIT_NOTE", class |-> "CREDIT_NOTE", order |-> o, day |-> t.day,
                event |-> <<"cancel", o>>, sequence |-> counter[<<"CREDIT_NOTE", t.day>>] + 1,
                lines |-> CreditLines(original, CreditsOf(o), selection)]}
    ELSE /\ documents' = documents \union {original}
         /\ UNCHANGED <<counter, lock>>

-----------------------------------------------------------------------------
(* Properties *)

\* The credit notes of an invoice never take back more of a line than it
\* charged - not in amount, tax, either half of the tax, or quantity - nor charge
\* with a negative entry, and once the whole amount of a line is credited so is its
\* whole tax: however the notes were split, rounded, and raced by a cancellation.
CreditsWithinInvoice ==
    \A original \in {d \in documents : d.kind = "INVOICE"} :
        \A i \in DOMAIN original.lines :
            LET left(field) == Left(original, CreditsOf(original.order), i, field) IN
            /\ left("lineTotal") >= 0 /\ left("quantity") >= 0
            /\ left("cgst") >= 0 /\ left("tax") >= left("cgst")
            /\ left("lineTotal") = 0 => left("tax") = 0 /\ left("cgst") = 0
            /\ \A note \in CreditsOf(original.order) :
                  i \in DOMAIN note.lines =>
                      \A field \in {"quantity", "tax", "cgst"} : note.lines[i][field] >= 0

\* The numbers of a series run from one without a gap or a repetition, although
\* transactions take them concurrently and are aborted.
SeriesGapless ==
    \A s \in Series :
        LET issued == {d \in documents : <<d.class, d.day>> = s /\ d.sequence > 0} IN
        /\ {d.sequence : d \in issued} = 1..counter[s]
        /\ Cardinality(issued) = counter[s]
=============================================================================
