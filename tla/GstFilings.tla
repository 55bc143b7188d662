----------------------------- MODULE GstFilings -----------------------------
(***************************************************************************)
(* The owner seals a month of the tax ledger for a return and records that *)
(* it was filed (tax.service: loadTaxReport, prepareGstFiling,             *)
(* recordPortalFiling), while orders are cancelled and credit notes issued.*)
(* A day of the calendar is a month.                                       *)
(*                                                                         *)
(* A sealed filing is a snapshot in a transaction that writes nothing the  *)
(* ledger's transactions write: nothing conflicts with it.                 *)
(***************************************************************************)
EXTENDS Fulfilment

CONSTANT MaxFilings  \* bounds the filings

VARIABLES
    filings,          \* GstFiling: period and references; what was under way
    acknowledgements  \* GstFilingEvent

filingVars == <<filings, acknowledgements>>

FilingInit == filings = {} /\ acknowledgements = {}

\* loadTaxReport, as of now: the documents issued in the period.
DocumentsOf(period) == {d \in documents : d.day = period}

GrandTotal(lines) == MapThenSumSet(LAMBDA i : lines[i].lineTotal, DOMAIN lines)
CreditedTotal(o) == MapThenSumSet(LAMBDA d : GrandTotal(d.lines), CreditsOf(o))

\* REFUND_REVIEW: an order of the period was cancelled, and its notes, of any
\* period, do not add up to its invoice.
NeedsRefundReview(period) ==
    \E d \in DocumentsOf(period) :
        /\ d.kind = "INVOICE" /\ order[d.order].status = "cancelled"
        /\ CreditedTotal(d.order) < GrandTotal(d.lines)

\* unimportedInvoices: earlier orders of the first period that the ledger has not.
Unimported(period) == {o \in Order : period = 1 /\ order[o].legacy /\ InvoiceOf(o) = {}}

\* Mutant: earlier orders are only reported.
CanSealUnimported(period) == today > period /\ ~NeedsRefundReview(period)

\* What prepareGstFiling asks of the period.
CanSeal(period) == today > period /\ Unimported(period) = {} /\ ~NeedsRefundReview(period)

\* The documents of transactions that dated them in the period and are not over.
UnderWay(period) ==
    {<<"invoice", t.order>> : t \in {u \in placements : u.day = period}}
        \union {<<"cancel", t.order>> : t \in {u \in cancellations : u.day = period}}
        \union {<<"credit", n.order, n.key>> : n \in {m \in notes : m.day = period}}

PrepareGstFiling(period) ==
    /\ Cardinality(filings) < MaxFilings
    /\ CanSeal(period)
    /\ filings' = filings \union
          {[period |-> period, references |-> DocumentsOf(period), underWay |-> UnderWay(period)]}
    /\ UNCHANGED <<fulfilmentVars, acknowledgements>>

\* gst_period_return_unique
OpenReturn(filing, returnType) ==
    ~\E a \in acknowledgements : a.filing.period = filing.period /\ a.returnType = returnType

\* recordPortalFiling, when filingDocuments finds every document it refers to.
RecordPortalFiling(filing, returnType) ==
    /\ filing.references \subseteq documents
    /\ OpenReturn(filing, returnType)
    /\ acknowledgements' = acknowledgements \union {[filing |-> filing, returnType |-> returnType]}
    /\ UNCHANGED <<fulfilmentVars, filings>>

FilingNext ==
    \/ FulfilmentNext /\ UNCHANGED filingVars
    \/ \E period \in 1..LastDay : PrepareGstFiling(period)
    \/ \E filing \in filings, returnType \in {"GSTR1", "GSTR3B"} :
          RecordPortalFiling(filing, returnType)

FilingSpec ==
    FulfilmentInit /\ FilingInit /\ [][FilingNext]_<<fulfilmentVars, filingVars>>

-----------------------------------------------------------------------------
(* Properties *)

\* A document of a sealed month that the seal does not refer to - an invoice, the
\* note of a cancellation, the owner's note - is one whose transaction had dated it
\* when the month was sealed and was not over: the seal waits for none of them.
\* Nothing else joins a sealed month: what is begun or run again later is dated
\* later, and an earlier order's invoice still to be imported held the seal up.
FilingIsComplete ==
    \A filing \in filings : \A d \in DocumentsOf(filing.period) \ filing.references :
        d.event \in filing.underWay
=============================================================================
