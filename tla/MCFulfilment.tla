----------------------------- MODULE MCFulfilment ---------------------------
(***************************************************************************)
(* Fulfilment for model checking: one shape of invoice, a line of two      *)
(* units whose amount and tax are odd and a delivery charge.               *)
(***************************************************************************)
EXTENDS Fulfilment, Sequences

Line(lineTotal, tax, cgst, quantity) ==
    [lineTotal |-> lineTotal, tax |-> tax, cgst |-> cgst, quantity |-> quantity]
MCInvoiceShapes == {[class |-> "TAX_INVOICE", lines |-> <<Line(7, 3, 2, 2), Line(3, 1, 0, 0)>>]}
=============================================================================
