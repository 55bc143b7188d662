------------------------------ MODULE Pricing -------------------------------
(***************************************************************************)
(* What an order costs: coupon discount, delivery fee and the GST inside   *)
(* the prices (pricing.service), the snapshot a payment session keeps of   *)
(* them, the order placed from that snapshot while the catalog's prices    *)
(* change, and the lines of its invoice (invoice.service).                 *)
(*                                                                         *)
(* Amounts are whole paise: a rupee amount of the code is always rounded   *)
(* to paise before it is used again.  Rounding is half up, as Math.round.  *)
(* One product stands for one product and variant.                         *)
(***************************************************************************)
EXTENDS Integers, SequencesExt

CONSTANTS
    Goods,          \* products
    GoodsPrices,    \* the prices and GST rates the catalog may give them
    GoodsRates,
    Carts,          \* sequences of [product, quantity], no product twice
    Coupons,        \* [type, value, max, least]
    FreeThreshold,  \* StoreSettings.freeDeliveryThreshold
    ZoneCharges,    \* what the zone of the address may charge
    MinimumCharge,  \* MIN_RAZORPAY_ORDER_AMOUNT_PAISE
    NoOrder

ASSUME PricingAssumption ==
    /\ GoodsPrices \subseteq Nat /\ GoodsRates \subseteq Nat /\ ZoneCharges \subseteq Nat
    /\ \A coupon \in Coupons : coupon.value \in Nat /\ coupon.max \in Nat
    /\ Carts \subseteq Seq([product : Goods, quantity : Nat]) \ {<<>>}
    /\ \A cart \in Carts : \A i, j \in DOMAIN cart : cart[i].product = cart[j].product => i = j

VARIABLES
    catalog,  \* price and rate of each product
    paidCart, \* checkoutSnapshot of the captured session, or NoOrder
    placed    \* the order: its items, totals and invoice lines; NoOrder or Refused

pricingVars == <<catalog, paidCart, placed>>

\* What becomes of an order whose payment does not match.
Refused == [refused |-> TRUE]

Rounded(n, d) == (2 * n + d) \div (2 * d)
Half(n) == Rounded(n, 2)
Total(s) == FoldLeft(LAMBDA a, b : a + b, 0, s)
Column(lines, F(_)) == [i \in DOMAIN lines |-> F(lines[i])]
LeastOf(a, b) == IF a < b THEN a ELSE b

-----------------------------------------------------------------------------
(* pricing.service and coupon.service *)

\* Mutant: every share is rounded on its own.
AllocateEach(amount, weights) ==
    [i \in DOMAIN weights |->
       IF Total(weights) > 0 THEN Rounded(amount * weights[i], Total(weights)) ELSE 0]

\* allocate: each weight takes its rounded share of what the earlier ones left.
PartOf(acc, weight) == IF acc.weight > 0 THEN Rounded(acc.left * weight, acc.weight) ELSE 0
TakeShare(acc, weight) ==
    [left |-> acc.left - PartOf(acc, weight), weight |-> acc.weight - weight,
     shares |-> Append(acc.shares, PartOf(acc, weight))]
Shares(amount, weights) ==
    FoldLeft(TakeShare, [left |-> amount, weight |-> Total(weights), shares |-> <<>>], weights).shares

Allocate(amount, weights) ==
    Shares(amount, IF \A i \in DOMAIN weights : weights[i] = 0
                   THEN [i \in DOMAIN weights |-> 1] ELSE weights)

GstIn(amount, rate) == Rounded(amount * rate, 100 + rate)

CalculateDiscount(coupon, subtotal) ==
    LET raw == IF coupon.type = "percentage" THEN Rounded(subtotal * coupon.value, 100)
               ELSE coupon.value
    IN LeastOf(subtotal, IF coupon.max > 0 THEN LeastOf(raw, coupon.max) ELSE raw)

\* An order without a coupon.
NoCoupon == [type |-> "flat", value |-> 0, max |-> 0, least |-> 0]

\* deliveryFeeForCart, on the subtotal before the coupon.
DeliveryFee(subtotal, charge) == IF subtotal >= FreeThreshold THEN 0 ELSE charge

Subtotal(items) == Total(Column(items, LAMBDA it : it.price * it.quantity))

CalculateCartTotals(items, couponDiscount, fee) ==
    LET gross == Column(items, LAMBDA it : it.price * it.quantity)
        discount == LeastOf(couponDiscount, Total(gross))
        discounts == Allocate(discount, gross)
        lines == [i \in DOMAIN items |->
            LET net == gross[i] - discounts[i]
            IN [product |-> items[i].product, rate |-> items[i].rate, net |-> net,
                tax |-> GstIn(net, items[i].rate),
                taxable |-> net - GstIn(net, items[i].rate)]]
        highest == CHOOSE r \in {items[i].rate : i \in DOMAIN items} :
                       \A i \in DOMAIN items : items[i].rate <= r
        deliveryTax == GstIn(fee, highest)
    IN [subtotal |-> Total(gross), discount |-> discount, gstLines |-> lines,
        fee |-> fee, deliveryRate |-> highest, deliveryTax |-> deliveryTax,
        tax |-> Total(Column(lines, LAMBDA l : l.tax)) + deliveryTax,
        total |-> Total(gross) + fee - discount]

-----------------------------------------------------------------------------
(* invoice.service: the lines and totals of the document, pricing version 4 *)

InvoiceLines(items, totals) ==
    LET goods == [i \in DOMAIN items |->
            [product |-> items[i].product, rate |-> items[i].rate,
             quantity |-> items[i].quantity,
             taxable |-> totals.gstLines[i].taxable, tax |-> totals.gstLines[i].tax]]
        lines == IF totals.fee = 0 THEN goods
                 ELSE Append(goods, [product |-> "delivery", rate |-> totals.deliveryRate,
                                     quantity |-> 0, taxable |-> totals.fee - totals.deliveryTax,
                                     tax |-> totals.deliveryTax])
        last == Len(lines)
        trusted == [lines EXCEPT ![last].tax =
                       @ + totals.tax - Total(Column(lines, LAMBDA l : l.tax))]
        upTo(i) == Total(Column(SubSeq(trusted, 1, i), LAMBDA l : l.tax))
    IN [i \in DOMAIN trusted |->
          LET l == trusted[i]
              cgst == Half(upTo(i)) - Half(upTo(i - 1))
          IN [product |-> l.product, rate |-> l.rate, quantity |-> l.quantity,
              taxable |-> l.taxable, tax |-> l.tax, cgst |-> cgst, sgst |-> l.tax - cgst,
              lineTotal |-> l.taxable + l.tax]]

\* documentClassForOrder: the series the invoice is numbered in.
DocumentClass(items) ==
    LET rates == {items[i].rate : i \in DOMAIN items}
    IN CASE rates = {0} -> "BILL_OF_SUPPLY"
         [] 0 \in rates /\ rates # {0} -> "INVOICE_CUM_BILL_OF_SUPPLY"
         [] OTHER -> "TAX_INVOICE"

-----------------------------------------------------------------------------
(* Checkout *)

\* hydrateItems: the cart at the catalog's prices.
Hydrated(cart) ==
    [i \in DOMAIN cart |-> [product |-> cart[i].product, quantity |-> cart[i].quantity,
                            price |-> catalog[cart[i].product].price,
                            rate |-> catalog[cart[i].product].rate]]

\* quoteOrder, and what both kinds of checkout charge.
Quoted(items, coupon, charge) ==
    CalculateCartTotals(items, CalculateDiscount(coupon, Subtotal(items)),
                        DeliveryFee(Subtotal(items), charge))

\* The item of the snapshot for an item of the cart.
Paid(item) == CHOOSE i \in DOMAIN paidCart.items : paidCart.items[i].product = item.product

\* Mutant: the order is priced from the catalog again.
SnapshotItemsRepriced(items) == items

\* applyCheckoutSnapshot: the order keeps the cart's sequence and the paid prices.
SnapshotItems(items) == [i \in DOMAIN items |-> paidCart.items[Paid(items[i])]]

\* checkoutTotalsForItems: the lines follow the sequence of the cart.
SnapshotTotals(items) ==
    [paidCart.totals EXCEPT !.gstLines =
        [i \in DOMAIN items |-> paidCart.totals.gstLines[Paid(items[i])]]]

PricingInit ==
    /\ catalog \in [Goods -> [price : GoodsPrices, rate : GoodsRates]]
    /\ paidCart = NoOrder
    /\ placed = NoOrder

\* createRazorpayCheckoutSession: the snapshot; the session is then captured.
PayCart(cart, coupon, charge) ==
    LET items == Hydrated(cart)
        totals == Quoted(items, coupon, charge)
    IN /\ paidCart = NoOrder /\ placed = NoOrder
       /\ Subtotal(items) >= coupon.least
       /\ totals.total >= MinimumCharge
       /\ paidCart' = [items |-> items, totals |-> totals, amount |-> totals.total]
       /\ UNCHANGED <<catalog, placed>>

\* updateProduct, while the customer pays.
RepriceProduct(p, price, rate) ==
    /\ paidCart # NoOrder /\ placed = NoOrder
    /\ catalog' = [catalog EXCEPT ![p] = [price |-> price, rate |-> rate]]
    /\ UNCHANGED <<paidCart, placed>>

Placed(items, totals) ==
    [items |-> items, totals |-> totals, lines |-> InvoiceLines(items, totals)]

\* performCreateOrder with razorpay: the same cart, in any sequence; the session
\* is consumed only for its own amount.
PlacePaid(cart) ==
    LET items == SnapshotItems(Hydrated(cart))
        totals == SnapshotTotals(items)
    IN /\ paidCart # NoOrder /\ placed = NoOrder
       /\ Len(cart) = Len(paidCart.items)
       /\ \A i \in DOMAIN cart : \E j \in DOMAIN paidCart.items :
             /\ paidCart.items[j].product = cart[i].product
             /\ paidCart.items[j].quantity = cart[i].quantity
       /\ placed' = IF totals.total = paidCart.amount THEN Placed(items, totals) ELSE Refused
       /\ UNCHANGED <<catalog, paidCart>>

\* performCreateOrder with cod: priced when it is placed.
PlaceCod(cart, coupon, charge) ==
    LET items == Hydrated(cart)
    IN /\ paidCart = NoOrder /\ placed = NoOrder
       /\ Subtotal(items) >= coupon.least
       /\ placed' = Placed(items, Quoted(items, coupon, charge))
       /\ UNCHANGED <<catalog, paidCart>>

PricingNext ==
    \/ \E cart \in Carts, coupon \in Coupons \union {NoCoupon}, charge \in ZoneCharges :
          PayCart(cart, coupon, charge) \/ PlaceCod(cart, coupon, charge)
    \/ \E p \in Goods, price \in GoodsPrices, rate \in GoodsRates : RepriceProduct(p, price, rate)
    \/ \E cart \in Carts : PlacePaid(cart)

PricingSpec == PricingInit /\ [][PricingNext]_pricingVars

-----------------------------------------------------------------------------
(* Properties *)

\* The invoice of an order adds up to the rupees charged: its lines, net of the
\* coupon, give the total and the tax, no amount is negative, the halves of the
\* tax are those of the totals, and each line carries the tax of its own rate,
\* whatever was repriced and in whatever sequence the paid cart came back.
InvoiceAddsUp ==
    placed \notin {NoOrder, Refused} =>
        LET lines == placed.lines
            sum(F(_)) == Total(Column(lines, F))
        IN /\ sum(LAMBDA l : l.lineTotal) = placed.totals.total
           /\ sum(LAMBDA l : l.tax) = placed.totals.tax
           /\ sum(LAMBDA l : l.cgst) = Half(placed.totals.tax)
           /\ \A i \in DOMAIN lines :
                /\ lines[i].tax = GstIn(lines[i].lineTotal, lines[i].rate)
                /\ lines[i].taxable >= 0 /\ lines[i].cgst >= 0 /\ lines[i].sgst >= 0

\* A captured payment buys the cart it was made for, at what was paid: prices
\* changed meanwhile neither refuse the order nor change it.
PaidCartIsHonoured ==
    (paidCart # NoOrder /\ placed # NoOrder) =>
        /\ placed # Refused
        /\ placed.totals.total = paidCart.amount
        /\ \A i \in DOMAIN placed.items : \E j \in DOMAIN paidCart.items :
              placed.items[i] = paidCart.items[j]
=============================================================================
