----------------------------- MODULE Purchasing -----------------------------
(***************************************************************************)
(* A purchase order and what follows it (internal/purchasing): goods       *)
(* receipts, purchase invoices, returns to the supplier and landed costs,  *)
(* with the stock they move and the counters they keep on the order.       *)
(*                                                                         *)
(* Every command is one serializable transaction and one step; a refused   *)
(* one changes nothing.  Quantities are in base units.  Payments, which    *)
(* also keep an invoice from being cancelled, are module Finance's.        *)
(***************************************************************************)
EXTENDS Integers, Sequences, FiniteSets, FiniteSetsExt

CONSTANTS
    Receipts, Invoices, Returns, LandedCosts,
    LineType,       \* the type of each line of the order
    UnitCost,       \* and the cost of a unit of its product
    Policy,         \* purchase_orders.over_delivery_policy
    OrderInputs,    \* what may be ordered, a quantity for each line
    Deliveries,     \* what a receipt or a return may say, the same way
    Bills,          \* what an invoice may say: its sources and its lines
    Charges,        \* amounts of a landed cost, in the smallest unit of money
    MaxIssued       \* what others take of each product

Lines == DOMAIN LineType
Products == {l \in Lines : LineType[l] = "PRODUCT"}
Services == Lines \ Products
Quantities == [Lines -> Nat]
NoQuantity == [l \in Lines |-> 0]

\* What an invoice line bills: a line of the order, of a receipt, or neither.  Two
\* lines of one invoice may say the same: they are told apart by their line_no.
BillLines == [no: Nat \ {0}, from: Receipts \cup {"ORDER", "NONE"}, line: Lines, qty: Nat \ {0}]

ASSUME ShapeAssumption ==
    /\ LineType \in Seq({"PRODUCT", "SERVICE"}) /\ UnitCost \in [Products -> Nat]
    /\ Policy \in {"ALLOW", "WARN", "BLOCK"}
    /\ "ORDER" \notin Receipts /\ "NONE" \notin Receipts /\ MaxIssued \in [Products -> Nat] /\ Charges \subseteq Nat \ {0}
ASSUME InputAssumption ==
    /\ OrderInputs \subseteq Quantities \ {NoQuantity}
    /\ Deliveries \subseteq {q \in Quantities : q # NoQuantity /\ \A l \in Services : q[l] = 0}
    /\ Bills \subseteq [order: BOOLEAN, receipts: SUBSET Receipts, lines: SUBSET BillLines]

VARIABLES
    order,      \* purchase_orders.status, and ordered_quantity of its lines
    received,   \* purchase_order_lines.received_quantity
    invoiced,   \* purchase_order_lines.invoiced_quantity
    receipt,    \* goods_receipts: status, whether of the order, accepted quantities
    invoice,    \* purchase_invoices: status, sources and lines
    return,     \* purchase_returns: status, receipt, quantities
    allocs,     \* commercial_line_allocations
    stock,      \* stock_positions of the products
    issued,     \* what others took from them
    landed      \* purchase_landed_costs and their lines

vars == <<order, received, invoiced, receipt, invoice, return, allocs, stock, issued, landed>>

NoReceipt == [status |-> "NONE", order |-> FALSE, qty |-> NoQuantity]
NoInvoice == [status |-> "NONE", order |-> FALSE, receipts |-> {}, lines |-> {}]
NoReturn == [status |-> "NONE", from |-> "NONE", qty |-> NoQuantity]
NoLanded == [status |-> "NONE", from |-> "NONE", amount |-> 0, lines |-> [l \in {} |-> 0]]

Active == {"CONFIRMED", "PARTIALLY_FULFILLED", "FULFILLED"}
DocStatus == {"NONE", "DRAFT", "POSTED", "CANCELLED"}

\* Every variable holds a value of its type.
TypeOK ==
    /\ order.status \in {"NONE", "DRAFT", "CANCELLED"} \cup Active /\ order.qty \in Quantities
    /\ received \in Quantities /\ invoiced \in Quantities
    /\ receipt \in [Receipts -> [status: DocStatus, order: BOOLEAN, qty: Quantities]]
    /\ \A i \in Invoices :
          /\ invoice[i].status \in DocStatus /\ invoice[i].order \in BOOLEAN
          /\ invoice[i].receipts \subseteq Receipts /\ invoice[i].lines \subseteq BillLines
    /\ return \in [Returns -> [status: DocStatus, from: Receipts \cup {"NONE"}, qty: Quantities]]
    /\ allocs \subseteq [type: {"FULFILLMENT", "INVOICING", "RETURN"}, from: Receipts \cup {"ORDER"},
                         line: Lines, to: Receipts \cup Invoices \cup Returns, no: Nat \ {0}, qty: Nat \ {0}]
    /\ stock \in [Products -> Nat] /\ issued \in [Products -> Nat]
    /\ \A c \in LandedCosts : landed[c].status \in {"NONE", "DRAFT", "POSTED"} /\ landed[c].amount \in Nat

Init ==
    /\ order = [status |-> "NONE", qty |-> NoQuantity]
    /\ received = NoQuantity /\ invoiced = NoQuantity
    /\ receipt = [r \in Receipts |-> NoReceipt] /\ invoice = [i \in Invoices |-> NoInvoice]
    /\ return = [t \in Returns |-> NoReturn] /\ allocs = {}
    /\ stock = [l \in Products |-> 0] /\ issued = [l \in Products |-> 0]
    /\ landed = [c \in LandedCosts |-> NoLanded]
-----------------------------------------------------------------------------
(* Sums, and the order's status *)

Sum(S, f(_)) == MapThenSumSet(f, S)

\* What is allocated of a line of the order or of a receipt.
Allocated(type, from, l) ==
    Sum({a \in allocs : a.type = type /\ a.from = from /\ a.line = l}, LAMBDA a : a.qty)

\* What an invoice bills of the order's line l: its own lines, and those of
\* receipts that were made from the order (lockInvoiceAllocationSourceTx sets
\* their purchase_order_line_id).
LinkedLines(b, l) ==
    {x \in b.lines : x.line = l /\ (x.from = "ORDER" \/ (x.from \in Receipts /\ receipt[x.from].order))}
Linked(b, l) == Sum(LinkedLines(b, l), LAMBDA x : x.qty)

\* Services are fulfilled by invoices, products by receipts.
Done(rec, inv, l) == IF LineType[l] = "SERVICE" THEN inv[l] ELSE rec[l]
OrderLines == {l \in Lines : order.qty[l] > 0}

\* purchaseFulfillmentStatus, and the count of refreshOrderStatusTx.
FulfilmentStatus(rec, inv) ==
    IF \A l \in OrderLines : Done(rec, inv, l) >= order.qty[l] THEN "FULFILLED"
    ELSE IF \E l \in OrderLines : Done(rec, inv, l) > 0 THEN "PARTIALLY_FULFILLED"
    ELSE "CONFIRMED"

\* refreshOrderStatusTx, after the counters have moved.  It leaves a cancelled or
\* draft order alone.
Refresh == order' = IF order.status \in Active THEN [order EXCEPT !.status = FulfilmentStatus(received', invoiced')] ELSE order
-----------------------------------------------------------------------------
(* The order *)

CreatePurchaseOrder(q) ==
    /\ order.status = "NONE" /\ order' = [status |-> "DRAFT", qty |-> q]
    /\ UNCHANGED <<received, invoiced, receipt, invoice, return, allocs, stock, issued, landed>>
\* Neither is done while something is allocated of the order's lines.
UpdatePurchaseOrder(q) ==
    /\ order.status = "DRAFT" /\ ~ \E a \in allocs : a.from = "ORDER"
    /\ order' = [order EXCEPT !.qty = q]
    /\ UNCHANGED <<received, invoiced, receipt, invoice, return, allocs, stock, issued, landed>>
DeletePurchaseOrder ==
    /\ order.status = "DRAFT" /\ ~ \E a \in allocs : a.from = "ORDER"
    /\ order' = [status |-> "NONE", qty |-> NoQuantity]
    /\ UNCHANGED <<received, invoiced, receipt, invoice, return, allocs, stock, issued, landed>>
ConfirmPurchaseOrder ==
    /\ order.status = "DRAFT" /\ order' = [order EXCEPT !.status = "CONFIRMED"]
    /\ UNCHANGED <<received, invoiced, receipt, invoice, return, allocs, stock, issued, landed>>
\* An order that is partly received may be cancelled; its receipts stay.
CancelPurchaseOrder ==
    /\ order.status \in {"CONFIRMED", "PARTIALLY_FULFILLED"}
    /\ order' = [order EXCEPT !.status = "CANCELLED"]
    /\ UNCHANGED <<received, invoiced, receipt, invoice, return, allocs, stock, issued, landed>>
-----------------------------------------------------------------------------
(* Drafts.  What one says is checked when it is saved and again when it is posted. *)

\* What a receipt needs of its order.  Past the ordered quantity, BLOCK refuses
\* and the other policies set a warning.
Receivable(ofOrder, q) ==
    ofOrder => /\ order.status \in {"CONFIRMED", "PARTIALLY_FULFILLED"}
               /\ \A l \in Lines : q[l] > 0 => order.qty[l] > 0
               /\ Policy = "BLOCK" => \A l \in Lines : q[l] > 0 => received[l] + q[l] <= order.qty[l]

SaveReceipt(r, ofOrder, q) ==
    /\ Receivable(ofOrder, q)
    /\ receipt' = [receipt EXCEPT ![r] = [status |-> "DRAFT", order |-> ofOrder, qty |-> q]]
    /\ UNCHANGED <<order, received, invoiced, invoice, return, allocs, stock, issued, landed>>
CreateGoodsReceipt(r, ofOrder, q) == receipt[r].status = "NONE" /\ SaveReceipt(r, ofOrder, q)
UpdateGoodsReceipt(r, ofOrder, q) == receipt[r].status = "DRAFT" /\ SaveReceipt(r, ofOrder, q)

\* lockInvoiceAllocationSourceTx.  An invoice of receipts alone may also bill lines
\* of an order, whose status is then not looked at.
Billable(b) ==
    /\ b.order => order.status \in Active
    /\ \A r \in b.receipts : receipt[r].status = "POSTED" /\ (b.order => receipt[r].order)
    /\ \A x \in b.lines :
         /\ x.from \in Receipts => /\ x.from \in b.receipts /\ LineType[x.line] = "PRODUCT"
                                   /\ receipt[x.from].qty[x.line] > 0
         /\ x.from = "ORDER" => (b.order \/ b.receipts # {}) /\ order.qty[x.line] > 0
         /\ x.from = "NONE" => ~b.order /\ b.receipts = {}

SaveInvoice(i, b) ==
    /\ b.lines # {} /\ Billable(b)
    /\ invoice' = [invoice EXCEPT ![i] = [status |-> "DRAFT", order |-> b.order,
                                          receipts |-> b.receipts, lines |-> b.lines]]
    /\ UNCHANGED <<order, received, invoiced, receipt, return, allocs, stock, issued, landed>>
CreatePurchaseInvoice(i, b) == invoice[i].status = "NONE" /\ SaveInvoice(i, b)
UpdatePurchaseInvoice(i, b) == invoice[i].status = "DRAFT" /\ SaveInvoice(i, b)

\* lockPurchaseReturnSourceTx: what posted returns and this one take back was accepted.
Returnable(r, q) ==
    /\ r \in Receipts /\ receipt[r].status = "POSTED"
    /\ \A l \in Lines : q[l] > 0 =>
         q[l] + Sum({t \in Returns : return[t].status = "POSTED" /\ return[t].from = r}, LAMBDA t : return[t].qty[l])
           <= receipt[r].qty[l]

SaveReturn(t, r, q) ==
    /\ Returnable(r, q)
    /\ return' = [return EXCEPT ![t] = [status |-> "DRAFT", from |-> r, qty |-> q]]
    /\ UNCHANGED <<order, received, invoiced, receipt, invoice, allocs, stock, issued, landed>>
CreatePurchaseReturn(t, r, q) == return[t].status = "NONE" /\ SaveReturn(t, r, q)
UpdatePurchaseReturn(t, r, q) == return[t].status = "DRAFT" /\ SaveReturn(t, r, q)

\* A draft has no allocations, so it is simply removed.
DeletePurchaseDraft(d) ==
    /\ \/ /\ d \in Receipts /\ receipt[d].status = "DRAFT" /\ receipt' = [receipt EXCEPT ![d] = NoReceipt]
          /\ UNCHANGED <<invoice, return>>
       \/ /\ d \in Invoices /\ invoice[d].status = "DRAFT" /\ invoice' = [invoice EXCEPT ![d] = NoInvoice]
          /\ UNCHANGED <<receipt, return>>
       \/ /\ d \in Returns /\ return[d].status = "DRAFT" /\ return' = [return EXCEPT ![d] = NoReturn]
          /\ UNCHANGED <<receipt, invoice>>
    /\ UNCHANGED <<order, received, invoiced, allocs, stock, issued, landed>>
-----------------------------------------------------------------------------
(* ConvertPurchaseDocument: a draft of all that remains *)

\* Mutant: what was received is not taken off.
MutToReceive == [l \in Lines |-> IF l \in Products THEN order.qty[l] ELSE 0]

\* What remains of each line, of the order and of a receipt.
ToReceive == [l \in Lines |-> IF l \in Products /\ order.qty[l] > received[l] THEN order.qty[l] - received[l] ELSE 0]
ToBill(l) == (IF LineType[l] = "SERVICE" THEN order.qty[l] ELSE received[l]) - invoiced[l]
ToBillOf(r, l) == receipt[r].qty[l] - Allocated("INVOICING", r, l)
ToReturn(r) == [l \in Lines |-> receipt[r].qty[l] - Allocated("RETURN", r, l)]

OrderBill == [order |-> TRUE, receipts |-> {},
              lines |-> {[no |-> l, from |-> "ORDER", line |-> l, qty |-> ToBill(l)] : l \in {k \in OrderLines : ToBill(k) > 0}}]
ReceiptBill(r) == [order |-> FALSE, receipts |-> {r},
                   lines |-> {[no |-> l, from |-> r, line |-> l, qty |-> ToBillOf(r, l)] : l \in {k \in Products : ToBillOf(r, k) > 0}}]

ConvertOrderToReceipt(r) == ToReceive # NoQuantity /\ CreateGoodsReceipt(r, TRUE, ToReceive)
\* remainingPurchaseBetweenQuantities takes no zero: one product of which nothing
\* has been received fails the whole conversion.
Convertible == \A l \in OrderLines \cap Products : received[l] > 0
ConvertOrderToInvoice(i) == Convertible /\ CreatePurchaseInvoice(i, OrderBill)
ConvertReceiptToInvoice(i, r) == receipt[r].status = "POSTED" /\ CreatePurchaseInvoice(i, ReceiptBill(r))
ConvertReceiptToReturn(t, r) ==
    receipt[r].status = "POSTED" /\ ToReturn(r) # NoQuantity /\ CreatePurchaseReturn(t, r, ToReturn(r))
-----------------------------------------------------------------------------
(* Posting *)

\* allocatePurchaseLinesTx: no more than the source line holds.
Allocatable(type, from, l, q, base) == Allocated(type, from, l) + q <= base

\* postPurchaseMovementsTx and its reversal; stock never becomes negative.
Move(sign, q) ==
    /\ \A l \in Products : stock[l] + sign * q[l] >= 0
    /\ stock' = [l \in Products |-> stock[l] + sign * q[l]]
In == 1
Out == -1

\* Past the ordered quantity a receipt is refused here whatever the policy says.
FinalizeGoodsReceipt(r) ==
    LET d == receipt[r]
    IN  /\ d.status = "DRAFT" /\ Receivable(d.order, d.qty)
        /\ IF d.order
           THEN /\ \A l \in Products : d.qty[l] > 0 => Allocatable("FULFILLMENT", "ORDER", l, d.qty[l], order.qty[l])
                /\ allocs' = allocs \cup {[type |-> "FULFILLMENT", from |-> "ORDER", line |-> l, to |-> r, no |-> l, qty |-> d.qty[l]] :
                                            l \in {k \in Products : d.qty[k] > 0}}
                /\ received' = [l \in Lines |-> received[l] + d.qty[l]] /\ UNCHANGED invoiced /\ Refresh
           ELSE UNCHANGED <<allocs, received, invoiced, order>>
        /\ Move(In, d.qty)
        /\ receipt' = [receipt EXCEPT ![r].status = "POSTED"]
        /\ UNCHANGED <<invoice, return, issued, landed>>

\* purchaseInvoicePostsStock: the product lines that name no source.
DirectQuantity(b) == [l \in Lines |-> Sum({x \in b.lines : x.from = "NONE" /\ x.line = l /\ l \in Products}, LAMBDA x : x.qty)]

\* allocateInvoiceQuantityTx: products are billed once received, services once ordered.
WithinOrder(b) ==
    \A l \in Lines : Linked(b, l) > 0 =>
        invoiced[l] + Linked(b, l) <= IF LineType[l] = "SERVICE" THEN order.qty[l] ELSE received[l]

\* What the lines of an invoice take of their sources, one after the other; the
\* allocation of a line that names both a receipt and an order is the receipt's.
WithinSources(b) ==
    \A x \in {y \in b.lines : y.from # "NONE"} :
        Allocatable("INVOICING", x.from, x.line, Sum({y \in b.lines : y.from = x.from /\ y.line = x.line}, LAMBDA y : y.qty),
                    IF x.from = "ORDER" THEN order.qty[x.line] ELSE receipt[x.from].qty[x.line])

FinalizePurchaseInvoice(i) ==
    LET b == invoice[i]
    IN  /\ b.status = "DRAFT" /\ Billable(b) /\ WithinOrder(b) /\ WithinSources(b)
        /\ allocs' = allocs \cup {[type |-> "INVOICING", from |-> x.from, line |-> x.line, to |-> i,
                                     no |-> x.no, qty |-> x.qty] :
                                    x \in {y \in b.lines : y.from # "NONE"}}
        /\ invoiced' = [l \in Lines |-> invoiced[l] + Linked(b, l)] /\ UNCHANGED received
        /\ IF \E l \in Lines : Linked(b, l) > 0 THEN Refresh ELSE UNCHANGED order
        /\ Move(In, DirectQuantity(b))
        /\ invoice' = [invoice EXCEPT ![i].status = "POSTED"]
        /\ UNCHANGED <<receipt, return, issued, landed>>

FinalizePurchaseReturn(t) ==
    LET d == return[t]
    IN  /\ d.status = "DRAFT" /\ Returnable(d.from, d.qty)
        /\ \A l \in Products : d.qty[l] > 0 => Allocatable("RETURN", d.from, l, d.qty[l], receipt[d.from].qty[l])
        /\ allocs' = allocs \cup {[type |-> "RETURN", from |-> d.from, line |-> l, to |-> t, no |-> l, qty |-> d.qty[l]] :
                                    l \in {k \in Products : d.qty[k] > 0}}
        /\ Move(Out, d.qty)
        /\ return' = [return EXCEPT ![t].status = "POSTED"]
        /\ UNCHANGED <<order, received, invoiced, receipt, invoice, issued, landed>>
-----------------------------------------------------------------------------
(* cancelPurchasePosting.  A cancelled document is never read again: its contents *)
(* are not kept.                                                                  *)

\* Something that still draws on a receipt.
Kept(r) == \E a \in allocs : a.from = r /\ a.type \in {"INVOICING", "RETURN"}

\* The checks on purchase_order_lines.
LineChecks == \A l \in Lines : received'[l] >= 0 /\ invoiced'[l] >= 0 /\ (l \in Products => invoiced'[l] <= received'[l])

\* Mutant: the counter of the order stays.
MutRollback(d, counted) == allocs' = {a \in allocs : a.to # d} /\ UNCHANGED <<received, invoiced>> /\ Refresh

\* rollbackPurchaseProjectionsTx for a receipt
Rollback(d, counted) ==
    /\ allocs' = {a \in allocs : a.to # d}
    /\ received' = [l \in Lines |-> received[l] - counted[l]] /\ UNCHANGED invoiced
    /\ LineChecks /\ Refresh

CancelGoodsReceipt(r) ==
    LET d == receipt[r]
    IN  /\ d.status = "POSTED" /\ ~Kept(r)
        /\ Move(Out, d.qty)
        /\ IF d.order THEN Rollback(r, d.qty) ELSE UNCHANGED <<allocs, received, invoiced, order>>
        /\ receipt' = [receipt EXCEPT ![r] = [NoReceipt EXCEPT !.status = "CANCELLED"]]
        /\ UNCHANGED <<invoice, return, issued, landed>>

\* finance_invoice_return_attributions: a posted return of a receipt reduces the
\* invoices that bill the same line of it.
Reduced(i) ==
    \E t \in Returns : \E x \in invoice[i].lines :
        return[t].status = "POSTED" /\ return[t].from = x.from /\ return[t].qty[x.line] > 0

CancelPurchaseInvoice(i) ==
    LET b == invoice[i]
    IN  /\ b.status = "POSTED" /\ ~Reduced(i)
        /\ Move(Out, DirectQuantity(b))
        /\ allocs' = {a \in allocs : a.to # i}
        /\ invoiced' = [l \in Lines |-> invoiced[l] - Linked(b, l)] /\ UNCHANGED received
        /\ LineChecks
        /\ IF b.order \/ \E x \in b.lines : x.from = "ORDER" THEN Refresh ELSE UNCHANGED order
        /\ invoice' = [invoice EXCEPT ![i] = [NoInvoice EXCEPT !.status = "CANCELLED"]]
        /\ UNCHANGED <<receipt, return, issued, landed>>

CancelPurchaseReturn(t) ==
    /\ return[t].status = "POSTED"
    /\ Move(In, return[t].qty)
    /\ allocs' = {a \in allocs : a.to # t}
    /\ return' = [return EXCEPT ![t] = [NoReturn EXCEPT !.status = "CANCELLED"]]
    /\ UNCHANGED <<order, received, invoiced, receipt, invoice, issued, landed>>

\* Sales, transfers and counts take from the same positions.
Issue(l) ==
    /\ stock[l] > 0 /\ issued[l] < MaxIssued[l]
    /\ stock' = [stock EXCEPT ![l] = @ - 1] /\ issued' = [issued EXCEPT ![l] = @ + 1]
    /\ UNCHANGED <<order, received, invoiced, receipt, invoice, return, allocs, landed>>
-----------------------------------------------------------------------------
(* Landed costs *)

Weight(q, method, l) == IF method = "AMOUNT" THEN q[l] * UnitCost[l] ELSE q[l]

\* allocateLandedCostLinesTx: each line has its share rounded down, and what is left
\* goes, a unit each, to the lines with the largest remainders, the first line first.
Shares(amount, w) ==
    LET total == Sum(DOMAIN w, LAMBDA l : w[l])
        floor(l) == (amount * w[l]) \div total
        rest(l) == (amount * w[l]) % total
        before(l) == {k \in DOMAIN w : rest(k) > rest(l) \/ (rest(k) = rest(l) /\ k < l)}
        left == amount - Sum(DOMAIN w, floor)
    IN  [l \in DOMAIN w |-> floor(l) + IF Cardinality(before(l)) < left THEN 1 ELSE 0]

CreateLandedCost(c, r, amount, method) ==
    LET w(l) == Weight(receipt[r].qty, method, l)
        weighing == {l \in Products : w(l) > 0}
    IN  /\ landed[c].status = "NONE" /\ receipt[r].status = "POSTED" /\ weighing # {}
        /\ landed' = [landed EXCEPT ![c] = [status |-> "DRAFT", from |-> r, amount |-> amount,
                                            lines |-> Shares(amount, [l \in weighing |-> w(l)])]]
        /\ UNCHANGED <<order, received, invoiced, receipt, invoice, return, allocs, stock, issued>>

\* Every line of a posted receipt has the cost layer that is adjusted.  Nothing
\* takes an adjustment back when the receipt is cancelled.
PostLandedCost(c) ==
    /\ landed[c].status = "DRAFT" /\ receipt[landed[c].from].status = "POSTED"
    /\ landed' = [landed EXCEPT ![c].status = "POSTED"]
    /\ UNCHANGED <<order, received, invoiced, receipt, invoice, return, allocs, stock, issued>>
-----------------------------------------------------------------------------
(* What readers are shown *)

\* purchaseInvoicingStatus and purchaseOrderInvoicingStatus
InvoicingStatus ==
    IF \A l \in OrderLines : invoiced[l] >= order.qty[l] THEN "INVOICED"
    ELSE IF \E l \in OrderLines : invoiced[l] > 0 THEN "PARTIALLY_INVOICED"
    ELSE "UNINVOICED"

\* The detail of an order counts its lines, and offers what is left of them
\* (applyPurchaseStatuses, applyPurchaseActions).
GetPurchaseOrder ==
    [fulfilment |-> FulfilmentStatus(received, invoiced), invoicing |-> InvoicingStatus,
     canReceive |-> order.status \in Active /\ ToReceive # NoQuantity,
     canBill |-> order.status \in Active /\ \E l \in Lines : order.qty[l] > invoiced[l],
     canCancel |-> order.status \in {"CONFIRMED", "PARTIALLY_FULFILLED"}]

\* A row of the list shows the stored status; as a source for receipts it lists the
\* orders of purchaseReferenceListPredicateForTarget.
ListPurchaseDocuments ==
    [fulfilment |-> IF order.status \in {"PARTIALLY_FULFILLED", "FULFILLED"} THEN order.status ELSE "CONFIRMED",
     forReceipt |-> order.status \in {"CONFIRMED", "PARTIALLY_FULFILLED"} /\ ToReceive # NoQuantity,
     forInvoice |-> order.status \in Active /\ \E l \in OrderLines : ToBill(l) > 0]

\* The detail of a receipt: how much of it is billed, and what is left to bill.
GetGoodsReceipt(r) ==
    LET billed == Sum(Products, LAMBDA l : Allocated("INVOICING", r, l))
        total == Sum(Products, LAMBDA l : receipt[r].qty[l])
    IN  [invoicing |-> IF billed = 0 THEN "UNINVOICED" ELSE IF billed >= total THEN "INVOICED" ELSE "PARTIALLY_INVOICED",
         canBill |-> receipt[r].status = "POSTED" /\ \E l \in Products : ToBillOf(r, l) > 0,
         canReturn |-> receipt[r].status = "POSTED" /\ ToReturn(r) # NoQuantity]
-----------------------------------------------------------------------------
Save ==
    \/ \E r \in Receipts, o \in BOOLEAN, q \in Deliveries : CreateGoodsReceipt(r, o, q) \/ UpdateGoodsReceipt(r, o, q)
    \/ \E i \in Invoices, b \in Bills : CreatePurchaseInvoice(i, b) \/ UpdatePurchaseInvoice(i, b)
    \/ \E t \in Returns, r \in Receipts, q \in Deliveries : CreatePurchaseReturn(t, r, q) \/ UpdatePurchaseReturn(t, r, q)
    \/ \E d \in Receipts \cup Invoices \cup Returns : DeletePurchaseDraft(d)
Convert ==
    \/ \E r \in Receipts : ConvertOrderToReceipt(r)
    \/ \E i \in Invoices : ConvertOrderToInvoice(i) \/ \E r \in Receipts : ConvertReceiptToInvoice(i, r)
    \/ \E t \in Returns, r \in Receipts : ConvertReceiptToReturn(t, r)
Next ==
    \/ \E q \in OrderInputs : CreatePurchaseOrder(q) \/ UpdatePurchaseOrder(q)
    \/ DeletePurchaseOrder \/ ConfirmPurchaseOrder \/ CancelPurchaseOrder
    \/ Save \/ Convert
    \/ \E r \in Receipts : FinalizeGoodsReceipt(r) \/ CancelGoodsReceipt(r)
    \/ \E i \in Invoices : FinalizePurchaseInvoice(i) \/ CancelPurchaseInvoice(i)
    \/ \E t \in Returns : FinalizePurchaseReturn(t) \/ CancelPurchaseReturn(t)
    \/ \E l \in Products : Issue(l)
    \/ \E c \in LandedCosts : PostLandedCost(c)
    \/ \E c \in LandedCosts, r \in Receipts, a \in Charges, m \in {"AMOUNT", "QUANTITY"} : CreateLandedCost(c, r, a, m)

Spec == Init /\ [][Next]_vars
-----------------------------------------------------------------------------
(* Properties *)

Posted(v) == {d \in DOMAIN v : v[d].status = "POSTED"}

\* The counters of the order and the allocations are those of the documents that
\* are posted, in whatever order these were posted and cancelled: what cancelling a
\* document takes back is what posting it added.
CountersMatchDocuments ==
    /\ \A l \in Lines :
         /\ received[l] = Sum({r \in Posted(receipt) : receipt[r].order}, LAMBDA r : receipt[r].qty[l])
         /\ invoiced[l] = Sum(Posted(invoice), LAMBDA i : Linked(invoice[i], l))
    /\ \A d \in Receipts \cup Invoices \cup Returns :
         (\E a \in allocs : a.to = d) => d \in Posted(receipt) \cup Posted(invoice) \cup Posted(return)
    /\ \A t \in Posted(return) : \A l \in Products : return[t].qty[l] > 0 =>
         \E a \in allocs : a.type = "RETURN" /\ a.to = t /\ a.line = l /\ a.qty = return[t].qty[l]

\* No goods are billed or sent back twice: what posted invoices take of a receipt
\* and of the order, on whichever path, was received, and what posted returns take
\* of a receipt was accepted, and the receipt is still there.
NothingTwice ==
    /\ \A l \in Products :
         /\ Sum(Posted(invoice), LAMBDA i : Linked(invoice[i], l)) <=
              Sum({r \in Posted(receipt) : receipt[r].order}, LAMBDA r : receipt[r].qty[l])
         /\ \A r \in Receipts :
              /\ Sum({x \in UNION {invoice[i].lines \X {i} : i \in Posted(invoice)} : x[1].from = r /\ x[1].line = l},
                     LAMBDA x : x[1].qty) <= receipt[r].qty[l]
              /\ Sum({t \in Posted(return) : return[t].from = r}, LAMBDA t : return[t].qty[l]) <= receipt[r].qty[l]
    /\ \A i \in Posted(invoice) : \A x \in invoice[i].lines : x.from \in Receipts => receipt[x.from].status = "POSTED"
    /\ \A t \in Posted(return) : receipt[return[t].from].status = "POSTED"

\* The readers agree: the list, which shows an open order's stored status, and the
\* detail, which counts its lines; the list of orders to receive from and the offer
\* to receive; the list of orders to bill and the offer to bill, but for the goods of
\* which none is received that is not billed, which only the detail counts; and a
\* receipt is shown as invoiced exactly when nothing of it is left to bill.
ReadersAgree ==
    /\ order.status \in Active =>
         /\ GetPurchaseOrder.fulfilment = ListPurchaseDocuments.fulfilment
         /\ GetPurchaseOrder.canReceive = ListPurchaseDocuments.forReceipt
         /\ ListPurchaseDocuments.forInvoice => GetPurchaseOrder.canBill
         /\ GetPurchaseOrder.canBill =>
              \/ ListPurchaseDocuments.forInvoice
              \/ \A l \in OrderLines : invoiced[l] < order.qty[l] => l \in Products /\ received[l] = invoiced[l]
    /\ \A r \in Posted(receipt) : (GetGoodsReceipt(r).invoicing = "INVOICED") = ~GetGoodsReceipt(r).canBill

\* What an offered conversion drafts, saved and posted as it stands.
CanBill(b) == b.lines # {} /\ Billable(b) /\ WithinOrder(b) /\ WithinSources(b)

\* What a conversion drafts can be posted as it stands: when the order offers a
\* receipt (CanCreateDispatch) the rest of it can be received; what the list offers
\* to bill of the order can be billed; what a receipt offers to bill can be billed,
\* and what it offers to return can be returned.  Three offers are refused: an order
\* with a product of which nothing has come is not converted to an invoice; goods of
\* a receipt that were billed through the order's own lines cannot be billed through
\* the receipt; and goods that others took from the stock cannot be returned.
ConvertedFits ==
    /\ GetPurchaseOrder.canReceive =>
         /\ Receivable(TRUE, ToReceive)
         /\ \A l \in Products : Allocated("FULFILLMENT", "ORDER", l) + ToReceive[l] <= order.qty[l]
    /\ ListPurchaseDocuments.forInvoice => CanBill(OrderBill) \/ ~Convertible
    /\ \A r \in Receipts :
         /\ GetGoodsReceipt(r).canBill =>
              \/ CanBill(ReceiptBill(r))
              \/ receipt[r].order /\ \E l \in Products : Allocated("INVOICING", "ORDER", l) > 0
         /\ GetGoodsReceipt(r).canReturn =>
              /\ ToReturn(r) \in Quantities /\ Returnable(r, ToReturn(r))
              /\ \A l \in Products : ToReturn(r)[l] <= stock[l] + issued[l]

\* Stock is what posted receipts and invoices without a source brought in, less what
\* posted returns and others took out: no document moves it twice, none leaves it
\* moved when it is cancelled.
StockFollowsDocuments ==
    \A l \in Products :
        stock[l] + issued[l] = Sum(Posted(receipt), LAMBDA r : receipt[r].qty[l])
                               + Sum(Posted(invoice), LAMBDA i : Sum({x \in invoice[i].lines : x.from = "NONE" /\ x.line = l}, LAMBDA x : x.qty))
                               - Sum(Posted(return), LAMBDA t : return[t].qty[l])

\* A landed cost is handed out to the last unit, and no line's share is a whole unit
\* away from its exact part of the amount ("the shares always sum to amount exactly").
LandedIsWhole ==
    \A c \in {k \in LandedCosts : landed[k].status # "NONE"} :
        LET d == landed[c]
        IN  /\ Sum(DOMAIN d.lines, LAMBDA l : d.lines[l]) = d.amount
            /\ receipt[d.from].status = "POSTED" =>
                 \E m \in {"AMOUNT", "QUANTITY"} :
                   LET w(l) == Weight(receipt[d.from].qty, m, l)
                       total == Sum(Products, w)
                   IN  \A l \in Products :
                         LET off == total * (IF l \in DOMAIN d.lines THEN d.lines[l] ELSE 0) - d.amount * w(l)
                         IN  total > 0 /\ off < total /\ -off < total

\* Goods are counted once: by the order's counters, by the bills and returns made of
\* them, in stock, and by the landed costs that are handed out to them.
GoodsAreCountedOnce ==
    CountersMatchDocuments /\ NothingTwice /\ StockFollowsDocuments /\ LandedIsWhole

\* What the pages offer is there, on the list as on the detail, and what is drafted
\* from the offer can be posted as it stands, but for the cases ReadersAgree and
\* ConvertedFits name.
OffersCanBeTaken == ReadersAgree /\ ConvertedFits
=============================================================================
