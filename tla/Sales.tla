-------------------------------- MODULE Sales --------------------------------
(***************************************************************************)
(* A sales order and the documents made from it: dispatches, invoices and  *)
(* returns (internal/sales/commercial.go), the reservations that hold its  *)
(* stock (internal/inventory/commercial.go) and the trigger that guards    *)
(* allocations (000001_baseline.sql).                                      *)
(*                                                                         *)
(* Every command is a serializable transaction and one step; a refused one *)
(* (wrong state, stale version, too little stock, a credit limit, a locked *)
(* period) changes nothing.                                                *)
(*                                                                         *)
(* A document has one source, or none ("DIRECT"), and for each line of the *)
(* order the quantity it takes from the same line of its source; a posted  *)
(* document has every line allocated in full, or none.  An allocation row  *)
(* exists while its document does, is RESERVED in a draft and CONSUMED in  *)
(* a posted one, and is deleted with a cancellation, so the rows follow    *)
(* from doc.  Each line has its own product, and there is one warehouse.   *)
(***************************************************************************)
EXTENDS Integers, FiniteSets, FiniteSetsExt, Functions

CONSTANTS
    Lines,                          \* the lines of the order, all PRODUCT
    Ordered,                        \* the base quantity of each
    Opening,                        \* the opening stock of its product
    Dispatches, Invoices, Returns,  \* the documents that may be made
    Quantities                      \* what a document may take of each line

Docs == Dispatches \cup Invoices \cup Returns

ASSUME QuantityAssumption ==
    /\ Lines # {} /\ Ordered \in [Lines -> Nat \ {0}] /\ Opening \in [Lines -> Nat]
    /\ Quantities \subseteq [Lines -> Nat] /\ \A q \in Quantities : \E l \in Lines : q[l] > 0
ASSUME KindAssumption ==
    /\ IsFiniteSet(Docs)
    /\ Dispatches \cap Invoices = {} /\ Dispatches \cap Returns = {} /\ Invoices \cap Returns = {}
    /\ {"ORDER", "DIRECT"} \cap Docs = {}

VARIABLES
    order,      \* sales_orders.status
    hold,       \* sales_order_reservations, a row for each line once confirmed
    doc,        \* the other documents
    physical,   \* stock_positions.physical_quantity
    reserved    \* stock_positions.reserved_quantity

vars == <<order, hold, doc, physical, reserved>>

NoDoc == [status |-> "NONE", src |-> "DIRECT", qty |-> [l \in Lines |-> 0]]
OpenStates == {"CONFIRMED", "PARTIALLY_FULFILLED", "FULFILLED"}

\* Every variable holds a value of its type; in particular stock is not negative
\* and a reservation is never used for more than it reserves.
TypeOK ==
    /\ order \in OpenStates \cup {"DRAFT", "CANCELLED"}
    /\ hold \in [Lines -> [status: {"NONE", "ACTIVE", "CONSUMED", "RELEASED"},
                           consumed: Nat, released: Nat]]
    /\ \A l \in Lines : hold[l].consumed + hold[l].released <= Ordered[l]
    /\ doc \in [Docs -> [status: {"NONE", "DRAFT", "POSTED", "CANCELLED"},
                         src: Docs \cup {"ORDER", "DIRECT"}, qty: [Lines -> Nat]]]
    /\ physical \in [Lines -> Nat] /\ reserved \in [Lines -> Nat]

Init ==
    /\ order = "DRAFT"
    /\ hold = [l \in Lines |-> [status |-> "NONE", consumed |-> 0, released |-> 0]]
    /\ doc = [d \in Docs |-> NoDoc]
    /\ physical = Opening
    /\ reserved = [l \in Lines |-> 0]
-----------------------------------------------------------------------------
(* The allocation ledger *)

Posted(D) == {d \in D : doc[d].status = "POSTED"}
Total(D, l) == SumFunctionOnSet([d \in Docs |-> doc[d].qty[l]], D)
From(D, s) == {d \in Posted(D) : doc[d].src = s}

\* CONSUMED allocations of type FULFILLMENT on a line of the order, or of
\* another document: only dispatches of the order make them.
Fulfilled(s, l) == IF s = "ORDER" THEN Total(From(Dispatches, "ORDER"), l) ELSE 0

\* commercialOrderLineInvoicedTotal: invoices made from the line, and invoices
\* made from a line of a dispatch with a CONSUMED allocation on it.
InvoicedTotal(s, l) ==
    Total(From(Invoices, s), l)
    + SumFunctionOnSet([d \in Dispatches |-> Total(From(Invoices, d), l)],
                       IF s = "ORDER" THEN From(Dispatches, "ORDER") ELSE {})

SourceBase(s, l) == IF s = "ORDER" THEN Ordered[l] ELSE doc[s].qty[l]
SameKind(d) == IF d \in Dispatches THEN Dispatches
               ELSE IF d \in Invoices THEN Invoices ELSE Returns

\* commercialLineSourceLineID: the line an invoice is checked against.
OrderLine(s) == IF s # "ORDER" /\ doc[s].src = "ORDER" THEN "ORDER" ELSE s

\* What is CONSUMED of a document's source does not exceed it, on each line that
\* the document takes (consumeCommercialAllocationsTx, and the trigger
\* enforce_commercial_allocation_capacity on each row that it sets).
WithinSource(d) ==
    LET s == doc[d].src
    IN  s # "DIRECT" => \A l \in {k \in Lines : doc[d].qty[k] > 0} :
            Total(From(SameKind(d), s), l) <= SourceBase(s, l)

\* ... and an invoice bills no more than was fulfilled (validateCommercialAllocationsTx).
WithinFulfilment(d) ==
    LET s == doc[d].src
    IN  (d \in Invoices /\ s # "DIRECT") => \A l \in {k \in Lines : doc[d].qty[k] > 0} :
            InvoicedTotal(OrderLine(s), l) <= Fulfilled(OrderLine(s), l)
-----------------------------------------------------------------------------
(* Drafts *)

\* commercialSourceTypeAllowed and commercialSourceStateAllowed: the sources from
\* which a document of d's kind may be drafted now.  A return always has one.
Sources(d) ==
    IF d \in Dispatches
    THEN {"DIRECT"} \cup {s \in {"ORDER"} : order \in OpenStates \ {"FULFILLED"}}
    ELSE IF d \in Invoices
    THEN {"DIRECT"} \cup {s \in {"ORDER"} : order \in OpenStates} \cup Posted(Dispatches)
    ELSE Posted(Dispatches \cup Invoices)

\* insertCommercialSourcesAndAllocationsTx: q fits what is left of the source, as
\* posted documents leave it; other drafts do not count.
Allocatable(d, s, q) ==
    /\ s \in Sources(d)
    /\ s # "DIRECT" => \A l \in {k \in Lines : q[k] > 0} :
          /\ Total(From(SameKind(d), s), l) + q[l] <= SourceBase(s, l)
          /\ d \in Invoices =>
                InvoicedTotal(OrderLine(s), l) + q[l] <= Fulfilled(OrderLine(s), l)

SetDraft(d, s, q) ==
    /\ Allocatable(d, s, q)
    /\ doc' = [doc EXCEPT ![d] = [status |-> "DRAFT", src |-> s, qty |-> q]]
    /\ UNCHANGED <<order, hold, physical, reserved>>

\* Also what ConvertCommercial calls, with all that remains of the source.
CreateCommercialDraft(d, s, q) == doc[d].status = "NONE" /\ SetDraft(d, s, q)

\* Replaces a draft's source, lines and allocations.
UpdateCommercialDraft(d, s, q) == doc[d].status = "DRAFT" /\ SetDraft(d, s, q)

DeleteCommercialDraft(d) ==
    /\ doc[d].status = "DRAFT"
    /\ doc' = [doc EXCEPT ![d] = NoDoc]
    /\ UNCHANGED <<order, hold, physical, reserved>>
-----------------------------------------------------------------------------
(* The order and its reservations *)

\* TransitionCommercial, confirm, with ReserveSalesOrderTx.
Confirm ==
    /\ order = "DRAFT"
    /\ \A l \in Lines : physical[l] - reserved[l] >= Ordered[l]
    /\ order' = "CONFIRMED"
    /\ hold' = [l \in Lines |-> [hold[l] EXCEPT !.status = "ACTIVE"]]
    /\ reserved' = [l \in Lines |-> reserved[l] + Ordered[l]]
    /\ UNCHANGED <<doc, physical>>

HoldRest(l) == Ordered[l] - hold[l].consumed - hold[l].released

\* cancelCommercial of the order, with ReleaseSalesOrderReservationsTx.  Drafts and
\* posted dispatches of the order are not looked at.
CancelOrder ==
    /\ order \in {"CONFIRMED", "PARTIALLY_FULFILLED"}
    /\ order' = "CANCELLED"
    /\ hold' = [l \in Lines |->
          IF hold[l].status = "ACTIVE"
          THEN [hold[l] EXCEPT !.status = "RELEASED", !.released = Ordered[l] - hold[l].consumed]
          ELSE hold[l]]
    /\ reserved' = [l \in Lines |->
          IF hold[l].status = "ACTIVE" THEN Max({0, reserved[l] - HoldRest(l)}) ELSE reserved[l]]
    /\ UNCHANGED <<doc, physical>>

\* ConsumeSalesOrderReservationsTx: one row that is not ACTIVE, or too small,
\* refuses the whole post.
ConsumeHolds(q) ==
    /\ \A l \in Lines : q[l] > 0 => hold[l].status = "ACTIVE" /\ q[l] <= HoldRest(l)
    /\ hold' = [l \in Lines |->
          IF q[l] = 0 THEN hold[l]
          ELSE [hold[l] EXCEPT !.consumed = @ + q[l],
                               !.status = IF q[l] = HoldRest(l) THEN "CONSUMED" ELSE @]]
    /\ reserved' = [l \in Lines |-> Max({0, reserved[l] - q[l]})]

\* Mutant: a reservation that was used up stays so.
MutRestored(l, n) == [hold[l] EXCEPT !.consumed = @ - n]

\* RestoreSalesOrderReservationsTx: rows of the states ACTIVE and CONSUMED.
Restored(l, n) ==
    [hold[l] EXCEPT !.consumed = @ - n, !.status = IF @ = "CONSUMED" THEN "ACTIVE" ELSE @]

\* ... and never more than was consumed.
Restorable(q) ==
    [l \in Lines |-> IF hold[l].status \in {"ACTIVE", "CONSUMED"}
                     THEN Min({q[l], hold[l].consumed}) ELSE 0]
RestoreHolds(q) ==
    /\ hold' = [l \in Lines |-> IF Restorable(q)[l] = 0 THEN hold[l] ELSE Restored(l, Restorable(q)[l])]
    /\ reserved' = [l \in Lines |-> reserved[l] + Restorable(q)[l]]

\* The fulfilment status of an order, from its CONSUMED allocations
\* (consumeCommercialReservationsTx, rollbackCommercialProjectionsTx).
FulfilmentStatus ==
    IF \A l \in Lines : Fulfilled("ORDER", l) = 0 THEN "CONFIRMED"
    ELSE IF \A l \in Lines : Fulfilled("ORDER", l) >= Ordered[l] THEN "FULFILLED"
    ELSE "PARTIALLY_FULFILLED"
-----------------------------------------------------------------------------
(* Posting and cancelling *)

\* salesCommercialPostsStock
PostsStock(d) == d \notin Invoices \/ doc[d].src = "DIRECT"

\* PostCommercialStockMovementsTx and ReverseInvoiceMovementsTx: stock leaves with
\* a dispatch or an invoice, comes in with a return, and never becomes negative.
Move(d, sign) ==
    LET n(l) == IF PostsStock(d) THEN sign * doc[d].qty[l] ELSE 0
    IN  /\ \A l \in Lines : physical[l] + n(l) >= 0
        /\ physical' = [l \in Lines |-> physical[l] + n(l)]

Out == -1
In == 1

\* TransitionCommercial, post: the allocations are set to CONSUMED, then checked.
SetPosted(d) ==
    /\ doc[d].status = "DRAFT"
    /\ doc' = [doc EXCEPT ![d].status = "POSTED"]
    /\ WithinSource(d)' /\ WithinFulfilment(d)'

\* The reservations of the order's lines are used, and its status follows.
PostDispatch(d) ==
    /\ d \in Dispatches /\ SetPosted(d)
    /\ \/ /\ doc[d].src = "ORDER"
          /\ ConsumeHolds(doc[d].qty)
          /\ order' = IF order \in {"CONFIRMED", "PARTIALLY_FULFILLED"} THEN FulfilmentStatus' ELSE order
       \/ doc[d].src = "DIRECT" /\ UNCHANGED <<hold, reserved, order>>
    /\ Move(d, Out)

\* Nothing but a dispatch touches the reservations.
PostInvoice(i) == i \in Invoices /\ SetPosted(i) /\ Move(i, Out) /\ UNCHANGED <<order, hold, reserved>>
PostReturn(r) == r \in Returns /\ SetPosted(r) /\ Move(r, In) /\ UNCHANGED <<order, hold, reserved>>

\* assertNoActiveDownstreamTx
NoActiveDownstream(d) == From(Docs, d) = {}

\* ReverseInvoiceTx refuses while a return reduces the invoice
\* (finance_invoice_return_attributions): one made from it, or one made from the
\* same dispatch on a line that the invoice bills.
NoActiveReturn(i) ==
    /\ From(Returns, i) = {}
    /\ doc[i].src \in Dispatches =>
          \A r \in From(Returns, doc[i].src) : \A l \in Lines :
              doc[r].qty[l] = 0 \/ doc[i].qty[l] = 0

SetCancelled(d) ==
    /\ doc[d].status = "POSTED"
    /\ doc' = [doc EXCEPT ![d].status = "CANCELLED"]
    /\ order' = IF doc[d].src = "ORDER" /\ order \in OpenStates THEN FulfilmentStatus' ELSE order

\* cancelCommercial with rollbackCommercialProjectionsTx.
CancelDispatch(d) ==
    /\ d \in Dispatches /\ NoActiveDownstream(d)
    /\ SetCancelled(d)
    /\ IF doc[d].src = "ORDER" THEN RestoreHolds(doc[d].qty) ELSE UNCHANGED <<hold, reserved>>
    /\ Move(d, In)
CancelInvoice(i) ==
    /\ i \in Invoices /\ NoActiveDownstream(i) /\ NoActiveReturn(i)
    /\ SetCancelled(i) /\ Move(i, In)
    /\ UNCHANGED <<hold, reserved>>
CancelReturn(r) ==
    /\ r \in Returns
    /\ SetCancelled(r) /\ Move(r, Out)
    /\ UNCHANGED <<hold, reserved>>
-----------------------------------------------------------------------------
Next ==
    \/ Confirm \/ CancelOrder
    \/ \E d \in Docs :
         \/ \E s \in Docs \cup {"ORDER", "DIRECT"}, q \in Quantities :
              CreateCommercialDraft(d, s, q) \/ UpdateCommercialDraft(d, s, q)
         \/ DeleteCommercialDraft(d)
         \/ PostDispatch(d) \/ PostInvoice(d) \/ PostReturn(d)
         \/ CancelDispatch(d) \/ CancelInvoice(d) \/ CancelReturn(d)

Spec == Init /\ [][Next]_vars
-----------------------------------------------------------------------------
\* The stock reserved is exactly what the active reservations still hold, through
\* posts, cancellations and the two clamps at zero (inventory/commercial.go).
ReservedIsHeld ==
    \A l \in Lines : reserved[l] = IF hold[l].status = "ACTIVE" THEN HoldRest(l) ELSE 0

\* "the reservation it consumed is put back on hold so the order line can be
\* dispatched again": while an order is open, what was not shipped of a line is
\* reserved for it, whatever was drafted, posted and cancelled before
\* (RestoreSalesOrderReservationsTx, inventory/commercial.go:307-310).
RestCanBeShipped ==
    order \in OpenStates => \A l \in Lines :
        LET rest == Ordered[l] - Fulfilled("ORDER", l)
        IN  /\ rest >= 0
            /\ rest > 0 => hold[l].status = "ACTIVE" /\ HoldRest(l) = rest
            /\ rest = 0 => hold[l].status = "CONSUMED"

\* An open order is FULFILLED exactly when its posted dispatches ship every line in
\* full, and CONFIRMED exactly when none of them ships anything, however often
\* dispatches and invoices were cancelled (rollbackCommercialProjectionsTx).
StatusIsFulfilment ==
    order \in OpenStates =>
        /\ order = "FULFILLED" <=> \A l \in Lines : Fulfilled("ORDER", l) = Ordered[l]
        /\ order = "CONFIRMED" <=> From(Dispatches, "ORDER") = {}

\* Physical stock is what the posted documents account for: a unit leaves once,
\* with the dispatch or with a direct invoice, and comes back with a return or
\* with the cancellation (salesCommercialPostsStock).
StockFollowsDocuments ==
    \A l \in Lines :
        physical[l] = Opening[l] - Total(Posted(Dispatches), l)
                      - Total(From(Invoices, "DIRECT"), l) + Total(Posted(Returns), l)

\* The posted invoices that bill a line of the order, from the order or from one
\* of its dispatches, whatever became of that dispatch.
Billing(i) == \/ doc[i].src = "ORDER"
              \/ doc[i].src \in Dispatches /\ doc[doc[i].src].src = "ORDER"
Hanging(d) == doc[d].src \in Docs /\ doc[doc[d].src].status # "POSTED"

\* Invoices made from the order and invoices made from its dispatches share one
\* ledger: together they never bill a line for more than was ordered, as long as
\* the dispatch that an invoice bills is not cancelled.
BilledOnce ==
    \A l \in Lines :
        Total({i \in Posted(Invoices) : Billing(i) /\ ~Hanging(i)}, l) <= Ordered[l]

\* No shipped quantity is "invoiced twice (once from the dispatch, once again from
\* the order, or vice versa)" (commercialOrderLineInvoicedTotal, commercial.go:3657-3663).
NeverBilledTwice ==
    \A l \in Lines : Total({i \in Posted(Invoices) : Billing(i)}, l) <= Ordered[l]

\* The order, its reservations and the stock tell one story, whatever was posted and
\* cancelled: what is kept back is what the reservations hold, they hold exactly what
\* is still to be shipped, status and stock are those of the posted documents, and
\* no line is billed beyond what was ordered.
OrderIsExplained ==
    /\ ReservedIsHeld /\ RestCanBeShipped /\ StatusIsFulfilment /\ StockFollowsDocuments
    /\ BilledOnce
=============================================================================
