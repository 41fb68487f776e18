------------------------------ MODULE Transfers ------------------------------
(***************************************************************************)
(* Warehouse transfers, internal/inventory/service.go with the triggers of *)
(* internal/platform/migrations/sql/000001_baseline.sql that guard them.   *)
(*                                                                         *)
(* A command is one database transaction that locks the transfer's row     *)
(* first and the stock positions it changes, so it is one step; a refused  *)
(* command (wrong state, stale If-Match version, not enough stock) changes *)
(* nothing, and a command replayed under its key does nothing again.       *)
(*                                                                         *)
(* A line's quantity is chosen at first, also for a transfer that is still  *)
(* to be created.  moved holds, for each line, the sums over its rows of   *)
(* stock_movements that the conservation trigger computes.  A position is  *)
(* a warehouse and a product; the stock policy is the default, BLOCK.      *)
(*                                                                         *)
(* bars holds what else makes a movement be refused and comes and goes     *)
(* beside the transfers: a count that locks its scope, a product whose     *)
(* variant is inactive or whose lot is past its date.                      *)
(*                                                                         *)
(* outside is not in the code: the net stock that other movements          *)
(* (purchases, sales, corrections) brought in.                             *)
(***************************************************************************)
EXTENDS Integers, FiniteSets, FiniteSetsExt, Functions

CONSTANTS
    Transfers, Lines, Products, Warehouses,
    Transit,            \* the system transit warehouse
    TransferOf,         \* the transfer of a line
    ProductOf,          \* the product of a line
    FromPlace, ToPlace, \* the warehouses of a transfer
    Opening,            \* the opening stock of a warehouse
    MaxQuantity,        \* bound: the largest quantity of a line
    MaxOutside,         \* bound: net stock brought in by other movements
    EqualEntries,       \* whether a receive request may repeat an entry as it is
    Barriers,           \* the bars that may come, as records of kind, place, product
    MaxBars             \* bound: bars at a time

ASSUME FiniteAssumption == IsFiniteSet(Lines) /\ IsFiniteSet(Warehouses)
ASSUME RouteAssumption ==
    /\ Transit \notin Warehouses
    /\ TransferOf \in [Lines -> Transfers] /\ ProductOf \in [Lines -> Products]
    /\ FromPlace \in [Transfers -> Warehouses] /\ ToPlace \in [Transfers -> Warehouses]
    /\ \A t \in Transfers : FromPlace[t] # ToPlace[t]
ASSUME OpeningAssumption == Opening \in [Warehouses -> Nat]
ASSUME BoundsAssumption == MaxQuantity \in [Lines -> Nat \ {0}] /\ MaxOutside \in Nat
ASSUME EqualEntriesAssumption == EqualEntries \in BOOLEAN
ASSUME BarriersAssumption ==
    /\ Barriers \subseteq [kind: {"COUNT", "VARIANT", "LOT"}, place: Warehouses, product: Products]
    /\ MaxBars \in Nat

VARIABLES
    state,      \* warehouse_transfers.state
    line,       \* warehouse_transfer_lines, with the sum of its resolutions
    hold,       \* the state of a line's row in warehouse_transfer_reservations
    moved,      \* sums over a line's stock_movements
    physical,   \* stock_positions.physical_quantity
    reserved,   \* stock_positions.reserved_quantity, outside the transit warehouse
    outside,
    bars        \* locked count scopes, inactive variants, lots past their date

transferVars == <<state, line, hold, moved, physical, reserved, outside, bars>>

Places == Warehouses \cup {Transit}
LinesOf(t) == {l \in Lines : TransferOf[l] = t}
Amounts == 0..Max({MaxQuantity[l] : l \in Lines})

States == {"NONE", "DRAFT", "REQUESTED", "APPROVED", "IN_TRANSIT", "PARTIALLY_RECEIVED",
           "RECEIVED", "CANCELLED"}
LineType == [quantity: Nat, shipped: Nat, received: Nat, damaged: Nat, resolved: Nat]
MovedType == [out: Nat, entered: Nat, left: Nat, wasted: Nat, arrived: Nat]

\* Every variable holds a value of its type; in particular no position of stock
\* is negative, and a line never counts more than was shipped.
TransfersTypeOK ==
    /\ state \in [Transfers -> States]
    /\ line \in [Lines -> LineType]
    /\ hold \in [Lines -> {"none", "ACTIVE", "CONSUMED", "RELEASED"}]
    /\ moved \in [Lines -> MovedType]
    /\ physical \in [Places -> [Products -> Nat]]
    /\ reserved \in [Warehouses -> [Products -> Nat]]
    /\ outside \in [Products -> Int] /\ bars \subseteq Barriers
    /\ \A l \in Lines : /\ line[l].received + line[l].damaged <= line[l].shipped
                        /\ line[l].shipped <= line[l].quantity

\* Transfers still to be created, and drafts of releases that created them so.
TransfersInit ==
    /\ state \in [Transfers -> {"NONE", "DRAFT"}]
    /\ \E q \in [Lines -> Amounts] :
          /\ \A l \in Lines : q[l] \in 1..MaxQuantity[l]
          /\ line = [l \in Lines |-> [quantity |-> q[l], shipped |-> 0, received |-> 0,
                                     damaged |-> 0, resolved |-> 0]]
    /\ hold = [l \in Lines |-> "none"]
    /\ moved = [l \in Lines |-> [out |-> 0, entered |-> 0, left |-> 0, wasted |-> 0, arrived |-> 0]]
    /\ physical = [w \in Places |-> [p \in Products |-> IF w = Transit THEN 0 ELSE Opening[w]]]
    /\ reserved = [w \in Warehouses |-> [p \in Products |-> 0]]
    /\ outside = [p \in Products |-> 0] /\ bars = {}
-----------------------------------------------------------------------------
(* Quantities: q gives an amount for each line of a transfer *)

Load(t, q, p) == SumFunctionOnSet(q, {l \in LinesOf(t) : ProductOf[l] = p})
Quantities(t) == [l \in LinesOf(t) |-> line[l].quantity]
Available(w, p) == physical[w][p] - reserved[w][p]

\* What a receive may still count: a damaged unit awaits a decision, and a
\* decision may be about a damaged unit, so the larger of the two is taken off.
Remaining(l) ==
    line[l].shipped - line[l].received - Max({line[l].damaged, line[l].resolved})

\* Mutant: the decisions already taken are forgotten.
MutOutstanding(l) == line[l].shipped - line[l].received

\* transferOutstandingQuantity
Outstanding(l) ==
    LET rest == line[l].shipped - line[l].received - line[l].resolved
    IN  IF rest <= 0 THEN 0 ELSE rest
-----------------------------------------------------------------------------
(* Movements and their triggers *)

\* A movement at a position is refused in the locked scope of a running count
\* (reject_stock_movement_in_locked_count_scope), with an inactive variant
\* (validateInventoryVariantTx, require_active_variant_for_stock_row) and with a
\* lot past its date (validate_inventory_movement).
Refused(w, p) == \E b \in bars : b.product = p /\ (b.kind = "COUNT" => b.place = w)
MayMove(w, t, q) == \A l \in LinesOf(t) : q[l] > 0 => ~ Refused(w, ProductOf[l])
Inactive(p) == \E b \in bars : b.kind = "VARIANT" /\ b.product = p

\* Paired movements out of one warehouse into another, for all lines of t.
Carry(from, to, t, q) ==
    [w \in Places |-> [p \in Products |->
        physical[w][p] + (IF w = to THEN Load(t, q, p) ELSE 0)
                       - (IF w = from THEN Load(t, q, p) ELSE 0)]]

\* validate_transfer_stock_movement for the legs from the source into transit.
MayEnterTransit(t, q) ==
    /\ \A l \in LinesOf(t) : /\ moved[l].out + q[l] <= line[l].quantity
                             /\ moved[l].entered + q[l] <= line[l].quantity

\* ... and for the legs out of transit.
MayLeaveTransit(t, q) ==
    /\ \A l \in LinesOf(t) : moved[l].left + moved[l].wasted + q[l] <= line[l].shipped
    /\ \A p \in Products : Load(t, q, p) <= physical[Transit][p]

Entered(m, n) == [m EXCEPT !.out = @ + n, !.entered = @ + n]
Passed(m, n) == [m EXCEPT !.left = @ + n, !.arrived = @ + n]
Wasted(m, n) == [m EXCEPT !.wasted = @ + n]

\* validate_transfer_stock_conservation, deferred to the commit.
Conserves(t, st, ln, mv) ==
    \A l \in LinesOf(t) :
        /\ ln[l].shipped > 0 => mv[l].out = ln[l].shipped /\ mv[l].entered = ln[l].shipped
        /\ mv[l].left = mv[l].arrived
        /\ mv[l].left + mv[l].wasted <= mv[l].entered
        /\ st \in {"RECEIVED", "CANCELLED"} /\ ln[l].shipped > 0
              => mv[l].left + mv[l].wasted = mv[l].entered
-----------------------------------------------------------------------------
(* Reservations *)

\* reserveTransferLinesTx refuses inactive variants and spent reservations, passes
\* over active ones and takes the others out of what is available.
ToReserve(t) == [l \in LinesOf(t) |-> IF hold[l] = "none" THEN line[l].quantity ELSE 0]
MayReserve(t) ==
    /\ \A l \in LinesOf(t) : hold[l] \in {"none", "ACTIVE"} /\ ~ Inactive(ProductOf[l])
    /\ \A p \in Products : Load(t, ToReserve(t), p) > 0
                             => Load(t, ToReserve(t), p) <= Available(FromPlace[t], p)
ReservedBy(t, q, sign) ==
    [reserved EXCEPT ![FromPlace[t]] = [p \in Products |-> @[p] + sign * Load(t, q, p)]]
Held(t, to) == [l \in Lines |-> IF TransferOf[l] = t THEN to ELSE hold[l]]

ActiveQuantities(t) == [l \in LinesOf(t) |-> IF hold[l] = "ACTIVE" THEN line[l].quantity ELSE 0]
-----------------------------------------------------------------------------
(* Commands *)

\* RequestTransfer and ApproveTransfer (transitionTransfer): reserve the source
\* stock and change the state.  CanTransitionTransfer lets a state follow itself.
Request(t) ==
    /\ state[t] \in {"DRAFT", "REQUESTED"}
    /\ MayReserve(t)
    /\ reserved' = ReservedBy(t, ToReserve(t), 1)
    /\ hold' = Held(t, "ACTIVE")
    /\ state' = [state EXCEPT ![t] = "REQUESTED"]
    /\ UNCHANGED <<line, moved, physical, outside, bars>>

Approve(t) ==
    /\ state[t] \in {"DRAFT", "REQUESTED", "APPROVED"}
    /\ MayReserve(t)
    /\ reserved' = ReservedBy(t, ToReserve(t), 1)
    /\ hold' = Held(t, "ACTIVE")
    /\ state' = [state EXCEPT ![t] = "APPROVED"]
    /\ UNCHANGED <<line, moved, physical, outside, bars>>

ShippedLine(ln) == [ln EXCEPT !.shipped = ln.quantity]

\* CreateTransfer of a WORKFLOW transfer, and ShipTransfer of an approved one:
\* postWorkflowShipmentTx reserves what is not reserved yet, consumes the
\* reservations and posts the legs into transit, which need available stock.
Ship(t) ==
    /\ state[t] \in {"NONE", "APPROVED"}
    /\ MayReserve(t)
    /\ MayMove(FromPlace[t], t, Quantities(t)) /\ MayMove(Transit, t, Quantities(t))
    /\ reserved' = ReservedBy(t, ActiveQuantities(t), -1)
    /\ hold' = Held(t, "CONSUMED")
    /\ MayEnterTransit(t, Quantities(t))
    /\ \A p \in Products :
          Load(t, Quantities(t), p) <= Available(FromPlace[t], p) + Load(t, ActiveQuantities(t), p)
    /\ physical' = Carry(FromPlace[t], Transit, t, Quantities(t))
    /\ moved' = [l \in Lines |-> IF TransferOf[l] = t THEN Entered(moved[l], line[l].quantity)
                                 ELSE moved[l]]
    /\ line' = [l \in Lines |-> IF TransferOf[l] = t THEN ShippedLine(line[l]) ELSE line[l]]
    /\ state' = [state EXCEPT ![t] = "IN_TRANSIT"]
    /\ UNCHANGED <<outside, bars>>

\* CreateTransfer of a QUICK transfer: postQuickTransferTx posts all four legs,
\* without a reservation.
CreateQuick(t) ==
    /\ state[t] = "NONE"
    /\ \A w \in {FromPlace[t], Transit, ToPlace[t]} : MayMove(w, t, Quantities(t))
    /\ MayEnterTransit(t, Quantities(t))
    /\ \A p \in Products : Load(t, Quantities(t), p) <= Available(FromPlace[t], p)
    /\ physical' = Carry(FromPlace[t], ToPlace[t], t, Quantities(t))
    /\ moved' = [l \in Lines |-> IF TransferOf[l] = t
                                 THEN Passed(Entered(moved[l], line[l].quantity), line[l].quantity)
                                 ELSE moved[l]]
    /\ line' = [l \in Lines |-> IF TransferOf[l] = t
                                THEN [ShippedLine(line[l]) EXCEPT !.received = line[l].quantity]
                                ELSE line[l]]
    /\ state' = [state EXCEPT ![t] = "RECEIVED"]
    /\ UNCHANGED <<hold, reserved, outside, bars>>

Open(t) == state[t] \in {"IN_TRANSIT", "PARTIALLY_RECEIVED"}

\* The state a receive or a decision leaves, by the query for incomplete lines.
Closing(t, ln) ==
    IF \A l \in LinesOf(t) : ln[l].received + ln[l].resolved >= ln[l].shipped
    THEN "RECEIVED" ELSE "PARTIALLY_RECEIVED"

\* ReceiveTransfer, each line listed at most once: r units arrive, d are damaged.
\* An empty list stands for all that remains.
Receive(t, r, d) ==
    /\ Open(t)
    /\ \A l \in LinesOf(t) : r[l] + d[l] <= Remaining(l)
    /\ MayLeaveTransit(t, r) /\ MayMove(Transit, t, r) /\ MayMove(ToPlace[t], t, r)
    /\ physical' = Carry(Transit, ToPlace[t], t, r)
    /\ moved' = [l \in Lines |-> IF TransferOf[l] = t THEN Passed(moved[l], r[l]) ELSE moved[l]]
    /\ line' = [l \in Lines |-> IF TransferOf[l] = t
                                THEN [line[l] EXCEPT !.received = @ + r[l], !.damaged = @ + d[l]]
                                ELSE line[l]]
    /\ state' = [state EXCEPT ![t] = Closing(t, line')]
    /\ Conserves(t, state'[t], line', moved')
    /\ UNCHANGED <<hold, reserved, outside, bars>>

\* ReceiveTransfer with one line listed twice, as the entries <<r, d>> first and
\* second: both are checked against the line as it was read and the line counts
\* both, but the movements of an equal second entry have the key and the content
\* of the first one's and are taken for their replay.
ReceiveTwice(t, l, first, second) ==
    /\ EqualEntries \/ first # second
    /\ Open(t) /\ l \in LinesOf(t)
    /\ \A e \in {first, second} : e[1] + e[2] <= Remaining(l)
    /\ line' = [line EXCEPT ![l].received = @ + first[1] + second[1],
                            ![l].damaged = @ + first[2] + second[2]]
    /\ line'[l].received + line'[l].damaged <= line[l].shipped
    /\ LET n == first[1] + (IF second = first THEN 0 ELSE second[1])
           only == [k \in LinesOf(t) |-> IF k = l THEN n ELSE 0]
       IN  /\ MayLeaveTransit(t, only) /\ MayMove(Transit, t, only) /\ MayMove(ToPlace[t], t, only)
           /\ physical' = Carry(Transit, ToPlace[t], t, only)
           /\ moved' = [moved EXCEPT ![l] = Passed(@, n)]
    /\ state' = [state EXCEPT ![t] = Closing(t, line')]
    /\ Conserves(t, state'[t], line', moved')
    /\ UNCHANGED <<hold, reserved, outside, bars>>

\* ResolveTransferDiscrepancy: n units still in transit are delivered, returned or
\* written off.
Resolve(t, l, kind, n) ==
    /\ Open(t) /\ l \in LinesOf(t)
    /\ n <= line[l].shipped - line[l].received - line[l].resolved
    /\ LET only == [k \in LinesOf(t) |-> IF k = l THEN n ELSE 0] IN
       /\ MayLeaveTransit(t, only) /\ MayMove(Transit, t, only)
       /\ \/ /\ kind = "DELIVER" /\ MayMove(ToPlace[t], t, only)
             /\ physical' = Carry(Transit, ToPlace[t], t, only)
             /\ moved' = [moved EXCEPT ![l] = Passed(@, n)]
          \/ /\ kind = "RETURN" /\ MayMove(FromPlace[t], t, only)
             /\ physical' = Carry(Transit, FromPlace[t], t, only)
             /\ moved' = [moved EXCEPT ![l] = Passed(@, n)]
          \/ /\ kind = "WASTE"
             /\ physical' = [physical EXCEPT ![Transit][ProductOf[l]] = @ - n]
             /\ moved' = [moved EXCEPT ![l] = Wasted(@, n)]
    /\ line' = [line EXCEPT ![l].resolved = @ + n]
    /\ state' = [state EXCEPT ![t] = Closing(t, line')]
    /\ Conserves(t, state'[t], line', moved')
    /\ UNCHANGED <<hold, reserved, outside, bars>>

\* CancelTransfer before shipment: releaseTransferReservationsTx.
CancelPlanned(t) ==
    /\ state[t] \in {"DRAFT", "REQUESTED", "APPROVED"}
    /\ \A p \in Products : Load(t, ActiveQuantities(t), p) <= reserved[FromPlace[t]][p]
    /\ reserved' = ReservedBy(t, ActiveQuantities(t), -1)
    /\ hold' = [l \in Lines |-> IF TransferOf[l] = t /\ hold[l] = "ACTIVE" THEN "RELEASED" ELSE hold[l]]
    /\ state' = [state EXCEPT ![t] = "CANCELLED"]
    /\ UNCHANGED <<line, moved, physical, outside, bars>>

\* CancelTransfer after shipment returns what is outstanding to the source.
OutstandingOf(t) == [l \in LinesOf(t) |-> Outstanding(l)]
AfterReturn(t) ==
    [l \in Lines |-> IF TransferOf[l] = t THEN Passed(moved[l], Outstanding(l)) ELSE moved[l]]
CancelAccepted(t) ==
    /\ MayMove(Transit, t, OutstandingOf(t)) /\ MayMove(FromPlace[t], t, OutstandingOf(t))
    /\ MayLeaveTransit(t, OutstandingOf(t))
    /\ Conserves(t, "CANCELLED", line, AfterReturn(t))

\* Mutant: the stock leaves transit and the leg into the source is forgotten.
MutCancelShipped(t) ==
    /\ Open(t) /\ CancelAccepted(t)
    /\ physical' = Carry(Transit, Transit, t, OutstandingOf(t))
    /\ moved' = AfterReturn(t)
    /\ state' = [state EXCEPT ![t] = "CANCELLED"]
    /\ UNCHANGED <<line, hold, reserved, outside, bars>>

CancelShipped(t) ==
    /\ Open(t) /\ CancelAccepted(t)
    /\ physical' = Carry(Transit, FromPlace[t], t, OutstandingOf(t))
    /\ moved' = AfterReturn(t)
    /\ state' = [state EXCEPT ![t] = "CANCELLED"]
    /\ UNCHANGED <<line, hold, reserved, outside, bars>>

\* Any other movement of a warehouse other than transit (a purchase, a sale, a
\* correction, the reversal of a transfer's leg).  It looks at the physical stock
\* only, never at what is reserved.
OtherMovement(w, p, n) ==
    /\ ~ Refused(w, p)
    /\ physical[w][p] + n >= 0
    /\ outside[p] + n \in -MaxOutside..MaxOutside
    /\ physical' = [physical EXCEPT ![w][p] = @ + n]
    /\ outside' = [outside EXCEPT ![p] = @ + n]
    /\ UNCHANGED <<state, line, hold, moved, reserved, bars>>

\* A count locks its scope or ends, a variant is switched off or on, a lot passes
\* its date or the policy for such lots changes.
Bar(b) ==
    /\ Cardinality(bars) < MaxBars
    /\ bars' = bars \cup {b}
    /\ UNCHANGED <<state, line, hold, moved, physical, reserved, outside>>
Unbar(b) ==
    /\ b \in bars /\ bars' = bars \ {b}
    /\ UNCHANGED <<state, line, hold, moved, physical, reserved, outside>>
-----------------------------------------------------------------------------
TransfersNext ==
    \/ \E t \in Transfers :
         \/ Request(t) \/ Approve(t) \/ Ship(t) \/ CreateQuick(t)
         \/ CancelPlanned(t) \/ CancelShipped(t)
         \/ \E r, d \in [LinesOf(t) -> Amounts] : Receive(t, r, d)
         \/ \E l \in LinesOf(t), e, f \in Amounts \X Amounts : ReceiveTwice(t, l, e, f)
         \/ \E l \in LinesOf(t), kind \in {"DELIVER", "RETURN", "WASTE"}, n \in Amounts \ {0} :
              Resolve(t, l, kind, n)
    \/ \E w \in Warehouses, p \in Products, n \in {-1, 1} : OtherMovement(w, p, n)
    \/ \E b \in Barriers : Bar(b) \/ Unbar(b)

TransfersSpec == TransfersInit /\ [][TransfersNext]_transferVars
-----------------------------------------------------------------------------
\* A line's counters and its movements agree: "the quantity still owned by the
\* transit warehouse" is shipped less received less resolved, "received quantity
\* has already been posted to the destination" and every resolution has left
\* transit (transferOutstandingQuantity, service.go:4045-4055).
CountersMatchLedger ==
    \A l \in Lines : Open(TransferOf[l]) =>
        moved[l].entered - moved[l].left - moved[l].wasted = Outstanding(l)

\* The transit warehouse holds exactly what the open transfers have outstanding:
\* a finished or cancelled transfer leaves nothing behind, and none reaches into
\* another's units (validate_transfer_stock_conservation).
TransitIsOutstanding ==
    \A p \in Products :
        physical[Transit][p] =
            SumFunctionOnSet([l \in Lines |-> Outstanding(l)],
                             {l \in Lines : Open(TransferOf[l]) /\ ProductOf[l] = p})

\* Transfers neither make nor lose stock: what is in the warehouses, with what was
\* written off, is the opening stock and what other movements brought in.
StockConserved ==
    \A p \in Products :
        SumFunctionOnSet([w \in Places |-> physical[w][p]], Places)
          + SumFunctionOnSet([l \in Lines |-> moved[l].wasted], {l \in Lines : ProductOf[l] = p})
        = SumFunctionOnSet(Opening, Warehouses) + outside[p]

\* What is reserved at a position is what transfers between request and shipment
\* hold there: a cancelled or shipped one leaves no reservation behind
\* (consumeTransferReservationsTx, releaseTransferReservationsTx).
ReservationsAreHeld ==
    \A w \in Warehouses, p \in Products :
        reserved[w][p] =
            SumFunctionOnSet([l \in Lines |-> line[l].quantity],
                {l \in Lines : /\ FromPlace[TransferOf[l]] = w /\ ProductOf[l] = p
                               /\ hold[l] = "ACTIVE"
                               /\ state[TransferOf[l]] \in {"REQUESTED", "APPROVED"}})

\* A shipped transfer can be cancelled: whatever was received, damaged or decided,
\* its return passes the checks of quantities and the conservation trigger, unless
\* a line with units to bring back meets a bar in transit or at its source
\* (CancelTransfer; the count's scope, the inactive variant, the lot past its date).
BarredOnTheWayBack(t) ==
    \E l \in LinesOf(t) : /\ Outstanding(l) > 0
                          /\ Refused(Transit, ProductOf[l]) \/ Refused(FromPlace[t], ProductOf[l])
OpenCanBeCancelled == \A t \in Transfers : Open(t) => CancelAccepted(t) \/ BarredOnTheWayBack(t)

\* Whatever is received, reported, decided and cancelled in whatever order, the lines'
\* counters, the transit stock, the reservations and the stock as a whole tell the
\* same story as the movements.
TransfersAreExplained ==
    CountersMatchLedger /\ TransitIsOutstanding /\ StockConserved /\ ReservationsAreHeld
=============================================================================
