---------------------------- MODULE StockLedger ----------------------------
(***************************************************************************)
(* The stock ledger of one warehouse (internal/inventory): movements, the  *)
(* positions, cost layers and serial numbers that are projected from them, *)
(* reversals, and the life of the warehouse itself.                        *)
(*                                                                         *)
(* A movement's posted_at and its layer's created_at default to now(), the *)
(* time its transaction BEGAN; it becomes visible when the transaction     *)
(* commits.  So a transaction is two steps, Begin and Commit.  Everything  *)
(* between the lock of the warehouse row (validateWarehouseMovementTx) and *)
(* the commit is one step: no other movement of the warehouse runs there.  *)
(***************************************************************************)
EXTENDS Integers, Sequences, FiniteSets, SequencesExt, FiniteSetsExt

CONSTANTS
    Items,      \* stock identities: a variant, or a lot or a serial number of one
    Variant,    \* the variant of each
    Tracking,   \* "PLAIN", "LOT" or "SERIAL"
    Commands,   \* what clients ask to be moved: the lines of each command
    Source,     \* and who asks
    Workers,    \* transactions that may run at the same time
    MaxClock,   \* bound on the times that are read
    MaxMoves    \* bound on the ledger

Variants == {Variant[i] : i \in Items}
Sources == {"MANUAL", "IMPORT", "OPERATION", "DOCUMENT"}
Line == [item: Items, delta: Int \ {0}]

ASSUME ItemAssumption ==
    /\ Variant \in [Items -> Variants] /\ Tracking \in [Items -> {"PLAIN", "LOT", "SERIAL"}]
    /\ MaxClock \in Nat /\ MaxMoves \in Nat
ASSUME CommandAssumption ==
    /\ \A c \in DOMAIN Commands : Commands[c] \in Seq(Line) /\ Commands[c] # << >>
    /\ Source \in [DOMAIN Commands -> Sources]

VARIABLES
    ledger,     \* stock_movements and what triggers project from them
    warehouse,  \* warehouses: exists, is_active, warehouse_type
    clock,      \* the last time that was read
    running     \* the transactions that have begun

stockVars == <<ledger, warehouse, clock, running>>

Idle == [kind |-> "NONE"]
EmptyLedger == [moves |-> << >>, physical |-> [i \in Items |-> 0], left |-> << >>,
                short |-> [v \in Variants |-> 0], inStock |-> {}]
NoWarehouse == [exists |-> FALSE, active |-> FALSE, type |-> "NONE"]

Requests(moves) ==
    [kind: {"POST"}, command: DOMAIN Commands, at: Nat] \cup [kind: {"REVERSE", "REVERSE_OPERATION"}, of: DOMAIN moves, at: Nat]
    \cup [kind: {"CANCEL_DOCUMENT"}, document: DOMAIN Commands, at: Nat]

StockTypeOK ==
    /\ ledger.moves \in Seq([item: Items, delta: Int \ {0}, at: Nat, src: Sources \cup {"COUNT", "REVERSAL"},
                             command: DOMAIN Commands \cup {"NONE"}, of: Nat])
    /\ ledger.physical \in [Items -> Nat] /\ ledger.left \in Seq(Nat) /\ Len(ledger.left) = Len(ledger.moves)
    /\ ledger.short \in [Variants -> Nat] /\ ledger.inStock \subseteq {i \in Items : Tracking[i] = "SERIAL"}
    /\ warehouse \in [exists: BOOLEAN, active: BOOLEAN, type: {"NONE", "STANDARD", "QUARANTINE"}]
    /\ clock \in 0..MaxClock /\ running \in [Workers -> Requests(ledger.moves) \cup {Idle}]

StockInit ==
    /\ ledger = EmptyLedger /\ warehouse = NoWarehouse
    /\ clock = 0 /\ running = [w \in Workers |-> Idle]
-----------------------------------------------------------------------------
(* One movement *)

Delta(moves, S) == MapThenSumSet(LAMBDA k : moves[k].delta, S)
Reversed(l, k) == \E j \in DOMAIN l.moves : l.moves[j].of = k

\* What the warehouse allows (warehouseAllowsMovement): special warehouses give
\* nothing back except by reversal of what came in.
WarehouseAllows(l, m) ==
    /\ warehouse.exists /\ warehouse.active
    /\ warehouse.type = "STANDARD" \/ m.delta > 0 \/ (m.of # 0 /\ l.moves[m.of].delta > 0)

\* postMovementTx with the triggers of stock_movements: stock does not become
\* negative, a serial number is in stock once, a movement is reversed once.
Postable(l, m) ==
    /\ WarehouseAllows(l, m) /\ l.physical[m.item] + m.delta >= 0
    /\ Tracking[m.item] = "SERIAL" => m.delta \in {-1, 1} /\ ((m.item \in l.inStock) = (m.delta < 0))
    /\ m.of # 0 => ~Reversed(l, m.of)

\* The layers an outgoing movement may consume: those of its lot when it has one,
\* of the whole variant otherwise.
LayersFor(l, i) ==
    {k \in DOMAIN l.moves : /\ Variant[l.moves[k].item] = Variant[i] /\ l.left[k] > 0
                            /\ Tracking[i] = "LOT" => l.moves[k].item = i}

\* What is taken of layer k for a quantity q: the oldest first.
Taken(l, i, q, k) ==
    LET older == {j \in LayersFor(l, i) : l.moves[j].at < l.moves[k].at \/ (l.moves[j].at = l.moves[k].at /\ j < k)}
    IN  IF k \notin LayersFor(l, i) THEN 0
        ELSE Max({0, Min({l.left[k], q - MapThenSumSet(LAMBDA j : l.left[j], older)})})

\* Mutant: what a reversal brings back gets no layer.
MutNewLayer(m) == IF m.delta > 0 /\ m.of = 0 THEN m.delta ELSE 0
\* What comes in, by a reversal too, is a layer of its own.
NewLayer(m) == IF m.delta > 0 THEN m.delta ELSE 0

\* apply_inventory_stock_projection, apply_stock_cost_layer and
\* apply_inventory_serial_movement.
Post(l, m) ==
    LET q == IF m.delta < 0 THEN -m.delta ELSE 0
        taken(k) == Taken(l, m.item, q, k)
        missing == q - MapThenSumSet(taken, DOMAIN l.moves)
    IN  [moves |-> Append(l.moves, m),
         physical |-> [l.physical EXCEPT ![m.item] = @ + m.delta],
         left |-> Append([k \in DOMAIN l.left |-> l.left[k] - taken(k)], NewLayer(m)),
         short |-> [l.short EXCEPT ![Variant[m.item]] = @ + missing],
         inStock |-> IF Tracking[m.item] # "SERIAL" THEN l.inStock
                     ELSE IF m.delta > 0 THEN l.inStock \cup {m.item} ELSE l.inStock \ {m.item}]

\* The lines of one transaction, one after the other: all of them or none.
PostAll(l, ms, locked) ==
    FoldLeft(LAMBDA r, m : [ok |-> r.ok /\ Postable(r.ledger, m) /\ m.item \notin locked,
                            ledger |-> IF r.ok /\ Postable(r.ledger, m) THEN Post(r.ledger, m) ELSE r.ledger],
             [ok |-> TRUE, ledger |-> l], ms)
-----------------------------------------------------------------------------
(* Transactions *)

Move(line, at, command) ==
    [item |-> line.item, delta |-> line.delta, at |-> at, src |-> Source[command], command |-> command, of |-> 0]
Reversal(l, k, at) ==
    [item |-> l.moves[k].item, delta |-> -l.moves[k].delta, at |-> at, src |-> "REVERSAL", command |-> "NONE", of |-> k]

MovesOf(l, c) == {k \in DOMAIN l.moves : l.moves[k].command = c}
Ordered(S) == SetToSortSeq(S, <)

\* assertManuallyReversible: what a document moved is undone by its cancellation, a
\* reversal by nothing.
ManuallyReversible(m) == m.src \notin {"DOCUMENT", "REVERSAL"}

\* What a request posts.  A repeated command, or the cancellation of a document
\* whose movements are all reversed, finds its work done and posts nothing.
ToPost(l, r) ==
    CASE r.kind = "POST" ->
           IF MovesOf(l, r.command) # {} THEN << >>
           ELSE [n \in DOMAIN Commands[r.command] |-> Move(Commands[r.command][n], r.at, r.command)]
      [] r.kind = "REVERSE" -> <<Reversal(l, r.of, r.at)>>
      [] r.kind = "REVERSE_OPERATION" ->
           LET ks == Ordered(MovesOf(l, l.moves[r.of].command)) IN [n \in DOMAIN ks |-> Reversal(l, ks[n], r.at)]
      [] r.kind = "CANCEL_DOCUMENT" ->
           LET ks == Ordered({k \in MovesOf(l, r.document) : ~Reversed(l, k)}) IN [n \in DOMAIN ks |-> Reversal(l, ks[n], r.at)]

\* The time is read when the transaction begins.
Begin(w, r) ==
    /\ running[w] = Idle /\ clock < MaxClock
    /\ clock' = clock + 1 /\ running' = [running EXCEPT ![w] = r]
    /\ UNCHANGED <<ledger, warehouse>>

PostMovement(w, c) == Begin(w, [kind |-> "POST", command |-> c, at |-> clock + 1])
ReverseMovement(w, k) == ManuallyReversible(ledger.moves[k]) /\ Begin(w, [kind |-> "REVERSE", of |-> k, at |-> clock + 1])
ReverseStockMovementOperation(w, k) ==
    ledger.moves[k].src = "OPERATION" /\ Begin(w, [kind |-> "REVERSE_OPERATION", of |-> k, at |-> clock + 1])
ReverseInvoiceMovementsTx(w, c) ==
    Source[c] = "DOCUMENT" /\ MovesOf(ledger, c) # {} /\ Begin(w, [kind |-> "CANCEL_DOCUMENT", document |-> c, at |-> clock + 1])

\* locked are the identities whose movements the triggers of a count refuse.
Commit(w, locked) ==
    LET done == PostAll(ledger, ToPost(ledger, running[w]), locked)
    IN  /\ running[w] # Idle /\ done.ok /\ Len(done.ledger.moves) <= MaxMoves
        /\ ledger' = done.ledger
        /\ running' = [running EXCEPT ![w] = Idle]
        /\ UNCHANGED <<warehouse, clock>>

\* A refused request, a lost connection or a deadlock takes the transaction back.
Rollback(w) ==
    /\ running[w] # Idle /\ running' = [running EXCEPT ![w] = Idle]
    /\ UNCHANGED <<ledger, warehouse, clock>>
-----------------------------------------------------------------------------
(* The warehouse.  Its row is locked: none of this runs beside a commit. *)

CreateWarehouse(type) ==
    /\ ~warehouse.exists /\ warehouse' = [exists |-> TRUE, active |-> TRUE, type |-> type]
    /\ UNCHANGED <<ledger, clock, running>>
\* Neither stock nor an open count keeps a warehouse active.
UpdateWarehouse(active) ==
    /\ warehouse.exists /\ warehouse.active # active /\ warehouse' = [warehouse EXCEPT !.active = active]
    /\ UNCHANGED <<ledger, clock, running>>
\* warehouseDeletionStatusExpression: used says whether other records refer to it.
DeleteWarehouse(used) ==
    /\ warehouse.exists /\ ledger.moves = << >> /\ ~used
    /\ warehouse' = NoWarehouse
    /\ UNCHANGED <<ledger, clock, running>>
-----------------------------------------------------------------------------
(* Properties *)

\* The projections say what the ledger says: a position is the sum of its movements
\* and never negative, a serial number is in stock exactly when its position is one,
\* and the layers of a variant cover its stock.  They fall short of what went out
\* only by what a lot's movement found already consumed by movements without a lot.
StockIsLedger ==
    /\ \A i \in Items : /\ ledger.physical[i] = Delta(ledger.moves, {k \in DOMAIN ledger.moves : ledger.moves[k].item = i})
                        /\ ledger.physical[i] >= 0
                        /\ Tracking[i] = "SERIAL" => ledger.physical[i] = IF i \in ledger.inStock THEN 1 ELSE 0
    /\ \A v \in Variants :
         LET of == {k \in DOMAIN ledger.moves : Variant[ledger.moves[k].item] = v}
             layers == MapThenSumSet(LAMBDA k : ledger.left[k], of)
         IN  /\ layers = MapThenSumSet(LAMBDA i : ledger.physical[i], {i \in Items : Variant[i] = v}) + ledger.short[v]
             /\ ledger.short[v] > 0 => \E j, k \in of : /\ Tracking[ledger.moves[j].item] = "LOT" /\ ledger.moves[j].delta < 0
                                                        /\ Tracking[ledger.moves[k].item] # "LOT" /\ ledger.moves[k].delta < 0

\* A movement is undone at most once, by exactly its opposite, and an undoing is
\* never undone; what a document moved is undone whole, when the document is
\* cancelled, or not at all, whatever is reversed by hand meanwhile.
UndoneOnce ==
    LET undone == {k \in DOMAIN ledger.moves : Reversed(ledger, k)}
    IN  /\ \A k \in undone :
             /\ Cardinality({j \in DOMAIN ledger.moves : ledger.moves[j].of = k}) = 1
             /\ ledger.moves[k].of = 0
             /\ \A j \in DOMAIN ledger.moves : ledger.moves[j].of = k =>
                  ledger.moves[j].item = ledger.moves[k].item /\ ledger.moves[j].delta = -ledger.moves[k].delta
        /\ \A c \in DOMAIN Commands : Source[c] = "DOCUMENT" => MovesOf(ledger, c) \subseteq undone \/ MovesOf(ledger, c) \cap undone = {}
        /\ \A c \in DOMAIN Commands : MovesOf(ledger, c) = {} \/ Cardinality(MovesOf(ledger, c)) = Len(Commands[c])

\* The ledger is exact: what stock, serials and layers say, and what was undone.
LedgerIsExact == StockIsLedger /\ UndoneOnce
=============================================================================
