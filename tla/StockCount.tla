----------------------------- MODULE StockCount -----------------------------
(***************************************************************************)
(* A stock count (stock_count_engine.go) over the ledger of its warehouse. *)
(* Counting happens while stock moves: the count keeps a snapshot, an      *)
(* append-only sequence of events that say what was found, and the         *)
(* exceptions of its reviews; posting moves the stock by the difference.   *)
(*                                                                         *)
(* The count's row is locked by every command, so a command is one step,   *)
(* except posting: it evaluates the count, and only then locks the stock   *)
(* identities it adjusts, so movements may commit in between.  The times   *)
(* of the snapshot and of events are clock_timestamp().                    *)
(*                                                                         *)
(* A count in progress always has its one open pass, so StartStockCountPass*)
(* returns that; events may name an open session of it, and then change    *)
(* nothing else.  Sessions are left out.                                   *)
(***************************************************************************)
EXTENDS StockLedger

CONSTANTS
    Barcodes,   \* what can be scanned, and the variants that carry each
    Plain,      \* the identity of each variant without lot or serial number
    Scopes,     \* what a partial count may cover
    Found,      \* quantities that may be entered
    MaxEvents,  \* bound on a count's events
    MaxPasses   \* and on its passes

ASSUME CountAssumption ==
    /\ \A b \in DOMAIN Barcodes : Barcodes[b] \subseteq Variants
    /\ Plain \in [Variants -> Items] /\ Scopes \subseteq SUBSET Items /\ Found \subseteq Nat
    /\ MaxEvents \in Nat /\ MaxPasses \in Nat

VARIABLES
    count,      \* stock_count_engine_counts: state, movement_policy, scope_mode, snapshot_at, open pass
    scope,      \* stock_count_engine_scopes: snapshot_quantity, and the ledger's length when it was added
    events,     \* stock_count_engine_events
    open,       \* the open ones of stock_count_engine_review_exceptions
    posting     \* the transaction that posts: its time, and the ledger's length when it evaluated

countVars == <<stockVars, count, scope, events, open, posting>>

NoCount == [state |-> "NONE", policy |-> "NONE", mode |-> "NONE", at |-> 0, pass |-> 0, counting |-> FALSE]
NotPosting == [at |-> 0, seen |-> 0]
Counting == {"IN_PROGRESS", "REVIEW"}

\* Every variable holds a value of its type.
CountTypeOK ==
    /\ StockTypeOK
    /\ count \in [state: {"NONE", "POSTED", "CANCELLED"} \cup Counting, policy: {"NONE", "CONTINUE", "LOCK_SCOPE"},
                  mode: {"NONE", "FULL", "PARTIAL"}, at: Nat, pass: Nat, counting: BOOLEAN]
    /\ DOMAIN scope \subseteq Items /\ \A i \in DOMAIN scope : scope[i] \in [quantity: Int, since: Nat]
    /\ events \in Seq([item: Items \cup {"NONE"}, type: {"SCAN", "CORRECTION", "ZERO", "IMPORT"}, quantity: Nat, at: Nat,
                       status: {"ACCEPTED", "UNKNOWN", "AMBIGUOUS", "OUT_OF_SCOPE"}])
    /\ open \subseteq [kind: {"UNCHECKED", "MOVEMENT_OVERLAP", "UNKNOWN", "AMBIGUOUS", "OUT_OF_SCOPE"}, item: Items \cup {"NONE"}]
    /\ posting \in [at: Nat, seen: Nat]

CountInit ==
    /\ StockInit
    /\ count = NoCount /\ scope = [i \in {} |-> 0] /\ events = << >> /\ open = {} /\ posting = NotPosting
-----------------------------------------------------------------------------
(* Starting a count, and its scope *)

MovesTo(i) == {k \in DOMAIN ledger.moves : ledger.moves[k].item = i}
\* What the ledger shows of an item at a time, and what it shows moved since.
AsOf(i, t) == Delta(ledger.moves, {k \in MovesTo(i) : ledger.moves[k].at <= t})
Since(i, t) == Delta(ledger.moves, {k \in MovesTo(i) : ledger.moves[k].at > t})

\* Without a list of scopes everything that the ledger holds at the snapshot is
\* counted; with one, the positions as they are.  Its first statement locks the
\* warehouse's row (ensureStandardWarehouse, service.go:163), which each movement
\* locks before it is inserted (validateWarehouseMovementTx, service.go:183), so none
\* commits between the instant of the count and the reading of its positions.
StartStockCountEngine(policy, chosen) ==
    LET at == clock + 1
        covered == IF chosen = {} THEN {i \in Items : AsOf(i, at) # 0} ELSE chosen
    IN  /\ count.state = "NONE" /\ clock < MaxClock
        /\ warehouse.exists /\ warehouse.active /\ warehouse.type = "STANDARD"
        /\ clock' = at
        /\ count' = [state |-> "IN_PROGRESS", policy |-> policy, mode |-> IF chosen = {} THEN "FULL" ELSE "PARTIAL",
                     at |-> at, pass |-> 1, counting |-> TRUE]
        /\ scope' = [i \in covered |-> [quantity |-> IF chosen = {} THEN AsOf(i, at) ELSE ledger.physical[i],
                                        since |-> Len(ledger.moves)]]
        /\ UNCHANGED <<ledger, warehouse, running, events, open, posting>>

Matching(v) == {i \in DOMAIN scope : Variant[i] = v}
\* Stock of the variant that is kept by lot or serial number cannot be counted as one.
Dimensional(v) ==
    \E k \in DOMAIN ledger.moves : LET m == ledger.moves[k]
                                   IN  Variant[m.item] = v /\ Tracking[m.item] # "PLAIN" /\ m.at <= count.at

\* ensureFullCountScopeTx: the scope of a variant, added to a full count when
\* there is none.
FullCountScope(v) ==
    IF Cardinality(Matching(v)) = 1
    THEN [status |-> "ACCEPTED", item |-> CHOOSE i \in Matching(v) : TRUE, scope |-> scope]
    ELSE IF Matching(v) # {} \/ count.mode # "FULL" \/ Dimensional(v)
    THEN [status |-> "OUT_OF_SCOPE", item |-> "NONE", scope |-> scope]
    ELSE [status |-> "ACCEPTED", item |-> Plain[v],
          scope |-> [i \in DOMAIN scope \cup {Plain[v]} |->
                       IF i = Plain[v] THEN [quantity |-> AsOf(i, count.at), since |-> Len(ledger.moves)] ELSE scope[i]]]

AddStockCountEngineScope(v) ==
    /\ count.state = "IN_PROGRESS" /\ count.mode = "FULL" /\ posting = NotPosting
    /\ FullCountScope(v).status = "ACCEPTED" /\ scope' = FullCountScope(v).scope
    /\ UNCHANGED <<stockVars, count, events, open, posting>>
-----------------------------------------------------------------------------
(* Counting: BatchScanStockCount *)

Record(item, type, quantity, status) ==
    /\ count.state = "IN_PROGRESS" /\ count.counting /\ posting = NotPosting
    /\ clock < MaxClock /\ Len(events) < MaxEvents
    /\ clock' = clock + 1
    /\ events' = Append(events, [item |-> item, type |-> type, quantity |-> quantity, at |-> clock + 1, status |-> status])
    /\ UNCHANGED <<ledger, warehouse, running, count, open, posting>>

ScanStockCount(b) ==
    LET vs == Barcodes[b]
    IN  \/ vs = {} /\ Record("NONE", "SCAN", 1, "UNKNOWN") /\ UNCHANGED scope
        \/ Cardinality(vs) > 1 /\ Record("NONE", "SCAN", 1, "AMBIGUOUS") /\ UNCHANGED scope
        \/ \E v \in vs : /\ vs = {v} /\ Record(FullCountScope(v).item, "SCAN", 1, FullCountScope(v).status)
                         /\ scope' = FullCountScope(v).scope
CorrectStockCount(i, q) == i \in DOMAIN scope /\ Record(i, "CORRECTION", q, "ACCEPTED") /\ UNCHANGED scope
ConfirmStockCountZero(i) == i \in DOMAIN scope /\ Record(i, "ZERO", 0, "ACCEPTED") /\ UNCHANGED scope
\* The event of a row of the spreadsheet is named after the row: it is entered once,
\* and a second sheet with another quantity is refused, in a recount too.
ApplyStockCountImport(i, q) ==
    /\ i \in DOMAIN scope /\ ~ \E n \in DOMAIN events : events[n].type = "IMPORT" /\ events[n].item = i
    /\ Record(i, "IMPORT", q, "ACCEPTED") /\ UNCHANGED scope
-----------------------------------------------------------------------------
(* Review *)

Answers(i) == {n \in DOMAIN events : events[n].item = i /\ events[n].status = "ACCEPTED"}

\* calculateEngineEffective: a correction, an import or a zero replaces, a scan adds
\* to what was found in this and earlier passes.
Effective(i) ==
    FoldLeft(LAMBDA q, n : IF events[n].type = "SCAN" THEN q + events[n].quantity ELSE events[n].quantity, 0, Ordered(Answers(i)))
LastRecorded(i) == events[Max(Answers(i))].at

\* Movements of a counted item that began after it was last counted.  Only counts
\* that let stock move look for them.
Overlaps(i) ==
    IF count.policy # "CONTINUE" THEN {}
    ELSE {k \in MovesTo(i) : ledger.moves[k].at > count.at /\ ledger.moves[k].at > LastRecorded(i)}

Missing == {i \in DOMAIN scope : Answers(i) = {}}
Unread == {events[n].status : n \in DOMAIN events} \ {"ACCEPTED"}

\* The exceptions evaluateEngineTx finds.  A scan that was not placed is found again
\* by every evaluation, whatever a reviewer resolved.
Exceptions ==
    {[kind |-> "UNCHECKED", item |-> i] : i \in Missing}
    \cup {[kind |-> "MOVEMENT_OVERLAP", item |-> i] : i \in {j \in DOMAIN scope \ Missing : Overlaps(j) # {}}}
    \cup {[kind |-> k, item |-> "NONE"] : k \in Unread}
\* Complete counts close what is open.
Evaluated == IF Exceptions = {} THEN {} ELSE open \cup Exceptions

\* submitStockCountPassAndReview; a count in review is only evaluated again.
SubmitStockCountPassAndReview ==
    /\ count.state \in Counting /\ posting = NotPosting
    /\ count.state = "IN_PROGRESS" => count.counting /\ Missing = {}
    /\ count' = [count EXCEPT !.state = "REVIEW", !.counting = FALSE]
    /\ open' = Evaluated
    /\ UNCHANGED <<stockVars, scope, events, posting>>

\* Events and exceptions stay; a new pass is opened.
ReopenStockCountEngineForRecount ==
    /\ count.state = "REVIEW" /\ ~count.counting /\ posting = NotPosting /\ count.pass < MaxPasses
    /\ count' = [count EXCEPT !.state = "IN_PROGRESS", !.counting = TRUE, !.pass = @ + 1]
    /\ UNCHANGED <<stockVars, scope, events, open, posting>>

ResolveStockCountEngineException(x) ==
    /\ count.state = "REVIEW" /\ posting = NotPosting /\ x \in open
    /\ open' = open \ {x}
    /\ UNCHANGED <<stockVars, count, scope, events, posting>>

CancelStockCountEngine ==
    /\ count.state \in Counting /\ posting = NotPosting
    /\ count' = [count EXCEPT !.state = "CANCELLED"]
    /\ UNCHANGED <<stockVars, scope, events, open, posting>>
-----------------------------------------------------------------------------
(* Posting *)

\* An incomplete count is refused, and what its evaluation wrote is rolled back.
Complete == Exceptions = {}

\* The transaction begins and the count is evaluated.
EvaluateForPost ==
    /\ count.state = "REVIEW" /\ posting = NotPosting /\ clock < MaxClock /\ Complete
    /\ clock' = clock + 1 /\ posting' = [at |-> clock + 1, seen |-> Len(ledger.moves)]
    /\ UNCHANGED <<ledger, warehouse, running, count, scope, events, open>>

\* Mutant: what moved since the snapshot is not expected.
MutExpected(i) == scope[i].quantity

\* engineExpectedDifference
Expected(i) == scope[i].quantity + Since(i, count.at)
Adjustment(i) ==
    [item |-> i, delta |-> Effective(i) - Expected(i), at |-> posting.at, src |-> "COUNT", command |-> "NONE", of |-> 0]

\* The identities are locked and their ledgers read; the differences are posted.
PostStockCountEngine ==
    LET wrong == {i \in DOMAIN scope : Effective(i) # Expected(i)}
        order == SetToSeq(wrong)
        done == PostAll(ledger, [n \in DOMAIN order |-> Adjustment(order[n])], {})
    IN  /\ posting # NotPosting /\ done.ok
        /\ ledger' = done.ledger
        /\ count' = [count EXCEPT !.state = "POSTED"] /\ open' = {} /\ posting' = NotPosting
        /\ UNCHANGED <<warehouse, clock, running, scope, events>>

RollbackPost ==
    /\ posting # NotPosting /\ posting' = NotPosting
    /\ UNCHANGED <<stockVars, count, scope, events, open>>
-----------------------------------------------------------------------------

\* reject_stock_movement_in_locked_count_scope
Locked == IF count.state \in Counting /\ count.policy = "LOCK_SCOPE" THEN DOMAIN scope ELSE {}

\* What keeps a warehouse without movements from being deleted.
Used == count.state # "NONE"

Stock ==
    /\ \/ \E w \in Workers, c \in DOMAIN Commands : PostMovement(w, c) \/ ReverseInvoiceMovementsTx(w, c)
       \/ \E w \in Workers, k \in DOMAIN ledger.moves : ReverseMovement(w, k) \/ ReverseStockMovementOperation(w, k)
       \/ \E w \in Workers : Commit(w, Locked) \/ Rollback(w)
       \/ \E t \in {"STANDARD", "QUARANTINE"} : CreateWarehouse(t)
       \/ \E b \in BOOLEAN : UpdateWarehouse(b)
       \/ DeleteWarehouse(Used)
    /\ UNCHANGED <<count, scope, events, open, posting>>
CountNext ==
    \/ Stock
    \/ \E p \in {"CONTINUE", "LOCK_SCOPE"}, s \in Scopes \cup {{}} : StartStockCountEngine(p, s)
    \/ \E v \in Variants : AddStockCountEngineScope(v)
    \/ \E b \in DOMAIN Barcodes : ScanStockCount(b)
    \/ \E i \in Items : ConfirmStockCountZero(i) \/ \E q \in Found : CorrectStockCount(i, q) \/ ApplyStockCountImport(i, q)
    \/ SubmitStockCountPassAndReview \/ ReopenStockCountEngineForRecount \/ CancelStockCountEngine
    \/ \E x \in open : ResolveStockCountEngineException(x)
    \/ EvaluateForPost \/ PostStockCountEngine \/ RollbackPost

CountSpec == CountInit /\ [][CountNext]_countVars
-----------------------------------------------------------------------------
(* Properties *)

Posts == posting # NotPosting /\ count'.state = "POSTED"

\* When a count is posted the stock of every line becomes what was counted, whatever
\* moved meanwhile, except for movements that began before the snapshot and
\* committed after it: the snapshot does not hold them, and their time keeps them
\* out of what moved since, so they are added to what was counted.
PostSettles ==
    [][Posts => \A i \in DOMAIN scope :
         LET straddling == {k \in MovesTo(i) : ledger.moves[k].at <= count.at /\ k > scope[i].since}
         IN  ledger'.physical[i] = Effective(i) + Delta(ledger.moves, straddling)]_countVars

\* Posting erases no movement that a count can see: none that began after its line
\* was last counted had committed when the count was evaluated, and under LOCK_SCOPE
\* none has committed at all since the line was added.
NothingErased ==
    [][Posts => \A i \in DOMAIN scope : \A k \in MovesTo(i) :
         /\ k <= posting.seen => ledger.moves[k].at <= count.at \/ ledger.moves[k].at <= LastRecorded(i)
         /\ count.policy = "LOCK_SCOPE" => k <= scope[i].since]_countVars

\* A posted count leaves the stock as it was counted and forgets no movement.
CountSettles == PostSettles /\ NothingErased
=============================================================================
