------------------------------- MODULE Imports -------------------------------
(***************************************************************************)
(* File imports (internal/imports, internal/dataexchange): a file is       *)
(* uploaded, analysed under a column mapping into a preview, and the       *)
(* preview is committed to the catalogue.                                  *)
(*                                                                         *)
(* A job is claimed by a short transaction, the rows are applied by a      *)
(* second one and the outcome is written by a third; between them the      *)
(* process may stop, another request may take the claim over once it is    *)
(* five minutes old, and users work on the same cards.  The rows are read  *)
(* before the second transaction begins.  A refused transaction changes    *)
(* nothing, so an operation on the catalogue is the set of its outcomes:   *)
(* one catalogue, or none.                                                 *)
(***************************************************************************)
EXTENDS Integers, FiniteSets, Sequences

CONSTANTS Jobs,
          Requests,      \* calls of Analyze and Commit
          Actor,         \* the user behind each request
          RowCodes,         \* codes of cards, warehouses and parties
          MainHouse,     \* the warehouse the files name for opening stock
          Marks,         \* barcodes and tax numbers
          NoMark,
          ImportFiles,   \* the files: sequences of [key, mark]
          Columns,       \* column mappings
          OpeningColumn  \* the quantity each mapping reads, 0 when it reads none

(* What can be imported; barcodes are only exported *)
Entities == {"PRODUCT", "VARIANT", "WAREHOUSE", "PRICE_LIST", "PARTY", "OPENING_STOCK"}
RowNumbers == 1 .. 2   \* bound: rows of a file

ASSUME ImportsAssumption ==
    /\ MainHouse \in RowCodes /\ NoMark \notin Marks
    /\ "nil" \notin Jobs   \* stands for no job
    /\ \A f \in ImportFiles :
         DOMAIN f \subseteq RowNumbers /\ f \in Seq([key : RowCodes, mark : Marks \cup {NoMark}])
    /\ \A m \in Columns : OpeningColumn[m] \in Nat

VARIABLES
    import,     \* import_jobs with the analysis each holds
    analysing,  \* the Analyze calls under way
    committing, \* the Commit calls under way
    shop        \* the catalogue: cards, variants, barcodes, prices, warehouses, parties, opening stock

importVars == <<import, analysing, committing, shop>>

Nil == "nil"
ByHand == <<"hand", 0>>
NoJob == [status |-> Nil, entity |-> Nil, file |-> << >>, columns |-> Nil, token |-> Nil, stale |-> FALSE]
NoAnalysis == [job |-> Nil, columns |-> Nil, seen |-> Nil]
NoCommit == [job |-> Nil, confirmed |-> Nil, columns |-> Nil, prices |-> {}, at |-> Nil, lost |-> FALSE, allow |-> FALSE]
NoneKept == [id |-> <<Nil, 0>>, kind |-> Nil, text |-> <<Nil, 0>>]
NoBar == [of |-> Nil, variant |-> FALSE, primary |-> FALSE]
NotPosted == [times |-> 0, key |-> Nil, quantity |-> 0, by |-> Nil, confirmed |-> Nil, lost |-> FALSE]

ImportInit ==
    /\ import = [j \in Jobs |-> NoJob]
    /\ analysing = [r \in Requests |-> NoAnalysis]
    /\ committing = [r \in Requests |-> NoCommit]
    /\ shop = [card   |-> [k \in RowCodes |-> NoneKept],
               sku    |-> [k \in RowCodes |-> NoneKept],
               house  |-> [k \in RowCodes |-> IF k = MainHouse THEN [id |-> ByHand, kind |-> "open", text |-> ByHand] ELSE NoneKept],
               party  |-> [k \in RowCodes |-> NoneKept],
               number |-> [k \in RowCodes |-> NoMark],
               bar    |-> [b \in Marks |-> NoBar],
               price  |-> [k \in RowCodes |-> {}],
               posted |-> [t \in Jobs \X RowNumbers |-> NotPosted]]

Idle(r) == analysing[r].job = Nil /\ committing[r].job = Nil
Known(x) == x.kind # Nil
(* The identifier of a row's record is derived from the job and the row *)
stableImportID(j, n) == <<j, n>>
-----------------------------------------------------------------------------
(* The domain transactions *)

(* A barcode of a card, or of the card's variant *)
Bears(d, b, k, variant) == d.bar[b] = [of |-> k, variant |-> variant, primary |-> TRUE]
Tag(d, b, k, variant) ==
    IF b = NoMark THEN {d} ELSE
    IF d.bar[b].of # Nil THEN {} ELSE
    {[d EXCEPT !.bar = [c \in Marks |->
        IF c = b THEN [of |-> k, variant |-> variant, primary |-> TRUE]
        ELSE IF d.bar[c].of = k /\ d.bar[c].variant = variant THEN [d.bar[c] EXCEPT !.primary = FALSE]
        ELSE d.bar[c]]]}

(* A card may move its primary barcode; the old one stays as a further one *)
syncImportedProductBarcode(d, k, b) ==
    IF b = NoMark \/ Bears(d, b, k, FALSE) THEN {d} ELSE Tag(d, b, k, FALSE)

(* A variant keeps the primary barcode it has *)
ensureImportedBarcode(d, k, b) ==
    IF b # NoMark /\ Bears(d, b, k, TRUE) THEN {d} ELSE
    IF b # NoMark /\ \E c \in Marks : Bears(d, c, k, TRUE) THEN {} ELSE Tag(d, b, k, TRUE)

(* The movement's key is the job and the row; its hash covers the user too *)
PostOpeningStockImport(d, j, n, k, quantity, call, by) ==
    LET old == d.posted[<<j, n>>]
        same == old.key = k /\ old.quantity = quantity /\ old.by = by
        new == [times |-> old.times + 1, key |-> k, quantity |-> quantity, by |-> by,
                confirmed |-> call.confirmed, lost |-> call.lost]
    IN IF d.house[MainHouse].kind # "open" \/ ~Known(d.card[k]) \/ d.card[k].kind = "SERVICE" THEN {} ELSE
       IF old.times > 0 THEN (IF same THEN {d} ELSE {}) ELSE
       IF d.card[k].kind = "VARIANTS" THEN {} ELSE
       {[d EXCEPT !.posted[<<j, n>>] = new]}

importedOpeningStock(d, j, n, k, quantity, call, by) ==
    IF quantity = 0 THEN {d} ELSE
    IF ~call.allow THEN {} ELSE PostOpeningStockImport(d, j, n, k, quantity, call, by)

MutcommitImportedProductRow(d, j, n, row, quantity, call, by) ==
    LET c == d.card[row.key]
        id == stableImportID(j, n)
        renamed == [d EXCEPT !.card[row.key].text = id]
        created == [d EXCEPT !.card[row.key] = [id |-> id, kind |-> "PHYSICAL", text |-> id]]
    IN IF Known(c)
       THEN IF c.kind = "SERVICE" \/ (c.kind = "VARIANTS" /\ row.mark # NoMark)
            THEN {}
            ELSE UNION {importedOpeningStock(e, j, n, row.key, quantity, call, by) :
                            e \in syncImportedProductBarcode(renamed, row.key, row.mark)}
       ELSE UNION {importedOpeningStock(e, j, n, row.key, quantity, call, by) : e \in Tag(created, row.mark, row.key, FALSE)}
(* Only the row that created a card may open its stock *)
commitImportedProductRow(d, j, n, row, quantity, call, by) ==
    LET c == d.card[row.key]
        id == stableImportID(j, n)
        renamed == [d EXCEPT !.card[row.key].text = id]
        created == [d EXCEPT !.card[row.key] = [id |-> id, kind |-> "PHYSICAL", text |-> id]]
    IN IF Known(c)
       THEN IF \/ c.kind = "SERVICE"
               \/ c.kind = "VARIANTS" /\ row.mark # NoMark
               \/ quantity > 0 /\ c.id # id
            THEN {}
            ELSE UNION {importedOpeningStock(e, j, n, row.key, quantity, call, by) :
                            e \in syncImportedProductBarcode(renamed, row.key, row.mark)}
       ELSE UNION {importedOpeningStock(e, j, n, row.key, quantity, call, by) : e \in Tag(created, row.mark, row.key, FALSE)}

(* kind of a variant: the values it stands for; the files describe "x" *)
commitImportedVariantRow(d, j, n, row) ==
    LET v == d.sku[row.key]
        id == stableImportID(j, n)
    IN IF d.card[row.key].kind # "VARIANTS" \/ (Known(v) /\ v.kind # "x") THEN {} ELSE
       IF Known(v) THEN ensureImportedBarcode([d EXCEPT !.sku[row.key].text = id], row.key, row.mark) ELSE
       Tag([d EXCEPT !.sku[row.key] = [id |-> id, kind |-> "x", text |-> id]], row.mark, row.key, TRUE)

commitImportedWarehouseRow(d, j, n, row) ==
    LET w == d.house[row.key]
        id == stableImportID(j, n)
    IN IF ~Known(w) THEN {[d EXCEPT !.house[row.key] = [id |-> id, kind |-> "open", text |-> id]]} ELSE
       IF w.kind = "open" THEN {[d EXCEPT !.house[row.key].text = id]} ELSE {}

(* duplicate_party_tax_number_policy is BLOCK; an empty column keeps the number *)
ensureImportedPartyIdentityAvailable(d, k, b) ==
    b = NoMark \/ \A c \in RowCodes \ {k} : d.number[c] # b
commitImportedPartyRow(d, j, n, row) ==
    LET p == d.party[row.key]
        id == stableImportID(j, n)
        number == IF row.mark = NoMark THEN d.number[row.key] ELSE row.mark
    IN IF (Known(p) /\ p.kind # "ORGANIZATION") \/ ~ensureImportedPartyIdentityAvailable(d, row.key, number) THEN {} ELSE
       {[d EXCEPT !.party[row.key] = [id |-> IF Known(p) THEN p.id ELSE id, kind |-> "ORGANIZATION", text |-> id],
                  !.number[row.key] = number]}

commitRow(d, e, j, n, row, quantity, call, by) ==
    CASE e = "PRODUCT"   -> commitImportedProductRow(d, j, n, row, quantity, call, by)
      [] e = "VARIANT"   -> commitImportedVariantRow(d, j, n, row)
      [] e = "WAREHOUSE" -> commitImportedWarehouseRow(d, j, n, row)
      [] e = "PARTY"     -> commitImportedPartyRow(d, j, n, row)
      [] OTHER           -> PostOpeningStockImport(d, j, n, row.key, quantity, call, by)

(* The rows of a job, one after the other, in one transaction *)
commitCatalogImport(r) ==
    LET call == committing[r]
        j == call.job
        file == import[j].file
        after[n \in 0 .. Len(file)] ==
            IF n = 0 THEN {shop} ELSE
            UNION {commitRow(d, import[j].entity, j, n, file[n], OpeningColumn[call.columns], call, Actor[r]) :
                       d \in after[n - 1]}
    IN after[Len(file)]
-----------------------------------------------------------------------------
(* Analysis *)

validateProductOpeningStock(quantity, allow, existing) ==
    quantity > 0 => ~existing /\ allow /\ shop.house[MainHouse].kind = "open"
validateProductRow(row, quantity, allow) ==
    LET c == shop.card[row.key]
    IN IF Known(c)
       THEN /\ c.kind # "SERVICE" /\ validateProductOpeningStock(quantity, allow, TRUE)
            /\ row.mark # NoMark => /\ c.kind = "PHYSICAL"
                                    /\ shop.bar[row.mark].of = Nil \/ Bears(shop, row.mark, row.key, FALSE)
       ELSE /\ row.mark # NoMark => shop.bar[row.mark].of = Nil
            /\ validateProductOpeningStock(quantity, allow, FALSE)

validateVariantRow(row) ==
    LET v == shop.sku[row.key]
    IN /\ shop.card[row.key].kind = "VARIANTS"
       /\ Known(v) => v.kind = "x"
       /\ row.mark # NoMark =>
            \/ Bears(shop, row.mark, row.key, TRUE) /\ Known(v)
            \/ shop.bar[row.mark].of = Nil /\ (Known(v) => \A b \in Marks : ~Bears(shop, b, row.key, TRUE))

validateWarehouseRow(row) == shop.house[row.key].kind \in {Nil, "open"}

validatePartyRow(row) ==
    /\ shop.party[row.key].kind \in {Nil, "ORGANIZATION"}
    /\ ensureImportedPartyIdentityAvailable(shop, row.key, IF row.mark = NoMark THEN shop.number[row.key] ELSE row.mark)

requiredValues(e, quantity) == e = "OPENING_STOCK" => quantity > 0

validateRow(e, row, quantity, allow) ==
    CASE e = "PRODUCT"    -> validateProductRow(row, quantity, allow)
      [] e = "VARIANT"    -> validateVariantRow(row)
      [] e = "WAREHOUSE"  -> validateWarehouseRow(row)
      [] e = "PARTY"      -> validatePartyRow(row)
      [] e = "PRICE_LIST" -> Known(shop.card[row.key])
      [] OTHER            -> Known(shop.card[row.key]) /\ shop.house[MainHouse].kind = "open"

(* No two rows of a file describe the same record; price rows are not compared *)
duplicateCompositeValidator(e, file) ==
    e # "PRICE_LIST" => \A m, n \in DOMAIN file : m # n => file[m].key # file[n].key

CanCommit(j, m, allow) ==
    LET e == import[j].entity
        file == import[j].file
    IN /\ file # << >> /\ duplicateCompositeValidator(e, file)
       /\ \A n \in DOMAIN file : requiredValues(e, OpeningColumn[m])
       /\ \A n \in DOMAIN file : validateRow(e, file[n], OpeningColumn[m], allow)

Upload(j, e, file) ==
    /\ import[j] = NoJob
    /\ import' = [import EXCEPT ![j] = [NoJob EXCEPT !.status = "UPLOADED", !.entity = e, !.file = file]]
    /\ UNCHANGED <<analysing, committing, shop>>

claimAnalyze(r, j, m) ==
    /\ Idle(r) /\ import[j].status \in {"UPLOADED", "READY", "FAILED"}
    /\ import' = [import EXCEPT ![j].status = "ANALYZING"]
    /\ analysing' = [analysing EXCEPT ![r] = [job |-> j, columns |-> m, seen |-> Nil]]
    /\ UNCHANGED <<committing, shop>>

(* The rows are judged against the catalogue without a transaction *)
Preview(r, allow) ==
    LET a == analysing[r]
    IN /\ a.job # Nil /\ a.seen = Nil
       /\ analysing' = [analysing EXCEPT ![r].seen = IF CanCommit(a.job, a.columns, allow) THEN "READY" ELSE "FAILED"]
       /\ UNCHANGED <<import, committing, shop>>

(* Rows, mapping and revision are replaced together; the revision stands for
   the file, the entity and the mapping, not for what the analysis found *)
StoreAnalysis(r) ==
    LET a == analysing[r]
    IN /\ a.job # Nil /\ a.seen # Nil
       /\ import' = IF import[a.job].status # "ANALYZING" THEN import ELSE
                    [import EXCEPT ![a.job].status = a.seen, ![a.job].columns = a.columns]
       /\ analysing' = [analysing EXCEPT ![r] = NoAnalysis]
       /\ UNCHANGED <<committing, shop>>

(* An error leaves FAILED; a process that stops leaves ANALYZING *)
AnalysisEnds(r, crash) ==
    /\ analysing[r].job # Nil
    /\ import' = IF crash \/ import[analysing[r].job].status # "ANALYZING" THEN import
                 ELSE [import EXCEPT ![analysing[r].job].status = "FAILED"]
    /\ analysing' = [analysing EXCEPT ![r] = NoAnalysis]
    /\ UNCHANGED <<committing, shop>>
-----------------------------------------------------------------------------
(* Commit *)

(* Whoever held the claim no longer does *)
Dispossess(j) == [c \in Requests |-> IF committing[c].job = j THEN [committing[c] EXCEPT !.lost = TRUE] ELSE committing[c]]

claimCommit(r, j, m, allow) ==
    /\ Idle(r)
    /\ \/ import[j].status = "READY"
       \/ import[j].status = "COMMITTING" /\ import[j].stale
    /\ import[j].columns = m
    /\ import' = [import EXCEPT ![j].status = "COMMITTING", ![j].token = r, ![j].stale = FALSE]
    /\ committing' = [Dispossess(j) EXCEPT ![r] = [NoCommit EXCEPT !.job = j, !.confirmed = m, !.at = "claimed", !.allow = allow]]
    /\ UNCHANGED <<analysing, shop>>

(* commitClaimTimeout passes *)
ClaimAges(j) ==
    /\ import[j].status = "COMMITTING" /\ ~import[j].stale
    /\ import' = [import EXCEPT ![j].stale = TRUE]
    /\ UNCHANGED <<analysing, committing, shop>>

RowsRead(r) ==
    /\ committing[r].at = "claimed"
    /\ committing' = [committing EXCEPT ![r].columns = import[committing[r].job].columns, ![r].at = "read"]
    /\ UNCHANGED <<import, analysing, shop>>
validImportRows(r) ==
    /\ committing[r].job # Nil /\ import[committing[r].job].entity # "OPENING_STOCK"
    /\ RowsRead(r)
openingStockImportLines(r) ==
    /\ committing[r].job # Nil /\ import[committing[r].job].entity = "OPENING_STOCK"
    /\ OpeningColumn[import[committing[r].job].columns] > 0
    /\ RowsRead(r)

ApplyRows(r) ==
    /\ committing[r].at = "read" /\ import[committing[r].job].entity # "PRICE_LIST"
    /\ shop' \in commitCatalogImport(r)
    /\ committing' = [committing EXCEPT ![r].at = "applied"]
    /\ UNCHANGED <<import, analysing>>

(* A price row looks for an entry of its own, then for one valid today,
   without a lock; two rows of one file see each other *)
commitPriceRow(r) ==
    LET j == committing[r].job
        file == import[j].file
        missing == {n \in DOMAIN file : stableImportID(j, n) \notin shop.price[file[n].key]}
    IN /\ committing[r].at = "read" /\ import[j].entity = "PRICE_LIST"
       /\ \A n \in DOMAIN file : Known(shop.card[file[n].key])
       /\ \A n \in missing : shop.price[file[n].key] = {} /\ \A m \in missing : m # n => file[m].key # file[n].key
       /\ committing' = [committing EXCEPT ![r].prices = missing, ![r].at = "checked"]
       /\ UNCHANGED <<import, analysing, shop>>
InsertPrices(r) ==
    LET j == committing[r].job
        file == import[j].file
    IN /\ committing[r].at = "checked"
       /\ \A n \in committing[r].prices : stableImportID(j, n) \notin shop.price[file[n].key]
       /\ shop' = [shop EXCEPT !.price = [k \in RowCodes |-> @[k] \cup {stableImportID(j, n) : n \in {x \in committing[r].prices : file[x].key = k}}]]
       /\ committing' = [committing EXCEPT ![r].at = "applied"]
       /\ UNCHANGED <<import, analysing>>

(* The rows are refused or the connection fails: the claim is given back *)
releaseCommit(r) ==
    LET j == committing[r].job
    IN /\ committing[r].at \in {"claimed", "read", "checked"}
       /\ import' = IF import[j].status = "COMMITTING" /\ import[j].token = r
                    THEN [import EXCEPT ![j].status = "READY", ![j].token = Nil, ![j].stale = FALSE]
                    ELSE import
       /\ committing' = [committing EXCEPT ![r] = NoCommit]
       /\ UNCHANGED <<analysing, shop>>

Finish(r) ==
    LET j == committing[r].job
    IN /\ committing[r].at = "applied"
       /\ import' = IF import[j].status = "COMMITTING" /\ import[j].token = r
                    THEN [import EXCEPT ![j].status = "COMMITTED", ![j].token = Nil, ![j].stale = FALSE]
                    ELSE import
       /\ committing' = [committing EXCEPT ![r] = NoCommit]
       /\ UNCHANGED <<analysing, shop>>

(* The process stops, or the last write is lost *)
CommitCrash(r) ==
    /\ committing[r].job # Nil
    /\ committing' = [committing EXCEPT ![r] = NoCommit]
    /\ UNCHANGED <<import, analysing, shop>>
-----------------------------------------------------------------------------
(* Users at work on the same records *)
KeepCard(k, kind) ==
    /\ shop.card[k].kind \in {Nil} \cup (IF kind = "VARIANTS" THEN {"PHYSICAL"} ELSE {})
    /\ \A b \in Marks : shop.bar[b].of # k
    /\ \A t \in DOMAIN shop.posted : shop.posted[t].key # k
    /\ shop' = [shop EXCEPT !.card[k] = IF Known(@) THEN [@ EXCEPT !.kind = kind] ELSE [id |-> ByHand, kind |-> kind, text |-> ByHand]]
    /\ UNCHANGED <<import, analysing, committing>>
KeepVariant(k) ==
    /\ shop.card[k].kind = "VARIANTS" /\ ~Known(shop.sku[k])
    /\ shop' = [shop EXCEPT !.sku[k] = [id |-> ByHand, kind |-> "y", text |-> ByHand]]
    /\ UNCHANGED <<import, analysing, committing>>
KeepHouse(k) ==
    /\ Known(shop.house[k])
    /\ shop' = [shop EXCEPT !.house[k].kind = IF @ = "open" THEN "closed" ELSE "open"]
    /\ UNCHANGED <<import, analysing, committing>>
KeepParty(k, kind, b) ==
    /\ ~Known(shop.party[k]) /\ ensureImportedPartyIdentityAvailable(shop, k, b)
    /\ shop' = [shop EXCEPT !.party[k] = [id |-> ByHand, kind |-> kind, text |-> ByHand], !.number[k] = b]
    /\ UNCHANGED <<import, analysing, committing>>

AnalyzeStep ==
    \E r \in Requests :
        \/ \E j \in Jobs, m \in Columns : claimAnalyze(r, j, m)
        \/ \E allow \in BOOLEAN : Preview(r, allow)
        \/ StoreAnalysis(r)
        \/ \E crash \in BOOLEAN : AnalysisEnds(r, crash)
CommitStep ==
    \/ \E r \in Requests :
        \/ \E j \in Jobs, m \in Columns, allow \in BOOLEAN : claimCommit(r, j, m, allow)
        \/ validImportRows(r)
        \/ openingStockImportLines(r)
        \/ ApplyRows(r)
        \/ commitPriceRow(r)
        \/ InsertPrices(r)
        \/ releaseCommit(r)
        \/ Finish(r)
        \/ CommitCrash(r)
    \/ \E j \in Jobs : ClaimAges(j)
KeepStep ==
    \E k \in RowCodes :
        \/ \E kind \in {"PHYSICAL", "SERVICE", "VARIANTS"} : KeepCard(k, kind)
        \/ KeepVariant(k) \/ KeepHouse(k)
        \/ \E kind \in {"PERSON", "ORGANIZATION"}, b \in Marks \cup {NoMark} : KeepParty(k, kind, b)
ImportStep ==
    \/ \E j \in Jobs, e \in Entities, file \in ImportFiles : Upload(j, e, file)
    \/ AnalyzeStep \/ CommitStep \/ KeepStep
ImportSpec == ImportInit /\ [][ImportStep]_importVars
-----------------------------------------------------------------------------
(* However often a job is taken over, retried after a lost answer or raced
   by another job, a row opens stock at most once; a card file opens the
   stock of cards its own row created and of no other ("a different import
   job must never add opening stock to an already existing product"); and
   the quantity is the one of the preview its caller confirmed, unless the
   caller had lost its claim before the rows were applied. *)
AppliedOnce ==
    \A j \in Jobs, n \in RowNumbers :
        LET p == shop.posted[<<j, n>>]
        IN p.times > 0 =>
             /\ p.times = 1
             /\ import[j].entity = "PRODUCT" => shop.card[p.key].id = stableImportID(j, n)
             /\ p.lost \/ p.quantity = OpeningColumn[p.confirmed]
=============================================================================
