------------------------------ MODULE Catalogue ------------------------------
(***************************************************************************)
(* Product cards and their variants (internal/products), price lists       *)
(* (internal/pricing) and tax rates (internal/taxes).                      *)
(*                                                                         *)
(* Commands that decide on a card lock its row and check the version they  *)
(* were given; a stale command is refused and changes nothing, so versions *)
(* are left out.  Three commands are two steps.  The variant settings hold   *)
(* the card's row from their first statement to their commit, while a      *)
(* stock row (written by internal/inventory) reads the card's mode without *)
(* a lock and only then waits for the row through its foreign key; and the *)
(* currency of a price list is checked and changed by separate statements. *)
(*                                                                         *)
(* The file import (internal/imports) writes these tables too.  Its card   *)
(* and variant rows lock the card as the commands do, and are cases of     *)
(* CreateProduct, UpdateProduct, CreateVariant and ReplaceVariantBarcodes; *)
(* its price rows check and insert without a lock, in two steps.           *)
(***************************************************************************)
EXTENDS Integers, FiniteSets

CONSTANTS Articles,        \* product cards
          Skus,            \* bound: variants
          Traits,          \* variant definitions
          TraitOptions,    \* options of each definition
          Barcodes, Shelves,
          MaxCombinations, \* variants one card may span
          MaxNumber,       \* bound: numbers of the code series
          Tariffs,         \* price lists
          Entries,         \* bound: price entries
          Currencies,
          RateRows,        \* bound: rows of one tax
          RateValues,
          Horizon          \* bound: days; Horizon + 1 stands for "no end"

ASSUME CatalogueAssumption ==
    /\ MaxCombinations \in Nat /\ MaxNumber \in Nat /\ Horizon \in Nat
    /\ \A d \in Traits : TraitOptions[d] # {}
    /\ "none" \notin Articles \cup Skus \cup Tariffs \cup Currencies   \* stands for an absent reference

VARIABLES
    article,   \* the cards
    series,    \* next number of the code series
    shelf,     \* active categories and brands
    trait,     \* state of each definition: "none", "active", "inactive"
    option,    \* state of each option of each definition
    sku,       \* the variants
    barcode,   \* what each barcode is printed on
    setting,   \* the variant settings being saved
    posting,   \* the stock row being written
    stock,     \* the stock rows written
    tariff,    \* the price lists
    entry,     \* their entries
    switching, \* the price list whose currency is being changed
    importing, \* the entries a file's rows are being written as
    tax,       \* state of the tax definition
    rate,      \* its rows
    today

articleVars == <<article, series, shelf, trait, option, sku, barcode, setting, posting, stock>>
priceVars == <<tariff, entry, switching, importing>>
taxVars == <<tax, rate, today>>

Absent == "none"
NoConfig == [d \in {} |-> {}]
NoArticle == [kind |-> Absent, active |-> FALSE, mode |-> FALSE, config |-> NoConfig, shelf |-> Absent, number |-> 0]
NoSku == [of |-> Absent, active |-> FALSE, values |-> NoConfig]
Unprinted == [of |-> Absent, sku |-> Absent]
NoSetting == [of |-> Absent, mode |-> FALSE, config |-> NoConfig]
NoPosting == [of |-> Absent, sku |-> Absent, late |-> FALSE]
Kept(p) == article[p].kind # Absent
SkusOf(p) == {v \in Skus : sku[v].of = p}
(* A card whose settings are being saved is locked *)
Unlocked(p) == setting.of # p
-----------------------------------------------------------------------------
(* Cards *)
Numbers == {article[p].number : p \in Articles}
(* The series goes on to the first number no card has *)
nextCode == CHOOSE n \in series .. MaxNumber :
                n \notin Numbers /\ \A m \in series .. n - 1 : m \in Numbers
Free(codes, p, v) ==
    \A b \in codes : barcode[b] = Unprinted \/ barcode[b] = [of |-> p, sku |-> v]
Printed(codes, p, v) ==
    [b \in Barcodes |-> IF b \in codes THEN [of |-> p, sku |-> v]
                        ELSE IF barcode[b] = [of |-> p, sku |-> v] THEN Unprinted ELSE barcode[b]]
validateReferences(s) == s \in shelf \cup {Absent}

CreateProduct(p, kind, mode, codes, s, manual) ==
    /\ ~ Kept(p) /\ (mode => codes = {}) /\ validateReferences(s) /\ Free(codes, p, Absent)
    /\ IF manual # 0 THEN manual \notin Numbers /\ UNCHANGED series
       ELSE (\E n \in series .. MaxNumber : n \notin Numbers) /\ series' = nextCode + 1
    /\ article' = [article EXCEPT ![p] = [kind |-> kind, active |-> TRUE, mode |-> mode, config |-> NoConfig,
                       shelf |-> s, number |-> IF manual # 0 THEN manual ELSE nextCode]]
    /\ barcode' = Printed(codes, p, Absent)
    /\ UNCHANGED <<shelf, trait, option, sku, setting, posting, stock>>

UpdateProduct(p, kind, codes, s, number, active) ==
    /\ Kept(p) /\ Unlocked(p) /\ validateReferences(s) /\ Free(codes, p, Absent)
    /\ article[p].mode => codes = {} /\ kind = "PHYSICAL"
    /\ number \notin Numbers \ {article[p].number}
    /\ article' = [article EXCEPT ![p].kind = kind, ![p].shelf = s, ![p].number = number, ![p].active = active]
    /\ barcode' = Printed(codes, p, Absent)
    /\ UNCHANGED <<series, shelf, trait, option, sku, setting, posting, stock>>

DeactivateProduct(p) ==
    /\ article[p].active /\ Unlocked(p)
    /\ article' = [article EXCEPT ![p].active = FALSE]
    /\ UNCHANGED <<series, shelf, trait, option, sku, barcode, setting, posting, stock>>

setReferenceActive(s, active) ==
    /\ shelf' = IF active THEN shelf \cup {s} ELSE shelf \ {s}
    /\ UNCHANGED <<article, series, trait, option, sku, barcode, setting, posting, stock>>

ResolveBarcode(b) == barcode[b]
-----------------------------------------------------------------------------
(* Variant definitions *)
CreateVariantDefinition(d, os) ==
    /\ trait[d] = Absent
    /\ trait' = [trait EXCEPT ![d] = "active"]
    /\ option' = [option EXCEPT ![d] = [o \in TraitOptions[d] |-> IF o \in os THEN "active" ELSE Absent]]
    /\ UNCHANGED <<article, series, shelf, sku, barcode, setting, posting, stock>>

CreateVariantOption(d, o) ==
    /\ trait[d] = "active" /\ option[d][o] = Absent
    /\ option' = [option EXCEPT ![d][o] = "active"]
    /\ UNCHANGED <<article, series, shelf, trait, sku, barcode, setting, posting, stock>>

SetVariantDefinitionActive(d, to) ==
    /\ trait[d] # Absent
    /\ trait' = [trait EXCEPT ![d] = to]
    /\ UNCHANGED <<article, series, shelf, option, sku, barcode, setting, posting, stock>>

SetVariantOptionActive(d, o, to) ==
    /\ option[d][o] # Absent
    /\ option' = [option EXCEPT ![d][o] = to]
    /\ UNCHANGED <<article, series, shelf, trait, sku, barcode, setting, posting, stock>>

(* Every way to pick one option of each configured definition *)
allVariantSelections(c) ==
    {f \in [DOMAIN c -> UNION {c[d] : d \in DOMAIN c}] : \A d \in DOMAIN c : f[d] \in c[d]}

MutvalidateAndReplaceProductVariantConfig(p, c, mode) ==
    /\ mode => c # NoConfig
    /\ \A d \in DOMAIN c : trait[d] = "active" /\ c[d] # {} /\ \A o \in c[d] : option[d][o] = "active"
    /\ Cardinality(allVariantSelections(c)) <= MaxCombinations

(* New definitions of a card are in use, span few variants, and come before its first variant *)
validateAndReplaceProductVariantConfig(p, c, mode) ==
    /\ mode => c # NoConfig
    /\ \A d \in DOMAIN c : trait[d] = "active" /\ c[d] # {} /\ \A o \in c[d] : option[d][o] = "active"
    /\ Cardinality(allVariantSelections(c)) <= MaxCombinations
    /\ SkusOf(p) = {}

(* The mode of a card with stock rows, or with variants, is fixed *)
guardVariantMode(p, mode) ==
    mode # article[p].mode =>
        (\A r \in stock : r.of # p) /\ (~ mode => SkusOf(p) = {})

(* c is the new configuration, if one is given *)
BeginVariantConfig(p, mode, c, given) ==
    /\ Kept(p) /\ setting = NoSetting
    /\ mode => article[p].kind = "PHYSICAL"
    /\ mode /\ ~ article[p].mode => \A b \in Barcodes : barcode[b] # [of |-> p, sku |-> Absent]
    /\ IF given THEN c # article[p].config => validateAndReplaceProductVariantConfig(p, c, mode)
       ELSE mode => article[p].config # NoConfig
    /\ guardVariantMode(p, mode)
    /\ setting' = [of |-> p, mode |-> mode, config |-> IF given THEN c ELSE article[p].config]
    /\ UNCHANGED <<article, series, shelf, trait, option, sku, barcode, posting, stock>>

UpdateVariantConfig ==
    /\ setting # NoSetting
    /\ article' = [article EXCEPT ![setting.of].mode = setting.mode, ![setting.of].config = setting.config]
    /\ setting' = NoSetting
    /\ posting' = [posting EXCEPT !.late = @ \/ (posting.of = setting.of /\ setting.mode # article[setting.of].mode)]
    /\ UNCHANGED <<series, shelf, trait, option, sku, barcode, stock>>
-----------------------------------------------------------------------------
(* Variants *)
lockVariantProduct(p) == Unlocked(p) /\ article[p].kind = "PHYSICAL" /\ article[p].mode

resolveVariantValues(p, f) ==
    /\ f \in allVariantSelections(article[p].config)
    /\ \A d \in DOMAIN f : option[d][f[d]] = "active"

WithValues(p, f) == {v \in SkusOf(p) : sku[v].values = f}
(* The stock row that is being written holds its variant *)
Held(v) == posting.sku = v
variantHasMovement(v) == \E r \in stock : r.sku = v

GenerateVariants(p) ==
    LET c == article[p].config
        missing == {f \in allVariantSelections(c) : WithValues(p, f) = {}}
    IN  /\ lockVariantProduct(p) /\ c # NoConfig
        /\ \A d \in DOMAIN c : trait[d] = "active" /\ \A o \in c[d] : option[d][o] = "active"
        /\ \E new \in [missing -> {v \in Skus : sku[v] = NoSku}] :
               /\ \A f, g \in missing : new[f] = new[g] => f = g
               /\ sku' = [v \in Skus |->
                      IF \E f \in missing : new[f] = v
                      THEN [of |-> p, active |-> TRUE, values |-> CHOOSE f \in missing : new[f] = v]
                      ELSE sku[v]]
        /\ UNCHANGED <<article, series, shelf, trait, option, barcode, setting, posting, stock>>

CreateVariant(p, v, f, codes, active) ==
    /\ lockVariantProduct(p) /\ sku[v] = NoSku
    /\ resolveVariantValues(p, f) /\ WithValues(p, f) = {} /\ Free(codes, p, v)
    /\ sku' = [sku EXCEPT ![v] = [of |-> p, active |-> active, values |-> f]]
    /\ barcode' = Printed(codes, p, v)
    /\ UNCHANGED <<article, series, shelf, trait, option, setting, posting, stock>>

(* f is the values that were sent, or the present ones *)
UpdateVariant(p, v, f, codes, active) ==
    /\ lockVariantProduct(p) /\ sku[v].of = p /\ ~ Held(v)
    /\ f # sku[v].values => /\ resolveVariantValues(p, f) /\ WithValues(p, f) = {}
                            /\ ~ variantHasMovement(v)
    /\ Free(codes, p, v)
    /\ sku' = [sku EXCEPT ![v].values = f, ![v].active = active]
    /\ barcode' = Printed(codes, p, v)
    /\ UNCHANGED <<article, series, shelf, trait, option, setting, posting, stock>>

DeactivateVariant(v) ==
    /\ sku[v].active /\ ~ Held(v)
    /\ sku' = [sku EXCEPT ![v].active = FALSE]
    /\ UNCHANGED <<article, series, shelf, trait, option, barcode, setting, posting, stock>>

ReplaceVariantBarcodes(p, v, codes) ==
    /\ lockVariantProduct(p) /\ sku[v].of = p /\ ~ Held(v) /\ Free(codes, p, v)
    /\ barcode' = Printed(codes, p, v)
    /\ UNCHANGED <<article, series, shelf, trait, option, sku, setting, posting, stock>>

(* The check of a stock row reads the card as last committed *)
validateInventoryVariant(p, v) ==
    /\ article[p].kind = "PHYSICAL"
    /\ IF v = Absent THEN ~ article[p].mode /\ SkusOf(p) = {}
       ELSE article[p].mode /\ sku[v].of = p /\ sku[v].active

BeginStockRow(p, v) ==
    /\ posting = NoPosting /\ validateInventoryVariant(p, v)
    /\ posting' = [of |-> p, sku |-> v, late |-> FALSE]
    /\ UNCHANGED <<article, series, shelf, trait, option, sku, barcode, setting, stock>>

WriteStockRow ==
    /\ posting # NoPosting /\ Unlocked(posting.of)
    /\ stock' = stock \cup {posting}
    /\ posting' = NoPosting
    /\ UNCHANGED <<article, series, shelf, trait, option, sku, barcode, setting>>
-----------------------------------------------------------------------------
(* Price lists.  A price is for a card or for one of its variants *)
NoTariff == [active |-> FALSE, currency |-> Absent]
NoEntry == [on |-> Absent, target |-> Absent, from |-> 0, to |-> 0, by |-> Absent, in |-> Absent, met |-> {}]
NoSwitch == [on |-> Absent, currency |-> Absent, met |-> {}]
NoImport == [on |-> Absent, target |-> Absent, day |-> 0, met |-> {}]
Targets == {"card", "variant"}
Periods == {[from |-> d, to |-> e] : d \in 1 .. Horizon, e \in 1 .. Horizon + 1}
Proper == {q \in Periods : q.from <= q.to}
Siblings(e, l, t) == {f \in Entries \ {e} : entry[f].on = l /\ entry[f].target = t}
Overlap(a, b) == a.from <= b.to /\ b.from <= a.to

lockAndCheckOverlap(e, l, t, q) == \A f \in Siblings(e, l, t) : ~ Overlap(entry[f], q)

CreatePriceList(l, c) ==
    /\ tariff[l] = NoTariff
    /\ tariff' = [tariff EXCEPT ![l] = [active |-> TRUE, currency |-> c]]
    /\ UNCHANGED <<entry, switching, importing>>

BeginUpdatePriceList(l, c) ==
    /\ tariff[l] # NoTariff /\ switching = NoSwitch
    /\ c # tariff[l].currency => \A e \in Entries : entry[e].on # l
    /\ switching' = [on |-> l, currency |-> c, met |-> {}]
    /\ UNCHANGED <<tariff, entry, importing>>

UpdatePriceList ==
    /\ switching # NoSwitch
    /\ tariff' = [tariff EXCEPT ![switching.on].currency = switching.currency]
    /\ entry' = [e \in Entries |-> IF e \in switching.met /\ entry[e].on = switching.on
                                    THEN [entry[e] EXCEPT !.in = switching.currency] ELSE entry[e]]
    /\ switching' = NoSwitch
    /\ UNCHANGED importing

SetPriceListActive(l, active) ==
    /\ tariff[l] # NoTariff /\ tariff[l].active # active /\ switching.on # l
    /\ tariff' = [tariff EXCEPT ![l].active = active]
    /\ UNCHANGED <<entry, switching, importing>>

(* An entry means its list's currency at the time it is committed.  One     *)
(* written between the check and the change of a currency is excused, and   *)
(* an import remembers the entries written since it looked.                 *)
Written(e, l, t, q, by, met) ==
    /\ entry' = [entry EXCEPT ![e] = [on |-> l, target |-> t, from |-> q.from, to |-> q.to,
                                      by |-> by, in |-> tariff[l].currency, met |-> met]]
    /\ switching' = IF switching.on = l THEN [switching EXCEPT !.met = @ \cup {e}] ELSE switching
    /\ importing' = [f \in Entries |-> IF f = e THEN NoImport
                                        ELSE IF importing[f].on = l /\ importing[f].target = t
                                        THEN [importing[f] EXCEPT !.met = @ \cup {e}] ELSE importing[f]]
    /\ UNCHANGED tariff
Unwritten(e) == entry[e] = NoEntry /\ importing[e] = NoImport

(* The commands check and write a card's or variant's period under one lock *)
CreatePriceEntry(e, l, t, q) ==
    /\ Unwritten(e) /\ tariff[l] # NoTariff
    /\ lockAndCheckOverlap(e, l, t, q) /\ Written(e, l, t, q, "list", {})

UpdatePriceEntry(e, l, t, q) ==
    /\ entry[e] # NoEntry /\ tariff[l] # NoTariff
    /\ lockAndCheckOverlap(e, l, t, q) /\ Written(e, l, t, q, "list", {})

(* The variant's form compares with the two dates in each other's place:    *)
(* a period is refused only when another one contains it, and a period      *)
(* without end never                                                        *)
variantPriceOverlap(e, l, q) ==
    /\ q.to # Horizon + 1
    /\ \E f \in Siblings(e, l, "variant") : entry[f].from <= q.from /\ entry[f].to >= q.to

syncVariantPriceEntries(e, l, q) ==
    /\ tariff[l].active /\ ~ variantPriceOverlap(e, l, q)
    /\ Unwritten(e) \/ (entry[e].on = l /\ entry[e].target = "variant")
    /\ Written(e, l, "variant", q, "form", {})

removeVariantPriceEntry(e) ==
    /\ entry[e].target = "variant" /\ tariff[entry[e].on].active
    /\ entry' = [entry EXCEPT ![e] = NoEntry]
    /\ UNCHANGED <<tariff, switching, importing>>

(* A file's row is refused for a price of its day (the present one) only,   *)
(* and inserts one from that day on                                         *)
Valid(l, t, day) ==
    {e \in Entries : entry[e].on = l /\ entry[e].target = t /\ entry[e].from <= day /\ day <= entry[e].to}
BeginImportPrice(e, l, t, day) ==
    /\ Unwritten(e) /\ tariff[l] # NoTariff /\ Valid(l, t, day) = {}
    /\ importing' = [importing EXCEPT ![e] = [on |-> l, target |-> t, day |-> day, met |-> {}]]
    /\ UNCHANGED <<tariff, entry, switching>>

ImportPrice(e) ==
    LET row == importing[e]
    IN  row # NoImport /\ Written(e, row.on, row.target, [from |-> row.day, to |-> Horizon + 1], "file", row.met)

(* The entries ResolvePrice chooses from: the variant's own, else the card's; the latest wins *)
ResolvePrice(l, t, day) ==
    LET own == IF t = "variant" /\ Valid(l, t, day) # {} THEN Valid(l, t, day) ELSE Valid(l, "card", day)
    IN  IF ~ tariff[l].active THEN {} ELSE {e \in own : \A f \in own : entry[f].from <= entry[e].from}
-----------------------------------------------------------------------------
(* The rates of one tax *)
NoRow == [from |-> 0, to |-> 0, value |-> 0]
Rows == {r \in RateRows : rate[r] # NoRow}
Unused == RateRows \ Rows
ListRates(rs, day) == {r \in RateRows : rs[r] # NoRow /\ rs[r].from <= day /\ day <= rs[r].to}
Latest(rs, day) == CHOOSE r \in ListRates(rs, day) : \A s \in ListRates(rs, day) : rs[s].from <= rs[r].from

CreateDefinition(r, value) ==
    /\ tax = Absent /\ tax' = "active"
    /\ rate' = IF value = 0 THEN rate ELSE [rate EXCEPT ![r] = [from |-> today, to |-> Horizon + 1, value |-> value]]
    /\ UNCHANGED today

CreateRate(r, q, value) ==
    /\ tax # Absent /\ r \in Unused
    /\ \A s \in Rows : ~ Overlap(rate[s], q)
    /\ rate' = [rate EXCEPT ![r] = [from |-> q.from, to |-> q.to, value |-> value]]
    /\ UNCHANGED <<tax, today>>

(* A rate without a current row lasts until the next one starts *)
Until == LET later == {rate[s].from : s \in {s \in Rows : rate[s].from > today}}
         IN  IF later = {} THEN Horizon + 1 ELSE (CHOOSE d \in later : \A e \in later : d <= e) - 1

updateDefinitionRateTx(r, value) ==
    LET now == ListRates(rate, today)
        old == Latest(rate, today)
    IN  IF now # {} /\ rate[old].value = value THEN UNCHANGED rate
        ELSE IF now # {} /\ rate[old].from = today THEN rate' = [rate EXCEPT ![old].value = value]
        ELSE rate' = [s \in RateRows |->
                 IF s = r THEN [from |-> today, to |-> IF now # {} THEN rate[old].to ELSE Until, value |-> value]
                 ELSE IF now # {} /\ s = old THEN [rate[old] EXCEPT !.to = today - 1] ELSE rate[s]]

UpdateDefinition(r, value) ==
    /\ tax # Absent /\ r \in Unused
    /\ updateDefinitionRateTx(r, value)
    /\ UNCHANGED <<tax, today>>

SetDefinitionActive(to) ==
    /\ tax # Absent /\ tax # to /\ tax' = to
    /\ UNCHANGED <<rate, today>>

NextDay == today < Horizon /\ today' = today + 1 /\ UNCHANGED <<tax, rate>>
-----------------------------------------------------------------------------
ArticleInit ==
    /\ article = [p \in Articles |-> NoArticle] /\ series = 1 /\ shelf = Shelves
    /\ trait = [d \in Traits |-> Absent] /\ option = [d \in Traits |-> [o \in TraitOptions[d] |-> Absent]]
    /\ sku = [v \in Skus |-> NoSku] /\ barcode = [b \in Barcodes |-> Unprinted]
    /\ setting = NoSetting /\ posting = NoPosting /\ stock = {}

PriceInit ==
    /\ tariff = [l \in Tariffs |-> NoTariff] /\ entry = [e \in Entries |-> NoEntry] /\ switching = NoSwitch
    /\ importing = [e \in Entries |-> NoImport]

TaxInit == tax = Absent /\ rate = [r \in RateRows |-> NoRow] /\ today = 1

ArticleStep(p) ==
    \/ \E kind \in {"PHYSICAL", "SERVICE"}, mode \in BOOLEAN, codes \in SUBSET Barcodes, s \in Shelves \cup {Absent},
          n \in 0 .. MaxNumber : CreateProduct(p, kind, mode, codes, s, n)
    \/ \E kind \in {"PHYSICAL", "SERVICE"}, codes \in SUBSET Barcodes, s \in Shelves \cup {Absent},
          n \in 1 .. MaxNumber, active \in BOOLEAN : UpdateProduct(p, kind, codes, s, n, active)
    \/ DeactivateProduct(p)
    \/ \E s \in Shelves, active \in BOOLEAN : setReferenceActive(s, active)

TraitStep(d) ==
    \/ \E os \in SUBSET TraitOptions[d] : CreateVariantDefinition(d, os)
    \/ \E o \in TraitOptions[d] : CreateVariantOption(d, o)

SwitchStep(d) ==
    \E to \in {"active", "inactive"} :
        SetVariantDefinitionActive(d, to) \/ \E o \in TraitOptions[d] : SetVariantOptionActive(d, o, to)

Configs == UNION {[ds -> SUBSET (UNION {TraitOptions[d] : d \in Traits}) \ {{}}] : ds \in SUBSET Traits}
SettingStep(p) ==
    \/ \E mode \in BOOLEAN, given \in BOOLEAN :
          \E c \in {c \in Configs : \A d \in DOMAIN c : c[d] \subseteq TraitOptions[d]} : BeginVariantConfig(p, mode, c, given)
    \/ UpdateVariantConfig

VariantStep(p) ==
    \/ GenerateVariants(p)
    \/ \E v \in Skus, codes \in SUBSET Barcodes :
          \/ \E f \in allVariantSelections(article[p].config), active \in BOOLEAN :
                CreateVariant(p, v, f, codes, active) \/ UpdateVariant(p, v, f, codes, active)
          \/ ReplaceVariantBarcodes(p, v, codes)
    \/ \E v \in Skus : DeactivateVariant(v)
    \/ \E v \in Skus \cup {Absent} : BeginStockRow(p, v)
    \/ WriteStockRow

PriceStep ==
    \/ \E l \in Tariffs, c \in Currencies : CreatePriceList(l, c) \/ BeginUpdatePriceList(l, c)
    \/ UpdatePriceList
    \/ \E l \in Tariffs, active \in BOOLEAN : SetPriceListActive(l, active)
    \/ \E e \in Entries, l \in Tariffs, q \in Proper :
          \/ \E t \in Targets : CreatePriceEntry(e, l, t, q) \/ UpdatePriceEntry(e, l, t, q)
          \/ syncVariantPriceEntries(e, l, q)
    \/ \E e \in Entries :
          \/ removeVariantPriceEntry(e) \/ ImportPrice(e)
          \/ \E l \in Tariffs, t \in Targets, day \in 1 .. Horizon : BeginImportPrice(e, l, t, day)

TaxStep ==
    \/ \E r \in RateRows, value \in RateValues \cup {0} : CreateDefinition(r, value)
    \/ \E r \in RateRows, value \in RateValues : UpdateDefinition(r, value) \/ \E q \in Proper : CreateRate(r, q, value)
    \/ \E to \in {"active", "inactive"} : SetDefinitionActive(to)
    \/ NextDay

ArticleNext ==
    \/ \E p \in Articles : ArticleStep(p) \/ SettingStep(p) \/ VariantStep(p)
    \/ \E d \in Traits : TraitStep(d) \/ SwitchStep(d)

(* Cards, prices and rates keep to tables of their own *)
CatalogueSpec ==
    /\ ArticleInit /\ [][ArticleNext]_articleVars
    /\ PriceInit /\ [][PriceStep]_priceVars
    /\ TaxInit /\ [][TaxStep]_taxVars
-----------------------------------------------------------------------------
(* Whatever the order of settings, generated and hand-made variants,       *)
(* barcodes and stock rows: every variant picks one allowed option of each *)
(* definition its card uses, no two pick the same, a scanned barcode leads *)
(* to a variant exactly when the card has variants, and a stock row of     *)
(* such a card names a variant ("a parent/product-level ledger row is      *)
(* never a valid stock identity"), but for a row that was being written    *)
(* while the mode was switched (products/variants.go:439-760, the guards   *)
(* of its tables, inventory/variant_validation.go:31).                     *)
VariantsFitTheCard ==
    /\ \A v \in Skus : sku[v].of # Absent =>
           /\ sku[v].values \in allVariantSelections(article[sku[v].of].config)
           /\ WithValues(sku[v].of, sku[v].values) = {v}
    /\ \A b \in Barcodes : LET on == ResolveBarcode(b)
           IN on.of # Absent => (article[on.of].mode <=> on.sku # Absent)
    /\ \A r \in stock : article[r.of].mode /\ article[r.of].kind = "PHYSICAL" => r.sku # Absent \/ r.late

(* Of two entries one was written while the other was being imported *)
Crossed(e, f) == e \in entry[f].met \/ f \in entry[e].met

(* On every day a price list answers with one price of a card or variant,  *)
(* unless an overlapping period was entered in the variant's form, or of   *)
(* two prices from one day on one was written while a file's row for the   *)
(* other had been checked and not yet committed; an entry keeps the        *)
(* currency it was entered in, unless it was written while the currency    *)
(* was being changed; a tax has at most one rate on a day                  *)
(* (pricing/service.go:201-495, products/variants.go:1005,                 *)
(* imports/catalog.go:148-197, taxes/service.go:169-370).                  *)
OneValuePerDay ==
    /\ \A l \in Tariffs, t \in Targets, day \in 1 .. Horizon : \A e, f \in ResolvePrice(l, t, day) :
           e = f \/ entry[e].by = "form" \/ entry[f].by = "form" \/ Crossed(e, f)
    /\ \A e \in Entries : entry[e] # NoEntry => entry[e].in = tariff[entry[e].on].currency
    /\ \A day \in 1 .. Horizon : Cardinality(ListRates(rate, day)) <= 1

(* Cards, prices and rates, each changed by several people at once, stay   *)
(* unambiguous: the card's variants fit it, and a day has one value.       *)
CatalogueIsCoherent == VariantsFitTheCard /\ OneValuePerDay
=============================================================================
