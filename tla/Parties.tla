------------------------------- MODULE Parties -------------------------------
(***************************************************************************)
(* Customers and suppliers (internal/party): their cards, which clerks     *)
(* read in several statements and save with the version they read, and     *)
(* their ledger, which is only ever added to and is read page by page      *)
(* while others add to it.                                                 *)
(*                                                                         *)
(* What a card says apart from its tax number (names, address, contacts,   *)
(* limits) is one value, its details, beside the groups and custom fields  *)
(* that refer to the company's settings.                                   *)
(***************************************************************************)
EXTENDS Integers, Sequences, FiniteSets, FiniteSetsExt, SequencesExt

CONSTANTS Partners,     \* the parties
          Clerks,       \* users with a form open
          Details,      \* what a card may say
          TaxNumbers,   \* tax numbers; NoNumber is none
          NoNumber,
          Groups,       \* party groups
          Fields,       \* custom fields
          TaxPolicy,    \* duplicate_party_tax_number_policy
          MaxCode,      \* bound: codes in use
          MaxChanges,   \* bound: versions of all cards together
          Ids,          \* ids of ledger entries, in the order of their keys
          Days,         \* document dates
          Stamps,       \* values of posted_at, the start of a transaction
          Amounts,      \* signed amounts: a debit is positive
          Rate,         \* rate of each currency
          PageSize      \* the limit a reader asks for

BookCurrencies == DOMAIN Rate
NoCurrency == "any"
BaseCurrency == CHOOSE c \in BookCurrencies : Rate[c] = 1

ASSUME PartiesAssumption ==
    /\ TaxPolicy \in {"ALLOW", "WARN", "BLOCK"} /\ PageSize \in Nat \ {0} /\ NoNumber \notin TaxNumbers
    /\ \A c \in BookCurrencies : Rate[c] \in Nat \ {0}
    /\ Ids \subseteq Nat /\ Days \subseteq Nat /\ Stamps \subseteq Nat /\ 0 \notin Amounts

VARIABLES
    party,      \* the cards
    nextNumber, \* company_party_sequences
    group,      \* state of each party group
    field,      \* custom field definitions: required or not
    form,       \* what each clerk has read of a card
    saving,     \* the clerk whose update holds the row of a card
    book,       \* the ledger of one party: party_ledger_entries
    reading     \* a reader who asks for one page after the other

cardVars == <<party, nextNumber, group, field, form, saving>>
bookVars == <<book, reading>>

NoForm == [step |-> "none"]
NoClerk == "nobody"
NoCard == [state |-> "none", code |-> 0, tax |-> NoNumber, details |-> CHOOSE d \in Details : TRUE,
           groups |-> {}, fields |-> {}, version |-> 0]
Changes == MapThenSumSet(LAMBDA p : party[p].version, Partners)
Exists(p) == party[p].state # "none"
-----------------------------------------------------------------------------
(* Settings *)
CreateGroup(g) ==
    /\ group[g] = "none"
    /\ group' = [group EXCEPT ![g] = "active"]
    /\ UNCHANGED <<party, nextNumber, field, form, saving>>

DeactivateGroup(g) ==
    /\ group[g] = "active"
    /\ group' = [group EXCEPT ![g] = "passive"]
    /\ UNCHANGED <<party, nextNumber, field, form, saving>>

ActivateGroup(g) ==
    /\ group[g] = "passive"
    /\ group' = [group EXCEPT ![g] = "active"]
    /\ UNCHANGED <<party, nextNumber, field, form, saving>>

CreateCustomField(f, required) ==
    /\ field[f] = "none"
    /\ field' = [field EXCEPT ![f] = IF required THEN "required" ELSE "optional"]
    /\ UNCHANGED <<party, nextNumber, group, form, saving>>
-----------------------------------------------------------------------------
(* Cards *)
Codes == {party[p].code : p \in {q \in Partners : Exists(q)}}

(* Automatic codes skip the ones typed by hand *)
nextPartyCode == CHOOSE n \in nextNumber..(nextNumber + Cardinality(Codes)) :
                /\ n \notin Codes
                /\ \A m \in nextNumber..(n - 1) : m \in Codes

(* The cards a transaction sees are the committed ones *)
duplicateTax(p, tax) ==
    tax # NoNumber /\ \E q \in Partners \ {p} : Exists(q) /\ party[q].tax = tax

TaxAccepted(p, tax) == TaxPolicy = "BLOCK" => ~ duplicateTax(p, tax)

(* What a request may say of a card once it is normalised *)
Inputs == [tax: TaxNumbers \cup {NoNumber}, details: Details, groups: SUBSET Groups, fields: SUBSET Fields]
Said(c) == [tax |-> c.tax, details |-> c.details, groups |-> c.groups, fields |-> c.fields]

(* Groups must exist, active or not; fields must be defined and complete *)
DetailsAccepted(in) ==
    /\ \A g \in in.groups : group[g] # "none"
    /\ \A f \in in.fields : field[f] # "none"
    /\ \A f \in Fields : field[f] = "required" => f \in in.fields

(* Creating takes the company's row, so creations come one after the other *)
Create(p, code, in) ==
    /\ ~ Exists(p)
    /\ TaxAccepted(p, in.tax)
    /\ DetailsAccepted(in)
    /\ LET c == IF code = 0 THEN nextPartyCode ELSE code
       IN  /\ c \notin Codes /\ c <= MaxCode
           /\ party' = [party EXCEPT ![p] = [state |-> "active", code |-> c, tax |-> in.tax, details |-> in.details,
                                             groups |-> in.groups, fields |-> in.fields, version |-> 1]]
           /\ nextNumber' = IF code = 0 THEN c + 1 ELSE nextNumber
    /\ UNCHANGED <<group, field, form, saving>>

(* Get reads the row, then, in later statements, what hangs on it *)
GetRow(u, p) ==
    /\ Exists(p) /\ form[u] = NoForm
    /\ form' = [form EXCEPT ![u] = [step |-> "row", party |-> p, version |-> party[p].version, tax |-> party[p].tax,
                                    details |-> party[p].details]]
    /\ UNCHANGED <<party, nextNumber, group, field, saving>>

(* A bug: the version is read with the details, after the row *)
MutloadDetails(u) ==
    /\ form[u].step = "row"
    /\ LET p == form[u].party
       IN  form' = [form EXCEPT ![u] = [step |-> "read", party |-> p, version |-> party[p].version, tax |-> form[u].tax,
                                        details |-> form[u].details, groups |-> party[p].groups, fields |-> party[p].fields]]
    /\ UNCHANGED <<party, nextNumber, group, field, saving>>

loadDetails(u) ==
    /\ form[u].step = "row"
    /\ LET p == form[u].party
       IN  form' = [form EXCEPT ![u] = [step |-> "read", party |-> p, version |-> form[u].version, tax |-> form[u].tax,
                                        details |-> form[u].details, groups |-> party[p].groups, fields |-> party[p].fields]]
    /\ UNCHANGED <<party, nextNumber, group, field, saving>>

CloseForm(u) ==
    /\ form[u].step = "read"
    /\ form' = [form EXCEPT ![u] = NoForm]
    /\ UNCHANGED <<party, nextNumber, group, field, saving>>

(* The update locks its row and looks for the number on other cards *)
BeginUpdate(u, in) ==
    /\ form[u].step = "read"
    /\ saving[form[u].party] = NoClerk
    /\ TaxAccepted(form[u].party, in.tax)
    /\ saving' = [saving EXCEPT ![form[u].party] = u]
    /\ form' = [form EXCEPT ![u] = [step |-> "saving", seen |-> form[u], in |-> in]]
    /\ UNCHANGED <<party, nextNumber, group, field>>

(* The details are replaced as a whole; the version must be the one read *)
CommitUpdate(u) ==
    /\ form[u].step = "saving"
    /\ LET f == form[u]
           p == f.seen.party
       IN  /\ IF party[p].version = f.seen.version /\ DetailsAccepted(f.in)
              THEN /\ Changes < MaxChanges
                   /\ party' = [party EXCEPT ![p] = [party[p] EXCEPT !.tax = f.in.tax, !.details = f.in.details,
                                                     !.groups = f.in.groups, !.fields = f.in.fields, !.version = @ + 1]]
              ELSE UNCHANGED party
           /\ saving' = [saving EXCEPT ![p] = NoClerk]
    /\ form' = [form EXCEPT ![u] = NoForm]
    /\ UNCHANGED <<nextNumber, group, field>>

SetActive(p, from, to, version) ==
    /\ saving[p] = NoClerk
    /\ party[p].state = from /\ party[p].version = version /\ Changes < MaxChanges
    /\ party' = [party EXCEPT ![p].state = to, ![p].version = @ + 1]
    /\ UNCHANGED <<nextNumber, group, field, form, saving>>
Deactivate(p, version) == SetActive(p, "active", "passive", version)
Activate(p, version) == SetActive(p, "passive", "active", version)

CardInit ==
    /\ party = [p \in Partners |-> NoCard] /\ nextNumber = 1
    /\ group = [g \in Groups |-> "none"] /\ field = [f \in Fields |-> "none"]
    /\ form = [u \in Clerks |-> NoForm] /\ saving = [p \in Partners |-> NoClerk]

SettingsStep ==
    \/ \E g \in Groups : CreateGroup(g) \/ DeactivateGroup(g) \/ ActivateGroup(g)
    \/ \E f \in Fields, r \in BOOLEAN : CreateCustomField(f, r)

CardStep ==
    \/ \E p \in Partners, c \in 0..MaxCode, in \in Inputs : Create(p, c, in)
    \/ \E u \in Clerks, p \in Partners : GetRow(u, p)
    \/ \E u \in Clerks : loadDetails(u) \/ CloseForm(u) \/ CommitUpdate(u)
    \/ \E u \in Clerks, in \in Inputs : BeginUpdate(u, in)
    \/ \E p \in Partners, v \in 1..MaxChanges : Deactivate(p, v) \/ Activate(p, v)

CardSpec == CardInit /\ [][SettingsStep \/ CardStep]_cardVars
-----------------------------------------------------------------------------
(* The ledger of one party.  An entry is ordered by its document date, the *)
(* start of the transaction that posted it and its id, which is random.    *)
Signed(e, cur) == IF cur = NoCurrency THEN e.amount * Rate[e.cur] ELSE e.amount
Owner == CHOOSE p \in Partners : TRUE
NoLedgerEntry == -1

Earlier(e, f) ==
    \/ e.day < f.day
    \/ e.day = f.day /\ e.at < f.at
    \/ e.day = f.day /\ e.at = f.at /\ e.id < f.id

Total(S, cur) == MapThenSumSet(LAMBDA e : Signed(e, cur), S)
InCurrency(S, cur) == {e \in S : cur \in {e.cur, NoCurrency}}

(* The key of a command is the id here: a repetition changes nothing *)
PostLedgerEntry(id, day, at, cur, amount) ==
    /\ party[Owner].state = "active"
    /\ ~ \E e \in book : e.id = id
    /\ book' = book \cup {[id |-> id, day |-> day, at |-> at, cur |-> cur, amount |-> amount, reverses |-> NoLedgerEntry]}
    /\ UNCHANGED reading

(* A reversal mirrors an entry that is none itself and has none yet *)
ReverseLedgerEntry(id, day, at, e) ==
    /\ party[Owner].state = "active"
    /\ ~ \E f \in book : f.id = id \/ f.reverses = e.id
    /\ e.reverses = NoLedgerEntry /\ day >= e.day
    /\ book' = book \cup {[id |-> id, day |-> day, at |-> at, cur |-> e.cur, amount |-> -e.amount, reverses |-> e.id]}
    /\ UNCHANGED reading

(* Balances: one snapshot *)
BalancesResult == [c \in BookCurrencies |-> Total(InCurrency(book, c), c)]
BaseBalance == Total(book, NoCurrency)
-----------------------------------------------------------------------------
(* Reading page by page.  Each page is one snapshot of the ledger: the     *)
(* running balance is computed over the rows before the page is cut.       *)
Matching(r) == {e \in InCurrency(book, r.cur) : e.day \in r.from..r.to}
(* A bug: the cursor leaves out the time of posting *)
MutAfterCursor(r, S) ==
    IF r.rows = <<>> THEN S
    ELSE LET last == r.rows[Len(r.rows)].entry
             Lower(e, f) == e.day < f.day \/ (e.day = f.day /\ e.id < f.id)
         IN  {e \in S : IF r.order = "asc" THEN Lower(last, e) ELSE Lower(e, last)}
AfterCursor(r, S) ==
    IF r.rows = <<>> THEN S
    ELSE LET last == r.rows[Len(r.rows)].entry
         IN  {e \in S : IF r.order = "asc" THEN Earlier(last, e) ELSE Earlier(e, last)}

(* The opening balance of a statement is what stands before its period; a  *)
(* list counts from the beginning                                          *)
Opening(r) == IF r.kind = "statement" THEN Total({e \in InCurrency(book, r.cur) : e.day < r.from}, r.cur) ELSE 0
Running(r, e) ==
    LET S == IF r.kind = "statement" THEN Matching(r) ELSE InCurrency(book, r.cur)
    IN  Opening(r) + Total({f \in S : f = e \/ Earlier(f, e)}, r.cur)

Page(r) ==
    LET rest == SetToSortSeq(AfterCursor(r, Matching(r)), LAMBDA e, f : IF r.order = "asc" THEN Earlier(e, f) ELSE Earlier(f, e))
        got  == SubSeq(rest, 1, IF Len(rest) < PageSize THEN Len(rest) ELSE PageSize)
    IN  [r EXCEPT !.rows = @ \o [i \in DOMAIN got |-> [entry |-> got[i], running |-> Running(r, got[i])]],
                  !.more = Len(rest) > PageSize,
                  !.opening = Opening(r),
                  !.closing = Total({e \in InCurrency(book, r.cur) : e.day <= r.to}, r.cur),
                  !.asOf = book]

NoReading == [kind |-> "none"]

(* The newest rows of a period, without balances *)
Statement(from, to) ==
    LET rows == SetToSortSeq({e \in book : e.day \in from..to}, LAMBDA e, f : Earlier(f, e))
    IN  SubSeq(rows, 1, IF Len(rows) < PageSize THEN Len(rows) ELSE PageSize)

(* ListLedgerEntries is newest first; StatementReportPage has both orders *)
OpenReading(kind, order, cur, from, to) ==
    /\ kind = "list" => order = "desc"
    /\ from <= to
    /\ reading = NoReading
    /\ reading' = Page([kind |-> kind, order |-> order, cur |-> cur, from |-> from, to |-> to, rows |-> <<>>, more |-> FALSE,
                        opening |-> 0, closing |-> 0, first |-> book, asOf |-> book])
    /\ UNCHANGED book

NextPage ==
    /\ reading # NoReading /\ reading.more
    /\ reading' = Page(reading)
    /\ UNCHANGED book

StopReading ==
    /\ reading # NoReading
    /\ reading' = NoReading
    /\ UNCHANGED book

BookInit == book = {} /\ reading = NoReading

BookStep ==
    \/ \E id \in Ids, d \in Days, t \in Stamps, c \in BookCurrencies, a \in Amounts : PostLedgerEntry(id, d, t, c, a)
    \/ \E id \in Ids, d \in Days, t \in Stamps, e \in book : ReverseLedgerEntry(id, d, t, e)
    \/ \E k \in {"list", "statement"}, o \in {"asc", "desc"}, c \in BookCurrencies \cup {NoCurrency},
          f \in Days, t \in Days : OpenReading(k, o, c, f, t)
    \/ NextPage
    \/ StopReading
-----------------------------------------------------------------------------
(* A clerk who saves a card (Update) replaces exactly what the form showed *)
(* of it: although Get reads the row and its details in separate           *)
(* statements, no change made by anyone in between is overwritten unseen.  *)
Saves(u, p) ==
    form[u].step = "saving" /\ form[u].seen.party = p /\ party'[p].version # party[p].version /\ form'[u] = NoForm
NothingOverwritten ==
    [][\A u \in Clerks, p \in Partners : Saves(u, p) => Said(form[u].seen) = Said(party[p])]_cardVars

(* Whatever is posted between the pages, a reader who turns them all       *)
(* (ListLedgerEntries, StatementReportPage) is shown every entry that was  *)
(* there from the start exactly once and in order, and each row's balance  *)
(* is the sum of the ledger up to it; when nothing was posted meanwhile    *)
(* the rows lead from the opening to the closing balance, and an unfiltered*)
(* statement of all days closes with the party's balance.                  *)
Shown(r) == {r.rows[i].entry : i \in DOMAIN r.rows}
PagesAreWhole ==
    reading # NoReading =>
      LET r == reading
          n == Len(r.rows)
      IN  /\ \A i, j \in DOMAIN r.rows : i # j => r.rows[i].entry # r.rows[j].entry
          /\ ~ r.more => {e \in InCurrency(r.first, r.cur) : e.day \in r.from..r.to} \subseteq Shown(r)
          /\ (~ r.more /\ r.first = r.asOf /\ r.kind = "statement" /\ n > 0) =>
               LET a == IF r.order = "asc" THEN r.rows ELSE Reverse(r.rows)
               IN  /\ a[1].running = r.opening + Signed(a[1].entry, r.cur)
                   /\ \A i \in 2..n : a[i].running = a[i - 1].running + Signed(a[i].entry, r.cur)
                   /\ a[n].running = r.closing
          /\ (r.asOf = book /\ r.cur = NoCurrency /\ r.to = Max(Days) /\ r.kind = "statement") => r.closing = BaseBalance
          /\ (r.asOf = book /\ r.cur # NoCurrency /\ r.kind = "list" /\ r.to = Max(Days) /\ r.first = book /\ n > 0) =>
               r.rows[1].running = BalancesResult[r.cur]
          /\ (r.asOf = book /\ r.cur = NoCurrency /\ r.kind = "list" /\ n <= PageSize /\ r.first = book) =>
               [i \in 1..n |-> r.rows[i].entry] = Statement(r.from, r.to)
=============================================================================
