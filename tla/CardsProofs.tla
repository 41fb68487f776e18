---------------------------- MODULE CardsProofs -----------------------------
(***************************************************************************)
(* For every set of cards, clerks and forms: a save replaces what its form *)
(* showed and nothing else.  For every set of tariffs, articles, traits    *)
(* and codes: the variants fit their cards and the barcodes and stock      *)
(* name them, and a day has one tax rate and, on a tariff, one price of    *)
(* what is sold, unless a form wrote it past the check.                    *)
(* For every set of jobs, requests and files: a row of an imported file    *)
(* opens stock at most once, a card file's on the card that row created,   *)
(* with the quantity its caller confirmed unless its claim was lost.       *)
(***************************************************************************)
EXTENDS Parties, Catalogue, Imports, FiniteSetTheorems, WellFoundedInduction, TLAPS

-----------------------------------------------------------------------------
(* Parties.  A form carries the version of the card it read, and a card's      *)
(* version rises with every write of a column: whoever saves at the version of *)
(* the card saves over what the form showed, and a card that moved on refuses. *)

\* A form's version is one its card had, and at that version the card said what the
\* form shows so far.
Shows(f, p) ==
    /\ p \in Partners /\ Exists(p) /\ f.version \in Nat /\ f.version <= party[p].version
    /\ f.version = party[p].version => f.tax = party[p].tax /\ f.details = party[p].details
ShowsAll(f, p) ==
    Shows(f, p) /\ (f.version = party[p].version => f.groups = party[p].groups /\ f.fields = party[p].fields)

CardsOK ==
    /\ DOMAIN party = Partners
    /\ \A p \in Partners : DOMAIN party[p] = DOMAIN NoCard /\ party[p].version \in Nat
FormsOK ==
    /\ DOMAIN form = Clerks
    /\ \A u \in Clerks :
        /\ form[u].step = "row" => Shows(form[u], form[u].party)
        /\ form[u].step = "read" => ShowsAll(form[u], form[u].party)
        /\ form[u].step = "saving" => ShowsAll(form[u].seen, form[u].seen.party)
CardInv == CardsOK /\ FormsOK

LEMMA CardInvInit == CardInit => CardInv
<1> SUFFICES ASSUME CardInit PROVE CardInv
  OBVIOUS
<1>1. NoCard.version \in Nat
  BY DEF NoCard
<1>2. CardsOK
  BY <1>1 DEF CardInit, CardsOK
<1>3. FormsOK
  BY DEF CardInit, FormsOK, NoForm
<1> QED
  BY <1>2, <1>3 DEF CardInv

\* A form is opened, filled or closed while the cards stay.
LEMMA FormMoves ==
  ASSUME CardInv, UNCHANGED party, NEW u \in Clerks, NEW f, form' = [form EXCEPT ![u] = f],
         f.step = "row" => Shows(f, f.party),
         f.step = "read" => ShowsAll(f, f.party),
         f.step = "saving" => ShowsAll(f.seen, f.seen.party)
  PROVE  CardInv'
<1>1. DOMAIN form' = Clerks /\ \A w \in Clerks : form'[w] = IF w = u THEN f ELSE form[w]
  BY DEF CardInv, FormsOK
<1>2. \A g, p : (Shows(g, p)' <=> Shows(g', p')) /\ (ShowsAll(g, p)' <=> ShowsAll(g', p'))
  BY DEF Shows, ShowsAll, Exists
<1>3. FormsOK'
  BY <1>1, SMTT(60) DEF CardInv, FormsOK, Shows, ShowsAll, Exists
<1> QED
  BY <1>3 DEF CardInv, CardsOK

\* A card changes with its version, and forms keep to what they have read.
LEMMA CardChanges ==
  ASSUME CardInv, NEW p \in Partners, NEW c, party' = [party EXCEPT ![p] = c],
         DOMAIN c = DOMAIN NoCard, c.version \in Nat,
         Exists(p) => c.state # "none" /\ c.version > party[p].version,
         DOMAIN form' = Clerks, \A u \in Clerks : form'[u] \in {form[u], NoForm}
  PROVE  CardInv'
<1>1. \A q \in Partners : party'[q] = IF q = p THEN c ELSE party[q]
  BY DEF CardInv, CardsOK
<1>2. CardsOK'
  BY <1>1 DEF CardInv, CardsOK, NoCard
<1>3. ASSUME NEW f, NEW q, Shows(f, q)
      PROVE  /\ q \in Partners /\ party'[q].state # "none" /\ f.version \in Nat /\ f.version <= party'[q].version
             /\ f.version = party'[q].version => party'[q] = party[q]
  <2>1. CASE q = p
    BY <1>1, <1>3, <2>1 DEF Shows, CardInv, CardsOK
  <2>2. CASE q # p
    BY <1>1, <1>3, <2>2 DEF Shows, Exists
  <2> QED
    BY <2>1, <2>2
<1>4. ASSUME NEW u \in Clerks
      PROVE  /\ form'[u].step = "row" => Shows(form[u], form[u].party)'
             /\ form'[u].step = "read" => ShowsAll(form[u], form[u].party)'
             /\ form'[u].step = "saving" => ShowsAll(form[u].seen, form[u].seen.party)'
  <2>1. CASE form'[u] = NoForm
    BY <2>1 DEF NoForm
  <2>2. CASE form'[u] = form[u]
    <3>1. CASE form[u].step = "row"
      <4>1. Shows(form[u], form[u].party)
        BY <3>1 DEF CardInv, FormsOK
      <4> QED
        BY <1>3, <2>2, <3>1, <4>1 DEF Shows, Exists
    <3>2. CASE form[u].step = "read"
      <4>1. ShowsAll(form[u], form[u].party)
        BY <3>2 DEF CardInv, FormsOK
      <4> QED
        BY <1>3, <2>2, <3>2, <4>1 DEF Shows, ShowsAll, Exists
    <3>3. CASE form[u].step = "saving"
      <4>1. ShowsAll(form[u].seen, form[u].seen.party)
        BY <3>3 DEF CardInv, FormsOK
      <4> QED
        BY <1>3, <2>2, <3>3, <4>1 DEF Shows, ShowsAll, Exists
    <3> QED
      BY <2>2, <3>1, <3>2, <3>3
  <2> QED
    BY <2>1, <2>2
<1>5. FormsOK'
  BY <1>4 DEF FormsOK
<1> QED
  BY <1>2, <1>5 DEF CardInv

\* What an update that is under way may do.
LEMMA UpdateCases ==
  ASSUME CardInv, NEW u \in Clerks, CommitUpdate(u)
  PROVE  /\ form[u].step = "saving" /\ form' = [form EXCEPT ![u] = NoForm]
         /\ ShowsAll(form[u].seen, form[u].seen.party)
         /\ \/ UNCHANGED party
            \/ /\ party[form[u].seen.party].version = form[u].seen.version
               /\ \E c : /\ party' = [party EXCEPT ![form[u].seen.party] = c]
                         /\ DOMAIN c = DOMAIN NoCard /\ c.version = party[form[u].seen.party].version + 1
                         /\ c.state = party[form[u].seen.party].state
<1> DEFINE p == form[u].seen.party
           in == form[u].in
           c == [party[p] EXCEPT !.tax = in.tax, !.details = in.details, !.groups = in.groups,
                                 !.fields = in.fields, !.version = party[p].version + 1]
<1>1. form[u].step = "saving" /\ form' = [form EXCEPT ![u] = NoForm]
  BY DEF CommitUpdate
<1>2. ShowsAll(form[u].seen, p)
  BY <1>1 DEF CardInv, FormsOK
<1>3. p \in Partners /\ DOMAIN party[p] = DOMAIN NoCard
  BY <1>2 DEF ShowsAll, Shows, CardInv, CardsOK
<1>4. UNCHANGED party \/ (party[p].version = form[u].seen.version /\ party' = [party EXCEPT ![p] = c])
  <2>1. \/ UNCHANGED party
        \/ /\ party[p].version = form[u].seen.version
           /\ party' = [party EXCEPT ![p] = [party[p] EXCEPT !.tax = in.tax, !.details = in.details,
                                             !.groups = in.groups, !.fields = in.fields, !.version = @ + 1]]
    BY DEF CommitUpdate
  <2>2. [party[p] EXCEPT !.tax = in.tax, !.details = in.details, !.groups = in.groups, !.fields = in.fields,
                         !.version = @ + 1] = c
    OBVIOUS
  <2> QED
    BY <2>1, <2>2
<1>5. DOMAIN c = DOMAIN NoCard /\ c.version = party[p].version + 1 /\ c.state = party[p].state
  BY <1>3 DEF NoCard
<1> HIDE DEF c
<1> QED
  BY <1>1, <1>2, <1>4, <1>5

LEMMA CardInvNext == ASSUME CardInv, [SettingsStep \/ CardStep]_cardVars PROVE CardInv'
<1>1. CASE UNCHANGED <<party, form>>
  BY <1>1 DEF CardInv, CardsOK, FormsOK, Shows, ShowsAll, Exists
<1>2. CASE SettingsStep
  BY <1>1, <1>2 DEF SettingsStep, CreateGroup, DeactivateGroup, ActivateGroup, CreateCustomField
<1>3. ASSUME NEW p \in Partners, NEW c \in 0..MaxCode, NEW in \in Inputs, Create(p, c, in) PROVE CardInv'
  <2>1. PICK card : /\ party' = [party EXCEPT ![p] = card] /\ DOMAIN card = DOMAIN NoCard /\ card.version = 1
                    /\ ~Exists(p) /\ form' = form
    <3>1. PICK n : party' = [party EXCEPT ![p] = [state |-> "active", code |-> n, tax |-> in.tax,
                                                  details |-> in.details, groups |-> in.groups,
                                                  fields |-> in.fields, version |-> 1]]
      BY <1>3 DEF Create
    <3> QED
      BY <1>3, <3>1 DEF Create, NoCard
  <2>2. DOMAIN form' = Clerks /\ \A u \in Clerks : form'[u] \in {form[u], NoForm}
    BY <2>1 DEF CardInv, FormsOK
  <2>3. card.version \in Nat
    BY <2>1
  <2> QED
    BY <2>1, <2>2, <2>3, CardChanges
<1>4. ASSUME NEW u \in Clerks, NEW p \in Partners, GetRow(u, p) PROVE CardInv'
  <2> DEFINE f == [step |-> "row", party |-> p, version |-> party[p].version, tax |-> party[p].tax,
                   details |-> party[p].details]
  <2>1. form' = [form EXCEPT ![u] = f] /\ UNCHANGED party /\ Exists(p)
    BY <1>4 DEF GetRow
  <2>2. Shows(f, p) /\ f.step = "row" /\ f.party = p
    BY <2>1 DEF Shows, CardInv, CardsOK
  <2> HIDE DEF f
  <2> QED
    BY <2>1, <2>2, FormMoves
<1>5. ASSUME NEW u \in Clerks, loadDetails(u) PROVE CardInv'
  <2> DEFINE p == form[u].party
             f == [step |-> "read", party |-> p, version |-> form[u].version, tax |-> form[u].tax,
                   details |-> form[u].details, groups |-> party[p].groups, fields |-> party[p].fields]
  <2>1. form' = [form EXCEPT ![u] = f] /\ UNCHANGED party /\ form[u].step = "row"
    BY <1>5 DEF loadDetails
  <2>2. Shows(form[u], p)
    BY <2>1 DEF CardInv, FormsOK
  <2>3. ShowsAll(f, p) /\ f.step = "read" /\ f.party = p
    BY <2>2 DEF Shows, ShowsAll
  <2> HIDE DEF f
  <2> QED
    BY <2>1, <2>3, FormMoves
<1>6. ASSUME NEW u \in Clerks, CloseForm(u) PROVE CardInv'
  BY <1>6, FormMoves DEF CloseForm, NoForm
<1>7. ASSUME NEW u \in Clerks, NEW in \in Inputs, BeginUpdate(u, in) PROVE CardInv'
  <2> DEFINE f == [step |-> "saving", seen |-> form[u], in |-> in]
  <2>1. form' = [form EXCEPT ![u] = f] /\ UNCHANGED party /\ form[u].step = "read"
    BY <1>7 DEF BeginUpdate
  <2>2. ShowsAll(form[u], form[u].party)
    BY <2>1 DEF CardInv, FormsOK
  <2>3. f.step = "saving" /\ f.seen = form[u]
    OBVIOUS
  <2> HIDE DEF f
  <2> QED
    BY <2>1, <2>2, <2>3, FormMoves
<1>8. ASSUME NEW u \in Clerks, CommitUpdate(u) PROVE CardInv'
  <2> DEFINE p == form[u].seen.party
  <2>1. form' = [form EXCEPT ![u] = NoForm] /\ ShowsAll(form[u].seen, p)
    BY <1>8, UpdateCases
  <2>2. CASE UNCHANGED party
    BY <2>1, <2>2, FormMoves DEF NoForm
  <2>3. CASE ~UNCHANGED party
    <3>1. PICK c : party' = [party EXCEPT ![p] = c] /\ DOMAIN c = DOMAIN NoCard /\ c.version = party[p].version + 1
                   /\ c.state = party[p].state
      BY <1>8, <2>3, UpdateCases
    <3>2. p \in Partners /\ Exists(p) /\ party[p].version \in Nat
      BY <2>1 DEF ShowsAll, Shows, CardInv, CardsOK
    <3>3. DOMAIN form' = Clerks /\ \A w \in Clerks : form'[w] \in {form[w], NoForm}
      BY <2>1 DEF CardInv, FormsOK
    <3>4. c.version \in Nat /\ c.version > party[p].version /\ c.state # "none"
      BY <3>1, <3>2 DEF Exists
    <3> QED
      BY <3>1, <3>2, <3>3, <3>4, CardChanges
  <2> QED
    BY <2>2, <2>3
<1>9. ASSUME NEW p \in Partners, NEW v \in 1..MaxChanges, NEW from, NEW to \in {"active", "passive"},
             SetActive(p, from, to, v)
      PROVE  CardInv'
  <2> DEFINE c == [party[p] EXCEPT !.state = to, !.version = party[p].version + 1]
  <2>1. party[p].version \in Nat /\ DOMAIN party[p] = DOMAIN NoCard /\ DOMAIN party = Partners
    BY DEF CardInv, CardsOK
  <2>2. party' = [party EXCEPT ![p] = c] /\ form' = form
    BY <1>9, <2>1 DEF SetActive
  <2>3. DOMAIN c = DOMAIN NoCard /\ c.version = party[p].version + 1 /\ c.state = to
    BY <2>1 DEF NoCard
  <2>4. DOMAIN form' = Clerks
    BY <2>2 DEF CardInv, FormsOK
  <2> HIDE DEF c
  <2>5. c.version \in Nat /\ c.version > party[p].version /\ c.state # "none"
    BY <2>1, <2>3
  <2>6. \A u \in Clerks : form'[u] \in {form[u], NoForm}
    BY <2>2
  <2> QED
    BY <2>2, <2>3, <2>4, <2>5, <2>6, CardChanges
<1>10. CASE CardStep
  BY <1>3, <1>4, <1>5, <1>6, <1>7, <1>8, <1>9, <1>10 DEF CardStep, Deactivate, Activate
<1> QED
  BY <1>1, <1>2, <1>10 DEF cardVars

\* Only an update whose version still fits saves, and its form shows what it replaces.
LEMMA SavesWhatItShows ==
  ASSUME CardInv, [SettingsStep \/ CardStep]_cardVars, NEW u \in Clerks, NEW p \in Partners, Saves(u, p)
  PROVE  Said(form[u].seen) = Said(party[p])
<1>1. form[u].step = "saving" /\ form[u].seen.party = p /\ party'[p].version # party[p].version /\ form'[u] = NoForm
  BY DEF Saves
<1>2. form'[u] # form[u]
  BY <1>1 DEF NoForm
<1>3. party' # party
  BY <1>1
<1>4. CASE CommitUpdate(u)
  BY <1>1, <1>3, <1>4, UpdateCases DEF ShowsAll, Shows, Said
<1>5. ASSUME NEW w \in Clerks, w # u, CommitUpdate(w) PROVE FALSE
  BY <1>2, <1>5, UpdateCases DEF CardInv, FormsOK
<1>6. PICK w \in Clerks : CommitUpdate(w)
  BY <1>2, <1>3 DEF cardVars, SettingsStep, CardStep, CreateGroup, DeactivateGroup, ActivateGroup, CreateCustomField,
     Create, GetRow, loadDetails, CloseForm, BeginUpdate, Deactivate, Activate, SetActive
<1> QED
  BY <1>4, <1>5, <1>6

\* A clerk who saves a card replaces exactly what the form showed of it, although the
\* row and its details were read by separate statements (Get, loadDetails, Update).
THEOREM FormsReplaceWhatTheyShow == CardSpec => NothingOverwritten
<1>1. CardInv /\ [SettingsStep \/ CardStep]_cardVars
        => [\A u \in Clerks, p \in Partners : Saves(u, p) => Said(form[u].seen) = Said(party[p])]_cardVars
  BY SavesWhatItShows
<1> QED
  BY <1>1, CardInvInit, CardInvNext, PTL DEF CardSpec, NothingOverwritten

-----------------------------------------------------------------------------
(* Taxes, prices and articles.  Rates and prices are periods that are closed   *)
(* when the next one opens, so two never share a day; a card's variants are    *)
(* picks of its traits, told apart by them, and a posting names a variant      *)
(* wherever its card has variants.                                             *)

LEMMA AtMostOne ==
  ASSUME NEW S, \A x, y \in S : x = y
  PROVE  Cardinality(S) <= 1
<1>1. CASE S = {}
  BY <1>1, FS_EmptySet
<1>2. CASE S # {}
  <2>1. PICK x \in S : TRUE
    BY <1>2
  <2>2. S = {x}
    BY <2>1
  <2> QED
    BY <2>2, FS_Singleton
<1> QED
  BY <1>1, <1>2

LEMMA LeastOf ==
  ASSUME NEW S \in SUBSET Nat, S # {}
  PROVE  \E x \in S : \A y \in S : x <= y
<1>1. PICK x \in S : \A y \in S : ~(<<y, x>> \in OpToRel(<, Nat))
  BY NatLessThanWellFounded, WFMin
<1>2. \A y \in S : ~(y < x)
  BY <1>1 DEF OpToRel
<1> QED
  BY <1>2

USE CatalogueAssumption
-----------------------------------------------------------------------------
RateRowType == [from : Nat, to : Nat, value : RateValues \cup {0}]
TaxTypeOK ==
  /\ tax \in {Absent, "active", "inactive"}
  /\ rate \in [RateRows -> RateRowType]
  /\ today \in 1 .. Horizon + 1
Whole(row) == row = NoRow \/ (1 <= row.from /\ row.from <= row.to /\ row.to <= Horizon + 1)
RowsOK ==
  /\ \A r \in RateRows : Whole(rate[r])
  /\ \A r, s \in RateRows : r # s /\ rate[r] # NoRow /\ rate[s] # NoRow => ~ Overlap(rate[r], rate[s])
  /\ tax = Absent => \A r \in RateRows : rate[r] = NoRow
TaxInv == TaxTypeOK /\ RowsOK

LEMMA OneRate ==
  ASSUME TaxInv, NEW day \in Nat
  PROVE  \A r, s \in ListRates(rate, day) : r = s
BY DEF TaxInv, TaxTypeOK, RateRowType, RowsOK, ListRates, Overlap

LEMMA LatestIsListed ==
  ASSUME TaxInv, NEW day \in Nat, ListRates(rate, day) # {}
  PROVE  Latest(rate, day) \in ListRates(rate, day)
<1>1. PICK r \in ListRates(rate, day) : TRUE
  OBVIOUS
<1>2. ListRates(rate, day) = {r}
  BY <1>1, OneRate
<1>3. rate[r].from \in Nat
  BY <1>1 DEF TaxInv, TaxTypeOK, RateRowType, ListRates
<1>4. \E x \in ListRates(rate, day) : \A s \in ListRates(rate, day) : rate[s].from <= rate[x].from
  BY <1>2, <1>3
<1> QED
  BY <1>4 DEF Latest

LEMMA UntilIsFree ==
  ASSUME TaxInv
  PROVE  /\ Until \in today .. Horizon + 1
         /\ \A s \in RateRows : rate[s] # NoRow /\ rate[s].from > today => Until < rate[s].from
<1> DEFINE later == {rate[s].from : s \in {s \in Rows : rate[s].from > today}}
<1>1. later \in SUBSET Nat
  BY DEF TaxInv, TaxTypeOK, RateRowType, Rows
<1>2. \A d \in later : d > today /\ d <= Horizon + 1
  BY DEF TaxInv, TaxTypeOK, RateRowType, Rows, RowsOK, Whole
<1>3. \A s \in RateRows : rate[s] # NoRow /\ rate[s].from > today => rate[s].from \in later
  BY DEF Rows
<1>4. Until = IF later = {} THEN Horizon + 1 ELSE (CHOOSE d \in later : \A e \in later : d <= e) - 1
  BY DEF Until
<1>5. today \in Nat /\ today <= Horizon + 1
  BY DEF TaxInv, TaxTypeOK
<1> HIDE DEF later
<1>6. CASE later = {}
  BY <1>3, <1>4, <1>5, <1>6
<1>7. CASE later # {}
  <2> DEFINE next == CHOOSE d \in later : \A e \in later : d <= e
  <2>1. next \in later /\ \A e \in later : next <= e
    <3>1. \E d \in later : \A e \in later : d <= e
      BY <1>1, <1>7, LeastOf
    <3> QED
      BY <3>1
  <2>2. Until = next - 1
    BY <1>4, <1>7
  <2> HIDE DEF next
  <2>3. next \in Nat
    BY <2>1, <1>1
  <2>4. \A s \in RateRows : rate[s] # NoRow /\ rate[s].from > today => rate[s].from \in Nat
    BY DEF TaxInv, TaxTypeOK, RateRowType
  <2> QED
    BY <1>2, <1>3, <1>5, <2>1, <2>2, <2>3, <2>4
<1> QED
  BY <1>6, <1>7

LEMMA TaxInvInit == TaxInit => TaxInv
BY DEF TaxInit, TaxInv, TaxTypeOK, RateRowType, RowsOK, Whole, NoRow

LEMMA NewRow ==
  ASSUME TaxInv, NEW r \in RateRows, rate[r] = NoRow, tax' # Absent, tax' \in {"active", "inactive"}, today' = today,
         NEW from \in 1 .. Horizon + 1, NEW to \in from .. Horizon + 1, NEW value \in RateValues \cup {0},
         \A s \in RateRows : rate[s] # NoRow => rate[s].to < from \/ to < rate[s].from,
         rate' = [rate EXCEPT ![r] = [from |-> from, to |-> to, value |-> value]]
  PROVE  TaxInv'
<1>1. TaxTypeOK'
  BY DEF TaxInv, TaxTypeOK, RateRowType
<1>2. \A s \in RateRows : s # r => rate'[s] = rate[s]
  BY DEF TaxInv, TaxTypeOK
<1>3. rate'[r] = [from |-> from, to |-> to, value |-> value]
  BY DEF TaxInv, TaxTypeOK
<1>4. (\A s \in RateRows : Whole(rate[s]))'
  BY <1>2, <1>3 DEF TaxInv, RowsOK, Whole
<1>5. ASSUME NEW s \in RateRows, NEW u \in RateRows, s # u, rate'[s] # NoRow, rate'[u] # NoRow
      PROVE  ~ Overlap(rate'[s], rate'[u])
  <2>1. CASE s # r /\ u # r
    BY <1>2, <1>5, <2>1 DEF TaxInv, RowsOK
  <2>2. CASE s = r
    BY <1>2, <1>3, <1>5, <2>2 DEF TaxInv, TaxTypeOK, RateRowType, Overlap
  <2>3. CASE u = r
    BY <1>2, <1>3, <1>5, <2>3 DEF TaxInv, TaxTypeOK, RateRowType, Overlap
  <2> QED
    BY <2>1, <2>2, <2>3
<1>6. RowsOK'
  BY <1>4, <1>5 DEF RowsOK, Overlap, Whole, NoRow, Absent
<1> QED
  BY <1>1, <1>6 DEF TaxInv

LEMMA TaxInvNext == TaxInv /\ [TaxStep]_taxVars => TaxInv'
<1> SUFFICES ASSUME TaxInv, [TaxStep]_taxVars PROVE TaxInv'
  OBVIOUS
<1>1. ASSUME NEW r \in RateRows, NEW value \in RateValues \cup {0}, CreateDefinition(r, value) PROVE TaxInv'
  <2>1. \A s \in RateRows : rate[s] = NoRow
    BY <1>1 DEF CreateDefinition, TaxInv, RowsOK
  <2>2. tax' = "active" /\ today' = today /\ today \in 1 .. Horizon + 1 /\ tax' # Absent
    BY <1>1 DEF CreateDefinition, TaxInv, TaxTypeOK, Absent
  <2>3. CASE value = 0
    BY <1>1, <2>2, <2>3 DEF CreateDefinition, TaxInv, TaxTypeOK, RowsOK, Whole, NoRow
  <2>4. CASE value # 0
    <3>1. rate' = [rate EXCEPT ![r] = [from |-> today, to |-> Horizon + 1, value |-> value]]
      BY <1>1, <2>4 DEF CreateDefinition
    <3>2. /\ Horizon + 1 \in today .. Horizon + 1
          /\ \A s \in RateRows : rate[s] # NoRow => rate[s].to < today \/ Horizon + 1 < rate[s].from
          /\ rate[r] = NoRow
      BY <2>1, <2>2
    <3> QED
      BY <2>2, <3>1, <3>2, NewRow
  <2> QED
    BY <2>3, <2>4
<1>2. ASSUME NEW r \in RateRows, NEW value \in RateValues, NEW q \in Proper, CreateRate(r, q, value) PROVE TaxInv'
  <2>1. q.from \in 1 .. Horizon + 1 /\ q.to \in q.from .. Horizon + 1
    BY <1>2 DEF Proper, Periods
  <2>2. \A s \in RateRows : rate[s] # NoRow => rate[s].to < q.from \/ q.to < rate[s].from
    BY <1>2, <2>1 DEF CreateRate, Rows, Overlap, TaxInv, TaxTypeOK, RateRowType
  <2>3. /\ rate[r] = NoRow /\ tax' = tax /\ today' = today /\ tax # Absent
        /\ rate' = [rate EXCEPT ![r] = [from |-> q.from, to |-> q.to, value |-> value]]
    BY <1>2 DEF CreateRate, Unused, Rows
  <2>4. tax' \in {"active", "inactive"} /\ tax' # Absent
    BY <2>3 DEF TaxInv, TaxTypeOK
  <2> QED
    BY <2>1, <2>2, <2>3, <2>4, NewRow
<1>3. ASSUME NEW r \in RateRows, NEW value \in RateValues, UpdateDefinition(r, value) PROVE TaxInv'
  <2> DEFINE now == ListRates(rate, today)
             old == Latest(rate, today)
  <2>1. /\ tax' = tax /\ today' = today /\ tax # Absent /\ rate[r] = NoRow
        /\ tax \in {"active", "inactive"} /\ today \in 1 .. Horizon + 1
        /\ rate \in [RateRows -> RateRowType]
    BY <1>3 DEF UpdateDefinition, Unused, Rows, TaxInv, TaxTypeOK
  <2>2. CASE now # {} /\ rate[old].value = value
    BY <1>3, <2>1, <2>2 DEF UpdateDefinition, updateDefinitionRateTx, TaxInv, TaxTypeOK, RowsOK, Whole
  <2>3. CASE now # {} /\ rate[old].value # value /\ rate[old].from = today
    <3>1. old \in RateRows /\ rate[old] # NoRow
      BY <2>1, <2>3, LatestIsListed DEF ListRates
    <3>2. rate' = [rate EXCEPT ![old] = [rate[old] EXCEPT !.value = value]]
      BY <1>3, <2>3 DEF UpdateDefinition, updateDefinitionRateTx
    <3> HIDE DEF old
    <3>3. rate' \in [RateRows -> RateRowType]
      BY <2>1, <3>1, <3>2 DEF RateRowType
    <3>4. \A s \in RateRows : rate'[s].from = rate[s].from /\ rate'[s].to = rate[s].to
      BY <2>1, <3>1, <3>2 DEF RateRowType
    <3>5. \A s \in RateRows : rate'[s] # NoRow => rate[s] # NoRow
      BY <2>1, <3>1, <3>2
    <3>6. RowsOK'
      <4>1. \A s \in RateRows : Whole(rate'[s])
        BY <2>1, <3>1, <3>2 DEF TaxInv, RowsOK, Whole, RateRowType
      <4> QED
        BY <2>1, <3>4, <3>5, <4>1 DEF TaxInv, RowsOK, Overlap
    <3> QED
      BY <2>1, <3>3, <3>6 DEF TaxInv, TaxTypeOK
  <2>4. CASE now # {} /\ rate[old].value # value /\ rate[old].from # today
    <3>1. /\ old \in RateRows /\ rate[old] # NoRow /\ rate[old].from <= today /\ today <= rate[old].to
          /\ rate[old].from # today
      BY <2>1, <2>4, LatestIsListed DEF ListRates
    <3>2. rate' = [s \in RateRows |->
                 IF s = r THEN [from |-> today, to |-> rate[old].to, value |-> value]
                 ELSE IF s = old THEN [rate[old] EXCEPT !.to = today - 1] ELSE rate[s]]
      BY <1>3, <2>4 DEF UpdateDefinition, updateDefinitionRateTx
    <3> HIDE DEF old
    <3>3. /\ rate'[r] = [from |-> today, to |-> rate[old].to, value |-> value]
          /\ rate'[old] = [rate[old] EXCEPT !.to = today - 1]
          /\ \A s \in RateRows : s # r /\ s # old => rate'[s] = rate[s]
      BY <2>1, <3>1, <3>2
    <3>4. rate[old] \in RateRowType /\ 1 <= rate[old].from /\ rate[old].from <= today - 1 /\ rate[old].to <= Horizon + 1
      BY <2>1, <3>1 DEF TaxInv, RowsOK, Whole, RateRowType
    <3>5. rate' \in [RateRows -> RateRowType]
      BY <2>1, <3>1, <3>2, <3>4 DEF RateRowType
    <3>6. \A s \in RateRows : Whole(rate'[s])
      <4>1. Whole(rate'[r])
        BY <2>1, <3>1, <3>3, <3>4 DEF Whole, RateRowType
      <4>2. Whole(rate'[old])
        BY <2>1, <3>1, <3>3, <3>4 DEF Whole, RateRowType
      <4> QED
        BY <3>3, <4>1, <4>2 DEF TaxInv, RowsOK
    <3>7. ASSUME NEW s \in RateRows, NEW u \in RateRows, s # u, rate'[s] # NoRow, rate'[u] # NoRow
          PROVE  ~ Overlap(rate'[s], rate'[u])
      <4>1. \A x \in RateRows : x # r /\ x # old /\ rate[x] # NoRow =>
               /\ rate[x].from \in Nat /\ rate[x].to \in Nat
               /\ rate[x].to < rate[old].from \/ rate[old].to < rate[x].from
        BY <2>1, <3>1, <3>4 DEF TaxInv, RowsOK, Overlap, RateRowType
      <4>2. today \in Nat /\ rate[old].from \in Nat /\ rate[old].to \in Nat
        BY <2>1, <3>4 DEF RateRowType
      <4>3. CASE s # r /\ s # old /\ u # r /\ u # old
        BY <3>3, <3>7, <4>3 DEF TaxInv, RowsOK
      <4>4. CASE s = r
        BY <3>1, <3>3, <3>4, <3>7, <4>1, <4>2, <4>4 DEF Overlap, RateRowType
      <4>5. CASE u = r
        BY <3>1, <3>3, <3>4, <3>7, <4>1, <4>2, <4>5 DEF Overlap, RateRowType
      <4>6. CASE s = old /\ u # r
        BY <3>1, <3>3, <3>4, <3>7, <4>1, <4>2, <4>6 DEF Overlap, RateRowType
      <4>7. CASE u = old /\ s # r
        BY <3>1, <3>3, <3>4, <3>7, <4>1, <4>2, <4>7 DEF Overlap, RateRowType
      <4> QED
        BY <4>3, <4>4, <4>5, <4>6, <4>7
    <3> QED
      BY <2>1, <3>5, <3>6, <3>7 DEF TaxInv, TaxTypeOK, RowsOK, Overlap
  <2>5. CASE now = {}
    <3>1. rate' = [s \in RateRows |-> IF s = r THEN [from |-> today, to |-> Until, value |-> value] ELSE rate[s]]
      BY <1>3, <2>5 DEF UpdateDefinition, updateDefinitionRateTx
    <3>2. rate' = [rate EXCEPT ![r] = [from |-> today, to |-> Until, value |-> value]]
      BY <2>1, <3>1
    <3>3. \A s \in RateRows : rate[s] # NoRow => rate[s].to < today \/ Until < rate[s].from
      <4>1. ASSUME NEW s \in RateRows, rate[s] # NoRow PROVE rate[s].to < today \/ Until < rate[s].from
        <5>1. ~(rate[s].from <= today /\ today <= rate[s].to)
          BY <2>5, <4>1 DEF ListRates
        <5> QED
          BY <2>1, <4>1, <5>1, UntilIsFree DEF RateRowType
      <4> QED
        BY <4>1
    <3> QED
      BY <2>1, <3>2, <3>3, UntilIsFree, NewRow
  <2> QED
    BY <2>2, <2>3, <2>4, <2>5
<1>4. ASSUME NEW to \in {"active", "inactive"}, SetDefinitionActive(to) PROVE TaxInv'
  BY <1>4 DEF SetDefinitionActive, TaxInv, TaxTypeOK, RowsOK, Whole, Absent
<1>5. CASE NextDay
  BY <1>5 DEF NextDay, TaxInv, TaxTypeOK, RowsOK, Whole
<1>6. CASE UNCHANGED taxVars
  BY <1>6 DEF taxVars, TaxInv, TaxTypeOK, RowsOK, Whole
<1> QED
  BY <1>1, <1>2, <1>3, <1>4, <1>5, <1>6 DEF TaxStep

LEMMA OneRateADay ==
  ASSUME TaxInv
  PROVE  \A day \in 1 .. Horizon : Cardinality(ListRates(rate, day)) <= 1
BY OneRate, AtMostOne
-----------------------------------------------------------------------------
TariffType == [active : BOOLEAN, currency : Currencies \cup {Absent}]
EntryType ==
  [on : Tariffs \cup {Absent}, target : Targets \cup {Absent}, from : Nat, to : Nat,
   by : {"list", "form", "file", Absent}, in : Currencies \cup {Absent}, met : SUBSET Entries]
ImportType == [on : Tariffs \cup {Absent}, target : Targets \cup {Absent}, day : Nat, met : SUBSET Entries]
PriceTypeOK ==
  /\ tariff \in [Tariffs -> TariffType]
  /\ entry \in [Entries -> EntryType]
  /\ switching \in [on : Tariffs \cup {Absent}, currency : Currencies \cup {Absent}, met : SUBSET Entries]
  /\ importing \in [Entries -> ImportType]
TariffsOK ==
  /\ \A l \in Tariffs : tariff[l] # NoTariff => tariff[l].currency \in Currencies
  /\ \A e \in Entries :
       /\ entry[e].on = Absent => entry[e] = NoEntry
       /\ entry[e].on # Absent => tariff[entry[e].on] # NoTariff /\ entry[e].in = tariff[entry[e].on].currency
SwitchOK ==
  /\ switching.on = Absent => switching = NoSwitch
  /\ switching.on # Absent =>
       /\ tariff[switching.on] # NoTariff /\ switching.currency \in Currencies
       /\ switching.currency # tariff[switching.on].currency =>
            \A e \in Entries : entry[e].on = switching.on => e \in switching.met
PeriodsOK ==
  \A e, f \in Entries :
    /\ e # f /\ entry[e].on # Absent
    /\ entry[f].on = entry[e].on /\ entry[f].target = entry[e].target
    /\ Overlap(entry[e], entry[f]) /\ entry[e].from = entry[f].from
    => entry[e].by = "form" \/ entry[f].by = "form" \/ Crossed(e, f)
\* What is valid on the day of a row being imported was written since the row looked.
PendingOK ==
  \A e \in Entries :
    /\ importing[e].on = Absent => importing[e] = NoImport
    /\ importing[e].on # Absent => tariff[importing[e].on] # NoTariff
    /\ \A f \in Valid(importing[e].on, importing[e].target, importing[e].day) : f = e \/ f \in importing[e].met
       \/ importing[e].on = Absent
PriceInv == PriceTypeOK /\ TariffsOK /\ SwitchOK /\ PeriodsOK /\ PendingOK

LEMMA PriceInvInit == PriceInit => PriceInv
BY DEF PriceInit, PriceInv, PriceTypeOK, TariffType, EntryType, TariffsOK, SwitchOK, PeriodsOK,
       NoTariff, NoEntry, NoSwitch, NoImport, ImportType, PendingOK, Absent

LEMMA EntryWritten ==
  ASSUME PriceInv, NEW e \in Entries, NEW l \in Tariffs, NEW t \in Targets \cup {Absent}, NEW q,
         q.from \in Nat, q.to \in Nat, NEW by \in {"list", "form", "file"}, NEW met \in SUBSET Entries,
         tariff[l] # NoTariff, Written(e, l, t, q, by, met),
         by = "form" \/ \A f \in Siblings(e, l, t) : Overlap(entry[f], q) /\ entry[f].from = q.from => f \in met
  PROVE  PriceInv'
<1>0. /\ tariff \in [Tariffs -> TariffType] /\ entry \in [Entries -> EntryType]
      /\ switching \in [on : Tariffs \cup {Absent}, currency : Currencies \cup {Absent}, met : SUBSET Entries]
      /\ importing \in [Entries -> ImportType]
      /\ tariff' = tariff /\ l # Absent
      /\ tariff[l].currency \in Currencies
  BY DEF PriceInv, PriceTypeOK, TariffsOK, Written, Absent
<1> DEFINE new == [on |-> l, target |-> t, from |-> q.from, to |-> q.to, by |-> by, in |-> tariff[l].currency, met |-> met]
<1>1. new \in EntryType
  BY <1>0 DEF EntryType
<1>2. /\ entry' = [entry EXCEPT ![e] = new]
      /\ entry'[e] = new
      /\ \A f \in Entries : f # e => entry'[f] = entry[f]
  BY <1>0 DEF Written
<1>3. /\ switching' \in [on : Tariffs \cup {Absent}, currency : Currencies \cup {Absent}, met : SUBSET Entries]
      /\ switching'.on = switching.on /\ switching'.currency = switching.currency
      /\ switching.met \subseteq switching'.met
      /\ switching.on = l => e \in switching'.met
      /\ switching.on # l => switching' = switching
  BY <1>0 DEF Written
<1>4. new.on = l /\ new.in = tariff[l].currency /\ new.target = t /\ new.by = by /\ new.from = q.from /\ new.to = q.to
      /\ new.met = met
  OBVIOUS
<1> HIDE DEF new
<1>10. /\ importing' \in [Entries -> ImportType]
       /\ importing'[e] = NoImport
       /\ \A f \in Entries : f # e =>
            /\ importing'[f].on = importing[f].on /\ importing'[f].target = importing[f].target
            /\ importing'[f].day = importing[f].day /\ importing[f].met \subseteq importing'[f].met
            /\ importing[f].on = l /\ importing[f].target = t => e \in importing'[f].met
            /\ importing[f].on # l => importing'[f] = importing[f]
  <2>1. NoImport \in ImportType
    BY DEF NoImport, ImportType
  <2>2. ASSUME NEW f \in Entries, f # e
        PROVE  /\ importing'[f] \in ImportType
               /\ importing'[f].on = importing[f].on /\ importing'[f].target = importing[f].target
               /\ importing'[f].day = importing[f].day /\ importing[f].met \subseteq importing'[f].met
               /\ importing[f].on = l /\ importing[f].target = t => e \in importing'[f].met
               /\ importing[f].on # l => importing'[f] = importing[f]
    <3>1. importing[f] \in ImportType
      BY <1>0
    <3>2. importing'[f] = IF importing[f].on = l /\ importing[f].target = t
                          THEN [importing[f] EXCEPT !.met = @ \cup {e}] ELSE importing[f]
      BY <2>2 DEF Written
    <3>3. CASE importing[f].on = l /\ importing[f].target = t
      <4>1. importing'[f] = [importing[f] EXCEPT !.met = @ \cup {e}]
        BY <3>2, <3>3
      <4> QED
        BY <3>1, <3>3, <4>1 DEF ImportType
    <3>4. CASE ~ (importing[f].on = l /\ importing[f].target = t)
      <4>1. importing'[f] = importing[f]
        BY <3>2, <3>4
      <4> QED
        BY <3>1, <3>4, <4>1
    <3> QED
      BY <3>3, <3>4
  <2>3. importing'[e] = NoImport
    BY DEF Written
  <2>4. importing' = [f \in Entries |-> importing'[f]]
    BY DEF Written
  <2>5. \A f \in Entries : importing'[f] \in ImportType
    BY <2>1, <2>2, <2>3
  <2>6. importing' \in [Entries -> ImportType]
    BY <2>4, <2>5
  <2> QED
    BY <2>2, <2>3, <2>6
<1>5. PriceTypeOK'
  BY <1>0, <1>1, <1>10, <1>2, <1>3 DEF PriceTypeOK
<1>6. TariffsOK'
  BY <1>0, <1>2, <1>4 DEF PriceInv, TariffsOK
<1>7. SwitchOK'
  <2>1. switching'.on = Absent => switching' = NoSwitch
    BY <1>0, <1>3 DEF PriceInv, SwitchOK
  <2>2. ASSUME switching'.on # Absent
        PROVE  /\ tariff'[switching'.on] # NoTariff /\ switching'.currency \in Currencies
               /\ switching'.currency # tariff'[switching'.on].currency =>
                    \A f \in Entries : entry'[f].on = switching'.on => f \in switching'.met
    BY <1>0, <1>2, <1>3, <1>4, <2>2 DEF PriceInv, SwitchOK
  <2> QED
    BY <2>1, <2>2 DEF SwitchOK, NoTariff, NoSwitch, Absent
<1>8. PeriodsOK'
  <2> SUFFICES ASSUME NEW f \in Entries, NEW g \in Entries, f # g, entry'[f].on # Absent,
                      entry'[g].on = entry'[f].on, entry'[g].target = entry'[f].target,
                      Overlap(entry'[f], entry'[g]), entry'[f].from = entry'[g].from
               PROVE  entry'[f].by = "form" \/ entry'[g].by = "form"
                      \/ f \in entry'[g].met \/ g \in entry'[f].met
    BY DEF PeriodsOK, Overlap, Crossed, Absent
  <2>1. CASE f # e /\ g # e
    BY <1>2, <2>1 DEF PriceInv, PeriodsOK, Crossed
  <2>2. CASE f = e
    BY <1>0, <1>2, <1>4, <2>2 DEF Siblings, Overlap
  <2>3. CASE g = e
    BY <1>0, <1>2, <1>4, <2>3 DEF Siblings, Overlap
  <2> QED
    BY <2>1, <2>2, <2>3
<1>9. PendingOK'
  <2>1. ASSUME NEW f \in Entries
        PROVE  /\ importing'[f].on = Absent => importing'[f] = NoImport
               /\ importing'[f].on # Absent => tariff'[importing'[f].on] # NoTariff
    BY <1>0, <1>10, <2>1 DEF PriceInv, PendingOK, NoImport
  <2>2. ASSUME NEW f \in Entries, importing'[f].on # Absent, NEW g \in Entries, g # f,
               entry'[g].on = importing'[f].on, entry'[g].target = importing'[f].target,
               entry'[g].from <= importing'[f].day, importing'[f].day <= entry'[g].to
        PROVE  g \in importing'[f].met
    <3>1. f # e
      BY <1>10, <2>2 DEF NoImport
    <3>2. CASE g = e
      BY <1>10, <1>2, <1>4, <2>2, <3>1, <3>2
    <3>3. CASE g # e
      <4>1. entry'[g] = entry[g]
        BY <1>2, <3>3
      <4> QED
        BY <1>10, <2>2, <3>1, <4>1 DEF PriceInv, PendingOK, Valid
    <3> QED
      BY <3>2, <3>3
  <2> QED
    BY <2>1, <2>2 DEF PendingOK, Valid, NoTariff, NoImport, Absent
<1> QED
  BY <1>5, <1>6, <1>7, <1>8, <1>9 DEF PriceInv

LEMMA PriceInvNext == PriceInv /\ [PriceStep]_priceVars => PriceInv'
<1> SUFFICES ASSUME PriceInv, [PriceStep]_priceVars PROVE PriceInv'
  OBVIOUS
<1>0. /\ tariff \in [Tariffs -> TariffType] /\ entry \in [Entries -> EntryType]
      /\ switching \in [on : Tariffs \cup {Absent}, currency : Currencies \cup {Absent}, met : SUBSET Entries]
      /\ importing \in [Entries -> ImportType]
      /\ Absent \notin Tariffs /\ Absent \notin Currencies
  BY DEF PriceInv, PriceTypeOK, Absent
<1>1. ASSUME NEW l \in Tariffs, NEW c \in Currencies, CreatePriceList(l, c) PROVE PriceInv'
  <2>1. /\ tariff' = [tariff EXCEPT ![l] = [active |-> TRUE, currency |-> c]] /\ tariff[l] = NoTariff
        /\ entry' = entry /\ switching' = switching /\ importing' = importing
        /\ tariff'[l] = [active |-> TRUE, currency |-> c]
        /\ \A m \in Tariffs : m # l => tariff'[m] = tariff[m]
    BY <1>0, <1>1 DEF CreatePriceList
  <2>2. PriceTypeOK'
    BY <1>0, <2>1 DEF PriceTypeOK, TariffType
  <2>3. TariffsOK'
    BY <1>0, <2>1, ZenonT(60) DEF PriceInv, TariffsOK, EntryType, NoTariff
  <2>4. SwitchOK'
    BY <1>0, <2>1 DEF PriceInv, SwitchOK
  <2>5. PeriodsOK'
    BY <2>1 DEF PriceInv, PeriodsOK, Crossed
  <2>6. PendingOK'
    <3>1. \A m \in Tariffs : tariff[m] # NoTariff => tariff'[m] # NoTariff
      BY <1>0, <2>1 DEF NoTariff
    <3>2. \A m, u, day : Valid(m, u, day)' = Valid(m, u, day)
      BY <2>1 DEF Valid
    <3> QED
      BY <1>0, <2>1, <3>1, <3>2 DEF PriceInv, PendingOK, ImportType
  <2> QED
    BY <2>2, <2>3, <2>4, <2>5, <2>6 DEF PriceInv
<1>2. ASSUME NEW l \in Tariffs, NEW c \in Currencies, BeginUpdatePriceList(l, c) PROVE PriceInv'
  <2>1. /\ switching' = [on |-> l, currency |-> c, met |-> {}] /\ tariff' = tariff /\ entry' = entry
        /\ importing' = importing
        /\ tariff[l] # NoTariff /\ (c # tariff[l].currency => \A e \in Entries : entry[e].on # l)
    BY <1>2 DEF BeginUpdatePriceList
  <2>2. PriceTypeOK'
    BY <1>0, <2>1 DEF PriceTypeOK
  <2>3. TariffsOK' /\ PeriodsOK' /\ PendingOK'
    BY <2>1 DEF PriceInv, TariffsOK, PeriodsOK, PendingOK, Valid, Crossed
  <2>4. SwitchOK'
    BY <1>0, <2>1 DEF SwitchOK
  <2> QED
    BY <2>2, <2>3, <2>4 DEF PriceInv
<1>3. CASE UpdatePriceList
  <2> DEFINE l == switching.on
  <2>1. /\ l \in Tariffs /\ tariff[l] # NoTariff /\ switching.currency \in Currencies
        /\ (switching.currency # tariff[l].currency => \A e \in Entries : entry[e].on = l => e \in switching.met)
    BY <1>0, <1>3 DEF UpdatePriceList, PriceInv, SwitchOK
  <2>2. /\ tariff' = [tariff EXCEPT ![l].currency = switching.currency]
        /\ tariff'[l].currency = switching.currency
        /\ \A m \in Tariffs : m # l => tariff'[m] = tariff[m]
        /\ tariff' \in [Tariffs -> TariffType]
        /\ switching' = NoSwitch /\ importing' = importing
    BY <1>0, <1>3, <2>1 DEF UpdatePriceList, TariffType
  <2>3. \A e \in Entries :
          entry'[e] = IF e \in switching.met /\ entry[e].on = l THEN [entry[e] EXCEPT !.in = switching.currency] ELSE entry[e]
    BY <1>3 DEF UpdatePriceList
  <2>4. entry' \in [Entries -> EntryType]
    <3>1. \A e \in Entries : entry[e] \in EntryType /\ [entry[e] EXCEPT !.in = switching.currency] \in EntryType
      BY <1>0, <2>1 DEF EntryType
    <3> QED
      BY <1>3, <3>1 DEF UpdatePriceList
  <2>5. \A e \in Entries :
          /\ entry'[e].on = entry[e].on /\ entry'[e].target = entry[e].target /\ entry'[e].by = entry[e].by
          /\ entry'[e].from = entry[e].from /\ entry'[e].to = entry[e].to /\ entry'[e].met = entry[e].met
          /\ entry'[e].in = IF e \in switching.met /\ entry[e].on = l THEN switching.currency ELSE entry[e].in
          /\ entry[e].on = Absent => entry'[e] = entry[e]
    <3>1. ASSUME NEW e \in Entries
          PROVE  /\ entry'[e].on = entry[e].on /\ entry'[e].target = entry[e].target /\ entry'[e].by = entry[e].by
                 /\ entry'[e].from = entry[e].from /\ entry'[e].to = entry[e].to /\ entry'[e].met = entry[e].met
                 /\ entry'[e].in = IF e \in switching.met /\ entry[e].on = l THEN switching.currency ELSE entry[e].in
                 /\ entry[e].on = Absent => entry'[e] = entry[e]
      <4>1. entry[e] \in EntryType /\ l # Absent
        BY <1>0, <2>1
      <4>2. CASE e \in switching.met /\ entry[e].on = l
        <5>1. entry'[e] = [entry[e] EXCEPT !.in = switching.currency]
          BY <2>3, <4>2
        <5> QED
          BY <4>1, <4>2, <5>1 DEF EntryType
      <4>3. CASE ~(e \in switching.met /\ entry[e].on = l)
        <5>1. entry'[e] = entry[e]
          BY <2>3, <4>3
        <5> QED
          BY <4>3, <5>1
      <4> QED
        BY <4>2, <4>3
    <3> QED
      BY <3>1
  <2>6. PriceTypeOK'
    BY <1>0, <2>2, <2>4 DEF PriceTypeOK, NoSwitch
  <2>7. TariffsOK'
    <3>1. \A m \in Tariffs : tariff'[m] # NoTariff => tariff'[m].currency \in Currencies
      BY <2>1, <2>2 DEF PriceInv, TariffsOK
    <3>2. \A e \in Entries : entry'[e].on = Absent => entry'[e] = NoEntry
      BY <2>5 DEF PriceInv, TariffsOK
    <3>3. ASSUME NEW e \in Entries, entry'[e].on # Absent
          PROVE  tariff'[entry'[e].on] # NoTariff /\ entry'[e].in = tariff'[entry'[e].on].currency
      <4>1. entry[e].on \in Tariffs /\ entry[e].in = tariff[entry[e].on].currency /\ tariff[entry[e].on] # NoTariff
        BY <1>0, <2>5, <3>3 DEF PriceInv, TariffsOK, EntryType
      <4>2. CASE entry[e].on # l
        BY <2>2, <2>5, <4>1, <4>2
      <4>3. CASE entry[e].on = l
        BY <1>0, <2>1, <2>2, <2>5, <4>1, <4>3 DEF NoTariff
      <4> QED
        BY <4>2, <4>3
    <3> QED
      BY <3>1, <3>2, <3>3 DEF TariffsOK, NoTariff, NoEntry, Absent
  <2>8. SwitchOK'
    BY <2>2 DEF SwitchOK, NoSwitch, Absent
  <2>9. PeriodsOK'
    BY <2>5 DEF PriceInv, PeriodsOK, Overlap, Crossed
  <2>10. PendingOK'
    <3>1. \A m \in Tariffs : tariff[m] # NoTariff => tariff'[m] # NoTariff
      BY <1>0, <2>1, <2>2 DEF NoTariff
    <3>2. \A m, u, day : Valid(m, u, day)' = Valid(m, u, day)
      BY <2>5 DEF Valid
    <3> QED
      BY <1>0, <2>2, <3>1, <3>2 DEF PriceInv, PendingOK, ImportType
  <2> QED
    BY <2>10, <2>6, <2>7, <2>8, <2>9 DEF PriceInv
<1>4. ASSUME NEW l \in Tariffs, NEW active \in BOOLEAN, SetPriceListActive(l, active) PROVE PriceInv'
  <2>1. /\ tariff' = [tariff EXCEPT ![l].active = active] /\ tariff[l] # NoTariff /\ entry' = entry /\ switching' = switching
        /\ importing' = importing
        /\ tariff' \in [Tariffs -> TariffType]
        /\ \A m \in Tariffs : tariff'[m].currency = tariff[m].currency
    BY <1>0, <1>4 DEF SetPriceListActive, TariffType
  <2>2. \A m \in Tariffs : tariff'[m] # NoTariff <=> tariff[m] # NoTariff
    <3>1. ASSUME NEW m \in Tariffs, m # l PROVE tariff'[m] = tariff[m]
      BY <1>0, <2>1, <3>1
    <3>2. tariff[l].currency \in Currencies
      BY <2>1 DEF PriceInv, TariffsOK
    <3>3. tariff'[l] # NoTariff
      BY <1>0, <2>1, <3>2 DEF NoTariff
    <3> QED
      BY <2>1, <3>1, <3>3
  <2>3. PriceTypeOK'
    BY <1>0, <2>1 DEF PriceTypeOK
  <2>4. TariffsOK'
    BY <1>0, <2>1, <2>2 DEF PriceInv, TariffsOK, EntryType
  <2>5. SwitchOK'
    BY <1>0, <2>1, <2>2 DEF PriceInv, SwitchOK
  <2>6. PeriodsOK'
    BY <2>1 DEF PriceInv, PeriodsOK, Crossed
  <2>7. PendingOK'
    BY <1>0, <2>1, <2>2 DEF PriceInv, PendingOK, ImportType, Valid
  <2> QED
    BY <2>3, <2>4, <2>5, <2>6, <2>7 DEF PriceInv
<1>5. ASSUME NEW e \in Entries, NEW l \in Tariffs, NEW q \in Proper, NEW t \in Targets,
             CreatePriceEntry(e, l, t, q) \/ UpdatePriceEntry(e, l, t, q)
      PROVE  PriceInv'
  BY <1>5, EntryWritten DEF CreatePriceEntry, UpdatePriceEntry, lockAndCheckOverlap, Proper, Periods
<1>6. ASSUME NEW e \in Entries, NEW l \in Tariffs, NEW q \in Proper, syncVariantPriceEntries(e, l, q) PROVE PriceInv'
  <2>1. tariff[l] # NoTariff
    BY <1>6 DEF syncVariantPriceEntries, NoTariff
  <2> QED
    BY <1>6, <2>1, EntryWritten, "variant" \in Targets DEF syncVariantPriceEntries, Targets, Proper, Periods
<1>7. ASSUME NEW e \in Entries, removeVariantPriceEntry(e) PROVE PriceInv'
  <2>1. /\ entry' = [entry EXCEPT ![e] = NoEntry] /\ tariff' = tariff /\ switching' = switching /\ importing' = importing
        /\ entry'[e] = NoEntry /\ NoEntry.on = Absent /\ NoEntry \in EntryType
        /\ \A f \in Entries : f # e => entry'[f] = entry[f]
    BY <1>0, <1>7 DEF removeVariantPriceEntry, NoEntry, EntryType
  <2>2. PriceTypeOK'
    BY <1>0, <2>1 DEF PriceTypeOK
  <2>3. TariffsOK'
    BY <1>0, <2>1 DEF PriceInv, TariffsOK
  <2>4. SwitchOK'
    BY <1>0, <2>1 DEF PriceInv, SwitchOK
  <2>5. PeriodsOK'
    BY <1>0, <2>1 DEF PriceInv, PeriodsOK, Crossed
  <2>6. PendingOK'
    BY <1>0, <2>1 DEF PriceInv, PendingOK, ImportType, Valid
  <2> QED
    BY <2>2, <2>3, <2>4, <2>5, <2>6 DEF PriceInv
<1>8. CASE UNCHANGED priceVars
  BY <1>8 DEF priceVars, PriceInv, PriceTypeOK, TariffsOK, SwitchOK, PeriodsOK, PendingOK, Valid, Crossed
<1>9. ASSUME NEW e \in Entries, NEW l \in Tariffs, NEW t \in Targets, NEW day \in 1 .. Horizon,
             BeginImportPrice(e, l, t, day)
      PROVE  PriceInv'
  <2> DEFINE row == [on |-> l, target |-> t, day |-> day, met |-> {}]
  <2>1. /\ tariff' = tariff /\ entry' = entry /\ switching' = switching
        /\ importing' = [importing EXCEPT ![e] = row]
        /\ tariff[l] # NoTariff /\ Valid(l, t, day) = {}
    BY <1>9 DEF BeginImportPrice
  <2>2. /\ row \in ImportType /\ row.on = l /\ row.target = t /\ row.day = day
    BY DEF ImportType
  <2> HIDE DEF row
  <2>3. PriceTypeOK'
    BY <1>0, <2>1, <2>2 DEF PriceTypeOK
  <2>4. TariffsOK' /\ SwitchOK' /\ PeriodsOK'
    BY <2>1 DEF PriceInv, TariffsOK, SwitchOK, PeriodsOK, Crossed
  <2>5. PendingOK'
    <3>1. importing'[e] = row /\ \A f \in Entries : f # e => importing'[f] = importing[f]
      BY <1>0, <2>1
    <3>2. \A m, u, d : Valid(m, u, d)' = Valid(m, u, d)
      BY <2>1 DEF Valid
    <3> QED
      BY <1>0, <2>1, <2>2, <3>1, <3>2 DEF PriceInv, PendingOK
  <2> QED
    BY <2>3, <2>4, <2>5 DEF PriceInv
<1>10. ASSUME NEW e \in Entries, ImportPrice(e) PROVE PriceInv'
  <2> DEFINE row == importing[e]
             q == [from |-> row.day, to |-> Horizon + 1]
  <2>1. /\ row \in ImportType /\ row # NoImport
        /\ Written(e, row.on, row.target, q, "file", row.met)
    BY <1>0, <1>10 DEF ImportPrice
  <2>2. /\ row.on \in Tariffs /\ tariff[row.on] # NoTariff
        /\ \A f \in Valid(row.on, row.target, row.day) : f = e \/ f \in row.met
    BY <2>1 DEF PriceInv, PendingOK, ImportType
  <2>3. q.from = row.day /\ q.to = Horizon + 1 /\ row.day \in Nat /\ Horizon + 1 \in Nat
    BY <2>1 DEF ImportType
  <2>4. \A f \in Siblings(e, row.on, row.target) :
          Overlap(entry[f], q) /\ entry[f].from = q.from => f \in row.met
    <3>1. ASSUME NEW f \in Siblings(e, row.on, row.target), Overlap(entry[f], q), entry[f].from = q.from
          PROVE  f \in Valid(row.on, row.target, row.day) /\ f # e
      BY <2>3, <3>1 DEF Siblings, Valid, Overlap
    <3> QED
      BY <2>2, <3>1
  <2>5. row.target \in Targets \cup {Absent} /\ row.met \in SUBSET Entries /\ q.from \in Nat /\ q.to \in Nat
    BY <2>1, <2>3 DEF ImportType
  <2> HIDE DEF q, row
  <2> QED
    BY <2>1, <2>2, <2>4, <2>5, EntryWritten
<1> QED
  BY <1>1, <1>10, <1>2, <1>3, <1>4, <1>5, <1>6, <1>7, <1>8, <1>9 DEF PriceStep

LEMMA OnePrice ==
  ASSUME PriceInv, NEW l \in Tariffs, NEW t \in Targets, NEW day \in 1 .. Horizon,
         NEW e \in ResolvePrice(l, t, day), NEW f \in ResolvePrice(l, t, day)
  PROVE  e = f \/ entry[e].by = "form" \/ entry[f].by = "form" \/ Crossed(e, f)
<1>1. l # Absent /\ entry \in [Entries -> EntryType]
  BY DEF PriceInv, PriceTypeOK, Absent
<1>2. PICK u \in Targets : e \in Valid(l, u, day) /\ f \in Valid(l, u, day)
  <2>1. "card" \in Targets
    BY DEF Targets
  <2> QED
    BY <2>1 DEF ResolvePrice
<1>3. entry[e].from = entry[f].from
  <2>1. entry[f].from <= entry[e].from /\ entry[e].from <= entry[f].from
    BY DEF ResolvePrice
  <2> QED
    BY <1>1, <1>2, <2>1 DEF Valid, EntryType
<1>4. Overlap(entry[e], entry[f])
  BY <1>1, <1>2 DEF Valid, Overlap, EntryType
<1> QED
  BY <1>1, <1>2, <1>3, <1>4 DEF Valid, PriceInv, PeriodsOK
-----------------------------------------------------------------------------
Kinds == {Absent, "PHYSICAL", "SERVICE"}
Picks == UNION {[ds -> UNION {TraitOptions[d] : d \in Traits}] : ds \in SUBSET Traits}
CardType ==
  [kind : Kinds, active : BOOLEAN, mode : BOOLEAN, config : Configs, shelf : Shelves \cup {Absent}, number : Nat]
SkuType == [of : Articles \cup {Absent}, active : BOOLEAN, values : Picks]
PrintType == [of : Articles \cup {Absent}, sku : Skus \cup {Absent}]
StockType == [of : Articles \cup {Absent}, sku : Skus \cup {Absent}, late : BOOLEAN]
ArticleTypeOK ==
  /\ article \in [Articles -> CardType]
  /\ series \in Nat
  /\ sku \in [Skus -> SkuType]
  /\ barcode \in [Barcodes -> PrintType]
  /\ setting \in [of : Articles \cup {Absent}, mode : BOOLEAN, config : Configs]
  /\ posting \in StockType
  /\ stock \subseteq StockType
\* A variant picks one allowed option of each definition of its card.
SkusOK ==
  \A v \in Skus : sku[v].of # Absent =>
    Kept(sku[v].of) /\ sku[v].values \in allVariantSelections(article[sku[v].of].config)
SkusDiffer ==
  \A v, w \in Skus : sku[v].of # Absent /\ sku[v].of = sku[w].of /\ sku[v].values = sku[w].values => v = w
BarcodesOK ==
  \A b \in Barcodes :
    /\ barcode[b].of # Absent =>
         Kept(barcode[b].of) /\ (article[barcode[b].of].mode <=> barcode[b].sku # Absent)
    /\ barcode[b].sku # Absent => barcode[b].of # Absent /\ sku[barcode[b].sku].of = barcode[b].of
\* What was checked when the settings were begun still holds when they are saved.
SettingOK ==
  /\ setting.of = Absent => setting = NoSetting
  /\ setting.of # Absent =>
       /\ Kept(setting.of)
       /\ setting.config = article[setting.of].config \/ SkusOf(setting.of) = {}
       /\ setting.mode /\ ~ article[setting.of].mode => \A b \in Barcodes : barcode[b] # [of |-> setting.of, sku |-> Absent]
       /\ ~ setting.mode /\ article[setting.of].mode => SkusOf(setting.of) = {}
       /\ setting.mode # article[setting.of].mode => \A r \in stock : r.of # setting.of
Named(r) == r.of # Absent /\ Kept(r.of) /\ (article[r.of].mode => r.sku # Absent \/ r.late)
PostingOK ==
  /\ posting.of = Absent => posting = NoPosting
  /\ posting.of # Absent => Named(posting)
StockOK == \A r \in stock : Named(r)
ArticleInv == ArticleTypeOK /\ SkusOK /\ SkusDiffer /\ BarcodesOK /\ SettingOK /\ PostingOK /\ StockOK

LEMMA Nothing ==
  /\ Absent \notin Articles /\ Absent \notin Skus
  /\ NoArticle \in CardType /\ NoSku \in SkuType /\ Unprinted \in PrintType
  /\ NoSetting \in [of : Articles \cup {Absent}, mode : BOOLEAN, config : Configs] /\ NoPosting \in StockType
<1>1. NoConfig \in Configs
  <2>1. NoConfig \in [{} -> SUBSET (UNION {TraitOptions[d] : d \in Traits}) \ {{}}]
    BY DEF NoConfig
  <2> QED
    BY <2>1 DEF Configs
<1>2. NoConfig \in Picks
  <2>1. NoConfig \in [{} -> UNION {TraitOptions[d] : d \in Traits}]
    BY DEF NoConfig
  <2> QED
    BY <2>1 DEF Picks
<1> QED
  BY <1>1, <1>2 DEF Absent, NoArticle, NoSku, Unprinted, NoSetting, NoPosting, CardType, SkuType, PrintType, StockType, Kinds

LEMMA SelectionsArePicks ==
  ASSUME NEW c \in Configs
  PROVE  allVariantSelections(c) \subseteq Picks
<1> DEFINE O == UNION {TraitOptions[d] : d \in Traits}
<1>1. PICK ds \in SUBSET Traits : c \in [ds -> SUBSET O \ {{}}]
  BY DEF Configs
<1>2. DOMAIN c = ds /\ \A d \in ds : c[d] \subseteq O
  BY <1>1
<1>3. UNION {c[d] : d \in DOMAIN c} \subseteq O
  BY <1>2
<1>4. [ds -> UNION {c[d] : d \in DOMAIN c}] \subseteq [ds -> O]
  BY <1>3
<1> QED
  BY <1>2, <1>4 DEF allVariantSelections, Picks

LEMMA ArticleInvInit == ArticleInit => ArticleInv
<1> SUFFICES ASSUME ArticleInit PROVE ArticleInv
  OBVIOUS
<1>1. ArticleTypeOK
  BY Nothing DEF ArticleInit, ArticleTypeOK
<1>2. SkusOK /\ SkusDiffer
  BY DEF ArticleInit, SkusOK, SkusDiffer, NoSku
<1>3. BarcodesOK
  BY DEF ArticleInit, BarcodesOK, Unprinted
<1>4. SettingOK /\ PostingOK /\ StockOK
  BY DEF ArticleInit, SettingOK, PostingOK, StockOK, NoSetting, NoPosting
<1> QED
  BY <1>1, <1>2, <1>3, <1>4 DEF ArticleInv

\* The number that is handed out is a number.
LEMMA NextCodeExists ==
  ASSUME series \in Nat, \E n \in series .. MaxNumber : n \notin Numbers
  PROVE  nextCode \in Nat
<1> DEFINE S == {n \in series .. MaxNumber : n \notin Numbers}
<1>1. S \in SUBSET Nat /\ S # {}
  OBVIOUS
<1>2. PICK n \in S : \A m \in S : n <= m
  BY <1>1, LeastOf
<1>3. n \in series .. MaxNumber /\ n \notin Numbers /\ \A m \in series .. n - 1 : m \in Numbers
  BY <1>2
<1>4. nextCode \in series .. MaxNumber
  BY <1>3 DEF nextCode
<1> QED
  BY <1>4

\* Printing codes on a card without variants, or on a variant, of p.
LEMMA BarcodesPrinted ==
  ASSUME ArticleInv, NEW p \in Articles, NEW v \in Skus \cup {Absent}, NEW codes \in SUBSET Barcodes, Free(codes, p, v),
         barcode' = Printed(codes, p, v)
  PROVE  /\ barcode' \in [Barcodes -> PrintType]
         /\ \A b \in Barcodes :
              \/ barcode'[b] = [of |-> p, sku |-> v] /\ b \in codes
              \/ barcode'[b] = Unprinted
              \/ barcode'[b] = barcode[b] /\ barcode[b] # [of |-> p, sku |-> v]
<1>1. \A b \in Barcodes : barcode'[b] = IF b \in codes THEN [of |-> p, sku |-> v]
                        ELSE IF barcode[b] = [of |-> p, sku |-> v] THEN Unprinted ELSE barcode[b]
  BY DEF Printed
<1>2. [of |-> p, sku |-> v] \in PrintType
  BY DEF PrintType
<1>3. \A b \in Barcodes : barcode[b] \in PrintType
  BY DEF ArticleInv, ArticleTypeOK
<1> QED
  BY <1>1, <1>2, <1>3, Nothing DEF Printed

\* A card is registered or changed, and its codes with it.
LEMMA CardsMove ==
  ASSUME ArticleInv, article' \in [Articles -> CardType], series' \in Nat, NEW p \in Articles,
         Kept(p) => Unlocked(p),
         \A q \in Articles : Kept(q) => article'[q].kind # Absent /\ article'[q].mode = article[q].mode
                                        /\ article'[q].config = article[q].config,
         article'[p].kind # Absent,
         NEW codes \in SUBSET Barcodes, Free(codes, p, Absent), article'[p].mode => codes = {},
         barcode' = Printed(codes, p, Absent) \/ barcode' = barcode,
         UNCHANGED <<sku, setting, posting, stock>>
  PROVE  ArticleInv'
<1>0. /\ article \in [Articles -> CardType] /\ sku \in [Skus -> SkuType] /\ barcode \in [Barcodes -> PrintType]
      /\ setting \in [of : Articles \cup {Absent}, mode : BOOLEAN, config : Configs]
      /\ posting \in StockType /\ stock \subseteq StockType
  BY DEF ArticleInv, ArticleTypeOK
<1>1. /\ barcode' \in [Barcodes -> PrintType]
      /\ \A b \in Barcodes :
           \/ barcode'[b] = [of |-> p, sku |-> Absent] /\ ~ article'[p].mode
           \/ barcode'[b] = Unprinted
           \/ barcode'[b] = barcode[b]
  <2>1. CASE barcode' = barcode
    BY <1>0, <2>1
  <2>2. CASE barcode' = Printed(codes, p, Absent)
    BY <2>2, BarcodesPrinted
  <2> QED
    BY <2>1, <2>2
<1>2. ArticleTypeOK'
  BY <1>0, <1>1 DEF ArticleTypeOK
<1>3. SkusOK'
  BY <1>0 DEF ArticleInv, SkusOK, Kept, SkuType
<1>4. SkusDiffer'
  BY DEF ArticleInv, SkusDiffer
<1>5. BarcodesOK'
  <2>1. ASSUME NEW b \in Barcodes, barcode'[b].of # Absent
        PROVE  article'[barcode'[b].of].kind # Absent /\ (article'[barcode'[b].of].mode <=> barcode'[b].sku # Absent)
    <3>1. CASE barcode'[b] = [of |-> p, sku |-> Absent] /\ ~ article'[p].mode
      BY <3>1 DEF Kept
    <3>2. CASE barcode'[b] = Unprinted
      BY <2>1, <3>2 DEF Unprinted
    <3>3. CASE barcode'[b] = barcode[b]
      <4>1. barcode[b].of \in Articles
        BY <1>0, <2>1, <3>3 DEF PrintType
      <4> QED
        BY <2>1, <3>3, <4>1 DEF ArticleInv, BarcodesOK, Kept
    <3> QED
      BY <1>1, <3>1, <3>2, <3>3
  <2>2. ASSUME NEW b \in Barcodes, barcode'[b].sku # Absent
        PROVE  barcode'[b].of # Absent /\ sku'[barcode'[b].sku].of = barcode'[b].of
    BY <1>1, <2>2 DEF ArticleInv, BarcodesOK, Unprinted
  <2> QED
    BY <2>1, <2>2 DEF BarcodesOK, Kept, Absent
<1>6. SettingOK'
  <2>1. CASE setting.of = Absent
    BY <2>1 DEF ArticleInv, SettingOK, NoSetting, NoConfig, Absent
  <2>2. CASE setting.of # Absent
    <3>1. setting.of \in Articles /\ Kept(setting.of) /\ setting.of # p
      BY <1>0, <2>2 DEF ArticleInv, SettingOK, Unlocked
    <3>2. /\ article'[setting.of].kind # Absent /\ article'[setting.of].mode = article[setting.of].mode
          /\ article'[setting.of].config = article[setting.of].config
      BY <3>1
    <3>3. \A b \in Barcodes : barcode'[b] = [of |-> setting.of, sku |-> Absent] => barcode'[b] = barcode[b]
      BY <1>1, <2>2, <3>1 DEF Unprinted
    <3> QED
      BY <2>2, <3>1, <3>2, <3>3 DEF ArticleInv, SettingOK, Kept, SkusOf, Absent
  <2> QED
    BY <2>1, <2>2
<1>7. PostingOK' /\ StockOK'
  BY <1>0 DEF ArticleInv, PostingOK, StockOK, Named, Kept, StockType
<1> QED
  BY <1>2, <1>3, <1>4, <1>5, <1>6, <1>7 DEF ArticleInv

\* Variants of p are made or changed, and the codes of one of them.
LEMMA SkusMove ==
  ASSUME ArticleInv, NEW p \in Articles, Unlocked(p), Kept(p), article[p].mode, sku' \in [Skus -> SkuType],
         \A w \in Skus : sku[w].of # Absent => sku'[w].of = sku[w].of,
         \A w \in Skus : sku'[w].of # p => sku'[w] = sku[w],
         \A w \in Skus : sku'[w].of = p => sku'[w].values \in allVariantSelections(article[p].config),
         \A w, x \in Skus : sku'[w].of = p /\ sku'[x].of = p /\ sku'[w].values = sku'[x].values => w = x,
         NEW codes \in SUBSET Barcodes, NEW v \in Skus, sku'[v].of = p, Free(codes, p, v),
         barcode' = Printed(codes, p, v) \/ barcode' = barcode,
         UNCHANGED <<article, series, setting, posting, stock>>
  PROVE  ArticleInv'
<1>0. /\ article \in [Articles -> CardType] /\ sku \in [Skus -> SkuType] /\ barcode \in [Barcodes -> PrintType]
      /\ setting \in [of : Articles \cup {Absent}, mode : BOOLEAN, config : Configs]
      /\ posting \in StockType /\ stock \subseteq StockType
  BY DEF ArticleInv, ArticleTypeOK
<1>1. /\ barcode' \in [Barcodes -> PrintType]
      /\ \A b \in Barcodes :
           \/ barcode'[b] = [of |-> p, sku |-> v]
           \/ barcode'[b] = Unprinted
           \/ barcode'[b] = barcode[b]
  <2>1. CASE barcode' = barcode
    BY <1>0, <2>1
  <2>2. CASE barcode' = Printed(codes, p, v)
    BY <2>2, BarcodesPrinted
  <2> QED
    BY <2>1, <2>2
<1>2. ArticleTypeOK'
  BY <1>0, <1>1 DEF ArticleInv, ArticleTypeOK
<1>3. SkusOK'
  BY <1>0 DEF ArticleInv, SkusOK, Kept, SkuType
<1>4. SkusDiffer'
  <2>1. ASSUME NEW w \in Skus, NEW x \in Skus, sku'[w].of # Absent, sku'[w].of = sku'[x].of, sku'[w].values = sku'[x].values
        PROVE  w = x
    <3>1. CASE sku'[w].of = p
      BY <2>1, <3>1
    <3>2. CASE sku'[w].of # p
      BY <2>1, <3>2 DEF ArticleInv, SkusDiffer
    <3> QED
      BY <3>1, <3>2
  <2> QED
    BY <2>1 DEF SkusDiffer, Absent
<1>5. BarcodesOK'
  <2>1. ASSUME NEW b \in Barcodes, barcode'[b].of # Absent
        PROVE  article'[barcode'[b].of].kind # Absent /\ (article'[barcode'[b].of].mode <=> barcode'[b].sku # Absent)
    <3>1. CASE barcode'[b] = [of |-> p, sku |-> v]
      BY <3>1, Nothing DEF Kept
    <3>2. CASE barcode'[b] = Unprinted
      BY <2>1, <3>2 DEF Unprinted
    <3>3. CASE barcode'[b] = barcode[b]
      BY <2>1, <3>3 DEF ArticleInv, BarcodesOK, Kept
    <3> QED
      BY <1>1, <3>1, <3>2, <3>3
  <2>2. ASSUME NEW b \in Barcodes, barcode'[b].sku # Absent
        PROVE  barcode'[b].of # Absent /\ sku'[barcode'[b].sku].of = barcode'[b].of
    <3>1. CASE barcode'[b] = [of |-> p, sku |-> v]
      BY <3>1, Nothing
    <3>2. CASE barcode'[b] = Unprinted
      BY <2>2, <3>2 DEF Unprinted
    <3>3. CASE barcode'[b] = barcode[b]
      <4>1. barcode[b].sku \in Skus
        BY <1>0, <2>2, <3>3 DEF PrintType
      <4> QED
        BY <2>2, <3>3, <4>1 DEF ArticleInv, BarcodesOK
    <3> QED
      BY <1>1, <3>1, <3>2, <3>3
  <2> QED
    BY <2>1, <2>2 DEF BarcodesOK, Kept, Absent
<1>6. SettingOK'
  <2>1. CASE setting.of = Absent
    BY <2>1 DEF ArticleInv, SettingOK, NoSetting, NoConfig, Absent
  <2>2. CASE setting.of # Absent
    <3>1. setting.of \in Articles /\ Kept(setting.of) /\ setting.of # p
      BY <1>0, <2>2 DEF ArticleInv, SettingOK, Unlocked
    <3>2. \A b \in Barcodes : barcode'[b] = [of |-> setting.of, sku |-> Absent] => barcode'[b] = barcode[b]
      BY <1>1, <2>2, <3>1 DEF Unprinted
    <3>3. SkusOf(setting.of)' = SkusOf(setting.of)
      <4>1. \A w \in Skus : sku'[w].of = setting.of <=> sku[w].of = setting.of
        BY <2>2, <3>1
      <4> QED
        BY <4>1 DEF SkusOf
    <3> QED
      BY <2>2, <3>1, <3>2, <3>3 DEF ArticleInv, SettingOK, Kept, Absent
  <2> QED
    BY <2>1, <2>2
<1>7. PostingOK' /\ StockOK'
  BY <1>0 DEF ArticleInv, PostingOK, StockOK, Named, Kept, StockType
<1> QED
  BY <1>2, <1>3, <1>4, <1>5, <1>6, <1>7 DEF ArticleInv

LEMMA CardStepInv ==
  ASSUME ArticleInv, NEW p \in Articles, ArticleStep(p)
  PROVE  ArticleInv'
<1>0. article \in [Articles -> CardType] /\ series \in Nat
  BY DEF ArticleInv, ArticleTypeOK
<1>1. ASSUME NEW kind \in {"PHYSICAL", "SERVICE"}, NEW mode \in BOOLEAN, NEW codes \in SUBSET Barcodes,
             NEW s \in Shelves \cup {Absent}, NEW n \in 0 .. MaxNumber, CreateProduct(p, kind, mode, codes, s, n)
      PROVE  ArticleInv'
  <2> DEFINE code == IF n # 0 THEN n ELSE nextCode
             card == [kind |-> kind, active |-> TRUE, mode |-> mode, config |-> NoConfig, shelf |-> s, number |-> code]
  <2>1. code \in Nat /\ series' \in Nat
    BY <1>0, <1>1, NextCodeExists DEF CreateProduct
  <2> HIDE DEF code
  <2>2. card \in CardType
    BY <2>1, Nothing DEF CardType, Kinds, NoArticle
  <2>3. article' = [article EXCEPT ![p] = card]
    BY <1>1 DEF CreateProduct, code
  <2>4. card.kind # Absent /\ card.mode = mode
    BY DEF Absent
  <2> HIDE DEF card
  <2>5. article' \in [Articles -> CardType] /\ article'[p] = card /\ \A q \in Articles : q # p => article'[q] = article[q]
    BY <1>0, <2>2, <2>3
  <2>6. /\ ~ Kept(p) /\ (mode => codes = {}) /\ Free(codes, p, Absent) /\ barcode' = Printed(codes, p, Absent)
        /\ UNCHANGED <<sku, setting, posting, stock>>
    BY <1>1 DEF CreateProduct
  <2>7. \A q \in Articles : Kept(q) => article'[q].kind # Absent /\ article'[q].mode = article[q].mode
                                        /\ article'[q].config = article[q].config
    BY <2>5, <2>6 DEF Kept
  <2> QED
    BY <2>1, <2>4, <2>5, <2>6, <2>7, CardsMove
<1>2. ASSUME NEW kind \in {"PHYSICAL", "SERVICE"}, NEW codes \in SUBSET Barcodes, NEW s \in Shelves \cup {Absent},
             NEW n \in 1 .. MaxNumber, NEW active \in BOOLEAN, UpdateProduct(p, kind, codes, s, n, active)
      PROVE  ArticleInv'
  <2>1. article' = [article EXCEPT ![p].kind = kind, ![p].shelf = s, ![p].number = n, ![p].active = active]
    BY <1>2 DEF UpdateProduct
  <2>2. /\ article' \in [Articles -> CardType]
        /\ article'[p].kind = kind /\ article'[p].mode = article[p].mode /\ article'[p].config = article[p].config
        /\ \A q \in Articles : q # p => article'[q] = article[q]
    <3> DEFINE a1 == [article EXCEPT ![p].kind = kind]
               a2 == [a1 EXCEPT ![p].shelf = s]
               a3 == [a2 EXCEPT ![p].number = n]
               a4 == [a3 EXCEPT ![p].active = active]
               Keeps(a) == /\ a \in [Articles -> CardType] /\ a[p].kind = kind
                           /\ a[p].mode = article[p].mode /\ a[p].config = article[p].config
                           /\ \A q \in Articles : q # p => a[q] = article[q]
    <3>1. article' = a4
      BY <2>1
    <3>2. Keeps(a1)
      BY <1>0 DEF CardType, Kinds
    <3> HIDE DEF a1
    <3>3. Keeps(a2)
      BY <3>2 DEF CardType
    <3> HIDE DEF a2
    <3>4. Keeps(a3)
      BY <3>3 DEF CardType
    <3> HIDE DEF a3
    <3>5. Keeps(a4)
      BY <3>4 DEF CardType
    <3> HIDE DEF a4
    <3> QED
      BY <3>1, <3>5
  <2>3. /\ Kept(p) /\ Unlocked(p) /\ Free(codes, p, Absent) /\ (article[p].mode => codes = {})
        /\ barcode' = Printed(codes, p, Absent) /\ UNCHANGED <<series, sku, setting, posting, stock>>
    BY <1>2 DEF UpdateProduct
  <2>4. /\ kind # Absent
        /\ \A q \in Articles : Kept(q) => article'[q].kind # Absent /\ article'[q].mode = article[q].mode
                                        /\ article'[q].config = article[q].config
    BY <2>2 DEF Kept, Absent
  <2> QED
    BY <1>0, <2>2, <2>3, <2>4, CardsMove
<1>3. CASE DeactivateProduct(p)
  <2>1. article' = [article EXCEPT ![p].active = FALSE] /\ article[p].active /\ Unlocked(p)
        /\ UNCHANGED <<series, barcode, sku, setting, posting, stock>>
    BY <1>3 DEF DeactivateProduct
  <2>2. /\ article' \in [Articles -> CardType]
        /\ \A q \in Articles : /\ article'[q].kind = article[q].kind /\ article'[q].mode = article[q].mode
                               /\ article'[q].config = article[q].config
    BY <1>0, <2>1 DEF CardType
  <2>3. CASE Kept(p)
    <3>1. Free({}, p, Absent)
      BY DEF Free
    <3> QED
      BY <1>0, <2>1, <2>2, <2>3, <3>1, CardsMove DEF Kept
  <2>4. CASE ~ Kept(p)
    <3>1. ArticleTypeOK'
      BY <2>1, <2>2 DEF ArticleInv, ArticleTypeOK
    <3> QED
      BY <2>1, <2>2, <3>1 DEF ArticleInv, ArticleTypeOK, SkusOK, SkusDiffer, BarcodesOK, SettingOK, PostingOK, StockOK, Named, Kept,
         SkusOf, SkuType, PrintType, StockType
  <2> QED
    BY <2>3, <2>4
<1>4. ASSUME NEW s \in Shelves, NEW active \in BOOLEAN, setReferenceActive(s, active) PROVE ArticleInv'
  BY <1>4 DEF setReferenceActive, ArticleInv, ArticleTypeOK, SkusOK, SkusDiffer, BarcodesOK, SettingOK, PostingOK, StockOK, Named, Kept, SkusOf
<1> QED
  BY <1>1, <1>2, <1>3, <1>4 DEF ArticleStep

LEMMA ArticleFrame ==
  ASSUME ArticleInv, UNCHANGED <<article, series, sku, barcode, setting, posting, stock>>
  PROVE  ArticleInv'
BY DEF ArticleInv, ArticleTypeOK, SkusOK, SkusDiffer, BarcodesOK, SettingOK, PostingOK, StockOK, Named, Kept, SkusOf

LEMMA TraitStepInv ==
  ASSUME ArticleInv, NEW d \in Traits, TraitStep(d) \/ SwitchStep(d)
  PROVE  ArticleInv'
BY ArticleFrame DEF TraitStep, SwitchStep, CreateVariantDefinition, CreateVariantOption,
   SetVariantDefinitionActive, SetVariantOptionActive

LEMMA SettingStepInv ==
  ASSUME ArticleInv, NEW p \in Articles, SettingStep(p)
  PROVE  ArticleInv'
<1>0. /\ article \in [Articles -> CardType] /\ series \in Nat /\ sku \in [Skus -> SkuType]
      /\ barcode \in [Barcodes -> PrintType]
      /\ setting \in [of : Articles \cup {Absent}, mode : BOOLEAN, config : Configs]
      /\ posting \in StockType /\ stock \subseteq StockType
  BY DEF ArticleInv, ArticleTypeOK
<1>1. ASSUME NEW mode \in BOOLEAN, NEW given \in BOOLEAN, NEW c \in Configs, BeginVariantConfig(p, mode, c, given)
      PROVE  ArticleInv'
  <2> DEFINE config == IF given THEN c ELSE article[p].config
  <2>1. /\ setting' = [of |-> p, mode |-> mode, config |-> config] /\ Kept(p)
        /\ (mode /\ ~ article[p].mode => \A b \in Barcodes : barcode[b] # [of |-> p, sku |-> Absent])
        /\ guardVariantMode(p, mode)
        /\ UNCHANGED <<article, series, sku, barcode, posting, stock>>
    BY <1>1 DEF BeginVariantConfig
  <2>2. config = article[p].config \/ SkusOf(p) = {}
    BY <1>1 DEF BeginVariantConfig, validateAndReplaceProductVariantConfig
  <2>3. config \in Configs
    BY <1>0 DEF CardType
  <2> HIDE DEF config
  <2>4. setting'.of = p /\ setting'.mode = mode /\ setting'.config = config /\ p # Absent
    BY <2>1, Nothing
  <2>5. SettingOK'
    <3>1. mode # article[p].mode => (\A r \in stock : r.of # p) /\ (~ mode => SkusOf(p) = {})
      BY <2>1 DEF guardVariantMode
    <3>2. article[p].mode \in BOOLEAN
      BY <1>0 DEF CardType
    <3> QED
      BY <2>1, <2>2, <2>4, <3>1, <3>2 DEF SettingOK, Kept, SkusOf, Absent
  <2>6. ArticleTypeOK'
    BY <1>0, <2>1, <2>3 DEF ArticleTypeOK
  <2> QED
    BY <2>1, <2>5, <2>6 DEF ArticleInv, SkusOK, SkusDiffer, BarcodesOK, PostingOK, StockOK, Named, Kept
<1>2. CASE UpdateVariantConfig
  <2> DEFINE q == setting.of
  <2>1. q \in Articles /\ q # Absent
    BY <1>0, <1>2 DEF UpdateVariantConfig, ArticleInv, SettingOK
  <2>2. /\ Kept(q) /\ (setting.config = article[q].config \/ SkusOf(q) = {})
        /\ (setting.mode /\ ~ article[q].mode => \A b \in Barcodes : barcode[b] # [of |-> q, sku |-> Absent])
        /\ (~ setting.mode /\ article[q].mode => SkusOf(q) = {})
        /\ (setting.mode # article[q].mode => \A r \in stock : r.of # q)
    BY <2>1 DEF ArticleInv, SettingOK
  <2>3. /\ article' = [article EXCEPT ![q].mode = setting.mode, ![q].config = setting.config]
        /\ setting' = NoSetting
        /\ posting' = [posting EXCEPT !.late = @ \/ (posting.of = q /\ setting.mode # article[q].mode)]
        /\ UNCHANGED <<series, sku, barcode, stock>>
    BY <1>2 DEF UpdateVariantConfig
  <2>4. /\ article' \in [Articles -> CardType]
        /\ article'[q].mode = setting.mode /\ article'[q].config = setting.config /\ article'[q].kind = article[q].kind
        /\ \A r \in Articles : r # q => article'[r] = article[r]
    <3> DEFINE a1 == [article EXCEPT ![q].mode = setting.mode]
               a2 == [a1 EXCEPT ![q].config = setting.config]
    <3>1. article' = a2
      BY <2>3
    <3>2. setting.mode \in BOOLEAN /\ setting.config \in Configs
      BY <1>0
    <3>3. /\ a1 \in [Articles -> CardType] /\ a1[q].mode = setting.mode /\ a1[q].kind = article[q].kind
          /\ \A r \in Articles : r # q => a1[r] = article[r]
      BY <1>0, <2>1, <3>2 DEF CardType
    <3> HIDE DEF a1
    <3>4. /\ a2 \in [Articles -> CardType] /\ a2[q].mode = setting.mode /\ a2[q].kind = article[q].kind
          /\ a2[q].config = setting.config
          /\ \A r \in Articles : r # q => a2[r] = article[r]
      BY <2>1, <3>2, <3>3 DEF CardType
    <3> HIDE DEF a2
    <3> QED
      BY <3>1, <3>4
  <2>5. /\ posting' \in StockType /\ posting'.of = posting.of /\ posting'.sku = posting.sku
        /\ posting'.late = (posting.late \/ (posting.of = q /\ setting.mode # article[q].mode))
    BY <1>0, <2>3 DEF StockType
  <2> HIDE DEF q
  <2>6. setting.mode \in BOOLEAN /\ article[q].mode \in BOOLEAN
    BY <1>0, <2>1 DEF CardType
  <2>7. ArticleTypeOK'
    BY <1>0, <2>3, <2>4, <2>5, Nothing DEF ArticleTypeOK
  <2>8. SkusOK'
    <3>1. ASSUME NEW v \in Skus, sku[v].of # Absent
          PROVE  article'[sku[v].of].kind # Absent /\ sku[v].values \in allVariantSelections(article'[sku[v].of].config)
      <4>1. sku[v].of \in Articles /\ Kept(sku[v].of) /\ sku[v].values \in allVariantSelections(article[sku[v].of].config)
        BY <1>0, <3>1 DEF ArticleInv, SkusOK, SkuType
      <4>2. CASE sku[v].of # q
        BY <2>4, <4>1, <4>2 DEF Kept
      <4>3. CASE sku[v].of = q
        <5>1. SkusOf(q) # {}
          BY <4>3 DEF SkusOf
        <5> QED
          BY <2>2, <2>4, <4>1, <4>3, <5>1 DEF Kept
      <4> QED
        BY <4>2, <4>3
    <3> QED
      BY <2>3, <3>1 DEF SkusOK, Kept, Absent
  <2>9. SkusDiffer'
    BY <2>3 DEF ArticleInv, SkusDiffer
  <2>10. BarcodesOK'
    <3>1. ASSUME NEW b \in Barcodes, barcode[b].of # Absent
          PROVE  article'[barcode[b].of].kind # Absent /\ (article'[barcode[b].of].mode <=> barcode[b].sku # Absent)
      <4>1. /\ barcode[b].of \in Articles /\ Kept(barcode[b].of) /\ (article[barcode[b].of].mode <=> barcode[b].sku # Absent)
            /\ barcode[b] = [of |-> barcode[b].of, sku |-> barcode[b].sku] /\ barcode[b].sku \in Skus \cup {Absent}
        BY <1>0, <3>1 DEF ArticleInv, BarcodesOK, PrintType
      <4>2. CASE barcode[b].of # q
        BY <2>4, <4>1, <4>2 DEF Kept
      <4>3. CASE barcode[b].of = q
        <5>1. setting.mode /\ ~ article[q].mode => FALSE
          BY <2>2, <4>1, <4>3
        <5>2. ~ setting.mode /\ article[q].mode => FALSE
          <6>1. ASSUME ~ setting.mode, article[q].mode PROVE FALSE
            <7>1. barcode[b].sku \in Skus /\ sku[barcode[b].sku].of = q
              BY <4>1, <4>3, <6>1 DEF ArticleInv, BarcodesOK
            <7> QED
              BY <2>2, <6>1, <7>1 DEF SkusOf
          <6> QED
            BY <6>1
        <5> QED
          BY <2>4, <2>6, <4>1, <4>3, <5>1, <5>2 DEF Kept
      <4> QED
        BY <4>2, <4>3
    <3>2. ASSUME NEW b \in Barcodes, barcode[b].sku # Absent
          PROVE  barcode[b].of # Absent /\ sku[barcode[b].sku].of = barcode[b].of
      BY <3>2 DEF ArticleInv, BarcodesOK
    <3> QED
      BY <2>3, <3>1, <3>2 DEF BarcodesOK, Kept, Absent
  <2>11. SettingOK'
    BY <2>3 DEF SettingOK, NoSetting, NoConfig, Absent
  <2>12. PostingOK'
    <3>1. CASE posting.of = Absent
      <4>1. posting = NoPosting /\ posting.late = FALSE /\ q # posting.of
        BY <2>1, <3>1 DEF ArticleInv, PostingOK, NoPosting
      <4>2. posting' = posting
        BY <1>0, <2>3, <2>5, <4>1 DEF StockType, NoPosting
      <4> QED
        BY <3>1, <4>1, <4>2 DEF PostingOK, NoPosting, Absent
    <3>2. CASE posting.of # Absent
      <4>1. posting.of \in Articles /\ Named(posting)
        BY <1>0, <3>2 DEF ArticleInv, PostingOK, StockType
      <4>2. /\ posting'.of # Absent /\ article'[posting'.of].kind # Absent
            /\ (article'[posting'.of].mode => posting'.sku # Absent \/ posting'.late)
        BY <2>4, <2>5, <2>6, <3>2, <4>1 DEF Named, Kept
      <4> QED
        BY <4>2 DEF PostingOK, Named, Kept, Absent
    <3> QED
      BY <3>1, <3>2
  <2>13. StockOK'
    <3>1. ASSUME NEW r \in stock
          PROVE  r.of # Absent /\ article'[r.of].kind # Absent /\ (article'[r.of].mode => r.sku # Absent \/ r.late)
      <4>1. r.of \in Articles /\ Named(r)
        BY <1>0, <3>1 DEF ArticleInv, StockOK, Named, StockType
      <4> QED
        BY <2>2, <2>4, <2>6, <3>1, <4>1 DEF Named, Kept
    <3> QED
      BY <2>3, <3>1 DEF StockOK, Named, Kept, Absent
  <2> QED
    BY <2>7, <2>8, <2>9, <2>10, <2>11, <2>12, <2>13 DEF ArticleInv
<1> QED
  BY <1>1, <1>2 DEF SettingStep

LEMMA VariantStepInv ==
  ASSUME ArticleInv, NEW p \in Articles, VariantStep(p)
  PROVE  ArticleInv'
<1>0. /\ article \in [Articles -> CardType] /\ sku \in [Skus -> SkuType] /\ barcode \in [Barcodes -> PrintType]
      /\ posting \in StockType /\ stock \subseteq StockType /\ p # Absent
  BY Nothing DEF ArticleInv, ArticleTypeOK
<1>a. lockVariantProduct(p) => Unlocked(p) /\ Kept(p) /\ article[p].mode
  BY DEF lockVariantProduct, Kept, Absent
<1>b. allVariantSelections(article[p].config) \subseteq Picks
  BY <1>0, SelectionsArePicks DEF CardType
<1>c. \A v \in Skus : sku[v].of = p => sku[v].values \in allVariantSelections(article[p].config)
  BY <1>0 DEF ArticleInv, SkusOK
<1>d. \A v, w \in Skus : sku[v].of = p /\ sku[w].of = p /\ sku[v].values = sku[w].values => v = w
  BY <1>0 DEF ArticleInv, SkusDiffer
<1>1. CASE GenerateVariants(p)
  <2> DEFINE c == article[p].config
             missing == {f \in allVariantSelections(c) : WithValues(p, f) = {}}
  <2>1. /\ lockVariantProduct(p)
        /\ \E new \in [missing -> {v \in Skus : sku[v] = NoSku}] :
               /\ \A f, g \in missing : new[f] = new[g] => f = g
               /\ sku' = [v \in Skus |->
                      IF \E f \in missing : new[f] = v
                      THEN [of |-> p, active |-> TRUE, values |-> CHOOSE f \in missing : new[f] = v]
                      ELSE sku[v]]
        /\ UNCHANGED <<article, series, barcode, setting, posting, stock>>
    BY <1>1 DEF GenerateVariants
  <2> HIDE DEF missing
  <2>2. PICK new \in [missing -> {v \in Skus : sku[v] = NoSku}] :
               /\ \A f, g \in missing : new[f] = new[g] => f = g
               /\ sku' = [v \in Skus |->
                      IF \E f \in missing : new[f] = v
                      THEN [of |-> p, active |-> TRUE, values |-> CHOOSE f \in missing : new[f] = v]
                      ELSE sku[v]]
    BY <2>1
  <2>3. \A f \in missing : f \in allVariantSelections(c) /\ f \in Picks /\ WithValues(p, f) = {}
    BY <1>b DEF missing
  <2>4. ASSUME NEW f \in missing
        PROVE  /\ new[f] \in Skus /\ sku[new[f]] = NoSku
               /\ sku'[new[f]] \in SkuType /\ sku'[new[f]].of = p /\ sku'[new[f]].values = f
    <3>1. new[f] \in Skus /\ sku[new[f]] = NoSku
      BY <2>2
    <3>2. (CHOOSE g \in missing : new[g] = new[f]) = f
      BY <2>2
    <3>3. sku'[new[f]] = [of |-> p, active |-> TRUE, values |-> f]
      BY <2>2, <3>1, <3>2
    <3> QED
      BY <2>3, <3>1, <3>3 DEF SkuType
  <2>5. ASSUME NEW v \in Skus, ~ \E f \in missing : new[f] = v
        PROVE  sku'[v] = sku[v]
    BY <2>2, <2>5
  <2>6. sku' \in [Skus -> SkuType]
    <3>1. ASSUME NEW v \in Skus PROVE sku'[v] \in SkuType
      <4>1. CASE \E f \in missing : new[f] = v
        BY <2>4, <4>1
      <4>2. CASE ~ \E f \in missing : new[f] = v
        BY <1>0, <2>5, <4>2
      <4> QED
        BY <4>1, <4>2
    <3> QED
      BY <2>2, <3>1
  <2>7. \A w \in Skus : sku[w].of # Absent => sku'[w] = sku[w]
    BY <2>4, <2>5 DEF NoSku
  <2>8. \A w \in Skus : sku'[w].of # p => sku'[w] = sku[w]
    BY <2>4, <2>5
  <2>9. \A w \in Skus : sku'[w].of = p => \/ (sku[w].of = p /\ sku'[w] = sku[w])
                                          \/ \E f \in missing : new[f] = w /\ sku'[w].values = f
    BY <2>4, <2>5
  <2>10. \A w \in Skus : sku'[w].of = p => sku'[w].values \in allVariantSelections(c)
    BY <1>c, <2>3, <2>9
  <2>11. ASSUME NEW w \in Skus, NEW x \in Skus, sku'[w].of = p, sku'[x].of = p, sku'[w].values = sku'[x].values
         PROVE  w = x
    <3>1. \A y \in Skus, f \in missing : sku[y].of = p => sku[y].values # f
      BY <2>3 DEF WithValues, SkusOf
    <3> QED
      BY <1>d, <2>9, <2>11, <3>1
  <2>12. CASE missing = {}
    <3>1. sku' = sku
      BY <1>0, <2>2, <2>12
    <3> QED
      BY <2>1, <3>1, ArticleFrame
  <2>13. CASE missing # {}
    <3>1. PICK f \in missing : TRUE
      BY <2>13
    <3>2. Free({}, p, new[f])
      BY DEF Free
    <3>3. new[f] \in Skus /\ sku'[new[f]].of = p
      BY <2>4, <3>1
    <3>4. \A w, x \in Skus : sku'[w].of = p /\ sku'[x].of = p /\ sku'[w].values = sku'[x].values => w = x
      BY <2>11
    <3>5. Unlocked(p) /\ Kept(p) /\ article[p].mode /\ {} \in SUBSET Barcodes
      BY <1>a, <2>1
    <3>6. barcode' = barcode /\ UNCHANGED <<article, series, setting, posting, stock>>
      BY <2>1
    <3>7. \A w \in Skus : sku[w].of # Absent => sku'[w].of = sku[w].of
      BY <2>7
    <3> DEFINE v == new[f]
    <3> HIDE DEF v
    <3>8. v \in Skus /\ sku'[v].of = p /\ Free({}, p, v)
      BY <3>2, <3>3 DEF v
    <3> QED
      BY <2>6, <2>8, <2>10, <3>4, <3>5, <3>6, <3>7, <3>8, SkusMove
  <2> QED
    BY <2>12, <2>13
<1>2. ASSUME NEW v \in Skus, NEW codes \in SUBSET Barcodes, NEW f \in allVariantSelections(article[p].config), NEW active \in BOOLEAN,
             CreateVariant(p, v, f, codes, active)
      PROVE  ArticleInv'
  <2>1. /\ lockVariantProduct(p) /\ sku[v] = NoSku /\ WithValues(p, f) = {} /\ Free(codes, p, v)
        /\ sku' = [sku EXCEPT ![v] = [of |-> p, active |-> active, values |-> f]]
        /\ barcode' = Printed(codes, p, v)
        /\ UNCHANGED <<article, series, setting, posting, stock>>
    BY <1>2 DEF CreateVariant
  <2>2. /\ sku'[v] = [of |-> p, active |-> active, values |-> f] /\ \A w \in Skus : w # v => sku'[w] = sku[w]
        /\ sku' \in [Skus -> SkuType]
    BY <1>0, <1>b, <2>1 DEF SkuType
  <2>3. \A w \in Skus : sku[w].of = p => sku[w].values # f
    BY <2>1 DEF WithValues, SkusOf
  <2>4. \A w \in Skus : sku[w].of # Absent => sku'[w].of = sku[w].of
    BY <2>1, <2>2 DEF NoSku
  <2>5. \A w \in Skus : sku'[w].of = p => sku'[w].values \in allVariantSelections(article[p].config)
    BY <1>c, <2>2
  <2>6. \A w, x \in Skus : sku'[w].of = p /\ sku'[x].of = p /\ sku'[w].values = sku'[x].values => w = x
    BY <1>d, <2>2, <2>3
  <2>7. \A w \in Skus : sku'[w].of # p => sku'[w] = sku[w]
    BY <2>2
  <2> QED
    BY <1>a, <2>1, <2>2, <2>4, <2>5, <2>6, <2>7, SkusMove
<1>3. ASSUME NEW v \in Skus, NEW codes \in SUBSET Barcodes, NEW f \in allVariantSelections(article[p].config), NEW active \in BOOLEAN,
             UpdateVariant(p, v, f, codes, active)
      PROVE  ArticleInv'
  <2>1. /\ lockVariantProduct(p) /\ sku[v].of = p /\ Free(codes, p, v)
        /\ (f # sku[v].values => WithValues(p, f) = {})
        /\ sku' = [sku EXCEPT ![v].values = f, ![v].active = active]
        /\ barcode' = Printed(codes, p, v)
        /\ UNCHANGED <<article, series, setting, posting, stock>>
    BY <1>3 DEF UpdateVariant
  <2>2. /\ sku' \in [Skus -> SkuType] /\ sku'[v].of = p /\ sku'[v].values = f
        /\ \A w \in Skus : w # v => sku'[w] = sku[w]
    <3> DEFINE s1 == [sku EXCEPT ![v].values = f]
    <3>1. sku' = [s1 EXCEPT ![v].active = active]
      BY <2>1
    <3>2. /\ s1 \in [Skus -> SkuType] /\ s1[v].of = p /\ s1[v].values = f
          /\ \A w \in Skus : w # v => s1[w] = sku[w]
      BY <1>0, <1>b, <2>1 DEF SkuType
    <3> HIDE DEF s1
    <3> QED
      BY <3>1, <3>2 DEF SkuType
  <2>3. \A w \in Skus : sku[w].of = p /\ w # v => sku[w].values # f
    <3>1. CASE f = sku[v].values
      BY <1>d, <2>1, <3>1
    <3>2. CASE f # sku[v].values
      BY <2>1, <3>2 DEF WithValues, SkusOf
    <3> QED
      BY <3>1, <3>2
  <2>4. \A w \in Skus : sku[w].of # Absent => sku'[w].of = sku[w].of
    BY <2>1, <2>2
  <2>5. \A w \in Skus : sku'[w].of = p => sku'[w].values \in allVariantSelections(article[p].config)
    BY <1>c, <2>2
  <2>6. \A w, x \in Skus : sku'[w].of = p /\ sku'[x].of = p /\ sku'[w].values = sku'[x].values => w = x
    BY <1>d, <2>2, <2>3
  <2>7. \A w \in Skus : sku'[w].of # p => sku'[w] = sku[w]
    BY <2>2
  <2> QED
    BY <1>a, <2>1, <2>2, <2>4, <2>5, <2>6, <2>7, SkusMove
<1>4. ASSUME NEW v \in Skus, NEW codes \in SUBSET Barcodes, ReplaceVariantBarcodes(p, v, codes) PROVE ArticleInv'
  <2>1. /\ lockVariantProduct(p) /\ sku[v].of = p /\ Free(codes, p, v) /\ barcode' = Printed(codes, p, v)
        /\ UNCHANGED <<article, series, sku, setting, posting, stock>>
    BY <1>4 DEF ReplaceVariantBarcodes
  <2> QED
    BY <1>0, <1>a, <1>c, <1>d, <2>1, SkusMove
<1>5. ASSUME NEW v \in Skus, DeactivateVariant(v) PROVE ArticleInv'
  <2>1. /\ sku' = [sku EXCEPT ![v].active = FALSE]
        /\ UNCHANGED <<article, series, barcode, setting, posting, stock>>
    BY <1>5 DEF DeactivateVariant
  <2>2. sku' \in [Skus -> SkuType] /\ \A w \in Skus : sku'[w].of = sku[w].of /\ sku'[w].values = sku[w].values
    BY <1>0, <2>1 DEF SkuType
  <2>3. ArticleTypeOK'
    BY <2>1, <2>2 DEF ArticleInv, ArticleTypeOK
  <2>4. SkusOK' /\ SkusDiffer'
    BY <2>1, <2>2 DEF ArticleInv, SkusOK, SkusDiffer, Kept
  <2>5. BarcodesOK'
    <3>1. \A b \in Barcodes : barcode[b].sku # Absent => barcode[b].sku \in Skus
      BY <1>0 DEF PrintType
    <3> QED
      BY <2>1, <2>2, <3>1 DEF ArticleInv, BarcodesOK, Kept
  <2>6. SettingOK'
    <3>1. SkusOf(setting.of)' = SkusOf(setting.of)
      BY <2>1, <2>2 DEF SkusOf
    <3> QED
      BY <2>1, <3>1 DEF ArticleInv, SettingOK, Kept
  <2>7. PostingOK' /\ StockOK'
    BY <2>1 DEF ArticleInv, PostingOK, StockOK, Named, Kept
  <2> QED
    BY <2>3, <2>4, <2>5, <2>6, <2>7 DEF ArticleInv
<1>6. ASSUME NEW v \in Skus \cup {Absent}, BeginStockRow(p, v) PROVE ArticleInv'
  <2>1. /\ posting' = [of |-> p, sku |-> v, late |-> FALSE] /\ validateInventoryVariant(p, v)
        /\ UNCHANGED <<article, series, sku, barcode, setting, stock>>
    BY <1>6 DEF BeginStockRow
  <2>2. posting' \in StockType /\ posting'.of = p /\ posting'.sku = v
    BY <2>1 DEF StockType
  <2>3. article[p].kind # Absent /\ (article[p].mode => v # Absent)
    BY <2>1 DEF validateInventoryVariant, Absent
  <2>4. PostingOK'
    BY <1>0, <2>1, <2>2, <2>3 DEF PostingOK, Named, Kept, Absent
  <2>5. ArticleTypeOK'
    BY <2>1, <2>2 DEF ArticleInv, ArticleTypeOK
  <2> QED
    BY <2>1, <2>4, <2>5 DEF ArticleInv, SkusOK, SkusDiffer, BarcodesOK, SettingOK, StockOK, Named, Kept, SkusOf
<1>7. CASE WriteStockRow
  <2>1. /\ stock' = stock \cup {posting} /\ posting' = NoPosting /\ posting # NoPosting /\ setting.of # posting.of
        /\ UNCHANGED <<article, series, sku, barcode, setting>>
    BY <1>7 DEF WriteStockRow, Unlocked
  <2>2. Named(posting)
    BY <2>1 DEF ArticleInv, PostingOK
  <2>3. PostingOK'
    BY <2>1 DEF PostingOK, NoPosting, Absent
  <2>4. StockOK'
    BY <2>1, <2>2 DEF ArticleInv, StockOK, Named, Kept
  <2>5. SettingOK'
    BY <2>1 DEF ArticleInv, SettingOK, Kept, SkusOf
  <2>6. ArticleTypeOK'
    BY <1>0, <2>1, Nothing DEF ArticleInv, ArticleTypeOK
  <2> QED
    BY <2>1, <2>3, <2>4, <2>5, <2>6 DEF ArticleInv, SkusOK, SkusDiffer, BarcodesOK, Kept
<1> QED
  BY <1>1, <1>2, <1>3, <1>4, <1>5, <1>6, <1>7 DEF VariantStep

LEMMA ArticleInvNext == ArticleInv /\ [ArticleNext]_articleVars => ArticleInv'
<1>1. ArticleInv /\ UNCHANGED articleVars => ArticleInv'
  BY ArticleFrame DEF articleVars
<1> QED
  BY <1>1, CardStepInv, TraitStepInv, SettingStepInv, VariantStepInv DEF ArticleNext

LEMMA VariantsFit == ArticleInv => VariantsFitTheCard
<1> SUFFICES ASSUME ArticleInv PROVE VariantsFitTheCard
  OBVIOUS
<1>1. ASSUME NEW v \in Skus, sku[v].of # Absent
      PROVE  /\ sku[v].values \in allVariantSelections(article[sku[v].of].config)
             /\ WithValues(sku[v].of, sku[v].values) = {v}
  BY <1>1 DEF ArticleInv, SkusOK, SkusDiffer, WithValues, SkusOf
<1>2. ASSUME NEW b \in Barcodes, ResolveBarcode(b).of # Absent
      PROVE  article[ResolveBarcode(b).of].mode <=> ResolveBarcode(b).sku # Absent
  BY <1>2 DEF ArticleInv, BarcodesOK, ResolveBarcode
<1>3. \A r \in stock : article[r.of].mode /\ article[r.of].kind = "PHYSICAL" => r.sku # Absent \/ r.late
  BY DEF ArticleInv, StockOK, Named
<1> QED
  BY <1>1, <1>2, <1>3 DEF VariantsFitTheCard

\* Whatever several people do to the cards, prices and rates at once, a card's variants
\* fit it and a day has one value (UpdateProduct, GenerateVariants, CreatePriceEntry, CreateRate).
THEOREM CatalogueStaysCoherent == CatalogueSpec => []CatalogueIsCoherent
<1>1. ArticleInv /\ PriceInv /\ TaxInv => CatalogueIsCoherent
  <2> SUFFICES ASSUME ArticleInv, PriceInv, TaxInv PROVE CatalogueIsCoherent
    OBVIOUS
  <2>1. \A e \in Entries : entry[e] # NoEntry => entry[e].in = tariff[entry[e].on].currency
    BY DEF PriceInv, TariffsOK
  <2> QED
    BY <2>1, VariantsFit, OnePrice, OneRateADay DEF CatalogueIsCoherent, OneValuePerDay
<1> QED
  BY <1>1, ArticleInvInit, ArticleInvNext, PriceInvInit, PriceInvNext, TaxInvInit, TaxInvNext, PTL DEF CatalogueSpec

HIDE CatalogueAssumption

-----------------------------------------------------------------------------
(* Imports.  A posting is keyed by the job and the row, and the rows are       *)
(* applied in one transaction: what a file's rows do to the catalogue is       *)
(* followed row by row.  Whoever still holds the claim of a job goes by the    *)
(* mapping its caller confirmed, and whoever takes a claim over marks the      *)
(* former holder as one that lost it.                                          *)

USE ImportsAssumption

RowStamps == {<<x, n>> : x \in Jobs \cup {Nil, "hand"}, n \in 0 .. 2}
KeptType ==
  [id : RowStamps, text : RowStamps,
   kind : {Nil, "PHYSICAL", "SERVICE", "VARIANTS", "x", "y", "open", "closed", "PERSON", "ORGANIZATION"}]
BarType == [of : RowCodes \cup {Nil}, variant : BOOLEAN, primary : BOOLEAN]
PostedType ==
  [times : Nat, key : RowCodes \cup {Nil}, quantity : Nat, by : {Actor[r] : r \in Requests} \cup {Nil},
   confirmed : Columns \cup {Nil}, lost : BOOLEAN]
ShopType ==
  [card : [RowCodes -> KeptType], sku : [RowCodes -> KeptType], house : [RowCodes -> KeptType],
   party : [RowCodes -> KeptType], number : [RowCodes -> Marks \cup {NoMark}], bar : [Marks -> BarType],
   price : [RowCodes -> SUBSET RowStamps], posted : [Jobs \X RowNumbers -> PostedType]]
RowType == [key : RowCodes, mark : Marks \cup {NoMark}]
CallType ==
  [job : Jobs \cup {Nil}, confirmed : Columns \cup {Nil}, columns : Columns \cup {Nil}, prices : SUBSET RowNumbers,
   at : {Nil, "claimed", "read", "checked", "applied"}, lost : BOOLEAN, allow : BOOLEAN]

\* What a row did: records stay where they are, and at most the row's own stock is opened.
Opened(d, e, j, n, k, quantity, call, by) ==
  /\ d.posted[<<j, n>>].times = 0 /\ Known(e.card[k])
  /\ e.posted = [d.posted EXCEPT ![<<j, n>>] =
       [times |-> 1, key |-> k, quantity |-> quantity, by |-> by, confirmed |-> call.confirmed, lost |-> call.lost]]
CardsStay(d, e) == \A k \in RowCodes : Known(d.card[k]) => Known(e.card[k]) /\ e.card[k].id = d.card[k].id
SameBooks(d, e) == e \in ShopType /\ e.card = d.card /\ e.posted = d.posted

LEMMA RowStampsExist ==
  /\ \A j \in Jobs, n \in RowNumbers : stableImportID(j, n) \in RowStamps
  /\ ByHand \in RowStamps /\ <<Nil, 0>> \in RowStamps /\ NoneKept \in KeptType
BY DEF RowStamps, stableImportID, RowNumbers, ByHand, NoneKept, KeptType, Nil

LEMMA Tagged ==
  ASSUME NEW d \in ShopType, NEW b \in Marks \cup {NoMark}, NEW k \in RowCodes, NEW variant \in BOOLEAN,
         NEW e \in Tag(d, b, k, variant)
  PROVE  SameBooks(d, e)
<1> DEFINE bars == [c \in Marks |->
        IF c = b THEN [of |-> k, variant |-> variant, primary |-> TRUE]
        ELSE IF d.bar[c].of = k /\ d.bar[c].variant = variant THEN [d.bar[c] EXCEPT !.primary = FALSE]
        ELSE d.bar[c]]
<1>1. bars \in [Marks -> BarType]
  <2>1. \A c \in Marks : d.bar[c] \in BarType
    BY DEF ShopType
  <2>2. \A c \in Marks : [d.bar[c] EXCEPT !.primary = FALSE] \in BarType
    BY <2>1 DEF BarType
  <2>3. [of |-> k, variant |-> variant, primary |-> TRUE] \in BarType
    BY DEF BarType
  <2> QED
    BY <2>1, <2>2, <2>3
<1>2. e = d \/ e = [d EXCEPT !.bar = bars]
  BY DEF Tag
<1> HIDE DEF bars
<1> QED
  BY <1>1, <1>2 DEF SameBooks, ShopType

LEMMA Synced ==
  ASSUME NEW d \in ShopType, NEW b \in Marks \cup {NoMark}, NEW k \in RowCodes,
         NEW e \in syncImportedProductBarcode(d, k, b) \cup ensureImportedBarcode(d, k, b)
  PROVE  SameBooks(d, e)
<1>1. e = d \/ e \in Tag(d, b, k, FALSE) \/ e \in Tag(d, b, k, TRUE)
  BY DEF syncImportedProductBarcode, ensureImportedBarcode
<1>2. SameBooks(d, d)
  BY DEF SameBooks
<1>3. FALSE \in BOOLEAN /\ TRUE \in BOOLEAN
  OBVIOUS
<1> QED
  BY <1>1, <1>2, <1>3, Tagged

LEMMA Posted ==
  ASSUME NEW d \in ShopType, NEW j \in Jobs, NEW n \in RowNumbers, NEW k \in RowCodes, NEW quantity \in Nat,
         NEW call \in CallType, NEW r \in Requests,
         NEW e \in PostOpeningStockImport(d, j, n, k, quantity, call, Actor[r])
  PROVE  e \in ShopType /\ e.card = d.card /\ (e.posted = d.posted \/ Opened(d, e, j, n, k, quantity, call, Actor[r]))
<1> DEFINE old == d.posted[<<j, n>>]
           new == [times |-> old.times + 1, key |-> k, quantity |-> quantity, by |-> Actor[r],
                   confirmed |-> call.confirmed, lost |-> call.lost]
<1>0. <<j, n>> \in Jobs \X RowNumbers /\ d.posted \in [Jobs \X RowNumbers -> PostedType]
  BY DEF ShopType
<1>1. old.times \in Nat
  BY <1>0 DEF PostedType
<1>2. new \in PostedType
  BY <1>1 DEF PostedType, CallType
<1>3. \/ e = d
      \/ e = [d EXCEPT !.posted[<<j, n>>] = new] /\ ~ (old.times > 0) /\ Known(d.card[k])
  BY DEF PostOpeningStockImport
<1>4. CASE e = d
  BY <1>4
<1>5. CASE e = [d EXCEPT !.posted[<<j, n>>] = new] /\ ~ (old.times > 0) /\ Known(d.card[k])
  <2>1. old.times = 0
    BY <1>1, <1>5
  <2>2. new = [times |-> 1, key |-> k, quantity |-> quantity, by |-> Actor[r],
               confirmed |-> call.confirmed, lost |-> call.lost]
    BY <2>1
  <2> DEFINE all == [d.posted EXCEPT ![<<j, n>>] = new]
  <2>3. all \in [Jobs \X RowNumbers -> PostedType]
    BY <1>0, <1>2
  <2>4. e = [d EXCEPT !.posted = all]
    BY <1>5
  <2>5. all = [d.posted EXCEPT ![<<j, n>>] = [times |-> 1, key |-> k, quantity |-> quantity, by |-> Actor[r],
                                               confirmed |-> call.confirmed, lost |-> call.lost]]
    BY <2>2
  <2> HIDE DEF all, new, old
  <2>6. e \in ShopType /\ e.card = d.card /\ e.posted = all
    BY <2>3, <2>4 DEF ShopType
  <2> QED
    BY <1>5, <2>1, <2>5, <2>6 DEF Opened, old
<1> QED
  BY <1>3, <1>4, <1>5

RowDone(d, e, ent, j, n, k, quantity, call, by) ==
  /\ e \in ShopType /\ CardsStay(d, e)
  /\ \/ e.posted = d.posted
     \/ Opened(d, e, j, n, k, quantity, call, by) /\ (ent = "PRODUCT" => e.card[k].id = stableImportID(j, n))

\* The card a file row names after its opening stock.
LEMMA OpeningRow ==
  ASSUME NEW d \in ShopType, NEW c \in ShopType, c.posted = d.posted, CardsStay(d, c),
         NEW f, SameBooks(c, f),
         NEW j \in Jobs, NEW n \in RowNumbers, NEW k \in RowCodes, NEW quantity \in Nat,
         NEW call \in CallType, NEW r \in Requests,
         quantity > 0 => c.card[k].id = stableImportID(j, n),
         NEW e \in importedOpeningStock(f, j, n, k, quantity, call, Actor[r])
  PROVE  RowDone(d, e, "PRODUCT", j, n, k, quantity, call, Actor[r])
<1>1. f \in ShopType /\ f.card = c.card /\ f.posted = c.posted
  BY DEF SameBooks
<1>2. CASE quantity = 0
  <2>1. e = f
    BY <1>2 DEF importedOpeningStock
  <2> QED
    BY <1>1, <2>1 DEF RowDone, CardsStay
<1>3. CASE quantity # 0
  <2>1. e \in PostOpeningStockImport(f, j, n, k, quantity, call, Actor[r])
    BY <1>3 DEF importedOpeningStock
  <2>2. e \in ShopType /\ e.card = f.card /\ (e.posted = f.posted \/ Opened(f, e, j, n, k, quantity, call, Actor[r]))
    BY <1>1, <2>1, Posted
  <2>3. c.card[k].id = stableImportID(j, n)
    BY <1>3
  <2> QED
    BY <1>1, <2>2, <2>3 DEF RowDone, CardsStay, Opened
<1> QED
  BY <1>2, <1>3

LEMMA ProductRow ==
  ASSUME NEW d \in ShopType, NEW j \in Jobs, NEW n \in RowNumbers, NEW row \in RowType, NEW quantity \in Nat,
         NEW call \in CallType, NEW r \in Requests,
         NEW e \in commitImportedProductRow(d, j, n, row, quantity, call, Actor[r])
  PROVE  RowDone(d, e, "PRODUCT", j, n, row.key, quantity, call, Actor[r])
<1> DEFINE k == row.key
           c == d.card[k]
           id == stableImportID(j, n)
           renamed == [d EXCEPT !.card[k].text = id]
           created == [d EXCEPT !.card[k] = [id |-> id, kind |-> "PHYSICAL", text |-> id]]
<1>0. k \in RowCodes /\ row.mark \in Marks \cup {NoMark} /\ id \in RowStamps /\ d.card \in [RowCodes -> KeptType]
  BY RowStampsExist DEF RowType, ShopType
<1>1. CASE Known(c)
  <2>1. /\ ~ (quantity > 0 /\ c.id # id)
        /\ e \in UNION {importedOpeningStock(f, j, n, k, quantity, call, Actor[r]) :
                            f \in syncImportedProductBarcode(renamed, k, row.mark)}
    BY <1>1 DEF commitImportedProductRow
  <2>2. PICK f \in syncImportedProductBarcode(renamed, k, row.mark) :
               e \in importedOpeningStock(f, j, n, k, quantity, call, Actor[r])
    BY <2>1
  <2> DEFINE cards == [d.card EXCEPT ![k].text = id]
  <2>3. /\ cards \in [RowCodes -> KeptType]
        /\ \A x \in RowCodes : cards[x].id = d.card[x].id /\ cards[x].kind = d.card[x].kind
    BY <1>0 DEF KeptType
  <2>4. renamed = [d EXCEPT !.card = cards]
    OBVIOUS
  <2> HIDE DEF cards, id
  <2>5. renamed \in ShopType /\ renamed.card = cards /\ renamed.posted = d.posted
    BY <2>3, <2>4 DEF ShopType
  <2> HIDE DEF renamed
  <2>6. SameBooks(renamed, f)
    BY <1>0, <2>2, <2>5, Synced
  <2>7. CardsStay(d, renamed)
    BY <2>3, <2>5 DEF CardsStay, Known
  <2>8. quantity > 0 => renamed.card[k].id = stableImportID(j, n)
    BY <1>0, <2>1, <2>3, <2>5 DEF id
  <2> QED
    BY <1>0, <2>2, <2>5, <2>6, <2>7, <2>8, OpeningRow
<1>2. CASE ~ Known(c)
  <2>1. e \in UNION {importedOpeningStock(f, j, n, k, quantity, call, Actor[r]) : f \in Tag(created, row.mark, k, FALSE)}
    BY <1>2 DEF commitImportedProductRow
  <2>2. PICK f \in Tag(created, row.mark, k, FALSE) : e \in importedOpeningStock(f, j, n, k, quantity, call, Actor[r])
    BY <2>1
  <2> DEFINE card == [id |-> id, kind |-> "PHYSICAL", text |-> id]
             cards == [d.card EXCEPT ![k] = card]
  <2>3. card \in KeptType /\ card.id = id
    BY <1>0 DEF KeptType
  <2>4. cards \in [RowCodes -> KeptType] /\ cards[k] = card /\ \A x \in RowCodes : x # k => cards[x] = d.card[x]
    BY <1>0, <2>3
  <2>5. created = [d EXCEPT !.card = cards]
    OBVIOUS
  <2> HIDE DEF cards, card
  <2>6. created \in ShopType /\ created.card = cards /\ created.posted = d.posted
    BY <2>4, <2>5 DEF ShopType
  <2> HIDE DEF created
  <2>7. SameBooks(created, f)
    BY <1>0, <2>2, <2>6, Tagged
  <2>8. CardsStay(d, created)
    BY <1>2, <2>4, <2>6 DEF CardsStay
  <2> QED
    BY <1>0, <2>2, <2>3, <2>4, <2>6, <2>7, <2>8, OpeningRow
<1> QED
  BY <1>1, <1>2

\* A row that opens no stock and leaves the cards alone.
LEMMA VariantRow ==
  ASSUME NEW d \in ShopType, NEW j \in Jobs, NEW n \in RowNumbers, NEW row \in RowType,
         NEW e \in commitImportedVariantRow(d, j, n, row)
  PROVE  SameBooks(d, e)
<1> DEFINE k == row.key
           id == stableImportID(j, n)
           renamed == [d EXCEPT !.sku[k].text = id]
           created == [d EXCEPT !.sku[k] = [id |-> id, kind |-> "x", text |-> id]]
<1>0. k \in RowCodes /\ row.mark \in Marks \cup {NoMark} /\ id \in RowStamps /\ d.sku \in [RowCodes -> KeptType]
  BY RowStampsExist DEF RowType, ShopType
<1>1. e \in ensureImportedBarcode(renamed, k, row.mark) \/ e \in Tag(created, row.mark, k, TRUE)
  BY DEF commitImportedVariantRow
<1>2. SameBooks(d, renamed)
  <2> DEFINE s == [d.sku EXCEPT ![k].text = id]
  <2>1. s \in [RowCodes -> KeptType]
    BY <1>0 DEF KeptType
  <2>2. renamed = [d EXCEPT !.sku = s]
    OBVIOUS
  <2> HIDE DEF s
  <2> QED
    BY <2>1, <2>2 DEF ShopType, SameBooks
<1>3. SameBooks(d, created)
  <2> DEFINE s == [d.sku EXCEPT ![k] = [id |-> id, kind |-> "x", text |-> id]]
  <2>1. s \in [RowCodes -> KeptType]
    BY <1>0 DEF KeptType
  <2>2. created = [d EXCEPT !.sku = s]
    OBVIOUS
  <2> HIDE DEF s
  <2> QED
    BY <2>1, <2>2 DEF ShopType, SameBooks
<1> HIDE DEF renamed, created
<1>4. SameBooks(renamed, e) \/ SameBooks(created, e)
  <2>1. renamed \in ShopType /\ created \in ShopType
    BY <1>2, <1>3 DEF SameBooks
  <2> QED
    BY <1>0, <1>1, <2>1, Synced, Tagged
<1> QED
  BY <1>2, <1>3, <1>4 DEF SameBooks

LEMMA Retitled ==
  ASSUME NEW cards \in [RowCodes -> KeptType], NEW k, NEW id \in RowStamps
  PROVE  [cards EXCEPT ![k].text = id] \in [RowCodes -> KeptType]
BY DEF KeptType

LEMMA OtherRows ==
  ASSUME NEW d \in ShopType, NEW j \in Jobs, NEW n \in RowNumbers, NEW row \in RowType,
         NEW e \in commitImportedWarehouseRow(d, j, n, row) \cup commitImportedPartyRow(d, j, n, row)
  PROVE  SameBooks(d, e)
<1> DEFINE k == row.key
           id == stableImportID(j, n)
<1>0. /\ k \in RowCodes /\ row.mark \in Marks \cup {NoMark} /\ id \in RowStamps
      /\ d.house \in [RowCodes -> KeptType] /\ d.party \in [RowCodes -> KeptType]
      /\ d.number \in [RowCodes -> Marks \cup {NoMark}] /\ d.bar \in [Marks -> BarType]
  BY RowStampsExist DEF RowType, ShopType
<1>1. ASSUME e \in commitImportedWarehouseRow(d, j, n, row) PROVE SameBooks(d, e)
  <2> DEFINE s == [d.house EXCEPT ![k] = [id |-> id, kind |-> "open", text |-> id]]
             u == [d.house EXCEPT ![k].text = id]
  <2>1. e = [d EXCEPT !.house = s] \/ e = [d EXCEPT !.house = u]
    BY <1>1 DEF commitImportedWarehouseRow
  <2>2. s \in [RowCodes -> KeptType]
    BY <1>0 DEF KeptType
  <2>3. u \in [RowCodes -> KeptType]
    BY <1>0, Retitled
  <2> HIDE DEF s, u
  <2> QED
    BY <2>1, <2>2, <2>3 DEF ShopType, SameBooks
<1>2. ASSUME e \in commitImportedPartyRow(d, j, n, row) PROVE SameBooks(d, e)
  <2> DEFINE p == d.party[k]
             number == IF row.mark = NoMark THEN d.number[k] ELSE row.mark
             s == [d.party EXCEPT ![k] = [id |-> IF Known(p) THEN p.id ELSE id, kind |-> "ORGANIZATION", text |-> id]]
             u == [d.number EXCEPT ![k] = number]
  <2>1. e = [d EXCEPT !.party = s, !.number = u]
    BY <1>2 DEF commitImportedPartyRow
  <2>2. s \in [RowCodes -> KeptType] /\ u \in [RowCodes -> Marks \cup {NoMark}]
    BY <1>0 DEF KeptType
  <2> HIDE DEF s, u
  <2> QED
    BY <2>1, <2>2 DEF ShopType, SameBooks
<1> QED
  BY <1>1, <1>2

LEMMA RowKeeps ==
  ASSUME NEW d \in ShopType, NEW ent \in Entities, NEW j \in Jobs, NEW n \in RowNumbers, NEW row \in RowType,
         NEW quantity \in Nat, NEW call \in CallType, NEW r \in Requests,
         NEW e \in commitRow(d, ent, j, n, row, quantity, call, Actor[r])
  PROVE  RowDone(d, e, ent, j, n, row.key, quantity, call, Actor[r])
<1>1. CASE ent = "PRODUCT"
  <2>1. e \in commitImportedProductRow(d, j, n, row, quantity, call, Actor[r])
    BY <1>1 DEF commitRow
  <2> QED
    BY <1>1, <2>1, ProductRow
<1>2. CASE ent \in {"VARIANT", "WAREHOUSE", "PARTY"}
  <2>1. SameBooks(d, e)
    BY <1>2, VariantRow, OtherRows DEF commitRow
  <2> QED
    BY <2>1 DEF SameBooks, RowDone, CardsStay
<1>3. CASE ent \in {"PRICE_LIST", "OPENING_STOCK"}
  <2>1. e \in PostOpeningStockImport(d, j, n, row.key, quantity, call, Actor[r])
    BY <1>3 DEF commitRow
  <2>2. row.key \in RowCodes
    BY DEF RowType
  <2>3. e \in ShopType /\ e.card = d.card /\ (e.posted = d.posted \/ Opened(d, e, j, n, row.key, quantity, call, Actor[r]))
    BY <2>1, <2>2, Posted
  <2> QED
    BY <1>3, <2>3 DEF RowDone, CardsStay
<1> QED
  BY <1>1, <1>2, <1>3 DEF Entities
-----------------------------------------------------------------------------
Statuses == {Nil, "UPLOADED", "ANALYZING", "READY", "FAILED", "COMMITTING", "COMMITTED"}
JobType ==
  [status : Statuses, entity : Entities \cup {Nil},
   file : ImportFiles \cup {<< >>}, columns : Columns \cup {Nil}, token : Requests \cup {Nil}, stale : BOOLEAN]
AnalysisType == [job : Jobs \cup {Nil}, columns : Columns \cup {Nil}, seen : {Nil, "READY", "FAILED"}]
ImportTypeOK ==
  /\ import \in [Jobs -> JobType]
  /\ analysing \in [Requests -> AnalysisType]
  /\ committing \in [Requests -> CallType]
  /\ shop \in ShopType
AnalysesOK == \A r \in Requests : analysing[r].job # Nil => analysing[r].columns \in Columns
\* Whoever holds the claim goes by the mapping its caller confirmed.
Claims(r) ==
  LET c == committing[r]
  IN  /\ c.confirmed \in Columns /\ c.at # Nil
      /\ import[c.job].entity # Nil /\ import[c.job].columns \in Columns
      /\ ~ c.lost => import[c.job].status = "COMMITTING" /\ import[c.job].token = r /\ import[c.job].columns = c.confirmed
      /\ c.at # "claimed" => c.columns \in Columns /\ (~ c.lost => c.columns = c.confirmed)
CallsOK == \A r \in Requests : IF committing[r].job = Nil THEN committing[r].at = Nil ELSE Claims(r)
OpenedRow(d, j, n) ==
  LET p == d.posted[<<j, n>>]
  IN  p.times > 0 =>
        /\ p.times = 1 /\ p.key \in RowCodes /\ Known(d.card[p.key]) /\ import[j].entity # Nil
        /\ import[j].entity = "PRODUCT" => d.card[p.key].id = stableImportID(j, n)
        /\ p.lost \/ p.quantity = OpeningColumn[p.confirmed]
BooksOK(d) == \A j \in Jobs, n \in RowNumbers : OpenedRow(d, j, n)
JobsOK == \A j \in Jobs : import[j].entity = Nil => import[j].status = Nil
ImportInv == ImportTypeOK /\ JobsOK /\ AnalysesOK /\ CallsOK /\ BooksOK(shop)

LEMMA ImportInvInit == ImportInit => ImportInv
<1> SUFFICES ASSUME ImportInit PROVE ImportInv
  OBVIOUS
<1>1. shop \in ShopType
  <2>1. NoneKept \in KeptType /\ [id |-> ByHand, kind |-> "open", text |-> ByHand] \in KeptType
    BY RowStampsExist DEF KeptType
  <2>2. NoBar \in BarType /\ NotPosted \in PostedType
    BY DEF NoBar, BarType, NotPosted, PostedType
  <2> QED
    BY <2>1, <2>2 DEF ImportInit, ShopType
<1>2. import \in [Jobs -> JobType]
  BY DEF ImportInit, NoJob, JobType, Statuses
<1>3. analysing \in [Requests -> AnalysisType] /\ committing \in [Requests -> CallType]
  BY DEF ImportInit, NoAnalysis, NoCommit, AnalysisType, CallType
<1>4. JobsOK /\ AnalysesOK /\ CallsOK
  BY DEF ImportInit, NoJob, NoAnalysis, NoCommit, JobsOK, AnalysesOK, CallsOK
<1>5. BooksOK(shop)
  BY DEF ImportInit, BooksOK, OpenedRow, NotPosted
<1> QED
  BY <1>1, <1>2, <1>3, <1>4, <1>5 DEF ImportInv, ImportTypeOK

\* One row keeps the books right.
LEMMA RowKeepsBooks ==
  ASSUME NEW d \in ShopType, BooksOK(d), NEW e, NEW j \in Jobs, NEW n \in RowNumbers, NEW k \in RowCodes, NEW quantity \in Nat,
         NEW call \in CallType, NEW by, import[j].entity # Nil, call.lost \/ quantity = OpeningColumn[call.confirmed],
         RowDone(d, e, import[j].entity, j, n, k, quantity, call, by)
  PROVE  e \in ShopType /\ BooksOK(e)
<1>1. e \in ShopType /\ CardsStay(d, e)
  BY DEF RowDone
<1>2. ASSUME NEW i \in Jobs, NEW m \in RowNumbers, e.posted[<<i, m>>] = d.posted[<<i, m>>] PROVE OpenedRow(e, i, m)
  <2>1. OpenedRow(d, i, m)
    BY DEF BooksOK
  <2> QED
    BY <1>1, <1>2, <2>1 DEF OpenedRow, CardsStay
<1>3. CASE e.posted = d.posted
  BY <1>1, <1>2, <1>3 DEF BooksOK
<1>4. CASE Opened(d, e, j, n, k, quantity, call, by) /\ (import[j].entity = "PRODUCT" => e.card[k].id = stableImportID(j, n))
  <2> DEFINE new == [times |-> 1, key |-> k, quantity |-> quantity, by |-> by, confirmed |-> call.confirmed, lost |-> call.lost]
  <2>1. /\ e.posted[<<j, n>>] = new
        /\ \A i \in Jobs, m \in RowNumbers : <<i, m>> # <<j, n>> => e.posted[<<i, m>>] = d.posted[<<i, m>>]
    BY <1>4 DEF Opened, ShopType
  <2>2. OpenedRow(e, j, n)
    BY <1>4, <2>1 DEF OpenedRow, Opened
  <2>3. ASSUME NEW i \in Jobs, NEW m \in RowNumbers, <<i, m>> # <<j, n>> PROVE OpenedRow(e, i, m)
    BY <1>2, <2>1, <2>3
  <2> QED
    BY <1>1, <2>2, <2>3 DEF BooksOK
<1> QED
  BY <1>1, <1>3, <1>4 DEF RowDone

LEMMA RowsApplied ==
  ASSUME NEW r, NEW A, NEW B, NEW C,
         A = {shop},
         B = UNION {commitRow(d, import[committing[r].job].entity, committing[r].job, 1, import[committing[r].job].file[1], OpeningColumn[committing[r].columns], committing[r], Actor[r]) : d \in A},
         C = UNION {commitRow(d, import[committing[r].job].entity, committing[r].job, 2, import[committing[r].job].file[2], OpeningColumn[committing[r].columns], committing[r], Actor[r]) : d \in B},
         Len(import[committing[r].job].file) \in 0 .. 2
  PROVE  commitCatalogImport(r) = IF Len(import[committing[r].job].file) = 0 THEN A ELSE IF Len(import[committing[r].job].file) = 1 THEN B ELSE C
<1> DEFINE call == committing[r]
           j == call.job
           file == import[j].file
           R(n, s) == UNION {commitRow(d, import[j].entity, j, n, file[n], OpeningColumn[call.columns], call, Actor[r]) : d \in s}
           F(a) == [n \in 0 .. Len(file) |->
            IF n = 0 THEN {shop} ELSE
            UNION {commitRow(d, import[j].entity, j, n, file[n], OpeningColumn[call.columns], call, Actor[r]) :
                       d \in a[n - 1]}]
           g == [n \in 0 .. Len(file) |-> IF n = 0 THEN A ELSE IF n = 1 THEN B ELSE C]
           h == CHOOSE a : a = F(a)
<1>1. commitCatalogImport(r) = h[Len(file)]
  BY DEF commitCatalogImport
<1>2. \A a : F(a) = [n \in 0 .. Len(file) |-> IF n = 0 THEN {shop} ELSE R(n, a[n - 1])]
  OBVIOUS
<1>3. A = {shop} /\ B = R(1, A) /\ C = R(2, B) /\ Len(file) \in 0 .. 2
  OBVIOUS
<1> HIDE DEF R, F, h, file, j, call
<1>4. g = [n \in 0 .. Len(file) |-> IF n = 0 THEN {shop} ELSE R(n, g[n - 1])]
  <2>1. \A n \in 0 .. Len(file) : g[n] = IF n = 0 THEN {shop} ELSE R(n, g[n - 1])
    <3>1. ASSUME NEW n \in 0 .. Len(file) PROVE g[n] = IF n = 0 THEN {shop} ELSE R(n, g[n - 1])
      <4>1. CASE n = 0
        BY <1>3, <4>1
      <4>2. CASE n = 1
        <5>0. n - 1 = 0 /\ 0 \in 0 .. Len(file) /\ 1 \in 0 .. Len(file)
          BY <1>3, <4>2, SMTT(60)
        <5>1. g[1] = B /\ g[0] = A
          BY <5>0
        <5> QED
          BY <1>3, <4>2, <5>0, <5>1
      <4>3. CASE n = 2
        <5>0. n - 1 = 1 /\ 1 \in 0 .. Len(file) /\ 2 \in 0 .. Len(file)
          BY <1>3, <4>3
        <5>1. g[2] = C /\ g[1] = B
          BY <5>0
        <5> QED
          BY <1>3, <4>3, <5>0, <5>1
      <4>4. n = 0 \/ n = 1 \/ n = 2
        <5>1. \A l \in 0 .. 2 : \A m \in 0 .. l : m = 0 \/ m = 1 \/ m = 2
          OBVIOUS
        <5> QED
          BY <1>3, <5>1
      <4> QED
        BY <4>1, <4>2, <4>3, <4>4
    <3> QED
      BY <3>1
  <2>2. g = [n \in 0 .. Len(file) |-> g[n]]
    OBVIOUS
  <2> HIDE DEF g
  <2> QED
    BY <2>1, <2>2
<1>5. \A a : a = F(a) => a[Len(file)] = IF Len(file) = 0 THEN A ELSE IF Len(file) = 1 THEN B ELSE C
  <2>1. ASSUME NEW a, a = F(a) PROVE a[Len(file)] = IF Len(file) = 0 THEN A ELSE IF Len(file) = 1 THEN B ELSE C
    <3>1. a = [n \in 0 .. Len(file) |-> IF n = 0 THEN {shop} ELSE R(n, a[n - 1])]
      BY <1>2, <2>1
    <3>2. \A n \in 0 .. Len(file) : a[n] = IF n = 0 THEN {shop} ELSE R(n, a[n - 1])
      BY <3>1
    <3>3. a[0] = A
      BY <1>3, <3>2, SMTT(60)
    <3>4. Len(file) >= 1 => a[1] = B
      <4>1. Len(file) >= 1 => a[1] = R(1, a[1 - 1])
        BY <1>3, <3>2, SMTT(60)
      <4>2. a[1 - 1] = A
        BY <3>3
      <4> QED
        BY <1>3, <4>1, <4>2
    <3>5. Len(file) = 2 => a[2] = C
      <4>1. Len(file) = 2 => a[2] = R(2, a[2 - 1])
        BY <1>3, <3>2, SMTT(60)
      <4> QED
        BY <1>3, <3>4, <4>1, SMTT(60)
    <3>6. CASE Len(file) = 0
      BY <3>3, <3>6
    <3>7. CASE Len(file) = 1
      BY <3>4, <3>7
    <3>8. CASE Len(file) = 2
      BY <3>5, <3>8
    <3>9. Len(file) = 0 \/ Len(file) = 1 \/ Len(file) = 2
      BY <1>3, SMTT(60)
    <3> QED
      BY <3>6, <3>7, <3>8, <3>9
  <2> QED
    BY <2>1
<1>6. g = F(g)
  BY <1>2, <1>4
<1> HIDE DEF g
<1>7. h = F(h)
  BY <1>6 DEF h
<1> QED
  BY <1>1, <1>5, <1>7 DEF file, j, call

LEMMA FilesAreShort ==
  ASSUME NEW f \in ImportFiles \cup {<< >>}
  PROVE  Len(f) \in 0 .. 2 /\ DOMAIN f = 1 .. Len(f) /\ \A n \in 1 .. Len(f) : f[n] \in RowType
<1>1. f \in Seq(RowType) /\ DOMAIN f \subseteq 1 .. 2
  <2>1. CASE f \in ImportFiles
    BY <2>1, ImportsAssumption DEF RowType, RowNumbers
  <2>2. CASE f = << >>
    <3>1. << >> \in Seq(RowType) /\ DOMAIN << >> = {}
      OBVIOUS
    <3> QED
      BY <2>2, <3>1
  <2> QED
    BY <2>1, <2>2
<1>2. Len(f) \in Nat /\ DOMAIN f = 1 .. Len(f) /\ \A n \in 1 .. Len(f) : f[n] \in RowType
  BY <1>1
<1>3. ~ (Len(f) > 2)
  <2> SUFFICES ASSUME Len(f) > 2 PROVE FALSE
    OBVIOUS
  <2>1. 3 \in 1 .. Len(f)
    BY <1>2
  <2> QED
    BY <1>1, <1>2, <2>1
<1> QED
  BY <1>2, <1>3

LEMMA BooksAfterRows ==
  ASSUME ImportInv, NEW r \in Requests, ApplyRows(r)
  PROVE  shop' \in ShopType /\ BooksOK(shop')
<1> DEFINE call == committing[r]
           j == call.job
           file == import[j].file
           ent == import[j].entity
           quantity == OpeningColumn[call.columns]
           A == {shop}
           B == UNION {commitRow(d, ent, j, 1, file[1], quantity, call, Actor[r]) : d \in A}
           C == UNION {commitRow(d, ent, j, 2, file[2], quantity, call, Actor[r]) : d \in B}
<1>1. call \in CallType /\ import \in [Jobs -> JobType] /\ shop \in ShopType /\ BooksOK(shop)
  BY DEF ImportInv, ImportTypeOK
<1>2. call.at = "read" /\ shop' \in commitCatalogImport(r)
  BY DEF ApplyRows
<1>3. j # Nil /\ Claims(r)
  BY <1>2 DEF ImportInv, CallsOK, Nil
<1>4. j \in Jobs
  BY <1>1, <1>3 DEF CallType
<1>5. ent # Nil /\ ent \in Entities /\ file \in ImportFiles \cup {<< >>}
  BY <1>1, <1>3, <1>4 DEF JobType, Claims
<1>6. call.columns \in Columns /\ (call.lost \/ call.columns = call.confirmed)
  BY <1>2, <1>3 DEF Claims
<1>7. quantity \in Nat /\ (call.lost \/ quantity = OpeningColumn[call.confirmed])
  BY <1>6 DEF ImportsAssumption
<1>8. Len(file) \in 0 .. 2 /\ \A n \in 1 .. Len(file) : file[n] \in RowType
  BY <1>5, FilesAreShort
<1>9. commitCatalogImport(r) = IF Len(file) = 0 THEN A ELSE IF Len(file) = 1 THEN B ELSE C
  BY <1>8, RowsApplied
<1>10. ASSUME NEW d \in ShopType, BooksOK(d), NEW n \in RowNumbers, file[n] \in RowType,
              NEW e \in commitRow(d, ent, j, n, file[n], quantity, call, Actor[r])
       PROVE  e \in ShopType /\ BooksOK(e)
  <2>1. RowDone(d, e, ent, j, n, file[n].key, quantity, call, Actor[r])
    BY <1>1, <1>4, <1>5, <1>7, <1>10, RowKeeps
  <2>2. file[n].key \in RowCodes
    BY <1>10 DEF RowType
  <2> QED
    BY <1>1, <1>4, <1>5, <1>7, <1>10, <2>1, <2>2, RowKeepsBooks
<1>11. 1 \in RowNumbers /\ 2 \in RowNumbers
  BY DEF RowNumbers
<1>12. Len(file) >= 1 => \A e \in B : e \in ShopType /\ BooksOK(e)
  <2> SUFFICES ASSUME Len(file) >= 1, NEW e \in B PROVE e \in ShopType /\ BooksOK(e)
    OBVIOUS
  <2>1. e \in commitRow(shop, ent, j, 1, file[1], quantity, call, Actor[r])
    OBVIOUS
  <2>2. file[1] \in RowType
    BY <1>8
  <2> QED
    BY <1>1, <1>10, <1>11, <2>1, <2>2
<1>13. Len(file) = 2 => \A e \in C : e \in ShopType /\ BooksOK(e)
  <2> SUFFICES ASSUME Len(file) = 2, NEW e \in C PROVE e \in ShopType /\ BooksOK(e)
    OBVIOUS
  <2> HIDE DEF B
  <2>1. PICK d \in B : e \in commitRow(d, ent, j, 2, file[2], quantity, call, Actor[r])
    OBVIOUS
  <2>2. file[2] \in RowType
    BY <1>8
  <2>3. d \in ShopType /\ BooksOK(d)
    BY <1>12, <2>1
  <2> QED
    BY <1>10, <1>11, <2>1, <2>2, <2>3
<1> HIDE DEF B, C, file
<1>14. CASE Len(file) = 0
  BY <1>1, <1>2, <1>9, <1>14
<1>15. CASE Len(file) = 1
  BY <1>2, <1>9, <1>12, <1>15
<1>16. CASE Len(file) = 2
  BY <1>2, <1>9, <1>13, <1>16
<1>17. Len(file) = 0 \/ Len(file) = 1 \/ Len(file) = 2
  BY <1>8
<1> QED
  BY <1>14, <1>15, <1>16, <1>17

-----------------------------------------------------------------------------
\* The books stay right while the jobs keep their entities.
LEMMA BooksFrame ==
  ASSUME BooksOK(shop), shop'.card = shop.card, shop'.posted = shop.posted,
         \A j \in Jobs : import[j].entity = Nil \/ import'[j].entity = import[j].entity
  PROVE  BooksOK(shop)'
BY DEF BooksOK, OpenedRow

LEMMA ClaimsFrame ==
  ASSUME ImportInv, NEW r \in Requests, committing'[r] = committing[r],
         \A j \in Jobs : import[j].entity # Nil =>
            /\ import'[j].entity = import[j].entity
            /\ import[j].columns \in Columns => import'[j].columns \in Columns
            /\ import[j].status = "COMMITTING" /\ import[j].token = r =>
                 import'[j].status = "COMMITTING" /\ import'[j].token = r /\ import'[j].columns = import[j].columns
  PROVE  IF committing'[r].job = Nil THEN committing'[r].at = Nil ELSE Claims(r)'
<1>1. committing[r].job \in Jobs \cup {Nil}
  BY DEF ImportInv, ImportTypeOK, CallType
<1>2. IF committing[r].job = Nil THEN committing[r].at = Nil ELSE Claims(r)
  BY DEF ImportInv, CallsOK
<1> QED
  BY <1>1, <1>2 DEF Claims

LEMMA StatusSet ==
  ASSUME NEW f \in [Jobs -> JobType], NEW j \in Jobs, NEW v \in Statuses
  PROVE  [f EXCEPT ![j].status = v] \in [Jobs -> JobType]
<1>1. [f[j] EXCEPT !.status = v] \in JobType
  BY DEF JobType, Statuses
<1>2. [f EXCEPT ![j].status = v] = [f EXCEPT ![j] = [f[j] EXCEPT !.status = v]]
  OBVIOUS
<1> QED
  BY <1>1, <1>2

LEMMA StaleSet ==
  ASSUME NEW f \in [Jobs -> JobType], NEW j \in Jobs, NEW v \in BOOLEAN
  PROVE  [f EXCEPT ![j].stale = v] \in [Jobs -> JobType]
<1>1. [f[j] EXCEPT !.stale = v] \in JobType
  BY DEF JobType
<1>2. [f EXCEPT ![j].stale = v] = [f EXCEPT ![j] = [f[j] EXCEPT !.stale = v]]
  OBVIOUS
<1> QED
  BY <1>1, <1>2

LEMMA MappingSet ==
  ASSUME NEW f \in [Jobs -> JobType], NEW j \in Jobs, NEW v \in Columns \cup {Nil}
  PROVE  [f EXCEPT ![j].columns = v] \in [Jobs -> JobType]
<1>1. [f[j] EXCEPT !.columns = v] \in JobType
  BY DEF JobType
<1>2. [f EXCEPT ![j].columns = v] = [f EXCEPT ![j] = [f[j] EXCEPT !.columns = v]]
  OBVIOUS
<1> QED
  BY <1>1, <1>2

LEMMA TokenSet ==
  ASSUME NEW f \in [Jobs -> JobType], NEW j \in Jobs, NEW v \in Requests \cup {Nil}
  PROVE  [f EXCEPT ![j].token = v] \in [Jobs -> JobType]
<1>1. [f[j] EXCEPT !.token = v] \in JobType
  BY DEF JobType
<1>2. [f EXCEPT ![j].token = v] = [f EXCEPT ![j] = [f[j] EXCEPT !.token = v]]
  OBVIOUS
<1> QED
  BY <1>1, <1>2

LEMMA AnalysisSet ==
  ASSUME NEW f \in [Jobs -> JobType], NEW j \in Jobs, NEW s \in Statuses, NEW m \in Columns \cup {Nil}
  PROVE  [f EXCEPT ![j].status = s, ![j].columns = m] \in [Jobs -> JobType]
<1> DEFINE g == [f EXCEPT ![j].status = s]
<1>1. [f EXCEPT ![j].status = s, ![j].columns = m] = [g EXCEPT ![j].columns = m]
  OBVIOUS
<1>2. g \in [Jobs -> JobType]
  BY StatusSet
<1> HIDE DEF g
<1> QED
  BY <1>1, <1>2, MappingSet

ClaimMoved(f, j, s, h) == [f EXCEPT ![j].status = s, ![j].token = h, ![j].stale = FALSE]

LEMMA ClaimSet ==
  ASSUME NEW f \in [Jobs -> JobType], NEW j \in Jobs, NEW s \in Statuses, NEW h \in Requests \cup {Nil},
         NEW g, g = ClaimMoved(f, j, s, h)
  PROVE  /\ g \in [Jobs -> JobType] /\ \A i \in Jobs \ {j} : g[i] = f[i]
         /\ g[j].status = s /\ g[j].token = h /\ g[j].entity = f[j].entity /\ g[j].columns = f[j].columns
<1> DEFINE g1 == [f EXCEPT ![j].status = s]
           g2 == [g1 EXCEPT ![j].token = h]
           g3 == [g2 EXCEPT ![j].stale = FALSE]
<1>1. g = g3
  BY DEF ClaimMoved
<1>2. /\ g1 \in [Jobs -> JobType] /\ g1[j].status = s /\ g1[j].entity = f[j].entity /\ g1[j].columns = f[j].columns
      /\ \A i \in Jobs \ {j} : g1[i] = f[i]
  <2>1. g1 \in [Jobs -> JobType]
    BY StatusSet
  <2> QED
    BY <2>1 DEF JobType
<1> HIDE DEF g1
<1>3. /\ g2 \in [Jobs -> JobType] /\ g2[j].status = s /\ g2[j].token = h
      /\ g2[j].entity = f[j].entity /\ g2[j].columns = f[j].columns /\ \A i \in Jobs \ {j} : g2[i] = f[i]
  <2>1. g2 \in [Jobs -> JobType]
    BY <1>2, TokenSet
  <2> QED
    BY <1>2, <2>1 DEF JobType
<1> HIDE DEF g2
<1>4. /\ g3 \in [Jobs -> JobType] /\ g3[j].status = s /\ g3[j].token = h
      /\ g3[j].entity = f[j].entity /\ g3[j].columns = f[j].columns /\ \A i \in Jobs \ {j} : g3[i] = f[i]
  <2>1. g3 \in [Jobs -> JobType]
    BY <1>3, FALSE \in BOOLEAN, StaleSet
  <2> QED
    BY <1>3, <2>1 DEF JobType
<1> HIDE DEF g3
<1> QED
  BY <1>1, <1>4

LEMMA UploadInv ==
  ASSUME ImportInv, NEW j \in Jobs, NEW e \in Entities, NEW file \in ImportFiles, Upload(j, e, file)
  PROVE  ImportInv'
<1> DEFINE new == [NoJob EXCEPT !.status = "UPLOADED", !.entity = e, !.file = file]
<1>1. import[j] = NoJob /\ import' = [import EXCEPT ![j] = new] /\ UNCHANGED <<analysing, committing, shop>>
  BY DEF Upload
<1>2. new \in JobType /\ new.entity = e
  BY DEF NoJob, JobType, Statuses
<1>3. import \in [Jobs -> JobType] /\ BooksOK(shop)
  BY DEF ImportInv, ImportTypeOK
<1>4. import[j].entity = Nil /\ Nil \notin Entities
  BY <1>1 DEF NoJob, Nil, Entities
<1> HIDE DEF new
<1>5. import' \in [Jobs -> JobType] /\ import'[j].entity = e /\ \A i \in Jobs : i # j => import'[i] = import[i]
  BY <1>1, <1>2, <1>3
<1>6. JobsOK' /\ AnalysesOK'
  BY <1>1, <1>4, <1>5 DEF ImportInv, JobsOK, AnalysesOK
<1>7. BooksOK(shop)'
  BY <1>1, <1>3, <1>4, <1>5, BooksFrame
<1>8. CallsOK'
  <2> SUFFICES ASSUME NEW r \in Requests
               PROVE  IF committing'[r].job = Nil THEN committing'[r].at = Nil ELSE Claims(r)'
    BY DEF CallsOK
  <2>1. \A i \in Jobs : import[i].entity # Nil => import'[i] = import[i]
    BY <1>4, <1>5
  <2> QED
    BY <1>1, <2>1, ClaimsFrame
<1> QED
  BY <1>1, <1>5, <1>6, <1>7, <1>8 DEF ImportInv, ImportTypeOK

\* A step that moves one job's status, and no more of it than its mapping.
StatusMoves(j, s, m) ==
  /\ import[j].status # Nil /\ import[j].status # "COMMITTING" /\ s # Nil
  /\ import' \in [Jobs -> JobType]
  /\ import'[j].entity = import[j].entity
  /\ import'[j].columns = import[j].columns \/ (import'[j].columns = m /\ m \in Columns)
  /\ \A i \in Jobs \ {j} : import'[i] = import[i]

LEMMA StatusMovesInv ==
  ASSUME ImportInv, NEW j \in Jobs, NEW s, NEW m, StatusMoves(j, s, m), UNCHANGED <<committing, shop>>
  PROVE  JobsOK' /\ CallsOK' /\ BooksOK(shop)'
<1>1. \A i \in Jobs : import'[i].entity = import[i].entity
  BY DEF StatusMoves
<1>2. JobsOK'
  BY <1>1 DEF ImportInv, JobsOK, StatusMoves
<1>3. BooksOK(shop)'
  BY <1>1, BooksFrame DEF ImportInv
<1>4. CallsOK'
  <2> SUFFICES ASSUME NEW r \in Requests
               PROVE  IF committing'[r].job = Nil THEN committing'[r].at = Nil ELSE Claims(r)'
    BY DEF CallsOK
  <2>1. \A i \in Jobs : import[i].entity # Nil =>
            /\ import'[i].entity = import[i].entity
            /\ import[i].columns \in Columns => import'[i].columns \in Columns
            /\ import[i].status = "COMMITTING" /\ import[i].token = r =>
                 import'[i].status = "COMMITTING" /\ import'[i].token = r /\ import'[i].columns = import[i].columns
    <3> SUFFICES ASSUME NEW i \in Jobs PROVE i = j \/ import'[i] = import[i]
      BY <1>1 DEF StatusMoves
    <3> QED
      BY DEF StatusMoves
  <2> QED
    BY <2>1, ClaimsFrame
<1> QED
  BY <1>2, <1>3, <1>4

LEMMA AnalyzeInv == ImportInv /\ AnalyzeStep => ImportInv'
<1> SUFFICES ASSUME ImportInv, AnalyzeStep PROVE ImportInv'
  OBVIOUS
<1>0. PICK r \in Requests :
        \/ \E j \in Jobs, m \in Columns : claimAnalyze(r, j, m)
        \/ \E allow \in BOOLEAN : Preview(r, allow)
        \/ StoreAnalysis(r)
        \/ \E crash \in BOOLEAN : AnalysisEnds(r, crash)
  BY DEF AnalyzeStep
<1> DEFINE a == analysing[r]
<1>1. /\ import \in [Jobs -> JobType] /\ analysing \in [Requests -> AnalysisType]
      /\ committing \in [Requests -> CallType] /\ shop \in ShopType
      /\ JobsOK /\ AnalysesOK /\ CallsOK /\ BooksOK(shop) /\ a \in AnalysisType
  BY DEF ImportInv, ImportTypeOK
<1>2. NoAnalysis \in AnalysisType /\ NoAnalysis.job = Nil
  BY DEF NoAnalysis, AnalysisType
<1>3. a.job # Nil => a.job \in Jobs /\ a.columns \in Columns
  BY <1>1 DEF AnalysisType, AnalysesOK
\* An analysis is dropped.
<1>4. ASSUME analysing' = [analysing EXCEPT ![r] = NoAnalysis]
      PROVE  analysing' \in [Requests -> AnalysisType] /\ AnalysesOK'
  BY <1>1, <1>2, <1>4 DEF AnalysesOK
<1>5. ASSUME UNCHANGED <<import, committing, shop>> PROVE JobsOK' /\ CallsOK' /\ BooksOK(shop)'
  BY <1>1, <1>5 DEF JobsOK, CallsOK, Claims, BooksOK, OpenedRow
<1>6. ASSUME NEW j \in Jobs, NEW m \in Columns, claimAnalyze(r, j, m) PROVE ImportInv'
  <2> DEFINE b == [job |-> j, columns |-> m, seen |-> Nil]
  <2>1. /\ import[j].status \in {"UPLOADED", "READY", "FAILED"} /\ import' = [import EXCEPT ![j].status = "ANALYZING"]
        /\ analysing' = [analysing EXCEPT ![r] = b] /\ UNCHANGED <<committing, shop>>
    BY <1>6 DEF claimAnalyze
  <2>2. b \in AnalysisType /\ b.columns \in Columns
    BY DEF AnalysisType
  <2>3. import' \in [Jobs -> JobType]
    <3>1. "ANALYZING" \in Statuses
      BY DEF Statuses
    <3> QED
      BY <1>1, <2>1, <3>1, StatusSet
  <2>4. StatusMoves(j, "ANALYZING", m)
    BY <1>1, <2>1, <2>3 DEF StatusMoves, Nil
  <2>5. JobsOK' /\ CallsOK' /\ BooksOK(shop)'
    BY <2>1, <2>4, StatusMovesInv
  <2> HIDE DEF b
  <2>6. analysing' \in [Requests -> AnalysisType] /\ AnalysesOK'
    BY <1>1, <2>1, <2>2 DEF AnalysesOK
  <2> QED
    BY <1>1, <2>1, <2>3, <2>5, <2>6 DEF ImportInv, ImportTypeOK
<1>7. ASSUME NEW allow \in BOOLEAN, Preview(r, allow) PROVE ImportInv'
  <2>1. UNCHANGED <<import, committing, shop>>
    BY <1>7 DEF Preview
  <2>2. PICK s \in {"READY", "FAILED"} : analysing' = [analysing EXCEPT ![r].seen = s]
    BY <1>7 DEF Preview
  <2>3. [a EXCEPT !.seen = s] \in AnalysisType /\ [a EXCEPT !.seen = s].job = a.job /\ [a EXCEPT !.seen = s].columns = a.columns
    BY <1>1 DEF AnalysisType
  <2>4. analysing' = [analysing EXCEPT ![r] = [a EXCEPT !.seen = s]]
    BY <2>2
  <2>5. analysing' \in [Requests -> AnalysisType]
    BY <1>1, <2>3, <2>4
  <2>6. AnalysesOK'
    BY <1>1, <2>3, <2>4 DEF AnalysesOK
  <2> QED
    BY <1>1, <1>5, <2>1, <2>5, <2>6 DEF ImportInv, ImportTypeOK
<1>8. ASSUME StoreAnalysis(r) PROVE ImportInv'
  <2>1. /\ a.job # Nil /\ a.seen # Nil /\ analysing' = [analysing EXCEPT ![r] = NoAnalysis] /\ UNCHANGED <<committing, shop>>
        /\ import' = IF import[a.job].status # "ANALYZING" THEN import ELSE
                     [import EXCEPT ![a.job].status = a.seen, ![a.job].columns = a.columns]
    BY <1>8 DEF StoreAnalysis
  <2>2. CASE import' = import
    BY <1>1, <1>4, <1>5, <2>1, <2>2 DEF ImportInv, ImportTypeOK
  <2>3. CASE import[a.job].status = "ANALYZING"
    <3>1. import' = [import EXCEPT ![a.job].status = a.seen, ![a.job].columns = a.columns] /\ a.seen \in {"READY", "FAILED"}
      BY <1>1, <2>1, <2>3 DEF AnalysisType
    <3>2. import' \in [Jobs -> JobType]
      <4>1. a.seen \in Statuses /\ a.columns \in Columns \cup {Nil}
        BY <1>3, <2>1, <3>1 DEF Statuses
      <4> QED
        BY <1>1, <1>3, <2>1, <3>1, <4>1, AnalysisSet, SMTT(60)
    <3>3. StatusMoves(a.job, a.seen, a.columns)
      <4>1. \A i \in Jobs \ {a.job} : import'[i] = import[i]
        BY <1>1, <3>1
      <4>2. import'[a.job].entity = import[a.job].entity /\ import'[a.job].columns = a.columns
        BY <1>1, <1>3, <2>1, <3>1 DEF JobType
      <4> QED
        BY <1>3, <2>1, <2>3, <3>2, <4>1, <4>2 DEF StatusMoves, Nil
    <3>4. JobsOK' /\ CallsOK' /\ BooksOK(shop)'
      BY <1>3, <2>1, <3>3, StatusMovesInv
    <3> QED
      BY <1>1, <1>4, <2>1, <3>2, <3>4 DEF ImportInv, ImportTypeOK
  <2> QED
    BY <2>1, <2>2, <2>3
<1>9. ASSUME NEW crash \in BOOLEAN, AnalysisEnds(r, crash) PROVE ImportInv'
  <2>1. /\ a.job # Nil /\ analysing' = [analysing EXCEPT ![r] = NoAnalysis] /\ UNCHANGED <<committing, shop>>
        /\ import' = IF crash \/ import[a.job].status # "ANALYZING" THEN import ELSE [import EXCEPT ![a.job].status = "FAILED"]
    BY <1>9 DEF AnalysisEnds
  <2>2. CASE import' = import
    BY <1>1, <1>4, <1>5, <2>1, <2>2 DEF ImportInv, ImportTypeOK
  <2>3. CASE import[a.job].status = "ANALYZING" /\ import' = [import EXCEPT ![a.job].status = "FAILED"]
    <3>1. import' \in [Jobs -> JobType]
      <4>1. "FAILED" \in Statuses
        BY DEF Statuses
      <4> QED
        BY <1>1, <1>3, <2>1, <2>3, <4>1, StatusSet
    <3>2. StatusMoves(a.job, "FAILED", Nil)
      BY <1>1, <1>3, <2>1, <2>3, <3>1 DEF StatusMoves, Nil
    <3>3. JobsOK' /\ CallsOK' /\ BooksOK(shop)'
      BY <1>3, <2>1, <3>2, StatusMovesInv
    <3> QED
      BY <1>1, <1>4, <2>1, <3>1, <3>3 DEF ImportInv, ImportTypeOK
  <2> QED
    BY <2>1, <2>2, <2>3
<1> QED
  BY <1>0, <1>6, <1>7, <1>8, <1>9

LEMMA ClaimCommitInv ==
  ASSUME ImportInv, NEW r \in Requests, NEW j \in Jobs, NEW m \in Columns, NEW allow \in BOOLEAN, claimCommit(r, j, m, allow)
  PROVE  ImportInv'
<1> DEFINE new == [NoCommit EXCEPT !.job = j, !.confirmed = m, !.at = "claimed", !.allow = allow]
<1>1. /\ import \in [Jobs -> JobType] /\ committing \in [Requests -> CallType]
      /\ JobsOK /\ AnalysesOK /\ CallsOK /\ BooksOK(shop) /\ ImportTypeOK
  BY DEF ImportInv, ImportTypeOK
<1>2. /\ import[j].status # Nil /\ import[j].columns = m
      /\ import' = [import EXCEPT ![j].status = "COMMITTING", ![j].token = r, ![j].stale = FALSE]
      /\ committing' = [Dispossess(j) EXCEPT ![r] = new] /\ UNCHANGED <<analysing, shop>>
  BY DEF claimCommit, Nil
<1>3. /\ new \in CallType /\ new.job = j /\ new.confirmed = m /\ new.at = "claimed" /\ new.lost = FALSE /\ j # Nil
  BY DEF NoCommit, CallType, Nil, ImportsAssumption
<1>4. /\ import' \in [Jobs -> JobType] /\ import'[j].status = "COMMITTING" /\ import'[j].token = r
      /\ import'[j].entity = import[j].entity /\ import'[j].columns = import[j].columns
      /\ \A i \in Jobs \ {j} : import'[i] = import[i]
  <2>1. "COMMITTING" \in Statuses /\ r \in Requests \cup {Nil} /\ FALSE \in BOOLEAN
    BY DEF Statuses
  <2>2. import' = ClaimMoved(import, j, "COMMITTING", r)
    BY <1>2 DEF ClaimMoved
  <2> QED
    BY <1>1, <2>1, <2>2, ClaimSet
<1>5. Dispossess(j) \in [Requests -> CallType]
  <2>1. ASSUME NEW c \in Requests PROVE [committing[c] EXCEPT !.lost = TRUE] \in CallType
    <3>1. committing[c] \in CallType
      BY <1>1
    <3> QED
      BY <3>1 DEF CallType
  <2> QED
    BY <1>1, <2>1 DEF Dispossess
<1>6. ASSUME NEW c \in Requests, c # r
      PROVE  committing'[c] = IF committing[c].job = j THEN [committing[c] EXCEPT !.lost = TRUE] ELSE committing[c]
  BY <1>2, <1>6 DEF Dispossess
<1>7. committing'[r] = new /\ committing' \in [Requests -> CallType]
  BY <1>2, <1>3, <1>5
<1>8. import[j].entity # Nil
  BY <1>1, <1>2 DEF JobsOK
<1> HIDE DEF new
<1>9. CallsOK'
  <2> SUFFICES ASSUME NEW c \in Requests
               PROVE  IF committing'[c].job = Nil THEN committing'[c].at = Nil ELSE Claims(c)'
    BY DEF CallsOK
  <2>1. CASE c = r
    BY <1>2, <1>3, <1>4, <1>7, <1>8, <2>1 DEF Claims, Nil
  <2>2. CASE c # r /\ committing[c].job = j
    <3>1. committing'[c] = [committing[c] EXCEPT !.lost = TRUE] /\ committing[c] \in CallType
      BY <1>1, <1>6, <2>2
    <3>2. /\ committing'[c].job = j /\ committing'[c].lost = TRUE /\ committing'[c].at = committing[c].at
          /\ committing'[c].confirmed = committing[c].confirmed /\ committing'[c].columns = committing[c].columns
      BY <2>2, <3>1 DEF CallType
    <3>3. Claims(c)
      BY <1>1, <1>3, <2>2 DEF CallsOK
    <3> QED
      BY <1>3, <1>4, <2>2, <3>2, <3>3 DEF Claims
  <2>3. CASE c # r /\ committing[c].job # j
    <3>1. committing'[c] = committing[c] /\ committing[c].job \in Jobs \cup {Nil}
      BY <1>1, <1>6, <2>3 DEF CallType
    <3>2. IF committing[c].job = Nil THEN committing[c].at = Nil ELSE Claims(c)
      BY <1>1 DEF CallsOK
    <3> QED
      BY <1>4, <2>3, <3>1, <3>2 DEF Claims
  <2> QED
    BY <2>1, <2>2, <2>3
<1>10. JobsOK' /\ AnalysesOK'
  BY <1>1, <1>2, <1>4, <1>8 DEF JobsOK, AnalysesOK
<1>11. BooksOK(shop)'
  BY <1>1, <1>2, <1>4, BooksFrame
<1>12. ImportTypeOK'
  BY <1>1, <1>2, <1>4, <1>7 DEF ImportTypeOK
<1> QED
  BY <1>9, <1>10, <1>11, <1>12 DEF ImportInv

LEMMA ClaimAgesInv ==
  ASSUME ImportInv, NEW j \in Jobs, ClaimAges(j)
  PROVE  ImportInv'
<1>1. /\ import \in [Jobs -> JobType] /\ ImportTypeOK /\ JobsOK /\ AnalysesOK /\ CallsOK /\ BooksOK(shop)
  BY DEF ImportInv, ImportTypeOK
<1>2. import' = [import EXCEPT ![j].stale = TRUE] /\ UNCHANGED <<analysing, committing, shop>>
  BY DEF ClaimAges
<1>3. import' \in [Jobs -> JobType]
  BY <1>1, <1>2, StaleSet
<1>4. \A i \in Jobs : /\ import'[i].status = import[i].status /\ import'[i].token = import[i].token
                      /\ import'[i].entity = import[i].entity /\ import'[i].columns = import[i].columns
  BY <1>1, <1>2 DEF JobType
<1>5. CallsOK'
  <2> SUFFICES ASSUME NEW c \in Requests
               PROVE  IF committing'[c].job = Nil THEN committing'[c].at = Nil ELSE Claims(c)'
    BY DEF CallsOK
  <2> QED
    BY <1>2, <1>4, ClaimsFrame
<1>6. BooksOK(shop)'
  BY <1>1, <1>2, <1>4, BooksFrame
<1> QED
  BY <1>1, <1>2, <1>3, <1>4, <1>5, <1>6 DEF ImportInv, ImportTypeOK, JobsOK, AnalysesOK

\* A call moves on while the jobs stay as they are.
LEMMA CallMoves ==
  ASSUME ImportInv, NEW r \in Requests, NEW new \in CallType, committing' = [committing EXCEPT ![r] = new],
         import' = import, IF new.job = Nil THEN new.at = Nil ELSE Claims(r)'
  PROVE  committing' \in [Requests -> CallType] /\ JobsOK' /\ CallsOK'
<1>1. committing \in [Requests -> CallType] /\ JobsOK /\ CallsOK
  BY DEF ImportInv, ImportTypeOK
<1>2. committing' \in [Requests -> CallType] /\ committing'[r] = new /\ \A c \in Requests \ {r} : committing'[c] = committing[c]
  BY <1>1
<1>3. CallsOK'
  <2> SUFFICES ASSUME NEW c \in Requests
               PROVE  IF committing'[c].job = Nil THEN committing'[c].at = Nil ELSE Claims(c)'
    BY DEF CallsOK
  <2>1. CASE c = r
    BY <1>2, <2>1
  <2>2. CASE c # r
    BY <1>2, <2>2, ClaimsFrame
  <2> QED
    BY <2>1, <2>2
<1> QED
  BY <1>1, <1>2, <1>3 DEF JobsOK

\* A claim is given back or given up; the job moves only if the claim was still held.
LEMMA CallEnds ==
  ASSUME ImportInv, NEW r \in Requests, committing[r].job # Nil, NEW s \in Statuses, s # Nil,
         committing' = [committing EXCEPT ![r] = NoCommit],
         LET j == committing[r].job
         IN  \/ import' = import
             \/ /\ import[j].status = "COMMITTING" /\ import[j].token = r
                /\ import' = [import EXCEPT ![j].status = s, ![j].token = Nil, ![j].stale = FALSE],
         UNCHANGED <<analysing, shop>>
  PROVE  ImportInv'
<1> DEFINE j == committing[r].job
<1>1. /\ import \in [Jobs -> JobType] /\ committing \in [Requests -> CallType] /\ committing[r] \in CallType
      /\ ImportTypeOK /\ JobsOK /\ AnalysesOK /\ CallsOK /\ BooksOK(shop)
  BY DEF ImportInv, ImportTypeOK
<1>2. j \in Jobs /\ NoCommit \in CallType /\ NoCommit.job = Nil /\ NoCommit.at = Nil
  BY <1>1 DEF CallType, NoCommit
<1>3. committing' \in [Requests -> CallType] /\ committing'[r] = NoCommit /\ \A c \in Requests \ {r} : committing'[c] = committing[c]
  BY <1>1, <1>2
<1>4. CASE import' = import
  <2>1. JobsOK' /\ CallsOK'
    BY <1>2, <1>4, CallMoves
  <2>2. BooksOK(shop)'
    BY <1>1, <1>4, BooksFrame
  <2> QED
    BY <1>1, <1>3, <1>4, <2>1, <2>2 DEF ImportInv, ImportTypeOK, AnalysesOK
<1>5. CASE /\ import[j].status = "COMMITTING" /\ import[j].token = r
           /\ import' = [import EXCEPT ![j].status = s, ![j].token = Nil, ![j].stale = FALSE]
  <2>1. /\ import' \in [Jobs -> JobType] /\ import'[j].status = s
        /\ import'[j].entity = import[j].entity /\ import'[j].columns = import[j].columns
        /\ \A i \in Jobs \ {j} : import'[i] = import[i]
    <3>1. import' = ClaimMoved(import, j, s, Nil)
      BY <1>5 DEF ClaimMoved
    <3> QED
      BY <1>1, <1>2, <3>1, ClaimSet
  <2>2. JobsOK'
    BY <1>1, <1>5, <2>1 DEF JobsOK, Nil
  <2>3. CallsOK'
    <3> SUFFICES ASSUME NEW c \in Requests
                 PROVE  IF committing'[c].job = Nil THEN committing'[c].at = Nil ELSE Claims(c)'
      BY DEF CallsOK
    <3>1. CASE c = r
      BY <1>2, <1>3, <3>1
    <3>2. CASE c # r
      BY <1>3, <1>5, <2>1, <3>2, ClaimsFrame
    <3> QED
      BY <3>1, <3>2
  <2>4. BooksOK(shop)'
    BY <1>1, <2>1, BooksFrame
  <2> QED
    BY <1>1, <1>3, <2>1, <2>2, <2>3, <2>4 DEF ImportInv, ImportTypeOK, AnalysesOK
<1> QED
  BY <1>4, <1>5

\* The call with what it read, or with the price rows it misses, and the point it reached.
Reached(call, at) == [call EXCEPT !.at = at]
LEMMA ReachedType ==
  ASSUME NEW call \in CallType, NEW at \in {"read", "checked", "applied"}, NEW new, new = Reached(call, at)
  PROVE  /\ new \in CallType /\ new.job = call.job /\ new.confirmed = call.confirmed /\ new.columns = call.columns
         /\ new.lost = call.lost /\ new.at = at
BY DEF Reached, CallType

LEMMA RowsReadInv ==
  ASSUME ImportInv, NEW r \in Requests, committing[r].job # Nil, RowsRead(r)
  PROVE  ImportInv'
<1> DEFINE call == committing[r]
           read == [call EXCEPT !.columns = import[call.job].columns]
           new == Reached(read, "read")
<1>1. /\ import \in [Jobs -> JobType] /\ committing \in [Requests -> CallType] /\ call \in CallType
      /\ ImportTypeOK /\ AnalysesOK /\ CallsOK /\ BooksOK(shop)
  BY DEF ImportInv, ImportTypeOK
<1>2. Claims(r) /\ call.job \in Jobs
  BY <1>1 DEF CallsOK, CallType
<1>3. /\ read \in CallType /\ read.job = call.job /\ read.confirmed = call.confirmed
      /\ read.columns = import[call.job].columns /\ read.lost = call.lost
  BY <1>1, <1>2 DEF CallType, Claims
<1>4. committing' = [committing EXCEPT ![r] = new] /\ UNCHANGED <<import, analysing, shop>>
  BY <1>1 DEF RowsRead, Reached
<1> HIDE DEF read
<1>5. /\ new \in CallType /\ new.job = call.job /\ new.confirmed = call.confirmed
      /\ new.columns = import[call.job].columns /\ new.lost = call.lost /\ new.at = "read"
  BY <1>3, ReachedType
<1> HIDE DEF new
<1>6. committing'[r] = new
  BY <1>1, <1>4
<1>7. Claims(r)'
  BY <1>2, <1>4, <1>5, <1>6 DEF Claims, Nil
<1>8. committing' \in [Requests -> CallType] /\ JobsOK' /\ CallsOK'
  BY <1>2, <1>4, <1>5, <1>7, CallMoves
<1>9. BooksOK(shop)'
  BY <1>1, <1>4, BooksFrame
<1> QED
  BY <1>1, <1>4, <1>8, <1>9 DEF ImportInv, ImportTypeOK, AnalysesOK

\* A call that has read its rows goes on with them.
LEMMA CallGoesOn ==
  ASSUME ImportInv, NEW r \in Requests, committing[r].at \in {"read", "checked"}, NEW new \in CallType,
         committing' = [committing EXCEPT ![r] = new], import' = import, new.at \in {"checked", "applied"},
         new.job = committing[r].job, new.confirmed = committing[r].confirmed, new.columns = committing[r].columns,
         new.lost = committing[r].lost
  PROVE  committing' \in [Requests -> CallType] /\ JobsOK' /\ CallsOK'
<1>1. committing \in [Requests -> CallType] /\ CallsOK
  BY DEF ImportInv, ImportTypeOK
<1>2. committing[r].job # Nil /\ Claims(r)
  BY <1>1 DEF CallsOK, Nil
<1>3. committing'[r] = new
  BY <1>1
<1>4. Claims(r)'
  BY <1>2, <1>3 DEF Claims, Nil
<1> QED
  BY <1>2, <1>4, CallMoves

LEMMA CommitRowsInv ==
  ASSUME ImportInv, NEW r \in Requests, ApplyRows(r) \/ commitPriceRow(r) \/ InsertPrices(r)
  PROVE  ImportInv'
<1> DEFINE call == committing[r]
           j == call.job
           file == import[j].file
           done == Reached(call, "applied")
<1>1. /\ import \in [Jobs -> JobType] /\ committing \in [Requests -> CallType] /\ call \in CallType /\ shop \in ShopType
      /\ ImportTypeOK /\ AnalysesOK /\ CallsOK /\ BooksOK(shop)
  BY DEF ImportInv, ImportTypeOK
<1>2. /\ done \in CallType /\ done.job = j /\ done.confirmed = call.confirmed
      /\ done.columns = call.columns /\ done.lost = call.lost /\ done.at = "applied"
  BY <1>1, ReachedType
<1>3. CASE ApplyRows(r)
  <2>1. /\ call.at = "read" /\ committing' = [committing EXCEPT ![r] = done] /\ UNCHANGED <<import, analysing>>
    BY <1>1, <1>3 DEF ApplyRows, Reached
  <2>2. committing' \in [Requests -> CallType] /\ JobsOK' /\ CallsOK'
    BY <1>2, <2>1, CallGoesOn
  <2>3. shop' \in ShopType /\ BooksOK(shop')
    BY <1>3, BooksAfterRows
  <2>4. BooksOK(shop)'
    BY <2>1, <2>3 DEF BooksOK, OpenedRow
  <2> QED
    BY <1>1, <2>1, <2>2, <2>3, <2>4 DEF ImportInv, ImportTypeOK, AnalysesOK
<1>4. CASE commitPriceRow(r)
  <2> DEFINE missing == {n \in DOMAIN file : stableImportID(j, n) \notin shop.price[file[n].key]}
             found == [call EXCEPT !.prices = missing]
             new == Reached(found, "checked")
  <2>1. /\ call.at = "read" /\ committing' = [committing EXCEPT ![r] = new] /\ UNCHANGED <<import, analysing, shop>>
    BY <1>1, <1>4 DEF commitPriceRow, Reached
  <2>2. j \in Jobs
    BY <1>1, <2>1 DEF CallsOK, CallType, Nil
  <2>3. file \in ImportFiles \cup {<< >>}
    BY <1>1, <2>2 DEF JobType
  <2>4. missing \subseteq RowNumbers
    <3>1. DOMAIN file \subseteq RowNumbers
      <4>1. DOMAIN file = 1 .. Len(file) /\ Len(file) \in 0 .. 2
        BY <2>3, FilesAreShort
      <4>2. \A l \in 0 .. 2 : 1 .. l \subseteq RowNumbers
        BY DEF RowNumbers
      <4> QED
        BY <4>1, <4>2
    <3> QED
      BY <3>1
  <2> HIDE DEF missing
  <2>5. found \in CallType /\ found.job = j /\ found.confirmed = call.confirmed /\ found.columns = call.columns /\ found.lost = call.lost
    BY <1>1, <2>4 DEF CallType
  <2> HIDE DEF found
  <2>6. /\ new \in CallType /\ new.job = j /\ new.confirmed = call.confirmed
        /\ new.columns = call.columns /\ new.lost = call.lost /\ new.at = "checked"
    BY <2>5, ReachedType
  <2> HIDE DEF new
  <2>7. committing' \in [Requests -> CallType] /\ JobsOK' /\ CallsOK'
    BY <2>1, <2>6, CallGoesOn
  <2>8. BooksOK(shop)'
    BY <1>1, <2>1, BooksFrame
  <2> QED
    BY <1>1, <2>1, <2>7, <2>8 DEF ImportInv, ImportTypeOK, AnalysesOK
<1>5. CASE InsertPrices(r)
  <2> DEFINE added(k) == {stableImportID(j, n) : n \in {x \in call.prices : file[x].key = k}}
             price == [k \in RowCodes |-> shop.price[k] \cup added(k)]
  <2>1. /\ call.at = "checked" /\ committing' = [committing EXCEPT ![r] = done] /\ UNCHANGED <<import, analysing>>
        /\ shop' = [shop EXCEPT !.price = price]
    BY <1>1, <1>5 DEF InsertPrices, Reached
  <2>2. j \in Jobs
    BY <1>1, <2>1 DEF CallsOK, CallType, Nil
  <2>3. ASSUME NEW k \in RowCodes PROVE added(k) \subseteq RowStamps
    BY <1>1, <2>2, RowStampsExist DEF CallType
  <2>4. price \in [RowCodes -> SUBSET RowStamps]
    BY <1>1, <2>3 DEF ShopType
  <2> HIDE DEF price
  <2>5. shop' \in ShopType /\ shop'.card = shop.card /\ shop'.posted = shop.posted
    BY <1>1, <2>1, <2>4 DEF ShopType
  <2>6. committing' \in [Requests -> CallType] /\ JobsOK' /\ CallsOK'
    BY <1>2, <2>1, CallGoesOn
  <2>7. BooksOK(shop)'
    BY <1>1, <2>1, <2>5, BooksFrame
  <2> QED
    BY <1>1, <2>1, <2>5, <2>6, <2>7 DEF ImportInv, ImportTypeOK, AnalysesOK
<1> QED
  BY <1>3, <1>4, <1>5

LEMMA CommitInv == ImportInv /\ CommitStep => ImportInv'
<1> SUFFICES ASSUME ImportInv, CommitStep PROVE ImportInv'
  OBVIOUS
<1>1. ASSUME NEW r \in Requests, NEW j \in Jobs, NEW m \in Columns, NEW allow \in BOOLEAN, claimCommit(r, j, m, allow)
      PROVE  ImportInv'
  BY <1>1, ClaimCommitInv
<1>2. ASSUME NEW r \in Requests, validImportRows(r) \/ openingStockImportLines(r) PROVE ImportInv'
  BY <1>2, RowsReadInv DEF validImportRows, openingStockImportLines
<1>3. ASSUME NEW r \in Requests, ApplyRows(r) \/ commitPriceRow(r) \/ InsertPrices(r) PROVE ImportInv'
  BY <1>3, CommitRowsInv
<1>4. ASSUME NEW r \in Requests, releaseCommit(r) PROVE ImportInv'
  <2>1. committing[r].job # Nil
    BY <1>4 DEF releaseCommit, ImportInv, CallsOK, Nil
  <2>2. "READY" \in Statuses /\ "READY" # Nil
    BY DEF Statuses, Nil
  <2> QED
    BY <1>4, <2>1, <2>2, CallEnds DEF releaseCommit
<1>5. ASSUME NEW r \in Requests, Finish(r) PROVE ImportInv'
  <2>1. committing[r].job # Nil
    BY <1>5 DEF Finish, ImportInv, CallsOK, Nil
  <2>2. "COMMITTED" \in Statuses /\ "COMMITTED" # Nil
    BY DEF Statuses, Nil
  <2> QED
    BY <1>5, <2>1, <2>2, CallEnds DEF Finish
<1>6. ASSUME NEW r \in Requests, CommitCrash(r) PROVE ImportInv'
  <2>1. "READY" \in Statuses /\ "READY" # Nil
    BY DEF Statuses, Nil
  <2> QED
    BY <1>6, <2>1, CallEnds DEF CommitCrash
<1>7. ASSUME NEW j \in Jobs, ClaimAges(j) PROVE ImportInv'
  BY <1>7, ClaimAgesInv
<1> QED
  BY <1>1, <1>2, <1>3, <1>4, <1>5, <1>6, <1>7 DEF CommitStep

\* Users leave the cards the postings name, and everything posted.
LEMMA KeepInv == ImportInv /\ KeepStep => ImportInv'
<1> SUFFICES ASSUME ImportInv, KeepStep PROVE ImportInv'
  OBVIOUS
<1>0. PICK k \in RowCodes :
        \/ \E kind \in {"PHYSICAL", "SERVICE", "VARIANTS"} : KeepCard(k, kind)
        \/ KeepVariant(k) \/ KeepHouse(k)
        \/ \E kind \in {"PERSON", "ORGANIZATION"}, b \in Marks \cup {NoMark} : KeepParty(k, kind, b)
  BY DEF KeepStep
<1>1. /\ ImportTypeOK /\ JobsOK /\ AnalysesOK /\ CallsOK /\ BooksOK(shop) /\ shop \in ShopType
      /\ shop.card \in [RowCodes -> KeptType] /\ shop.sku \in [RowCodes -> KeptType] /\ shop.house \in [RowCodes -> KeptType]
      /\ shop.party \in [RowCodes -> KeptType] /\ shop.number \in [RowCodes -> Marks \cup {NoMark}]
      /\ DOMAIN shop.posted = Jobs \X RowNumbers
  BY DEF ImportInv, ImportTypeOK, ShopType
<1>2. UNCHANGED <<import, analysing, committing>>
  BY <1>0 DEF KeepCard, KeepVariant, KeepHouse, KeepParty
<1>3. ASSUME shop' \in ShopType, BooksOK(shop)' PROVE ImportInv'
  <2>1. JobsOK' /\ AnalysesOK' /\ CallsOK'
    BY <1>1, <1>2 DEF JobsOK, AnalysesOK, CallsOK, Claims
  <2> QED
    BY <1>1, <1>2, <1>3, <2>1 DEF ImportInv, ImportTypeOK
<1>4. ASSUME shop' \in ShopType, shop'.card = shop.card, shop'.posted = shop.posted PROVE ImportInv'
  BY <1>1, <1>2, <1>3, <1>4, BooksFrame
<1>5. ByHand \in RowStamps
  BY RowStampsExist
<1>6. ASSUME NEW kind \in {"PHYSICAL", "SERVICE", "VARIANTS"}, KeepCard(k, kind) PROVE ImportInv'
  <2> DEFINE c == shop.card[k]
             kept == IF Known(c) THEN [c EXCEPT !.kind = kind] ELSE [id |-> ByHand, kind |-> kind, text |-> ByHand]
             cards == [shop.card EXCEPT ![k] = kept]
  <2>1. shop' = [shop EXCEPT !.card = cards] /\ \A t \in DOMAIN shop.posted : shop.posted[t].key # k
    BY <1>1, <1>6 DEF KeepCard
  <2>2. kept \in KeptType
    <3>1. c \in KeptType
      BY <1>1
    <3>2. [c EXCEPT !.kind = kind] \in KeptType
      BY <3>1 DEF KeptType
    <3>3. [id |-> ByHand, kind |-> kind, text |-> ByHand] \in KeptType
      BY <1>5 DEF KeptType
    <3> QED
      BY <3>2, <3>3
  <2> HIDE DEF kept
  <2>3. cards \in [RowCodes -> KeptType] /\ \A x \in RowCodes \ {k} : cards[x] = shop.card[x]
    BY <1>1, <2>2
  <2> HIDE DEF cards
  <2>4. shop' \in ShopType /\ shop'.card = cards /\ shop'.posted = shop.posted
    BY <1>1, <2>1, <2>3 DEF ShopType
  <2>5. BooksOK(shop)'
    <3> SUFFICES ASSUME NEW j \in Jobs, NEW n \in RowNumbers PROVE OpenedRow(shop, j, n)'
      BY DEF BooksOK
    <3>1. <<j, n>> \in Jobs \X RowNumbers
      OBVIOUS
    <3>2. OpenedRow(shop, j, n) /\ shop.posted[<<j, n>>].key # k
      BY <1>1, <2>1, <3>1 DEF BooksOK
    <3> QED
      BY <1>2, <2>3, <2>4, <3>2 DEF OpenedRow
  <2> QED
    BY <1>3, <2>4, <2>5
<1>7. ASSUME KeepVariant(k) PROVE ImportInv'
  <2> DEFINE s == [shop.sku EXCEPT ![k] = [id |-> ByHand, kind |-> "y", text |-> ByHand]]
  <2>1. shop' = [shop EXCEPT !.sku = s]
    BY <1>7 DEF KeepVariant
  <2>2. s \in [RowCodes -> KeptType]
    BY <1>1, <1>5 DEF KeptType
  <2> HIDE DEF s
  <2> QED
    BY <1>1, <1>4, <2>1, <2>2 DEF ShopType
<1>8. ASSUME KeepHouse(k) PROVE ImportInv'
  <2> DEFINE h == shop.house[k]
             kept == [h EXCEPT !.kind = IF h.kind = "open" THEN "closed" ELSE "open"]
             s == [shop.house EXCEPT ![k] = kept]
  <2>1. shop' = [shop EXCEPT !.house = s]
    BY <1>8 DEF KeepHouse
  <2>2. kept \in KeptType
    <3>1. h \in KeptType
      BY <1>1
    <3> QED
      BY <3>1 DEF KeptType
  <2> HIDE DEF kept
  <2>3. s \in [RowCodes -> KeptType]
    BY <1>1, <2>2
  <2> HIDE DEF s
  <2> QED
    BY <1>1, <1>4, <2>1, <2>3 DEF ShopType
<1>9. ASSUME NEW kind \in {"PERSON", "ORGANIZATION"}, NEW b \in Marks \cup {NoMark}, KeepParty(k, kind, b) PROVE ImportInv'
  <2> DEFINE s == [shop.party EXCEPT ![k] = [id |-> ByHand, kind |-> kind, text |-> ByHand]]
             u == [shop.number EXCEPT ![k] = b]
  <2>1. shop' = [shop EXCEPT !.party = s, !.number = u]
    BY <1>9 DEF KeepParty
  <2>2. s \in [RowCodes -> KeptType] /\ u \in [RowCodes -> Marks \cup {NoMark}]
    BY <1>1, <1>5 DEF KeptType
  <2> HIDE DEF s, u
  <2> QED
    BY <1>1, <1>4, <2>1, <2>2 DEF ShopType
<1> QED
  BY <1>0, <1>6, <1>7, <1>8, <1>9

\* However often a job is claimed, retried or raced, a row of its file opens stock at most
\* once, on the card its own row created and with the quantity that was confirmed
\* (claimCommit, commitCatalogImport, importedOpeningStock).
THEOREM ImportsApplyOnce == ImportSpec => []AppliedOnce
<1>1. ImportInit => ImportInv
  BY ImportInvInit
<1>2. ImportInv /\ [ImportStep]_importVars => ImportInv'
  <2> SUFFICES ASSUME ImportInv, [ImportStep]_importVars PROVE ImportInv'
    OBVIOUS
  <2>1. ASSUME NEW j \in Jobs, NEW e \in Entities, NEW file \in ImportFiles, Upload(j, e, file) PROVE ImportInv'
    BY <2>1, UploadInv
  <2>2. CASE UNCHANGED importVars
    BY <2>2 DEF importVars, ImportInv, ImportTypeOK, JobsOK, AnalysesOK, CallsOK, Claims, BooksOK, OpenedRow
  <2> QED
    BY <2>1, <2>2, AnalyzeInv, CommitInv, KeepInv DEF ImportStep
<1>3. ImportInv => AppliedOnce
  BY DEF ImportInv, BooksOK, OpenedRow, AppliedOnce
<1> QED
  BY <1>1, <1>2, <1>3, PTL DEF ImportSpec
=============================================================================
