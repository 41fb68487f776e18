----------------------------- MODULE MCRegistry -----------------------------
(* What the trade refers to: users and companies, parties, the catalogue,    *)
(* files imported into it, pictures, leads.  A scene acts one part out, some *)
(* from a state further on.  Most parts keep to their own tables; the import *)
(* also writes the catalogue's, and Catalogue acts out what its rows do      *)
(* there.                                                                    *)
EXTENDS Parties, Identity, Crm, Catalogue, Imports, Media, TLC

VARIABLE scene
partyVars == <<cardVars, bookVars>>
userVars == <<officeVars, doorVars>>
crmVars == <<leadVars, pipeVars>>
goodsVars == <<articleVars, priceVars, taxVars>>

MCRate == [TRY |-> 1, USD |-> 2]
MCPhone == [l \in Leads |-> "n"]
MCMaxAttempts == [x |-> 1, y |-> 2]
MCStageKind == [o |-> "OPEN", p |-> "OPEN", w |-> "WON", x |-> "LOST"]
MCTraitOptions == [d |-> {"a", "b"}]
MCActor == [r1 |-> "u1", r2 |-> "u2"]
MCOpeningColumn == [one |-> 1, two |-> 2, none |-> 0]
PlainFile == <<[key |-> "p", mark |-> NoMark]>>
MCImportFiles ==
    {PlainFile, <<[key |-> "p", mark |-> "b"]>>, <<[key |-> "p", mark |-> "b"], [key |-> "q", mark |-> "b"]>>}

(* Two active partners with a card each *)
TwoPartners ==
    /\ party = [p \in Partners |-> [NoCard EXCEPT !.state = "active", !.code = IF p = "p1" THEN 1 ELSE 2, !.version = 1]]
    /\ nextNumber = 3
    /\ group = [g \in Groups |-> "active"] /\ field = [f \in Fields |-> "optional"]
    /\ form = [u \in Clerks |-> NoForm] /\ saving = [p \in Partners |-> NoClerk]
(* New leads and empty lists *)
NewLeads ==
    /\ lead = [l \in Leads |-> [NoLead EXCEPT !.status = "NEW"]] /\ task = [l \in Leads |-> "none"]
    /\ list = [q \in Lists |-> "active"] /\ item = [q \in Lists |-> [l \in Leads |-> NoItem]]
    /\ claim = [r \in Reps |-> NoClaim] /\ adding = [q \in Lists |-> {}]
(* One card without variants *)
OneArticle ==
    /\ article = [p \in Articles |->
                    IF p = "p" THEN [NoArticle EXCEPT !.kind = "PHYSICAL", !.active = TRUE, !.number = 1] ELSE NoArticle]
    /\ series = 2 /\ shelf = Shelves
    /\ trait = [d \in Traits |-> Absent] /\ option = [d \in Traits |-> [o \in TraitOptions[d] |-> Absent]]
    /\ sku = [v \in Skus |-> NoSku] /\ barcode = [b \in Barcodes |-> Unprinted]
    /\ setting = NoSetting /\ posting = NoPosting /\ stock = {}

PartyScenes == {"settings", "cards", "books"}
UserScenes == {"companies", "office", "door"}
CrmScenes == {"leads", "calls", "two", "pipe"}
GoodsScenes == {"articles", "variants", "prices", "taxes"}
ImportScenes == {"race", "retry", "kinds", "lists"}

MCInit ==
    /\ scene \in PartyScenes \cup UserScenes \cup CrmScenes \cup GoodsScenes \cup ImportScenes \cup {"pictures"}
    /\ BookInit /\ OfficeInit /\ DoorInit /\ PipeInit /\ PriceInit /\ TaxInit /\ ImportInit /\ MediaInit
    /\ IF scene \in {"cards", "books"} THEN TwoPartners ELSE CardInit
    /\ IF scene \in {"calls", "two", "pipe"} THEN NewLeads ELSE LeadInit
    /\ IF scene = "variants" THEN OneArticle ELSE ArticleInit
-----------------------------------------------------------------------------
NewCards ==
    \E p \in Partners :
        \/ \E c \in 0 .. MaxCode, in \in Inputs : Create(p, c, in)
        \/ \E v \in 1 .. MaxChanges : Deactivate(p, v) \/ Activate(p, v)
\* A reader of the whole period or its last day; one entry in foreign currency.
WidePeriod ==
    /\ reading' # NoReading => reading'.to = 2 /\ (reading'.kind = "list" => reading'.from = 1)
    /\ \A e \in book' : e.cur = "USD" => e.id = 3
PartyNext ==
    /\ \/ scene = "settings" /\ (SettingsStep \/ NewCards) /\ UNCHANGED bookVars
       \/ scene = "cards" /\ CardStep /\ UNCHANGED bookVars
       \/ scene = "books" /\ BookStep /\ WidePeriod /\ UNCHANGED cardVars
    /\ UNCHANGED <<userVars, crmVars, goodsVars, importVars, mediaVars>>

UserNext ==
    /\ \/ /\ scene = "companies" /\ UNCHANGED doorVars
          /\ CompanyStep \/ \E s \in Seats, t \in Tokens : CreateAPIToken(s, t, {})
       \/ /\ scene = "office" /\ UNCHANGED doorVars
          /\ StaffStep \/ \E s \in Seats, u \in Users : Setup(s, 1, "own") \/ OpenSession(s, u)
       \/ scene = "door" /\ DoorStep /\ UNCHANGED officeVars
    /\ UNCHANGED <<partyVars, crmVars, goodsVars, importVars, mediaVars>>

LeadsNext ==
    \/ \E r \in Reps : LeadStep(r, "a")
    \/ \E d \in BOOLEAN, row \in {"NEW", "refuses"} : CreateLead(Chief, "b", d) \/ ImportLeads(Chief, "b", row, "x", d)
    \/ SetDoNotCall("r2", "b", TRUE)
\* A call back is agreed upon only as the outcome of that name.
CallsNext ==
    \/ \E r \in Reps :
          \/ \E c \in callOutcomes, q \in Lists \cup {"none"} : LogCall(r, "a", c, c = "CALLBACK", q)
          \/ ClaimNext(r) \/ \E q \in Lists, s \in BOOLEAN : ReleaseItem(r, q, "a", s)
    \/ \E q \in Lists : QueueStep(q, {"a"})
TwoNext ==
    \/ \E r \in Reps : ClaimNext(r) \/ \E l \in Leads, s \in BOOLEAN : ReleaseItem(r, "x", l, s)
    \/ QueueStep("x", Leads) \/ ListStep("x", Leads)
\* In the pipeline the won stage alone comes and goes.
CrmNext ==
    /\ \/ scene = "leads" /\ LeadsNext /\ UNCHANGED pipeVars
       \/ scene = "calls" /\ CallsNext /\ UNCHANGED pipeVars
       \/ scene = "two" /\ TwoNext /\ UNCHANGED pipeVars
       \/ /\ scene = "pipe"
          /\ (PipeStep /\ UNCHANGED leadVars) \/ ConvertLead(Chief, "a")
          /\ \A o \in Opps : opp'[o].of # "b"
          /\ {"o", "p", "x"} \subseteq stage'
    /\ UNCHANGED <<partyVars, userVars, goodsVars, importVars, mediaVars>>

VariantsNext ==
    \/ SettingStep("p") \/ VariantStep("p")
    \/ \E d \in Traits : TraitStep(d) \/ SwitchStep(d)
    \/ \E codes \in SUBSET Barcodes : UpdateProduct("p", "PHYSICAL", codes, Absent, 1, TRUE)
\* A price list starts in one of two like currencies.
GoodsNext ==
    /\ \/ scene = "articles" /\ (\E p \in Articles : ArticleStep(p)) /\ UNCHANGED <<priceVars, taxVars>>
       \/ scene = "variants" /\ VariantsNext /\ UNCHANGED <<priceVars, taxVars>>
       \/ /\ scene = "prices" /\ PriceStep /\ UNCHANGED <<articleVars, taxVars>>
          /\ \A l \in Tariffs : tariff[l] = NoTariff => tariff'[l].currency # "USD"
          /\ switching'.on # Absent => switching'.currency # tariff[switching'.on].currency
       \/ scene = "taxes" /\ TaxStep /\ UNCHANGED <<articleVars, priceVars>>
    /\ UNCHANGED <<partyVars, userVars, crmVars, importVars, mediaVars>>

Uses(entities, jobs, files) == \E e \in entities, j \in jobs, f \in files : Upload(j, e, f)
KeepBooks ==
    \/ \E kind \in {"PHYSICAL", "SERVICE", "VARIANTS"} : KeepCard("p", kind)
    \/ KeepVariant("p") \/ KeepHouse("p")
    \/ \E kind \in {"PERSON", "ORGANIZATION"}, b \in Marks \cup {NoMark} : KeepParty("p", kind, b)
ImportNext ==
    /\ \/ scene = "race" /\ (Uses({"PRODUCT"}, Jobs, {PlainFile}) \/ AnalyzeStep \/ CommitStep)
       \/ /\ scene = "retry"
          /\ Uses({"PRODUCT", "OPENING_STOCK"}, {"j1"}, {PlainFile}) \/ AnalyzeStep \/ CommitStep \/ KeepCard("p", "PHYSICAL")
       \/ /\ scene = "kinds"
          /\ Uses(Entities \ {"PRICE_LIST"}, {"j1"}, ImportFiles) \/ AnalyzeStep \/ CommitStep \/ KeepBooks
          /\ Idle("r2")'
       \/ /\ scene = "lists"
          /\ Uses({"PRICE_LIST"}, Jobs, {PlainFile}) \/ AnalyzeStep \/ CommitStep \/ KeepCard("p", "PHYSICAL")
    /\ scene # "retry" => \A r \in Requests : analysing'[r].columns # "two"
    /\ UNCHANGED <<partyVars, userVars, crmVars, goodsVars, mediaVars>>

PictureNext ==
    /\ scene = "pictures" /\ MediaStep
    /\ UNCHANGED <<partyVars, userVars, crmVars, goodsVars, importVars>>

MCNext == (PartyNext \/ UserNext \/ CrmNext \/ GoodsNext \/ ImportNext \/ PictureNext) /\ UNCHANGED scene
MCSpec == MCInit /\ [][MCNext]_<<scene, partyVars, userVars, crmVars, goodsVars, importVars, mediaVars>>
=============================================================================
