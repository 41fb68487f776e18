--------------------------- MODULE RecordsProofs ----------------------------
(***************************************************************************)
(* Records that two users, or a user and a failure, can bring out of step: *)
(* the custody of assets against forms that were read before it changed;   *)
(* the rows of pictures against their files and against one another; the   *)
(* mails of two batches against each other and the printed files against   *)
(* their rows; the cached rates against the success that is on record; an  *)
(* order against its documents, reservations and stock; a customer's debt  *)
(* against the limit; a payroll against its inputs, the advances it        *)
(* settles and the cash both moved.  For every value of the constants.     *)
(***************************************************************************)
EXTENDS FixedAssets, Media, Delivery, Exchange, Customers, Sales, Payroll, SumTheorems,
        FiniteSetTheorems, SequenceTheorems, TLAPS

USE FixedAssetsAssumption

\* A set whose members are all equal has at most one.
LEMMA AtMostOne ==
  ASSUME NEW S, \A x, y \in S : x = y
  PROVE  Cardinality(S) <= 1
<1>1. CASE S = {}
  BY <1>1, FS_EmptySet
<1>2. CASE S # {}
  <2>1. PICK x \in S : TRUE
    BY <1>2
  <2>2. S = {x}
    BY <2>1
  <2> QED
    BY <2>2, FS_Singleton
<1> QED
  BY <1>1, <1>2
-----------------------------------------------------------------------------
(* Assets and their custody.  A card changes its version whenever custody     *)
(* changes, so a form whose version still fits looked at today's custody.     *)

AssetStatuses == {"none", "ASSIGNED"} \cup editableStatuses
ThingType == [status: AssetStatuses, version: Nat]
CustodyType == Seq([holder: Holders, returned: BOOLEAN])
FormType == {NoEdit} \cup [of: Things, version: Nat, status: {"", "ASSIGNED"} \cup editableStatuses]

AssetTypeOK ==
    /\ thing \in [Things -> ThingType]
    /\ custody \in [Things -> CustodyType]
    /\ editing \in [Editors -> FormType]
    /\ holder \subseteq Holders

\* Assets nobody has, and assets one employee has.
Handed(t) == \E n \in DOMAIN custody[t] : ~custody[t][n].returned
CardOK(t) ==
    /\ thing[t].status = "ASSIGNED" <=> Handed(t)
    /\ \A m, n \in DOMAIN custody[t] : ~custody[t][m].returned /\ ~custody[t][n].returned => m = n

\* A form was read from a card that exists; if no version came since, the status
\* it wants fits the custody of now.
FormOK(e) ==
    editing[e] # NoEdit =>
        /\ editing[e].of \in Things /\ editing[e].version \in Nat
        /\ thing[editing[e].of].status # "none"
        /\ editing[e].version <= thing[editing[e].of].version
        /\ editing[e].status # "" /\ editing[e].version = thing[editing[e].of].version
              => (editing[e].status = "ASSIGNED" <=> Handed(editing[e].of))

CustodyInv == AssetTypeOK /\ (\A t \in Things : CardOK(t)) /\ (\A e \in Editors : FormOK(e))

\* The code finds a custody that is not returned exactly when there is one.
LEMMA HeldIsActive == \A t : hasActive(t) <=> Handed(t)
BY DEF hasActive, OpenCustody, Handed

\* The invariant says what CustodyIsOne says.
LEMMA CustodyInvImplies == CustodyInv => CustodyIsOne
<1> SUFFICES ASSUME CustodyInv, NEW t \in Things
             PROVE  /\ Cardinality(OpenCustody(t)) <= 1
                    /\ (thing[t].status = "ASSIGNED") = hasActive(t)
  BY DEF CustodyIsOne
<1>1. CardOK(t)
  BY DEF CustodyInv
<1>2. Cardinality(OpenCustody(t)) <= 1
  <2>1. \A m, n \in OpenCustody(t) : m = n
    BY <1>1 DEF CardOK, OpenCustody
  <2> QED
    BY <2>1, AtMostOne
<1>3. (thing[t].status = "ASSIGNED") = hasActive(t)
  <2>1. thing[t].status = "ASSIGNED" <=> hasActive(t)
    BY <1>1, HeldIsActive DEF CardOK
  <2>2. hasActive(t) \in BOOLEAN
    BY DEF hasActive
  <2> QED
    BY <2>1, <2>2
<1> QED
  BY <1>2, <1>3

\* Nothing is registered or handed out at the start.
LEMMA CustodyInit == AssetInit => CustodyInv
<1> SUFFICES ASSUME AssetInit PROVE CustodyInv
  OBVIOUS
<1>1. AssetTypeOK
  BY DEF AssetInit, AssetTypeOK, ThingType, AssetStatuses, CustodyType, FormType
<1>2. ASSUME NEW t \in Things PROVE CardOK(t)
  BY <1>2 DEF AssetInit, CardOK, Handed
<1>3. ASSUME NEW e \in Editors PROVE FormOK(e)
  BY <1>3 DEF AssetInit, FormOK
<1> QED
  BY <1>1, <1>2, <1>3 DEF CustodyInv

\* A card that gets a new version, or its first, with a status that fits the
\* custody leaves nothing wrong with the others or with the forms.
LEMMA CardMoves ==
  ASSUME CustodyInv, NEW t \in Things, NEW card \in ThingType, NEW history \in CustodyType,
         thing' = [thing EXCEPT ![t] = card], custody' = [custody EXCEPT ![t] = history],
         editing' \in [Editors -> FormType], \A e \in Editors : editing'[e] \in {editing[e], NoEdit},
         holder' \subseteq Holders,
         card.version > thing[t].version, card.status # "none", CardOK(t)'
  PROVE  CustodyInv'
<1>0. /\ thing \in [Things -> ThingType] /\ custody \in [Things -> CustodyType]
      /\ \A s \in Things : thing[s].version \in Nat /\ CardOK(s)
      /\ card.version \in Nat
  BY DEF CustodyInv, AssetTypeOK, ThingType
<1>1. \A s \in Things : s # t => thing'[s] = thing[s] /\ custody'[s] = custody[s]
  BY <1>0
<1>2. thing'[t] = card /\ custody'[t] = history
  BY <1>0
<1>3. AssetTypeOK'
  BY <1>0 DEF AssetTypeOK
<1>4. ASSUME NEW s \in Things PROVE CardOK(s)'
  BY <1>0, <1>1 DEF CardOK, Handed
<1>5. ASSUME NEW e \in Editors PROVE FormOK(e)'
  <2> SUFFICES ASSUME editing'[e] # NoEdit PROVE FormOK(e)'
    BY DEF FormOK
  <2>1. editing'[e] = editing[e] /\ FormOK(e)
    BY DEF CustodyInv
  <2>2. CASE editing[e].of = t
    <3>1. /\ editing'[e].of = t /\ editing'[e].version \in Nat
          /\ editing'[e].version <= thing[t].version /\ thing'[t] = card
      BY <1>2, <2>1, <2>2 DEF FormOK
    <3>2. editing'[e].version < thing'[t].version /\ thing'[t].status # "none"
      BY <1>0, <3>1
    <3>3. editing'[e].version <= thing'[t].version /\ editing'[e].version # thing'[t].version
      BY <1>0, <3>1, <3>2
    <3> QED
      BY <3>1, <3>2, <3>3 DEF FormOK
  <2>3. CASE editing[e].of # t
    <3>1. editing[e] # NoEdit /\ editing[e].of \in Things
      BY <1>2, <2>1 DEF FormOK
    <3>2. thing'[editing[e].of] = thing[editing[e].of] /\ custody'[editing[e].of] = custody[editing[e].of]
      BY <1>1, <2>3, <3>1
    <3>3. Handed(editing[e].of)' <=> Handed(editing[e].of)
      BY <2>1, <3>2 DEF Handed
    <3> QED
      BY <2>1, <3>2, <3>3 DEF FormOK
  <2> QED
    BY <2>2, <2>3
<1> QED
  BY <1>3, <1>4, <1>5 DEF CustodyInv

\* Opening a form, or looking the custody up for one, moves no card.
LEMMA FormMoves ==
  ASSUME CustodyInv, NEW e \in Editors, UNCHANGED <<thing, custody, holder>>,
         NEW form \in FormType, editing' = [editing EXCEPT ![e] = form], FormOK(e)'
  PROVE  CustodyInv'
<1>1. editing \in [Editors -> FormType]
  BY DEF CustodyInv, AssetTypeOK
<1>2. AssetTypeOK'
  BY <1>1 DEF CustodyInv, AssetTypeOK
<1>3. \A t \in Things : CardOK(t)'
  BY DEF CustodyInv, CardOK, Handed
<1>4. ASSUME NEW f \in Editors PROVE FormOK(f)'
  <2>1. CASE f # e
    BY <1>1, <2>1 DEF CustodyInv, FormOK, Handed
  <2> QED
    BY <2>1
<1> QED
  BY <1>2, <1>3, <1>4 DEF CustodyInv

\* Every step on a card or a custody keeps the invariant.
LEMMA CustodyNext == ASSUME CustodyInv, [AssetStep]_assetVars PROVE CustodyInv'
<1>0. /\ thing \in [Things -> ThingType] /\ custody \in [Things -> CustodyType]
      /\ editing \in [Editors -> FormType] /\ holder \subseteq Holders
      /\ \A t \in Things : CardOK(t) /\ thing[t] \in ThingType /\ custody[t] \in CustodyType
      /\ \A t \in Things : thing[t].version \in Nat /\ thing[t].status \in AssetStatuses
      /\ \A e \in Editors : FormOK(e) /\ editing[e] \in FormType
  BY DEF CustodyInv, AssetTypeOK, ThingType
<1>1. ASSUME NEW t \in Things, NEW status \in editableStatuses, CreateAsset(t, status)
      PROVE  CustodyInv'
  <2> DEFINE card == [status |-> status, version |-> 1]
  <2>1. thing[t].status = "none" /\ UNCHANGED <<custody, holder, editing>>
        /\ thing' = [thing EXCEPT ![t] = card]
    BY <1>1 DEF CreateAsset
  <2>2. card \in ThingType /\ card.status # "none" /\ card.status # "ASSIGNED"
    BY DEF ThingType, AssetStatuses, editableStatuses
  <2>3. CardOK(t)'
    BY <1>0, <2>1, <2>2 DEF CardOK, Handed
  <2>4. \A s \in Things : s # t => thing'[s] = thing[s]
    BY <1>0, <2>1
  <2>5. \A s \in Things : CardOK(s)'
    BY <1>0, <2>1, <2>3, <2>4 DEF CardOK, Handed
  <2>6. \A e \in Editors : editing[e] # NoEdit => editing[e].of # t
    BY <1>0, <2>1 DEF FormOK
  <2>7. \A e \in Editors : FormOK(e)'
    BY <1>0, <2>1, <2>4, <2>6 DEF FormOK, Handed
  <2>8. AssetTypeOK'
    BY <1>0, <2>1, <2>2 DEF AssetTypeOK
  <2> QED
    BY <2>5, <2>7, <2>8 DEF CustodyInv
<1>2. ASSUME NEW e \in Editors, NEW t \in Things, GetAsset(e, t) PROVE CustodyInv'
  <2> DEFINE form == [of |-> t, version |-> thing[t].version, status |-> ""]
  <2>1. /\ thing[t].status # "none" /\ UNCHANGED <<thing, custody, holder>>
        /\ editing' = [editing EXCEPT ![e] = form] /\ editing'[e] = form
    BY <1>0, <1>2 DEF GetAsset
  <2>2. /\ form \in FormType /\ form.status = "" /\ form.of = t /\ form.version = thing[t].version
        /\ thing[t].version \in Nat /\ thing[t].version <= thing[t].version
    <3>1. thing[t].version \in Nat
      BY <1>0
    <3>2. form \in FormType
      BY <3>1 DEF FormType
    <3>3. form.status = "" /\ form.of = t /\ form.version = thing[t].version
      OBVIOUS
    <3>4. thing[t].version <= thing[t].version
      BY <3>1
    <3> QED
      BY ONLY <3>1, <3>2, <3>3, <3>4
  <2> HIDE DEF form
  <2>3. FormOK(e)'
    BY <1>0, <2>1, <2>2 DEF FormOK
  <2> QED
    BY <2>1, <2>2, <2>3, FormMoves
<1>3. ASSUME NEW e \in Editors, NEW status \in editableStatuses \cup {"ASSIGNED"}, Update(e, status)
      PROVE  CustodyInv'
  <2> DEFINE t == editing[e].of
             form == [editing[e] EXCEPT !.status = status]
  <2>1. /\ editing[e] # NoEdit /\ UNCHANGED <<thing, custody, holder>>
        /\ t \in Things
    BY <1>0, <1>3 DEF Update, FormOK
  <2>2. \/ editing' = [editing EXCEPT ![e] = NoEdit]
        \/ /\ editing' = [editing EXCEPT ![e] = form]
           /\ status = "ASSIGNED" <=> Handed(t)
    BY <1>3, HeldIsActive DEF Update
  <2>3. CASE editing' = [editing EXCEPT ![e] = NoEdit]
    BY <1>0, <2>1, <2>3, FormMoves DEF FormType, FormOK
  <2>4. CASE editing' = [editing EXCEPT ![e] = form] /\ (status = "ASSIGNED" <=> Handed(t))
    <3>1. editing[e] \in [of: Things, version: Nat, status: {"", "ASSIGNED"} \cup editableStatuses]
      BY <1>0, <2>1 DEF FormType
    <3>2. form \in FormType /\ form.status = status /\ form.of = t /\ form.version = editing[e].version
      BY <3>1 DEF FormType
    <3>3. editing'[e] = form
      BY <1>0, <2>4
    <3> HIDE DEF form
    <3>4. FormOK(e)'
      BY <1>0, <2>1, <2>4, <3>2, <3>3 DEF FormOK, Handed
    <3> QED
      BY <2>1, <2>4, <3>2, <3>4, FormMoves
  <2> QED
    BY <2>2, <2>3, <2>4
<1>4. ASSUME NEW e \in Editors, UpdateCard(e) PROVE CustodyInv'
  <2>1. editing[e] # NoEdit /\ editing[e].status # ""
    <3>1. editing[e].status # ""
      BY <1>4 DEF UpdateCard
    <3>2. NoEdit.status = ""
      BY DEF NoEdit
    <3> QED
      BY <3>1, <3>2
  <2>0. PICK t \in Things : t = editing[e].of
    BY <1>0, <2>1 DEF FormOK
  <2> DEFINE card == [status |-> editing[e].status, version |-> thing[t].version + 1]
  <2>2. editing[e].status \in AssetStatuses \ {"none"}
    BY <1>0, <2>1 DEF FormType, AssetStatuses, editableStatuses
  <2>3. /\ UNCHANGED <<custody, holder>> /\ editing' = [editing EXCEPT ![e] = NoEdit]
        /\ thing[t].version # editing[e].version => UNCHANGED thing
        /\ thing[t].version = editing[e].version => thing' = [thing EXCEPT ![t] = card]
    BY <1>4, <2>0 DEF UpdateCard
  <2>4. CASE thing[t].version # editing[e].version
    BY <1>0, <2>3, <2>4, FormMoves DEF FormType, FormOK
  <2>5. CASE thing[t].version = editing[e].version
    <3>1. card \in ThingType /\ card.version > thing[t].version /\ card.status = editing[e].status
      BY <1>0, <2>2 DEF ThingType
    <3>2. thing'[t] = card /\ (editing[e].status = "ASSIGNED" <=> Handed(t))
      BY <1>0, <2>0, <2>1, <2>2, <2>3, <2>5 DEF FormOK
    <3>3. CardOK(t)'
      BY <1>0, <2>2, <2>3, <3>1, <3>2 DEF CardOK, Handed
    <3>4. custody' = [custody EXCEPT ![t] = custody[t]] /\ custody[t] \in CustodyType
      BY <1>0, <2>2, <2>3
    <3>5. /\ editing' \in [Editors -> FormType]
          /\ \A f \in Editors : editing'[f] \in {editing[f], NoEdit}
      BY <1>0, <2>3 DEF FormType
    <3>6. card.status # "none"
      BY <2>2, <3>1
    <3>7. thing' = [thing EXCEPT ![t] = card]
      BY <2>3, <2>5
    <3> HIDE DEF card
    <3> QED
      BY <1>0, <2>2, <2>3, <3>1, <3>3, <3>4, <3>5, <3>6, <3>7, CardMoves
  <2> QED
    BY <2>4, <2>5
<1>5. ASSUME NEW t \in Things, NEW h \in Holders, Assign(t, h) PROVE CustodyInv'
  <2> DEFINE card == [status |-> "ASSIGNED", version |-> thing[t].version + 1]
             turn == [holder |-> h, returned |-> FALSE]
             history == Append(custody[t], turn)
  <2>1. /\ ~Handed(t) /\ UNCHANGED <<holder, editing>>
        /\ custody' = [custody EXCEPT ![t] = history] /\ thing' = [thing EXCEPT ![t] = card]
    BY <1>5, HeldIsActive DEF Assign
  <2>2. /\ card \in ThingType /\ card.version > thing[t].version /\ card.status = "ASSIGNED"
    BY <1>0 DEF ThingType, AssetStatuses
  <2>3. /\ history \in CustodyType /\ DOMAIN history = 1..(Len(custody[t]) + 1)
        /\ DOMAIN custody[t] = 1..Len(custody[t]) /\ Len(custody[t]) \in Nat
        /\ ~history[Len(custody[t]) + 1].returned
        /\ \A n \in 1..Len(custody[t]) : history[n] = custody[t][n]
    <3>1. turn \in [holder: Holders, returned: BOOLEAN] /\ ~turn.returned
      OBVIOUS
    <3>2. custody[t] \in Seq([holder: Holders, returned: BOOLEAN])
      BY <1>0 DEF CustodyType
    <3> HIDE DEF turn
    <3>3. /\ history \in Seq([holder: Holders, returned: BOOLEAN])
          /\ Len(history) = Len(custody[t]) + 1
          /\ \A n \in 1..Len(custody[t]) : history[n] = custody[t][n]
          /\ history[Len(custody[t]) + 1] = turn
      BY <3>1, <3>2, AppendProperties
    <3> QED
      BY <3>1, <3>2, <3>3, LenProperties DEF CustodyType
  <2>4. custody'[t] = history /\ thing'[t] = card
    BY <1>0, <2>1
  <2> HIDE DEF history, card
  <2>5. \A n \in DOMAIN history : ~history[n].returned <=> n = Len(custody[t]) + 1
    BY <2>1, <2>3 DEF Handed
  <2>6. CardOK(t)'
    BY <2>2, <2>3, <2>4, <2>5 DEF CardOK, Handed
  <2> QED
    BY <1>0, <2>1, <2>2, <2>3, <2>6, CardMoves
<1>6. ASSUME NEW t \in Things, NEW n \in 1..MaxCustody, Return(t, n) PROVE CustodyInv'
  <2> DEFINE card == [status |-> "AVAILABLE", version |-> thing[t].version + 1]
             turn == [custody[t][n] EXCEPT !.returned = TRUE]
             history == [custody[t] EXCEPT ![n] = turn]
  <2>1. /\ n \in DOMAIN custody[t] /\ ~custody[t][n].returned /\ UNCHANGED <<holder, editing>>
        /\ custody' = [custody EXCEPT ![t] = history]
    BY <1>6 DEF Return, OpenCustody
  <2>2. thing[t].status = "ASSIGNED"
    BY <1>0, <2>1 DEF CardOK, Handed
  <2>3. thing' = [thing EXCEPT ![t] = card]
    BY <1>6, <2>2 DEF Return
  <2>4. card \in ThingType /\ card.version > thing[t].version /\ card.status = "AVAILABLE"
    BY <1>0 DEF ThingType, AssetStatuses, editableStatuses
  <2>5. /\ history \in CustodyType /\ DOMAIN history = DOMAIN custody[t] /\ history[n].returned
        /\ \A m \in DOMAIN history : m # n => history[m] = custody[t][m]
    <3>1. custody[t] \in Seq([holder: Holders, returned: BOOLEAN]) /\ n \in 1..Len(custody[t])
      <4>1. custody[t] \in Seq([holder: Holders, returned: BOOLEAN])
        BY <1>0 DEF CustodyType
      <4> QED
        BY <2>1, <4>1, LenProperties
    <3>2. custody[t][n] \in [holder: Holders, returned: BOOLEAN]
      BY <3>1, ElementOfSeq
    <3>3. turn \in [holder: Holders, returned: BOOLEAN] /\ turn.returned
      BY <3>2
    <3> HIDE DEF turn
    <3>4. history \in Seq([holder: Holders, returned: BOOLEAN])
      BY <3>1, <3>3, ExceptSeq
    <3>5. DOMAIN history = DOMAIN custody[t] /\ history[n] = turn
          /\ \A m \in DOMAIN history : m # n => history[m] = custody[t][m]
      BY <2>1
    <3> QED
      BY <3>3, <3>4, <3>5 DEF CustodyType
  <2>6. custody'[t] = history /\ thing'[t] = card
    BY <1>0, <2>1, <2>3
  <2> HIDE DEF history, card
  <2>7. \A m \in DOMAIN history : history[m].returned
    BY <1>0, <2>1, <2>5 DEF CardOK
  <2>8. CardOK(t)'
    BY <2>4, <2>6, <2>7 DEF CardOK, Handed
  <2> QED
    BY <1>0, <2>1, <2>3, <2>4, <2>5, <2>8, CardMoves
<1>7. ASSUME UNCHANGED <<thing, custody, editing>>, holder' \subseteq Holders PROVE CustodyInv'
  BY <1>7 DEF CustodyInv, AssetTypeOK, CardOK, FormOK, Handed
<1>8. ASSUME NEW h \in Holders, Leave(h) PROVE CustodyInv'
  BY <1>0, <1>7, <1>8 DEF Leave
<1>9. ASSUME NEW k \in AssetClasses,
             CreateCategory(k) \/ UpdateCategory(k) \/ \E a \in BOOLEAN : SetCategoryActive(k, a)
      PROVE  CustodyInv'
  BY <1>0, <1>7, <1>9 DEF CreateCategory, UpdateCategory, SetCategoryActive
<1>10. CASE UNCHANGED assetVars
  BY <1>0, <1>7, <1>10 DEF assetVars
<1> QED
  BY <1>1, <1>2, <1>3, <1>4, <1>5, <1>6, <1>8, <1>9, <1>10 DEF AssetStep

\* The card and the custody history never contradict each other, whatever edits
\* race handovers and returns (UpdateAsset's version check and its look at the
\* custody; Assign and Return, under the asset's lock).
THEOREM CustodyStaysOne == AssetSpec => []CustodyIsOne
<1>1. CustodyInv /\ [AssetStep]_assetVars => CustodyInv'
  BY CustodyNext
<1> QED
  BY <1>1, CustodyInit, CustodyInvImplies, PTL DEF AssetSpec
-----------------------------------------------------------------------------
(* Pictures, their rows and their files.  An upload in progress has its file  *)
(* and no row yet, so whoever deletes a file deletes one without a row; and   *)
(* it locks the rows whose flag it will take, so they are live when it does.  *)

USE MediaAssumption

RowType == [state: {"none", "live", "archived"}, primary: BOOLEAN, version: Nat, lost: BOOLEAN]
PutType == [at: {"none", "stored", "chosen"}, primary: BOOLEAN, unset: SUBSET Pictures]

MediaTypeOK == media \in [Media -> RowType] /\ upload \in [Media -> PutType]

\* A row has its file, and an archived picture is not the primary one.
RowOK(i) ==
    /\ media[i].state # "none" /\ ~media[i].lost => i \in store
    /\ media[i].state = "none" => media[i] = NoMedia
    /\ i \in Pictures /\ media[i].primary => media[i].state = "live"

\* An upload has its file, no row, and the live rows it takes the flag from.
UploadOK(i) ==
    /\ upload[i].at # "none" => i \in store /\ media[i].state = "none"
    /\ \A j \in upload[i].unset : media[j].state = "live"
    /\ i \in Attachments => upload[i].unset = {} /\ ~upload[i].primary

\* Two pictures never carry the flag.
OnePrimary ==
    \A i, j \in Pictures : media[i].primary /\ media[j].primary => i = j

MediaInv == MediaTypeOK /\ (\A i \in Media : RowOK(i) /\ UploadOK(i)) /\ OnePrimary

\* The invariant says what RowsHaveFiles says.
LEMMA MediaInvImplies == MediaInv => RowsHaveFiles
<1> SUFFICES ASSUME MediaInv PROVE RowsHaveFiles
  OBVIOUS
<1>1. \A i, j \in {k \in Live : media[k].primary} : i = j
  BY DEF MediaInv, OnePrimary, Live
<1>2. ASSUME NEW i \in Media, media[i].state = "live", ~media[i].lost
      PROVE  IF i \in Pictures THEN OpenImageVariant(i) ELSE OpenAttachment(i)
  BY <1>2 DEF MediaInv, RowOK, OpenImageVariant, OpenAttachment, keyOf
<1> QED
  BY <1>1, <1>2, AtMostOne DEF RowsHaveFiles

\* There are no rows and no files at the start.
LEMMA MediaInvInit == MediaInit => MediaInv
BY DEF MediaInit, MediaInv, MediaTypeOK, RowType, PutType, RowOK, UploadOK, OnePrimary, NoMedia,
   NoUpload, Media

\* What a row becomes when it loses its flag.
LEMMA RowEdits ==
  ASSUME NEW row \in RowType
  PROVE  /\ [row EXCEPT !.primary = FALSE, !.version = @ + 1] \in RowType
         /\ [row EXCEPT !.primary = FALSE, !.version = @ + 1].state = row.state
         /\ [row EXCEPT !.primary = FALSE, !.version = @ + 1].lost = row.lost
         /\ [row EXCEPT !.primary = FALSE, !.version = @ + 1].primary = FALSE
<1>1. row.version + 1 \in Nat
  BY DEF RowType
<1> QED
  BY <1>1 DEF RowType

\* Steps that write no row.
LEMMA UploadMoves ==
  ASSUME MediaInv, NEW i \in Media, UNCHANGED media, NEW put \in PutType,
         upload' = [upload EXCEPT ![i] = put],
         \A j \in Media : j # i => (j \in store <=> j \in store'),
         media[i].state # "none" /\ ~media[i].lost => i \in store',
         UploadOK(i)'
  PROVE  MediaInv'
<1>0. upload \in [Media -> PutType] /\ media \in [Media -> RowType]
  BY DEF MediaInv, MediaTypeOK
<1>1. ASSUME NEW j \in Media, j # i PROVE RowOK(j)' /\ UploadOK(j)'
  <2>1. upload'[j] = upload[j] /\ RowOK(j) /\ UploadOK(j)
    BY <1>0, <1>1 DEF MediaInv
  <2> QED
    BY <1>1, <2>1 DEF RowOK, UploadOK
<1>2. RowOK(i)'
  BY DEF MediaInv, RowOK
<1>3. MediaTypeOK' /\ OnePrimary'
  BY <1>0 DEF MediaInv, MediaTypeOK, OnePrimary
<1> QED
  BY <1>1, <1>2, <1>3 DEF MediaInv

\* An upload that commits takes the flag from the rows it locked.
LEMMA RowCommits ==
  ASSUME MediaInv, NEW i \in Media, upload[i].at = "chosen", ~Clash(i), NEW gone \in BOOLEAN,
         media' = [j \in Media |->
                     IF j = i THEN [state |-> "live", primary |-> upload[i].primary, version |-> 1,
                                    lost |-> gone]
                     ELSE IF j \in upload[i].unset
                          THEN [media[j] EXCEPT !.primary = FALSE, !.version = @ + 1]
                     ELSE media[j]],
         upload' = [upload EXCEPT ![i] = NoUpload],
         \A j \in Media : j # i => (j \in store <=> j \in store'), ~gone => i \in store'
  PROVE  MediaInv'
<1>0. /\ upload \in [Media -> PutType] /\ media \in [Media -> RowType]
      /\ upload[i] \in PutType /\ upload[i].primary \in BOOLEAN /\ upload[i].unset \subseteq Pictures
      /\ \A j \in Media : RowOK(j) /\ UploadOK(j) /\ media[j] \in RowType
      /\ OnePrimary /\ Pictures \subseteq Media
  BY DEF MediaInv, MediaTypeOK, PutType, Media
<1>1. /\ media'[i] \in RowType /\ media'[i].state = "live" /\ media'[i].primary = upload[i].primary
      /\ media'[i].lost = gone
  BY <1>0 DEF RowType
<1>2. ASSUME NEW j \in Media, j # i
      PROVE  /\ media'[j] \in RowType /\ media'[j].state = media[j].state
             /\ media'[j].lost = media[j].lost
             /\ media'[j].primary => media[j].primary /\ j \notin upload[i].unset
             /\ media[j].state = "none" => media'[j] = media[j]
  <2>1. CASE j \in upload[i].unset
    <3> DEFINE row == [media[j] EXCEPT !.primary = FALSE, !.version = @ + 1]
    <3>1. row \in RowType /\ row.state = media[j].state /\ row.lost = media[j].lost /\ ~row.primary
      BY <1>0, RowEdits
    <3>2. media'[j] = row /\ media[j].state = "live"
      BY <1>0, <1>2, <2>1 DEF UploadOK
    <3> HIDE DEF row
    <3> QED
      BY <3>1, <3>2
  <2>2. CASE j \notin upload[i].unset
    BY <1>0, <1>2, <2>2
  <2> QED
    BY <2>1, <2>2
<1>3. MediaTypeOK'
  <2>1. NoUpload \in PutType
    BY DEF NoUpload, PutType
  <2>2. \A j \in Media : media'[j] \in RowType
    BY <1>1, <1>2
  <2> QED
    BY <1>0, <2>1, <2>2 DEF MediaTypeOK
<1>4. ASSUME NEW j \in Media PROVE RowOK(j)'
  <2>1. CASE j = i
    BY <1>1, <2>1 DEF RowOK
  <2>2. CASE j # i
    BY <1>0, <1>2, <2>2 DEF RowOK
  <2> QED
    BY <2>1, <2>2
<1>5. ASSUME NEW j \in Media PROVE UploadOK(j)'
  <2>1. CASE j = i
    BY <1>0, <2>1, ZenonT(60) DEF UploadOK, NoUpload
  <2>2. CASE j # i
    <3>1. upload'[j] = upload[j] /\ upload[j] \in PutType
      BY <1>0, <2>2
    <3>2. ASSUME NEW k \in upload[j].unset PROVE media'[k].state = "live"
      <4>1. k \in Media /\ media[k].state = "live"
        BY <1>0, <3>1 DEF UploadOK, PutType
      <4> QED
        BY <1>1, <1>2, <4>1
    <3>3. upload[j].at # "none" => j \in store' /\ media'[j].state = "none"
      BY <1>0, <1>2, <2>2 DEF UploadOK
    <3> QED
      BY <1>0, <3>1, <3>2, <3>3 DEF UploadOK
  <2> QED
    BY <2>1, <2>2
<1>6. OnePrimary'
  <2>1. ASSUME i \in Pictures, upload[i].primary, NEW j \in Pictures, j # i PROVE ~media'[j].primary
    <3>1. media'[j].primary => media[j].primary /\ j \in Live /\ j \notin upload[i].unset
      BY <1>0, <1>2, <2>1 DEF RowOK, Live
    <3> QED
      BY <2>1, <3>1 DEF Clash
  <2> SUFFICES ASSUME NEW j \in Pictures, NEW k \in Pictures, media'[j].primary, media'[k].primary
               PROVE  j = k
    BY DEF OnePrimary
  <2>2. CASE j # i /\ k # i
    BY <1>0, <1>2, <2>2 DEF OnePrimary
  <2>3. CASE j = i \/ k = i
    BY <1>1, <2>1, <2>3
  <2> QED
    BY <2>2, <2>3
<1> QED
  BY <1>3, <1>4, <1>5, <1>6 DEF MediaInv

\* The flag and the archive mark of rows that no upload has locked.
LEMMA RowsMarked ==
  ASSUME MediaInv, NEW i \in Media, NEW primary \in Marked, NEW archived \in Marked,
         UpdateImagePresentation(i, primary, archived)
  PROVE  MediaInv'
<1> DEFINE others == IF primary = "yes" THEN Live \ {i} ELSE {}
           state == CASE archived = "yes" -> "archived" [] archived = "no" -> "live"
                      [] OTHER -> media[i].state
           flag == CASE archived = "yes" -> FALSE [] primary = "yes" -> TRUE
                     [] primary = "no" -> FALSE [] OTHER -> media[i].primary
<1>0. /\ upload \in [Media -> PutType] /\ media \in [Media -> RowType]
      /\ \A j \in Media : RowOK(j) /\ UploadOK(j) /\ media[j] \in RowType /\ upload[j] \in PutType
      /\ OnePrimary /\ Pictures \subseteq Media
  BY DEF MediaInv, MediaTypeOK, Media
<1>1. /\ i \in Pictures /\ media[i] # NoMedia /\ ({i} \cup others) \cap Locked = {}
      /\ state = "archived" => ~flag
      /\ media' = [j \in Media |->
                     IF j = i THEN [media[i] EXCEPT !.state = state, !.primary = flag, !.version = @ + 1]
                     ELSE IF j \in others THEN [media[j] EXCEPT !.primary = FALSE, !.version = @ + 1]
                     ELSE media[j]]
      /\ UNCHANGED <<store, upload>>
  BY DEF UpdateImagePresentation
<1>2. media[i].state \in {"live", "archived"} /\ media[i].primary \in BOOLEAN
  BY <1>0, <1>1 DEF RowOK, RowType
<1>3. state \in {"live", "archived"} /\ flag \in BOOLEAN
  BY <1>2
<1>4. flag => state = "live"
  BY <1>1, <1>3
<1>5. flag => primary = "yes" \/ media[i].primary
  BY DEF Marked
<1>6. \A j \in others : j \in Pictures /\ media[j].state = "live"
  BY DEF Live
<1>7. primary = "yes" => \A j \in Pictures : media[j].state = "live" /\ j # i => j \in others
  BY DEF Live
<1> HIDE DEF others, state, flag
<1>8. media'[i] \in RowType /\ media'[i].state = state /\ media'[i].primary = flag
      /\ media'[i].lost = media[i].lost
  <2> DEFINE row == [media[i] EXCEPT !.state = state, !.primary = flag, !.version = @ + 1]
  <2>1. media'[i] = row
    BY <1>0, <1>1
  <2>2. media[i] \in RowType /\ media[i].version + 1 \in Nat
    <3>1. media[i] \in RowType
      BY <1>0, <1>1
    <3>2. media[i].version \in Nat
      BY ONLY <3>1 DEF RowType
    <3> QED
      BY ONLY <3>1, <3>2
  <2>3. row \in RowType /\ row.state = state /\ row.primary = flag /\ row.lost = media[i].lost
    BY ONLY <1>3, <2>2 DEF RowType
  <2> HIDE DEF row
  <2> QED
    BY <2>1, <2>3
<1>9. ASSUME NEW j \in Media, j # i
      PROVE  /\ media'[j] \in RowType /\ media'[j].state = media[j].state
             /\ media'[j].lost = media[j].lost
             /\ media'[j].primary => media[j].primary /\ j \notin others
             /\ media[j].state = "none" => media'[j] = media[j]
  <2>1. CASE j \in others
    <3> DEFINE row == [media[j] EXCEPT !.primary = FALSE, !.version = @ + 1]
    <3>1. row \in RowType /\ row.state = media[j].state /\ row.lost = media[j].lost /\ ~row.primary
      BY <1>0, RowEdits
    <3>2. media'[j] = row /\ media[j].state = "live"
      BY <1>1, <1>6, <1>9, <2>1
    <3> HIDE DEF row
    <3> QED
      BY <3>1, <3>2
  <2>2. CASE j \notin others
    BY <1>0, <1>1, <1>9, <2>2
  <2> QED
    BY <2>1, <2>2
<1>10. MediaTypeOK'
  <2>1. \A j \in Media : media'[j] \in RowType
    BY <1>8, <1>9
  <2> QED
    BY <1>0, <1>1, <2>1 DEF MediaTypeOK
<1>11. ASSUME NEW j \in Media PROVE RowOK(j)'
  <2>1. CASE j = i
    BY <1>0, <1>1, <1>2, <1>3, <1>4, <1>8, <2>1 DEF RowOK
  <2>2. CASE j # i
    BY <1>0, <1>1, <1>9, <2>2 DEF RowOK
  <2> QED
    BY <2>1, <2>2
<1>12. ASSUME NEW j \in Media PROVE UploadOK(j)'
  <2>1. i \notin upload[j].unset
    <3>1. CASE j \in Pictures
      <4>1. upload[j].unset \in {upload[k].unset : k \in Pictures}
        BY <3>1
      <4> QED
        BY <1>1, <4>1 DEF Locked
    <3>2. CASE j \in Attachments
      BY <1>0, <3>2 DEF UploadOK
    <3> QED
      BY <3>1, <3>2 DEF Media
  <2>2. \A k \in upload[j].unset : media'[k].state = "live"
    BY <1>0, <1>9, <2>1 DEF UploadOK, PutType
  <2>3. media[j].state = "none" => media'[j].state = "none"
    BY <1>2, <1>9
  <2> QED
    BY <1>0, <1>1, <2>2, <2>3 DEF UploadOK
<1>13. OnePrimary'
  <2>1. ASSUME flag, NEW j \in Pictures, j # i PROVE ~media'[j].primary
    <3>1. CASE primary = "yes"
      BY <1>0, <1>7, <1>9, <2>1, <3>1 DEF RowOK
    <3>2. CASE media[i].primary
      BY <1>0, <1>1, <1>9, <2>1, <3>2 DEF OnePrimary
    <3> QED
      BY <1>5, <2>1, <3>1, <3>2
  <2> SUFFICES ASSUME NEW j \in Pictures, NEW k \in Pictures, media'[j].primary, media'[k].primary
               PROVE  j = k
    BY DEF OnePrimary
  <2>2. CASE j # i /\ k # i
    BY <1>0, <1>9, <2>2 DEF OnePrimary
  <2>3. CASE j = i \/ k = i
    BY <1>8, <2>1, <2>3
  <2> QED
    BY <2>2, <2>3
<1> QED
  BY <1>10, <1>11, <1>12, <1>13 DEF MediaInv

\* Every step of an upload, an edit or a removal keeps the invariant.
LEMMA MediaInvNext == ASSUME MediaInv, [MediaStep]_mediaVars PROVE MediaInv'
<1>0. /\ upload \in [Media -> PutType] /\ media \in [Media -> RowType]
      /\ \A j \in Media : RowOK(j) /\ UploadOK(j) /\ upload[j] \in PutType
      /\ Pictures \subseteq Media
  BY DEF MediaInv, MediaTypeOK, Media
<1>1. ASSUME NEW i, cleanup(i) PROVE \A j : j # i => (j \in store <=> j \in store')
  BY <1>1 DEF cleanup, keyOf
<1>2. ASSUME NEW i \in Media, NEW primary \in BOOLEAN, UploadImage(i, primary) PROVE MediaInv'
  <2> DEFINE put == [at |-> "stored", primary |-> primary, unset |-> {}]
  <2>1. put \in PutType /\ put.unset = {}
    BY DEF PutType
  <2>2. upload' = [upload EXCEPT ![i] = put] /\ UNCHANGED media /\ store' = store \cup {i}
        /\ media[i].state = "none" /\ i \notin Attachments
    BY <1>2 DEF UploadImage, keyOf, NoMedia
  <2> HIDE DEF put
  <2>3. UploadOK(i)'
    BY <1>0, <2>1, <2>2 DEF UploadOK
  <2> QED
    BY <2>1, <2>2, <2>3, UploadMoves
<1>3. ASSUME NEW i \in Media, ChoosePrimary(i) PROVE MediaInv'
  <2>1. PICK primary \in BOOLEAN :
          upload' = [upload EXCEPT ![i] = [at |-> "chosen", primary |-> primary,
                                           unset |-> IF primary THEN Live ELSE {}]]
    BY <1>0, <1>3 DEF ChoosePrimary, PutType
  <2> DEFINE put == [at |-> "chosen", primary |-> primary, unset |-> IF primary THEN Live ELSE {}]
  <2>2. put \in PutType /\ put.unset \subseteq Live
    BY DEF PutType, Live
  <2>3. i \in Pictures /\ upload[i].at = "stored" /\ UNCHANGED <<media, store>>
    BY <1>3 DEF ChoosePrimary
  <2>4. upload' = [upload EXCEPT ![i] = put] /\ upload'[i] = put
    BY <1>0, <2>1
  <2> HIDE DEF put
  <2>5. UploadOK(i)'
    <3>1. i \in store /\ media[i].state = "none"
      BY <1>0, <2>3 DEF UploadOK
    <3>2. \A j \in put.unset : media[j].state = "live"
      BY <2>2 DEF Live
    <3>3. i \notin Attachments
      BY <2>3
    <3> QED
      BY <2>3, <2>4, <3>1, <3>2, <3>3 DEF UploadOK
  <2>6. media[i].state # "none" /\ ~media[i].lost => i \in store'
    BY <1>0, <2>3 DEF RowOK
  <2> QED
    BY <2>2, <2>3, <2>4, <2>5, <2>6, UploadMoves
<1>4. ASSUME NEW i \in Media, UNCHANGED media, cleanup(i), upload' = [upload EXCEPT ![i] = NoUpload],
             upload[i].at # "none"
      PROVE  MediaInv'
  <2>1. media[i].state = "none" /\ NoUpload \in PutType
    BY <1>0, <1>4 DEF UploadOK, NoUpload, PutType
  <2>2. UploadOK(i)'
    BY <1>0, <1>4 DEF UploadOK, NoUpload
  <2> QED
    BY <1>1, <1>4, <2>1, <2>2, UploadMoves
<1>5. ASSUME NEW i \in Media, InsertImage(i) \/ InsertAttachment(i) PROVE MediaInv'
  <2>1. upload[i].at = "chosen" /\ upload' = [upload EXCEPT ![i] = NoUpload]
    BY <1>5 DEF InsertImage, InsertAttachment
  <2>2. i \in store
    BY <1>0, <2>1 DEF UploadOK
  <2>3. CASE Commits(i) /\ UNCHANGED store /\ ~Clash(i)
    BY <2>1, <2>2, <2>3, RowCommits DEF Commits
  <2>4. CASE cleanup(i) /\ UNCHANGED media
    BY <1>4, <2>1, <2>4
  <2>5. \A n \in Attachments : ~Clash(n)
    BY <1>0 DEF UploadOK, Clash, Media
  <2> QED
    BY <1>5, <2>3, <2>4, <2>5 DEF InsertImage, InsertAttachment
<1>6. ASSUME NEW i \in Media, UploadAttachment(i) PROVE MediaInv'
  <2> DEFINE put == [upload[i] EXCEPT !.at = "chosen"]
  <2>1. put \in PutType /\ put.unset = upload[i].unset /\ put.primary = upload[i].primary
    BY <1>0 DEF PutType
  <2>2. upload' = [upload EXCEPT ![i] = put] /\ UNCHANGED media /\ store' = store \cup {i}
        /\ media[i].state = "none" /\ upload'[i] = put
    BY <1>0, <1>6 DEF UploadAttachment, keyOf, NoMedia
  <2> HIDE DEF put
  <2>3. UploadOK(i)'
    BY <1>0, <2>1, <2>2 DEF UploadOK
  <2> QED
    BY <2>1, <2>2, <2>3, UploadMoves
<1>7. ASSUME NEW i \in Media, UploadFails(i) PROVE MediaInv'
  BY <1>4, <1>7 DEF UploadFails
<1>8. ASSUME NEW i \in Media, AnswerLost(i) PROVE MediaInv'
  BY <1>1, <1>8, RowCommits DEF AnswerLost
<1>9. ASSUME NEW i \in Media, NEW primary \in Marked, NEW archived \in Marked,
             UpdateImagePresentation(i, primary, archived)
      PROVE  MediaInv'
  BY <1>9, RowsMarked
<1>10. ASSUME NEW i \in Media, ArchiveAttachment(i) PROVE MediaInv'
  <2> DEFINE row == [media[i] EXCEPT !.state = "archived", !.version = @ + 1]
  <2>1. i \in Attachments /\ media[i] # NoMedia /\ UNCHANGED <<store, upload>>
        /\ media' = [media EXCEPT ![i] = row]
    BY <1>10 DEF ArchiveAttachment
  <2>2. media[i] \in RowType /\ media[i].version + 1 \in Nat
    BY <1>0 DEF RowType
  <2>3. row \in RowType /\ row.state = "archived" /\ row.lost = media[i].lost
    BY <2>2 DEF RowType
  <2>4. media'[i] = row /\ \A j \in Media : j # i => media'[j] = media[j]
    BY <1>0, <2>1
  <2> HIDE DEF row
  <2>5. i \notin Pictures /\ media[i].state # "none"
    BY <1>0, <2>1 DEF RowOK
  <2>6. ASSUME NEW j \in Media PROVE RowOK(j)' /\ UploadOK(j)'
    <3>1. RowOK(j)'
      BY <1>0, <2>1, <2>3, <2>4, <2>5 DEF RowOK
    <3>2. \A k \in upload[j].unset : k \in Media /\ k # i
      BY <1>0, <2>5 DEF PutType
    <3>3. UploadOK(j)'
      BY <1>0, <2>1, <2>4, <2>5, <3>2 DEF UploadOK
    <3> QED
      BY <3>1, <3>3
  <2>7. MediaTypeOK' /\ OnePrimary'
    BY <1>0, <2>1, <2>3, <2>4, <2>5 DEF MediaInv, MediaTypeOK, OnePrimary
  <2> QED
    BY <2>6, <2>7 DEF MediaInv
<1>11. CASE UNCHANGED mediaVars
  BY <1>11 DEF mediaVars, MediaInv, MediaTypeOK, RowOK, UploadOK, OnePrimary
<1> QED
  BY <1>2, <1>3, <1>5, <1>6, <1>7, <1>8, <1>9, <1>10, <1>11 DEF MediaStep

\* A row in use has its file unless the answer to its commit was lost, and one
\* picture at most is the primary one, whatever fails or races (UploadImage's
\* files before its row, the cleanup on every error, the unique index).
THEOREM RowsKeepFiles == MediaSpec => []RowsHaveFiles
<1>1. MediaInv /\ [MediaStep]_mediaVars => MediaInv'
  BY MediaInvNext
<1> QED
  BY <1>1, MediaInvInit, MediaInvImplies, PTL DEF MediaSpec

-----------------------------------------------------------------------------
(* Payslips by mail.  A batch that starts passes over whoever a batch before it *)
(* mailed, and no batch before it mails again: so two mails of one batch, and  *)
(* two mails of different batches, are only what a repeat on purpose allows.   *)

USE DeliveryAssumption

BatchType == [state: {"NONE", "RUNNING", "COMPLETED", "FAILED", "ABANDONED"}, resend: BOOLEAN,
              todo: SUBSET Staff, now: Staff \cup {Nobody}, after: SUBSET Batches,
              seen: SUBSET [emp: Staff, addr: Entries, shared: BOOLEAN]]
MailType == [batch: Batches, emp: Staff, addr: Entries, shared: BOOLEAN, status: Outcomes,
             first: BOOLEAN, kept: BOOLEAN]

DeliveryTypeOK ==
    /\ address \in [Staff -> {NoAddress} \cup Addresses]
    /\ rows \in [Staff -> Printers \cup {Nobody}]
    /\ files \subseteq Printers /\ lost \subseteq Staff
    /\ printer \in [Printers -> [phase: {"idle", "stored", "done"}, emp: Staff \cup {Nobody}]]
    /\ batches \in [Batches -> BatchType]
    /\ mails \subseteq MailType

\* A printer between its file and its row has the file, and a row names the file of
\* a printer that is through.
PrintedOK ==
    /\ \A g \in Printers : printer[g].phase = "stored" => g \in files /\ printer[g].emp \in Staff
    /\ \A e \in Staff : rows[e] # Nobody /\ e \notin lost => rows[e] \in files /\ printer[rows[e]].phase = "done"

\* Batches that were over before another began stay over.
AfterOK == \A b \in Batches : \A c \in batches[b].after : Ended(c)

\* A mail that is not recorded is the last one of its batch.
KeptOK == \A m \in mails : batches[m.batch].state # "NONE" /\ (~m.kept => batches[m.batch].now = m.emp)

\* Whoever a batch still has to mail, unless it repeats on purpose, got no mail from
\* the batches before it, and shares no address.
TodoOK ==
    \A b \in Batches : \A e \in batches[b].todo :
        /\ \E c \in batches[b].seen : c.emp = e
        /\ ~batches[b].resend =>
            /\ \A c \in batches[b].seen : c.emp = e => ~c.shared
            /\ \A m \in mails : ~(/\ m.emp = e /\ m.batch \in batches[b].after /\ m.status = "SENT"
                                  /\ batches[m.batch].now # e)

\* The first two parts of MailedOnce.
OnceOK ==
    /\ \A m, n \in mails :
         /\ m.emp = n.emp /\ m.batch \in batches[n.batch].after
         /\ m.status = "SENT" /\ batches[m.batch].now # m.emp
         => batches[n.batch].resend
    /\ \A m \in mails : ~batches[m.batch].resend => ~m.shared

PostInv == AfterOK /\ KeptOK /\ TodoOK /\ OnceOK
DeliveryInv == DeliveryTypeOK /\ PrintedOK /\ PostInv

LEMMA DeliveryInvInit == DeliveryInit => DeliveryInv
<1> SUFFICES ASSUME DeliveryInit PROVE DeliveryInv
  OBVIOUS
<1>1. DeliveryTypeOK
  BY DEF DeliveryInit, DeliveryTypeOK, BatchType, NoBatch
<1>2. PrintedOK
  BY DEF DeliveryInit, PrintedOK
<1>3. PostInv
  BY DEF DeliveryInit, PostInv, AfterOK, KeptOK, TodoOK, OnceOK, NoBatch
<1> QED
  BY <1>1, <1>2, <1>3 DEF DeliveryInv

LEMMA PrintedNext ==
  ASSUME DeliveryInv, PrintStep
  PROVE  DeliveryInv'
<1>0. /\ UNCHANGED <<address, batches, mails>>
      /\ printer \in [Printers -> [phase: {"idle", "stored", "done"}, emp: Staff \cup {Nobody}]]
      /\ rows \in [Staff -> Printers \cup {Nobody}] /\ files \subseteq Printers /\ lost \subseteq Staff
      /\ PrintedOK
  BY DEF DeliveryInv, DeliveryTypeOK, PrintStep, PutPayslip, InsertPayslip, FailPayslip, CrashPayslip
<1>1. PostInv'
  BY <1>0 DEF DeliveryInv, PostInv, AfterOK, KeptOK, TodoOK, OnceOK, Ended
<1>2. ASSUME NEW g \in Printers, NEW e \in Staff, PutPayslip(g, e)
      PROVE  DeliveryTypeOK' /\ PrintedOK'
  <2>1. /\ printer[g].phase = "idle" /\ files' = files \cup {g}
        /\ printer' = [printer EXCEPT ![g] = [phase |-> "stored", emp |-> e]]
        /\ UNCHANGED <<rows, lost>>
    BY <1>2 DEF PutPayslip
  <2>2. DeliveryTypeOK'
    BY <1>0, <2>1 DEF DeliveryInv, DeliveryTypeOK
  <2>3. PrintedOK'
    BY <1>0, <2>1 DEF PrintedOK
  <2> QED
    BY <2>2, <2>3
<1>3. ASSUME NEW g \in Printers, printer[g].phase = "stored",
             printer' = [printer EXCEPT ![g].phase = "done"],
             files' \in {files, files \ {g}}, lost' \in {lost, lost \cup {printer[g].emp}},
             \/ rows' = rows
             \/ rows' = [rows EXCEPT ![printer[g].emp] = g] /\ (printer[g].emp \in lost' \/ files' = files)
      PROVE  DeliveryTypeOK' /\ PrintedOK'
  <2>1. printer[g].emp \in Staff /\ g \in files
    BY <1>0, <1>3 DEF PrintedOK
  <2>2. /\ printer' \in [Printers -> [phase: {"idle", "stored", "done"}, emp: Staff \cup {Nobody}]]
        /\ printer'[g].phase = "done"
        /\ \A h \in Printers : h # g => printer'[h] = printer[h]
    BY <1>0, <1>3
  <2>3. DeliveryTypeOK'
    BY <1>0, <1>3, <2>1, <2>2 DEF DeliveryInv, DeliveryTypeOK
  <2>4. \A h \in Printers : printer'[h].phase = "stored" => h \in files' /\ printer'[h].emp \in Staff
    BY <1>0, <1>3, <2>2 DEF PrintedOK
  <2>5. ASSUME NEW e \in Staff, rows'[e] # Nobody, e \notin lost'
        PROVE  rows'[e] \in files' /\ printer'[rows'[e]].phase = "done"
    <3>1. CASE rows'[e] = rows[e]
      <4>1. rows[e] \in files /\ printer[rows[e]].phase = "done" /\ rows[e] # g
        BY <1>0, <1>3, <2>5, <3>1 DEF PrintedOK
      <4> QED
        BY <1>0, <1>3, <2>2, <3>1, <4>1
    <3>2. CASE rows'[e] # rows[e]
      BY <1>0, <1>3, <2>1, <2>2, <2>5, <3>2
    <3> QED
      BY <3>1, <3>2
  <2> QED
    BY <2>3, <2>4, <2>5 DEF PrintedOK
<1>4. ASSUME NEW g \in Printers, InsertPayslip(g) \/ FailPayslip(g) \/ CrashPayslip(g)
      PROVE  DeliveryTypeOK' /\ PrintedOK'
  BY <1>3, <1>4 DEF InsertPayslip, FailPayslip, CrashPayslip
<1> QED
  BY <1>1, <1>2, <1>4 DEF PrintStep, DeliveryInv

\* A step that leaves payslips and addresses alone, and the batches and mails sound.
LEMMA MailsMove ==
  ASSUME DeliveryInv, UNCHANGED <<rows, files, printer, lost>>,
         address' \in [Staff -> {NoAddress} \cup Addresses],
         batches' \in [Batches -> BatchType], mails' \subseteq MailType, PostInv'
  PROVE  DeliveryInv'
BY DEF DeliveryInv, DeliveryTypeOK, PrintedOK

\* A ready recipient has had no mail and shares no address.
LEMMA Ready ==
  ASSUME NEW e \in Staff, e \in Sendable(FALSE)
  PROVE  ~AlreadySent(e) /\ ~Shared(e)
<1>1. RecipientStatus(e) = "ready"
  BY DEF Sendable
<1> QED
  BY <1>1 DEF RecipientStatus

LEMMA BeginBatchInv ==
  ASSUME DeliveryInv, NEW b \in Batches, NEW resend \in BOOLEAN, BeginBatch(b, resend)
  PROVE  DeliveryInv'
<1> DEFINE new == [state |-> "RUNNING", resend |-> resend, todo |-> Sendable(resend),
                   now |-> Nobody, after |-> {c \in Batches : Ended(c)},
                   seen |-> {[emp |-> e, addr |-> address[e], shared |-> Shared(e)] : e \in Staff}]
<1>0. /\ batches \in [Batches -> BatchType] /\ mails \subseteq MailType
      /\ batches[b].state = "NONE" /\ batches' = [batches EXCEPT ![b] = new]
      /\ UNCHANGED <<address, rows, files, printer, lost, mails>>
      /\ address \in [Staff -> {NoAddress} \cup Addresses]
  BY DEF DeliveryInv, DeliveryTypeOK, BeginBatch
<1>1. new \in BatchType
  <2>1. Sendable(resend) \in SUBSET Staff /\ \A e \in Staff : Shared(e) \in BOOLEAN /\ address[e] \in Entries
    BY <1>0 DEF Sendable, Shared, Entries
  <2>2. \A e \in Staff : [emp |-> e, addr |-> address[e], shared |-> Shared(e)] \in [emp: Staff, addr: Entries, shared: BOOLEAN]
    BY <2>1
  <2> QED
    BY <2>1, <2>2 DEF BatchType
<1>2. /\ new.state = "RUNNING" /\ new.resend = resend /\ new.todo = Sendable(resend) /\ new.now = Nobody
      /\ new.after = {c \in Batches : Ended(c)}
      /\ \A e \in Staff : \E c \in new.seen : c.emp = e
      /\ \A c \in new.seen : c.emp \in Staff /\ c.shared = Shared(c.emp)
  <2> DEFINE entry(e) == [emp |-> e, addr |-> address[e], shared |-> Shared(e)]
  <2>1. \A e \in Staff : entry(e).emp = e /\ entry(e).shared = Shared(e)
    OBVIOUS
  <2>2. new.seen = {entry(e) : e \in Staff}
    OBVIOUS
  <2>3. \A e \in Staff : entry(e) \in new.seen
    BY <2>2
  <2>4. \A c \in new.seen : \E e \in Staff : c = entry(e)
    BY <2>2
  <2> HIDE DEF entry
  <2>5. \A e \in Staff : \E c \in new.seen : c.emp = e
    BY <2>1, <2>3
  <2>6. \A c \in new.seen : c.emp \in Staff /\ c.shared = Shared(c.emp)
    BY <2>1, <2>4
  <2> QED
    BY <2>5, <2>6
<1> HIDE DEF new
<1>3. batches'[b] = new /\ (\A c \in Batches : c # b => batches'[c] = batches[c])
  BY <1>0
<1>4. batches' \in [Batches -> BatchType]
  BY <1>0, <1>1
<1>5. \A c \in Batches : Ended(c) => c # b /\ Ended(c)'
  BY <1>0, <1>3 DEF Ended
<1>6. \A m \in mails : m.batch # b /\ m.batch \in Batches
  BY <1>0 DEF DeliveryInv, PostInv, KeptOK, MailType
<1>7. AfterOK'
  <2> SUFFICES ASSUME NEW d \in Batches, NEW c \in batches'[d].after PROVE Ended(c)'
    BY DEF AfterOK
  <2>1. CASE d = b
    BY <1>2, <1>3, <1>5, <2>1
  <2>2. CASE d # b
    <3>1. c \in Batches /\ Ended(c)
      BY <1>0, <1>3, <2>2 DEF DeliveryInv, PostInv, AfterOK, BatchType
    <3> QED
      BY <1>5, <3>1
  <2> QED
    BY <2>1, <2>2
<1>8. KeptOK'
  BY <1>0, <1>3, <1>6 DEF DeliveryInv, PostInv, KeptOK
<1>9. TodoOK'
  <2> SUFFICES ASSUME NEW d \in Batches, NEW e \in batches'[d].todo
               PROVE  /\ \E c \in batches'[d].seen : c.emp = e
                      /\ ~batches'[d].resend =>
                          /\ \A c \in batches'[d].seen : c.emp = e => ~c.shared
                          /\ \A m \in mails : ~(/\ m.emp = e /\ m.batch \in batches'[d].after /\ m.status = "SENT"
                                                /\ batches'[m.batch].now # e)
    BY <1>0 DEF TodoOK
  <2>1. CASE d = b
    <3>1. e \in Staff /\ e \in Sendable(resend)
      BY <1>2, <1>3, <2>1 DEF Sendable
    <3>2. ASSUME ~resend
          PROVE  /\ \A c \in new.seen : c.emp = e => ~c.shared
                 /\ \A m \in mails : ~(/\ m.emp = e /\ m.batch \in new.after /\ m.status = "SENT"
                                       /\ batches'[m.batch].now # e)
      <4>1. ~AlreadySent(e) /\ ~Shared(e)
        BY <3>1, <3>2, Ready
      <4>2. ASSUME NEW m \in mails, m.emp = e, m.status = "SENT"
            PROVE  batches'[m.batch].now = e
        <5>1. ~m.kept /\ batches[m.batch].now = e
          BY <4>1, <4>2 DEF AlreadySent, DeliveryInv, PostInv, KeptOK
        <5> QED
          BY <1>3, <1>6, <5>1
      <4> QED
        BY <1>2, <4>1, <4>2
    <3> QED
      BY <1>2, <1>3, <2>1, <3>1, <3>2
  <2>2. CASE d # b
    BY <1>3, <1>6, <2>2 DEF DeliveryInv, PostInv, TodoOK
  <2> QED
    BY <2>1, <2>2
<1>10. OnceOK'
  BY <1>0, <1>3, <1>6 DEF DeliveryInv, PostInv, OnceOK
<1> QED
  BY <1>0, <1>4, <1>7, <1>8, <1>9, <1>10, MailsMove DEF PostInv

LEMMA SendMailInv ==
  ASSUME DeliveryInv, NEW b \in Batches, NEW e \in Staff, NEW status \in Outcomes, SendMail(b, e, status)
  PROVE  DeliveryInv'
<1> DEFINE mail == [batch |-> b, emp |-> e, addr |-> Recipient(b, e).addr,
                    shared |-> Recipient(b, e).shared, status |-> status,
                    first |-> ~AlreadySent(e), kept |-> FALSE]
<1>0. /\ batches \in [Batches -> BatchType] /\ mails \subseteq MailType
      /\ batches[b].state = "RUNNING" /\ batches[b].now = Nobody /\ e \in batches[b].todo
      /\ mails' = mails \cup {mail}
      /\ batches' = [batches EXCEPT ![b].now = e, ![b].todo = @ \ {e}]
      /\ UNCHANGED <<address, rows, files, printer, lost>>
      /\ address \in [Staff -> {NoAddress} \cup Addresses]
  BY DEF DeliveryInv, DeliveryTypeOK, SendMail
<1>1. /\ Recipient(b, e) \in [emp: Staff, addr: Entries, shared: BOOLEAN]
      /\ ~batches[b].resend => ~Recipient(b, e).shared
  <2>1. PICK c \in batches[b].seen : c.emp = e
    BY <1>0 DEF DeliveryInv, PostInv, TodoOK
  <2>2. Recipient(b, e) \in batches[b].seen /\ Recipient(b, e).emp = e
    BY <2>1 DEF Recipient
  <2>3. batches[b].seen \subseteq [emp: Staff, addr: Entries, shared: BOOLEAN]
    BY <1>0 DEF BatchType
  <2>4. ~batches[b].resend => ~Recipient(b, e).shared
    BY <1>0, <2>2 DEF DeliveryInv, PostInv, TodoOK
  <2> QED
    BY <2>2, <2>3, <2>4
<1>2. /\ mail \in MailType /\ mail.batch = b /\ mail.emp = e /\ ~mail.kept
      /\ ~batches[b].resend => ~mail.shared
  <2>1. (~AlreadySent(e)) \in BOOLEAN
    BY DEF AlreadySent
  <2> QED
    BY <1>1, <2>1 DEF MailType
<1> HIDE DEF mail
<1>3. /\ batches' \in [Batches -> BatchType]
      /\ batches'[b] = [batches[b] EXCEPT !.now = e, !.todo = @ \ {e}]
      /\ \A c \in Batches : c # b => batches'[c] = batches[c]
  BY <1>0 DEF BatchType
<1>4. /\ batches'[b].now = e /\ batches'[b].todo = batches[b].todo \ {e}
      /\ batches'[b].state = "RUNNING" /\ batches'[b].resend = batches[b].resend
      /\ batches'[b].after = batches[b].after /\ batches'[b].seen = batches[b].seen
  BY <1>0, <1>3 DEF BatchType
<1>5. \A c \in Batches : /\ batches'[c].after = batches[c].after /\ batches'[c].resend = batches[c].resend
                         /\ batches'[c].seen = batches[c].seen /\ batches'[c].todo \subseteq batches[c].todo
                         /\ batches'[c].state = batches[c].state
  BY <1>0, <1>3, <1>4
<1>6. \A c \in Batches : b \notin batches[c].after
  BY <1>0 DEF DeliveryInv, PostInv, AfterOK, Ended
<1>7. \A m \in mails : m \in MailType /\ m.batch \in Batches /\ m.emp \in Staff /\ m.emp # Nobody
  BY <1>0 DEF MailType, Nobody
<1>8. AfterOK'
  <2> SUFFICES ASSUME NEW d \in Batches, NEW c \in batches'[d].after PROVE Ended(c)'
    BY DEF AfterOK
  <2>1. c \in Batches /\ Ended(c)
    BY <1>0, <1>5 DEF DeliveryInv, PostInv, AfterOK, BatchType
  <2> QED
    BY <1>5, <2>1 DEF Ended
<1>9. KeptOK'
  <2>1. \A m \in mails : m.batch = b => m.kept
    BY <1>0, <1>7 DEF DeliveryInv, PostInv, KeptOK
  <2>2. ASSUME NEW m \in mails
        PROVE  batches'[m.batch].state # "NONE" /\ (~m.kept => batches'[m.batch].now = m.emp)
    BY <1>3, <1>5, <1>7, <2>1 DEF DeliveryInv, PostInv, KeptOK
  <2> QED
    BY <1>0, <1>2, <1>4, <2>2 DEF KeptOK
<1>10. TodoOK'
  <2> SUFFICES ASSUME NEW d \in Batches, NEW f \in batches'[d].todo
               PROVE  /\ \E c \in batches'[d].seen : c.emp = f
                      /\ ~batches'[d].resend =>
                          /\ \A c \in batches'[d].seen : c.emp = f => ~c.shared
                          /\ \A m \in mails' : ~(/\ m.emp = f /\ m.batch \in batches'[d].after /\ m.status = "SENT"
                                                 /\ batches'[m.batch].now # f)
    BY DEF TodoOK
  <2>1. f \in batches[d].todo
    BY <1>5
  <2>2. (\E c \in batches[d].seen : c.emp = f)
        /\ (~batches[d].resend => \A c \in batches[d].seen : c.emp = f => ~c.shared)
    BY <2>1 DEF DeliveryInv, PostInv, TodoOK
  <2>3. ASSUME ~batches[d].resend, NEW m \in mails', m.emp = f, m.batch \in batches[d].after,
               m.status = "SENT", batches'[m.batch].now # f
        PROVE  FALSE
    <3>1. m \in mails /\ m.batch # b
      BY <1>0, <1>2, <1>6, <2>3
    <3> QED
      BY <1>3, <1>7, <2>1, <2>3, <3>1 DEF DeliveryInv, PostInv, TodoOK
  <2> QED
    BY <1>5, <2>2, <2>3
<1>11. OnceOK'
  <2>1. ASSUME NEW m \in mails', NEW n \in mails', m.emp = n.emp, m.batch \in batches'[n.batch].after,
               m.status = "SENT", batches'[m.batch].now # m.emp
        PROVE  batches'[n.batch].resend
    <3>1. n.batch \in Batches
      BY <1>0, <1>2, <1>7
    <3>2. m \in mails /\ m.batch # b /\ m.batch \in batches[n.batch].after
      BY <1>0, <1>2, <1>5, <1>6, <2>1, <3>1
    <3>3. batches[m.batch].now # m.emp
      BY <1>3, <1>7, <2>1, <3>2
    <3>4. CASE n \in mails
      BY <1>5, <2>1, <3>1, <3>2, <3>3, <3>4 DEF DeliveryInv, PostInv, OnceOK
    <3>5. CASE n = mail
      BY <1>0, <1>2, <1>4, <2>1, <3>2, <3>3, <3>5 DEF DeliveryInv, PostInv, TodoOK
    <3> QED
      BY <1>0, <3>4, <3>5
  <2>2. ASSUME NEW m \in mails', ~batches'[m.batch].resend PROVE ~m.shared
    BY <1>0, <1>2, <1>5, <1>7, <2>2 DEF DeliveryInv, PostInv, OnceOK
  <2> QED
    BY <2>1, <2>2 DEF OnceOK
<1>12. mails' \subseteq MailType
  BY <1>0, <1>2
<1> QED
  BY <1>0, <1>3, <1>8, <1>9, <1>10, <1>11, <1>12, MailsMove DEF PostInv

LEMMA RecordInv ==
  ASSUME DeliveryInv, NEW b \in Batches, RecordDelivery(b)
  PROVE  DeliveryInv'
<1>0. /\ batches \in [Batches -> BatchType] /\ mails \subseteq MailType
      /\ batches[b].state = "RUNNING"
      /\ mails' = Recorded(b)
      /\ batches' = [batches EXCEPT ![b].now = Nobody]
      /\ UNCHANGED <<address, rows, files, printer, lost>>
      /\ address \in [Staff -> {NoAddress} \cup Addresses]
  BY DEF DeliveryInv, DeliveryTypeOK, RecordDelivery
<1>1. /\ batches' \in [Batches -> BatchType]
      /\ \A c \in Batches : /\ c # b => batches'[c] = batches[c]
                            /\ batches'[c].after = batches[c].after /\ batches'[c].resend = batches[c].resend
                            /\ batches'[c].seen = batches[c].seen /\ batches'[c].todo = batches[c].todo
                            /\ batches'[c].state = batches[c].state
  BY <1>0 DEF BatchType
<1>2. ASSUME NEW n \in mails'
      PROVE  /\ n \in MailType
             /\ \E m \in mails : /\ n.batch = m.batch /\ n.emp = m.emp /\ n.shared = m.shared
                                 /\ n.status = m.status
                                 /\ n.kept = (m.kept \/ (m.batch = b /\ m.emp = batches[b].now))
  <2>1. PICK m \in mails : n = IF m.batch = b /\ m.emp = batches[b].now THEN [m EXCEPT !.kept = TRUE] ELSE m
    BY <1>0 DEF Recorded
  <2>2. m \in MailType
    BY <1>0
  <2> QED
    BY <2>1, <2>2 DEF MailType
<1>3. \A c \in Batches : b \notin batches[c].after
  BY <1>0 DEF DeliveryInv, PostInv, AfterOK, Ended
<1>4. \A m \in mails : m.batch \in Batches /\ m.emp \in Staff /\ m.kept \in BOOLEAN
  BY <1>0 DEF MailType
<1>5. AfterOK'
  <2> SUFFICES ASSUME NEW d \in Batches, NEW c \in batches'[d].after PROVE Ended(c)'
    BY DEF AfterOK
  <2>1. c \in Batches /\ Ended(c)
    BY <1>0, <1>1 DEF DeliveryInv, PostInv, AfterOK, BatchType
  <2> QED
    BY <1>1, <2>1 DEF Ended
<1>6. KeptOK'
  <2> SUFFICES ASSUME NEW n \in mails'
               PROVE  batches'[n.batch].state # "NONE" /\ (~n.kept => batches'[n.batch].now = n.emp)
    BY DEF KeptOK
  <2>1. PICK m \in mails : /\ n.batch = m.batch /\ n.emp = m.emp
                           /\ n.kept = (m.kept \/ (m.batch = b /\ m.emp = batches[b].now))
    BY <1>2
  <2>2. batches[m.batch].state # "NONE" /\ (~m.kept => batches[m.batch].now = m.emp)
    BY DEF DeliveryInv, PostInv, KeptOK
  <2> QED
    BY <1>1, <1>4, <2>1, <2>2, ZenonT(60)
<1>7. TodoOK'
  <2> SUFFICES ASSUME NEW d \in Batches, NEW f \in batches[d].todo, ~batches[d].resend,
                      NEW n \in mails', n.emp = f, n.batch \in batches[d].after, n.status = "SENT",
                      batches'[n.batch].now # f
               PROVE  FALSE
    BY <1>1 DEF TodoOK, DeliveryInv, PostInv
  <2>1. PICK m \in mails : n.batch = m.batch /\ n.emp = m.emp /\ n.status = m.status
    BY <1>2
  <2>2. m.batch # b /\ batches'[m.batch] = batches[m.batch]
    BY <1>1, <1>3, <1>4, <2>1
  <2> QED
    BY <2>1, <2>2 DEF DeliveryInv, PostInv, TodoOK
<1>8. OnceOK'
  <2>1. ASSUME NEW x \in mails', NEW y \in mails', x.emp = y.emp, x.batch \in batches'[y.batch].after,
               x.status = "SENT", batches'[x.batch].now # x.emp
        PROVE  batches'[y.batch].resend
    <3>1. PICK m \in mails : x.batch = m.batch /\ x.emp = m.emp /\ x.status = m.status
      BY <1>2
    <3>2. PICK n \in mails : y.batch = n.batch /\ y.emp = n.emp
      BY <1>2
    <3>3. m.batch \in batches[n.batch].after /\ m.batch # b /\ batches'[m.batch] = batches[m.batch]
      BY <1>1, <1>3, <1>4, <2>1, <3>1, <3>2
    <3>4. m.emp = n.emp /\ m.status = "SENT" /\ batches[m.batch].now # m.emp
      BY <2>1, <3>1, <3>2, <3>3
    <3>5. batches[n.batch].resend
      BY <3>3, <3>4 DEF DeliveryInv, PostInv, OnceOK
    <3>6. n.batch \in Batches /\ batches'[n.batch].resend = batches[n.batch].resend
      BY <1>1, <1>4
    <3> QED
      BY <3>2, <3>5, <3>6
  <2>2. ASSUME NEW x \in mails', ~batches'[x.batch].resend PROVE ~x.shared
    <3>1. PICK m \in mails : x.batch = m.batch /\ x.shared = m.shared
      BY <1>2
    <3> QED
      BY <1>1, <1>4, <2>2, <3>1 DEF DeliveryInv, PostInv, OnceOK
  <2> QED
    BY <2>1, <2>2 DEF OnceOK
<1>9. mails' \subseteq MailType
  BY <1>2
<1> QED
  BY <1>0, <1>1, <1>5, <1>6, <1>7, <1>8, <1>9, MailsMove DEF PostInv

LEMMA BatchEnds ==
  ASSUME DeliveryInv, NEW b \in Batches, AbandonBatch(b) \/ CloseBatch(b)
  PROVE  DeliveryInv'
<1>0. /\ batches \in [Batches -> BatchType] /\ mails \subseteq MailType
      /\ UNCHANGED <<address, rows, files, printer, lost, mails>>
      /\ address \in [Staff -> {NoAddress} \cup Addresses]
  BY DEF DeliveryInv, DeliveryTypeOK, AbandonBatch, CloseBatch, Unwound
<1>1. PICK state \in {"ABANDONED", "COMPLETED", "FAILED"} : batches' = [batches EXCEPT ![b].state = state]
  BY DEF AbandonBatch, CloseBatch
<1>2. /\ batches' \in [Batches -> BatchType]
      /\ \A c \in Batches : /\ batches'[c].after = batches[c].after /\ batches'[c].resend = batches[c].resend
                            /\ batches'[c].seen = batches[c].seen /\ batches'[c].todo = batches[c].todo
                            /\ batches'[c].now = batches[c].now
                            /\ batches'[c].state \in {batches[c].state, "ABANDONED", "COMPLETED", "FAILED"}
  BY <1>0, <1>1 DEF BatchType
<1>3. \A m \in mails : m.batch \in Batches
  BY <1>0 DEF MailType
<1>4. AfterOK'
  <2> SUFFICES ASSUME NEW d \in Batches, NEW c \in batches'[d].after PROVE Ended(c)'
    BY DEF AfterOK
  <2>1. c \in Batches /\ Ended(c)
    BY <1>0, <1>2 DEF DeliveryInv, PostInv, AfterOK, BatchType
  <2> QED
    BY <1>2, <2>1 DEF Ended
<1>5. KeptOK'
  BY <1>0, <1>2, <1>3 DEF DeliveryInv, PostInv, KeptOK
<1>6. TodoOK'
  BY <1>0, <1>2, <1>3 DEF DeliveryInv, PostInv, TodoOK
<1>7. OnceOK'
  BY <1>0, <1>2, <1>3 DEF DeliveryInv, PostInv, OnceOK
<1> QED
  BY <1>0, <1>2, <1>4, <1>5, <1>6, <1>7, MailsMove DEF PostInv

LEMMA DeliveryInvNext == ASSUME DeliveryInv, [DeliveryNext]_dlVars PROVE DeliveryInv'
<1>1. ASSUME UNCHANGED <<rows, files, printer, lost, batches, mails>>,
             address' \in [Staff -> {NoAddress} \cup Addresses]
      PROVE  DeliveryInv'
  <2>1. PostInv'
    BY <1>1 DEF DeliveryInv, PostInv, AfterOK, KeptOK, TodoOK, OnceOK, Ended
  <2> QED
    BY <1>1, <2>1, MailsMove DEF DeliveryInv, DeliveryTypeOK
<1>2. CASE Put \/ LetterStep \/ UNCHANGED dlVars
  <2>1. UNCHANGED <<address, rows, files, printer, lost, batches, mails>>
    BY <1>2 DEF Put, LetterStep, Compose, SendLetter, EndLetter, dlVars
  <2> QED
    BY <1>1, <2>1 DEF DeliveryInv, DeliveryTypeOK
<1>3. ASSUME NEW e \in Staff, NEW a \in Addresses \cup {NoAddress}, PutPrivate(e, a) PROVE DeliveryInv'
  BY <1>1, <1>3 DEF PutPrivate, DeliveryInv, DeliveryTypeOK
<1> QED
  BY <1>2, <1>3, PrintedNext, BeginBatchInv, SendMailInv, RecordInv, BatchEnds DEF DeliveryNext, PostStep

\* Nobody is mailed a payslip twice unless it was asked for, batches overlapped, or the
\* record of the first mail was lost (SendEmailBatch, which records each delivery on
\* its own); and a payslip's row has its file unless its commit was not answered.
THEOREM MailsStayOnce == DeliverySpec => []MailedOnce
<1>1. DeliveryInv /\ [DeliveryNext]_dlVars => DeliveryInv'
  BY DeliveryInvNext
<1>2. DeliveryInv => MailedOnce
  BY DEF DeliveryInv, PrintedOK, PostInv, OnceOK, MailedOnce, HasFile
<1> QED
  BY <1>1, <1>2, DeliveryInvInit, PTL DEF DeliverySpec

-----------------------------------------------------------------------------
(* Exchange rates.  A refresh asks for rates newer than the interval, and a    *)
(* success is recorded in the transaction that stores them: what the status    *)
(* shows is what the cache holds.                                              *)

USE ExchangeAssumption DEF ExchangeAssumption

\* Types of the cache, the settings and the calls.
CacheRows == Foreign \X RateDays \X Providers
PolicyType == [preference: Providers \cup {"AUTO"}, interval: Intervals, attempt: Nat, success: Nat,
               failed: BOOLEAN]
GotType == [source: Providers, day: RateDays, codes: SUBSET Foreign] \cup {Rest.got}
WantType == [code: Foreign \cup {""}, on: RateDays \cup {0}]
CallType == [at: {"idle", "due", "refresh", "claim", "fetch", "store", "read", "wait", "answered"},
             kind: {"worker", "document", "force"},
             want: WantType,
             preference: Providers \cup {"AUTO"}, since: Int, got: GotType, busy: BOOLEAN]

ExchangeTypeOK ==
    /\ minute \in Nat \ {0}
    /\ policy \in PolicyType
    /\ cache \in [CacheRows -> 0..minute]
    /\ calling \in [Callers -> CallType]

\* The cache holds a rate fetched after a time.
FetchedAfter(time) == \E row \in CacheRows : cache[row] > time

\* What a call that is under way knows: a refresh asks for rates newer than the
\* interval, and who was let through without a refused claim finds one.
CallOK(call) ==
    /\ call.at \in {"refresh", "claim", "fetch", "store"} => call.since < minute
    /\ call.at = "store" => call.got # Rest.got
    /\ call.at \in {"read", "wait", "answered"} /\ ~call.busy => FetchedAfter(call.since)

\* A success on record left a rate.
SuccessOK == policy.success > 0 => FetchedAfter(policy.success - 1)

ExchangeInv == ExchangeTypeOK /\ SuccessOK /\ \A c \in Callers : CallOK(calling[c])

\* Intervals are positive.
LEMMA IntervalsPositive == \A i \in Intervals : i \in Nat /\ i > 0
  OBVIOUS

\* A call at rest.
LEMMA RestOK == Rest \in CallType /\ CallOK(Rest)
<1>1. Rest.got \in GotType
  BY DEF GotType
<1>2. /\ Rest.at = "idle" /\ Rest.kind = "worker" /\ Rest.want = [code |-> "", on |-> 0] /\ Rest.preference = "AUTO"
      /\ Rest.since = 0 /\ Rest.busy = FALSE
  BY DEF Rest
<1>3. PICK got \in GotType, want \in WantType :
         Rest = [at |-> "idle", kind |-> "worker", want |-> want, preference |-> "AUTO", since |-> 0, got |-> got,
                 busy |-> FALSE]
  BY <1>1 DEF Rest, WantType
<1>4. Rest \in CallType
  BY <1>3 DEF CallType
<1> QED
  BY <1>2, <1>4 DEF CallOK

\* The empty cache satisfies it.
LEMMA ExchangeInvInit == ExchangeInit => ExchangeInv
<1> SUFFICES ASSUME ExchangeInit PROVE ExchangeInv
  OBVIOUS
<1>1. Rest \in CallType /\ CallOK(Rest)
  BY RestOK
<1>2. ExchangeTypeOK
  <2>0. PICK i \in Intervals : policy = [preference |-> "AUTO", interval |-> i, attempt |-> 0, success |-> 0,
                                        failed |-> FALSE]
    BY DEF ExchangeInit
  <2>1. policy \in PolicyType
    BY <2>0 DEF PolicyType
  <2>2. cache \in [CacheRows -> 0..minute]
    BY DEF ExchangeInit, CacheRows
  <2> QED
    BY <1>1, <2>1, <2>2 DEF ExchangeInit, ExchangeTypeOK
<1>3. SuccessOK
  BY DEF ExchangeInit, SuccessOK
<1> QED
  BY <1>1, <1>2, <1>3 DEF ExchangeInv, ExchangeInit

\* A step that only moves a call to a sound state.
LEMMA CallMoves ==
  ASSUME ExchangeInv, NEW c \in Callers, NEW call \in CallType, Become(c, call), CallOK(call),
         UNCHANGED <<minute, policy, cache>>
  PROVE  ExchangeInv'
<1>1. ExchangeTypeOK'
  BY DEF ExchangeInv, ExchangeTypeOK, Become
<1>2. SuccessOK'
  BY DEF ExchangeInv, SuccessOK, FetchedAfter
<1>3. ASSUME NEW d \in Callers PROVE CallOK(calling[d])'
  <2>1. calling'[d] = IF d = c THEN call ELSE calling[d]
    BY DEF ExchangeInv, ExchangeTypeOK, Become
  <2>2. CallOK(calling'[d])
    BY <2>1 DEF ExchangeInv
  <2> QED
    BY <2>2 DEF CallOK, FetchedAfter
<1> QED
  BY <1>1, <1>2, <1>3 DEF ExchangeInv

\* The same for a step that also notes an attempt or a failure in the settings.
LEMMA CallNotes ==
  ASSUME ExchangeInv, NEW c \in Callers, NEW call \in CallType, Become(c, call), CallOK(call),
         policy' \in PolicyType, policy'.success = policy.success, UNCHANGED <<minute, cache>>
  PROVE  ExchangeInv'
<1>1. ExchangeTypeOK'
  BY DEF ExchangeInv, ExchangeTypeOK, Become
<1>2. SuccessOK'
  BY DEF ExchangeInv, SuccessOK, FetchedAfter
<1>3. ASSUME NEW d \in Callers PROVE CallOK(calling[d])'
  <2>1. calling'[d] = IF d = c THEN call ELSE calling[d]
    BY DEF ExchangeInv, ExchangeTypeOK, Become
  <2>2. CallOK(calling'[d])
    BY <2>1 DEF ExchangeInv
  <2> QED
    BY <2>2 DEF CallOK, FetchedAfter
<1> QED
  BY <1>1, <1>2, <1>3 DEF ExchangeInv

\* Where a call goes when its refresh did not fail.
LEMMA AfterRefresh ==
  ASSUME ExchangeInv, NEW c \in Callers, NEW busy \in BOOLEAN, Refreshed(c, busy)
  PROVE  \E call \in CallType :
           /\ Become(c, call)
           /\ call = Rest \/ (call.at = "read" /\ call.busy = busy /\ call.since = calling[c].since)
<1> DEFINE read == [Rest EXCEPT !.at = "read", !.kind = "document", !.want = calling[c].want,
                                !.since = calling[c].since, !.busy = busy]
<1>1. Rest \in CallType
  BY RestOK
<1>2. calling[c] \in CallType
  BY DEF ExchangeInv, ExchangeTypeOK
<1>3. read \in CallType /\ read.at = "read" /\ read.busy = busy /\ read.since = calling[c].since
  BY <1>1, <1>2, ZenonT(60) DEF CallType, Rest, GotType
<1> HIDE DEF read
<1>4. Become(c, IF calling[c].kind = "document" THEN read ELSE Rest)
  BY DEF Refreshed, read
<1> QED
  BY <1>1, <1>3, <1>4

\* Each step keeps the invariant.
LEMMA ExchangeInvNext == ASSUME ExchangeInv, [ExchangeStep]_exchangeVars PROVE ExchangeInv'
<1> USE DEF ExchangeInv
<1>0. /\ minute \in Nat /\ minute > 0 /\ policy \in PolicyType /\ cache \in [CacheRows -> 0..minute]
      /\ \A c \in Callers : calling[c] \in CallType
      /\ policy.interval \in Nat /\ policy.interval > 0 /\ policy.success \in Nat
      /\ calling \in [Callers -> CallType]
  <2>1. minute \in Nat /\ minute > 0 /\ policy \in PolicyType
    BY DEF ExchangeTypeOK
  <2>2. policy.interval \in Intervals /\ policy.success \in Nat
    BY <2>1 DEF PolicyType
  <2> QED
    BY <2>1, <2>2, IntervalsPositive DEF ExchangeTypeOK
<1>r. Rest \in CallType /\ CallOK(Rest)
  BY RestOK
<1>1. CASE Pass
  <2>1. minute' = minute + 1 /\ UNCHANGED <<policy, cache, calling>>
    BY <1>1 DEF Pass
  <2>2. ExchangeTypeOK'
    BY <1>0, <2>1 DEF ExchangeTypeOK
  <2>3. ASSUME NEW c \in Callers PROVE CallOK(calling[c])'
    <3>1. CallOK(calling[c]) /\ calling[c].since \in Int
      BY <1>0 DEF CallType
    <3> QED
      BY <1>0, <2>1, <3>1 DEF CallOK, FetchedAfter
  <2> QED
    BY <2>1, <2>2, <2>3 DEF SuccessOK, FetchedAfter
<1>2. ASSUME NEW preference \in Providers \cup {"AUTO"}, NEW i \in Intervals, UpdateSettings(preference, i)
      PROVE  ExchangeInv'
  <2>1. policy' \in PolicyType /\ policy'.success \in {0, policy.success}
    BY <1>0, <1>2 DEF UpdateSettings, PolicyType
  <2>2. UNCHANGED <<minute, cache, calling>>
    BY <1>2 DEF UpdateSettings
  <2>3. ExchangeTypeOK'
    BY <2>1, <2>2 DEF ExchangeTypeOK
  <2>4. SuccessOK'
    BY <2>1, <2>2 DEF SuccessOK, FetchedAfter
  <2> QED
    BY <2>2, <2>3, <2>4 DEF CallOK, FetchedAfter
<1>3. ASSUME NEW c \in Callers, NEW code \in Foreign, NEW on \in RateDays, ResolveRate(c, code, on)
      PROVE  ExchangeInv'
  <2> DEFINE call == [Rest EXCEPT !.at = "due", !.kind = "document", !.want = [code |-> code, on |-> on]]
  <2>0. [code |-> code, on |-> on] \in WantType
    BY DEF WantType
  <2>1. call.at = "due" /\ call \in CallType
    BY <1>r, <2>0 DEF CallType
  <2>2. CallOK(call)
    BY <2>1 DEF CallOK
  <2> QED
    BY <1>3, <2>2, <2>1, CallMoves DEF ResolveRate
<1>4. ASSUME NEW c \in Callers, RefreshDue(c) \/ RefreshNow(c)
      PROVE  ExchangeInv'
  <2> DEFINE due == [Rest EXCEPT !.at = "due"]
             now == [Rest EXCEPT !.at = "refresh", !.kind = "force"]
  <2>0. Rest.since = 0
    BY DEF Rest
  <2>1. /\ due \in CallType /\ due.at = "due"
        /\ now \in CallType /\ now.at = "refresh" /\ now.since = 0
    BY <1>r, <2>0 DEF CallType
  <2>2. CallOK(due) /\ CallOK(now)
    BY <1>0, <2>1 DEF CallOK
  <2> QED
    BY <1>4, <2>1, <2>2, CallMoves DEF RefreshDue, RefreshNow
<1>5. ASSUME NEW c \in Callers, refreshIfDue(c) PROVE ExchangeInv'
  <2> DEFINE asked == [calling[c] EXCEPT !.since = minute - policy.interval]
             refresh == [asked EXCEPT !.at = "refresh"]
             read == [asked EXCEPT !.at = "read"]
  <2>0. minute - policy.interval \in Int /\ calling[c] \in CallType
    BY <1>0
  <2>1. refresh \in CallType /\ read \in CallType
    BY <1>0, <2>0 DEF CallType
  <2>a. /\ refresh.since = minute - policy.interval /\ refresh.at = "refresh"
        /\ read.since = minute - policy.interval /\ read.at = "read"
    BY <2>0 DEF CallType
  <2>2. CallOK(refresh)
    <3>1. minute - policy.interval < minute
      BY <1>0
    <3> HIDE DEF refresh
    <3> QED
      BY <2>a, <3>1 DEF CallOK
  <2>3. CASE Due
    <3>1. Become(c, refresh) /\ UNCHANGED <<minute, policy, cache>>
      BY <1>5, <2>3 DEF refreshIfDue
    <3> QED
      BY <2>1, <2>2, <3>1, CallMoves
  <2>4. CASE ~Due
    <3>1. policy.success > 0 /\ policy.success > minute - policy.interval
      BY <1>0, <2>4 DEF Due
    <3>2. PICK row \in CacheRows : cache[row] > policy.success - 1
      BY <3>1 DEF SuccessOK, FetchedAfter
    <3>3. cache[row] > minute - policy.interval
      BY <1>0, <3>1, <3>2
    <3>4. CallOK(read)
      <4>1. FetchedAfter(minute - policy.interval)
        BY <3>3 DEF FetchedAfter
      <4> HIDE DEF read
      <4> QED
        BY <2>a, <4>1 DEF CallOK
    <3>5. Become(c, read) \/ Become(c, Rest)
      BY <1>5, <2>4 DEF refreshIfDue
    <3>6. UNCHANGED <<minute, policy, cache>>
      BY <1>5 DEF refreshIfDue
    <3> QED
      BY <1>r, <2>1, <3>4, <3>5, <3>6, CallMoves
  <2> QED
    BY <2>3, <2>4
<1>6. ASSUME NEW c \in Callers, refreshCompany(c) PROVE ExchangeInv'
  <2> DEFINE call == [calling[c] EXCEPT !.at = "claim", !.preference = policy.preference]
  <2>1. call \in CallType /\ CallOK(call)
    BY <1>0, <1>6, ZenonT(60) DEF refreshCompany, CallType, CallOK, PolicyType
  <2> QED
    BY <1>6, <2>1, CallMoves DEF refreshCompany
<1>7. ASSUME NEW c \in Callers, Claim(c) PROVE ExchangeInv'
  <2>1. CASE Claimable(calling[c].kind = "force")
    <3> DEFINE call == [calling[c] EXCEPT !.at = "fetch"]
    <3>1. call \in CallType /\ CallOK(call)
      BY <1>0, <1>7 DEF Claim, CallType, CallOK
    <3>2. policy' \in PolicyType /\ policy'.success = policy.success
      BY <1>0, <1>7, <2>1 DEF Claim, PolicyType
    <3>3. Become(c, call) /\ UNCHANGED <<minute, cache>>
      BY <1>7, <2>1 DEF Claim
    <3> QED
      BY <3>1, <3>2, <3>3, CallNotes
  <2>2. CASE ~Claimable(calling[c].kind = "force")
    <3>1. Refreshed(c, TRUE) /\ UNCHANGED <<minute, policy, cache>>
      BY <1>7, <2>2 DEF Claim
    <3>2. PICK call \in CallType : Become(c, call) /\ (call = Rest \/ (call.at = "read" /\ call.busy))
      BY <3>1, AfterRefresh
    <3>3. CallOK(call)
      BY <1>r, <3>2 DEF CallOK
    <3> QED
      BY <3>1, <3>2, <3>3, CallMoves
  <2> QED
    BY <2>1, <2>2
<1>8. ASSUME NEW c \in Callers, Fetch(c) PROVE ExchangeInv'
  <2>1. PICK got \in fetchPreferred(calling[c].preference) :
           Become(c, [calling[c] EXCEPT !.at = "store", !.preference = "AUTO", !.got = got])
    BY <1>8 DEF Fetch
  <2>2. got \in [source: Providers, day: RateDays, codes: SUBSET Foreign]
    BY DEF fetchPreferred, fetchTCMB, fetchECB, Providers
  <2>3. got \in GotType /\ got # Rest.got
    <3>1. got.source # "" /\ Rest.got.source = ""
      BY <2>2 DEF Providers, Rest
    <3> QED
      BY <2>2, <3>1 DEF GotType
  <2> DEFINE call == [calling[c] EXCEPT !.at = "store", !.preference = "AUTO", !.got = got]
  <2>4. call \in CallType /\ CallOK(call)
    BY <1>0, <1>8, <2>3 DEF Fetch, CallType, CallOK
  <2> QED
    BY <1>8, <2>1, <2>4, CallMoves DEF Fetch
<1>9. ASSUME NEW c \in Callers, StoreRates(c) PROVE ExchangeInv'
  <2> DEFINE got == calling[c].got
  <2>1. /\ got \in [source: Providers, day: RateDays, codes: SUBSET Foreign] /\ got.codes # {}
        /\ calling[c].since < minute
    BY <1>0, <1>9 DEF StoreRates, CallOK, CallType, GotType
  <2>2. /\ cache' = [row \in DOMAIN cache |->
                        IF row[1] \in got.codes /\ row[2] = got.day /\ row[3] = got.source THEN minute ELSE cache[row]]
        /\ policy' = [policy EXCEPT !.success = minute, !.failed = FALSE]
        /\ Refreshed(c, FALSE) /\ minute' = minute
    BY <1>9 DEF StoreRates
  <2>3. cache' \in [CacheRows -> 0..minute] /\ \A row \in CacheRows : cache'[row] >= cache[row]
    BY <1>0, <2>2
  <2>4. policy' \in PolicyType /\ policy'.success = minute
    BY <1>0, <2>2 DEF PolicyType
  <2>5. PICK code \in got.codes : TRUE
    BY <2>1
  <2>6. /\ <<code, got.day, got.source>> \in CacheRows
        /\ cache'[<<code, got.day, got.source>>] = minute
    BY <1>0, <2>1, <2>2, <2>5 DEF CacheRows
  <2>7. PICK call \in CallType :
           /\ Become(c, call)
           /\ call = Rest \/ (call.at = "read" /\ call.since = calling[c].since)
    BY <2>2, AfterRefresh
  <2>8. /\ calling' \in [Callers -> CallType] /\ calling'[c] = call
        /\ \A d \in Callers : d # c => calling'[d] = calling[d]
    BY <1>0, <2>7 DEF Become
  <2>9. ExchangeTypeOK'
    BY <1>0, <2>2, <2>3, <2>4, <2>8 DEF ExchangeTypeOK
  <2>10. SuccessOK'
    BY <1>0, <2>4, <2>6 DEF SuccessOK, FetchedAfter
  <2>11. ASSUME NEW d \in Callers PROVE CallOK(calling[d])'
    <3>1. CASE d = c
      <4>1. CASE call = Rest
        <5>1. Rest.at = "idle"
          BY DEF Rest
        <5> QED
          BY <2>8, <3>1, <4>1, <5>1 DEF CallOK
      <4>2. CASE call.at = "read" /\ call.since = calling[c].since
        <5>1. FetchedAfter(call.since)'
          BY <2>1, <2>6, <4>2 DEF FetchedAfter
        <5> QED
          BY <2>8, <3>1, <4>2, <5>1 DEF CallOK
      <4> QED
        BY <2>7, <4>1, <4>2
    <3>2. CASE d # c
      <4>1. CallOK(calling[d]) /\ calling'[d] = calling[d] /\ calling[d].since \in Int
        BY <1>0, <2>8, <3>2 DEF CallType
      <4>2. FetchedAfter(calling[d].since) => FetchedAfter(calling[d].since)'
        BY <1>0, <2>3, <4>1 DEF FetchedAfter
      <4> QED
        BY <2>2, <4>1, <4>2 DEF CallOK
    <3> QED
      BY <3>1, <3>2
  <2> QED
    BY <2>9, <2>10, <2>11
<1>10. ASSUME NEW c \in Callers, markFailure(c) PROVE ExchangeInv'
  <2>1. policy' \in PolicyType /\ policy'.success = policy.success
    BY <1>0, <1>10 DEF markFailure, PolicyType
  <2> QED
    BY <1>10, <1>r, <2>1, CallNotes DEF markFailure
<1>11. ASSUME NEW c \in Callers, Abandon(c) \/ waitForRate(c) \/ Done(c) PROVE ExchangeInv'
  BY <1>11, <1>r, CallMoves DEF Abandon, waitForRate, Done
<1>12. ASSUME NEW c \in Callers, documentRate(c) PROVE ExchangeInv'
  <2> DEFINE answered == [calling[c] EXCEPT !.at = "answered"]
             waits == [calling[c] EXCEPT !.at = "wait"]
  <2>1. answered \in CallType /\ waits \in CallType
    BY <1>0 DEF CallType
  <2>2. CallOK(answered) /\ CallOK(waits)
    BY <1>0, <1>12 DEF documentRate, CallOK, CallType
  <2>3. Become(c, answered) \/ Become(c, waits) \/ Become(c, Rest)
    BY <1>12 DEF documentRate
  <2>4. UNCHANGED <<minute, policy, cache>>
    BY <1>12 DEF documentRate
  <2> QED
    BY <1>r, <2>1, <2>2, <2>3, <2>4, CallMoves
<1>13. CASE UNCHANGED exchangeVars
  BY <1>13 DEF exchangeVars, ExchangeTypeOK, SuccessOK, CallOK, FetchedAfter
<1> QED
  BY <1>1, <1>2, <1>3, <1>4, <1>5, <1>6, <1>7, <1>8, <1>9, <1>10, <1>11, <1>12, <1>13
     DEF ExchangeStep

\* An outage is never hidden from a document: a rate it gets while no claim of it
\* was refused was fetched within the company's interval before it asked, or since
\* (refreshIfDue, refreshCompany, and the error of a failed fetch, which ends the
\* document's request).
THEOREM OutageStaysSeen == ExchangeSpec => []OutageIsSeen
<1>1. ExchangeInv /\ [ExchangeStep]_exchangeVars => ExchangeInv'
  BY ExchangeInvNext
<1>2. ExchangeInv => OutageIsSeen
  BY DEF ExchangeInv, ExchangeTypeOK, CallOK, FetchedAfter, OutageIsSeen
<1> QED
  BY <1>1, <1>2, ExchangeInvInit, PTL DEF ExchangeSpec
-----------------------------------------------------------------------------
(* An order and what is made from it.  The sums of the model run over the      *)
(* documents that count, and each step brings one document into such a set,    *)
(* takes one out, or touches none.  What is billed through dispatches is one   *)
(* sum with what is billed directly because no two invoices share a source     *)
(* twice (InvoicedIs).                                                         *)

DocType == [status: {"NONE", "DRAFT", "POSTED", "CANCELLED"}, src: Docs \cup {"ORDER", "DIRECT"}, qty: [Lines -> Nat]]
HoldType == [status: {"NONE", "ACTIVE", "CONSUMED", "RELEASED"}, consumed: Nat, released: Nat]

\* The documents of each kind that count, and what they sum up to on a line, as
\* functions of the documents.
PostedIn(dc, D) == {d \in D : dc[d].status = "POSTED"}
FromIn(dc, D, s) == {d \in PostedIn(dc, D) : dc[d].src = s}
QtyOf(dc, l) == [d \in Docs |-> dc[d].qty[l]]
SumOf(dc, K, l) == SumFunctionOnSet(QtyOf(dc, l), K)

Shipping(dc) == FromIn(dc, Dispatches, "ORDER")
Leaving(dc) == PostedIn(dc, Dispatches)
Selling(dc) == FromIn(dc, Invoices, "DIRECT")
Returning(dc) == PostedIn(dc, Returns)
Charging(dc) ==
    {i \in PostedIn(dc, Invoices) :
        /\ \/ dc[i].src = "ORDER"
           \/ dc[i].src \in Dispatches /\ dc[dc[i].src].src = "ORDER"
        /\ ~ (dc[i].src \in Docs /\ dc[dc[i].src].status # "POSTED")}

Shipped(dc, l) == SumOf(dc, Shipping(dc), l)

StatusIn(dc) ==
    IF \A l \in Lines : Shipped(dc, l) = 0 THEN "CONFIRMED"
    ELSE IF \A l \in Lines : Shipped(dc, l) >= Ordered[l] THEN "FULFILLED"
    ELSE "PARTIALLY_FULFILLED"

\* A document takes something; its source is a document that was posted, or an
\* order that was confirmed.
DocsIn(dc, o) ==
    \A d \in Docs :
        /\ dc[d].status # "NONE" => \E l \in Lines : dc[d].qty[l] > 0
        /\ dc[d].src \in Docs => dc[dc[d].src].status \in {"POSTED", "CANCELLED"}
        /\ dc[d].src = "ORDER" => o # "DRAFT"

\* A row of reservations: what it holds of the n that were ordered.
HoldOK(h, n) ==
    /\ h.status = "NONE" => h.consumed = 0 /\ h.released = 0
    /\ h.status = "ACTIVE" => h.released = 0 /\ h.consumed < n
    /\ h.status = "CONSUMED" => h.released = 0 /\ h.consumed = n
    /\ h.status = "RELEASED" => h.consumed + h.released = n
HeldRow(h, n) == IF h.status = "ACTIVE" THEN n - h.consumed - h.released ELSE 0

StatesOK ==
    /\ order \in OpenStates \cup {"DRAFT", "CANCELLED"}
    /\ doc \in [Docs -> DocType]
    /\ hold \in [Lines -> HoldType]
    /\ physical \in [Lines -> Nat] /\ reserved \in [Lines -> Nat]
HoldsOK ==
    \A l \in Lines : /\ HoldOK(hold[l], Ordered[l]) /\ reserved[l] = HeldRow(hold[l], Ordered[l])
                     /\ order = "DRAFT" => hold[l].status = "NONE"
                     /\ order \in OpenStates =>
                          hold[l].status \in {"ACTIVE", "CONSUMED"} /\ hold[l].consumed = Shipped(doc, l)
LedgerOK ==
    \A l \in Lines : /\ Shipped(doc, l) <= Ordered[l] /\ SumOf(doc, Charging(doc), l) <= Ordered[l]
                     /\ physical[l] = Opening[l] - SumOf(doc, Leaving(doc), l)
                                      - SumOf(doc, Selling(doc), l) + SumOf(doc, Returning(doc), l)

OrderOK ==
    /\ StatesOK /\ DocsIn(doc, order) /\ HoldsOK /\ LedgerOK
    /\ order \in OpenStates => order = StatusIn(doc)
-----------------------------------------------------------------------------
\* A document's quantities and the sets of documents are what sums are made of.
LEMMA QtyIs ==
  ASSUME NEW dc, dc \in [Docs -> DocType], NEW l, l \in Lines, KindAssumption
  PROVE  /\ \A d \in Docs : QtyOf(dc, l)[d] = dc[d].qty[l] /\ QtyOf(dc, l)[d] \in Nat /\ QtyOf(dc, l)[d] \in Int
         /\ \A K \in SUBSET Docs : IsFiniteSet(K)
<1>1. \A d \in Docs : dc[d].qty[l] \in Nat
  <2> TAKE d \in Docs
  <2>1. dc[d] \in DocType
    OBVIOUS
  <2>2. dc[d].qty \in [Lines -> Nat]
    BY <2>1 DEF DocType
  <2> QED
    BY <2>2
<1>2. \A K \in SUBSET Docs : IsFiniteSet(K)
  BY FS_Subset DEF KindAssumption
<1> QED
  BY <1>1, <1>2 DEF QtyOf

LEMMA SumOfIs ==
  ASSUME NEW dc, dc \in [Docs -> DocType], NEW l, l \in Lines, NEW K \in SUBSET Docs, KindAssumption
  PROVE  SumOf(dc, K, l) \in Nat /\ \A d \in K : dc[d].qty[l] <= SumOf(dc, K, l)
<1>1. IsFiniteSet(K) /\ \A d \in K : QtyOf(dc, l)[d] \in Nat /\ QtyOf(dc, l)[d] = dc[d].qty[l]
  BY QtyIs
<1> QED
  BY <1>1, SumOfNaturals DEF SumOf

LEMMA SumOfNone ==
  ASSUME NEW dc, dc \in [Docs -> DocType], NEW l, l \in Lines, NEW K \in SUBSET Docs, KindAssumption,
         \A d \in K : dc[d].qty[l] = 0
  PROVE  SumOf(dc, K, l) = 0
<1>1. IsFiniteSet(K) /\ \A d \in K : QtyOf(dc, l)[d] = 0
  BY QtyIs
<1> QED
  BY <1>1, SumZero DEF SumOf

\* What they sum up to when a document comes, goes, or changes and does not count.
LEMMA SumStays ==
  ASSUME NEW dc, dc \in [Docs -> DocType], NEW dd, dd \in [Docs -> DocType], NEW l, l \in Lines,
         NEW K \in SUBSET Docs, KindAssumption, \A e \in K : dd[e].qty = dc[e].qty
  PROVE  SumOf(dd, K, l) = SumOf(dc, K, l)
<1>1. IsFiniteSet(K) /\ \A e \in K : QtyOf(dc, l)[e] \in Int /\ QtyOf(dd, l)[e] = QtyOf(dc, l)[e]
  BY QtyIs
<1> QED
  BY <1>1, SumSame DEF SumOf

LEMMA SumGains ==
  ASSUME NEW dc, dc \in [Docs -> DocType], NEW dd, dd \in [Docs -> DocType], NEW l, l \in Lines,
         NEW K \in SUBSET Docs, KindAssumption, NEW d \in Docs, d \notin K, \A e \in K : dd[e].qty = dc[e].qty
  PROVE  SumOf(dd, K \cup {d}, l) = SumOf(dc, K, l) + dd[d].qty[l]
<1> DEFINE L == K \cup {d}
<1>1. L \in SUBSET Docs /\ d \in L /\ L \ {d} = K
  OBVIOUS
<1> HIDE DEF L
<1>2. IsFiniteSet(L) /\ \A e \in L : QtyOf(dd, l)[e] \in Int /\ QtyOf(dd, l)[d] = dd[d].qty[l]
  BY <1>1, QtyIs
<1>3. SumOf(dd, L, l) = QtyOf(dd, l)[d] + SumOf(dd, K, l)
  BY <1>1, <1>2, SumPull DEF SumOf
<1>4. SumOf(dd, K, l) = SumOf(dc, K, l) /\ SumOf(dc, K, l) \in Int /\ dd[d].qty[l] \in Int
  BY <1>1, <1>2, SumStays, SumOfIs
<1> QED
  BY <1>1, <1>2, <1>3, <1>4 DEF L

LEMMA SumDrops ==
  ASSUME NEW dc, dc \in [Docs -> DocType], NEW dd, dd \in [Docs -> DocType], NEW l, l \in Lines,
         NEW K \in SUBSET Docs, KindAssumption, NEW d \in K, \A e \in K \ {d} : dd[e].qty = dc[e].qty
  PROVE  SumOf(dd, K \ {d}, l) = SumOf(dc, K, l) - dc[d].qty[l]
<1> DEFINE R == K \ {d}
<1>1. R \in SUBSET Docs /\ d \notin R /\ R \cup {d} = K /\ \A e \in R : dc[e].qty = dd[e].qty
  OBVIOUS
<1> HIDE DEF R
<1>2. SumOf(dc, R \cup {d}, l) = SumOf(dd, R, l) + dc[d].qty[l]
  BY <1>1, SumGains
<1>3. SumOf(dd, R, l) \in Int /\ dc[d].qty[l] \in Int
  BY <1>1, SumOfIs, QtyIs
<1>4. SumOf(dc, K, l) = SumOf(dd, R, l) + dc[d].qty[l]
  BY <1>1, <1>2
<1>5. SumOf(dd, R, l) = SumOf(dc, K, l) - dc[d].qty[l]
  BY <1>3, <1>4
<1> QED
  BY <1>5 DEF R

\* What was billed of the order, as commercialOrderLineInvoicedTotal adds it up.
InvoicedIn(dc, l) ==
    SumOf(dc, FromIn(dc, Invoices, "ORDER"), l)
    + SumFunctionOnSet([d \in Dispatches |-> SumOf(dc, FromIn(dc, Invoices, d), l)], Shipping(dc))

LEMMA InvoicedIs ==
  ASSUME NEW dc, dc \in [Docs -> DocType], NEW l, l \in Lines, KindAssumption
  PROVE  InvoicedIn(dc, l) = SumOf(dc, Charging(dc), l)
<1> DEFINE I == PostedIn(dc, Invoices)
           f == QtyOf(dc, l)
           D == Shipping(dc)
           g == [d \in Dispatches |-> SumOf(dc, FromIn(dc, Invoices, d), l)]
           part == [d \in D |-> FromIn(dc, Invoices, d)]
           A == FromIn(dc, Invoices, "ORDER")
           B == {i \in I : dc[i].src \in D}
<1>1. I \in SUBSET Docs /\ A \in SUBSET Docs /\ B \in SUBSET Docs /\ D \in SUBSET Docs /\ D \in SUBSET Dispatches
  BY DEF PostedIn, FromIn, Shipping, Docs
<1>2. A \cap B = {} /\ A \cup B = Charging(dc)
  <2>1. \A x \in Docs : x # "ORDER"
    BY DEF KindAssumption
  <2>2. \A d \in Dispatches : d \in Docs
    BY DEF Docs
  <2> QED
    BY <2>1, <2>2 DEF PostedIn, FromIn, Shipping, Charging
<1>3. \A d \in D : part[d] \in SUBSET I /\ part[d] = FromIn(dc, Invoices, d)
  BY DEF FromIn
<1>4. \A d, e \in D : d # e => part[d] \cap part[e] = {}
  BY DEF FromIn
<1>5. B \in SUBSET I /\ \A i \in I : i \in B <=> \E d \in D : i \in part[d]
  BY DEF FromIn
<1>6. \A d \in D : g[d] = SumFunctionOnSet(f, part[d])
  <2> TAKE d \in D
  <2>1. g[d] = SumOf(dc, FromIn(dc, Invoices, d), l) /\ part[d] = FromIn(dc, Invoices, d)
    BY <1>1, <1>3
  <2> QED
    BY <2>1 DEF SumOf
<1>7. /\ IsFiniteSet(I) /\ IsFiniteSet(A) /\ IsFiniteSet(B) /\ IsFiniteSet(D)
      /\ \A i \in I : f[i] \in Int
      /\ \A i \in A \cup B : f[i] \in Int
  BY <1>1, QtyIs
<1>8. InvoicedIn(dc, l) = SumFunctionOnSet(f, A) + SumFunctionOnSet(g, D)
  BY DEF InvoicedIn, SumOf
<1>9. SumOf(dc, Charging(dc), l) = SumFunctionOnSet(f, A \cup B)
  BY <1>2 DEF SumOf
<1> HIDE DEF I, A, B, D, f, g, part
<1>10. SumFunctionOnSet(g, D) = SumFunctionOnSet(f, B)
  BY <1>3, <1>4, <1>5, <1>6, <1>7, SumOfParts
<1>11. SumFunctionOnSet(f, A \cup B) = SumFunctionOnSet(f, A) + SumFunctionOnSet(f, B)
  BY <1>2, <1>7, SumUnion
<1> QED
  BY <1>8, <1>9, <1>10, <1>11
-----------------------------------------------------------------------------
\* All sets of documents that count are sets of documents.
LEMMA SetsAre ==
  ASSUME NEW dc
  PROVE  /\ Shipping(dc) \in SUBSET Docs /\ Leaving(dc) \in SUBSET Docs /\ Selling(dc) \in SUBSET Docs
         /\ Returning(dc) \in SUBSET Docs /\ Charging(dc) \in SUBSET Docs
BY DEF Shipping, Leaving, Selling, Returning, Charging, FromIn, PostedIn, Docs

\* The same documents count, and none of them changed: the same quantities.
LEMMA SameSums ==
  ASSUME NEW dc, dc \in [Docs -> DocType], NEW dd, dd \in [Docs -> DocType], NEW l, l \in Lines, KindAssumption,
         NEW d \in Docs, dc[d].status # "POSTED", \A x \in Docs : x # d => dd[x] = dc[x],
         Shipping(dd) = Shipping(dc), Leaving(dd) = Leaving(dc), Selling(dd) = Selling(dc),
         Returning(dd) = Returning(dc), Charging(dd) = Charging(dc)
  PROVE  /\ Shipped(dd, l) = Shipped(dc, l)
         /\ SumOf(dd, Charging(dd), l) = SumOf(dc, Charging(dc), l)
         /\ SumOf(dd, Leaving(dd), l) = SumOf(dc, Leaving(dc), l)
         /\ SumOf(dd, Selling(dd), l) = SumOf(dc, Selling(dc), l)
         /\ SumOf(dd, Returning(dd), l) = SumOf(dc, Returning(dc), l)
<1>1. ASSUME NEW K \in SUBSET Docs, d \notin K PROVE SumOf(dd, K, l) = SumOf(dc, K, l)
  BY <1>1, SumStays
<1>2. d \notin Shipping(dc) /\ d \notin Leaving(dc) /\ d \notin Selling(dc) /\ d \notin Returning(dc) /\ d \notin Charging(dc)
  BY DEF Shipping, Leaving, Selling, Returning, Charging, FromIn, PostedIn
<1> QED
  BY <1>1, <1>2, SetsAre DEF Shipped

\* A draft is written, written anew or deleted: nothing that counts moves.
LEMMA DraftMovesNothing ==
  ASSUME NEW dc, dc \in [Docs -> DocType], NEW dd, dd \in [Docs -> DocType], NEW l, l \in Lines, KindAssumption,
         NEW o, DocsIn(dc, o), NEW d \in Docs, dc[d].status \in {"NONE", "DRAFT"}, dd[d].status \in {"NONE", "DRAFT"},
         \A x \in Docs : x # d => dd[x] = dc[x]
  PROVE  /\ Shipped(dd, l) = Shipped(dc, l)
         /\ SumOf(dd, Charging(dd), l) = SumOf(dc, Charging(dc), l)
         /\ SumOf(dd, Leaving(dd), l) = SumOf(dc, Leaving(dc), l)
         /\ SumOf(dd, Selling(dd), l) = SumOf(dc, Selling(dc), l)
         /\ SumOf(dd, Returning(dd), l) = SumOf(dc, Returning(dc), l)
<1>1. \A x \in Docs : dc[x].src # d
  BY DEF DocsIn
<1>2. \A x \in Docs : x # d => dd[x] = dc[x]
  OBVIOUS
<1>3. \A D \in SUBSET Docs : PostedIn(dd, D) = PostedIn(dc, D)
  BY <1>2 DEF PostedIn
<1>4. Dispatches \in SUBSET Docs /\ Invoices \in SUBSET Docs /\ Returns \in SUBSET Docs
  BY DEF Docs
<1>5. \A D \in SUBSET Docs : \A x \in PostedIn(dc, D) : x \in Docs /\ x # d
  BY DEF PostedIn
<1>6. Shipping(dd) = Shipping(dc) /\ Leaving(dd) = Leaving(dc) /\ Selling(dd) = Selling(dc) /\ Returning(dd) = Returning(dc)
  BY <1>2, <1>3, <1>4, <1>5 DEF Shipping, Leaving, Selling, Returning, FromIn
<1>7. Charging(dd) = Charging(dc)
  <2>1. \A i \in PostedIn(dc, Invoices) : dd[i] = dc[i] /\ (dc[i].src \in Docs => dd[dc[i].src] = dc[dc[i].src])
    BY <1>1, <1>2, <1>4, <1>5
  <2>2. PostedIn(dd, Invoices) = PostedIn(dc, Invoices)
    BY <1>3, <1>4
  <2> QED
    BY <1>4, <2>1, <2>2 DEF Charging
<1> QED
  BY <1>2, <1>6, <1>7, SameSums

\* An invoice charges the order when its source is the order, or a dispatch of the
\* order that stands.
Charges(dc, i) ==
    /\ i \in Invoices
    /\ \/ dc[i].src = "ORDER"
       \/ dc[i].src \in Dispatches /\ dc[dc[i].src].src = "ORDER"
    /\ ~ (dc[i].src \in Docs /\ dc[dc[i].src].status # "POSTED")

\* A set of documents gains the one that is posted.
LEMMA PostAdds ==
  ASSUME NEW dc, dc \in [Docs -> DocType], NEW dd, dd \in [Docs -> DocType], NEW l, l \in Lines, KindAssumption,
         NEW d \in Docs, dd[d].qty = dc[d].qty, \A x \in Docs : x # d => dd[x] = dc[x],
         NEW K \in SUBSET Docs, d \notin K, NEW L, L = K \cup {d}
  PROVE  SumOf(dd, L, l) = SumOf(dc, K, l) + dc[d].qty[l]
<1>1. \A e \in K : dd[e].qty = dc[e].qty
  OBVIOUS
<1>2. SumOf(dd, K \cup {d}, l) = SumOf(dc, K, l) + dd[d].qty[l]
  BY <1>1, SumGains
<1> QED
  BY <1>2

\* ... and loses the one that is cancelled.
LEMMA CancelTakes ==
  ASSUME NEW dc, dc \in [Docs -> DocType], NEW dd, dd \in [Docs -> DocType], NEW l, l \in Lines, KindAssumption,
         NEW d \in Docs, \A x \in Docs : x # d => dd[x] = dc[x],
         NEW K \in SUBSET Docs, NEW L \in SUBSET Docs, L = K \ {d}
  PROVE  /\ d \in K => SumOf(dd, L, l) = SumOf(dc, K, l) - dc[d].qty[l]
         /\ d \notin K => SumOf(dd, L, l) = SumOf(dc, K, l)
<1>1. \A e \in K \ {d} : dd[e].qty = dc[e].qty
  OBVIOUS
<1>2. CASE d \in K
  BY <1>1, <1>2, SumDrops
<1>3. CASE d \notin K
  <2>1. L = K
    BY <1>3
  <2> QED
    BY <1>1, <1>3, <2>1, SumStays
<1> QED
  BY <1>2, <1>3

\* A document is posted.
LEMMA PostMoves ==
  ASSUME NEW dc, dc \in [Docs -> DocType], NEW dd, dd \in [Docs -> DocType], NEW l, l \in Lines, KindAssumption,
         NEW o, DocsIn(dc, o), NEW d \in Docs, dc[d].status = "DRAFT",
         \A x \in Docs : x # d => dd[x] = dc[x],
         dd[d].status = "POSTED", dd[d].src = dc[d].src, dd[d].qty = dc[d].qty
  PROVE  /\ d \in Dispatches /\ dc[d].src = "ORDER" => Shipped(dd, l) = Shipped(dc, l) + dc[d].qty[l]
         /\ ~(d \in Dispatches /\ dc[d].src = "ORDER") => Shipped(dd, l) = Shipped(dc, l)
         /\ Charges(dc, d) => SumOf(dd, Charging(dd), l) = SumOf(dc, Charging(dc), l) + dc[d].qty[l]
         /\ ~Charges(dc, d) => SumOf(dd, Charging(dd), l) = SumOf(dc, Charging(dc), l)
         /\ d \in Dispatches => SumOf(dd, Leaving(dd), l) = SumOf(dc, Leaving(dc), l) + dc[d].qty[l]
         /\ d \notin Dispatches => SumOf(dd, Leaving(dd), l) = SumOf(dc, Leaving(dc), l)
         /\ d \in Invoices /\ dc[d].src = "DIRECT" => SumOf(dd, Selling(dd), l) = SumOf(dc, Selling(dc), l) + dc[d].qty[l]
         /\ ~(d \in Invoices /\ dc[d].src = "DIRECT") => SumOf(dd, Selling(dd), l) = SumOf(dc, Selling(dc), l)
         /\ d \in Returns => SumOf(dd, Returning(dd), l) = SumOf(dc, Returning(dc), l) + dc[d].qty[l]
         /\ d \notin Returns => SumOf(dd, Returning(dd), l) = SumOf(dc, Returning(dc), l)
<1>1. \A x \in Docs : dc[x].src # d
  BY DEF DocsIn
<1>2. /\ \A x \in Docs : x # d => dd[x] = dc[x]
      /\ dd[d].status = "POSTED" /\ dd[d].src = dc[d].src /\ dd[d].qty = dc[d].qty
  OBVIOUS
<1>3. Dispatches \in SUBSET Docs /\ Invoices \in SUBSET Docs /\ Returns \in SUBSET Docs
  BY DEF Docs
<1>4. \A D \in SUBSET Docs : d \notin PostedIn(dc, D) /\ PostedIn(dd, D) = IF d \in D THEN PostedIn(dc, D) \cup {d} ELSE PostedIn(dc, D)
  BY <1>2 DEF PostedIn
<1>5. \A D \in SUBSET Docs, s \in {"ORDER", "DIRECT"} :
         /\ d \notin FromIn(dc, D, s)
         /\ FromIn(dd, D, s) = IF d \in D /\ dc[d].src = s THEN FromIn(dc, D, s) \cup {d} ELSE FromIn(dc, D, s)
  BY <1>2 DEF PostedIn, FromIn
<1>6. /\ d \notin Charging(dc) /\ (~Charges(dc, d) => Charging(dd) = Charging(dc))
      /\ Charges(dc, d) => Charging(dd) = Charging(dc) \cup {d}
  <2>1. \A i \in Docs : dc[i].src \in Docs => dd[dc[i].src] = dc[dc[i].src]
    BY <1>1, <1>2
  <2>2. ASSUME NEW i \in Docs, i # d PROVE i \in Charging(dd) <=> i \in Charging(dc)
    BY <1>2, <1>3, <2>1, <2>2 DEF Charging, PostedIn
  <2>3. d \in Charging(dd) => Charges(dc, d)
    BY <1>2, <1>3, <2>1 DEF Charging, Charges, PostedIn
  <2>4. d \notin Charging(dc)
    BY DEF Charging, PostedIn
  <2>5. ASSUME ~Charges(dc, d) PROVE Charging(dd) = Charging(dc)
    <3>1. \A i \in Docs : i \in Charging(dd) <=> i \in Charging(dc)
      BY <2>2, <2>3, <2>4, <2>5
    <3>2. Charging(dd) \in SUBSET Docs /\ Charging(dc) \in SUBSET Docs
      BY SetsAre
    <3> QED
      BY <3>1, <3>2
  <2>6. ASSUME Charges(dc, d) PROVE Charging(dd) = Charging(dc) \cup {d}
    <3>1. d \in Charging(dd)
      <4>1. d \in PostedIn(dd, Invoices) /\ (dc[d].src \in Dispatches => dd[dc[d].src] = dc[dc[d].src])
        BY <1>2, <1>3, <2>1, <2>6 DEF Charges, PostedIn
      <4>2. dc[d].src \in Docs => dd[dc[d].src] = dc[dc[d].src]
        BY <2>1
      <4> QED
        BY <1>2, <2>6, <4>1, <4>2 DEF Charging, Charges
    <3>2. Charging(dd) \in SUBSET Docs /\ Charging(dc) \in SUBSET Docs
      BY SetsAre
    <3> QED
      BY <2>2, <2>4, <3>1, <3>2
  <2> QED
    BY <2>4, <2>5, <2>6
<1>7. /\ d \in Dispatches /\ dc[d].src = "ORDER" => Shipped(dd, l) = Shipped(dc, l) + dc[d].qty[l]
      /\ ~(d \in Dispatches /\ dc[d].src = "ORDER") => Shipped(dd, l) = Shipped(dc, l)
  <2> DEFINE c == d \in Dispatches /\ dc[d].src = "ORDER"
  <2>1. d \notin Shipping(dc) /\ (c => Shipping(dd) = Shipping(dc) \cup {d}) /\ (~c => Shipping(dd) = Shipping(dc))
    BY <1>3, <1>5 DEF Shipping
  <2>2. /\ c => SumOf(dd, Shipping(dd), l) = SumOf(dc, Shipping(dc), l) + dc[d].qty[l]
        /\ ~c => SumOf(dd, Shipping(dd), l) = SumOf(dc, Shipping(dc), l)
    <3> HIDE DEF c
    <3>1. Shipping(dc) \in SUBSET Docs
      BY SetsAre
    <3>2. CASE c
      BY <1>2, <2>1, <3>1, <3>2, PostAdds
    <3>3. CASE ~c
      BY <1>2, <2>1, <3>1, <3>3, SumStays
    <3> QED
      BY <3>2, <3>3
  <2> QED
    BY <2>2, Zenon DEF Shipped
<1>8. /\ Charges(dc, d) => SumOf(dd, Charging(dd), l) = SumOf(dc, Charging(dc), l) + dc[d].qty[l]
      /\ ~Charges(dc, d) => SumOf(dd, Charging(dd), l) = SumOf(dc, Charging(dc), l)
  <2>1. Charging(dc) \in SUBSET Docs /\ \A e \in Charging(dc) : dd[e].qty = dc[e].qty
    BY <1>2, SetsAre
  <2>2. SumOf(dd, Charging(dc), l) = SumOf(dc, Charging(dc), l)
    BY <2>1, SumStays
  <2>3. CASE Charges(dc, d)
    BY <1>2, <1>6, <2>1, <2>3, PostAdds
  <2> QED
    BY <1>6, <2>2, <2>3
<1>9. /\ d \in Dispatches => SumOf(dd, Leaving(dd), l) = SumOf(dc, Leaving(dc), l) + dc[d].qty[l]
      /\ d \notin Dispatches => SumOf(dd, Leaving(dd), l) = SumOf(dc, Leaving(dc), l)
  <2> DEFINE c == d \in Dispatches
  <2>1. d \notin Leaving(dc) /\ (c => Leaving(dd) = Leaving(dc) \cup {d}) /\ (~c => Leaving(dd) = Leaving(dc))
    BY <1>3, <1>4 DEF Leaving
  <2>2. /\ c => SumOf(dd, Leaving(dd), l) = SumOf(dc, Leaving(dc), l) + dc[d].qty[l]
        /\ ~c => SumOf(dd, Leaving(dd), l) = SumOf(dc, Leaving(dc), l)
    <3> HIDE DEF c
    <3>1. Leaving(dc) \in SUBSET Docs
      BY SetsAre
    <3>2. CASE c
      BY <1>2, <2>1, <3>1, <3>2, PostAdds
    <3>3. CASE ~c
      BY <1>2, <2>1, <3>1, <3>3, SumStays
    <3> QED
      BY <3>2, <3>3
  <2> QED
    BY <2>2, Zenon
<1>10. /\ d \in Invoices /\ dc[d].src = "DIRECT" => SumOf(dd, Selling(dd), l) = SumOf(dc, Selling(dc), l) + dc[d].qty[l]
       /\ ~(d \in Invoices /\ dc[d].src = "DIRECT") => SumOf(dd, Selling(dd), l) = SumOf(dc, Selling(dc), l)
  <2> DEFINE c == d \in Invoices /\ dc[d].src = "DIRECT"
  <2>1. d \notin Selling(dc) /\ (c => Selling(dd) = Selling(dc) \cup {d}) /\ (~c => Selling(dd) = Selling(dc))
    BY <1>3, <1>5 DEF Selling
  <2>2. /\ c => SumOf(dd, Selling(dd), l) = SumOf(dc, Selling(dc), l) + dc[d].qty[l]
        /\ ~c => SumOf(dd, Selling(dd), l) = SumOf(dc, Selling(dc), l)
    <3> HIDE DEF c
    <3>1. Selling(dc) \in SUBSET Docs
      BY SetsAre
    <3>2. CASE c
      BY <1>2, <2>1, <3>1, <3>2, PostAdds
    <3>3. CASE ~c
      BY <1>2, <2>1, <3>1, <3>3, SumStays
    <3> QED
      BY <3>2, <3>3
  <2> QED
    BY <2>2, Zenon
<1>11. /\ d \in Returns => SumOf(dd, Returning(dd), l) = SumOf(dc, Returning(dc), l) + dc[d].qty[l]
       /\ d \notin Returns => SumOf(dd, Returning(dd), l) = SumOf(dc, Returning(dc), l)
  <2> DEFINE c == d \in Returns
  <2>1. d \notin Returning(dc) /\ (c => Returning(dd) = Returning(dc) \cup {d}) /\ (~c => Returning(dd) = Returning(dc))
    BY <1>3, <1>4 DEF Returning
  <2>2. /\ c => SumOf(dd, Returning(dd), l) = SumOf(dc, Returning(dc), l) + dc[d].qty[l]
        /\ ~c => SumOf(dd, Returning(dd), l) = SumOf(dc, Returning(dc), l)
    <3> HIDE DEF c
    <3>1. Returning(dc) \in SUBSET Docs
      BY SetsAre
    <3>2. CASE c
      BY <1>2, <2>1, <3>1, <3>2, PostAdds
    <3>3. CASE ~c
      BY <1>2, <2>1, <3>1, <3>3, SumStays
    <3> QED
      BY <3>2, <3>3
  <2> QED
    BY <2>2, Zenon
<1> QED
  BY <1>7, <1>8, <1>9, <1>10, <1>11, Zenon

\* A posted document is cancelled, and no posted document was made from it if it is
\* a dispatch.
LEMMA CancelMoves ==
  ASSUME NEW dc, dc \in [Docs -> DocType], NEW dd, dd \in [Docs -> DocType], NEW l, l \in Lines, KindAssumption,
         NEW d \in Docs, dc[d].status = "POSTED",
         \A x \in Docs : x # d => dd[x] = dc[x],
         dd[d].status = "CANCELLED", dd[d].src = dc[d].src,
         d \in Dispatches => FromIn(dc, Docs, d) = {}
  PROVE  /\ d \in Dispatches /\ dc[d].src = "ORDER" => Shipped(dd, l) = Shipped(dc, l) - dc[d].qty[l]
         /\ ~(d \in Dispatches /\ dc[d].src = "ORDER") => Shipped(dd, l) = Shipped(dc, l)
         /\ SumOf(dd, Charging(dd), l) <= SumOf(dc, Charging(dc), l)
         /\ d \in Dispatches => SumOf(dd, Leaving(dd), l) = SumOf(dc, Leaving(dc), l) - dc[d].qty[l]
         /\ d \notin Dispatches => SumOf(dd, Leaving(dd), l) = SumOf(dc, Leaving(dc), l)
         /\ d \in Invoices /\ dc[d].src = "DIRECT" => SumOf(dd, Selling(dd), l) = SumOf(dc, Selling(dc), l) - dc[d].qty[l]
         /\ ~(d \in Invoices /\ dc[d].src = "DIRECT") => SumOf(dd, Selling(dd), l) = SumOf(dc, Selling(dc), l)
         /\ d \in Returns => SumOf(dd, Returning(dd), l) = SumOf(dc, Returning(dc), l) - dc[d].qty[l]
         /\ d \notin Returns => SumOf(dd, Returning(dd), l) = SumOf(dc, Returning(dc), l)
<1>1. Dispatches \in SUBSET Docs /\ Invoices \in SUBSET Docs /\ Returns \in SUBSET Docs /\ Dispatches \cap Invoices = {}
  BY DEF Docs, KindAssumption
<1>2. \A D \in SUBSET Docs : PostedIn(dd, D) = PostedIn(dc, D) \ {d}
  BY DEF PostedIn
<1>3. \A D \in SUBSET Docs, s \in {"ORDER", "DIRECT"} : FromIn(dd, D, s) = FromIn(dc, D, s) \ {d}
  BY DEF PostedIn, FromIn
<1>4. /\ Shipping(dd) = Shipping(dc) \ {d} /\ Leaving(dd) = Leaving(dc) \ {d}
      /\ Selling(dd) = Selling(dc) \ {d} /\ Returning(dd) = Returning(dc) \ {d}
  BY <1>1, <1>2, <1>3 DEF Shipping, Leaving, Selling, Returning
<1>5. /\ d \in Shipping(dc) <=> d \in Dispatches /\ dc[d].src = "ORDER"
      /\ d \in Leaving(dc) <=> d \in Dispatches
      /\ d \in Selling(dc) <=> d \in Invoices /\ dc[d].src = "DIRECT"
      /\ d \in Returning(dc) <=> d \in Returns
  BY DEF Shipping, Leaving, Selling, Returning, FromIn, PostedIn
<1>6. Charging(dd) = Charging(dc) \ {d}
  <2>1. ASSUME NEW i \in PostedIn(dc, Invoices), i # d, dc[i].src \in Dispatches
        PROVE  dd[dc[i].src] = dc[dc[i].src]
    <3>1. dc[i].src = d => i \in FromIn(dc, Docs, d) /\ d \in Dispatches
      BY <1>1, <2>1 DEF FromIn, PostedIn
    <3> QED
      BY <1>1, <2>1, <3>1
  <2>2. ASSUME NEW i \in PostedIn(dc, Invoices), i # d PROVE i \in Charging(dd) <=> i \in Charging(dc)
    <3>1. dd[i] = dc[i] /\ i \in PostedIn(dd, Invoices)
      BY <1>1, <1>2, <2>2 DEF PostedIn
    <3>2. CASE dc[i].src = "ORDER"
      <4>1. dc[i].src \notin Docs
        BY <3>2 DEF KindAssumption
      <4> QED
        BY <2>2, <3>1, <3>2, <4>1 DEF Charging
    <3>3. CASE dc[i].src \in Dispatches
      BY <2>1, <2>2, <3>1, <3>3 DEF Charging
    <3>4. CASE dc[i].src # "ORDER" /\ dc[i].src \notin Dispatches
      BY <3>1, <3>4 DEF Charging
    <3> QED
      BY <3>2, <3>3, <3>4
  <2>3. Charging(dd) \in SUBSET PostedIn(dd, Invoices) /\ Charging(dc) \in SUBSET PostedIn(dc, Invoices)
    BY DEF Charging
  <2>4. PostedIn(dd, Invoices) = PostedIn(dc, Invoices) \ {d}
    BY <1>1, <1>2
  <2> QED
    BY <2>2, <2>3, <2>4
<1>7. SumOf(dd, Charging(dd), l) <= SumOf(dc, Charging(dc), l)
  <2>1. Charging(dc) \in SUBSET Docs /\ Charging(dd) \in SUBSET Docs
    BY SetsAre
  <2>2. /\ d \in Charging(dc) => SumOf(dd, Charging(dd), l) = SumOf(dc, Charging(dc), l) - dc[d].qty[l]
        /\ d \notin Charging(dc) => SumOf(dd, Charging(dd), l) = SumOf(dc, Charging(dc), l)
    BY <1>6, <2>1, CancelTakes
  <2>3. SumOf(dc, Charging(dc), l) \in Nat /\ dc[d].qty[l] \in Nat
    BY <2>1, SumOfIs, QtyIs
  <2> QED
    BY <2>2, <2>3
<1>8. /\ d \in Shipping(dc) => SumOf(dd, Shipping(dd), l) = SumOf(dc, Shipping(dc), l) - dc[d].qty[l]
      /\ d \notin Shipping(dc) => SumOf(dd, Shipping(dd), l) = SumOf(dc, Shipping(dc), l)
  BY <1>4, SetsAre, CancelTakes
<1>9. /\ d \in Leaving(dc) => SumOf(dd, Leaving(dd), l) = SumOf(dc, Leaving(dc), l) - dc[d].qty[l]
      /\ d \notin Leaving(dc) => SumOf(dd, Leaving(dd), l) = SumOf(dc, Leaving(dc), l)
  BY <1>4, SetsAre, CancelTakes
<1>10. /\ d \in Selling(dc) => SumOf(dd, Selling(dd), l) = SumOf(dc, Selling(dc), l) - dc[d].qty[l]
       /\ d \notin Selling(dc) => SumOf(dd, Selling(dd), l) = SumOf(dc, Selling(dc), l)
  BY <1>4, SetsAre, CancelTakes
<1>11. /\ d \in Returning(dc) => SumOf(dd, Returning(dd), l) = SumOf(dc, Returning(dc), l) - dc[d].qty[l]
       /\ d \notin Returning(dc) => SumOf(dd, Returning(dd), l) = SumOf(dc, Returning(dc), l)
  BY <1>4, SetsAre, CancelTakes
<1> QED
  BY <1>5, <1>7, <1>8, <1>9, <1>10, <1>11, Zenon DEF Shipped
-----------------------------------------------------------------------------
(* The reservation of one line *)

LEMMA LargerSmaller ==
  ASSUME NEW a \in Int, NEW b \in Int
  PROVE  /\ a >= b => Max({a, b}) = a
         /\ b >= a => Max({a, b}) = b
         /\ a <= b => Min({a, b}) = a
         /\ b <= a => Min({a, b}) = b
<1>1. Max({a, b}) \in {a, b} /\ \A y \in {a, b} : Max({a, b}) >= y
  <2>1. \E x \in {a, b} : \A y \in {a, b} : x >= y
    <3>1. CASE a >= b
      BY <3>1
    <3>2. CASE b >= a
      BY <3>2
    <3> QED
      BY <3>1, <3>2
  <2> QED
    BY <2>1 DEF Max
<1>2. Min({a, b}) \in {a, b} /\ \A y \in {a, b} : Min({a, b}) <= y
  <2>1. \E x \in {a, b} : \A y \in {a, b} : x <= y
    <3>1. CASE a <= b
      BY <3>1
    <3>2. CASE b <= a
      BY <3>2
    <3> QED
      BY <3>1, <3>2
  <2> QED
    BY <2>1 DEF Min
<1> QED
  BY <1>1, <1>2

\* A dispatch uses q of it, a cancelled dispatch gives q back, and the order's
\* cancellation releases the rest.
ConsumedRow(h, n, q) ==
    IF q = 0 THEN h
    ELSE [h EXCEPT !.consumed = @ + q, !.status = IF q = n - h.consumed - h.released THEN "CONSUMED" ELSE @]
GivenBack(h, q) == IF h.status \in {"ACTIVE", "CONSUMED"} THEN Min({q, h.consumed}) ELSE 0
RestoredRow(h, m) ==
    IF m = 0 THEN h ELSE [h EXCEPT !.consumed = @ - m, !.status = IF @ = "CONSUMED" THEN "ACTIVE" ELSE @]
ReleasedRow(h, n) ==
    IF h.status = "ACTIVE" THEN [h EXCEPT !.status = "RELEASED", !.released = n - h.consumed] ELSE h
HasGiven(k, h, q) == k.consumed = h.consumed - q

LEMMA ConsumedRowIs ==
  ASSUME NEW h, h \in HoldType, NEW n \in Nat \ {0}, HoldOK(h, n), NEW r, r = HeldRow(h, n), NEW q \in Nat,
         q > 0 => h.status = "ACTIVE" /\ q <= n - h.consumed - h.released,
         NEW k, k = ConsumedRow(h, n, q), NEW t, t = Max({0, r - q})
  PROVE  /\ k \in HoldType /\ HoldOK(k, n) /\ t \in Nat /\ t = HeldRow(k, n)
         /\ k.consumed = h.consumed + q
         /\ h.status \in {"ACTIVE", "CONSUMED"} => k.status \in {"ACTIVE", "CONSUMED"}
         /\ h.status = "NONE" => q = 0 /\ k = h
<1>0. h.consumed \in Nat /\ h.released \in Nat /\ h.status \in {"NONE", "ACTIVE", "CONSUMED", "RELEASED"}
  BY DEF HoldType
<1>1. CASE q = 0
  <2>1. k = h
    BY <1>1 DEF ConsumedRow
  <2>2. r \in Nat
    BY <1>0 DEF HeldRow, HoldOK
  <2>3. t = r
    BY <1>1, <2>2, LargerSmaller
  <2> QED
    BY <1>0, <1>1, <2>1, <2>2, <2>3
<1>2. CASE q > 0 /\ q = n - h.consumed - h.released
  <2>1. k = [status |-> "CONSUMED", consumed |-> h.consumed + q, released |-> h.released]
    <3>1. k = [[h EXCEPT !.consumed = @ + q] EXCEPT !.status = "CONSUMED"]
      BY <1>2 DEF ConsumedRow
    <3> QED
      BY <3>1 DEF HoldType
  <2>2. h.status = "ACTIVE" /\ h.released = 0 /\ r = q
    BY <1>0, <1>2 DEF HoldOK, HeldRow
  <2>3. t = 0
    <3>1. r - q = 0
      BY <2>2
    <3> QED
      BY <3>1, LargerSmaller
  <2> QED
    BY <1>0, <1>2, <2>1, <2>2, <2>3 DEF HoldType, HoldOK, HeldRow
<1>3. CASE q > 0 /\ q # n - h.consumed - h.released
  <2>1. k = [status |-> h.status, consumed |-> h.consumed + q, released |-> h.released]
    <3>1. k = [[h EXCEPT !.consumed = @ + q] EXCEPT !.status = @]
      BY <1>3 DEF ConsumedRow
    <3> QED
      BY <3>1 DEF HoldType
  <2>2. h.status = "ACTIVE" /\ h.released = 0 /\ r = n - h.consumed /\ q < n - h.consumed
    BY <1>0, <1>3 DEF HoldOK, HeldRow
  <2>3. t = n - h.consumed - q
    <3>1. r - q \in Int /\ r - q >= 0 /\ r - q = n - h.consumed - q
      BY <1>0, <2>2
    <3> QED
      BY <3>1, LargerSmaller
  <2> QED
    BY <1>0, <1>3, <2>1, <2>2, <2>3 DEF HoldType, HoldOK, HeldRow
<1> QED
  BY <1>1, <1>2, <1>3
LEMMA RestoredRowIs ==
  ASSUME NEW h, h \in HoldType, NEW n \in Nat \ {0}, HoldOK(h, n), NEW r, r = HeldRow(h, n), NEW q \in Nat,
         NEW m, m = GivenBack(h, q), NEW k, k = RestoredRow(h, m)
  PROVE  /\ k \in HoldType /\ HoldOK(k, n) /\ r + m \in Nat /\ r + m = HeldRow(k, n)
         /\ h.status \in {"ACTIVE", "CONSUMED"} /\ q <= h.consumed =>
              k.status \in {"ACTIVE", "CONSUMED"} /\ HasGiven(k, h, q)
         /\ h.status = "NONE" => k = h
<1>0. h.consumed \in Nat /\ h.released \in Nat /\ h.status \in {"NONE", "ACTIVE", "CONSUMED", "RELEASED"} /\ r \in Nat
  BY DEF HoldType, HeldRow, HoldOK
<1>1. m \in Nat /\ (m > 0 => h.status \in {"ACTIVE", "CONSUMED"} /\ m <= h.consumed)
      /\ (h.status \in {"ACTIVE", "CONSUMED"} /\ q <= h.consumed => m = q)
  <2>1. q \in Int /\ h.consumed \in Int
    BY <1>0
  <2>2. CASE h.status \in {"ACTIVE", "CONSUMED"}
    <3>1. m = Min({q, h.consumed})
      BY <2>2 DEF GivenBack
    <3>2. (q <= h.consumed => m = q) /\ (h.consumed <= q => m = h.consumed)
      BY <2>1, <3>1, LargerSmaller
    <3> QED
      BY <1>0, <2>2, <3>2
  <2>3. CASE h.status \notin {"ACTIVE", "CONSUMED"}
    BY <2>3 DEF GivenBack
  <2> QED
    BY <2>2, <2>3
<1>2. CASE m = 0
  <2>1. k = h /\ r + m = r
    BY <1>0, <1>2 DEF RestoredRow
  <2> QED
    BY <1>0, <1>1, <1>2, <2>1 DEF HasGiven
<1>3. CASE m > 0
  <2>1. k = [status |-> "ACTIVE", consumed |-> h.consumed - m, released |-> h.released]
    <3>1. k = [[h EXCEPT !.consumed = @ - m] EXCEPT !.status = IF @ = "CONSUMED" THEN "ACTIVE" ELSE @]
      BY <1>3 DEF RestoredRow
    <3>2. h.status = "CONSUMED" \/ h.status = "ACTIVE"
      BY <1>1, <1>3
    <3> QED
      BY <3>1, <3>2 DEF HoldType
  <2> QED
    BY <1>0, <1>1, <1>3, <2>1 DEF HoldType, HoldOK, HeldRow, HasGiven
<1> QED
  BY <1>1, <1>2, <1>3 DEF HasGiven

LEMMA ReleasedRowIs ==
  ASSUME NEW h, h \in HoldType, NEW n \in Nat \ {0}, HoldOK(h, n), NEW r, r = HeldRow(h, n),
         NEW k, k = ReleasedRow(h, n), NEW t,
         t = IF h.status = "ACTIVE" THEN Max({0, r - (n - h.consumed - h.released)}) ELSE r
  PROVE  k \in HoldType /\ HoldOK(k, n) /\ t \in Nat /\ t = HeldRow(k, n)
<1>0. h.consumed \in Nat /\ h.released \in Nat
  BY DEF HoldType
<1>1. CASE h.status = "ACTIVE"
  <2>1. k = [status |-> "RELEASED", consumed |-> h.consumed, released |-> n - h.consumed]
    BY <1>1 DEF ReleasedRow, HoldType
  <2>2. r - (n - h.consumed - h.released) = 0
    BY <1>0, <1>1 DEF HeldRow
  <2>3. t = 0
    <3> DEFINE x == r - (n - h.consumed - h.released)
    <3>1. x = 0 /\ t = Max({0, x})
      BY <1>1, <2>2
    <3> HIDE DEF x
    <3> QED
      BY <3>1, LargerSmaller
  <2> QED
    BY <1>0, <1>1, <2>1, <2>3 DEF HoldType, HoldOK, HeldRow
<1>2. CASE h.status # "ACTIVE"
  BY <1>2 DEF ReleasedRow, HeldRow
<1> QED
  BY <1>1, <1>2
-----------------------------------------------------------------------------
\* What the model reads of the documents, now and in the next state.
LEMMA ReadNow ==
  ASSUME NEW l, l \in Lines
  PROVE  Fulfilled("ORDER", l) = Shipped(doc, l) /\ InvoicedTotal("ORDER", l) = InvoicedIn(doc, l)
BY DEF Fulfilled, InvoicedTotal, InvoicedIn, Total, From, Posted, Shipped, SumOf, QtyOf, Shipping, FromIn, PostedIn

LEMMA ReadNext ==
  ASSUME NEW l, l \in Lines
  PROVE  Fulfilled("ORDER", l)' = Shipped(doc', l) /\ InvoicedTotal("ORDER", l)' = InvoicedIn(doc', l)
BY DEF Fulfilled, InvoicedTotal, InvoicedIn, Total, From, Posted, Shipped, SumOf, QtyOf, Shipping, FromIn, PostedIn

LEMMA StatusNext == FulfilmentStatus' = StatusIn(doc')
<1>1. \A l \in Lines : Fulfilled("ORDER", l)' = Shipped(doc', l)
  BY ReadNext
<1> QED
  BY <1>1 DEF FulfilmentStatus, StatusIn

\* One document changes its status.
LEMMA StatusSet ==
  ASSUME NEW dc, dc \in [Docs -> DocType], NEW d \in Docs, NEW st \in {"NONE", "DRAFT", "POSTED", "CANCELLED"},
         NEW dd, dd = [dc EXCEPT ![d].status = st]
  PROVE  /\ dd \in [Docs -> DocType] /\ \A x \in Docs : x # d => dd[x] = dc[x]
         /\ dd[d].status = st /\ dd[d].src = dc[d].src /\ dd[d].qty = dc[d].qty
<1> DEFINE n == [dc[d] EXCEPT !.status = st]
<1>1. n \in DocType /\ n.status = st /\ n.src = dc[d].src /\ n.qty = dc[d].qty
  <2>1. dc[d] \in DocType
    OBVIOUS
  <2> QED
    BY <2>1 DEF DocType
<1>2. dd = [dc EXCEPT ![d] = n]
  OBVIOUS
<1> HIDE DEF n
<1> QED
  BY <1>1, <1>2

\* ... and the documents stay in order.
LEMMA DocsStay ==
  ASSUME NEW dc, dc \in [Docs -> DocType], NEW dd, dd \in [Docs -> DocType], NEW d \in Docs, NEW o, DocsIn(dc, o),
         \A x \in Docs : x # d => dd[x] = dc[x], dd[d].src = dc[d].src, dd[d].qty = dc[d].qty,
         dc[d].status \in {"DRAFT", "POSTED"}, dd[d].status \in {"POSTED", "CANCELLED"}, NEW p, p = "DRAFT" => o = "DRAFT"
  PROVE  DocsIn(dd, p)
<1>1. \A x \in Docs : dd[x].src = dc[x].src /\ dd[x].qty = dc[x].qty
                      /\ (dd[x].status # "NONE" => dc[x].status # "NONE")
                      /\ (dc[x].status \in {"POSTED", "CANCELLED"} => dd[x].status \in {"POSTED", "CANCELLED"})
  OBVIOUS
<1> SUFFICES ASSUME NEW x \in Docs
             PROVE  /\ dd[x].status # "NONE" => \E l \in Lines : dd[x].qty[l] > 0
                    /\ dd[x].src \in Docs => dd[dd[x].src].status \in {"POSTED", "CANCELLED"}
                    /\ dd[x].src = "ORDER" => p # "DRAFT"
  BY DEF DocsIn
<1> QED
  BY <1>1 DEF DocsIn

\* What is checked when a document is posted.
LEMMA PostedFits ==
  ASSUME NEW d \in Docs, SetPosted(d), OrderOK, KindAssumption, NEW l, l \in Lines, doc[d].qty[l] > 0
  PROVE  /\ d \in Dispatches /\ doc[d].src = "ORDER" => Shipped(doc', l) <= Ordered[l]
         /\ Charges(doc, d) => InvoicedIn(doc', l) <= Shipped(doc', l)
<1>1. doc'[d].src = doc[d].src /\ doc'[d].qty = doc[d].qty /\ \A x \in Docs : x # d => doc'[x] = doc[x]
  BY StatusSet DEF SetPosted, OrderOK, StatesOK
<1>2. "ORDER" \notin Docs /\ "ORDER" # "DIRECT" /\ Dispatches \in SUBSET Docs
  BY DEF KindAssumption, Docs
<1>3. ASSUME d \in Dispatches, doc[d].src = "ORDER" PROVE Shipped(doc', l) <= Ordered[l]
  <2>1. WithinSource(d)'
    BY DEF SetPosted
  <2>2. Total(From(Dispatches, "ORDER"), l)' <= Ordered[l]
    BY <1>1, <1>3, <2>1 DEF WithinSource, SameKind, SourceBase, Total, From, Posted
  <2> QED
    BY <2>2 DEF Total, From, Posted, Shipped, SumOf, QtyOf, Shipping, FromIn, PostedIn
<1>4. ASSUME Charges(doc, d) PROVE InvoicedIn(doc', l) <= Shipped(doc', l)
  <2>1. WithinFulfilment(d)' /\ d \in Invoices
    BY <1>4 DEF SetPosted, Charges
  <2>2. \/ doc'[d].src = "ORDER"
        \/ doc'[d].src # "ORDER" /\ doc'[d].src # "DIRECT" /\ doc'[doc'[d].src].src = "ORDER"
    <3>1. CASE doc[d].src = "ORDER"
      BY <1>1, <3>1
    <3>2. CASE doc[d].src # "ORDER"
      <4>1. doc[d].src \in Dispatches /\ doc[doc[d].src].src = "ORDER"
        BY <1>4, <3>2 DEF Charges
      <4>2. doc[d].src # d /\ doc[d].src # "DIRECT"
        BY <1>2, <2>1, <4>1 DEF KindAssumption
      <4> QED
        BY <1>1, <1>2, <3>2, <4>1, <4>2
    <3> QED
      BY <3>1, <3>2
  <2>3. InvoicedTotal("ORDER", l)' <= Fulfilled("ORDER", l)'
    BY <1>1, <1>2, <2>1, <2>2 DEF WithinFulfilment, OrderLine, InvoicedTotal, Fulfilled, Total, From, Posted
  <2> QED
    BY <2>3, ReadNext
<1> QED
  BY <1>3, <1>4
-----------------------------------------------------------------------------
(* The steps *)

LEMMA OrderStarts == Init /\ QuantityAssumption /\ KindAssumption => OrderOK
<1> SUFFICES ASSUME Init, QuantityAssumption, KindAssumption PROVE OrderOK
  OBVIOUS
<1>1. NoDoc \in DocType
  BY DEF NoDoc, DocType
<1>2. StatesOK
  BY <1>1 DEF Init, StatesOK, HoldType, QuantityAssumption
<1>3. \A d \in Docs : doc[d] = NoDoc
  BY DEF Init
<1>4. DocsIn(doc, order)
  <2>1. {"ORDER", "DIRECT"} \cap Docs = {}
    BY DEF KindAssumption
  <2> QED
    BY <1>3, <2>1 DEF DocsIn, NoDoc
<1>5. /\ Shipping(doc) = {} /\ Leaving(doc) = {} /\ Selling(doc) = {} /\ Returning(doc) = {} /\ Charging(doc) = {}
  <2>1. \A D \in SUBSET Docs : PostedIn(doc, D) = {}
    BY <1>3 DEF PostedIn, NoDoc
  <2>2. Dispatches \in SUBSET Docs /\ Invoices \in SUBSET Docs /\ Returns \in SUBSET Docs
    BY DEF Docs
  <2> QED
    BY <2>1, <2>2 DEF Shipping, Leaving, Selling, Returning, Charging, FromIn
<1>6. \A l \in Lines : SumOf(doc, {}, l) = 0
  BY <1>2, SumOfNone DEF StatesOK
<1>7. \A l \in Lines : Shipped(doc, l) = 0
  BY <1>5, <1>6 DEF Shipped
<1>8. \A l \in Lines : Ordered[l] \in Nat \ {0} /\ Opening[l] \in Nat
  BY DEF QuantityAssumption
<1>9. LedgerOK
  <2> SUFFICES ASSUME NEW l \in Lines
               PROVE  /\ Shipped(doc, l) <= Ordered[l] /\ SumOf(doc, Charging(doc), l) <= Ordered[l]
                      /\ physical[l] = Opening[l] - SumOf(doc, Leaving(doc), l)
                                       - SumOf(doc, Selling(doc), l) + SumOf(doc, Returning(doc), l)
    BY DEF LedgerOK
  <2>1. /\ SumOf(doc, Charging(doc), l) = 0 /\ SumOf(doc, Leaving(doc), l) = 0 /\ SumOf(doc, Selling(doc), l) = 0
        /\ SumOf(doc, Returning(doc), l) = 0 /\ physical[l] = Opening[l]
    BY <1>5, <1>6 DEF Init
  <2> QED
    BY <1>7, <1>8, <2>1
<1>10. HoldsOK
  BY DEF HoldsOK, Init, HoldOK, HeldRow, OpenStates
<1>11. order \notin OpenStates
  BY DEF Init, OpenStates
<1> QED
  BY <1>2, <1>4, <1>9, <1>10, <1>11 DEF OrderOK

\* Nothing counts before the order is confirmed.
LEMMA ConfirmOK ==
  ASSUME OrderOK, QuantityAssumption, KindAssumption, Confirm
  PROVE  OrderOK'
<1>1. doc' = doc /\ physical' = physical /\ order = "DRAFT" /\ order' = "CONFIRMED"
  BY DEF Confirm
<1>2. \A l \in Lines : Shipped(doc, l) = 0
  <2>1. Shipping(doc) = {}
    BY <1>1 DEF Shipping, FromIn, PostedIn, OrderOK, DocsIn, Docs
  <2> TAKE l \in Lines
  <2>2. SumOf(doc, {}, l) = 0
    BY SumOfNone DEF OrderOK, StatesOK
  <2> QED
    BY <2>1, <2>2 DEF Shipped
<1>3. \A l \in Lines : Ordered[l] \in Nat \ {0}
  BY DEF QuantityAssumption
<1>4. \A l \in Lines : /\ hold[l] \in HoldType /\ hold[l].status = "NONE" /\ hold[l].consumed = 0 /\ hold[l].released = 0
                       /\ reserved[l] = 0 /\ HoldOK(hold[l], Ordered[l])
  BY <1>1 DEF OrderOK, StatesOK, HoldsOK, HoldOK, HeldRow
<1>5. \A l \in Lines : /\ hold'[l] = [status |-> "ACTIVE", consumed |-> 0, released |-> 0]
                       /\ reserved'[l] = Ordered[l]
  BY <1>3, <1>4 DEF Confirm, HoldType
<1>6. HoldsOK'
  <2> SUFFICES ASSUME NEW l \in Lines
               PROVE  /\ HoldOK(hold'[l], Ordered[l]) /\ reserved'[l] = HeldRow(hold'[l], Ordered[l])
                      /\ order' = "DRAFT" => hold'[l].status = "NONE"
                      /\ order' \in OpenStates =>
                           hold'[l].status \in {"ACTIVE", "CONSUMED"} /\ hold'[l].consumed = Shipped(doc', l)
    BY DEF HoldsOK
  <2> QED
    BY <1>1, <1>2, <1>3, <1>5 DEF HoldOK, HeldRow
<1>7. StatesOK'
  <2>1. hold' \in [Lines -> HoldType] /\ reserved' \in [Lines -> Nat]
    <3>1. hold' = [l \in Lines |-> hold'[l]] /\ reserved' = [l \in Lines |-> reserved'[l]]
      BY DEF Confirm
    <3>2. \A l \in Lines : hold'[l] \in HoldType /\ reserved'[l] \in Nat
      BY <1>3, <1>5 DEF HoldType
    <3> QED
      BY <3>1, <3>2
  <2> QED
    BY <1>1, <2>1 DEF StatesOK, OrderOK, OpenStates
<1>8. DocsIn(doc', order')
  BY <1>1 DEF OrderOK, DocsIn
<1>9. LedgerOK'
  BY <1>1 DEF LedgerOK, OrderOK
<1>10. order' = StatusIn(doc')
  BY <1>1, <1>2 DEF StatusIn
<1> QED
  BY <1>6, <1>7, <1>8, <1>9, <1>10 DEF OrderOK

LEMMA CancelOrderOK ==
  ASSUME OrderOK, QuantityAssumption, KindAssumption, CancelOrder
  PROVE  OrderOK'
<1>1. doc' = doc /\ physical' = physical /\ order # "DRAFT" /\ order' = "CANCELLED"
  BY DEF CancelOrder
<1>2. \A l \in Lines : Ordered[l] \in Nat \ {0}
  BY DEF QuantityAssumption
<1>3. \A l \in Lines : hold[l] \in HoldType /\ reserved[l] = HeldRow(hold[l], Ordered[l]) /\ HoldOK(hold[l], Ordered[l])
  BY DEF OrderOK, StatesOK, HoldsOK
<1>4. \A l \in Lines : /\ hold'[l] = ReleasedRow(hold[l], Ordered[l])
                       /\ reserved'[l] = IF hold[l].status = "ACTIVE"
                                         THEN Max({0, reserved[l] - (Ordered[l] - hold[l].consumed - hold[l].released)})
                                         ELSE reserved[l]
  BY DEF CancelOrder, ReleasedRow, HoldRest
<1>5. \A l \in Lines : /\ hold'[l] \in HoldType /\ HoldOK(hold'[l], Ordered[l])
                       /\ reserved'[l] \in Nat /\ reserved'[l] = HeldRow(hold'[l], Ordered[l])
  <2> SUFFICES ASSUME NEW l \in Lines
               PROVE  /\ hold'[l] \in HoldType /\ HoldOK(hold'[l], Ordered[l])
                      /\ reserved'[l] \in Nat /\ reserved'[l] = HeldRow(hold'[l], Ordered[l])
    OBVIOUS
  <2> DEFINE h == hold[l]
             n == Ordered[l]
             r == reserved[l]
             k == hold'[l]
             t == reserved'[l]
  <2>1. /\ h \in HoldType /\ n \in Nat \ {0} /\ HoldOK(h, n) /\ r = HeldRow(h, n) /\ k = ReleasedRow(h, n)
        /\ t = IF h.status = "ACTIVE" THEN Max({0, r - (n - h.consumed - h.released)}) ELSE r
    BY <1>2, <1>3, <1>4
  <2> HIDE DEF h, n, r, k, t
  <2>2. k \in HoldType /\ HoldOK(k, n) /\ t \in Nat /\ t = HeldRow(k, n)
    BY ONLY <2>1, ReleasedRowIs
  <2> QED
    BY <2>2 DEF k, n, t
<1>6. HoldsOK'
  BY <1>1, <1>5 DEF HoldsOK, OpenStates
<1>7. StatesOK'
  <2>1. hold' = [l \in Lines |-> hold'[l]] /\ reserved' = [l \in Lines |-> reserved'[l]]
    BY DEF CancelOrder
  <2>2. hold' \in [Lines -> HoldType] /\ reserved' \in [Lines -> Nat]
    BY <1>5, <2>1
  <2> QED
    BY <1>1, <2>2 DEF StatesOK, OrderOK
<1>8. DocsIn(doc', order') /\ LedgerOK'
  BY <1>1 DEF OrderOK, DocsIn, LedgerOK
<1>9. order' \notin OpenStates
  BY <1>1 DEF OpenStates
<1> QED
  BY <1>6, <1>7, <1>8, <1>9 DEF OrderOK

\* A draft is created, updated or deleted.
LEMMA DraftOK ==
  ASSUME OrderOK, QuantityAssumption, KindAssumption, NEW d \in Docs, NEW e \in DocType,
         doc[d].status \in {"NONE", "DRAFT"}, e.status \in {"NONE", "DRAFT"}, doc' = [doc EXCEPT ![d] = e],
         e.status # "NONE" => \E l \in Lines : e.qty[l] > 0,
         e.src \in Docs => doc[e.src].status = "POSTED", e.src = "ORDER" => order # "DRAFT",
         UNCHANGED <<order, hold, physical, reserved>>
  PROVE  OrderOK'
<1>1. doc' \in [Docs -> DocType] /\ doc'[d] = e /\ \A x \in Docs : x # d => doc'[x] = doc[x]
  BY DEF OrderOK, StatesOK
<1>2. \A l \in Lines : /\ Shipped(doc', l) = Shipped(doc, l)
                       /\ SumOf(doc', Charging(doc'), l) = SumOf(doc, Charging(doc), l)
                       /\ SumOf(doc', Leaving(doc'), l) = SumOf(doc, Leaving(doc), l)
                       /\ SumOf(doc', Selling(doc'), l) = SumOf(doc, Selling(doc), l)
                       /\ SumOf(doc', Returning(doc'), l) = SumOf(doc, Returning(doc), l)
  <2> TAKE l \in Lines
  <2>1. /\ doc \in [Docs -> DocType] /\ DocsIn(doc, order) /\ doc'[d].status \in {"NONE", "DRAFT"}
        /\ doc[d].status \in {"NONE", "DRAFT"} /\ l \in Lines /\ d \in Docs /\ KindAssumption
    BY <1>1 DEF OrderOK, StatesOK
  <2> QED
    BY ONLY <1>1, <2>1, DraftMovesNothing
<1>3. StatesOK'
  BY <1>1 DEF StatesOK, OrderOK
<1>4. DocsIn(doc', order')
  <2>1. order' = order /\ DocsIn(doc, order)
    BY DEF OrderOK
  <2> SUFFICES ASSUME NEW x \in Docs
               PROVE  /\ doc'[x].status # "NONE" => \E l \in Lines : doc'[x].qty[l] > 0
                      /\ doc'[x].src \in Docs => doc'[doc'[x].src].status \in {"POSTED", "CANCELLED"}
                      /\ doc'[x].src = "ORDER" => order' # "DRAFT"
    BY DEF DocsIn
  <2>2. CASE x = d
    <3>1. e.src \in Docs => e.src # d /\ doc'[e.src] = doc[e.src]
      BY <1>1
    <3> QED
      BY <1>1, <2>1, <2>2, <3>1
  <2>3. CASE x # d
    <3>1. doc'[x] = doc[x]
      BY <1>1, <2>3
    <3>2. doc[x].src \in Docs => doc[x].src # d /\ doc'[doc[x].src] = doc[doc[x].src]
      BY <1>1, <2>1 DEF DocsIn
    <3> QED
      BY <2>1, <3>1, <3>2 DEF DocsIn
  <2> QED
    BY <2>2, <2>3
<1>5. HoldsOK'
  BY <1>2 DEF HoldsOK, OrderOK
<1>6. LedgerOK'
  BY <1>2 DEF LedgerOK, OrderOK
<1>7. StatusIn(doc') = StatusIn(doc)
  BY <1>2 DEF StatusIn
<1> QED
  BY <1>3, <1>4, <1>5, <1>6, <1>7 DEF OrderOK

\* What a draft takes, and from where, when it is written.
LEMMA SetDraftOK ==
  ASSUME OrderOK, QuantityAssumption, KindAssumption, NEW d \in Docs, doc[d].status \in {"NONE", "DRAFT"},
         NEW s \in Docs \cup {"ORDER", "DIRECT"}, NEW q \in Quantities, SetDraft(d, s, q)
  PROVE  OrderOK'
<1> DEFINE e == [status |-> "DRAFT", src |-> s, qty |-> q]
<1>1. q \in [Lines -> Nat] /\ \E l \in Lines : q[l] > 0
  BY DEF QuantityAssumption
<1>2. e \in DocType /\ e.status = "DRAFT" /\ e.src = s /\ e.qty = q
  BY <1>1 DEF DocType
<1>3. s \in Docs => doc[s].status = "POSTED"
  <2>1. s \in Docs => s \notin {"ORDER", "DIRECT"}
    BY DEF KindAssumption
  <2>2. s \in Sources(d)
    BY DEF SetDraft, Allocatable
  <2> QED
    BY <2>1, <2>2 DEF Sources, Posted
<1>4. s = "ORDER" => order # "DRAFT"
  <2>1. s \in Sources(d) /\ "ORDER" \notin Docs
    BY DEF SetDraft, Allocatable, KindAssumption
  <2> QED
    BY <2>1 DEF Sources, Posted, OpenStates, Docs
<1>5. doc' = [doc EXCEPT ![d] = e] /\ UNCHANGED <<order, hold, physical, reserved>>
  BY DEF SetDraft
<1> HIDE DEF e
<1> QED
  BY <1>1, <1>2, <1>3, <1>4, <1>5, DraftOK

LEMMA DeleteDraftOK ==
  ASSUME OrderOK, QuantityAssumption, KindAssumption, NEW d \in Docs, DeleteCommercialDraft(d)
  PROVE  OrderOK'
<1>1. NoDoc \in DocType /\ NoDoc.status = "NONE" /\ NoDoc.src = "DIRECT"
  BY DEF NoDoc, DocType
<1>2. "DIRECT" \notin Docs
  BY DEF KindAssumption
<1>3. doc' = [doc EXCEPT ![d] = NoDoc] /\ UNCHANGED <<order, hold, physical, reserved>> /\ doc[d].status = "DRAFT"
  BY DEF DeleteCommercialDraft
<1> QED
  BY <1>1, <1>2, <1>3, DraftOK

\* The stock that a document moves.
LEMMA MovedIs ==
  ASSUME StatesOK, NEW d \in Docs
  PROVE  /\ Move(d, Out) => /\ physical' \in [Lines -> Nat]
                            /\ \A l \in Lines : /\ PostsStock(d) => physical'[l] = physical[l] - doc[d].qty[l]
                                                /\ ~PostsStock(d) => physical'[l] = physical[l]
         /\ Move(d, In) => /\ physical' \in [Lines -> Nat]
                           /\ \A l \in Lines : /\ PostsStock(d) => physical'[l] = physical[l] + doc[d].qty[l]
                                               /\ ~PostsStock(d) => physical'[l] = physical[l]
<1>1. \A l \in Lines : physical[l] \in Nat /\ doc[d].qty[l] \in Nat
  BY DEF StatesOK, DocType
<1>2. ASSUME Move(d, Out)
      PROVE  /\ physical' \in [Lines -> Nat]
             /\ \A l \in Lines : /\ PostsStock(d) => physical'[l] = physical[l] - doc[d].qty[l]
                                 /\ ~PostsStock(d) => physical'[l] = physical[l]
  <2>1. CASE PostsStock(d)
    BY <1>1, <1>2, <2>1 DEF Move, Out
  <2>2. CASE ~PostsStock(d)
    BY <1>1, <1>2, <2>2 DEF Move, Out
  <2> QED
    BY <2>1, <2>2
<1>3. ASSUME Move(d, In)
      PROVE  /\ physical' \in [Lines -> Nat]
             /\ \A l \in Lines : /\ PostsStock(d) => physical'[l] = physical[l] + doc[d].qty[l]
                                 /\ ~PostsStock(d) => physical'[l] = physical[l]
  <2>1. CASE PostsStock(d)
    BY <1>1, <1>3, <2>1 DEF Move, In
  <2>2. CASE ~PostsStock(d)
    BY <1>1, <1>3, <2>2 DEF Move, In
  <2> QED
    BY <2>1, <2>2
<1> QED
  BY <1>2, <1>3

\* A posted document: the documents, what they sum up to on a line, and what fits.
LEMMA PostedIs ==
  ASSUME OrderOK, QuantityAssumption, KindAssumption, NEW d \in Docs, SetPosted(d)
  PROVE  /\ doc' \in [Docs -> DocType] /\ \A p : (p = "DRAFT" => order = "DRAFT") => DocsIn(doc', p)
         /\ \A l \in Lines :
              /\ d \in Dispatches /\ doc[d].src = "ORDER" => Shipped(doc', l) = Shipped(doc, l) + doc[d].qty[l]
              /\ ~(d \in Dispatches /\ doc[d].src = "ORDER") => Shipped(doc', l) = Shipped(doc, l)
              /\ Shipped(doc', l) <= Ordered[l] /\ SumOf(doc', Charging(doc'), l) <= Ordered[l]
              /\ d \in Dispatches => SumOf(doc', Leaving(doc'), l) = SumOf(doc, Leaving(doc), l) + doc[d].qty[l]
              /\ d \notin Dispatches => SumOf(doc', Leaving(doc'), l) = SumOf(doc, Leaving(doc), l)
              /\ d \in Invoices /\ doc[d].src = "DIRECT" => SumOf(doc', Selling(doc'), l) = SumOf(doc, Selling(doc), l) + doc[d].qty[l]
              /\ ~(d \in Invoices /\ doc[d].src = "DIRECT") => SumOf(doc', Selling(doc'), l) = SumOf(doc, Selling(doc), l)
              /\ d \in Returns => SumOf(doc', Returning(doc'), l) = SumOf(doc, Returning(doc), l) + doc[d].qty[l]
              /\ d \notin Returns => SumOf(doc', Returning(doc'), l) = SumOf(doc, Returning(doc), l)
<1>1. /\ doc' \in [Docs -> DocType] /\ \A x \in Docs : x # d => doc'[x] = doc[x]
      /\ doc[d].status = "DRAFT" /\ doc'[d].status = "POSTED" /\ doc'[d].src = doc[d].src /\ doc'[d].qty = doc[d].qty
  BY StatusSet DEF SetPosted, OrderOK, StatesOK
<1>2. doc \in [Docs -> DocType] /\ DocsIn(doc, order) /\ d \in Docs /\ KindAssumption
  BY DEF OrderOK, StatesOK
<1>3. ASSUME NEW p, p = "DRAFT" => order = "DRAFT" PROVE DocsIn(doc', p)
  BY ONLY <1>1, <1>2, <1>3, DocsStay
<1>4. ASSUME NEW l \in Lines
      PROVE  /\ d \in Dispatches /\ doc[d].src = "ORDER" => Shipped(doc', l) = Shipped(doc, l) + doc[d].qty[l]
             /\ ~(d \in Dispatches /\ doc[d].src = "ORDER") => Shipped(doc', l) = Shipped(doc, l)
             /\ Charges(doc, d) => SumOf(doc', Charging(doc'), l) = SumOf(doc, Charging(doc), l) + doc[d].qty[l]
             /\ ~Charges(doc, d) => SumOf(doc', Charging(doc'), l) = SumOf(doc, Charging(doc), l)
             /\ d \in Dispatches => SumOf(doc', Leaving(doc'), l) = SumOf(doc, Leaving(doc), l) + doc[d].qty[l]
             /\ d \notin Dispatches => SumOf(doc', Leaving(doc'), l) = SumOf(doc, Leaving(doc), l)
             /\ d \in Invoices /\ doc[d].src = "DIRECT" => SumOf(doc', Selling(doc'), l) = SumOf(doc, Selling(doc), l) + doc[d].qty[l]
             /\ ~(d \in Invoices /\ doc[d].src = "DIRECT") => SumOf(doc', Selling(doc'), l) = SumOf(doc, Selling(doc), l)
             /\ d \in Returns => SumOf(doc', Returning(doc'), l) = SumOf(doc, Returning(doc), l) + doc[d].qty[l]
             /\ d \notin Returns => SumOf(doc', Returning(doc'), l) = SumOf(doc, Returning(doc), l)
  BY ONLY <1>1, <1>2, <1>4, PostMoves
<1>5. ASSUME NEW l \in Lines PROVE Shipped(doc', l) <= Ordered[l]
  <2>1. doc[d].qty[l] \in Nat /\ Shipped(doc, l) \in Nat /\ Shipped(doc, l) <= Ordered[l]
    BY <1>2, QtyIs, SetsAre, SumOfIs DEF Shipped, OrderOK, LedgerOK
  <2>2. CASE d \in Dispatches /\ doc[d].src = "ORDER" /\ doc[d].qty[l] > 0
    BY <2>2, PostedFits
  <2>3. CASE ~(d \in Dispatches /\ doc[d].src = "ORDER" /\ doc[d].qty[l] > 0)
    BY <1>4, <2>1, <2>3
  <2> QED
    BY <2>2, <2>3
<1>6. ASSUME NEW l \in Lines PROVE SumOf(doc', Charging(doc'), l) <= Ordered[l]
  <2>1. /\ doc[d].qty[l] \in Nat /\ SumOf(doc, Charging(doc), l) \in Nat /\ SumOf(doc, Charging(doc), l) <= Ordered[l]
        /\ Ordered[l] \in Nat
    BY <1>2, QtyIs, SetsAre, SumOfIs DEF OrderOK, LedgerOK, QuantityAssumption
  <2>2. CASE Charges(doc, d) /\ doc[d].qty[l] > 0
    <3>1. InvoicedIn(doc', l) <= Shipped(doc', l)
      BY <2>2, PostedFits
    <3>2. InvoicedIn(doc', l) = SumOf(doc', Charging(doc'), l)
      BY ONLY <1>1, <1>2, <1>6, InvoicedIs
    <3>3. Shipped(doc', l) \in Nat /\ SumOf(doc', Charging(doc'), l) \in Nat
      BY ONLY <1>1, <1>2, <1>6, SetsAre, SumOfIs DEF Shipped
    <3> QED
      BY <1>5, <2>1, <3>1, <3>2, <3>3
  <2>3. CASE ~(Charges(doc, d) /\ doc[d].qty[l] > 0)
    BY <1>4, <2>1, <2>3
  <2> QED
    BY <2>2, <2>3
<1> QED
  BY <1>1, <1>3, <1>4, <1>5, <1>6

\* A cancelled document: the documents, and what they sum up to on a line.
LEMMA CancelledIs ==
  ASSUME OrderOK, QuantityAssumption, KindAssumption, NEW d \in Docs, SetCancelled(d),
         d \in Dispatches => NoActiveDownstream(d)
  PROVE  /\ doc' \in [Docs -> DocType] /\ \A p : (p = "DRAFT" => order = "DRAFT") => DocsIn(doc', p)
         /\ \A l \in Lines :
              /\ d \in Dispatches /\ doc[d].src = "ORDER" => Shipped(doc', l) = Shipped(doc, l) - doc[d].qty[l]
              /\ ~(d \in Dispatches /\ doc[d].src = "ORDER") => Shipped(doc', l) = Shipped(doc, l)
              /\ Shipped(doc', l) <= Ordered[l] /\ SumOf(doc', Charging(doc'), l) <= Ordered[l]
              /\ d \in Dispatches => SumOf(doc', Leaving(doc'), l) = SumOf(doc, Leaving(doc), l) - doc[d].qty[l]
              /\ d \notin Dispatches => SumOf(doc', Leaving(doc'), l) = SumOf(doc, Leaving(doc), l)
              /\ d \in Invoices /\ doc[d].src = "DIRECT" => SumOf(doc', Selling(doc'), l) = SumOf(doc, Selling(doc), l) - doc[d].qty[l]
              /\ ~(d \in Invoices /\ doc[d].src = "DIRECT") => SumOf(doc', Selling(doc'), l) = SumOf(doc, Selling(doc), l)
              /\ d \in Returns => SumOf(doc', Returning(doc'), l) = SumOf(doc, Returning(doc), l) - doc[d].qty[l]
              /\ d \notin Returns => SumOf(doc', Returning(doc'), l) = SumOf(doc, Returning(doc), l)
<1>1. /\ doc' \in [Docs -> DocType] /\ \A x \in Docs : x # d => doc'[x] = doc[x]
      /\ doc[d].status = "POSTED" /\ doc'[d].status = "CANCELLED" /\ doc'[d].src = doc[d].src /\ doc'[d].qty = doc[d].qty
  BY StatusSet DEF SetCancelled, OrderOK, StatesOK
<1>2. doc \in [Docs -> DocType] /\ DocsIn(doc, order) /\ d \in Docs /\ KindAssumption
  BY DEF OrderOK, StatesOK
<1>3. ASSUME NEW p, p = "DRAFT" => order = "DRAFT" PROVE DocsIn(doc', p)
  BY ONLY <1>1, <1>2, <1>3, DocsStay
<1>a. d \in Dispatches => FromIn(doc, Docs, d) = {}
  BY DEF NoActiveDownstream, From, Posted, FromIn, PostedIn
<1>4. ASSUME NEW l \in Lines
      PROVE  /\ d \in Dispatches /\ doc[d].src = "ORDER" => Shipped(doc', l) = Shipped(doc, l) - doc[d].qty[l]
             /\ ~(d \in Dispatches /\ doc[d].src = "ORDER") => Shipped(doc', l) = Shipped(doc, l)
             /\ SumOf(doc', Charging(doc'), l) <= SumOf(doc, Charging(doc), l)
             /\ d \in Dispatches => SumOf(doc', Leaving(doc'), l) = SumOf(doc, Leaving(doc), l) - doc[d].qty[l]
             /\ d \notin Dispatches => SumOf(doc', Leaving(doc'), l) = SumOf(doc, Leaving(doc), l)
             /\ d \in Invoices /\ doc[d].src = "DIRECT" => SumOf(doc', Selling(doc'), l) = SumOf(doc, Selling(doc), l) - doc[d].qty[l]
             /\ ~(d \in Invoices /\ doc[d].src = "DIRECT") => SumOf(doc', Selling(doc'), l) = SumOf(doc, Selling(doc), l)
             /\ d \in Returns => SumOf(doc', Returning(doc'), l) = SumOf(doc, Returning(doc), l) - doc[d].qty[l]
             /\ d \notin Returns => SumOf(doc', Returning(doc'), l) = SumOf(doc, Returning(doc), l)
  BY ONLY <1>1, <1>2, <1>a, <1>4, CancelMoves
<1>5. ASSUME NEW l \in Lines PROVE Shipped(doc', l) <= Ordered[l] /\ SumOf(doc', Charging(doc'), l) <= Ordered[l]
  <2>1. /\ doc[d].qty[l] \in Nat /\ Shipped(doc, l) \in Nat /\ Shipped(doc, l) <= Ordered[l]
        /\ SumOf(doc, Charging(doc), l) \in Nat /\ SumOf(doc, Charging(doc), l) <= Ordered[l] /\ Ordered[l] \in Nat
    BY <1>2, QtyIs, SetsAre, SumOfIs DEF Shipped, OrderOK, LedgerOK, QuantityAssumption
  <2>2. SumOf(doc', Charging(doc'), l) \in Nat
    BY ONLY <1>1, <1>2, <1>5, SetsAre, SumOfIs
  <2> QED
    BY <1>4, <2>1, <2>2
<1> QED
  BY <1>1, <1>3, <1>4, <1>5

\* The sums that stock follows are naturals.
LEMMA StockSums ==
  ASSUME OrderOK, QuantityAssumption, KindAssumption, NEW l \in Lines, NEW d \in Docs
  PROVE  /\ SumOf(doc, Leaving(doc), l) \in Int /\ SumOf(doc, Selling(doc), l) \in Int
         /\ SumOf(doc, Returning(doc), l) \in Int
         /\ doc[d].qty[l] \in Nat /\ Opening[l] \in Int /\ Ordered[l] \in Nat \ {0} /\ physical[l] \in Nat
         /\ Shipped(doc, l) \in Nat
         /\ physical[l] = Opening[l] - SumOf(doc, Leaving(doc), l)
                          - SumOf(doc, Selling(doc), l) + SumOf(doc, Returning(doc), l)
<1>1. doc \in [Docs -> DocType] /\ KindAssumption
  BY DEF OrderOK, StatesOK
<1> QED
  BY <1>1, SetsAre, SumOfIs, QtyIs DEF Shipped, QuantityAssumption, OrderOK, LedgerOK, StatesOK

\* Stock follows a document that is posted or cancelled.
LEMMA LedgerPosted ==
  ASSUME OrderOK, QuantityAssumption, KindAssumption, NEW d \in Docs, SetPosted(d),
         ((d \in Dispatches \/ d \in Invoices) /\ Move(d, Out)) \/ (d \in Returns /\ Move(d, In))
  PROVE  LedgerOK' /\ physical' \in [Lines -> Nat]
<1>1. StatesOK /\ Dispatches \cap Invoices = {} /\ Dispatches \cap Returns = {} /\ Invoices \cap Returns = {}
  BY DEF OrderOK, KindAssumption
<1>2. PostsStock(d) <=> d \in Dispatches \/ d \in Returns \/ (d \in Invoices /\ doc[d].src = "DIRECT")
  BY <1>1 DEF PostsStock, Docs
<1>3. ASSUME NEW l \in Lines
      PROVE  /\ Shipped(doc', l) <= Ordered[l] /\ SumOf(doc', Charging(doc'), l) <= Ordered[l]
             /\ physical'[l] = Opening[l] - SumOf(doc', Leaving(doc'), l)
                               - SumOf(doc', Selling(doc'), l) + SumOf(doc', Returning(doc'), l)
  <2>1. /\ Shipped(doc', l) <= Ordered[l] /\ SumOf(doc', Charging(doc'), l) <= Ordered[l]
        /\ d \in Dispatches => SumOf(doc', Leaving(doc'), l) = SumOf(doc, Leaving(doc), l) + doc[d].qty[l]
        /\ d \notin Dispatches => SumOf(doc', Leaving(doc'), l) = SumOf(doc, Leaving(doc), l)
        /\ d \in Invoices /\ doc[d].src = "DIRECT" => SumOf(doc', Selling(doc'), l) = SumOf(doc, Selling(doc), l) + doc[d].qty[l]
        /\ ~(d \in Invoices /\ doc[d].src = "DIRECT") => SumOf(doc', Selling(doc'), l) = SumOf(doc, Selling(doc), l)
        /\ d \in Returns => SumOf(doc', Returning(doc'), l) = SumOf(doc, Returning(doc), l) + doc[d].qty[l]
        /\ d \notin Returns => SumOf(doc', Returning(doc'), l) = SumOf(doc, Returning(doc), l)
    BY PostedIs
  <2>2. /\ SumOf(doc, Leaving(doc), l) \in Int /\ SumOf(doc, Selling(doc), l) \in Int
        /\ SumOf(doc, Returning(doc), l) \in Int /\ doc[d].qty[l] \in Int /\ Opening[l] \in Int /\ physical[l] \in Int
        /\ physical[l] = Opening[l] - SumOf(doc, Leaving(doc), l)
                         - SumOf(doc, Selling(doc), l) + SumOf(doc, Returning(doc), l)
    BY StockSums
  <2>3. CASE d \in Dispatches
    <3>1. physical'[l] = physical[l] - doc[d].qty[l] /\ d \notin Invoices /\ d \notin Returns
      BY <1>1, <1>2, <2>3, MovedIs
    <3> QED
      BY <2>1, <2>2, <2>3, <3>1
  <2>4. CASE d \in Invoices /\ doc[d].src = "DIRECT"
    <3>1. physical'[l] = physical[l] - doc[d].qty[l] /\ d \notin Dispatches /\ d \notin Returns
      BY <1>1, <1>2, <2>4, MovedIs
    <3> QED
      BY <2>1, <2>2, <2>4, <3>1
  <2>5. CASE d \in Invoices /\ doc[d].src # "DIRECT"
    <3>1. physical'[l] = physical[l] /\ d \notin Dispatches /\ d \notin Returns
      BY <1>1, <1>2, <2>5, MovedIs
    <3> QED
      BY <2>1, <2>2, <2>5, <3>1
  <2>6. CASE d \in Returns
    <3>1. physical'[l] = physical[l] + doc[d].qty[l] /\ d \notin Dispatches /\ d \notin Invoices
      BY <1>1, <1>2, <2>6, MovedIs
    <3> QED
      BY <2>1, <2>2, <2>6, <3>1
  <2> QED
    BY <2>3, <2>4, <2>5, <2>6
<1>4. physical' \in [Lines -> Nat]
  BY <1>1, MovedIs
<1> QED
  BY <1>3, <1>4 DEF LedgerOK

LEMMA LedgerCancelled ==
  ASSUME OrderOK, QuantityAssumption, KindAssumption, NEW d \in Docs, SetCancelled(d),
         d \in Dispatches => NoActiveDownstream(d),
         ((d \in Dispatches \/ d \in Invoices) /\ Move(d, In)) \/ (d \in Returns /\ Move(d, Out))
  PROVE  LedgerOK' /\ physical' \in [Lines -> Nat]
<1>1. StatesOK /\ Dispatches \cap Invoices = {} /\ Dispatches \cap Returns = {} /\ Invoices \cap Returns = {}
  BY DEF OrderOK, KindAssumption
<1>2. PostsStock(d) <=> d \in Dispatches \/ d \in Returns \/ (d \in Invoices /\ doc[d].src = "DIRECT")
  BY <1>1 DEF PostsStock, Docs
<1>3. ASSUME NEW l \in Lines
      PROVE  /\ Shipped(doc', l) <= Ordered[l] /\ SumOf(doc', Charging(doc'), l) <= Ordered[l]
             /\ physical'[l] = Opening[l] - SumOf(doc', Leaving(doc'), l)
                               - SumOf(doc', Selling(doc'), l) + SumOf(doc', Returning(doc'), l)
  <2>1. /\ Shipped(doc', l) <= Ordered[l] /\ SumOf(doc', Charging(doc'), l) <= Ordered[l]
        /\ d \in Dispatches => SumOf(doc', Leaving(doc'), l) = SumOf(doc, Leaving(doc), l) - doc[d].qty[l]
        /\ d \notin Dispatches => SumOf(doc', Leaving(doc'), l) = SumOf(doc, Leaving(doc), l)
        /\ d \in Invoices /\ doc[d].src = "DIRECT" => SumOf(doc', Selling(doc'), l) = SumOf(doc, Selling(doc), l) - doc[d].qty[l]
        /\ ~(d \in Invoices /\ doc[d].src = "DIRECT") => SumOf(doc', Selling(doc'), l) = SumOf(doc, Selling(doc), l)
        /\ d \in Returns => SumOf(doc', Returning(doc'), l) = SumOf(doc, Returning(doc), l) - doc[d].qty[l]
        /\ d \notin Returns => SumOf(doc', Returning(doc'), l) = SumOf(doc, Returning(doc), l)
    BY CancelledIs
  <2>2. /\ SumOf(doc, Leaving(doc), l) \in Int /\ SumOf(doc, Selling(doc), l) \in Int
        /\ SumOf(doc, Returning(doc), l) \in Int /\ doc[d].qty[l] \in Int /\ Opening[l] \in Int /\ physical[l] \in Int
        /\ physical[l] = Opening[l] - SumOf(doc, Leaving(doc), l)
                         - SumOf(doc, Selling(doc), l) + SumOf(doc, Returning(doc), l)
    BY StockSums
  <2>3. CASE d \in Dispatches
    <3>1. physical'[l] = physical[l] + doc[d].qty[l] /\ d \notin Invoices /\ d \notin Returns
      BY <1>1, <1>2, <2>3, MovedIs
    <3> QED
      BY <2>1, <2>2, <2>3, <3>1
  <2>4. CASE d \in Invoices /\ doc[d].src = "DIRECT"
    <3>1. physical'[l] = physical[l] + doc[d].qty[l] /\ d \notin Dispatches /\ d \notin Returns
      BY <1>1, <1>2, <2>4, MovedIs
    <3> QED
      BY <2>1, <2>2, <2>4, <3>1
  <2>5. CASE d \in Invoices /\ doc[d].src # "DIRECT"
    <3>1. physical'[l] = physical[l] /\ d \notin Dispatches /\ d \notin Returns
      BY <1>1, <1>2, <2>5, MovedIs
    <3> QED
      BY <2>1, <2>2, <2>5, <3>1
  <2>6. CASE d \in Returns
    <3>1. physical'[l] = physical[l] - doc[d].qty[l] /\ d \notin Dispatches /\ d \notin Invoices
      BY <1>1, <1>2, <2>6, MovedIs
    <3> QED
      BY <2>1, <2>2, <2>6, <3>1
  <2> QED
    BY <2>3, <2>4, <2>5, <2>6
<1>4. physical' \in [Lines -> Nat]
  BY <1>1, MovedIs
<1> QED
  BY <1>3, <1>4 DEF LedgerOK

LEMMA StatusIs ==
  ASSUME NEW dc
  PROVE  StatusIn(dc) \in OpenStates
BY DEF StatusIn, OpenStates

\* A document that is no dispatch of the order leaves the order and its reservations.
LEMMA OrderStays ==
  ASSUME OrderOK, UNCHANGED <<order, hold, reserved>>, \A l \in Lines : Shipped(doc', l) = Shipped(doc, l)
  PROVE  HoldsOK' /\ (order' \in OpenStates => order' = StatusIn(doc'))
<1>1. StatusIn(doc') = StatusIn(doc)
  BY DEF StatusIn
<1>2. order' \in OpenStates => order' = StatusIn(doc')
  BY <1>1 DEF OrderOK
<1>3. HoldsOK'
  BY DEF OrderOK, HoldsOK
<1> QED
  BY <1>2, <1>3

LEMMA PostOK ==
  ASSUME OrderOK, QuantityAssumption, KindAssumption, NEW d \in Docs, SetPosted(d),
         ((d \in Dispatches \/ d \in Invoices) /\ Move(d, Out)) \/ (d \in Returns /\ Move(d, In)),
         ~(d \in Dispatches /\ doc[d].src = "ORDER"), UNCHANGED <<order, hold, reserved>>
  PROVE  OrderOK'
<1>1. doc' \in [Docs -> DocType] /\ DocsIn(doc', order') /\ \A l \in Lines : Shipped(doc', l) = Shipped(doc, l)
  BY PostedIs
<1>2. LedgerOK' /\ physical' \in [Lines -> Nat]
  BY LedgerPosted
<1>3. HoldsOK' /\ (order' \in OpenStates => order' = StatusIn(doc'))
  BY <1>1, OrderStays
<1>4. StatesOK'
  BY <1>1, <1>2 DEF OrderOK, StatesOK
<1> QED
  BY <1>1, <1>2, <1>3, <1>4 DEF OrderOK

LEMMA CancelOK ==
  ASSUME OrderOK, QuantityAssumption, KindAssumption, NEW d \in Docs, SetCancelled(d),
         d \in Dispatches => NoActiveDownstream(d),
         ((d \in Dispatches \/ d \in Invoices) /\ Move(d, In)) \/ (d \in Returns /\ Move(d, Out)),
         ~(d \in Dispatches /\ doc[d].src = "ORDER"), UNCHANGED <<hold, reserved>>
  PROVE  OrderOK'
<1>1. doc' \in [Docs -> DocType] /\ (\A p : (p = "DRAFT" => order = "DRAFT") => DocsIn(doc', p))
      /\ \A l \in Lines : Shipped(doc', l) = Shipped(doc, l)
  BY CancelledIs
<1>2. LedgerOK' /\ physical' \in [Lines -> Nat]
  BY LedgerCancelled
<1>3. order' = order
  <2>1. StatusIn(doc') = StatusIn(doc)
    BY <1>1 DEF StatusIn
  <2> QED
    BY <2>1, StatusNext DEF SetCancelled, OrderOK
<1>4. HoldsOK' /\ (order' \in OpenStates => order' = StatusIn(doc'))
  BY <1>1, <1>3, OrderStays
<1>5. StatesOK'
  BY <1>1, <1>2, <1>3 DEF OrderOK, StatesOK
<1> QED
  BY <1>1, <1>2, <1>3, <1>4, <1>5 DEF OrderOK

\* A dispatch of the order is posted: it uses the reservations.
LEMMA ShipOK ==
  ASSUME OrderOK, QuantityAssumption, KindAssumption, NEW d \in Docs, PostDispatch(d), doc[d].src = "ORDER"
  PROVE  OrderOK'
<1> DEFINE q == doc[d].qty
<1>1. /\ d \in Dispatches /\ SetPosted(d) /\ Move(d, Out) /\ ConsumeHolds(q)
      /\ order' = IF order \in {"CONFIRMED", "PARTIALLY_FULFILLED"} THEN StatusIn(doc') ELSE order
  BY StatusNext DEF PostDispatch
<1>2. /\ doc' \in [Docs -> DocType] /\ (\A p : (p = "DRAFT" => order = "DRAFT") => DocsIn(doc', p))
      /\ \A l \in Lines : Shipped(doc', l) = Shipped(doc, l) + q[l] /\ Shipped(doc', l) <= Ordered[l]
  BY <1>1, PostedIs
<1>3. LedgerOK' /\ physical' \in [Lines -> Nat]
  BY <1>1, LedgerPosted
<1>4. order # "DRAFT" /\ order' # "DRAFT" /\ order' \in OpenStates \cup {"DRAFT", "CANCELLED"}
      /\ (order' \in OpenStates => order \in OpenStates)
  <2>1. order # "DRAFT" /\ order \in OpenStates \cup {"DRAFT", "CANCELLED"}
    BY DEF OrderOK, DocsIn, StatesOK
  <2> QED
    BY <1>1, <2>1, StatusIs DEF OpenStates
<1>5. order' \in OpenStates => order' = StatusIn(doc')
  <2>1. CASE order \in {"CONFIRMED", "PARTIALLY_FULFILLED"}
    BY <1>1, <2>1
  <2>2. order # "FULFILLED"
    <3> SUFFICES ASSUME order = "FULFILLED" PROVE FALSE
      OBVIOUS
    <3>1. StatusIn(doc) = "FULFILLED"
      BY DEF OrderOK, OpenStates
    <3>2. \A l \in Lines : Shipped(doc, l) >= Ordered[l]
      BY <3>1 DEF StatusIn
    <3>3. PICK l \in Lines : q[l] > 0
      BY <1>1 DEF OrderOK, DocsIn, SetPosted
    <3>4. Shipped(doc, l) \in Nat /\ Ordered[l] \in Nat /\ q[l] \in Nat
      BY StockSums
    <3> QED
      BY <1>2, <3>2, <3>3, <3>4
  <2> QED
    BY <1>4, <2>1, <2>2 DEF OpenStates
<1>6. ASSUME NEW l \in Lines
      PROVE  /\ hold'[l] \in HoldType /\ HoldOK(hold'[l], Ordered[l])
             /\ reserved'[l] \in Nat /\ reserved'[l] = HeldRow(hold'[l], Ordered[l])
             /\ hold'[l].consumed = hold[l].consumed + q[l]
             /\ hold[l].status \in {"ACTIVE", "CONSUMED"} => hold'[l].status \in {"ACTIVE", "CONSUMED"}
  <2> DEFINE h == hold[l]
             n == Ordered[l]
             r == reserved[l]
             k == hold'[l]
             t == reserved'[l]
             a == doc[d].qty[l]
  <2>1. h \in HoldType /\ HoldOK(h, n) /\ r = HeldRow(h, n)
    BY DEF OrderOK, StatesOK, HoldsOK
  <2>2. n \in Nat \ {0} /\ a \in Nat
    BY StockSums
  <2>3. /\ a > 0 => h.status = "ACTIVE" /\ a <= n - h.consumed - h.released
        /\ k = ConsumedRow(h, n, a) /\ t = Max({0, r - a})
    BY <1>1 DEF ConsumeHolds, HoldRest, ConsumedRow
  <2> HIDE DEF h, n, r, k, t, a
  <2>4. /\ k \in HoldType /\ HoldOK(k, n) /\ t \in Nat /\ t = HeldRow(k, n)
        /\ k.consumed = h.consumed + a
        /\ h.status \in {"ACTIVE", "CONSUMED"} => k.status \in {"ACTIVE", "CONSUMED"}
    BY ONLY <2>1, <2>2, <2>3, ConsumedRowIs
  <2> QED
    BY <2>4 DEF h, n, k, t, a
<1>7. HoldsOK'
  <2> SUFFICES ASSUME NEW l \in Lines
               PROVE  /\ HoldOK(hold'[l], Ordered[l]) /\ reserved'[l] = HeldRow(hold'[l], Ordered[l])
                      /\ order' = "DRAFT" => hold'[l].status = "NONE"
                      /\ order' \in OpenStates =>
                           hold'[l].status \in {"ACTIVE", "CONSUMED"} /\ hold'[l].consumed = Shipped(doc', l)
    BY DEF HoldsOK
  <2>1. order \in OpenStates => hold[l].status \in {"ACTIVE", "CONSUMED"} /\ hold[l].consumed = Shipped(doc, l)
    BY DEF OrderOK, HoldsOK
  <2> QED
    BY <1>2, <1>4, <1>6, <2>1
<1>8. StatesOK'
  <2>1. hold' = [l \in Lines |-> hold'[l]] /\ reserved' = [l \in Lines |-> reserved'[l]]
    BY <1>1 DEF ConsumeHolds
  <2>2. hold' \in [Lines -> HoldType] /\ reserved' \in [Lines -> Nat]
    BY <1>6, <2>1
  <2> QED
    BY <1>2, <1>3, <1>4, <2>2 DEF StatesOK
<1> QED
  BY <1>2, <1>3, <1>4, <1>5, <1>7, <1>8 DEF OrderOK

\* ... and is cancelled: it gives them back.
LEMMA UnshipOK ==
  ASSUME OrderOK, QuantityAssumption, KindAssumption, NEW d \in Docs, CancelDispatch(d), doc[d].src = "ORDER"
  PROVE  OrderOK'
<1> DEFINE q == doc[d].qty
<1>1. /\ d \in Dispatches /\ NoActiveDownstream(d) /\ SetCancelled(d) /\ Move(d, In) /\ RestoreHolds(q)
      /\ doc[d].status = "POSTED"
      /\ order' = IF order \in OpenStates THEN StatusIn(doc') ELSE order
  BY StatusNext DEF CancelDispatch, SetCancelled
<1>2. /\ doc' \in [Docs -> DocType] /\ (\A p : (p = "DRAFT" => order = "DRAFT") => DocsIn(doc', p))
      /\ \A l \in Lines : Shipped(doc', l) = Shipped(doc, l) - q[l]
  BY <1>1, CancelledIs
<1>3. LedgerOK' /\ physical' \in [Lines -> Nat]
  BY <1>1, LedgerCancelled
<1>4. order # "DRAFT" /\ order' # "DRAFT" /\ order' \in OpenStates \cup {"DRAFT", "CANCELLED"}
      /\ (order' \in OpenStates => order \in OpenStates /\ order' = StatusIn(doc'))
  <2>1. order # "DRAFT" /\ order \in OpenStates \cup {"DRAFT", "CANCELLED"}
    BY DEF OrderOK, DocsIn, StatesOK
  <2> QED
    BY <1>1, <2>1, StatusIs DEF OpenStates
<1>5. \A l \in Lines : q[l] <= Shipped(doc, l)
  <2>1. d \in Shipping(doc)
    BY <1>1 DEF Shipping, FromIn, PostedIn
  <2>2. doc \in [Docs -> DocType] /\ Shipping(doc) \in SUBSET Docs
    BY SetsAre DEF OrderOK, StatesOK
  <2> QED
    BY <2>1, <2>2, SumOfIs DEF Shipped
<1>6. ASSUME NEW l \in Lines
      PROVE  /\ hold'[l] \in HoldType /\ HoldOK(hold'[l], Ordered[l])
             /\ reserved'[l] \in Nat /\ reserved'[l] = HeldRow(hold'[l], Ordered[l])
             /\ hold[l].status \in {"ACTIVE", "CONSUMED"} /\ q[l] <= hold[l].consumed =>
                  hold'[l].status \in {"ACTIVE", "CONSUMED"} /\ hold'[l].consumed = hold[l].consumed - q[l]
  <2> DEFINE h == hold[l]
             n == Ordered[l]
             r == reserved[l]
             k == hold'[l]
             t == reserved'[l]
             a == doc[d].qty[l]
             m == Restorable(q)[l]
  <2>1. h \in HoldType /\ HoldOK(h, n) /\ r = HeldRow(h, n)
    BY DEF OrderOK, StatesOK, HoldsOK
  <2>2. n \in Nat \ {0} /\ a \in Nat
    BY StockSums
  <2>3. m = GivenBack(h, a)
    BY DEF Restorable, GivenBack
  <2>4. k = RestoredRow(h, m) /\ t = r + m
    BY <1>1 DEF RestoreHolds, Restored, RestoredRow
  <2> HIDE DEF h, n, r, k, t, a, m
  <2>5. k \in HoldType /\ HoldOK(k, n) /\ r + m \in Nat /\ r + m = HeldRow(k, n)
    BY ONLY <2>1, <2>2, <2>3, <2>4, RestoredRowIs
  <2>6. ASSUME h.status \in {"ACTIVE", "CONSUMED"}, a <= h.consumed
        PROVE  k.status \in {"ACTIVE", "CONSUMED"} /\ k.consumed = h.consumed - a
    <3>1. /\ h \in HoldType /\ HoldOK(h, n) /\ r = HeldRow(h, n) /\ n \in Nat \ {0} /\ a \in Nat
          /\ m = GivenBack(h, a) /\ k = RestoredRow(h, m) /\ h.status \in {"ACTIVE", "CONSUMED"} /\ a <= h.consumed
      BY <2>1, <2>2, <2>3, <2>4, <2>6
    <3>2. k.status \in {"ACTIVE", "CONSUMED"}
      BY ONLY <3>1, RestoredRowIs
    <3>3. HasGiven(k, h, a)
      BY ONLY <3>1, RestoredRowIs
    <3> QED
      BY <3>2, <3>3 DEF HasGiven
  <2> QED
    BY <2>4, <2>5, <2>6 DEF h, n, k, t, a
<1>7. HoldsOK'
  <2> SUFFICES ASSUME NEW l \in Lines
               PROVE  /\ HoldOK(hold'[l], Ordered[l]) /\ reserved'[l] = HeldRow(hold'[l], Ordered[l])
                      /\ order' = "DRAFT" => hold'[l].status = "NONE"
                      /\ order' \in OpenStates =>
                           hold'[l].status \in {"ACTIVE", "CONSUMED"} /\ hold'[l].consumed = Shipped(doc', l)
    BY DEF HoldsOK
  <2>1. order \in OpenStates => hold[l].status \in {"ACTIVE", "CONSUMED"} /\ hold[l].consumed = Shipped(doc, l)
    BY DEF OrderOK, HoldsOK
  <2> QED
    BY <1>2, <1>4, <1>5, <1>6, <2>1
<1>8. StatesOK'
  <2>1. hold' = [l \in Lines |-> hold'[l]] /\ reserved' = [l \in Lines |-> reserved'[l]]
    BY <1>1 DEF RestoreHolds
  <2>2. hold' \in [Lines -> HoldType] /\ reserved' \in [Lines -> Nat]
    BY <1>6, <2>1
  <2> QED
    BY <1>2, <1>3, <1>4, <2>2 DEF StatesOK
<1> QED
  BY <1>2, <1>3, <1>4, <1>7, <1>8 DEF OrderOK

\* Every action keeps it.
LEMMA OrderNextOK == QuantityAssumption /\ KindAssumption /\ OrderOK /\ [Next]_vars => OrderOK'
<1> SUFFICES ASSUME QuantityAssumption, KindAssumption, OrderOK, [Next]_vars PROVE OrderOK'
  OBVIOUS
<1>1. CASE UNCHANGED vars
  BY <1>1 DEF vars, OrderOK, StatesOK, DocsIn, HoldsOK, LedgerOK, StatusIn
<1>2. CASE Confirm
  BY <1>2, ConfirmOK
<1>3. CASE CancelOrder
  BY <1>3, CancelOrderOK
<1>4. ASSUME NEW d \in Docs, NEW s \in Docs \cup {"ORDER", "DIRECT"}, NEW q \in Quantities,
             CreateCommercialDraft(d, s, q) \/ UpdateCommercialDraft(d, s, q)
      PROVE  OrderOK'
  BY <1>4, SetDraftOK DEF CreateCommercialDraft, UpdateCommercialDraft
<1>5. ASSUME NEW d \in Docs, DeleteCommercialDraft(d) PROVE OrderOK'
  BY <1>5, DeleteDraftOK
<1>a. Dispatches \cap Invoices = {} /\ Dispatches \cap Returns = {}
  BY DEF KindAssumption
<1>6. ASSUME NEW d \in Docs, PostDispatch(d) PROVE OrderOK'
  <2>1. CASE doc[d].src = "ORDER"
    BY <1>6, <2>1, ShipOK
  <2>2. CASE doc[d].src # "ORDER"
    <3>1. d \in Dispatches /\ SetPosted(d) /\ Move(d, Out) /\ UNCHANGED <<order, hold, reserved>>
      BY <1>6, <2>2 DEF PostDispatch
    <3> QED
      BY <2>2, <3>1, PostOK
  <2> QED
    BY <2>1, <2>2
<1>7. ASSUME NEW d \in Docs, PostInvoice(d) \/ PostReturn(d) PROVE OrderOK'
  <2>1. /\ d \notin Dispatches /\ SetPosted(d) /\ UNCHANGED <<order, hold, reserved>>
        /\ (d \in Invoices /\ Move(d, Out)) \/ (d \in Returns /\ Move(d, In))
    BY <1>7, <1>a DEF PostInvoice, PostReturn
  <2> QED
    BY <2>1, PostOK
<1>8. ASSUME NEW d \in Docs, CancelDispatch(d) PROVE OrderOK'
  <2>1. CASE doc[d].src = "ORDER"
    BY <1>8, <2>1, UnshipOK
  <2>2. CASE doc[d].src # "ORDER"
    <3>1. /\ d \in Dispatches /\ NoActiveDownstream(d) /\ SetCancelled(d) /\ Move(d, In)
          /\ UNCHANGED <<hold, reserved>>
      BY <1>8, <2>2 DEF CancelDispatch
    <3> QED
      BY <2>2, <3>1, CancelOK
  <2> QED
    BY <2>1, <2>2
<1>9. ASSUME NEW d \in Docs, CancelInvoice(d) \/ CancelReturn(d) PROVE OrderOK'
  <2>1. /\ d \notin Dispatches /\ SetCancelled(d) /\ UNCHANGED <<hold, reserved>>
        /\ (d \in Invoices /\ Move(d, In)) \/ (d \in Returns /\ Move(d, Out))
    BY <1>9, <1>a DEF CancelInvoice, CancelReturn
  <2> QED
    BY <2>1, CancelOK
<1> QED
  BY <1>1, <1>2, <1>3, <1>4, <1>5, <1>6, <1>7, <1>8, <1>9 DEF Next

\* The order's story follows.
LEMMA StoryFollows == QuantityAssumption /\ KindAssumption /\ OrderOK => OrderIsExplained
<1> SUFFICES ASSUME QuantityAssumption, KindAssumption, OrderOK PROVE OrderIsExplained
  OBVIOUS
<1>1. \A l \in Lines : /\ Ordered[l] \in Nat \ {0} /\ Shipped(doc, l) \in Nat /\ Shipped(doc, l) <= Ordered[l]
                       /\ hold[l] \in HoldType /\ HoldOK(hold[l], Ordered[l]) /\ reserved[l] = HeldRow(hold[l], Ordered[l])
                       /\ order \in OpenStates =>
                            hold[l].status \in {"ACTIVE", "CONSUMED"} /\ hold[l].consumed = Shipped(doc, l)
                       /\ Fulfilled("ORDER", l) = Shipped(doc, l)
  <2>1. doc \in [Docs -> DocType]
    BY DEF OrderOK, StatesOK
  <2> QED
    BY <2>1, SetsAre, SumOfIs, ReadNow DEF Shipped, OrderOK, StatesOK, HoldsOK, LedgerOK, QuantityAssumption
<1>2. ReservedIsHeld
  BY <1>1 DEF ReservedIsHeld, HeldRow, HoldRest
<1>3. RestCanBeShipped
  <2> SUFFICES ASSUME order \in OpenStates, NEW l \in Lines
               PROVE  /\ Ordered[l] - Fulfilled("ORDER", l) >= 0
                      /\ Ordered[l] - Fulfilled("ORDER", l) > 0 =>
                           hold[l].status = "ACTIVE" /\ HoldRest(l) = Ordered[l] - Fulfilled("ORDER", l)
                      /\ Ordered[l] - Fulfilled("ORDER", l) = 0 => hold[l].status = "CONSUMED"
    BY DEF RestCanBeShipped
  <2>1. hold[l].consumed \in Nat /\ hold[l].released \in Nat
    BY <1>1 DEF HoldType
  <2> QED
    BY <1>1, <2>1 DEF HoldOK, HoldRest
<1>4. StatusIsFulfilment
  <2> SUFFICES ASSUME order \in OpenStates
               PROVE  /\ order = "FULFILLED" <=> \A l \in Lines : Fulfilled("ORDER", l) = Ordered[l]
                      /\ order = "CONFIRMED" <=> From(Dispatches, "ORDER") = {}
    BY DEF StatusIsFulfilment
  <2>1. order = StatusIn(doc)
    BY DEF OrderOK
  <2>2. PICK l0 \in Lines : TRUE
    BY DEF QuantityAssumption
  <2>3. order = "CONFIRMED" <=> \A l \in Lines : Shipped(doc, l) = 0
    BY <2>1 DEF StatusIn
  <2>4. order = "FULFILLED" <=> \A l \in Lines : Shipped(doc, l) = Ordered[l]
    <3>1. \A l \in Lines : Shipped(doc, l) >= Ordered[l] <=> Shipped(doc, l) = Ordered[l]
      BY <1>1
    <3>2. (\A l \in Lines : Shipped(doc, l) = Ordered[l]) => Shipped(doc, l0) # 0
      BY <1>1
    <3> QED
      BY <2>1, <2>2, <3>1, <3>2 DEF StatusIn
  <2>5. From(Dispatches, "ORDER") = Shipping(doc)
    BY DEF From, Posted, Shipping, FromIn, PostedIn
  <2>6. (\A l \in Lines : Shipped(doc, l) = 0) <=> Shipping(doc) = {}
    <3>1. doc \in [Docs -> DocType] /\ Shipping(doc) \in SUBSET Docs
      BY SetsAre DEF OrderOK, StatesOK
    <3>2. ASSUME Shipping(doc) = {}, NEW l \in Lines PROVE Shipped(doc, l) = 0
      <4>1. SumOf(doc, {}, l) = 0
        BY <3>1, SumOfNone
      <4> QED
        BY <3>2, <4>1 DEF Shipped
    <3>3. ASSUME NEW d \in Shipping(doc) PROVE \E l \in Lines : Shipped(doc, l) # 0
      <4>1. doc[d].status # "NONE" /\ d \in Docs
        BY <3>1, <3>3 DEF Shipping, FromIn, PostedIn
      <4>2. PICK l \in Lines : doc[d].qty[l] > 0
        BY <4>1 DEF OrderOK, DocsIn
      <4>3. doc[d].qty[l] <= Shipped(doc, l) /\ doc[d].qty[l] \in Nat /\ Shipped(doc, l) \in Nat
        BY <3>1, <3>3, <4>1, SumOfIs, QtyIs DEF Shipped
      <4> QED
        BY <4>2, <4>3
    <3> QED
      BY <3>2, <3>3
  <2> QED
    BY <1>1, <2>3, <2>4, <2>5, <2>6
<1>5. StockFollowsDocuments
  <2>1. \A l \in Lines : /\ Total(Posted(Dispatches), l) = SumOf(doc, Leaving(doc), l)
                         /\ Total(From(Invoices, "DIRECT"), l) = SumOf(doc, Selling(doc), l)
                         /\ Total(Posted(Returns), l) = SumOf(doc, Returning(doc), l)
    BY DEF Total, Posted, From, SumOf, QtyOf, Leaving, Selling, Returning, FromIn, PostedIn
  <2> QED
    BY <2>1 DEF StockFollowsDocuments, OrderOK, LedgerOK
<1>6. BilledOnce
  <2>1. {i \in Posted(Invoices) : Billing(i) /\ ~Hanging(i)} = Charging(doc)
    BY DEF Posted, Billing, Hanging, Charging, PostedIn
  <2>2. \A l \in Lines : Total(Charging(doc), l) = SumOf(doc, Charging(doc), l)
    BY DEF Total, SumOf, QtyOf
  <2> QED
    BY <2>1, <2>2 DEF BilledOnce, OrderOK, LedgerOK
<1> QED
  BY <1>2, <1>3, <1>4, <1>5, <1>6 DEF OrderIsExplained

\* The order, its reservations and the stock tell one story in every state, for
\* every set of documents, lines and quantities (TransitionCommercial,
\* consumeCommercialReservationsTx, rollbackCommercialProjectionsTx, sales/commercial.go).
THEOREM OrderStaysExplained == Spec => []OrderIsExplained
<1>1. Init => OrderOK
  BY OrderStarts, QuantityAssumption, KindAssumption
<1>2. OrderOK /\ [Next]_vars => OrderOK'
  BY OrderNextOK, QuantityAssumption, KindAssumption
<1>3. OrderOK => OrderIsExplained
  BY StoryFollows, QuantityAssumption, KindAssumption
<1> QED
  BY <1>1, <1>2, <1>3, PTL DEF Spec
-----------------------------------------------------------------------------
(* A customer's debt and the limit                                             *)

SaleType == [status: {"NONE", "DRAFT", "CONFIRMED", "PARTIALLY_FULFILLED", "FULFILLED", "CANCELLED"},
             qty: Int, shipped: Int, billed: Int, viaDispatch: Int]

\* What the credit check reads keeps its type, and the debt is allowed.
CreditOK ==
    /\ buyer \in [standing: Standings, limit: Nat, policy: {"BLOCK", "WARN"}]
    /\ sold \in [Orders -> SaleType]
    /\ balance \in Int
    /\ DebtIsAllowed

\* What the orders commit is never negative.
LEMMA CommittedIsNatural ==
  ASSUME NEW s \in [Orders -> SaleType], CustomersAssumption
  PROVE  Committed(s) \in Nat
<1> DEFINE f == [o \in Orders |-> IF LineKind[o] = "PRODUCT"
                                  THEN AtLeast0(s[o].shipped - (s[o].billed + s[o].viaDispatch))
                                  ELSE AtLeast0(s[o].qty - s[o].billed)]
           S == {o \in Orders : Ongoing(o)}
<1>1. IsFiniteSet(S)
  BY FS_Subset DEF CustomersAssumption
<1>2. \A o \in S : f[o] \in Nat
  <2> SUFFICES ASSUME NEW o \in Orders PROVE f[o] \in Nat
    OBVIOUS
  <2>1. s[o].shipped \in Int /\ s[o].billed \in Int /\ s[o].viaDispatch \in Int /\ s[o].qty \in Int
    BY DEF SaleType
  <2>2. \A n \in Int : AtLeast0(n) \in Nat
    BY DEF AtLeast0
  <2> QED
    BY <2>1, <2>2
<1>3. Committed(s) = SumFunctionOnSet(f, S)
  BY DEF Committed
<1> HIDE DEF f, S
<1> QED
  BY <1>1, <1>2, <1>3, SumOfNaturals

\* A sale that is let past the limit is one that the policy or the clerk lets pass.
LEMMA PassesTheCheck ==
  ASSUME CreditOK, CustomersAssumption, NEW s \in [Orders -> SaleType], NEW q \in Nat,
         checkCommercialRisk(s, q), buyer.limit > 0, balance + q > buyer.limit
  PROVE  Waived
<1>1. Committed(s) \in Nat /\ balance \in Int /\ buyer.limit \in Nat
  BY CommittedIsNatural DEF CreditOK
<1>2. Projected(s, q) > buyer.limit
  BY <1>1 DEF Projected
<1>3. EvaluateSalesRisk(s, q) = buyer.policy
  BY <1>2 DEF EvaluateSalesRisk
<1> QED
  BY <1>3 DEF checkCommercialRisk, Waived

States == {"NONE", "DRAFT", "CONFIRMED", "PARTIALLY_FULFILLED", "FULFILLED", "CANCELLED"}

\* A sale with one entry written anew is a sale.
LEMMA SaleIs ==
  ASSUME NEW n, n \in SaleType
  PROVE  /\ \A st \in States : [n EXCEPT !.status = st] \in SaleType
         /\ \A x \in Int : [n EXCEPT !.qty = x] \in SaleType
         /\ \A x \in Int : [n EXCEPT !.shipped = x] \in SaleType
         /\ \A x \in Int : [n EXCEPT !.billed = x] \in SaleType
         /\ \A x \in Int : [n EXCEPT !.viaDispatch = x] \in SaleType
         /\ n.qty \in Int /\ n.shipped \in Int /\ n.billed \in Int /\ n.viaDispatch \in Int
<1> USE DEF SaleType, States
<1>1. \A st \in States : [n EXCEPT !.status = st] \in SaleType
  OBVIOUS
<1>2. \A x \in Int : [n EXCEPT !.qty = x] \in SaleType
  OBVIOUS
<1>3. \A x \in Int : [n EXCEPT !.shipped = x] \in SaleType
  OBVIOUS
<1>4. \A x \in Int : [n EXCEPT !.billed = x] \in SaleType
  OBVIOUS
<1>5. \A x \in Int : [n EXCEPT !.viaDispatch = x] \in SaleType
  OBVIOUS
<1> QED
  BY <1>1, <1>2, <1>3, <1>4, <1>5

\* What an order has billed, from its own line and from its dispatches, written anew.
Billed(f, o, x, y) == [f EXCEPT ![o] = [[f[o] EXCEPT !.billed = x] EXCEPT !.viaDispatch = y]]
LEMMA BilledIs ==
  ASSUME NEW f, f \in [Orders -> SaleType], NEW o, o \in Orders, NEW x, x \in Int, NEW y, y \in Int
  PROVE  Billed(f, o, x, y) \in [Orders -> SaleType]
<1> DEFINE n == [f[o] EXCEPT !.billed = x]
           m == [n EXCEPT !.viaDispatch = y]
<1>1. n \in SaleType
  BY SaleIs
<1>2. m \in SaleType
  <2> HIDE DEF n
  <2> QED
    BY <1>1, SaleIs
<1>3. Billed(f, o, x, y) = [f EXCEPT ![o] = m]
  BY DEF Billed
<1> HIDE DEF m
<1> QED
  BY <1>2, <1>3

\* The balance moves, and the excuse with it.
LEMMA BalanceIs ==
  ASSUME CreditOK, NEW n \in Int, NEW r, balance' = n, buyer' = buyer,
         excused' = Excuse(n, buyer.limit, r), buyer.limit > 0 /\ n > buyer.limit => (excused \/ r)
  PROVE  balance' \in Int /\ DebtIsAllowed'
<1>1. ASSUME buyer.limit > 0, n > buyer.limit PROVE excused'
  <2>1. excused \/ r
    BY <1>1
  <2> QED
    BY <1>1, <2>1, Zenon DEF Excuse
<1> QED
  BY <1>1 DEF DebtIsAllowed

\* Every action keeps it.
LEMMA CreditNextOK == CustomersAssumption /\ CreditOK /\ [RiskNext]_riskVars => CreditOK'
<1> SUFFICES ASSUME CustomersAssumption, CreditOK, [RiskNext]_riskVars PROVE CreditOK'
  OBVIOUS
<1> USE DEF CreditOK, DebtIsAllowed
<1>a. /\ \A q \in OrderSize : q \in Nat
      /\ \A q \in Steps : q \in Nat
      /\ Limits \subseteq Nat
  BY DEF CustomersAssumption, Steps
<1>b. \A o \in Orders : sold[o] \in SaleType
  OBVIOUS
<1>c. \A o \in Orders : sold[o].billed \in Int /\ sold[o].viaDispatch \in Int
  BY <1>b, SaleIs
<1>1. CASE UNCHANGED riskVars
  BY <1>1 DEF riskVars
<1>2. ASSUME NEW k \in Quotes, CancelQuote(k) \/ \E c \in {"send", "accept", "reject"} : TransitionQuote(k, c)
      PROVE  CreditOK'
  BY <1>2 DEF CancelQuote, TransitionQuote
<1>3. ASSUME NEW k \in Quotes, NEW o \in Orders, NEW q \in OrderSize, ConvertQuote(k, o, q) PROVE CreditOK'
  <2>1. NoSale \in SaleType
    BY DEF SaleType, NoSale
  <2>2. [NoSale EXCEPT !.status = "DRAFT"] \in SaleType
    BY <2>1, SaleIs DEF States
  <2> DEFINE draft == [NoSale EXCEPT !.status = "DRAFT"]
  <2>3. [draft EXCEPT !.qty = q] \in SaleType
    <3>1. q \in Int /\ draft \in SaleType
      BY <2>2, <1>a
    <3> HIDE DEF draft
    <3> QED
      BY <3>1, SaleIs
  <2> QED
    BY <1>3, <2>3 DEF ConvertQuote
<1>4. ASSUME NEW o \in Orders, ConfirmOrder(o) \/ DropOrder(o) PROVE CreditOK'
  BY <1>4, <1>b DEF ConfirmOrder, DropOrder, SaleType
<1>5. ASSUME NEW o \in Orders, NEW q \in Steps, ShipOrder(o, q) \/ UnshipOrder(o, q) PROVE CreditOK'
  BY <1>5, <1>a, <1>b DEF ShipOrder, UnshipOrder, SaleType, Fulfilment
<1>6. ASSUME NEW o \in Orders, NEW q \in Steps, NEW v \in BOOLEAN, BillOrder(o, q, v) PROVE CreditOK'
  <2> DEFINE after == [sold EXCEPT ![o].billed = IF v THEN @ ELSE @ + q,
                                   ![o].viaDispatch = IF v THEN @ + q ELSE @]
  <2>1. after \in [Orders -> SaleType]
    <3>1. CASE v
      <4> DEFINE x == sold[o].billed
                 y == sold[o].viaDispatch + q
      <4>1. after = [sold EXCEPT ![o].billed = sold[o].billed, ![o].viaDispatch = sold[o].viaDispatch + q]
        BY <3>1, <1>b DEF SaleType
      <4>2. x \in Int /\ y \in Int
        BY <1>a, <1>c
      <4>3. after = Billed(sold, o, x, y)
        BY <4>1, <1>b DEF Billed, SaleType
      <4> HIDE DEF after, x, y
      <4> QED
        BY <4>2, <4>3, BilledIs
    <3>2. CASE ~ v
      <4> DEFINE x == sold[o].billed + q
                 y == sold[o].viaDispatch
      <4>1. after = [sold EXCEPT ![o].billed = sold[o].billed + q, ![o].viaDispatch = sold[o].viaDispatch]
        BY <3>2, <1>b DEF SaleType
      <4>2. x \in Int /\ y \in Int
        BY <1>a, <1>c
      <4>3. after = Billed(sold, o, x, y)
        BY <4>1, <1>b DEF Billed, SaleType
      <4> HIDE DEF after, x, y
      <4> QED
        BY <4>2, <4>3, BilledIs
    <3> QED
      BY <3>1, <3>2
  <2>2. /\ checkCommercialRisk(after, q) /\ sold' = after /\ balance' = balance + q /\ UNCHANGED buyer
        /\ excused' = Excuse(balance + q, buyer.limit, Waived)
    BY <1>6 DEF BillOrder
  <2> HIDE DEF after
  <2>3. buyer.limit > 0 /\ balance + q > buyer.limit => Waived
    BY <2>1, <2>2, <1>a, PassesTheCheck
  <2> QED
    BY <2>1, <2>2, <2>3, <1>a, BalanceIs
<1>7. ASSUME NEW o \in Orders, NEW q \in Steps, NEW v \in BOOLEAN, UnbillOrder(o, q, v) PROVE CreditOK'
  <2>4. sold' \in [Orders -> SaleType]
    <3>1. CASE v
      <4> DEFINE x == sold[o].billed
                 y == sold[o].viaDispatch - q
      <4>1. sold' = [sold EXCEPT ![o].billed = sold[o].billed, ![o].viaDispatch = sold[o].viaDispatch - q]
        BY <3>1, <1>7, <1>b DEF UnbillOrder, SaleType
      <4>2. x \in Int /\ y \in Int
        BY <1>a, <1>c
      <4>3. sold' = Billed(sold, o, x, y)
        BY <4>1, <1>b DEF Billed, SaleType
      <4> HIDE DEF x, y
      <4> QED
        BY <4>2, <4>3, BilledIs
    <3>2. CASE ~ v
      <4> DEFINE x == sold[o].billed - q
                 y == sold[o].viaDispatch
      <4>1. sold' = [sold EXCEPT ![o].billed = sold[o].billed - q, ![o].viaDispatch = sold[o].viaDispatch]
        BY <3>2, <1>7, <1>b DEF UnbillOrder, SaleType
      <4>2. x \in Int /\ y \in Int
        BY <1>a, <1>c
      <4>3. sold' = Billed(sold, o, x, y)
        BY <4>1, <1>b DEF Billed, SaleType
      <4> HIDE DEF x, y
      <4> QED
        BY <4>2, <4>3, BilledIs
    <3> QED
      BY <3>1, <3>2
  <2>5. /\ balance' = balance - q /\ excused' = Excuse(balance - q, buyer.limit, FALSE) /\ UNCHANGED buyer
        /\ balance - q \in Int
    BY <1>7, <1>a DEF UnbillOrder
  <2>6. buyer.limit > 0 /\ balance - q > buyer.limit => excused
    BY <1>a
  <2> QED
    BY <2>4, <2>5, <2>6, BalanceIs
<1>8. ASSUME NEW q \in Steps, PostDirectInvoice(q) PROVE CreditOK'
  <2>1. buyer.limit > 0 /\ balance + q > buyer.limit => Waived
    BY <1>8, <1>a, PassesTheCheck DEF PostDirectInvoice
  <2>2. /\ balance' = balance + q /\ excused' = Excuse(balance + q, buyer.limit, Waived)
        /\ UNCHANGED <<buyer, sold>> /\ balance + q \in Int
    BY <1>8, <1>a DEF PostDirectInvoice
  <2> QED
    BY <2>1, <2>2, BalanceIs
<1>9. ASSUME NEW q \in Steps, Collect(q) \/ ReverseCollection(q) \/ PostManualDebit(q) PROVE CreditOK'
  <2>1. CASE Collect(q)
    <3>1. /\ balance' = balance - q /\ excused' = Excuse(balance - q, buyer.limit, FALSE)
          /\ UNCHANGED <<buyer, sold>> /\ balance - q \in Int
      BY <2>1, <1>a DEF Collect
    <3>2. buyer.limit > 0 /\ balance - q > buyer.limit => excused
      BY <1>a
    <3> QED
      BY <3>1, <3>2, BalanceIs
  <2>2. CASE ReverseCollection(q) \/ PostManualDebit(q)
    <3>1. /\ balance' = balance + q /\ excused' = Excuse(balance + q, buyer.limit, TRUE)
          /\ UNCHANGED <<buyer, sold>>
      BY <2>2, Zenon DEF ReverseCollection, PostManualDebit
    <3>2. balance + q \in Int
      BY <1>a
    <3> QED
      BY <3>1, <3>2, BalanceIs
  <2> QED
    BY <1>9, <2>1, <2>2
<1>10. ASSUME NEW st \in Standings, NEW l \in Limits, NEW p \in {"BLOCK", "WARN"}, SaveCard(st, l, p) PROVE CreditOK'
  BY <1>10, <1>a DEF SaveCard, Excuse
<1>11. CASE SwitchProduct \/ GrantOverride
  BY <1>11 DEF SwitchProduct, GrantOverride
<1> QED
  BY <1>1, <1>2, <1>3, <1>4, <1>5, <1>6, <1>7, <1>8, <1>9, <1>10, <1>11 DEF RiskNext

\* Sales alone never take a customer's balance beyond the limit, in whatever order
\* orders are confirmed, shipped, billed, cancelled and paid (checkCommercialRiskTx,
\* sales/commercial.go; EvaluateSalesRisk, commerce/risk.go).
THEOREM DebtStaysAllowed == RiskSpec => []DebtIsAllowed
<1>1. RiskInit => CreditOK
  <2> SUFFICES ASSUME RiskInit PROVE CreditOK
    OBVIOUS
  <2>1. NoSale \in SaleType
    BY DEF SaleType, NoSale
  <2>2. buyer \in [standing: Standings, limit: Nat, policy: {"BLOCK", "WARN"}] /\ balance = 0
    BY CustomersAssumption DEF RiskInit, CustomersAssumption, Standings
  <2>3. sold \in [Orders -> SaleType]
    BY <2>1 DEF RiskInit
  <2> QED
    BY <2>2, <2>3 DEF CreditOK, DebtIsAllowed
<1>2. CreditOK /\ [RiskNext]_riskVars => CreditOK'
  BY CreditNextOK, CustomersAssumption
<1>3. CreditOK => DebtIsAllowed
  BY DEF CreditOK
<1> QED
  BY <1>1, <1>2, <1>3, PTL DEF RiskSpec

-----------------------------------------------------------------------------
(* The rows of an advance                                                      *)

RowsType == [type: Types, amt: Nat \ {0}, rev: BOOLEAN]

\* An advance is paid out by its first row and by no other.
Advance == {s \in Seq(RowsType) : /\ Len(s) >= 1 /\ s[1].type = "DISBURSEMENT"
                                  /\ \A i \in DOMAIN s : s[i].type = "DISBURSEMENT" => i = 1}

\* Unreversed rows, their sum, what is owed and what moved cash, as functions of
\* the rows.
RowsOf(s, T) == {i \in DOMAIN s : s[i].type \in T /\ ~s[i].rev}
SumRows(s, T) == SumFunctionOnSet([i \in DOMAIN s |-> s[i].amt], RowsOf(s, T))
Owed(s) == IF RowsOf(s, {"DISBURSEMENT"}) = {} THEN 0 ELSE s[1].amt - SumRows(s, Settling)
CashOf(s) == SumRows(s, {"REPAYMENT"}) - SumRows(s, {"DISBURSEMENT"})
SettledOnce(s) == Owed(s) >= 0 /\ (RowsOf(s, {"DISBURSEMENT"}) = {} => RowsOf(s, Settling) = {})

LEMMA RowsAre ==
  ASSUME NEW s \in Seq(RowsType), NEW T
  PROVE  /\ IsFiniteSet(RowsOf(s, T)) /\ RowsOf(s, T) \subseteq DOMAIN s
         /\ \A i \in DOMAIN s : [j \in DOMAIN s |-> s[j].amt][i] = s[i].amt /\ s[i].amt \in Nat
         /\ SumRows(s, T) \in Nat
<1>1. DOMAIN s = 1..Len(s) /\ Len(s) \in Nat
  OBVIOUS
<1>2. IsFiniteSet(DOMAIN s)
  BY <1>1, FS_Interval
<1>3. IsFiniteSet(RowsOf(s, T)) /\ RowsOf(s, T) \subseteq DOMAIN s
  BY <1>2, FS_Subset DEF RowsOf
<1>4. \A i \in DOMAIN s : [j \in DOMAIN s |-> s[j].amt][i] = s[i].amt /\ s[i].amt \in Nat
  <2> SUFFICES ASSUME NEW i \in DOMAIN s PROVE s[i].amt \in Nat
    OBVIOUS
  <2>1. s[i] \in RowsType
    BY <1>1
  <2> QED
    BY <2>1 DEF RowsType
<1>5. SumRows(s, T) \in Nat
  BY <1>3, <1>4, SumOfNaturals DEF SumRows
<1> QED
  BY <1>3, <1>4, <1>5

\* A row more, and a row reversed.
LEMMA AppendCounts ==
  ASSUME NEW s \in Seq(RowsType), NEW x \in RowsType, ~x.rev, NEW T
  PROVE  /\ Append(s, x) \in Seq(RowsType)
         /\ RowsOf(Append(s, x), T) = RowsOf(s, T) \cup (IF x.type \in T THEN {Len(s) + 1} ELSE {})
         /\ SumRows(Append(s, x), T) = SumRows(s, T) + (IF x.type \in T THEN x.amt ELSE 0)
<1> DEFINE t == Append(s, x)
           n == Len(s) + 1
           f == [i \in DOMAIN s |-> s[i].amt]
           g == [i \in DOMAIN t |-> t[i].amt]
<1>1. /\ t \in Seq(RowsType) /\ DOMAIN t = 1..n /\ DOMAIN s = 1..Len(s) /\ n \in Nat /\ n \notin DOMAIN s
      /\ t[n] = x /\ \A i \in DOMAIN s : i \in DOMAIN t /\ t[i] = s[i]
  OBVIOUS
<1>2. DOMAIN t = DOMAIN s \cup {n}
  BY <1>1
<1> HIDE DEF t, n
<1>3. RowsOf(t, T) = RowsOf(s, T) \cup (IF x.type \in T THEN {n} ELSE {})
  BY <1>1, <1>2 DEF RowsOf
<1>4. IsFiniteSet(RowsOf(s, T)) /\ RowsOf(s, T) \subseteq DOMAIN s /\ IsFiniteSet(RowsOf(t, T)) /\ RowsOf(t, T) \subseteq DOMAIN t
  BY <1>1, RowsAre
<1>5. /\ \A i \in DOMAIN s : f[i] \in Int /\ f[i] = s[i].amt
      /\ \A i \in DOMAIN t : g[i] \in Int /\ g[i] = t[i].amt
  BY <1>1, RowsAre
<1>6. \A i \in RowsOf(s, T) : f[i] \in Int /\ g[i] = f[i]
  BY <1>1, <1>4, <1>5
<1>7. \A i \in RowsOf(t, T) : g[i] \in Int
  BY <1>4, <1>5
<1>8. g[n] = x.amt
  BY <1>1, <1>2, <1>5
<1>9. SumRows(s, T) = SumFunctionOnSet(f, RowsOf(s, T)) /\ SumRows(t, T) = SumFunctionOnSet(g, RowsOf(t, T))
  BY DEF SumRows
<1> HIDE DEF f, g
<1>10. SumFunctionOnSet(g, RowsOf(s, T)) = SumFunctionOnSet(f, RowsOf(s, T))
  BY <1>4, <1>6, SumSame
<1>11. CASE x.type \in T
  <2>1. n \in RowsOf(t, T) /\ RowsOf(t, T) \ {n} = RowsOf(s, T)
    BY <1>1, <1>3, <1>4, <1>11
  <2>2. SumFunctionOnSet(g, RowsOf(t, T)) = g[n] + SumFunctionOnSet(g, RowsOf(t, T) \ {n})
    BY <1>4, <1>7, <2>1, SumPull
  <2>3. SumRows(s, T) \in Nat /\ x.amt \in Nat
    BY RowsAre DEF RowsType
  <2>4. SumRows(t, T) = x.amt + SumRows(s, T)
    BY ONLY <1>8, <1>9, <1>10, <2>1, <2>2
  <2>5. SumRows(t, T) = SumRows(s, T) + x.amt
    BY ONLY <2>3, <2>4
  <2> QED
    BY <1>1, <1>3, <1>11, <2>5 DEF t, n
<1>12. CASE x.type \notin T
  <2>1. RowsOf(t, T) = RowsOf(s, T)
    BY <1>3, <1>12
  <2>2. SumRows(s, T) \in Nat
    BY RowsAre
  <2>3. SumRows(t, T) = SumRows(s, T) + 0
    BY <1>9, <1>10, <2>1, <2>2
  <2> QED
    BY <1>1, <1>3, <1>12, <2>3 DEF t, n
<1> QED
  BY <1>11, <1>12

LEMMA ReverseCounts ==
  ASSUME NEW s \in Seq(RowsType), NEW i \in DOMAIN s, ~s[i].rev, NEW T
  PROVE  /\ [s EXCEPT ![i].rev = TRUE] \in Seq(RowsType)
         /\ RowsOf([s EXCEPT ![i].rev = TRUE], T) = RowsOf(s, T) \ {i}
         /\ SumRows([s EXCEPT ![i].rev = TRUE], T) = SumRows(s, T) - (IF s[i].type \in T THEN s[i].amt ELSE 0)
<1> DEFINE t == [s EXCEPT ![i].rev = TRUE]
           f == [j \in DOMAIN s |-> s[j].amt]
           g == [j \in DOMAIN t |-> t[j].amt]
<1>1. /\ DOMAIN s = 1..Len(s) /\ Len(s) \in Nat /\ \A j \in DOMAIN s : s[j] \in RowsType
  OBVIOUS
<1>2. [s[i] EXCEPT !.rev = TRUE] \in RowsType
  BY <1>1 DEF RowsType
<1>3. /\ DOMAIN t = DOMAIN s /\ t \in Seq(RowsType)
      /\ t[i] = [s[i] EXCEPT !.rev = TRUE] /\ \A j \in DOMAIN s : j # i => t[j] = s[j]
  BY <1>1, <1>2, ExceptSeq
<1>4. t[i].type = s[i].type /\ t[i].amt = s[i].amt /\ t[i].rev
  BY <1>1, <1>3 DEF RowsType
<1> HIDE DEF t
<1>5. RowsOf(t, T) = RowsOf(s, T) \ {i}
  BY <1>3, <1>4 DEF RowsOf
<1>6. IsFiniteSet(RowsOf(s, T)) /\ RowsOf(s, T) \subseteq DOMAIN s /\ IsFiniteSet(RowsOf(t, T)) /\ RowsOf(t, T) \subseteq DOMAIN t
  BY <1>3, RowsAre
<1>7. \A j \in DOMAIN s : f[j] \in Int /\ g[j] \in Int /\ f[j] = g[j] /\ f[j] = s[j].amt
  <2> TAKE j \in DOMAIN s
  <2>1. t[j].amt = s[j].amt
    BY <1>3, <1>4
  <2>2. s[j].amt \in Nat
    BY RowsAre
  <2> QED
    BY <1>3, <2>1, <2>2
<1>8. SumRows(s, T) = SumFunctionOnSet(f, RowsOf(s, T)) /\ SumRows(t, T) = SumFunctionOnSet(g, RowsOf(t, T))
  BY DEF SumRows
<1> HIDE DEF f, g
<1>9. \A j \in RowsOf(s, T) : f[j] \in Int /\ g[j] = f[j]
  BY <1>6, <1>7
<1>10. SumFunctionOnSet(g, RowsOf(t, T)) = SumFunctionOnSet(f, RowsOf(t, T))
  BY <1>5, <1>6, <1>9, SumSame
<1>11. SumRows(s, T) \in Nat /\ SumRows(t, T) \in Nat /\ s[i].amt \in Nat
  BY <1>3, RowsAre
<1>12. CASE s[i].type \in T
  <2>1. i \in RowsOf(s, T)
    BY <1>12 DEF RowsOf
  <2>2. SumFunctionOnSet(f, RowsOf(s, T)) = f[i] + SumFunctionOnSet(f, RowsOf(s, T) \ {i})
    BY <1>6, <1>9, <2>1, SumPull
  <2>3. SumRows(t, T) = SumRows(s, T) - s[i].amt
    BY <1>5, <1>7, <1>8, <1>10, <1>11, <2>2
  <2> QED
    BY <1>3, <1>5, <1>12, <2>3 DEF t
<1>13. CASE s[i].type \notin T
  <2>1. RowsOf(t, T) = RowsOf(s, T)
    BY <1>5, <1>13 DEF RowsOf
  <2>2. SumRows(t, T) = SumRows(s, T) - 0
    BY <1>8, <1>10, <1>11, <2>1
  <2> QED
    BY <1>3, <1>5, <1>13, <2>2 DEF t
<1> QED
  BY <1>12, <1>13

\* A settlement within what is owed, and a reversal that the service allows.
LEMMA SettlesOnce ==
  ASSUME NEW s \in Advance, NEW x \in RowsType, ~x.rev, x.type \in Settling
  PROVE  /\ Append(s, x) \in Advance
         /\ CashOf(Append(s, x)) = CashOf(s) + (IF x.type = "REPAYMENT" THEN x.amt ELSE 0)
         /\ SettledOnce(s) /\ x.amt <= Owed(s) => SettledOnce(Append(s, x))
<1> DEFINE t == Append(s, x)
<1>1. s \in Seq(RowsType) /\ s[1] \in RowsType /\ x.amt \in Nat \ {0} /\ x.type # "DISBURSEMENT" /\ Len(s) >= 1
  <2>1. s \in Seq(RowsType) /\ Len(s) >= 1
    BY DEF Advance
  <2>2. s[1] \in RowsType
    BY <2>1
  <2>3. x.amt \in Nat \ {0} /\ x.type # "DISBURSEMENT"
    BY DEF Settling, RowsType
  <2> QED
    BY <2>1, <2>2, <2>3
<1>2. /\ t \in Seq(RowsType) /\ t[1] = s[1] /\ Len(t) = Len(s) + 1 /\ t[Len(s) + 1] = x
      /\ \A i \in DOMAIN t : i = Len(s) + 1 \/ (i \in DOMAIN s /\ t[i] = s[i])
  BY <1>1
<1>3. t \in Advance
  <2>1. \A i \in DOMAIN s : s[i].type = "DISBURSEMENT" => i = 1
    BY DEF Advance
  <2>2. \A i \in DOMAIN t : t[i].type = "DISBURSEMENT" => i = 1
    BY <1>1, <1>2, <2>1
  <2>3. Len(t) >= 1 /\ t[1].type = "DISBURSEMENT"
    BY <1>1, <1>2 DEF Advance
  <2> QED
    BY <1>2, <2>2, <2>3 DEF Advance
<1>4. \A T : /\ RowsOf(t, T) = RowsOf(s, T) \cup (IF x.type \in T THEN {Len(s) + 1} ELSE {})
             /\ SumRows(t, T) = SumRows(s, T) + (IF x.type \in T THEN x.amt ELSE 0)
             /\ SumRows(s, T) \in Nat
  BY <1>1, AppendCounts, RowsAre
<1> HIDE DEF t
<1>5. /\ RowsOf(t, {"DISBURSEMENT"}) = RowsOf(s, {"DISBURSEMENT"})
      /\ SumRows(t, {"DISBURSEMENT"}) = SumRows(s, {"DISBURSEMENT"})
      /\ SumRows(t, Settling) = SumRows(s, Settling) + x.amt
      /\ SumRows(t, {"REPAYMENT"}) = SumRows(s, {"REPAYMENT"}) + (IF x.type = "REPAYMENT" THEN x.amt ELSE 0)
  <2>1. x.type \notin {"DISBURSEMENT"} /\ (x.type \in {"REPAYMENT"} <=> x.type = "REPAYMENT")
    BY <1>1
  <2>2. SumRows(s, {"DISBURSEMENT"}) \in Nat
    BY <1>4
  <2>3. RowsOf(t, {"DISBURSEMENT"}) = RowsOf(s, {"DISBURSEMENT"}) \cup {}
    BY <1>4, <2>1
  <2>4. SumRows(t, {"DISBURSEMENT"}) = SumRows(s, {"DISBURSEMENT"}) + 0
    BY <1>4, <2>1
  <2>5. SumRows(t, Settling) = SumRows(s, Settling) + x.amt
    BY <1>4
  <2>6. SumRows(t, {"REPAYMENT"}) = SumRows(s, {"REPAYMENT"}) + (IF x.type \in {"REPAYMENT"} THEN x.amt ELSE 0)
    BY <1>4
  <2> QED
    BY <2>1, <2>2, <2>3, <2>4, <2>5, <2>6
<1>6. CashOf(t) = CashOf(s) + (IF x.type = "REPAYMENT" THEN x.amt ELSE 0)
  BY <1>1, <1>4, <1>5 DEF CashOf
<1>7. ASSUME SettledOnce(s), x.amt <= Owed(s) PROVE SettledOnce(t)
  <2>1. Owed(s) # 0
    BY <1>1, <1>7
  <2>2. RowsOf(s, {"DISBURSEMENT"}) # {} /\ Owed(s) = s[1].amt - SumRows(s, Settling)
    BY <2>1 DEF Owed
  <2>3. Owed(t) = s[1].amt - (SumRows(s, Settling) + x.amt)
    BY <1>2, <1>5, <2>2 DEF Owed
  <2>4. s[1].amt \in Nat /\ SumRows(s, Settling) \in Nat
    BY <1>1, <1>4 DEF RowsType
  <2>5. Owed(t) >= 0
    BY <1>1, <1>7, <2>2, <2>3, <2>4
  <2> QED
    BY <1>5, <2>2, <2>5 DEF SettledOnce
<1> QED
  BY <1>3, <1>6, <1>7 DEF t

LEMMA ReversesOnce ==
  ASSUME NEW s \in Advance, NEW i \in DOMAIN s, ~s[i].rev
  PROVE  /\ [s EXCEPT ![i].rev = TRUE] \in Advance
         /\ CashOf([s EXCEPT ![i].rev = TRUE]) = CashOf(s) + (CASE s[i].type = "REPAYMENT" -> -s[i].amt
                                                             [] s[i].type = "DISBURSEMENT" -> s[i].amt
                                                             [] OTHER -> 0)
         /\ SettledOnce(s) /\ (s[i].type = "DISBURSEMENT" => RowsOf(s, Settling) = {})
              => SettledOnce([s EXCEPT ![i].rev = TRUE])
<1> DEFINE t == [s EXCEPT ![i].rev = TRUE]
<1>1. s \in Seq(RowsType) /\ s[1] \in RowsType /\ s[i] \in RowsType /\ DOMAIN s = 1..Len(s) /\ Len(s) \in Nat /\ Len(s) >= 1
  BY DEF Advance
<1>2. \A T : /\ t \in Seq(RowsType)
             /\ RowsOf(t, T) = RowsOf(s, T) \ {i}
             /\ SumRows(t, T) = SumRows(s, T) - (IF s[i].type \in T THEN s[i].amt ELSE 0)
             /\ SumRows(s, T) \in Nat
  <2> TAKE T
  <2>1. s \in Seq(RowsType)
    BY <1>1
  <2>2. SumRows(s, T) \in Nat
    BY <2>1, RowsAre
  <2> QED
    BY <2>1, <2>2, ReverseCounts
<1>3. DOMAIN t = DOMAIN s /\ Len(t) = Len(s) /\ \A j \in DOMAIN s : t[j].type = s[j].type /\ t[j].amt = s[j].amt
  <2>1. DOMAIN t = DOMAIN s
    OBVIOUS
  <2>2. Len(t) = Len(s)
    BY <1>1, <1>2, <2>1
  <2> SUFFICES ASSUME NEW j \in DOMAIN s PROVE t[j].type = s[j].type /\ t[j].amt = s[j].amt
    BY <2>1, <2>2
  <2>3. s[j] \in RowsType
    BY <1>1
  <2>4. CASE j = i
    BY <2>3, <2>4 DEF RowsType
  <2>5. CASE j # i
    BY <2>5
  <2> QED
    BY <2>4, <2>5
<1> HIDE DEF t
<1>4. t \in Advance
  <2>1. \A j \in DOMAIN s : s[j].type = "DISBURSEMENT" => j = 1
    BY DEF Advance
  <2>2. \A j \in DOMAIN t : t[j].type = "DISBURSEMENT" => j = 1
    BY <1>3, <2>1
  <2>3. Len(t) >= 1 /\ t[1].type = "DISBURSEMENT"
    BY <1>1, <1>3 DEF Advance
  <2>4. t \in Seq(RowsType)
    BY <1>2
  <2> QED
    BY <2>2, <2>3, <2>4 DEF Advance
<1>5. s[i].amt \in Nat /\ s[1].amt \in Nat /\ t[1].amt = s[1].amt
  BY <1>1, <1>3 DEF RowsType
<1>6. CASE s[i].type = "DISBURSEMENT"
  <2>1. i = 1
    BY <1>6 DEF Advance
  <2>2. RowsOf(s, {"DISBURSEMENT"}) \subseteq {1}
    BY DEF RowsOf, Advance
  <2>3. RowsOf(t, {"DISBURSEMENT"}) = {}
    BY <1>2, <2>1, <2>2
  <2>4. RowsOf(s, Settling) = {} => SettledOnce(t)
    <3>1. RowsOf(t, Settling) = RowsOf(s, Settling) \ {i}
      BY <1>2
    <3> QED
      BY <2>3, <3>1 DEF SettledOnce, Owed
  <2>5. CashOf(t) = CashOf(s) + s[i].amt
    <3>1. SumRows(t, {"REPAYMENT"}) = SumRows(s, {"REPAYMENT"})
      BY <1>2, <1>6
    <3>2. SumRows(t, {"DISBURSEMENT"}) = SumRows(s, {"DISBURSEMENT"}) - s[i].amt
      BY <1>2, <1>6
    <3>3. SumRows(s, {"REPAYMENT"}) \in Nat /\ SumRows(s, {"DISBURSEMENT"}) \in Nat
      BY <1>2
    <3> QED
      BY <1>5, <3>1, <3>2, <3>3 DEF CashOf
  <2> QED
    BY <1>4, <1>6, <2>4, <2>5 DEF t
<1>7. CASE s[i].type # "DISBURSEMENT"
  <2>1. s[i].type \in Settling
    BY <1>1, <1>7 DEF RowsType, Types, Settling
  <2>2. i \in RowsOf(s, Settling)
    BY <2>1 DEF RowsOf
  <2>3. RowsOf(t, {"DISBURSEMENT"}) = RowsOf(s, {"DISBURSEMENT"})
    <3>1. RowsOf(t, {"DISBURSEMENT"}) = RowsOf(s, {"DISBURSEMENT"}) \ {i}
      BY <1>2, ZenonT(60)
    <3>2. i \notin RowsOf(s, {"DISBURSEMENT"})
      BY <1>7 DEF RowsOf
    <3> QED
      BY <3>1, <3>2
  <2>4. ASSUME SettledOnce(s) PROVE SettledOnce(t)
    <3>1. RowsOf(s, {"DISBURSEMENT"}) # {}
      BY <2>2, <2>4 DEF SettledOnce
    <3>2. Owed(s) = s[1].amt - SumRows(s, Settling) /\ Owed(t) = s[1].amt - SumRows(t, Settling)
      BY <1>5, <2>3, <3>1 DEF Owed
    <3>3. SumRows(t, Settling) = SumRows(s, Settling) - s[i].amt /\ SumRows(s, Settling) \in Nat
      BY <1>2, <2>1
    <3>4. Owed(t) >= 0
      BY <1>5, <2>4, <3>2, <3>3 DEF SettledOnce
    <3> QED
      BY <2>3, <3>1, <3>4 DEF SettledOnce
  <2>5. SumRows(t, {"DISBURSEMENT"}) = SumRows(s, {"DISBURSEMENT"})
    <3>1. s[i].type \notin {"DISBURSEMENT"} /\ SumRows(s, {"DISBURSEMENT"}) \in Nat
      BY <1>2, <1>7
    <3>2. SumRows(t, {"DISBURSEMENT"}) = SumRows(s, {"DISBURSEMENT"}) - 0
      BY <1>2, <3>1
    <3> QED
      BY <3>1, <3>2
  <2>6. SumRows(t, {"REPAYMENT"}) = SumRows(s, {"REPAYMENT"}) - (IF s[i].type = "REPAYMENT" THEN s[i].amt ELSE 0)
    BY <1>2
  <2>7. SumRows(s, {"REPAYMENT"}) \in Nat /\ SumRows(s, {"DISBURSEMENT"}) \in Nat
    BY <1>2
  <2>8. CASE s[i].type = "REPAYMENT"
    <3>1. CashOf(t) = CashOf(s) - s[i].amt
      BY <1>5, <2>5, <2>6, <2>7, <2>8 DEF CashOf
    <3>2. CashOf(s) \in Int
      BY <2>7 DEF CashOf
    <3>3. CashOf(t) = CashOf(s) + (-s[i].amt)
      BY <1>5, <3>1, <3>2
    <3> QED
      BY <1>4, <2>4, <2>8, <3>3 DEF t
  <2>9. CASE s[i].type # "REPAYMENT"
    <3>1. CashOf(t) = CashOf(s) + 0
      BY <2>5, <2>6, <2>7, <2>9 DEF CashOf
    <3> QED
      BY <1>4, <1>7, <2>4, <2>9, <3>1 DEF t
  <2> QED
    BY <2>8, <2>9
<1> QED
  BY <1>6, <1>7
-----------------------------------------------------------------------------
(* The payroll's inductive invariant                                           *)

\* A month's record of its days; the days are finitely many.
SheetOK(s) ==
    /\ DOMAIN s = {"status", "days", "checksum", "version"}
    /\ IsFiniteSet(DOMAIN s.days)
SheetsOK == DOMAIN sheets = MonthsOfYear /\ \A m \in MonthsOfYear : SheetOK(sheets[m])

\* A slip was computed from the wage it was fingerprinted with; when its inputs stood
\* still, from the days and the manual components too.
SlipOK(s) ==
    /\ s.wage \in Nat /\ s.manual \in Nat /\ IsFiniteSet(DOMAIN s.days)
    /\ s.fp.wage = s.wage + 1
    /\ s.stable => s.fp.checksum = ChecksumDays(s.days) /\ s.fp.manual = s.manual

RunOK(x) ==
    /\ DOMAIN x = {"state", "month", "version", "manual", "active", "frozen", "paid", "gens"}
    /\ x.version \in Nat /\ x.manual \in Nat /\ x.gens \in Nat
    /\ x.state # "NONE" => x.month \in MonthsOfYear
    /\ x.active # None => SlipOK(x.active)
    /\ x.state = "FINALIZED" => SlipOK(x.frozen)
    /\ x.paid = "PAID" => x.state = "FINALIZED"
RunsOK == DOMAIN runs = Runs /\ \A r \in Runs : RunOK(runs[r])

\* A calculation under way saw what it took the fingerprint of.
CalcOK ==
    calc # NoCalc =>
        /\ DOMAIN calc = {"run", "fp", "wage", "seen"}
        /\ calc.run \in Runs /\ runs[calc.run].state # "NONE"
        /\ calc.wage \in Nat /\ calc.fp.wage \in {0, calc.wage + 1}
        /\ calc.fp.checksum = calc.seen.sheet.checksum /\ calc.fp.manual = calc.seen.manual

\* A finalisation under way verified the run's slips; while the run has the version it
\* read, they are its active ones, and once the row is taken it has.
FinOK ==
    fin # NoCalc =>
        /\ DOMAIN fin = {"run", "phase", "version", "slip", "plan", "seen"}
        /\ fin.run \in Runs /\ fin.phase \in {"verified", "taken"} /\ fin.version \in Nat
        /\ SlipOK(fin.slip)
        /\ fin.slip.wage = fin.seen.wage /\ fin.slip.fp.checksum = fin.seen.sheet.checksum
        /\ fin.slip.fp.manual = fin.seen.manual
        /\ runs[fin.run].state # "NONE" /\ fin.version <= runs[fin.run].version
        /\ runs[fin.run].version = fin.version =>
             runs[fin.run].state = "CALCULATED" /\ runs[fin.run].active = fin.slip
        /\ fin.phase = "taken" => runs[fin.run].version = fin.version

SlipsOK == WorkforceTypeOK /\ SheetsOK /\ RunsOK /\ CalcOK /\ FinOK

\* Advances, and what a payroll is about to deduct of them.
AdvancesOK == advances \in Seq(Advance) /\ cash \in Int
OwedOK(a) == a \notin raced => SettledOnce(advances[a])
PlanOK ==
    \A a \in Planned : /\ a \in DOMAIN advances /\ fin.plan[a] \in Nat \ {0}
                       /\ a \notin raced => fin.plan[a] <= Owed(advances[a])

\* A command under way on an advance has seen a beginning of its rows.
LateOK == \A c \in late : c[1] \in DOMAIN advances /\ c[2] \in 1..Len(advances[c[1]])

CashOK == cash = SumFunctionOnSet([a \in DOMAIN advances |-> CashOf(advances[a])], DOMAIN advances)
                 - SumFunctionOnSet([r \in Runs |-> PaidOut(runs[r])], Runs)

PayrollInv ==
    SlipsOK /\ AdvancesOK /\ (\A a \in DOMAIN advances : OwedOK(a)) /\ PlanOK /\ LateOK /\ CashOK

-----------------------------------------------------------------------------
(* Employments, wages and legislation                                          *)

LEMMA DatesAre ==
  /\ Dates \subseteq Nat /\ EntryDates \subseteq Dates /\ Open \in Nat /\ 1 \in Dates
  /\ \A d, e \in Dates : d < Open /\ (e < d => d - 1 \in Dates)
<1> DEFINE n == Months * DaysPerMonth
<1>1. n \in Nat /\ n >= 1
  <2>1. \A a, b \in Nat \ {0} : a * b \in Nat /\ a * b >= 1
    OBVIOUS
  <2> QED
    BY <2>1, WorkforceAssumption
<1>2. Dates = 1..n /\ Open = n + 1
  BY DEF Dates, Open
<1>3. EntryDates \subseteq 1..n
  BY WorkforceAssumption
<1> HIDE DEF n
<1> QED
  BY <1>1, <1>2, <1>3

\* A pack in force has a minimum.
LEMMA MinimumIs ==
  ASSUME WorkforceTypeOK, NEW d, HasPack(d)
  PROVE  MinimumMonthlyGross(d) \in Nat
<1>1. ActivePack(d) \in DOMAIN packs
  BY DEF HasPack, ActivePack, ActivePacks
<1>2. packs[ActivePack(d)] \in Pack
  BY <1>1 DEF WorkforceTypeOK
<1> QED
  BY <1>2 DEF MinimumMonthlyGross, Pack

LEMMA ActivatedIs ==
  ASSUME NEW ps \in Seq(Pack), NEW i \in DOMAIN ps
  PROVE  Activated(ps, i) \in Seq(Pack) /\ Len(Activated(ps, i)) = Len(ps)
<1> DEFINE qs == Activated(ps, i)
<1>1. DOMAIN ps = 1..Len(ps) /\ Len(ps) \in Nat
  OBVIOUS
<1>2. DOMAIN qs = 1..Len(ps)
  BY <1>1 DEF Activated
<1>3. ASSUME NEW j \in 1..Len(ps) PROVE qs[j] \in Pack
  <2>1. ps[j] \in Pack
    BY <1>1
  <2>2. [ps[j] EXCEPT !.state = "ACTIVE"] \in Pack /\ [ps[j] EXCEPT !.state = "SUPERSEDED"] \in Pack
    BY <2>1 DEF Pack
  <2> QED
    BY <1>1, <2>1, <2>2 DEF Activated
<1>4. qs = [j \in 1..Len(ps) |-> qs[j]]
  BY <1>1 DEF Activated
<1> HIDE DEF qs
<1>5. qs \in Seq(Pack) /\ Len(qs) = Len(ps)
  BY <1>1, <1>3, <1>4, IsASeq
<1> QED
  BY <1>5 DEF qs

\* The raises under way, and what one of them makes of the terms.
RaisesOK == raises \subseteq Raise /\ \A x \in raises : \A t \in x.read : t.to = Open /\ t.from < x.day

LEMMA RaisedAre ==
  ASSUME WorkforceTypeOK, NEW x \in raises, NEW there \in SUBSET UNION {MayBe(u) : u \in x.read}
  PROVE  Raised(x, there) \subseteq Term
<1>1. terms \subseteq Term /\ x \in Raise /\ \A u \in x.read : u.from < x.day
  BY DEF WorkforceTypeOK
<1>2. x.day \in Dates /\ x.gross \in Nat /\ x.read \subseteq Term
  BY <1>1 DEF Raise
<1>3. ASSUME NEW t \in there PROVE [t EXCEPT !.to = x.day - 1] \in Term
  <2>1. PICK u \in x.read : t \in MayBe(u)
    OBVIOUS
  <2>2. t \in Term /\ t.from < x.day
    BY <1>1, <2>1 DEF MayBe
  <2>3. x.day - 1 \in Dates
    BY <1>2, <2>2, DatesAre DEF Term
  <2> QED
    BY <2>2, <2>3 DEF Term
<1>4. ASSUME NEW u \in x.read PROVE [u EXCEPT !.from = x.day, !.wage = x.gross] \in Term
  BY <1>2 DEF Term
<1>5. {[t EXCEPT !.to = x.day - 1] : t \in there} \subseteq Term
  BY <1>3
<1>6. {[u EXCEPT !.from = x.day, !.wage = x.gross] : u \in x.read} \subseteq Term
  BY <1>4
<1> QED
  BY <1>1, <1>5, <1>6 DEF Raised

\* A raise that falls due is added.
LEMMA RaisingIs ==
  ASSUME WorkforceTypeOK, NEW day \in Dates, NEW gross \in Nat, raises' = raises \cup {Raising(day, gross)}
  PROVE  RaisesOK'
<1>1. Raising(day, gross) \in Raise /\ Raising(day, gross).read = {}
  BY DEF Raising, Raise
<1> QED
  BY <1>1 DEF WorkforceTypeOK, RaisesOK

\* What a card of the employee becomes.
LEMMA NewTermIs ==
  ASSUME NEW e \in 1..MaxEmployments, NEW from \in Dates, NEW to \in Dates \cup {Open}, NEW w \in Nat, NEW min \in BOOLEAN
  PROVE  NewTerm(e, from, to, w, min) \in Term
BY DEF NewTerm, Term

LEMMA WorkforceStays ==
  ASSUME WorkforceTypeOK, WorkforceNext
  PROVE  WorkforceTypeOK'
<1>1. /\ emps \in Seq(Employment) /\ Len(emps) \in Nat /\ Len(emps) <= MaxEmployments /\ DOMAIN emps = 1..Len(emps)
      /\ terms \subseteq Term
      /\ packs \in Seq(Pack) /\ Len(packs) \in Nat /\ Len(packs) <= MaxPacks /\ DOMAIN packs = 1..Len(packs)
  BY DEF WorkforceTypeOK
<1>2. /\ MaxEmployments \in Nat \ {0} /\ MaxPacks \in Nat \ {0} /\ Wages \subseteq Nat
      /\ EntryDates \subseteq Dates /\ Dates \subseteq Nat
  BY DatesAre, WorkforceAssumption
<1>3. \A from \in Dates, w \in Wages, min \in BOOLEAN :
         (min => HasPack(from)) => (IF min THEN MinimumMonthlyGross(from) ELSE w) \in Nat
  BY <1>2, MinimumIs
<1>4. ASSUME NEW d \in EntryDates, NEW w \in Wages, NEW min \in BOOLEAN, CreateEmployee(d, w, min)
      PROVE  WorkforceTypeOK'
  <2> DEFINE wage == IF min THEN MinimumMonthlyGross(d) ELSE w
  <2>1. d \in Dates /\ wage \in Nat /\ 1 \in 1..MaxEmployments
    BY <1>2, <1>3, <1>4 DEF CreateEmployee
  <2> HIDE DEF wage
  <2>2. NewTerm(1, d, Open, wage, min) \in Term
    BY <2>1, NewTermIs
  <2>3. terms' \subseteq Term /\ packs' = packs /\ raises' = raises /\ emps' = <<[from |-> d, to |-> Open]>>
    BY <1>4, <2>2 DEF CreateEmployee, wage
  <2>4. [from |-> d, to |-> Open] \in Employment
    BY <2>1 DEF Employment
  <2>5. emps' \in Seq(Employment) /\ Len(emps') = 1
    BY <2>3, <2>4
  <2> QED
    BY <1>1, <1>2, <2>3, <2>5 DEF WorkforceTypeOK
<1>5. ASSUME NEW d \in EntryDates, CreateEmployment(d) PROVE WorkforceTypeOK'
  <2>1. /\ d \in Dates /\ Len(emps) < MaxEmployments /\ emps' = Append(emps, [from |-> d, to |-> Open])
        /\ packs' = packs /\ raises' = raises
    BY <1>2, <1>5 DEF CreateEmployment
  <2>2. [from |-> d, to |-> Open] \in Employment
    BY <2>1 DEF Employment
  <2>3. emps' \in Seq(Employment) /\ Len(emps') <= MaxEmployments
    BY <1>1, <1>2, <2>1, <2>2
  <2>4. Len(emps) + 1 \in 1..MaxEmployments
    BY <1>1, <1>2, <2>1
  <2>5. \A t \in Carried(d) : NewTerm(Len(emps) + 1, d, Open, t.wage, t.min) \in Term
    <3> SUFFICES ASSUME NEW t \in Carried(d) PROVE NewTerm(Len(emps) + 1, d, Open, t.wage, t.min) \in Term
      OBVIOUS
    <3>1. t \in Term
      BY <1>1 DEF Carried
    <3>2. t.wage \in Nat /\ t.min \in BOOLEAN
      BY <3>1 DEF Term
    <3> QED
      BY <2>1, <2>4, <3>2, NewTermIs
  <2>6. terms' \subseteq Term
    BY <1>1, <1>5, <2>5 DEF CreateEmployment
  <2> QED
    BY <1>1, <2>1, <2>3, <2>6 DEF WorkforceTypeOK
<1>6. ASSUME NEW e \in DOMAIN emps, NEW d \in EntryDates, TerminateEmployment(e, d) PROVE WorkforceTypeOK'
  <2>1. emps[e] \in Employment /\ d \in Dates
    BY <1>1, <1>2
  <2>2. [emps[e] EXCEPT !.to = d] \in Employment
    BY <2>1 DEF Employment
  <2>3. [emps EXCEPT ![e].to = d] \in Seq(Employment) /\ Len([emps EXCEPT ![e].to = d]) = Len(emps)
    BY <1>1, <2>2, ExceptSeq
  <2>4. \A t \in terms : [t EXCEPT !.to = d] \in Term
    BY <1>1, <2>1 DEF Term
  <2>5. terms' \subseteq Term
    BY <1>1, <1>6, <2>4 DEF TerminateEmployment
  <2> QED
    BY <1>1, <1>6, <2>3, <2>5 DEF TerminateEmployment, WorkforceTypeOK
<1>7. ASSUME NEW e \in DOMAIN emps, NEW d \in EntryDates, NEW to \in EntryDates \cup {Open}, NEW w \in Wages,
             NEW min \in BOOLEAN, CreateTerm(e, d, to, w, min)
      PROVE  WorkforceTypeOK'
  <2> DEFINE wage == IF min THEN MinimumMonthlyGross(d) ELSE w
  <2>1. d \in Dates /\ wage \in Nat /\ e \in 1..MaxEmployments /\ to \in Dates \cup {Open}
    BY <1>1, <1>2, <1>3, <1>7 DEF CreateTerm
  <2> HIDE DEF wage
  <2>2. NewTerm(e, d, to, wage, min) \in Term
    BY <2>1, NewTermIs
  <2>3. \A t \in terms : t.from < d => [t EXCEPT !.to = d - 1] \in Term
    <3> SUFFICES ASSUME NEW t \in terms, t.from < d PROVE [t EXCEPT !.to = d - 1] \in Term
      OBVIOUS
    <3>1. t \in Term
      BY <1>1
    <3>2. d - 1 \in Dates
      BY <2>1, <3>1, DatesAre DEF Term
    <3> QED
      BY <3>1, <3>2 DEF Term
  <2>4. {IF t.to = Open /\ t.from < d THEN [t EXCEPT !.to = d - 1] ELSE t : t \in terms \ Replaced(e, d)} \subseteq Term
    BY <1>1, <2>3
  <2>5. terms' \subseteq Term /\ emps' = emps /\ packs' = packs /\ raises' = raises
    BY <1>7, <2>2, <2>4 DEF CreateTerm, wage
  <2> QED
    BY <1>1, <2>5 DEF WorkforceTypeOK
<1>8. ASSUME NEW t \in terms, NEW d \in EntryDates, CloseTerm(t, d) PROVE WorkforceTypeOK'
  <2>1. [t EXCEPT !.to = d] \in Term
    BY <1>1, <1>2 DEF Term
  <2> QED
    BY <1>1, <1>8, <2>1 DEF CloseTerm, WorkforceTypeOK
<1>9. ASSUME NEW d \in Dates, NEW w \in Nat, NEW p \in 0..Len(packs), CreateDraft(d, w, p) PROVE WorkforceTypeOK'
  <2>1. [state |-> "DRAFT", from |-> d, minimum |-> w, prev |-> p] \in Pack
    BY <1>1, <1>2 DEF Pack
  <2> QED
    BY <1>1, <1>2, <1>9, <2>1 DEF CreateDraft, WorkforceTypeOK
<1>10. ASSUME NEW i \in DOMAIN packs, NEW d \in EntryDates, Activate(i, d) PROVE WorkforceTypeOK'
  <2>1. packs[i] \in Pack /\ d \in Dates
    BY <1>1, <1>2
  <2>2. packs[i].minimum \in Nat
    BY <2>1 DEF Pack
  <2>3. RaisesOK'
    BY <1>10, <2>1, <2>2, RaisingIs DEF Activate
  <2>4. Activated(packs, i) \in Seq(Pack) /\ Len(Activated(packs, i)) = Len(packs)
    BY <1>1, ActivatedIs
  <2> QED
    BY <1>1, <1>10, <2>3, <2>4 DEF Activate, WorkforceTypeOK, RaisesOK
<1>11. ASSUME NEW w \in Wages, NEW d \in EntryDates, ReplaceMinimumWage(w, d) PROVE WorkforceTypeOK'
  <2>1. RaisesOK'
    BY <1>2, <1>11, RaisingIs DEF ReplaceMinimumWage
  <2>2. terms' = terms /\ emps' = emps
    BY <1>11 DEF ReplaceMinimumWage
  <2>3. PICK i \in DOMAIN packs :
          packs' = Activated(Append(packs, [state |-> "DRAFT", from |-> packs[i].from, minimum |-> w, prev |-> i]), Len(packs) + 1)
    BY <1>11 DEF ReplaceMinimumWage
  <2> DEFINE x == [state |-> "DRAFT", from |-> packs[i].from, minimum |-> w, prev |-> i]
  <2>4. packs[i] \in Pack
    BY <1>1
  <2>5. x \in Pack
    BY <1>1, <1>2, <2>4 DEF Pack
  <2> HIDE DEF x
  <2>6. Append(packs, x) \in Seq(Pack) /\ Len(Append(packs, x)) = Len(packs) + 1 /\ Len(packs) + 1 \in DOMAIN Append(packs, x)
    BY <1>1, <2>5
  <2>7. Activated(Append(packs, x), Len(packs) + 1) \in Seq(Pack) /\ Len(Activated(Append(packs, x), Len(packs) + 1)) = Len(packs) + 1
    BY <2>6, ActivatedIs
  <2>8. Len(packs) + 1 <= MaxPacks
    BY <1>1, <1>2, <1>11 DEF ReplaceMinimumWage
  <2> QED
    BY <1>1, <2>1, <2>2, <2>3, <2>7, <2>8 DEF x, WorkforceTypeOK, RaisesOK
<1>12. ASSUME NEW d \in EntryDates, NEW w \in Wages, NEW p \in 0..Len(packs),
              CreateDraft(IF p = 0 THEN d ELSE packs[p].from, w, p)
       PROVE  WorkforceTypeOK'
  <2>1. p # 0 => packs[p] \in Pack
    BY <1>1
  <2>2. (IF p = 0 THEN d ELSE packs[p].from) \in Dates
    BY <1>2, <2>1 DEF Pack
  <2> QED
    BY <1>2, <1>9, <1>12, <2>2
<1>13. ASSUME NEW x \in raises, ReadMinimumTerms(x) PROVE WorkforceTypeOK'
  <2> DEFINE y == [x EXCEPT !.phase = "read", !.read = MinimumTerms(x.day)]
  <2>1. raises' = (raises \ {x}) \cup {y} /\ UNCHANGED <<emps, terms, packs>>
    BY <1>13 DEF ReadMinimumTerms
  <2>2. x \in Raise /\ MinimumTerms(x.day) \in SUBSET Term
    BY <1>1 DEF WorkforceTypeOK, MinimumTerms
  <2>3. y \in Raise /\ y.day = x.day /\ y.read = MinimumTerms(x.day)
    BY <2>2 DEF Raise
  <2>4. \A t \in MinimumTerms(x.day) : t.to = Open /\ t.from < x.day
    BY DEF MinimumTerms
  <2> HIDE DEF y
  <2>5. RaisesOK'
    BY <2>1, <2>3, <2>4 DEF WorkforceTypeOK, RaisesOK
  <2> QED
    BY <1>1, <2>1, <2>5 DEF WorkforceTypeOK, RaisesOK
<1>14. ASSUME NEW x \in raises, ApplyMinimumWageChange(x) \/ FailMinimumWageChange(x) PROVE WorkforceTypeOK'
  <2>1. raises' = raises \ {x} /\ emps' = emps /\ packs' = packs
    BY <1>14 DEF ApplyMinimumWageChange, FailMinimumWageChange
  <2>2. terms' \subseteq Term
    <3>1. CASE FailMinimumWageChange(x)
      BY <1>1, <3>1 DEF FailMinimumWageChange
    <3>2. CASE ApplyMinimumWageChange(x)
      BY <3>2, RaisedAre DEF ApplyMinimumWageChange
    <3> QED
      BY <1>14, <3>1, <3>2
  <2> QED
    BY <1>1, <2>1, <2>2 DEF WorkforceTypeOK
<1> QED
  BY <1>4, <1>5, <1>6, <1>7, <1>8, <1>10, <1>11, <1>12, <1>13, <1>14 DEF WorkforceNext

\* The wage of a month is a number.
LEMMA WageIs ==
  ASSUME WorkforceTypeOK, NEW m
  PROVE  WageOf(m) \in Nat
<1>1. ASSUME WageTerms(m) # {} PROVE (CHOOSE t \in WageTerms(m) : TRUE) \in Term
  BY <1>1 DEF WageTerms, WorkforceTypeOK
<1> QED
  BY <1>1 DEF WageOf, Term

\* The wages of every day before one carry over from one set of terms to another,
\* for the employments outside E.
Carries(ts, us, day, E) ==
    \A t \in ts, d \in Dates : t.emp \notin E /\ d < day /\ d \in t.from..t.to =>
        \E u \in us : u.emp = t.emp /\ u.wage = t.wage /\ d \in u.from..u.to
NewKey(t) == \A u \in terms : <<u.emp, u.from, u.wage>> # <<t.emp, t.from, t.wage>>
Kept(day, E) == /\ \A t \in terms' : NewKey(t) => t.from = day
                /\ Carries(terms, terms', day, E) /\ Carries(terms', terms, day, E)
History ==
    \A t \in terms' :
        (\A u \in terms : <<u.emp, u.from, u.wage>> # <<t.emp, t.from, t.wage>>) =>
        \A e \in DOMAIN emps \ Overtaken, d \in Dates :
           d < t.from => WagesOn(terms', e, d) = WagesOn(terms, e, d)

LEMMA KeptIsHistory ==
  ASSUME NEW day, Kept(day, Overtaken)
  PROVE  History
<1> DEFINE E == Overtaken
<1> HIDE DEF E
<1>1. Kept(day, E)
  BY DEF E
<1>2. \A ts, us, e : \A d \in Dates : Carries(ts, us, day, E) /\ e \notin E /\ d < day => WagesOn(ts, e, d) \subseteq WagesOn(us, e, d)
  BY DEF Carries, WagesOn
<1>3. \A e : \A d \in Dates : e \notin E /\ d < day => WagesOn(terms', e, d) = WagesOn(terms, e, d)
  <2> TAKE e
  <2> TAKE d \in Dates
  <2> HAVE e \notin E /\ d < day
  <2>1. Carries(terms, terms', day, E) /\ Carries(terms', terms, day, E)
    BY <1>1 DEF Kept
  <2>2. WagesOn(terms', e, d) \subseteq WagesOn(terms, e, d) /\ WagesOn(terms, e, d) \subseteq WagesOn(terms', e, d)
    BY <1>2, <2>1
  <2> QED
    BY <2>2
<1>4. \A e \in DOMAIN emps \ E : \A t \in terms' : NewKey(t) =>
        \A d \in Dates : d < t.from => WagesOn(terms', e, d) = WagesOn(terms, e, d)
  BY <1>1, <1>3 DEF Kept
<1> QED
  BY <1>4 DEF NewKey, History, E

\* No term begins on a day that had none.
LEMMA SameKeys ==
  ASSUME \A t \in terms' : \E u \in terms : u.emp = t.emp /\ u.from = t.from /\ u.wage = t.wage
  PROVE  History
BY DEF History

\* A term is added.
LEMMA OneMore ==
  ASSUME NEW x, x.from \in Dates, x.to \in Nat, terms' = terms \cup {x}, NEW E
  PROVE  Kept(x.from, E)
<1>1. \A t \in terms' : NewKey(t) => t.from = x.from
  BY DEF NewKey
<1>2. Carries(terms, terms', x.from, E)
  BY DEF Carries
<1>3. Carries(terms', terms, x.from, E)
  <2> SUFFICES ASSUME NEW t \in terms', NEW d \in Dates, d < x.from, d \in t.from..t.to, t = x
               PROVE  FALSE
    BY DEF Carries
  <2>1. x.from \in Nat /\ d \in Nat /\ d \in x.from..x.to
    BY DatesAre
  <2> QED
    BY <2>1
<1> QED
  BY <1>1, <1>2, <1>3 DEF Kept

LEMMA RaiseKeeps ==
  ASSUME WorkforceTypeOK, NEW x \in raises, ApplyMinimumWageChange(x)
  PROVE  Kept(x.day, Overtaken)
<1> DEFINE day == x.day
           ended(t) == [t EXCEPT !.to = x.day - 1]
           next(u) == [u EXCEPT !.from = x.day, !.wage = x.gross]
<1>1. terms \subseteq Term /\ x \in Raise /\ \A u \in x.read : u.to = Open /\ u.from < day
  BY DEF WorkforceTypeOK
<1>2. day \in Dates /\ x.read \subseteq Term
  BY <1>1 DEF Raise
<1>3. \A d \in Dates : d \in Nat /\ d < Open /\ day \in Nat /\ Open \in Nat
  BY <1>2, DatesAre
<1>4. PICK there \in SUBSET UNION {MayBe(u) : u \in x.read} : terms' = Raised(x, there)
  BY DEF ApplyMinimumWageChange
<1>5. \A t \in there : \E u \in x.read : u.emp = t.emp /\ u.from = t.from /\ u.wage = t.wage
  BY DEF MayBe
<1>6. there \subseteq terms
  BY DEF MayBe
<1>7. \A t \in Term : /\ ended(t).emp = t.emp /\ ended(t).wage = t.wage
                      /\ ended(t).from = t.from /\ ended(t).to = day - 1
                      /\ next(t).from = day
                      /\ t.from \in Nat
  BY DatesAre DEF Term
<1>8. /\ \A t \in terms \ there : t \in terms'
      /\ \A t \in there : ended(t) \in terms'
      /\ \A v \in terms' : v \in terms \/ (\E t \in there : v = ended(t)) \/ (\E u \in x.read : v = next(u))
  BY <1>4 DEF Raised
<1>9. \A u \in x.read : u \in terms \/ u.emp \in Overtaken
  <2>1. raises \ raises' = {x}
    BY DEF ApplyMinimumWageChange
  <2>2. {y.read : y \in raises \ raises'} = {x.read}
    BY <2>1
  <2>3. UNION {y.read : y \in raises \ raises'} = x.read
    BY <2>2
  <2> QED
    BY <2>3 DEF Overtaken
<1> DEFINE E == Overtaken
<1> HIDE DEF day, ended, next, E
<1>10. ASSUME NEW v \in terms', NewKey(v) PROVE v.from = day
  <2>1. v \notin terms
    BY <1>10 DEF NewKey
  <2>2. ASSUME NEW t \in there, v = ended(t) PROVE FALSE
    BY <1>1, <1>6, <1>7, <1>10, <2>2 DEF NewKey
  <2> QED
    BY <1>2, <1>7, <1>8, <2>1, <2>2
<1>11. Carries(terms, terms', day, E)
  <2> SUFFICES ASSUME NEW t \in terms, NEW d \in Dates, d < day, d \in t.from..t.to
               PROVE  \E u \in terms' : u.emp = t.emp /\ u.wage = t.wage /\ d \in u.from..u.to
    BY DEF Carries
  <2>1. CASE t \in there
    <3>1. ended(t) \in terms' /\ ended(t).emp = t.emp /\ ended(t).wage = t.wage
      BY <1>1, <1>7, <1>8, <2>1
    <3>2. d \in ended(t).from..ended(t).to
      BY <1>1, <1>3, <1>7
    <3> QED
      BY <3>1, <3>2
  <2>2. CASE t \notin there
    BY <1>8, <2>2
  <2> QED
    BY <2>1, <2>2
<1>12. Carries(terms', terms, day, E)
  <2> SUFFICES ASSUME NEW v \in terms', NEW d \in Dates, v.emp \notin E, d < day, d \in v.from..v.to
               PROVE  \E t \in terms : t.emp = v.emp /\ t.wage = v.wage /\ d \in t.from..t.to
    BY DEF Carries
  <2>1. ASSUME NEW t \in there, v = ended(t)
        PROVE  \E u \in terms : u.emp = v.emp /\ u.wage = v.wage /\ d \in u.from..u.to
    <3>1. v.emp = t.emp /\ v.wage = t.wage /\ v.from = t.from
      BY <1>1, <1>6, <1>7, <2>1
    <3>2. PICK u \in x.read : u.emp = t.emp /\ u.from = t.from /\ u.wage = t.wage
      BY <1>5
    <3>3. u \in terms /\ u.to = Open /\ u.from \in Nat
      BY <1>1, <1>2, <1>7, <1>9, <3>1, <3>2 DEF E
    <3>4. d \in u.from..u.to
      BY <1>3, <3>1, <3>2, <3>3
    <3> QED
      BY <3>1, <3>2, <3>3, <3>4
  <2>2. ASSUME NEW u \in x.read, v = next(u) PROVE FALSE
    <3>1. v.from = day
      BY <1>2, <1>7, <2>2
    <3> QED
      BY <1>3, <3>1
  <2> QED
    BY <1>8, <2>1, <2>2
<1> QED
  BY <1>10, <1>11, <1>12 DEF Kept, day, E

LEMMA CreateTermKeeps ==
  ASSUME WorkforceTypeOK, NEW e, NEW day \in Dates, NEW to, NEW w, NEW min, CreateTerm(e, day, to, w, min), NEW E
  PROVE  Kept(day, E)
<1> DEFINE x == NewTerm(e, day, to, IF min THEN MinimumMonthlyGross(day) ELSE w, min)
           cut(t) == IF t.to = Open /\ t.from < day THEN [t EXCEPT !.to = day - 1] ELSE t
<1>1. terms \subseteq Term
  BY DEF WorkforceTypeOK
<1>2. x.from = day
  BY DEF NewTerm
<1>3. /\ \A t \in terms \ Replaced(e, day) : cut(t) \in terms'
      /\ \A u \in terms' : u = x \/ \E t \in terms : u = cut(t)
  BY DEF CreateTerm
<1> HIDE DEF x
<1>4. \A t \in terms : /\ cut(t).emp = t.emp /\ cut(t).wage = t.wage /\ cut(t).from = t.from
                       /\ cut(t).to = IF t.to = Open /\ t.from < day THEN day - 1 ELSE t.to
                       /\ t.from \in Nat /\ t.to \in Nat
  BY <1>1, DatesAre DEF Term
<1>5. \A d \in Dates : d \in Nat /\ d < Open /\ day \in Nat /\ Open \in Nat
  BY DatesAre
<1> HIDE DEF cut
<1>6. ASSUME NEW u \in terms', NewKey(u) PROVE u.from = day
  BY <1>2, <1>3, <1>4, <1>6 DEF NewKey
<1>7. Carries(terms, terms', day, E)
  <2> SUFFICES ASSUME NEW t \in terms, NEW d \in Dates, d < day, d \in t.from..t.to
               PROVE  \E u \in terms' : u.emp = t.emp /\ u.wage = t.wage /\ d \in u.from..u.to
    BY DEF Carries
  <2>1. t \notin Replaced(e, day)
    BY <1>4, <1>5 DEF Replaced
  <2>2. cut(t) \in terms'
    BY <1>3, <2>1
  <2>3. d \in cut(t).from..cut(t).to
    BY <1>4, <1>5
  <2> QED
    BY <1>4, <2>2, <2>3
<1>8. Carries(terms', terms, day, E)
  <2> SUFFICES ASSUME NEW u \in terms', NEW d \in Dates, d < day, d \in u.from..u.to
               PROVE  \E t \in terms : t.emp = u.emp /\ t.wage = u.wage /\ d \in t.from..t.to
    BY DEF Carries
  <2>1. u # x
    BY <1>2, <1>5
  <2>2. PICK t \in terms : u = cut(t)
    BY <1>3, <2>1
  <2>3. d \in t.from..t.to
    BY <1>4, <1>5, <2>2
  <2> QED
    BY <1>4, <2>2, <2>3
<1> QED
  BY <1>6, <1>7, <1>8 DEF Kept

LEMMA WorkforceKeepsHistory ==
  ASSUME WorkforceTypeOK, WorkforceNext
  PROVE  History
<1>1. EntryDates \subseteq Dates /\ Wages \subseteq Nat
  BY DatesAre, WorkforceAssumption
<1>2. ASSUME terms' = terms PROVE History
  BY <1>2, SameKeys
<1>3. ASSUME NEW d, NEW w, NEW min, CreateEmployee(d, w, min) PROVE History
  <2>1. DOMAIN emps = {}
    BY <1>3 DEF CreateEmployee
  <2> QED
    BY <2>1 DEF History
<1>4. ASSUME NEW d \in EntryDates, CreateEmployment(d) PROVE History
  <2>1. CASE Carried(d) = {}
    BY <1>2, <1>4, <2>1 DEF CreateEmployment
  <2>2. CASE Carried(d) # {}
    <3>1. PICK t \in Carried(d) : terms' = terms \cup {NewTerm(Len(emps) + 1, d, Open, t.wage, t.min)}
      BY <1>4, <2>2 DEF CreateEmployment
    <3>2. NewTerm(Len(emps) + 1, d, Open, t.wage, t.min).from \in Dates /\ NewTerm(Len(emps) + 1, d, Open, t.wage, t.min).to \in Nat
      BY <1>1, DatesAre DEF NewTerm
    <3> QED
      BY <3>1, <3>2, OneMore, KeptIsHistory
  <2> QED
    BY <2>1, <2>2
<1>5. ASSUME NEW e, NEW d, TerminateEmployment(e, d) PROVE History
  <2>1. \A t \in terms : [t EXCEPT !.to = d].emp = t.emp /\ [t EXCEPT !.to = d].from = t.from /\ [t EXCEPT !.to = d].wage = t.wage
    BY DEF WorkforceTypeOK, Term
  <2>2. \A t \in terms' : \E u \in terms : t = u \/ t = [u EXCEPT !.to = d]
    BY <1>5 DEF TerminateEmployment
  <2> QED
    BY <2>1, <2>2, SameKeys
<1>6. ASSUME NEW e, NEW d \in EntryDates, NEW to, NEW w, NEW min, CreateTerm(e, d, to, w, min) PROVE History
  BY <1>1, <1>6, CreateTermKeeps, KeptIsHistory
<1>7. ASSUME NEW t \in terms, NEW d, CloseTerm(t, d) PROVE History
  <2>1. [t EXCEPT !.to = d].emp = t.emp /\ [t EXCEPT !.to = d].from = t.from /\ [t EXCEPT !.to = d].wage = t.wage
    BY DEF WorkforceTypeOK, Term
  <2> QED
    BY <1>7, <2>1, SameKeys DEF CloseTerm
<1>8. ASSUME NEW d, NEW w, NEW p, CreateDraft(d, w, p) PROVE History
  BY <1>2, <1>8 DEF CreateDraft
<1>9. ASSUME NEW i, NEW d, Activate(i, d) PROVE History
  BY <1>2, <1>9 DEF Activate
<1>10. ASSUME NEW w, NEW d, ReplaceMinimumWage(w, d) PROVE History
  BY <1>2, <1>10 DEF ReplaceMinimumWage
<1>11. ASSUME NEW x \in raises, ReadMinimumTerms(x) \/ FailMinimumWageChange(x) PROVE History
  BY <1>2, <1>11 DEF ReadMinimumTerms, FailMinimumWageChange
<1>12. ASSUME NEW x \in raises, ApplyMinimumWageChange(x) PROVE History
  BY <1>12, RaiseKeeps, KeptIsHistory
<1> QED
  BY <1>3, <1>4, <1>5, <1>6, <1>7, <1>8, <1>9, <1>10, <1>11, <1>12 DEF WorkforceNext

-----------------------------------------------------------------------------
(* Months                                                                      *)

LEMMA MonthIsFinite == \A m \in MonthsOfYear : IsFiniteSet(MonthDays(m))
<1> SUFFICES ASSUME NEW m \in MonthsOfYear PROVE IsFiniteSet(MonthDays(m))
  OBVIOUS
<1>1. \A a, b \in Int : a * b \in Int
  OBVIOUS
<1>2. m \in Int /\ m - 1 \in Int /\ DaysPerMonth \in Int
  BY WorkforceAssumption DEF MonthsOfYear
<1>3. FirstDay(m) \in Int /\ LastDay(m) \in Int
  BY <1>1, <1>2 DEF FirstDay, LastDay
<1> QED
  BY <1>3, FS_Interval DEF MonthDays

\* One month changes.
LEMMA SheetMoves ==
  ASSUME SheetsOK, NEW m \in MonthsOfYear, NEW s, SheetOK(s), sheets' = [sheets EXCEPT ![m] = s]
  PROVE  SheetsOK'
<1>1. DOMAIN sheets' = MonthsOfYear /\ \A n \in MonthsOfYear : sheets'[n] = IF n = m THEN s ELSE sheets[n]
  BY DEF SheetsOK
<1> QED
  BY <1>1 DEF SheetsOK

LEMMA SheetsStay ==
  ASSUME SheetsOK, NEW m \in MonthsOfYear, SheetStep(m)
  PROVE  SheetsOK'
<1> USE DEF SheetsOK
<1>1. CASE UNCHANGED sheets
  BY <1>1
<1>2. CASE CreatePeriod(m)
  <2> DEFINE s == [status |-> "DRAFT", checksum |-> << >>, version |-> 1, days |-> [d \in MonthDays(m) |-> NoDay]]
  <2>1. IsFiniteSet(DOMAIN s.days)
    BY MonthIsFinite
  <2>2. SheetOK(s)
    BY <2>1 DEF SheetOK
  <2> QED
    BY <1>2, <2>2, SheetMoves DEF CreatePeriod
<1>3. CASE CommitWrite
  <2> DEFINE w == writer.month
             x == [d \in DOMAIN sheets[w].days |-> IF d \in DOMAIN writer.change THEN writer.change[d] ELSE sheets[w].days[d]]
             v == sheets[w].version + writer.bump
             s == [sheets[w] EXCEPT !.days = x, !.version = v]
  <2>1. CASE w \in MonthsOfYear
    <3>1. SheetOK(sheets[w])
      BY <2>1
    <3>2. DOMAIN x = DOMAIN sheets[w].days
      OBVIOUS
    <3>3. sheets' = [sheets EXCEPT ![w] = s]
      <4>1. "version" \in DOMAIN sheets[w] /\ "days" \in DOMAIN sheets[w]
        BY <3>1 DEF SheetOK
      <4>2. sheets' = [[sheets EXCEPT ![w].days = x] EXCEPT ![w].version = @ + writer.bump]
        BY <1>3 DEF CommitWrite
      <4> HIDE DEF x
      <4>3. [sheets EXCEPT ![w].days = x][w] = [sheets[w] EXCEPT !.days = x]
        BY <2>1
      <4>4. [sheets[w] EXCEPT !.days = x].version = sheets[w].version
        BY <4>1
      <4>5. sheets' = [[sheets EXCEPT ![w].days = x] EXCEPT ![w] = [[sheets[w] EXCEPT !.days = x] EXCEPT !.version = v]]
        BY <4>2, <4>3, <4>4
      <4> QED
        BY <2>1, <4>5
    <3> HIDE DEF x, v
    <3>4. SheetOK(s)
      <4>1. DOMAIN s = DOMAIN sheets[w] /\ s.days = x
        BY <3>1 DEF SheetOK
      <4> HIDE DEF s
      <4> QED
        BY <3>1, <3>2, <4>1 DEF SheetOK
    <3> HIDE DEF s
    <3> QED
      BY <2>1, <3>3, <3>4, SheetMoves
  <2>2. CASE w \notin MonthsOfYear
    <3>1. DOMAIN sheets' = DOMAIN sheets /\ \A n \in MonthsOfYear : sheets'[n] = sheets[n]
      BY <1>3, <2>2 DEF CommitWrite
    <3> QED
      BY <3>1
  <2> QED
    BY <2>1, <2>2
<1>4. CASE CommitFinalize
  <2> DEFINE w == closer.month
  <2>1. ASSUME NEW n \in MonthsOfYear PROVE SheetOK(sheets'[n])
    <3>1. SheetOK(sheets[n])
      OBVIOUS
    <3>2. sheets'[n] = sheets[n] \/ sheets'[n] = [sheets[n] EXCEPT !.status = "FINALIZED", !.checksum = closer.checksum, !.version = @ + 1]
      BY <1>4 DEF CommitFinalize
    <3> QED
      BY <3>1, <3>2 DEF SheetOK
  <2>2. DOMAIN sheets' = MonthsOfYear
    BY <1>4 DEF CommitFinalize
  <2> QED
    BY <2>1, <2>2
<1>5. CASE Reopen(m, Used(m))
  <2> DEFINE s == [sheets[m] EXCEPT !.status = "DRAFT", !.checksum = << >>, !.version = @ + 1]
  <2>1. SheetOK(s)
    <3>1. SheetOK(sheets[m])
      OBVIOUS
    <3>2. DOMAIN s = DOMAIN sheets[m] /\ s.days = sheets[m].days
      BY <3>1 DEF SheetOK
    <3> HIDE DEF s
    <3> QED
      BY <3>1, <3>2 DEF SheetOK
  <2>2. sheets' = [sheets EXCEPT ![m] = s]
    BY <1>5 DEF Reopen
  <2> QED
    BY <2>1, <2>2, SheetMoves
<1>6. ASSUME NEW k, NEW c, NEW b, BeginWrite(k, c, b) PROVE UNCHANGED sheets
  BY <1>6 DEF BeginWrite
<1>7. BeginFinalize(m) => UNCHANGED sheets
  BY DEF BeginFinalize
<1>8. Generate(m) => UNCHANGED sheets
  BY <1>6 DEF Generate
<1>9. ASSUME NEW d PROVE DeleteDay(m, d) => UNCHANGED sheets
  BY <1>6 DEF DeleteDay
<1>10. ASSUME NEW d, NEW kind PROVE UpdateDay(m, d, kind) \/ UpsertDay(m, d, kind) => UNCHANGED sheets
  BY <1>6 DEF UpdateDay, UpsertDay
<1> QED
  BY <1>1, <1>2, <1>3, <1>4, <1>5, <1>7, <1>8, <1>9, <1>10 DEF SheetStep, TimesheetStep

-----------------------------------------------------------------------------
(* Runs                                                                        *)

\* A run moves; while a finalisation holds its row, its version stands still.
LEMMA RunMoves ==
  ASSUME RunsOK, CalcOK, FinOK, NEW r \in Runs, NEW x, RunOK(x), x.state # "NONE", runs' = [runs EXCEPT ![r] = x],
         \/ x.version = runs[r].version /\ x.state = runs[r].state /\ x.active = runs[r].active
         \/ x.version = runs[r].version + 1 /\ (fin = NoCalc \/ ~Held(r))
         \/ runs[r].state = "NONE"
  PROVE  /\ RunsOK'
         /\ calc' = calc \/ calc' = NoCalc => CalcOK'
         /\ fin' = fin => FinOK'
<1>1. DOMAIN runs' = Runs /\ runs'[r] = x /\ \A q \in Runs : q # r => runs'[q] = runs[q]
  BY DEF RunsOK
<1>2. RunsOK'
  BY <1>1 DEF RunsOK
<1>3. calc' = calc \/ calc' = NoCalc => CalcOK'
  BY <1>1 DEF CalcOK
<1>4. ASSUME fin' = fin, fin # NoCalc PROVE FinOK'
  <2>1. runs[r].version \in Nat /\ x.version \in Nat
    BY DEF RunsOK, RunOK
  <2>2. CASE fin.run # r
    BY <1>1, <1>4, <2>2 DEF FinOK
  <2>3. CASE fin.run = r
    <3>1. runs[r].state # "NONE" /\ fin.version <= runs[r].version /\ fin.version \in Nat
      BY <1>4, <2>3 DEF FinOK
    <3>2. CASE x.version = runs[r].version /\ x.state = runs[r].state /\ x.active = runs[r].active
      BY <1>1, <1>4, <2>3, <3>2 DEF FinOK
    <3>3. CASE x.version = runs[r].version + 1 /\ ~Held(r)
      <4>1. fin.phase # "taken" /\ fin.version < x.version
        BY <2>1, <2>3, <3>1, <3>3 DEF Held
      <4> QED
        BY <1>1, <1>4, <2>1, <2>3, <3>1, <4>1 DEF FinOK
    <3> QED
      BY <1>4, <3>1, <3>2, <3>3
  <2> QED
    BY <2>2, <2>3
<1>5. fin' = fin /\ fin = NoCalc => FinOK'
  BY DEF FinOK
<1> QED
  BY <1>2, <1>3, <1>4, <1>5

\* What creating a run and its manual components do.
LEMMA CreateIs ==
  ASSUME SlipsOK, NEW r \in Runs, NEW m \in MonthsOfYear, Create(r, m)
  PROVE  RunsOK' /\ CalcOK' /\ FinOK' /\ \A q \in Runs : PaidOut(runs'[q]) = PaidOut(runs[q])
<1> DEFINE x == [runs[r] EXCEPT !.state = "DRAFT", !.month = m, !.version = 1]
<1>1. RunOK(runs[r]) /\ runs[r].state = "NONE" /\ DOMAIN runs = Runs
  BY DEF Create, SlipsOK, RunsOK
<1>2. RunOK(x) /\ x.state = "DRAFT" /\ x.paid = runs[r].paid /\ x.frozen = runs[r].frozen
  <2>1. /\ DOMAIN x = DOMAIN runs[r] /\ x.state = "DRAFT" /\ x.month = m /\ x.version = 1
        /\ x.manual = runs[r].manual /\ x.active = runs[r].active /\ x.frozen = runs[r].frozen
        /\ x.paid = runs[r].paid /\ x.gens = runs[r].gens
    BY <1>1 DEF RunOK
  <2> HIDE DEF x
  <2> QED
    BY <1>1, <2>1 DEF RunOK
<1>3. runs' = [runs EXCEPT ![r] = x] /\ calc' = calc /\ fin' = fin
  BY DEF Create
<1>4. RunsOK' /\ CalcOK' /\ FinOK'
  BY <1>1, <1>2, <1>3, RunMoves DEF SlipsOK
<1>5. \A q \in Runs : PaidOut(runs'[q]) = PaidOut(runs[q])
  BY <1>1, <1>2, <1>3 DEF PaidOut
<1> QED
  BY <1>4, <1>5

LEMMA ManualIs ==
  ASSUME SlipsOK, NEW r \in Runs, ManualStep(r)
  PROVE  RunsOK' /\ CalcOK' /\ FinOK' /\ \A q \in Runs : PaidOut(runs'[q]) = PaidOut(runs[q])
<1>1. RunOK(runs[r]) /\ DOMAIN runs = Runs
  BY DEF SlipsOK, RunsOK
<1>2. PICK n \in Nat : runs' = [runs EXCEPT ![r].manual = n] /\ calc' = calc /\ fin' = fin
  <2>1. runs[r].manual \in Nat
    BY <1>1 DEF RunOK
  <2>2. CASE AddManualComponent(r)
    <3>1. runs[r].manual + 1 \in Nat
      BY <2>1
    <3> QED
      BY <2>2, <3>1 DEF AddManualComponent
  <2>3. CASE ArchiveManualComponent(r)
    <3>1. runs[r].manual - 1 \in Nat
      BY <2>1, <2>3 DEF ArchiveManualComponent
    <3> QED
      BY <2>3, <3>1 DEF ArchiveManualComponent
  <2> QED
    BY <2>2, <2>3 DEF ManualStep
<1> DEFINE x == [runs[r] EXCEPT !.manual = n]
<1>3. RunOK(x) /\ x.state = runs[r].state /\ x.version = runs[r].version /\ x.active = runs[r].active
      /\ x.paid = runs[r].paid /\ x.frozen = runs[r].frozen
  BY <1>1 DEF RunOK
<1>4. runs' = [runs EXCEPT ![r] = x]
  BY <1>2
<1> HIDE DEF x
<1>5. CASE runs[r].state # "NONE"
  BY <1>2, <1>3, <1>4, <1>5, RunMoves DEF SlipsOK, PaidOut, RunsOK
<1>6. CASE runs[r].state = "NONE"
  <2>1. /\ DOMAIN runs' = Runs /\ \A q \in Runs : RunOK(runs'[q]) /\ (q # r => runs'[q] = runs[q])
        /\ \A q \in Runs : PaidOut(runs'[q]) = PaidOut(runs[q])
    BY <1>1, <1>3, <1>4 DEF SlipsOK, RunsOK, PaidOut
  <2>2. calc # NoCalc => calc.run # r
    BY <1>6 DEF SlipsOK, CalcOK
  <2>3. fin # NoCalc => fin.run # r
    BY <1>6 DEF SlipsOK, FinOK
  <2>4. RunsOK'
    BY <2>1 DEF RunsOK
  <2>5. CalcOK'
    BY <1>2, <2>1, <2>2 DEF SlipsOK, CalcOK
  <2>6. FinOK'
    BY <1>2, <2>1, <2>3 DEF SlipsOK, FinOK
  <2> QED
    BY <2>1, <2>4, <2>5, <2>6
<1> QED
  BY <1>5, <1>6

\* The smaller and the larger of two numbers.
LEMMA OfTwo ==
  ASSUME NEW a \in Int, NEW b \in Int
  PROVE  /\ Min({a, b}) \in {a, b} /\ Min({a, b}) <= a /\ Min({a, b}) <= b
         /\ Max({a, b}) \in {a, b} /\ Max({a, b}) >= a /\ Max({a, b}) >= b
<1>1. \E x \in {a, b} : \A y \in {a, b} : x <= y
  <2>1. a <= a /\ b <= b /\ (a <= b \/ b <= a)
    OBVIOUS
  <2> QED
    BY <2>1
<1>2. \E x \in {a, b} : \A y \in {a, b} : x >= y
  <2>1. a >= a /\ b >= b /\ (a >= b \/ b >= a)
    OBVIOUS
  <2> QED
    BY <2>1
<1>3. Min({a, b}) \in {a, b} /\ \A y \in {a, b} : Min({a, b}) <= y
  BY <1>1 DEF Min
<1>4. Max({a, b}) \in {a, b} /\ \A y \in {a, b} : Max({a, b}) >= y
  BY <1>2 DEF Max
<1> QED
  BY <1>3, <1>4

\* What a slip pays.
LEMMA NetIs ==
  ASSUME NEW s, SlipOK(s)
  PROVE  Net(s) \in Int
<1>1. IsFiniteSet(DOMAIN s.days) /\ s.wage \in Nat /\ s.manual \in Nat
  BY DEF SlipOK
<1>2. PaidDays(s.days) \in Nat
  <2>1. IsFiniteSet({d \in DOMAIN s.days : Paid(s.days[d])})
    BY <1>1, FS_Subset
  <2> QED
    BY <2>1, FS_CardinalityType DEF PaidDays
<1>3. WorkDays(s.days) \in Nat
  <2>1. \A n \in Nat : Min({n, 30}) \in {n, 30}
    <3> TAKE n \in Nat
    <3>1. n \in Int /\ 30 \in Int
      OBVIOUS
    <3> QED
      BY <3>1, OfTwo, ZenonT(60)
  <2>2. Min({PaidDays(s.days), 30}) \in Nat
    BY <1>2, <2>1
  <2> QED
    BY <2>2 DEF WorkDays
<1>4. \A x, y \in Nat : x * y \in Nat /\ (x * y) \div 30 \in Int
  OBVIOUS
<1>5. Gross(s) \in Int
  BY <1>1, <1>3, <1>4 DEF Gross
<1> QED
  BY <1>1, <1>5 DEF Net

LEMMA PaidOutIs ==
  ASSUME NEW x, RunOK(x)
  PROVE  PaidOut(x) \in Int
<1>1. x.paid = "PAID" => SlipOK(x.frozen)
  BY DEF RunOK
<1> QED
  BY <1>1, NetIs DEF PaidOut

LEMMA BeginCalculateIs ==
  ASSUME SlipsOK, NEW r \in Runs, BeginCalculate(r)
  PROVE  RunsOK' /\ CalcOK' /\ FinOK' /\ \A q \in Runs : PaidOut(runs'[q]) = PaidOut(runs[q])
<1>1. runs' = runs /\ fin' = fin
  BY DEF BeginCalculate
<1>2. RunsOK' /\ FinOK' /\ \A q \in Runs : PaidOut(runs'[q]) = PaidOut(runs[q])
  BY <1>1 DEF SlipsOK, RunsOK, FinOK
<1>3. WageOf(runs[r].month) \in Nat
  BY WageIs DEF SlipsOK
<1>4. /\ DOMAIN calc' = {"run", "fp", "wage", "seen"} /\ calc'.run = r /\ calc'.wage = WageOf(runs[r].month)
      /\ calc'.fp = Fingerprint(r) /\ calc'.seen = Inputs(r) /\ runs[r].state # "NONE"
  BY DEF BeginCalculate
<1>5. Fingerprint(r).wage \in {0, WageOf(runs[r].month) + 1}
  BY DEF Fingerprint
<1>6. Fingerprint(r).checksum = Inputs(r).sheet.checksum /\ Fingerprint(r).manual = Inputs(r).manual
  BY DEF Fingerprint, Inputs
<1>7. CalcOK'
  BY <1>1, <1>3, <1>4, <1>5, <1>6 DEF CalcOK
<1> QED
  BY <1>2, <1>7

LEMMA CommitCalculateIs ==
  ASSUME SlipsOK, CommitCalculate
  PROVE  RunsOK' /\ CalcOK' /\ FinOK' /\ \A q \in Runs : PaidOut(runs'[q]) = PaidOut(runs[q])
<1> DEFINE r == calc.run
           days == sheets[runs[r].month].days
           slip == [gen |-> runs[r].gens + 1, fp |-> calc.fp, wage |-> calc.wage, days |-> days,
                    manual |-> runs[r].manual, prior |-> PriorBase(r, calc.wage),
                    stable |-> calc.seen = Inputs(r) /\ Honest(runs[r].month)]
           done == [runs[r] EXCEPT !.state = "CALCULATED", !.active = slip, !.version = @ + 1, !.gens = @ + 1]
           failed == [runs[r] EXCEPT !.state = "CALCULATION_FAILED", !.version = @ + 1, !.gens = @ + 1]
<1>1. /\ r \in Runs /\ RunOK(runs[r]) /\ DOMAIN runs = Runs /\ runs[r].state # "NONE" /\ runs[r].month \in MonthsOfYear
      /\ calc.wage \in Nat /\ calc.fp.wage \in {0, calc.wage + 1}
      /\ calc.fp.checksum = calc.seen.sheet.checksum /\ calc.fp.manual = calc.seen.manual
      /\ ~Held(r) /\ calc' = NoCalc /\ fin' = fin
  BY DEF CommitCalculate, SlipsOK, CalcOK, RunsOK, RunOK
<1>2. SheetOK(sheets[runs[r].month])
  BY <1>1 DEF SlipsOK, SheetsOK
<1>3. \/ runs[r].state = "FINALIZED" /\ runs' = runs
      \/ runs[r].state # "FINALIZED" /\ calc.fp.wage > 0 /\ runs' = [runs EXCEPT ![r] = done]
      \/ runs[r].state # "FINALIZED" /\ runs' = [runs EXCEPT ![r] = failed]
  BY ZenonT(60) DEF CommitCalculate
<1>4. RunsOK /\ CalcOK /\ FinOK
  BY DEF SlipsOK
<1>5. CASE runs[r].state = "FINALIZED" /\ runs' = runs
  <2>1. RunsOK' /\ FinOK' /\ \A q \in Runs : PaidOut(runs'[q]) = PaidOut(runs[q])
    BY <1>1, <1>4, <1>5 DEF RunsOK, FinOK
  <2>2. CalcOK'
    BY <1>1 DEF CalcOK
  <2> QED
    BY <2>1, <2>2
<1>6. ASSUME runs[r].state # "FINALIZED", calc.fp.wage > 0, runs' = [runs EXCEPT ![r] = done]
      PROVE  RunsOK' /\ CalcOK' /\ FinOK' /\ \A q \in Runs : PaidOut(runs'[q]) = PaidOut(runs[q])
  <2>1. SlipOK(slip)
    <3>1. /\ slip.fp = calc.fp /\ slip.wage = calc.wage /\ slip.days = days /\ slip.manual = runs[r].manual
          /\ slip.stable => calc.seen = Inputs(r) /\ Honest(runs[r].month)
      OBVIOUS
    <3>2. calc.fp.wage = calc.wage + 1
      BY <1>1, <1>6
    <3>3. runs[r].manual \in Nat /\ IsFiniteSet(DOMAIN days)
      BY <1>1, <1>2 DEF RunOK, SheetOK
    <3>4. calc.seen = Inputs(r) /\ Honest(runs[r].month) => calc.fp.checksum = ChecksumDays(days) /\ calc.fp.manual = runs[r].manual
      BY <1>1 DEF Inputs, Honest
    <3> HIDE DEF slip, days
    <3> QED
      BY <1>1, <3>1, <3>2, <3>3, <3>4 DEF SlipOK
  <2> HIDE DEF slip
  <2>2. /\ DOMAIN done = DOMAIN runs[r] /\ done.state = "CALCULATED" /\ done.month = runs[r].month
        /\ done.version = runs[r].version + 1 /\ done.manual = runs[r].manual /\ done.active = slip
        /\ done.frozen = runs[r].frozen /\ done.paid = runs[r].paid /\ done.gens = runs[r].gens + 1
    BY <1>1 DEF RunOK
  <2> HIDE DEF done
  <2>3. RunOK(done)
    BY <1>1, <1>6, <2>1, <2>2 DEF RunOK
  <2>4. RunsOK' /\ CalcOK' /\ FinOK'
    BY <1>1, <1>4, <1>6, <2>2, <2>3, RunMoves
  <2>5. runs[r].paid # "PAID"
    BY <1>1, <1>6 DEF RunOK
  <2>6. \A q \in Runs : PaidOut(runs'[q]) = PaidOut(runs[q])
    BY <1>1, <1>6, <2>2, <2>5 DEF PaidOut
  <2> QED
    BY <2>4, <2>6
<1>7. ASSUME runs[r].state # "FINALIZED", runs' = [runs EXCEPT ![r] = failed]
      PROVE  RunsOK' /\ CalcOK' /\ FinOK' /\ \A q \in Runs : PaidOut(runs'[q]) = PaidOut(runs[q])
  <2>2. /\ DOMAIN failed = DOMAIN runs[r] /\ failed.state = "CALCULATION_FAILED" /\ failed.month = runs[r].month
        /\ failed.version = runs[r].version + 1 /\ failed.manual = runs[r].manual /\ failed.active = runs[r].active
        /\ failed.frozen = runs[r].frozen /\ failed.paid = runs[r].paid /\ failed.gens = runs[r].gens + 1
    BY <1>1 DEF RunOK
  <2> HIDE DEF failed
  <2>3. RunOK(failed)
    BY <1>1, <1>7, <2>2 DEF RunOK
  <2>4. RunsOK' /\ CalcOK' /\ FinOK'
    BY <1>1, <1>4, <1>7, <2>2, <2>3, RunMoves
  <2>5. runs[r].paid # "PAID"
    BY <1>1, <1>7 DEF RunOK
  <2>6. \A q \in Runs : PaidOut(runs'[q]) = PaidOut(runs[q])
    BY <1>1, <1>7, <2>2, <2>5 DEF PaidOut
  <2> QED
    BY <2>4, <2>6
<1> QED
  BY <1>3, <1>5, <1>6, <1>7

LEMMA BeginFinalizeRunIs ==
  ASSUME SlipsOK, NEW r \in Runs, BeginFinalizeRun(r)
  PROVE  RunsOK' /\ CalcOK' /\ FinOK' /\ \A q \in Runs : PaidOut(runs'[q]) = PaidOut(runs[q])
<1>1. runs' = runs /\ calc' = calc /\ runs[r].state = "CALCULATED" /\ Fingerprint(r) = runs[r].active.fp
  BY DEF BeginFinalizeRun, Verified
<1>2. RunsOK' /\ CalcOK' /\ \A q \in Runs : PaidOut(runs'[q]) = PaidOut(runs[q])
  BY <1>1 DEF SlipsOK, RunsOK, CalcOK
<1>3. SlipOK(runs[r].active) /\ runs[r].version \in Nat
  BY DEF BeginFinalizeRun, SlipsOK, RunsOK, RunOK
<1>4. WageOf(runs[r].month) \in Nat
  BY WageIs DEF SlipsOK
<1>5. runs[r].active.wage = WageOf(runs[r].month)
  <2>1. Fingerprint(r).wage = runs[r].active.wage + 1 /\ runs[r].active.wage \in Nat
    BY <1>1, <1>3 DEF SlipOK
  <2>2. Fingerprint(r).wage = IF InPopulation(runs[r].month) THEN WageOf(runs[r].month) + 1 ELSE 0
    BY DEF Fingerprint
  <2> QED
    BY <1>4, <2>1, <2>2
<1>6. runs[r].active.fp.checksum = sheets[runs[r].month].checksum /\ runs[r].active.fp.manual = runs[r].manual
  <2>1. Fingerprint(r).checksum = sheets[runs[r].month].checksum /\ Fingerprint(r).manual = runs[r].manual
    BY DEF Fingerprint
  <2> QED
    BY <1>1, <2>1
<1>7. /\ DOMAIN fin' = {"run", "phase", "version", "slip", "plan", "seen"} /\ fin'.run = r /\ fin'.phase = "verified"
      /\ fin'.version = runs[r].version /\ fin'.slip = runs[r].active /\ fin'.seen.wage = WageOf(runs[r].month)
      /\ fin'.seen.sheet = sheets[runs[r].month] /\ fin'.seen.manual = runs[r].manual
  BY DEF BeginFinalizeRun, Inputs
<1>8. FinOK'
  BY <1>1, <1>3, <1>5, <1>6, <1>7 DEF FinOK
<1> QED
  BY <1>2, <1>8

LEMMA TakeRunIs ==
  ASSUME SlipsOK, TakeRun
  PROVE  RunsOK' /\ CalcOK' /\ FinOK' /\ \A q \in Runs : PaidOut(runs'[q]) = PaidOut(runs[q])
<1>1. runs' = runs /\ calc' = calc /\ fin # NoCalc
  BY DEF TakeRun
<1>2. RunsOK' /\ CalcOK' /\ \A q \in Runs : PaidOut(runs'[q]) = PaidOut(runs[q])
  BY <1>1 DEF SlipsOK, RunsOK, CalcOK
<1>3. CASE MayTake
  <2> DEFINE plan == Settlement(fin.slip.manual)
             x == [fin EXCEPT !.phase = "taken", !.plan = plan]
  <2> HIDE DEF plan
  <2>1. DOMAIN fin = {"run", "phase", "version", "slip", "plan", "seen"}
    BY <1>1 DEF SlipsOK, FinOK
  <2>2. /\ DOMAIN x = DOMAIN fin /\ x.run = fin.run /\ x.phase = "taken" /\ x.version = fin.version
        /\ x.slip = fin.slip /\ x.seen = fin.seen
    BY <2>1
  <2>3. fin' = x
    BY <1>3 DEF TakeRun, plan
  <2> HIDE DEF x
  <2>4. runs[fin.run].version = fin.version
    BY <1>3 DEF MayTake
  <2>5. FinOK
    BY DEF SlipsOK
  <2> QED
    BY <1>1, <1>2, <2>1, <2>2, <2>3, <2>4, <2>5 DEF FinOK
<1>4. CASE ~MayTake
  BY <1>2, <1>4 DEF TakeRun, FinOK
<1> QED
  BY <1>3, <1>4

LEMMA CommitFinalizeRunIs ==
  ASSUME SlipsOK, CommitFinalizeRun
  PROVE  /\ RunsOK' /\ CalcOK' /\ FinOK' /\ \A q \in Runs : PaidOut(runs'[q]) = PaidOut(runs[q])
         /\ fin.run \in Runs /\ runs[fin.run].state = "CALCULATED" /\ runs[fin.run].active = fin.slip
         /\ runs'[fin.run].frozen = fin.slip /\ \A q \in Runs : q # fin.run => runs'[q] = runs[q]
<1> DEFINE r == fin.run
           x == [runs[r] EXCEPT !.state = "FINALIZED", !.frozen = fin.slip, !.version = @ + 1]
<1>1. /\ r \in Runs /\ runs[r].state = "CALCULATED" /\ runs[r].active = fin.slip /\ SlipOK(fin.slip)
      /\ RunOK(runs[r]) /\ DOMAIN runs = Runs
  BY DEF CommitFinalizeRun, SlipsOK, FinOK, RunsOK
<1>2. runs' = [runs EXCEPT ![r] = x] /\ calc' = calc /\ fin' = NoCalc
  BY DEF CommitFinalizeRun
<1>3. /\ DOMAIN x = DOMAIN runs[r] /\ x.state = "FINALIZED" /\ x.month = runs[r].month
      /\ x.version = runs[r].version + 1 /\ x.manual = runs[r].manual /\ x.active = runs[r].active
      /\ x.frozen = fin.slip /\ x.paid = runs[r].paid /\ x.gens = runs[r].gens
  BY <1>1 DEF RunOK
<1> HIDE DEF x
<1>4. RunOK(x)
  BY <1>1, <1>3 DEF RunOK
<1>5. DOMAIN runs' = Runs /\ runs'[r] = x /\ \A q \in Runs : q # r => runs'[q] = runs[q]
  BY <1>1, <1>2
<1>6. RunsOK'
  BY <1>4, <1>5 DEF SlipsOK, RunsOK
<1>7. CalcOK'
  BY <1>2, <1>3, <1>5 DEF SlipsOK, CalcOK
<1>8. FinOK'
  BY <1>2 DEF FinOK
<1>9. runs[r].paid # "PAID"
  BY <1>1 DEF RunOK
<1>10. \A q \in Runs : PaidOut(runs'[q]) = PaidOut(runs[q])
  BY <1>3, <1>5, <1>9 DEF PaidOut
<1> QED
  BY <1>1, <1>3, <1>5, <1>6, <1>7, <1>8, <1>10

LEMMA PaymentIs ==
  ASSUME SlipsOK, NEW r \in Runs, Pay(r) \/ ReversePayment(r)
  PROVE  /\ RunsOK' /\ CalcOK' /\ FinOK' /\ \A q \in Runs : q # r => PaidOut(runs'[q]) = PaidOut(runs[q])
         /\ \A q \in Runs : runs'[q].state = runs[q].state
         /\ Net(runs[r].frozen) \in Int /\ PaidOut(runs[r]) \in Int /\ PaidOut(runs'[r]) \in Int
         /\ cash' = cash - (PaidOut(runs'[r]) - PaidOut(runs[r])) \/ cash \notin Int
<1>1. RunOK(runs[r]) /\ DOMAIN runs = Runs
  BY DEF SlipsOK, RunsOK
<1>2. PICK p \in {"PAID", "REVERSED"} :
        /\ runs' = [runs EXCEPT ![r].paid = p] /\ calc' = calc /\ fin' = fin /\ runs[r].state = "FINALIZED"
        /\ p = "PAID" => runs[r].paid # "PAID" /\ cash' = cash - Net(runs[r].frozen)
        /\ p = "REVERSED" => runs[r].paid = "PAID" /\ cash' = cash + Net(runs[r].frozen)
  <2>1. CASE Pay(r)
    BY <2>1 DEF Pay, Payable
  <2>2. CASE ReversePayment(r)
    BY <1>1, <2>2 DEF ReversePayment, RunOK
  <2> QED
    BY <2>1, <2>2
<1> DEFINE x == [runs[r] EXCEPT !.paid = p]
<1>3. /\ DOMAIN x = DOMAIN runs[r] /\ x.state = runs[r].state /\ x.month = runs[r].month
      /\ x.version = runs[r].version /\ x.manual = runs[r].manual /\ x.active = runs[r].active
      /\ x.frozen = runs[r].frozen /\ x.paid = p /\ x.gens = runs[r].gens
  BY <1>1 DEF RunOK
<1>4. runs' = [runs EXCEPT ![r] = x]
  BY <1>2
<1> HIDE DEF x
<1>5. RunOK(x)
  BY <1>1, <1>2, <1>3 DEF RunOK
<1>6. RunsOK' /\ CalcOK' /\ FinOK'
  BY <1>2, <1>3, <1>4, <1>5, RunMoves DEF SlipsOK
<1>7. runs'[r] = x /\ \A q \in Runs : q # r => runs'[q] = runs[q]
  BY <1>1, <1>4
<1>8. Net(runs[r].frozen) \in Int
  BY <1>1, <1>2, NetIs DEF RunOK
<1>9. PaidOut(runs[r]) \in Int /\ PaidOut(runs'[r]) \in Int
  BY <1>1, <1>5, <1>7, PaidOutIs
<1>10. ASSUME cash \in Int PROVE cash' = cash - (PaidOut(runs'[r]) - PaidOut(runs[r]))
  <2>1. CASE p = "PAID"
    <3>1. PaidOut(runs[r]) = 0 /\ PaidOut(runs'[r]) = Net(runs[r].frozen)
      BY <1>2, <1>3, <1>7, <2>1 DEF PaidOut
    <3> QED
      BY <1>2, <1>8, <1>10, <2>1, <3>1
  <2>2. CASE p = "REVERSED"
    <3>1. PaidOut(runs[r]) = Net(runs[r].frozen) /\ PaidOut(runs'[r]) = 0
      BY <1>2, <1>3, <1>7, <2>2 DEF PaidOut
    <3> QED
      BY <1>2, <1>8, <1>10, <2>2, <3>1
  <2> QED
    BY <2>1, <2>2
<1> QED
  BY <1>3, <1>6, <1>7, <1>8, <1>9, <1>10

-----------------------------------------------------------------------------
(* Advances                                                                    *)

\* What the model says of an advance, in terms of its rows.
LEMMA RowsSay ==
  ASSUME NEW s \in Advance
  PROVE  /\ s \in Seq(RowsType)
         /\ \A T : Unreversed(s, T) = RowsOf(s, T) /\ RowSum(s, RowsOf(s, T)) = SumRows(s, T)
         /\ Outstanding(s) = Owed(s) /\ AdvanceCash(s) = CashOf(s)
         /\ Outstanding(s) \in Int /\ CashOf(s) \in Int
<1>2. s \in Seq(RowsType) /\ Len(s) >= 1 /\ s[1] \in RowsType
  BY DEF Advance
<1>3. \A T : Unreversed(s, T) = RowsOf(s, T) /\ RowSum(s, RowsOf(s, T)) = SumRows(s, T)
  BY DEF Unreversed, RowsOf, RowSum, SumRows
<1>4. Outstanding(s) = Owed(s) /\ AdvanceCash(s) = CashOf(s)
  BY <1>3 DEF Outstanding, Owed, AdvanceCash, CashOf
<1>5. \A T : SumRows(s, T) \in Nat
  BY <1>2, RowsAre
<1>6. s[1].amt \in Nat
  BY <1>2 DEF RowsType
<1>7. Owed(s) \in Int /\ CashOf(s) \in Int
  <2>1. SumRows(s, Settling) \in Nat /\ SumRows(s, {"REPAYMENT"}) \in Nat /\ SumRows(s, {"DISBURSEMENT"}) \in Nat
    BY <1>5
  <2> QED
    BY <1>6, <2>1 DEF Owed, CashOf
<1> QED
  BY <1>2, <1>3, <1>4, <1>7

LEMMA AdvanceIs ==
  ASSUME AdvancesOK, NEW a \in DOMAIN advances
  PROVE  /\ advances[a] \in Advance /\ advances[a] \in Seq(RowsType)
         /\ \A T : Unreversed(advances[a], T) = RowsOf(advances[a], T)
         /\ Outstanding(advances[a]) = Owed(advances[a]) /\ AdvanceCash(advances[a]) = CashOf(advances[a])
         /\ Outstanding(advances[a]) \in Int /\ CashOf(advances[a]) \in Int
<1>1. advances[a] \in Advance
  BY DEF AdvancesOK
<1> QED
  BY <1>1, RowsSay

LEMMA AdvancesAreFinite ==
  ASSUME AdvancesOK
  PROVE  /\ DOMAIN advances = 1..Len(advances) /\ Len(advances) \in Nat /\ IsFiniteSet(DOMAIN advances)
         /\ \A a \in DOMAIN advances : [b \in DOMAIN advances |-> CashOf(advances[b])][a] = CashOf(advances[a])
<1>1. DOMAIN advances = 1..Len(advances) /\ Len(advances) \in Nat
  BY DEF AdvancesOK
<1> QED
  BY <1>1, FS_Interval

\* A payroll deducts of open advances only, and of none more than it is owed.
LEMMA SettlementIs ==
  ASSUME AdvancesOK, NEW amount \in Int, NEW a \in DOMAIN Settlement(amount)
  PROVE  /\ a \in DOMAIN advances /\ Settlement(amount)[a] \in Nat \ {0}
         /\ Settlement(amount)[a] <= Owed(advances[a])
<1> DEFINE older(b) == SumFunctionOnSet([c \in OpenAdvances |-> Outstanding(advances[c])], {c \in OpenAdvances : c < b})
           share(b) == Min({Outstanding(advances[b]), Max({amount - older(b), 0})})
<1>1. a \in OpenAdvances /\ share(a) > 0 /\ Settlement(amount)[a] = share(a)
  BY DEF Settlement
<1>2. a \in DOMAIN advances /\ OpenAdvances \subseteq DOMAIN advances
  BY <1>1 DEF OpenAdvances
<1>3. Outstanding(advances[a]) \in Int /\ Outstanding(advances[a]) = Owed(advances[a])
  BY <1>2, AdvanceIs
<1>4. older(a) \in Int
  <2> DEFINE f == [c \in OpenAdvances |-> Outstanding(advances[c])]
             S == {c \in OpenAdvances : c < a}
  <2>1. IsFiniteSet(S)
    BY <1>2, AdvancesAreFinite, FS_Subset
  <2>2. \A c \in S : f[c] \in Int
    <3> TAKE c \in S
    <3>1. c \in DOMAIN advances
      BY <1>2
    <3>2. Outstanding(advances[c]) \in Int
      BY <3>1, AdvanceIs
    <3> QED
      BY <3>2
  <2> HIDE DEF f, S
  <2>3. SumFunctionOnSet(f, S) \in Int
    BY <2>1, <2>2, SumPick
  <2> QED
    BY <2>3 DEF f, S
<1> HIDE DEF older
<1>5. amount - older(a) \in Int /\ 0 \in Int
  BY <1>4
<1>6. Max({amount - older(a), 0}) \in {amount - older(a), 0}
  BY <1>5, OfTwo, ZenonT(60)
<1>7. Max({amount - older(a), 0}) \in Int
  BY <1>5, <1>6
<1> DEFINE m == Max({amount - older(a), 0})
<1> HIDE DEF m
<1>8. Min({Outstanding(advances[a]), m}) \in {Outstanding(advances[a]), m} /\ Min({Outstanding(advances[a]), m}) <= Outstanding(advances[a])
  BY <1>3, <1>7, OfTwo, ZenonT(60) DEF m
<1>9. share(a) \in Int /\ share(a) <= Outstanding(advances[a])
  BY <1>3, <1>7, <1>8 DEF m
<1> HIDE DEF share
<1> QED
  BY <1>1, <1>2, <1>3, <1>9

\* Nothing that moves cash moves.
LEMMA CashStays ==
  ASSUME CashOK, advances' = advances, cash' = cash, \A q \in Runs : PaidOut(runs'[q]) = PaidOut(runs[q])
  PROVE  CashOK'
<1>1. [r \in Runs |-> PaidOut(runs'[r])] = [r \in Runs |-> PaidOut(runs[r])]
  OBVIOUS
<1> QED
  BY <1>1 DEF CashOK

\* The cash that the sums of the advances and of the runs stand for are numbers.
LEMMA SumsAre ==
  ASSUME SlipsOK, AdvancesOK
  PROVE  /\ SumFunctionOnSet([a \in DOMAIN advances |-> CashOf(advances[a])], DOMAIN advances) \in Int
         /\ SumFunctionOnSet([r \in Runs |-> PaidOut(runs[r])], Runs) \in Int
<1>1. \A a \in DOMAIN advances : [b \in DOMAIN advances |-> CashOf(advances[b])][a] \in Int
  BY AdvanceIs
<1>2. \A r \in Runs : [q \in Runs |-> PaidOut(runs[q])][r] \in Int
  <2> TAKE r \in Runs
  <2>1. RunOK(runs[r])
    BY DEF SlipsOK, RunsOK
  <2>2. PaidOut(runs[r]) \in Int
    BY <2>1, PaidOutIs
  <2> QED
    BY <2>2
<1>3. IsFiniteSet(Runs) /\ IsFiniteSet(DOMAIN advances)
  BY PayrollAssumption, AdvancesAreFinite
<1> QED
  BY <1>1, <1>2, <1>3, SumPick

LEMMA PaymentKeepsCash ==
  ASSUME SlipsOK, AdvancesOK, CashOK, advances' = advances, NEW r \in Runs, Pay(r) \/ ReversePayment(r)
  PROVE  CashOK' /\ cash' \in Int
<1> DEFINE f == [q \in Runs |-> PaidOut(runs[q])]
           g == [q \in Runs |-> PaidOut(runs'[q])]
           A == SumFunctionOnSet([a \in DOMAIN advances |-> CashOf(advances[a])], DOMAIN advances)
<1>1. /\ \A q \in Runs : q # r => PaidOut(runs'[q]) = PaidOut(runs[q])
      /\ PaidOut(runs[r]) \in Int /\ PaidOut(runs'[r]) \in Int
      /\ cash' = cash - (PaidOut(runs'[r]) - PaidOut(runs[r])) \/ cash \notin Int
  BY PaymentIs
<1>2. \A q \in Runs : PaidOut(runs[q]) \in Int
  <2> TAKE q \in Runs
  <2>1. RunOK(runs[q])
    BY DEF SlipsOK, RunsOK
  <2> QED
    BY <2>1, PaidOutIs
<1>3. \A q \in Runs : f[q] \in Int /\ g[q] \in Int /\ (q # r => g[q] = f[q])
  BY <1>1, <1>2
<1>4. f[r] = PaidOut(runs[r]) /\ g[r] = PaidOut(runs'[r])
  OBVIOUS
<1>5. cash = A - SumFunctionOnSet(f, Runs) /\ A \in Int /\ SumFunctionOnSet(f, Runs) \in Int /\ cash \in Int
  BY SumsAre DEF CashOK, AdvancesOK
<1>6. CashOK' <=> cash' = A - SumFunctionOnSet(g, Runs)
  BY DEF CashOK
<1> HIDE DEF f, g, A
<1>7. SumFunctionOnSet(g, Runs) = SumFunctionOnSet(f, Runs) + (g[r] - f[r])
  BY <1>3, OneTermChanges, PayrollAssumption
<1> DEFINE F == SumFunctionOnSet(f, Runs)
           G == SumFunctionOnSet(g, Runs)
           u == f[r]
           v == g[r]
<1>8. u \in Int /\ v \in Int /\ F \in Int /\ cash' = cash - (v - u) /\ G = F + (v - u) /\ cash = A - F
  BY <1>1, <1>3, <1>4, <1>5, <1>7
<1> HIDE DEF F, G, u, v
<1>9. cash' = A - G /\ cash' \in Int
  BY ONLY <1>5, <1>8
<1> QED
  BY <1>6, <1>9 DEF G

\* One advance moves.
LEMMA AdvanceMoves ==
  ASSUME SlipsOK, AdvancesOK, CashOK, NEW a \in DOMAIN advances, NEW s \in Advance, NEW d \in Int,
         CashOf(s) = CashOf(advances[a]) + d, advances' = [advances EXCEPT ![a] = s], cash' = cash + d, runs' = runs
  PROVE  /\ AdvancesOK' /\ CashOK' /\ DOMAIN advances' = DOMAIN advances
         /\ advances'[a] = s /\ \A b \in DOMAIN advances : b # a => advances'[b] = advances[b]
<1> DEFINE f == [b \in DOMAIN advances |-> CashOf(advances[b])]
           g == [b \in DOMAIN advances |-> CashOf(advances'[b])]
           P == SumFunctionOnSet([r \in Runs |-> PaidOut(runs[r])], Runs)
<1>1. /\ DOMAIN advances' = DOMAIN advances
      /\ advances'[a] = s /\ \A b \in DOMAIN advances : b # a => advances'[b] = advances[b]
  BY DEF AdvancesOK
<1>2. advances' \in Seq(Advance)
  BY ExceptSeq DEF AdvancesOK
<1>3. cash \in Int /\ AdvancesOK'
  BY <1>2 DEF AdvancesOK
<1>4. \A b \in DOMAIN advances : CashOf(advances[b]) \in Int
  BY AdvanceIs
<1>5. CashOf(s) \in Int
  BY <1>4
<1>6. \A b \in DOMAIN advances : f[b] \in Int /\ g[b] \in Int /\ (b # a => g[b] = f[b])
  BY <1>1, <1>4, <1>5
<1>7. f[a] = CashOf(advances[a]) /\ g[a] = CashOf(s)
  BY <1>1
<1>8. cash = SumFunctionOnSet(f, DOMAIN advances) - P /\ SumFunctionOnSet(f, DOMAIN advances) \in Int /\ P \in Int
  BY SumsAre DEF CashOK
<1>9. CashOK' <=> cash' = SumFunctionOnSet(g, DOMAIN advances) - P
  BY <1>1 DEF CashOK
<1> HIDE DEF f, g, P
<1>10. SumFunctionOnSet(g, DOMAIN advances) = SumFunctionOnSet(f, DOMAIN advances) + (g[a] - f[a])
  <2> DEFINE S == DOMAIN advances
  <2>1. IsFiniteSet(S) /\ a \in S
    BY AdvancesAreFinite
  <2>2. \A b \in S : f[b] \in Int /\ g[b] \in Int /\ (b # a => g[b] = f[b])
    BY <1>6
  <2> HIDE DEF S
  <2>3. SumFunctionOnSet(g, S) = SumFunctionOnSet(f, S) + (g[a] - f[a])
    BY <2>1, <2>2, OneTermChanges
  <2> QED
    BY <2>3 DEF S
<1> DEFINE F == SumFunctionOnSet(f, DOMAIN advances)
           G == SumFunctionOnSet(g, DOMAIN advances)
           u == CashOf(advances[a])
           v == CashOf(s)
<1>11. u \in Int /\ v \in Int /\ v = u + d /\ G = F + (v - u) /\ cash = F - P /\ F \in Int /\ P \in Int /\ d \in Int /\ cash' = cash + d
  BY <1>4, <1>5, <1>7, <1>8, <1>10
<1> HIDE DEF F, G, u, v
<1>12. cash' = G - P
  BY ONLY <1>11
<1> QED
  BY <1>1, <1>3, <1>9, <1>12 DEF G

AdvancesInv == AdvancesOK /\ (\A a \in DOMAIN advances : OwedOK(a)) /\ PlanOK /\ LateOK /\ CashOK

LEMMA RowIs ==
  ASSUME NEW type \in Types, NEW n \in Nat \ {0}
  PROVE  Row(type, n) \in RowsType /\ ~Row(type, n).rev /\ Row(type, n).type = type /\ Row(type, n).amt = n
BY DEF Row, RowsType

\* What a command on an advance sees of it: a beginning of its rows, which is an advance.
LEMMA SeenIs ==
  ASSUME AdvancesInv, NEW a \in DOMAIN advances, NEW n \in Views(a)
  PROVE  /\ n \in 1..Len(advances[a]) /\ Seen(a, n) \in Advance
         /\ n = Len(advances[a]) => Seen(a, n) = advances[a]
         /\ \A i \in 1..n : Seen(a, n)[i] = advances[a][i]
<1> DEFINE q == advances[a]
           s == Seen(a, n)
<1>1. q \in Advance /\ q \in Seq(RowsType) /\ Len(q) \in Nat /\ Len(q) >= 1
  BY AdvanceIs DEF AdvancesInv, Advance
<1>2. n \in 1..Len(q)
  <2>1. n = Len(q) \/ \E c \in late : c[1] = a /\ c[2] = n
    BY DEF Views
  <2>2. \A c \in late : c[1] = a => c[2] \in 1..Len(q)
    BY DEF AdvancesInv, LateOK
  <2> QED
    BY <1>1, <2>1, <2>2
<1>3. s = SubSeq(q, 1, n)
  BY DEF Seen
<1> HIDE DEF q, s
<1>4. s \in Seq(RowsType) /\ Len(s) = n /\ \A i \in 1..n : s[i] = q[i]
  BY <1>1, <1>2, <1>3
<1>5. q[1].type = "DISBURSEMENT" /\ \A i \in DOMAIN q : q[i].type = "DISBURSEMENT" => i = 1
  BY <1>1 DEF Advance
<1>6. DOMAIN s = 1..n /\ DOMAIN q = 1..Len(q)
  BY <1>1, <1>4
<1>7. \A i \in DOMAIN s : s[i].type = "DISBURSEMENT" => i = 1
  BY <1>1, <1>2, <1>4, <1>5, <1>6
<1>8. s[1].type = "DISBURSEMENT" /\ Len(s) >= 1
  BY <1>1, <1>2, <1>4, <1>5
<1>9. s \in Advance
  BY <1>4, <1>7, <1>8 DEF Advance
<1>10. n = Len(q) => s = q
  BY <1>1, <1>2, <1>3
<1> QED
  BY <1>2, <1>4, <1>9, <1>10 DEF q, s

\* One advance moves: what is planned for it, or not seen of it, counts as raced.
LEMMA OneAdvanceKeeps ==
  ASSUME SlipsOK, AdvancesInv, NEW a \in DOMAIN advances, NEW n, NEW s \in Advance, NEW d \in Int,
         CashOf(s) = CashOf(advances[a]) + d,
         n = Len(advances[a]) /\ SettledOnce(advances[a]) => SettledOnce(s),
         advances' = [advances EXCEPT ![a] = s], cash' = cash + d, Touch(a, n, Planned), UNCHANGED payVars
  PROVE  AdvancesInv'
<1>1. runs' = runs /\ fin' = fin
  BY DEF payVars
<1>2. /\ AdvancesOK' /\ CashOK' /\ DOMAIN advances' = DOMAIN advances
      /\ advances'[a] = s /\ \A b \in DOMAIN advances : b # a => advances'[b] = advances[b]
  BY <1>1, AdvanceMoves DEF AdvancesInv
<1>3. raced \subseteq raced' /\ (a \in Planned \/ n # Len(advances[a]) => a \in raced')
  BY DEF Touch
<1>4. \A b \in DOMAIN advances' : OwedOK(b)'
  BY <1>2, <1>3 DEF AdvancesInv, OwedOK
<1>5. Planned' = Planned
  BY <1>1 DEF Planned
<1>6. PlanOK'
  BY <1>1, <1>2, <1>3, <1>5 DEF AdvancesInv, PlanOK
<1>7. LateOK'
  BY <1>2 DEF Touch, AdvancesInv, LateOK
<1> QED
  BY <1>2, <1>4, <1>6, <1>7 DEF AdvancesInv

LEMMA RepayKeeps ==
  ASSUME SlipsOK, AdvancesInv, NEW a \in DOMAIN advances, NEW n \in Views(a), NEW m \in 1..MaxAmount,
         Repay(a, n, m, Planned), UNCHANGED payVars
  PROVE  AdvancesInv'
<1> DEFINE x == Row("REPAYMENT", m)
           s == Append(advances[a], x)
<1>1. m \in Nat \ {0} /\ m \in Int /\ m <= Outstanding(Seen(a, n))
  BY AdvancesAssumption DEF Repay, Repayable
<1>2. x \in RowsType /\ ~x.rev /\ x.type = "REPAYMENT" /\ x.amt = m /\ x.type \in Settling
  BY <1>1, RowIs DEF Types, Settling
<1> HIDE DEF x
<1>3. advances[a] \in Advance /\ Outstanding(advances[a]) = Owed(advances[a])
  BY AdvanceIs DEF AdvancesInv
<1>4. /\ s \in Advance
      /\ CashOf(s) = CashOf(advances[a]) + (IF x.type = "REPAYMENT" THEN x.amt ELSE 0)
      /\ SettledOnce(advances[a]) /\ x.amt <= Owed(advances[a]) => SettledOnce(s)
  BY <1>2, <1>3, SettlesOnce
<1>5. advances' = [advances EXCEPT ![a] = s] /\ cash' = cash + m /\ Touch(a, n, Planned)
  BY DEF Repay, x
<1> HIDE DEF s
<1>6. n = Len(advances[a]) => m <= Owed(advances[a])
  BY <1>1, <1>3, SeenIs
<1>7. /\ CashOf(s) = CashOf(advances[a]) + m
      /\ n = Len(advances[a]) /\ SettledOnce(advances[a]) => SettledOnce(s)
  BY <1>2, <1>4, <1>6
<1> QED
  BY <1>1, <1>4, <1>5, <1>7, OneAdvanceKeeps

LEMMA WriteOffKeeps ==
  ASSUME SlipsOK, AdvancesInv, NEW a \in DOMAIN advances, NEW n \in Views(a),
         WriteOff(a, n, Planned), UNCHANGED payVars
  PROVE  AdvancesInv'
<1> DEFINE m == Outstanding(Seen(a, n))
           x == Row("WRITE_OFF", m)
           s == Append(advances[a], x)
<1>1. advances[a] \in Advance /\ Outstanding(advances[a]) = Owed(advances[a]) /\ CashOf(advances[a]) \in Int
  BY AdvanceIs DEF AdvancesInv
<1>2. m \in Nat \ {0} /\ m <= m
  <2>1. Seen(a, n) \in Advance
    BY SeenIs
  <2>2. m \in Int
    BY <2>1, RowsSay
  <2> QED
    BY <2>2 DEF WriteOff
<1>3. advances' = [advances EXCEPT ![a] = s] /\ cash' = cash /\ Touch(a, n, Planned)
  BY DEF WriteOff
<1>4. n = Len(advances[a]) => m = Owed(advances[a])
  BY <1>1, SeenIs
<1> HIDE DEF m
<1>5. x \in RowsType /\ ~x.rev /\ x.type = "WRITE_OFF" /\ x.amt = m /\ x.type \in Settling
  BY <1>2, RowIs DEF Types, Settling
<1> HIDE DEF x
<1>6. /\ s \in Advance
      /\ CashOf(s) = CashOf(advances[a]) + (IF x.type = "REPAYMENT" THEN x.amt ELSE 0)
      /\ SettledOnce(advances[a]) /\ x.amt <= Owed(advances[a]) => SettledOnce(s)
  BY <1>1, <1>5, SettlesOnce
<1> HIDE DEF s
<1>7. /\ CashOf(s) = CashOf(advances[a]) + 0
      /\ n = Len(advances[a]) /\ SettledOnce(advances[a]) => SettledOnce(s)
  BY <1>1, <1>2, <1>4, <1>5, <1>6
<1>8. cash' = cash + 0 /\ 0 \in Int
  BY <1>3 DEF AdvancesInv, AdvancesOK
<1> QED
  BY <1>3, <1>6, <1>7, <1>8, OneAdvanceKeeps

LEMMA ReverseKeeps ==
  ASSUME SlipsOK, AdvancesInv, NEW a \in DOMAIN advances, NEW n \in Views(a), NEW i \in DOMAIN advances[a],
         Reverse(a, n, i, Planned), UNCHANGED payVars
  PROVE  AdvancesInv'
<1> DEFINE q == advances[a]
           s == [q EXCEPT ![i].rev = TRUE]
           d == CASE q[i].type = "REPAYMENT" -> -q[i].amt [] q[i].type = "DISBURSEMENT" -> q[i].amt [] OTHER -> 0
<1>1. q \in Advance /\ q \in Seq(RowsType) /\ Unreversed(q, Settling) = RowsOf(q, Settling)
  BY AdvanceIs DEF AdvancesInv
<1>2. ~q[i].rev /\ (n = Len(q) /\ q[i].type = "DISBURSEMENT" => RowsOf(q, Settling) = {})
  <2>1. i \in 1..n /\ Reversible(Seen(a, n), i)
    BY DEF Reverse
  <2>2. Seen(a, n)[i] = q[i] /\ (n = Len(q) => Seen(a, n) = q)
    BY <2>1, SeenIs
  <2> QED
    BY <1>1, <2>1, <2>2 DEF Reversible
<1>3. /\ s \in Advance /\ CashOf(s) = CashOf(q) + d
      /\ n = Len(q) /\ SettledOnce(q) => SettledOnce(s)
  BY <1>1, <1>2, ReversesOnce
<1>4. q[i].amt \in Nat /\ cash \in Int
  <2>1. q[i] \in RowsType
    BY <1>1
  <2> QED
    BY <2>1 DEF RowsType, AdvancesInv, AdvancesOK
<1>5. d \in Int
  BY <1>4
<1>6. advances' = [advances EXCEPT ![a] = s] /\ Touch(a, n, Planned)
  BY DEF Reverse
<1>7. cash' = cash + d
  <2>1. cash' = CASE q[i].type = "REPAYMENT" -> cash - q[i].amt
                  [] q[i].type = "DISBURSEMENT" -> cash + q[i].amt
                  [] OTHER -> cash
    BY DEF Reverse
  <2>2. "REPAYMENT" # "DISBURSEMENT"
    OBVIOUS
  <2>3. CASE q[i].type = "REPAYMENT"
    BY <1>4, <2>1, <2>3
  <2>4. CASE q[i].type = "DISBURSEMENT"
    BY <1>4, <2>1, <2>4
  <2>5. CASE q[i].type # "REPAYMENT" /\ q[i].type # "DISBURSEMENT"
    BY <1>4, <2>1, <2>5
  <2> QED
    BY <2>3, <2>4, <2>5
<1> HIDE DEF s, d
<1> QED
  BY <1>3, <1>5, <1>6, <1>7, OneAdvanceKeeps

LEMMA CreateAdvanceKeeps ==
  ASSUME SlipsOK, AdvancesInv, NEW n \in 1..MaxAmount, NEW d, CreateAdvance(n, d), UNCHANGED payVars
  PROVE  AdvancesInv'
<1> DEFINE x == Row("DISBURSEMENT", n)
           s == <<x>>
           k == Len(advances) + 1
<1>1. n \in Nat \ {0}
  BY AdvancesAssumption
<1>2. x \in RowsType /\ ~x.rev /\ x.type = "DISBURSEMENT" /\ x.amt = n
  BY <1>1, RowIs DEF Types
<1> HIDE DEF x
<1>3. \A T : RowsOf(<< >>, T) = {} /\ SumRows(<< >>, T) = 0
  <2> TAKE T
  <2>1. RowsOf(<< >>, T) = {}
    BY DEF RowsOf
  <2> DEFINE f == [i \in DOMAIN << >> |-> << >>[i].amt]
  <2>2. SumRows(<< >>, T) = SumFunctionOnSet(f, {})
    BY <2>1 DEF SumRows
  <2> HIDE DEF f
  <2> QED
    BY <2>1, <2>2, SumPick, FS_EmptySet
<1>4. \A T : /\ RowsOf(s, T) = (IF "DISBURSEMENT" \in T THEN {1} ELSE {})
             /\ SumRows(s, T) = (IF "DISBURSEMENT" \in T THEN n ELSE 0)
  <2> TAKE T
  <2> DEFINE e == << >>
  <2>1. e \in Seq(RowsType) /\ Append(e, x) = s /\ Len(e) + 1 = 1
    OBVIOUS
  <2> HIDE DEF e, s
  <2>7. /\ RowsOf(Append(e, x), T) = RowsOf(e, T) \cup (IF x.type \in T THEN {Len(e) + 1} ELSE {})
        /\ SumRows(Append(e, x), T) = SumRows(e, T) + (IF x.type \in T THEN x.amt ELSE 0)
    BY <1>2, <2>1, AppendCounts, ZenonT(60)
  <2>2. /\ RowsOf(s, T) = RowsOf(<< >>, T) \cup (IF x.type \in T THEN {1} ELSE {})
        /\ SumRows(s, T) = SumRows(<< >>, T) + (IF x.type \in T THEN x.amt ELSE 0)
    BY <2>1, <2>7 DEF e
  <2>3. RowsOf(s, T) = {} \cup (IF "DISBURSEMENT" \in T THEN {1} ELSE {})
    BY <1>2, <1>3, <2>2
  <2>4. SumRows(s, T) = 0 + (IF "DISBURSEMENT" \in T THEN n ELSE 0)
    BY <1>2, <1>3, <2>2
  <2>5. "DISBURSEMENT" \in T \/ "DISBURSEMENT" \notin T
    OBVIOUS
  <2>6. SumRows(s, T) = (IF "DISBURSEMENT" \in T THEN n ELSE 0)
    BY <1>1, <2>4, <2>5
  <2> QED
    BY <2>3, <2>6
<1>5. s \in Advance /\ s[1] = x
  BY <1>2 DEF Advance
<1>6. CashOf(s) = -n /\ SettledOnce(s)
  <2>1. RowsOf(s, {"DISBURSEMENT"}) = {1} /\ SumRows(s, {"DISBURSEMENT"}) = n
    BY <1>4
  <2>2. SumRows(s, Settling) = 0 /\ SumRows(s, {"REPAYMENT"}) = 0
    BY <1>4 DEF Settling
  <2> HIDE DEF s
  <2>3. CashOf(s) = 0 - n
    BY <2>1, <2>2 DEF CashOf
  <2>4. Owed(s) = n - 0
    BY <1>2, <1>5, <2>1, <2>2 DEF Owed
  <2> QED
    BY <1>1, <2>1, <2>3, <2>4 DEF SettledOnce
<1> HIDE DEF s
<1>7. advances' = Append(advances, s) /\ cash' = cash - n /\ raced' = raced /\ late' = late /\ runs' = runs /\ fin' = fin
  BY DEF CreateAdvance, payVars, s, x
<1>8. /\ advances' \in Seq(Advance) /\ DOMAIN advances' = DOMAIN advances \cup {k} /\ k \notin DOMAIN advances
      /\ advances'[k] = s /\ \A a \in DOMAIN advances : advances'[a] = advances[a]
  <2>1. advances \in Seq(Advance)
    BY DEF AdvancesInv, AdvancesOK
  <2> QED
    BY <1>5, <1>7, <2>1
<1>9. cash \in Int /\ AdvancesOK'
  BY <1>1, <1>7, <1>8 DEF AdvancesInv, AdvancesOK
<1>10. \A a \in DOMAIN advances' : OwedOK(a)'
  BY <1>6, <1>7, <1>8 DEF AdvancesInv, OwedOK
<1>11. PlanOK'
  <2>1. Planned' = Planned
    BY <1>7 DEF Planned
  <2> QED
    BY <1>7, <1>8, <2>1 DEF AdvancesInv, PlanOK
<1>12. CashOK'
  <2> DEFINE f == [a \in DOMAIN advances |-> CashOf(advances[a])]
             g == [a \in DOMAIN advances' |-> CashOf(advances'[a])]
             P == SumFunctionOnSet([r \in Runs |-> PaidOut(runs[r])], Runs)
             F == SumFunctionOnSet(f, DOMAIN advances)
             G == SumFunctionOnSet(g, DOMAIN advances')
  <2>1. cash = F - P /\ F \in Int /\ P \in Int
    BY SumsAre DEF AdvancesInv, CashOK
  <2>2. CashOK' <=> cash' = G - P
    BY <1>7 DEF CashOK
  <2>3. \A a \in DOMAIN advances : f[a] \in Int /\ g[a] = f[a]
    BY <1>8, AdvanceIs DEF AdvancesInv
  <2>4. g[k] = -n /\ \A a \in DOMAIN advances' : g[a] \in Int
    BY <1>1, <1>6, <1>8, <2>3
  <2>5. IsFiniteSet(DOMAIN advances)
    BY AdvancesAreFinite DEF AdvancesInv
  <2>6. IsFiniteSet(DOMAIN advances') /\ k \in DOMAIN advances' /\ DOMAIN advances' \ {k} = DOMAIN advances
    <3> DEFINE S == DOMAIN advances
    <3>1. IsFiniteSet(S \cup {k})
      <4> HIDE DEF S, k
      <4> QED
        BY <2>5, FS_AddElement, ZenonT(60) DEF S
    <3> QED
      BY <1>8, <3>1
  <2> HIDE DEF f, g, P
  <2>7. SumFunctionOnSet(g, DOMAIN advances') = g[k] + SumFunctionOnSet(g, DOMAIN advances' \ {k})
    BY <2>4, <2>6, SumPull, ZenonT(60)
  <2>8. SumFunctionOnSet(g, DOMAIN advances) = SumFunctionOnSet(f, DOMAIN advances)
    BY <2>3, <2>5, SumSame
  <2>9. G = (-n) + F
    BY <2>4, <2>6, <2>7, <2>8
  <2> HIDE DEF F, G
  <2>10. cash' = G - P
    BY ONLY <1>1, <1>7, <2>1, <2>9
  <2> QED
    BY <2>2, <2>10
<1>13. LateOK'
  BY <1>7, <1>8 DEF AdvancesInv, LateOK
<1> QED
  BY <1>9, <1>10, <1>11, <1>12, <1>13 DEF AdvancesInv

LEMMA SettleKeeps ==
  ASSUME SlipsOK, AdvancesInv, CommitFinalizeRun
  PROVE  AdvancesInv'
<1> DEFINE plan == fin.plan
<1>1. /\ fin # NoCalc /\ fin.phase = "taken" /\ Settle(plan) /\ cash' = cash /\ raced' = raced /\ fin' = NoCalc
      /\ Planned = DOMAIN plan
  BY DEF CommitFinalizeRun, Planned
<1>2. \A a \in DOMAIN plan : /\ a \in DOMAIN advances /\ plan[a] \in Nat \ {0}
                             /\ a \notin raced => plan[a] <= Owed(advances[a])
  BY <1>1 DEF AdvancesInv, PlanOK
<1>3. /\ DOMAIN advances' = DOMAIN advances
      /\ \A a \in DOMAIN advances : advances'[a] = IF a \in DOMAIN plan THEN Append(advances[a], Row("PAYROLL_DEDUCTION", plan[a]))
                                                  ELSE advances[a]
      /\ advances' = [a \in DOMAIN advances |-> advances'[a]]
  BY <1>1 DEF Settle
<1>4. ASSUME NEW a \in DOMAIN advances
      PROVE  advances'[a] \in Advance /\ CashOf(advances'[a]) = CashOf(advances[a]) /\ OwedOK(a)'
  <2>1. advances[a] \in Advance /\ CashOf(advances[a]) \in Int /\ OwedOK(a)
    BY AdvanceIs DEF AdvancesInv
  <2>2. CASE a \notin DOMAIN plan
    BY <1>1, <1>3, <2>1, <2>2 DEF OwedOK
  <2>3. CASE a \in DOMAIN plan
    <3> DEFINE x == Row("PAYROLL_DEDUCTION", plan[a])
    <3>1. plan[a] \in Nat \ {0} /\ (a \notin raced => plan[a] <= Owed(advances[a]))
      BY <1>2, <2>3
    <3>2. x \in RowsType /\ ~x.rev /\ x.type = "PAYROLL_DEDUCTION" /\ x.amt = plan[a] /\ x.type \in Settling
      BY <3>1, RowIs DEF Types, Settling
    <3>3. advances'[a] = Append(advances[a], x)
      BY <1>3, <2>3
    <3> HIDE DEF x
    <3>4. /\ Append(advances[a], x) \in Advance
          /\ CashOf(Append(advances[a], x)) = CashOf(advances[a]) + (IF x.type = "REPAYMENT" THEN x.amt ELSE 0)
          /\ SettledOnce(advances[a]) /\ x.amt <= Owed(advances[a]) => SettledOnce(Append(advances[a], x))
      BY <2>1, <3>2, SettlesOnce
    <3>5. CashOf(advances'[a]) = CashOf(advances[a])
      BY <2>1, <3>2, <3>3, <3>4
    <3>6. OwedOK(a)'
      BY <1>1, <2>1, <3>1, <3>2, <3>3, <3>4 DEF OwedOK
    <3> QED
      BY <3>3, <3>4, <3>5, <3>6
  <2> QED
    BY <2>2, <2>3
<1>5. AdvancesOK'
  <2>1. DOMAIN advances = 1..Len(advances) /\ Len(advances) \in Nat /\ cash \in Int
    BY AdvancesAreFinite DEF AdvancesInv, AdvancesOK
  <2>2. advances' \in Seq(Advance)
    BY <1>3, <1>4, <2>1, IsASeq
  <2> QED
    BY <1>1, <2>1, <2>2 DEF AdvancesOK
<1>6. PlanOK'
  BY <1>1 DEF PlanOK, Planned
<1>7. CashOK'
  <2>1. \A q \in Runs : PaidOut(runs'[q]) = PaidOut(runs[q])
    BY CommitFinalizeRunIs
  <2>2. [r \in Runs |-> PaidOut(runs'[r])] = [r \in Runs |-> PaidOut(runs[r])]
    BY <2>1
  <2>3. [a \in DOMAIN advances' |-> CashOf(advances'[a])] = [a \in DOMAIN advances |-> CashOf(advances[a])]
    BY <1>3, <1>4
  <2>4. DOMAIN advances' = DOMAIN advances /\ CashOK
    BY <1>3 DEF AdvancesInv
  <2> QED
    BY <1>1, <2>2, <2>3, <2>4 DEF CashOK
<1>8. LateOK'
  <2>1. ASSUME NEW a \in DOMAIN advances
        PROVE  Len(advances[a]) \in 1..Len(advances'[a]) /\ \A n \in 1..Len(advances[a]) : n \in 1..Len(advances'[a])
    <3>1. advances[a] \in Seq(RowsType) /\ Len(advances[a]) >= 1
      BY AdvanceIs DEF AdvancesInv, Advance
    <3>2. advances'[a] = advances[a] \/ \E x : advances'[a] = Append(advances[a], x)
      BY <1>3
    <3>3. Len(advances'[a]) = Len(advances[a]) \/ Len(advances'[a]) = Len(advances[a]) + 1
      BY <3>1, <3>2
    <3> QED
      BY <3>1, <3>3
  <2>2. PICK S \in SUBSET DOMAIN plan : late' = late \cup {<<a, Len(advances[a])>> : a \in S}
    BY <1>1 DEF Settle
  <2>3. \A c \in late : c[1] \in DOMAIN advances /\ c[2] \in 1..Len(advances[c[1]])
    BY DEF AdvancesInv, LateOK
  <2> SUFFICES ASSUME NEW c \in late' PROVE c[1] \in DOMAIN advances /\ c[2] \in 1..Len(advances'[c[1]])
    BY <1>3 DEF LateOK
  <2>4. CASE c \in late
    BY <2>1, <2>3, <2>4
  <2>5. CASE \E a \in S : c = <<a, Len(advances[a])>>
    BY <1>2, <2>1, <2>5
  <2> QED
    BY <2>2, <2>4, <2>5
<1> QED
  BY <1>3, <1>4, <1>5, <1>6, <1>7, <1>8 DEF AdvancesInv

-----------------------------------------------------------------------------
(* Every step                                                                  *)

LEMMA AdvancesKeep ==
  ASSUME SlipsOK, AdvancesInv, AdvancesStep(Planned), UNCHANGED payVars
  PROVE  AdvancesInv'
<1>1. ASSUME NEW n \in 1..MaxAmount, NEW d \in Dates, CreateAdvance(n, d) PROVE AdvancesInv'
  BY <1>1, CreateAdvanceKeeps
<1>2. ASSUME NEW a \in DOMAIN advances, NEW n \in Views(a), NEW m \in 1..MaxAmount, Repay(a, n, m, Planned)
      PROVE  AdvancesInv'
  BY <1>2, RepayKeeps
<1>3. ASSUME NEW a \in DOMAIN advances, NEW n \in Views(a), WriteOff(a, n, Planned) PROVE AdvancesInv'
  BY <1>3, WriteOffKeeps
<1>4. ASSUME NEW a \in DOMAIN advances, NEW n \in Views(a), NEW i \in DOMAIN advances[a], Reverse(a, n, i, Planned)
      PROVE  AdvancesInv'
  BY <1>4, ReverseKeeps
<1> QED
  BY <1>1, <1>2, <1>3, <1>4 DEF AdvancesStep

\* A step that leaves advances and cash alone and plans nothing new.
LEMMA AdvancesRest ==
  ASSUME AdvancesInv, UNCHANGED advVars, PlanOK', \A q \in Runs : PaidOut(runs'[q]) = PaidOut(runs[q])
  PROVE  AdvancesInv'
<1>1. advances' = advances /\ cash' = cash /\ raced' = raced /\ late' = late
  BY DEF advVars
<1>2. CashOK'
  BY <1>1, CashStays DEF AdvancesInv
<1> QED
  BY <1>1, <1>2 DEF AdvancesInv, AdvancesOK, OwedOK, LateOK

LEMMA PlanStays ==
  ASSUME PlanOK, UNCHANGED advVars, fin' = fin
  PROVE  PlanOK'
<1>1. Planned' = Planned /\ advances' = advances /\ raced' = raced
  BY DEF Planned, advVars
<1> QED
  BY <1>1 DEF PlanOK

LEMMA TakeRunPlans ==
  ASSUME SlipsOK, AdvancesOK, TakeRun, UNCHANGED advVars
  PROVE  PlanOK'
<1>1. advances' = advances /\ raced' = raced /\ fin # NoCalc
  BY DEF advVars, TakeRun
<1>2. CASE MayTake
  <2>1. fin.slip.manual \in Int /\ "plan" \in DOMAIN fin /\ "phase" \in DOMAIN fin
    BY <1>1 DEF SlipsOK, FinOK, SlipOK
  <2>2. fin' = [fin EXCEPT !.phase = "taken", !.plan = Settlement(fin.slip.manual)]
    BY <1>2 DEF TakeRun
  <2>3. fin'.plan = Settlement(fin.slip.manual)
    BY <2>1, <2>2
  <2>4. Planned' \subseteq DOMAIN Settlement(fin.slip.manual)
    BY <2>3 DEF Planned
  <2>5. \A a \in DOMAIN Settlement(fin.slip.manual) :
           /\ a \in DOMAIN advances /\ Settlement(fin.slip.manual)[a] \in Nat \ {0}
           /\ Settlement(fin.slip.manual)[a] <= Owed(advances[a])
    BY <2>1, SettlementIs
  <2> QED
    BY <1>1, <2>3, <2>4, <2>5 DEF PlanOK
<1>3. CASE ~MayTake
  <2>1. fin' = NoCalc
    BY <1>3 DEF TakeRun
  <2> QED
    BY <2>1 DEF PlanOK, Planned
<1> QED
  BY <1>2, <1>3

\* A run moves, and nobody's money.
LEMMA RunsKeep ==
  ASSUME SlipsOK, AdvancesInv, NEW r \in Runs, RunStep(r) \/ ManualStep(r), UNCHANGED <<wfVars, tsVars, advVars>>
  PROVE  SlipsOK' /\ AdvancesInv'
<1>1. RunsOK' /\ CalcOK' /\ FinOK' /\ \A q \in Runs : PaidOut(runs'[q]) = PaidOut(runs[q])
  BY CreateIs, ManualIs, BeginCalculateIs, CommitCalculateIs, BeginFinalizeRunIs, TakeRunIs DEF RunStep
<1>2. SlipsOK'
  BY <1>1 DEF SlipsOK, wfVars, tsVars, WorkforceTypeOK, SheetsOK
<1>3. PlanOK'
  <2>1. PlanOK /\ AdvancesOK
    BY DEF AdvancesInv
  <2>2. CASE TakeRun
    BY <2>1, <2>2, TakeRunPlans
  <2>3. CASE BeginFinalizeRun(r)
    <3>1. fin'.phase = "verified"
      BY <2>3 DEF BeginFinalizeRun
    <3> QED
      BY <3>1 DEF PlanOK, Planned
  <2>4. CASE fin' = fin
    BY <2>1, <2>4, PlanStays
  <2>5. TakeRun \/ BeginFinalizeRun(r) \/ fin' = fin
    BY DEF RunStep, ManualStep, Create, BeginCalculate, CommitCalculate, AddManualComponent, ArchiveManualComponent
  <2> QED
    BY <2>2, <2>3, <2>4, <2>5
<1> QED
  BY <1>1, <1>2, <1>3, AdvancesRest

LEMMA PaymentsKeep ==
  ASSUME SlipsOK, AdvancesInv, NEW r \in Runs, Pay(r) \/ ReversePayment(r), UNCHANGED <<wfVars, tsVars>>
  PROVE  SlipsOK' /\ AdvancesInv'
<1>1. advances' = advances /\ raced' = raced /\ late' = late /\ fin' = fin
  BY DEF Pay, ReversePayment
<1>2. RunsOK' /\ CalcOK' /\ FinOK'
  BY PaymentIs
<1>3. SlipsOK'
  BY <1>2 DEF SlipsOK, wfVars, tsVars, WorkforceTypeOK, SheetsOK
<1>4. CashOK' /\ cash' \in Int
  BY <1>1, PaymentKeepsCash DEF AdvancesInv
<1>5. Planned' = Planned
  BY <1>1 DEF Planned
<1> QED
  BY <1>1, <1>3, <1>4, <1>5 DEF AdvancesInv, AdvancesOK, OwedOK, PlanOK, LateOK

LEMMA PayrollStart == PayrollInit => PayrollInv
<1> SUFFICES ASSUME PayrollInit PROVE PayrollInv
  OBVIOUS
<1> USE DEF PayrollInit, WorkforceInit, TimesheetInit, AdvancesInit
<1>1. WorkforceTypeOK
  <2>1. Min(Wages) \in Nat
    <3>1. PICK m \in Wages : \A n \in Wages : m <= n
      BY WorkforceAssumption, LeastElement
    <3>2. Min(Wages) \in Wages
      BY <3>1 DEF Min
    <3> QED
      BY <3>2, WorkforceAssumption
  <2> DEFINE x == [state |-> "ACTIVE", from |-> 1, minimum |-> Min(Wages), prev |-> 0]
  <2>2. x \in Pack
    BY <2>1, DatesAre, WorkforceAssumption DEF Pack
  <2> HIDE DEF x
  <2>3. packs = <<x>>
    BY DEF x
  <2>4. packs \in Seq(Pack) /\ Len(packs) <= MaxPacks
    BY <2>2, <2>3, WorkforceAssumption
  <2>5. emps \in Seq(Employment) /\ Len(emps) <= MaxEmployments
    BY WorkforceAssumption
  <2>6. terms = {} /\ raises = {}
    OBVIOUS
  <2> QED
    BY <2>4, <2>5, <2>6 DEF WorkforceTypeOK
<1>2. SheetsOK
  <2>1. SheetOK(NoSheet)
    BY FS_EmptySet DEF SheetOK, NoSheet
  <2> QED
    BY <2>1 DEF SheetsOK
<1>3. RunsOK
  <2>1. RunOK(NoRun)
    BY DEF RunOK, NoRun
  <2> QED
    BY <2>1 DEF RunsOK
<1>4. CalcOK /\ FinOK /\ PlanOK /\ LateOK
  BY DEF CalcOK, FinOK, PlanOK, Planned, LateOK
<1>5. AdvancesOK /\ DOMAIN advances = {}
  BY DEF AdvancesOK
<1>6. CashOK
  <2> DEFINE f == [a \in DOMAIN advances |-> CashOf(advances[a])]
             g == [r \in Runs |-> PaidOut(runs[r])]
  <2>1. \A r \in Runs : g[r] = 0
    BY DEF PaidOut, NoRun
  <2> HIDE DEF f, g
  <2>2. SumFunctionOnSet(f, DOMAIN advances) = 0
    BY <1>5, SumZero, FS_EmptySet
  <2>3. SumFunctionOnSet(g, Runs) = 0
    BY <2>1, SumZero, PayrollAssumption
  <2> QED
    BY <2>2, <2>3 DEF CashOK, f, g
<1> QED
  BY <1>1, <1>2, <1>3, <1>4, <1>5, <1>6 DEF PayrollInv, SlipsOK

LEMMA PayrollStays == PayrollInv /\ [PayrollNext]_payrollVars => PayrollInv'
<1> SUFFICES ASSUME SlipsOK, AdvancesInv, [PayrollNext]_payrollVars PROVE SlipsOK' /\ AdvancesInv'
  BY DEF PayrollInv, AdvancesInv
<1>1. ASSUME UNCHANGED payVars PROVE CalcOK' /\ FinOK' /\ RunsOK' /\ \A q \in Runs : PaidOut(runs'[q]) = PaidOut(runs[q])
  BY <1>1 DEF payVars, SlipsOK, CalcOK, FinOK, RunsOK
<1>2. ASSUME UNCHANGED payVars, UNCHANGED advVars PROVE AdvancesInv'
  <2>1. PlanOK'
    BY <1>2, PlanStays DEF payVars, AdvancesInv
  <2> QED
    BY <1>1, <1>2, <2>1, AdvancesRest
<1>3. ASSUME UNCHANGED wfVars PROVE WorkforceTypeOK'
  BY <1>3 DEF SlipsOK, WorkforceTypeOK, wfVars
<1>4. ASSUME UNCHANGED tsVars PROVE SheetsOK'
  BY <1>4 DEF SlipsOK, SheetsOK, tsVars
<1>5. CASE WorkforceNext /\ UNCHANGED <<tsVars, advVars, payVars>>
  <2>1. WorkforceTypeOK'
    BY <1>5, WorkforceStays DEF SlipsOK
  <2> QED
    BY <1>1, <1>2, <1>4, <1>5, <2>1 DEF SlipsOK
<1>6. ASSUME NEW m \in MonthsOfYear, SheetStep(m), UNCHANGED <<wfVars, advVars, payVars>> PROVE SlipsOK' /\ AdvancesInv'
  <2>1. SheetsOK'
    BY <1>6, SheetsStay DEF SlipsOK
  <2> QED
    BY <1>1, <1>2, <1>3, <1>6, <2>1 DEF SlipsOK
<1>7. ASSUME NEW r \in Runs, RunStep(r) \/ ManualStep(r), UNCHANGED <<wfVars, tsVars, advVars>> PROVE SlipsOK' /\ AdvancesInv'
  BY <1>7, RunsKeep
<1>8. CASE AdvancesStep(Planned) /\ UNCHANGED <<wfVars, tsVars, payVars>>
  <2>1. AdvancesInv'
    BY <1>8, AdvancesKeep
  <2> QED
    BY <1>1, <1>3, <1>4, <1>8, <2>1 DEF SlipsOK
<1>9. CASE CommitFinalizeRun /\ UNCHANGED <<wfVars, tsVars>>
  <2>1. RunsOK' /\ CalcOK' /\ FinOK'
    BY <1>9, CommitFinalizeRunIs
  <2>2. AdvancesInv'
    BY <1>9, SettleKeeps
  <2> QED
    BY <1>3, <1>4, <1>9, <2>1, <2>2 DEF SlipsOK
<1>10. ASSUME NEW r \in Runs, Pay(r) \/ ReversePayment(r), UNCHANGED <<wfVars, tsVars>> PROVE SlipsOK' /\ AdvancesInv'
  BY <1>10, PaymentsKeep
<1>11. CASE UNCHANGED payrollVars
  <2>1. UNCHANGED <<wfVars, tsVars, advVars, payVars>>
    BY <1>11 DEF payrollVars
  <2> QED
    BY <1>1, <1>2, <1>3, <1>4, <2>1 DEF SlipsOK
<1> QED
  BY <1>5, <1>6, <1>7, <1>8, <1>9, <1>10, <1>11 DEF PayrollNext, CashStep

\* Only the commit of a finalisation finalises, and only the run it holds.
LEMMA OnlyCommitFinalizes ==
  ASSUME SlipsOK, [PayrollNext]_payrollVars, NEW q \in Runs, runs[q].state # "FINALIZED", runs'[q].state = "FINALIZED"
  PROVE  CommitFinalizeRun
<1>1. DOMAIN runs = Runs /\ RunOK(runs[q])
  BY DEF SlipsOK, RunsOK
<1>2. runs' # runs
  OBVIOUS
<1>3. ASSUME NEW r \in Runs, NEW m, Create(r, m) PROVE FALSE
  <2>1. "state" \in DOMAIN runs[q]
    BY <1>1 DEF RunOK
  <2> QED
    BY <1>1, <1>3, <2>1 DEF Create
<1>4. ASSUME NEW r \in Runs, ManualStep(r) PROVE FALSE
  <2>1. "manual" \in DOMAIN runs[q] /\ "state" \in DOMAIN runs[q]
    BY <1>1 DEF RunOK
  <2>2. PICK n : runs' = [runs EXCEPT ![r].manual = n]
    BY <1>4 DEF ManualStep, AddManualComponent, ArchiveManualComponent
  <2> QED
    BY <1>1, <2>1, <2>2
<1>5. ~CommitCalculate
  <2> SUFFICES ASSUME CommitCalculate PROVE FALSE
    OBVIOUS
  <2>1. PICK s : runs' = runs \/ runs' = [runs EXCEPT ![calc.run].state = "CALCULATED", ![calc.run].active = s,
                                                     ![calc.run].version = @ + 1, ![calc.run].gens = @ + 1]
                              \/ runs' = [runs EXCEPT ![calc.run].state = "CALCULATION_FAILED",
                                                     ![calc.run].version = @ + 1, ![calc.run].gens = @ + 1]
    BY DEF CommitCalculate
  <2>2. "state" \in DOMAIN runs[q]
    BY <1>1 DEF RunOK
  <2> QED
    BY <1>1, <1>2, <2>1, <2>2
<1>6. ASSUME NEW r \in Runs, Pay(r) \/ ReversePayment(r) PROVE FALSE
  BY <1>6, PaymentIs
<1>7. ASSUME NEW r \in Runs, RunStep(r) PROVE FALSE
  BY <1>2, <1>3, <1>5, <1>7 DEF RunStep, BeginCalculate, BeginFinalizeRun, TakeRun
<1>8. UNCHANGED payVars => FALSE
  BY <1>2 DEF payVars
<1> QED
  BY <1>4, <1>6, <1>7, <1>8 DEF PayrollNext, CashStep, payrollVars

Frozen ==
    \A r \in Runs : runs[r].state # "FINALIZED" /\ runs'[r].state = "FINALIZED" =>
         LET slip == runs'[r].frozen
         IN  /\ slip = runs[r].active
             /\ slip.stable /\ fin.seen = Inputs(r) /\ Honest(runs[r].month) =>
                  /\ slip.wage = WageOf(runs[r].month)
                  /\ slip.manual = runs[r].manual
                  /\ ChecksumDays(slip.days) = ChecksumDays(sheets[runs[r].month].days)

LEMMA FreezesVerified ==
  ASSUME SlipsOK, [PayrollNext]_payrollVars
  PROVE  Frozen
<1> SUFFICES ASSUME NEW r \in Runs, runs[r].state # "FINALIZED", runs'[r].state = "FINALIZED"
             PROVE  LET slip == runs'[r].frozen
                    IN  /\ slip = runs[r].active
                        /\ slip.stable /\ fin.seen = Inputs(r) /\ Honest(runs[r].month) =>
                             /\ slip.wage = WageOf(runs[r].month)
                             /\ slip.manual = runs[r].manual
                             /\ ChecksumDays(slip.days) = ChecksumDays(sheets[runs[r].month].days)
  BY DEF Frozen
<1>1. CommitFinalizeRun
  BY OnlyCommitFinalizes
<1>2. fin.run = r /\ runs'[r].frozen = fin.slip /\ runs[r].active = fin.slip
  BY <1>1, CommitFinalizeRunIs
<1>3. /\ SlipOK(fin.slip) /\ fin.slip.wage = fin.seen.wage /\ fin.slip.fp.checksum = fin.seen.sheet.checksum
      /\ fin.slip.fp.manual = fin.seen.manual
  BY <1>1 DEF CommitFinalizeRun, SlipsOK, FinOK
<1>4. ASSUME fin.slip.stable, fin.seen = Inputs(r), Honest(runs[r].month)
      PROVE  /\ fin.slip.wage = WageOf(runs[r].month)
             /\ fin.slip.manual = runs[r].manual
             /\ ChecksumDays(fin.slip.days) = ChecksumDays(sheets[runs[r].month].days)
  <2>1. fin.slip.fp.checksum = ChecksumDays(fin.slip.days) /\ fin.slip.fp.manual = fin.slip.manual
    BY <1>3, <1>4 DEF SlipOK
  <2>2. fin.seen.wage = WageOf(runs[r].month) /\ fin.seen.sheet = sheets[runs[r].month] /\ fin.seen.manual = runs[r].manual
    BY <1>4 DEF Inputs
  <2>3. sheets[runs[r].month].checksum = ChecksumDays(sheets[runs[r].month].days)
    BY <1>4 DEF Honest
  <2> QED
    BY <1>3, <2>1, <2>2, <2>3
<1> QED
  BY <1>2, <1>4

LEMMA MoneyFollows == PayrollInv => MoneyIsExplained
<1> SUFFICES ASSUME PayrollInv PROVE MoneyIsExplained
  OBVIOUS
<1>1. AdvancesOK /\ CashOK
  BY DEF PayrollInv
<1>2. [a \in DOMAIN advances |-> AdvanceCash(advances[a])] = [a \in DOMAIN advances |-> CashOf(advances[a])]
  BY <1>1, AdvanceIs
<1>3. CashIsExplained
  BY <1>1, <1>2 DEF CashOK, CashIsExplained
<1>4. ASSUME NEW a \in DOMAIN advances \ raced
      PROVE  Outstanding(advances[a]) >= 0 /\ (Status(advances[a]) = "REVERSED" => Unreversed(advances[a], Settling) = {})
  <2>1. /\ Outstanding(advances[a]) = Owed(advances[a])
        /\ \A T : Unreversed(advances[a], T) = RowsOf(advances[a], T)
    BY <1>1, AdvanceIs
  <2>2. SettledOnce(advances[a])
    BY DEF PayrollInv, OwedOK
  <2>3. Status(advances[a]) = "REVERSED" => Unreversed(advances[a], {"DISBURSEMENT"}) = {}
    BY DEF Status
  <2> QED
    BY <2>1, <2>2, <2>3 DEF SettledOnce
<1> QED
  BY <1>3, <1>4 DEF MoneyIsExplained, NothingSettledTwice

LEMMA PayrollIsInvariant == PayrollSpec => []PayrollInv
BY PayrollStart, PayrollStays, PTL DEF PayrollSpec

\* The cash account is explained by the payrolls that are paid and the advances that
\* stand, and no advance is settled twice, whatever the number of runs, advances,
\* months and days and in whatever order payroll, timesheet, personnel and advance
\* commands interleave with the steps of a finalisation.
THEOREM MoneyStaysExplained == PayrollSpec => []MoneyIsExplained
BY PayrollIsInvariant, MoneyFollows, PTL

\* A finalisation freezes the slips of the last calculation, and they are what the
\* inputs give at that moment when nobody moved one under the calculation or the
\* finalisation.
THEOREM FrozenWasVerified == PayrollSpec => VerifiedIsFrozen
<1>1. PayrollInv /\ [PayrollNext]_payrollVars => [Frozen]_payrollVars
  BY FreezesVerified DEF PayrollInv
<1>2. VerifiedIsFrozen <=> [][Frozen]_payrollVars
  BY DEF VerifiedIsFrozen, Frozen
<1> QED
  BY <1>1, <1>2, PayrollIsInvariant, PTL DEF PayrollSpec

\* A wage that begins on a day leaves the wages of all earlier days as they were, also
\* when a minimum wage that moves raises many terms at once, but for the employments
\* whose terms another command moved between the raise's reading and its writing.
THEOREM HistoryStaysKept == PayrollSpec => HistoryIsKept
<1>1. PayrollInv /\ [PayrollNext]_payrollVars => [History]_wfVars
  <2> SUFFICES ASSUME PayrollInv, [PayrollNext]_payrollVars, ~UNCHANGED wfVars PROVE History
    OBVIOUS
  <2>1. WorkforceTypeOK
    BY DEF PayrollInv, SlipsOK
  <2>2. WorkforceNext
    BY DEF PayrollNext, payrollVars
  <2> QED
    BY <2>1, <2>2, WorkforceKeepsHistory
<1>2. HistoryIsKept <=> [][History]_wfVars
  BY DEF HistoryIsKept, History
<1> QED
  BY <1>1, <1>2, PayrollIsInvariant, PTL DEF PayrollSpec
=============================================================================
