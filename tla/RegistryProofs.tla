--------------------------- MODULE RegistryProofs ---------------------------
(***************************************************************************)
(* For every set of sellers, leads, call lists, deals and quotes: no two   *)
(* sellers call one lead, and a deal's stage agrees with its quote.  For   *)
(* every set of users, companies, seats, tokens and permissions: access    *)
(* follows membership, and the door lets nobody in on a spent code.        *)
(***************************************************************************)
EXTENDS Crm, Identity, WellFoundedInduction, TLAPS

-----------------------------------------------------------------------------
(* Sellers and their deals.  Every claim knows the claims it ran beside, and   *)
(* every taken item the ones its claim ran beside: a lead that two hold was    *)
(* taken by two that met.  A won deal and an accepted quote are settled        *)
(* together, in whichever order the link and the event arrive.                 *)

USE CrmAssumption

Statuses == {"NONE", "PENDING", "CALLBACK", "DONE", "SKIPPED"}
ItemType == [status: Statuses, attempts: Nat, due: BOOLEAN, by: Reps \cup {NoRep}, live: BOOLEAN,
             met: SUBSET Reps]
ClaimType == [on: Lists, seen: SUBSET (Leads \X Int), met: SUBSET Reps] \cup {NoClaim}

LeadTypeOK ==
    /\ item \in [Lists -> [Leads -> ItemType]]
    /\ claim \in [Reps -> ClaimType]

\* Two claims under way know of each other.
MetOK == \A r, s \in InFlight : r # s => r \in claim[s].met

\* A lead that a claim has seen, and that somebody took in another list since,
\* was taken by a claim that met this one.
SeenOK ==
    \A r \in InFlight : \A c \in claim[r].seen, p \in Lists :
        p # claim[r].on /\ item[p][c[1]].live => item[p][c[1]].by = r \/ r \in item[p][c[1]].met

LeadInv == LeadTypeOK /\ MetOK /\ SeenOK /\ OneCaller

\* Nobody claims anything at the start.
LEMMA LeadInvInit == LeadInit => LeadInv
<1> SUFFICES ASSUME LeadInit PROVE LeadInv
  OBVIOUS
<1>1. NoItem \in ItemType
  BY DEF NoItem, ItemType, Statuses, NoRep
<1>2. LeadTypeOK
  BY <1>1 DEF LeadInit, LeadTypeOK, ClaimType
<1>3. InFlight = {}
  BY DEF LeadInit, InFlight, NoClaim
<1>4. OneCaller
  BY DEF LeadInit, OneCaller, NoItem
<1> QED
  BY <1>2, <1>3, <1>4 DEF LeadInv, MetOK, SeenOK

\* What an entry says of its claim, if it has one.
Tells(i, j) == i.live => j.live /\ i.by = j.by /\ i.met = j.met

\* Entries that lose their claim, or keep it, disturb nothing.
LEMMA ItemsFreed ==
  ASSUME LeadInv, item' \in [Lists -> [Leads -> ItemType]], UNCHANGED claim,
         \A q \in Lists, l \in Leads : Tells(item'[q][l], item[q][l])
  PROVE  LeadInv'
<1>1. LeadTypeOK' /\ MetOK'
  BY DEF LeadInv, LeadTypeOK, MetOK, InFlight
<1>2. SeenOK'
  <2> SUFFICES ASSUME NEW r \in InFlight, NEW c \in claim[r].seen, NEW p \in Lists,
                      p # claim[r].on, item'[p][c[1]].live
               PROVE  item'[p][c[1]].by = r \/ r \in item'[p][c[1]].met
    BY DEF SeenOK, InFlight
  <2>1. c[1] \in Leads
    BY DEF LeadInv, LeadTypeOK, ClaimType, InFlight, NoClaim
  <2>2. item[p][c[1]].live => item[p][c[1]].by = r \/ r \in item[p][c[1]].met
    BY DEF LeadInv, SeenOK
  <2> QED
    BY <2>1, <2>2 DEF Tells
<1>3. OneCaller'
  BY DEF LeadInv, OneCaller, Tells
<1> QED
  BY <1>1, <1>2, <1>3 DEF LeadInv

\* Freeing an entry, queueing it, or taking it off the list.
LEMMA FreedType ==
  ASSUME NEW i \in ItemType
  PROVE  /\ Freed(i) \in ItemType /\ ~Freed(i).live /\ Freed(i).status = i.status
         /\ Freed(i).attempts = i.attempts /\ Freed(i).due = i.due
         /\ \A s \in Statuses : /\ [Freed(i) EXCEPT !.status = s] \in ItemType
                                /\ ~[Freed(i) EXCEPT !.status = s].live
         /\ Queued \in ItemType /\ ~Queued.live /\ NoItem \in ItemType /\ ~NoItem.live
BY DEF Freed, ItemType, Statuses, Queued, NoItem, NoRep

\* Closing a lead's entries frees them.
LEMMA ClosedType ==
  ASSUME NEW items \in [Lists -> [Leads -> ItemType]], NEW l \in Leads, NEW s \in Statuses
  PROVE  /\ closeLeadItems(items, l, s) \in [Lists -> [Leads -> ItemType]]
         /\ \A q \in Lists, k \in Leads : Tells(closeLeadItems(items, l, s)[q][k], items[q][k])
<1> SUFFICES ASSUME NEW q \in Lists
             PROVE  /\ closeLeadItems(items, l, s)[q] \in [Leads -> ItemType]
                    /\ \A k \in Leads : Tells(closeLeadItems(items, l, s)[q][k], items[q][k])
  BY DEF closeLeadItems
<1> DEFINE new == [Freed(items[q][l]) EXCEPT !.status = s]
<1>1. new \in ItemType /\ ~new.live
  BY FreedType
<1>2. closeLeadItems(items, l, s)[q] = IF Waiting(items[q][l]) THEN [items[q] EXCEPT ![l] = new] ELSE items[q]
  BY DEF closeLeadItems
<1> HIDE DEF new
<1> QED
  BY <1>1, <1>2 DEF Tells

\* A call frees the entries it counts in.
LEMMA AdvancedType ==
  ASSUME LeadTypeOK, NEW l \in Leads, NEW outcome
  PROVE  /\ advanceCallListItem(l, outcome) \in [Lists -> [Leads -> ItemType]]
         /\ \A q \in Lists, k \in Leads : Tells(advanceCallListItem(l, outcome)[q][k], item[q][k])
<1> SUFFICES ASSUME NEW q \in Lists
             PROVE  /\ advanceCallListItem(l, outcome)[q] \in [Leads -> ItemType]
                    /\ \A k \in Leads : Tells(advanceCallListItem(l, outcome)[q][k], item[q][k])
  BY DEF advanceCallListItem
<1> DEFINE state == NextItemState(outcome, item[q][l].attempts + 1, MaxAttempts[q])
           new == [Freed(item[q][l]) EXCEPT !.status = state, !.attempts = item[q][l].attempts + 1, !.due = FALSE]
<1>0. item[q][l] \in ItemType
  BY DEF LeadTypeOK
<1>1. state \in Statuses
  BY DEF NextItemState, Statuses
<1>2. new \in ItemType /\ ~new.live
  <2>1. ASSUME NEW i \in ItemType, NEW s \in Statuses, NEW n \in Nat, ~i.live
        PROVE  LET j == [i EXCEPT !.status = s, !.attempts = n, !.due = FALSE] IN j \in ItemType /\ ~j.live
    <3> DEFINE j == [i EXCEPT !.status = s, !.attempts = n, !.due = FALSE]
    <3>1. j \in ItemType
      BY DEF ItemType
    <3>2. j.live = i.live
      BY DEF ItemType
    <3> QED
      BY <2>1, <3>1, <3>2
  <2>2. item[q][l].attempts + 1 \in Nat
    BY <1>0 DEF ItemType
  <2> QED
    BY <1>0, <1>1, <2>1, <2>2, FreedType
<1>3. advanceCallListItem(l, outcome)[q] = IF Waiting(item[q][l]) THEN [item[q] EXCEPT ![l] = new] ELSE item[q]
  BY DEF advanceCallListItem
<1> HIDE DEF new
<1> QED
  BY <1>2, <1>3 DEF LeadTypeOK, Tells

\* Everything a representative does with a lead, a call or a list, but claiming.
LEMMA LeadStepInv ==
  ASSUME LeadInv, NEW r \in Reps, NEW l \in Leads, LeadStep(r, l) \/ CallStep(r, l)
  PROVE  LeadInv'
<1> USE DEF Tells
<1>0. LeadTypeOK /\ item \in [Lists -> [Leads -> ItemType]]
  BY DEF LeadInv, LeadTypeOK
<1>1. ASSUME UNCHANGED <<item, claim>> PROVE LeadInv'
  BY <1>0, <1>1, ItemsFreed
<1>2. ASSUME NEW d \in BOOLEAN, CreateLead(r, l, d) \/ SetTaskDone(r, l, d) PROVE LeadInv'
  BY <1>1, <1>2 DEF CreateLead, SetTaskDone
<1>3. ASSUME NEW d \in BOOLEAN, SetDoNotCall(r, l, d) PROVE LeadInv'
  <2>1. /\ UNCHANGED claim
        /\ item' = closeLeadItems(item, l, "SKIPPED") \/ item' = item
    BY <1>3 DEF SetDoNotCall
  <2>2. "SKIPPED" \in Statuses
    BY DEF Statuses
  <2> QED
    BY <1>0, <1>1, <2>1, <2>2, ClosedType, ItemsFreed, SMTT(60)
<1>4. ASSUME NEW row, NEW q \in Lists \union {"none"}, NEW d \in BOOLEAN, ImportLeads(r, l, row, q, d)
      PROVE  LeadInv'
  <2>1. Queued \in ItemType /\ ~Queued.live
    BY <1>0, FreedType DEF ItemType, Queued, NoItem, Statuses
  <2>2. UNCHANGED claim
    BY <1>4 DEF ImportLeads
  <2>3. ASSUME NEW p \in Lists PROVE item'[p] = item[p] \/ item'[p] = [item[p] EXCEPT ![l] = Queued]
    BY <1>4, <2>3 DEF ImportLeads
  <2>4. item' \in [Lists -> [Leads -> ItemType]]
    BY <1>0, <1>4, <2>1 DEF ImportLeads
  <2>5. ASSUME NEW p \in Lists, NEW k \in Leads PROVE Tells(item'[p][k], item[p][k])
    <3>1. CASE item'[p] = item[p]
      BY <3>1
    <3>2. CASE item'[p] = [item[p] EXCEPT ![l] = Queued]
      <4>1. item'[p][k] = IF k = l THEN Queued ELSE item[p][k]
        BY <1>0, <3>2
      <4> QED
        BY <2>1, <4>1
    <3> QED
      BY <2>3, <3>1, <3>2
  <2> QED
    BY <2>2, <2>4, <2>5, ItemsFreed
<1>5. ASSUME NEW s, NEW n, NEW u, UpdateLead(r, l, s, n, u) PROVE LeadInv'
  BY <1>1, <1>5 DEF UpdateLead
<1>6. ASSUME NEW k, CreateActivity(r, l, k) PROVE LeadInv'
  BY <1>1, <1>6 DEF CreateActivity
<1>7. ASSUME NEW c, NEW b, NEW q, LogCall(r, l, c, b, q) PROVE LeadInv'
  <2> DEFINE advanced == advanceCallListItem(l, c)
  <2>1. /\ UNCHANGED claim
        /\ item' = closeLeadItems(advanced, l, "SKIPPED") \/ item' = advanced
    BY <1>7 DEF LogCall
  <2>2. /\ advanced \in [Lists -> [Leads -> ItemType]]
        /\ \A p \in Lists, k \in Leads : Tells(advanced[p][k], item[p][k])
    BY <1>0, AdvancedType
  <2> HIDE DEF advanced
  <2>3. /\ closeLeadItems(advanced, l, "SKIPPED") \in [Lists -> [Leads -> ItemType]]
        /\ \A p \in Lists, k \in Leads : Tells(closeLeadItems(advanced, l, "SKIPPED")[p][k], advanced[p][k])
    BY <2>2, ClosedType DEF Statuses
  <2>4. /\ item' \in [Lists -> [Leads -> ItemType]]
        /\ \A p \in Lists, k \in Leads : Tells(item'[p][k], item[p][k])
    BY <2>1, <2>2, <2>3
  <2> QED
    BY <2>1, <2>4, ItemsFreed
<1>8. ASSUME NEW q \in Lists, NEW s \in BOOLEAN, ReleaseItem(r, q, l, s) PROVE LeadInv'
  <2>0. item[q][l] \in ItemType
    BY <1>0
  <2>1. PICK status \in Statuses : item' = [item EXCEPT ![q][l] = [Freed(item[q][l]) EXCEPT !.status = status]]
    <3>1. CASE s
      BY <1>8, <3>1 DEF ReleaseItem, Statuses
    <3>2. CASE ~s
      <4>1. item[q][l].status \in Statuses
        BY <2>0 DEF ItemType
      <4> QED
        BY <1>8, <3>2, <4>1 DEF ReleaseItem
    <3> QED
      BY <3>1, <3>2
  <2> DEFINE new == [Freed(item[q][l]) EXCEPT !.status = status]
  <2>a. new \in ItemType /\ ~new.live
    BY <2>0, FreedType
  <2>2. item' = [item EXCEPT ![q][l] = new] /\ UNCHANGED claim
    BY <1>8, <2>1 DEF ReleaseItem
  <2> HIDE DEF new
  <2>3. item' \in [Lists -> [Leads -> ItemType]]
    BY <1>0, <2>a, <2>2
  <2>4. \A p \in Lists, k \in Leads : item'[p][k] = IF p = q /\ k = l THEN new ELSE item[p][k]
    BY <1>0, <2>2
  <2>5. \A p \in Lists, k \in Leads : Tells(item'[p][k], item[p][k])
    BY <2>a, <2>4
  <2> QED
    BY <2>2, <2>3, <2>5, ItemsFreed
<1> QED
  BY <1>2, <1>3, <1>4, <1>5, <1>6, <1>7, <1>8 DEF LeadStep, CallStep

\* Filling, archiving and deleting lists, and the passing of time.
LEMMA ListStepInv ==
  ASSUME LeadInv, NEW q \in Lists, NEW ls \in SUBSET Leads,
         CommitAddLeads(q) \/ (\E b \in BOOLEAN : BeginAddLeads(q, ls, b)) \/ (\E l \in ls : Lapse(q, l))
         \/ ListStep(q, ls)
  PROVE  LeadInv'
<1> USE DEF Tells
<1>0. /\ item \in [Lists -> [Leads -> ItemType]]
      /\ Queued \in ItemType /\ ~Queued.live /\ NoItem \in ItemType /\ ~NoItem.live
  BY DEF LeadInv, LeadTypeOK, ItemType, Queued, NoItem, Statuses, NoRep
<1>1. ASSUME UNCHANGED <<item, claim>> PROVE LeadInv'
  BY <1>0, <1>1, ItemsFreed
<1>2. ASSUME NEW row \in [Leads -> ItemType], item' = [item EXCEPT ![q] = row], UNCHANGED claim,
             \A l \in Leads : Tells(row[l], item[q][l])
      PROVE  LeadInv'
  <2>1. item' \in [Lists -> [Leads -> ItemType]]
    BY <1>0, <1>2
  <2>2. \A p \in Lists : item'[p] = IF p = q THEN row ELSE item[p]
    BY <1>0, <1>2
  <2>3. \A p \in Lists, k \in Leads : Tells(item'[p][k], item[p][k])
    BY <1>2, <2>2
  <2> QED
    BY <1>2, <2>1, <2>3, ItemsFreed
<1>3. CASE CommitAddLeads(q)
  <2> DEFINE row == [l \in Leads |-> IF l \in adding[q] THEN Queued ELSE item[q][l]]
  <2>1. row \in [Leads -> ItemType] /\ \A l \in Leads : Tells(row[l], item[q][l])
    BY <1>0
  <2> QED
    BY <1>2, <1>3, <2>1 DEF CommitAddLeads
<1>4. CASE \E b \in BOOLEAN : BeginAddLeads(q, ls, b)
  BY <1>1, <1>4 DEF BeginAddLeads
<1>5. ASSUME NEW l \in ls, Lapse(q, l) PROVE LeadInv'
  <2>1. /\ UNCHANGED claim
        /\ \/ UNCHANGED item
           \/ item' = [item EXCEPT ![q][l].live = FALSE]
           \/ item' = [item EXCEPT ![q][l].due = TRUE]
    BY <1>5 DEF Lapse
  <2>2. CASE item' = [item EXCEPT ![q][l].live = FALSE]
    <3> DEFINE new == [item[q][l] EXCEPT !.live = FALSE]
               row == [item[q] EXCEPT ![l] = new]
    <3>0. item[q][l] \in ItemType
      BY <1>0
    <3>a. new \in ItemType /\ Tells(new, item[q][l])
      BY <3>0 DEF ItemType
    <3> HIDE DEF new
    <3>1. row \in [Leads -> ItemType] /\ \A k \in Leads : Tells(row[k], item[q][k])
      BY <1>0, <3>a
    <3> USE DEF new
    <3>2. item' = [item EXCEPT ![q] = row]
      BY <2>2
    <3> QED
      BY <1>2, <2>1, <3>1, <3>2
  <2>3. CASE item' = [item EXCEPT ![q][l].due = TRUE]
    <3> DEFINE new == [item[q][l] EXCEPT !.due = TRUE]
               row == [item[q] EXCEPT ![l] = new]
    <3>0. item[q][l] \in ItemType
      BY <1>0
    <3>a. new \in ItemType /\ Tells(new, item[q][l])
      BY <3>0 DEF ItemType
    <3> HIDE DEF new
    <3>1. row \in [Leads -> ItemType] /\ \A k \in Leads : Tells(row[k], item[q][k])
      BY <1>0, <3>a
    <3> USE DEF new
    <3>2. item' = [item EXCEPT ![q] = row]
      BY <2>3
    <3> QED
      BY <1>2, <2>1, <3>1, <3>2
  <2> QED
    BY <1>1, <2>1, <2>2, <2>3
<1>6. CASE ListStep(q, ls)
  <2>1. CASE CreateCallList(q)
    BY <1>1, <2>1 DEF CreateCallList
  <2>2. CASE DeleteCallList(q)
    <3> DEFINE row == [l \in Leads |-> NoItem]
    <3>1. row \in [Leads -> ItemType] /\ \A l \in Leads : Tells(row[l], item[q][l])
      BY <1>0
    <3> QED
      BY <1>2, <2>2, <3>1 DEF DeleteCallList
  <2>3. ASSUME NEW b \in BOOLEAN, ArchiveCallList(q, b) PROVE LeadInv'
    <3> DEFINE row == [l \in Leads |-> Freed(item[q][l])]
    <3>1. \A l \in Leads : Freed(item[q][l]) \in ItemType /\ ~Freed(item[q][l]).live
      BY <1>0, FreedType
    <3>2. row \in [Leads -> ItemType] /\ \A l \in Leads : Tells(row[l], item[q][l])
      BY <3>1
    <3> QED
      BY <1>2, <2>3, <3>2 DEF ArchiveCallList
  <2>4. ASSUME NEW l \in ls, RemoveItems(q, l) PROVE LeadInv'
    <3> DEFINE row == [item[q] EXCEPT ![l] = NoItem]
    <3>1. row \in [Leads -> ItemType] /\ \A k \in Leads : Tells(row[k], item[q][k])
      BY <1>0
    <3>2. item' = [item EXCEPT ![q] = row] /\ UNCHANGED claim
      BY <2>4 DEF RemoveItems
    <3> QED
      BY <1>2, <3>1, <3>2
  <2> QED
    BY <1>6, <2>1, <2>2, <2>3, <2>4 DEF ListStep
<1> QED
  BY <1>3, <1>4, <1>5, <1>6

\* A claim begins: it meets the ones under way, and looks at leads nobody else holds.
LEMMA BeginClaimInv ==
  ASSUME LeadInv, NEW r \in Reps, NEW q \in Lists, BeginClaim(r, q)
  PROVE  LeadInv'
<1>0. /\ item' = item /\ item \in [Lists -> [Leads -> ItemType]]
      /\ claim \in [Reps -> ClaimType] /\ claim[r] = NoClaim
      /\ r \notin InFlight /\ InFlight \subseteq Reps
  BY DEF LeadInv, LeadTypeOK, BeginClaim, InFlight, NoClaim
<1>1. PICK seen \in SUBSET (Leads \X Int) :
        /\ claim' = [s \in Reps |->
             IF s = r THEN [on |-> q, met |-> InFlight, seen |-> seen]
             ELSE IF s \in InFlight THEN [claim[s] EXCEPT !.met = @ \union {r}] ELSE claim[s]]
        /\ \A c \in seen : ~HeldElsewhere(r, q, c[1])
  <2> DEFINE fit == {k \in Leads : /\ Takeable(r, q, k) /\ Callable(k) /\ canSee(r, k) /\ ~HeldElsewhere(r, q, k)}
             seen == {<<l, Rank(r, q, l)>> : l \in fit}
  <2>1. \A l : Rank(r, q, l) \in Int
    BY DEF Rank
  <2>2. seen \in SUBSET (Leads \X Int) /\ \A c \in seen : ~HeldElsewhere(r, q, c[1])
    BY <2>1
  <2> QED
    BY <2>2 DEF BeginClaim
<1>2. ASSUME NEW s \in InFlight
      PROVE  /\ claim[s] \in [on: Lists, seen: SUBSET (Leads \X Int), met: SUBSET Reps]
             /\ claim'[s] = [claim[s] EXCEPT !.met = @ \union {r}]
  BY <1>0, <1>1 DEF InFlight, ClaimType, NoClaim
<1>3. claim'[r] = [on |-> q, met |-> InFlight, seen |-> seen]
  BY <1>1
<1>4. ASSUME NEW s \in InFlight
      PROVE  /\ claim'[s] \in ClaimType /\ claim'[s].on = claim[s].on /\ claim'[s].seen = claim[s].seen
             /\ claim'[s].met = claim[s].met \cup {r}
  <2>1. claim[s].met \union {r} \in SUBSET Reps
    BY <1>2
  <2>2. claim'[s] \in [on: Lists, seen: SUBSET (Leads \X Int), met: SUBSET Reps]
    BY <1>2, <2>1
  <2> QED
    BY <1>2, <2>2, ZenonT(60) DEF ClaimType
<1>5. InFlight' = InFlight \cup {r}
  <2>1. \A s \in Reps \ (InFlight \cup {r}) : claim'[s].on = "none"
    BY <1>1 DEF InFlight
  <2>2. \A s \in InFlight : claim'[s].on # "none"
    BY <1>4 DEF InFlight
  <2>3. claim'[r].on # "none"
    BY <1>3
  <2>4. \A s \in Reps : s \in InFlight' <=> claim'[s].on # "none"
    BY DEF InFlight
  <2>5. InFlight' \subseteq Reps
    BY DEF InFlight
  <2> QED
    BY <1>0, <2>1, <2>2, <2>3, <2>4, <2>5
<1>6. LeadTypeOK'
  <2>1. claim'[r] \in ClaimType
    BY <1>0, <1>3 DEF ClaimType
  <2>2. \A s \in Reps : claim'[s] \in ClaimType
    BY <1>0, <1>1, <1>4, <2>1
  <2> QED
    BY <1>0, <1>1, <2>2 DEF LeadTypeOK
<1>7. MetOK'
  BY <1>3, <1>4, <1>5 DEF MetOK, LeadInv
<1>8. SeenOK'
  <2> SUFFICES ASSUME NEW s \in InFlight', NEW c \in claim'[s].seen, NEW p \in Lists,
                      p # claim'[s].on, item[p][c[1]].live
               PROVE  item[p][c[1]].by = s \/ s \in item[p][c[1]].met
    BY <1>0 DEF SeenOK
  <2>1. CASE s = r
    BY <1>1, <1>3, <2>1 DEF HeldElsewhere
  <2>2. CASE s \in InFlight
    BY <1>4, <2>2 DEF LeadInv, SeenOK
  <2> QED
    BY <1>5, <2>1, <2>2
<1>9. OneCaller'
  BY <1>0 DEF LeadInv, OneCaller
<1> QED
  BY <1>6, <1>7, <1>8, <1>9 DEF LeadInv

\* A claim ends: what it takes met every claim under way, and whoever holds the lead
\* in another list had met it.
LEMMA ClaimNextInv ==
  ASSUME LeadInv, NEW r \in Reps, ClaimNext(r)
  PROVE  LeadInv'
<1> DEFINE q == claim[r].on
           old == claim[r]
<1>0. /\ item \in [Lists -> [Leads -> ItemType]] /\ claim \in [Reps -> ClaimType]
      /\ old \in [on: Lists, seen: SUBSET (Leads \X Int), met: SUBSET Reps]
      /\ r \in InFlight /\ q \in Lists
  BY DEF LeadInv, LeadTypeOK, ClaimNext, ClaimType, InFlight
<1>1. claim' = [claim EXCEPT ![r] = NoClaim]
  BY DEF ClaimNext
<1>2. /\ InFlight' = InFlight \ {r}
      /\ \A s \in InFlight' : claim'[s] = claim[s]
  BY <1>0, <1>1 DEF InFlight, NoClaim
<1>3. claim' \in [Reps -> ClaimType]
  BY <1>0, <1>1 DEF ClaimType
<1>4. MetOK'
  BY <1>2 DEF LeadInv, MetOK
<1>5. CASE UNCHANGED item
  BY <1>0, <1>2, <1>3, <1>4, <1>5 DEF LeadInv, LeadTypeOK, SeenOK, OneCaller
<1>6. CASE ~UNCHANGED item
  <2>1. PICK c \in old.seen :
          item' = [item EXCEPT ![q] = [l \in Leads |->
                     IF l = c[1] THEN [item[q][l] EXCEPT !.by = r, !.live = TRUE, !.met = old.met]
                     ELSE IF item[q][l].by = r THEN Freed(item[q][l]) ELSE item[q][l]]]
    BY <1>6 DEF ClaimNext
  <2> DEFINE taken == [item[q][c[1]] EXCEPT !.by = r, !.live = TRUE, !.met = old.met]
  <2>2. c[1] \in Leads
    BY <1>0
  <2>3. taken \in ItemType /\ taken.by = r /\ taken.met = old.met /\ taken.live
    <3>1. item[q][c[1]] \in ItemType /\ old.met \in SUBSET Reps
      BY <1>0, <2>2
    <3>2. ASSUME NEW i \in ItemType, NEW met \in SUBSET Reps
          PROVE  LET j == [i EXCEPT !.by = r, !.live = TRUE, !.met = met]
                 IN j \in ItemType /\ j.by = r /\ j.met = met /\ j.live
      BY DEF ItemType
    <3> QED
      BY <3>1, <3>2
  <2>4. ASSUME NEW p \in Lists, NEW l \in Leads, p # q \/ l # c[1]
        PROVE  item'[p][l] \in ItemType /\ Tells(item'[p][l], item[p][l])
    <3>1. item'[p][l] = item[p][l] \/ item'[p][l] = Freed(item[p][l])
      BY <1>0, <2>1, <2>4
    <3> QED
      BY <1>0, <3>1, FreedType DEF Tells
  <2>5. item'[q][c[1]] = taken
    BY <1>0, <2>1, <2>2
  <2> HIDE DEF taken
  <2>6. item' \in [Lists -> [Leads -> ItemType]]
    <3>1. \A p \in Lists, l \in Leads : item'[p][l] \in ItemType
      BY <2>3, <2>4, <2>5
    <3>2. DOMAIN item' = Lists /\ item' = [p \in Lists |-> item'[p]]
      BY <1>0, <2>1
    <3>3. ASSUME NEW p \in Lists PROVE item'[p] \in [Leads -> ItemType]
      <4>1. item'[p] = [l \in Leads |-> item'[p][l]]
        BY <1>0, <2>1
      <4> QED
        BY <3>1, <4>1
    <3> QED
      BY <3>2, <3>3
  <2>7. SeenOK'
    <3> SUFFICES ASSUME NEW s \in InFlight', NEW d \in claim[s].seen, NEW p \in Lists,
                        p # claim[s].on, item'[p][d[1]].live
                 PROVE  item'[p][d[1]].by = s \/ s \in item'[p][d[1]].met
      BY <1>2 DEF SeenOK
    <3>1. s \in InFlight /\ s # r /\ d[1] \in Leads
      BY <1>0, <1>2 DEF InFlight, ClaimType, NoClaim
    <3>2. CASE p = q /\ d[1] = c[1]
      BY <1>0, <2>3, <2>5, <3>1, <3>2 DEF LeadInv, MetOK
    <3>3. CASE ~(p = q /\ d[1] = c[1])
      BY <2>4, <3>1, <3>3 DEF LeadInv, SeenOK, Tells
    <3> QED
      BY <3>2, <3>3
  <2>8. OneCaller'
    <3> SUFFICES ASSUME NEW l \in Leads, NEW p \in Lists, NEW o \in Lists,
                        item'[p][l].live, item'[o][l].live, item'[p][l].by # item'[o][l].by
                 PROVE  item'[o][l].by \in item'[p][l].met \/ item'[p][l].by \in item'[o][l].met
      BY DEF OneCaller
    <3>1. ASSUME NEW x \in Lists, x # q, item'[x][c[1]].live
          PROVE  item'[x][c[1]].by = r \/ r \in item'[x][c[1]].met
      BY <1>0, <2>2, <2>4, <3>1 DEF LeadInv, SeenOK, Tells
    <3>2. CASE l = c[1] /\ (p = q \/ o = q)
      BY <2>3, <2>5, <3>1, <3>2
    <3>3. CASE ~(l = c[1] /\ (p = q \/ o = q))
      BY <2>4, <3>3 DEF LeadInv, OneCaller, Tells
    <3> QED
      BY <3>2, <3>3
  <2> QED
    BY <1>3, <1>4, <2>6, <2>7, <2>8 DEF LeadInv, LeadTypeOK
<1> QED
  BY <1>5, <1>6
-----------------------------------------------------------------------------
OppType == [of: Leads \cup {"party", "none"}, stage: Stages \cup {"none"}, linked: BOOLEAN, version: Nat,
            excused: BOOLEAN]
MovingType == [Opps -> [to: Stages \cup {"none"}, version: Nat]]
PipeTypeOK ==
    /\ stage \subseteq Stages
    /\ opp \in [Opps -> OppType]
    /\ offer \in [status: {"SENT", "ACCEPTED", "ENDED"}, told: BOOLEAN, handled: BOOLEAN]
    /\ moving \in MovingType
    /\ winning \in [on: BOOLEAN, to: Stages \cup {"none"}, seen: [Opps -> Stages \cup {"none"}]]
Excusable(x) == x.linked /\ x.stage # "none" /\ Kind(x.stage) = "OPEN"
\* What the winning statement has seen is still there, or is a named case.
WinningOK ==
    winning.on =>
       /\ winning.to # "none" => Kind(winning.to) = "WON"
       /\ \A o \in Opps : Excusable(opp[o]) => opp[o].excused \/ opp[o].stage = winning.seen[o]
PipeInv == PipeTypeOK /\ WinningOK /\ AcceptedIsWon

LEMMA PipeInvInit == PipeInit => PipeInv
BY DEF PipeInit, PipeInv, PipeTypeOK, MovingType, OppType, NoOpp, NotWinning, NoStage, WinningOK, Excusable,
       AcceptedIsWon, Opened

\* What the statement leaves of a row: won, excused, or as it was.
LEMMA RowOutcome ==
  ASSUME NEW x \in OppType, NEW to \in Stages \cup {"none"}, NEW seen, to # "none" => Kind(to) = "WON"
  PROVE  /\ WonRow(x, to, seen) \in OppType
         /\ WonRow(x, to, seen).linked = x.linked
         /\ x.excused => WonRow(x, to, seen).excused
         /\ Excusable(WonRow(x, to, seen)) =>
               /\ Excusable(x) /\ WonRow(x, to, seen).stage = x.stage
               /\ to = "none" \/ x.stage = seen => WonRow(x, to, seen).excused
<1> DEFINE version == x.version + 1
           won == [x EXCEPT !.stage = to, !.version = version]
           excused == x.excused \/ x.linked
           late == [x EXCEPT !.excused = excused]
<1>1. version \in Nat
  BY DEF OppType
<1>2. CASE to = "none"
  <2>1. WonRow(x, to, seen) = late
    BY <1>2 DEF WonRow
  <2>2. late \in OppType /\ late.linked = x.linked /\ late.stage = x.stage /\ (x.excused \/ x.linked => late.excused)
    BY DEF OppType
  <2> QED
    BY <2>1, <2>2 DEF Excusable
<1>3. CASE to # "none" /\ x.linked /\ Kind(x.stage) = "OPEN" /\ x.stage = seen
  <2>1. WonRow(x, to, seen) = won
    BY <1>3 DEF WonRow
  <2> HIDE DEF version
  <2>2. won \in OppType /\ won.linked = x.linked /\ won.stage = to /\ won.excused = x.excused
    BY <1>1, <1>3 DEF OppType
  <2> QED
    BY <1>3, <2>1, <2>2 DEF Excusable
<1>4. CASE to # "none" /\ ~(x.linked /\ Kind(x.stage) = "OPEN" /\ x.stage = seen)
  <2>1. WonRow(x, to, seen) = x
    BY <1>4 DEF WonRow
  <2> QED
    BY <1>4, <2>1 DEF Excusable
<1> QED
  BY <1>2, <1>3, <1>4

\* The statement leaves open only what was open, and excuses or wins what it saw.
LEMMA WonSettles ==
  ASSUME NEW opps \in [Opps -> OppType], NEW to \in Stages \cup {"none"}, to # "none" => Kind(to) = "WON", NEW seen
  PROVE  LET new == winOpportunitiesForQuote(opps, to, seen)
         IN  /\ new \in [Opps -> OppType]
             /\ \A o \in Opps :
                   Excusable(new[o]) => /\ Excusable(opps[o]) /\ new[o].stage = opps[o].stage
                                        /\ opps[o].excused \/ opps[o].stage = seen[o] => new[o].excused
<1> DEFINE new == winOpportunitiesForQuote(opps, to, seen)
<1>1. \A o \in Opps : new[o] = WonRow(opps[o], to, seen[o])
  BY DEF winOpportunitiesForQuote
<1>2. ASSUME NEW o \in Opps
      PROVE  /\ new[o] \in OppType
             /\ Excusable(new[o]) => /\ Excusable(opps[o]) /\ new[o].stage = opps[o].stage
                                     /\ opps[o].excused \/ opps[o].stage = seen[o] => new[o].excused
  <2>1. opps[o] \in OppType
    OBVIOUS
  <2> QED
    BY <1>1, <2>1, RowOutcome
<1>3. new = [o \in Opps |-> new[o]]
  BY DEF winOpportunitiesForQuote
<1> HIDE DEF new
<1>4. new \in [Opps -> OppType]
  BY <1>2, <1>3
<1>5. QED
  BY <1>2, <1>4 DEF new

\* A stage to win in, or none.
LEMMA FirstWonType ==
  ASSUME PipeTypeOK, NEW w \in FirstWon
  PROVE  w \in Stages \cup {"none"} /\ (w # "none" => Kind(w) = "WON")
BY DEF PipeTypeOK, FirstWon, WonStages

LEMMA PipeInvNext ==
  ASSUME PipeInv, PipeStep \/ (\E r \in Reps, l \in Leads : ConvertLead(r, l)) \/ UNCHANGED pipeVars
  PROVE  PipeInv'
<1>0. PipeTypeOK /\ WinningOK /\ AcceptedIsWon /\ opp \in [Opps -> OppType] /\ moving \in MovingType
  BY DEF PipeInv, PipeTypeOK
<1> USE DEF Opened
<1>1. ASSUME UNCHANGED <<opp, winning, offer>>, stage' \subseteq Stages, moving' \in MovingType
      PROVE  PipeInv'
  BY <1>0, <1>1 DEF PipeInv, PipeTypeOK, WinningOK, Excusable, AcceptedIsWon
<1>2. ASSUME NEW s \in Stages, CreateStage(s) \/ UpdateStage(s) PROVE PipeInv'
  BY <1>0, <1>1, <1>2 DEF CreateStage, UpdateStage, PipeTypeOK
<1>3. ASSUME opp' \in [Opps -> OppType], UNCHANGED <<stage, winning, offer>>, moving' \in MovingType,
             \A p \in Opps : Excusable(opp'[p]) =>
                 \/ Excusable(opp[p]) /\ opp'[p].stage = opp[p].stage /\ (opp[p].excused => opp'[p].excused)
                 \/ Late => opp'[p].excused
      PROVE  PipeInv'
  <2>1. AcceptedIsWon'
    BY <1>0, <1>3 DEF AcceptedIsWon, Excusable, Late
  <2>2. WinningOK'
    BY <1>0, <1>3 DEF WinningOK, Excusable, Late
  <2> QED
    BY <1>0, <1>3, <2>1, <2>2 DEF PipeInv, PipeTypeOK
<1>13. ASSUME NEW o \in Opps, NEW opportunity \in OppType, opp' = [opp EXCEPT ![o] = opportunity],
              UNCHANGED <<stage, winning, offer>>, moving' \in MovingType,
              Late /\ Excusable(opportunity) => opportunity.excused
       PROVE  PipeInv'
  <2>1. \A p \in Opps : opp'[p] = IF p = o THEN opportunity ELSE opp[p]
    BY <1>0, <1>13
  <2>2. opp' \in [Opps -> OppType]
    BY <1>0, <1>13
  <2> QED
    BY <1>3, <1>13, <2>1, <2>2
<1>4. ASSUME NEW o \in Opps, LinkQuote(o) PROVE PipeInv'
  <2> DEFINE version == opp[o].version + 1
             excused == opp[o].excused \/ (linking[o] # "ACCEPTED" /\ Late)
             opportunity == [opp[o] EXCEPT !.linked = TRUE, !.version = version, !.excused = excused]
             linked == [opp EXCEPT ![o] = opportunity]
             Seen(passed) == [p \in Opps |-> IF p \in passed THEN "none" ELSE linked[p].stage]
  <2>v. opp[o] \in OppType /\ version \in Nat /\ excused \in BOOLEAN
    BY <1>0 DEF OppType
  <2>1. linked = [opp EXCEPT ![o] = [opp[o] EXCEPT !.linked = TRUE, !.version = @ + 1,
                                                   !.excused = @ \/ (linking[o] # "ACCEPTED" /\ Late)]]
    BY <1>0, Zenon
  <2>2. /\ IF linking[o] = "ACCEPTED"
           THEN \E w \in FirstWon, passed \in SUBSET {p \in Opps \ {o} : moving[p].to # "none"} :
                   opp' = winOpportunitiesForQuote(linked, w, Seen(passed))
           ELSE opp' = linked
        /\ UNCHANGED <<stage, moving, winning, offer>>
    BY <1>4, <2>1, Zenon DEF LinkQuote
  <2>3. /\ opportunity \in OppType /\ opportunity.stage = opp[o].stage
        /\ (opp[o].excused => opportunity.excused)
        /\ (linking[o] # "ACCEPTED" /\ Late => opportunity.excused)
    <3> HIDE DEF version, excused
    <3>1. opportunity \in OppType /\ opportunity.stage = opp[o].stage /\ opportunity.excused = excused
      BY <2>v DEF OppType
    <3> QED
      BY <3>1 DEF excused
  <2> HIDE DEF opportunity
  <2>4. linked \in [Opps -> OppType] /\ \A p \in Opps : linked[p] = IF p = o THEN opportunity ELSE opp[p]
    BY <1>0, <2>3
  <2> HIDE DEF linked
  <2>5. CASE linking[o] = "ACCEPTED"
    <3>1. PICK w \in FirstWon, passed \in SUBSET {p \in Opps \ {o} : moving[p].to # "none"} :
              opp' = winOpportunitiesForQuote(linked, w, Seen(passed))
      BY <2>2, <2>5
    <3>2. /\ opp' \in [Opps -> OppType]
          /\ \A p \in Opps :
                Excusable(opp'[p]) => /\ Excusable(linked[p]) /\ opp'[p].stage = linked[p].stage
                                      /\ linked[p].excused \/ linked[p].stage = Seen(passed)[p] => opp'[p].excused
      BY <1>0, <2>4, <3>1, FirstWonType, WonSettles
    <3>3. Seen(passed)[o] = linked[o].stage
      OBVIOUS
    <3> HIDE DEF Seen
    <3>4. Excusable(opp'[o]) => opp'[o].excused
      BY <3>2, <3>3
    <3>5. \A p \in Opps \ {o} : linked[p] = opp[p]
      BY <2>4
    <3>6. \A p \in Opps \ {o} :
             Excusable(opp'[p]) => Excusable(opp[p]) /\ opp'[p].stage = opp[p].stage /\ (opp[p].excused => opp'[p].excused)
      BY <3>2, <3>5
    <3> QED
      BY <1>0, <1>3, <2>2, <3>2, <3>4, <3>6
  <2>6. CASE linking[o] # "ACCEPTED"
    <3>1. opp' = [opp EXCEPT ![o] = opportunity]
      BY <2>2, <2>6 DEF linked
    <3> QED
      BY <1>0, <1>13, <2>2, <2>3, <2>6, <3>1
  <2> QED
    BY <2>5, <2>6
<1>5. ASSUME NEW o \in Opps, BeginLinkQuote(o) PROVE PipeInv'
  BY <1>0, <1>1, <1>5 DEF BeginLinkQuote, PipeTypeOK
<1>6. ASSUME NEW o \in Opps, MoveStage(o) PROVE PipeInv'
  <2> DEFINE to == moving[o].to
             version == opp[o].version + 1
             excused == Kind(to) = "OPEN" /\ Late
             opportunity == [opp[o] EXCEPT !.stage = to, !.version = version, !.excused = excused]
  <2>1. moving' \in MovingType /\ UNCHANGED <<stage, winning, offer>>
    BY <1>0, <1>6 DEF MoveStage, MovingType
  <2>2. opp' = [opp EXCEPT ![o] = opportunity] \/ opp' = opp
    BY <1>6, Zenon DEF MoveStage
  <2>v. opp[o] \in OppType /\ version \in Nat /\ to \in Stages \cup {"none"} /\ excused \in BOOLEAN
    BY <1>0 DEF OppType, MovingType
  <2>3. opportunity \in OppType /\ (Late /\ Excusable(opportunity) => opportunity.excused)
    <3> HIDE DEF version, excused, to
    <3>1. opportunity \in OppType /\ opportunity.stage = to /\ opportunity.excused = excused
      BY <2>v DEF OppType
    <3> HIDE DEF opportunity
    <3> QED
      BY <3>1 DEF excused, Excusable
  <2> HIDE DEF opportunity
  <2>5. CASE opp' = opp
    BY <1>0, <1>1, <2>1, <2>5 DEF PipeTypeOK
  <2>6. CASE opp' = [opp EXCEPT ![o] = opportunity]
    BY <1>13, <2>1, <2>3, <2>6
  <2> QED
    BY <2>2, <2>5, <2>6
<1>7. ASSUME NEW o \in Opps, NEW s \in Stages, BeginMoveStage(o, s) PROVE PipeInv'
  <2>1. moving' \in MovingType
    BY <1>0, <1>7 DEF BeginMoveStage, MovingType, OppType
  <2> QED
    BY <1>0, <1>1, <1>7, <2>1 DEF BeginMoveStage, PipeTypeOK
<1>8. ASSUME NEW o \in Opps, NEW s \in Stages, NEW l \in Leads \union {"party"}, CreateOpportunity(o, l, s)
      PROVE  PipeInv'
  <2>1. PICK of \in Leads \cup {"party"} :
          opp' = [opp EXCEPT ![o] = [NoOpp EXCEPT !.of = of, !.stage = s, !.version = 1]]
    BY <1>8 DEF CreateOpportunity
  <2> DEFINE opportunity == [NoOpp EXCEPT !.of = of, !.stage = s, !.version = 1]
  <2>2. opportunity \in OppType /\ ~Excusable(opportunity)
    BY DEF NoOpp, OppType, Excusable
  <2>3. opp' = [opp EXCEPT ![o] = opportunity]
    BY <2>1
  <2>4. UNCHANGED <<stage, moving, winning, offer>>
    BY <1>8 DEF CreateOpportunity
  <2> HIDE DEF opportunity
  <2> QED
    BY <1>0, <1>13, <2>2, <2>3, <2>4
<1>9. CASE AcceptQuote \/ EndQuote
  BY <1>0, <1>9 DEF AcceptQuote, EndQuote, PipeInv, PipeTypeOK, WinningOK, Excusable, AcceptedIsWon
<1>10. CASE BeginHandleQuote
  <2>1. PICK w \in FirstWon :
          winning' = [on |-> TRUE, to |-> w, seen |-> [o \in Opps |-> IF opp[o].linked THEN opp[o].stage ELSE "none"]]
    BY <1>10 DEF BeginHandleQuote
  <2>2. UNCHANGED <<stage, opp, linking, moving, offer>>
    BY <1>10 DEF BeginHandleQuote
  <2>3. w \in Stages \cup {"none"} /\ (w # "none" => Kind(w) = "WON")
    BY <1>0, FirstWonType
  <2>4. \A o \in Opps : opp[o].stage \in Stages \cup {"none"}
    BY <1>0 DEF OppType
  <2>5. PipeTypeOK'
    BY <1>0, <2>1, <2>2, <2>3, <2>4 DEF PipeTypeOK
  <2>6. WinningOK'
    BY <2>1, <2>2, <2>3 DEF WinningOK, Excusable
  <2> QED
    BY <1>0, <2>2, <2>5, <2>6 DEF PipeInv, AcceptedIsWon
<1>14. CASE HandleQuoteAccepted
  <2>1. /\ winning.on /\ winning' = NotWinning /\ UNCHANGED <<stage, moving>>
        /\ offer' = [offer EXCEPT !.handled = TRUE]
        /\ opp' = winOpportunitiesForQuote(opp, winning.to, winning.seen)
    BY <1>14 DEF HandleQuoteAccepted
  <2>2. winning.to \in Stages \cup {"none"} /\ (winning.to # "none" => Kind(winning.to) = "WON")
    BY <1>0, <2>1 DEF PipeTypeOK, WinningOK
  <2>3. /\ opp' \in [Opps -> OppType]
        /\ \A p \in Opps :
              Excusable(opp'[p]) => /\ Excusable(opp[p]) /\ opp'[p].stage = opp[p].stage
                                    /\ opp[p].excused \/ opp[p].stage = winning.seen[p] => opp'[p].excused
    BY <1>0, <2>1, <2>2, WonSettles
  <2>4. \A p \in Opps : Excusable(opp'[p]) => opp'[p].excused
    BY <1>0, <2>1, <2>3 DEF WinningOK
  <2>5. NotWinning \in [on: BOOLEAN, to: Stages \cup {"none"}, seen: [Opps -> Stages \cup {"none"}]] /\ ~NotWinning.on
    BY DEF NotWinning, NoStage
  <2>6. PipeTypeOK'
    BY <1>0, <2>1, <2>3, <2>5 DEF PipeTypeOK
  <2>7. WinningOK'
    BY <2>1, <2>5 DEF WinningOK
  <2>8. AcceptedIsWon'
    BY <2>4 DEF AcceptedIsWon, Excusable
  <2> QED
    BY <2>6, <2>7, <2>8 DEF PipeInv
<1>11. ASSUME NEW r \in Reps, NEW l \in Leads, ConvertLead(r, l) PROVE PipeInv'
  <2>1. /\ UNCHANGED <<stage, moving, winning, offer>>
        /\ opp' = [o \in Opps |-> IF opp[o].of = l THEN [opp[o] EXCEPT !.of = "party", !.version = @ + 1] ELSE opp[o]]
    BY <1>11 DEF ConvertLead
  <2>2. ASSUME NEW o \in Opps
        PROVE  /\ opp'[o] \in OppType /\ opp'[o].linked = opp[o].linked /\ opp'[o].stage = opp[o].stage
               /\ opp'[o].excused = opp[o].excused
    <3> DEFINE version == opp[o].version + 1
               new == [opp[o] EXCEPT !.of = "party", !.version = version]
    <3>1. opp[o] \in OppType /\ opp'[o] \in {opp[o], new}
      BY <1>0, <2>1
    <3>2. version \in Nat
      BY <1>0 DEF OppType
    <3> HIDE DEF version
    <3>3. /\ new \in OppType /\ new.linked = opp[o].linked /\ new.stage = opp[o].stage
          /\ new.excused = opp[o].excused
      BY <3>1, <3>2 DEF OppType
    <3> QED
      BY <3>1, <3>3
  <2>3. opp' \in [Opps -> OppType]
    BY <2>1, <2>2
  <2>4. \A p \in Opps : Excusable(opp'[p]) =>
           Excusable(opp[p]) /\ opp'[p].stage = opp[p].stage /\ (opp[p].excused => opp'[p].excused)
    BY <2>2 DEF Excusable
  <2> QED
    BY <1>0, <1>3, <2>1, <2>3, <2>4
<1>12. CASE UNCHANGED pipeVars
  BY <1>0, <1>1, <1>12 DEF pipeVars, PipeTypeOK
<1> QED
  BY <1>2, <1>4, <1>5, <1>6, <1>7, <1>8, <1>9, <1>10, <1>11, <1>12, <1>14 DEF PipeStep

LEMMA CrmInvNext ==
  ASSUME LeadInv, PipeInv, [CrmStep]_<<leadVars, pipeVars>>
  PROVE  LeadInv' /\ PipeInv'
<1>1. LeadInv'
  <2>1. CASE UNCHANGED leadVars
    <3>1. item' = item /\ claim' = claim /\ item \in [Lists -> [Leads -> ItemType]]
      BY <2>1 DEF leadVars, LeadInv, LeadTypeOK
    <3> QED
      BY <3>1, ItemsFreed DEF Tells
  <2>2. ASSUME NEW q \in Lists, NEW ls \in SUBSET Leads, QueueStep(q, ls) PROVE LeadInv'
    BY <2>2, ListStepInv, BeginClaimInv DEF QueueStep
  <2>3. ASSUME NEW r \in Reps, NEW l \in Leads, ConvertLead(r, l) PROVE LeadInv'
    BY <2>3, ClosedType, ItemsFreed DEF ConvertLead, LeadInv, LeadTypeOK, Statuses
  <2> QED
    BY <2>1, <2>2, <2>3, LeadStepInv, ListStepInv, ClaimNextInv DEF CrmStep
<1>2. PipeInv'
  BY PipeInvNext DEF CrmStep
<1> QED
  BY <1>1, <1>2

\* What one seller does reaches the others: two claims hold one lead only when each
\* was begun before the other ended, in different lists (ClaimNext, SKIP LOCKED and
\* the claim columns), and an accepted quote leaves no opportunity open
\* (HandleQuoteAccepted, LinkQuote) but for the named cases.
THEOREM SellersStayAgreed == CrmSpec => []SellersAgree
<1>1. LeadInv /\ PipeInv /\ [CrmStep]_<<leadVars, pipeVars>> => (LeadInv /\ PipeInv)'
  BY CrmInvNext
<1>2. LeadInv /\ PipeInv => SellersAgree
  BY DEF LeadInv, PipeInv, SellersAgree
<1>3. LeadInit /\ PipeInit => LeadInv /\ PipeInv
  BY LeadInvInit, PipeInvInit
<1> QED
  BY <1>1, <1>2, <1>3, PTL DEF CrmSpec

HIDE CrmAssumption

-----------------------------------------------------------------------------
(* Users and companies.  A deletion under way names a fallback that another    *)
(* one may take away, and only then is the owner left without a company.  A    *)
(* time step or a recovery code is used by the attempt that consumed it and by *)
(* no other: used steps lie behind the last one, used codes are off the list.  *)

USE IdentityAssumption

MemberType == [state: {"none", "active", "passive"}, version: Nat, roles: SUBSET {"admin", "clerk"}]
SeatType == [user: Users \cup {Nobody}, company: Companies \cup {NoCompany}, state: {"none", "open"}]
TokenType == [owner: Users \cup {Nobody}, company: Companies \cup {NoCompany}, scopes: SUBSET Permissions,
              state: {"none", "live", "revoked"}]
DeletionType == [company: Companies \cup {NoCompany}, fallback: Companies \cup {NoCompany}]

OfficeTypeOK ==
    /\ setupBy \in Users \cup {Nobody}
    /\ company \in [Companies -> {"none", "real", "demo"}]
    /\ member \in [Companies -> [Users -> MemberType]]
    /\ seat \in [Seats -> SeatType]
    /\ token \in [Tokens -> TokenType]
    /\ deletion \in [Seats -> DeletionType]
    /\ crossed \in BOOLEAN

\* Before the setup there is no company; afterwards the owner works in every real one,
\* and in some company unless the last was taken by a crossing.
OwnerOK ==
    /\ setupBy = Nobody => \A c \in Companies : ~Standing(c)
    /\ \A c \in Companies : company[c] = "real" => member[c][setupBy].state = "active"
    /\ setupBy # Nobody /\ ~crossed => \E c \in Companies : Standing(c) /\ member[c][setupBy].state = "active"

\* A company that is gone has no members.
GoneOK == \A c \in Companies, u \in Users : ~Standing(c) => member[c][u].state = "none"

\* Sessions and tokens name companies that stand.
SeatOK(s) ==
    /\ seat[s].state = "open" => seat[s].user \in Users
    /\ seat[s].company # NoCompany => crossed \/ Standing(seat[s].company)
TokenOK(t) == token[t] # NoToken => token[t].company \in Companies /\ Standing(token[t].company)

\* Only the owner deletes, from an open session, and falls back to another company.
DeletionOK(s) ==
    deletion[s] # NoDeletion =>
        /\ seat[s].state = "open" /\ seat[s].user = setupBy
        /\ deletion[s].company \in Companies
        /\ deletion[s].fallback \in Companies \ {deletion[s].company}

OfficeInv ==
    /\ OfficeTypeOK /\ OwnerOK /\ GoneOK
    /\ \A s \in Seats : SeatOK(s) /\ DeletionOK(s)
    /\ \A t \in Tokens : TokenOK(t)

\* The smallest of some companies is one of them.
LEMMA MinIsElement ==
  ASSUME NEW S, S \subseteq Companies, S # {}
  PROVE  Min(S) \in S
<1>1. IsWellFoundedOn(OpToRel(<, Nat), Nat)
  BY NatLessThanWellFounded
<1>2. S \subseteq Nat
  OBVIOUS
<1>3. PICK x \in S : \A y \in S : ~(<<y, x>> \in OpToRel(<, Nat))
  BY <1>1, <1>2, WFMin
<1>4. \A y \in S : ~(y < x)
  BY <1>2, <1>3 DEF OpToRel
<1>5. \A y \in S : x <= y
  BY <1>2, <1>4
<1> QED
  BY <1>5 DEF Min

\* No company, no session: the empty installation.
LEMMA OfficeInvInit == OfficeInit => OfficeInv
<1> SUFFICES ASSUME OfficeInit PROVE OfficeInv
  OBVIOUS
<1>1. NoSeat \in SeatType /\ NoSeat.state = "none" /\ NoSeat.company = NoCompany
  BY DEF NoSeat, SeatType
<1>2. NoToken \in TokenType /\ NoDeletion \in DeletionType
  BY DEF NoToken, TokenType, NoDeletion, DeletionType
<1>3. Stranger \in MemberType /\ Stranger.state = "none"
  BY DEF Stranger, MemberType
<1>4. OfficeTypeOK
  BY <1>1, <1>2, <1>3 DEF OfficeInit, OfficeTypeOK
<1>5. OwnerOK /\ GoneOK
  BY <1>3 DEF OfficeInit, OwnerOK, GoneOK, Standing
<1> QED
  BY <1>1, <1>4, <1>5 DEF OfficeInit, OfficeInv, SeatOK, DeletionOK, TokenOK

\* What the invariant says of an authenticated session and of one with a permission.
LEMMA SessionFacts ==
  ASSUME OfficeInv, NEW s \in Seats, Authenticate(s)
  PROVE  /\ seat[s] \in SeatType /\ seat[s].state = "open" /\ seat[s].user \in Users
         /\ \A p : HasPermission(s, p) => seat[s].company \in Companies /\ Standing(seat[s].company)
<1>1. seat[s] \in SeatType /\ seat[s].state = "open" /\ seat[s].user \in Users
  BY DEF Authenticate, OfficeInv, OfficeTypeOK, SeatOK
<1>2. ASSUME NEW p, HasPermission(s, p) PROVE seat[s].company \in Companies /\ Standing(seat[s].company)
  <2>1. seat[s].company \in Companies
    BY <1>1, <1>2 DEF HasPermission, SeatType
  <2>2. member[seat[s].company][seat[s].user].state = "active"
    BY <1>2 DEF HasPermission, permissions
  <2> QED
    BY <1>1, <2>1, <2>2 DEF OfficeInv, GoneOK
<1> QED
  BY <1>1, <1>2

\* A step of one session that leaves the companies, the members and the deletions alone.
LEMMA SeatMoves ==
  ASSUME OfficeInv, NEW s \in Seats, NEW to \in SeatType, seat' = [seat EXCEPT ![s] = to],
         UNCHANGED <<setupBy, company, member, token, deletion, crossed>>,
         to.state = "open" => to.user \in Users,
         to.company # NoCompany => crossed \/ Standing(to.company),
         deletion[s] # NoDeletion => to.state = "open" /\ to.user = seat[s].user
  PROVE  OfficeInv'
<1>1. \A r \in Seats : seat'[r] = IF r = s THEN to ELSE seat[r]
  BY DEF OfficeInv, OfficeTypeOK
<1>2. OfficeTypeOK' /\ OwnerOK' /\ GoneOK'
  BY DEF OfficeInv, OfficeTypeOK, OwnerOK, GoneOK, Standing
<1>3. \A r \in Seats : SeatOK(r)'
  BY <1>1 DEF OfficeInv, SeatOK, Standing
<1>4. \A r \in Seats : DeletionOK(r)'
  BY <1>1 DEF OfficeInv, DeletionOK
<1>5. \A t \in Tokens : TokenOK(t)'
  BY DEF OfficeInv, TokenOK, Standing
<1> QED
  BY <1>2, <1>3, <1>4, <1>5 DEF OfficeInv

\* A new company with its first member: everything that stood still stands.
LEMMA Provisioned ==
  ASSUME OfficeInv, NEW c \in Companies, NEW u \in Users, NEW kind \in {"real", "demo"},
         provisionCompany(c, u, kind), setupBy' \in Users,
         setupBy # Nobody => setupBy' = setupBy, setupBy = Nobody => setupBy' = u,
         kind = "real" => u = setupBy',
         NEW s \in Seats, NEW to \in SeatType, seat' = [seat EXCEPT ![s] = to],
         to.user \in Users, to.state = "open", to.company = c,
         deletion[s] # NoDeletion => to.user = seat[s].user,
         UNCHANGED <<token, deletion, crossed>>
  PROVE  OfficeInv'
<1> DEFINE first == [v \in Users |-> IF v = u THEN [state |-> "active", version |-> 1, roles |-> {"admin"}] ELSE Stranger]
<1>0. /\ company \in [Companies -> {"none", "real", "demo"}] /\ member \in [Companies -> [Users -> MemberType]]
      /\ ~Standing(c) /\ company' = [company EXCEPT ![c] = kind] /\ member' = [member EXCEPT ![c] = first]
      /\ OfficeTypeOK /\ OwnerOK /\ GoneOK
  BY DEF OfficeInv, OfficeTypeOK, provisionCompany
<1>1. first \in [Users -> MemberType] /\ first[u].state = "active"
  BY DEF MemberType, Stranger
<1> HIDE DEF first
<1>2. /\ \A d \in Companies : company'[d] = IF d = c THEN kind ELSE company[d]
      /\ \A d \in Companies : member'[d] = IF d = c THEN first ELSE member[d]
      /\ \A r \in Seats : seat'[r] = IF r = s THEN to ELSE seat[r]
  BY <1>0 DEF OfficeTypeOK
<1>3. OfficeTypeOK'
  BY <1>0, <1>1 DEF OfficeTypeOK
<1>4. (\A d \in Companies : Standing(d) => Standing(d)') /\ Standing(c)'
  BY <1>2 DEF Standing
<1>5. OwnerOK'
  <2>1. setupBy' # Nobody
    BY DEF Nobody
  <2>2. ASSUME NEW d \in Companies, company'[d] = "real" PROVE member'[d][setupBy'].state = "active"
    <3>1. CASE d = c
      BY <1>1, <1>2, <2>2, <3>1
    <3>2. CASE d # c
      <4>1. company[d] = "real" /\ member'[d] = member[d]
        BY <1>2, <2>2, <3>2
      <4>2. setupBy # Nobody
        BY <1>0, <4>1 DEF OwnerOK, Standing
      <4> QED
        BY <1>0, <4>1, <4>2 DEF OwnerOK
    <3> QED
      BY <3>1, <3>2
  <2>3. ASSUME ~crossed PROVE \E d \in Companies : Standing(d)' /\ member'[d][setupBy'].state = "active"
    <3>1. CASE setupBy = Nobody
      BY <1>1, <1>2, <1>4, <3>1
    <3>2. CASE setupBy # Nobody
      <4>1. PICK d \in Companies : Standing(d) /\ member[d][setupBy].state = "active"
        BY <1>0, <2>3, <3>2 DEF OwnerOK
      <4>2. d # c
        BY <1>0, <4>1
      <4> QED
        BY <1>2, <1>4, <3>2, <4>1, <4>2
    <3> QED
      BY <3>1, <3>2
  <2> QED
    BY <2>1, <2>2, <2>3 DEF OwnerOK
<1>6. GoneOK'
  BY <1>0, <1>2, <1>4 DEF GoneOK
<1>7. \A r \in Seats : SeatOK(r)'
  <2> SUFFICES ASSUME NEW r \in Seats PROVE SeatOK(r)'
    OBVIOUS
  <2>1. CASE r = s
    BY <1>2, <1>4, <2>1 DEF SeatOK
  <2>2. CASE r # s
    BY <1>0, <1>2, <1>4, <2>2, ZenonT(60) DEF SeatOK, OfficeInv, OfficeTypeOK, SeatType
  <2> QED
    BY <2>1, <2>2
<1>8. \A r \in Seats : DeletionOK(r)'
  <2> SUFFICES ASSUME NEW r \in Seats, deletion[r] # NoDeletion
               PROVE  /\ seat'[r].state = "open" /\ seat'[r].user = setupBy'
                      /\ deletion[r].company \in Companies
                      /\ deletion[r].fallback \in Companies \ {deletion[r].company}
    BY DEF DeletionOK
  <2>1. seat[r].state = "open" /\ seat[r].user = setupBy /\ seat[r].user \in Users
    BY DEF OfficeInv, DeletionOK, SeatOK
  <2>2. setupBy' = setupBy
    BY <2>1 DEF Nobody
  <2> QED
    BY <1>2, <2>1, <2>2 DEF OfficeInv, DeletionOK
<1>9. \A t \in Tokens : TokenOK(t)'
  BY <1>4 DEF OfficeInv, TokenOK
<1> QED
  BY <1>3, <1>5, <1>6, <1>7, <1>8, <1>9 DEF OfficeInv

\* A company goes with everything that hangs on it; the sessions are moved off it.
LEMMA Purged ==
  ASSUME OfficeInv, NEW c \in Companies, purgeCompanyRows(c), UNCHANGED setupBy,
         seat' \in [Seats -> SeatType],
         \A s \in Seats : /\ seat'[s].user = seat[s].user /\ seat'[s].state = seat[s].state
                          /\ seat'[s].company # NoCompany => crossed' \/ company'[seat'[s].company] # "none",
         \A s \in Seats : deletion'[s] \in {deletion[s], NoDeletion}, deletion' \in [Seats -> DeletionType],
         crossed' \in BOOLEAN, crossed => crossed',
         setupBy # Nobody /\ ~crossed' => \E d \in Companies \ {c} : member[d][setupBy].state = "active"
  PROVE  OfficeInv'
<1>0. /\ OfficeTypeOK /\ OwnerOK /\ GoneOK
      /\ company' = [company EXCEPT ![c] = "none"]
      /\ member' = [member EXCEPT ![c] = [v \in Users |-> Stranger]]
      /\ token' = [t \in Tokens |-> IF token[t].company = c THEN NoToken ELSE token[t]]
  BY DEF OfficeInv, purgeCompanyRows
<1>1. Stranger \in MemberType /\ Stranger.state = "none" /\ NoToken \in TokenType
  BY DEF Stranger, MemberType, NoToken, TokenType
<1>2. /\ \A d \in Companies : company'[d] = IF d = c THEN "none" ELSE company[d]
      /\ \A d \in Companies : d # c => member'[d] = member[d]
      /\ \A v \in Users : member'[c][v] = Stranger
  BY <1>0 DEF OfficeTypeOK
<1>3. OfficeTypeOK'
  <2>1. [v \in Users |-> Stranger] \in [Users -> MemberType]
    BY <1>1
  <2>2. member' \in [Companies -> [Users -> MemberType]] /\ company' \in [Companies -> {"none", "real", "demo"}]
    BY <1>0, <2>1 DEF OfficeTypeOK
  <2>3. token' \in [Tokens -> TokenType]
    BY <1>0, <1>1 DEF OfficeTypeOK
  <2> QED
    BY <1>0, <2>2, <2>3 DEF OfficeTypeOK
<1>4. OwnerOK'
  <2>1. \A d \in Companies : Standing(d)' => Standing(d) /\ d # c
    BY <1>2 DEF Standing
  <2>2. \A d \in Companies : company'[d] = "real" => member'[d][setupBy].state = "active"
    BY <1>0, <1>2 DEF OwnerOK
  <2>3. ASSUME setupBy # Nobody, ~crossed'
        PROVE  \E d \in Companies : Standing(d)' /\ member'[d][setupBy].state = "active"
    <3>1. PICK d \in Companies \ {c} : member[d][setupBy].state = "active"
      BY <2>3
    <3>2. Standing(d)
      BY <1>0, <2>3, <3>1 DEF GoneOK, OfficeTypeOK
    <3> QED
      BY <1>2, <3>1, <3>2 DEF Standing
  <2> QED
    BY <1>0, <2>1, <2>2, <2>3 DEF OwnerOK
<1>5. GoneOK'
  BY <1>0, <1>1, <1>2 DEF GoneOK, Standing
<1>6. \A s \in Seats : SeatOK(s)'
  BY DEF OfficeInv, SeatOK, Standing
<1>7. \A s \in Seats : DeletionOK(s)'
  BY DEF OfficeInv, DeletionOK
<1>8. ASSUME NEW t \in Tokens, token'[t] # NoToken PROVE token'[t].company \in Companies /\ company'[token'[t].company] # "none"
  <2>1. token[t].company # c /\ token'[t] = token[t]
    BY <1>0, <1>8
  <2>2. token[t].company \in Companies /\ Standing(token[t].company)
    BY <1>0, <1>8, <2>1 DEF OfficeInv, TokenOK, OfficeTypeOK
  <2>3. company'[token[t].company] = company[token[t].company]
    BY <1>0, <2>1 DEF OfficeTypeOK
  <2> QED
    BY <2>1, <2>2, <2>3 DEF Standing
<1> QED
  BY <1>3, <1>4, <1>5, <1>6, <1>7, <1>8 DEF OfficeInv, TokenOK, Standing

\* The companies' own steps.
LEMMA CompanyStepInv == ASSUME OfficeInv, CompanyStep PROVE OfficeInv'
<1>0. /\ OfficeTypeOK /\ OwnerOK /\ GoneOK
      /\ seat \in [Seats -> SeatType] /\ deletion \in [Seats -> DeletionType]
      /\ DemoUser \in Users /\ DemoCompany \in Companies /\ NoCompany \notin Companies
      /\ Nobody \notin Users
  BY DEF OfficeInv, OfficeTypeOK, NoCompany, Nobody
<1>1. ASSUME NEW s \in Seats, NEW u \in Users, NEW c \in Companies,
             createSession(s, u, c), NEW to, to = [user |-> u, company |-> c, state |-> "open"]
      PROVE  /\ seat' = [seat EXCEPT ![s] = to] /\ to \in SeatType
             /\ to.user = u /\ to.state = "open" /\ to.company = c
             /\ deletion[s] = NoDeletion
  BY <1>1 DEF createSession, SeatType, OfficeInv, DeletionOK
<1>2. ASSUME NEW s \in Seats, NEW c \in Companies, NEW u \in Users, Setup(s, c, u) PROVE OfficeInv'
  <2>1. /\ provisionCompany(c, u, "real") /\ createSession(s, u, c) /\ setupBy = Nobody /\ setupBy' = u
        /\ UNCHANGED <<token, deletion, crossed>>
    BY <1>2 DEF Setup
  <2> DEFINE to == [user |-> u, company |-> c, state |-> "open"]
  <2>2. /\ seat' = [seat EXCEPT ![s] = to] /\ to \in SeatType
        /\ to.user = u /\ to.state = "open" /\ to.company = c /\ deletion[s] = NoDeletion
    BY <1>1, <2>1
  <2> HIDE DEF to
  <2> QED
    BY <2>1, <2>2, Provisioned
<1>3. ASSUME NEW s \in Seats, NEW c \in Companies, CreateCompany(s, c) PROVE OfficeInv'
  <2> DEFINE to == [seat[s] EXCEPT !.company = c]
  <2>1. /\ provisionCompany(c, seat[s].user, "real") /\ seat[s].user = setupBy
        /\ seat' = [seat EXCEPT ![s] = to] /\ UNCHANGED <<setupBy, token, deletion, crossed>>
    BY <1>3 DEF CreateCompany, IsInstanceOwner
  <2>2. seat[s] \in SeatType /\ seat[s].user \in Users /\ seat[s].state = "open"
    BY <1>3, SessionFacts DEF CreateCompany
  <2>3. to \in SeatType /\ to.user = seat[s].user /\ to.state = "open" /\ to.company = c
    BY <2>2 DEF SeatType
  <2>4. setupBy # Nobody
    BY <1>0, <2>1, <2>2
  <2> HIDE DEF to
  <2> QED
    BY <2>1, <2>2, <2>3, <2>4, Provisioned
<1>4. ASSUME NEW s \in Seats, NEW c \in Companies, BeginDelete(s, c) PROVE OfficeInv'
  <2> DEFINE d == [company |-> c, fallback |-> Min(Fallbacks(s, c))]
  <2>1. Min(Fallbacks(s, c)) \in Companies \ {c}
    BY <1>4, MinIsElement DEF BeginDelete, Fallbacks
  <2>2. d \in DeletionType /\ d.company = c /\ d.fallback \in Companies \ {c}
    BY <2>1 DEF DeletionType
  <2>3. /\ deletion' = [deletion EXCEPT ![s] = d] /\ seat[s].user = setupBy
        /\ UNCHANGED <<setupBy, company, member, seat, token, crossed>>
    BY <1>4 DEF BeginDelete, IsInstanceOwner
  <2>4. seat[s].state = "open"
    BY <1>4, SessionFacts DEF BeginDelete
  <2> HIDE DEF d
  <2>5. \A r \in Seats : deletion'[r] = IF r = s THEN d ELSE deletion[r]
    BY <1>0, <2>3
  <2>6. \A r \in Seats : DeletionOK(r)'
    BY <2>2, <2>3, <2>4, <2>5 DEF OfficeInv, DeletionOK
  <2>7. OfficeTypeOK' /\ OwnerOK' /\ GoneOK'
    BY <1>0, <2>2, <2>3 DEF OfficeTypeOK, OwnerOK, GoneOK, Standing
  <2>8. (\A r \in Seats : SeatOK(r)') /\ (\A t \in Tokens : TokenOK(t)')
    BY <2>3 DEF OfficeInv, SeatOK, TokenOK, Standing
  <2> QED
    BY <2>6, <2>7, <2>8 DEF OfficeInv
<1>5. ASSUME NEW s \in Seats, NEW c \in Companies, SelectCompany(s, c) PROVE OfficeInv'
  <2> DEFINE to == [seat[s] EXCEPT !.company = c]
  <2>1. seat' = [seat EXCEPT ![s] = to] /\ UNCHANGED <<setupBy, company, member, token, deletion, crossed>>
    BY <1>5 DEF SelectCompany
  <2>2. seat[s] \in SeatType /\ seat[s].user \in Users /\ seat[s].state = "open"
    BY <1>5, SessionFacts DEF SelectCompany
  <2>3. to \in SeatType /\ to.user = seat[s].user /\ to.state = "open" /\ to.company = c
    BY <2>2 DEF SeatType
  <2>4. Standing(c)
    BY <1>0, <1>5, <2>2 DEF SelectCompany, GoneOK
  <2> HIDE DEF to
  <2> QED
    BY <2>1, <2>2, <2>3, <2>4, SeatMoves
<1>6. ASSUME NEW s \in Seats, AbandonDelete(s) PROVE OfficeInv'
  <2>1. /\ deletion' = [deletion EXCEPT ![s] = NoDeletion]
        /\ UNCHANGED <<setupBy, company, member, seat, token, crossed>>
    BY <1>6 DEF AbandonDelete
  <2>2. \A r \in Seats : deletion'[r] \in {deletion[r], NoDeletion}
    BY <1>0, <2>1
  <2>3. \A r \in Seats : DeletionOK(r)'
    BY <2>1, <2>2 DEF OfficeInv, DeletionOK
  <2>4. NoDeletion \in DeletionType
    BY DEF NoDeletion, DeletionType
  <2>5. OfficeTypeOK' /\ OwnerOK' /\ GoneOK'
    BY <1>0, <2>1, <2>4 DEF OfficeTypeOK, OwnerOK, GoneOK, Standing
  <2>6. (\A r \in Seats : SeatOK(r)') /\ (\A t \in Tokens : TokenOK(t)')
    BY <2>1 DEF OfficeInv, SeatOK, TokenOK, Standing
  <2> QED
    BY <2>3, <2>5, <2>6 DEF OfficeInv
<1>7. ASSUME NEW s \in Seats, Logout(s) \/ Expire(s) PROVE OfficeInv'
  <2>1. /\ seat' = [seat EXCEPT ![s] = NoSeat] /\ deletion[s] = NoDeletion
        /\ UNCHANGED <<setupBy, company, member, token, deletion, crossed>>
    BY <1>7 DEF Logout, Expire
  <2>2. NoSeat \in SeatType /\ NoSeat.state = "none" /\ NoSeat.company = NoCompany
    BY DEF NoSeat, SeatType
  <2> QED
    BY <2>1, <2>2, SeatMoves
<1>8. ASSUME NEW s \in Seats, DeleteCompany(s) PROVE OfficeInv'
  <2> DEFINE c == deletion[s].company
             f == deletion[s].fallback
  <2>1. /\ deletion[s] # NoDeletion /\ purgeCompanyRows(c) /\ UNCHANGED setupBy
        /\ seat' = [Cleared(c) EXCEPT ![s].company = f]
        /\ crossed' = (crossed \/ member[f][seat[s].user].state # "active")
        /\ deletion' = [deletion EXCEPT ![s] = NoDeletion]
    BY <1>8 DEF DeleteCompany
  <2>2. /\ c \in Companies /\ f \in Companies \ {c} /\ seat[s].user = setupBy
        /\ seat[s].state = "open" /\ setupBy \in Users
    BY <2>1 DEF OfficeInv, DeletionOK, SeatOK
  <2> HIDE DEF c, f
  <2>3. /\ company' = [company EXCEPT ![c] = "none"]
        /\ \A d \in Companies \ {c} : Standing(d) => Standing(d)'
    BY <1>0, <2>1 DEF purgeCompanyRows, Standing, OfficeTypeOK
  <2>4. ASSUME NEW r \in Seats
        PROVE  /\ seat'[r] \in SeatType /\ seat'[r].user = seat[r].user /\ seat'[r].state = seat[r].state
               /\ seat'[r].company \in {IF r = s THEN f ELSE seat[r].company, NoCompany}
               /\ r # s => seat'[r].company # c
    <3>1. seat[r] \in SeatType
      BY <1>0
    <3>2. /\ Cleared(c)[r] \in {seat[r], [seat[r] EXCEPT !.company = NoCompany]}
          /\ Cleared(c)[r].company # c
      BY <1>0, <2>2, <3>1 DEF Cleared, SeatType
    <3>3. /\ Cleared(c)[r] \in SeatType /\ Cleared(c)[r].user = seat[r].user
          /\ Cleared(c)[r].state = seat[r].state /\ Cleared(c)[r].company \in {seat[r].company, NoCompany}
      BY <3>1, <3>2 DEF SeatType
    <3>4. seat'[r] = IF r = s THEN [Cleared(c)[r] EXCEPT !.company = f] ELSE Cleared(c)[r]
      BY <2>1 DEF Cleared
    <3> QED
      BY <2>2, <3>2, <3>3, <3>4 DEF SeatType
  <2>5. seat' \in [Seats -> SeatType]
    <3>1. seat' = [r \in Seats |-> seat'[r]]
      BY <2>1 DEF Cleared
    <3> QED
      BY <2>4, <3>1
  <2>6. crossed' \in BOOLEAN /\ (crossed => crossed') /\ (~crossed' => member[f][setupBy].state = "active")
    BY <1>0, <2>1, <2>2 DEF OfficeTypeOK
  <2>7. ~crossed' => company'[f] # "none"
    <3>1. ~crossed' => Standing(f)
      BY <1>0, <2>2, <2>6 DEF GoneOK
    <3> QED
      BY <2>2, <2>3, <3>1 DEF Standing
  <2>8. \A r \in Seats : seat'[r].company # NoCompany => crossed' \/ company'[seat'[r].company] # "none"
    <3> SUFFICES ASSUME NEW r \in Seats, seat'[r].company # NoCompany, ~crossed'
                 PROVE  company'[seat'[r].company] # "none"
      OBVIOUS
    <3>1. CASE r = s
      BY <2>4, <2>7, <3>1
    <3>2. CASE r # s
      <4>1. seat'[r].company = seat[r].company /\ seat[r].company \in Companies \ {c}
        BY <1>0, <2>4, <3>2 DEF SeatType
      <4>2. Standing(seat[r].company)
        BY <2>6, <4>1 DEF OfficeInv, SeatOK
      <4> QED
        BY <2>3, <4>1, <4>2 DEF Standing
    <3> QED
      BY <3>1, <3>2
  <2>9. NoDeletion \in DeletionType
    BY DEF NoDeletion, DeletionType
  <2>10. /\ \A r \in Seats : deletion'[r] \in {deletion[r], NoDeletion}
         /\ deletion' \in [Seats -> DeletionType]
    BY <1>0, <2>1, <2>9
  <2> QED
    BY <2>1, <2>2, <2>4, <2>5, <2>6, <2>8, <2>10, Purged
<1>9. CASE PurgeDemoCompany
  <2> DEFINE c == DemoCompany
  <2>1. /\ purgeCompanyRows(c) /\ UNCHANGED <<setupBy, deletion>> /\ seat' = Cleared(c)
        /\ crossed' = (crossed \/ (setupBy # Nobody /\ Memberships(setupBy) = {c}))
    BY <1>9 DEF PurgeDemoCompany
  <2>2. \A d \in Companies \ {c} : Standing(d) => Standing(d)'
    BY <1>0, <2>1 DEF purgeCompanyRows, Standing, OfficeTypeOK
  <2>3. ASSUME NEW r \in Seats
        PROVE  /\ seat'[r] \in SeatType /\ seat'[r].user = seat[r].user /\ seat'[r].state = seat[r].state
               /\ seat'[r].company \in {seat[r].company, NoCompany} /\ seat'[r].company # c
    <3>1. seat[r] \in SeatType
      BY <1>0
    <3> QED
      BY <1>0, <2>1, <3>1 DEF Cleared, SeatType
  <2>4. seat' \in [Seats -> SeatType]
    BY <2>1, <2>3 DEF Cleared
  <2>5. crossed' \in BOOLEAN /\ (crossed => crossed')
    BY <1>0, <2>1 DEF OfficeTypeOK
  <2>6. ASSUME setupBy # Nobody, ~crossed' PROVE \E d \in Companies \ {c} : member[d][setupBy].state = "active"
    <3>1. PICK d \in Companies : Standing(d) /\ member[d][setupBy].state = "active"
      BY <1>0, <2>1, <2>6 DEF OwnerOK
    <3>2. d \in Memberships(setupBy) /\ Memberships(setupBy) # {c}
      BY <2>1, <2>6, <3>1 DEF Memberships
    <3> QED
      BY <3>2 DEF Memberships
  <2>7. \A r \in Seats : seat'[r].company # NoCompany => crossed' \/ company'[seat'[r].company] # "none"
    <3> SUFFICES ASSUME NEW r \in Seats, seat'[r].company # NoCompany, ~crossed'
                 PROVE  company'[seat'[r].company] # "none"
      OBVIOUS
    <3>1. seat'[r].company = seat[r].company /\ seat[r].company \in Companies \ {c}
      BY <1>0, <2>3 DEF SeatType
    <3>2. Standing(seat[r].company)
      BY <2>5, <3>1 DEF OfficeInv, SeatOK
    <3> QED
      BY <2>2, <3>1, <3>2 DEF Standing
  <2>8. (\A r \in Seats : deletion'[r] \in {deletion[r], NoDeletion}) /\ deletion' \in [Seats -> DeletionType]
    BY <1>0, <2>1
  <2> QED
    BY <1>0, <2>1, <2>3, <2>4, <2>5, <2>6, <2>7, <2>8, Purged
<1>10. ASSUME NEW s \in Seats, ProvisionDemoCompany(s) PROVE OfficeInv'
  <2>1. /\ provisionCompany(DemoCompany, DemoUser, "demo") /\ createSession(s, DemoUser, DemoCompany)
        /\ setupBy' = IF setupBy = Nobody THEN DemoUser ELSE setupBy
        /\ UNCHANGED <<token, deletion, crossed>>
    BY <1>10 DEF ProvisionDemoCompany
  <2> DEFINE to == [user |-> DemoUser, company |-> DemoCompany, state |-> "open"]
  <2>2. /\ seat' = [seat EXCEPT ![s] = to] /\ to \in SeatType
        /\ to.user = DemoUser /\ to.state = "open" /\ to.company = DemoCompany /\ deletion[s] = NoDeletion
    BY <1>0, <1>1, <2>1
  <2>3. setupBy' \in Users
    BY <1>0, <2>1 DEF OfficeTypeOK
  <2> HIDE DEF to
  <2> QED
    BY <1>0, <2>1, <2>2, <2>3, Provisioned
<1>11. ASSUME NEW s \in Seats, NEW u \in Users, NEW c \in Companies \cup {NoCompany}, createSession(s, u, c),
              c # NoCompany => member[c][u].state = "active",
              UNCHANGED <<setupBy, company, member, token, deletion, crossed>>
       PROVE  OfficeInv'
  <2> DEFINE to == [user |-> u, company |-> c, state |-> "open"]
  <2>1. /\ seat' = [seat EXCEPT ![s] = to] /\ to \in SeatType
        /\ to.user = u /\ to.state = "open" /\ to.company = c /\ deletion[s] = NoDeletion
    BY <1>11 DEF createSession, SeatType, OfficeInv, DeletionOK
  <2>2. c # NoCompany => Standing(c)
    BY <1>0, <1>11 DEF GoneOK
  <2> HIDE DEF to
  <2> QED
    BY <1>11, <2>1, <2>2, SeatMoves
<1>12. ASSUME NEW s \in Seats, StartDemoSession(s) PROVE OfficeInv'
  BY <1>0, <1>11, <1>12 DEF StartDemoSession
<1>13. ASSUME NEW s \in Seats, NEW u \in Users, OpenSession(s, u) PROVE OfficeInv'
  <2>1. PICK c \in IF Memberships(u) = {} THEN {NoCompany} ELSE Memberships(u) : createSession(s, u, c)
    BY <1>13 DEF OpenSession
  <2>2. c \in Companies \cup {NoCompany} /\ (c # NoCompany => member[c][u].state = "active")
    BY <2>1 DEF Memberships
  <2> QED
    BY <1>11, <1>13, <2>1, <2>2 DEF OpenSession
<1> QED
  BY <1>2, <1>3, <1>4, <1>5, <1>6, <1>7, <1>8, <1>9, <1>10, <1>12, <1>13 DEF CompanyStep

\* The staff of a company: rights are looked up in its own rows, and the owner is
\* never taken out.
LEMMA StaffStepInv == ASSUME OfficeInv, StaffStep PROVE OfficeInv'
<1>0. /\ OfficeTypeOK /\ OwnerOK /\ GoneOK
      /\ member \in [Companies -> [Users -> MemberType]] /\ token \in [Tokens -> TokenType]
  BY DEF OfficeInv, OfficeTypeOK
<1>. DEFINE Typed == \A d \in Companies, v \in Users : member[d][v] \in MemberType
<1>t. Typed
  BY <1>0
<1>. HIDE DEF Typed
<1>1. ASSUME UNCHANGED <<setupBy, company, member, seat, token, deletion, crossed>> PROVE OfficeInv'
  BY <1>1 DEF OfficeInv, OfficeTypeOK, OwnerOK, GoneOK, SeatOK, DeletionOK, TokenOK, Standing
<1>2. ASSUME NEW c \in Companies, NEW u \in Users, NEW m \in MemberType, Standing(c),
             member' = [member EXCEPT ![c] = [member[c] EXCEPT ![u] = m]],
             u = setupBy /\ member[c][u].state = "active" => m.state = "active",
             UNCHANGED <<setupBy, company, seat, token, deletion, crossed>>
      PROVE  OfficeInv'
  <2>1. \A d \in Companies, v \in Users : member'[d][v] = IF d = c /\ v = u THEN m ELSE member[d][v]
    BY <1>0, <1>2
  <2>2. member' \in [Companies -> [Users -> MemberType]]
    BY <1>0, <1>2
  <2>3. OfficeTypeOK'
    BY <1>0, <1>2, <2>2 DEF OfficeTypeOK
  <2>4. OwnerOK'
    <3>1. setupBy # Nobody => setupBy \in Users
      BY <1>0 DEF OfficeTypeOK
    <3>2. ASSUME NEW d \in Companies, setupBy # Nobody, member[d][setupBy].state = "active"
          PROVE  member'[d][setupBy].state = "active"
      BY <1>2, <2>1, <3>1, <3>2
    <3>3. \A d \in Companies : company[d] = "real" => setupBy # Nobody
      BY <1>0 DEF OwnerOK, Standing
    <3> QED
      BY <1>0, <1>2, <3>2, <3>3 DEF OwnerOK, Standing
  <2>5. GoneOK'
    BY <1>0, <1>2, <2>1 DEF GoneOK, Standing
  <2> QED
    BY <1>2, <2>3, <2>4, <2>5 DEF OfficeInv, SeatOK, DeletionOK, TokenOK, Standing
<1>3. ASSUME NEW s \in Seats, NEW u \in Users, NEW rs \in SUBSET {"admin", "clerk"}, AddMember(s, u, rs)
      PROVE  OfficeInv'
  <2> DEFINE c == seat[s].company
             m == [state |-> "active", version |-> member[c][u].version + 1, roles |-> rs]
  <2>1. c \in Companies /\ Standing(c)
    BY <1>3, SessionFacts DEF AddMember
  <2>2. member[c][u] \in MemberType
    BY <1>t, <2>1 DEF Typed
  <2>3. member[c][u].version + 1 \in Nat
    BY <2>2 DEF MemberType
  <2>4. m \in MemberType /\ m.state = "active"
    BY <2>3 DEF MemberType
  <2>5. /\ member' = [member EXCEPT ![c] = [member[c] EXCEPT ![u] = m]]
        /\ UNCHANGED <<setupBy, company, seat, token, deletion, crossed>>
    BY <1>3 DEF AddMember
  <2> HIDE DEF c, m
  <2> QED
    BY <1>2, <2>1, <2>4, <2>5
<1>4. ASSUME NEW s \in Seats, NEW u \in Users, NEW a \in BOOLEAN, NEW v \in 1..MaxVersion,
             SetMemberActive(s, u, a, v)
      PROVE  OfficeInv'
  <2> DEFINE c == seat[s].company
             state == IF a THEN "active" ELSE "passive"
             version == member[c][u].version + 1
             m == [member[c][u] EXCEPT !.state = state, !.version = version]
  <2>1. c \in Companies /\ Standing(c)
    BY <1>4, SessionFacts DEF SetMemberActive
  <2>2. member[c][u] \in MemberType
    BY <1>t, <2>1 DEF Typed
  <2>3. version \in Nat /\ state \in {"active", "passive"}
    BY <2>2 DEF MemberType
  <2>4. u = setupBy => state = "active"
    BY <1>4 DEF SetMemberActive
  <2>5. /\ member' = [member EXCEPT ![c] = [member[c] EXCEPT ![u] = m]]
        /\ UNCHANGED <<setupBy, company, seat, token, deletion, crossed>>
    <3>1. /\ member' = [member EXCEPT ![c][u].state = state, ![c][u].version = version]
          /\ UNCHANGED <<setupBy, company, seat, token, deletion, crossed>>
      BY <1>4 DEF SetMemberActive
    <3>2. member[c] \in [Users -> MemberType]
      BY <1>0, <2>1
    <3>. HIDE DEF c, state, version
    <3>3. [member EXCEPT ![c][u].state = state, ![c][u].version = version]
          = [member EXCEPT ![c] = [member[c] EXCEPT ![u] = [member[c][u] EXCEPT !.state = state, !.version = version]]]
      BY <1>0, <2>1, <3>2
    <3> QED
      BY <3>1, <3>3
  <2> HIDE DEF state, version
  <2>6. m \in MemberType /\ m.state = state
    BY <2>2, <2>3 DEF MemberType
  <2> HIDE DEF c, m
  <2> QED
    BY <1>2, <2>1, <2>4, <2>5, <2>6
<1>5. ASSUME NEW s \in Seats, NEW ps \in SUBSET Permissions, NEW v \in 0..MaxVersion, SaveRole(s, ps, v)
      PROVE  OfficeInv'
  BY <1>1, <1>5 DEF SaveRole
<1>6. ASSUME NEW s \in Seats, NEW e \in BOOLEAN, SetModule(s, e) PROVE OfficeInv'
  BY <1>1, <1>6 DEF SetModule
<1>7. ASSUME NEW t \in Tokens, NEW to \in TokenType, token' = [token EXCEPT ![t] = to],
             to.company \in Companies, Standing(to.company),
             UNCHANGED <<setupBy, company, member, seat, deletion, crossed>>
      PROVE  OfficeInv'
  <2>1. \A r \in Tokens : token'[r] = IF r = t THEN to ELSE token[r]
    BY <1>0, <1>7
  <2>2. \A r \in Tokens : TokenOK(r)'
    BY <1>7, <2>1 DEF OfficeInv, TokenOK, Standing
  <2>3. OfficeTypeOK' /\ OwnerOK' /\ GoneOK'
    BY <1>0, <1>7 DEF OfficeTypeOK, OwnerOK, GoneOK, Standing
  <2> QED
    BY <1>7, <2>2, <2>3 DEF OfficeInv, SeatOK, DeletionOK, Standing
<1>8. ASSUME NEW s \in Seats, NEW t \in Tokens, RevokeAPIToken(s, t) PROVE OfficeInv'
  <2> DEFINE to == [token[t] EXCEPT !.state = "revoked"]
  <2>1. token[t] \in TokenType /\ token[t].state = "live"
    BY <1>0, <1>8 DEF RevokeAPIToken
  <2>2. token[t] # NoToken
    BY <2>1 DEF NoToken
  <2>3. to \in TokenType /\ to.company = token[t].company
    BY <2>1 DEF TokenType
  <2>4. token[t].company \in Companies /\ Standing(token[t].company)
    BY <2>2 DEF OfficeInv, TokenOK
  <2>5. token' = [token EXCEPT ![t] = to] /\ UNCHANGED <<setupBy, company, member, seat, deletion, crossed>>
    BY <1>8 DEF RevokeAPIToken
  <2> HIDE DEF to
  <2> QED
    BY <1>7, <2>3, <2>4, <2>5
<1>9. ASSUME NEW s \in Seats, NEW t \in Tokens, NEW ps \in SUBSET Permissions, CreateAPIToken(s, t, ps)
      PROVE  OfficeInv'
  <2> DEFINE to == [owner |-> seat[s].user, company |-> seat[s].company, scopes |-> ps, state |-> "live"]
  <2>1. seat[s].user \in Users /\ seat[s].company \in Companies /\ Standing(seat[s].company)
    BY <1>9, SessionFacts DEF CreateAPIToken
  <2>2. to \in TokenType /\ to.company = seat[s].company
    BY <2>1 DEF TokenType
  <2>3. token' = [token EXCEPT ![t] = to] /\ UNCHANGED <<setupBy, company, member, seat, deletion, crossed>>
    BY <1>9 DEF CreateAPIToken
  <2> HIDE DEF to
  <2> QED
    BY <1>7, <2>1, <2>2, <2>3
<1> QED
  BY <1>3, <1>4, <1>5, <1>6, <1>8, <1>9 DEF StaffStep
-----------------------------------------------------------------------------
AttemptType == [state: {"none", "read", "valid"}, secret: Nat, code: Int]
FactorType == [active: Nat, pending: Nat, made: Nat, last: Int, recovery: SUBSET Int, failures: Nat]

DoorTypeOK ==
    /\ factor \in FactorType
    /\ door \in [Attempts -> AttemptType]
    /\ spent \in [Spendable -> Nat]

\* A code that opened a session, or is about to open one.
Holds(a, code) == door[a].state = "valid" /\ door[a].code = code /\ code # 0
Used(code) == spent[code] > 0 \/ \E a \in Attempts : Holds(a, code)

\* One attempt holds a code, and only one that opened nothing yet; an attempt that
\* gave no code holds none.
HeldOK ==
    /\ \A a \in Attempts : door[a].state = "read" => door[a].code = 0
    /\ \A a \in Attempts, code \in Int : Holds(a, code) => code \in Spendable /\ spent[code] = 0
    /\ \A a, b \in Attempts, code \in Int : Holds(a, code) /\ Holds(b, code) => a = b

\* Used steps are behind the last one; used recovery codes are of a factor made before,
\* and off the list.
UsedOK ==
    /\ \A code \in Spendable : Used(code) /\ code > 0 => code <= factor.last
    /\ \A code \in Spendable : Used(code) /\ code < 0 =>
         code \notin factor.recovery /\ -code <= factor.made /\ -code # factor.pending
    /\ \A code \in factor.recovery : code < 0 /\ -code <= factor.made /\ -code # factor.pending
    /\ factor.pending <= factor.made

DoorInv == DoorTypeOK /\ HeldOK /\ UsedOK /\ CodeSpentOnce

LEMMA DoorInvInit == DoorInit => DoorInv
<1> SUFFICES ASSUME DoorInit PROVE DoorInv
  OBVIOUS
<1>1. NoAttempt \in AttemptType /\ NoAttempt.state = "none"
  BY DEF NoAttempt, AttemptType
<1>2. /\ factor \in FactorType /\ factor.recovery = {} /\ factor.pending = 0 /\ factor.made = 0
  BY DEF DoorInit, NoFactor, FactorType
<1>3. \A a \in Attempts : door[a].state # "read" /\ \A code \in Int : ~Holds(a, code)
  BY <1>1 DEF DoorInit, Holds
<1>4. DoorTypeOK /\ CodeSpentOnce
  BY <1>1, <1>2 DEF DoorInit, DoorTypeOK, CodeSpentOnce
<1>5. \A code \in Spendable : ~Used(code)
  BY <1>3 DEF DoorInit, Used, Spendable
<1> QED
  BY <1>2, <1>3, <1>4, <1>5 DEF DoorInv, HeldOK, UsedOK

\* A step in which attempts only let codes go, and no code comes back.
LEMMA LetGo ==
  ASSUME DoorInv, DoorTypeOK', UNCHANGED spent,
         \A a \in Attempts, code \in Int : Holds(a, code)' => Holds(a, code),
         \A a \in Attempts : door'[a].state = "read" => door'[a].code = 0,
         factor'.last >= factor.last, factor'.made >= factor.made, factor'.pending <= factor'.made,
         factor'.recovery \subseteq factor.recovery,
         factor'.pending \in {0, factor.pending} \/ factor'.pending > factor.made
  PROVE  DoorInv'
<1>0. /\ factor \in FactorType /\ factor' \in FactorType
      /\ \A code \in Spendable : code \in Int
  BY DEF DoorInv, DoorTypeOK, Spendable
<1>1. Spendable' = Spendable
  BY DEF Spendable
<1>2. \A code \in Spendable : Used(code)' => Used(code)
  BY <1>0 DEF Used
<1>3. HeldOK'
  BY <1>1 DEF DoorInv, HeldOK
<1>4. UsedOK'
  <2>1. ASSUME NEW code \in Spendable, Used(code)', code > 0 PROVE code <= factor'.last
    BY <1>0, <1>2, <2>1 DEF DoorInv, UsedOK, FactorType
  <2>2. ASSUME NEW code \in Int, code < 0, -code <= factor.made, -code # factor.pending
        PROVE  -code <= factor'.made /\ -code # factor'.pending
    BY <1>0, <2>2 DEF FactorType
  <2>3. ASSUME NEW code \in Spendable, Used(code)', code < 0
        PROVE  code \notin factor'.recovery /\ -code <= factor'.made /\ -code # factor'.pending
    BY <1>0, <1>2, <2>2, <2>3 DEF DoorInv, UsedOK
  <2>4. ASSUME NEW code \in factor'.recovery PROVE code < 0 /\ -code <= factor'.made /\ -code # factor'.pending
    <3>1. code \in factor.recovery /\ code \in Int
      BY <1>0 DEF FactorType
    <3> QED
      BY <2>2, <3>1 DEF DoorInv, UsedOK
  <2> QED
    BY <1>1, <2>1, <2>3, <2>4 DEF UsedOK
<1>5. CodeSpentOnce'
  BY <1>1 DEF DoorInv, CodeSpentOnce
<1> QED
  BY <1>3, <1>4, <1>5 DEF DoorInv

\* An attempt takes a code that nobody used: the step moves the last one up to it, or
\* the recovery code leaves the list.
LEMMA Takes ==
  ASSUME DoorInv, NEW a \in Attempts, NEW code \in Spendable, code # 0, ~Used(code),
         door' = [door EXCEPT ![a].state = "valid", ![a].code = code], UNCHANGED spent,
         \/ code > 0 /\ factor.last <= code /\ factor' = [factor EXCEPT !.last = code]
         \/ code < 0 /\ code \in factor.recovery /\ factor' = [factor EXCEPT !.recovery = @ \ {code}]
  PROVE  DoorInv'
<1>0. /\ factor \in FactorType /\ door \in [Attempts -> AttemptType] /\ spent \in [Spendable -> Nat]
      /\ Spendable \subseteq Int /\ code \in Int
  BY DEF DoorInv, DoorTypeOK, Spendable
<1>1. factor' \in FactorType /\ factor'.made = factor.made /\ factor'.pending = factor.pending
  BY <1>0 DEF FactorType
<1>2. /\ factor'.recovery \subseteq factor.recovery /\ factor'.last >= factor.last
      /\ code > 0 => factor'.last = code
      /\ code < 0 => code \in factor.recovery /\ code \notin factor'.recovery
  BY <1>0 DEF FactorType
<1>3. DoorTypeOK'
  BY <1>0, <1>1, ZenonT(60) DEF DoorTypeOK, AttemptType, Spendable
<1>4. /\ door'[a].state = "valid" /\ door'[a].code = code
      /\ \A b \in Attempts : b # a => door'[b] = door[b]
  BY <1>0 DEF AttemptType
<1>5. ASSUME NEW b \in Attempts, NEW k \in Int, Holds(b, k)' PROVE (b = a /\ k = code) \/ (b # a /\ Holds(b, k))
  BY <1>4, <1>5 DEF Holds
<1>6. spent[code] = 0 /\ \A b \in Attempts : ~Holds(b, code)
  BY <1>0 DEF Used
<1>7. HeldOK'
  <2>1. ASSUME NEW b \in Attempts, NEW k \in Int, Holds(b, k)' PROVE k \in Spendable /\ spent[k] = 0
    BY <1>5, <1>6, <2>1 DEF DoorInv, HeldOK
  <2>2. ASSUME NEW b \in Attempts, NEW c \in Attempts, NEW k \in Int, Holds(b, k)', Holds(c, k)' PROVE b = c
    BY <1>5, <1>6, <2>2 DEF DoorInv, HeldOK
  <2>3. \A b \in Attempts : door'[b].state = "read" => door'[b].code = 0
    BY <1>4 DEF DoorInv, HeldOK
  <2> QED
    BY <2>1, <2>2, <2>3 DEF HeldOK, Spendable
<1>8. \A k \in Spendable : Used(k)' => k = code \/ Used(k)
  BY <1>0, <1>5 DEF Used
<1>9. UsedOK'
  <2>1. ASSUME NEW k \in Spendable, Used(k)', k > 0 PROVE k <= factor'.last
    <3>1. CASE k = code
      BY <1>0, <1>2, <2>1, <3>1
    <3>2. CASE k # code
      <4>1. k <= factor.last
        BY <1>8, <2>1, <3>2 DEF DoorInv, UsedOK
      <4> QED
        BY <1>0, <1>1, <1>2, <4>1 DEF FactorType
    <3> QED
      BY <3>1, <3>2
  <2>2. ASSUME NEW k \in Spendable, Used(k)', k < 0
        PROVE  k \notin factor'.recovery /\ -k <= factor'.made /\ -k # factor'.pending
    <3>1. CASE k = code
      BY <1>1, <1>2, <2>2, <3>1 DEF DoorInv, UsedOK
    <3>2. CASE k # code
      BY <1>1, <1>2, <1>8, <2>2, <3>2 DEF DoorInv, UsedOK
    <3> QED
      BY <3>1, <3>2
  <2>3. ASSUME NEW k \in factor'.recovery PROVE k < 0 /\ -k <= factor'.made /\ -k # factor'.pending
    BY <1>1, <1>2 DEF DoorInv, UsedOK
  <2> QED
    BY <1>1, <2>1, <2>2, <2>3 DEF UsedOK, Spendable, DoorInv
<1>10. CodeSpentOnce'
  BY DEF DoorInv, CodeSpentOnce, Spendable
<1> QED
  BY <1>3, <1>7, <1>9, <1>10 DEF DoorInv

\* A session opens with the code its attempt holds.
LEMMA Opens ==
  ASSUME DoorInv, NEW a \in Attempts, CommitLogin(a)
  PROVE  DoorInv'
<1> DEFINE code == door[a].code
<1>0. /\ factor \in FactorType /\ door \in [Attempts -> AttemptType] /\ spent \in [Spendable -> Nat]
      /\ Spendable \subseteq Int /\ code \in Int /\ NoAttempt \in AttemptType /\ NoAttempt.state = "none"
      /\ factor' = factor /\ door' = [door EXCEPT ![a] = NoAttempt] /\ door[a].state = "valid"
  BY DEF DoorInv, DoorTypeOK, Spendable, CommitLogin, AttemptType, NoAttempt
<1>1. \A b \in Attempts, k \in Int : Holds(b, k)' => b # a /\ Holds(b, k)
  BY <1>0 DEF Holds
<1>r. \A b \in Attempts : door'[b].state = "read" => door'[b].code = 0
  BY <1>0 DEF DoorInv, HeldOK
<1>2. CASE code = 0
  <2>1. spent' = spent
    BY <1>2 DEF CommitLogin
  <2>2. DoorTypeOK'
    BY <1>0, <2>1 DEF DoorTypeOK, Spendable
  <2>3. factor.pending <= factor.made /\ factor.last \in Int /\ factor.made \in Nat
    BY <1>0 DEF DoorInv, UsedOK, FactorType
  <2> QED
    BY <1>0, <1>1, <1>r, <2>1, <2>2, <2>3, LetGo
<1>3. CASE code # 0
  <2>1. Holds(a, code)
    BY <1>0, <1>3 DEF Holds
  <2>2. code \in Spendable /\ spent[code] = 0 /\ Used(code)
    BY <1>0, <2>1 DEF DoorInv, HeldOK, Used
  <2>3. spent' = [spent EXCEPT ![code] = 1]
    BY <1>0, <1>3, <2>2 DEF CommitLogin
  <2> HIDE DEF code
  <2>4. DoorTypeOK'
    BY <1>0, <2>3 DEF DoorTypeOK, Spendable
  <2>5. \A k \in Spendable : spent'[k] = IF k = code THEN 1 ELSE spent[k]
    BY <1>0, <2>3
  <2>6. HeldOK'
    <3>1. ASSUME NEW b \in Attempts, NEW k \in Int, Holds(b, k)' PROVE k \in Spendable /\ spent'[k] = 0
      <4>1. Holds(b, k) /\ b # a
        BY <1>1, <3>1
      <4>2. k # code /\ k \in Spendable /\ spent[k] = 0
        BY <1>0, <2>1, <4>1 DEF DoorInv, HeldOK
      <4> QED
        BY <2>5, <4>2
    <3>2. ASSUME NEW b \in Attempts, NEW c \in Attempts, NEW k \in Int, Holds(b, k)', Holds(c, k)' PROVE b = c
      BY <1>1, <3>2 DEF DoorInv, HeldOK
    <3> QED
      BY <1>r, <3>1, <3>2 DEF HeldOK, Spendable
  <2>7. \A k \in Spendable : Used(k)' => Used(k)
    BY <1>0, <1>1, <2>2, <2>5 DEF Used
  <2>8. UsedOK'
    BY <1>0, <2>7 DEF DoorInv, UsedOK, Spendable
  <2>9. CodeSpentOnce'
    BY <2>5 DEF DoorInv, CodeSpentOnce, Spendable
  <2> QED
    BY <2>4, <2>6, <2>8, <2>9 DEF DoorInv
<1> QED
  BY <1>2, <1>3

\* Each step at the door.
LEMMA DoorStepInv == ASSUME DoorInv, DoorStep PROVE DoorInv'
<1>0. /\ factor \in FactorType /\ door \in [Attempts -> AttemptType] /\ spent \in [Spendable -> Nat]
      /\ Spendable \subseteq Int /\ factor.pending <= factor.made
      /\ factor.last \in Int /\ factor.made \in Nat /\ factor.pending \in Nat /\ factor.active \in Nat
      /\ factor.failures \in Nat
  BY DEF DoorInv, DoorTypeOK, Spendable, UsedOK, FactorType
<1>n. NoAttempt \in AttemptType /\ NoAttempt.state = "none"
  BY DEF NoAttempt, AttemptType
<1>1. ASSUME NEW a \in Attempts, NEW to \in AttemptType, door' = [door EXCEPT ![a] = to],
             to.state = "none" \/ to.code = 0, UNCHANGED spent,
             factor' \in FactorType, factor'.last = factor.last, factor'.made = factor.made,
             factor'.recovery = factor.recovery, factor'.pending = factor.pending
      PROVE  DoorInv'
  <2>1. DoorTypeOK'
    BY <1>0, <1>1 DEF DoorTypeOK, Spendable
  <2>2. \A b \in Attempts, k \in Int : Holds(b, k)' => Holds(b, k)
    BY <1>0, <1>1 DEF Holds
  <2>3. \A b \in Attempts : door'[b].state = "read" => door'[b].code = 0
    BY <1>0, <1>1 DEF DoorInv, HeldOK
  <2> QED
    BY <1>0, <1>1, <2>1, <2>2, <2>3, LetGo
<1>2. ASSUME NEW a \in Attempts, Fails(a) PROVE DoorInv'
  <2> DEFINE failures == IF Limited THEN factor.failures ELSE factor.failures + 1
  <2>1. door' = [door EXCEPT ![a] = NoAttempt] /\ UNCHANGED spent /\ factor' = [factor EXCEPT !.failures = failures]
    BY <1>2 DEF Fails
  <2>2. failures \in Nat
    BY <1>0
  <2> HIDE DEF failures
  <2>3. /\ factor' \in FactorType /\ factor'.last = factor.last /\ factor'.made = factor.made
        /\ factor'.recovery = factor.recovery /\ factor'.pending = factor.pending
    BY <1>0, <2>1, <2>2 DEF FactorType
  <2> QED
    BY <1>1, <1>n, <2>1, <2>3
<1>3. ASSUME NEW a \in Attempts, BeginLogin(a) PROVE DoorInv'
  <2> DEFINE to == [state |-> "read", secret |-> factor.active, code |-> 0]
  <2>1. to \in AttemptType /\ to.code = 0
    BY <1>0 DEF AttemptType
  <2>2. door' = [door EXCEPT ![a] = to] /\ UNCHANGED <<factor, spent>>
    BY <1>3 DEF BeginLogin
  <2> HIDE DEF to
  <2> QED
    BY <1>0, <1>1, <2>1, <2>2
<1>4. ASSUME NEW a \in Attempts, LoginWithoutCode(a) PROVE DoorInv'
  <2> DEFINE valid == [door[a] EXCEPT !.state = "valid"]
  <2>1. /\ door' = [door EXCEPT ![a] = valid] \/ door' = [door EXCEPT ![a] = NoAttempt]
        /\ UNCHANGED <<factor, spent>> /\ door[a].state = "read"
    BY <1>4 DEF LoginWithoutCode
  <2>2. door[a] \in AttemptType /\ door[a].code = 0
    BY <1>0, <2>1 DEF DoorInv, HeldOK
  <2>3. valid \in AttemptType /\ valid.code = 0
    BY <2>2 DEF AttemptType
  <2> HIDE DEF valid
  <2> QED
    BY <1>0, <1>1, <1>n, <2>1, <2>3
<1>5. ASSUME NEW a \in Attempts, WrongPassword(a) PROVE DoorInv'
  BY <1>2, <1>5 DEF WrongPassword
<1>6. ASSUME NEW a \in Attempts, FailLogin(a) PROVE DoorInv'
  BY <1>0, <1>1, <1>6, <1>n DEF FailLogin
<1>7. ASSUME NEW a \in Attempts, NEW step \in 1..(MaxStep + 1), LoginWithStep(a, step) PROVE DoorInv'
  <2>1. CASE Fails(a)
    BY <1>2, <2>1
  <2>2. CASE /\ consumeTOTPStep(step) /\ factor' = [factor EXCEPT !.last = step] /\ UNCHANGED spent
             /\ door' = [door EXCEPT ![a].state = "valid", ![a].code = step]
    <3>1. step \in Spendable /\ step \in Int /\ step > 0 /\ step # 0
      BY DEF Spendable
    <3>2. factor.last < step
      BY <2>2 DEF consumeTOTPStep
    <3>3. ~Used(step)
      <4>1. ~(step <= factor.last)
        BY <1>0, <3>1, <3>2
      <4> QED
        BY <3>1, <4>1 DEF DoorInv, UsedOK
    <3>4. factor.last <= step
      BY <1>0, <3>1, <3>2
    <3> QED
      BY <2>2, <3>1, <3>3, <3>4, Takes
  <2> QED
    BY <1>7, <2>1, <2>2 DEF LoginWithStep
<1>8. ASSUME NEW a \in Attempts, NEW n \in 1..MaxSecrets, LoginWithRecovery(a, -n) PROVE DoorInv'
  <2>1. CASE Fails(a)
    BY <1>2, <2>1
  <2> DEFINE code == -n
  <2>2. CASE /\ consumeRecoveryCode(code) /\ factor' = [factor EXCEPT !.recovery = @ \ {code}] /\ UNCHANGED spent
             /\ door' = [door EXCEPT ![a].state = "valid", ![a].code = code]
    <3>1. code \in Spendable /\ code < 0 /\ code # 0
      BY DEF Spendable
    <3> HIDE DEF code
    <3>2. code \in factor.recovery
      BY <2>2 DEF consumeRecoveryCode
    <3>3. ~Used(code)
      BY <3>1, <3>2 DEF DoorInv, UsedOK
    <3> QED
      BY <2>2, <3>1, <3>2, <3>3, Takes
  <2> QED
    BY <1>8, <2>1, <2>2 DEF LoginWithRecovery
<1>9. ASSUME factor' \in FactorType, factor'.last = factor.last, factor'.made >= factor.made,
             factor'.recovery \subseteq factor.recovery, factor'.pending <= factor'.made,
             factor'.pending \in {0, factor.pending} \/ factor'.pending > factor.made,
             UNCHANGED <<door, spent>>
      PROVE  DoorInv'
  <2>1. DoorTypeOK'
    BY <1>0, <1>9 DEF DoorTypeOK, Spendable
  <2> QED
    BY <1>0, <1>9, <2>1, LetGo DEF Holds, DoorInv, HeldOK
<1>10. CASE BeginTOTP
  <2> DEFINE made == factor.made + 1
  <2>1. factor' = [factor EXCEPT !.pending = made, !.made = made] /\ UNCHANGED <<door, spent>>
    BY <1>10 DEF BeginTOTP
  <2>2. made \in Nat /\ made > factor.made
    BY <1>0
  <2> HIDE DEF made
  <2>3. /\ factor' \in FactorType /\ factor'.last = factor.last /\ factor'.made = made
        /\ factor'.recovery = factor.recovery /\ factor'.pending = made
    BY <1>0, <2>1, <2>2 DEF FactorType
  <2> QED
    BY <1>0, <1>9, <2>1, <2>2, <2>3
<1>11. CASE ConfirmTOTP
  <2> DEFINE pending == factor.pending
  <2>1. /\ factor' = [factor EXCEPT !.active = pending, !.pending = 0, !.recovery = {-pending}]
        /\ UNCHANGED <<door, spent>> /\ pending # 0
    BY <1>11 DEF ConfirmTOTP
  <2>2. pending \in Nat /\ pending > 0 /\ pending <= factor.made /\ -pending \in Int
    BY <1>0, <2>1
  <2>3. ~(-pending \in Spendable /\ Used(-pending))
    BY <2>2 DEF DoorInv, UsedOK
  <2>4. ~(-pending \in factor.recovery)
    BY <2>2 DEF DoorInv, UsedOK
  <2> HIDE DEF pending
  <2>5. /\ factor' \in FactorType /\ factor'.last = factor.last /\ factor'.made = factor.made
        /\ factor'.recovery = {-pending} /\ factor'.pending = 0
    BY <1>0, <2>1, <2>2 DEF FactorType
  <2>6. DoorTypeOK' /\ HeldOK' /\ CodeSpentOnce'
    BY <1>0, <2>1, <2>5 DEF DoorTypeOK, Spendable, DoorInv, HeldOK, CodeSpentOnce, Holds
  <2>7. \A k \in Spendable : Used(k)' <=> Used(k)
    BY <2>1 DEF Used, Holds
  <2>8. UsedOK'
    <3>1. ASSUME NEW k \in Spendable, Used(k)', k > 0 PROVE k <= factor'.last
      BY <2>5, <2>7, <3>1 DEF DoorInv, UsedOK
    <3>2. ASSUME NEW k \in Spendable, Used(k)', k < 0
          PROVE  k \notin factor'.recovery /\ -k <= factor'.made /\ -k # factor'.pending
      <4>1. Used(k) /\ -k <= factor.made
        BY <2>7, <3>2 DEF DoorInv, UsedOK
      <4>2. -k # 0
        BY <1>0, <3>2
      <4> QED
        BY <2>3, <2>5, <3>2, <4>1, <4>2
    <3>3. ASSUME NEW k \in factor'.recovery PROVE k < 0 /\ -k <= factor'.made /\ -k # factor'.pending
      BY <1>0, <2>2, <2>5
    <3> QED
      BY <1>0, <2>5, <3>1, <3>2, <3>3 DEF UsedOK, Spendable
  <2> QED
    BY <2>6, <2>8 DEF DoorInv
<1>12. CASE DisableTOTP
  <2>1. factor' = [factor EXCEPT !.active = 0, !.pending = 0, !.recovery = {}] /\ UNCHANGED <<door, spent>>
    BY <1>12 DEF DisableTOTP
  <2>2. /\ factor' \in FactorType /\ factor'.last = factor.last /\ factor'.made = factor.made
        /\ factor'.recovery = {} /\ factor'.pending = 0
    BY <1>0, <2>1 DEF FactorType
  <2> QED
    BY <1>0, <1>9, <2>1, <2>2
<1>13. CASE Tick
  BY <1>0, <1>9, <1>13 DEF Tick
<1>14. CASE Forget
  <2> DEFINE failures == factor.failures - 1
  <2>1. factor' = [factor EXCEPT !.failures = failures] /\ UNCHANGED <<door, spent>>
    BY <1>14 DEF Forget
  <2>2. failures \in Nat
    BY <1>0, <1>14 DEF Forget
  <2> HIDE DEF failures
  <2>3. /\ factor' \in FactorType /\ factor'.last = factor.last /\ factor'.made = factor.made
        /\ factor'.recovery = factor.recovery /\ factor'.pending = factor.pending
    BY <1>0, <2>1, <2>2 DEF FactorType
  <2> QED
    BY <1>0, <1>9, <2>1, <2>3
<1> QED
  BY <1>3, <1>4, <1>5, <1>6, <1>7, <1>8, <1>10, <1>11, <1>12, <1>13, <1>14, Opens DEF DoorStep
-----------------------------------------------------------------------------
LEMMA IdentityInvNext ==
  ASSUME OfficeInv, DoorInv, [IdentityStep]_<<officeVars, doorVars>>
  PROVE  OfficeInv' /\ DoorInv'
<1>1. UNCHANGED officeVars => OfficeInv'
  <2> SUFFICES ASSUME UNCHANGED officeVars PROVE OfficeInv'
    OBVIOUS
  <2> USE DEF officeVars, Standing
  <2>1. OfficeTypeOK'
    BY DEF OfficeInv, OfficeTypeOK
  <2>2. OwnerOK' /\ GoneOK'
    BY DEF OfficeInv, OwnerOK, GoneOK
  <2>3. ASSUME NEW s \in Seats PROVE SeatOK(s)' /\ DeletionOK(s)'
    BY DEF OfficeInv, SeatOK, DeletionOK
  <2>4. ASSUME NEW t \in Tokens PROVE TokenOK(t)'
    BY DEF OfficeInv, TokenOK
  <2> QED
    BY <2>1, <2>2, <2>3, <2>4 DEF OfficeInv
<1>2. UNCHANGED doorVars => DoorInv'
  BY DEF doorVars, DoorInv, DoorTypeOK, HeldOK, UsedOK, CodeSpentOnce, Holds, Used, Spendable
<1> QED
  BY <1>1, <1>2, CompanyStepInv, StaffStepInv, DoorStepInv DEF IdentityStep

\* Nobody who must get in is shut out, and no code lets anyone in twice: the owner keeps
\* a company through deletions that run side by side, unless two of them cross
\* (DeleteCompany, ErrLastCompany), sessions and tokens name companies that stand, and
\* a step or a recovery code opens one session (consumeTOTPStep, consumeRecoveryCode).
THEOREM AccessStaysSound == IdentitySpec => []AccessIsSound
<1>1. OfficeInv /\ DoorInv /\ [IdentityStep]_<<officeVars, doorVars>> => (OfficeInv /\ DoorInv)'
  BY IdentityInvNext
<1>2. OfficeInv /\ DoorInv => AccessIsSound
  <2>1. OfficeInv => OwnerIsServed
    BY DEF OfficeInv, OwnerOK, SeatOK, TokenOK, OwnerIsServed
  <2> QED
    BY <2>1 DEF DoorInv, AccessIsSound
<1>3. OfficeInit /\ DoorInit => OfficeInv /\ DoorInv
  BY OfficeInvInit, DoorInvInit
<1> QED
  BY <1>1, <1>2, <1>3, PTL DEF IdentitySpec
=============================================================================
