----------------------------- MODULE FixedAssets -----------------------------
(***************************************************************************)
(* Fixed assets (internal/fixedasset): cards of things the company owns,   *)
(* handed to employees and taken back.  An asset is handed over and taken  *)
(* back under the lock of a row; a card is edited from a form read before, *)
(* and its custody is looked up by a statement that takes no lock.         *)
(***************************************************************************)
EXTENDS Integers, FiniteSets, Sequences

CONSTANTS Things,        \* the assets
          Holders,       \* employees
          Editors,       \* users with a card open
          AssetClasses,  \* asset categories
          MaxCustody,    \* bound: handovers of one asset
          MaxEdits       \* bound: versions of a card and of a category

ASSUME FixedAssetsAssumption == MaxCustody \in Nat /\ MaxEdits \in Nat

VARIABLES
    thing,    \* the cards: status and version
    custody,  \* asset_assignments of each asset, in the order they were made
    holder,   \* employees who are still on the payroll
    editing,  \* the forms: the card, its version as read, and the update under way
    class     \* the categories: state and version

assetVars == <<thing, custody, holder, editing, class>>

editableStatuses == {"AVAILABLE", "MAINTENANCE", "RETIRED"}
NoEdit == [of |-> "", version |-> 0, status |-> ""]

AssetInit ==
    /\ thing = [t \in Things |-> [status |-> "none", version |-> 0]]
    /\ custody = [t \in Things |-> <<>>]
    /\ holder = Holders
    /\ editing = [e \in Editors |-> NoEdit]
    /\ class = [k \in AssetClasses |-> [state |-> "none", version |-> 0]]

OpenCustody(t) == {n \in DOMAIN custody[t] : ~custody[t][n].returned}
hasActive(t) == OpenCustody(t) # {}
-----------------------------------------------------------------------------
CreateAsset(t, status) ==
    /\ thing[t].status = "none" /\ status \in editableStatuses
    /\ thing' = [thing EXCEPT ![t] = [status |-> status, version |-> 1]]
    /\ UNCHANGED <<custody, holder, editing, class>>

(* A form is opened; its update looks the custody up; its update writes the
   card if the version is still the one the form was read at *)
GetAsset(e, t) ==
    /\ editing[e] = NoEdit /\ thing[t].status # "none"
    /\ editing' = [editing EXCEPT ![e] = [of |-> t, version |-> thing[t].version, status |-> ""]]
    /\ UNCHANGED <<thing, custody, holder, class>>
Update(e, status) ==
    /\ editing[e] # NoEdit /\ editing[e].status = ""
    /\ status \in editableStatuses \cup {"ASSIGNED"}
    /\ editing' = [editing EXCEPT ![e] = IF (status = "ASSIGNED") = hasActive(editing[e].of)
                                         THEN [editing[e] EXCEPT !.status = status] ELSE NoEdit]
    /\ UNCHANGED <<thing, custody, holder, class>>
(* Mutant: the card is written whatever its version *)
MutUpdateCard(e) ==
    LET t == editing[e].of
    IN /\ editing[e].status # "" /\ thing[t].version < MaxEdits
       /\ thing' = [thing EXCEPT ![t] = [status |-> editing[e].status, version |-> thing[t].version + 1]]
       /\ editing' = [editing EXCEPT ![e] = NoEdit]
       /\ UNCHANGED <<custody, holder, class>>
UpdateCard(e) ==
    LET t == editing[e].of
    IN /\ editing[e].status # "" /\ thing[t].version < MaxEdits
       /\ IF thing[t].version = editing[e].version
          THEN thing' = [thing EXCEPT ![t] = [status |-> editing[e].status, version |-> thing[t].version + 1]]
          ELSE UNCHANGED thing
       /\ editing' = [editing EXCEPT ![e] = NoEdit]
       /\ UNCHANGED <<custody, holder, class>>

Assign(t, h) ==
    /\ thing[t].status = "AVAILABLE" /\ h \in holder /\ ~hasActive(t)
    /\ Len(custody[t]) < MaxCustody /\ thing[t].version < MaxEdits
    /\ custody' = [custody EXCEPT ![t] = Append(@, [holder |-> h, returned |-> FALSE])]
    /\ thing' = [thing EXCEPT ![t] = [status |-> "ASSIGNED", version |-> @.version + 1]]
    /\ UNCHANGED <<holder, editing, class>>
Return(t, n) ==
    /\ n \in OpenCustody(t) /\ thing[t].version < MaxEdits
    /\ custody' = [custody EXCEPT ![t][n].returned = TRUE]
    /\ thing' = [thing EXCEPT ![t] = IF @.status = "ASSIGNED" THEN [status |-> "AVAILABLE", version |-> @.version + 1] ELSE @]
    /\ UNCHANGED <<holder, editing, class>>

(* An employee leaves; nothing is asked about what the employee holds *)
Leave(h) ==
    /\ h \in holder
    /\ holder' = holder \ {h}
    /\ UNCHANGED <<thing, custody, editing, class>>
-----------------------------------------------------------------------------
CreateCategory(k) ==
    /\ class[k].state = "none"
    /\ class' = [class EXCEPT ![k] = [state |-> "active", version |-> 1]]
    /\ UNCHANGED <<thing, custody, holder, editing>>
UpdateCategory(k) ==
    /\ class[k].state # "none" /\ class[k].version < MaxEdits
    /\ class' = [class EXCEPT ![k].version = @ + 1]
    /\ UNCHANGED <<thing, custody, holder, editing>>
SetCategoryActive(k, active) ==
    /\ class[k].state # "none" /\ class[k].version < MaxEdits
    /\ class' = [class EXCEPT ![k] = [state |-> IF active THEN "active" ELSE "passive", version |-> @.version + 1]]
    /\ UNCHANGED <<thing, custody, holder, editing>>

AssetStep ==
    \/ \E t \in Things, s \in editableStatuses : CreateAsset(t, s)
    \/ \E e \in Editors, t \in Things : GetAsset(e, t)
    \/ \E e \in Editors : (\E s \in editableStatuses \cup {"ASSIGNED"} : Update(e, s)) \/ UpdateCard(e)
    \/ \E t \in Things : (\E h \in Holders : Assign(t, h)) \/ (\E n \in 1 .. MaxCustody : Return(t, n))
    \/ \E h \in Holders : Leave(h)
    \/ \E k \in AssetClasses : CreateCategory(k) \/ UpdateCategory(k) \/ (\E a \in BOOLEAN : SetCategoryActive(k, a))

AssetSpec == AssetInit /\ [][AssetStep]_assetVars
-----------------------------------------------------------------------------
(* The card and the custody history never contradict each other, whatever
   edits race handovers and returns: a card says ASSIGNED exactly while one
   employee holds the asset, and no two ever hold it at once ("the card
   cannot be moved to another state until the assignment is returned"). *)
CustodyIsOne ==
    \A t \in Things :
        /\ Cardinality(OpenCustody(t)) <= 1
        /\ (thing[t].status = "ASSIGNED") = hasActive(t)
=============================================================================
