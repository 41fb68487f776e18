------------------------------ MODULE MCFinance ------------------------------
(* Two bills of a customer, one of them for a dispatch that is returned, and  *)
(* a manual entry; a collection and a payment through one account.  A plan    *)
(* and the life of the accounts are explored apart.                           *)
EXTENDS Finance

VARIABLE scene

Column(f, v) == [i \in Docs |-> IF i \in DOMAIN f THEN f[i] ELSE v]
MCKind == [s1 |-> "SALES_INVOICE", s2 |-> "SALES_INVOICE", r |-> "SALES_RETURN_INVOICE", c |-> "CREDIT"]
MCOwner == Column([c |-> "q"], "q")
MCAmount == [s1 |-> 2, s2 |-> 1, r |-> 1, c |-> 1]
MCDue == [s1 |-> 2, s2 |-> 1, r |-> 0, c |-> 1]
MCRank == [i \in {"s1", "s2", "c"} |-> CASE i = "s1" -> 1 [] i = "s2" -> 2 [] OTHER -> 3]
MCTaken == [i \in Invoices |-> 1]
MCOf == [i \in Returns |-> "DISPATCH"]
MCPayments == {[id |-> 1, kind |-> "COLLECTION", party |-> "q", amount |-> 2, account |-> "bank"],
               [id |-> 2, kind |-> "PAYMENT", party |-> "q", amount |-> 1, account |-> "till"]}
MCEntries == {[id |-> 1, from |-> "bank", to |-> "till", amount |-> 1]}
MCTransfers == {[from |-> "q", to |-> "o", amount |-> 1]}
MCInstallmentDue == <<1, 3>>

MCInit == scene \in {"dues", "cash"} /\ Init
DuesNext ==
    /\ scene = "dues" /\ Next
    /\ UNCHANGED <<scene, entry, moved>> /\ \A a \in Accounts : active'[a] # "CLOSED"
CashNext == scene = "cash" /\ Next /\ UNCHANGED <<scene, plan>>
MCNext == DuesNext \/ CashNext
MCSpec == MCInit /\ [][MCNext]_<<scene, vars>>
=============================================================================
