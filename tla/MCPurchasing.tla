---------------------------- MODULE MCPurchasing ----------------------------
(* One order of two products and a service, two receipts, two invoices, a   *)
(* return and a landed cost.                                                *)
EXTENDS Purchasing, TLC

CONSTANTS r1, r2, i1, i2, t1, c1

MCLineType == <<"PRODUCT", "PRODUCT", "SERVICE">>
MCUnitCost == <<2, 1>>
MCMaxIssued == <<1, 0>>
MCOrderInputs == {<<2, 1, 1>>}
MCDeliveries == {<<1, 1, 0>>}

Line(n, f, l, q) == [no |-> n, from |-> f, line |-> l, qty |-> q]
MCBills ==
    {[order |-> TRUE, receipts |-> {}, lines |-> {Line(1, "ORDER", 1, 1)}],
     [order |-> TRUE, receipts |-> {}, lines |-> {Line(1, "ORDER", 1, 1), Line(2, "ORDER", 1, 1)}],
     [order |-> FALSE, receipts |-> {}, lines |-> {Line(1, "NONE", 1, 1)}]}
    \cup {[order |-> TRUE, receipts |-> {r}, lines |-> {Line(1, r, 1, 1), Line(2, "ORDER", 3, 1)}] : r \in Receipts}
    \cup {[order |-> FALSE, receipts |-> Receipts, lines |-> {Line(1, r, 1, 1), Line(2, s, 1, 1)}] :
             r \in Receipts, s \in Receipts}
\* Beside a landed cost there is at most one invoice.
Used == {i \in Invoices : invoice[i].status # "NONE"}
MCNext == Next /\ (landed' # [c \in LandedCosts |-> NoLanded] => Cardinality(Used') <= 1)
MCSpec == Init /\ [][MCNext]_vars
Symmetric == Permutations(Receipts) \cup Permutations(Invoices)
=============================================================================
