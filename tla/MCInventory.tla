----------------------------- MODULE MCInventory -----------------------------
(* Two warehouses with a transfer each way, the one from A with two lines;   *)
(* and one warehouse with a variant kept with and without a lot and one with *)
(* a serial number, five commands and one count.  One of the two is acted    *)
(* out and the other stands still.                                           *)
EXTENDS Transfers, StockCount, TLC

CONSTANTS w1, w2

VARIABLE scene

MCTransferOf == [l \in Lines |-> IF l = "l3" THEN "back" ELSE "out"]
MCProductOf == [l \in Lines |-> "p"]
MCFromPlace == [t \in Transfers |-> IF t = "out" THEN "A" ELSE "B"]
MCToPlace == [t \in Transfers |-> IF t = "out" THEN "B" ELSE "A"]
MCOpening == [w \in Warehouses |-> IF w = "A" THEN 3 ELSE 1]
MCBarriers == {[kind |-> k, place |-> "A", product |-> "p"] : k \in {"COUNT", "VARIANT", "LOT"}}
MCMaxQuantity == [l \in Lines |-> IF l = "l1" THEN 2 ELSE 1]

MCVariant == [plain |-> "v", lot |-> "v", unit |-> "u", serial |-> "u"]
MCTracking == [plain |-> "PLAIN", lot |-> "LOT", unit |-> "PLAIN", serial |-> "SERIAL"]
MCPlain == [v |-> "plain", u |-> "unit"]

L(i, d) == [item |-> i, delta |-> d]
MCCommands ==
    [receipt |-> <<L("plain", 1), L("lot", 1)>>, take |-> <<L("plain", -1)>>, takeLot |-> <<L("lot", -1)>>,
     operation |-> <<L("plain", 1), L("unit", 1)>>, opening |-> <<L("serial", 1)>>]
MCSource ==
    [receipt |-> "DOCUMENT", take |-> "MANUAL", takeLot |-> "MANUAL", operation |-> "OPERATION", opening |-> "IMPORT"]
MCBarcodes == [one |-> {"v"}, none |-> {}, both |-> {"v", "u"}]
MCScopes == {{"plain"}}

\* Beside a count only some of the commands are explored, without reversals and
\* without changes of the warehouse, until the count ends; a count with a barcode that was not placed
\* can never be posted, and is followed for a few steps.
Small ==
    count.state # "NONE" =>
        /\ warehouse.active /\ count.state \in Counting
        /\ \A k \in DOMAIN ledger.moves : ledger.moves[k].command \in {"receipt", "take", "NONE"}
        /\ \A w \in Workers : running[w].kind = "POST" => running[w].command \in {"receipt", "take", "NONE"}
        /\ \A w \in Workers : running[w].kind \in {"NONE", "POST"}
        /\ Unread # {} => Len(events) = 1
Symmetric == Permutations(Workers)

everything == <<scene, transferVars, countVars>>

MCInit ==
    /\ scene \in {"transfers", "stock"}
    /\ TransfersInit /\ CountInit
    /\ scene = "stock" => /\ state = [t \in Transfers |-> "NONE"]
                          /\ \A l \in Lines : line[l].quantity = 1

CarryNext == scene = "transfers" /\ TransfersNext /\ UNCHANGED <<scene, countVars>>
ShelfNext == scene = "stock" /\ CountNext /\ UNCHANGED <<scene, transferVars>>

MCNext == CarryNext \/ ShelfNext
MCSpec == MCInit /\ [][MCNext]_everything
=============================================================================
