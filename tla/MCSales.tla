------------------------------- MODULE MCSales -------------------------------
(* An order of two lines, one of them larger, and what its documents rest    *)
(* on: the arithmetic of lines, the customer's credit and exchange rates.    *)
(* The four touch at single values (a price, a balance, a rate), so a scene  *)
(* acts one of them out.                                                     *)
EXTENDS Sales, Customers, DocumentMath, Exchange, TLC

VARIABLE scene
all == <<scene, vars, riskVars, mathVars, exchangeVars>>

\* What a document takes, the larger line first: one of each, or one.
MCPair(a, b) == [l \in Lines |-> IF l = "a" THEN a ELSE b]
MCOrdered == MCPair(2, 1)
MCOpening == MCPair(2, 1)
MCQuantities == {MCPair(1, 1), MCPair(1, 0)}
MCSymmetry == Permutations(Dispatches) \cup Permutations(Invoices)

MCLineKind == [o1 |-> "PRODUCT", o2 |-> "SERVICE"]

\* Rates in twentieths: coarse enough for every rounding to show.
MCHundred == 20
MCPrices == {7, 40}
MCLineQuantities == {<<1, 2>>, <<3, 2>>}
PercentOff(k) == [kind |-> "PERCENT", amount |-> k]
FixedOff(k) == [kind |-> "FIXED", amount |-> k]
MCChains == {<<>>, <<FixedOff(1), PercentOff(3)>>, <<PercentOff(3), PercentOff(7)>>, <<FixedOff(2)>>}
Tax(kind, rate, inBase, primary, exempt) ==
    [kind |-> kind, rate |-> rate, inBase |-> inBase, primary |-> primary, exempt |-> exempt, withheld |-> <<0, 1>>]
VAT(exempt) == Tax("PERCENTAGE", 3, FALSE, TRUE, exempt)
MCProfiles ==
    {<<VAT(FALSE)>>,
     <<VAT(TRUE)>>,
     <<VAT(FALSE), Tax("PERCENTAGE", 5, TRUE, FALSE, FALSE)>>,
     <<VAT(TRUE), Tax("QUANTITY_BASED", 2, TRUE, FALSE, FALSE)>>,
     <<VAT(FALSE), [Tax("FIXED_AMOUNT", 1, FALSE, FALSE, FALSE) EXCEPT !.withheld = <<1, 1>>]>>}

\* Documents and the worker ask for rates while the settings page refreshes
\* them; the providers publish for different days.
RatesStep ==
    /\ ExchangeStep
    /\ (calling'["c1"] = Rest \/ calling'["c1"].kind = "force") /\ calling'["c2"].kind # "force"
    /\ policy'.preference # "TCMB"
    /\ \A c \in Callers : (calling'[c].got.source = "ECB") = (calling'[c].got.day = 2)

MCInit ==
    /\ scene \in {"order", "credit", "lines", "rates"}
    /\ Init /\ RiskInit /\ MathInit /\ ExchangeInit
    /\ scene # "credit" => buyer.limit = 0 /\ buyer.policy = "WARN"

OrderNext == scene = "order" /\ Next /\ UNCHANGED <<scene, riskVars, mathVars, exchangeVars>>
\* One unit at a time is collected in advance or waits to be reversed.
CreditNext == scene = "credit" /\ RiskNext /\ paid' <= 1 /\ UNCHANGED <<scene, vars, mathVars, exchangeVars>>
LinesNext == scene = "lines" /\ MathNext /\ UNCHANGED <<scene, vars, riskVars, exchangeVars>>
RatesNext == scene = "rates" /\ RatesStep /\ UNCHANGED <<scene, vars, riskVars, mathVars>>

MCNext == OrderNext \/ CreditNext \/ LinesNext \/ RatesNext
MCSpec == MCInit /\ [][MCNext]_all
=============================================================================
