----------------------------- MODULE DocumentMath -----------------------------
(***************************************************************************)
(* The amounts of a document line: the price the catalogue gives it        *)
(* (internal/commerce), the tax engine (internal/taxes/calculator.go), the *)
(* line of a sales document (normalizeCommercialLines), its conversion     *)
(* into the lines of later documents, and the line of a purchase invoice   *)
(* (internal/purchasing/pricing.go).                                       *)
(*                                                                         *)
(* The code computes with exact fractions and rounds HALF_UP to the last   *)
(* stored decimal.  Here that decimal is the unit of every amount, and     *)
(* Hundred, which the code has at 100 with eight decimals, is small, so    *)
(* that a rounded percentage matters for the amounts that are tried.       *)
(***************************************************************************)
EXTENDS Integers, Sequences, FiniteSets, SequencesExt

CONSTANTS Hundred,       \* a whole, in parts of which rates are given
          Prices,        \* unit prices
          LineQuantities,    \* quantities of a line, as fractions
          Chains,        \* discount chains
          Profiles,      \* tax profiles: see Component
          Withholdings,  \* withholding rates
          Tolerance      \* a tax that differs by more is an override

NoPrice == -1

ASSUME MathAssumption ==
    /\ Hundred \in Nat \ {0} /\ Prices \subseteq Nat /\ Withholdings \subseteq 0..Hundred
    /\ \A q \in LineQuantities : q[1] > 0 /\ q[2] > 0
    /\ Tolerance \in Nat

VARIABLES
    card,     \* the catalogue's prices of the product, by source
    orderLine, \* the line of an order
    parts,    \* the lines converted from it
    bill,     \* the line of a purchase invoice
    sheet     \* a calculation of several lines with a document discount

mathVars == <<card, orderLine, parts, bill, sheet>>
-----------------------------------------------------------------------------
(* Fractions (math/big.Rat) *)

gcd[a \in Nat, b \in Nat] == IF b = 0 THEN a ELSE gcd[b, a % b]
Abs(n) == IF n < 0 THEN -n ELSE n
Fraction(n, d) == LET g == gcd[Abs(n), d] IN IF n = 0 THEN <<0, 1>> ELSE <<n \div g, d \div g>>
Whole(n) == <<n, 1>>
Add(a, b) == LET g == gcd[a[2], b[2]]
             IN  Fraction(a[1] * (b[2] \div g) + b[1] * (a[2] \div g), a[2] * (b[2] \div g))
Sub(a, b) == Add(a, <<-b[1], b[2]>>)
Mul(a, b) == LET g == gcd[Abs(a[1]), b[2]]
                 h == gcd[Abs(b[1]), a[2]]
             IN  IF a[1] = 0 \/ b[1] = 0 THEN Whole(0)
                 ELSE <<(a[1] \div g) * (b[1] \div h), (a[2] \div h) * (b[2] \div g)>>
Quo(a, b) == Mul(a, <<b[2], b[1]>>)
Less(a, b) == Sub(a, b)[1] < 0
Percent(a, rate) == Mul(a, Fraction(rate, Hundred))

\* roundRat and rat8; amounts are not negative.
Round(a) == (2 * a[1] + a[2]) \div (2 * a[2])
truncateRat(a) == a[1] \div a[2]
-----------------------------------------------------------------------------
(* The tax engine *)

\* A component of a tax profile; the first one is the profile's own VAT.
Component == [kind: {"PERCENTAGE", "QUANTITY_BASED", "FIXED_AMOUNT"}, rate: Nat,
              inBase: BOOLEAN, primary: BOOLEAN, exempt: BOOLEAN, withheld: Seq(Nat)]

\* What a discount takes off the amount that is left, refused when it is too much.
Takes(left, x) == IF x.kind = "PERCENT" THEN Percent(left, x.amount) ELSE Whole(x.amount)
Fits(left, x) == IF x.kind = "PERCENT" THEN x.amount <= Hundred ELSE ~ Less(left, Whole(x.amount))

cascadingDiscount(gross, chain) ==
    FoldLeft(LAMBDA t, x : LET left == Sub(gross, t.taken)
                           IN  [taken |-> Add(t.taken, Takes(left, x)), ok |-> t.ok /\ Fits(left, x)],
             [taken |-> Whole(0), ok |-> TRUE], chain)

resolveLineBase(l) ==
    LET gross == Mul(Whole(l.price), l.qty)
        cut   == cascadingDiscount(gross, l.chain)
    IN  [gross |-> gross, discount |-> cut.taken, base |-> Sub(gross, cut.taken), ok |-> cut.ok]

\* The document discount, shared out by base: truncated shares, then one unit
\* to the lines with the largest remainders, the first among equals.
Share(exact, target) ==
    LET rest      == [i \in DOMAIN exact |-> Sub(exact[i], Whole(truncateRat(exact[i])))]
        assigned  == FoldLeft(LAMBDA t, x : t + truncateRat(x), 0, exact)
        Before(i) == {j \in DOMAIN rest : Less(rest[i], rest[j]) \/ (rest[i] = rest[j] /\ j < i)}
    IN  [i \in DOMAIN exact |->
            truncateRat(exact[i]) + (IF Cardinality(Before(i)) < target - assigned THEN 1 ELSE 0)]
Distribute(bases, total, cut) ==
    [ok     |-> cut.ok,
     target |-> Round(cut.taken),
     shares |-> IF cut.taken[1] = 0 THEN [i \in DOMAIN bases |-> 0]
                ELSE Share([i \in DOMAIN bases |-> Quo(Mul(Whole(Round(cut.taken)), bases[i].base), total)],
                           Round(cut.taken))]
distributeHeaderDiscount(bases, chain) ==
    LET total == FoldLeft(LAMBDA t, b : Add(t, b.base), Whole(0), bases)
    IN  Distribute(bases, total, cascadingDiscount(total, chain))

\* What the components inside, or outside, the tax base add to a line, as a rate and as
\* an amount.
RateOf(comps, inBase) ==
    FoldLeft(LAMBDA t, c : IF c.inBase = inBase /\ ~ c.exempt /\ c.kind = "PERCENTAGE" THEN t + c.rate ELSE t, 0, comps)
FixedOf(comps, qty, inBase) ==
    FoldLeft(LAMBDA t, c : IF c.inBase # inBase \/ c.exempt \/ c.kind = "PERCENTAGE" THEN t
                           ELSE Add(t, IF c.kind = "QUANTITY_BASED" THEN Mul(qty, Whole(c.rate))
                                       ELSE Whole(c.rate)),
             Whole(0), comps)

\* The net amount in a price that includes tax.
NetOfTax(base, inner, outer, fixed) == Quo(Sub(base, fixed), Mul(inner, outer))

\* What each component adds to a line of this net amount; those outside the base are
\* on top of the net amount and of the components inside it.
TaxAmounts(l, net, onTop) ==
    [i \in DOMAIN l.comps |->
        LET c == l.comps[i]
        IN  CASE c.exempt                  -> Whole(0)
              [] c.kind = "QUANTITY_BASED" -> Mul(l.qty, Whole(c.rate))
              [] c.kind = "FIXED_AMOUNT"   -> Whole(c.rate)
              [] OTHER                     -> Percent(IF c.inBase THEN net ELSE onTop, c.rate)]
SumOf(amounts) == FoldLeft(Add, Whole(0), amounts)

\* The amounts of a line as they are stored.
RoundedLine(l, b, share, included, base, net, amounts) ==
    LET tax   == Round(SumOf(amounts))
        total == IF included THEN Round(base) ELSE Round(net) + tax
    IN  [ok       |-> b.ok /\ base[1] >= 0 /\ net[1] >= 0,
         gross    |-> Round(b.gross),
         discount |-> Round(Add(b.discount, Whole(share))),
         share    |-> share,
         net      |-> IF included THEN total - tax ELSE Round(net),
         tax      |-> tax,
         withheld |-> Round(SumOf([i \in DOMAIN amounts |-> Mul(amounts[i], l.comps[i].withheld)])),
         total    |-> total,
         comps    |-> [i \in DOMAIN amounts |-> Round(amounts[i])]]

calculateLineFrom(l, b, share, included) ==
    LET base  == Sub(b.base, Whole(share))
        inner == Fraction(Hundred + RateOf(l.comps, TRUE), Hundred)
        outer == Fraction(Hundred + RateOf(l.comps, FALSE), Hundred)
        fixed == Add(Mul(FixedOf(l.comps, l.qty, TRUE), outer), FixedOf(l.comps, l.qty, FALSE))
        net   == IF included THEN NetOfTax(base, inner, outer, fixed) ELSE base
        onTop == Add(Mul(net, inner), FixedOf(l.comps, l.qty, TRUE))
    IN  RoundedLine(l, b, share, included, base, net, TaxAmounts(l, net, onTop))

Sheet(header, bases, result) ==
    LET Total(F(_)) == FoldLeft(LAMBDA t, r : t + F(r), 0, result)
    IN  [ok |-> header.ok /\ \A i \in DOMAIN result : bases[i].ok /\ result[i].ok,
         header |-> header.target,
         lines |-> result, total |-> Total(LAMBDA r : r.total),
         payable |-> Total(LAMBDA r : r.total) - Total(LAMBDA r : r.withheld)]
CalculateLines(lines, bases, header, included) ==
    Sheet(header, bases,
          [i \in DOMAIN lines |-> calculateLineFrom(lines[i], bases[i], header.shares[i], included)])
Calculate(lines, chain, included) ==
    LET bases == [i \in DOMAIN lines |-> resolveLineBase(lines[i])]
    IN  CalculateLines(lines, bases, distributeHeaderDiscount(bases, chain), included)
-----------------------------------------------------------------------------
(* The price of a line *)

SalesSources == <<"SPECIAL", "PARTY_PRICE_LIST", "DOCUMENT_PRICE_LIST", "DEFAULT">>
PurchaseSources == <<"SPECIAL", "LAST_PURCHASE", "DEFAULT">>
PriceSources == ToSet(SalesSources) \cup ToSet(PurchaseSources)

\* The price of a line and where it comes from: the one supplied, or the first
\* that the catalogue has.
ClassifyPrice(sources, price) ==
    LET same == SelectSeq(sources, LAMBDA s : card[s] = price)
    IN  IF same = <<>> THEN "MANUAL" ELSE same[1]
ResolveLineDefaults(sources, supplied) ==
    LET known == SelectSeq(sources, LAMBDA s : card[s] # NoPrice)
    IN  IF supplied = NoPrice
        THEN [price |-> card[known[1]], source |-> known[1]]
        ELSE [price |-> supplied, source |-> ClassifyPrice(sources, supplied)]
-----------------------------------------------------------------------------
(* A line of a sales document *)

commercialLineNeedsTaxEngine(comps) ==
    Len(comps) > 1 \/ \E i \in DOMAIN comps : comps[i].kind # "PERCENTAGE" \/ comps[i].inBase

\* The VAT a line withholds from: a component whose amount is zero is passed over.
\* Mutant: the whole tax of the line.
MutprimaryComponentAmount(comps, amounts, tax) == tax
primaryComponentAmount(comps, amounts, tax) ==
    LET vat == SelectSeq([i \in DOMAIN comps |-> i], LAMBDA i : comps[i].primary /\ amounts[i] > 0)
    IN  IF vat = <<>> THEN tax ELSE Whole(amounts[vat[1]])

\* A line with one plain rate is calculated in place; an exemption of that
\* component does not matter here.
FlatLine(l, included) ==
    LET b   == resolveLineBase(l)
        net == IF included THEN Quo(b.base, Fraction(Hundred + l.comps[1].rate, Hundred)) ELSE b.base
        tax == IF included THEN Sub(b.base, net) ELSE Percent(net, l.comps[1].rate)
    IN  [ok |-> b.ok, gross |-> b.gross, discount |-> b.discount, net |-> net, tax |-> tax,
         comps |-> <<Round(tax)>>]

EngineLine(l, included) ==
    [calculateLineFrom(l, resolveLineBase(l), 0, included) EXCEPT
        !.gross = Whole(@), !.discount = Whole(@), !.net = Whole(@), !.tax = Whole(@)]

\* The line as it is stored, its withholding taken from its VAT.
StoredLine(l, included, wr, x) ==
    LET held == Percent(primaryComponentAmount(l.comps, x.comps, x.tax), wr)
    IN  [ok |-> x.ok, in |-> l, included |-> included, wr |-> wr, amounts |-> x.comps,
         gross |-> Round(x.gross), discount |-> Round(x.discount), net |-> Round(x.net),
         tax |-> Round(x.tax), withheld |-> Round(held), total |-> Round(Add(x.net, x.tax)),
         payable |-> Round(Sub(Add(x.net, x.tax), held))]
normalizeCommercialLines(l, included, wr) ==
    StoredLine(l, included, wr, IF commercialLineNeedsTaxEngine(l.comps) THEN EngineLine(l, included)
                                ELSE FlatLine(l, included))

\* A conversion carries the discount as one percentage of the gross amount.
conversionDiscountComponents(line) ==
    IF line.gross = 0 \/ line.discount = 0 THEN <<>>
    ELSE <<[kind |-> "PERCENT", amount |-> Round(Fraction(line.discount * Hundred, line.gross))]>>

NoLine == [ok |-> FALSE]
Taken == FoldLeft(LAMBDA t, p : Add(t, p.in.qty), Whole(0), parts)

ListPrices == [s \in PriceSources |-> IF s = "DEFAULT" THEN CHOOSE p \in Prices : TRUE ELSE NoPrice]
MathInit ==
    /\ card = ListPrices
    /\ orderLine = NoLine /\ parts = <<>> /\ bill = NoLine /\ sheet = NoLine

\* Products, variants, price lists and what a supplier last charged.
Reprice(s, p) ==
    /\ s = "DEFAULT" => p # NoPrice
    /\ card' = [card EXCEPT ![s] = p]
    /\ UNCHANGED <<orderLine, parts, bill, sheet>>

\* A line is saved, and saved again while its document is a draft; override is
\* the permission to set a price the catalogue does not have.
SaveLine(qty, chain, comps, included, wr, supplied, override) ==
    LET d == ResolveLineDefaults(SalesSources, supplied)
    IN  /\ parts = <<>> /\ bill = NoLine /\ sheet = NoLine
        /\ d.source = "MANUAL" => override
        /\ orderLine' = normalizeCommercialLines(
                [price |-> d.price, qty |-> qty, chain |-> chain, comps |-> comps], included, wr)
        /\ orderLine'.ok
        /\ UNCHANGED <<card, parts, bill, sheet>>

\* remainingCommercialLine and ConvertCommercial: what is open of the line, or
\* the part of it that was delivered, becomes the line of another document.
ConvertLine(qty) ==
    /\ orderLine # NoLine
    /\ ~ Less(Sub(orderLine.in.qty, Taken), qty)
    /\ parts' = Append(parts, normalizeCommercialLines(
            [orderLine.in EXCEPT !.qty = qty, !.chain = conversionDiscountComponents(orderLine)],
            orderLine.included, orderLine.wr))
    /\ parts'[Len(parts')].ok
    /\ UNCHANGED <<card, orderLine, bill, sheet>>

\* A line of a purchase invoice: the engine's amounts, with the tax the client
\* sent when it differs and the client may override it.
StoredBill(line, r, due, wr, over) ==
    LET vat  == SelectSeq([i \in DOMAIN line.comps |-> i], LAMBDA i : line.comps[i].primary)
        held == Round(Percent(Whole(IF vat = <<>> THEN due ELSE r.comps[vat[1]]), wr))
    IN  [ok |-> r.ok, in |-> line, gross |-> r.gross, discount |-> r.discount, net |-> r.net,
         tax |-> due, amounts |-> r.comps, wr |-> wr, withheld |-> held, over |-> over,
         payable |-> r.net + due - held]
SaveBill(qty, chain, comps, included, wr, supplied, tax, override) ==
    LET d    == ResolveLineDefaults(PurchaseSources, supplied)
        line == [price |-> d.price, qty |-> qty, chain |-> chain, comps |-> comps]
    IN  /\ orderLine = NoLine /\ sheet = NoLine
        /\ \E r \in {calculateLineFrom(line, resolveLineBase(line), 0, included)} :
              LET over == tax # NoPrice /\ Abs(tax - r.tax) > Tolerance
              IN  /\ (d.source = "MANUAL" \/ over) => override
                  /\ bill' = StoredBill(line, r, IF over THEN tax ELSE r.tax, wr, over)
        /\ bill'.ok /\ bill'.payable >= 0
        /\ UNCHANGED <<card, orderLine, parts, sheet>>

\* Several lines with a document discount.
CalculateSheet(lines, chain, included) ==
    /\ orderLine = NoLine /\ bill = NoLine
    /\ sheet' = Calculate(lines, chain, included)
    /\ sheet'.ok
    /\ UNCHANGED <<card, orderLine, parts, bill>>

\* Saving a draft again calculates it afresh, so one line is saved once here, after at
\* most one change of prices.
Fresh == orderLine = NoLine /\ bill = NoLine /\ sheet = NoLine
MathNext ==
    \/ \E s \in PriceSources, p \in Prices \cup {NoPrice} :
          Fresh /\ card = ListPrices /\ Reprice(s, p)
    \/ \E q \in LineQuantities, comps \in Profiles, wr \in Withholdings, included, override \in BOOLEAN,
          supplied \in Prices \cup {NoPrice} :
          \/ \E x \in Chains : Fresh /\ SaveLine(q, x, comps, included, wr, supplied, override)
          \/ \E a \in Prices, tax \in {NoPrice, 1} :
                /\ Fresh
                /\ SaveBill(q, <<[kind |-> "FIXED", amount |-> a]>>, comps, included, wr, supplied, tax, override)
    \/ \E q \in LineQuantities : ConvertLine(q)
    \/ \E p1, p2 \in Prices, q \in LineQuantities, comps \in Profiles, x, y \in Chains, included \in BOOLEAN :
          /\ Fresh /\ card = ListPrices
          /\ CalculateSheet(<<[price |-> p1, qty |-> q, chain |-> x, comps |-> comps],
                              [price |-> p2, qty |-> q, chain |-> <<>>, comps |-> comps],
                              [price |-> p1, qty |-> Whole(1), chain |-> <<>>, comps |-> comps]>>, y, included)
-----------------------------------------------------------------------------
(* Properties *)

Near(a, b, d) == Abs(a - b) <= d

\* A line adds up: its total is net and tax and what is payable is the total without
\* what is withheld, each to the unit it is rounded to; the total of a price that
\* includes tax is the price, less its discount, and withholding is taken from VAT
\* alone, when there is any.
LineAddsUp(l) ==
    /\ Near(l.total, l.net + l.tax, 1)
    /\ Near(l.payable, l.total - l.withheld, 1)
    /\ l.discount <= l.gross /\ l.tax >= 0 /\ l.payable >= -1
    /\ l.included => Near(l.total, l.gross - l.discount, 1)
    /\ (Len(l.amounts) > 1 /\ l.amounts[1] > 0) => Near(l.withheld * Hundred, l.amounts[1] * l.wr, Hundred)

\* The two ways of calculating a line with one plain rate agree, to the unit.
PathsAgree(l) ==
    (~ commercialLineNeedsTaxEngine(l.in.comps) /\ ~ l.in.comps[1].exempt) =>
        LET e == EngineLine(l.in, l.included)
        IN  /\ Round(e.gross) = l.gross /\ Round(e.discount) = l.discount /\ Round(e.tax) = l.tax
            /\ Near(Round(Add(e.net, e.tax)), l.total, 1)

\* What is converted from a line carries its discount: it differs by half a unit of
\* the rounded percentage, and rounding.
KeepsDiscount(p) ==
    LET exact == Quo(Mul(Whole(orderLine.discount), p.in.qty), orderLine.in.qty)
        slack == Add(Fraction(p.gross, 2 * Hundred), Whole(2))
    IN  ~ Less(slack, Fraction(Abs(p.discount * exact[2] - exact[1]), exact[2]))

\* Every amount a document is given holds together: lines, conversions, purchase
\* lines, and a document discount that reaches the lines to the last unit
\* (normalizeCommercialLines, ConvertCommercial, taxes.Calculate).
AmountsAddUp ==
    /\ orderLine # NoLine => LineAddsUp(orderLine) /\ PathsAgree(orderLine)
    /\ \A i \in DOMAIN parts : LineAddsUp(parts[i]) /\ PathsAgree(parts[i]) /\ KeepsDiscount(parts[i])
    /\ bill # NoLine =>
          /\ bill.payable = bill.net + bill.tax - bill.withheld
          /\ Near(bill.withheld * Hundred, bill.amounts[1] * bill.wr, Hundred)
          /\ bill.gross - bill.discount >= 0
    /\ sheet # NoLine =>
          /\ FoldLeft(LAMBDA t, r : t + r.share, 0, sheet.lines) = sheet.header
          /\ \A i \in DOMAIN sheet.lines : sheet.lines[i].net + sheet.lines[i].tax = sheet.lines[i].total
          /\ sheet.payable <= sheet.total
=============================================================================
