------------------------------ MODULE Customers ------------------------------
(***************************************************************************)
(* What a customer may owe: quotes, orders, deliveries and invoices of one *)
(* customer against the customer's limit (internal/commerce/risk.go and    *)
(* the commands of internal/sales/commercial.go that ask it), while the    *)
(* card, the product and the clerk's permissions change.                   *)
(*                                                                         *)
(* Every command is one serializable transaction.  A unit of any line      *)
(* costs one; drafts of dispatches and invoices, which hold nothing, are   *)
(* not kept: module Sales has them.                                        *)
(***************************************************************************)
EXTENDS Integers, FiniteSets, FiniteSetsExt, Functions

CONSTANTS Quotes, Orders,
          LineKind,     \* of each order: "PRODUCT" or "SERVICE"
          OrderSize,    \* quantities of an order
          Limits,       \* credit limits; 0 is none
          MaxOwed       \* bound: the balance and the payments that are tried

ASSUME CustomersAssumption ==
    /\ LineKind \in [Orders -> {"PRODUCT", "SERVICE"}]
    /\ IsFiniteSet(Orders)
    /\ OrderSize \subseteq Nat \ {0} /\ Limits \subseteq Nat /\ MaxOwed \in Nat

VARIABLES
    buyer,     \* the customer's card: standing, limit and policy
    product,   \* is the product active
    override,  \* does the clerk hold sales.risk.override
    quote,     \* status of each quote
    sold,      \* the orders
    balance,   \* the customer's ledger balance
    paid,      \* payments that can still be reversed
    excused    \* is a balance beyond the limit due to more than sales

riskVars == <<buyer, product, override, quote, sold, balance, paid, excused>>

Standings == {"customer", "supplier", "passive"}   \* active with the role, without it, inactive
NoSale == [status |-> "NONE", qty |-> 0, shipped |-> 0, billed |-> 0, viaDispatch |-> 0]
Ongoing(o) == sold[o].status \in {"CONFIRMED", "PARTIALLY_FULFILLED", "FULFILLED"}
-----------------------------------------------------------------------------
(* Exposure *)
AtLeast0(n) == IF n < 0 THEN 0 ELSE n
Committed(s) ==
    SumFunctionOnSet([o \in Orders |-> IF LineKind[o] = "PRODUCT"
                                       THEN AtLeast0(s[o].shipped - (s[o].billed + s[o].viaDispatch))
                                       ELSE AtLeast0(s[o].qty - s[o].billed)],
                     {o \in Orders : Ongoing(o)})

(* A bug: the document is taken to be part of what the orders commit *)
MutProjected(s, additional) == balance + Committed(s)
Projected(s, additional) == balance + Committed(s) + additional

EvaluateSalesRisk(s, additional) ==
    CASE ~ (buyer.limit > 0 /\ Projected(s, additional) > buyer.limit) -> "ALLOW"
      [] OTHER -> buyer.policy

(* A limit is no obstacle to a clerk with the permission *)
checkCommercialRisk(s, additional) == EvaluateSalesRisk(s, additional) # "BLOCK" \/ override

(* Why the balance stands beyond the limit, if it does *)
Waived == buyer.policy # "BLOCK" \/ override
Excuse(newBalance, limit, reason) == limit > 0 /\ newBalance > limit /\ (excused \/ reason)

validateCommercialPostMasters(o) ==
    /\ buyer.standing = "customer"
    /\ LineKind[o] = "PRODUCT" => product
(* A draft asks the same of the masters, outside any transaction *)
normalizeCommercialInput(o) ==
    /\ buyer.standing = "customer"
    /\ LineKind[o] = "PRODUCT" => product
-----------------------------------------------------------------------------
(* Quotes *)
quoteTransition(command) ==
    CASE command = "send" -> [from |-> "DRAFT", to |-> "SENT"]
      [] command = "accept" -> [from |-> "SENT", to |-> "ACCEPTED"]
      [] command = "reject" -> [from |-> "SENT", to |-> "REJECTED"]

TransitionQuote(k, command) ==
    /\ quote[k] = quoteTransition(command).from
    /\ quote' = [quote EXCEPT ![k] = quoteTransition(command).to]
    /\ UNCHANGED <<buyer, product, override, sold, balance, paid, excused>>

CancelQuote(k) ==
    /\ quote[k] \in {"SENT", "ACCEPTED"}
    /\ quote' = [quote EXCEPT ![k] = "CANCELLED"]
    /\ UNCHANGED <<buyer, product, override, sold, balance, paid, excused>>

(* An accepted quote gives its whole quantity to every order made from it *)
ConvertQuote(k, o, qty) ==
    /\ quote[k] = "ACCEPTED" /\ sold[o] = NoSale
    /\ normalizeCommercialInput(o)
    /\ sold' = [sold EXCEPT ![o] = [NoSale EXCEPT !.status = "DRAFT", !.qty = qty]]
    /\ UNCHANGED <<buyer, product, override, quote, balance, paid, excused>>
-----------------------------------------------------------------------------
(* Orders, deliveries and invoices *)
ConfirmOrder(o) ==
    /\ sold[o].status = "DRAFT"
    /\ validateCommercialPostMasters(o)
    /\ checkCommercialRisk(sold, sold[o].qty)
    /\ sold' = [sold EXCEPT ![o].status = "CONFIRMED"]
    /\ UNCHANGED <<buyer, product, override, quote, balance, paid, excused>>

DropOrder(o) ==
    /\ sold[o].status \in {"CONFIRMED", "PARTIALLY_FULFILLED"}
    /\ sold' = [sold EXCEPT ![o].status = "CANCELLED"]
    /\ UNCHANGED <<buyer, product, override, quote, balance, paid, excused>>

Fulfilment(s, shipped) ==
    IF shipped = 0 THEN "CONFIRMED" ELSE IF shipped = s.qty THEN "FULFILLED" ELSE "PARTIALLY_FULFILLED"

(* Goods leave without a look at the limit *)
ShipOrder(o, q) ==
    /\ LineKind[o] = "PRODUCT" /\ sold[o].status \in {"CONFIRMED", "PARTIALLY_FULFILLED"}
    /\ validateCommercialPostMasters(o)
    /\ sold[o].shipped + q <= sold[o].qty
    /\ sold' = [sold EXCEPT ![o].shipped = @ + q, ![o].status = Fulfilment(sold[o], sold[o].shipped + q)]
    /\ UNCHANGED <<buyer, product, override, quote, balance, paid, excused>>

UnshipOrder(o, q) ==
    /\ Ongoing(o) /\ sold[o].shipped - q >= sold[o].billed + sold[o].viaDispatch
    /\ sold' = [sold EXCEPT ![o].shipped = @ - q, ![o].status = Fulfilment(sold[o], sold[o].shipped - q)]
    /\ UNCHANGED <<buyer, product, override, quote, balance, paid, excused>>

Billable(o) ==
    LET s == sold[o]
    IN  IF LineKind[o] = "PRODUCT" THEN s.shipped - s.billed - s.viaDispatch ELSE s.qty - s.billed

(* An invoice consumes its allocations before the limit is asked; a        *)
(* dispatch of a cancelled order can still be billed                       *)
BillOrder(o, q, via) ==
    LET after == [sold EXCEPT ![o].billed = IF via THEN @ ELSE @ + q,
                              ![o].viaDispatch = IF via THEN @ + q ELSE @]
    IN  /\ via => LineKind[o] = "PRODUCT"
        /\ Ongoing(o) \/ (via /\ sold[o].status = "CANCELLED")
        /\ validateCommercialPostMasters(o)
        /\ q <= Billable(o)
        /\ checkCommercialRisk(after, q)
        /\ balance + q <= MaxOwed
        /\ sold' = after
        /\ balance' = balance + q
        /\ excused' = Excuse(balance + q, buyer.limit, Waived)
        /\ UNCHANGED <<buyer, product, override, quote, paid>>

PostDirectInvoice(q) ==
    /\ buyer.standing = "customer" /\ product
    /\ checkCommercialRisk(sold, q)
    /\ balance + q <= MaxOwed
    /\ balance' = balance + q
    /\ excused' = Excuse(balance + q, buyer.limit, Waived)
    /\ UNCHANGED <<buyer, product, override, quote, sold, paid>>

(* A cancelled invoice gives the goods back to the order's commitment *)
UnbillOrder(o, q, via) ==
    /\ q <= (IF via THEN sold[o].viaDispatch ELSE sold[o].billed)
    /\ sold' = [sold EXCEPT ![o].billed = IF via THEN @ ELSE @ - q,
                            ![o].viaDispatch = IF via THEN @ - q ELSE @]
    /\ balance' = balance - q
    /\ excused' = Excuse(balance - q, buyer.limit, FALSE)
    /\ UNCHANGED <<buyer, product, override, quote, paid>>
-----------------------------------------------------------------------------
(* Around them: none of these asks the limit *)
Collect(q) ==
    /\ paid + q <= MaxOwed
    /\ balance' = balance - q /\ paid' = paid + q
    /\ excused' = Excuse(balance - q, buyer.limit, FALSE)
    /\ UNCHANGED <<buyer, product, override, quote, sold>>

ReverseCollection(q) ==
    /\ q <= paid
    /\ balance' = balance + q /\ paid' = paid - q
    /\ excused' = Excuse(balance + q, buyer.limit, TRUE)
    /\ UNCHANGED <<buyer, product, override, quote, sold>>

PostManualDebit(q) ==
    /\ buyer.standing # "passive" /\ balance + q <= MaxOwed
    /\ balance' = balance + q
    /\ excused' = Excuse(balance + q, buyer.limit, TRUE)
    /\ UNCHANGED <<buyer, product, override, quote, sold, paid>>

SaveCard(standing, limit, policy) ==
    /\ buyer' = [standing |-> standing, limit |-> limit, policy |-> policy]
    /\ buyer' # buyer
    /\ excused' = Excuse(balance, limit, TRUE)
    /\ UNCHANGED <<product, override, quote, sold, balance, paid>>

SwitchProduct == product' = ~ product /\ UNCHANGED <<buyer, override, quote, sold, balance, paid, excused>>
GrantOverride == override' = ~ override /\ UNCHANGED <<buyer, product, quote, sold, balance, paid, excused>>

RiskInit ==
    /\ buyer \in [standing: {"customer"}, limit: Limits, policy: {"BLOCK", "WARN"}]
    /\ product = TRUE /\ override = FALSE
    /\ quote = [k \in Quotes |-> "DRAFT"] /\ sold = [o \in Orders |-> NoSale]
    /\ balance = 0 /\ paid = 0 /\ excused = FALSE

Steps == 1..Max(OrderSize)
RiskNext ==
    \/ \E k \in Quotes : CancelQuote(k) \/ \E c \in {"send", "accept", "reject"} : TransitionQuote(k, c)
    \/ \E k \in Quotes, o \in Orders, q \in OrderSize : ConvertQuote(k, o, q)
    \/ \E o \in Orders : ConfirmOrder(o) \/ DropOrder(o)
    \/ \E o \in Orders, q \in Steps : ShipOrder(o, q) \/ UnshipOrder(o, q)
    \/ \E o \in Orders, q \in Steps, v \in BOOLEAN : BillOrder(o, q, v) \/ UnbillOrder(o, q, v)
    \/ \E q \in Steps : PostDirectInvoice(q) \/ Collect(q) \/ ReverseCollection(q) \/ PostManualDebit(q)
    \/ \E st \in Standings, l \in Limits, p \in {"BLOCK", "WARN"} : SaveCard(st, l, p)
    \/ SwitchProduct \/ GrantOverride

RiskSpec == RiskInit /\ [][RiskNext]_riskVars
-----------------------------------------------------------------------------
(* The balance of a customer passes the limit only by a sale under another *)
(* policy than BLOCK or by a clerk who holds sales.risk.override, by a     *)
(* changed card, a reversed collection or a manual entry.  Sales alone     *)
(* never take it there, in whatever order orders are confirmed, shipped,   *)
(* billed and cancelled (checkCommercialRiskTx, EvaluateSalesRisk),        *)
(* although goods are shipped unasked.                                     *)
DebtIsAllowed == (buyer.limit > 0 /\ balance > buyer.limit) => excused
=============================================================================
