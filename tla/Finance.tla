------------------------------- MODULE Finance -------------------------------
(***************************************************************************)
(* The books of a company (internal/finance): the ledger of each party,    *)
(* its open items (invoices and manual entries), the returns that reduce   *)
(* them, payments and their allocations, payment plans, and the accounts   *)
(* that the money moves through.                                           *)
(*                                                                         *)
(* Every command is one serializable transaction and one step; a refused   *)
(* one changes nothing, and a repeated one (same idempotency key) returns  *)
(* what the first one did.  There is one currency, amounts are whole       *)
(* numbers of its smallest unit, every command is dated today, in a period *)
(* that is not locked, and server and company agree on the date.           *)
(***************************************************************************)
EXTENDS Integers, Sequences, FiniteSets, FiniteSetsExt, Functions

CONSTANTS
    Parties, Accounts,
    Docs,           \* invoices, returns and manual entries
    Kind, Owner,    \* a document's type and party
    Amount, Due,    \* its total and its due date
    Rank,           \* the order of the ids of the open items
    Taken,          \* what an invoice takes of the one line of "DISPATCH"
    Of,             \* what a return was raised against: an invoice or "DISPATCH"
    Payments,       \* payments and collections, with kind, party, amount, account
    Entries,        \* manual movements of an account and transfers between two
    PartyTransfers, \* amounts moved from one party to another
    Plans, InstallmentDue,
    Closable,       \* the accounts somebody deactivates
    MaxRows,        \* bound: allocations of one payment to one document
    MaxInput        \* bound: the most a request asks for

Invoices == {i \in Docs : Kind[i] \in {"SALES_INVOICE", "PURCHASE_INVOICE"}}
Returns == {i \in Docs : Kind[i] \in {"SALES_RETURN_INVOICE", "PURCHASE_RETURN_INVOICE"}}
Manual == {i \in Docs : Kind[i] \in {"DEBIT", "CREDIT"}}
Items == Invoices \cup Manual
NoAccount == "NONE"
Inputs == 0 .. MaxInput

ASSUME DocAssumption ==
    /\ Kind \in [Docs -> {"SALES_INVOICE", "PURCHASE_INVOICE", "SALES_RETURN_INVOICE",
                          "PURCHASE_RETURN_INVOICE", "DEBIT", "CREDIT"}]
    /\ Owner \in [Docs -> Parties] /\ Amount \in [Docs -> Nat \ {0}] /\ Due \in [Docs -> Nat]
    /\ Rank \in [Items -> Nat] /\ \A i, j \in Items : Rank[i] = Rank[j] => i = j
    /\ Taken \in [Invoices -> Nat] /\ Of \in [Returns -> Invoices \cup {"DISPATCH"}]
ASSUME FiniteAssumption ==
    IsFiniteSet(Docs) /\ IsFiniteSet(Payments) /\ IsFiniteSet(PartyTransfers) /\ IsFiniteSet(Plans)
ASSUME MoneyAssumption ==
    /\ Payments \subseteq [id: Nat, kind: {"COLLECTION", "PAYMENT"}, party: Parties,
                           amount: Nat \ {0}, account: Accounts \cup {NoAccount}]
    /\ Entries \subseteq [id: Nat, from: Accounts \cup {NoAccount}, to: Accounts \cup {NoAccount},
                          amount: Nat \ {0}]
    /\ \A e \in Entries : e.from # e.to
    /\ PartyTransfers \subseteq [from: Parties, to: Parties, amount: Nat \ {0}]
    /\ InstallmentDue \in Seq(Nat) /\ MaxRows \in Nat /\ MaxInput \in Nat
    /\ Closable \subseteq Accounts /\ NoAccount \notin Accounts

VARIABLES
    doc,        \* documents.status, or that of a manual entry
    pay,        \* finance_payments
    rows,       \* finance_payment_allocations, of a payment and an open item, less
                \* those that UnallocatePayment took back
    plan,       \* finance_payment_plans with their sources and installments
    entry,      \* finance_account_movements and finance_transfers of their own
    moved,      \* finance_party_transfers
    ledger,     \* the sum of the party_ledger_entries of a party, debit - credit
    cash,       \* the sum of the finance_account_movements of an account
    active      \* finance_accounts, and is_active

vars == <<doc, pay, rows, plan, entry, moved, ledger, cash, active>>

NoPlan == [status |-> "NONE", amount |-> [i \in Items |-> 0], parts |-> << >>]

\* Every variable holds a value of its type.
TypeOK ==
    /\ doc \in [Docs -> {"NONE", "DRAFT", "POSTED", "REVERSED"}]
    /\ pay \in [Payments -> {"NONE", "POSTED", "REVERSED"}]
    /\ rows \in [Payments -> [Items -> Seq(Nat \ {0})]]
    /\ plan \in [Plans -> [status: {"NONE", "ACTIVE", "CANCELLED"}, amount: [Items -> Nat],
                          parts: Seq([Items -> Nat])]]
    /\ entry \in [Entries -> {"NONE", "POSTED", "REVERSED"}] /\ moved \subseteq PartyTransfers
    /\ ledger \in [Parties -> Int] /\ cash \in [Accounts -> Int]
    /\ active \in [Accounts -> {"NONE", "OPEN", "CLOSED"}]

Init ==
    /\ doc = [i \in Docs |-> "NONE"] /\ pay = [p \in Payments |-> "NONE"]
    /\ rows = [p \in Payments |-> [i \in Items |-> << >>]]
    /\ plan = [q \in Plans |-> NoPlan]
    /\ entry = [e \in Entries |-> "NONE"] /\ moved = {}
    /\ ledger = [q \in Parties |-> 0] /\ cash = [a \in Accounts |-> 0]
    /\ active = [a \in Accounts |-> "NONE"]
-----------------------------------------------------------------------------
(* Sums over the allocation rows *)

\* Adds f over a set, and over the elements of a sequence.
Sum(f(_), S) == SumFunctionOnSet([x \in S |-> f(x)], S)
SumSeq(q) == Sum(LAMBDA k : q[k], DOMAIN q)

\* Mutant: the allocations stay when the payment is reversed.
MutLive(p, i) == SumSeq(rows[p][i])

\* What a payment still settles of an item.  The rows of a reversed payment are
\* undone by rows of the reversing one.
Live(p, i) == IF pay[p] = "REVERSED" THEN 0 ELSE SumSeq(rows[p][i])

\* What is allocated to an open item (allocationForOpenItem).
Allocated(i) == Sum(LAMBDA p : Live(p, i), Payments)

\* What a payment is used for.
Used(p) == Sum(LAMBDA i : SumSeq(rows[p][i]), Items)
-----------------------------------------------------------------------------
(* What returns take off a bill: finance_invoice_return_attributions *)

\* The invoices with lines on the dispatch; a cancelled one has lost them.
OnDispatch == {i \in Invoices : Taken[i] > 0 /\ doc[i] \in {"DRAFT", "POSTED"}}
Round(n, d) == (2 * n + d) \div (2 * d)

\* A return of an invoice is attributed to it; one of the dispatch goes to the
\* invoices that take from it, in proportion.  A draft counts as one of them.
Attributed(r, i) ==
    IF doc[r] # "POSTED" THEN 0
    ELSE IF Of[r] = i THEN Amount[r]
    ELSE IF Of[r] = "DISPATCH" /\ i \in OnDispatch
    THEN Round(Amount[r] * Taken[i], Sum(LAMBDA j : Taken[j], OnDispatch))
    ELSE 0

\* returnedAmountForDocumentTx
Returned(i) == IF i \in Invoices THEN Sum(LAMBDA r : Attributed(r, i), Returns) ELSE 0
-----------------------------------------------------------------------------
(* What is open on an item: once for commands, and as its readers show it *)

Posted(i) == doc[i] \in {"POSTED", "REVERSED"}
Reversed(i) == IF doc[i] = "REVERSED" THEN Amount[i] ELSE 0

\* applyAllocationsTx: the most that may still be allocated.
Open(i) == Amount[i] - Reversed(i) - Returned(i) - Allocated(i)

\* ListOpenItemsPage: the items that are shown, each with its open amount.
OpenItemList == {[item |-> i, open |-> Open(i)] : i \in {j \in Items : Posted(j) /\ Open(j) > 0}}

NotBelow0(n) == IF n < 0 THEN 0 ELSE n

\* deriveDocumentSettlement: what is still due on an invoice.
SettlementDue(i) ==
    LET posted == NotBelow0(Amount[i] - Reversed(i))
        effective == NotBelow0(posted - Returned(i))
    IN  NotBelow0(effective - Allocated(i))

\* An item has at most one ACTIVE plan.
PlansOf(i) == {q \in Plans : plan[q].status = "ACTIVE" /\ plan[q].amount[i] > 0}
Remaining(i) == NotBelow0(Open(i))
Earlier(q, i, k) == Sum(LAMBDA h : plan[q].parts[h][i], 1 .. k)

\* Mutant: the open amount of installment k is what is left of the whole plan.
MutPartOpen(q, i, k, left) == Min({plan[q].parts[k][i], left})

\* finance_scheduled_dues: what is open of installment k of a plan, when left is open
\* on the item; what was paid closes the earlier installments first.
PartOpen(q, i, k, left) ==
    Min({plan[q].parts[k][i], NotBelow0(left - (plan[q].amount[i] - Earlier(q, i, k)))})

\* ... with the part of the item that no plan covers as installment 0.
ScheduledDues(i) ==
    LET left == Remaining(i)
        parts(q) == {k \in DOMAIN InstallmentDue : k <= Len(plan[q].parts) /\ plan[q].parts[k][i] > 0}
    IN  (UNION {{[no |-> k, due |-> InstallmentDue[k], open |-> PartOpen(q, i, k, left)] : k \in parts(q)} :
                q \in PlansOf(i)})
        \cup {[no |-> 0, due |-> Due[i],
               open |-> NotBelow0(left - Sum(LAMBDA q : plan[q].amount[i], PlansOf(i)))]}
-----------------------------------------------------------------------------
(* Documents *)

\* What a document adds to the ledger of its party.
Sign(i) == IF Kind[i] \in {"SALES_INVOICE", "PURCHASE_RETURN_INVOICE", "DEBIT"} THEN 1 ELSE -1

\* A draft of an invoice or a return, and its deletion: the documents of sales and
\* purchasing.  A return is drafted from a posted document.
DraftDocument(i) ==
    /\ i \in Invoices \cup Returns /\ doc[i] = "NONE"
    /\ (i \in Returns /\ Of[i] # "DISPATCH") => doc[Of[i]] = "POSTED"
    /\ doc' = [doc EXCEPT ![i] = "DRAFT"]
    /\ UNCHANGED <<pay, rows, plan, entry, moved, ledger, cash, active>>
DeleteDraft(i) ==
    /\ doc[i] = "DRAFT" /\ doc' = [doc EXCEPT ![i] = "NONE"]
    /\ UNCHANGED <<pay, rows, plan, entry, moved, ledger, cash, active>>

Book(i, sign) == ledger' = [ledger EXCEPT ![Owner[i]] = @ + sign * Amount[i]]

PostInvoiceTx(i) ==
    /\ doc[i] = "DRAFT"
    /\ doc' = [doc EXCEPT ![i] = "POSTED"]
    /\ Book(i, Sign(i))
    /\ UNCHANGED <<pay, rows, plan, entry, moved, cash, active>>

\* Nothing is allocated to it and no return reduces it.
Reversible(i) ==
    /\ doc[i] = "POSTED"
    /\ i \in Items => Allocated(i) <= 0
    /\ i \in Invoices => \A r \in Returns : Attributed(r, i) <= 0

SetReversed(i) ==
    /\ doc' = [doc EXCEPT ![i] = "REVERSED"]
    /\ Book(i, -Sign(i))
    /\ UNCHANGED <<pay, rows, plan, entry, moved, cash, active>>

ReverseInvoiceTx(i) == i \in Invoices \cup Returns /\ Reversible(i) /\ SetReversed(i)

PostManualEntry(i) ==
    /\ i \in Manual /\ doc[i] = "NONE"
    /\ doc' = [doc EXCEPT ![i] = "POSTED"]
    /\ Book(i, Sign(i))
    /\ UNCHANGED <<pay, rows, plan, entry, moved, cash, active>>

\* PostManualEntry with reversal_of_id.
ReverseManualEntry(i) == i \in Manual /\ Reversible(i) /\ SetReversed(i)

PostPartyTransfer(t) ==
    /\ t \notin moved /\ t.from # t.to
    /\ moved' = moved \cup {t}
    /\ ledger' = [ledger EXCEPT ![t.from] = @ - t.amount, ![t.to] = @ + t.amount]
    /\ UNCHANGED <<doc, pay, rows, plan, entry, cash, active>>
-----------------------------------------------------------------------------
(* Accounts *)

\* enforceNegativeBalanceTx, with the policy BLOCK.
MayLeave(a, n) == a = NoAccount \/ cash[a] - n >= 0

\* n is moved between two accounts, one of which may be none of the company's.
MoveCash(from, to, n) ==
    cash' = [a \in Accounts |-> cash[a] + (IF a = to THEN n ELSE 0) - (IF a = from THEN n ELSE 0)]
Usable(a) == a = NoAccount \/ active[a] = "OPEN"

\* postAccountMovement (from or to is no account) and postFinanceTransfer.
PostEntry(e) ==
    /\ entry[e] = "NONE" /\ Usable(e.from) /\ Usable(e.to)
    /\ MayLeave(e.from, e.amount)
    /\ MoveCash(e.from, e.to, e.amount)
    /\ entry' = [entry EXCEPT ![e] = "POSTED"]
    /\ UNCHANGED <<doc, pay, rows, plan, moved, ledger, active>>

\* ReverseFinanceTransfer: the same transfer in the other direction.
ReverseFinanceTransfer(e) ==
    /\ entry[e] = "POSTED" /\ NoAccount \notin {e.from, e.to}
    /\ Usable(e.from) /\ Usable(e.to) /\ MayLeave(e.to, e.amount)
    /\ MoveCash(e.to, e.from, e.amount)
    /\ entry' = [entry EXCEPT ![e] = "REVERSED"]
    /\ UNCHANGED <<doc, pay, rows, plan, moved, ledger, active>>

CreateAccount(a) ==
    /\ active[a] = "NONE" /\ active' = [active EXCEPT ![a] = "OPEN"]
    /\ UNCHANGED <<doc, pay, rows, plan, entry, moved, ledger, cash>>

\* Whatever the account holds and whoever uses it.
SetAccountActive(a) ==
    /\ a \in Closable /\ active[a] # "NONE"
    /\ active' = [active EXCEPT ![a] = IF @ = "OPEN" THEN "CLOSED" ELSE "OPEN"]
    /\ UNCHANGED <<doc, pay, rows, plan, entry, moved, ledger, cash>>
-----------------------------------------------------------------------------
(* Payments and allocations *)

Sides(p) == IF p.kind = "COLLECTION" THEN {"SALES_INVOICE", "DEBIT"} ELSE {"PURCHASE_INVOICE", "CREDIT"}
Payable(p) == {i \in Items : Kind[i] \in Sides(p) /\ Owner[i] = p.party /\ Posted(i)}

\* applyAllocationsTx: a[i] for each item, in the order of their ids; each is within
\* what is open on the item, and together within the payment.
Allocatable(p, a) ==
    /\ Used(p) + Sum(LAMBDA i : a[i], Items) <= p.amount
    /\ \A i \in Items : a[i] > 0 => i \in Payable(p) /\ a[i] <= Open(i) /\ Len(rows[p][i]) < MaxRows

AddRows(p, a) ==
    rows' = [rows EXCEPT ![p] = [i \in Items |->
        IF a[i] > 0 THEN Append(rows[p][i], a[i]) ELSE rows[p][i]]]
Nothing == [i \in Items |-> 0]

\* The portions of a party's open items, oldest first: items with dues of a plan
\* are split by them.
PortionsOf(i) ==
    IF PlansOf(i) = {} THEN {[item |-> i, due |-> Due[i], no |-> 0, open |-> Open(i)]}
    ELSE {[item |-> i, due |-> s.due, no |-> s.no, open |-> s.open] :
             s \in {d \in ScheduledDues(i) : d.open > 0}}
Portions(p) == UNION {PortionsOf(i) : i \in {j \in Payable(p) : Open(j) > 0}}
Older(s, t) == s.due < t.due \/ (s.due = t.due /\
                  (Rank[s.item] < Rank[t.item] \/ (s.item = t.item /\ s.no < t.no)))

\* FIFOAllocations: n is spread over the portions, oldest first, and added up by item.
FIFOAllocations(p, n) ==
    LET portions == Portions(p)
        before(s) == Sum(LAMBDA t : t.open, {t \in portions : Older(t, s)})
        part(s) == Min({s.open, NotBelow0(n - before(s))})
    IN  [i \in Items |-> Sum(part, {s \in portions : s.item = i})]

\* The money and the party's side of a payment: sign is 1 when it is posted and -1
\* when it is reversed.
BookPayment(p, sign) ==
    LET n == sign * p.amount
    IN  /\ ledger' = [ledger EXCEPT ![p.party] = IF p.kind = "COLLECTION" THEN @ - n ELSE @ + n]
        /\ IF p.kind = "COLLECTION" THEN MoveCash(NoAccount, p.account, n)
           ELSE MoveCash(p.account, NoAccount, n)

\* postPayment, with the allocations a: none, those of the request, those of an
\* installment (PayInstallment) or the oldest items (AutoAllocate).
PostPayment(p, a) ==
    /\ pay[p] = "NONE" /\ Usable(p.account)
    /\ p.kind = "PAYMENT" => MayLeave(p.account, p.amount)
    /\ Allocatable(p, a) /\ AddRows(p, a)
    /\ BookPayment(p, 1)
    /\ pay' = [pay EXCEPT ![p] = "POSTED"]
    /\ UNCHANGED <<doc, plan, entry, moved, active>>

AutoAllocate(p) == PostPayment(p, FIFOAllocations(p, p.amount))

\* validateInstallmentPaymentTx: a payment of the whole or a part of the oldest open
\* installment of a plan, and of nothing else.
PayInstallment(p, q, k, a) ==
    /\ pay[p] = "NONE" /\ plan[q].status = "ACTIVE" /\ k \in DOMAIN plan[q].parts
    /\ k = Min({h \in DOMAIN plan[q].parts : \E i \in Items : PartOpen(q, i, h, Remaining(i)) > 0} \cup {Len(plan[q].parts) + 1})
    /\ \A i \in Items : a[i] > 0 => plan[q].parts[k][i] > 0 /\ a[i] <= PartOpen(q, i, k, Remaining(i))
    /\ Sum(LAMBDA i : a[i], Items) = p.amount
    /\ PostPayment(p, a)

AllocatePayment(p, a) ==
    /\ pay[p] = "POSTED" /\ a # Nothing
    /\ Allocatable(p, a) /\ AddRows(p, a)
    /\ UNCHANGED <<doc, pay, plan, entry, moved, ledger, cash, active>>

\* What is not used of the payment goes to the oldest items.
AllocatePaymentFIFO(p) == AllocatePayment(p, FIFOAllocations(p, p.amount - Used(p)))

\* The rows K of an item, in their order.
InOrder(K) == CHOOSE q \in [1 .. Cardinality(K) -> K] : \A m, n \in DOMAIN q : m < n => q[m] < q[n]

\* R chooses rows of the payment, which are taken back whole.
UnallocatePayment(p, R) ==
    /\ pay[p] = "POSTED" /\ R # {} /\ \A x \in R : x[2] \in DOMAIN rows[p][x[1]]
    /\ rows' = [rows EXCEPT ![p] = [i \in Items |->
          LET left == InOrder({k \in DOMAIN rows[p][i] : <<i, k>> \notin R})
          IN  [n \in DOMAIN left |-> rows[p][i][left[n]]]]]
    /\ UNCHANGED <<doc, pay, plan, entry, moved, ledger, cash, active>>

\* The account may be inactive, and its money must still be there.
ReversePayment(p) ==
    /\ pay[p] = "POSTED"
    /\ p.kind = "COLLECTION" => MayLeave(p.account, p.amount)
    /\ BookPayment(p, -1)
    /\ pay' = [pay EXCEPT ![p] = "REVERSED"]
    /\ UNCHANGED <<doc, rows, plan, entry, moved, active>>
-----------------------------------------------------------------------------
(* Payment plans *)

\* The sources are open items of one party and side without an active plan.
Plannable(S) ==
    /\ \A i \in S : Posted(i) /\ (i \in Invoices => doc[i] = "POSTED") /\ PlansOf(i) = {} /\ Remaining(i) > 0
    /\ \A i, j \in S : Owner[i] = Owner[j] /\ Sign(i) = Sign(j)

Splits == UNION {[1 .. n -> Inputs \ {0}] : n \in DOMAIN InstallmentDue}

\* CreatePaymentPlan: the installments cover what is open on the sources, and take
\* it from them in their order; split[k] is the amount of installment k.
CreatePaymentPlan(q, S) ==
    LET open == [i \in Items |-> IF i \in S THEN Remaining(i) ELSE 0]
        start(i) == Sum(LAMBDA j : open[j], {j \in S : Rank[j] < Rank[i]})
    IN  /\ plan[q].status = "NONE" /\ S # {} /\ Plannable(S)
        /\ \E split \in Splits :
              LET before(k) == Sum(LAMBDA h : split[h], 1 .. k - 1)
                  overlap(i, k) == NotBelow0(Min({start(i) + open[i], before(k) + split[k]})
                                             - Max({start(i), before(k)}))
              IN  /\ SumSeq(split) = Sum(LAMBDA i : open[i], S)
                  /\ plan' = [plan EXCEPT ![q] =
                        [status |-> "ACTIVE", amount |-> open,
                         parts |-> [k \in DOMAIN split |-> [i \in Items |-> IF i \in S THEN overlap(i, k) ELSE 0]]]]
        /\ UNCHANGED <<doc, pay, rows, entry, moved, ledger, cash, active>>

CancelPaymentPlan(q) ==
    /\ plan[q].status = "ACTIVE"
    /\ plan' = [plan EXCEPT ![q].status = "CANCELLED"]
    /\ UNCHANGED <<doc, pay, rows, entry, moved, ledger, cash, active>>
-----------------------------------------------------------------------------
\* What a request may ask to allocate, within the largest payment.
Allocations == {a \in [Items -> Inputs] : Sum(LAMBDA i : a[i], Items) \in Inputs}

Next ==
    \/ \E i \in Docs : \/ DraftDocument(i) \/ DeleteDraft(i) \/ PostInvoiceTx(i) \/ ReverseInvoiceTx(i)
                       \/ PostManualEntry(i) \/ ReverseManualEntry(i)
    \/ \E p \in Payments :
          \/ \E a \in Allocations :
                PostPayment(p, a) \/ AllocatePayment(p, a)
                \/ \E q \in Plans, k \in DOMAIN InstallmentDue : PayInstallment(p, q, k, a)
          \/ AutoAllocate(p) \/ AllocatePaymentFIFO(p) \/ ReversePayment(p)
          \/ \E R \in SUBSET {x \in Items \X (1 .. MaxRows) : x[2] <= Len(rows[p][x[1]])} : UnallocatePayment(p, R)
    \/ \E q \in Plans : CancelPaymentPlan(q) \/ \E S \in SUBSET Items : CreatePaymentPlan(q, S)
    \/ \E t \in PartyTransfers : PostPartyTransfer(t)
    \/ \E e \in Entries : PostEntry(e) \/ ReverseFinanceTransfer(e)
    \/ \E a \in Accounts : CreateAccount(a) \/ SetAccountActive(a)

Spec == Init /\ [][Next]_vars
-----------------------------------------------------------------------------
(* Properties *)

\* What is not used of a posted payment.
Unapplied(p) == IF pay[p] = "POSTED" THEN p.amount - Sum(LAMBDA i : Live(p, i), Items) ELSE 0

\* The balance of a party is what its open items and returns say: the unpaid part of
\* every posted item, its returns, less the money that is not allocated to an item.
\* Posting, allocating, unallocating and reversing keep the ledger and the
\* allocations in step, in whatever order they come (party_ledger_entries against
\* finance_payment_allocations).
BalanceIsExplained ==
    \A q \in Parties :
        ledger[q] =
            Sum(LAMBDA i : Sign(i) * (Amount[i] - Allocated(i)),
                {i \in Items : Owner[i] = q /\ doc[i] = "POSTED"})
            + Sum(LAMBDA r : Sign(r) * Amount[r], {r \in Returns : Owner[r] = q /\ doc[r] = "POSTED"})
            + Sum(LAMBDA p : IF p.kind = "COLLECTION" THEN -Unapplied(p) ELSE Unapplied(p),
                  {p \in Payments : p.party = q})
            + Sum(LAMBDA t : (IF t.to = q THEN t.amount ELSE 0) - (IF t.from = q THEN t.amount ELSE 0), moved)

\* No payment is spent twice and no bill is paid twice: what is allocated to an item
\* is never more than it, and nothing is allocated to one that was reversed
\* (applyAllocationsTx, ReverseInvoiceTx).
NothingPaidTwice ==
    /\ \A p \in Payments : Used(p) <= p.amount
    /\ \A i \in Items : Allocated(i) <= Amount[i] - Reversed(i)

\* The due dates shown for an item, with or without a plan, add up to what may still
\* be paid on it and to what its page shows, whatever was paid, returned or given
\* back since the plan was made (finance_scheduled_dues, ListOpenItemsPage,
\* deriveDocumentSettlement).
ReadersAgree ==
    \A i \in Items : Posted(i) =>
        /\ Sum(LAMBDA s : s.open, ScheduledDues(i)) = Remaining(i)
        /\ SettlementDue(i) = Remaining(i)
        /\ Remaining(i) = Sum(LAMBDA o : o.open, {o \in OpenItemList : o.item = i})

\* An automatic allocation is never refused and leaves nothing undone: the oldest
\* dues of a party give allocations that applyAllocationsTx accepts, and they use up
\* the payment or pay everything (fifoOpenItemAllocationsTx, AllocatePaymentFIFO).
AutomaticFits ==
    \A p \in Payments :
        LET left == p.amount - Used(p)
            a == FIFOAllocations(p, left)
        IN  pay[p] # "REVERSED" =>
              /\ \A i \in Items : a[i] > 0 => i \in Payable(p) /\ a[i] <= Open(i)
              /\ Sum(LAMBDA i : a[i], Items) = Min({left, Sum(LAMBDA i : Remaining(i), Payable(p))})

\* What may still be paid is the same amount for the allocations and for every page
\* that shows it, it is never paid twice, and an automatic allocation takes all of it.
DuesAreExact == NothingPaidTwice /\ ReadersAgree /\ AutomaticFits
=============================================================================
