------------------------------ MODULE Advances ------------------------------
(***************************************************************************)
(* Cash advances to the employee (internal/hr/advance): an advance is paid *)
(* out of the cash account, repaid, deducted by a payroll, written off,    *)
(* and each of these but the deduction may be reversed.  Commands are      *)
(* serializable transactions, one step each with respect to one another.   *)
(* Rows are never changed: a reversal is a row that points at the reversed *)
(* one, here its flag.  The payroll's finalisation settles advances from   *)
(* outside this discipline, in read committed: `planned` is what it has    *)
(* read and is about to settle, and `late` what the commands had read that *)
(* took their snapshot before it committed (replay() reads before the lock *)
(* on the advance is waited for).                                          *)
(***************************************************************************)
EXTENDS Workforce, Integers, Functions

CONSTANTS MaxAdvances,  \* bound on the advances
          MaxAmount,    \* largest advance
          MaxRows       \* bound on the transactions of an advance

ASSUME AdvancesAssumption == MaxAdvances \in Nat /\ MaxAmount \in Nat /\ MaxRows \in Nat

VARIABLES advances,  \* sequence, oldest first, of sequences of transactions [type, amt, rev]
          cash,      \* what the finance movements of this part sum up to
          late,      \* commands under way whose snapshot is older than a deduction: <<advance, rows seen>>
          raced      \* advances a command and a payroll settled each unseen by the other

advVars == <<advances, cash, late, raced>>

Types == {"DISBURSEMENT", "REPAYMENT", "WRITE_OFF", "PAYROLL_DEDUCTION"}
AdvancesTypeOK ==
    /\ \A a \in DOMAIN advances : \A i \in DOMAIN advances[a] :
         /\ advances[a][i].type \in Types /\ advances[a][i].rev \in BOOLEAN
         /\ advances[a][i].amt \in 1..MaxAmount
    /\ cash \in Int
    /\ raced \subseteq DOMAIN advances /\ \A c \in late : c[1] \in DOMAIN advances /\ c[2] \in DOMAIN advances[c[1]]

AdvancesInit == advances = << >> /\ cash = 0 /\ late = {} /\ raced = {}

Row(type, amt) == [type |-> type, amt |-> amt, rev |-> FALSE]
Unreversed(rows, types) == {i \in DOMAIN rows : rows[i].type \in types /\ ~rows[i].rev}
RowSum(rows, S) == SumFunctionOnSet([i \in DOMAIN rows |-> rows[i].amt], S)
Settling == {"REPAYMENT", "WRITE_OFF", "PAYROLL_DEDUCTION"}

\* outstandingTx and the status of the list: nothing is owed once the pay-out is reversed.
Outstanding(rows) == IF Unreversed(rows, {"DISBURSEMENT"}) = {} THEN 0
                     ELSE rows[1].amt - RowSum(rows, Unreversed(rows, Settling))
Status(rows) == IF Unreversed(rows, {"DISBURSEMENT"}) = {} THEN "REVERSED"
                ELSE IF Outstanding(rows) > 0 THEN "OPEN"
                ELSE IF Unreversed(rows, {"WRITE_OFF"}) # {} THEN "WRITTEN_OFF" ELSE "CLOSED"

\* openAdvances: what still carries a balance, as the payroll sees it.
OpenAdvances == {a \in DOMAIN advances : Outstanding(advances[a]) > 0}

\* settleAdvances: the deduction goes to the oldest open advance first; what exceeds
\* them all is left alone.
Settlement(amount) ==
    LET older(a) == SumFunctionOnSet([b \in OpenAdvances |-> Outstanding(advances[b])], {b \in OpenAdvances : b < a})
        share(a) == Min({Outstanding(advances[a]), Max({amount - older(a), 0})})
    IN  [a \in {b \in OpenAdvances : share(b) > 0} |-> share(a)]

\* The rows a command on an advance sees: all that are there, or, for one that began
\* before a payroll settled the advance, those of then.  Its lock on the advance waits
\* for the payroll's rows and does not renew the snapshot; nor is it refused, since the
\* payroll changes no row of employee_advances.  Of two commands on one advance whose
\* snapshots do not show each other, the second to commit is refused.
Views(a) == {Len(advances[a])} \cup {c[2] : c \in {d \in late : d[1] = a}}
Seen(a, n) == SubSeq(advances[a], 1, n)

Touch(a, n, planned) ==
    /\ raced' = IF a \in planned \/ n # Len(advances[a]) THEN raced \cup {a} ELSE raced
    /\ late' = {c \in late : c[1] # a}

CreateAdvance(amount, day) ==
    /\ Len(advances) < MaxAdvances
    /\ \E e \in DOMAIN emps : day \in emps[e].from..emps[e].to
    /\ advances' = Append(advances, <<Row("DISBURSEMENT", amount)>>)
    /\ cash' = cash - amount
    /\ UNCHANGED <<late, raced>>

Repayable(rows, amount) == Outstanding(rows) # 0 /\ amount <= Outstanding(rows)
Repay(a, n, amount, planned) ==
    /\ Len(advances[a]) < MaxRows
    /\ Repayable(Seen(a, n), amount)
    /\ advances' = [advances EXCEPT ![a] = Append(@, Row("REPAYMENT", amount))]
    /\ cash' = cash + amount
    /\ Touch(a, n, planned)

WriteOff(a, n, planned) ==
    /\ Len(advances[a]) < MaxRows
    /\ Outstanding(Seen(a, n)) > 0
    /\ advances' = [advances EXCEPT ![a] = Append(@, Row("WRITE_OFF", Outstanding(Seen(a, n))))]
    /\ Touch(a, n, planned)
    /\ UNCHANGED cash

\* Reverse: not a payroll deduction, not twice, and the pay-out only when nothing
\* that settles it is left standing.
Reversible(rows, i) ==
    /\ ~rows[i].rev
    /\ rows[i].type # "PAYROLL_DEDUCTION"
    /\ rows[i].type = "DISBURSEMENT" => Unreversed(rows, Settling) = {}
Reverse(a, n, i, planned) ==
    /\ i \in 1..n /\ Reversible(Seen(a, n), i)
    /\ advances' = [advances EXCEPT ![a][i].rev = TRUE]
    /\ cash' = CASE advances[a][i].type = "REPAYMENT" -> cash - advances[a][i].amt
                 [] advances[a][i].type = "DISBURSEMENT" -> cash + advances[a][i].amt
                 [] OTHER -> cash
    /\ Touch(a, n, planned)

\* The deductions of a finalised payroll; they move no cash of their own.  Of any of
\* these advances a command may be under way that does not see them.
Settle(plan) ==
    /\ advances' = [a \in DOMAIN advances |->
                      IF a \in DOMAIN plan THEN Append(advances[a], Row("PAYROLL_DEDUCTION", plan[a]))
                      ELSE advances[a]]
    /\ \E S \in SUBSET DOMAIN plan : late' = late \cup {<<a, Len(advances[a])>> : a \in S}

AdvancesStep(planned) ==
    \/ \E m \in 1..MaxAmount, d \in Dates : CreateAdvance(m, d)
    \/ \E a \in DOMAIN advances : \E n \in Views(a) :
         \/ \E m \in 1..MaxAmount : Repay(a, n, m, planned)
         \/ WriteOff(a, n, planned)
         \/ \E i \in DOMAIN advances[a] : Reverse(a, n, i, planned)

AdvanceCash(rows) == RowSum(rows, Unreversed(rows, {"REPAYMENT"})) - RowSum(rows, Unreversed(rows, {"DISBURSEMENT"}))
=============================================================================
