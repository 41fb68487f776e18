------------------------------ MODULE Payroll ------------------------------
(***************************************************************************)
(* Payroll runs (internal/payroll/run) and their payment                   *)
(* (internal/payroll/payment), over the employment, the timesheet and the  *)
(* advances of one employee.  Calculate reads the inputs and fingerprints  *)
(* them before its transaction, and reads most of them again inside it;    *)
(* Finalize verifies the fingerprint before its transaction, takes the run *)
(* with a version check, reads the open advances and commits.  Each of     *)
(* these points is a step, so that everybody else can act between them.    *)
(***************************************************************************)
EXTENDS Timesheet, Advances

CONSTANTS Runs,       \* payroll runs that may be created
          MaxManual,  \* bound on the manual deductions of a run
          MaxGens     \* bound on the calculations of a run

ASSUME PayrollAssumption == IsFiniteSet(Runs) /\ MaxManual \in Nat /\ MaxGens \in Nat

VARIABLES runs,   \* run -> [state, month, version, manual, active, frozen, paid, gens]
          calc,   \* a calculation that has fingerprinted its inputs
          fin     \* a finalisation under way

payVars == <<runs, calc, fin>>
payrollVars == <<wfVars, tsVars, advVars, payVars>>

None == [gen |-> 0]
NoRun == [state |-> "NONE", month |-> 0, version |-> 0, manual |-> 0,
          active |-> None, frozen |-> None, paid |-> "UNPAID", gens |-> 0]
NoCalc == [run |-> "none"]

PayrollInit ==
    /\ WorkforceInit /\ TimesheetInit /\ AdvancesInit
    /\ runs = [r \in Runs |-> NoRun]
    /\ calc = NoCalc
    /\ fin = NoCalc

\* A month that a finalised run uses cannot be reopened (prevent_used_timesheet_reopen).
Used(m) == \E r \in Runs : runs[r].state = "FINALIZED" /\ runs[r].month = m

\* While a finalisation holds the run's row, nobody else can change it.
Held(r) == fin.run = r /\ fin.phase = "taken"
Planned == IF fin # NoCalc /\ fin.phase = "taken" THEN DOMAIN fin.plan ELSE {}

Create(r, m) ==
    /\ runs[r].state = "NONE"
    /\ sheets[m].status = "FINALIZED"
    /\ HasPack(FirstDay(m))
    /\ runs' = [runs EXCEPT ![r].state = "DRAFT", ![r].month = m, ![r].version = 1]
    /\ UNCHANGED <<calc, fin>>

\* Manual components: adding looks at the run's status without locking it, archiving
\* does not look at all; neither counts the run's version.
AddManualComponent(r) ==
    /\ runs[r].state \notin {"NONE", "FINALIZED"}
    /\ runs[r].manual < MaxManual
    /\ runs' = [runs EXCEPT ![r].manual = @ + 1]
    /\ UNCHANGED <<calc, fin>>
ArchiveManualComponent(r) ==
    /\ runs[r].manual > 0
    /\ runs' = [runs EXCEPT ![r].manual = @ - 1]
    /\ UNCHANGED <<calc, fin>>

-----------------------------------------------------------------------------
(* Calculation. *)

\* The inputs as they are now: the wage, the month's days in full and with their
\* recorded checksum, and the manual components.
Inputs(r) == [wage |-> WageOf(runs[r].month), sheet |-> sheets[runs[r].month],
              manual |-> runs[r].manual]

\* fingerprint: the population with its wage, the timesheet's recorded checksum, the
\* manual components, and the version of the pack in force.
Fingerprint(r) ==
    [wage |-> IF InPopulation(runs[r].month) THEN WageOf(runs[r].month) + 1 ELSE 0,
     checksum |-> sheets[runs[r].month].checksum,
     manual |-> runs[r].manual,
     pack |-> ActivePack(FirstDay(runs[r].month))]

\* The recorded checksum is the one of the month's days.
Honest(m) == sheets[m].checksum = ChecksumDays(sheets[m].days)

Readable(r) == /\ sheets[runs[r].month].status = "FINALIZED"
               /\ HasPack(FirstDay(runs[r].month))

BeginCalculate(r) ==
    /\ calc = NoCalc
    /\ runs[r].state \notin {"NONE", "FINALIZED"}
    /\ runs[r].gens < MaxGens
    /\ Readable(r)
    /\ calc' = [run |-> r, fp |-> Fingerprint(r), wage |-> WageOf(runs[r].month),
                seen |-> Inputs(r)]
    /\ UNCHANGED <<runs, fin>>

\* The taxable base of the year's earlier months: every finalised run of an earlier
\* month counts, and the months from the hiring on that no such run covers are
\* estimated at the wage of this month.
Earlier(r) == {q \in Runs : runs[q].state = "FINALIZED" /\ runs[q].month < runs[r].month}
Base(wage, days) == (wage * WorkDays(days)) \div 30
HireMonth == IF EarliestStart \in Dates
             THEN CHOOSE m \in MonthsOfYear : EarliestStart \in MonthDays(m) ELSE 1
PriorMonths(m) == IF \E i \in DOMAIN emps : emps[i].to > emps[i].from
                  THEN Max({m - HireMonth, 0}) ELSE m - 1
PriorBase(r, wage) ==
    LET covered == Cardinality({runs[q].month : q \in Earlier(r)})
    IN  MapThenSumSet(LAMBDA q : Base(runs[q].frozen.wage, runs[q].frozen.days), Earlier(r))
          + wage * Max({PriorMonths(runs[r].month) - covered, 0})

\* calculateEmployee: no wage, no attendance, a sick day awaiting a
\* decision or deductions beyond the wage fail.  The levies are those of PayrollMath.
Gross(slip) == (slip.wage * WorkDays(slip.days)) \div 30
Net(slip) == Gross(slip) - slip.manual
Calculable(slip) ==
    /\ slip.wage > 0 /\ Attended(slip.days) /\ ~NeedsReview(slip.days)
    /\ Net(slip) >= 0

\* The transaction: population and wage are those read before it, the days, the manual
\* components and the earlier months are read now.  A failed generation leaves the
\* active one in place; a run finalised meanwhile refuses the change (trigger).
CommitCalculate ==
    /\ calc # NoCalc
    /\ LET r == calc.run
           days == sheets[runs[r].month].days
           slip == [gen |-> runs[r].gens + 1, fp |-> calc.fp, wage |-> calc.wage, days |-> days,
                    manual |-> runs[r].manual, prior |-> PriorBase(r, calc.wage),
                    stable |-> calc.seen = Inputs(r) /\ Honest(runs[r].month)]
       IN  /\ ~Held(r)
           /\ runs' = IF runs[r].state = "FINALIZED" THEN runs
                      ELSE IF calc.fp.wage > 0 /\ Calculable(slip)
                      THEN [runs EXCEPT ![r].state = "CALCULATED", ![r].active = slip,
                                        ![r].version = @ + 1, ![r].gens = @ + 1]
                      ELSE [runs EXCEPT ![r].state = "CALCULATION_FAILED",
                                        ![r].version = @ + 1, ![r].gens = @ + 1]
    /\ calc' = NoCalc
    /\ UNCHANGED fin

-----------------------------------------------------------------------------
(* Finalisation. *)

\* verifyFingerprint: the inputs are derived again and compared with the recorded ones.
Verified(r) == Readable(r) /\ Fingerprint(r) = runs[r].active.fp

BeginFinalizeRun(r) ==
    /\ fin = NoCalc
    /\ runs[r].state = "CALCULATED" /\ runs[r].active # None
    /\ Verified(r)
    /\ fin' = [run |-> r, phase |-> "verified", version |-> runs[r].version,
               slip |-> runs[r].active, plan |-> << >>, seen |-> Inputs(r)]
    /\ UNCHANGED <<runs, calc>>

\* Mutant: the version of the run is not compared.
MutMayTake == runs[fin.run].state = "CALCULATED"

\* The run's row is taken if it is still the calculated run of that version, and the
\* open advances are read, without a lock on them.
MayTake == /\ runs[fin.run].state = "CALCULATED"
           /\ runs[fin.run].version = fin.version
TakeRun ==
    /\ fin # NoCalc /\ fin.phase = "verified"
    /\ fin' = IF MayTake
              THEN [fin EXCEPT !.phase = "taken", !.plan = Settlement(fin.slip.manual)]
              ELSE NoCalc
    /\ UNCHANGED <<runs, calc>>

\* The commit: the slips of the verified generation are frozen and the advances settled.
CommitFinalizeRun ==
    /\ fin # NoCalc /\ fin.phase = "taken"
    /\ \A a \in DOMAIN fin.plan : Len(advances[a]) < MaxRows
    /\ runs' = [runs EXCEPT ![fin.run].state = "FINALIZED", ![fin.run].frozen = fin.slip,
                            ![fin.run].version = @ + 1]
    /\ Settle(fin.plan)
    /\ fin' = NoCalc
    /\ UNCHANGED <<calc, cash, raced>>

-----------------------------------------------------------------------------
(* Payment of a finalised run, and its reversal. *)

\* Mutant: a payment may be repeated.
MutPayable(r) == runs[r].state = "FINALIZED" /\ Net(runs[r].frozen) > 0

Payable(r) == /\ runs[r].state = "FINALIZED"
              /\ Net(runs[r].frozen) > 0
              /\ runs[r].paid # "PAID"
Pay(r) ==
    /\ Payable(r)
    /\ runs' = [runs EXCEPT ![r].paid = "PAID"]
    /\ cash' = cash - Net(runs[r].frozen)
    /\ UNCHANGED <<calc, fin, advances, late, raced>>
ReversePayment(r) ==
    /\ runs[r].paid = "PAID"
    /\ runs' = [runs EXCEPT ![r].paid = "REVERSED"]
    /\ cash' = cash + Net(runs[r].frozen)
    /\ UNCHANGED <<calc, fin, advances, late, raced>>

-----------------------------------------------------------------------------
RunStep(r) ==
    \/ \E m \in MonthsOfYear : Create(r, m)
    \/ BeginCalculate(r) \/ BeginFinalizeRun(r)
    \/ CommitCalculate
    \/ TakeRun

ManualStep(r) == AddManualComponent(r) \/ ArchiveManualComponent(r)

CashStep ==
    \/ CommitFinalizeRun
    \/ \E r \in Runs : Pay(r) \/ ReversePayment(r)

SheetStep(m) == TimesheetStep(m) \/ Reopen(m, Used(m))

PayrollNext ==
    \/ WorkforceNext /\ UNCHANGED <<tsVars, advVars, payVars>>
    \/ \E m \in MonthsOfYear : SheetStep(m) /\ UNCHANGED <<wfVars, advVars, payVars>>
    \/ \E r \in Runs : (RunStep(r) \/ ManualStep(r)) /\ UNCHANGED <<wfVars, tsVars, advVars>>
    \/ AdvancesStep(Planned) /\ UNCHANGED <<wfVars, tsVars, payVars>>
    \/ CashStep /\ UNCHANGED <<wfVars, tsVars>>

PayrollSpec == PayrollInit /\ [][PayrollNext]_payrollVars

-----------------------------------------------------------------------------
PayrollTypeOK ==
    /\ WorkforceTypeOK /\ TimesheetTypeOK /\ AdvancesTypeOK
    /\ \A r \in Runs :
         /\ runs[r].state \in {"NONE", "DRAFT", "CALCULATED", "CALCULATION_FAILED", "FINALIZED"}
         /\ runs[r].paid \in {"UNPAID", "PAID", "REVERSED"}
         /\ runs[r].state = "FINALIZED" <=> runs[r].frozen # None

\* WHAT IS FROZEN IS WHAT WAS VERIFIED.  A run is finalised with the slips of its last
\* successful calculation, and if nobody changed an input while that calculation or this
\* finalisation was under way and the month's checksum describes its days, then the wage,
\* the manual components and the days those slips were computed from are the ones of this
\* moment ("Re-derive them and refuse to freeze the run if a wage, the population, the
\* timesheet or a manual component moved since Calculate").  Days are compared as the
\* checksum sees them, without their leave type.
VerifiedIsFrozen ==
    [][\A r \in Runs : runs[r].state # "FINALIZED" /\ runs'[r].state = "FINALIZED" =>
         LET slip == runs'[r].frozen
         IN  /\ slip = runs[r].active
             /\ slip.stable /\ fin.seen = Inputs(r) /\ Honest(runs[r].month) =>
                  /\ slip.wage = WageOf(runs[r].month)
                  /\ slip.manual = runs[r].manual
                  /\ ChecksumDays(slip.days) = ChecksumDays(sheets[runs[r].month].days)]_payrollVars

\* What a run that is paid has cost.
PaidOut(run) == IF run.paid = "PAID" THEN Net(run.frozen) ELSE 0

\* THE CASH ACCOUNT IS EXPLAINED.  Whatever was paid, repaid and reversed in whatever
\* order, the finance movements of payroll payments and advances sum up to the
\* documents that stand: the net of the runs that are paid and not reversed, and what
\* was paid out and not paid back in cash.  Deductions and write-offs move none.
CashIsExplained ==
    cash = SumFunctionOnSet([a \in DOMAIN advances |-> AdvanceCash(advances[a])], DOMAIN advances)
             - SumFunctionOnSet([r \in Runs |-> PaidOut(runs[r])], Runs)

\* NOTHING IS SETTLED TWICE.  Repayments, write-offs and payroll deductions together
\* never exceed an advance, and an advance whose pay-out was reversed is settled by
\* nothing - except where a command and a payroll's finalisation did not see each other:
\* the command changed the advance after the finalisation had read it and before it
\* committed (openAdvances claims its rows are "locked for the duration of the
\* transaction" and takes no lock), or the command's snapshot, taken before it waits
\* for the advance, is older than the deductions.
NothingSettledTwice ==
    \A a \in DOMAIN advances \ raced :
        /\ Outstanding(advances[a]) >= 0
        /\ Status(advances[a]) = "REVERSED" => Unreversed(advances[a], Settling) = {}

\* The advances and the payments agree with the cash they moved and with each other:
\* no amount is paid, repaid, deducted or written off twice.
MoneyIsExplained == CashIsExplained /\ NothingSettledTwice
=============================================================================
