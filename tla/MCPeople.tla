------------------------------ MODULE MCPeople ------------------------------
EXTENDS Payroll, Delivery, PayrollMath, FixedAssets

VARIABLE scene   \* which part of the department is acted out

MCWages == {30, 60}
MCKinds == {"worked", "sick", "absent"}

\* A legislation in small: 30 days at the floor are the minimum wage.
MCLegislation ==
    [minimum |-> 210, floor |-> 7, ceiling |-> 50, stamp |-> 1, sgk |-> 14, unemployment |-> 1,
     brackets |-> <<[upper |-> 300, rate |-> 15], [upper |-> 700, rate |-> 20],
                    [upper |-> 100000, rate |-> 35]>>]
Rule(kind, limit) == [kind |-> kind, limit |-> limit]
MCExtras ==
    {[amount |-> 40, sgk |-> Rule("DAILY_LIMIT", 1), tax |-> Rule("MONTHLY_LIMIT", 13),
      stamp |-> Rule("PERCENT_LIMIT", 30)],
     [amount |-> 25, sgk |-> Rule("FULLY_EXEMPT", 0), tax |-> Rule("FULLY_INCLUDED", 0),
      stamp |-> Rule("FULLY_INCLUDED", 0)]}
MCGrosses == {209, 210, 457}
MCTargets == 100..250

FirstRun == CHOOSE r \in Runs : TRUE

all == <<scene, payrollVars, dlVars, year, assetVars>>

\* A hired employee with a wage: the usual start of a month.
Hired ==
    /\ emps = <<[from |-> 1, to |-> Open]>>
    /\ terms = {[emp |-> 1, from |-> 1, to |-> Open, wage |-> 30, min |-> FALSE]}
    /\ packs = <<[state |-> "ACTIVE", from |-> 1, minimum |-> 30, prev |-> 0]>>
    /\ raises = {}

\* The first months of the year, generated and finalised.
Worked(m) == [d \in MonthDays(m) |-> [kind |-> "worked", src |-> "GENERATED"]]
Closed(ms) ==
    /\ sheets = [m \in MonthsOfYear |->
                   IF m \in ms THEN [status |-> "FINALIZED", days |-> Worked(m), version |-> 3,
                                     checksum |-> ChecksumDays(Worked(m))]
                   ELSE NoSheet]
    /\ writer = Idle /\ closer = Idle

\* A run of the first month, calculated once in vain, with one manual deduction.
Drafted == [NoRun EXCEPT !.state = "CALCULATION_FAILED", !.month = 1, !.version = 2,
                         !.manual = 1, !.gens = 1]

\* The run's payslips are printed, or one is missing, or the file of one.
Printed ==
    LET g == CHOOSE h \in [Staff -> Printers] : \A e, f \in Staff : e # f => h[e] # h[f]
        e1 == CHOOSE e \in Staff : TRUE
    IN  /\ \/ rows = g /\ lost = {}
           \/ rows = g /\ lost = {e1}
           \/ rows = [g EXCEPT ![e1] = Nobody] /\ lost = {}
        /\ files = {g[e] : e \in Staff \ lost}
        /\ smtp = FALSE /\ address = [e \in Staff |-> NoAddress]
        /\ printer = [p \in Printers |-> [phase |-> "done", emp |-> Nobody]]
        /\ batches = [b \in Batches |-> NoBatch]
        /\ mails = {} /\ letter = NoLetter

MCInit ==
    /\ scene \in {"cards", "month", "inputs", "money", "print", "post", "year", "assets"}
    /\ AssetInit
    /\ IF scene = "year" THEN MathInit ELSE year = [NewYear EXCEPT !.month = MaxMonth]
    /\ IF scene = "post" THEN Printed ELSE DeliveryInit /\ address = [e \in Staff |-> NoAddress]
    /\ runs = [r \in Runs |-> IF scene = "money" /\ r = FirstRun THEN Drafted ELSE NoRun]
    /\ calc = NoCalc /\ fin = NoCalc
    /\ AdvancesInit
    /\ \/ scene \in {"cards", "print", "post", "year", "assets"} /\ WorkforceInit /\ TimesheetInit
       \/ scene = "month" /\ Hired /\ TimesheetInit
       \/ scene = "inputs" /\ Hired /\ Closed({1, 2})
       \/ scene = "money" /\ Hired /\ Closed({1})

CardsNext ==
    /\ scene = "cards"
    /\ WorkforceNext
    /\ UNCHANGED <<tsVars, advVars, payVars>>

MonthNext ==
    /\ scene = "month"
    /\ \/ SheetStep(1) /\ UNCHANGED <<wfVars, advVars, payVars>>
       \/ RunStep(FirstRun) /\ UNCHANGED <<wfVars, tsVars, advVars>>
       \/ CommitFinalizeRun /\ UNCHANGED <<wfVars, tsVars>>

InputsNext ==
    /\ scene = "inputs"
    /\ \/ \E r \in Runs : RunStep(r) /\ UNCHANGED <<wfVars, tsVars, advVars>>
       \/ ManualStep(FirstRun) /\ UNCHANGED <<wfVars, tsVars, advVars>>
       \/ CommitFinalizeRun /\ UNCHANGED <<wfVars, tsVars>>
       \/ \E w \in Wages : CreateTerm(1, 1, Open, w, FALSE) /\ UNCHANGED <<tsVars, advVars, payVars>>

MoneyNext ==
    /\ scene = "money"
    /\ \/ AdvancesStep(Planned) /\ UNCHANGED <<wfVars, tsVars, payVars>>
       \/ (RunStep(FirstRun) \/ ManualStep(FirstRun)) /\ UNCHANGED <<wfVars, tsVars, advVars>>
       \/ CashStep /\ UNCHANGED <<wfVars, tsVars>>

PrintNext ==
    /\ scene = "print"
    /\ Put \/ PrintStep \/ LetterStep
    /\ UNCHANGED payrollVars

PostNext ==
    /\ scene = "post"
    /\ Put \/ PostStep
    /\ UNCHANGED payrollVars

YearNext == scene = "year" /\ MathNext /\ UNCHANGED <<scene, payrollVars, dlVars, assetVars>>

AssetsNext == scene = "assets" /\ AssetStep /\ UNCHANGED <<scene, payrollVars, dlVars, year>>

DepartmentNext ==
    /\ \/ (CardsNext \/ MonthNext \/ InputsNext \/ MoneyNext) /\ UNCHANGED dlVars
       \/ PrintNext
       \/ PostNext
    /\ UNCHANGED <<scene, year, assetVars>>

MCNext == DepartmentNext \/ YearNext \/ AssetsNext
MCSpec == MCInit /\ [][MCNext]_all
=============================================================================
