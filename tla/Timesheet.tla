----------------------------- MODULE Timesheet -----------------------------
(***************************************************************************)
(* The monthly timesheet of the employee (internal/hr/timesheet): days are *)
(* generated from the schedule or entered by hand, the month is finalised  *)
(* with a checksum of its days, and may be reopened until a finalised      *)
(* payroll uses it.  A day is written by a transaction whose trigger looks *)
(* at the month's status when the statement runs, without locking the      *)
(* month; finalising reads the days before its own transaction.  Both are  *)
(* therefore two steps here.                                               *)
(***************************************************************************)
EXTENDS Workforce

CONSTANTS Kinds,      \* what a day may hold
          MaxVersion  \* bound on the versions of a month

\* The kinds of day the payroll tells apart.  A sick day that needs a decision is a
\* paid leave whose leave type asks for review; the checksum leaves the type out.
DayKinds == {"worked", "leave", "sick", "absent"}

ASSUME TimesheetAssumption == Kinds \subseteq DayKinds /\ MaxVersion \in Nat

VARIABLES sheets,  \* month -> [status, days, checksum, version]
          writer,  \* the day writer whose statement has run and whose commit is due
          closer   \* the request to finalise that has read the days

tsVars == <<sheets, writer, closer>>

NoDay == [kind |-> "none", src |-> "NONE"]
Day == [kind : Kinds, src : {"GENERATED", "MANUAL"}] \cup {NoDay}
Bucket(kind) == IF kind = "sick" THEN "leave" ELSE kind

\* checksumDays: the source and the minutes of every day, but not its leave type.
ChecksumDays(days) == [d \in DOMAIN days |-> [kind |-> Bucket(days[d].kind), src |-> days[d].src]]

NoSheet == [status |-> "NONE", days |-> << >>, checksum |-> << >>, version |-> 0]
Idle == [month |-> 0]

MonthsOfYear == 1..Months

TimesheetTypeOK ==
    /\ \A m \in MonthsOfYear :
         /\ sheets[m].status \in {"NONE", "DRAFT", "FINALIZED"}
         /\ sheets[m].status # "NONE" => sheets[m].days \in [MonthDays(m) -> Day]
         /\ sheets[m].version \in Nat
    /\ writer.month \in 0..Months /\ closer.month \in 0..Months

TimesheetInit ==
    /\ sheets = [m \in MonthsOfYear |-> NoSheet]
    /\ writer = Idle
    /\ closer = Idle

CreatePeriod(m) ==
    /\ sheets[m].status = "NONE"
    /\ sheets' = [sheets EXCEPT ![m] = [status |-> "DRAFT", checksum |-> << >>, version |-> 1,
                                        days |-> [d \in MonthDays(m) |-> NoDay]]]
    /\ UNCHANGED <<writer, closer>>

\* The trigger on timesheet_days refuses a statement when the month is finalised.
MayWrite(m) == sheets[m].status = "DRAFT" /\ writer = Idle

\* The day writer's statement has run: `change` is what its commit will make visible.
BeginWrite(m, change, bump) ==
    /\ MayWrite(m)
    /\ sheets[m].version + bump <= MaxVersion
    /\ writer' = [month |-> m, change |-> change, bump |-> bump]
    /\ UNCHANGED <<sheets, closer>>

\* UpdateDay edits a day that is there; whatever it was, it is a manual one now.
UpdateDay(m, d, kind) ==
    /\ sheets[m].status # "NONE" /\ sheets[m].days[d] # NoDay
    /\ BeginWrite(m, [x \in {d} |-> [kind |-> kind, src |-> "MANUAL"]], 0)

\* UpsertDay refuses an employee who is not employed in the month (checkEmployee).
UpsertDay(m, d, kind) ==
    /\ InPopulation(m)
    /\ BeginWrite(m, [x \in {d} |-> [kind |-> kind, src |-> "MANUAL"]], 0)

DeleteDay(m, d) ==
    /\ sheets[m].status # "NONE" /\ sheets[m].days[d] # NoDay
    /\ BeginWrite(m, [x \in {d} |-> NoDay], 0)

\* Generate: what is not manual is deleted and made again from the schedule, for the
\* days from the first to the last employment of the month.
Spanned(m, d) ==
    /\ InPopulation(m)
    /\ d \in Min({emps[i].from : i \in Touching(m)})..Max({emps[i].to : i \in Touching(m)})
GeneratedDays(m) ==
    [d \in {x \in MonthDays(m) : sheets[m].days[x].src # "MANUAL"} |->
        IF Spanned(m, d) THEN [kind |-> "worked", src |-> "GENERATED"] ELSE NoDay]
Generate(m) ==
    /\ sheets[m].status # "NONE"
    /\ BeginWrite(m, GeneratedDays(m), 1)

\* The commit.  Nothing looks at the status again, and only Generate counts the
\* month's version up.
CommitWrite ==
    /\ writer # Idle
    /\ sheets' = [sheets EXCEPT ![writer.month].days =
                                    [d \in DOMAIN @ |-> IF d \in DOMAIN writer.change THEN writer.change[d] ELSE @[d]],
                                ![writer.month].version = @ + writer.bump]
    /\ writer' = Idle
    /\ UNCHANGED closer

\* Finalize reads the month and its days ...
BeginFinalize(m) ==
    /\ closer = Idle
    /\ sheets[m].status = "DRAFT"
    /\ sheets[m].version < MaxVersion
    /\ closer' = [month |-> m, version |-> sheets[m].version,
                  checksum |-> ChecksumDays(sheets[m].days)]
    /\ UNCHANGED <<sheets, writer>>

\* ... and finalises it if it is still a draft of the version that was read.
MayFinalize == sheets[closer.month].status = "DRAFT" /\ sheets[closer.month].version = closer.version
CommitFinalize ==
    /\ closer # Idle
    /\ sheets' = IF MayFinalize
                 THEN [sheets EXCEPT ![closer.month].status = "FINALIZED",
                                     ![closer.month].checksum = closer.checksum,
                                     ![closer.month].version = @ + 1]
                 ELSE sheets
    /\ closer' = Idle
    /\ UNCHANGED writer

\* Reopen, refused once a finalised payroll uses the month.
Reopen(m, used) ==
    /\ sheets[m].status = "FINALIZED"
    /\ ~used
    /\ sheets[m].version < MaxVersion
    /\ sheets' = [sheets EXCEPT ![m].status = "DRAFT", ![m].checksum = << >>,
                                ![m].version = @ + 1]
    /\ UNCHANGED <<writer, closer>>

TimesheetStep(m) ==
    \/ CreatePeriod(m) \/ Generate(m) \/ BeginFinalize(m)
    \/ \E d \in MonthDays(m) :
         \/ DeleteDay(m, d)
         \/ \E kind \in Kinds : UpdateDay(m, d, kind) \/ UpsertDay(m, d, kind)
    \/ CommitWrite
    \/ CommitFinalize

-----------------------------------------------------------------------------
\* pickDays(attendanceDays(...)): the paid days of a month, in days of a 30-day month
\* when not a day of it is missing or unpaid.
Paid(day) == day.kind \in {"worked", "leave", "sick"}
PaidDays(days) == Cardinality({d \in DOMAIN days : Paid(days[d])})
UnpaidDays(days) == Cardinality({d \in DOMAIN days : days[d].kind = "absent"})
RecordedDays(days) == Cardinality({d \in DOMAIN days : days[d] # NoDay})
FullMonth(days) == /\ UnpaidDays(days) = 0
                   /\ PaidDays(days) >= DaysPerMonth /\ RecordedDays(days) >= DaysPerMonth
WorkDays(days) == IF FullMonth(days) THEN 30 ELSE Min({PaidDays(days), 30})
\* checkAttendance: a month nothing was recorded of, or nothing but blanks.
Attended(days) == RecordedDays(days) > 0 /\ (PaidDays(days) > 0 \/ UnpaidDays(days) > 0)
NeedsReview(days) == \E d \in DOMAIN days : days[d].kind = "sick"
=============================================================================
