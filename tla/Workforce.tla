----------------------------- MODULE Workforce -----------------------------
(***************************************************************************)
(* What the payroll reads about one employee: the periods of employment    *)
(* (internal/hr/employment), the wage terms attached to them, and the      *)
(* legislation packs that carry the statutory minimum wage                 *)
(* (internal/payroll/legislation).  Every operation is one transaction,    *)
(* but for the raise of the minimum wage, which reads the terms without a  *)
(* lock and writes them later; a request holding an outdated row version   *)
(* is refused and changes nothing, so versions are not part of the state.  *)
(* Dates are numbered 1..Months*DaysPerMonth; Open stands for an end that  *)
(* is not set.                                                             *)
(***************************************************************************)
EXTENDS Naturals, Sequences, FiniteSets, FiniteSetsExt

CONSTANTS Months,          \* number of months of the year that are looked at
          DaysPerMonth,    \* days of a month
          Wages,           \* gross wages a user may enter
          EntryDates,      \* dates a user may enter
          MaxEmployments,  \* bound on the employments of the employee
          MaxTerms,        \* bound on the wage terms alive at a time
          MaxPacks         \* bound on the legislation packs

ASSUME WorkforceAssumption ==
    /\ Months \in Nat \ {0} /\ DaysPerMonth \in Nat \ {0}
    /\ EntryDates \subseteq 1..(Months * DaysPerMonth)
    /\ Wages \subseteq Nat \ {0} /\ Wages # {}
    /\ MaxEmployments \in Nat \ {0} /\ MaxTerms \in Nat /\ MaxPacks \in Nat \ {0}

VARIABLES emps,   \* sequence of employments [from, to]
          terms,  \* wage terms [emp, from, to, wage, min]; (emp, from) is a key
          packs,  \* sequence of packs [state, from, minimum, prev]
          raises  \* raises of the minimum wage under way [day, gross, phase, read]

wfVars == <<emps, terms, packs, raises>>

Dates == 1..(Months * DaysPerMonth)
Open == Months * DaysPerMonth + 1
FirstDay(m) == (m - 1) * DaysPerMonth + 1
LastDay(m) == m * DaysPerMonth
MonthDays(m) == FirstDay(m)..LastDay(m)

Employment == [from : Dates, to : Dates \cup {Open}]
Term == [emp : 1..MaxEmployments, from : Dates, to : Dates \cup {Open}, wage : Nat,
         min : BOOLEAN]
Pack == [state : {"DRAFT", "ACTIVE", "SUPERSEDED"}, from : Dates, minimum : Nat,
         prev : 0..MaxPacks]
Raise == [day : Dates, gross : Nat, phase : {"due", "read"}, read : SUBSET Term]

WorkforceTypeOK ==
    /\ emps \in Seq(Employment) /\ Len(emps) <= MaxEmployments
    /\ terms \subseteq Term
    /\ packs \in Seq(Pack) /\ Len(packs) <= MaxPacks
    /\ raises \subseteq Raise /\ \A x \in raises : \A t \in x.read : t.to = Open /\ t.from < x.day

WorkforceInit ==
    /\ emps = << >>
    /\ terms = {}
    /\ packs = <<[state |-> "ACTIVE", from |-> 1, minimum |-> Min(Wages), prev |-> 0]>>
    /\ raises = {}

\* Two closed date ranges share a day (daterange(..., '[]') && daterange(..., '[]')).
Overlap(a, b) == a.from <= b.to /\ b.from <= a.to

\* The exclusion constraint employments_no_overlap with the CHECK on the end date.
EmploymentsFit(es) ==
    /\ \A i \in DOMAIN es : es[i].from <= es[i].to
    /\ \A i, j \in DOMAIN es : i # j => ~Overlap(es[i], es[j])

\* The exclusion constraint employment_terms_no_overlap, which is per employment,
\* with the CHECK on the end date.
TermsFit(ts) ==
    /\ \A t \in ts : t.from <= t.to
    /\ \A t, u \in ts : t # u /\ t.emp = u.emp => ~Overlap(t, u)

NewTerm(e, from, to, wage, min) ==
    [emp |-> e, from |-> from, to |-> to, wage |-> wage, min |-> min]

-----------------------------------------------------------------------------
(* Legislation packs. *)

\* Repository.ActivePack: the pack in force on a date; packs run to the end of time.
ActivePacks(d) == {i \in DOMAIN packs : packs[i].state = "ACTIVE" /\ packs[i].from <= d}
HasPack(d) == ActivePacks(d) # {}
ActivePack(d) == CHOOSE i \in ActivePacks(d) : TRUE
MinimumMonthlyGross(d) == packs[ActivePack(d)].minimum

\* A draft that replaces another pack starts when that one did unless a start is given.
CreateDraft(from, minimum, prev) ==
    /\ Len(packs) < MaxPacks
    /\ packs' = Append(packs, [state |-> "DRAFT", from |-> from, minimum |-> minimum,
                               prev |-> prev])
    /\ UNCHANGED <<emps, terms, raises>>

\* The packs after Activate(i): the replaced pack gives way, and two packs in force
\* may not share a day (payroll_legislation_active_no_overlap).
Activated(ps, i) ==
    [j \in DOMAIN ps |->
        IF j = i THEN [ps[j] EXCEPT !.state = "ACTIVE"]
        ELSE IF j = ps[i].prev /\ ps[j].state = "ACTIVE"
             THEN [ps[j] EXCEPT !.state = "SUPERSEDED"]
             ELSE ps[j]]
OnePackInForce(ps) == Cardinality({j \in DOMAIN ps : ps[j].state = "ACTIVE"}) <= 1

Raising(day, gross) == [day |-> day, gross |-> gross, phase |-> "due", read |-> {}]

\* The activate handler: the pack is activated in one transaction; the terms are then
\* moved in a second one, whose failure only adds a warning to the answer.
Activate(i, today) ==
    /\ packs[i].state = "DRAFT"
    /\ OnePackInForce(Activated(packs, i))
    /\ packs' = Activated(packs, i)
    /\ raises' = raises \cup {Raising(today, packs[i].minimum)}
    /\ UNCHANGED <<emps, terms>>

\* ReplaceMinimumWage: draft and activation of a successor of the pack in force.
ReplaceMinimumWage(minimum, today) ==
    /\ Len(packs) < MaxPacks
    /\ \E i \in DOMAIN packs :
         /\ packs[i].state = "ACTIVE"
         /\ packs' = Activated(Append(packs, [state |-> "DRAFT", from |-> packs[i].from,
                                              minimum |-> minimum, prev |-> i]),
                               Len(packs) + 1)
    /\ raises' = raises \cup {Raising(today, minimum)}
    /\ UNCHANGED <<emps, terms>>

\* ApplyMinimumWageChange reads every open minimum-wage term that began before the day.
MinimumTerms(day) == {t \in terms : t.min /\ t.to = Open /\ t.from < day}
ReadMinimumTerms(x) ==
    /\ x.phase = "due"
    /\ raises' = (raises \ {x}) \cup {[x EXCEPT !.phase = "read", !.read = MinimumTerms(x.day)]}
    /\ UNCHANGED <<emps, terms, packs>>

\* Mutant: the terms are moved to the day instead of ended before it.
MutRaised(x, there) == (terms \ there) \cup {[u EXCEPT !.from = x.day, !.wage = x.gross] : u \in x.read}

\* Each of them is then ended the day before, whatever its end has become by now; one
\* that was deleted meanwhile is not there to be ended, although the same term may have
\* been entered again.  Each is continued at the new minimum, ended or not.
MayBe(u) == {t \in terms : t.emp = u.emp /\ t.from = u.from /\ t.wage = u.wage /\ t.min = u.min}
Raised(x, there) ==
    (terms \ there)
      \cup {[t EXCEPT !.to = x.day - 1] : t \in there}
      \cup {[u EXCEPT !.from = x.day, !.wage = x.gross] : u \in x.read}

ApplyMinimumWageChange(x) ==
    /\ x.phase = "read"
    /\ \E there \in SUBSET UNION {MayBe(u) : u \in x.read} :
         TermsFit(Raised(x, there)) /\ terms' = Raised(x, there)
    /\ raises' = raises \ {x}
    /\ UNCHANGED <<emps, packs>>
FailMinimumWageChange(x) == raises' = raises \ {x} /\ UNCHANGED <<emps, terms, packs>>

-----------------------------------------------------------------------------
(* Employments and wage terms. *)

\* The wage a new employment inherits: the latest one that began by its first day.  The
\* code breaks a tie by the creation time, which the state does not keep: any of them.
Carried(from) ==
    LET prev == {t \in terms : t.from <= from}
    IN  {t \in prev : \A u \in prev : u.from <= t.from}

\* A new active card comes with its employment and its wage, in one transaction.
CreateEmployee(from, wage, min) ==
    /\ emps = << >>
    /\ min => HasPack(from)
    /\ emps' = <<[from |-> from, to |-> Open]>>
    /\ terms' = {NewTerm(1, from, Open, IF min THEN MinimumMonthlyGross(from) ELSE wage, min)}
    /\ UNCHANGED <<packs, raises>>

CreateEmployment(from) ==
    /\ Len(emps) < MaxEmployments
    /\ EmploymentsFit(Append(emps, [from |-> from, to |-> Open]))
    /\ emps' = Append(emps, [from |-> from, to |-> Open])
    /\ IF Carried(from) = {} THEN UNCHANGED terms
       ELSE \E t \in Carried(from) :
              terms' = terms \cup {NewTerm(Len(emps) + 1, from, Open, t.wage, t.min)}
    /\ Cardinality(terms') <= MaxTerms
    /\ UNCHANGED <<packs, raises>>

\* The end date is set, or moved, and the terms still in force on it are cut there.
TerminateEmployment(e, end) ==
    /\ EmploymentsFit([emps EXCEPT ![e].to = end])
    /\ emps' = [emps EXCEPT ![e].to = end]
    /\ terms' = {IF t.emp = e /\ t.to > end /\ t.from <= end THEN [t EXCEPT !.to = end] ELSE t
                   : t \in terms}
    /\ UNCHANGED <<packs, raises>>

\* The open terms a new one replaces: those of the same employment that would begin
\* on its first day or later.
Replaced(e, from) == {t \in terms : t.emp = e /\ t.to = Open /\ t.from >= from}

\* A new wage deletes what it replaces, closes every earlier open term of the
\* employee, whichever employment it belongs to, and is inserted.  A minimum-wage
\* term takes the amount of the pack in force.
CreateTerm(e, from, to, wage, min) ==
    /\ min => HasPack(from)
    /\ LET kept == terms \ Replaced(e, from)
           closed == {IF t.to = Open /\ t.from < from THEN [t EXCEPT !.to = from - 1] ELSE t
                        : t \in kept}
           new == NewTerm(e, from, to, IF min THEN MinimumMonthlyGross(from) ELSE wage, min)
       IN  /\ terms' = closed \cup {new}
           /\ TermsFit(terms')
           /\ Cardinality(terms') <= MaxTerms
    /\ UNCHANGED <<emps, packs, raises>>

\* The end of a term is set, whether or not it had one.
CloseTerm(t, end) ==
    /\ terms' = (terms \ {t}) \cup {[t EXCEPT !.to = end]}
    /\ TermsFit(terms')
    /\ UNCHANGED <<emps, packs, raises>>

-----------------------------------------------------------------------------
(* What the payroll and the timesheet read. *)

\* loadPopulation and the readiness query: the employment touching the month that
\* started last, and its wage on the first day of the month or of the employment.
Touching(m) == {i \in DOMAIN emps : Overlap(emps[i], [from |-> FirstDay(m), to |-> LastDay(m)])}
InPopulation(m) == Touching(m) # {}
PaidEmployment(m) ==
    CHOOSE i \in Touching(m) : \A j \in Touching(m) : emps[j].from <= emps[i].from
WageTerms(m) ==
    {t \in terms : /\ t.emp = PaidEmployment(m)
                   /\ Max({FirstDay(m), emps[t.emp].from}) \in t.from..t.to}
\* The wage of the month, 0 when no term covers it (WageIssues: no wage).
WageOf(m) == IF InPopulation(m) /\ WageTerms(m) # {}
             THEN (CHOOSE t \in WageTerms(m) : TRUE).wage ELSE 0
EarliestStart == Min({emps[i].from : i \in {j \in DOMAIN emps : emps[j].to > emps[j].from}})

\* The wages recorded for an employment on a day.
WagesOn(ts, e, d) == {t.wage : t \in {u \in ts : u.emp = e /\ d \in u.from..u.to}}

-----------------------------------------------------------------------------
WorkforceNext ==
    \/ \E d \in EntryDates, w \in Wages, min \in BOOLEAN : CreateEmployee(d, w, min)
    \/ \E d \in EntryDates : CreateEmployment(d)
    \/ \E e \in DOMAIN emps, d \in EntryDates : TerminateEmployment(e, d)
    \/ \E e \in DOMAIN emps, d \in EntryDates, to \in EntryDates \cup {Open}, w \in Wages, min \in BOOLEAN :
         CreateTerm(e, d, to, w, min)
    \/ \E t \in terms, d \in EntryDates : CloseTerm(t, d)
    \/ \E d \in EntryDates, w \in Wages, p \in 0..Len(packs) :
         CreateDraft(IF p = 0 THEN d ELSE packs[p].from, w, p)
    \/ \E i \in DOMAIN packs, d \in EntryDates : Activate(i, d)
    \/ \E w \in Wages, d \in EntryDates : ReplaceMinimumWage(w, d)
    \/ \E x \in raises : ReadMinimumTerms(x) \/ ApplyMinimumWageChange(x) \/ FailMinimumWageChange(x)

\* The employments whose term was ended, replaced or deleted between its reading by the
\* raise that this step completes and the step.
Overtaken == {u.emp : u \in (UNION {x.read : x \in raises \ raises'}) \ terms}

\* HISTORY IS KEPT.  A wage that begins on a day - entered by hand, inherited by a new
\* employment, or raised with the minimum wage - leaves the wage of every earlier day
\* of every employment as it was ("geçmiş korunur"), although CreateTerm deletes open
\* terms and closes those of other employments, and the minimum wage moves many terms
\* at once - except where a raise overtakes another command: it ends a term it has read
\* without looking at it again, and so stretches or cuts one that was ended meanwhile.
\* (Only CloseTerm and TerminateEmployment shorten a term that is there.)
HistoryIsKept ==
    [][\A t \in terms' :
         (\A u \in terms : <<u.emp, u.from, u.wage>> # <<t.emp, t.from, t.wage>>) =>
         \A e \in DOMAIN emps \ Overtaken, d \in Dates :
            d < t.from => WagesOn(terms', e, d) = WagesOn(terms, e, d)]_wfVars
=============================================================================
