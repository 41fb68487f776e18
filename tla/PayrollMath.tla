----------------------------- MODULE PayrollMath -----------------------------
(***************************************************************************)
(* The payroll engine (internal/payroll/calculation), acted out over the   *)
(* months of one employee's year.  Amounts are whole cents and rates whole *)
(* parts of RateScale, so every product is exact and every Quantize is a   *)
(* HALF_UP division.  A quotient keeps DivScale parts of a cent, where the *)
(* code keeps twelve decimals: what matters is that it is cut.             *)
(***************************************************************************)
EXTENDS Integers, Sequences, FiniteSets, FiniteSetsExt

CONSTANTS Grosses,     \* monthly wages of the employee
          DayCounts,   \* paid days of a month that is not full
          Extras,      \* components a month may have besides the wage
          MaxMonth,    \* months of the year that are looked at
          Legislation,        \* the legislation: see LegislationOK
          RateScale,   \* parts of a whole in which rates are given
          DivScale,    \* parts of a cent a quotient keeps
          Targets      \* net wages the preview is asked for

LegislationOK(p) ==
    /\ p.minimum \in Nat /\ p.floor \in Nat /\ p.ceiling \in Nat
    /\ p.stamp \in Nat /\ p.sgk \in Nat /\ p.unemployment \in Nat
    /\ p.brackets \in Seq([upper : Nat, rate : Nat])

ASSUME PayrollMathAssumption ==
    /\ LegislationOK(Legislation)
    /\ RateScale \in Nat \ {0} /\ DivScale \in Nat \ {0} /\ MaxMonth \in Nat
    /\ Grosses \subseteq Nat /\ DayCounts \subseteq 0..30 /\ Targets \subseteq Nat

VARIABLE year   \* [month, base, tax, due, ordinary]: the months calculated so far

divHalfUp(n, d) == (2 * n + d) \div (2 * d)
nonNegative(x) == Max({x, 0})
clamp(x, low, high) == Min({Max({x, low}), high})

\* q(mul(amount, rate))
Of(amount, rate) == divHalfUp(amount * rate, RateScale)

applyTreatment(amount, days, rule) ==
    CASE rule.kind = "FULLY_EXEMPT"  -> 0
      [] rule.kind = "DAILY_LIMIT"   -> nonNegative(amount - rule.limit * days)
      [] rule.kind = "MONTHLY_LIMIT" -> nonNegative(amount - rule.limit)
      [] rule.kind = "PERCENT_LIMIT" -> Of(amount, RateScale - rule.limit)
      [] OTHER                       -> amount

-----------------------------------------------------------------------------
(* The progressive income tax.  Bases are in parts 1/RateScale of a cent,  *)
(* because the base of the minimum wage is not rounded; taxes are in parts *)
(* 1/RateScale^2.                                                          *)

Lower(i) == IF i = 1 THEN 0 ELSE Legislation.brackets[i - 1].upper
Segment(base, i) == clamp(base - Lower(i) * RateScale, 0,
                          (Legislation.brackets[i].upper - Lower(i)) * RateScale)
progressiveTax(base) ==
    MapThenSumSet(LAMBDA i : Segment(base, i) * Legislation.brackets[i].rate, DOMAIN Legislation.brackets)
\* Mutant: every month is taxed as if it were the first.
MutprogressiveDelta(prior, current) == progressiveTax(current)
progressiveDelta(prior, current) == progressiveTax(prior + current) - progressiveTax(prior)
TaxOf(prior, current) == divHalfUp(progressiveDelta(prior, current), RateScale * RateScale)

\* minimumMonthlyTaxable, not rounded; and the one of this month, rounded.
MinimumPrior(months) == months * Legislation.minimum * (RateScale - Legislation.sgk - Legislation.unemployment)
MinimumGross(c) ==
    IF c.full \/ c.days >= 30 THEN Legislation.minimum
    ELSE divHalfUp(Legislation.minimum * divHalfUp(c.days * DivScale, 30), DivScale)
AfterSocial(amount) ==
    nonNegative(amount - Of(amount, Legislation.sgk) - Of(amount, Legislation.unemployment))
MinimumTaxable(c) == AfterSocial(MinimumGross(c))

\* Calculate: c is [gross, days, full, prior, months, extras, deduction].
BaseWage(c) ==
    IF c.full THEN c.gross
    ELSE divHalfUp(divHalfUp(c.gross * DivScale, 30) * c.days, DivScale)
GrossOf(c) == BaseWage(c) + MapThenSumSet(LAMBDA x : x.amount, c.extras)
Included(c, levy) ==
    BaseWage(c) + MapThenSumSet(LAMBDA x : applyTreatment(x.amount, c.days, x[levy]), c.extras)
SGKDays(c) == IF c.full THEN 30 ELSE Min({c.days, 30})
Clamped(amount, days) ==
    IF days = 0 \/ amount = 0 THEN 0
    ELSE clamp(amount, Legislation.floor * days, Legislation.ceiling * days)
SGKBase(c) == Clamped(Included(c, "sgk"), SGKDays(c))

\* The employee's shares, SGK and unemployment, of a base.
Shares(base) == Of(base, Legislation.sgk) + Of(base, Legislation.unemployment)

\* What is left of a tax after an exemption that never exceeds it.
Due(tax, exemption) == tax - Min({tax, exemption})

\* The payslip: refused without a wage, or when the deductions exceed the gross.
Payslip(c, gross, base, tax, due, stamp, deductions) ==
    [ok |-> c.gross > 0 /\ gross >= deductions, net |-> gross - deductions, base |-> base,
     tax |-> tax, due |-> due, stamp |-> stamp]
Levied(c, shares, base, tax, due, stamp) ==
    Payslip(c, GrossOf(c), base, tax, due, stamp, shares + due + stamp + c.deduction)
Taxed(c, shares, base, tax) ==
    Levied(c, shares, base, tax,
           Due(tax, TaxOf(MinimumPrior(c.months), MinimumTaxable(c) * RateScale)),
           Due(Of(Included(c, "stamp"), Legislation.stamp),
               Of(Min({BaseWage(c), MinimumGross(c)}), Legislation.stamp)))
Based(c, shares, base) == Taxed(c, shares, base, TaxOf(c.prior * RateScale, base * RateScale))
WithShares(c, shares) == Based(c, shares, nonNegative(Included(c, "tax") - shares))
Calculate(c) == WithShares(c, Shares(SGKBase(c)))

-----------------------------------------------------------------------------
(* Preview: the gross wage that yields a net one, by bisection. *)

StandaloneMonth(gross) == [gross |-> gross, days |-> 30, full |-> TRUE, prior |-> 0, months |-> 0,
                     extras |-> {}, deduction |-> 0]
NetOf(gross) == Calculate(StandaloneMonth(gross))

\* The upper bound is doubled until its net reaches the target; any error ends it.
doubled(target) ==
    LET try[i \in 0..40] ==
          LET hi == (target + 100) * 2^i
          IN  IF ~NetOf(hi).ok THEN 0
              ELSE IF NetOf(hi).net >= target THEN hi
              ELSE IF i = 40 THEN 0 ELSE try[i + 1]
    IN  try[0]

calculateForTargetNet(target) ==
    LET step[b \in Nat \X Nat] ==
          LET lo == b[1]
              hi == b[2]
              mid == divHalfUp(lo + hi, 2)
              r == NetOf(mid)
          IN  IF ~r.ok \/ r.net = target \/ hi - lo <= 1 THEN r
              ELSE IF r.net < target THEN step[<<mid, hi>>] ELSE step[<<lo, mid>>]
    IN  IF doubled(target) = 0 THEN [ok |-> FALSE] ELSE step[<<0, doubled(target)>>]

-----------------------------------------------------------------------------
NewYear == [month |-> 0, base |-> 0, tax |-> 0, due |-> 0, ordinary |-> TRUE]
MathInit == year = NewYear

\* A month is calculated and finalised: its base joins those of the year.
CalculateMonth(gross, days, full, extras, deduction) ==
    /\ year.month < MaxMonth
    /\ LET c == [gross |-> gross, days |-> days, full |-> full, prior |-> year.base,
                 months |-> year.month, extras |-> extras, deduction |-> deduction]
           r == Calculate(c)
       IN  /\ r.ok
           /\ year' = [month |-> year.month + 1, base |-> year.base + r.base,
                       tax |-> year.tax + r.tax, due |-> year.due + r.due + r.stamp,
                       ordinary |-> year.ordinary /\ full /\ extras = {} /\ gross = Legislation.minimum]

MathNext ==
    \E g \in Grosses, x \in {{}} \cup {{e} : e \in Extras}, d \in {0, 60} :
        \/ CalculateMonth(g, 30, TRUE, x, d)
        \/ \E n \in DayCounts : CalculateMonth(g, n, FALSE, x, d)

\* THE YEAR ADDS UP.  However the wage, the paid days and the extras change from month to
\* month, the income tax computed month by month is the tax on the base of the whole year
\* but for half a cent a month; an employee who earns the minimum wage in every month pays
\* no more than that rounding can leave, although the exemption's prior base is not rounded
\* and the employee's is.  The comment of the preview says that "net is monotonically
\* non-decreasing in gross, so bisection converges" (calculator.go:267-268).  That is not
\* so: when two roundings meet, one cent more of gross costs a cent of net (249 here;
\* 100,007.24 of the real tables).  It never costs more than one, and the preview's
\* conclusion stands: the net it finds for a target is at most two cents away from it.
YearAddsUp ==
    /\ LET whole == progressiveTax(year.base * RateScale)
           drift == year.tax * RateScale * RateScale - whole
       IN  2 * Max({drift, -drift}) <= year.month * RateScale * RateScale
    /\ year.ordinary => year.due <= year.month
    /\ year.month = 0 =>
         /\ \A g \in Grosses \cup Targets : NetOf(g).ok => NetOf(g + 1).net >= NetOf(g).net - 1
         /\ \A t \in Targets : LET r == calculateForTargetNet(t)
                               IN  r.ok => r.net \in (t - 2)..(t + 2)
=============================================================================
