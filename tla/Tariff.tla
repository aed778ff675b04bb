------------------------------- MODULE Tariff -------------------------------
(***************************************************************************)
(* The tariff package as operators: what the compiler admits (schema.py,   *)
(* compiler.py) and what billing.py computes for a compiled tariff - the   *)
(* verdict on eligibility, the charge lines with their rounding, and the   *)
(* diagnostic allocation of every line to service days.                    *)
(*                                                                         *)
(* Time is a number of units of the local clock; a day has DayLength of    *)
(* them and a month MonthLength days.  Amounts are integers in the units   *)
(* of the code, with the two unit constants as parameters.  Hashes, source *)
(* links and wording are left out.                                         *)
(***************************************************************************)
EXTENDS Integers, SequencesExt, FiniteSetsExt, Functions

CONSTANTS None,                  \* the absent value
          DayLength,             \* time units of a local day
          MonthLength,           \* days of a calendar month
          Workdays,              \* the days that are weekdays and no holidays
          MicrodollarsPerCent,   \* 10000 in ir.py
          WhPerKWh,              \* 1000 in ir.py
          ReviewTolerance        \* review_tolerance_cents

ASSUME TariffConstants ==
    /\ DayLength \in Nat \ {0} /\ MonthLength \in Nat \ {0}
    /\ MicrodollarsPerCent \in Nat \ {0} /\ WhPerKWh \in Nat \ {0}
    /\ (MicrodollarsPerCent * WhPerKWh) % 2 = 0

Magnitude(n) == IF n < 0 THEN -n ELSE n
Smaller(m, n) == IF m < n THEN m ELSE n
SumOf(op(_), S) == MapThenSumSet(op, S)
DayOf(instant) == instant \div DayLength
MonthOf(day) == day \div MonthLength
-----------------------------------------------------------------------------
(* What the schema and the compiler admit.                                 *)

RulesOf(t, kind) == {r \in Range(t.rules) : r.kind = kind}

\* Tariff text is refused when one of these fails; a tariff that is billed
\* has passed them all.
TiersCovered(r) ==
    \A i \in DOMAIN r.tiers : r.tiers[i].bounded <=> i # Len(r.tiers)

WindowsDisjoint(r) ==
    \A m, n \in DOMAIN r.windows :
        LET v == r.windows[m]  w == r.windows[n]
        IN  (m < n /\ v.days = w.days) => v.end <= w.start \/ w.end <= v.start

TimeOperatorsValid(t) ==
    LET charges == RulesOf(t, "TimeOfUseEnergy")
        schedules == RulesOf(t, "TimeOfUseSchedule")
    IN  /\ {c.schedule : c \in charges} = {s.id : s \in schedules}
        /\ \A c \in charges, s \in schedules :
              c.schedule = s.id =>
                 {x.period : x \in Range(c.rates)}
                   = {w.period : w \in Range(s.windows)} \cup {"OFF_PEAK"}
        /\ \A c \in charges :
              c.credit # None => c.baselineRule \in {b.id : b \in RulesOf(t, "Baseline")}

ChargeKinds == {"TieredEnergy", "TimeOfUseEnergy", "FixedDaily", "FixedMonthly"}

ComparisonComponentsDeclared(t) ==
    t.declared = {r.component : r \in UNION {RulesOf(t, k) : k \in ChargeKinds}}
                   \cup {"baseline_adjustment" :
                           r \in {c \in RulesOf(t, "TimeOfUseEnergy") : c.credit # None}}

CompileTariff(t) ==
    /\ \A r \in RulesOf(t, "TieredEnergy") : TiersCovered(r)
    /\ \A r \in RulesOf(t, "TimeOfUseSchedule") : WindowsDisjoint(r)
    /\ TimeOperatorsValid(t)
    /\ ComparisonComponentsDeclared(t)
-----------------------------------------------------------------------------
(* Eligibility.                                                            *)

RuleApplies(applicability, facts, month) ==
    \A d \in DOMAIN applicability :
        \/ applicability[d] = {}
        \/ (IF d = "month" THEN month ELSE facts[d]) \in applicability[d]

BillCycleMonth(facts) == MonthOf(facts.window[2])

Codes(pairs) == {p[2] : p \in {q \in pairs : q[1]}}

\* required_qualifying_technology is a set anyTechnology of one.
IneligibleCodes(t, facts) ==
    LET p == t.predicate
    IN  facts.mismatches \cup Codes({
          <<facts.window \notin p.windows, "SERVICE_WINDOW_NOT_ADMITTED">>,
          <<facts.technologies # None /\ p.anyTechnology # {}
              /\ p.anyTechnology \cap facts.technologies = {},
            "QUALIFYING_TECHNOLOGY_MISSING">>,
          <<p.evRegistration /\ facts.evRegistered = "NO",
            "EV_REGISTRATION_REQUIREMENT_MISMATCH">>,
          <<p.wholeHouse /\ facts.wholeHouse = "NO",
            "WHOLE_HOUSE_METERING_REQUIREMENT_MISMATCH">>,
          <<p.ratio # None /\ facts.annual # None
              /\ facts.annual.period = facts.window[1]
              /\ facts.annual.usage * p.ratio[2] > facts.annual.baseline * p.ratio[1],
            "ANNUAL_BASELINE_LIMIT_EXCEEDED">>})

UnknownCodes(t, facts) ==
    LET p == t.predicate
    IN  Codes({
          <<facts.incomeTier \notin p.incomeTiers, "UNSUPPORTED_INCOME_TIER">>,
          <<p.anyTechnology # {} /\ facts.technologies = None,
            "QUALIFYING_TECHNOLOGY_FACT_MISSING">>,
          <<p.datedTechnology /\ facts.asOf = None, "DATED_TECHNOLOGY_FACT_MISSING">>,
          <<p.datedTechnology /\ facts.asOf \notin {None, facts.window[1]},
            "DATED_TECHNOLOGY_FACT_OUTSIDE_WINDOW">>,
          <<p.evRegistration /\ facts.evRegistered = None, "EV_REGISTRATION_FACT_MISSING">>,
          <<p.wholeHouse /\ facts.wholeHouse = None, "WHOLE_HOUSE_METERING_FACT_MISSING">>,
          <<p.ratio # None /\ facts.annual = None, "ANNUAL_BASELINE_FACT_MISSING">>,
          <<p.ratio # None /\ facts.annual # None
              /\ facts.annual.period # facts.window[1],
            "ANNUAL_USAGE_PERIOD_MISMATCH">>,
          <<RulesOf(t, "Baseline") # {}
              /\ ~\E r \in RulesOf(t, "Baseline") :
                    RuleApplies(r.applicability, facts, BillCycleMonth(facts)),
            "UNSUPPORTED_BASELINE_CONFIGURATION">>})

\* The dated facts come with interval data only.
FactsOf(req) ==
    IF req.intervals # None THEN req.facts
    ELSE [req.facts EXCEPT !.asOf = None, !.evRegistered = None, !.wholeHouse = None,
                           !.annual = None]

\* mutant: without annual usage the limit counts as met
EvaluateEligibilityNoAnnual(t, facts) ==
    IF IneligibleCodes(t, facts) # {} THEN "INELIGIBLE"
    ELSE IF UnknownCodes(t, facts) \ {"ANNUAL_BASELINE_FACT_MISSING"} # {}
    THEN "UNKNOWN" ELSE "ELIGIBLE"

EvaluateEligibility(t, facts) ==
    IF IneligibleCodes(t, facts) # {} THEN "INELIGIBLE"
    ELSE IF UnknownCodes(t, facts) # {} THEN "UNKNOWN" ELSE "ELIGIBLE"
-----------------------------------------------------------------------------
(* Rounding, apportionment and slices.                                     *)

\* num/den microdollars in cents, half away from zero.
RoundHalfUpCents(num, den) ==
    LET cent == den * MicrodollarsPerCent
        cents == Magnitude(num) \div cent
                   + (IF 2 * (Magnitude(num) % cent) >= cent THEN 1 ELSE 0)
    IN  IF num < 0 THEN -cents ELSE cents

\* An integer split over days in proportion to their weights: the floors,
\* then one more for the largest remainders, the earlier day first.
ApportionOver(total, weights, days, whole) ==
    LET Share(d) == Magnitude(total) * weights[d]
        left == Magnitude(total) - SumOf(LAMBDA d : Share(d) \div whole, days)
        Before(c, d) == \/ Share(c) % whole > Share(d) % whole
                        \/ Share(c) % whole = Share(d) % whole /\ c < d
        Extra(d) == IF Cardinality({c \in days : Before(c, d)}) < left THEN 1 ELSE 0
        sign == IF total < 0 THEN -1 ELSE 1
    IN  [d \in days |-> sign * (Share(d) \div whole + Extra(d))]

ApportionInteger(total, weights) ==
    LET days == {d \in DOMAIN weights : weights[d] > 0}
    IN  ApportionOver(total, weights, days, SumFunctionOnSet(weights, days))

\* A nonzero total over no positive weight raises instead.
BasisMissing(total, weights) == total # 0 /\ \A d \in DOMAIN weights : weights[d] <= 0

EndOf(i) == i.start + i.duration
DaysOf(i) == DayOf(i.start) .. DayOf(EndOf(i) - 1)

IntervalDailyEnergy(i) ==
    ApportionInteger(i.energy,
        [d \in DaysOf(i) |-> Smaller(EndOf(i), (d + 1) * DayLength)
                               - (IF i.start > d * DayLength THEN i.start
                                  ELSE d * DayLength)])

DailyEnergy(intervals) ==
    LET days == UNION {DaysOf(intervals[n]) : n \in DOMAIN intervals}
    IN  [d \in days |->
           SumOf(LAMBDA n : IntervalDailyEnergy(intervals[n])[d],
                 {n \in DOMAIN intervals : d \in DaysOf(intervals[n])})]

SliceStep(acc, day, energy) ==
    IF acc.stopped THEN acc
    ELSE IF acc.offset >= energy THEN [acc EXCEPT !.offset = @ - energy]
    ELSE LET taken == Smaller(energy - acc.offset, acc.quantity)
         IN  [offset |-> 0, quantity |-> acc.quantity - taken,
              stopped |-> acc.quantity = taken,
              selected |-> IF taken = 0 THEN acc.selected ELSE acc.selected @@ (day :> taken)]

EnergySlice(daily, offset, quantity) ==
    FoldLeft(LAMBDA acc, d : SliceStep(acc, d, daily[d]),
             [offset |-> offset, quantity |-> quantity, stopped |-> FALSE, selected |-> <<>>],
             SetToSortSeq(DOMAIN daily, <))

SliceMissing(slice) == slice.offset # 0 \/ slice.quantity # 0
-----------------------------------------------------------------------------
(* Time of use.                                                            *)

ClassifyLocalPeriod(s, instant) ==
    LET Matches(w) == /\ w.days = "EVERY_DAY" \/ DayOf(instant) \in Workdays
                      /\ instant % DayLength \in w.start .. w.end - 1
        first == SelectInSeq(s.windows, Matches)
    IN  IF first = 0 THEN "OFF_PEAK" ELSE s.windows[first].period

InWindow(window, day) == day \in window[1] .. window[2] - 1

IntervalError(s, i, window) ==
    IF ClassifyLocalPeriod(s, i.start) # ClassifyLocalPeriod(s, EndOf(i) - 1)
    THEN "INTERVAL_CROSSES_TARIFF_BOUNDARY"
    ELSE IF ~InWindow(window, DayOf(i.start)) \/ ~InWindow(window, DayOf(EndOf(i) - 1))
    THEN "INTERVAL_OUTSIDE_SERVICE_WINDOW" ELSE None

PeriodIntervals(s, intervals, period) ==
    SelectSeq(intervals, LAMBDA i : ClassifyLocalPeriod(s, i.start) = period)

EnergyOf(intervals) == SumOf(LAMBDA n : intervals[n].energy, DOMAIN intervals)
-----------------------------------------------------------------------------
(* The charge lines of a rule.  A request holds the facts, the intervals   *)
(* (None when only the total is known), the energy, the entered bill total *)
(* (or None) and the amounts of the user's unsupported lines.              *)

BillingDays(facts) == facts.window[2] - facts.window[1]

BaselineRules(t, facts) ==
    {r \in RulesOf(t, "Baseline") : RuleApplies(r.applicability, facts, BillCycleMonth(facts))}

BaselineAmbiguous(t, facts) ==
    RulesOf(t, "Baseline") # {} /\ Cardinality(BaselineRules(t, facts)) # 1

BaselineAllowance(t, facts) ==
    SumOf(LAMBDA r : r.daily * BillingDays(facts), BaselineRules(t, facts))

Line(r, part, component, unit, quantity, rate, per, basis) ==
    [rule |-> r.id, key |-> <<r.key, part>>, component |-> component, unit |-> unit,
     quantity |-> quantity, raw |-> <<quantity * rate, per>>,
     cents |-> RoundHalfUpCents(quantity * rate, per), basis |-> basis]

EnergyLine(r, part, component, quantity, rate, basis) ==
    Line(r, part, component, "Wh", quantity, rate, WhPerKWh, basis)

TierName(n) == <<"tier_1", "tier_2", "tier_3">>[n]

\* mutant: a bounded tier starts from zero again
TierQuantityFromZero(acc, tier, baseline) ==
    IF tier.bounded THEN Smaller(acc.remaining, (baseline * tier.num) \div tier.den)
    ELSE acc.remaining

TierQuantity(acc, tier, baseline) ==
    IF tier.bounded
    THEN Smaller(acc.remaining, (baseline * tier.num) \div tier.den - acc.lower)
    ELSE acc.remaining

TierTaken(req, r, baseline, acc, n, quantity, slice) ==
    LET tier == r.tiers[n]
        basis == IF req.intervals = None THEN None ELSE slice.selected
    IN  IF tier.bounded /\ (baseline * tier.num) % tier.den # 0
        THEN [acc EXCEPT !.stopped = TRUE, !.error = "NONINTEGRAL_TIER_BOUND"]
        ELSE IF quantity < 0
        THEN [acc EXCEPT !.stopped = TRUE, !.error = "INVALID_TIER_BOUND"]
        ELSE IF quantity # 0 /\ req.intervals # None /\ SliceMissing(slice)
        THEN [acc EXCEPT !.stopped = TRUE, !.error = "DIAGNOSTIC_ALLOCATION_BASIS_MISSING"]
        ELSE [acc EXCEPT
                !.remaining = @ - quantity,
                !.lower = IF tier.bounded THEN (baseline * tier.num) \div tier.den ELSE @,
                !.stopped = acc.remaining = quantity,
                !.lines = IF quantity = 0 THEN @ ELSE
                          Append(@, EnergyLine(r, TierName(n), r.component, quantity,
                                               tier.rate, basis))]

TierStep(req, r, baseline, acc, n) ==
    LET quantity == TierQuantity(acc, r.tiers[n], baseline)
    IN  IF acc.stopped THEN acc
        ELSE TierTaken(req, r, baseline, acc, n, quantity,
                       EnergySlice(DailyEnergy(req.intervals), req.energy - acc.remaining,
                                   quantity))

\* The line items of the tiers, or energy that none of them took.
TierOutcome(end) ==
    [error |-> IF end.error = None /\ end.remaining # 0 THEN "UNCOVERED_TIER" ELSE end.error,
     lines |-> end.lines]

TieredCharge(req, r, baseline) ==
    TierOutcome(FoldLeft(LAMBDA acc, n : TierStep(req, r, baseline, acc, n),
                         [remaining |-> req.energy, lower |-> 0, stopped |-> FALSE,
                          error |-> None, lines |-> <<>>],
                         [n \in 1 .. Len(r.tiers) |-> n]))

PeriodLine(r, rate, intervals) ==
    EnergyLine(r, rate.period, r.component, EnergyOf(intervals), rate.rate,
               DailyEnergy(intervals))

PeriodLines(req, r, s) ==
    LET Of(rate) == PeriodIntervals(s, req.intervals, rate.period)
        charged == SelectSeq(r.rates, LAMBDA x : EnergyOf(Of(x)) # 0)
    IN  [n \in DOMAIN charged |-> PeriodLine(r, charged[n], Of(charged[n]))]

BaselineCredit(r, quantity, slice) ==
    IF r.credit = None THEN [error |-> None, lines |-> <<>>]
    ELSE [error |-> IF SliceMissing(slice) THEN "DIAGNOSTIC_ALLOCATION_BASIS_MISSING" ELSE None,
          lines |-> <<EnergyLine(r, "baseline_credit", "baseline_adjustment", quantity,
                                 r.credit, slice.selected)>>]

TimeOfUseOutcome(errors, lines, credit) ==
    IF errors # <<>> THEN [error |-> errors[1], lines |-> <<>>]
    ELSE [error |-> credit.error, lines |-> lines \o credit.lines]

TimeOfUseCharge(t, req, r, baseline) ==
    LET s == CHOOSE x \in RulesOf(t, "TimeOfUseSchedule") : x.id = r.schedule
        quantity == Smaller(req.energy, baseline)
    IN  IF req.intervals = None THEN [error |-> "INTERVAL_DATA_REQUIRED", lines |-> <<>>]
        ELSE TimeOfUseOutcome(
               SelectSeq([n \in DOMAIN req.intervals |->
                            IntervalError(s, req.intervals[n], req.facts.window)],
                         LAMBDA e : e # None),
               PeriodLines(req, r, s),
               BaselineCredit(r, quantity, EnergySlice(DailyEnergy(req.intervals), 0, quantity)))

FixedDailyCharge(req, r) ==
    Line(r, "daily", r.component, "days", BillingDays(req.facts), r.rate, 1, None)

FixedMonthlyCharge(r) == Line(r, "monthly", r.component, "bill_cycle", 1, r.rate, 1, None)

Charge(t, req, r, baseline) ==
    CASE r.kind = "TieredEnergy" -> TieredCharge(req, r, baseline)
      [] r.kind = "TimeOfUseEnergy" -> TimeOfUseCharge(t, req, r, baseline)
      [] r.kind = "FixedDaily" -> [error |-> None, lines |-> <<FixedDailyCharge(req, r)>>]
      [] r.kind = "FixedMonthly" -> [error |-> None, lines |-> <<FixedMonthlyCharge(r)>>]
      [] OTHER -> [error |-> None, lines |-> <<>>]
-----------------------------------------------------------------------------
(* Reconciliation, diagnostic allocation and the replay as a whole.        *)

CentsOf(lines) == SumOf(LAMBDA n : lines[n].cents, DOMAIN lines)

Reconcile(req, supported) ==
    LET unsupported == SumOf(LAMBDA n : req.unsupported[n], DOMAIN req.unsupported)
        residual == req.total - supported - unsupported
    IN  IF req.total = None THEN None
        ELSE [unsupported |-> unsupported, residual |-> residual, entered |-> req.total,
              classification |-> IF residual = 0 THEN "EXACT"
                                 ELSE IF Magnitude(residual) <= ReviewTolerance
                                 THEN "WITHIN_REVIEW_TOLERANCE" ELSE "REVIEW_REQUIRED"]

\* line_daily_energy is keyed by line_item_key: the last line of a key wins.
BasisOf(lines, key) ==
    lines[SelectLastInSeq(lines, LAMBDA l : l.key = key)].basis

Allocated(req, line, basis) == req.intervals # None /\ line.unit = "Wh" /\ basis # None

\* The rows of daily_energy_charges: line and day, with weight and cents.
LineCharges(n, basis, shares) ==
    {[line |-> n, day |-> d, weight |-> basis[d], cents |-> shares[d]] : d \in DOMAIN shares}

DailyCharges(req, lines) ==
    UNION {LET basis == BasisOf(lines, lines[n].key)
           IN  IF Allocated(req, lines[n], basis)
               THEN LineCharges(n, basis, ApportionInteger(lines[n].cents, basis))
               ELSE {} : n \in DOMAIN lines}

MonthlyCharges(daily) ==
    [m \in {MonthOf(c.day) : c \in daily} |->
       SumOf(LAMBDA c : c.cents, {c \in daily : MonthOf(c.day) = m})]

\* billing_period_adjustments, by kind.
PeriodAdjustments(req, lines, rec) ==
    [supported |-> SumOf(LAMBDA n : lines[n].cents,
                         {n \in DOMAIN lines :
                            ~Allocated(req, lines[n], BasisOf(lines, lines[n].key))}),
     user |-> SumOf(LAMBDA n : req.unsupported[n], DOMAIN req.unsupported),
     residual |-> IF rec = None THEN 0 ELSE rec.residual]

AllocationOf(lines, rec, daily, dailyCents, adjustments) ==
    [daily |-> daily, monthly |-> MonthlyCharges(daily), adjustments |-> adjustments,
     dailyCents |-> dailyCents,
     supported |-> CentsOf(lines),
     user |-> IF rec = None THEN 0 ELSE rec.unsupported,
     displayed |-> IF rec = None THEN dailyCents + adjustments.supported ELSE rec.entered]

DiagnosticCostAllocation(req, lines, rec) ==
    LET daily == DailyCharges(req, lines)
    IN  AllocationOf(lines, rec, daily, SumOf(LAMBDA c : c.cents, daily),
                     PeriodAdjustments(req, lines, rec))

\* validate_exact_reconciliation; a failure raises out of the replay.
ValidatesReconciliation(a) ==
    LET monthly == SumFunction(a.monthly)
    IN  /\ a.dailyCents = monthly
        /\ a.adjustments.user = a.user
        /\ a.dailyCents + a.adjustments.supported = a.supported
        /\ a.dailyCents + a.adjustments.supported + a.user + a.adjustments.residual
             = a.displayed

\* The checks before the first operator, in the order of the code.
RequestError(t, req) ==
    IF req.total = None /\ req.unsupported # <<>> THEN "UNSUPPORTED_LINES_REQUIRE_BILL_TOTAL"
    ELSE IF EvaluateEligibility(t, FactsOf(req)) # "ELIGIBLE" THEN "TARIFF_NOT_ELIGIBLE"
    ELSE IF BillingDays(req.facts) \notin 1 .. t.maximumDays THEN "INVALID_BILLING_PERIOD"
    ELSE IF req.energy > t.maximumEnergy THEN "ENERGY_BOUND_EXCEEDED"
    ELSE IF BaselineAmbiguous(t, req.facts) THEN "BASELINE_RULE_AMBIGUITY"
    ELSE IF /\ req.intervals # None
            /\ \E n \in DOMAIN req.intervals : \E d \in DaysOf(req.intervals[n]) :
                  ~InWindow(req.facts.window, d)
    THEN "INTERVAL_OUTSIDE_SERVICE_WINDOW" ELSE None

Failed(code) == [error |-> code]

\* What follows the last operator: totals, allocation and validation.
Validated(lines, placeholders, rec, allocation) ==
    IF ~ValidatesReconciliation(allocation) THEN Failed("RECONCILIATION_INVALID")
    ELSE [error |-> None, lines |-> lines, supported |-> CentsOf(lines),
          placeholders |-> placeholders, reconciliation |-> rec, allocation |-> allocation]

BillOfLines(req, lines, placeholders) ==
    LET rec == Reconcile(req, CentsOf(lines))
    IN  IF \E n \in DOMAIN lines :
              LET basis == BasisOf(lines, lines[n].key)
              IN  Allocated(req, lines[n], basis) /\ BasisMissing(lines[n].cents, basis)
        THEN Failed("DIAGNOSTIC_ALLOCATION_BASIS_MISSING")
        ELSE Validated(lines, placeholders, rec, DiagnosticCostAllocation(req, lines, rec))

\* The first operator that fails ends the replay.
BillOfCharges(req, charges, placeholders) ==
    LET errors == SelectSeq([n \in DOMAIN charges |-> charges[n].error], LAMBDA e : e # None)
    IN  IF errors # <<>> THEN Failed(errors[1])
        ELSE BillOfLines(req, FlattenSeq([n \in DOMAIN charges |-> charges[n].lines]),
                         placeholders)

ReplayCompiledTariff(t, req) ==
    LET applicable == SelectSeq(t.rules, LAMBDA r :
                        RuleApplies(r.applicability, req.facts, BillCycleMonth(req.facts)))
    IN  IF RequestError(t, req) # None THEN Failed(RequestError(t, req))
        ELSE BillOfCharges(req,
               [n \in DOMAIN applicable |->
                  Charge(t, req, applicable[n], BaselineAllowance(t, req.facts))],
               {r.id : r \in {x \in Range(applicable) : x.kind = "Unsupported"}})
=============================================================================
