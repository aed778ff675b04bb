------------------------------ MODULE Billing -------------------------------
(***************************************************************************)
(* A private replay of one profile under the account's current tariff      *)
(* (billing.py, replay_compiled_tariff) and the comparison of the admitted *)
(* tariffs on the same profile (comparison.py).  Both are computed from    *)
(* the same compiled tariffs; the request is whatever the user supplied.   *)
(***************************************************************************)
EXTENDS Tariff

CONSTANTS Tariffs,    \* tariff texts, compiled or refused
          Accounts,   \* the account facts a request may carry
          Profiles,   \* intervals (None without interval data) and total energy
          Bills,      \* entered total and unsupported amounts
          Required    \* comparison_component_keys of the candidate matrix

VARIABLES request, current, result, comparison
vars == <<request, current, result, comparison>>

Admitted == {t \in Tariffs : CompileTariff(t)}

Requests ==
    {[facts |-> a, intervals |-> p.intervals, energy |-> p.energy,
      total |-> b.total, unsupported |-> b.unsupported] :
        a \in Accounts, p \in Profiles, b \in Bills}
-----------------------------------------------------------------------------
(* Comparison.                                                             *)

AlternativeRequest == [request EXCEPT !.total = None, !.unsupported = <<>>]

\* The coverage entries that block a ranking.
Blocked(t, lines, placeholders) ==
    LET active == {lines[n].component : n \in DOMAIN lines}
    IN  {<<"UNCLASSIFIED_ACTIVE_COMPONENT", c>> :
            c \in {x \in active : x \notin Required \cap t.declared}}
          \cup {<<"UNSUPPORTED_COMPONENT", p>> : p \in placeholders}

CandidateResult(t, eligibility, bill) ==
    IF eligibility # "ELIGIBLE"
    THEN [id |-> t.id, error |-> None, cents |-> None, exclusions |-> {<<eligibility, t.id>>}]
    ELSE IF bill.error # None
    THEN [id |-> t.id, error |-> bill.error, cents |-> None, exclusions |-> {}]
    ELSE [id |-> t.id, error |-> None, cents |-> bill.supported,
          exclusions |-> Blocked(t, bill.lines, bill.placeholders)]

Candidate(t) ==
    CandidateResult(t, EvaluateEligibility(t, request.facts),
                    ReplayCompiledTariff(t, AlternativeRequest))

\* Cheapest first, ties by plan code and identifier (the order of t.id).
Ranked(candidates) ==
    SetToSortSeq(candidates, LAMBDA c, d : \/ c.cents < d.cents
                                           \/ c.cents = d.cents /\ c.id < d.id)

ComparisonOf(candidates) ==
    LET ranked == Ranked(candidates)
        own == CHOOSE c \in candidates : c.id = current.id
    IN  IF \E c \in candidates : c.error # None THEN Failed("CANDIDATE_REPLAY_FAILED")
        ELSE IF \E c \in candidates : c.exclusions # {}
        THEN [error |-> None, ranked |-> <<>>, winners |-> {}, savings |-> None]
        ELSE [error |-> None, ranked |-> [n \in DOMAIN ranked |-> ranked[n].id],
              winners |-> {c.id : c \in {d \in candidates : d.cents = ranked[1].cents}},
              savings |-> own.cents - ranked[1].cents]

CompareAdmittedTariffs == ComparisonOf({Candidate(t) : t \in Admitted})
-----------------------------------------------------------------------------
Init ==
    /\ request \in Requests
    /\ current \in Admitted
    /\ result = None
    /\ comparison = None

Replay ==
    /\ result = None
    /\ result' = ReplayCompiledTariff(current, request)
    /\ UNCHANGED <<request, current, comparison>>

Compare ==
    /\ comparison = None /\ Cardinality(Admitted) >= 2 /\ request.intervals # None
    /\ comparison' = CompareAdmittedTariffs
    /\ UNCHANGED <<request, current, result>>

Next == Replay \/ Compare

Spec == Init /\ [][Next]_vars
-----------------------------------------------------------------------------
Billed == result # None /\ result.error = None

\* Requests are the accepted ones, lines have whole quantities, and charges
\* are allocated to days of the billing period only.
TypeOK ==
    /\ request \in Requests /\ current \in Admitted
    /\ Billed => /\ result.supported \in Int
                 /\ \A n \in DOMAIN result.lines : result.lines[n].quantity \in Nat
                 /\ \A c \in result.allocation.daily :
                       c.cents \in Int /\ c.day \in request.facts.window[1]
                                                  .. request.facts.window[2] - 1

\* A compiled tariff never leaves energy outside its tiers, and every charge
\* line of it can be allocated: the failures that replay_compiled_tariff and
\* DiagnosticCostAllocation keep for an inconsistent calculation
\* (UNCOVERED_TIER, DIAGNOSTIC_ALLOCATION_BASIS_MISSING, the reconciliation
\* validator) are never raised, whatever the profile and the entered bill.
NoInternalFailure ==
    result # None =>
        result.error \notin {"UNCOVERED_TIER", "DIAGNOSTIC_ALLOCATION_BASIS_MISSING",
                             "RECONCILIATION_INVALID"}

\* _apportion_integer: the days' shares of a line add up to its rounded
\* cents, each is less than a cent from the exact proportional share, and a
\* day with more energy never carries fewer cents of a charge.
SharesAreProportional ==
    Billed =>
        \A n \in DOMAIN result.lines :
            LET rows == {c \in result.allocation.daily : c.line = n}
                whole == SumOf(LAMBDA c : c.weight, rows)
                cents == result.lines[n].cents
            IN  /\ rows # {} => SumOf(LAMBDA c : c.cents, rows) = cents
                /\ \A c \in rows : Magnitude(c.cents * whole - cents * c.weight) < whole
                /\ \A c, d \in rows :
                      c.weight > d.weight => Magnitude(c.cents) >= Magnitude(d.cents)

\* The watt-hours of the billing period in the order they were metered: the
\* day of the w-th, and the tier it falls in by its position alone.
DayOfWh(w) ==
    LET daily == DailyEnergy(request.intervals)
    IN  Min({d \in DOMAIN daily :
               w <= SumFunctionOnSet(daily, {c \in DOMAIN daily : c <= d})})

TierOfWh(r, w) ==
    LET allowance == BaselineAllowance(current, request.facts)
    IN  Min({n \in DOMAIN r.tiers :
               ~r.tiers[n].bounded \/ w * r.tiers[n].den <= allowance * r.tiers[n].num})

\* replay_compiled_tariff with _energy_slice: a tier is charged for exactly
\* the watt-hours whose position in the billing period lies in it, and its
\* cost is allocated to the days on which those watt-hours were metered.
TiersFollowTheMeter ==
    (Billed /\ request.intervals # None) =>
        \A r \in RulesOf(current, "TieredEnergy") :
          \A n \in DOMAIN r.tiers :
            LET mine == {w \in 1 .. request.energy : TierOfWh(r, w) = n}
                lines == {l \in Range(result.lines) : l.rule = r.id /\ l.key[2] = TierName(n)}
            IN  IF mine = {} THEN lines = {}
                ELSE \E l \in lines :
                       /\ lines = {l} /\ l.quantity = Cardinality(mine)
                       /\ l.basis = [d \in {DayOfWh(w) : w \in mine} |->
                                       Cardinality({w \in mine : DayOfWh(w) = d})]

\* classify_interval_period looks only at the first and the last instant of
\* an interval: all the energy a time-of-use line charges lies in intervals
\* every instant of which is in the line's period, and none escapes.
PeriodsAreUniform ==
    (Billed /\ request.intervals # None) =>
        \A r \in RulesOf(current, "TimeOfUseEnergy") :
            LET s == CHOOSE x \in RulesOf(current, "TimeOfUseSchedule") : x.id = r.schedule
                Within(i, p) == \A u \in i.start .. EndOf(i) - 1 : ClassifyLocalPeriod(s, u) = p
                Charged(p) == SumOf(LAMBDA l : l.quantity,
                                {l \in Range(result.lines) : l.rule = r.id /\ l.key[2] = p})
                periods == {x.period : x \in Range(r.rates)}
            IN  /\ SumOf(Charged, periods) = request.energy
                /\ \A p \in periods :
                     Charged(p) = EnergyOf(SelectSeq(request.intervals,
                                                     LAMBDA i : Within(i, p)))

\* round_half_up_cents: the total is within half a cent per line of the exact
\* rational amount, and the allocation shows that very total.
TotalWithinRounding ==
    Billed =>
        LET Exact(n) == result.lines[n].raw[1] * (WhPerKWh \div result.lines[n].raw[2])
            cent == MicrodollarsPerCent * WhPerKWh
            exact == SumOf(Exact, DOMAIN result.lines)
        IN  2 * Magnitude(result.supported * cent - exact) <= Len(result.lines) * cent

\* The facts a user may still supply for one that is missing.
Learned(facts) ==
    {[facts EXCEPT !.technologies = x, !.evRegistered = y, !.wholeHouse = z, !.annual = v] :
        x \in IF facts.technologies = None THEN {{}, {"EV"}} ELSE {facts.technologies},
        y \in IF facts.evRegistered = None THEN {"YES", "NO"} ELSE {facts.evRegistered},
        z \in IF facts.wholeHouse = None THEN {"YES", "NO"} ELSE {facts.wholeHouse},
        v \in IF facts.annual = None
              THEN [period : {facts.window[1]}, usage : {1, 9}, baseline : {1}]
              ELSE {facts.annual}}

\* evaluate_eligibility: only UNKNOWN is open.  A fact learned later never
\* takes back an ELIGIBLE or an INELIGIBLE verdict.
VerdictStands ==
    LET verdict == EvaluateEligibility(current, request.facts)
    IN  verdict # "UNKNOWN" =>
           \A facts \in Learned(request.facts) : EvaluateEligibility(current, facts) = verdict

\* compare_admitted_tariffs ranks only what is comparable: when a winner is
\* named, every admitted tariff is one the account is eligible for and has no
\* charge left out of its cost, and no tariff is cheaper than the winner.
RankedIsComparable ==
    LET NoneCheaper(bills) ==
          \A t \in Admitted :
             /\ bills[t].error = None
             /\ \A r \in RulesOf(t, "Unsupported") :
                  ~RuleApplies(r.applicability, request.facts, BillCycleMonth(request.facts))
             /\ \A w \in Admitted :
                  w.id \in comparison.winners => bills[w].supported <= bills[t].supported
    IN  (comparison # None /\ comparison.error = None /\ comparison.ranked # <<>>) =>
          /\ comparison.savings >= 0
          /\ current.id \in comparison.winners <=> comparison.savings = 0
          /\ NoneCheaper([t \in Admitted |-> ReplayCompiledTariff(t, AlternativeRequest)])

\* A bill charges every watt-hour once, in the tier or the period it was metered
\* in, and its lines, shares and total are the exact amounts up to rounding.
BillIsExact ==
    /\ TypeOK /\ NoInternalFailure /\ SharesAreProportional /\ TiersFollowTheMeter
    /\ PeriodsAreUniform /\ TotalWithinRounding

\* Verdicts and rankings are never taken back by a fact or a charge left out.
ComparisonIsSound == VerdictStands /\ RankedIsComparable
=============================================================================
