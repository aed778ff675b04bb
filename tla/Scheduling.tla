----------------------------- MODULE Scheduling -----------------------------
(***************************************************************************)
(* Flexible-load scenarios as operators, in the four places that state     *)
(* their constraints: the preview of the browser (ScenarioWorkspace.tsx),  *)
(* the admission by the API (scenario.py), the lowering to a CP-SAT model  *)
(* (lowering.py) and the independent verifier (verification.py).           *)
(*                                                                         *)
(* A scenario is a record of the tariff, the account facts, the slots of   *)
(* the profile, the loads and the two caps; a load has a mode, an asset, a *)
(* specification and occurrences; an occurrence has the energy it needs,   *)
(* its half-open window and its reference, one energy per slot.  A         *)
(* schedule gives every occurrence, <<load, number>>, such a vector.       *)
(***************************************************************************)
EXTENDS Tariff

CONSTANTS Hour,     \* time units of an hour: watts times Hour are watt-hours
          MaxInt    \* SIGNED_INT64_MAX

ASSUME SchedulingConstants == Hour \in Nat \ {0} /\ MaxInt \in Nat

Total(vector) == SumOf(LAMBDA i : vector[i], DOMAIN vector)
Slots(s) == DOMAIN s.slots
Occurrences(s) ==
    UNION {{<<l, n>> : n \in DOMAIN s.loads[l].occurrences} : l \in DOMAIN s.loads}
Load(s, x) == s.loads[x[1]]
Occurrence(s, x) == Load(s, x).occurrences[x[2]]
Reference(s) == [x \in Occurrences(s) |-> Occurrence(s, x).reference]
Boundaries(slots) == {slots[i].start : i \in DOMAIN slots} \cup {EndOf(slots[Len(slots)])}
WindowSlots(s, o) == {i \in Slots(s) : o.earliest <= s.slots[i].start /\ s.slots[i].start < o.deadline}
AtMost(energy, power, slot) == power = None \/ energy * Hour <= power * slot.duration
AtLeast(energy, power, slot) == energy * Hour >= power * slot.duration
Interruptible(spec) == spec.type = "INTERRUPTIBLE_MODULATING"
Placed(s, shape, first) ==
    [i \in Slots(s) |-> IF i \in first .. first + Len(shape) - 1 THEN shape[i - first + 1] ELSE 0]

Flexible(s, schedule) ==
    [i \in Slots(s) |-> SumOf(LAMBDA x : schedule[x][i], DOMAIN schedule)]
Background(s) ==
    LET shifted == {x \in Occurrences(s) : Load(s, x).mode = "SHIFT_EXISTING"}
    IN  [i \in Slots(s) |->
           s.slots[i].energy - SumOf(LAMBDA x : Occurrence(s, x).reference[i], shifted)]
ProfileWith(s, schedule) ==
    [i \in Slots(s) |-> Background(s)[i] + Flexible(s, schedule)[i]]
-----------------------------------------------------------------------------
(* Admission: validate_and_decompose_scenario, and the checks of the route *)
(* before it.                                                              *)

UniformProfile(slots) ==
    \A i \in DOMAIN slots :
        /\ slots[i].duration = slots[1].duration
        /\ i > 1 => slots[i].start = EndOf(slots[i - 1])

DisjointOccurrences(load) ==
    \A m, n \in DOMAIN load.occurrences :
        LET o == load.occurrences[m]  p == load.occurrences[n]
        IN  m # n => o.deadline <= p.earliest \/ p.deadline <= o.earliest

AlignedWindow(s, o) ==
    {o.earliest, o.deadline} \subseteq Boundaries(s.slots) /\ o.earliest < o.deadline

ReferenceMatches(s, o) == Len(o.reference) = Len(s.slots) /\ Total(o.reference) = o.required

ReferenceExecutes(s, spec, o) ==
    IF Interruptible(spec)
    THEN \A i \in Slots(s) :
            /\ o.reference[i] > 0 => i \in WindowSlots(s, o)
            /\ AtMost(o.reference[i], spec.maximum, s.slots[i])
            /\ o.reference[i] > 0 => AtLeast(o.reference[i], spec.minimum, s.slots[i])
    ELSE /\ Total(spec.shape) = o.required
         /\ \E first \in WindowSlots(s, o) :
               /\ first + Len(spec.shape) - 1 \in WindowSlots(s, o)
               /\ o.reference = Placed(s, spec.shape, first)

ReferenceWithinCaps(s) ==
    \A i \in Slots(s) : /\ AtMost(ProfileWith(s, Reference(s))[i], s.siteCap, s.slots[i])
                        /\ AtMost(Flexible(s, Reference(s))[i], s.flexibleCap, s.slots[i])

ValidScenario(s) ==
    /\ UniformProfile(s.slots)
    /\ \A l, k \in DOMAIN s.loads : l # k => s.loads[l].asset # s.loads[k].asset
    /\ \A l \in DOMAIN s.loads : DisjointOccurrences(s.loads[l])
    /\ \A x \in Occurrences(s) :
          /\ AlignedWindow(s, Occurrence(s, x))
          /\ ReferenceMatches(s, Occurrence(s, x))
          /\ ReferenceExecutes(s, Load(s, x).spec, Occurrence(s, x))
    /\ \A i \in Slots(s) : Background(s)[i] >= 0
    /\ ReferenceWithinCaps(s)

Attested(s) == s.attested = {l \in DOMAIN s.loads : s.loads[l].mode = "SHIFT_EXISTING"}

\* The local days a profile covers from midnight to midnight.
ProfileWindow(slots) ==
    LET start == slots[1].start  end == EndOf(slots[Len(slots)])
    IN  IF start % DayLength = 0 /\ end % DayLength = 0 THEN <<DayOf(start), DayOf(end)>>
        ELSE None
-----------------------------------------------------------------------------
(* The preview: one load with one occurrence, its reference laid out from  *)
(* the chosen start.  A form holds the instants and numbers as entered.    *)

FillReference(form, slots, last, acc, i) ==
    LET energy == Smaller(acc.remaining, (form.spec.maximum * slots[i].duration) \div Hour)
    IN  IF i \notin form.from .. last \/ acc.remaining = 0 \/ acc.failed THEN acc
        ELSE IF energy > 0 /\ ~AtLeast(energy, form.spec.minimum, slots[i])
        THEN [acc EXCEPT !.failed = TRUE]
        ELSE [acc EXCEPT !.remaining = @ - energy, !.energy[i] = energy]

LaidOut(form, slots, last) ==
    IF Interruptible(form.spec)
    THEN LET end == FoldLeft(LAMBDA acc, i : FillReference(form, slots, last, acc, i),
                             [remaining |-> form.required, failed |-> FALSE,
                              energy |-> [i \in DOMAIN slots |-> 0]],
                             [i \in DOMAIN slots |-> i])
         IN  IF end.failed \/ end.remaining # 0 THEN None ELSE end.energy
    ELSE IF form.from + Len(form.spec.shape) - 1 > last THEN None
    ELSE Placed([slots |-> slots], form.spec.shape, form.from)

\* The scenario the form stands for, given a reference.
Requested(form, slots, reference) ==
    [tariff |-> form.tariff, facts |-> form.facts, slots |-> slots,
     siteCap |-> form.siteCap, flexibleCap |-> form.flexibleCap,
     attested |-> IF form.mode = "SHIFT_EXISTING" THEN {1} ELSE {},
     loads |-> <<[mode |-> form.mode, asset |-> 1, spec |-> form.spec,
                  occurrences |-> <<[required |-> IF Interruptible(form.spec) THEN form.required
                                                  ELSE Total(form.spec.shape),
                                     earliest |-> form.earliest, deadline |-> form.deadline,
                                     reference |-> reference]>>]>>]

\* buildPreview: the request to submit, or None with an issue shown.
BuildPreview(form, slots) ==
    LET starts == {slots[i].start : i \in DOMAIN slots}
        last == Max({0} \cup {i \in DOMAIN slots : slots[i].start < form.deadline})
        reference == LaidOut(form, slots, last)
        request == Requested(form, slots, reference)
    IN  IF \/ Interruptible(form.spec) /\ form.spec.minimum > form.spec.maximum
           \/ form.earliest \notin starts \/ form.deadline \notin Boundaries(slots)
           \/ form.from \notin DOMAIN slots
        THEN None
        ELSE IF \/ form.earliest >= form.deadline
                \/ slots[form.from].start < form.earliest
                \/ slots[form.from].start >= form.deadline
                \/ reference = None
        THEN None
        ELSE IF \/ \E i \in DOMAIN slots : Background(request)[i] < 0
                \/ ~ReferenceWithinCaps(request)
                \/ form.mode = "SHIFT_EXISTING" /\ ~form.attested
        THEN None ELSE request
-----------------------------------------------------------------------------
(* The verifier.                                                           *)

VerifierProfileValid(slots) ==
    UniformProfile(slots) /\ \A i \in DOMAIN slots : slots[i].duration <= Hour

VerifyExecution(s, x, energy) ==
    LET o == Occurrence(s, x)  spec == Load(s, x).spec  window == WindowSlots(s, o)
    IN  /\ Total(energy) = o.required
        /\ IF Interruptible(spec)
           THEN \A i \in Slots(s) :
                   /\ energy[i] > 0 => i \in window
                   /\ AtMost(energy[i], spec.maximum, s.slots[i])
                   /\ energy[i] > 0 => AtLeast(energy[i], spec.minimum, s.slots[i])
           ELSE /\ Total(spec.shape) = o.required
                /\ \E first \in window :
                      /\ first + Len(spec.shape) - 1 \in window
                      /\ energy = Placed(s, spec.shape, first)

VerifierAccepts(s, schedule) ==
    /\ VerifierProfileValid(s.slots)
    /\ \A l \in DOMAIN s.loads : DisjointOccurrences(s.loads[l])
    /\ \A i \in Slots(s) : Background(s)[i] >= 0
    /\ \A x \in Occurrences(s) :
          AlignedWindow(s, Occurrence(s, x)) /\ VerifyExecution(s, x, schedule[x])
    /\ \A i \in Slots(s) :
          /\ AtMost(ProfileWith(s, schedule)[i], s.siteCap, s.slots[i])
          /\ AtMost(Flexible(s, schedule)[i], s.flexibleCap, s.slots[i])

RecomputeBill(s, schedule) ==
    LET profile == ProfileWith(s, schedule)
    IN  ReplayCompiledTariff(s.tariff,
          [facts |-> s.facts, energy |-> Total(profile), total |-> None, unsupported |-> <<>>,
           intervals |-> [i \in Slots(s) |-> [s.slots[i] EXCEPT !.energy = profile[i]]]])

\* Deadline first; load and occurrence identifiers break ties.
CanonicalOccurrences(s) ==
    SetToSortSeq(Occurrences(s), LAMBDA x, y :
        LET o == Occurrence(s, x)  p == Occurrence(s, y)
        IN  \/ o.deadline < p.deadline
            \/ o.deadline = p.deadline /\ o.earliest < p.earliest
            \/ /\ o.deadline = p.deadline /\ o.earliest = p.earliest
               /\ x[1] < y[1] \/ (x[1] = y[1] /\ x[2] < y[2]))

Position(s, x, i) == (CHOOSE n \in DOMAIN CanonicalOccurrences(s) :
                        CanonicalOccurrences(s)[n] = x) * Len(s.slots) - Len(s.slots) + i
Entries(s) == Occurrences(s) \X Slots(s)

\* Cost, changed entries, sum of completion slots, stable order score.
Objective(s, schedule, cents) ==
    <<cents,
      Cardinality({e \in Entries(s) : schedule[e[1]][e[2]] # Reference(s)[e[1]][e[2]]}),
      SumOf(LAMBDA x : Max({i \in Slots(s) : schedule[x][i] > 0}), Occurrences(s)),
      SumOf(LAMBDA e : schedule[e[1]][e[2]] * Position(s, e[1], e[2]), Entries(s))>>

\* The objective of a schedule the verifier accepts, None of one it refuses
\* or cannot bill.
ObjectiveIfBilled(s, schedule, bill) ==
    IF bill.error # None THEN None ELSE Objective(s, schedule, bill.supported)

VerifyCandidateSchedule(s, schedule) ==
    IF ~VerifierAccepts(s, schedule) THEN None
    ELSE ObjectiveIfBilled(s, schedule, RecomputeBill(s, schedule))
-----------------------------------------------------------------------------
(* The lowering.                                                           *)

TimeCharges(s) ==
    {r \in RulesOf(s.tariff, "TimeOfUseEnergy") :
        RuleApplies(r.applicability, s.facts, BillCycleMonth(s.facts))}
ScheduleOf(s, r) == CHOOSE x \in RulesOf(s.tariff, "TimeOfUseSchedule") : x.id = r.schedule
RateIn(r, period) == (CHOOSE x \in Range(r.rates) : x.period = period).rate
SlotPeriod(s, r, i) == ClassifyLocalPeriod(ScheduleOf(s, r), s.slots[i].start)

Classified(s) ==
    \A r \in TimeCharges(s), i \in Slots(s) :
        IntervalError(ScheduleOf(s, r), s.slots[i], s.facts.window) = None

MarginalRate(s, i) == SumOf(LAMBDA r : RateIn(r, SlotPeriod(s, r, i)), TimeCharges(s))
OffPeakRank(s, i) ==
    Cardinality({MarginalRate(s, j) : j \in {k \in Slots(s) :
                                               MarginalRate(s, k) < MarginalRate(s, i)}})

\* The bound of an energy variable, as the preflight sees it.
PreflightMaximum(s, x, i) ==
    LET spec == Load(s, x).spec
    IN  IF ~Interruptible(spec) THEN Max(Range(spec.shape))
        ELSE IF i \in WindowSlots(s, Occurrence(s, x))
        THEN (spec.maximum * s.slots[i].duration) \div Hour ELSE 0

ProfileMaximum(s, i) ==
    Background(s)[i] + SumOf(LAMBDA x : PreflightMaximum(s, x, i), Occurrences(s))

\* _create_occurrence_variables: the vectors the variables of an occurrence
\* can take together.
EnergyVectors(s, x) ==
    LET o == Occurrence(s, x)  spec == Load(s, x).spec  window == WindowSlots(s, o)
        Values(i) == {0} \cup {e \in 1 .. o.required :
                                 /\ i \in window
                                 /\ e <= (spec.maximum * s.slots[i].duration) \div Hour
                                 /\ AtLeast(e, spec.minimum, s.slots[i])}
    IN  IF Interruptible(spec)
        THEN {v \in [Slots(s) -> 0 .. o.required] :
                Total(v) = o.required /\ \A i \in Slots(s) : v[i] \in Values(i)}
        ELSE {v \in {Placed(s, spec.shape, first) :
                       first \in {i \in window : i + Len(spec.shape) - 1 \in window}} :
                Total(v) = o.required}

\* What a slot of the profile can reach with the variables as created.
VariableProfileMaximum(s, i) ==
    Background(s)[i]
      + SumOf(LAMBDA x : IF Interruptible(Load(s, x).spec) THEN PreflightMaximum(s, x, i)
                         ELSE Max({v[i] : v \in EnergyVectors(s, x)}), Occurrences(s))

QuantityMaximum(s, r, period) ==
    SumOf(LAMBDA i : VariableProfileMaximum(s, i), {j \in Slots(s) : SlotPeriod(s, r, j) = period})

HalfCent == (MicrodollarsPerCent * WhPerKWh) \div 2

InvariantEnergy(s) ==
    Total(Background(s)) + SumOf(LAMBDA x : Occurrence(s, x).required, Occurrences(s))

MonetaryBound(s) ==
    LET Rates(r) == CASE r.kind = "TieredEnergy" ->
                           InvariantEnergy(s) * Max({Magnitude(x.rate) : x \in Range(r.tiers)})
                      [] r.kind = "TimeOfUseEnergy" ->
                           InvariantEnergy(s)
                             * (SumOf(LAMBDA n : Magnitude(r.rates[n].rate), DOMAIN r.rates)
                                  + IF r.credit = None THEN 0 ELSE Magnitude(r.credit))
                      [] r.kind = "FixedDaily" -> BillingDays(s.facts) * Magnitude(r.rate)
                      [] r.kind = "FixedMonthly" -> Magnitude(r.rate)
                      [] OTHER -> 0
    IN  SumOf(LAMBDA n : Rates(s.tariff.rules[n]), DOMAIN s.tariff.rules)

Powers(s, x) ==
    LET spec == Load(s, x).spec
    IN  IF Interruptible(spec) THEN {spec.maximum, spec.minimum} ELSE {}

ScoreMaximum(s) ==
    SumOf(LAMBDA e : PreflightMaximum(s, e[1], e[2]) * Position(s, e[1], e[2]), Entries(s))

\* The numbers _preflight_signed_int64_safety and _rounded_cents_variable
\* compare with the largest integer of the solver.
PreflightBounds(s) ==
    UNION {{p * s.slots[i].duration : i \in Slots(s)} :
             p \in UNION {Powers(s, x) : x \in Occurrences(s)}
                     \cup ({s.siteCap, s.flexibleCap} \ {None})}
      \cup {ProfileMaximum(s, i) * Hour : i \in Slots(s)}
      \cup {InvariantEnergy(s), MonetaryBound(s), ScoreMaximum(s),
            Cardinality(Entries(s)),
            SumOf(LAMBDA e : PreflightMaximum(s, e[1], e[2]), Entries(s)) * (Len(s.slots) - 1)}
      \cup UNION {{QuantityMaximum(s, r, x.period) * Magnitude(x.rate) + HalfCent :
                     x \in Range(r.rates)} : r \in TimeCharges(s)}

SignedInt64Safe(s) == \A b \in PreflightBounds(s) : b <= MaxInt

\* The part of a bill that no variable period line contributes.
ConstantPart(s, bill) ==
    LET variable == {n \in DOMAIN bill.lines :
                       \E r \in TimeCharges(s) : \E x \in Range(r.rates) :
                          bill.lines[n].rule = r.id /\ bill.lines[n].key = <<r.key, x.period>>}
    IN  bill.supported - SumOf(LAMBDA n : bill.lines[n].cents, variable)

ConstantCost(s) == ConstantPart(s, RecomputeBill(s, Reference(s)))

\* mutant: whole cents are cut off instead of rounded
RoundedCentsDown(quantity, rate) ==
    (IF rate < 0 THEN -1 ELSE 1)
      * ((quantity * Magnitude(rate)) \div (MicrodollarsPerCent * WhPerKWh))

RoundedCents(quantity, rate) ==
    (IF rate < 0 THEN -1 ELSE 1)
      * ((quantity * Magnitude(rate) + HalfCent) \div (MicrodollarsPerCent * WhPerKWh))

LoweredCost(s, constant, schedule) ==
    LET profile == ProfileWith(s, schedule)
        Quantity(r, period) ==
            SumOf(LAMBDA i : profile[i], {j \in Slots(s) : SlotPeriod(s, r, j) = period})
    IN  constant
          + SumOf(LAMBDA r : SumOf(LAMBDA x : RoundedCents(Quantity(r, x.period), x.rate),
                                   Range(r.rates)),
                  TimeCharges(s))

LoweredSchedules(s) ==
    {c \in [Occurrences(s) -> UNION {EnergyVectors(s, x) : x \in Occurrences(s)}] :
        /\ \A x \in Occurrences(s) : c[x] \in EnergyVectors(s, x)
        /\ \A i \in Slots(s) : /\ AtMost(ProfileWith(s, c)[i], s.siteCap, s.slots[i])
                               /\ AtMost(Flexible(s, c)[i], s.flexibleCap, s.slots[i])}

\* The solutions of the model with the values of its five objectives.
CompileScenarioModel(s) ==
    LET constant == ConstantCost(s)
    IN  {[schedule |-> c,
          values |-> Objective(s, c, LoweredCost(s, constant, c)),
          proxy |-> SumOf(LAMBDA e : OffPeakRank(s, e[2]) * c[e[1]][e[2]], Entries(s))] :
            c \in LoweredSchedules(s)}
=============================================================================
