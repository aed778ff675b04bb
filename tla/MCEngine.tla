------------------------------ MODULE MCEngine ------------------------------
(***************************************************************************)
(* The calculation engine for TLC, on two days of two hours each: bills    *)
(* and comparisons (Billing), and load schedules (Optimizer).  The tariffs *)
(* have the shape of the admitted ones: tiers over the baseline, two and   *)
(* three periods, a credit up to the baseline, and an unsupported charge   *)
(* of one territory.  `part' is what a behaviour is about; the other part  *)
(* stays as it was initially.                                              *)
(***************************************************************************)
EXTENDS Optimizer

VARIABLES part, request, current, result, comparison

Anyone == [incomeTier |-> {}, territory |-> {}, month |-> {}]
Only(territory) == [Anyone EXCEPT !.territory = {territory}]

Open == [windows |-> {<<1, 3>>}, incomeTiers |-> {"TIER_3"}, anyTechnology |-> {},
         datedTechnology |-> FALSE, evRegistration |-> FALSE, wholeHouse |-> FALSE,
         ratio |-> None]
ForVehicles == [Open EXCEPT !.anyTechnology = {"EV"}, !.datedTechnology = TRUE,
                            !.evRegistration = TRUE, !.wholeHouse = TRUE,
                            !.ratio = <<8, 1>>]

Baseline(territory, daily) ==
    [kind |-> "Baseline", id |-> "baseline_" \o territory, key |-> "baseline",
     component |-> "baseline_allowance", applicability |-> Only(territory), daily |-> daily]
Tier(num, den, rate) == [bounded |-> TRUE, num |-> num, den |-> den, rate |-> rate]
TopTier(rate) == [bounded |-> FALSE, num |-> 1, den |-> 1, rate |-> rate]
Tiered(tiers) ==
    [kind |-> "TieredEnergy", id |-> "tiers", key |-> "energy",
     component |-> "bundled_energy", applicability |-> Anyone, tiers |-> tiers]
Window(days, start, end, period) ==
    [days |-> days, start |-> start, end |-> end, period |-> period]
Schedule(windows) ==
    [kind |-> "TimeOfUseSchedule", id |-> "schedule", key |-> "schedule",
     component |-> "bundled_energy", applicability |-> Anyone, windows |-> windows]
TimeOfUse(rates, credit) ==
    [kind |-> "TimeOfUseEnergy", id |-> "energy", key |-> "energy",
     component |-> "bundled_energy", applicability |-> Anyone, schedule |-> "schedule",
     rates |-> rates, credit |-> credit, baselineRule |-> "baseline_X"]
Rate(period, rate) == [period |-> period, rate |-> rate]
Daily(rate) ==
    [kind |-> "FixedDaily", id |-> "daily", key |-> "base_services",
     component |-> "base_services_charge", applicability |-> Anyone, rate |-> rate]
Monthly(rate) ==
    [kind |-> "FixedMonthly", id |-> "credit", key |-> "climate_credit",
     component |-> "california_climate_credit", applicability |-> Anyone, rate |-> rate]
Unsupported(territory) ==
    [kind |-> "Unsupported", id |-> "minimum_bill", key |-> "minimum_bill",
     component |-> "explicit_unsupported", applicability |-> Only(territory)]

Plan(id, rules, declared, predicate) ==
    [id |-> id, rules |-> rules, declared |-> declared, predicate |-> predicate,
     maximumDays |-> 2, maximumEnergy |-> 20]

Basic == {"bundled_energy", "base_services_charge", "california_climate_credit"}

MCTariffs ==
    {Plan(1, <<Baseline("X", 2), Baseline("Y", 1),
               Tiered(<<Tier(1, 1, 5), Tier(3, 2, 7), TopTier(9)>>), Daily(3), Monthly(-10)>>,
          Basic, Open),
     Plan(2, <<Baseline("X", 2), Baseline("Y", 1),
               Schedule(<<Window("EVERY_DAY", 2, 4, "PEAK")>>),
               TimeOfUse(<<Rate("PEAK", 9), Rate("OFF_PEAK", 6)>>, -3), Daily(3), Monthly(-10)>>,
          Basic \cup {"baseline_adjustment"}, Open),
     Plan(3, <<Schedule(<<Window("NONHOLIDAY_WEEKDAY", 2, 4, "PEAK"),
                          Window("EVERY_DAY", 0, 2, "PARTIAL_PEAK")>>),
               TimeOfUse(<<Rate("PEAK", 11), Rate("PARTIAL_PEAK", 7), Rate("OFF_PEAK", 4)>>, None),
               Daily(5), Unsupported("Y")>>,
          {"bundled_energy", "base_services_charge"}, ForVehicles),
     \* refused by the compiler: energy above the last tier, a period without a rate
     Plan(4, <<Baseline("X", 2), Tiered(<<Tier(1, 1, 5)>>)>>, {"bundled_energy"}, Open),
     Plan(5, <<Schedule(<<Window("EVERY_DAY", 2, 4, "PEAK")>>),
               TimeOfUse(<<Rate("PARTIAL_PEAK", 9), Rate("OFF_PEAK", 6)>>, None)>>,
          {"bundled_energy"}, Open)}

Account(territory, mismatches, technologies, ev, house, annual) ==
    [incomeTier |-> "TIER_3", territory |-> territory, window |-> <<1, 3>>,
     mismatches |-> mismatches, technologies |-> technologies, asOf |-> 1,
     evRegistered |-> ev, wholeHouse |-> house, annual |-> annual]
Usage(n) == [period |-> 1, usage |-> n, baseline |-> 1]

MCAccounts ==
    {Account("X", {}, {"EV"}, "YES", "YES", Usage(8)),
     Account("X", {}, {"EV"}, "YES", "YES", Usage(9)),
     Account("Y", {}, {"EV"}, "YES", "YES", Usage(8)),
     Account("Y", {}, None, None, None, None),
     Account("Y", {"CARE_STATUS_MISMATCH"}, {"EV"}, "YES", None, Usage(1)),
     Account("X", {}, {"EV"}, "YES", "YES", None),
     Account("Z", {}, {"EV"}, None, "YES", Usage(8))}

Intervals(starts, energies) ==
    [n \in DOMAIN starts |-> [start |-> starts[n], duration |-> 2, energy |-> energies[n]]]
Profile(starts, energies) ==
    [intervals |-> Intervals(starts, energies), energy |-> EnergyOf(Intervals(starts, energies))]

MCProfiles ==
    {Profile(<<4, 6, 8, 10>>, e) : e \in [1 .. 4 -> {0, 1, 3}]}
      \cup {Profile(<<5, 7, 9>>, e) : e \in [1 .. 3 -> {0, 2, 3}]}
      \cup {Profile(<<7>>, <<e>>) : e \in {1, 3}}
      \cup {Profile(<<2, 4>>, <<1, 1>>)}
      \cup {[intervals |-> None, energy |-> e] : e \in {0, 5, 9}}

MCBills ==
    {[total |-> None, unsupported |-> <<>>], [total |-> 9, unsupported |-> <<>>],
     [total |-> 3, unsupported |-> <<2, -1>>]}

MCRequired == Basic \cup {"baseline_adjustment", "minimum_bill_adjustment"}
-----------------------------------------------------------------------------
(* Scenarios.                                                              *)

ScenarioPlan(id, rules, optimizable) ==
    [id |-> id, rules |-> rules, declared |-> {}, predicate |-> Open,
     maximumDays |-> 2, maximumEnergy |-> 20, optimizable |-> optimizable]

Tiers == ScenarioPlan(1, <<Tiered(<<TopTier(9)>>), Daily(3)>>, FALSE)
TwoPeriods ==
    ScenarioPlan(2, <<Baseline("X", 2), Schedule(<<Window("EVERY_DAY", 2, 4, "PEAK")>>),
                      TimeOfUse(<<Rate("PEAK", 11), Rate("OFF_PEAK", 6)>>, -3), Daily(3)>>, TRUE)
ThreePeriods ==
    ScenarioPlan(3, <<Schedule(<<Window("NONHOLIDAY_WEEKDAY", 2, 4, "PEAK"),
                         Window("EVERY_DAY", 0, 2, "PARTIAL_PEAK")>>),
              TimeOfUse(<<Rate("PEAK", 9), Rate("PARTIAL_PEAK", 7), Rate("OFF_PEAK", -2)>>, None)>>,
         TRUE)
Crossing == ScenarioPlan(4, <<Schedule(<<Window("EVERY_DAY", 1, 3, "PEAK")>>),
                      TimeOfUse(<<Rate("PEAK", 11), Rate("OFF_PEAK", 6)>>, None)>>, TRUE)
Expensive == ScenarioPlan(5, <<Schedule(<<Window("EVERY_DAY", 2, 4, "PEAK")>>),
                       TimeOfUse(<<Rate("PEAK", 40), Rate("OFF_PEAK", 6)>>, None)>>, TRUE)

Facts == [incomeTier |-> "TIER_3", territory |-> "X", window |-> <<1, 3>>,
          mismatches |-> {}, technologies |-> None, asOf |-> None,
          evRegistered |-> None, wholeHouse |-> None, annual |-> None]

Measured(energies) == [n \in 1 .. 4 |-> [start |-> 2 + 2 * n, duration |-> 2,
                                         energy |-> energies[n]]]

Modulating(maximum, minimum) ==
    [type |-> "INTERRUPTIBLE_MODULATING", maximum |-> maximum, minimum |-> minimum]
Fixed(shape) == [type |-> "CONTIGUOUS_FIXED_SHAPE", shape |-> shape]
Occ(earliest, deadline, reference) ==
    [required |-> Total(reference), earliest |-> earliest, deadline |-> deadline,
     reference |-> reference]
OneLoad(mode, asset, spec, occurrences) ==
    [mode |-> mode, asset |-> asset, spec |-> spec, occurrences |-> occurrences]

Car(reference) == OneLoad("SHIFT_EXISTING", 1, Modulating(6, 3), <<Occ(4, 12, reference)>>)
Pump == OneLoad("HISTORICAL_ADDITION", 2, Modulating(3, 0),
                <<Occ(4, 8, <<0, 1, 0, 0>>), Occ(8, 12, <<0, 0, 1, 0>>)>>)
Washer == OneLoad("SHIFT_EXISTING", 3, Fixed(<<1, 0, 2>>), <<Occ(4, 12, <<1, 0, 2, 0>>)>>)
Dryer == OneLoad("HISTORICAL_ADDITION", 4, Fixed(<<2>>), <<Occ(6, 10, <<0, 2, 0, 0>>)>>)
Overlapping == OneLoad("HISTORICAL_ADDITION", 5, Modulating(4, 0),
                       <<Occ(4, 8, <<0, 1, 0, 0>>), Occ(6, 12, <<0, 0, 1, 0>>)>>)

Heater == OneLoad("SHIFT_EXISTING", 6, Modulating(4, 0), <<Occ(4, 12, <<0, 2, 1, 0>>)>>)
LoadSets == {<<Car(<<0, 3, 2, 0>>)>>, <<Car(<<0, 2, 0, 0>>), Pump>>, <<Washer, Dryer>>,
             <<Pump, Dryer>>, <<Dryer, Washer>>, <<Overlapping>>, <<Dryer, [Pump EXCEPT !.asset = 4]>>,
             <<Car(<<0, 1, 2, 0>>)>>}
Caps == {<<None, None>>, <<8, 6>>, <<14, 4>>}

Scenario(t, energies, loads, attested, caps) ==
    [tariff |-> t, facts |-> Facts, slots |-> Measured(energies), loads |-> loads,
     attested |-> attested, siteCap |-> caps[1], flexibleCap |-> caps[2]]

MCScenarios ==
    {Scenario(t, e, l, a, c) :
        t \in {Tiers, TwoPeriods, ThreePeriods, Crossing, Expensive},
        e \in {<<1, 3, 2, 0>>, <<2, 4, 3, 1>>}, l \in LoadSets, a \in {{}, {1}, {2}}, c \in Caps}
      \cup {Scenario(t, <<2, 4, 3, 1>>, l, {1}, <<14, 6>>) :
               t \in {TwoPeriods, ThreePeriods}, l \in {<<Heater>>, <<Heater, Dryer>>}}

MCForms ==
    {[tariff |-> Tiers, facts |-> Facts, slots |-> Measured(e), mode |-> o, spec |-> s,
      required |-> r, earliest |-> b, deadline |-> d, from |-> i, attested |-> a,
      siteCap |-> c[1], flexibleCap |-> c[2]] :
        e \in {<<1, 3, 2, 0>>, <<2, 4, 3, 1>>}, o \in {"SHIFT_EXISTING", "HISTORICAL_ADDITION"},
        s \in {Modulating(6, 3), Modulating(3, 4), Modulating(5, 3), Fixed(<<1, 0, 2>>), Fixed(<<2>>)},
        r \in {2, 4, 5}, b \in {4, 5, 8}, d \in {8, 11, 12}, i \in 0 .. 4,
        a \in {TRUE, FALSE}, c \in Caps}
-----------------------------------------------------------------------------
B == INSTANCE Billing WITH
    Tariffs <- MCTariffs, Accounts <- MCAccounts, Profiles <- MCProfiles,
    Bills <- MCBills, Required <- MCRequired

billVars == <<request, current, result, comparison>>

EngineInit ==
    \/ /\ part = "BILL" /\ B!Init
       /\ phase = "PREVIEW" /\ form = None /\ scenario = None
       /\ solutions = {} /\ fixed = <<>> /\ search = NewSearch
       /\ exact = None /\ heuristic = None
    \/ /\ part = "SCENARIO" /\ Init
       /\ request = None /\ current = None /\ result = None /\ comparison = None

EngineNext ==
    /\ UNCHANGED part
    /\ \/ part = "BILL" /\ B!Next /\ UNCHANGED vars
       \/ part = "SCENARIO" /\ Next /\ UNCHANGED billVars

EngineSpec == EngineInit /\ [][EngineNext]_<<part, vars, billVars>>
-----------------------------------------------------------------------------
Billing == part = "BILL"

\* A bill charges every watt-hour once, in the tier or the period it was metered
\* in; the days' shares of a line add up to its cents and follow the energy; the
\* total is within half a cent per line of the exact amount; and no failure that
\* is kept for an inconsistent calculation is raised (billing.py
\* replay_compiled_tariff, _energy_slice, classify_interval_period,
\* _apportion_integer, round_half_up_cents).
BillIsExact == Billing => B!BillIsExact

\* A fact learned later never takes back an ELIGIBLE or an INELIGIBLE verdict;
\* when a winner is named every tariff was comparable and none is cheaper
\* (evaluate_eligibility, compare_admitted_tariffs).
ComparisonIsSound == Billing => B!ComparisonIsSound
=============================================================================
