----------------------------- MODULE Optimizer ------------------------------
(***************************************************************************)
(* One scenario from the form to the published result: the preview of the  *)
(* browser, the admission by the API, and in the worker the lowering, the  *)
(* staged exact search, the staged off-peak heuristic (solver.py) and the  *)
(* result that is built from both (results.py).                            *)
(*                                                                         *)
(* CP-SAT is external.  Asked to minimise an expression over the model it  *)
(* answers OPTIMAL with some minimiser, FEASIBLE with some solution and a  *)
(* lower bound, UNKNOWN at its time limit, MODEL_INVALID, or, of a model   *)
(* without solutions, INFEASIBLE.                                          *)
(***************************************************************************)
EXTENDS Scheduling

CONSTANTS Forms,       \* what a user may enter, with the slots of the profile
          Scenarios    \* what an API client may submit

VARIABLES phase,       \* where the scenario is
          form,        \* the form entered, or None
          scenario,    \* the scenario submitted, or None
          solutions,   \* solutions of the lowered model, with their objectives
          fixed,       \* optima added to the model as equalities, stage by stage
          search,      \* what the running search has so far
          exact,       \* the result of the exact search, or None
          heuristic    \* the result of the heuristic, or None
vars == <<phase, form, scenario, solutions, fixed, search, exact, heuristic>>

NewSearch == [incumbent |-> None, bound |-> None]
-----------------------------------------------------------------------------
Init ==
    /\ \/ phase = "PREVIEW" /\ form \in Forms /\ scenario = None
       \/ phase = "SUBMITTED" /\ form = None /\ scenario \in Scenarios
    /\ solutions = {} /\ fixed = <<>> /\ search = NewSearch
    /\ exact = None /\ heuristic = None

\* The first submit of the form; the second sends the request it shows.
Preview ==
    /\ phase = "PREVIEW"
    /\ scenario' = BuildPreview(form, form.slots)
    /\ phase' = IF scenario' = None THEN "SHOWN" ELSE "SUBMITTED"
    /\ UNCHANGED <<form, solutions, fixed, search, exact, heuristic>>

Admissible(s) ==
    /\ s.tariff.optimizable
    /\ ProfileWindow(s.slots) = s.facts.window
    /\ Attested(s)
    /\ ValidScenario(s)

CreateScenario ==
    /\ phase = "SUBMITTED"
    /\ phase' = IF Admissible(scenario) THEN "QUEUED" ELSE "REFUSED"
    /\ UNCHANGED <<form, scenario, solutions, fixed, search, exact, heuristic>>

\* The reference is verified and billed before the model is built.
Lower ==
    /\ phase = "QUEUED"
    /\ IF /\ VerifyCandidateSchedule(scenario, Reference(scenario)) # None
          /\ Classified(scenario) /\ SignedInt64Safe(scenario)
       THEN phase' = "EXACT" /\ solutions' = CompileScenarioModel(scenario)
       ELSE phase' = "FAILED" /\ UNCHANGED solutions
    /\ UNCHANGED <<form, scenario, fixed, search, exact, heuristic>>
-----------------------------------------------------------------------------
\* What the stages of the running search minimise, in order.
Expressions(c) == IF phase = "EXACT" THEN c.values ELSE <<c.proxy, c.values[4]>>
Model == {c \in solutions : \A k \in DOMAIN fixed : Expressions(c)[k] = fixed[k]}
Stage == Len(fixed) + 1

Answers ==
    LET least == Min({Expressions(c)[Stage] : c \in Model})
        Answer(status, c, bound) == [status |-> status, solution |-> c, bound |-> bound]
    IN  {Answer("UNKNOWN", None, None), Answer("MODEL_INVALID", None, None)}
          \cup IF Model = {} THEN {Answer("INFEASIBLE", None, None)}
               ELSE {Answer("OPTIMAL", c, least) :
                       c \in {d \in Model : Expressions(d)[Stage] = least}}
                      \cup {Answer("FEASIBLE", c, least - open) : c \in Model, open \in 0 .. 1}

\* _verify_solver_incumbent: anything but agreement raises.
Confirmed(c) == VerifyCandidateSchedule(scenario, c.schedule) = c.values

LexLess(u, v) ==
    \E k \in DOMAIN u : u[k] < v[k] /\ \A j \in 1 .. k - 1 : u[j] = v[j]

ReferenceSolution == CHOOSE c \in solutions : c.schedule = Reference(scenario)

SelectStrictImprovement(incumbent) ==
    IF incumbent # None /\ LexLess(incumbent.values, ReferenceSolution.values)
    THEN incumbent ELSE ReferenceSolution

\* mutant: an incumbent with an open bound counts as the optimum
ExactStatusOpenBound(answer, incumbent) ==
    CASE answer.status \in {"OPTIMAL", "FEASIBLE"} -> "OPTIMAL"
      [] answer.status = "UNKNOWN" -> IF incumbent = None THEN "UNKNOWN" ELSE "BEST_FOUND"
      [] answer.status = "MODEL_INVALID" -> "MODEL_INVALID"
      [] OTHER -> "MODEL_CONTRACT_VIOLATION"

ExactStatus(answer, incumbent) ==
    CASE answer.status = "OPTIMAL" -> "OPTIMAL"
      [] answer.status = "FEASIBLE" -> "BEST_FOUND"
      [] answer.status = "UNKNOWN" -> IF incumbent = None THEN "UNKNOWN" ELSE "BEST_FOUND"
      [] answer.status = "MODEL_INVALID" -> "MODEL_INVALID"
      [] OTHER -> "MODEL_CONTRACT_VIOLATION"

Raise ==
    /\ phase' = "FAILED"
    /\ UNCHANGED <<form, scenario, solutions, fixed, search, exact, heuristic>>

\* One pass of the loop of optimize_exact, and after the last what follows
\* the loop.
ExactStage ==
    /\ phase = "EXACT"
    /\ \E answer \in Answers :
         LET incumbent == IF answer.solution = None THEN search.incumbent ELSE answer.solution
             bound == IF Stage = 1 THEN answer.bound ELSE search.bound
             optimal == answer.status = "OPTIMAL"
         IN  IF answer.solution # None /\ ~Confirmed(answer.solution) THEN Raise
             ELSE IF optimal /\ Stage < 4
             THEN /\ fixed' = Append(fixed, Expressions(incumbent)[Stage])
                  /\ search' = [incumbent |-> incumbent, bound |-> bound]
                  /\ UNCHANGED <<phase, form, scenario, solutions, exact, heuristic>>
             ELSE /\ exact' = [status |-> ExactStatus(answer, incumbent), incumbent |-> incumbent,
                               selected |-> SelectStrictImprovement(incumbent),
                               highest |-> IF optimal THEN Stage ELSE Stage - 1,
                               gap |-> IF incumbent = None \/ bound = None THEN None
                                       ELSE Max({0, incumbent.values[1] - bound})]
                  /\ phase' = "HEURISTIC" /\ fixed' = <<>> /\ search' = NewSearch
                  /\ UNCHANGED <<form, scenario, solutions, heuristic>>

HeuristicStatus(answer, incumbent) ==
    CASE answer.status = "OPTIMAL" -> "HEURISTIC_PROXY_OPTIMAL"
      [] answer.status \in {"FEASIBLE", "UNKNOWN"} /\ incumbent # None -> "HEURISTIC_BEST_FOUND"
      [] answer.status = "MODEL_INVALID" -> "HEURISTIC_MODEL_INVALID"
      [] answer.status = "INFEASIBLE" -> "HEURISTIC_MODEL_CONTRACT_VIOLATION"
      [] OTHER -> "HEURISTIC_NO_INCUMBENT"

ProxyPair(c) == <<c.proxy, c.values[4]>>

\* optimize_off_peak_heuristic lowers the scenario again, to the same model.
HeuristicStage ==
    /\ phase = "HEURISTIC"
    /\ \E answer \in Answers :
         LET incumbent == IF answer.solution = None THEN search.incumbent ELSE answer.solution
         IN  IF answer.solution # None /\ ~Confirmed(answer.solution) THEN Raise
             ELSE IF answer.status = "OPTIMAL" /\ Stage < 2
             THEN /\ fixed' = Append(fixed, Expressions(incumbent)[Stage])
                  /\ search' = [search EXCEPT !.incumbent = incumbent]
                  /\ UNCHANGED <<phase, form, scenario, solutions, exact, heuristic>>
             ELSE /\ heuristic' =
                       [status |-> HeuristicStatus(answer, incumbent), incumbent |-> incumbent,
                        selected |-> IF /\ incumbent # None
                                        /\ LexLess(ProxyPair(incumbent),
                                                   ProxyPair(ReferenceSolution))
                                     THEN incumbent ELSE ReferenceSolution]
                  /\ phase' = "SEARCHED" /\ fixed' = <<>> /\ search' = NewSearch
                  /\ UNCHANGED <<form, scenario, solutions, exact>>

BuildScenarioResult ==
    /\ phase = "SEARCHED"
    /\ phase' = IF /\ exact.status \in {"OPTIMAL", "BEST_FOUND"}
                   /\ heuristic.status \in {"HEURISTIC_PROXY_OPTIMAL", "HEURISTIC_BEST_FOUND",
                                            "HEURISTIC_NO_INCUMBENT"}
                THEN "PUBLISHED" ELSE "FAILED"
    /\ UNCHANGED <<form, scenario, solutions, fixed, search, exact, heuristic>>

Next ==
    \/ Preview \/ CreateScenario \/ Lower
    \/ ExactStage \/ HeuristicStage \/ BuildScenarioResult

Spec == Init /\ [][Next]_vars
-----------------------------------------------------------------------------
Phases == {"PREVIEW", "SHOWN", "SUBMITTED", "REFUSED", "QUEUED", "EXACT", "HEURISTIC",
           "SEARCHED", "PUBLISHED", "FAILED"}

\* The phases, and a scenario in every phase after the preview; its selected
\* schedules are solutions of the model.
TypeOK ==
    /\ phase \in Phases /\ Len(fixed) <= 3
    /\ scenario # None \/ phase \in {"PREVIEW", "SHOWN"}
    /\ exact # None => exact.selected \in solutions
    /\ heuristic # None => heuristic.selected \in solutions

\* buildPreview and scenario.py state the same constraints twice: what the
\* preview turns into a request the API admits, so that only the tariff and
\* the account facts can still refuse it.
PreviewAdmitted ==
    (form # None /\ scenario # None) => ValidScenario(scenario) /\ Attested(scenario)

\* Every way to spend the required energy of the occurrences.
AllSchedules(s) ==
    LET Vectors(x) == {v \in [Slots(s) -> 0 .. Occurrence(s, x).required] :
                         Total(v) = Occurrence(s, x).required}
    IN  {c \in [Occurrences(s) -> UNION {Vectors(x) : x \in Occurrences(s)}] :
           \A x \in Occurrences(s) : Total(c[x]) = Occurrence(s, x).required}

\* lowering.py against verification.py and billing.py: the solutions of the
\* model are exactly the schedules the verifier accepts, and their cost, line
\* rounding included, is exactly what the billing engine computes for them.
LoweringIsExact ==
    (phase = "EXACT" /\ fixed = <<>>) =>
        {<<c.schedule, c.values>> : c \in solutions}
          = {v \in {<<c, VerifyCandidateSchedule(scenario, c)>> : c \in AllSchedules(scenario)} :
               v[2] # None}

\* _preflight_signed_int64_safety: no value the solver
\* computes for a solution leaves the integers it has.
SolverStaysInRange ==
    (phase = "EXACT" /\ fixed = <<>>) =>
        \A c \in solutions :
            LET profile == ProfileWith(scenario, c.schedule)
                Quantity(r, p) == SumOf(LAMBDA i : profile[i],
                                        {j \in Slots(scenario) : SlotPeriod(scenario, r, j) = p})
            IN  /\ \A i \in Slots(scenario) : profile[i] * Hour <= MaxInt
                /\ \A r \in TimeCharges(scenario) : \A x \in Range(r.rates) :
                      Quantity(r, x.period) * Magnitude(x.rate) + HalfCent <= MaxInt
                /\ \A v \in Range(c.values) \cup {c.proxy} : Magnitude(v) <= MaxInt

\* What a published exact result claims: OPTIMAL means that no schedule has a
\* smaller objective tuple, a stage proved optimal that the incumbent's tuple
\* is minimal up to it, and the gap bounds the distance to the least cost.
ClaimsAreTrue ==
    phase = "PUBLISHED" =>
        \A c \in solutions :
            /\ exact.status = "OPTIMAL" => ~LexLess(c.values, exact.selected.values)
            /\ exact.incumbent # None =>
                 ~LexLess(SubSeq(c.values, 1, exact.highest),
                          SubSeq(exact.incumbent.values, 1, exact.highest))
            /\ exact.gap # None => c.values[1] >= exact.incumbent.values[1] - exact.gap

\* What is published is never worse than doing nothing: the exact selection
\* has no larger tuple than the reference, the heuristic's no larger proxy
\* pair, and a proved optimum is not beaten by the heuristic's schedule.
SelectedNeverWorse ==
    phase = "PUBLISHED" =>
        /\ ~LexLess(ReferenceSolution.values, exact.selected.values)
        /\ ~LexLess(ProxyPair(ReferenceSolution), ProxyPair(heuristic.selected))
        /\ exact.status = "OPTIMAL" => ~LexLess(heuristic.selected.values, exact.selected.values)

\* The model that is solved is the one the form asked for, the verifier accepts
\* and the billing engine charges, within the integers of the solver.
PlansAreExact == TypeOK /\ PreviewAdmitted /\ LoweringIsExact /\ SolverStaysInRange

\* A published result claims what was proved, and is no worse than doing nothing
\* (solver.py, heuristic.py).
PublishedIsSound == ClaimsAreTrue /\ SelectedNeverWorse
=============================================================================
