----------------------------- MODULE MCJobQueue -----------------------------
(***************************************************************************)
(* Jobs for TLC: import jobs and retention jobs in the queue (JobQueue),   *)
(* calculation jobs and their results (Calculations).  `part' is what a    *)
(* behaviour is about; the rest stays as it was initially, so that the      *)
(* properties of a part need not look at the behaviours of another.         *)
(***************************************************************************)
EXTENDS JobQueue, TLC

VARIABLES part,
          qnow, row, qfenced, leaser, qtxn, qcrashes,
          kind, ops, rjob, scenario, claim, results, reg, objects, client, runner,
          sweep, faults

\* A retention job, which belongs to no account.
Y == INSTANCE JobQueue WITH
    ImportJobs <- {}, SystemJobs <- {"r1"}, Cancellable <- {}, Clients <- {},
    now <- qnow, job <- row, fenced <- qfenced, worker <- leaser, txn <- qtxn,
    crashes <- qcrashes

\* Scenarios under one key: two clients submit, two workers retry after an
\* expired lease or a crash.
R == INSTANCE Calculations WITH
    Kinds <- {"SCENARIO"}, JobIds <- {"j1", "j2"}, Hashes <- {"h1"}, Keys <- {"k1"},
    Clients <- {"b1", "b2"}, Sweepers <- {"s1"}, MaxFaults <- 1,
    job <- rjob, worker <- runner

\* Every kind under two keys, and jobs that fail at the first attempt.
P == INSTANCE Calculations WITH
    Kinds <- {"REPLAY", "COMPARISON", "SCENARIO", "REPORT"}, JobIds <- {"j1", "j2"},
    Hashes <- {"h1"}, Keys <- {"k1", "k2"}, Clients <- {"b1"}, Sweepers <- {"s1"},
    MaxAttempts <- 1, MaxFaults <- 1, job <- rjob, worker <- runner

systemVars == <<qnow, row, qfenced, leaser, qtxn, qcrashes>>
resultVars == <<kind, ops, rjob, scenario, claim, results, reg, objects, client, runner,
                sweep, faults>>

Symmetry == Permutations(Workers)
-----------------------------------------------------------------------------
MCInit ==
    /\ part \in {"IMPORTS", "SYSTEM", "SCENARIOS", "RESULTS"}
    /\ Init /\ Y!Init
    /\ \/ part = "RESULTS" /\ P!Init
       \/ part # "RESULTS" /\ R!Init

MCNext ==
    /\ UNCHANGED part
    /\ \/ part = "IMPORTS" /\ Next /\ UNCHANGED <<systemVars, resultVars>>
       \/ part = "SYSTEM" /\ Y!Next /\ UNCHANGED <<vars, resultVars>>
       \/ part = "SCENARIOS" /\ R!Next /\ UNCHANGED <<vars, systemVars>>
       \/ part = "RESULTS" /\ P!Next /\ UNCHANGED <<vars, systemVars>>

MCSpec == MCInit /\ [][MCNext]_<<part, vars, systemVars, resultVars>>
-----------------------------------------------------------------------------

\* Of a retention job: no two workers hold one generation of it, and its counters
\* agree (lease_next, fail, rescue_expired).  Of calculations: a job that
\* succeeded names the one stored result that is claimed for its request, a
\* scenario that reads SUCCEEDED has a result of its own job, and a key never has
\* two jobs to be worked on (_finalize_once, _resolve_semantic_race, cancel,
\* submit, _expire_operations).
PartsConsistent ==
    /\ part = "SYSTEM" => Y!FencingTokensUnique /\ Y!AttemptsAccounted
    /\ part = "SCENARIOS" => R!Consistent
    /\ part = "RESULTS" => P!Consistent
=============================================================================
