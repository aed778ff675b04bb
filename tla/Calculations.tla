---------------------------- MODULE Calculations ----------------------------
(***************************************************************************)
(* Calculations of one account, from the request to the published result:   *)
(* submission under an idempotency key (calculations.py, scenarios.py,      *)
(* replays.py, comparisons.py, reports.py), the workers that compute        *)
(* (replay_worker.py, comparison_worker.py, scenario_worker.py,             *)
(* report_worker.py), the staging of artifacts and the publication of       *)
(* results under a lease (artifacts.py), the cancellation of scenarios and  *)
(* the sweep of orphaned artifacts.                                         *)
(*                                                                          *)
(* A job's row is locked while it is leased or cancelled; the transactions  *)
(* of artifacts.py and of the scenario worker read without locks, so each   *)
(* is two steps: the rows it read are kept in `seen', and its commit        *)
(* stores the columns it changed over whatever others committed meanwhile.  *)
(* Leases, retries and rescues that overlap are the subject of JobQueue;    *)
(* here each of them is one step.  The account stays active: fences are the *)
(* subject of DeletionSweep.                                                *)
(***************************************************************************)
EXTENDS Naturals, FiniteSets

CONSTANTS
    Kinds,        \* calculation kinds that an instance may be about
    JobIds,         \* job ids a submission can draw
    Hashes,       \* requests; a request determines its semantic hash
    Keys,         \* idempotency keys
    Workers, Clients,
    Sweepers,     \* retention workers that call sweep_orphans
    MaxAttempts,  \* max_attempts of a calculation job
    MaxFaults,    \* bound on crashes, expired leases and storage errors
    NULL

VARIABLES
    kind,      \* the kind of every job of this instance
    ops,       \* operation_requests: key -> request and job
    job,       \* jobs
    scenario,  \* scenarios.state of the job's scenario
    claim,     \* job_result_claims: semantic hash -> job and result
    results,   \* the result rows, each named by the attempt that wrote it
    reg,       \* object_upload_registrations.state, per attempt
    objects,   \* the attempts whose artifact is in the object store
    client,    \* the request each client is making
    worker,    \* where each worker is, with its lease and what it has read
    sweep,     \* where each run of sweep_orphans is
    faults

vars == <<kind, ops, job, scenario, claim, results, reg, objects,
          client, worker, sweep, faults>>

-----------------------------------------------------------------------------
(* Rows *)

Terminal  == {"SUCCEEDED", "FAILED", "CANCELLED"}
Attempts  == JobIds \X (1..MaxAttempts)
JobStates == {"NONE", "QUEUED", "RUNNING"} \cup Terminal
RegStates == {"NONE", "REGISTERED", "STAGED", "ACCEPTED", "DELETE_PENDING",
              "DELETED"}
ScenarioStates == {"NONE", "QUEUED", "RUNNING"} \cup Terminal

OperationRow == [hash: Hashes, job: JobIds]
ClaimRow == [job: JobIds, result: Attempts]
JobRow == [state: JobStates, hash: Hashes \cup {NULL}, key: Keys \cup {NULL},
           gen: 0..MaxAttempts, owner: Workers \cup {NULL}, expired: BOOLEAN,
           cancel: BOOLEAN, result: Attempts \cup {NULL}]

\* attempt_count and fencing_generation advance together (JobQueue).
NoJob == [state |-> "NONE", hash |-> NULL, key |-> NULL, gen |-> 0,
          owner |-> NULL, expired |-> FALSE, cancel |-> FALSE, result |-> NULL]

FreshJob == CHOOSE j \in JobIds : job[j] = NoJob   \* random, never used twice
NewJob(k, h) == [NoJob EXCEPT !.state = "QUEUED", !.hash = h, !.key = k]

ASSUME CalculationConstants ==
    /\ MaxAttempts \in Nat \ {0} /\ MaxFaults \in Nat
    /\ NULL \notin Workers \cup Keys \cup Hashes \cup Attempts
    /\ NULL \notin OperationRow \cup ClaimRow
    /\ Workers \cap Sweepers = {}

Idle == [at |-> "idle", lease |-> NULL, seen |-> NULL, retry |-> FALSE]

TypeOK ==
    /\ kind \in Kinds
    /\ ops \in [Keys -> OperationRow \cup {NULL}]
    /\ job \in [JobIds -> JobRow]
    /\ \A j \in JobIds : job[j].state = "RUNNING" => job[j].owner # NULL
    /\ scenario \in [JobIds -> ScenarioStates]
    /\ claim \in [Hashes -> ClaimRow \cup {NULL}]
    /\ results \subseteq Attempts
    /\ reg \in [Attempts -> RegStates]
    /\ objects \subseteq Attempts
    /\ faults \in 0..MaxFaults

Init ==
    /\ kind \in Kinds
    /\ ops = [k \in Keys |-> NULL]
    /\ job = [j \in JobIds |-> NoJob]
    /\ scenario = [j \in JobIds |-> "NONE"]
    /\ claim = [h \in Hashes |-> NULL]
    /\ results = {} /\ objects = {}
    /\ reg = [a \in Attempts |-> "NONE"]
    /\ client = [c \in Clients |-> NULL]
    /\ worker = [w \in Workers |-> Idle]
    /\ sweep = [s \in Workers \cup Sweepers |-> NULL]
    /\ faults = 0

Fault == faults < MaxFaults /\ faults' = faults + 1

-----------------------------------------------------------------------------
(* Submission *)

\* submit finds the operation of the key: it repeats its answer, or refuses
\* another request under the same key, and nothing changes.  Otherwise it looks
\* for a result.  Requests are bounded by the job ids that are left.
Submit(c, k, h) ==
    /\ client[c] = NULL
    /\ ops[k] = NULL /\ \E j \in JobIds : job[j] = NoJob
    /\ client' = [client EXCEPT ![c] = [key |-> k, hash |-> h, prior |-> claim[h]]]
    /\ UNCHANGED <<kind, ops, job, scenario, claim, results, reg, objects,
                   worker, sweep, faults>>

\* The job, its scenario and the operation are inserted together.
InsertedJob(k, h, j) ==
    /\ ops' = [ops EXCEPT ![k] = [hash |-> h, job |-> j]]
    /\ job' = [job EXCEPT ![j] = NewJob(k, h)]
    /\ scenario' = IF kind = "SCENARIO" THEN [scenario EXCEPT ![j] = "QUEUED"]
                   ELSE scenario

\* A result that exists answers the request: only the operation is inserted.
ReusedJob(k, h, j) ==
    /\ ops' = [ops EXCEPT ![k] = [hash |-> h, job |-> j]]
    /\ UNCHANGED <<job, scenario>>

\* The commit fails on uq_operation_identity when the key was taken since; the
\* next round of the loop finds the operation and repeats its answer.
SubmitCommit(c) ==
    /\ client[c] # NULL
    /\ LET k == client[c].key  h == client[c].hash IN
        \/ ops[k] # NULL /\ UNCHANGED <<ops, job, scenario>>
        \/ ops[k] = NULL /\ client[c].prior # NULL
           /\ ReusedJob(k, h, client[c].prior.job)
        \/ ops[k] = NULL /\ client[c].prior = NULL
           /\ (\E j \in JobIds : job[j] = NoJob) /\ InsertedJob(k, h, FreshJob)
    /\ client' = [client EXCEPT ![c] = NULL]
    /\ UNCHANGED <<kind, claim, results, reg, objects, worker, sweep, faults>>

\* Retention deletes an operation a day after its request, once its job is done.
ExpireOperation(k) ==
    /\ ops[k] # NULL
    /\ job[ops[k].job].state \in Terminal
    /\ ops' = [ops EXCEPT ![k] = NULL]
    /\ UNCHANGED <<kind, job, scenario, claim, results, reg, objects, client,
                   worker, sweep, faults>>

\* ScenarioSubmissionService.cancel locks the scenario and its job, and looks
\* at the state of the scenario only.
CancelScenario(j) ==
    /\ scenario[j] \in {"QUEUED", "RUNNING"}
    /\ scenario' = [scenario EXCEPT ![j] = "CANCELLED"]
    /\ job' = [job EXCEPT ![j].state = "CANCELLED", ![j].cancel = TRUE]
    /\ UNCHANGED <<kind, ops, claim, results, reg, objects, client, worker,
                   sweep, faults>>

-----------------------------------------------------------------------------
(* Leases *)

\* _lease_matches and current_fenced_job, for the time the worker polled at.
Holds(w, row) == row.owner = w /\ row.gen = worker[w].lease[2] /\ ~row.cancel

Fenced(w, row) == Holds(w, row) /\ row.state = "RUNNING"

Goto(w, at) == worker' = [worker EXCEPT ![w].at = at, ![w].seen = NULL]
FailWith(w, retryable) ==
    worker' = [worker EXCEPT ![w].at = "fail", ![w].seen = NULL,
                             ![w].retry = retryable]

\* lease_next and start; what may come between them is JobQueue's subject.
Lease(w, j) ==
    /\ worker[w].at = "idle" /\ job[j].state = "QUEUED" /\ ~job[j].cancel
    /\ job' = [job EXCEPT ![j].state = "RUNNING", ![j].owner = w,
                          ![j].gen = @ + 1, ![j].expired = FALSE]
    /\ worker' = [worker EXCEPT ![w] =
                    [Idle EXCEPT !.at = IF kind = "SCENARIO" THEN "mark" ELSE "compute",
                                 !.lease = <<j, job[j].gen + 1>>]]
    /\ UNCHANGED <<kind, ops, scenario, claim, results, reg, objects, client,
                   sweep, faults>>

\* Time passes and a lease expires: a dead worker's, or that of a slow one.
LeaseExpires(j) ==
    /\ job[j].state = "RUNNING" /\ ~job[j].expired
    /\ \/ UNCHANGED faults
          /\ \A w \in Workers : worker[w].lease # <<j, job[j].gen>>
       \/ Fault
    /\ job' = [job EXCEPT ![j].expired = TRUE]
    /\ UNCHANGED <<kind, ops, scenario, claim, results, reg, objects, client,
                   worker, sweep>>

Released(row, state) == [row EXCEPT !.state = state, !.owner = NULL,
                                    !.expired = FALSE]
AfterFailure(row) == IF row.gen >= MaxAttempts THEN "FAILED" ELSE "QUEUED"

RescueExpired(j) ==
    /\ job[j].state = "RUNNING" /\ job[j].expired
    /\ job' = [job EXCEPT ![j] = Released(@, AfterFailure(@))]
    /\ UNCHANGED <<kind, ops, scenario, claim, results, reg, objects, client,
                   worker, sweep, faults>>

\* The worker's fail, after an error; a scenario worker then looks at its job.
Fail(w) ==
    /\ worker[w].at = "fail"
    /\ LET j == worker[w].lease[1] IN
        IF Fenced(w, job[j])
        THEN /\ job' = [job EXCEPT ![j] = Released(@,
                          IF worker[w].retry THEN AfterFailure(@) ELSE "FAILED")]
             /\ worker' = [worker EXCEPT ![w].at =
                             IF kind = "SCENARIO" THEN "sync" ELSE "idle"]
        ELSE UNCHANGED job /\ worker' = [worker EXCEPT ![w] = Idle]
    /\ UNCHANGED <<kind, ops, scenario, claim, results, reg, objects, client,
                   sweep, faults>>

SyncTerminalState(w) ==
    /\ worker[w].at = "sync"
    /\ LET j == worker[w].lease[1] IN
        scenario' = IF /\ job[j].state \in {"FAILED", "CANCELLED"}
                       /\ scenario[j] \notin Terminal
                    THEN [scenario EXCEPT ![j] = job[j].state] ELSE scenario
    /\ worker' = [worker EXCEPT ![w] = Idle]
    /\ UNCHANGED <<kind, ops, job, claim, results, reg, objects, client, sweep,
                   faults>>

\* The process dies; its transaction rolls back and its lease is left to expire.
Crash(w) ==
    /\ worker[w].at # "idle"
    /\ Fault
    /\ worker' = [worker EXCEPT ![w] = Idle]
    /\ sweep' = [sweep EXCEPT ![w] = NULL]
    /\ UNCHANGED <<kind, ops, job, scenario, claim, results, reg, objects, client>>

-----------------------------------------------------------------------------
(* Workers *)

\* An unlocked transaction begins: what it reads stays what it decides on.
Begin(w, from, to) ==
    /\ worker[w].at = from
    /\ LET a == worker[w].lease IN
        worker' = [worker EXCEPT ![w].at = to, ![w].seen =
                     [fenced   |-> Fenced(w, job[a[1]]),
                      result   |-> IF job[a[1]].state = "SUCCEEDED"
                                   THEN job[a[1]].result ELSE NULL,
                      scenario |-> scenario[a[1]],
                      claim    |-> claim[job[a[1]].hash],
                      reg      |-> reg[a]]]
    /\ UNCHANGED <<kind, ops, job, scenario, claim, results, reg, objects,
                   client, sweep, faults>>

MarkBegin(w) == Begin(w, "mark", "marking")

\* A scenario that is not QUEUED any more keeps its state.
MarkCommit(w) ==
    /\ worker[w].at = "marking"
    /\ LET j == worker[w].lease[1]  seen == worker[w].seen IN
        scenario' = IF seen.fenced /\ seen.scenario = "QUEUED"
                    THEN [scenario EXCEPT ![j] = "RUNNING"] ELSE scenario
    /\ Goto(w, "compute")
    /\ UNCHANGED <<kind, ops, job, claim, results, reg, objects, client, sweep,
                   faults>>

\* What _publish computes from its inputs is published next; a request, an input
\* or a verification that is not right ends the attempt for good.
Computed(w, next) ==
    /\ worker[w].at = "compute"
    /\ Goto(w, next) \/ FailWith(w, FALSE)
    /\ UNCHANGED <<kind, ops, job, scenario, claim, results, reg, objects,
                   client, sweep, faults>>

\* The replay worker bills the profile of its request under one tariff.
ComputeReplay(w) == kind = "REPLAY" /\ Computed(w, "finalize")

\* The comparison worker bills the profile of a replay under two tariffs.
ComputeComparison(w) == kind = "COMPARISON" /\ Computed(w, "finalize")

\* The scenario worker optimizes a scenario it has marked RUNNING.
ComputeScenario(w) ==
    /\ kind = "SCENARIO" /\ worker[w].at = "compute"
    /\ \/ scenario[worker[w].lease[1]] = "RUNNING" /\ Computed(w, "finalize")
       \/ scenario[worker[w].lease[1]] # "RUNNING" /\ Computed(w, "fail")

\* The report worker builds the redacted report, which is staged as an artifact.
ComputeReport(w) == kind = "REPORT" /\ Computed(w, "register")

-----------------------------------------------------------------------------
(* Artifacts *)

\* The artifact is registered before its bytes are stored.
Register(w) ==
    /\ worker[w].at = "register"
    /\ LET a == worker[w].lease IN
        IF Fenced(w, job[a[1]])
        THEN reg' = [reg EXCEPT ![a] = "REGISTERED"] /\ Goto(w, "put")
        ELSE UNCHANGED reg /\ FailWith(w, TRUE)
    /\ UNCHANGED <<kind, ops, job, scenario, claim, results, objects, client,
                   sweep, faults>>

Put(w) ==
    /\ worker[w].at = "put"
    /\ \/ objects' = objects \cup {worker[w].lease} /\ Goto(w, "stage")
          /\ UNCHANGED faults
       \/ UNCHANGED objects /\ FailWith(w, TRUE) /\ Fault
    /\ UNCHANGED <<kind, ops, job, scenario, claim, results, reg, client, sweep>>

StageBegin(w) == Begin(w, "stage", "staging")

\* An attempt that lost its lease, or its registration, deletes what it stored.
StageCommit(w) ==
    /\ worker[w].at = "staging"
    /\ LET a == worker[w].lease  seen == worker[w].seen IN
        IF seen.reg = "REGISTERED" /\ seen.fenced
        THEN /\ reg' = [reg EXCEPT ![a] = "STAGED"]
             /\ Goto(w, "finalize")
             /\ UNCHANGED sweep
        ELSE /\ reg' = IF seen.reg = "REGISTERED"
                       THEN [reg EXCEPT ![a] = "DELETE_PENDING"] ELSE reg
             /\ sweep' = [sweep EXCEPT ![w] = [at |-> "delete", todo |-> {a}, cur |-> a]]
             /\ Goto(w, "unstaging")
    /\ UNCHANGED <<kind, ops, job, scenario, claim, results, objects, client,
                   faults>>

\* sweep_orphans reads the registrations older than a time (`old') and the jobs
\* that registered them.
Orphaned(a) ==
    \/ reg[a] = "DELETE_PENDING"
    \/ /\ reg[a] \in {"REGISTERED", "STAGED"}
       /\ \/ job[a[1]].gen # a[2]
          \/ job[a[1]].state \in Terminal
          \/ job[a[1]].expired

SweepBegin(s) ==
    /\ sweep[s] = NULL
    /\ s \in Workers => worker[s].at = "sweep"
    /\ \E old \in SUBSET {a \in Attempts : Orphaned(a)} \ {{}} :
        sweep' = [sweep EXCEPT ![s] = [at |-> "mark", todo |-> old, cur |-> NULL]]
    /\ worker' = IF s \in Workers THEN [worker EXCEPT ![s].at = "sweeping"] ELSE worker
    /\ UNCHANGED <<kind, ops, job, scenario, claim, results, reg, objects,
                   client, faults>>

SweepCommit(s) ==
    /\ sweep[s] # NULL /\ sweep[s].at = "mark"
    /\ reg' = [a \in Attempts |->
                 IF a \in sweep[s].todo THEN "DELETE_PENDING" ELSE reg[a]]
    /\ sweep' = [sweep EXCEPT ![s].at = "delete"]
    /\ UNCHANGED <<kind, ops, job, scenario, claim, results, objects, client,
                   worker, faults>>

\* _delete_registration_object: the bytes first, then the row.
DeleteObject(s) ==
    /\ sweep[s] # NULL /\ sweep[s].at = "delete"
    /\ \E a \in sweep[s].todo :
        /\ objects' = objects \ {a}
        /\ sweep' = [sweep EXCEPT ![s].at = "record", ![s].cur = a]
    /\ UNCHANGED <<kind, ops, job, scenario, claim, results, reg, client,
                   worker, faults>>

\* (mutant) The row of a deleted artifact is left as it is.
RecordDeletedNever(s) ==
    /\ sweep[s] # NULL /\ sweep[s].at = "record"
    /\ LET a == sweep[s].cur  rest == sweep[s].todo \ {a} IN
        sweep' = [sweep EXCEPT ![s] =
                     IF rest = {} THEN NULL
                       ELSE [at |-> "delete", todo |-> rest, cur |-> NULL]]
    /\ UNCHANGED <<kind, ops, job, scenario, claim, results, reg, objects, client,
                   worker, faults>>

RecordDeleted(s) ==
    /\ sweep[s] # NULL /\ sweep[s].at = "record"
    /\ LET a == sweep[s].cur  rest == sweep[s].todo \ {a} IN
        /\ reg' = IF reg[a] = "DELETE_PENDING"
                  THEN [reg EXCEPT ![a] = "DELETED"] ELSE reg
        /\ sweep' = [sweep EXCEPT ![s] =
                       IF rest = {} THEN NULL
                       ELSE [at |-> "delete", todo |-> rest, cur |-> NULL]]
    /\ UNCHANGED <<kind, ops, job, scenario, claim, results, objects, client,
                   worker, faults>>

\* A worker is done with the artifacts it had to delete.
Swept(w) ==
    /\ sweep[w] = NULL
    /\ \/ worker[w].at \in {"unstaging", "sweeping"}
       \/ worker[w].at = "sweep" /\ \A a \in Attempts : ~Orphaned(a)
    /\ IF worker[w].at = "unstaging" THEN FailWith(w, TRUE)
       ELSE worker' = [worker EXCEPT ![w] = Idle]
    /\ UNCHANGED <<kind, ops, job, scenario, claim, results, reg, objects,
                   client, sweep, faults>>

-----------------------------------------------------------------------------
(* Publication *)

FinalizeBegin(w) == Begin(w, "finalize", "finalizing")
ResolveBegin(w)  == Begin(w, "resolve", "resolving")

Succeeded(row, result) == [row EXCEPT !.state = "SUCCEEDED", !.result = result]

\* The attempt ends; a report that lost the race sweeps what it staged.
Done(w, result) ==
    IF kind = "REPORT" /\ result # worker[w].lease THEN Goto(w, "sweep")
    ELSE worker' = [worker EXCEPT ![w] = Idle]

\* _complete_job with the result that was published first.
CompleteWith(w, result) ==
    /\ job' = [job EXCEPT ![worker[w].lease[1]] = Succeeded(@, result)]
    /\ Done(w, result)
    /\ UNCHANGED <<scenario, claim, results, reg>>

Refused(w) ==
    /\ FailWith(w, kind = "REPORT")
    /\ UNCHANGED <<job, scenario, claim, results, reg>>

\* The first publication of a request: result row, claim, artifact and job.
Publish(w, a, h) ==
    /\ claim' = [claim EXCEPT ![h] = [job |-> a[1], result |-> a]]
    /\ results' = results \cup {a}
    /\ job' = [job EXCEPT ![a[1]] = Succeeded(@, a)]
    /\ scenario' = IF kind = "SCENARIO"
                   THEN [scenario EXCEPT ![a[1]] = "SUCCEEDED"] ELSE scenario
    /\ reg' = IF kind = "REPORT" THEN [reg EXCEPT ![a] = "ACCEPTED"] ELSE reg
    /\ worker' = [worker EXCEPT ![w] = Idle]

\* (mutant) The job is completed though the result was not published.
FinalizeCommitEarly(w) ==
    /\ worker[w].at = "finalizing"
    /\ LET seen == worker[w].seen IN
        IF seen.fenced
        THEN CompleteWith(w, worker[w].lease) ELSE Refused(w)
    /\ UNCHANGED <<kind, ops, objects, client, sweep, faults>>

\* _finalize_once.  A claim that appeared since it was looked for makes the
\* commit fail, and the race is resolved in a transaction of its own.
FinalizeCommit(w) ==
    /\ worker[w].at = "finalizing"
    /\ LET a == worker[w].lease  seen == worker[w].seen  h == job[a[1]].hash IN
        \/ /\ seen.result # NULL /\ seen.claim # NULL
           /\ seen.claim.result = seen.result
           /\ Done(w, seen.result)
           /\ UNCHANGED <<job, scenario, claim, results, reg>>
        \/ /\ seen.fenced
           /\ \/ seen.claim # NULL /\ CompleteWith(w, seen.claim.result)
              \/ /\ seen.claim = NULL
                 /\ kind = "REPORT" => seen.reg = "STAGED"
                 /\ kind = "SCENARIO" => seen.scenario = "RUNNING"
                 /\ \/ claim[h] = NULL /\ Publish(w, a, h)
                    \/ /\ claim[h] # NULL /\ Goto(w, "resolve")
                       /\ UNCHANGED <<job, scenario, claim, results, reg>>
              \/ /\ seen.claim = NULL
                 /\ \/ kind = "REPORT" /\ seen.reg # "STAGED"
                    \/ kind = "SCENARIO" /\ seen.scenario # "RUNNING"
                 /\ Refused(w)
        \/ seen.result = NULL /\ ~seen.fenced /\ Refused(w)
    /\ UNCHANGED <<kind, ops, objects, client, sweep, faults>>

\* _resolve_semantic_race
ResolveCommit(w) ==
    /\ worker[w].at = "resolving"
    /\ LET seen == worker[w].seen IN
        IF seen.claim # NULL /\ seen.fenced
        THEN CompleteWith(w, seen.claim.result) ELSE Refused(w)
    /\ UNCHANGED <<kind, ops, objects, client, sweep, faults>>

-----------------------------------------------------------------------------
WorkerStep(w) ==
    \/ \E j \in JobIds : Lease(w, j)
    \/ MarkBegin(w) \/ MarkCommit(w)
    \/ ComputeReplay(w) \/ ComputeComparison(w) \/ ComputeScenario(w) \/ ComputeReport(w)
    \/ Register(w) \/ Put(w) \/ StageBegin(w) \/ StageCommit(w)
    \/ FinalizeBegin(w) \/ FinalizeCommit(w)
    \/ ResolveBegin(w) \/ ResolveCommit(w)
    \/ Swept(w) \/ Fail(w) \/ SyncTerminalState(w)

SweepStep(s) ==
    SweepBegin(s) \/ SweepCommit(s) \/ DeleteObject(s) \/ RecordDeleted(s)

Next ==
    \/ \E c \in Clients : \/ \E k \in Keys, h \in Hashes : Submit(c, k, h)
                          \/ SubmitCommit(c)
    \/ \E k \in Keys : ExpireOperation(k)
    \/ \E j \in JobIds : CancelScenario(j) \/ LeaseExpires(j) \/ RescueExpired(j)
    \/ \E w \in Workers : WorkerStep(w) \/ Crash(w)
    \/ \E s \in Workers \cup Sweepers : SweepStep(s)

Spec == Init /\ [][Next]_vars

(***************************************************************************)
(* The worker loop polls for ever and runs the rescue on every poll, the    *)
(* retention job sweeps every day, and a lease that nobody renews expires.  *)
(***************************************************************************)
Fairness ==
    /\ \A w \in Workers : WF_vars(WorkerStep(w))
    /\ \A s \in Workers \cup Sweepers : WF_vars(SweepStep(s))
    /\ \A j \in JobIds : WF_vars(LeaseExpires(j)) /\ WF_vars(RescueExpired(j))

FairSpec == Spec /\ Fairness

-----------------------------------------------------------------------------
(* Properties *)

\* A job that succeeded names a stored result of its own request, the one that
\* is claimed for the request, whichever attempt of whichever job published it
\* (_finalize_once, _resolve_semantic_race).
ResultsAgree ==
    \A j \in JobIds : job[j].state = "SUCCEEDED" =>
        /\ claim[job[j].hash] # NULL
        /\ job[j].result = claim[job[j].hash].result
        /\ job[j].result \in results
        /\ job[job[j].result[1]].hash = job[j].hash

\* A request never gets a second result row: the only one is the claimed one,
\* however publications race (_finalize_once).
OneResultPerRequest ==
    \A a \in results : /\ claim[job[a[1]].hash] # NULL
                       /\ claim[job[a[1]].hash].result = a

\* However submissions overlap and operations expire, one key never has two
\* jobs that are still to be worked on (submit, _expire_operations).
OneLiveJobPerKey ==
    \A i, j \in JobIds : (i # j /\ job[i].key = job[j].key /\ job[i].key # NULL) =>
        job[i].state \in Terminal \/ job[j].state \in Terminal

\* A scenario that reads SUCCEEDED belongs to a job that succeeded, and the
\* result is one that this job published, whatever was cancelled, rescued or
\* failed meanwhile (publish_result, _sync_terminal_state, cancel).
ScenarioHasResult ==
    \A j \in JobIds : scenario[j] = "SUCCEEDED" =>
        job[j].state = "SUCCEEDED" /\ \E a \in results : a[1] = j

\* The rows of jobs, operations, scenarios and results agree.
Consistent ==
    /\ TypeOK
    /\ ResultsAgree /\ OneResultPerRequest
    /\ OneLiveJobPerKey /\ ScenarioHasResult

\* Every registered artifact is in the end accepted or deleted (sweep_orphans).
ArtifactsSettle ==
    \A a \in Attempts :
        reg[a] \in {"REGISTERED", "STAGED", "DELETE_PENDING"}
            ~> reg[a] \in {"ACCEPTED", "DELETED"}

\* An artifact that was accepted is in the object store: a sweep of orphans does
\* not remove it (sweep_orphans, stage, _finalize_once).
AcceptedIsStored ==
    \A a \in Attempts : reg[a] = "ACCEPTED" => a \in objects
=============================================================================
