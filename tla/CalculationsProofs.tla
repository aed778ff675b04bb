------------------------- MODULE CalculationsProofs -------------------------
(***************************************************************************)
(* The results of calculations, proved for any sets of jobs, requests, keys *)
(* and processes, any attempt budget and any number of faults.              *)
(*                                                                          *)
(* A publication decides on rows that it read in an earlier step, and       *)
(* stores what it decided over whatever others have committed since.  What  *)
(* makes it safe is that the two things it relies on are never taken back:  *)
(* the request of a job, and the claim of a request (Kept).                 *)
(***************************************************************************)
EXTENDS Calculations, TLAPS

WorkerSteps == {"idle", "mark", "marking", "compute", "register", "put", "stage",
                "staging", "finalize", "finalizing", "resolve", "resolving", "sweep",
                "sweeping", "unstaging", "fail", "sync"}
\* Where a worker is inside a transaction that has read.
Reading == {"marking", "staging", "finalizing", "resolving"}

SeenRows == [fenced: BOOLEAN, result: Attempts \cup {NULL}, scenario: ScenarioStates,
             claim: ClaimRow \cup {NULL}, reg: RegStates]
WorkerRow == [at: WorkerSteps, lease: Attempts \cup {NULL}, seen: SeenRows \cup {NULL},
              retry: BOOLEAN]
ClientRow == [key: Keys, hash: Hashes, prior: ClaimRow \cup {NULL}]

-----------------------------------------------------------------------------
(* The inductive invariant *)

RowsTyped ==
    /\ kind \in Kinds
    /\ ops \in [Keys -> OperationRow \cup {NULL}]
    /\ job \in [JobIds -> JobRow]
    /\ \A j \in JobIds : job[j].state = "RUNNING" => job[j].owner # NULL
    /\ scenario \in [JobIds -> ScenarioStates]
    /\ claim \in [Hashes -> ClaimRow \cup {NULL}]
    /\ results \subseteq Attempts

FilesTyped ==
    /\ reg \in [Attempts -> RegStates]
    /\ objects \subseteq Attempts
    /\ faults \in 0..MaxFaults

\* A job that is queued has an attempt left, and a job that was submitted, or has
\* a scenario, has a request.
JobsOK ==
    \A j \in JobIds :
        /\ job[j].state = "QUEUED" => job[j].gen < MaxAttempts
        /\ job[j].state # "NONE" \/ scenario[j] # "NONE" => job[j].hash \in Hashes

\* A stored result belongs to a job with a request.
ResultsOwned == \A a \in results : job[a[1]].hash \in Hashes

\* The claim of a request names a stored result of a job of that request.
ClaimsOK ==
    \A h \in Hashes : claim[h] # NULL =>
        /\ claim[h].result \in results
        /\ claim[h].job = claim[h].result[1]
        /\ job[claim[h].job].hash = h

\* The operation of a key outlives the job that was submitted with it.
LiveJobsKeyed ==
    \A j \in JobIds : job[j].key # NULL /\ job[j].state \notin Terminal =>
        ops[job[j].key] # NULL /\ ops[job[j].key].job = j

RowsOK ==
    /\ RowsTyped /\ JobsOK /\ ResultsOwned /\ ClaimsOK /\ LiveJobsKeyed
    /\ ResultsAgree /\ OneResultPerRequest /\ ScenarioHasResult

\* A worker that is not idle works on a job with a request, and a claim that its
\* transaction has read is still the claim of that request.
WorkerOK(w) ==
    /\ worker[w].at # "idle" => /\ worker[w].lease \in Attempts
                                /\ job[worker[w].lease[1]].hash \in Hashes
    /\ worker[w].at \in Reading =>
        /\ worker[w].seen \in SeenRows
        /\ worker[w].seen.claim # NULL =>
            claim[job[worker[w].lease[1]].hash] = worker[w].seen.claim

ActorsOK ==
    /\ worker \in [Workers -> WorkerRow]
    /\ \A w \in Workers : WorkerOK(w)
    /\ client \in [Clients -> ClientRow \cup {NULL}]

IInv == RowsOK /\ FilesTyped /\ ActorsOK

\* What no step takes back: the request of a job, and the claim of a request.
Kept ==
    /\ \A j \in JobIds : job[j].hash \in Hashes => job'[j].hash = job[j].hash
    /\ \A h \in Hashes : claim[h] # NULL => claim'[h] = claim[h]

\* What every step does.
StepOK == RowsOK' /\ FilesTyped' /\ Kept /\ ActorsOK'

-----------------------------------------------------------------------------
(* Rows *)

LEMMA NoJobTyped == NoJob \in JobRow /\ NoJob.hash = NULL /\ NoJob.key = NULL
                    /\ NoJob.state = "NONE"
BY CalculationConstants DEF NoJob, JobRow, JobStates

LEMMA IdleTyped == Idle \in WorkerRow /\ Idle.at = "idle"
BY DEF Idle, WorkerRow, WorkerSteps

\* An attempt is a pair of a job and a generation.
LEMMA AttemptParts ==
    ASSUME NEW a \in Attempts
    PROVE  a[1] \in JobIds /\ a[2] \in 1..MaxAttempts /\ a = <<a[1], a[2]>>
BY DEF Attempts

\* Rows that no step of a transaction touches stay consistent.
LEMMA RowsSame ==
    ASSUME RowsOK, UNCHANGED <<kind, ops, job, scenario, claim, results>>
    PROVE  RowsOK' /\ Kept
<1>1. RowsTyped' /\ JobsOK' /\ ResultsOwned' /\ ClaimsOK' /\ LiveJobsKeyed'
  BY DEF RowsOK, RowsTyped, JobsOK, ResultsOwned, ClaimsOK, LiveJobsKeyed
<1>2. ResultsAgree' /\ OneResultPerRequest' /\ ScenarioHasResult'
  BY DEF RowsOK, ResultsAgree, OneResultPerRequest, ScenarioHasResult
<1>3. Kept
  BY DEF Kept
<1> QED
  BY <1>1, <1>2, <1>3 DEF RowsOK

\* The row of one submitted job changes: its request and key stay, what is done
\* stays done, and success is claimed.
LEMMA JobStep ==
    ASSUME RowsOK, NEW j \in JobIds, NEW r \in JobRow,
           job' = [job EXCEPT ![j] = r],
           UNCHANGED <<kind, ops, scenario, claim, results>>,
           r.hash = job[j].hash, r.key = job[j].key, r.hash \in Hashes,
           r.state = "QUEUED" => r.gen < MaxAttempts,
           r.state = "RUNNING" => r.owner # NULL,
           job[j].state \in Terminal => r.state \in Terminal,
           r.state = "SUCCEEDED" => /\ claim[r.hash] # NULL
                                    /\ r.result = claim[r.hash].result,
           scenario[j] = "SUCCEEDED" => r.state = "SUCCEEDED"
    PROVE  RowsOK' /\ Kept
<1>1. job \in [JobIds -> JobRow] /\ job' \in [JobIds -> JobRow] /\ job'[j] = r
      /\ \A i \in JobIds \ {j} : job'[i] = job[i]
  BY DEF RowsOK, RowsTyped
<1>2. \A i \in JobIds : job'[i].hash = job[i].hash /\ job'[i].key = job[i].key
  BY <1>1
<1>3. RowsTyped'
  BY <1>1 DEF RowsOK, RowsTyped
<1>4. JobsOK'
  BY <1>1, <1>2 DEF RowsOK, JobsOK
<1>5. ClaimsOK'
  BY <1>2 DEF RowsOK, RowsTyped, ClaimsOK, ClaimRow
<1>6. LiveJobsKeyed'
  BY <1>1, <1>2 DEF RowsOK, LiveJobsKeyed
<1>7. OneResultPerRequest' /\ ResultsOwned'
  BY <1>2, AttemptParts DEF RowsOK, RowsTyped, OneResultPerRequest, ResultsOwned
<1>8. ResultsAgree'
  <2>1. ASSUME NEW i \in JobIds, job'[i].state = "SUCCEEDED"
        PROVE  /\ claim'[job'[i].hash] # NULL
               /\ job'[i].result = claim'[job'[i].hash].result
    BY <1>1, <1>2, <2>1 DEF RowsOK, ResultsAgree
  <2>2. ASSUME NEW i \in JobIds, job'[i].state = "SUCCEEDED"
        PROVE  job'[i].hash \in Hashes
    BY Zenon, <1>1, <1>2, <2>2 DEF RowsOK, JobsOK
  <2>3. ASSUME NEW i \in JobIds, job'[i].state = "SUCCEEDED"
        PROVE  /\ job'[i].result \in results'
               /\ job'[job'[i].result[1]].hash = job'[i].hash
    BY <1>5, <2>1, <2>2, <2>3 DEF ClaimsOK
  <2> QED
    BY Zenon, <2>1, <2>3 DEF ResultsAgree
<1>9. ScenarioHasResult'
  BY <1>1 DEF RowsOK, ScenarioHasResult
<1>10. Kept
  BY <1>2 DEF Kept
<1> QED
  BY <1>3, <1>4, <1>5, <1>6, <1>7, <1>8, <1>9, <1>10 DEF RowsOK

\* The state of a scenario changes, not to SUCCEEDED, and its job with it at most
\* to CANCELLED.
LEMMA ScenarioStep ==
    ASSUME RowsOK, NEW j \in JobIds, NEW s \in ScenarioStates \ {"SUCCEEDED"},
           scenario' = [scenario EXCEPT ![j] = s],
           job' \in [JobIds -> JobRow],
           \A i \in JobIds : /\ job'[i].hash = job[i].hash /\ job'[i].key = job[i].key
                           /\ job'[i].gen = job[i].gen /\ job'[i].owner = job[i].owner
                           /\ job'[i].result = job[i].result
                           /\ \/ job'[i].state = job[i].state
                              \/ i = j /\ job'[i].state = "CANCELLED",
           job[j].hash \in Hashes,
           UNCHANGED <<kind, ops, claim, results>>
    PROVE  RowsOK' /\ Kept
<1>3. scenario \in [JobIds -> ScenarioStates] /\ scenario' \in [JobIds -> ScenarioStates]
      /\ scenario'[j] = s /\ \A i \in JobIds \ {j} : scenario'[i] = scenario[i]
  BY DEF RowsOK, RowsTyped
<1>4. RowsTyped'
  <2>1. \A i \in JobIds : job'[i].state = "RUNNING" => job'[i].owner # NULL
    BY DEF RowsOK, RowsTyped
  <2> QED
    BY <1>3, <2>1 DEF RowsOK, RowsTyped
<1>5. JobsOK'
  BY <1>3 DEF RowsOK, JobsOK
<1>6. ClaimsOK'
  BY DEF RowsOK, RowsTyped, ClaimsOK, ClaimRow
<1>7. LiveJobsKeyed'
  BY DEF RowsOK, LiveJobsKeyed, Terminal
<1>8. OneResultPerRequest' /\ ResultsOwned'
  BY AttemptParts DEF RowsOK, RowsTyped, OneResultPerRequest, ResultsOwned
<1>9. ResultsAgree'
  <2>1. ASSUME NEW i \in JobIds, job'[i].state = "SUCCEEDED"
        PROVE  job[i].state = "SUCCEEDED" /\ job'[i].result = job[i].result
    BY <2>1
  <2>2. ASSUME NEW i \in JobIds, job'[i].state = "SUCCEEDED"
        PROVE  /\ claim'[job'[i].hash] # NULL
               /\ job'[i].result = claim'[job'[i].hash].result
               /\ job'[i].hash \in Hashes
    BY <2>1, <2>2 DEF RowsOK, ResultsAgree, JobsOK
  <2> QED
    BY <1>6, <2>2 DEF ResultsAgree, ClaimsOK
<1>10. ScenarioHasResult'
  BY <1>3 DEF RowsOK, ScenarioHasResult
<1>11. Kept
  BY DEF Kept
<1> QED
  BY <1>4, <1>5, <1>6, <1>7, <1>8, <1>9, <1>10, <1>11 DEF RowsOK

\* The rows that the first publication of a request stores (Publish).
PublishedRows(a, j, h, r) ==
    /\ j = a[1] /\ h = job[j].hash /\ claim[h] = NULL
    /\ claim' = [claim EXCEPT ![h] = [job |-> j, result |-> a]]
    /\ results' = results \cup {a}
    /\ job' = [job EXCEPT ![j] = r]
    /\ r.state = "SUCCEEDED" /\ r.result = a /\ r.hash = h /\ r.key = job[j].key
    /\ scenario' \in [JobIds -> ScenarioStates]
    /\ \A i \in JobIds \ {j} : scenario'[i] = scenario[i]
    /\ UNCHANGED <<kind, ops>>

LEMMA PublishStep ==
    ASSUME RowsOK, NEW a \in Attempts, NEW j \in JobIds, NEW h \in Hashes,
           NEW r \in JobRow, PublishedRows(a, j, h, r)
    PROVE  RowsOK' /\ Kept
<1> USE DEF PublishedRows
<1>3. job \in [JobIds -> JobRow] /\ job' \in [JobIds -> JobRow] /\ job'[j] = r
      /\ \A i \in JobIds \ {j} : job'[i] = job[i]
  BY DEF RowsOK, RowsTyped
<1>4. \A i \in JobIds : job'[i].hash = job[i].hash /\ job'[i].key = job[i].key
  BY Zenon, <1>3
<1>5. claim' \in [Hashes -> ClaimRow \cup {NULL}]
      /\ claim'[h] = [job |-> j, result |-> a] /\ claim'[h] # NULL
      /\ \A g \in Hashes \ {h} : claim'[g] = claim[g]
  <2>1. [job |-> j, result |-> a] \in ClaimRow
    BY Zenon DEF ClaimRow
  <2> QED
    BY <2>1, CalculationConstants DEF RowsOK, RowsTyped
<1>7. RowsTyped'
  <2>1. \A i \in JobIds : job'[i].state = "RUNNING" => job'[i].owner # NULL
    BY Zenon, <1>3 DEF RowsOK, RowsTyped
  <2> QED
    BY Zenon, <1>3, <1>5, <2>1 DEF RowsOK, RowsTyped
<1>9. JobsOK'
  <2>1. ASSUME NEW i \in JobIds, i # j
        PROVE  job'[i] = job[i] /\ scenario'[i] = scenario[i]
    BY Zenon, <1>3, <2>1 DEF RowsOK, RowsTyped
  <2> QED
    BY <1>3, <1>4, <2>1 DEF RowsOK, JobsOK
<1>10. ClaimsOK'
  <2>1. ASSUME NEW g \in Hashes, g # h, claim'[g] # NULL
        PROVE  /\ claim'[g].result \in results'
               /\ claim'[g].job = claim'[g].result[1]
               /\ job'[claim'[g].job].hash = g
    BY <1>4, <1>5, <2>1 DEF RowsOK, RowsTyped, ClaimsOK, ClaimRow
  <2>2. /\ claim'[h].result \in results'
        /\ claim'[h].job = claim'[h].result[1]
        /\ job'[claim'[h].job].hash = h
    BY ZenonT(30), <1>4, <1>5
  <2> QED
    BY Zenon, <2>1, <2>2 DEF ClaimsOK
<1>11. LiveJobsKeyed'
  BY Zenon, <1>3, <1>4 DEF RowsOK, LiveJobsKeyed, Terminal
<1>12. OneResultPerRequest'
  <2>1. ASSUME NEW b \in results
        PROVE  claim'[job'[b[1]].hash] # NULL /\ claim'[job'[b[1]].hash].result = b
    <3>1. b[1] \in JobIds
      BY Zenon, AttemptParts DEF RowsOK, RowsTyped
    <3>2. claim[job[b[1]].hash] # NULL /\ claim[job[b[1]].hash].result = b
      BY Zenon DEF RowsOK, OneResultPerRequest
    <3>3. claim'[job[b[1]].hash] = claim[job[b[1]].hash]
      BY <3>2 DEF RowsOK, RowsTyped
    <3> QED
      BY <1>4, <3>1, <3>2, <3>3
  <2>3. claim'[job'[a[1]].hash] # NULL /\ claim'[job'[a[1]].hash].result = a
    BY <1>4, <1>5
  <2> QED
    BY Zenon, <2>1, <2>3 DEF OneResultPerRequest
<1>13. \A i \in JobIds : job'[i].state = "SUCCEEDED" =>
         /\ claim'[job'[i].hash] # NULL
         /\ job'[i].result = claim'[job'[i].hash].result
         /\ job'[i].hash \in Hashes
  <2>1. ASSUME NEW i \in JobIds, i # j, job'[i].state = "SUCCEEDED"
        PROVE  /\ claim[job[i].hash] # NULL
               /\ job[i].result = claim[job[i].hash].result
               /\ job[i].hash \in Hashes
    BY Zenon, <1>3, <2>1 DEF RowsOK, ResultsAgree, JobsOK
  <2>2. ASSUME NEW i \in JobIds, i # j, job'[i].state = "SUCCEEDED"
        PROVE  claim'[job'[i].hash] = claim[job[i].hash] /\ job'[i] = job[i]
    BY Zenon, <1>3, <1>5, <2>1, <2>2
  <2> QED
    BY <1>3, <1>4, <1>5, <2>1, <2>2
<1>14. ResultsAgree'
  BY <1>10, <1>13 DEF ResultsAgree, ClaimsOK
<1>15. ScenarioHasResult'
  <2>1. ASSUME NEW i \in JobIds, i # j, scenario'[i] = "SUCCEEDED"
        PROVE  job'[i].state = "SUCCEEDED" /\ \E b \in results' : b[1] = i
    <3>1. scenario[i] = "SUCCEEDED"
      BY <2>1 DEF RowsOK, RowsTyped
    <3> QED
      BY Zenon, <1>3, <2>1, <3>1 DEF RowsOK, ScenarioHasResult
  <2>2. job'[j].state = "SUCCEEDED" /\ \E b \in results' : b[1] = j
    BY Zenon, <1>3
  <2> QED
    BY Zenon, <2>1, <2>2 DEF ScenarioHasResult
<1>16. Kept
  BY <1>4, <1>5 DEF Kept
<1>17. ResultsOwned'
  BY <1>4, AttemptParts DEF RowsOK, RowsTyped, ResultsOwned
<1> QED
  BY <1>17, <1>7, <1>9, <1>10, <1>11, <1>12, <1>14, <1>15, <1>16 DEF RowsOK

-----------------------------------------------------------------------------
(* Workers *)

\* What a worker that does not move relies on is kept.
LEMMA WorkerStays ==
    ASSUME IInv, Kept, NEW w \in Workers, worker'[w] = worker[w]
    PROVE  WorkerOK(w)'
<1>1. CASE worker[w].at = "idle"
  BY Zenon, <1>1 DEF WorkerOK, Reading
<1>2. CASE worker[w].at # "idle"
  <2>1. worker[w].lease \in Attempts /\ worker[w].lease[1] \in JobIds
        /\ job[worker[w].lease[1]].hash \in Hashes
    BY <1>2, AttemptParts DEF IInv, ActorsOK, WorkerOK
  <2>2. job'[worker'[w].lease[1]].hash = job[worker[w].lease[1]].hash
    BY Zenon, <2>1 DEF Kept
  <2>3. ASSUME worker[w].at \in Reading, worker[w].seen.claim # NULL
        PROVE  claim'[job[worker[w].lease[1]].hash] = worker[w].seen.claim
    BY Zenon, <2>1, <2>3 DEF IInv, ActorsOK, WorkerOK, Kept
  <2>4. worker[w].at \in Reading => worker[w].seen \in SeenRows
    BY DEF IInv, ActorsOK, WorkerOK
  <2> QED
    BY Zenon, <2>1, <2>2, <2>3, <2>4 DEF WorkerOK
<1> QED
  BY <1>1, <1>2

LEMMA WorkersSame ==
    ASSUME IInv, Kept, UNCHANGED worker, client' \in [Clients -> ClientRow \cup {NULL}]
    PROVE  ActorsOK'
<1>1. \A w \in Workers : WorkerOK(w)'
  BY WorkerStays
<1> QED
  BY <1>1 DEF IInv, ActorsOK

\* One worker moves, and what it relies on from now on holds.
LEMMA WorkerMoves ==
    ASSUME IInv, Kept, NEW w \in Workers, NEW x \in WorkerRow,
           worker' = [worker EXCEPT ![w] = x], UNCHANGED client,
           x.at # "idle" => /\ x.lease \in Attempts
                            /\ job[x.lease[1]].hash \in Hashes,
           x.at \in Reading => /\ x.seen \in SeenRows
                               /\ x.seen.claim # NULL =>
                                    claim[job[x.lease[1]].hash] = x.seen.claim
    PROVE  ActorsOK'
<1>1. worker' \in [Workers -> WorkerRow] /\ worker'[w] = x
      /\ \A v \in Workers \ {w} : worker'[v] = worker[v]
  BY DEF IInv, ActorsOK
<1>2. ASSUME NEW v \in Workers, v # w PROVE WorkerOK(v)'
  BY Zenon, <1>1, <1>2, WorkerStays
<1>3. WorkerOK(w)'
  <2>1. CASE x.at = "idle"
    BY Zenon, <1>1, <2>1 DEF WorkerOK, Reading
  <2>2. CASE x.at # "idle"
    <3>1. x.lease[1] \in JobIds /\ job'[x.lease[1]].hash = job[x.lease[1]].hash
      BY Zenon, <2>2, AttemptParts DEF Kept
    <3>2. ASSUME x.at \in Reading, x.seen.claim # NULL
          PROVE  claim'[job[x.lease[1]].hash] = x.seen.claim
      BY Zenon, <2>2, <3>2 DEF Kept
    <3> QED
      BY <1>1, <2>2, <3>1, <3>2 DEF WorkerOK
  <2> QED
    BY Zenon, <2>1, <2>2
<1> QED
  BY <1>1, <1>2, <1>3 DEF IInv, ActorsOK

\* A worker that is not idle has a lease on a job with a request.
LEMMA Leased ==
    ASSUME IInv, NEW w \in Workers, worker[w].at # "idle"
    PROVE  /\ worker[w] \in WorkerRow
           /\ worker[w].lease \in Attempts
           /\ worker[w].lease[1] \in JobIds
           /\ job[worker[w].lease[1]] \in JobRow
           /\ job[worker[w].lease[1]].hash \in Hashes
BY AttemptParts DEF IInv, RowsOK, RowsTyped, ActorsOK, WorkerOK

LEMMA GoesTo ==
    ASSUME IInv, Kept, NEW w \in Workers, worker[w].at # "idle",
           NEW at \in WorkerSteps \ Reading, Goto(w, at), UNCHANGED client
    PROVE  ActorsOK'
<1> DEFINE x == [worker[w] EXCEPT !.at = at, !.seen = NULL]
<1>1. x \in WorkerRow /\ x.at = at /\ x.lease = worker[w].lease
  BY Zenon, Leased DEF WorkerRow
<1>2. worker' = [worker EXCEPT ![w] = x]
  BY Zenon DEF Goto, IInv, ActorsOK
<1> HIDE DEF x
<1> QED
  BY Zenon, <1>1, <1>2, Leased, WorkerMoves

LEMMA FailsWith ==
    ASSUME IInv, Kept, NEW w \in Workers, worker[w].at # "idle",
           NEW r \in BOOLEAN, FailWith(w, r), UNCHANGED client
    PROVE  ActorsOK'
<1> DEFINE x == [worker[w] EXCEPT !.at = "fail", !.seen = NULL, !.retry = r]
<1>1. x \in WorkerRow /\ x.at = "fail" /\ x.lease = worker[w].lease
  BY Zenon, Leased DEF WorkerRow, WorkerSteps
<1>2. worker' = [worker EXCEPT ![w] = x]
  BY Zenon DEF FailWith, IInv, ActorsOK
<1> HIDE DEF x
<1> QED
  BY Zenon, <1>1, <1>2, Leased, WorkerMoves DEF Reading

LEMMA Rests ==
    ASSUME IInv, Kept, NEW w \in Workers, worker' = [worker EXCEPT ![w] = Idle],
           UNCHANGED client
    PROVE  ActorsOK'
BY Zenon, IdleTyped, WorkerMoves DEF Reading

-----------------------------------------------------------------------------
(* Submission and cancellation *)

LEMMA SubmitStep ==
    ASSUME IInv, NEW c \in Clients, NEW k \in Keys, NEW h \in Hashes, Submit(c, k, h)
    PROVE  StepOK
<1>1. RowsOK' /\ Kept
  BY RowsSame DEF Submit, IInv
<1>2. client' \in [Clients -> ClientRow \cup {NULL}]
  <2>1. [key |-> k, hash |-> h, prior |-> claim[h]] \in ClientRow
    BY Zenon DEF IInv, RowsOK, RowsTyped, ClientRow
  <2> QED
    BY <2>1 DEF Submit, IInv, ActorsOK
<1>3. ActorsOK'
  BY Zenon, <1>1, <1>2, WorkersSame DEF Submit
<1>4. FilesTyped'
  BY DEF Submit, IInv, FilesTyped
<1> QED
  BY <1>1, <1>3, <1>4 DEF StepOK

\* A job that was just drawn has no result, no scenario and no holder.
LEMMA InsertStep ==
    ASSUME RowsOK, NEW k \in Keys, NEW h \in Hashes, NEW j \in JobIds, job[j] = NoJob,
           ops[k] = NULL, InsertedJob(k, h, j), UNCHANGED <<kind, claim, results>>
    PROVE  RowsOK' /\ Kept
<1> DEFINE r == NewJob(k, h)
           o == [hash |-> h, job |-> j]
<1>1. r \in JobRow /\ r.state = "QUEUED" /\ r.hash = h /\ r.key = k
      /\ r.gen = 0 /\ 0 < MaxAttempts
  <2>1. NoJob \in JobRow /\ NoJob.gen = 0 /\ 0 < MaxAttempts
    BY NoJobTyped, CalculationConstants DEF NoJob
  <2>2. r = [NoJob EXCEPT !.state = "QUEUED", !.hash = h, !.key = k]
    BY DEF NewJob
  <2> HIDE DEF r
  <2> QED
    BY Zenon, <2>1, <2>2 DEF JobRow, JobStates
<1>2. o \in OperationRow /\ o # NULL /\ o.job = j
  BY CalculationConstants DEF OperationRow
<1>3. ops' = [ops EXCEPT ![k] = o] /\ job' = [job EXCEPT ![j] = r]
  BY Zenon DEF InsertedJob
<1>4. scenario' \in [JobIds -> ScenarioStates] /\ scenario'[j] # "SUCCEEDED"
      /\ \A i \in JobIds \ {j} : scenario'[i] = scenario[i]
  <2>1. scenario[j] # "SUCCEEDED"
    BY Zenon, NoJobTyped DEF RowsOK, ScenarioHasResult
  <2> QED
    BY Zenon, <2>1 DEF InsertedJob, RowsOK, RowsTyped, ScenarioStates
<1> HIDE DEF r, o
<1>5. job \in [JobIds -> JobRow] /\ job' \in [JobIds -> JobRow] /\ job'[j] = r
      /\ \A i \in JobIds \ {j} : job'[i] = job[i]
  BY Zenon, <1>1, <1>3 DEF RowsOK, RowsTyped
<1>6. ops' \in [Keys -> OperationRow \cup {NULL}] /\ ops'[k] = o
      /\ \A l \in Keys \ {k} : ops'[l] = ops[l]
  BY <1>2, <1>3 DEF RowsOK, RowsTyped
<1>7. NULL \notin Hashes /\ job[j].hash = NULL
  BY NoJobTyped, CalculationConstants
<1>8. \A i \in JobIds : job[i].hash \in Hashes => job'[i] = job[i]
  BY <1>5, <1>7
<1>9. RowsTyped'
  <2>1. \A i \in JobIds : job'[i].state = "RUNNING" => job'[i].owner # NULL
    BY Zenon, <1>1, <1>5 DEF RowsOK, RowsTyped
  <2> QED
    BY Zenon, <1>4, <1>5, <1>6, <2>1 DEF RowsOK, RowsTyped
<1>10. JobsOK'
  BY Zenon, <1>1, <1>4, <1>5 DEF RowsOK, JobsOK
<1>11. ClaimsOK'
  BY ZenonT(30), <1>8 DEF RowsOK, RowsTyped, ClaimsOK, ClaimRow
<1>12. LiveJobsKeyed'
  <2>1. ASSUME NEW i \in JobIds, i # j, job[i].key # NULL, job[i].state \notin Terminal
        PROVE  ops'[job[i].key] # NULL /\ ops'[job[i].key].job = i
    <3>1. ops[job[i].key] # NULL /\ ops[job[i].key].job = i
      BY <2>1 DEF RowsOK, LiveJobsKeyed
    <3>2. job[i].key \in Keys
      BY Zenon, <2>1 DEF RowsOK, RowsTyped, JobRow
    <3> QED
      BY Zenon, <1>6, <3>1, <3>2
  <2> QED
    BY <1>1, <1>2, <1>5, <1>6, <2>1 DEF LiveJobsKeyed
<1>13. ResultsAgree'
  <2>1. ASSUME NEW i \in JobIds, job'[i].state = "SUCCEEDED"
        PROVE  job'[i] = job[i] /\ job[i].state = "SUCCEEDED"
    BY Zenon, <1>1, <1>5, <2>1
  <2>2. ASSUME NEW i \in JobIds, job'[i].state = "SUCCEEDED"
        PROVE  job[i].hash \in Hashes /\ job[i].result[1] \in JobIds
    BY Zenon, <2>1, <2>2, AttemptParts DEF RowsOK, RowsTyped, JobsOK, ResultsAgree
  <2> QED
    BY <1>8, <2>1, <2>2 DEF RowsOK, ResultsAgree
<1>14. OneResultPerRequest'
  <2>1. ASSUME NEW a \in results
        PROVE  job'[a[1]].hash = job[a[1]].hash
    BY Zenon, <1>8, AttemptParts DEF RowsOK, RowsTyped, ResultsOwned
  <2> QED
    BY <2>1 DEF RowsOK, OneResultPerRequest
<1>15. ScenarioHasResult'
  BY Zenon, <1>4, <1>5 DEF RowsOK, ScenarioHasResult
<1>16. Kept
  BY Zenon, <1>8 DEF Kept
<1>17. ResultsOwned'
  BY Zenon, <1>8, AttemptParts DEF RowsOK, RowsTyped, ResultsOwned
<1> QED
  BY <1>17, <1>9, <1>10, <1>11, <1>12, <1>13, <1>14, <1>15, <1>16 DEF RowsOK

\* The operation of a key comes, for a job of another key, or goes, its job done.
LEMMA OperationStep ==
    ASSUME RowsOK, NEW k \in Keys, NEW o \in OperationRow \cup {NULL},
           ops' = [ops EXCEPT ![k] = o],
           ops[k] = NULL \/ (ops[k] \in OperationRow /\ job[ops[k].job].state \in Terminal),
           UNCHANGED <<kind, job, scenario, claim, results>>
    PROVE  RowsOK' /\ Kept
<1>1. ops' \in [Keys -> OperationRow \cup {NULL}]
      /\ \A l \in Keys \ {k} : ops'[l] = ops[l]
  BY DEF RowsOK, RowsTyped
<1>2. RowsTyped'
  BY Zenon, <1>1 DEF RowsOK, RowsTyped
<1>3. LiveJobsKeyed'
  <2>1. ASSUME NEW i \in JobIds, job[i].key # NULL, job[i].state \notin Terminal
        PROVE  ops'[job[i].key] = ops[job[i].key]
    <3>1. ops[job[i].key] # NULL /\ ops[job[i].key].job = i
      BY <2>1 DEF RowsOK, LiveJobsKeyed
    <3>2. job[i].key \in Keys /\ job[i].key # k
      BY Zenon, <2>1, <3>1 DEF RowsOK, RowsTyped, JobRow
    <3> QED
      BY Zenon, <1>1, <3>2
  <2> QED
    BY <2>1 DEF RowsOK, LiveJobsKeyed
<1>4. JobsOK' /\ ResultsOwned' /\ ClaimsOK'
  BY Zenon DEF RowsOK, JobsOK, ResultsOwned, ClaimsOK
<1>5. ResultsAgree' /\ OneResultPerRequest' /\ ScenarioHasResult'
  BY Zenon DEF RowsOK, ResultsAgree, OneResultPerRequest, ScenarioHasResult
<1>6. Kept
  BY DEF Kept
<1> QED
  BY Zenon, <1>2, <1>3, <1>4, <1>5, <1>6 DEF RowsOK

LEMMA SubmitCommitStep ==
    ASSUME IInv, NEW c \in Clients, SubmitCommit(c)
    PROVE  StepOK
<1> DEFINE k == client[c].key
           h == client[c].hash
<1>1. client[c] \in ClientRow /\ k \in Keys /\ h \in Hashes
  BY Zenon DEF SubmitCommit, IInv, ActorsOK, ClientRow
<1>2. RowsOK' /\ Kept
  <2>1. CASE ops[k] # NULL /\ UNCHANGED <<ops, job, scenario>>
    BY <2>1, RowsSame DEF IInv, SubmitCommit
  <2>2. CASE ops[k] = NULL /\ client[c].prior # NULL
             /\ ReusedJob(k, h, client[c].prior.job)
    <3>1. client[c].prior \in ClaimRow /\ client[c].prior.job \in JobIds
      BY <1>1, <2>2 DEF ClientRow, ClaimRow
    <3>2. [hash |-> h, job |-> client[c].prior.job] \in OperationRow
      BY Zenon, <1>1, <3>1 DEF OperationRow
    <3> QED
      BY Zenon, <1>1, <2>2, <3>2, OperationStep DEF IInv, SubmitCommit, ReusedJob
  <2>3. CASE ops[k] = NULL /\ (\E j \in JobIds : job[j] = NoJob)
             /\ InsertedJob(k, h, FreshJob)
    <3>1. FreshJob \in JobIds /\ job[FreshJob] = NoJob
      BY Zenon, <2>3 DEF FreshJob
    <3> QED
      BY <1>1, <2>3, <3>1, InsertStep DEF IInv, SubmitCommit
  <2> QED
    BY Zenon, <2>1, <2>2, <2>3 DEF SubmitCommit
<1>3. ActorsOK'
  <2>1. client' \in [Clients -> ClientRow \cup {NULL}]
    BY Zenon DEF SubmitCommit, IInv, ActorsOK
  <2> QED
    BY Zenon, <1>2, <2>1, WorkersSame DEF SubmitCommit
<1>4. FilesTyped'
  BY DEF SubmitCommit, IInv, FilesTyped
<1> QED
  BY Zenon, <1>2, <1>3, <1>4 DEF StepOK

LEMMA ExpireOperationStep ==
    ASSUME IInv, NEW k \in Keys, ExpireOperation(k)
    PROVE  StepOK
<1>1. RowsOK' /\ Kept
  <2>1. ops[k] \in OperationRow
    BY DEF ExpireOperation, IInv, RowsOK, RowsTyped
  <2> QED
    BY Zenon, <2>1, OperationStep DEF ExpireOperation, IInv
<1>2. ActorsOK'
  BY <1>1, WorkersSame DEF ExpireOperation, IInv, ActorsOK
<1>3. FilesTyped'
  BY DEF ExpireOperation, IInv, FilesTyped
<1> QED
  BY <1>1, <1>2, <1>3 DEF StepOK

LEMMA CancelScenarioStep ==
    ASSUME IInv, NEW j \in JobIds, CancelScenario(j)
    PROVE  StepOK
<1> DEFINE r == [job[j] EXCEPT !.state = "CANCELLED", !.cancel = TRUE]
<1>1. job[j] \in JobRow /\ job[j].hash \in Hashes
  BY DEF CancelScenario, IInv, RowsOK, RowsTyped, JobsOK
<1>2. r \in JobRow /\ r.state = "CANCELLED" /\ r.hash = job[j].hash
      /\ r.key = job[j].key /\ r.gen = job[j].gen /\ r.owner = job[j].owner
      /\ r.result = job[j].result
  BY Zenon, <1>1 DEF JobRow, JobStates, Terminal
<1>3. job' = [job EXCEPT ![j] = r]
  BY Zenon DEF CancelScenario, IInv, RowsOK, RowsTyped
<1> HIDE DEF r
<1>4. job' \in [JobIds -> JobRow] /\ job'[j] = r
      /\ \A i \in JobIds \ {j} : job'[i] = job[i]
  BY Zenon, <1>2, <1>3 DEF IInv, RowsOK, RowsTyped
<1>5. \A i \in JobIds : /\ job'[i].hash = job[i].hash /\ job'[i].key = job[i].key
                        /\ job'[i].gen = job[i].gen /\ job'[i].owner = job[i].owner
                        /\ job'[i].result = job[i].result
                        /\ \/ job'[i].state = job[i].state
                           \/ i = j /\ job'[i].state = "CANCELLED"
  BY <1>2, <1>4
<1>6. "CANCELLED" \in ScenarioStates \ {"SUCCEEDED"}
  BY DEF ScenarioStates, Terminal
<1>7. RowsOK' /\ Kept
  BY Zenon, <1>1, <1>4, <1>5, <1>6, ScenarioStep DEF CancelScenario, IInv
<1>8. ActorsOK'
  BY <1>7, WorkersSame DEF CancelScenario, IInv, ActorsOK
<1>9. FilesTyped'
  BY DEF CancelScenario, IInv, FilesTyped
<1> QED
  BY <1>7, <1>8, <1>9 DEF StepOK

-----------------------------------------------------------------------------
(* Leases *)

\* A job that is queued or running has a request, and its scenario no result.
LEMMA LiveJob ==
    ASSUME RowsOK, NEW j \in JobIds, job[j].state \in {"QUEUED", "RUNNING"}
    PROVE  /\ job[j] \in JobRow /\ job[j].hash \in Hashes
           /\ job[j].state \notin Terminal /\ scenario[j] # "SUCCEEDED"
BY DEF RowsOK, RowsTyped, JobsOK, ScenarioHasResult, Terminal

LEMMA LeaseStep ==
    ASSUME IInv, NEW w \in Workers, NEW j \in JobIds, Lease(w, j)
    PROVE  StepOK
<1> DEFINE n == job[j].gen + 1
           r == [job[j] EXCEPT !.state = "RUNNING", !.owner = w, !.gen = n,
                               !.expired = FALSE]
           x == [Idle EXCEPT !.at = IF kind = "SCENARIO" THEN "mark" ELSE "compute",
                             !.lease = <<j, job[j].gen + 1>>]
<1>1. job[j] \in JobRow /\ job[j].hash \in Hashes /\ job[j].gen < MaxAttempts
      /\ job[j].state = "QUEUED" /\ job[j].state \notin Terminal
      /\ scenario[j] # "SUCCEEDED"
  BY Zenon, LiveJob DEF Lease, IInv, RowsOK, JobsOK
<1>2. job[j].gen + 1 \in 1..MaxAttempts
  BY <1>1, CalculationConstants DEF JobRow
<1>3. r \in JobRow /\ r.state = "RUNNING" /\ r.hash = job[j].hash
      /\ r.key = job[j].key /\ r.owner = w
  <2>1. n \in 0..MaxAttempts
    BY <1>2, CalculationConstants
  <2> HIDE DEF n
  <2> QED
    BY Zenon, <1>1, <2>1 DEF JobRow, JobStates
<1>4. x \in WorkerRow /\ x.at \in {"mark", "compute"} /\ x.lease = <<j, job[j].gen + 1>>
  BY Zenon, <1>2, IdleTyped DEF WorkerRow, WorkerSteps, Attempts
<1>5. <<j, job[j].gen + 1>> \in Attempts
  BY <1>2 DEF Attempts
<1>6. job' = [job EXCEPT ![j] = r] /\ worker' = [worker EXCEPT ![w] = x]
  BY Zenon DEF Lease, IInv, RowsOK, RowsTyped
<1>7. w # NULL
  BY CalculationConstants
<1> HIDE DEF r, x
<1>8. RowsOK' /\ Kept
  BY Zenon, <1>1, <1>3, <1>6, <1>7, JobStep DEF Lease, IInv
<1>9. x.lease \in Attempts /\ x.lease[1] = j
  BY <1>4, <1>5
<1>10. ActorsOK'
  BY Zenon, <1>1, <1>4, <1>6, <1>8, <1>9, WorkerMoves DEF Lease, Reading
<1>11. FilesTyped'
  BY DEF Lease, IInv, FilesTyped
<1> QED
  BY <1>8, <1>10, <1>11 DEF StepOK

LEMMA FaultTyped ==
    ASSUME faults \in 0..MaxFaults, Fault
    PROVE  faults' \in 0..MaxFaults
BY CalculationConstants DEF Fault

LEMMA LeaseExpiresStep ==
    ASSUME IInv, NEW j \in JobIds, LeaseExpires(j)
    PROVE  StepOK
<1> DEFINE r == [job[j] EXCEPT !.expired = TRUE]
<1>1. job[j] \in JobRow /\ job[j].hash \in Hashes /\ job[j].state = "RUNNING"
      /\ job[j].state \notin Terminal /\ scenario[j] # "SUCCEEDED"
      /\ job[j].owner # NULL
  BY LiveJob DEF LeaseExpires, IInv, RowsOK, RowsTyped
<1>2. r \in JobRow /\ r.state = "RUNNING" /\ r.hash = job[j].hash
      /\ r.key = job[j].key /\ r.owner = job[j].owner
  BY Zenon, <1>1 DEF JobRow
<1>3. job' = [job EXCEPT ![j] = r]
  BY DEF LeaseExpires, IInv, RowsOK, RowsTyped
<1> HIDE DEF r
<1>4. RowsOK' /\ Kept
  BY Zenon, <1>1, <1>2, <1>3, JobStep DEF LeaseExpires, IInv
<1>5. ActorsOK'
  BY <1>4, WorkersSame DEF LeaseExpires, IInv, ActorsOK
<1>6. FilesTyped'
  BY FaultTyped DEF LeaseExpires, IInv, FilesTyped
<1> QED
  BY <1>4, <1>5, <1>6 DEF StepOK

\* A lease is given back after a failure: the job is queued again only when an
\* attempt is left.
LEMMA ReleaseStep ==
    ASSUME RowsOK, NEW j \in JobIds, NEW s \in {"FAILED", AfterFailure(job[j])},
           job[j].state = "RUNNING", job' = [job EXCEPT ![j] = Released(@, s)],
           UNCHANGED <<kind, ops, scenario, claim, results>>
    PROVE  RowsOK' /\ Kept
<1> DEFINE r == Released(job[j], s)
<1>1. job[j] \in JobRow /\ job[j].hash \in Hashes
      /\ job[j].state \notin Terminal /\ scenario[j] # "SUCCEEDED"
  BY Zenon, LiveJob
<1>2. s \in {"FAILED", "QUEUED"} /\ (s = "QUEUED" => job[j].gen < MaxAttempts)
  BY <1>1, CalculationConstants DEF AfterFailure, JobRow
<1>3. r \in JobRow /\ r.state = s /\ r.hash = job[j].hash
      /\ r.key = job[j].key /\ r.gen = job[j].gen
  BY Zenon, <1>1, <1>2 DEF Released, JobRow, JobStates, Terminal
<1>4. job' = [job EXCEPT ![j] = r]
  OBVIOUS
<1> HIDE DEF r
<1> QED
  BY Zenon, <1>1, <1>2, <1>3, <1>4, JobStep

LEMMA RescueExpiredStep ==
    ASSUME IInv, NEW j \in JobIds, RescueExpired(j)
    PROVE  StepOK
<1>1. RowsOK' /\ Kept
  <2>1. job' = [job EXCEPT ![j] = Released(@, AfterFailure(job[j]))]
    BY DEF RescueExpired
  <2> QED
    BY Zenon, <2>1, ReleaseStep DEF RescueExpired, IInv
<1>2. ActorsOK'
  BY <1>1, WorkersSame DEF RescueExpired, IInv, ActorsOK
<1>3. FilesTyped'
  BY Zenon DEF RescueExpired, IInv, FilesTyped
<1> QED
  BY <1>1, <1>2, <1>3 DEF StepOK

LEMMA FailStep ==
    ASSUME IInv, NEW w \in Workers, Fail(w)
    PROVE  StepOK
<1> DEFINE j == worker[w].lease[1]
           s == IF worker[w].retry THEN AfterFailure(job[j]) ELSE "FAILED"
           x == [worker[w] EXCEPT !.at = IF kind = "SCENARIO" THEN "sync" ELSE "idle"]
<1>1. worker[w].at = "fail" /\ worker[w].at # "idle"
  BY DEF Fail
<1>2. FilesTyped'
  BY DEF Fail, IInv, FilesTyped
<1>3. CASE Fenced(w, job[j])
  <2>1. job[j].state = "RUNNING"
    BY Zenon, <1>3 DEF Fenced
  <2>2. job' = [job EXCEPT ![j] = Released(@, s)]
    BY <1>3 DEF Fail
  <2>3. worker' = [worker EXCEPT ![w] = x]
    BY <1>3 DEF Fail, IInv, ActorsOK
  <2>4. x \in WorkerRow /\ x.at \in {"sync", "idle"} /\ x.lease = worker[w].lease
    BY Zenon, <1>1, Leased DEF WorkerRow, WorkerSteps
  <2>5. s \in {"FAILED", AfterFailure(job[j])} /\ j \in JobIds
    BY <1>1, Leased
  <2>6. UNCHANGED <<kind, ops, scenario, claim, results, client>>
    BY DEF Fail
  <2> HIDE DEF j, s, x
  <2>7. RowsOK' /\ Kept
    BY Zenon, <2>1, <2>2, <2>5, <2>6, ReleaseStep DEF IInv
  <2>8. ActorsOK'
    BY Zenon, <1>1, <2>3, <2>4, <2>6, <2>7, Leased, WorkerMoves DEF Reading
  <2> QED
    BY Zenon, <1>2, <2>7, <2>8 DEF StepOK
<1>4. CASE ~Fenced(w, job[j])
  <2>1. RowsOK' /\ Kept
    BY <1>4, RowsSame DEF Fail, IInv
  <2>2. ActorsOK'
    BY Zenon, <1>4, <2>1, Rests DEF Fail
  <2> QED
    BY <1>2, <2>1, <2>2 DEF StepOK
<1> QED
  BY <1>3, <1>4

\* The state of a scenario is stored, and no other row changes.
LEMMA OnlyScenario ==
    ASSUME RowsOK, NEW j \in JobIds, job[j].hash \in Hashes,
           NEW s \in ScenarioStates \ {"SUCCEEDED"},
           scenario' = scenario \/ scenario' = [scenario EXCEPT ![j] = s],
           UNCHANGED <<kind, ops, job, claim, results>>
    PROVE  RowsOK' /\ Kept
<1>1. job' \in [JobIds -> JobRow]
  BY Zenon DEF RowsOK, RowsTyped
<1> QED
  BY Zenon, <1>1, RowsSame, ScenarioStep

LEMMA SyncTerminalStateStep ==
    ASSUME IInv, NEW w \in Workers, SyncTerminalState(w)
    PROVE  StepOK
<1> DEFINE j == worker[w].lease[1]
<1>1. j \in JobIds /\ job[j].hash \in Hashes
  BY Leased DEF SyncTerminalState
<1>2. RowsOK' /\ Kept
  <2>1. CASE job[j].state \in {"FAILED", "CANCELLED"}
    <3>1. job[j].state \in ScenarioStates \ {"SUCCEEDED"}
      BY Zenon, <2>1 DEF ScenarioStates, Terminal
    <3> QED
      BY <1>1, <3>1, OnlyScenario DEF SyncTerminalState, IInv
  <2>2. CASE job[j].state \notin {"FAILED", "CANCELLED"}
    BY <2>2, RowsSame DEF SyncTerminalState, IInv
  <2> QED
    BY Zenon, <2>1, <2>2
<1>3. ActorsOK'
  BY Zenon, <1>2, Rests DEF SyncTerminalState
<1>4. FilesTyped'
  BY Zenon DEF SyncTerminalState, IInv, FilesTyped
<1> QED
  BY <1>2, <1>3, <1>4 DEF StepOK

LEMMA CrashStep ==
    ASSUME IInv, NEW w \in Workers, Crash(w)
    PROVE  StepOK
<1>1. RowsOK' /\ Kept
  BY RowsSame DEF Crash, IInv
<1>2. ActorsOK'
  BY Zenon, <1>1, Rests DEF Crash
<1>3. FilesTyped'
  BY FaultTyped DEF Crash, IInv, FilesTyped
<1> QED
  BY <1>1, <1>2, <1>3 DEF StepOK

-----------------------------------------------------------------------------
(* Transactions of workers *)

LEMMA BeginStep ==
    ASSUME IInv, NEW w \in Workers, NEW from \in WorkerSteps \ {"idle"},
           NEW to \in Reading, Begin(w, from, to)
    PROVE  StepOK
<1> DEFINE a == worker[w].lease
           seen == [fenced   |-> Fenced(w, job[a[1]]),
                    result   |-> IF job[a[1]].state = "SUCCEEDED"
                                 THEN job[a[1]].result ELSE NULL,
                    scenario |-> scenario[a[1]],
                    claim    |-> claim[job[a[1]].hash],
                    reg      |-> reg[a]]
           x == [worker[w] EXCEPT !.at = to, !.seen = seen]
<1>1. /\ worker[w] \in WorkerRow /\ a \in Attempts /\ a[1] \in JobIds
      /\ job[a[1]] \in JobRow /\ job[a[1]].hash \in Hashes
  BY Leased DEF Begin
<1>2. seen \in SeenRows /\ seen.claim = claim[job[a[1]].hash]
  <2>1. Fenced(w, job[a[1]]) \in BOOLEAN
    BY DEF Fenced, Holds
  <2>2. claim[job[a[1]].hash] \in ClaimRow \cup {NULL} /\ scenario[a[1]] \in ScenarioStates
        /\ reg[a] \in RegStates /\ job[a[1]].result \in Attempts \cup {NULL}
    BY Zenon, <1>1 DEF IInv, RowsOK, RowsTyped, FilesTyped, JobRow
  <2> QED
    BY Zenon, <2>1, <2>2 DEF SeenRows
<1>3. worker' = [worker EXCEPT ![w] = x]
  BY Zenon DEF Begin, IInv, ActorsOK
<1> HIDE DEF seen
<1>4. x \in WorkerRow /\ x.at = to /\ x.lease = a /\ x.seen = seen
  BY Zenon, <1>1, <1>2 DEF WorkerRow, Reading, WorkerSteps
<1> HIDE DEF x, a
<1>5. RowsOK' /\ Kept
  BY RowsSame DEF Begin, IInv
<1>6. ActorsOK'
  BY Zenon, <1>1, <1>2, <1>3, <1>4, <1>5, WorkerMoves DEF Begin
<1>7. FilesTyped'
  BY DEF Begin, IInv, FilesTyped
<1> QED
  BY Zenon, <1>5, <1>6, <1>7 DEF StepOK

LEMMA BeginSteps ==
    ASSUME IInv, NEW w \in Workers,
           MarkBegin(w) \/ StageBegin(w) \/ FinalizeBegin(w) \/ ResolveBegin(w)
    PROVE  StepOK
BY Zenon, BeginStep DEF MarkBegin, StageBegin, FinalizeBegin, ResolveBegin, WorkerSteps, Reading

LEMMA MarkCommitStep ==
    ASSUME IInv, NEW w \in Workers, MarkCommit(w)
    PROVE  StepOK
<1>1. worker[w].at # "idle" /\ worker[w].lease[1] \in JobIds
      /\ job[worker[w].lease[1]].hash \in Hashes
  BY Leased DEF MarkCommit
<1>2. "RUNNING" \in ScenarioStates \ {"SUCCEEDED"}
  BY Zenon DEF ScenarioStates
<1>3. RowsOK' /\ Kept
  BY Zenon, <1>1, <1>2, OnlyScenario DEF MarkCommit, IInv
<1>4. ActorsOK'
  BY Zenon, <1>1, <1>3, GoesTo DEF MarkCommit, WorkerSteps, Reading
<1>5. FilesTyped'
  BY DEF MarkCommit, IInv, FilesTyped
<1> QED
  BY <1>3, <1>4, <1>5 DEF StepOK

LEMMA ComputedStep ==
    ASSUME IInv, NEW w \in Workers, NEW next \in {"finalize", "fail", "register"},
           Computed(w, next)
    PROVE  StepOK
<1>1. RowsOK' /\ Kept
  BY RowsSame DEF Computed, IInv
<1>2. ActorsOK'
  <2>1. worker[w].at # "idle" /\ UNCHANGED client
    BY DEF Computed
  <2>2. CASE Goto(w, next)
    BY <1>1, <2>1, <2>2, GoesTo DEF WorkerSteps, Reading
  <2>3. CASE FailWith(w, FALSE)
    BY Zenon, <1>1, <2>1, <2>3, FailsWith
  <2> QED
    BY Zenon, <2>2, <2>3 DEF Computed
<1>3. FilesTyped'
  BY DEF Computed, IInv, FilesTyped
<1> QED
  BY Zenon, <1>1, <1>2, <1>3 DEF StepOK

LEMMA ComputeSteps ==
    ASSUME IInv, NEW w \in Workers,
           ComputeReplay(w) \/ ComputeComparison(w) \/ ComputeScenario(w) \/ ComputeReport(w)
    PROVE  StepOK
BY Zenon, ComputedStep
   DEF ComputeReplay, ComputeComparison, ComputeScenario, ComputeReport

-----------------------------------------------------------------------------
(* Artifacts *)

LEMMA RegisterStep ==
    ASSUME IInv, NEW w \in Workers, Register(w)
    PROVE  StepOK
<1>1. RowsOK' /\ Kept
  BY RowsSame DEF Register, IInv
<1>2. worker[w].at # "idle" /\ UNCHANGED client
      /\ (Goto(w, "put") \/ FailWith(w, TRUE))
  BY Zenon DEF Register
<1>3. ActorsOK'
  BY Zenon, <1>1, <1>2, GoesTo, FailsWith DEF WorkerSteps, Reading
<1>4. FilesTyped'
  BY Zenon DEF Register, IInv, FilesTyped, RegStates
<1> QED
  BY <1>1, <1>3, <1>4 DEF StepOK

LEMMA PutStep ==
    ASSUME IInv, NEW w \in Workers, Put(w)
    PROVE  StepOK
<1>1. RowsOK' /\ Kept
  BY RowsSame DEF Put, IInv
<1>2. worker[w].at # "idle" /\ UNCHANGED client
      /\ (Goto(w, "stage") \/ FailWith(w, TRUE))
  BY Zenon DEF Put
<1>3. ActorsOK'
  BY Zenon, <1>1, <1>2, GoesTo, FailsWith DEF WorkerSteps, Reading
<1>4. FilesTyped'
  BY Zenon, <1>2, Leased, FaultTyped DEF Put, IInv, FilesTyped
<1> QED
  BY <1>1, <1>3, <1>4 DEF StepOK

LEMMA StageCommitStep ==
    ASSUME IInv, NEW w \in Workers, StageCommit(w)
    PROVE  StepOK
<1>1. RowsOK' /\ Kept
  BY Zenon, RowsSame DEF StageCommit, IInv
<1>2. worker[w].at # "idle" /\ UNCHANGED client
      /\ (Goto(w, "finalize") \/ Goto(w, "unstaging"))
  BY Zenon DEF StageCommit
<1>3. ActorsOK'
  BY Zenon, <1>1, <1>2, GoesTo DEF WorkerSteps, Reading
<1>4. reg' \in [Attempts -> RegStates]
  BY Zenon DEF StageCommit, IInv, FilesTyped, RegStates
<1>5. FilesTyped'
  BY <1>4 DEF StageCommit, IInv, FilesTyped
<1> QED
  BY <1>1, <1>3, <1>5 DEF StepOK

LEMMA SweepBeginStep ==
    ASSUME IInv, NEW s \in Workers \cup Sweepers, SweepBegin(s)
    PROVE  StepOK
<1>1. RowsOK' /\ Kept
  BY RowsSame DEF SweepBegin, IInv
<1>2. FilesTyped'
  BY DEF SweepBegin, IInv, FilesTyped
<1>3. CASE s \notin Workers
  <2>1. UNCHANGED <<worker, client>>
    BY <1>3 DEF SweepBegin
  <2>2. ActorsOK'
    BY <1>1, <2>1, WorkersSame DEF IInv, ActorsOK
  <2> QED
    BY <1>1, <1>2, <2>2 DEF StepOK
<1>4. CASE s \in Workers
  <2> DEFINE x == [worker[s] EXCEPT !.at = "sweeping"]
  <2>1. worker[s].at = "sweep" /\ worker[s].at # "idle" /\ UNCHANGED client
    BY <1>4 DEF SweepBegin
  <2>2. worker' = [worker EXCEPT ![s] = x]
    BY <1>4 DEF SweepBegin, IInv, ActorsOK
  <2>3. x \in WorkerRow /\ x.at = "sweeping" /\ x.lease = worker[s].lease
    BY <1>4, <2>1, Leased DEF WorkerRow, WorkerSteps
  <2> HIDE DEF x
  <2>4. ActorsOK'
    BY Zenon, <1>1, <1>4, <2>1, <2>2, <2>3, Leased, WorkerMoves DEF Reading
  <2> QED
    BY <1>1, <1>2, <2>4 DEF StepOK
<1> QED
  BY <1>3, <1>4

LEMMA SweepSteps ==
    ASSUME IInv, NEW s \in Workers \cup Sweepers,
           SweepCommit(s) \/ DeleteObject(s) \/ RecordDeleted(s)
    PROVE  StepOK
<1>1. RowsOK' /\ Kept
  BY RowsSame DEF SweepCommit, DeleteObject, RecordDeleted, IInv
<1>2. UNCHANGED <<worker, client, faults>>
  BY DEF SweepCommit, DeleteObject, RecordDeleted
<1>3. ActorsOK'
  BY <1>1, <1>2, WorkersSame DEF IInv, ActorsOK
<1>4. ASSUME SweepCommit(s) PROVE FilesTyped'
  BY <1>4 DEF SweepCommit, IInv, FilesTyped, RegStates
<1>5. ASSUME DeleteObject(s) PROVE FilesTyped'
  BY <1>5 DEF DeleteObject, IInv, FilesTyped
<1>6. ASSUME RecordDeleted(s) PROVE FilesTyped'
  BY Zenon, <1>6 DEF RecordDeleted, IInv, FilesTyped, RegStates
<1> QED
  BY <1>1, <1>3, <1>4, <1>5, <1>6 DEF StepOK

LEMMA SweptStep ==
    ASSUME IInv, NEW w \in Workers, Swept(w)
    PROVE  StepOK
<1>1. RowsOK' /\ Kept
  BY RowsSame DEF Swept, IInv
<1>2. worker[w].at # "idle" /\ UNCHANGED client
      /\ (FailWith(w, TRUE) \/ worker' = [worker EXCEPT ![w] = Idle])
  BY Zenon DEF Swept
<1>3. ActorsOK'
  BY Zenon, <1>1, <1>2, FailsWith, Rests
<1>4. FilesTyped'
  BY DEF Swept, IInv, FilesTyped
<1> QED
  BY <1>1, <1>3, <1>4 DEF StepOK

-----------------------------------------------------------------------------
(* Publication *)

LEMMA DoneMoves ==
    ASSUME IInv, Kept, NEW w \in Workers, worker[w].at # "idle", NEW res, Done(w, res),
           UNCHANGED client
    PROVE  ActorsOK'
<1>1. Goto(w, "sweep") \/ worker' = [worker EXCEPT ![w] = Idle]
  BY DEF Done
<1> QED
  BY <1>1, GoesTo, Rests DEF WorkerSteps, Reading

\* A job is completed with the result that a claim names which was read before.
LEMMA CompleteStep ==
    ASSUME IInv, NEW w \in Workers, worker[w].at \in {"finalizing", "resolving"},
           worker[w].seen.claim # NULL, CompleteWith(w, worker[w].seen.claim.result),
           UNCHANGED <<kind, ops, objects, client, sweep, faults>>
    PROVE  StepOK
<1> DEFINE j == worker[w].lease[1]
           c == worker[w].seen.claim
           r == Succeeded(job[j], c.result)
<1>1. worker[w].at # "idle" /\ worker[w].at \in Reading
  BY Zenon DEF Reading
<1>2. j \in JobIds /\ job[j] \in JobRow /\ job[j].hash \in Hashes
  BY Zenon, <1>1, Leased
<1>3. c \in ClaimRow /\ c # NULL /\ claim[job[j].hash] = c
  <2>1. worker[w].seen \in SeenRows /\ claim[job[j].hash] = c
    BY Zenon, <1>1 DEF IInv, ActorsOK, WorkerOK
  <2> QED
    BY <2>1 DEF SeenRows
<1>4. r \in JobRow /\ r.state = "SUCCEEDED" /\ r.result = c.result
      /\ r.hash = job[j].hash /\ r.key = job[j].key
  <2>1. c.result \in Attempts
    BY Zenon, <1>3 DEF ClaimRow
  <2> HIDE DEF c, j
  <2> QED
    BY Zenon, <1>2, <2>1 DEF Succeeded, JobRow, JobStates, Terminal
<1>5. job' = [job EXCEPT ![j] = r] /\ UNCHANGED <<scenario, claim, results, reg>>
  BY Zenon DEF CompleteWith
<1>6. Done(w, c.result)
  BY Zenon DEF CompleteWith
<1> HIDE DEF r, c, j
<1>7. r.state \in Terminal
  BY <1>4 DEF Terminal
<1>8. RowsOK' /\ Kept
  BY Zenon, <1>2, <1>3, <1>4, <1>5, <1>7, JobStep DEF IInv
<1>9. ActorsOK'
  BY <1>1, <1>6, <1>8, DoneMoves
<1>10. FilesTyped'
  BY Zenon, <1>5 DEF IInv, FilesTyped
<1> QED
  BY Zenon, <1>8, <1>9, <1>10 DEF StepOK

\* An attempt ends without a change of any row.
LEMMA RefusedStep ==
    ASSUME IInv, NEW w \in Workers, worker[w].at # "idle",
           Refused(w) \/ (/\ Goto(w, "resolve") \/ \E res : Done(w, res)
                          /\ UNCHANGED <<job, scenario, claim, results, reg>>),
           UNCHANGED <<kind, ops, objects, client, sweep, faults>>
    PROVE  StepOK
<1>1. UNCHANGED <<job, scenario, claim, results, reg>>
  BY Zenon DEF Refused
<1>2. RowsOK' /\ Kept
  BY Zenon, <1>1, RowsSame DEF IInv
<1>3. FilesTyped'
  BY <1>1 DEF IInv, FilesTyped
<1>4. ASSUME Refused(w) PROVE ActorsOK'
  <2>1. FailWith(w, TRUE) \/ FailWith(w, FALSE)
    <3>1. (kind = "REPORT") \in {TRUE, FALSE}
      BY Zenon
    <3>2. FailWith(w, kind = "REPORT")
      BY <1>4 DEF Refused
    <3>3. CASE kind = "REPORT"
      BY Zenon, <3>2, <3>3 DEF FailWith
    <3>4. CASE kind # "REPORT"
      BY Zenon, <3>2, <3>4 DEF FailWith
    <3> QED
      BY Zenon, <3>3, <3>4
  <2> QED
    BY Zenon, <1>2, <2>1, FailsWith
<1>5. ASSUME Goto(w, "resolve") PROVE ActorsOK'
  BY Zenon, <1>2, <1>5, GoesTo DEF WorkerSteps, Reading
<1>6. ASSUME NEW res, Done(w, res) PROVE ActorsOK'
  BY Zenon, <1>2, <1>6, DoneMoves
<1> QED
  BY Zenon, <1>2, <1>3, <1>4, <1>5, <1>6 DEF StepOK

LEMMA FirstStep ==
    ASSUME IInv, NEW w \in Workers, worker[w].at = "finalizing",
           claim[job[worker[w].lease[1]].hash] = NULL,
           Publish(w, worker[w].lease, job[worker[w].lease[1]].hash),
           UNCHANGED <<kind, ops, objects, client, sweep, faults>>
    PROVE  StepOK
<1> DEFINE a == worker[w].lease
           j == a[1]
           h == job[j].hash
           r == Succeeded(job[j], a)
<1>1. worker[w].at # "idle" /\ a \in Attempts /\ j \in JobIds /\ job[j] \in JobRow
      /\ h \in Hashes
  BY Zenon, Leased
<1>2. claim' = [claim EXCEPT ![h] = [job |-> j, result |-> a]]
      /\ results' = results \cup {a} /\ job' = [job EXCEPT ![j] = r]
      /\ worker' = [worker EXCEPT ![w] = Idle]
  BY DEF Publish
<1>3. claim[h] = NULL
  BY Zenon
<1>4. scenario' \in [JobIds -> ScenarioStates]
      /\ \A i \in JobIds \ {j} : scenario'[i] = scenario[i]
  <2>1. scenario' = scenario \/ scenario' = [scenario EXCEPT ![j] = "SUCCEEDED"]
    BY Zenon DEF Publish
  <2>2. scenario \in [JobIds -> ScenarioStates] /\ "SUCCEEDED" \in ScenarioStates
    BY DEF IInv, RowsOK, RowsTyped, ScenarioStates, Terminal
  <2> HIDE DEF j
  <2> QED
    BY Zenon, <2>1, <2>2
<1>5. r \in JobRow /\ r.state = "SUCCEEDED" /\ r.result = a /\ r.hash = h
      /\ r.key = job[j].key
  <2> HIDE DEF a, j
  <2> QED
    BY Zenon, <1>1 DEF Succeeded, JobRow, JobStates, Terminal
<1>6. reg' \in [Attempts -> RegStates]
  BY Zenon DEF Publish, IInv, FilesTyped, RegStates
<1>7. j = a[1] /\ h = job[j].hash
  BY Zenon
<1> HIDE DEF a, j, h, r
<1>8. RowsOK' /\ Kept
  <2>1. RowsOK
    BY DEF IInv
  <2>2. PublishedRows(a, j, h, r)
    BY Zenon, <1>2, <1>3, <1>4, <1>5, <1>7 DEF PublishedRows
  <2> QED
    BY Zenon, <1>1, <1>5, <2>1, <2>2, PublishStep
<1>9. ActorsOK'
  BY Zenon, <1>2, <1>8, Rests
<1>10. FilesTyped'
  BY <1>6 DEF IInv, FilesTyped
<1> QED
  BY Zenon, <1>8, <1>9, <1>10 DEF StepOK

LEMMA FinalizeCommitStep ==
    ASSUME IInv, NEW w \in Workers, FinalizeCommit(w)
    PROVE  StepOK
<1>1. worker[w].at = "finalizing" /\ UNCHANGED <<kind, ops, objects, client, sweep, faults>>
  BY Zenon DEF FinalizeCommit
<1>2. \/ \E res : Done(w, res) /\ UNCHANGED <<job, scenario, claim, results, reg>>
      \/ /\ worker[w].seen.claim # NULL
         /\ CompleteWith(w, worker[w].seen.claim.result)
      \/ /\ claim[job[worker[w].lease[1]].hash] = NULL
         /\ Publish(w, worker[w].lease, job[worker[w].lease[1]].hash)
      \/ Goto(w, "resolve") /\ UNCHANGED <<job, scenario, claim, results, reg>>
      \/ Refused(w)
  BY Zenon DEF FinalizeCommit
<1> QED
  BY Zenon, <1>1, <1>2, CompleteStep, FirstStep, RefusedStep

LEMMA ResolveCommitStep ==
    ASSUME IInv, NEW w \in Workers, ResolveCommit(w)
    PROVE  StepOK
<1>1. worker[w].at = "resolving" /\ UNCHANGED <<kind, ops, objects, client, sweep, faults>>
  BY Zenon DEF ResolveCommit
<1>2. \/ /\ worker[w].seen.claim # NULL
         /\ CompleteWith(w, worker[w].seen.claim.result)
      \/ Refused(w)
  BY DEF ResolveCommit
<1> QED
  BY Zenon, <1>1, <1>2, CompleteStep, RefusedStep

-----------------------------------------------------------------------------
(* Theorems *)

LEMMA InitHolds == Init => IInv
<1> SUFFICES ASSUME Init PROVE IInv
  OBVIOUS
<1>1. \A j \in JobIds : job[j] = NoJob
  BY Zenon DEF Init
<1>2. RowsTyped
  BY Zenon, <1>1, NoJobTyped DEF Init, RowsTyped, ScenarioStates
<1>3. JobsOK /\ LiveJobsKeyed /\ ResultsAgree
  BY Zenon, <1>1, NoJobTyped DEF Init, JobsOK, LiveJobsKeyed, ResultsAgree
<1>4. ResultsOwned /\ ClaimsOK /\ OneResultPerRequest /\ ScenarioHasResult
  BY Zenon DEF Init, ResultsOwned, ClaimsOK, OneResultPerRequest, ScenarioHasResult
<1>5. FilesTyped
  BY CalculationConstants DEF Init, FilesTyped, RegStates
<1>6. ActorsOK
  BY Zenon, IdleTyped DEF Init, ActorsOK, WorkerOK, Reading
<1> QED
  BY <1>2, <1>3, <1>4, <1>5, <1>6 DEF IInv, RowsOK

LEMMA WorkerStepOK ==
    ASSUME IInv, NEW w \in Workers, WorkerStep(w)
    PROVE  StepOK
BY Zenon, LeaseStep, BeginSteps, MarkCommitStep, ComputeSteps, RegisterStep, PutStep,
   StageCommitStep, FinalizeCommitStep, ResolveCommitStep, SweptStep, FailStep,
   SyncTerminalStateStep DEF WorkerStep

LEMMA NextOK ==
    ASSUME IInv, [Next]_vars
    PROVE  StepOK
<1>1. CASE UNCHANGED vars
  <2>1. RowsOK' /\ Kept
    BY Zenon, <1>1, RowsSame DEF vars, IInv
  <2>2. ActorsOK'
    BY Zenon, <1>1, <2>1, WorkersSame DEF vars, IInv, ActorsOK
  <2>3. FilesTyped'
    BY Zenon, <1>1 DEF vars, IInv, FilesTyped
  <2> QED
    BY Zenon, <2>1, <2>2, <2>3 DEF StepOK
<1>2. CASE Next
  <2>1. ASSUME NEW c \in Clients,
               (\E k \in Keys, h \in Hashes : Submit(c, k, h)) \/ SubmitCommit(c)
        PROVE  StepOK
    BY <2>1, SubmitStep, SubmitCommitStep
  <2>2. ASSUME NEW k \in Keys, ExpireOperation(k) PROVE StepOK
    BY <2>2, ExpireOperationStep
  <2>3. ASSUME NEW j \in JobIds, CancelScenario(j) \/ LeaseExpires(j) \/ RescueExpired(j)
        PROVE  StepOK
    BY <2>3, CancelScenarioStep, LeaseExpiresStep, RescueExpiredStep
  <2>4. ASSUME NEW w \in Workers, WorkerStep(w) \/ Crash(w) PROVE StepOK
    BY <2>4, WorkerStepOK, CrashStep
  <2>5. ASSUME NEW s \in Workers \cup Sweepers, SweepStep(s) PROVE StepOK
    BY <2>5, SweepBeginStep, SweepSteps DEF SweepStep
  <2> QED
    BY <1>2, <2>1, <2>2, <2>3, <2>4, <2>5 DEF Next
<1> QED
  BY <1>1, <1>2

\* What IInv says about the rows, in the words of the properties.
LEMMA IInvConsistent == IInv => Consistent
<1> SUFFICES ASSUME IInv PROVE Consistent
  BY Zenon
<1>1. TypeOK
  BY Zenon DEF IInv, RowsOK, RowsTyped, FilesTyped, TypeOK
<1>2. OneLiveJobPerKey
  <2> SUFFICES ASSUME NEW i \in JobIds, NEW j \in JobIds, i # j,
                      job[i].key = job[j].key, job[i].key # NULL,
                      job[i].state \notin Terminal, job[j].state \notin Terminal
               PROVE  FALSE
    BY Zenon DEF OneLiveJobPerKey
  <2>1. ops[job[i].key].job = i /\ ops[job[j].key].job = j
    BY DEF IInv, RowsOK, LiveJobsKeyed
  <2> QED
    BY <2>1
<1> QED
  BY <1>1, <1>2 DEF IInv, RowsOK, Consistent

LEMMA IInvHolds == Spec => []IInv
<1>1. IInv /\ [Next]_vars => IInv'
  BY NextOK DEF StepOK, IInv
<1> QED
  BY <1>1, InitHolds, PTL DEF Spec

\* Results are consistent: a job that succeeded names the one stored result that
\* is claimed for its request, a request has one result at most, one key never
\* has two jobs to be worked on, and a scenario that reads SUCCEEDED has a result
\* of its own job (_finalize_once, _resolve_semantic_race, submit, cancel).
THEOREM ResultsConsistent == Spec => []Consistent
BY IInvHolds, IInvConsistent, PTL

\* The claim of a request is never replaced or withdrawn, and neither is the
\* result that it names (_finalize_once, _resolve_semantic_race).
ClaimIsFinal ==
    [][\A h \in Hashes : claim[h] # NULL =>
         claim'[h] = claim[h] /\ claim[h].result \in results']_vars

\* What a publication has claimed for a request stays, whichever attempts, rescues,
\* cancellations and sweeps overlap it (_finalize_once).
THEOREM ClaimedForGood == Spec => ClaimIsFinal
<1>1. IInv /\ [Next]_vars =>
        [\A h \in Hashes : claim[h] # NULL =>
           claim'[h] = claim[h] /\ claim[h].result \in results']_vars
  <2> SUFFICES ASSUME IInv, [Next]_vars, NEW h \in Hashes, claim[h] # NULL
               PROVE  claim'[h] = claim[h] /\ claim[h].result \in results'
    OBVIOUS
  <2>1. RowsOK' /\ Kept
    BY NextOK DEF StepOK
  <2> QED
    BY <2>1 DEF RowsOK, ClaimsOK, Kept
<1> QED
  BY <1>1, IInvHolds, PTL DEF Spec, ClaimIsFinal
=============================================================================
