------------------------------ MODULE JobQueue ------------------------------
(***************************************************************************)
(* The PostgreSQL job queue: workers that poll, rescue expired leases,      *)
(* lease a job, start it and publish its result or fail, API requests that  *)
(* cancel a job or fence an account or an import for deletion, and the      *)
(* clock the leases run on.  Import jobs publish through                    *)
(* ImportService.publish_draft, system jobs (retention) finish through      *)
(* JobService.complete_system.                                              *)
(*                                                                          *)
(* PostgreSQL runs the code at READ COMMITTED and only lease_next locks the *)
(* job row it reads.  Every other transaction reads the row in one step     *)
(* (Begin...) and stores the columns it changed in a later one (...Commit), *)
(* and transactions of other processes may commit in between.               *)
(***************************************************************************)
EXTENDS JobRows

CONSTANTS
    ImportJobs,   \* jobs of kind IMPORT, each with an import of its own
    SystemJobs,   \* jobs of kind RETENTION
    Clients,      \* API processes
    Cancellable,  \* jobs a client may cancel through JobService.cancel
    Account,      \* the account that owns the import jobs
    MaxCrashes,   \* bound on the process crashes of a behaviour
    Overlapping   \* TRUE: transactions overlap; FALSE: they follow each other

Jobs  == ImportJobs \cup SystemJobs
Procs == Workers \cup Clients

\* A fence target is the account or the import of a job, named by the job.
Targets == {Account} \cup ImportJobs

ASSUME QueueConstants ==
    /\ ImportJobs \cap SystemJobs = {}
    /\ Workers \cap Clients = {}
    /\ Account \notin Jobs
    /\ Cancellable \subseteq ImportJobs
    /\ MaxCrashes \in Nat
    /\ Overlapping \in BOOLEAN

VARIABLES
    now,      \* wall clock
    job,      \* committed rows
    fenced,   \* targets that have left ACTIVE; they never return to it
    worker,   \* program state of each worker
    txn,      \* open transaction of each process
    crashes   \* processes that died so far

vars == <<now, job, fenced, worker, txn, crashes>>

-----------------------------------------------------------------------------
(* Transactions *)

Ops == {"RESCUE", "START", "PUBLISH", "COMPLETE", "FAIL", "CANCEL", "FENCE"}

NoTxn == [op |-> "NONE", snap |-> <<>>, valid |-> {}, target |-> NULL, retryable |-> FALSE]

Open(p) == txn[p].op # "NONE"

\* _scope_is_valid: account and import are ACTIVE with the captured
\* generations, and a generation moves exactly when a fence leaves ACTIVE.
\* A system job has no scope.
ScopeValid(j) == j \in SystemJobs \/ (Account \notin fenced /\ j \notin fenced)

\* The lifecycle check of publish_draft stops at the import.
ImportActive(j) == j \notin fenced

MayBegin(p) == ~Open(p) /\ (Overlapping \/ \A q \in Procs : ~Open(q))

Txn(op, S, valid, target, retryable) ==
    [op |-> op, snap |-> [j \in S |-> job[j]], valid |-> valid,
     target |-> target, retryable |-> retryable]

Begin(p, t) == MayBegin(p) /\ txn' = [txn EXCEPT ![p] = t]

Close(p) == txn' = [txn EXCEPT ![p] = NoTxn]

\* The scope is read after the row and before the commit, and only ever
\* turns invalid: it was still valid for one of these sets of rows.
ScopesSeen(p, stillValid) ==
    {V \in SUBSET txn[p].valid : stillValid \cap txn[p].valid \subseteq V}

\* A fence holds the row lock of the import it fences until it commits, so a
\* transaction that stores the import's state waits for it.
ImportLocked(j) ==
    \E c \in Clients : txn[c].op = "FENCE" /\ txn[c].target = j

\* Store, for every row the transaction loaded, the columns that new changes.
Store(p, new) ==
    LET snap == txn[p].snap
    IN  /\ \A j \in DOMAIN new : new[j].imported # snap[j].imported => ~ImportLocked(j)
        /\ job' = [j \in Jobs |-> IF j \in DOMAIN new
                                  THEN Merge(job[j], snap[j], new[j])
                                  ELSE job[j]]

-----------------------------------------------------------------------------
(* Workers.  A worker reads the clock once per poll and passes that time to  *)
(* every call of the poll (run_once(now=...)).                              *)

PCs == {"idle", "rescue", "lease", "leased", "starting", "running",
        "publishing", "stale", "failing"}

\* Program counters at which the worker holds a lease object.
Holding == {"leased", "starting", "running", "publishing", "stale", "failing"}

Idle == [pc |-> "idle", now |-> 0, kind |-> {}, job |-> NULL, gen |-> 0]

Goto(w, pc) == worker' = [worker EXCEPT ![w].pc = pc]
Return(w)   == worker' = [worker EXCEPT ![w] = Idle]

\* lease_next begins with rescue_expired: read the expired jobs of every kind.
\* Without one there is nothing to store, and a poll for a kind that has no job
\* at all does nothing.
Poll(w, kind) ==
    LET S == {j \in Jobs : Expired(job[j], now)}
    IN  /\ worker[w].pc = "idle" /\ S \cup kind # {}
        /\ worker' = [worker EXCEPT ![w] =
                        [pc |-> IF S = {} THEN "lease" ELSE "rescue",
                         now |-> now, kind |-> kind, job |-> NULL, gen |-> 0]]
        /\ IF S = {}
           THEN UNCHANGED txn
           ELSE Begin(w, Txn("RESCUE", S, {j \in S : ScopeValid(j)}, NULL, FALSE))
        /\ UNCHANGED <<now, job, fenced, crashes>>

\* rescue_expired commits all of its rows at once.
RescueCommit(w) ==
    /\ worker[w].pc = "rescue"
    /\ \E V \in ScopesSeen(w, {j \in Jobs : ScopeValid(j)}) :
          Store(w, [j \in DOMAIN txn[w].snap |->
                      Rescued(txn[w].snap[j], j \in V, worker[w].now)])
    /\ Close(w)
    /\ Goto(w, "lease")
    /\ UNCHANGED <<now, fenced, crashes>>

\* lease_next's second transaction locks each row it reads (FOR UPDATE SKIP
\* LOCKED), so it is one step.  It finishes the jobs whose scope is fenced or
\* whose budget is spent until it meets one it can lease; rows that others
\* hold are skipped, so the order of creation does not decide which it meets.
LeaseNext(w) ==
    LET due  == {j \in worker[w].kind : Leasable(job[j], worker[w].now)}
        good == {j \in due : ScopeValid(j) /\ BudgetLeft(job[j])}
        Finish(D) == [j \in Jobs |-> IF j \in D
                                     THEN FinishedWithoutLease(job[j], ScopeValid(j))
                                     ELSE job[j]]
    IN  /\ worker[w].pc = "lease"
        /\ Overlapping \/ \A q \in Procs : ~Open(q)
        /\ \A j \in due : ~ImportLocked(j)
        /\ \/ /\ good = {}
              /\ job' = Finish(due)
              /\ Return(w)
           \/ \E j \in good, D \in SUBSET (due \ good) :
              LET leased == Leased(job[j], w, worker[w].now)
              IN  /\ job' = [Finish(D) EXCEPT ![j] = leased]
                  /\ worker' = [worker EXCEPT ![w].pc = "leased", ![w].job = j,
                                              ![w].gen = leased.gen]
        /\ UNCHANGED <<now, fenced, txn, crashes>>

\* A transaction of worker w on the job it holds.
BeginOnLease(w, op, valid, retryable) ==
    LET j == worker[w].job
    IN  Begin(w, Txn(op, {j}, {j} \cap valid, NULL, retryable))

\* start
StartBegin(w) ==
    /\ worker[w].pc = "leased"
    /\ BeginOnLease(w, "START", {j \in Jobs : ScopeValid(j)}, FALSE)
    /\ Goto(w, "starting")
    /\ UNCHANGED <<now, job, fenced, crashes>>

StartCommit(w) ==
    LET j == worker[w].job
        g == worker[w].gen
        r == txn[w].snap[j]
    IN  /\ worker[w].pc = "starting"
        /\ \E V \in ScopesSeen(w, {k \in Jobs : ScopeValid(k)}) :
              \/ /\ r.state = "LEASED"
                 /\ FenceHolds(r, w, g, worker[w].now, j \in V)
                 /\ Store(w, [k \in {j} |-> Started(r, g)])
                 /\ Goto(w, "running")
              \/ /\ ~(r.state = "LEASED" /\ FenceHolds(r, w, g, worker[w].now, j \in V))
                 /\ UNCHANGED job
                 /\ Return(w)
        /\ Close(w)
        /\ UNCHANGED <<now, fenced, crashes>>

\* The import worker parsed the upload and calls publish_draft.
PublishBegin(w) ==
    /\ worker[w].pc = "running" /\ worker[w].job \in ImportJobs
    /\ BeginOnLease(w, "PUBLISH", {j \in Jobs : ImportActive(j)}, FALSE)
    /\ Goto(w, "publishing")
    /\ UNCHANGED <<now, job, fenced, crashes>>

\* Readings that are already there make publish_draft return False when its
\* query sees them and violate uq_import_reading_start when it does not; either
\* way nothing is stored and the poll is over.
PublishCommit(w) ==
    LET j == worker[w].job
        g == worker[w].gen
        r == txn[w].snap[j]
    IN  /\ worker[w].pc = "publishing" /\ txn[w].op = "PUBLISH"
        /\ \E V \in ScopesSeen(w, {k \in Jobs : ImportActive(k)}) :
              \/ /\ Publishable(r, w, g, j \in V)
                 /\ job[j].draft = 0
                 /\ Store(w, [k \in {j} |-> Published(r, g)])
              \/ /\ ~Publishable(r, w, g, j \in V) \/ job[j].draft # 0
                 /\ UNCHANGED job
        /\ Close(w)
        /\ Return(w)
        /\ UNCHANGED <<now, fenced, crashes>>

\* The retention worker finished its sweeps and calls complete_system.
CompleteBegin(w) ==
    /\ worker[w].pc = "running" /\ worker[w].job \in SystemJobs
    /\ BeginOnLease(w, "COMPLETE", {j \in Jobs : ScopeValid(j)}, FALSE)
    /\ Goto(w, "publishing")
    /\ UNCHANGED <<now, job, fenced, crashes>>

\* A lost fence raises STALE_RETENTION_LEASE, which run_once turns into fail.
CompleteCommit(w) ==
    LET j == worker[w].job
        g == worker[w].gen
        r == txn[w].snap[j]
        ok == r.state = "RUNNING" /\ FenceHolds(r, w, g, worker[w].now, TRUE)
    IN  /\ worker[w].pc = "publishing" /\ txn[w].op = "COMPLETE"
        /\ \/ /\ ok
              /\ Store(w, [k \in {j} |-> Completed(r, g)])
              /\ Return(w)
           \/ /\ ~ok
              /\ UNCHANGED job
              /\ Goto(w, "stale")
        /\ Close(w)
        /\ UNCHANGED <<now, fenced, crashes>>

\* The attempt failed: parse errors, a stale retention lease and retention
\* errors are final, storage and database errors are retryable.
FailBegin(w) ==
    /\ \E retryable \in BOOLEAN :
          /\ \/ worker[w].pc = "running"
             \/ worker[w].pc = "stale" /\ ~retryable
          /\ BeginOnLease(w, "FAIL", {j \in Jobs : ScopeValid(j)}, retryable)
    /\ Goto(w, "failing")
    /\ UNCHANGED <<now, job, fenced, crashes>>

\* fail checks the lease, but neither its expiry nor cancel_requested.
FailCommit(w) ==
    LET j == worker[w].job
        g == worker[w].gen
        r == txn[w].snap[j]
        ok == r.state \in ActiveStates /\ LeaseMatches(r, w, g)
    IN  /\ worker[w].pc = "failing"
        /\ \/ /\ ok
              /\ \E V \in ScopesSeen(w, {k \in Jobs : ScopeValid(k)}),
                    delay \in RetryDelays(r.count) :
                    Store(w, [k \in {j} |-> Failed(r, g, j \in V, txn[w].retryable,
                                                   worker[w].now + delay)])
           \/ ~ok /\ UNCHANGED job
        /\ Close(w)
        /\ Return(w)
        /\ UNCHANGED <<now, fenced, crashes>>

-----------------------------------------------------------------------------
(* API requests *)

\* JobService.cancel
CancelBegin(c, j) ==
    /\ job[j].state \notin TerminalStates
    /\ Begin(c, Txn("CANCEL", {j}, {}, NULL, FALSE))
    /\ UNCHANGED <<now, job, fenced, worker, crashes>>

CancelCommit(c) ==
    LET snap == txn[c].snap
    IN  /\ txn[c].op = "CANCEL"
        /\ Store(c, [j \in DOMAIN snap |-> Cancelled(snap[j])])
        /\ Close(c)
        /\ UNCHANGED <<now, fenced, worker, crashes>>

\* The jobs _fence_dependent_work selects for a target.
Dependent(t) == {j \in ImportJobs : /\ t = Account \/ t = j
                                    /\ job[j].state \notin TerminalStates}

\* _fence_prepared locks the user and the target row, so an account's fences
\* follow each other; it reads the dependent jobs without locking them.
FenceBegin(c, t) ==
    /\ t \notin fenced /\ Account \notin fenced
    /\ \A d \in Clients : txn[d].op # "FENCE"
    /\ Begin(c, Txn("FENCE", Dependent(t), {}, t, FALSE))
    /\ UNCHANGED <<now, job, fenced, worker, crashes>>

FenceCommit(c) ==
    LET snap == txn[c].snap
    IN  /\ txn[c].op = "FENCE"
        /\ Store(c, [j \in DOMAIN snap |-> Fenced(snap[j])])
        /\ fenced' = fenced \cup {txn[c].target}
        /\ Close(c)
        /\ UNCHANGED <<now, worker, crashes>>

-----------------------------------------------------------------------------
(* Environment *)

\* A process dies: its open transaction rolls back and its memory is lost.
\* An IntegrityError that run_once does not catch, such as the duplicate audit
\* event of two racing rescues, ends the process in the same way.
WorkerCrash(w) ==
    /\ worker[w].pc # "idle" /\ crashes < MaxCrashes
    /\ crashes' = crashes + 1
    /\ Return(w)
    /\ Close(w)
    /\ UNCHANGED <<now, job, fenced>>

ClientCrash(c) ==
    /\ Open(c) /\ crashes < MaxCrashes
    /\ crashes' = crashes + 1
    /\ Close(c)
    /\ UNCHANGED <<now, job, fenced, worker>>

\* Time passes.  Nothing reads the clock but the deadlines below, so it
\* stands still once it is past all of them.
Deadline(r) == \/ r.expires # NULL /\ r.expires > now
               \/ r.state = "QUEUED" /\ r.notBefore > now

Tick ==
    /\ \E j \in Jobs : Deadline(job[j])
    /\ now' = now + 1
    /\ UNCHANGED <<job, fenced, worker, txn, crashes>>

-----------------------------------------------------------------------------

Init ==
    /\ now = 0
    /\ job = [j \in Jobs |-> NewRow(IF j \in ImportJobs THEN "QUEUED" ELSE "NONE")]
    /\ fenced = {}
    /\ worker = [w \in Workers |-> Idle]
    /\ txn = [p \in Procs |-> NoTxn]
    /\ crashes = 0

\* What a worker does by itself once it has polled.
WorkerStep(w) ==
    \/ RescueCommit(w) \/ LeaseNext(w)
    \/ StartBegin(w) \/ StartCommit(w)
    \/ PublishBegin(w) \/ PublishCommit(w)
    \/ CompleteBegin(w) \/ CompleteCommit(w)
    \/ FailBegin(w) \/ FailCommit(w)

ClientStep(c) ==
    \/ CancelCommit(c)
    \/ FenceCommit(c)

Next ==
    \/ \E w \in Workers : \/ \E kind \in {ImportJobs, SystemJobs} : Poll(w, kind)
                          \/ WorkerStep(w)
                          \/ WorkerCrash(w)
    \/ \E c \in Clients : \/ \E j \in Cancellable : CancelBegin(c, j)
                          \/ \E t \in Targets : FenceBegin(c, t)
                          \/ ClientStep(c)
                          \/ ClientCrash(c)
    \/ Tick

Spec == Init /\ [][Next]_vars

-----------------------------------------------------------------------------
(* Properties *)

WorkerStates == [pc : PCs, now : Nat, kind : SUBSET Jobs, job : Jobs \cup {NULL},
                 gen : 0..MaxAttempts]

TxnOK(t) ==
    /\ t.op \in Ops \cup {"NONE"}
    /\ DOMAIN t.snap \subseteq Jobs
    /\ \A j \in DOMAIN t.snap : t.snap[j] \in Row
    /\ t.valid \subseteq Jobs
    /\ t.op = "FENCE" => t.target \in Targets
    /\ t.retryable \in BOOLEAN

WorkersOK ==
    /\ worker \in [Workers -> WorkerStates]
    /\ \A w \in Workers : worker[w].pc \in Holding => worker[w].job \in Jobs /\ worker[w].gen > 0

TxnsOK ==
    /\ txn = [p \in Procs |-> txn[p]]
    /\ \A p \in Procs : TxnOK(txn[p])

\* Every variable has its type, a worker that holds a lease knows its job, and
\* a job is never handed out more than max_attempts times.
TypeOK ==
    /\ now \in Nat
    /\ job \in [Jobs -> Row]
    /\ fenced \subseteq Targets
    /\ crashes \in 0..MaxCrashes
    /\ WorkersOK
    /\ TxnsOK

\* A fencing token (job, generation) is handed out once: no two workers hold
\* the same one, and none holds a generation the job has not reached.  This is
\* what every check of lease_owner and fencing_generation rests on.
FencingTokensUnique ==
    /\ \A w \in Workers : worker[w].pc \in Holding => worker[w].gen <= job[worker[w].job].gen
    /\ \A v, w \in Workers :
          v # w /\ worker[v].pc \in Holding /\ worker[w].pc \in Holding
             => <<worker[v].job, worker[v].gen>> # <<worker[w].job, worker[w].gen>>

\* attempt_count, fencing_generation and the attempt rows of a job agree,
\* whichever transactions overwrote each other: an attempt row exists exactly
\* for the generations handed out, and there are at most max_attempts.
AttemptsAccounted ==
    \A j \in Jobs : /\ job[j].count = job[j].gen
                    /\ \A g \in Generations : job[j].attempts[g] = "NONE" <=> g > job[j].gen

\* Once cancel_requested is stored no transaction resets it, and lease_next
\* hands the job out no more.
NoLeaseOnceCancelled ==
    [][\A j \in Jobs : job[j].cancel => job'[j].cancel /\ job'[j].gen = job[j].gen]_vars

\* An import that is READY, or whose job SUCCEEDED, has its readings: the two
\* states and the readings come from one transaction of publish_draft.
SucceededHasDraft ==
    \A j \in ImportJobs : job[j].state = "SUCCEEDED" \/ job[j].imported = "READY"
                             => job[j].draft # 0

\* A worker passes the time of its poll to every call, so the expiry it finds
\* in the row it still owns is never in its past, however long it took: the
\* check now < lease_expires_at refuses no holder, owner and generation do.
HolderNeverSeesExpiry ==
    \A w \in Workers : worker[w].pc \in Holding =>
       LET r == job[worker[w].job]
       IN  LeaseMatches(r, w, worker[w].gen) /\ r.expires # NULL => worker[w].now < r.expires

\* A leased or running job carries the expiry by which rescue_expired finds it
\* after its worker is lost.
InProgressExpires ==
    \A j \in Jobs : job[j].state \in ActiveStates => job[j].expires # NULL

\* Readings are stored by the holder of the job's current lease while its job
\* is RUNNING, and by no other.
PublishedUnderLease ==
    [][\A j \in ImportJobs : job'[j].draft # job[j].draft =>
          /\ job[j].state = "RUNNING"
          /\ job[j].gen = job'[j].draft
          /\ job[j].owner # NULL]_vars

\* A stale attempt does not publish after a replacement lease: the readings
\* that are stored are those of the job's current generation.
NoStalePublication ==
    [][\A j \in ImportJobs : job'[j].draft # job[j].draft => job'[j].draft = job[j].gen]_vars

\* The state of the import is the one the state of its job calls for.
ImportFollowsJob ==
    \A j \in ImportJobs :
       /\ job[j].state = "QUEUED"        => job[j].imported = "QUEUED"
       /\ job[j].state \in ActiveStates  => job[j].imported = "PROCESSING"
       /\ job[j].state = "SUCCEEDED"     => job[j].imported = "READY"
       /\ job[j].state = "FAILED"        => job[j].imported = "FAILED"

\* What holds of a job and its import between transactions that do not overlap:
\* the expiry by which a lost worker is found, and an import in step with it.
SerialConsistent == InProgressExpires /\ ImportFollowsJob

-----------------------------------------------------------------------------
(* Liveness.  Workers poll for each kind for ever (run_all), a transaction   *)
(* that began ends, and time passes.                                        *)

Fairness ==
    /\ \A w \in Workers : /\ WF_vars(WorkerStep(w))
                          /\ \A kind \in {ImportJobs, SystemJobs} : SF_vars(Poll(w, kind))
    /\ \A c \in Clients : WF_vars(ClientStep(c))
    /\ WF_vars(Tick)

FairSpec == Spec /\ Fairness

\* Every job reaches a terminal state: lease expiry, the attempt budget and the
\* scope checks leave no job queued or in progress for ever.
JobsTerminate == \A j \in Jobs : <>(job[j].state \in TerminalStates)

=============================================================================
