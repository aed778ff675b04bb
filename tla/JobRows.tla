------------------------------ MODULE JobRows ------------------------------
(***************************************************************************)
(* What each transaction of the job queue does to one job.  A row gathers   *)
(* the columns of the job, of its import and of its attempts that the       *)
(* queue reads or writes; the operators below are the bodies of the         *)
(* JobService methods (packages/persistence/.../jobs.py) and of the other   *)
(* transactions that write job rows, as functions from the row a            *)
(* transaction loaded to the row it wants to store.                         *)
(*                                                                          *)
(* Left out: failure codes, completion times, audit events, telemetry.      *)
(***************************************************************************)
EXTENDS Integers

CONSTANTS
    Workers,        \* worker identities (lease_owner)
    NULL,           \* SQL NULL
    MaxAttempts,    \* max_attempts of a job
    LeaseDuration,  \* LEASE_DURATION, in clock ticks
    RetryBase,      \* RETRY_BASE, in clock ticks
    MaxRetryDelay   \* the 300 second cap of _retry_delay, in clock ticks

ASSUME RowConstants ==
    /\ NULL \notin Workers
    /\ NULL \notin Nat
    /\ MaxAttempts \in Nat \ {0}
    /\ LeaseDuration \in Nat \ {0}
    /\ RetryBase \in Nat
    /\ MaxRetryDelay \in Nat

-----------------------------------------------------------------------------
(* The row *)

ActiveStates   == {"LEASED", "RUNNING"}
TerminalStates == {"SUCCEEDED", "FAILED", "CANCELLED"}
JobStates      == {"QUEUED"} \cup ActiveStates \cup TerminalStates

\* "NONE" is the import of a job that has no import.
ImportStates   == {"NONE", "QUEUED", "PROCESSING", "READY", "FAILED"}

\* "NONE" is an attempt row that was never inserted.
AttemptStates  == {"NONE", "LEASED", "RUNNING", "SUCCEEDED", "FAILED",
                   "EXPIRED", "CANCELLED"}

Generations    == 1..MaxAttempts

Row == [state     : JobStates,
        cancel    : BOOLEAN,                 \* cancel_requested
        owner     : Workers \cup {NULL},     \* lease_owner
        gen       : 0..MaxAttempts,          \* fencing_generation
        count     : 0..MaxAttempts,          \* attempt_count
        expires   : Nat \cup {NULL},         \* lease_expires_at
        notBefore : Nat,                     \* not_before
        imported  : ImportStates,            \* state of the import row
        draft     : 0..MaxAttempts,          \* generation whose readings are stored, 0: none
        attempts  : [Generations -> AttemptStates]]

\* A job as its submission inserts it.
NewRow(imported) ==
    [state |-> "QUEUED", cancel |-> FALSE, owner |-> NULL, gen |-> 0,
     count |-> 0, expires |-> NULL, notBefore |-> 0, imported |-> imported,
     draft |-> 0, attempts |-> [g \in Generations |-> "NONE"]]

\* The ORM updates, by primary key, the columns whose value differs from the
\* one it loaded; a column that another transaction has written since then is
\* overwritten when it is among them and keeps that write when it is not.
Merge(cur, old, new) ==
    LET Col(c, o, n) == IF n # o THEN n ELSE c
    IN  [state     |-> Col(cur.state, old.state, new.state),
         cancel    |-> Col(cur.cancel, old.cancel, new.cancel),
         owner     |-> Col(cur.owner, old.owner, new.owner),
         gen       |-> Col(cur.gen, old.gen, new.gen),
         count     |-> Col(cur.count, old.count, new.count),
         expires   |-> Col(cur.expires, old.expires, new.expires),
         notBefore |-> Col(cur.notBefore, old.notBefore, new.notBefore),
         imported  |-> Col(cur.imported, old.imported, new.imported),
         draft     |-> Col(cur.draft, old.draft, new.draft),
         attempts  |-> [g \in Generations |->
                          Col(cur.attempts[g], old.attempts[g], new.attempts[g])]]

-----------------------------------------------------------------------------
(* Helpers of jobs.py *)

\* The import's state follows the job only where the job is an import.
WithImport(r, s) == IF r.imported = "NONE" THEN r ELSE [r EXCEPT !.imported = s]

Release(r) == [r EXCEPT !.owner = NULL, !.expires = NULL]

\* _lease_matches: kind, scope and resource identifiers never change, so owner
\* and generation decide.  A lease is [job, gen] held by worker w.
LeaseMatches(r, w, g) == r.owner = w /\ r.gen = g

\* The check of start and current_fenced_job apart from the job's state.  now
\* is the time the caller passes in; scopeOk is _scope_is_valid.
FenceHolds(r, w, g, now, scopeOk) ==
    /\ LeaseMatches(r, w, g)
    /\ r.expires # NULL
    /\ now < r.expires
    /\ ~r.cancel
    /\ scopeOk

Pow2 == <<1, 2, 4, 8, 16, 32, 64, 128>>

\* _retry_delay: exponential up to the eighth attempt, up to a quarter of
\* jitter, capped.
RetryDelays(attempts) ==
    LET base == RetryBase * Pow2[IF attempts < 8 THEN attempts ELSE 8]
    IN  {IF base + jitter < MaxRetryDelay THEN base + jitter ELSE MaxRetryDelay :
            jitter \in 0..(base \div 4)}

-----------------------------------------------------------------------------
(* Transactions on one row *)

\* (mutant) the query without its cancel_requested filter
LeasableEvenCancelled(r, now) == r.state = "QUEUED" /\ r.notBefore <= now

\* lease_next, the filter of its query.
Leasable(r, now) == r.state = "QUEUED" /\ r.notBefore <= now /\ ~r.cancel

\* (mutant) one attempt too many
BudgetLeftOffByOne(r) == r.count <= MaxAttempts

\* lease_next and rescue_expired: attempts remain.
BudgetLeft(r) == r.count < MaxAttempts

\* lease_next, a job whose scope is fenced or whose attempts are used up.
FinishedWithoutLease(r, scopeOk) ==
    IF scopeOk
    THEN WithImport(Release([r EXCEPT !.state = "FAILED"]), "FAILED")
    ELSE Release([r EXCEPT !.state = "CANCELLED"])

\* (mutant) the generation is bumped by the first lease only
LeasedInSameGeneration(r, w, now) ==
    WithImport([r EXCEPT !.state = "LEASED", !.owner = w, !.gen = 1, !.count = @ + 1,
                         !.expires = now + LeaseDuration, !.attempts[1] = "LEASED"],
               "PROCESSING")

\* (mutant) the attempt is not counted
LeasedUncounted(r, w, now) ==
    WithImport([r EXCEPT !.state = "LEASED", !.owner = w, !.gen = @ + 1,
                         !.expires = now + LeaseDuration,
                         !.attempts[r.gen + 1] = "LEASED"], "PROCESSING")

\* (mutant) the lease ends the moment it begins
LeasedForNoTime(r, w, now) ==
    WithImport([r EXCEPT !.state = "LEASED", !.owner = w, !.gen = @ + 1, !.count = @ + 1,
                         !.expires = now, !.attempts[r.gen + 1] = "LEASED"], "PROCESSING")

\* lease_next, the job it leases.
Leased(r, w, now) ==
    WithImport([r EXCEPT !.state = "LEASED",
                         !.owner = w,
                         !.gen = @ + 1,
                         !.count = @ + 1,
                         !.expires = now + LeaseDuration,
                         !.attempts[r.gen + 1] = "LEASED"], "PROCESSING")

\* start
Started(r, g) == [r EXCEPT !.state = "RUNNING", !.attempts[g] = "RUNNING"]

\* fail; retryAt is now plus the backoff.
Failed(r, g, scopeOk, retryable, retryAt) ==
    IF ~scopeOk
    THEN Release([r EXCEPT !.state = "CANCELLED", !.attempts[g] = "CANCELLED"])
    ELSE IF retryable /\ BudgetLeft(r)
    THEN WithImport(Release([r EXCEPT !.state = "QUEUED",
                                      !.notBefore = retryAt,
                                      !.attempts[g] = "FAILED"]), "QUEUED")
    ELSE WithImport(Release([r EXCEPT !.state = "FAILED",
                                      !.attempts[g] = "FAILED"]), "FAILED")

\* (mutant) only jobs that were started are rescued
ExpiredOnceStarted(r, now) == r.state = "RUNNING" /\ r.expires # NULL /\ r.expires <= now

\* rescue_expired, the filter of its query: a NULL expiry never matches.
Expired(r, now) == r.state \in ActiveStates /\ r.expires # NULL /\ r.expires <= now

\* (mutant) the import is left PROCESSING
RescuedWithoutImport(r, scopeOk, now) ==
    Release([r EXCEPT !.attempts[r.gen] = "EXPIRED", !.notBefore = now,
                      !.state = IF ~scopeOk THEN "CANCELLED"
                                ELSE IF BudgetLeft(r) THEN "QUEUED" ELSE "FAILED"])

\* rescue_expired, one of the jobs it found.
Rescued(r, scopeOk, now) ==
    LET x == [r EXCEPT !.attempts[r.gen] = "EXPIRED"]
    IN  IF ~scopeOk
        THEN Release([x EXCEPT !.state = "CANCELLED"])
        ELSE IF ~BudgetLeft(r)
        THEN WithImport(Release([x EXCEPT !.state = "FAILED"]), "FAILED")
        ELSE WithImport(Release([x EXCEPT !.state = "QUEUED", !.notBefore = now]), "QUEUED")

\* JobService.cancel leaves the lease and the attempt as they are.
Cancelled(r) ==
    WithImport([r EXCEPT !.cancel = TRUE, !.state = "CANCELLED"], "FAILED")

\* complete_system
Completed(r, g) ==
    Release([r EXCEPT !.state = "SUCCEEDED", !.attempts[g] = "SUCCEEDED"])

\* (mutant) the lease is not compared
PublishableByAnyone(r, w, g, importOk) ==
    r.state = "RUNNING" /\ r.imported = "PROCESSING" /\ importOk /\ r.draft = 0

\* ImportService.publish_draft: neither the expiry nor cancel_requested nor
\* the account is looked at; importOk is the import's own lifecycle check.
Publishable(r, w, g, importOk) ==
    /\ r.state = "RUNNING"
    /\ LeaseMatches(r, w, g)
    /\ r.imported = "PROCESSING"
    /\ importOk
    /\ r.draft = 0

\* (mutant) the states are stored and the readings are not
PublishedWithoutReadings(r, g) ==
    [r EXCEPT !.state = "SUCCEEDED", !.imported = "READY", !.attempts[g] = "SUCCEEDED"]

\* publish_draft keeps lease_owner and lease_expires_at.
Published(r, g) ==
    [r EXCEPT !.state = "SUCCEEDED", !.imported = "READY", !.draft = g,
              !.attempts[g] = "SUCCEEDED"]

\* _fence_dependent_work on a job in the fenced scope.
Fenced(r) ==
    IF r.state = "QUEUED"
    THEN [r EXCEPT !.cancel = TRUE, !.state = "CANCELLED"]
    ELSE [r EXCEPT !.cancel = TRUE]

=============================================================================
