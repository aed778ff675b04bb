---------------------------- MODULE DeletionSweep ----------------------------
(***************************************************************************)
(* The sweep of an account, its import and the profile of that import       *)
(* (deletion_sweep.py, deletion_worker.py), with the deletions of the three *)
(* running at the same time: a deletion fences the deletions below it and   *)
(* completes them on their behalf.  Meanwhile a calculation is submitted,   *)
(* leased, staged and published by a writer that may be slow, late or dead. *)
(*                                                                          *)
(* The ledger and the object store are outside the database, so an append,  *)
(* a listing, a deletion of objects and a transaction are steps of their    *)
(* own.  Transactions that read without a lock are two steps.  How one      *)
(* deletion is prepared, fenced and requested by racing coordinators is the *)
(* subject of module Deletion: here these are single steps.                 *)
(***************************************************************************)
EXTENDS Naturals, FiniteSets

CONSTANTS
    Sweepers,      \* deletion workers
    MaxDeletions,  \* bound on the deletions that the owner asks for
    MaxFaults,     \* bound on crashes and on leases that expire under a worker
    NULL

Scopes == {"ACCOUNT", "IMPORT", "PROFILE"}

VARIABLES
    life,      \* lifecycle_state of each target; "GONE" has no row any more
    intent,    \* DeletionIntentRecord.state of each scope
    control,   \* DeletionControlOperationRecord.phase of each scope
    ledger,    \* events in the external chain of each scope
    receipt,   \* DeletionReceiptRecord.status of each scope
    audit,     \* DeletionAuditRecord.status_code of each scope
    request,   \* scopes whose REQUESTED transaction is open
    djob,      \* the deletion job of each scope
    sweeper,   \* where each deletion worker is
    client,    \* the submission of the calculation
    job,       \* the calculation job
    upload,    \* its ObjectUploadRegistrationRecord.state
    rows,      \* other rows of the owner
    objects,   \* the object store, below the owner's prefix
    writer,    \* the worker that runs the calculation
    late,      \* an object was stored under an expired lease
    faults

vars == <<life, intent, control, ledger, receipt, audit, request, djob,
          sweeper, client, job, upload, rows, objects, writer, late, faults>>

deletions == <<life, intent, control, ledger, receipt, audit, request, djob>>
work == <<client, job, upload, rows, objects, writer, late>>

-----------------------------------------------------------------------------
(* Rows *)

Parents(s) == CASE s = "PROFILE" -> {"IMPORT", "ACCOUNT"}
                [] s = "IMPORT"  -> {"ACCOUNT"}
                [] OTHER         -> {}
Children(s) == {c \in Scopes : s \in Parents(c)}

Phases == {"DRAIN", "SWEEP", "VERIFY", "COMPLETE"}

NoJob == [state |-> "NONE", cancel |-> FALSE, expired |-> FALSE]

NoDeletionJob == [state |-> "NONE", holder |-> NULL, cancel |-> FALSE]

Idle == [at |-> "idle", scope |-> NULL, children |-> {}, pending |-> FALSE,
         found |-> {}, budget |-> 0]

NoWriter == [at |-> "idle", seen |-> FALSE]

\* What _resource_graph and _sweep_owner_rows find below a scope.
DataRows(s) ==
    (rows \cap IF s = "PROFILE" THEN {"export"} ELSE {"export", "readings"})
    \cup {r \in {"job"} : job.state # "NONE"}
    \cup {r \in {"upload"} : upload # "NONE"}
    \cup {c \in Children(s) : life[c] # "GONE"}

\* _listed_resource_objects: the keys of rows that are left and the prefixes of
\* imports and jobs; an account lists all of its prefix.
Listed(s) ==
    objects \cap (CASE s = "ACCOUNT" -> {"raw", "artifact"}
                    [] s = "IMPORT"  -> {"raw"} \cup {o \in {"artifact"} : job.state # "NONE"}
                    [] OTHER         -> {o \in {"artifact"} : job.state # "NONE"})

TypeOK ==
    /\ life \in [Scopes -> {"ACTIVE", "DELETION_PENDING_LEDGER", "DELETING", "GONE"}]
    /\ intent \in [Scopes -> {"NONE", "PREPARED", "CONSUMED"}]
    /\ control \in [Scopes -> {"NONE", "FENCE"} \cup Phases]
    /\ ledger \in [Scopes -> {"NONE", "PREPARED", "REQUESTED", "COMPLETED"}]
    /\ receipt \in [Scopes -> {"NONE", "OPEN", "DELETED"}]
    /\ \A s \in Scopes : djob[s].state # "NONE" => control[s] \in Phases
    /\ \A s \in Scopes : control[s] \in Phases => djob[s].state # "NONE"
    /\ request \subseteq Scopes
    /\ rows \subseteq {"readings", "export"}
    /\ objects \subseteq {"raw", "artifact"}
    /\ \A p \in Sweepers : sweeper[p].scope \in Scopes \cup {NULL}

Init ==
    /\ life = [s \in Scopes |-> "ACTIVE"]
    /\ intent = [s \in Scopes |-> "NONE"]
    /\ control = [s \in Scopes |-> "NONE"]
    /\ ledger = [s \in Scopes |-> "NONE"]
    /\ receipt = [s \in Scopes |-> "NONE"]
    /\ audit = [s \in Scopes |-> "NONE"]
    /\ request = {}
    /\ djob = [s \in Scopes |-> NoDeletionJob]
    /\ sweeper = [p \in Sweepers |-> Idle]
    /\ client = "idle" /\ job = NoJob /\ upload = "NONE"
    /\ rows = {"readings"} /\ objects = {"raw"}
    /\ writer = NoWriter /\ late = FALSE
    /\ faults = 0

Fault == faults < MaxFaults /\ faults' = faults + 1

-----------------------------------------------------------------------------
(* The coordinator, one deletion per scope *)

\* start_resource_deletion and authorize_and_start up to _ensure_prepared.
Prepare(s) ==
    /\ intent[s] = "NONE" /\ receipt[s] = "NONE"
    /\ Cardinality({t \in Scopes : receipt[t] # "NONE"}) < MaxDeletions
    /\ life[s] = "ACTIVE" /\ life["ACCOUNT"] = "ACTIVE"
    /\ intent' = [intent EXCEPT ![s] = "PREPARED"]
    /\ ledger' = [ledger EXCEPT ![s] = "PREPARED"]
    /\ receipt' = [receipt EXCEPT ![s] = "OPEN"]
    /\ UNCHANGED <<life, control, audit, request, djob, sweeper, work, faults>>

\* The deletion jobs below a fenced scope are cancelled, ...
CancelDeletions(s) ==
    djob' = [c \in Scopes |->
        IF c \notin Children(s) THEN djob[c]
        ELSE CASE djob[c].state = "QUEUED"  -> [djob[c] EXCEPT !.state = "CANCELLED",
                                                               !.cancel = TRUE]
               [] djob[c].state = "RUNNING" -> [djob[c] EXCEPT !.cancel = TRUE]
               [] OTHER                     -> djob[c]]

\* ... and so is the calculation, which is below every scope.
CancelWork ==
    job' = CASE job.state = "QUEUED"  -> [job EXCEPT !.state = "ENDED", !.cancel = TRUE]
             [] job.state = "RUNNING" -> [job EXCEPT !.cancel = TRUE]
             [] OTHER                 -> job

\* _fence_prepared; of the scopes above, only the account has to be active.
Fence(s) ==
    /\ intent[s] = "PREPARED"
    /\ life[s] = "ACTIVE" /\ life["ACCOUNT"] = "ACTIVE"
    /\ life' = [life EXCEPT ![s] = "DELETION_PENDING_LEDGER"]
    /\ intent' = [intent EXCEPT ![s] = "CONSUMED"]
    /\ control' = [control EXCEPT ![s] = "FENCE"]
    /\ CancelDeletions(s)
    /\ CancelWork
    /\ UNCHANGED <<ledger, receipt, audit, request, sweeper, client, upload, rows,
                   objects, writer, late, faults>>

\* The account and, for a profile, the import are read without a lock.
Requestable(s) ==
    /\ control[s] = "FENCE" /\ life[s] = "DELETION_PENDING_LEDGER"
    /\ s # "ACCOUNT" => life["ACCOUNT"] = "ACTIVE"

AppendRequested(s) ==
    /\ Requestable(s) /\ ledger[s] = "PREPARED"
    /\ ledger' = [ledger EXCEPT ![s] = "REQUESTED"]
    /\ UNCHANGED <<life, intent, control, receipt, audit, request, djob, sweeper,
                   work, faults>>

RequestBegin(s) ==
    /\ Requestable(s) /\ ledger[s] = "REQUESTED" /\ s \notin request
    /\ s = "PROFILE" => life["IMPORT"] = "ACTIVE"
    /\ request' = request \cup {s}
    /\ UNCHANGED <<life, intent, control, ledger, receipt, audit, djob, sweeper,
                   work, faults>>

RequestCommit(s) ==
    /\ s \in request
    /\ request' = request \ {s}
    /\ life' = [life EXCEPT ![s] = "DELETING"]
    /\ control' = [control EXCEPT ![s] = "DRAIN"]
    /\ djob' = [djob EXCEPT ![s] = [NoDeletionJob EXCEPT !.state = "QUEUED"]]
    /\ UNCHANGED <<intent, ledger, receipt, audit, sweeper, work, faults>>

-----------------------------------------------------------------------------
(* Leases of deletion jobs *)

\* (mutant) Only the scope itself is looked at.
DeletionScopeIsValidAlone(s) == life[s] = "DELETING"

\* _deletion_scope_is_valid
DeletionScopeIsValid(s) ==
    /\ life[s] = "DELETING"
    /\ \A t \in Parents(s) : life[t] = "ACTIVE"

\* lease_next and start; a job whose scope is fenced is cancelled instead.
Lease(p, s) ==
    /\ sweeper[p].at = "idle"
    /\ djob[s].state = "QUEUED" /\ ~djob[s].cancel
    /\ IF DeletionScopeIsValid(s)
       THEN /\ djob' = [djob EXCEPT ![s].state = "RUNNING", ![s].holder = p]
            /\ sweeper' = [sweeper EXCEPT ![p] = [Idle EXCEPT !.at = "advance",
                                                              !.scope = s]]
       ELSE /\ djob' = [djob EXCEPT ![s].state = "CANCELLED"]
            /\ UNCHANGED sweeper
    /\ UNCHANGED <<life, intent, control, ledger, receipt, audit, request, work,
                   faults>>

\* The lease of a dead worker, or of one that is slow, expires and is rescued.
Rescue(s) ==
    /\ djob[s].state = "RUNNING"
    /\ \/ sweeper[djob[s].holder].scope # s /\ UNCHANGED faults
       \/ Fault
    /\ djob' = [djob EXCEPT ![s].holder = NULL, ![s].state =
                  IF DeletionScopeIsValid(s) THEN "QUEUED" ELSE "CANCELLED"]
    /\ UNCHANGED <<life, intent, control, ledger, receipt, audit, request,
                   sweeper, work>>

Crash(p) ==
    /\ sweeper[p].at # "idle"
    /\ Fault
    /\ sweeper' = [sweeper EXCEPT ![p] = Idle]
    /\ UNCHANGED <<deletions, work>>

\* _read_control and _locked_control.
Holds(p, phase) ==
    LET s == sweeper[p].scope IN
    /\ djob[s].state = "RUNNING" /\ djob[s].holder = p /\ ~djob[s].cancel
    /\ DeletionScopeIsValid(s)
    /\ control[s] = phase

At(p, step) == sweeper[p].at = step
Go(p, step) == sweeper' = [sweeper EXCEPT ![p].at = step]

\* The worker's fail: the job is queued again unless it was fenced.
GiveUp(p) ==
    LET s == sweeper[p].scope IN
    /\ djob' = IF djob[s].state = "RUNNING" /\ djob[s].holder = p
               THEN [djob EXCEPT ![s].holder = NULL, ![s].state =
                       IF DeletionScopeIsValid(s) THEN "QUEUED" ELSE "CANCELLED"]
               ELSE djob
    /\ sweeper' = [sweeper EXCEPT ![p] = Idle]
    /\ UNCHANGED <<life, intent, control, ledger, receipt, audit, request, work, faults>>

LostAt == [advance |-> Phases, drained |-> {"DRAIN"}, subsume |-> {"SWEEP"},
           sweep |-> {"SWEEP"}, verify |-> {"VERIFY"}, complete |-> {"COMPLETE"}]

\* A check of the fence fails: STALE_DELETION_LEASE.
Lost(p) ==
    /\ sweeper[p].at \in DOMAIN LostAt
    /\ sweeper[p].at = "subsume" => sweeper[p].children = {}
    /\ \A phase \in LostAt[sweeper[p].at] : ~Holds(p, phase)
    /\ GiveUp(p)

\* Five phases per lease, then DELETION_PHASE_BUDGET_EXHAUSTED.
Advanced(p) ==
    sweeper' = [sweeper EXCEPT ![p] = [Idle EXCEPT !.at = "advance",
                                   !.scope = sweeper[p].scope,
                                   !.budget = sweeper[p].budget + 1]]

Exhausted(p) == At(p, "advance") /\ sweeper[p].budget = 5 /\ GiveUp(p)

Advance(p, phase) == At(p, "advance") /\ sweeper[p].budget < 5 /\ Holds(p, phase)

-----------------------------------------------------------------------------
(* DRAIN *)

Live == job.state = "RUNNING" /\ ~job.expired

\* Leases below the scope: the calculation's and those of other deletions.
LiveBelow(s) == Live \/ \E c \in Children(s) : djob[c].state = "RUNNING"

\* The first transaction resolves the uploads that no live lease can finish.
Drain(p) ==
    LET s == sweeper[p].scope
        cleanup == \/ upload \in {"STAGED", "DELETE_PENDING"}
                   \/ upload = "REGISTERED" /\ ~Live IN
    /\ Advance(p, "DRAIN")
    /\ upload' = IF cleanup THEN "DELETE_PENDING" ELSE upload
    /\ sweeper' = [sweeper EXCEPT ![p].pending = LiveBelow(s), ![p].at =
                     IF cleanup THEN "cleanup" ELSE "drained"]
    /\ UNCHANGED <<deletions, client, job, rows, objects, writer, late, faults>>

DrainDelete(p) ==
    /\ At(p, "cleanup")
    /\ objects' = objects \ {"artifact"}
    /\ Go(p, "cleaned")
    /\ UNCHANGED <<deletions, client, job, upload, rows, writer, late, faults>>

DrainRecord(p) ==
    /\ At(p, "cleaned")
    /\ upload' = IF upload = "DELETE_PENDING" THEN "DELETED" ELSE upload
    /\ Go(p, "drained")
    /\ UNCHANGED <<deletions, client, job, rows, objects, writer, late, faults>>

\* (mutant) DRAIN does not wait for leases and uploads.
StillDrainingNever(p) == sweeper[p].scope = NULL

StillDraining(p) ==
    sweeper[p].pending \/ LiveBelow(sweeper[p].scope) \/ upload = "REGISTERED"

\* The second transaction looks again; DELETION_DRAIN_PENDING retries the job.
DrainCommit(p) ==
    /\ At(p, "drained") /\ Holds(p, "DRAIN")
    /\ IF StillDraining(p) THEN GiveUp(p)
       ELSE /\ control' = [control EXCEPT ![sweeper[p].scope] = "SWEEP"]
            /\ Advanced(p)
            /\ UNCHANGED <<life, intent, ledger, receipt, audit, request, djob,
                           work, faults>>

-----------------------------------------------------------------------------
(* SWEEP *)

\* (mutant) A deletion below the scope is left alone.
SubordinateNone(s) == {c \in Children(s) : control[c] = s}

\* _control_is_subordinate, of the controls that still have an intent.
Subordinate(s) ==
    {c \in Children(s) : /\ control[c] # "NONE" /\ intent[c] # "NONE"
                         /\ s = "IMPORT" => life[c] # "GONE"}

SweepRead(p) ==
    /\ Advance(p, "SWEEP")
    /\ sweeper' = [sweeper EXCEPT ![p].at = "subsume",
                                  ![p].children = Subordinate(sweeper[p].scope)]
    /\ UNCHANGED <<deletions, work, faults>>

\* The chain of a deletion below is closed on its behalf, event by event.
SubsumeAppend(p, c) ==
    /\ At(p, "subsume") /\ c \in sweeper[p].children
    /\ ledger[c] \in {"PREPARED", "REQUESTED"}
    /\ ledger' = [ledger EXCEPT ![c] = IF @ = "PREPARED" THEN "REQUESTED"
                                       ELSE "COMPLETED"]
    /\ UNCHANGED <<life, intent, control, receipt, audit, request, djob, sweeper,
                   work, faults>>

\* What a completed deletion leaves: its receipt and its audit record.
Closed(c, code) ==
    /\ receipt' = [receipt EXCEPT ![c] = "DELETED"]
    /\ audit' = [audit EXCEPT ![c] = code]
    /\ control' = [control EXCEPT ![c] = "NONE"]
    /\ intent' = [intent EXCEPT ![c] = "NONE"]
    /\ djob' = [djob EXCEPT ![c] = NoDeletionJob]

\* The control is locked, so a REQUESTED transaction that is open comes first.
SubsumeCommit(p, c) ==
    /\ At(p, "subsume") /\ c \in sweeper[p].children
    /\ ledger[c] = "COMPLETED" /\ c \notin request
    /\ IF control[c] # "NONE" THEN Closed(c, "SUBSUMED_BY_PARENT_DELETION")
       ELSE UNCHANGED <<receipt, audit, control, intent, djob>>
    /\ sweeper' = [sweeper EXCEPT ![p].children = @ \ {c}]
    /\ UNCHANGED <<life, ledger, request, work, faults>>

SweepList(p) ==
    /\ At(p, "subsume") /\ sweeper[p].children = {} /\ Holds(p, "SWEEP")
    /\ sweeper' = [sweeper EXCEPT ![p].at = "delete",
                                  ![p].found = Listed(sweeper[p].scope)]
    /\ UNCHANGED <<deletions, work, faults>>

SweepDelete(p) ==
    /\ At(p, "delete")
    /\ objects' = objects \ sweeper[p].found
    /\ Go(p, "sweep")
    /\ UNCHANGED <<deletions, client, job, upload, rows, writer, late, faults>>

\* _sweep_owner_rows and _delete_resource_rows: everything below the scope.
\* The row of the scope itself stays until COMPLETE.
DeleteRows(s) ==
    /\ job' = NoJob /\ upload' = "NONE"
    /\ rows' = rows \ (IF s = "PROFILE" THEN {"export"} ELSE {"export", "readings"})
    /\ life' = [c \in Scopes |-> IF c \in Children(s) THEN "GONE" ELSE life[c]]
    /\ djob' = [c \in Scopes |-> IF c \in Children(s) THEN NoDeletionJob ELSE djob[c]]

\* Only the rows of an account are deleted here; every intent of it goes too.
SweepCommit(p) ==
    LET s == sweeper[p].scope IN
    /\ At(p, "sweep") /\ Holds(p, "SWEEP")
    /\ control' = [control EXCEPT ![s] = "VERIFY"]
    /\ IF s = "ACCOUNT"
       THEN DeleteRows(s) /\ intent' = [c \in Scopes |-> "NONE"]
       ELSE UNCHANGED <<job, upload, rows, life, djob, intent>>
    /\ Advanced(p)
    /\ UNCHANGED <<ledger, receipt, audit, request, client, objects, writer, late, faults>>

-----------------------------------------------------------------------------
(* VERIFY and COMPLETE *)

\* The rows are counted and the graph is read before the objects are listed.
VerifyRead(p) ==
    LET s == sweeper[p].scope IN
    /\ Advance(p, "VERIFY")
    /\ sweeper' = [sweeper EXCEPT ![p].at = "verify_list",
                     ![p].pending = s = "ACCOUNT" /\ DataRows(s) # {},
                     ![p].found = {"raw", "artifact"} \ (CASE s = "ACCOUNT" -> {}
                        [] s = "IMPORT" -> {o \in {"artifact"} : job.state = "NONE"}
                        [] OTHER -> {"raw"} \cup {o \in {"artifact"} : job.state = "NONE"})]
    /\ UNCHANGED <<deletions, work, faults>>

VerifyList(p) ==
    /\ At(p, "verify_list")
    /\ sweeper' = [sweeper EXCEPT ![p].at = "verify",
                     ![p].pending = @ \/ objects \cap sweeper[p].found # {}]
    /\ UNCHANGED <<deletions, work, faults>>

\* What was found goes back to SWEEP; the rows of a resource are deleted now.
VerifyCommit(p) ==
    LET s == sweeper[p].scope IN
    /\ At(p, "verify") /\ Holds(p, "VERIFY")
    /\ control' = [control EXCEPT ![s] = IF sweeper[p].pending THEN "SWEEP"
                                         ELSE "COMPLETE"]
    /\ IF s # "ACCOUNT" /\ ~sweeper[p].pending THEN DeleteRows(s)
       ELSE UNCHANGED <<job, upload, rows, life, djob>>
    /\ Advanced(p)
    /\ UNCHANGED <<intent, ledger, receipt, audit, request, client, objects, writer, late,
                   faults>>

CompleteAppend(p) ==
    /\ Advance(p, "COMPLETE")
    /\ ledger' = [ledger EXCEPT ![sweeper[p].scope] = "COMPLETED"]
    /\ Go(p, "complete")
    /\ UNCHANGED <<life, intent, control, receipt, audit, request, djob, work, faults>>

\* A row that still refers to the target, inserted since VERIFY, fails the
\* transaction on its foreign key, and the worker with it.
CompleteCommit(p) ==
    LET s == sweeper[p].scope IN
    /\ At(p, "complete") /\ Holds(p, "COMPLETE")
    /\ IF DataRows(s) # {} THEN UNCHANGED deletions
       ELSE /\ Closed(s, "VERIFIED_COMPLETE")
            /\ life' = [life EXCEPT ![s] = "GONE"]
            /\ UNCHANGED <<ledger, request>>
    /\ sweeper' = [sweeper EXCEPT ![p] = Idle]
    /\ UNCHANGED <<work, faults>>

-----------------------------------------------------------------------------
(* The calculation *)

AllActive == \A s \in Scopes : life[s] = "ACTIVE"
AllThere  == \A s \in Scopes : life[s] # "GONE"

\* submit reads the three lifecycles without a lock ...
SubmitBegin ==
    /\ client = "idle" /\ AllActive
    /\ client' = "checked"
    /\ UNCHANGED <<deletions, sweeper, job, upload, rows, objects, writer, late, faults>>

\* ... and the insert needs no more than the rows its foreign keys name.
SubmitCommit ==
    /\ client = "checked"
    /\ job' = IF AllThere THEN [NoJob EXCEPT !.state = "QUEUED"] ELSE job
    /\ client' = "done"
    /\ UNCHANGED <<deletions, sweeper, upload, rows, objects, writer, late, faults>>

\* current_fenced_job: the worker asks with the time it polled at, so that it
\* does not notice that its lease expired.
Fenced == job.state = "RUNNING" /\ ~job.cancel /\ AllActive

LeaseJob ==
    /\ job.state = "QUEUED" /\ writer.at = "idle"
    /\ IF AllActive
       THEN /\ job' = [job EXCEPT !.state = "RUNNING"]
            /\ writer' = [NoWriter EXCEPT !.at = "register"]
       ELSE job' = [job EXCEPT !.state = "ENDED"] /\ UNCHANGED writer
    /\ UNCHANGED <<deletions, sweeper, client, upload, rows, objects, late, faults>>

\* Time passes: the lease of a dead writer expires, or that of a slow one.
LeaseExpires ==
    /\ Live
    /\ (writer.at = "idle" /\ UNCHANGED faults) \/ Fault
    /\ job' = [job EXCEPT !.expired = TRUE]
    /\ UNCHANGED <<deletions, sweeper, client, upload, rows, objects, writer, late>>

RescueJob ==
    /\ job.state = "RUNNING" /\ job.expired
    /\ job' = [job EXCEPT !.state = "ENDED"]
    /\ UNCHANGED <<deletions, sweeper, client, upload, rows, objects, writer, late, faults>>

WriterCrash ==
    /\ writer.at # "idle" /\ Fault
    /\ writer' = NoWriter
    /\ UNCHANGED <<deletions, sweeper, client, job, upload, rows, objects, late>>

\* The worker's fail after an error; retries are the subject of JobQueue.
WriterFails ==
    /\ job' = IF job.state = "RUNNING" THEN [job EXCEPT !.state = "ENDED"] ELSE job
    /\ writer' = NoWriter

\* A transaction of artifacts.py begins with what it reads.
WriterReads(from, to, seen) ==
    /\ writer.at = from
    /\ writer' = [at |-> to, seen |-> seen]
    /\ UNCHANGED <<deletions, sweeper, client, job, upload, rows, objects, late, faults>>

RegisterBegin == WriterReads("register", "registering", Fenced)
StageBegin    == WriterReads("stage", "staging", Fenced /\ upload = "REGISTERED")
FinalizeBegin == WriterReads("finalize", "finalizing", Fenced /\ upload = "STAGED")

RegisterCommit ==
    /\ writer.at = "registering"
    /\ IF writer.seen /\ job.state # "NONE"
       THEN upload' = "REGISTERED" /\ writer' = [NoWriter EXCEPT !.at = "put"]
            /\ UNCHANGED job
       ELSE WriterFails /\ UNCHANGED upload
    /\ UNCHANGED <<deletions, sweeper, client, rows, objects, late, faults>>

Put ==
    /\ writer.at = "put"
    /\ objects' = objects \cup {"artifact"}
    /\ late' = (late \/ ~Live)
    /\ writer' = [NoWriter EXCEPT !.at = "stage"]
    /\ UNCHANGED <<deletions, sweeper, client, job, upload, rows, faults>>

\* A writer that was fenced, or whose upload was resolved, deletes its object.
StageCommit ==
    /\ writer.at = "staging"
    /\ IF writer.seen
       THEN IF upload = "NONE" THEN WriterFails /\ UNCHANGED upload
            ELSE upload' = "STAGED" /\ writer' = [NoWriter EXCEPT !.at = "finalize"]
                 /\ UNCHANGED job
       ELSE /\ upload' = IF upload = "REGISTERED" THEN "DELETE_PENDING" ELSE upload
            /\ writer' = [NoWriter EXCEPT !.at = "drop"]
            /\ UNCHANGED job
    /\ UNCHANGED <<deletions, sweeper, client, rows, objects, late, faults>>

Drop ==
    /\ writer.at = "drop"
    /\ objects' = objects \ {"artifact"}
    /\ writer' = [NoWriter EXCEPT !.at = "dropped"]
    /\ UNCHANGED <<deletions, sweeper, client, job, upload, rows, late, faults>>

Dropped ==
    /\ writer.at = "dropped"
    /\ upload' = IF upload = "DELETE_PENDING" THEN "DELETED" ELSE upload
    /\ WriterFails
    /\ UNCHANGED <<deletions, sweeper, client, rows, objects, late, faults>>

\* The export, the job and the upload change together, if their rows are left.
FinalizeCommit ==
    /\ writer.at = "finalizing"
    /\ IF writer.seen /\ job.state # "NONE" /\ upload # "NONE" /\ AllThere
       THEN /\ rows' = rows \cup {"export"} /\ upload' = "ACCEPTED"
            /\ job' = [job EXCEPT !.state = "ENDED"] /\ writer' = NoWriter
       ELSE WriterFails /\ UNCHANGED <<rows, upload>>
    /\ UNCHANGED <<deletions, sweeper, client, objects, late, faults>>

Coordinate(s) ==
    \/ Fence(s) \/ AppendRequested(s) \/ RequestBegin(s) \/ RequestCommit(s)

SweeperStep(p) ==
    \/ Lost(p) \/ Exhausted(p)
    \/ Drain(p) \/ DrainDelete(p) \/ DrainRecord(p) \/ DrainCommit(p)
    \/ SweepRead(p) \/ SweepList(p) \/ SweepDelete(p) \/ SweepCommit(p)
    \/ \E c \in Scopes : SubsumeAppend(p, c) \/ SubsumeCommit(p, c)
    \/ VerifyRead(p) \/ VerifyList(p) \/ VerifyCommit(p)
    \/ CompleteAppend(p) \/ CompleteCommit(p)

WriterStep ==
    \/ RegisterBegin \/ RegisterCommit \/ Put \/ StageBegin \/ StageCommit
    \/ Drop \/ Dropped \/ FinalizeBegin \/ FinalizeCommit

Next ==
    \/ \E s \in Scopes : Prepare(s) \/ Coordinate(s) \/ Rescue(s)
    \/ \E p \in Sweepers, s \in Scopes : Lease(p, s)
    \/ \E p \in Sweepers : SweeperStep(p) \/ Crash(p)
    \/ SubmitBegin \/ SubmitCommit \/ LeaseJob \/ LeaseExpires \/ RescueJob
    \/ WriterStep \/ WriterCrash

Spec == Init /\ [][Next]_vars

\* The reconciler, the deletion workers and the calculation workers poll for
\* ever; a job that waits is leased in its turn whatever the others do.  Nobody
\* has to ask for a deletion, and no worker has to be slow or to die.
Fairness ==
    /\ WF_vars(\E s \in Scopes : Coordinate(s))
    /\ \A s \in Scopes : SF_vars(\E p \in Sweepers : Lease(p, s))
    /\ WF_vars(\E s \in Scopes : Rescue(s) /\ UNCHANGED faults)
    /\ \A p \in Sweepers : WF_vars(SweeperStep(p))
    /\ WF_vars(WriterStep \/ (LeaseExpires /\ UNCHANGED faults))

FairSpec == Spec /\ Fairness

-----------------------------------------------------------------------------
(* Properties *)

\* Once a deletion reports VERIFIED_COMPLETE, no row below its target is left,
\* and an object is left only if a writer whose lease had expired stored it.
VerifiedIsErased ==
    \A s \in Scopes : audit[s] = "VERIFIED_COMPLETE" =>
        /\ life[s] = "GONE" /\ DataRows(s) = {}
        /\ s # "PROFILE" => "raw" \notin objects
        /\ "artifact" \in objects => late

\* A target is gone only when the ledger suppresses it, or a scope above it:
\* a restored backup can never bring it back.
GoneIsSuppressed ==
    \A s \in Scopes : life[s] = "GONE" =>
        \E t \in {s} \cup Parents(s) : ledger[t] \in {"REQUESTED", "COMPLETED"}

\* The rows and objects that a deletion leaves are what its ledger and audit say.
Consistent == TypeOK /\ VerifiedIsErased /\ GoneIsSuppressed

\* Once a scope is being deleted, its own sweep alone finishes the deletions
\* below it: their workers never take one past DRAIN, however late they are.
FencedBelowStops ==
    [][\A s \in Scopes : \A c \in Children(s) :
        life[s] \in {"DELETING", "GONE"} /\ control'[c] # control[c]
            => control'[c] \in {"NONE", "FENCE", "DRAIN"}]_vars

\* The row inserted since VERIFY that the target cannot be deleted with.
Obstructed(s) == control[s] = "COMPLETE" /\ DataRows(s) # {}

\* The profile went with its import before its own deletion was requested.
Orphaned(s) == control[s] = "FENCE" /\ life[s] = "GONE"

\* Every fenced deletion is finished in the end, through crashes and retries,
\* unless a late row obstructs it or its target went with a scope above that
\* had already looked for deletions below.
FencedIsDeleted ==
    []<>(\A s \in Scopes : \/ control[s] = "NONE" \/ Orphaned(s)
                            \/ \E t \in Scopes : Obstructed(t))
=============================================================================
