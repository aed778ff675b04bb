------------------------------ MODULE Recovery ------------------------------
(***************************************************************************)
(* Backups of the database and of the objects (backups.py), and the restore *)
(* of one into quarantine, its qualification against the deletion ledger    *)
(* and its exposure (restore.py, restore_evidence.py, cli.py).              *)
(*                                                                          *)
(* A resource has a database row, an object and at most one deletion, whose *)
(* ledger chain is outside of every backup.  The primary creates and        *)
(* deletes resources while a backup is taken: the dump is a snapshot of the *)
(* rows, and the objects are listed and copied afterwards.  The primary is  *)
(* lost at any moment; a backup is restored, qualified and exposed, and is  *)
(* the primary from then on.                                                *)
(*                                                                          *)
(* What a deletion does step by step is in modules Deletion and             *)
(* DeletionSweep; here each of its durable effects is one step.  Left out:  *)
(* the graph below a resource, sizes, hashes and encryption (a part of a    *)
(* backup that is present verifies), and audit records of the ledger.       *)
(***************************************************************************)
EXTENDS Integers, FiniteSets

CONSTANTS
    Resources,
    Backups,    \* backup identifiers
    MaxLosses,  \* bound on losses of the primary
    MaxFaults   \* bound on crashes of a backup, an expiry or a restore

\* The parts of a backup that are not objects have names of their own.
ASSUME RecoveryConstants == {"dump", "manifest"} \cap Resources = {}

VARIABLES
    up,        \* the primary serves
    db,        \* rows and intents of the primary
    objects,   \* objects of the primary
    clients,   \* resources whose object is stored and row is not yet
    known,     \* resources that were ever created
    aged,      \* resources whose upload is past its retention
    ledger,    \* phase that the chain of each deletion has reached
    evidence,  \* signed transaction outcomes
    backups,   \* the backup store
    restore,   \* the restore in quarantine
    losses,
    faults

vars == <<up, db, objects, clients, known, aged, ledger, evidence, backups,
          restore, losses, faults>>

primary == <<db, objects, clients, known>>

RowStates == {"NONE", "ACTIVE", "FENCED"}
IntentStates == {"NONE", "CREATED", "CONSUMED", "INVALIDATED"}
LedgerPhases == {"NONE", "PREPARED", "REQUESTED", "COMPLETED", "ABORTED"}
Outcomes == {"NONE", "COMMITTED", "NOT_COMMITTED"}

Database == [row : [Resources -> RowStates], intent : [Resources -> IntentStates]]

EmptyDatabase == [row |-> [r \in Resources |-> "NONE"],
                  intent |-> [r \in Resources |-> "NONE"]]

Suppressed(r) == ledger[r] \in {"REQUESTED", "COMPLETED"}

-----------------------------------------------------------------------------
(* The primary *)

Primary(A) ==
    /\ up
    /\ A
    /\ UNCHANGED <<up, aged, evidence, backups, restore, losses, faults>>

Row(r, state) == [db EXCEPT !.row[r] = state]

\* An upload is stored before its row is committed.
PutObject(r) ==
    Primary(/\ r \notin known
            /\ objects' = objects \cup {r}
            /\ clients' = clients \cup {r}
            /\ known' = known \cup {r}
            /\ UNCHANGED <<db, ledger>>)

InsertRow(r) ==
    Primary(/\ r \in clients
            /\ db' = Row(r, "ACTIVE")
            /\ clients' = clients \ {r}
            /\ UNCHANGED <<objects, known, ledger>>)

CreateIntent(r) ==
    Primary(/\ db.row[r] = "ACTIVE" /\ db.intent[r] = "NONE" /\ ledger[r] = "NONE"
            /\ db' = [db EXCEPT !.intent[r] = "CREATED"]
            /\ UNCHANGED <<objects, clients, known, ledger>>)

Prepare(r) ==
    Primary(/\ db.intent[r] = "CREATED" /\ ledger[r] = "NONE"
            /\ ledger' = [ledger EXCEPT ![r] = "PREPARED"]
            /\ UNCHANGED primary)

\* The fence commits once, from the intent and the active row.
Fence(r) ==
    Primary(/\ ledger[r] = "PREPARED" /\ db.intent[r] = "CREATED"
            /\ db.row[r] = "ACTIVE"
            /\ db' = [Row(r, "FENCED") EXCEPT !.intent[r] = "CONSUMED"]
            /\ UNCHANGED <<objects, clients, known, ledger>>)

\* prove_noncommit_and_abort: the proof is committed first.
Invalidate(r) ==
    Primary(/\ ledger[r] = "PREPARED" /\ db.intent[r] = "CREATED"
            /\ db.row[r] = "ACTIVE"
            /\ db' = [db EXCEPT !.intent[r] = "INVALIDATED"]
            /\ UNCHANGED <<objects, clients, known, ledger>>)

Abort(r) ==
    Primary(/\ ledger[r] = "PREPARED" /\ db.intent[r] = "INVALIDATED"
            /\ ledger' = [ledger EXCEPT ![r] = "ABORTED"]
            /\ UNCHANGED primary)

Request(r) ==
    Primary(/\ ledger[r] = "PREPARED" /\ db.row[r] = "FENCED"
            /\ ledger' = [ledger EXCEPT ![r] = "REQUESTED"]
            /\ UNCHANGED primary)

Sweep(r) ==
    Primary(/\ ledger[r] = "REQUESTED" /\ db.row[r] = "FENCED"
            /\ objects' = objects \ {r}
            /\ UNCHANGED <<db, clients, known, ledger>>)

Complete(r) ==
    Primary(/\ ledger[r] = "REQUESTED" /\ db.row[r] = "FENCED"
            /\ r \notin objects
            /\ ledger' = [ledger EXCEPT ![r] = "COMPLETED"]
            /\ UNCHANGED primary)

RemoveRow(r) ==
    Primary(/\ ledger[r] = "COMPLETED" /\ db.row[r] = "FENCED"
            /\ db' = Row(r, "NONE")
            /\ UNCHANGED <<objects, clients, known, ledger>>)

\* expire_raw_objects takes the uploads that a row names.
ExpireRaw(r) ==
    Primary(/\ r \in aged /\ r \in objects /\ db.row[r] = "ACTIVE"
            /\ objects' = objects \ {r}
            /\ UNCHANGED <<db, clients, known, ledger>>)

Age(r) ==
    /\ r \in known \ aged
    /\ aged' = aged \cup {r}
    /\ UNCHANGED <<up, primary, ledger, evidence, backups, restore, losses, faults>>

committed_fence_matches(r) ==
    db.intent[r] = "CONSUMED" /\ db.row[r] = "FENCED"

proved_noncommit_matches(r) ==
    db.intent[r] = "INVALIDATED" /\ db.row[r] = "ACTIVE"

\* derive_local_postgres_outcome, from the durable state of the primary.
Observe(r) ==
    /\ up
    /\ ledger[r] = "PREPARED" /\ evidence[r] = "NONE"
    /\ committed_fence_matches(r) \/ proved_noncommit_matches(r)
    /\ evidence' = [evidence EXCEPT ![r] = IF committed_fence_matches(r)
                                           THEN "COMMITTED" ELSE "NOT_COMMITTED"]
    /\ UNCHANGED <<up, primary, aged, ledger, backups, restore, losses, faults>>

\* A backup that is being taken fails with the primary.
Lose ==
    /\ up
    /\ losses < MaxLosses
    /\ up' = FALSE
    /\ losses' = losses + 1
    /\ db' = EmptyDatabase /\ objects' = {} /\ clients' = {}
    /\ backups' = [b \in Backups |->
                      IF backups[b].step \in {"dumped", "copying"}
                      THEN [backups[b] EXCEPT !.step = "failed"] ELSE backups[b]]
    /\ UNCHANGED <<known, aged, ledger, evidence, restore, faults>>

-----------------------------------------------------------------------------
(* Backups.  A backup is its stored parts: the dump, object copies and the   *)
(* manifest, which lists the others and is written last.                     *)

NoBackup == [step |-> "none", db |-> EmptyDatabase, listed |-> {}, copied |-> {},
             parts |-> {}, old |-> FALSE]

Backup(A) ==
    /\ A
    /\ UNCHANGED <<up, primary, aged, ledger, evidence, restore, losses>>

Dump(b) ==
    Backup(/\ up
           /\ backups[b].step = "none"
           /\ backups' = [backups EXCEPT ![b].step = "dumped", ![b].db = db,
                                         ![b].parts = {"dump"}]
           /\ UNCHANGED faults)

ListObjects(b) ==
    Backup(/\ up
           /\ backups[b].step = "dumped"
           /\ backups' = [backups EXCEPT ![b].step = "copying",
                                         ![b].listed = objects]
           /\ UNCHANGED faults)

CopyObject(b, r) ==
    Backup(/\ up
           /\ backups[b].step = "copying"
           /\ r \in (backups[b].listed \cap objects) \ backups[b].copied
           /\ backups' = [backups EXCEPT ![b].copied = @ \cup {r},
                                         ![b].parts = @ \cup {r}]
           /\ UNCHANGED faults)

\* The manifest is stored when the list of objects has not changed.
SourceUnchanged(b) == objects = backups[b].listed

WriteManifest(b) ==
    Backup(/\ up
           /\ backups[b].step = "copying"
           /\ backups[b].copied = backups[b].listed
           /\ SourceUnchanged(b)
           /\ backups' = [backups EXCEPT ![b].step = "stored",
                                         ![b].parts = @ \cup {"manifest"}]
           /\ UNCHANGED faults)

\* An object that was listed is gone, or the list has changed.
SourceChanged(b) ==
    \/ backups[b].listed \ (backups[b].copied \cup objects) # {}
    \/ backups[b].copied = backups[b].listed /\ ~SourceUnchanged(b)

\* An error removes what was stored.
FailBackup(b) ==
    Backup(/\ up
           /\ backups[b].step = "copying"
           /\ SourceChanged(b)
           /\ backups' = [backups EXCEPT ![b].step = "failed", ![b].parts = {}]
           /\ UNCHANGED faults)

\* A process that dies leaves what was stored.
CrashBackup(b) ==
    Backup(/\ backups[b].step \in {"dumped", "copying"}
           /\ faults < MaxFaults
           /\ faults' = faults + 1
           /\ backups' = [backups EXCEPT ![b].step = "failed"])

\* Thirty days pass.
AgeBackup(b) ==
    Backup(/\ backups[b].step \in {"stored", "failed"} /\ ~backups[b].old
           /\ backups' = [backups EXCEPT ![b].old = TRUE]
           /\ UNCHANGED faults)

\* The stored keys in the order of their names: database.dump, manifest-...,
\* objects/...
FirstKeys(parts) ==
    IF "dump" \in parts THEN {"dump"}
    ELSE IF "manifest" \in parts THEN {"manifest"} ELSE parts

\* BackupRetentionService.expire deletes key by key, and goes on with what is
\* left when it is run again.
ExpirePart(b) ==
    Backup(/\ backups[b].old
           /\ \E part \in FirstKeys(backups[b].parts) :
                  backups' = [backups EXCEPT ![b].parts = @ \ {part}]
           /\ UNCHANGED faults)

\* verify: one manifest, and exactly the parts that it lists.
Verifies(b) ==
    backups[b].parts = {"dump", "manifest"} \cup backups[b].listed

-----------------------------------------------------------------------------
(* Restore *)

NoRestore == [step |-> "none", of |-> {}, db |-> EmptyDatabase, objects |-> {},
              left |-> {}]

Restoring(step, A) ==
    /\ ~up
    /\ restore.step = step
    /\ A
    /\ UNCHANGED <<up, primary, aged, evidence, backups, losses, faults>>

StartRestore(b) ==
    Restoring("none", /\ Verifies(b)
                      /\ restore' = [NoRestore EXCEPT !.step = "materialize",
                                                      !.of = {b}]
                      /\ UNCHANGED ledger)

\* materialize_verified copies every part and verifies the backup once more.
Materialize ==
    Restoring("materialize",
        /\ \A b \in restore.of : Verifies(b)
        /\ restore' = [restore EXCEPT !.step = "database"]
        /\ UNCHANGED ledger)

\* The materialized dump goes into the quarantine database, and then the
\* objects into the empty object namespace.
RestoreDatabase ==
    Restoring("database",
        \E b \in restore.of :
            /\ restore' = [restore EXCEPT !.step = "objects", !.db = backups[b].db]
            /\ UNCHANGED ledger)

RestoreObjects ==
    Restoring("objects",
        \E b \in restore.of :
            /\ restore' = [restore EXCEPT !.step = "resolve", !.left = Resources,
                                          !.objects = backups[b].listed]
            /\ UNCHANGED ledger)

\* _target_for_event: the row that the scope of a ledger chain names.
Restored(r) == restore.db.row[r] # "NONE"

\* _fence_committed_restore: what it requires of a row that was restored.
FenceRestored(r) ==
    IF restore.db.row[r] = "ACTIVE"
    THEN [restore.db EXCEPT !.row[r] = "FENCED"] ELSE restore.db

\* The first pass of qualify: a preparation with evidence is resolved on the
\* ledger, one without stays and holds the restore.
ResolveCommitted(r) ==
    /\ ledger[r] = "PREPARED" /\ evidence[r] = "COMMITTED"
    /\ restore' = [restore EXCEPT !.left = @ \ {r}, !.db = FenceRestored(r)]
    /\ ledger' = [ledger EXCEPT ![r] = "REQUESTED"]

\* (mutant) no evidence counts as evidence that nothing committed
ResolveNotCommittedInTime(r) ==
    /\ ledger[r] = "PREPARED" /\ evidence[r] # "COMMITTED"
    /\ restore.db.intent[r] = "CREATED" /\ restore.db.row[r] = "ACTIVE"
    /\ restore' = [restore EXCEPT !.left = @ \ {r}]
    /\ ledger' = [ledger EXCEPT ![r] = "ABORTED"]

\* The restored database has to prove the noncommit itself.
ResolveNotCommitted(r) ==
    /\ ledger[r] = "PREPARED" /\ evidence[r] = "NOT_COMMITTED"
    /\ restore.db.intent[r] = "CREATED" /\ restore.db.row[r] = "ACTIVE"
    /\ restore' = [restore EXCEPT !.left = @ \ {r},
                                  !.db.intent[r] = "INVALIDATED"]
    /\ ledger' = [ledger EXCEPT ![r] = "ABORTED"]

ResolveNot(r) ==
    /\ ledger[r] = "PREPARED" =>
           /\ evidence[r] # "COMMITTED"
           /\ evidence[r] = "NOT_COMMITTED" =>
                  restore.db.intent[r] # "CREATED" \/ restore.db.row[r] # "ACTIVE"
    /\ restore' = [restore EXCEPT !.left = @ \ {r}]
    /\ UNCHANGED ledger

Resolve(r) ==
    Restoring("resolve", /\ r \in restore.left
                         /\ \/ ResolveCommitted(r)
                            \/ ResolveNotCommitted(r)
                            \/ ResolveNot(r))

\* The second pass: the resources whose deletion was requested.
StartSuppress ==
    Restoring("resolve", /\ restore.left = {}
                         /\ restore' = [restore EXCEPT !.step = "suppress",
                                            !.left = {r \in Resources : Suppressed(r)}]
                         /\ UNCHANGED ledger)

\* (mutant) the objects are left
SuppressRowsOnly(r) == restore.objects

\* _suppress: a resource that is not in the restored database is passed over;
\* otherwise its objects and then its rows are deleted.
SuppressObjects(r) ==
    IF Restored(r) THEN restore.objects \ {r} ELSE restore.objects

\* The rows of the resource, and the intents and controls that name it.
SuppressRows(r) ==
    [restore.db EXCEPT !.row[r] = "NONE", !.intent[r] = "NONE"]

Suppress(r) ==
    Restoring("suppress", /\ r \in restore.left
                          /\ restore' = [restore EXCEPT
                                 !.left = @ \ {r},
                                 !.objects = SuppressObjects(r),
                                 !.db = SuppressRows(r)]
                          /\ UNCHANGED ledger)

SuppressedScopesAbsent == \A r \in Resources : Suppressed(r) => ~Restored(r)

\* Uploads past their retention are expired, and the artifact allows exposure
\* when no preparation is unresolved.
ExposureAllowed == \A r \in Resources : ledger[r] # "PREPARED"

ExpiredUploads == {r \in aged : restore.db.row[r] = "ACTIVE"}

Qualify ==
    Restoring("suppress",
        /\ restore.left = {}
        /\ SuppressedScopesAbsent
        /\ restore' = [restore EXCEPT
               !.objects = @ \ ExpiredUploads,
               !.step = IF ExposureAllowed THEN "qualified" ELSE "held"]
        /\ UNCHANGED ledger)

\* bind_restore_exposure copies the decision of the qualification.
Bind ==
    Restoring("qualified", /\ restore' = [restore EXCEPT !.step = "bound"]
                           /\ UNCHANGED ledger)

\* The artifact is complete, unaltered and allows the exposure.
ExposureVerifies == restore.step = "bound"

\* The artifact verifies, and the operator attaches the services to the
\* restored instance.
Expose ==
    /\ ~up
    /\ ExposureVerifies
    /\ up' = TRUE
    /\ db' = restore.db /\ objects' = restore.objects
    /\ restore' = NoRestore
    /\ UNCHANGED <<clients, known, aged, ledger, evidence, backups, losses, faults>>

\* A failed or held restore is thrown away; what it wrote to the ledger stays.
AbandonRestore ==
    /\ restore.step # "none"
    /\ \/ restore.step = "held" /\ UNCHANGED faults
       \/ /\ restore.step # "held"
          /\ faults < MaxFaults /\ faults' = faults + 1
    /\ restore' = NoRestore
    /\ UNCHANGED <<up, primary, aged, ledger, evidence, backups, losses>>

-----------------------------------------------------------------------------

Init ==
    /\ up = TRUE /\ db = EmptyDatabase /\ objects = {} /\ clients = {}
    /\ known = {} /\ aged = {}
    /\ ledger = [r \in Resources |-> "NONE"]
    /\ evidence = [r \in Resources |-> "NONE"]
    /\ backups = [b \in Backups |-> NoBackup]
    /\ restore = NoRestore /\ losses = 0 /\ faults = 0

PrimaryStep(r) ==
    \/ PutObject(r) \/ InsertRow(r) \/ CreateIntent(r) \/ Prepare(r) \/ Fence(r)
    \/ Invalidate(r) \/ Abort(r) \/ Request(r) \/ Sweep(r) \/ Complete(r)
    \/ RemoveRow(r) \/ ExpireRaw(r) \/ Age(r) \/ Observe(r)

BackupStep(b) ==
    \/ Dump(b) \/ ListObjects(b) \/ \E r \in Resources : CopyObject(b, r)
    \/ WriteManifest(b) \/ FailBackup(b) \/ CrashBackup(b) \/ AgeBackup(b) \/ ExpirePart(b)

RestoreStep ==
    \/ \E b \in Backups : StartRestore(b)
    \/ Materialize \/ RestoreDatabase \/ RestoreObjects
    \/ \E r \in Resources : Resolve(r) \/ Suppress(r)
    \/ StartSuppress \/ Qualify \/ Bind \/ Expose \/ AbandonRestore

Next ==
    \/ \E r \in Resources : PrimaryStep(r)
    \/ \E b \in Backups : BackupStep(b)
    \/ RestoreStep
    \/ Lose

Spec == Init /\ [][Next]_vars

-----------------------------------------------------------------------------
(* Properties *)

\* Type invariant: rows, objects and intents of the primary, ledger phases,
\* evidence, parts of backups and the quarantine, which is never beside a
\* running primary.
TypeOK ==
    /\ up \in BOOLEAN
    /\ {db, restore.db} \subseteq Database
    /\ objects \cup clients \cup aged \cup restore.objects \subseteq known
    /\ ledger \in [Resources -> LedgerPhases]
    /\ evidence \in [Resources -> Outcomes]
    /\ \A b \in Backups : backups[b].parts \subseteq Resources \cup {"dump", "manifest"}
    /\ restore.left \subseteq Resources
    /\ up => restore = NoRestore

\* A resource whose deletion reached the ledger as REQUESTED is never active
\* in the primary again, however old the backup is that became the primary
\* (RestoreReconciler.qualify).
SuppressedNeverActive ==
    \A r \in Resources :
        ledger[r] \in {"REQUESTED", "COMPLETED"} => db.row[r] # "ACTIVE"

\* A preparation is aborted only when its fence did not commit on any
\* timeline: no primary, and no restored database, holds the row fenced.
AbortedNeverFenced ==
    \A r \in Resources :
        ledger[r] = "ABORTED" => "FENCED" \notin {db.row[r], restore.db.row[r]}

\* The primary, whatever backup it came from, agrees with the ledger.
DatabaseFollowsLedger == SuppressedNeverActive /\ AbortedNeverFenced

\* A restore that may be exposed holds no row of a requested deletion, and
\* no object of one unless the dump was taken before the row was committed
\* and the object was listed after it was stored (the order of
\* BackupService.create).
QualifiedIsErased ==
    restore.step = "bound" =>
        \A r \in Resources : Suppressed(r) =>
            /\ restore.db.row[r] = "NONE"
            /\ r \in restore.objects =>
                   \A b \in restore.of : backups[b].db.row[r] = "NONE"

\* A restore that may be exposed has the object of every active row, past
\* retention apart: objects are listed after the dump, and what was deleted
\* in between is suppressed.
RestoredRowHasObject ==
    restore.step = "bound" =>
        \A r \in Resources :
            restore.db.row[r] = "ACTIVE" => r \in restore.objects \cup aged

\* A restore that may be exposed is neither behind the ledger nor short of an
\* object (RestoreReconciler.qualify, BackupService.create).
RestoreIsQualified == TypeOK /\ QualifiedIsErased /\ RestoredRowHasObject

\* "The separately protected deletion ledger prevents that retained data from
\* becoming live again after a restore." (docs/operations/backup-restore.md:8)
DeletedNeverLiveAgain ==
    up => \A r \in Resources : ledger[r] = "COMPLETED" => r \notin objects
=============================================================================
