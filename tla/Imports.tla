------------------------------ MODULE Imports ------------------------------
(***************************************************************************)
(* The uploads of one account and the profiles confirmed from them:         *)
(* ImportService (packages/persistence/.../imports.py), the import worker,  *)
(* the retention of raw uploads and of idempotency records                  *)
(* (retention.py), and what the deletion of an import, of a profile or of   *)
(* the account does to their rows.                                          *)
(*                                                                          *)
(* A raw upload is an object in the store and a raw_objects row; the two    *)
(* are written and removed in separate steps, with crashes in between.      *)
(* The lease of the import job is in module JobQueue; here the job is the   *)
(* state of its import, and a retry or the end of its attempts is a choice. *)
(* Deadlines are 24 hours away and pass at any time, so expiry takes any    *)
(* row of the kind it may take.                                             *)
(*                                                                          *)
(* Left out: readings and findings beyond their presence, audit events,     *)
(* sizes and adapters.  The hash of a profile stands for the readings and   *)
(* the billing period that it is taken of.                                  *)
(***************************************************************************)
EXTENDS Integers, FiniteSets

CONSTANTS
    Clients,      \* API requests served at the same time
    Keys,         \* idempotency keys
    Payloads,     \* canonical payload hashes of uploads
    Hashes,       \* content hashes of profiles
    Simulated,    \* the one of the built-in simulated profile
    NULL,
    MaxImports,   \* bound on import identifiers
    MaxProfiles,  \* bound on profile identifiers
    MaxDeletions, \* bound on fences
    MaxFaults     \* bound on crashes and lost commit acknowledgements

ImportIds == 1 .. MaxImports
ProfileIds == 1 .. MaxProfiles

\* A reference that is NULL names no row.
ASSUME ImportConstants == NULL \notin ProfileIds

VARIABLES
    account,   \* lifecycle_state of the user
    imports,   \* import rows
    raw,       \* state of the raw_objects row of each import
    objects,   \* raw uploads in the object store
    profiles,  \* profile_versions rows
    ops,       \* operation_requests rows
    client,    \* what each API request is doing
    worker,    \* the import worker's poll
    expirer,   \* expire_raw_objects
    lost,      \* uploads whose process died, or lost the answer of a commit
    faults

vars == <<account, imports, raw, objects, profiles, ops, client, worker,
          expirer, lost, faults>>

database == <<account, imports, raw, profiles, ops>>

-----------------------------------------------------------------------------
(* Rows *)

Lifecycles == {"ACTIVE", "FENCED", "VERIFIED"}

NoImport == [state |-> "NONE", lifecycle |-> "ACTIVE", cancelled |-> FALSE,
             profile |-> NULL, adopted |-> FALSE, key |-> NULL, late |-> FALSE]

NoProfile == [state |-> "NONE", hash |-> NULL, home |-> NULL]

Idle == [at |-> "idle", key |-> NULL, payload |-> NULL, id |-> NULL, found |-> NULL]

\* Identifiers are random and never used twice: take the next one.
Allocated(i) ==
    imports[i].state # "NONE" \/ i \in lost \/ \E c \in Clients : client[c].id = i

Fresh(i) == ~Allocated(i) /\ \A j \in 1 .. i - 1 : Allocated(j)

FreshProfile(p) ==
    profiles[p].state = "NONE" /\ \A q \in 1 .. p - 1 : profiles[q].state # "NONE"

Exists(i) == imports[i].state \notin {"NONE", "DELETED"}

ProfileExists(p) == profiles[p].state \in Lifecycles

\* uq_owner_profile_content: the profile of the account with this content.
ByHash(h) == {p \in ProfileIds : ProfileExists(p) /\ profiles[p].hash = h}

FoundByHash(h) == IF ByHash(h) = {} THEN NULL ELSE CHOOSE p \in ByHash(h) : TRUE

\* The job of an import has ended.
Terminal(i) ==
    imports[i].cancelled \/ imports[i].state \in {"READY", "CONFIRMED", "FAILED"}

Bound(route, k) == {o \in ops : o.route = route /\ o.key = k}

Goto(c, step) == client' = [client EXCEPT ![c].at = step]
Return(c) == client' = [client EXCEPT ![c] = Idle]

-----------------------------------------------------------------------------
(* submit *)

\* Look the key up, check the account, allocate identifiers.  A key that is
\* bound already is answered, or refused, from its row and changes nothing.
Submit(c, k, h) ==
    /\ client[c].at = "idle"
    /\ Bound("UPLOAD", k) = {}
    /\ account = "ACTIVE"
    /\ \E i \in ImportIds :
          /\ Fresh(i)
          /\ client' = [client EXCEPT ![c] = [at |-> "put", key |-> k, payload |-> h,
                                              id |-> i, found |-> NULL]]
    /\ UNCHANGED <<database, objects, worker, expirer, lost, faults>>

\* put_file
Put(c) ==
    /\ client[c].at = "put"
    /\ objects' = objects \cup {client[c].id}
    /\ Goto(c, "record")
    /\ UNCHANGED <<database, worker, expirer, lost, faults>>

\* The rows _record_submission inserts.  The account is not looked at again.
SubmissionRows(c) ==
    LET i == client[c].id IN
    /\ imports' = [imports EXCEPT ![i] =
          [NoImport EXCEPT !.state = "QUEUED", !.key = client[c].key,
                           !.late = account # "ACTIVE"]]
    /\ raw' = [raw EXCEPT ![i] = "AVAILABLE"]
    /\ ops' = ops \cup {[route |-> "UPLOAD", key |-> client[c].key,
                         payload |-> client[c].payload, target |-> i,
                         late |-> FALSE]}
    /\ UNCHANGED <<account, profiles>>

\* _record_submission: another request may have bound the key since the
\* lookup; the unique constraint then refuses the insert, and the object is
\* deleted whether the other request is a repeat or a conflict.
Record(c) ==
    /\ client[c].at = "record"
    /\ IF Bound("UPLOAD", client[c].key) = {}
       THEN SubmissionRows(c) /\ Return(c)
       ELSE UNCHANGED database /\ Goto(c, "drop")
    /\ UNCHANGED <<objects, worker, expirer, lost, faults>>

\* The commit took effect and its answer was lost: the exception deletes the
\* object of a submission that is stored.
RecordUnanswered(c) ==
    /\ client[c].at = "record"
    /\ Bound("UPLOAD", client[c].key) = {}
    /\ faults < MaxFaults
    /\ faults' = faults + 1
    /\ lost' = lost \cup {client[c].id}
    /\ SubmissionRows(c)
    /\ Goto(c, "drop")
    /\ UNCHANGED <<objects, worker, expirer>>

\* The object store is unavailable: put_file raises.
PutFails(c) ==
    /\ client[c].at = "put"
    /\ Goto(c, "drop")
    /\ UNCHANGED <<database, objects, worker, expirer, lost, faults>>

Drop(c) ==
    /\ client[c].at = "drop"
    /\ objects' = objects \ {client[c].id}
    /\ Return(c)
    /\ UNCHANGED <<database, worker, expirer, lost, faults>>

\* The process serving the request dies.
Crash(c) ==
    /\ client[c].at # "idle"
    /\ faults < MaxFaults
    /\ faults' = faults + 1
    /\ lost' = IF client[c].at \in {"put", "record", "drop"}
               THEN lost \cup {client[c].id} ELSE lost
    /\ Return(c)
    /\ UNCHANGED <<database, objects, worker, expirer>>

-----------------------------------------------------------------------------
(* install_simulated_profile: one transaction, retried when the operation    *)
(* or the profile it inserts meets a unique constraint.                      *)

InstallBegin(c, k) ==
    /\ client[c].at = "idle"
    /\ Bound("SIMULATED", k) = {}
    /\ account = "ACTIVE"
    /\ client' = [client EXCEPT ![c] = [at |-> "install", key |-> k, payload |-> NULL,
                     id |-> NULL, found |-> FoundByHash(Simulated)]]
    /\ UNCHANGED <<database, objects, worker, expirer, lost, faults>>

InstalledOperation(c, p) ==
    [route |-> "SIMULATED", key |-> client[c].key, payload |-> NULL, target |-> p,
     late |-> profiles[p].state # "ACTIVE"]

\* The profile it found is adopted in whatever state it is.
InstallFound(c) ==
    /\ client[c].found # NULL
    /\ ops' = ops \cup {InstalledOperation(c, client[c].found)}
    /\ UNCHANGED <<account, imports, raw, profiles>>

InstallNew(c) ==
    /\ client[c].found = NULL
    /\ \E i \in ImportIds, p \in ProfileIds :
          /\ Fresh(i) /\ FreshProfile(p)
          /\ imports' = [imports EXCEPT ![i] =
                [NoImport EXCEPT !.state = "CONFIRMED", !.profile = p]]
          /\ profiles' = [profiles EXCEPT ![p] =
                [state |-> "ACTIVE", hash |-> Simulated, home |-> i]]
          /\ ops' = ops \cup {[InstalledOperation(c, p) EXCEPT !.late = FALSE]}
    /\ UNCHANGED <<account, raw>>

InstallConflicts(c) ==
    \/ Bound("SIMULATED", client[c].key) # {}
    \/ client[c].found = NULL /\ ByHash(Simulated) # {}

\* A conflict starts the transaction again, which finds the operation or the
\* profile; the third one in a row is OPERATION_CONFLICT.
InstallCommit(c) ==
    /\ client[c].at = "install"
    /\ \/ /\ ~InstallConflicts(c)
          /\ InstallFound(c) \/ InstallNew(c)
       \/ /\ InstallConflicts(c)
          /\ UNCHANGED database
    /\ Return(c)
    /\ UNCHANGED <<objects, worker, expirer, lost, faults>>

-----------------------------------------------------------------------------
(* The import worker *)

\* (mutant) the scope of the job is not checked
LeaseAnyScope(i) ==
    /\ worker.at = "idle"
    /\ imports[i].state = "QUEUED" /\ ~imports[i].cancelled
    /\ imports' = [imports EXCEPT ![i].state = "PROCESSING"]
    /\ worker' = [at |-> "open", id |-> i]
    /\ UNCHANGED <<account, raw, objects, profiles, ops, client, expirer, lost, faults>>

\* lease_next and start: the account and the import are as they were when the
\* job was submitted.
Lease(i) ==
    /\ worker.at = "idle"
    /\ imports[i].state = "QUEUED" /\ ~imports[i].cancelled
    /\ account = "ACTIVE" /\ ~imports[i].late
    /\ imports[i].lifecycle = "ACTIVE"
    /\ imports' = [imports EXCEPT ![i].state = "PROCESSING"]
    /\ worker' = [at |-> "open", id |-> i]
    /\ UNCHANGED <<account, raw, objects, profiles, ops, client, expirer, lost, faults>>

\* open_raw: the row says AVAILABLE and the object is there with its hash.
OpenRaw ==
    /\ worker.at = "open"
    /\ raw[worker.id] = "AVAILABLE" /\ worker.id \in objects
    /\ worker' = [worker EXCEPT !.at = "publish"]
    /\ UNCHANGED <<database, objects, client, expirer, lost, faults>>

InScope(i) == account = "ACTIVE" /\ imports[i].lifecycle = "ACTIVE"

\* publish_draft: the import is still PROCESSING and its lifecycle unchanged.
Publish ==
    LET i == worker.id IN
    /\ worker.at = "publish"
    /\ IF imports[i].state = "PROCESSING" /\ ~imports[i].cancelled
          /\ imports[i].lifecycle = "ACTIVE"
       THEN imports' = [imports EXCEPT ![i].state = "READY"]
       ELSE UNCHANGED imports
    /\ worker' = [at |-> "idle", id |-> NULL]
    /\ UNCHANGED <<account, raw, objects, profiles, ops, client, expirer, lost, faults>>

\* The upload is missing, the parser refuses it, or the worker died: fail or
\* rescue_expired.  A retry while attempts remain and the failure allows it,
\* FAILED when not, CANCELLED outside the scope.
Fail ==
    LET i == worker.id IN
    /\ worker.at # "idle"
    /\ IF imports[i].state # "PROCESSING"
       THEN UNCHANGED imports
       ELSE \/ ~InScope(i) /\ imports' = [imports EXCEPT ![i].cancelled = TRUE]
            \/ /\ InScope(i)
               /\ \E s \in {"QUEUED", "FAILED"} :
                     imports' = [imports EXCEPT ![i].state = s]
    /\ worker' = [at |-> "idle", id |-> NULL]
    /\ UNCHANGED <<account, raw, objects, profiles, ops, client, expirer, lost, faults>>

-----------------------------------------------------------------------------
(* confirm *)

\* draft: the readings are there in READY and CONFIRMED.  VERIFY of the
\* import's deletion removes them.
ConfirmBegin(c, i, h) ==
    /\ client[c].at = "idle"
    /\ imports[i].state \in {"READY", "CONFIRMED"}
    /\ imports[i].lifecycle # "VERIFIED"
    /\ imports[i].key # NULL
    /\ client' = [client EXCEPT ![c] = [at |-> "confirm", key |-> NULL, payload |-> h,
                                        id |-> i, found |-> NULL]]
    /\ UNCHANGED <<database, objects, worker, expirer, lost, faults>>

\* Confirmed on profile p; the lifecycle of neither is looked at.
Confirmed(i, p, row) ==
    [imports EXCEPT ![i].state = "CONFIRMED", ![i].profile = p,
                    ![i].adopted = row.home # i \/ row.state # "ACTIVE"]

\* The raw upload is not needed any more.
ConfirmRaw(i) ==
    raw' = IF raw[i] \in {"AVAILABLE", "DELETE_PENDING"}
           THEN [raw EXCEPT ![i] = "DELETE_PENDING"] ELSE raw

\* confirm, its transaction under the lock on the import.
ConfirmCommit(c) ==
    LET i == client[c].id
        h == client[c].payload
    IN  /\ client[c].at = "confirm"
        /\ IF imports[i].state \in {"READY", "CONFIRMED"}
           THEN /\ \/ /\ ByHash(h) # {}
                      /\ LET p == FoundByHash(h)
                         IN  imports' = Confirmed(i, p, profiles[p])
                      /\ UNCHANGED profiles
                   \/ /\ ByHash(h) = {}
                      /\ \E p \in ProfileIds :
                         LET row == [state |-> "ACTIVE", hash |-> h, home |-> i]
                         IN  /\ FreshProfile(p)
                             /\ imports' = Confirmed(i, p, row)
                             /\ profiles' = [profiles EXCEPT ![p] = row]
                /\ ConfirmRaw(i)
                /\ IF raw[i] \in {"AVAILABLE", "DELETE_PENDING"}
                   THEN Goto(c, "discard")
                   ELSE Return(c)
           ELSE /\ UNCHANGED <<imports, profiles, raw>>
                /\ Return(c)
        /\ UNCHANGED <<account, objects, ops, worker, expirer, lost, faults>>

\* The object goes first, the row follows in a transaction of its own.
ConfirmDiscard(c) ==
    /\ client[c].at = "discard"
    /\ objects' = objects \ {client[c].id}
    /\ Goto(c, "discarded")
    /\ UNCHANGED <<database, worker, expirer, lost, faults>>

MarkDeleted(S) == [i \in ImportIds |-> IF i \in S /\ raw[i] = "DELETE_PENDING"
                                       THEN "DELETED" ELSE raw[i]]

ConfirmDiscarded(c) ==
    /\ client[c].at = "discarded"
    /\ raw' = MarkDeleted({client[c].id})
    /\ Return(c)
    /\ UNCHANGED <<account, imports, objects, profiles, ops, worker, expirer, lost, faults>>

-----------------------------------------------------------------------------
(* The retention worker *)

Pending == {i \in ImportIds : raw[i] = "DELETE_PENDING"}

\* (mutant) the objects are deleted before their rows say so
ExpireMarkLate ==
    /\ expirer.at = "idle"
    /\ \E E \in SUBSET {i \in ImportIds : raw[i] = "AVAILABLE"} :
          /\ E \cup Pending # {}
          /\ expirer' = [at |-> "delete", keys |-> E \cup Pending]
    /\ UNCHANGED <<database, objects, client, worker, lost, faults>>

\* expire_raw_objects takes the uploads that are already to be deleted and
\* those past their deadline.
ExpireMark ==
    /\ expirer.at = "idle"
    /\ \E E \in SUBSET {i \in ImportIds : raw[i] = "AVAILABLE"} :
          /\ E \cup Pending # {}
          /\ raw' = [i \in ImportIds |-> IF i \in E THEN "DELETE_PENDING" ELSE raw[i]]
          /\ expirer' = [at |-> "delete", keys |-> E \cup Pending]
    /\ UNCHANGED <<account, imports, objects, profiles, ops, client, worker, lost, faults>>

ExpireDelete ==
    /\ expirer.at = "delete"
    /\ objects' = objects \ expirer.keys
    /\ expirer' = [expirer EXCEPT !.at = "mark"]
    /\ UNCHANGED <<database, client, worker, lost, faults>>

ExpireDeleted ==
    /\ expirer.at = "mark"
    /\ raw' = MarkDeleted(expirer.keys)
    /\ expirer' = [at |-> "idle", keys |-> {}]
    /\ UNCHANGED <<account, imports, objects, profiles, ops, client, worker, lost, faults>>

ExpirerCrash ==
    /\ expirer.at # "idle"
    /\ faults < MaxFaults
    /\ faults' = faults + 1
    /\ expirer' = [at |-> "idle", keys |-> {}]
    /\ UNCHANGED <<database, objects, client, worker, lost>>

\* _operation_is_terminal: without the row it names an operation is not
\* terminal.
OperationIsTerminal(o) ==
    IF o.route = "UPLOAD"
    THEN Exists(o.target) /\ Terminal(o.target)
    ELSE ProfileExists(o.target)

\* _expire_operations
ExpireOperation(o) ==
    /\ OperationIsTerminal(o)
    /\ ops' = ops \ {o}
    /\ UNCHANGED <<account, imports, raw, objects, profiles, client, worker,
                   expirer, lost, faults>>

-----------------------------------------------------------------------------
(* Deletion, as far as it touches these rows (module DeletionSweep)          *)

Fenced == {i \in ImportIds : imports[i].state = "DELETED" \/ imports[i].lifecycle # "ACTIVE"}
FencedProfiles == {p \in ProfileIds : profiles[p].state \notin {"NONE", "ACTIVE"}}

\* Nothing below a fenced account is fenced.
MayFence ==
    /\ account = "ACTIVE"
    /\ Cardinality(Fenced) + Cardinality(FencedProfiles) < MaxDeletions

\* _fence_prepared on the account cancels its queued jobs.
FenceAccount ==
    /\ MayFence
    /\ account' = "FENCED"
    /\ imports' = [i \in ImportIds |->
          IF imports[i].state = "QUEUED" THEN [imports[i] EXCEPT !.cancelled = TRUE]
          ELSE imports[i]]
    /\ UNCHANGED <<raw, objects, profiles, ops, client, worker, expirer, lost, faults>>

FenceImport(i) ==
    /\ MayFence /\ Exists(i) /\ imports[i].lifecycle = "ACTIVE"
    /\ imports' = [imports EXCEPT ![i].lifecycle = "FENCED",
                                  ![i].cancelled = @ \/ imports[i].state = "QUEUED"]
    /\ UNCHANGED <<account, raw, objects, profiles, ops, client, worker, expirer,
                   lost, faults>>

\* DRAIN waits for the worker; SWEEP deletes the objects under the import;
\* VERIFY deletes the rows below it.
VerifyImport(i) ==
    LET gone == {p \in ProfileIds : ProfileExists(p) /\ profiles[p].home = i} IN
    /\ imports[i].lifecycle = "FENCED"
    /\ worker.id # i
    /\ objects' = objects \ {i}
    /\ raw' = [raw EXCEPT ![i] = "NONE"]
    /\ profiles' = [p \in ProfileIds |->
          IF p \in gone THEN [profiles[p] EXCEPT !.state = "DELETED"] ELSE profiles[p]]
    /\ ops' = {o \in ops : ~(\/ o.route = "UPLOAD" /\ o.target = i
                             \/ o.route = "SIMULATED" /\ o.target \in gone)}
    /\ imports' = [imports EXCEPT ![i].lifecycle = "VERIFIED"]
    /\ UNCHANGED <<account, client, worker, expirer, lost, faults>>

\* COMPLETE deletes the row, unless a profile refers to it (a foreign key).
CompleteImport(i) ==
    /\ imports[i].lifecycle = "VERIFIED"
    /\ \A p \in ProfileIds : ProfileExists(p) => profiles[p].home # i
    /\ imports' = [imports EXCEPT ![i] = [NoImport EXCEPT !.state = "DELETED"]]
    /\ UNCHANGED <<account, raw, objects, profiles, ops, client, worker, expirer,
                   lost, faults>>

FenceProfile(p) ==
    /\ MayFence /\ profiles[p].state = "ACTIVE"
    /\ profiles' = [profiles EXCEPT ![p].state = "FENCED"]
    /\ UNCHANGED <<account, imports, raw, objects, ops, client, worker, expirer,
                   lost, faults>>

\* VERIFY deletes the operations that name the profile, COMPLETE the profile.
VerifyProfile(p) ==
    /\ profiles[p].state = "FENCED"
    /\ profiles' = [profiles EXCEPT ![p].state = "VERIFIED"]
    /\ ops' = {o \in ops : ~(o.route = "SIMULATED" /\ o.target = p)}
    /\ UNCHANGED <<account, imports, raw, objects, client, worker, expirer, lost, faults>>

\* (mutant) the import keeps naming the profile
ImportWithoutProfileKept(p) == imports

\* Only the import the profile was made from is opened again.
ImportWithoutProfile(p) ==
    [i \in ImportIds |->
        IF profiles[p].home = i /\ imports[i].profile = p
        THEN [imports[i] EXCEPT !.profile = NULL, !.state = "READY", !.adopted = FALSE]
        ELSE imports[i]]

CompleteProfile(p) ==
    /\ profiles[p].state = "VERIFIED"
    /\ profiles' = [profiles EXCEPT ![p].state = "DELETED"]
    /\ imports' = ImportWithoutProfile(p)
    /\ UNCHANGED <<account, raw, objects, ops, client, worker, expirer, lost, faults>>

-----------------------------------------------------------------------------
(* Specification *)

Init ==
    /\ account = "ACTIVE"
    /\ imports = [i \in ImportIds |-> NoImport]
    /\ raw = [i \in ImportIds |-> "NONE"]
    /\ objects = {}
    /\ profiles = [p \in ProfileIds |-> NoProfile]
    /\ ops = {}
    /\ client = [c \in Clients |-> Idle]
    /\ worker = [at |-> "idle", id |-> NULL]
    /\ expirer = [at |-> "idle", keys |-> {}]
    /\ lost = {}
    /\ faults = 0

Request(c) ==
    \/ \E k \in Keys, h \in Payloads : Submit(c, k, h)
    \/ \E k \in Keys : InstallBegin(c, k)
    \/ \E i \in ImportIds, h \in Hashes : ConfirmBegin(c, i, h)

Serve(c) ==
    \/ Put(c) \/ Record(c) \/ Drop(c)
    \/ InstallCommit(c)
    \/ ConfirmCommit(c) \/ ConfirmDiscard(c) \/ ConfirmDiscarded(c)

Disturb(c) == RecordUnanswered(c) \/ PutFails(c) \/ Crash(c)

Work == OpenRaw \/ Publish \/ Fail

Expire == ExpireMark \/ ExpireDelete \/ ExpireDeleted

Delete ==
    \/ FenceAccount
    \/ \E i \in ImportIds : FenceImport(i) \/ VerifyImport(i) \/ CompleteImport(i)
    \/ \E p \in ProfileIds : FenceProfile(p) \/ VerifyProfile(p) \/ CompleteProfile(p)

Next ==
    \/ \E c \in Clients : Request(c) \/ Serve(c) \/ Disturb(c)
    \/ \E i \in ImportIds : Lease(i)
    \/ Work \/ Expire \/ ExpirerCrash \/ Delete
    \/ \E o \in ops : ExpireOperation(o)

Spec == Init /\ [][Next]_vars

-----------------------------------------------------------------------------
(* Properties *)

ImportRow == [state : {"NONE", "QUEUED", "PROCESSING", "READY", "CONFIRMED",
                       "FAILED", "DELETED"},
              lifecycle : Lifecycles, cancelled : BOOLEAN,
              profile : ProfileIds \cup {NULL}, adopted : BOOLEAN,
              key : Keys \cup {NULL}, late : BOOLEAN]

\* The rows have the types that the columns declare, an operation key is bound
\* once per route, and the content of a profile is unique in the account.
TypeOK ==
    /\ account \in {"ACTIVE", "FENCED"}
    /\ imports \in [ImportIds -> ImportRow]
    /\ raw \in [ImportIds -> {"NONE", "AVAILABLE", "DELETE_PENDING", "DELETED"}]
    /\ objects \subseteq ImportIds
    /\ \A p \in ProfileIds : profiles[p].state \in Lifecycles \cup {"NONE", "DELETED"}
    /\ \A o1, o2 \in ops : o1.route = o2.route /\ o1.key = o2.key => o1 = o2
    /\ \A h \in Hashes : \A p, q \in ByHash(h) : p = q

\* An upload that its row calls AVAILABLE is in the object store, unless the
\* answer of the commit that stored the row was lost (submit).
AvailableIsStored ==
    \A i \in ImportIds : raw[i] = "AVAILABLE" => i \in objects \cup lost

\* An object in the store has a row that will delete it, or a request or a
\* confirmation that is at work on it; only a process that died while it
\* submitted leaves one behind (submit, confirm, expire_raw_objects).
StoredIsTracked ==
    \A i \in objects :
        \/ raw[i] \in {"AVAILABLE", "DELETE_PENDING"}
        \/ i \in lost
        \/ \E c \in Clients : client[c].id = i /\ client[c].at \in {"record", "drop"}

\* While the job of an upload runs, its key cannot start a second import
\* (submit, _record_submission, _expire_operations, VERIFY of a deletion).
OneLiveImportPerKey ==
    \A i, j \in ImportIds :
        /\ i # j /\ imports[i].key # NULL /\ imports[i].key = imports[j].key
        /\ imports[i].lifecycle = "ACTIVE" /\ imports[j].lifecycle = "ACTIVE"
        => Terminal(i) \/ Terminal(j)

\* A confirmed import names a profile that exists, unless confirm adopted a
\* profile of another import or one that was being deleted (confirm, _complete).
ConfirmedNamesProfile ==
    \A i \in ImportIds :
        imports[i].state = "CONFIRMED" /\ ~imports[i].adopted
            => imports[i].lifecycle = "VERIFIED" \/ ProfileExists(imports[i].profile)

\* An idempotency record names a row that exists, so a repeat is answered,
\* unless it was bound to a profile that was being deleted
\* (install_simulated_profile, VERIFY of a deletion).
OperationNamesResult ==
    \A o \in ops : ~o.late =>
        IF o.route = "UPLOAD" THEN Exists(o.target) ELSE ProfileExists(o.target)

\* An import recorded after its account was fenced is never worked on (the
\* check of submit is stale by then, the scope of the job is not).
LateImportNeverReady ==
    \A i \in ImportIds : imports[i].late => imports[i].state = "QUEUED"

\* Uploads and their rows agree: an available upload is stored, and a stored one
\* has somebody who will delete it (submit, confirm, expire_raw_objects).
UploadsTracked == TypeOK /\ AvailableIsStored /\ StoredIsTracked

\* What a key, an import or an idempotency record refers to is there, once
\* (submit, confirm, install_simulated_profile, VERIFY of a deletion).
ReferencesResolve == OneLiveImportPerKey /\ ConfirmedNamesProfile /\ OperationNamesResult
=============================================================================
