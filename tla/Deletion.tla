------------------------------ MODULE Deletion ------------------------------
(***************************************************************************)
(* The deletion of one account: the coordinator (deletions.py), the        *)
(* reconciler, the phases of the sweep (deletion_sweep.py) and the         *)
(* external ledger (deletion_ledger.py) that they append to.  Several      *)
(* deletion intents may be created for the account, one after the other    *)
(* or, as far as the code lets them, at the same time.                     *)
(*                                                                         *)
(* A locked transaction is one step.  The ledger is outside the database:  *)
(* every chain read, append and transaction is a step of its own, so that  *)
(* other processes come between and a crash leaves one without the other.  *)
(***************************************************************************)
EXTENDS Naturals, Sequences, FiniteSets

CONSTANTS
    Ids,            \* deletion ids, one per intent
    Clients,        \* API calls of authorize_and_start
    Reconcilers,    \* processes that run DeletionCoordinator.reconcile
    Operators,      \* callers of prove_noncommit_and_abort
    Sweepers,       \* deletion workers
    NULL,           \* no process, no id
    MaxFaults       \* bound on crashes and on leases that expire too early

Procs == Clients \cup Reconcilers \cup Operators \cup Sweepers

ASSUME DeletionConstants ==
    /\ NULL \notin Procs
    /\ NULL \notin Ids
    /\ MaxFaults \in Nat
    /\ Clients \cap Reconcilers = {}
    /\ Clients \cap Operators = {}
    /\ Clients \cap Sweepers = {}
    /\ Reconcilers \cap Operators = {}
    /\ Reconcilers \cap Sweepers = {}
    /\ Operators \cap Sweepers = {}

VARIABLES
    target,     \* the account: lifecycle_state and lifecycle_generation
    intent,     \* DeletionIntentRecord of every id
    control,    \* phase of the DeletionControlOperationRecord of every id
    receipt,    \* status of the DeletionReceiptRecord of every id
    acks,       \* DeletionLedgerReceiptRecord: phases acknowledged, per id
    ledger,     \* the phases of every id's chain, in the external ledger
    holder,     \* the sweeper that owns the lease of an id's deletion job
    proc,       \* where every process is, and the id it works on
    faults      \* faults so far

vars == <<target, intent, control, receipt, acks, ledger, holder,
          proc, faults>>

database == <<target, intent, control, receipt, acks, holder>>

Phases == {"PREPARED", "REQUESTED", "COMPLETED", "ABORTED"}

Unprepared == << >>
Unresolved == <<"PREPARED">>
Requested  == <<"PREPARED", "REQUESTED">>
Completed  == <<"PREPARED", "REQUESTED", "COMPLETED">>
Aborted    == <<"PREPARED", "ABORTED">>

LegalChains == {Unresolved, Requested, Completed, Aborted}

\* "NEW" has no row yet, the row of "SWEPT" has been deleted.
IntentStates ==
    {"NEW", "INTENT_CREATED", "PREPARED", "CONSUMED", "INVALIDATED", "SWEPT"}

\* "NONE" has no row yet, the row of "DONE" has been deleted.
ControlPhases ==
    {"NONE", "FENCE", "DRAIN", "SWEEP", "VERIFY", "COMPLETE", "DONE"}

SweepPhases == {"DRAIN", "SWEEP", "VERIFY", "COMPLETE"}

ReceiptStatuses ==
    {"NONE", "INTENT_CREATED", "PREPARED", "DELETION_PENDING_LEDGER",
     "DELETING", "SWEEP", "VERIFY", "COMPLETE", "DELETED", "ABORTED"}

Steps ==
    {"idle", "prepare", "fence", "request", "append_requested",
     "commit_requested", "reconcile", "prove", "abort", "append_aborted",
     "store_aborted", "advance", "append_completed", "commit_completed"}

SweepSteps == {"advance", "append_completed", "commit_completed"}

-----------------------------------------------------------------------------
(* The ledger: FilesystemDeletionLedger.append under its file lock.        *)

InChain(chain, phase) == \E i \in 1 .. Len(chain) : chain[i] = phase

Has(d, phase) == InChain(ledger[d], phase)

NewEvent(d, phase) ==
    ~Has(d, phase) /\ Append(ledger[d], phase) \in LegalChains

\* An event that is there already is returned if occurred_at agrees as well:
\* if two calls that race read the same clock.
LedgerAppend(d, phase) ==
    \/ /\ NewEvent(d, phase)
       /\ ledger' = [ledger EXCEPT ![d] = Append(@, phase)]
    \/ /\ Has(d, phase)
       /\ UNCHANGED ledger

\* LEDGER_DUPLICATE_MISMATCH or ILLEGAL_LEDGER_CHAIN
AppendRefused(d, phase) == ~NewEvent(d, phase)

-----------------------------------------------------------------------------
(* Processes *)

Idle == [at |-> "idle", id |-> NULL]

At(p, step) == proc[p].at = step

Go(p, step) == proc' = [proc EXCEPT ![p] = [at |-> step, id |-> proc[p].id]]

Start(p, step, d) ==
    /\ At(p, "idle")
    /\ proc' = [proc EXCEPT ![p] = [at |-> step, id |-> d]]

Return(p) == proc' = [proc EXCEPT ![p] = Idle]

\* The call raises: its transaction is rolled back.
Raise(p) ==
    /\ Return(p)
    /\ UNCHANGED <<database, ledger, faults>>

HasIntent(d)  == intent[d].state \notin {"NEW", "SWEPT"}
HasControl(d) == control[d] \notin {"NONE", "DONE"}

\* Mutant: neither the control nor the lifecycle is looked at.
AtFenceUnchecked(d) == target.state # "DELETED" /\ d \in Ids

\* The target is where the control left it; original outlives the intent row
\* as original_generation of the control.
AtFence(d) ==
    /\ HasControl(d)
    /\ target.state \in {"DELETION_PENDING_LEDGER", "DELETING"}
    /\ target.generation = intent[d].original + 1

-----------------------------------------------------------------------------
(* Intents *)

Fault == faults < MaxFaults /\ faults' = faults + 1

Active(d) == intent[d].state \in {"INTENT_CREATED", "PREPARED", "CONSUMED"}

Stale(d) == intent[d].state = "INTENT_CREATED" /\ intent[d].expired

\* _has_unresolved_preparation: as far as the database knows
AckedUnresolved(d) ==
    /\ HasIntent(d)
    /\ intent[d].acked
    /\ acks[d] \cap {"REQUESTED", "ABORTED"} = {}

\* _create_intent under the lock on the account.  A stale intent of the
\* account is invalidated, any other active one refuses the new intent.
CreateIntent(d) ==
    /\ intent[d].state = "NEW"
    /\ target.state = "ACTIVE"
    /\ \A e \in Ids : Active(e) => Stale(e)
    /\ \A e \in Ids : ~AckedUnresolved(e)
    /\ intent' = [e \in Ids |->
          IF e = d
          THEN [state |-> "INTENT_CREATED", original |-> target.generation,
                acked |-> FALSE, expired |-> FALSE]
          ELSE IF Active(e) THEN [intent[e] EXCEPT !.state = "INVALIDATED"]
          ELSE intent[e]]
    /\ receipt' = [receipt EXCEPT ![d] = "INTENT_CREATED"]
    /\ UNCHANGED <<target, control, acks, holder, ledger, proc, faults>>

\* INTENT_LIFETIME passes before the intent is prepared.
Expire(d) ==
    /\ intent[d].state = "INTENT_CREATED"
    /\ ~intent[d].expired
    /\ intent' = [intent EXCEPT ![d].expired = TRUE]
    /\ UNCHANGED <<target, control, receipt, acks, holder, ledger,
                   proc, faults>>

-----------------------------------------------------------------------------
(* authorize_and_start *)

\* _authorized_intent: the intent is read without a lock.
Authorize(p, d) ==
    /\ Active(d)
    /\ ~Stale(d)
    /\ Start(p, "prepare", d)
    /\ UNCHANGED <<database, ledger, faults>>

\* The ledger half of _ensure_prepared, inside its transaction.
AppendPrepared(d) ==
    IF ledger[d] = Unprepared
    THEN LedgerAppend(d, "PREPARED")
    ELSE UNCHANGED ledger

\* Mutant: the receipt is moved back to PREPARED by a late retry.
StorePreparedAlways(d) ==
    /\ acks' = [acks EXCEPT ![d] = @ \cup {"PREPARED"}]
    /\ intent' = IF intent[d].state = "INTENT_CREATED"
                 THEN [intent EXCEPT ![d].state = "PREPARED", ![d].acked = TRUE]
                 ELSE intent
    /\ receipt' = [receipt EXCEPT ![d] = "PREPARED"]
    /\ UNCHANGED <<target, control, holder>>

\* The database half of _ensure_prepared: it looks at the state of the intent
\* only to decide whether to move it on.
StorePrepared(d) ==
    /\ acks' = [acks EXCEPT ![d] = @ \cup {"PREPARED"}]
    /\ intent' = IF intent[d].state = "INTENT_CREATED"
                 THEN [intent EXCEPT ![d].state = "PREPARED", ![d].acked = TRUE]
                 ELSE intent
    /\ receipt' = IF receipt[d] = "INTENT_CREATED"
                  THEN [receipt EXCEPT ![d] = "PREPARED"]
                  ELSE receipt
    /\ UNCHANGED <<target, control, holder>>

Prepare(p) ==
    LET d == proc[p].id IN
    /\ At(p, "prepare")
    /\ IF HasIntent(d)
       THEN /\ AppendPrepared(d)
            /\ StorePrepared(d)
            /\ Go(p, "fence")
            /\ UNCHANGED faults
       ELSE Raise(p)

\* A crash after the append and before the commit.
PrepareCrash(p) ==
    LET d == proc[p].id IN
    /\ At(p, "prepare")
    /\ HasIntent(d)
    /\ AppendPrepared(d)
    /\ Return(p)
    /\ Fault
    /\ UNCHANGED database

\* Mutant: an invalidated intent is fenced as well.
FenceableInvalidated(d) ==
    /\ target.state = "ACTIVE"
    /\ target.generation = intent[d].original

\* Mutant: the lifecycle of the target is not looked at.
FenceableInAnyLifecycle(d) == intent[d].state # "CONSUMED"

Fenceable(d) ==
    /\ target.state = "ACTIVE"
    /\ target.generation = intent[d].original
    /\ intent[d].state \in {"INTENT_CREATED", "PREPARED"}

\* What _fence_prepared stores, in one locked transaction.
FenceRows(d) ==
    /\ target' = [state |-> "DELETION_PENDING_LEDGER",
                  generation |-> intent[d].original + 1]
    /\ intent' = [intent EXCEPT ![d].state = "CONSUMED", ![d].acked = TRUE]
    /\ control' = [control EXCEPT ![d] = "FENCE"]
    /\ receipt' = [receipt EXCEPT ![d] = "DELETION_PENDING_LEDGER"]
    /\ acks' = [acks EXCEPT ![d] = @ \cup {"PREPARED"}]
    /\ UNCHANGED holder

Fence(p) ==
    LET d == proc[p].id IN
    /\ At(p, "fence")
    /\ \/ /\ HasIntent(d)
          /\ AtFence(d)
          /\ acks' = [acks EXCEPT ![d] = @ \cup {"PREPARED"}]
          /\ Go(p, "request")
          /\ UNCHANGED <<target, intent, control, receipt, holder, ledger, faults>>
       \/ /\ HasIntent(d)
          /\ ~HasControl(d)
          /\ Fenceable(d)
          /\ FenceRows(d)
          /\ Go(p, "request")
          /\ UNCHANGED <<ledger, faults>>
       \/ /\ ~(HasIntent(d) /\ (AtFence(d) \/ (~HasControl(d) /\ Fenceable(d))))
          /\ Raise(p)

-----------------------------------------------------------------------------
(* _ensure_requested *)

\* The unlocked checks and the read of the chain.
Request(p) ==
    LET d == proc[p].id IN
    /\ At(p, "request")
    /\ IF AtFence(d)
       THEN /\ Go(p, IF Has(d, "REQUESTED")
                     THEN "commit_requested" ELSE "append_requested")
            /\ UNCHANGED <<database, ledger, faults>>
       ELSE Raise(p)

AppendRequested(p) ==
    LET d == proc[p].id IN
    /\ At(p, "append_requested")
    /\ \/ /\ LedgerAppend(d, "REQUESTED")
          /\ Go(p, "commit_requested")
          /\ UNCHANGED <<database, faults>>
       \/ /\ AppendRefused(d, "REQUESTED")
          /\ Raise(p)

\* Mutant: a slow call starts the sweep over.
RequestedRowsAgain(d) ==
    /\ acks' = [acks EXCEPT ![d] = @ \cup {"REQUESTED"}]
    /\ target' = [target EXCEPT !.state = "DELETING"]
    /\ control' = [control EXCEPT ![d] = "DRAIN"]
    /\ receipt' = [receipt EXCEPT ![d] = "DELETING"]
    /\ UNCHANGED <<intent, holder>>

\* The deletion job and the phase DRAIN, unless a faster call made them.
RequestedRows(d) ==
    /\ acks' = [acks EXCEPT ![d] = @ \cup {"REQUESTED"}]
    /\ IF target.state = "DELETING"
       THEN UNCHANGED <<target, control, receipt>>
       ELSE /\ target' = [target EXCEPT !.state = "DELETING"]
            /\ control' = [control EXCEPT ![d] = "DRAIN"]
            /\ receipt' = [receipt EXCEPT ![d] = "DELETING"]
    /\ UNCHANGED <<intent, holder>>

CommitRequested(p) ==
    LET d == proc[p].id IN
    /\ At(p, "commit_requested")
    /\ IF AtFence(d)
       THEN /\ RequestedRows(d)
            /\ Return(p)
            /\ UNCHANGED <<ledger, faults>>
       ELSE Raise(p)

-----------------------------------------------------------------------------
(* Proved noncommit *)

\* _preparation_has_proved_noncommit
Noncommitted(d) ==
    /\ intent[d].state = "INVALIDATED"
    /\ ~HasControl(d)
    /\ target.state = "ACTIVE"
    /\ target.generation = intent[d].original

\* prove_noncommit_and_abort: the chain is an unresolved preparation ...
ProveNoncommit(p, d) ==
    /\ ledger[d] = Unresolved
    /\ Start(p, "prove", d)
    /\ UNCHANGED <<database, ledger, faults>>

\* ... and the locked transaction invalidates the intent.
Invalidate(p) ==
    LET d == proc[p].id IN
    /\ At(p, "prove")
    /\ IF HasIntent(d) /\ ~HasControl(d) /\ Fenceable(d)
       THEN /\ intent' = [intent EXCEPT ![d].state = "INVALIDATED"]
            /\ Go(p, "abort")
            /\ UNCHANGED <<target, control, receipt, acks, holder, ledger, faults>>
       ELSE Raise(p)

\* _ensure_aborted: the proof, without a lock, and the read of the chain
Abort(p) ==
    LET d == proc[p].id IN
    /\ At(p, "abort")
    /\ IF Noncommitted(d)
       THEN /\ Go(p, IF Has(d, "ABORTED")
                     THEN "store_aborted" ELSE "append_aborted")
            /\ UNCHANGED <<database, ledger, faults>>
       ELSE Raise(p)

AppendAborted(p) ==
    LET d == proc[p].id IN
    /\ At(p, "append_aborted")
    /\ \/ /\ LedgerAppend(d, "ABORTED")
          /\ Go(p, "store_aborted")
          /\ UNCHANGED <<database, faults>>
       \/ /\ AppendRefused(d, "ABORTED")
          /\ Raise(p)

StoreAborted(p) ==
    LET d == proc[p].id IN
    /\ At(p, "store_aborted")
    /\ acks' = [acks EXCEPT ![d] = @ \cup {"ABORTED"}]
    /\ receipt' = [receipt EXCEPT ![d] = "ABORTED"]
    /\ Return(p)
    /\ UNCHANGED <<target, intent, control, holder, ledger, faults>>

-----------------------------------------------------------------------------
(* reconcile.  A pass visits every unresolved preparation and then every    *)
(* control in phase FENCE; it read both lists earlier, so that the visit    *)
(* may find its deletion further on.                                        *)

ReconcilePrepared(p, d) ==
    /\ ledger[d] = Unresolved
    /\ Start(p, "reconcile", d)
    /\ UNCHANGED <<database, ledger, faults>>

\* Mutant: a proved noncommit is not aborted.
ReconcileByFence(p) ==
    /\ At(p, "reconcile")
    /\ Go(p, "fence")
    /\ UNCHANGED <<database, ledger, faults>>

Reconcile(p) ==
    /\ At(p, "reconcile")
    /\ Go(p, IF Noncommitted(proc[p].id) THEN "abort" ELSE "fence")
    /\ UNCHANGED <<database, ledger, faults>>

ReconcileControl(p, d) ==
    /\ control[d] = "FENCE"
    /\ Start(p, "request", d)
    /\ UNCHANGED <<database, ledger, faults>>

-----------------------------------------------------------------------------
(* The deletion worker.  Leasing is the subject of module JobQueue: here a  *)
(* lease is owned, or was given up, or expired under a sweeper that works.  *)

Working(p, d) == proc[p].id = d /\ proc[p].at \in SweepSteps

Lease(p, d) ==
    /\ control[d] \in SweepPhases
    /\ Start(p, "advance", d)
    /\ IF holder[d] # NULL /\ Working(holder[d], d)
       THEN Fault
       ELSE UNCHANGED faults
    /\ holder' = [holder EXCEPT ![d] = p]
    /\ UNCHANGED <<target, intent, control, receipt, acks, ledger>>

\* _locked_control: the fence of the lease and of the lifecycle
Locked(p, d, phase) ==
    /\ holder[d] = p
    /\ control[d] = phase
    /\ target.state = "DELETING"
    /\ target.generation = intent[d].original + 1

\* A phase of DeletionSweepService.advance that ends in phase to.
Advanced(p, d, from, to) ==
    /\ Locked(p, d, from)
    /\ control' = [control EXCEPT ![d] = to]
    /\ receipt' = [receipt EXCEPT ![d] = to]
    /\ UNCHANGED <<target, acks, holder, ledger, proc>>

Drain(p) ==
    /\ At(p, "advance")
    /\ Advanced(p, proc[p].id, "DRAIN", "SWEEP")
    /\ UNCHANGED <<intent, faults>>

\* _sweep_owner_rows takes the intents of the account along.
Sweep(p) ==
    /\ At(p, "advance")
    /\ Advanced(p, proc[p].id, "SWEEP", "VERIFY")
    /\ intent' = [d \in Ids |->
          IF HasIntent(d) THEN [intent[d] EXCEPT !.state = "SWEPT"]
          ELSE intent[d]]
    /\ UNCHANGED faults

Verify(p) ==
    /\ At(p, "advance")
    /\ \/ /\ Advanced(p, proc[p].id, "VERIFY", "COMPLETE")
          /\ \A d \in Ids : ~HasIntent(d)
          /\ UNCHANGED faults
       \/ /\ Advanced(p, proc[p].id, "VERIFY", "SWEEP")
          /\ Fault
    /\ UNCHANGED intent

\* JobService.fail after a pending drain or an error: the job is queued again.
GiveBack(p) ==
    LET d == proc[p].id IN
    /\ At(p, "advance")
    /\ holder[d] = p
    /\ holder' = [holder EXCEPT ![d] = NULL]
    /\ Return(p)
    /\ Fault
    /\ UNCHANGED <<target, intent, control, receipt, acks, ledger>>

\* An error while the sweeper advances: fail queues the job again if the lease
\* is still the sweeper's.
FailSweep(p) ==
    LET d == proc[p].id IN
    /\ holder' = IF holder[d] = p THEN [holder EXCEPT ![d] = NULL] ELSE holder
    /\ Return(p)
    /\ UNCHANGED <<target, intent, control, receipt, acks, ledger,
                   faults>>

\* STALE_DELETION_LEASE; fail finds the lease lost and changes nothing.
LoseLease(p) ==
    /\ At(p, "advance")
    /\ holder[proc[p].id] # p
    /\ Raise(p)

\* Mutant: the terminal transaction does not wait for COMPLETED.
CompleteUnrecorded(p) ==
    /\ At(p, "advance")
    /\ Locked(p, proc[p].id, "COMPLETE")
    /\ Go(p, "commit_completed")
    /\ UNCHANGED <<database, ledger, faults>>

Complete(p) ==
    LET d == proc[p].id IN
    /\ At(p, "advance")
    /\ Locked(p, d, "COMPLETE")
    /\ Go(p, IF Has(d, "COMPLETED")
             THEN "commit_completed" ELSE "append_completed")
    /\ UNCHANGED <<database, ledger, faults>>

AppendCompleted(p) ==
    LET d == proc[p].id IN
    /\ At(p, "append_completed")
    /\ \/ /\ LedgerAppend(d, "COMPLETED")
          /\ Go(p, "commit_completed")
          /\ UNCHANGED <<database, faults>>
       \/ /\ AppendRefused(d, "COMPLETED")
          /\ FailSweep(p)

\* The terminal transaction deletes the rows of the deletion and the account.
CommitCompleted(p) ==
    LET d == proc[p].id IN
    /\ At(p, "commit_completed")
    /\ IF Locked(p, d, "COMPLETE")
       THEN /\ target' = [target EXCEPT !.state = "DELETED"]
            /\ control' = [control EXCEPT ![d] = "DONE"]
            /\ receipt' = [receipt EXCEPT ![d] = "DELETED"]
            /\ acks' = [acks EXCEPT ![d] = {}]
            /\ holder' = [holder EXCEPT ![d] = NULL]
            /\ Return(p)
            /\ UNCHANGED <<intent, ledger, faults>>
       ELSE FailSweep(p)

-----------------------------------------------------------------------------
(* The system *)

Crash(p) ==
    /\ ~At(p, "idle")
    /\ Return(p)
    /\ Fault
    /\ UNCHANGED <<database, ledger>>

Init ==
    /\ target = [state |-> "ACTIVE", generation |-> 0]
    /\ intent = [d \in Ids |-> [state |-> "NEW", original |-> 0,
                                acked |-> FALSE, expired |-> FALSE]]
    /\ control = [d \in Ids |-> "NONE"]
    /\ receipt = [d \in Ids |-> "NONE"]
    /\ acks = [d \in Ids |-> {}]
    /\ ledger = [d \in Ids |-> Unprepared]
    /\ holder = [d \in Ids |-> NULL]
    /\ proc = [p \in Procs |-> Idle]
    /\ faults = 0

Begin ==
    \E d \in Ids :
        \/ \E p \in Clients : Authorize(p, d)
        \/ \E p \in Reconcilers : ReconcilePrepared(p, d)
        \/ \E p \in Reconcilers : ReconcileControl(p, d)
        \/ \E p \in Operators : ProveNoncommit(p, d)
        \/ \E p \in Sweepers : Lease(p, d)

Coordinate(p) ==
    \/ Prepare(p)
    \/ Fence(p)
    \/ Request(p)
    \/ AppendRequested(p)
    \/ CommitRequested(p)
    \/ Reconcile(p)
    \/ Invalidate(p)
    \/ Abort(p)
    \/ AppendAborted(p)
    \/ StoreAborted(p)

Advance(p) ==
    \/ Drain(p)
    \/ Sweep(p)
    \/ Verify(p)
    \/ Complete(p)
    \/ LoseLease(p)
    \/ AppendCompleted(p)
    \/ CommitCompleted(p)

Fail(p) ==
    \/ PrepareCrash(p)
    \/ GiveBack(p)
    \/ Crash(p)

Next ==
    \/ \E d \in Ids : CreateIntent(d) \/ Expire(d)
    \/ Begin
    \/ \E p \in Procs : Coordinate(p) \/ Advance(p) \/ Fail(p)

(* A call that has begun goes on; the reconciler and the deletion worker    *)
(* poll for ever, and a pass of the reconciler visits every deletion on its *)
(* lists.  Nobody has to create or to authorize an intent.                  *)
Fairness ==
    /\ \A p \in Procs : WF_vars(Coordinate(p) \/ Advance(p))
    /\ \A d \in Ids :
        /\ SF_vars(\E p \in Reconcilers : ReconcilePrepared(p, d))
        /\ SF_vars(\E p \in Reconcilers : ReconcileControl(p, d))
        /\ WF_vars(\E p \in Sweepers : Lease(p, d) /\ UNCHANGED faults)

Spec == Init /\ [][Next]_vars

FairSpec == Spec /\ Fairness

-----------------------------------------------------------------------------
(* Properties *)

Target == [state : {"ACTIVE", "DELETION_PENDING_LEDGER", "DELETING", "DELETED"},
           generation : 0 .. 1]

Intent == [state : IntentStates, original : {0}, acked : BOOLEAN,
           expired : BOOLEAN]

ProcState == [at : Steps, id : Ids \cup {NULL}]

\* Every variable has its type; the ledger holds legal chains only, and the
\* generation moves once at most (lifecycle_generation, original_generation).
TypeOK ==
    /\ target \in Target
    /\ intent \in [Ids -> Intent]
    /\ control \in [Ids -> ControlPhases]
    /\ receipt \in [Ids -> ReceiptStatuses]
    /\ acks \in [Ids -> SUBSET Phases]
    /\ ledger \in [Ids -> LegalChains \cup {Unprepared}]
    /\ holder \in [Ids -> Sweepers \cup {NULL}]
    /\ proc \in [Procs -> ProcState]
    /\ faults \in 0 .. MaxFaults

\* deletion-contract.md: REQUESTED and COMPLETED can never coexist with an
\* ACTIVE target, whichever call appended them and whoever crashed.
SuppressedNeverActive ==
    \A d \in Ids : Has(d, "REQUESTED") => target.state # "ACTIVE"

\* Of all intents of an account at most one is ever requested: no race of
\* create, authorize and reconcile commits the account to two deletions.
OneRequested ==
    \A d, e \in Ids : Has(d, "REQUESTED") /\ Has(e, "REQUESTED") => d = e

\* ABORTED is proof of noncommit: a deletion that the ledger calls aborted was
\* never fenced and never will be, although the proof is read without a lock.
AbortedNeverFenced ==
    \A d \in Ids : Has(d, "ABORTED") =>
        /\ control[d] = "NONE"
        /\ intent[d].state \in {"INVALIDATED", "SWEPT"}

\* The database never runs ahead of the ledger: what it acknowledges is in
\* the chain, and no phase is reached before the event that authorizes it.
LedgerLeads ==
    \A d \in Ids :
        /\ \A phase \in acks[d] : Has(d, phase)
        /\ control[d] # "NONE" => Has(d, "PREPARED")
        /\ control[d] \in SweepPhases => Has(d, "REQUESTED")
        /\ control[d] = "DONE" => Has(d, "COMPLETED")

\* The status the owner reads with the receipt is that of the control, which
\* another transaction writes.
ReceiptTellsPhase ==
    \A d \in Ids :
        /\ control[d] = "FENCE" => receipt[d] = "DELETION_PENDING_LEDGER"
        /\ control[d] = "DRAIN" => receipt[d] = "DELETING"
        /\ control[d] \in {"SWEEP", "VERIFY", "COMPLETE"} => receipt[d] = control[d]
        /\ control[d] = "DONE" => receipt[d] = "DELETED"

-----------------------------------------------------------------------------
(* Refinement.  Of the target, a deletion sees what it has fenced itself.   *)
(* The phase of a control is the one to be run next, the checkpoint of the  *)
(* specification is the last one that ended.                                *)

Fenced(d) == control[d] # "NONE"

CheckpointOf(d) ==
    CASE control[d] = "FENCE" -> "FENCE"
      [] control[d] \in {"DRAIN", "SWEEP"} -> "DRAIN"
      [] control[d] = "VERIFY" -> "SWEEP"
      [] control[d] = "COMPLETE" -> "VERIFY"
      [] OTHER -> "NONE"

Protocol(d) == INSTANCE DeletionProtocol WITH
    Original   <- 0,
    lifecycle  <- IF Fenced(d) THEN target.state ELSE "ACTIVE",
    generation <- IF Fenced(d) THEN target.generation ELSE 0,
    chain      <- ledger[d],
    consumed   <- Fenced(d),
    checkpoint <- CheckpointOf(d)

\* Every deletion, among the others, crashes and races, follows the ordering
\* of deletion_protocol.py.
ImplementsProtocol ==
    /\ \A d \in Ids : Protocol(d)!Init
    /\ [][\A d \in Ids : Protocol(d)!Next \/ UNCHANGED Protocol(d)!vars]_vars

-----------------------------------------------------------------------------
(* Liveness *)

\* A preparation is eventually requested or aborted.
PreparedIsResolved ==
    \A d \in Ids : ledger[d] = Unresolved ~> ledger[d] # Unresolved

=============================================================================
