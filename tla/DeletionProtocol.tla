-------------------------- MODULE DeletionProtocol --------------------------
(***************************************************************************)
(* The ordering that one deletion promises: the executable specification   *)
(* in packages/domain/ratereplay_domain/deletion_protocol.py.  A state is  *)
(* one DeletionProtocolState; every method that returns a new state is an  *)
(* action, guarded by the condition under which the method does not raise. *)
(* Module Deletion shows that the persistent coordinator implements it.    *)
(***************************************************************************)
EXTENDS Naturals, Sequences

CONSTANT Original   \* original_generation, never assigned after creation

VARIABLES
    lifecycle,      \* LifecycleState of the target
    generation,     \* lifecycle generation of the target
    chain,          \* ledger_chain
    consumed,       \* intent_consumed
    checkpoint      \* sweep_checkpoint, None before the fence and at the end

vars == <<lifecycle, generation, chain, consumed, checkpoint>>

None == "NONE"

LifecycleState == {"ACTIVE", "DELETION_PENDING_LEDGER", "DELETING", "DELETED"}

LedgerPhase == {"PREPARED", "REQUESTED", "COMPLETED", "ABORTED"}

Checkpoints == {"FENCE", "DRAIN", "SWEEP", "VERIFY", "COMPLETE"}

Unprepared == << >>
Prepared   == <<"PREPARED">>
Requested  == <<"PREPARED", "REQUESTED">>
Completed  == <<"PREPARED", "REQUESTED", "COMPLETED">>
Aborted    == <<"PREPARED", "ABORTED">>

Chains == {Unprepared, Prepared, Requested, Completed, Aborted}

-----------------------------------------------------------------------------
Init ==
    /\ lifecycle = "ACTIVE"
    /\ generation = Original
    /\ chain = Unprepared
    /\ consumed = FALSE
    /\ checkpoint = None

append_prepared ==
    /\ lifecycle = "ACTIVE"
    /\ chain = Unprepared
    /\ chain' = Append(chain, "PREPARED")
    /\ UNCHANGED <<lifecycle, generation, consumed, checkpoint>>

fence_database ==
    /\ chain = Prepared
    /\ lifecycle = "ACTIVE"
    /\ lifecycle' = "DELETION_PENDING_LEDGER"
    /\ generation' = Original + 1
    /\ consumed' = TRUE
    /\ checkpoint' = "FENCE"
    /\ UNCHANGED chain

append_requested ==
    /\ chain = Prepared
    /\ lifecycle = "DELETION_PENDING_LEDGER"
    /\ consumed
    /\ chain' = Append(chain, "REQUESTED")
    /\ UNCHANGED <<lifecycle, generation, consumed, checkpoint>>

begin_sweep ==
    /\ chain = Requested
    /\ lifecycle = "DELETION_PENDING_LEDGER"
    /\ lifecycle' = "DELETING"
    /\ checkpoint' = "DRAIN"
    /\ UNCHANGED <<generation, chain, consumed>>

Checkpoint(phase) ==
    /\ lifecycle = "DELETING"
    /\ checkpoint' = phase
    /\ UNCHANGED <<lifecycle, generation, chain, consumed>>

append_completed ==
    /\ lifecycle = "DELETING"
    /\ checkpoint = "VERIFY"
    /\ chain = Requested
    /\ chain' = Append(chain, "COMPLETED")
    /\ UNCHANGED <<lifecycle, generation, consumed, checkpoint>>

finalize_deleted ==
    /\ chain # Unprepared
    /\ chain[Len(chain)] = "COMPLETED"
    /\ lifecycle = "DELETING"
    /\ lifecycle' = "DELETED"
    /\ checkpoint' = None
    /\ UNCHANGED <<generation, chain, consumed>>

(* authoritative_noncommit is the caller's promise; it is what the guard   *)
(* on the lifecycle says of a target in this specification.                *)
append_aborted ==
    /\ chain = Prepared
    /\ lifecycle = "ACTIVE"
    /\ chain' = Append(chain, "ABORTED")
    /\ UNCHANGED <<lifecycle, generation, consumed, checkpoint>>

Next ==
    \/ append_prepared
    \/ fence_database
    \/ append_requested
    \/ begin_sweep
    \/ \E phase \in Checkpoints : Checkpoint(phase)
    \/ append_completed
    \/ finalize_deleted
    \/ append_aborted

Spec == Init /\ [][Next]_vars

=============================================================================
