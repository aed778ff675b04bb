----------------------------- MODULE MCDeletion -----------------------------
(***************************************************************************)
(* The safety of deletion, for TLC: the protocol between database and      *)
(* ledger, the sweep of an account with the deletions below it, and the    *)
(* files of the ledger.  `part' is the component that a behaviour is       *)
(* about; the others stay as they were initially, so that the properties   *)
(* of a part need not look at the behaviours of another.                   *)
(***************************************************************************)
EXTENDS Deletion

VARIABLES part,
          life, sintent, scontrol, sledger, sreceipt, audit, request, djob, sweeper,
          client, job, upload, rows, objects, writer, late, sfaults,
          files, genesis, stream, torn, head, op, noted, acked, legacy, lfaults

\* An account, an import and a profile, all deleted, by one worker.
S == INSTANCE DeletionSweep WITH
    MaxDeletions <- 3,
    intent <- sintent, control <- scontrol, ledger <- sledger, receipt <- sreceipt,
    faults <- sfaults

\* A ledger of one deletion, two keys and up to five records.
L == INSTANCE DeletionLedger WITH
    Deletions <- {"d1"}, Times <- {"t1", "t2"}, MaxVersion <- 2, MaxRecords <- 5, MaxFaults <- 2,
    faults <- lfaults

sweepVars == <<life, sintent, scontrol, sledger, sreceipt, audit, request, djob, sweeper,
               client, job, upload, rows, objects, writer, late, sfaults>>
ledgerVars == <<files, genesis, stream, torn, head, op, noted, acked, legacy, lfaults>>
-----------------------------------------------------------------------------
MCInit ==
    /\ part \in {"PROTOCOL", "SWEEP", "LEDGER"}
    /\ Init /\ S!Init /\ L!Init
    /\ part # "LEDGER" => legacy = <<>>

MCNext ==
    /\ UNCHANGED part
    /\ \/ part = "PROTOCOL" /\ Next /\ UNCHANGED <<sweepVars, ledgerVars>>
       \/ part = "SWEEP" /\ S!Next /\ UNCHANGED <<vars, ledgerVars>>
       \/ part = "LEDGER" /\ L!Next /\ UNCHANGED <<vars, sweepVars>>

MCSpec == MCInit /\ [][MCNext]_<<part, vars, sweepVars, ledgerVars>>
-----------------------------------------------------------------------------
\* Once a scope is being deleted, its own sweep alone finishes the deletions
\* below it (deletion_sweep.py _locked_control, jobs.py _deletion_scope_is_valid).
FencedBelowStops == S!FencedBelowStops

\* A stream that ends in an incomplete record is never written again
\* (deletion_ledger.py _read_state).
TornFailsClosed == L!TornFailsClosed

\* Once a deletion reports VERIFIED_COMPLETE, no row below its target is left, and
\* an object is left only if a writer whose lease had expired stored it; a target
\* is gone only when the ledger suppresses it or a scope above it
\* (deletion_sweep.py _sweep, _verify, _complete, _complete_subsumed_deletions).
SweepConsistent == part = "SWEEP" => S!Consistent

\* An event that append returned stays on the stream through crashes and
\* rotations, unless a record was cut short; every event follows its audit; keys
\* never go back and a rotation is recorded once; a migrated ledger holds every
\* event of the plaintext one (deletion_ledger.py append, _rotate, _read_state,
\* deletion_ledger_migration.py).
LedgerConsistent == part = "LEDGER" => L!Consistent
=============================================================================
