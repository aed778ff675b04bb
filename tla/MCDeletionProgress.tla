------------------------- MODULE MCDeletionProgress -------------------------
(***************************************************************************)
(* What deletion must eventually do, for two components in one run: `part' *)
(* is the component that a behaviour is about; the other stays as it was   *)
(* initially, and its fairness asks nothing.                               *)
(***************************************************************************)
EXTENDS Naturals

CONSTANT NULL

VARIABLES part,
          target, intent, control, receipt, acks, ledger, holder, proc, faults,
          life, sintent, scontrol, sledger, sreceipt, audit, request, djob, sweeper,
          client, job, upload, rows, objects, writer, late, sfaults

\* One deletion of an account, with a crash or an early lease expiry.
D == INSTANCE Deletion WITH
    Ids <- {"d1"}, Clients <- {"c1"}, Reconcilers <- {"r1"}, Operators <- {"o1"},
    Sweepers <- {"s1"}, MaxFaults <- 1

\* Two of the deletions of an account, an import and a profile.
S == INSTANCE DeletionSweep WITH
    Sweepers <- {"s1"}, MaxDeletions <- 2, MaxFaults <- 1,
    intent <- sintent, control <- scontrol, ledger <- sledger, receipt <- sreceipt,
    faults <- sfaults

protocolVars == <<target, intent, control, receipt, acks, ledger, holder, proc, faults>>
sweepVars == <<life, sintent, scontrol, sledger, sreceipt, audit, request, djob, sweeper,
               client, job, upload, rows, objects, writer, late, sfaults>>
vars == <<part, protocolVars, sweepVars>>
-----------------------------------------------------------------------------
Init == part \in {"PROTOCOL", "SWEEP"} /\ D!Init /\ S!Init

Protocol == part = "PROTOCOL" /\ UNCHANGED <<part, sweepVars>>
Sweep    == part = "SWEEP" /\ UNCHANGED <<part, protocolVars>>

Next == (Protocol /\ D!Next) \/ (Sweep /\ S!Next)

ProtocolFairness ==
    /\ \A p \in D!Procs : WF_vars(Protocol /\ (D!Coordinate(p) \/ D!Advance(p)))
    /\ SF_vars(Protocol /\ D!ReconcilePrepared("r1", "d1"))
    /\ SF_vars(Protocol /\ D!ReconcileControl("r1", "d1"))
    /\ WF_vars(Protocol /\ D!Lease("s1", "d1") /\ UNCHANGED faults)

SweepFairness ==
    /\ WF_vars(Sweep /\ \E s \in S!Scopes : S!Coordinate(s))
    /\ \A s \in S!Scopes : SF_vars(Sweep /\ S!Lease("s1", s))
    /\ WF_vars(Sweep /\ \E s \in S!Scopes : S!Rescue(s) /\ UNCHANGED sfaults)
    /\ WF_vars(Sweep /\ S!SweeperStep("s1"))
    /\ WF_vars(Sweep /\ (S!WriterStep \/ (S!LeaseExpires /\ UNCHANGED sfaults)))

Spec == Init /\ [][Next]_vars /\ ProtocolFairness /\ SweepFairness
-----------------------------------------------------------------------------
\* A preparation is eventually requested or aborted (reconcile,
\* prove_noncommit_and_abort).
PreparedIsResolved == D!PreparedIsResolved

\* Every fenced deletion is finished in the end, through crashes and retries,
\* unless a late row obstructs it or its target went with a scope above that
\* had already looked for deletions below (advance, _complete).
FencedIsDeleted == S!FencedIsDeleted
=============================================================================
