--------------------------- MODULE DeletionProofs ---------------------------
(***************************************************************************)
(* The commit after REQUESTED, the abort, the intents and the phases of    *)
(* the sweep keep the inductive invariant, and what follows from it: the   *)
(* safety invariants of Deletion and its refinement of DeletionProtocol.   *)
(***************************************************************************)
EXTENDS DeletionInvariant

-----------------------------------------------------------------------------
(* _ensure_requested, the abort and the intents                             *)

\* The commit that follows REQUESTED starts the sweep once.
LEMMA CommitRequestedOK ==
    ASSUME IInv, NEW p \in Procs, CommitRequested(p)
    PROVE  IInv'
  <1> DEFINE d == proc[p].id
  <1>0. /\ d \in Ids /\ TypeOK /\ "REQUESTED" \in Phases
        /\ Has(d, "REQUESTED")
    BY AtStep DEF CommitRequested, IInv, StepOK, Phases
  <1>1. CASE ~AtFence(d)
    BY <1>1, Raises DEF CommitRequested
  <1>2. CASE AtFence(d)
    <2>0. RequestedRows(d) /\ Return(p) /\ UNCHANGED <<ledger, faults>>
      BY <1>2 DEF CommitRequested
    <2>1. acks' \in [Ids -> SUBSET Phases] /\ \A e \in Ids : AcksInChain(e)'
      BY <1>0, <2>0, AckStep, Zenon DEF RequestedRows
    <2>2. /\ proc' \in [Procs -> ProcState]
          /\ \A q \in Procs : q # p => proc'[q] = proc[q]
          /\ StepOK(proc[p])'
      BY <1>0, <2>0, ReturnStep
    <2>3. CASE target.state = "DELETING"
      <3>1. UNCHANGED <<target, control, receipt, intent, holder, ledger, faults>>
        BY <2>0, <2>3 DEF RequestedRows
      <3>2. TypeOK'
        BY Zenon, <1>0, <2>1, <2>2, <3>1 DEF TypeOK
      <3>3. OneControl'
        BY Zenon, <3>1, Facts DEF OneControl
      <3>4. ASSUME NEW e \in Ids PROVE DeletionOK(e)' /\ Forward(e)
        <4>1. DeletionOK(e)
          BY Zenon, Facts
        <4> QED
          BY <2>1, <3>1, <4>1 DEF DeletionOK, ChainFollowsControl, TargetFollowsControl,
             IntentFollows, ReceiptFollows, Forward
      <3> QED
        BY Zenon, <2>2, <3>2, <3>3, <3>4, Writes DEF RowsOK
    <2>4. CASE target.state # "DELETING"
      <3>1. /\ target' = [target EXCEPT !.state = "DELETING"]
            /\ control' = [control EXCEPT ![d] = "DRAIN"]
            /\ receipt' = [receipt EXCEPT ![d] = "DELETING"]
            /\ UNCHANGED <<intent, holder, ledger, faults>>
        BY <2>0, <2>4 DEF RequestedRows
      <3>2. control[d] = "FENCE"
        <4>1. /\ HasControl(d) /\ target.state = "DELETION_PENDING_LEDGER"
              /\ control[d] \in ControlPhases /\ TargetFollowsControl(d)
          BY Zenon, <1>0, <1>2, <2>4, Facts DEF AtFence, DeletionOK
        <4> QED
          BY <4>1 DEF HasControl, ControlPhases, SweepPhases, TargetFollowsControl
      <3>3. ledger[d] = Requested
        BY Zenon, <1>0, <3>2, Facts, InChains, ChainsDistinct
           DEF DeletionOK, ChainFollowsControl, Has
      <3>4. /\ target' \in Target /\ target'.state = "DELETING"
            /\ target'.generation = target.generation /\ target.state # "ACTIVE"
        BY <1>2, <3>1, Facts DEF Target, AtFence
      <3>5. /\ control' \in [Ids -> ControlPhases] /\ receipt' \in [Ids -> ReceiptStatuses]
            /\ control'[d] = "DRAIN" /\ receipt'[d] = "DELETING"
            /\ \A e \in Ids : e # d => control'[e] = control[e] /\ receipt'[e] = receipt[e]
        BY <1>0, <3>1 DEF TypeOK, ControlPhases, ReceiptStatuses
      <3>6. \A e \in Ids : e # d => control[e] = "NONE"
        BY Zenon, <1>0, <3>2, Facts DEF OneControl
      <3>7. TypeOK'
        BY Zenon, <1>0, <2>1, <2>2, <3>1, <3>4, <3>5 DEF TypeOK
      <3>8. OneControl'
        BY <1>0, <3>4, <3>5, <3>6, Facts DEF OneControl
      <3>9. ASSUME NEW e \in Ids PROVE DeletionOK(e)' /\ Forward(e)
        <4>1. DeletionOK(e)
          BY Facts
        <4>2. CASE e = d
          BY Zenon, <2>1, <3>1, <3>2, <3>3, <3>4, <3>5, <4>1, <4>2
             DEF DeletionOK, ChainFollowsControl, TargetFollowsControl, IntentFollows,
                 ReceiptFollows, Forward, SweepPhases
        <4>3. CASE e # d
          BY Zenon, <2>1, <3>1, <3>5, <3>6, <4>1, <4>3
             DEF DeletionOK, ChainFollowsControl, TargetFollowsControl, IntentFollows,
                 ReceiptFollows, Forward, SweepPhases
        <4> QED
          BY <4>2, <4>3, Zenon
      <3> QED
        BY <2>2, <3>7, <3>8, <3>9, Writes DEF RowsOK
    <2> QED
      BY <2>3, <2>4
  <1> QED
    BY Zenon, <1>1, <1>2

\* The state of one intent is written.
LEMMA IntentMoved ==
    ASSUME TypeOK, NEW d \in Ids, NEW s \in IntentStates,
           intent' = [intent EXCEPT ![d].state = s]
    PROVE  /\ intent' \in [Ids -> Intent]
           /\ intent'[d].state = s
           /\ \A e \in Ids : e # d => intent'[e] = intent[e]
  <1> DEFINE r == [intent[d] EXCEPT !.state = s]
  <1>0. intent \in [Ids -> Intent]
    BY DEF TypeOK
  <1>1. r \in Intent /\ r.state = s
    BY <1>0 DEF Intent
  <1>2. intent' = [intent EXCEPT ![d] = r]
    BY <1>0
  <1> HIDE DEF r
  <1> QED
    BY <1>0, <1>1, <1>2

\* Intents change while no deletion has a control: the rest of the rows agree
\* with them as long as a written intent is not new and no resolved chain
\* gets a live one.
LEMMA IntentRowsOK ==
    ASSUME IInv, target.state = "ACTIVE",
           UNCHANGED <<target, control, acks, ledger>>,
           \A e \in Ids : /\ intent[e].state # "NEW" => intent'[e].state # "NEW"
                          /\ intent[e].state \in {"INVALIDATED", "SWEPT"} =>
                                intent'[e].state \in {"INVALIDATED", "SWEPT"}
    PROVE  RowsOK' /\ \A e \in Ids : Forward(e)
  <1>1. \A e \in Ids : control[e] = "NONE"
    BY Facts DEF OneControl
  <1>2. OneControl'
    BY Zenon, Facts DEF OneControl
  <1>3. ASSUME NEW e \in Ids PROVE DeletionOK(e)' /\ Forward(e)
    <2>1. DeletionOK(e)
      BY Facts
    <2> QED
      BY <1>1, <2>1 DEF DeletionOK, ChainFollowsControl, TargetFollowsControl,
         IntentFollows, AcksInChain, ReceiptFollows, Has, Forward, SweepPhases
  <1> QED
    BY <1>2, <1>3 DEF RowsOK

\* prove_noncommit_and_abort invalidates an intent that is not fenced yet.
LEMMA InvalidateOK ==
    ASSUME IInv, NEW p \in Procs, Invalidate(p)
    PROVE  IInv'
  <1> DEFINE d == proc[p].id
  <1>0. /\ d \in Ids /\ TypeOK /\ ledger[d] # Unprepared
        /\ "abort" \in Steps /\ "INVALIDATED" \in IntentStates
    BY AtStep DEF Invalidate, IInv, StepOK, Steps, IntentStates
  <1>1. CASE ~(HasIntent(d) /\ ~HasControl(d) /\ Fenceable(d))
    BY <1>1, Raises DEF Invalidate
  <1>2. CASE HasIntent(d) /\ ~HasControl(d) /\ Fenceable(d)
    <2>0. /\ intent' = [intent EXCEPT ![d].state = "INVALIDATED"]
          /\ Go(p, "abort")
          /\ UNCHANGED <<target, control, receipt, acks, holder, ledger, faults>>
          /\ target.state = "ACTIVE"
      BY <1>2 DEF Invalidate, Fenceable
    <2>1. /\ intent' \in [Ids -> Intent]
          /\ intent'[d].state = "INVALIDATED"
          /\ \A e \in Ids : e # d => intent'[e] = intent[e]
      <3> HIDE DEF d
      <3> QED
        BY <1>0, <2>0, IntentMoved, Zenon
    <2>2. /\ proc' \in [Procs -> ProcState]
          /\ \A q \in Procs : q # p => proc'[q] = proc[q]
          /\ proc'[p].at = "abort" /\ proc'[p].id = proc[p].id
      BY Zenon, <1>0, <2>0, GoStep
    <2>3. TypeOK'
      BY Zenon, <1>0, <2>0, <2>1, <2>2 DEF TypeOK
    <2>4. RowsOK' /\ \A e \in Ids : Forward(e)
      <3>1. \A e \in Ids : /\ intent[e].state # "NEW" => intent'[e].state # "NEW"
                           /\ intent[e].state \in {"INVALIDATED", "SWEPT"} =>
                                 intent'[e].state \in {"INVALIDATED", "SWEPT"}
        BY <2>1
      <3> QED
        BY Zenon, <2>0, <3>1, IntentRowsOK
    <2>5. StepOK(proc[p])'
      BY Zenon, <1>0, <2>0, <2>2 DEF StepOK
    <2> QED
      BY Zenon, <2>2, <2>3, <2>4, <2>5, Writes
  <1> QED
    BY Zenon, <1>1, <1>2

\* The acknowledgement of ABORTED: the receipt of a deletion without a control.
LEMMA StoreAbortedOK ==
    ASSUME IInv, NEW p \in Procs, StoreAborted(p)
    PROVE  IInv'
  <1> DEFINE d == proc[p].id
  <1>0. /\ d \in Ids /\ TypeOK /\ "ABORTED" \in Phases
        /\ Has(d, "ABORTED")
    BY AtStep DEF StoreAborted, IInv, StepOK, Phases
  <1>1. acks' \in [Ids -> SUBSET Phases] /\ \A e \in Ids : AcksInChain(e)'
    BY <1>0, AckStep, Zenon DEF StoreAborted
  <1>2. /\ proc' \in [Procs -> ProcState]
        /\ \A q \in Procs : q # p => proc'[q] = proc[q]
        /\ StepOK(proc[p])'
    BY Zenon, <1>0, ReturnStep DEF StoreAborted
  <1>3. /\ receipt' \in [Ids -> ReceiptStatuses]
        /\ \A e \in Ids : e # d => receipt'[e] = receipt[e]
        /\ UNCHANGED <<target, intent, control, holder, ledger, faults>>
    BY Zenon, <1>0 DEF StoreAborted, TypeOK, ReceiptStatuses
  <1>4. control[d] = "NONE"
    <2>1. ledger[d] = Aborted
      BY Zenon, <1>0, Facts, InChains DEF Has
    <2> QED
      BY Zenon, <1>0, <2>1, Facts, ChainsDistinct DEF DeletionOK, ChainFollowsControl, ControlPhases
  <1>5. TypeOK'
    BY Zenon, <1>0, <1>1, <1>2, <1>3 DEF TypeOK
  <1>6. OneControl'
    BY Zenon, <1>3, Facts DEF OneControl
  <1>7. ASSUME NEW e \in Ids PROVE DeletionOK(e)' /\ Forward(e)
    <2>1. DeletionOK(e)
      BY Facts
    <2> QED
      BY <1>1, <1>3, <1>4, <2>1 DEF DeletionOK, ChainFollowsControl,
         TargetFollowsControl, IntentFollows, ReceiptFollows, Forward
  <1> QED
    BY <1>2, <1>5, <1>6, <1>7, Writes DEF RowsOK

\* _create_intent invalidates the stale intents of an active account.
LEMMA CreateIntentOK ==
    ASSUME IInv, NEW d \in Ids, CreateIntent(d)
    PROVE  IInv'
  <1> DEFINE new == [state |-> "INTENT_CREATED", original |-> target.generation,
                     acked |-> FALSE, expired |-> FALSE]
             old(e) == [intent[e] EXCEPT !.state = "INVALIDATED"]
  <1>0. /\ TypeOK /\ target.state = "ACTIVE" /\ intent[d].state = "NEW"
        /\ UNCHANGED <<target, control, acks, holder, ledger, proc, faults>>
    BY Zenon DEF IInv, CreateIntent
  <1>1. new \in Intent /\ new.state = "INTENT_CREATED"
    <2>1. target.generation = 0
      BY <1>0, Facts DEF OneControl
    <2> QED
      BY Zenon, <2>1 DEF Intent, IntentStates
  <1>2. \A e \in Ids : old(e) \in Intent /\ old(e).state = "INVALIDATED"
    BY Facts DEF Intent, IntentStates
  <1>3. intent' = [e \in Ids |-> IF e = d THEN new
                                ELSE IF Active(e) THEN old(e) ELSE intent[e]]
    BY Zenon DEF CreateIntent
  <1> HIDE DEF new, old
  <1>4. /\ intent' \in [Ids -> Intent]
        /\ \A e \in Ids : \/ e = d /\ intent'[e].state = "INTENT_CREATED"
                          \/ intent'[e].state = "INVALIDATED"
                          \/ intent'[e] = intent[e]
    BY Zenon, <1>1, <1>2, <1>3, Facts
  <1>5. receipt' \in [Ids -> ReceiptStatuses]
    BY Zenon, <1>0 DEF CreateIntent, TypeOK, ReceiptStatuses
  <1>6. TypeOK'
    BY Zenon, <1>0, <1>4, <1>5 DEF TypeOK
  <1>7. RowsOK' /\ \A e \in Ids : Forward(e)
    <2>1. \A e \in Ids : /\ intent[e].state # "NEW" => intent'[e].state # "NEW"
                         /\ intent[e].state \in {"INVALIDATED", "SWEPT"} =>
                               intent'[e].state \in {"INVALIDATED", "SWEPT"}
      BY <1>0, <1>4
    <2> QED
      BY Zenon, <1>0, <2>1, IntentRowsOK
  <1> QED
    BY <1>0, <1>6, <1>7, WritesInPlace, Zenon

\* An intent grows old; no state changes.
LEMMA ExpireOK ==
    ASSUME IInv, NEW d \in Ids, Expire(d)
    PROVE  IInv'
  <1> DEFINE r == [intent[d] EXCEPT !.expired = TRUE]
  <1>0. /\ TypeOK /\ intent \in [Ids -> Intent]
        /\ UNCHANGED <<target, control, receipt, acks, holder, ledger, proc, faults>>
    BY DEF IInv, TypeOK, Expire
  <1>1. r \in Intent /\ r.state = intent[d].state
    BY <1>0, Zenon DEF Intent
  <1>2. intent' = [intent EXCEPT ![d] = r]
    BY <1>0 DEF Expire
  <1> HIDE DEF r
  <1>3. intent' \in [Ids -> Intent] /\ \A e \in Ids : intent'[e].state = intent[e].state
    BY Zenon, <1>0, <1>1, <1>2
  <1>4. TypeOK'
    BY Zenon, <1>0, <1>3 DEF TypeOK
  <1>5. OneControl'
    BY Zenon, <1>0, Facts DEF OneControl
  <1>6. ASSUME NEW e \in Ids PROVE DeletionOK(e)' /\ Forward(e)
    <2>1. DeletionOK(e)
      BY Zenon, Facts
    <2> QED
      BY <1>0, <1>3, <2>1 DEF DeletionOK, ChainFollowsControl, TargetFollowsControl,
         IntentFollows, AcksInChain, ReceiptFollows, Has, Forward
  <1> QED
    BY Zenon, <1>0, <1>4, <1>5, <1>6, WritesInPlace DEF RowsOK

-----------------------------------------------------------------------------
(* The sweep                                                                *)

\* A phase of the sweep moves the control of the deletion it holds, and takes
\* rows of intents along at most.
LEMMA AdvancedOK ==
    ASSUME IInv, NEW p \in Procs, NEW d \in Ids,
           NEW from \in {"DRAIN", "SWEEP", "VERIFY"},
           NEW to \in {"SWEEP", "VERIFY", "COMPLETE"},
           Advanced(p, d, from, to),
           intent' \in [Ids -> Intent],
           \A e \in Ids : \/ intent'[e].state = intent[e].state
                          \/ intent[e].state # "NEW" /\ intent'[e].state = "SWEPT",
           faults' \in 0 .. MaxFaults
    PROVE  IInv'
  <1>0. /\ TypeOK /\ control[d] = from /\ target.state = "DELETING"
        /\ UNCHANGED <<target, acks, holder, ledger, proc>>
    BY DEF IInv, Advanced, Locked
  <1>1. /\ control' \in [Ids -> ControlPhases] /\ receipt' \in [Ids -> ReceiptStatuses]
        /\ control'[d] = to /\ receipt'[d] = to
        /\ \A e \in Ids : e # d => control'[e] = control[e] /\ receipt'[e] = receipt[e]
    BY Zenon, <1>0 DEF Advanced, TypeOK, ControlPhases, ReceiptStatuses
  <1>2. \A e \in Ids : e # d => control[e] = "NONE"
    BY Zenon, <1>0, Facts DEF OneControl
  <1>3. TypeOK'
    BY Zenon, <1>0, <1>1 DEF TypeOK
  <1>4. OneControl'
    BY <1>0, <1>1, <1>2, Facts DEF OneControl
  <1>5. ASSUME NEW e \in Ids PROVE DeletionOK(e)' /\ Forward(e)
    <2>1. DeletionOK(e)
      BY Zenon, Facts
    <2>2. AcksInChain(e)' /\ IntentFollows(e)'
      BY <1>0, <1>1, <1>2, <2>1, Zenon DEF DeletionOK, AcksInChain, Has, IntentFollows
    <2>3. CASE e = d
      BY <1>0, <1>1, <2>1, <2>2, <2>3, Zenon
         DEF DeletionOK, ChainFollowsControl, TargetFollowsControl, ReceiptFollows,
             Forward, SweepPhases
    <2>4. CASE e # d
      BY Zenon, <1>0, <1>1, <1>2, <2>1, <2>2, <2>4
         DEF DeletionOK, ChainFollowsControl, TargetFollowsControl, ReceiptFollows,
             Forward, SweepPhases
    <2> QED
      BY Zenon, <2>3, <2>4
  <1> QED
    BY Zenon, <1>0, <1>3, <1>4, <1>5, WritesInPlace DEF RowsOK

\* Drain, Sweep and Verify.
LEMMA SweepPhasesOK ==
    ASSUME IInv, NEW p \in Procs, Drain(p) \/ Sweep(p) \/ Verify(p)
    PROVE  IInv'
  <1> DEFINE d == proc[p].id
  <1>0. d \in Ids /\ TypeOK
    BY AtStep DEF Drain, Sweep, Verify, IInv
  <1>p. /\ "DRAIN" \in {"DRAIN", "SWEEP", "VERIFY"}
        /\ "SWEEP" \in {"DRAIN", "SWEEP", "VERIFY"}
        /\ "VERIFY" \in {"DRAIN", "SWEEP", "VERIFY"}
        /\ "SWEEP" \in {"SWEEP", "VERIFY", "COMPLETE"}
        /\ "VERIFY" \in {"SWEEP", "VERIFY", "COMPLETE"}
        /\ "COMPLETE" \in {"SWEEP", "VERIFY", "COMPLETE"}
    OBVIOUS
  <1>1. CASE Drain(p)
    <2>1. /\ Advanced(p, d, "DRAIN", "SWEEP") /\ intent' = intent
          /\ intent' \in [Ids -> Intent] /\ faults' \in 0 .. MaxFaults
      BY Zenon, <1>0, <1>1 DEF Drain, TypeOK
    <2>2. \A e \in Ids : intent'[e].state = intent[e].state
      BY <2>1
    <2> HIDE DEF d
    <2> QED
      BY <1>0, <1>p, <2>1, <2>2, AdvancedOK, Zenon
  <1>2. CASE Sweep(p)
    <2> DEFINE swept(e) == [intent[e] EXCEPT !.state = "SWEPT"]
    <2>1. \A e \in Ids : swept(e) \in Intent /\ swept(e).state = "SWEPT"
      BY Facts DEF Intent, IntentStates
    <2>2. /\ Advanced(p, d, "SWEEP", "VERIFY") /\ faults' \in 0 .. MaxFaults
          /\ intent' = [e \in Ids |-> IF HasIntent(e) THEN swept(e) ELSE intent[e]]
      BY <1>0, <1>2 DEF Sweep, TypeOK
    <2> HIDE DEF swept
    <2>3. /\ intent' \in [Ids -> Intent]
          /\ \A e \in Ids : \/ intent'[e].state = intent[e].state
                            \/ intent[e].state # "NEW" /\ intent'[e].state = "SWEPT"
      BY <2>1, <2>2, Facts, Zenon DEF HasIntent
    <2> HIDE DEF d
    <2> QED
      BY <1>0, <1>p, <2>2, <2>3, AdvancedOK, Zenon
  <1>3. CASE Verify(p)
    <2>1. /\ intent' = intent /\ intent' \in [Ids -> Intent]
          /\ faults' \in 0 .. MaxFaults
          /\ Advanced(p, d, "VERIFY", "COMPLETE") \/ Advanced(p, d, "VERIFY", "SWEEP")
      BY Zenon, <1>0, <1>3, FaultBound DEF Verify, TypeOK
    <2>2. \A e \in Ids : intent'[e].state = intent[e].state
      BY <2>1
    <2> HIDE DEF d
    <2> QED
      BY <1>0, <1>p, <2>1, <2>2, AdvancedOK, Zenon
  <1> QED
    BY Zenon, <1>1, <1>2, <1>3

\* The terminal transaction comes after COMPLETED.
LEMMA CommitCompletedOK ==
    ASSUME IInv, NEW p \in Procs, CommitCompleted(p)
    PROVE  IInv'
  <1> DEFINE d == proc[p].id
  <1>0. d \in Ids /\ TypeOK /\ Has(d, "COMPLETED")
    BY AtStep DEF CommitCompleted, IInv, StepOK
  <1>1. CASE ~Locked(p, d, "COMPLETE")
    BY Zenon, <1>1, FailSweepOK DEF CommitCompleted
  <1>2. CASE Locked(p, d, "COMPLETE")
    <2>0. /\ target' = [target EXCEPT !.state = "DELETED"]
          /\ control' = [control EXCEPT ![d] = "DONE"]
          /\ receipt' = [receipt EXCEPT ![d] = "DELETED"]
          /\ acks' = [acks EXCEPT ![d] = {}]
          /\ holder' = [holder EXCEPT ![d] = NULL]
          /\ Return(p)
          /\ UNCHANGED <<intent, ledger, faults>>
          /\ control[d] = "COMPLETE" /\ target.state = "DELETING"
      BY Zenon, <1>2 DEF CommitCompleted, Locked
    <2>1. ledger[d] = Completed
      BY Zenon, <1>0, Facts, InChains DEF Has
    <2>2. /\ target' \in Target /\ target'.state = "DELETED"
          /\ target'.generation = target.generation
      BY Zenon, <2>0, Facts DEF Target
    <2>3. /\ control' \in [Ids -> ControlPhases] /\ receipt' \in [Ids -> ReceiptStatuses]
          /\ control'[d] = "DONE" /\ receipt'[d] = "DELETED"
          /\ \A e \in Ids : e # d => control'[e] = control[e] /\ receipt'[e] = receipt[e]
      BY Zenon, <1>0, <2>0 DEF TypeOK, ControlPhases, ReceiptStatuses
    <2>4. /\ acks' \in [Ids -> SUBSET Phases]
          /\ \A e \in Ids : acks'[e] \subseteq acks[e]
          /\ holder' \in [Ids -> Sweepers \cup {NULL}]
      BY Zenon, <1>0, <2>0 DEF TypeOK
    <2>5. /\ proc' \in [Procs -> ProcState]
          /\ \A q \in Procs : q # p => proc'[q] = proc[q]
          /\ StepOK(proc[p])'
      BY Zenon, <1>0, <2>0, ReturnStep
    <2>6. \A e \in Ids : e # d => control[e] = "NONE"
      BY Zenon, <1>0, <2>0, Facts DEF OneControl
    <2>7. TypeOK'
      BY Zenon, <1>0, <2>0, <2>2, <2>3, <2>4, <2>5 DEF TypeOK
    <2>8. OneControl'
      BY <1>0, <2>0, <2>2, <2>3, <2>6, Facts DEF OneControl
    <2>9. ASSUME NEW e \in Ids PROVE DeletionOK(e)' /\ Forward(e)
      <3>1. DeletionOK(e)
        BY Facts
      <3>2. AcksInChain(e)' /\ IntentFollows(e)'
        BY <2>0, <2>3, <2>4, <2>6, <3>1, Zenon DEF DeletionOK, AcksInChain, Has, IntentFollows
      <3>3. CASE e = d
        BY Zenon, <2>0, <2>1, <2>2, <2>3, <3>1, <3>2, <3>3
           DEF DeletionOK, ChainFollowsControl, TargetFollowsControl, ReceiptFollows,
               Forward, SweepPhases
      <3>4. CASE e # d
        BY Zenon, <2>0, <2>3, <2>6, <3>1, <3>2, <3>4
           DEF DeletionOK, ChainFollowsControl, TargetFollowsControl, ReceiptFollows,
               Forward, SweepPhases
      <3> QED
        BY <3>3, <3>4
    <2> QED
      BY <2>5, <2>7, <2>8, <2>9, Writes DEF RowsOK
  <1> QED
    BY Zenon, <1>1, <1>2

-----------------------------------------------------------------------------
(* The invariants                                                           *)

\* A step of a coordinator keeps the invariant.
LEMMA CoordinateOK ==
    ASSUME IInv, NEW p \in Procs, Coordinate(p)
    PROVE  IInv'
  BY Zenon, PrepareOK, FenceOK, RequestOK, AppendRequestedOK, CommitRequestedOK, ReconcileOK,
     InvalidateOK, AbortOK, AppendAbortedOK, StoreAbortedOK DEF Coordinate

\* A step of a sweeper keeps the invariant.
LEMMA AdvanceOK ==
    ASSUME IInv, NEW p \in Procs, Advance(p)
    PROVE  IInv'
  BY Zenon, SweepPhasesOK, CompleteOK, Raises, AppendCompletedOK, CommitCompletedOK
     DEF Advance, LoseLease

\* A failure keeps the invariant.
LEMMA FailOK ==
    ASSUME IInv, NEW p \in Procs, Fail(p)
    PROVE  IInv'
  BY Zenon, PrepareCrashOK, GiveBackOK, CrashOK DEF Fail

\* Every step keeps the invariant.
LEMMA NextOK == IInv /\ [Next]_vars => IInv'
  <1> SUFFICES ASSUME IInv, [Next]_vars PROVE IInv'
    OBVIOUS
  <1>1. CASE UNCHANGED vars
    <2>1. UNCHANGED rows /\ UNCHANGED proc /\ TypeOK'
      BY <1>1 DEF vars, rows, IInv, TypeOK
    <2> QED
      BY Zenon, <2>1, RowsStutter, WritesInPlace
  <1>2. CASE \E d \in Ids : CreateIntent(d) \/ Expire(d)
    BY Zenon, <1>2, CreateIntentOK, ExpireOK
  <1>3. CASE Begin
    BY Zenon, <1>3, BeginOK
  <1>4. CASE \E p \in Procs : Coordinate(p) \/ Advance(p) \/ Fail(p)
    BY Zenon, <1>4, CoordinateOK, AdvanceOK, FailOK
  <1> QED
    BY Zenon, <1>1, <1>2, <1>3, <1>4 DEF Next

\* The invariant holds in every reachable state, for any number of intents,
\* clients, reconcilers, operators and sweepers and any number of faults.
THEOREM Invariance == Spec => []IInv
  BY InitOK, NextOK, PTL DEF Spec

\* The types, and that FilesystemDeletionLedger.append leaves legal chains only.
THEOREM TypeCorrect == Spec => []TypeOK
  <1>1. IInv => TypeOK
    BY DEF IInv
  <1> QED
    BY <1>1, Invariance, PTL

\* What the invariant says of the events in the ledger.
LEMMA Suppression ==
    ASSUME IInv, NEW d \in Ids, Has(d, "REQUESTED")
    PROVE  control[d] \notin {"NONE"} /\ target.state # "ACTIVE"
  <1>1. ledger[d] \in {Requested, Completed}
    BY Zenon, Facts, InChains DEF Has
  <1>2. control[d] # "NONE"
    BY Zenon, <1>1, Facts, ChainsDistinct DEF DeletionOK, ChainFollowsControl
  <1> QED
    BY Zenon, <1>2, Facts DEF OneControl

\* A REQUESTED or COMPLETED deletion never coexists with an active target.
THEOREM Suppressed == Spec => []SuppressedNeverActive
  <1>1. IInv => SuppressedNeverActive
    BY Zenon, Suppression DEF SuppressedNeverActive
  <1> QED
    BY <1>1, Invariance, PTL

\* At most one deletion of the account is ever requested.
THEOREM Exclusive == Spec => []OneRequested
  <1>1. IInv => OneRequested
    <2> SUFFICES ASSUME IInv, NEW d \in Ids, NEW e \in Ids,
                        Has(d, "REQUESTED"), Has(e, "REQUESTED")
                 PROVE  d = e
      BY DEF OneRequested
    <2>1. control[d] # "NONE" /\ control[e] # "NONE"
      BY Zenon, Suppression
    <2> QED
      BY <2>1, Facts DEF OneControl
  <1> QED
    BY <1>1, Invariance, PTL

\* A deletion that the ledger calls aborted was never fenced.
THEOREM AbortedIsFinal == Spec => []AbortedNeverFenced
  <1>1. IInv => AbortedNeverFenced
    <2> SUFFICES ASSUME IInv, NEW d \in Ids, Has(d, "ABORTED")
                 PROVE  /\ control[d] = "NONE"
                        /\ intent[d].state \in {"INVALIDATED", "SWEPT"}
      BY DEF AbortedNeverFenced
    <2>1. ledger[d] = Aborted
      BY Zenon, Facts, InChains DEF Has
    <2> QED
      BY Zenon, <2>1, Facts, ChainsDistinct
         DEF DeletionOK, ChainFollowsControl, IntentFollows, ControlPhases
  <1> QED
    BY <1>1, Invariance, PTL

\* The ledger is ahead of the database, whoever crashed where.
THEOREM LedgerFirst == Spec => []LedgerLeads
  <1>1. IInv => LedgerLeads
    <2> SUFFICES ASSUME IInv, NEW d \in Ids
                 PROVE  /\ \A phase \in acks[d] : Has(d, phase)
                        /\ control[d] # "NONE" => Has(d, "PREPARED")
                        /\ control[d] \in SweepPhases => Has(d, "REQUESTED")
                        /\ control[d] = "DONE" => Has(d, "COMPLETED")
      BY DEF LedgerLeads
    <2>1. DeletionOK(d) /\ control[d] \in ControlPhases
      BY Facts
    <2>2. \A phase \in acks[d] : Has(d, phase)
      BY <2>1 DEF DeletionOK, AcksInChain
    <2>3. /\ control[d] # "NONE" => ledger[d] # Unprepared
          /\ control[d] \in SweepPhases => ledger[d] \in {Requested, Completed}
          /\ control[d] = "DONE" => ledger[d] = Completed
      BY Zenon, <2>1, ChainsDistinct DEF DeletionOK, ChainFollowsControl, ControlPhases, SweepPhases
    <2> QED
      BY Zenon, <2>2, <2>3, Facts, InChains DEF Has
  <1> QED
    BY <1>1, Invariance, PTL

\* The receipt tells the phase of the control.
THEOREM ReceiptsTell == Spec => []ReceiptTellsPhase
  <1>1. IInv => ReceiptTellsPhase
    BY Zenon, Facts DEF ReceiptTellsPhase, DeletionOK, ReceiptFollows
  <1> QED
    BY <1>1, Invariance, PTL

-----------------------------------------------------------------------------
(* Refinement.  With the invariant, the control and the chain of a deletion *)
(* decide what the protocol sees of it.                                     *)

Moves(d) ==
    \/ control'[d] = control[d] /\ ledger'[d] = ledger[d]
    \/ /\ control[d] = "NONE" /\ control'[d] = "NONE"
       /\ ledger[d] = Unprepared /\ ledger'[d] = Unresolved
    \/ /\ control[d] = "NONE" /\ control'[d] = "NONE"
       /\ ledger[d] = Unresolved /\ ledger'[d] = Aborted
    \/ /\ control[d] = "NONE" /\ control'[d] = "FENCE"
       /\ ledger[d] = Unresolved /\ ledger'[d] = Unresolved
    \/ /\ control[d] = "FENCE" /\ control'[d] = "FENCE"
       /\ ledger[d] = Unresolved /\ ledger'[d] = Requested
    \/ /\ control[d] = "FENCE" /\ control'[d] = "DRAIN"
       /\ ledger[d] = Requested /\ ledger'[d] = Requested
    \/ /\ control[d] \in SweepPhases /\ control'[d] \in {"SWEEP", "VERIFY", "COMPLETE"}
       /\ ledger'[d] = ledger[d]
    \/ /\ control[d] = "COMPLETE" /\ control'[d] = "COMPLETE"
       /\ ledger[d] = Requested /\ ledger'[d] = Completed
    \/ /\ control[d] = "COMPLETE" /\ control'[d] = "DONE"
       /\ ledger[d] = Completed /\ ledger'[d] = Completed

\* The appends, as moves.
LEMMA AppendMoves ==
    ASSUME IInv, NEW d \in Ids, NEW ph \in Phases, LedgerAppend(d, ph),
           Appendable(d, ph), UNCHANGED control, NEW e \in Ids
    PROVE  Moves(e)
  <1>1. /\ \A f \in Ids : f # d => ledger'[f] = ledger[f]
        /\ \/ ledger'[d] = ledger[d]
           \/ ledger[d] = Unprepared /\ ph = "PREPARED" /\ ledger'[d] = Unresolved
           \/ ledger[d] = Unresolved /\ ph = "REQUESTED" /\ ledger'[d] = Requested
           \/ ledger[d] = Unresolved /\ ph = "ABORTED" /\ ledger'[d] = Aborted
           \/ ledger[d] = Requested /\ ph = "COMPLETED" /\ ledger'[d] = Completed
    BY Zenon, AppendStep DEF IInv
  <1>2. ChainFollowsControl(d) /\ control[d] \in ControlPhases
    BY Zenon, Facts DEF DeletionOK
  <1> QED
    BY Zenon, <1>1, <1>2, ChainsDistinct DEF Moves, ChainFollowsControl, ControlPhases, Appendable

\* The ledger half of _ensure_prepared, as a move.
LEMMA AppendPreparedMoves ==
    ASSUME IInv, NEW d \in Ids, AppendPrepared(d), UNCHANGED control, NEW e \in Ids
    PROVE  Moves(e)
  <1>1. /\ \A f \in Ids : f # d => ledger'[f] = ledger[f]
        /\ \/ ledger'[d] = ledger[d]
           \/ ledger[d] = Unprepared /\ ledger'[d] = Unresolved
    BY Zenon, AppendPreparedStep DEF IInv
  <1>2. ChainFollowsControl(d) /\ control[d] \in ControlPhases
    BY Facts DEF DeletionOK
  <1> QED
    BY Zenon, <1>1, <1>2, ChainsDistinct DEF Moves, ChainFollowsControl, ControlPhases

\* A step of a coordinator moves every deletion along the protocol.
LEMMA CoordinateMoves ==
    ASSUME IInv, NEW p \in Procs, Coordinate(p), NEW e \in Ids
    PROVE  Moves(e)
  <1> DEFINE d == proc[p].id
  <1>1. ASSUME UNCHANGED <<control, ledger>> PROVE Moves(e)
    BY <1>1 DEF Moves
  <1>2. ASSUME Raise(p) PROVE Moves(e)
    BY Zenon, <1>1, <1>2 DEF Raise, database
  <1>3. CASE Prepare(p)
    <2>1. d \in Ids
      BY Zenon, <1>3, AtStep DEF Prepare
    <2>2. Raise(p) \/ (AppendPrepared(d) /\ UNCHANGED control)
      BY Zenon, <1>3 DEF Prepare, StorePrepared
    <2> QED
      BY Zenon, <1>2, <2>1, <2>2, AppendPreparedMoves
  <1>4. CASE Fence(p)
    <2>0. d \in Ids /\ ledger[d] # Unprepared
      BY Zenon, <1>4, AtStep DEF Fence, StepOK
    <2>1. CASE UNCHANGED <<control, ledger>>
      BY Zenon, <1>1, <2>1
    <2>2. CASE Fenceable(d) /\ FenceRows(d) /\ UNCHANGED ledger
      <3>1. \A f \in Ids : control[f] = "NONE"
        BY Zenon, <2>2, Facts DEF Fenceable, OneControl
      <3>2. ledger[d] = Unresolved
        BY Zenon, <2>0, <2>2, <3>1, Facts DEF Fenceable, DeletionOK, ChainFollowsControl, IntentFollows
      <3>3. control' = [control EXCEPT ![d] = "FENCE"] /\ control \in [Ids -> ControlPhases]
        BY <2>2 DEF FenceRows, IInv, TypeOK
      <3> QED
        BY Zenon, <2>0, <2>2, <3>1, <3>2, <3>3 DEF Moves
    <2> QED
      BY Zenon, <1>2, <1>4, <2>1, <2>2 DEF Fence
  <1>5. CASE Request(p)
    BY Zenon, <1>1, <1>2, <1>5 DEF Request, database
  <1>6. CASE AppendRequested(p)
    <2>1. d \in Ids /\ Appendable(d, "REQUESTED") /\ "REQUESTED" \in Phases
      BY Zenon, <1>6, AtStep DEF AppendRequested, StepOK, Appendable, Phases
    <2> QED
      BY Zenon, <1>2, <1>6, <2>1, AppendMoves DEF AppendRequested, database
  <1>7. CASE CommitRequested(p)
    <2>0. d \in Ids /\ Has(d, "REQUESTED")
      BY Zenon, <1>7, AtStep DEF CommitRequested, StepOK
    <2>1. CASE UNCHANGED <<control, ledger>>
      BY <1>1, <2>1
    <2>2. CASE /\ AtFence(d) /\ target.state # "DELETING"
               /\ control' = [control EXCEPT ![d] = "DRAIN"]
               /\ UNCHANGED ledger
      <3>1. control[d] = "FENCE"
        <4>1. /\ HasControl(d) /\ target.state = "DELETION_PENDING_LEDGER"
              /\ control[d] \in ControlPhases /\ TargetFollowsControl(d)
          BY Zenon, <2>0, <2>2, Facts DEF AtFence, DeletionOK
        <4> QED
          BY Zenon, <4>1 DEF HasControl, ControlPhases, SweepPhases, TargetFollowsControl
      <3>2. ledger[d] = Requested
        BY Zenon, <2>0, <3>1, Facts, InChains, ChainsDistinct
           DEF DeletionOK, ChainFollowsControl, Has
      <3>3. control \in [Ids -> ControlPhases]
        BY Zenon DEF IInv, TypeOK
      <3> QED
        BY Zenon, <2>0, <2>2, <3>1, <3>2, <3>3 DEF Moves
    <2> QED
      BY Zenon, <1>2, <1>7, <2>1, <2>2 DEF CommitRequested, RequestedRows
  <1>8. CASE Reconcile(p) \/ Abort(p) \/ Invalidate(p) \/ StoreAborted(p)
    BY Zenon, <1>1, <1>2, <1>8 DEF Reconcile, Abort, Invalidate, StoreAborted, database
  <1>9. CASE AppendAborted(p)
    <2>1. d \in Ids /\ Appendable(d, "ABORTED") /\ "ABORTED" \in Phases
      BY Zenon, <1>9, AtStep DEF AppendAborted, StepOK, Appendable, Phases
    <2> QED
      BY Zenon, <1>2, <1>9, <2>1, AppendMoves DEF AppendAborted, database
  <1> QED
    BY Zenon, <1>3, <1>4, <1>5, <1>6, <1>7, <1>8, <1>9 DEF Coordinate

\* A step of a sweeper moves every deletion along the protocol.
LEMMA AdvanceMoves ==
    ASSUME IInv, NEW p \in Procs, Advance(p), NEW e \in Ids
    PROVE  Moves(e)
  <1> DEFINE d == proc[p].id
  <1>0. control \in [Ids -> ControlPhases]
    BY DEF IInv, TypeOK
  <1>1. ASSUME UNCHANGED <<control, ledger>> PROVE Moves(e)
    BY <1>1 DEF Moves
  <1>2. CASE Drain(p) \/ Sweep(p) \/ Verify(p)
    <2>1. d \in Ids
      BY Zenon, <1>2, AtStep DEF Drain, Sweep, Verify
    <2>2. PICK from \in SweepPhases, to \in {"SWEEP", "VERIFY", "COMPLETE"} :
             Advanced(p, d, from, to)
      BY Zenon, <1>2 DEF Drain, Sweep, Verify, SweepPhases
    <2> QED
      BY Zenon, <1>0, <2>1, <2>2 DEF Advanced, Locked, Moves
  <1>3. CASE Complete(p) \/ LoseLease(p)
    BY Zenon, <1>1, <1>3 DEF Complete, LoseLease, Raise, database
  <1>4. CASE AppendCompleted(p)
    <2>1. d \in Ids /\ Appendable(d, "COMPLETED") /\ "COMPLETED" \in Phases
      BY Zenon, <1>4, AtStep DEF AppendCompleted, StepOK, Appendable, Phases
    <2> QED
      BY Zenon, <1>1, <1>4, <2>1, AppendMoves DEF AppendCompleted, FailSweep, database
  <1>5. CASE CommitCompleted(p)
    <2>0. d \in Ids /\ Has(d, "COMPLETED")
      BY Zenon, <1>5, AtStep DEF CommitCompleted, StepOK
    <2>1. CASE FailSweep(p)
      BY Zenon, <1>1, <2>1 DEF FailSweep
    <2>2. CASE /\ control[d] = "COMPLETE"
               /\ control' = [control EXCEPT ![d] = "DONE"]
               /\ UNCHANGED ledger
      <3>1. ledger[d] = Completed
        BY Zenon, <2>0, Facts, InChains DEF Has
      <3> QED
        BY Zenon, <1>0, <2>0, <2>2, <3>1 DEF Moves
    <2> QED
      BY Zenon, <1>5, <2>1, <2>2 DEF CommitCompleted, Locked
  <1> QED
    BY Zenon, <1>2, <1>3, <1>4, <1>5 DEF Advance

\* Every step moves every deletion along the protocol.
LEMMA NextMoves ==
    ASSUME IInv, [Next]_vars, NEW e \in Ids
    PROVE  Moves(e)
  <1>1. ASSUME UNCHANGED <<control, ledger>> PROVE Moves(e)
    BY <1>1 DEF Moves
  <1>2. CASE UNCHANGED vars
    BY Zenon, <1>1, <1>2 DEF vars
  <1>3. CASE \E d \in Ids : CreateIntent(d) \/ Expire(d)
    BY Zenon, <1>1, <1>3 DEF CreateIntent, Expire
  <1>4. CASE Begin
    BY Zenon, <1>1, <1>4 DEF Begin, Authorize, ReconcilePrepared, ReconcileControl,
       ProveNoncommit, Lease, database
  <1>5. CASE \E p \in Procs : Coordinate(p) \/ Advance(p)
    BY Zenon, <1>5, CoordinateMoves, AdvanceMoves
  <1>6. ASSUME NEW p \in Procs, Fail(p) PROVE Moves(e)
    <2>1. CASE PrepareCrash(p)
      <3>1. proc[p].id \in Ids
        BY Zenon, <2>1, AtStep DEF PrepareCrash
      <3> QED
        BY Zenon, <2>1, <3>1, AppendPreparedMoves DEF PrepareCrash, database
    <2>2. CASE GiveBack(p) \/ Crash(p)
      BY Zenon, <1>1, <2>2 DEF GiveBack, Crash, database
    <2> QED
      BY Zenon, <1>6, <2>1, <2>2 DEF Fail
  <1> QED
    BY Zenon, <1>2, <1>3, <1>4, <1>5, <1>6 DEF Next

\* The protocol's view of a deletion, by its control.
View(c, lifecycle, generation, checkpoint) ==
    /\ c = "NONE" => lifecycle = "ACTIVE" /\ generation = 0 /\ checkpoint = "NONE"
    /\ c # "NONE" => generation = 1
    /\ c = "FENCE" => lifecycle = "DELETION_PENDING_LEDGER" /\ checkpoint = "FENCE"
    /\ c \in SweepPhases => lifecycle = "DELETING"
    /\ c \in {"DRAIN", "SWEEP"} => checkpoint = "DRAIN"
    /\ c = "VERIFY" => checkpoint = "SWEEP"
    /\ c = "COMPLETE" => checkpoint = "VERIFY"
    /\ c = "DONE" => lifecycle = "DELETED" /\ checkpoint = "NONE"

Lifecycle(d) == IF Fenced(d) THEN target.state ELSE "ACTIVE"

Generation(d) == IF Fenced(d) THEN target.generation ELSE 0

AllViewed ==
    \A d \in Ids : /\ View(control[d], Lifecycle(d), Generation(d), CheckpointOf(d))
                   /\ control[d] \in ControlPhases

\* The control decides the view.
LEMMA Viewed == IInv => AllViewed
  <1> SUFFICES ASSUME IInv, NEW d \in Ids
               PROVE  /\ View(control[d], Lifecycle(d), Generation(d), CheckpointOf(d))
                      /\ control[d] \in ControlPhases
    BY Zenon DEF AllViewed
  <1>1. OneControl /\ TargetFollowsControl(d) /\ control[d] \in ControlPhases
    BY Zenon, Facts DEF DeletionOK
  <1>2. Generation(d) = (IF control[d] = "NONE" THEN 0 ELSE 1)
    BY <1>1 DEF Generation, Fenced, OneControl
  <1> QED
    BY Zenon, <1>1, <1>2 DEF View, Lifecycle, Fenced, CheckpointOf, TargetFollowsControl,
       SweepPhases, ControlPhases

\* The chains of the protocol are the chains of the ledger.
LEMMA SameChains ==
    ASSUME NEW d \in Ids
    PROVE  /\ Protocol(d)!Unprepared = Unprepared
           /\ Protocol(d)!Prepared = Unresolved
           /\ Protocol(d)!Requested = Requested
  BY DEF Protocol!Unprepared, Protocol!Prepared, Protocol!Requested,
     Unprepared, Unresolved, Requested

\* The last event of a completed chain.
LEMMA LastCompleted == Completed[Len(Completed)] = "COMPLETED"
  BY Zenon, ChainLengths DEF Completed

\* A move is a step of the protocol or none.
LEMMA MoveRefines ==
    ASSUME AllViewed, AllViewed', NEW d \in Ids, Moves(d)
    PROVE  Protocol(d)!Next \/ UNCHANGED Protocol(d)!vars
  <1> DEFINE c == control[d]
             cc == control'[d]
             lf == Lifecycle(d)
             gn == Generation(d)
             cp == CheckpointOf(d)
  <1>1. /\ View(c, lf, gn, cp) /\ c \in ControlPhases
        /\ View(cc, lf', gn', cp') /\ cc \in ControlPhases
    BY Zenon DEF AllViewed
  <1>2. /\ Fenced(d) <=> c # "NONE"
        /\ Fenced(d)' <=> cc # "NONE"
    BY Zenon DEF Fenced
  <1>3. CASE cc = c /\ ledger'[d] = ledger[d]
    <2>1. lf' = lf /\ gn' = gn /\ cp' = cp /\ Fenced(d)' = Fenced(d)
      <3>1. cp' = cp /\ Fenced(d)' = Fenced(d)
        BY <1>3 DEF CheckpointOf, Fenced
      <3> HIDE DEF lf, gn, cp, c, cc
      <3> QED
        BY Zenon, <1>1, <1>3, <3>1 DEF View, ControlPhases, SweepPhases
    <2> QED
      BY Zenon, <1>3, <2>1 DEF Protocol!vars, Lifecycle, Generation
  <1>4. CASE /\ c = "NONE" /\ cc = "NONE"
             /\ ledger[d] = Unprepared /\ ledger'[d] = Unresolved
    <2>1. lf = "ACTIVE" /\ lf' = lf /\ gn' = gn /\ cp' = cp
      <3> HIDE DEF lf, gn, cp, c, cc
      <3> QED
        BY Zenon, <1>1, <1>4 DEF View, SweepPhases
    <2>2. Fenced(d)' = Fenced(d)
      BY Zenon, <1>4 DEF Fenced, SweepPhases
    <2>3. ledger[d] = Protocol(d)!Unprepared /\ ledger'[d] = Append(ledger[d], "PREPARED")
      BY Zenon, <1>4, SameChains, ChainAppends
    <2>4. Protocol(d)!append_prepared
      BY Zenon, <2>1, <2>2, <2>3 DEF Protocol!append_prepared, Lifecycle, Generation
    <2> QED
      BY Zenon, <2>4 DEF Protocol!Next
  <1>5. CASE /\ c = "NONE" /\ cc = "NONE"
             /\ ledger[d] = Unresolved /\ ledger'[d] = Aborted
    <2>1. lf = "ACTIVE" /\ lf' = lf /\ gn' = gn /\ cp' = cp
      <3> HIDE DEF lf, gn, cp, c, cc
      <3> QED
        BY <1>1, <1>5 DEF View, SweepPhases
    <2>2. Fenced(d)' = Fenced(d)
      BY <1>5 DEF Fenced, SweepPhases
    <2>3. ledger[d] = Protocol(d)!Prepared /\ ledger'[d] = Append(ledger[d], "ABORTED")
      BY Zenon, <1>5, SameChains, ChainAppends
    <2>4. Protocol(d)!append_aborted
      BY Zenon, <2>1, <2>2, <2>3 DEF Protocol!append_aborted, Lifecycle, Generation
    <2> QED
      BY Zenon, <2>4 DEF Protocol!Next
  <1>6. CASE /\ c = "NONE" /\ cc = "FENCE"
             /\ ledger[d] = Unresolved /\ ledger'[d] = Unresolved
    <2>1. /\ lf = "ACTIVE" /\ lf' = "DELETION_PENDING_LEDGER"
          /\ gn' = 0 + 1 /\ cp' = "FENCE"
      <3> HIDE DEF lf, gn, cp, c, cc
      <3> QED
        BY <1>1, <1>6 DEF View, SweepPhases
    <2>2. Fenced(d)' = TRUE
      BY Zenon, <1>6 DEF Fenced, SweepPhases
    <2>3. ledger[d] = Protocol(d)!Prepared /\ ledger'[d] = ledger[d]
      BY Zenon, <1>6, SameChains
    <2>4. Protocol(d)!fence_database
      BY Zenon, <2>1, <2>2, <2>3 DEF Protocol!fence_database, Lifecycle, Generation
    <2> QED
      BY Zenon, <2>4 DEF Protocol!Next
  <1>7. CASE /\ c = "FENCE" /\ cc = "FENCE"
             /\ ledger[d] = Unresolved /\ ledger'[d] = Requested
    <2>1. /\ lf = "DELETION_PENDING_LEDGER" /\ lf' = lf
          /\ gn' = gn /\ cp' = cp
      <3> HIDE DEF lf, gn, cp, c, cc
      <3> QED
        BY Zenon, <1>1, <1>7 DEF View, SweepPhases
    <2>2. Fenced(d)' = Fenced(d) /\ Fenced(d)
      BY Zenon, <1>7 DEF Fenced, SweepPhases
    <2>3. ledger[d] = Protocol(d)!Prepared /\ ledger'[d] = Append(ledger[d], "REQUESTED")
      BY Zenon, <1>7, SameChains, ChainAppends
    <2>4. Protocol(d)!append_requested
      BY Zenon, <2>1, <2>2, <2>3 DEF Protocol!append_requested, Lifecycle, Generation
    <2> QED
      BY Zenon, <2>4 DEF Protocol!Next
  <1>8. CASE /\ c = "FENCE" /\ cc = "DRAIN"
             /\ ledger[d] = Requested /\ ledger'[d] = Requested
    <2>1. /\ lf = "DELETION_PENDING_LEDGER" /\ lf' = "DELETING"
          /\ gn' = gn /\ cp' = "DRAIN"
      <3> HIDE DEF lf, gn, cp, c, cc
      <3> QED
        BY Zenon, <1>1, <1>8 DEF View, SweepPhases
    <2>2. Fenced(d)' = Fenced(d)
      BY Zenon, <1>8 DEF Fenced, SweepPhases
    <2>3. ledger[d] = Protocol(d)!Requested /\ ledger'[d] = ledger[d]
      BY Zenon, <1>8, SameChains
    <2>4. Protocol(d)!begin_sweep
      BY Zenon, <2>1, <2>2, <2>3 DEF Protocol!begin_sweep, Lifecycle, Generation
    <2> QED
      BY Zenon, <2>4 DEF Protocol!Next
  <1>9. CASE /\ c \in SweepPhases /\ cc \in {"SWEEP", "VERIFY", "COMPLETE"}
             /\ ledger'[d] = ledger[d]
    <2>1. /\ lf = "DELETING" /\ lf' = lf /\ gn' = gn
          /\ cp' \in {"DRAIN", "SWEEP", "VERIFY"}
      <3> HIDE DEF lf, gn, cp, c, cc
      <3> QED
        BY Zenon, <1>1, <1>9 DEF View, SweepPhases
    <2>2. Fenced(d)' = Fenced(d)
      BY <1>9 DEF Fenced, SweepPhases
    <2>3. cp' \in Protocol(d)!Checkpoints
      BY <2>1 DEF Protocol!Checkpoints
    <2>4. PICK phase \in Protocol(d)!Checkpoints : phase = cp'
      BY Zenon, <2>3
    <2>5. Protocol(d)!Checkpoint(phase)
      BY Zenon, <1>9, <2>1, <2>2, <2>4 DEF Protocol!Checkpoint, Lifecycle, Generation
    <2> QED
      BY Zenon, <2>5 DEF Protocol!Next
  <1>10. CASE /\ c = "COMPLETE" /\ cc = "COMPLETE"
              /\ ledger[d] = Requested /\ ledger'[d] = Completed
    <2>1. /\ lf = "DELETING" /\ lf' = lf /\ gn' = gn
          /\ cp = "VERIFY" /\ cp' = cp
      <3> HIDE DEF lf, gn, cp, c, cc
      <3> QED
        BY Zenon, <1>1, <1>10 DEF View, SweepPhases
    <2>2. Fenced(d)' = Fenced(d)
      BY Zenon, <1>10 DEF Fenced, SweepPhases
    <2>3. ledger[d] = Protocol(d)!Requested /\ ledger'[d] = Append(ledger[d], "COMPLETED")
      BY Zenon, <1>10, SameChains, ChainAppends
    <2>4. Protocol(d)!append_completed
      BY Zenon, <2>1, <2>2, <2>3 DEF Protocol!append_completed, Lifecycle, Generation
    <2> QED
      BY Zenon, <2>4 DEF Protocol!Next
  <1>11. CASE /\ c = "COMPLETE" /\ cc = "DONE"
              /\ ledger[d] = Completed /\ ledger'[d] = Completed
    <2>1. /\ lf = "DELETING" /\ lf' = "DELETED"
          /\ gn' = gn /\ cp' = "NONE"
      <3> HIDE DEF lf, gn, cp, c, cc
      <3> QED
        BY Zenon, <1>1, <1>11 DEF View, SweepPhases
    <2>2. Fenced(d)' = Fenced(d)
      BY Zenon, <1>11 DEF Fenced, SweepPhases
    <2>3. /\ ledger[d] # Protocol(d)!Unprepared /\ ledger'[d] = ledger[d]
          /\ ledger[d][Len(ledger[d])] = "COMPLETED"
      BY Zenon, <1>11, SameChains, ChainsDistinct, LastCompleted
    <2>4. Protocol(d)!finalize_deleted
      BY Zenon, <2>1, <2>2, <2>3 DEF Protocol!finalize_deleted, Protocol!None, Lifecycle, Generation
    <2> QED
      BY Zenon, <2>4 DEF Protocol!Next
  <1> QED
    BY <1>3, <1>4, <1>5, <1>6, <1>7, <1>8, <1>9, <1>10, <1>11, Zenon DEF Moves

\* The initial state is the initial state of every deletion's protocol.
LEMMA InitRefines == Init => \A d \in Ids : Protocol(d)!Init
  <1> SUFFICES ASSUME Init, NEW d \in Ids PROVE Protocol(d)!Init
    OBVIOUS
  <1>1. control[d] = "NONE" /\ ledger[d] = Unprepared
    BY DEF Init
  <1>2. ~Fenced(d) /\ CheckpointOf(d) = "NONE"
    BY Zenon, <1>1 DEF Fenced, CheckpointOf
  <1>3. ledger[d] = Protocol(d)!Unprepared
    BY Zenon, <1>1, SameChains
  <1> QED
    BY <1>2, <1>3 DEF Protocol!Init, Protocol!None

Refines == \A d \in Ids : Protocol(d)!Next \/ UNCHANGED Protocol(d)!vars

\* Every deletion of the coordinator, with all the others, the crashes and the
\* races around it, follows the ordering of deletion_protocol.py.
THEOREM Refinement == Spec => ImplementsProtocol
  <1>1. IInv /\ AllViewed /\ AllViewed' /\ [Next]_vars => Refines
    BY Zenon, NextMoves, MoveRefines DEF Refines
  <1>2. IInv /\ AllViewed /\ AllViewed' /\ [Next]_vars
           => [\A d \in Ids : Protocol(d)!Next \/ UNCHANGED Protocol(d)!vars]_vars
    BY <1>1 DEF Refines
  <1>3. Spec => []AllViewed
    BY Invariance, Viewed, PTL
  <1> QED
    BY <1>2, <1>3, InitRefines, Invariance, PTL DEF Spec, ImplementsProtocol

=============================================================================
