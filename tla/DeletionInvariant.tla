------------------------- MODULE DeletionInvariant --------------------------
(***************************************************************************)
(* The inductive invariant of Deletion, for any number of intents, calls   *)
(* and faults: the chains of the ledger, the invariant, the steps that     *)
(* only read, the appends to the ledger, the preparation and the fence.    *)
(***************************************************************************)
EXTENDS Deletion, SequenceTheorems, TLAPS

-----------------------------------------------------------------------------
(* The ledger: five chains, and how append moves between them.             *)

\* The five chains are sequences of phases ...
LEMMA ChainShapes ==
    /\ Unprepared \in Seq(Phases)
    /\ Unresolved \in Seq(Phases)
    /\ Requested \in Seq(Phases)
    /\ Completed \in Seq(Phases)
    /\ Aborted \in Seq(Phases)
  BY DEF Unprepared, Unresolved, Requested, Completed, Aborted, Phases

\* ... of these lengths.
LEMMA ChainLengths ==
    /\ Len(Unprepared) = 0
    /\ Len(Unresolved) = 1
    /\ Len(Requested) = 2
    /\ Len(Completed) = 3
    /\ Len(Aborted) = 2
  BY DEF Unprepared, Unresolved, Requested, Completed, Aborted

\* No two of the chains that FilesystemDeletionLedger.append can build agree.
LEMMA ChainsDistinct ==
    /\ Unprepared # Unresolved /\ Unprepared # Requested
    /\ Unprepared # Completed /\ Unprepared # Aborted
    /\ Unresolved # Requested /\ Unresolved # Completed
    /\ Unresolved # Aborted /\ Requested # Completed
    /\ Requested # Aborted /\ Completed # Aborted
  BY DEF Unprepared, Unresolved, Requested, Completed, Aborted

\* Which events a chain holds.
LEMMA ChainPhases ==
    /\ \A ph \in Phases : ~InChain(Unprepared, ph)
    /\ \A ph \in Phases : InChain(Unresolved, ph) <=> ph = "PREPARED"
    /\ \A ph \in Phases :
          InChain(Requested, ph) <=> ph \in {"PREPARED", "REQUESTED"}
    /\ \A ph \in Phases :
          InChain(Completed, ph) <=> ph \in {"PREPARED", "REQUESTED", "COMPLETED"}
    /\ \A ph \in Phases :
          InChain(Aborted, ph) <=> ph \in {"PREPARED", "ABORTED"}
  BY DEF Unprepared, Unresolved, Requested, Completed, Aborted, InChain, Phases

\* The four appends of the ledger that end in a legal chain.
LEMMA ChainAppends ==
    /\ Append(Unprepared, "PREPARED") = Unresolved
    /\ Append(Unresolved, "REQUESTED") = Requested
    /\ Append(Unresolved, "ABORTED") = Aborted
    /\ Append(Requested, "COMPLETED") = Completed
  <1>1. Append(Unprepared, "PREPARED") = Unresolved
    BY DEF Unprepared, Unresolved
  <1>2. Append(Unresolved, "REQUESTED") = Requested
    <2>1. "REQUESTED" \in Phases
      BY DEF Phases
    <2> DEFINE a == Append(Unresolved, "REQUESTED")
    <2>2. a \in Seq(Phases) /\ Len(a) = 2 /\ a[1] = Unresolved[1] /\ a[2] = "REQUESTED"
      <3>1. /\ a \in Seq(Phases)
            /\ Len(a) = Len(Unresolved) + 1
            /\ \A i \in 1 .. Len(Unresolved) : a[i] = Unresolved[i]
            /\ a[Len(Unresolved) + 1] = "REQUESTED"
        BY <2>1, ChainShapes, AppendProperties
      <3> HIDE DEF a
      <3> QED
        BY <3>1, ChainLengths
    <2>3. \A i \in 1 .. Len(a) : a[i] = Requested[i]
      BY <2>2 DEF Unresolved, Requested
    <2> HIDE DEF a
    <2>4. a = Requested
      BY <2>2, <2>3, ChainShapes, ChainLengths, SeqEqual
    <2> QED
      BY <2>4 DEF a
  <1>3. Append(Unresolved, "ABORTED") = Aborted
    <2>1. "ABORTED" \in Phases
      BY DEF Phases
    <2> DEFINE a == Append(Unresolved, "ABORTED")
    <2>2. a \in Seq(Phases) /\ Len(a) = 2 /\ a[1] = Unresolved[1] /\ a[2] = "ABORTED"
      <3>1. /\ a \in Seq(Phases)
            /\ Len(a) = Len(Unresolved) + 1
            /\ \A i \in 1 .. Len(Unresolved) : a[i] = Unresolved[i]
            /\ a[Len(Unresolved) + 1] = "ABORTED"
        BY <2>1, ChainShapes, AppendProperties
      <3> HIDE DEF a
      <3> QED
        BY <3>1, ChainLengths
    <2>3. \A i \in 1 .. Len(a) : a[i] = Aborted[i]
      BY <2>2 DEF Unresolved, Aborted
    <2> HIDE DEF a
    <2>4. a = Aborted
      BY <2>2, <2>3, ChainShapes, ChainLengths, SeqEqual
    <2> QED
      BY <2>4 DEF a
  <1>4. Append(Requested, "COMPLETED") = Completed
    <2>1. "COMPLETED" \in Phases
      BY DEF Phases
    <2> DEFINE a == Append(Requested, "COMPLETED")
    <2>2. /\ a \in Seq(Phases) /\ Len(a) = 3
          /\ a[1] = Requested[1] /\ a[2] = Requested[2] /\ a[3] = "COMPLETED"
      <3>1. /\ a \in Seq(Phases)
            /\ Len(a) = Len(Requested) + 1
            /\ \A i \in 1 .. Len(Requested) : a[i] = Requested[i]
            /\ a[Len(Requested) + 1] = "COMPLETED"
        BY <2>1, ChainShapes, AppendProperties
      <3> HIDE DEF a
      <3> QED
        BY <3>1, ChainLengths
    <2>3. \A i \in 1 .. Len(a) : a[i] = Completed[i]
      BY <2>2 DEF Requested, Completed
    <2> HIDE DEF a
    <2>4. a = Completed
      BY <2>2, <2>3, ChainShapes, ChainLengths, SeqEqual
    <2> QED
      BY <2>4 DEF a
  <1> QED
    BY <1>1, <1>2, <1>3, <1>4

\* A chain is told from the others by its length, but for two of them.
LEMMA ByLength ==
    ASSUME NEW a
    PROVE  /\ Len(a) = 2 => a # Unresolved /\ a # Completed
           /\ Len(a) = 3 => a # Unresolved /\ a # Requested /\ a # Aborted
           /\ Len(a) = 4 => /\ a # Unresolved /\ a # Requested
                            /\ a # Completed /\ a # Aborted
  <1>1. /\ a = Unresolved => Len(a) = 1
        /\ a = Requested => Len(a) = 2
        /\ a = Completed => Len(a) = 3
        /\ a = Aborted => Len(a) = 2
    BY ChainLengths
  <1> QED
    BY <1>1

\* No other append is legal: what the LEGAL_CHAINS test of append enforces.
LEMMA ChainLegal ==
    ASSUME NEW c \in LegalChains \cup {Unprepared}, NEW ph \in Phases,
           Append(c, ph) \in LegalChains
    PROVE  \/ c = Unprepared /\ ph = "PREPARED"
           \/ c = Unresolved /\ ph = "REQUESTED"
           \/ c = Unresolved /\ ph = "ABORTED"
           \/ c = Requested /\ ph = "COMPLETED"
  <1> DEFINE a == Append(c, ph)
  <1>1. c \in Seq(Phases)
    BY ChainShapes DEF LegalChains
  <1>2. /\ Len(a) = Len(c) + 1
        /\ \A i \in 1 .. Len(c) : a[i] = c[i]
        /\ a[Len(c) + 1] = ph
    BY <1>1, AppendProperties
  <1>3. a \in LegalChains
    OBVIOUS
  <1> HIDE DEF a
  <1>4. CASE c = Unprepared
    <2>1. a = Unresolved
      BY <1>2, <1>3, <1>4, ChainLengths DEF LegalChains
    <2> QED
      BY <1>2, <1>4, <2>1, ChainLengths DEF Unresolved
  <1>5. CASE c = Unresolved
    <2>0. Len(a) = 2
      BY <1>2, <1>5, ChainLengths
    <2>1. a # Unresolved /\ a # Completed
      BY <2>0, ByLength, Zenon
    <2>2. a \in {Requested, Aborted}
      BY <2>1, <1>3, Zenon DEF LegalChains
    <2> QED
      BY <1>2, <1>5, <2>2, ChainLengths DEF Requested, Aborted
  <1>6. CASE c = Requested
    <2>0. Len(a) = 3
      BY <1>2, <1>6, ChainLengths
    <2>1. a = Completed
      BY <2>0, <1>3, ByLength, Zenon DEF LegalChains
    <2> QED
      BY <1>2, <1>6, <2>1, ChainLengths DEF Completed
  <1>7. CASE c = Completed
    <2>0. Len(a) = 4
      BY <1>2, <1>7, ChainLengths
    <2>1. a # Unresolved /\ a # Requested /\ a # Completed /\ a # Aborted
      BY <2>0, ByLength, Zenon
    <2> QED
      BY <2>1, <1>3, Zenon DEF LegalChains
  <1>8. CASE c = Aborted
    <2>0. Len(a) = 3
      BY <1>2, <1>8, ChainLengths
    <2>1. a = Completed
      BY <2>0, <1>3, ByLength, Zenon DEF LegalChains
    <2> QED
      BY <1>2, <1>8, <2>1, ChainLengths DEF Aborted, Completed
  <1> QED
    BY <1>4, <1>5, <1>6, <1>7, <1>8 DEF LegalChains

-----------------------------------------------------------------------------
(* The inductive invariant.  The phase of a control fixes the chain and the *)
(* target; an intent that was invalidated stays so; and a process has left  *)
(* behind what the step it is at relies on.                                 *)

ChainFollowsControl(d) ==
    /\ control[d] = "NONE" => ledger[d] \in {Unprepared, Unresolved, Aborted}
    /\ control[d] = "FENCE" => ledger[d] \in {Unresolved, Requested}
    /\ control[d] \in {"DRAIN", "SWEEP", "VERIFY"} => ledger[d] = Requested
    /\ control[d] = "COMPLETE" => ledger[d] \in {Requested, Completed}
    /\ control[d] = "DONE" => ledger[d] = Completed

TargetFollowsControl(d) ==
    /\ control[d] = "FENCE" => target.state = "DELETION_PENDING_LEDGER"
    /\ control[d] \in SweepPhases => target.state = "DELETING"
    /\ control[d] = "DONE" => target.state = "DELETED"

IntentFollows(d) ==
    /\ control[d] # "NONE" => intent[d].state \in {"CONSUMED", "SWEPT"}
    /\ intent[d].state = "NEW" => ledger[d] = Unprepared
    /\ ledger[d] = Aborted => intent[d].state \in {"INVALIDATED", "SWEPT"}

AcksInChain(d) == \A phase \in acks[d] : Has(d, phase)

ReceiptFollows(d) ==
    /\ control[d] = "FENCE" => receipt[d] = "DELETION_PENDING_LEDGER"
    /\ control[d] = "DRAIN" => receipt[d] = "DELETING"
    /\ control[d] \in {"SWEEP", "VERIFY", "COMPLETE"} => receipt[d] = control[d]
    /\ control[d] = "DONE" => receipt[d] = "DELETED"

DeletionOK(d) ==
    /\ ChainFollowsControl(d)
    /\ TargetFollowsControl(d)
    /\ IntentFollows(d)
    /\ AcksInChain(d)
    /\ ReceiptFollows(d)

OneControl ==
    /\ target.state # "ACTIVE" <=> \E d \in Ids : control[d] # "NONE"
    /\ target.generation = IF target.state = "ACTIVE" THEN 0 ELSE 1
    /\ \A d, e \in Ids : control[d] # "NONE" /\ control[e] # "NONE" => d = e

StepOK(x) ==
    /\ x.at # "idle" => x.id \in Ids
    /\ x.at = "prepare" => intent[x.id].state # "NEW"
    /\ x.at \in {"fence", "reconcile", "prove", "abort"} =>
          ledger[x.id] # Unprepared
    /\ x.at \in {"request", "append_requested"} => control[x.id] # "NONE"
    /\ x.at = "commit_requested" => Has(x.id, "REQUESTED")
    /\ x.at = "append_aborted" =>
          /\ control[x.id] = "NONE"
          /\ ledger[x.id] # Unprepared
          /\ intent[x.id].state \in {"INVALIDATED", "SWEPT"}
    /\ x.at = "store_aborted" => Has(x.id, "ABORTED")
    /\ x.at = "append_completed" => control[x.id] \in {"COMPLETE", "DONE"}
    /\ x.at = "commit_completed" => Has(x.id, "COMPLETED")

RowsOK == OneControl /\ \A d \in Ids : DeletionOK(d)

StepsOK == \A p \in Procs : StepOK(proc[p])

IInv == TypeOK /\ RowsOK /\ StepsOK

-----------------------------------------------------------------------------
(* What a process relies on is never taken back by another.                 *)

Forward(d) ==
    /\ intent[d].state # "NEW" => intent'[d].state # "NEW"
    /\ ledger[d] # Unprepared => ledger'[d] # Unprepared
    /\ control[d] # "NONE" => control'[d] # "NONE"
    /\ ledger[d] \in {Requested, Completed} => ledger'[d] \in {Requested, Completed}
    /\ ledger[d] = Completed => ledger'[d] = Completed
    /\ ledger[d] = Aborted => ledger'[d] = Aborted
    /\ control[d] \in {"COMPLETE", "DONE"} => control'[d] \in {"COMPLETE", "DONE"}
    /\ control[d] = "NONE" /\ intent[d].state \in {"INVALIDATED", "SWEPT"}
          => /\ control'[d] = "NONE"
             /\ intent'[d].state \in {"INVALIDATED", "SWEPT"}

\* What InChain says of each of the five chains.
LEMMA InChains ==
    ASSUME NEW c \in LegalChains \cup {Unprepared}
    PROVE  /\ InChain(c, "PREPARED") <=> c # Unprepared
           /\ InChain(c, "REQUESTED") <=> c \in {Requested, Completed}
           /\ InChain(c, "COMPLETED") <=> c = Completed
           /\ InChain(c, "ABORTED") <=> c = Aborted
  BY ChainsDistinct, ChainPhases DEF LegalChains, Phases

\* What LedgerAppend does to the chain of the deletion and to the others.
LEMMA AppendStep ==
    ASSUME TypeOK, NEW d \in Ids, NEW ph \in Phases, LedgerAppend(d, ph)
    PROVE  /\ ledger' \in [Ids -> LegalChains \cup {Unprepared}]
           /\ \A e \in Ids : e # d => ledger'[e] = ledger[e]
           /\ InChain(ledger'[d], ph)
           /\ \/ ledger'[d] = ledger[d] /\ Has(d, ph)
              \/ ledger[d] = Unprepared /\ ph = "PREPARED" /\ ledger'[d] = Unresolved
              \/ ledger[d] = Unresolved /\ ph = "REQUESTED" /\ ledger'[d] = Requested
              \/ ledger[d] = Unresolved /\ ph = "ABORTED" /\ ledger'[d] = Aborted
              \/ ledger[d] = Requested /\ ph = "COMPLETED" /\ ledger'[d] = Completed
  <1>0. ledger \in [Ids -> LegalChains \cup {Unprepared}]
    BY DEF TypeOK
  <1>1. CASE Has(d, ph) /\ UNCHANGED ledger
    BY <1>0, <1>1 DEF Has
  <1>2. CASE NewEvent(d, ph) /\ ledger' = [ledger EXCEPT ![d] = Append(@, ph)]
    <2> DEFINE c == ledger[d]
               a == Append(c, ph)
    <2>1. c \in LegalChains \cup {Unprepared} /\ a \in LegalChains
      BY <1>0, <1>2 DEF NewEvent
    <2>2. \/ c = Unprepared /\ ph = "PREPARED" /\ a = Unresolved
          \/ c = Unresolved /\ ph = "REQUESTED" /\ a = Requested
          \/ c = Unresolved /\ ph = "ABORTED" /\ a = Aborted
          \/ c = Requested /\ ph = "COMPLETED" /\ a = Completed
      <3> HIDE DEF c
      <3> QED
        BY <2>1, ChainLegal, ChainAppends, Zenon DEF a
    <2>3. ledger' = [ledger EXCEPT ![d] = a]
      BY <1>2
    <2> HIDE DEF a
    <2>4. /\ ledger' \in [Ids -> LegalChains \cup {Unprepared}]
          /\ \A e \in Ids : e # d => ledger'[e] = ledger[e]
          /\ ledger'[d] = a
      BY <1>0, <2>1, <2>3
    <2>5. InChain(a, ph)
      BY <2>1, <2>2, InChains, ChainsDistinct
    <2> QED
      BY <2>2, <2>4, <2>5
  <1> QED
    BY <1>1, <1>2, Zenon DEF LedgerAppend

\* A process that does not move keeps what its step relies on.
LEMMA StepKept ==
    ASSUME TypeOK, ledger' \in [Ids -> LegalChains \cup {Unprepared}],
           \A d \in Ids : Forward(d),
           NEW q \in Procs, proc'[q] = proc[q], StepOK(proc[q])
    PROVE  StepOK(proc[q])'
  <1> DEFINE d == proc[q].id
  <1>1. CASE proc[q].at = "idle"
    BY Zenon, <1>1 DEF StepOK
  <1>2. CASE proc[q].at # "idle"
    <2>1. d \in Ids
      BY <1>2 DEF StepOK
    <2>2. Forward(d)
      BY <2>1
    <2>3. ledger[d] \in LegalChains \cup {Unprepared} /\ ledger'[d] \in LegalChains \cup {Unprepared}
      BY Zenon, <2>1 DEF TypeOK
    <2>4. /\ Has(d, "REQUESTED") => InChain(ledger'[d], "REQUESTED")
          /\ Has(d, "ABORTED") => InChain(ledger'[d], "ABORTED")
          /\ Has(d, "COMPLETED") => InChain(ledger'[d], "COMPLETED")
      BY <2>2, <2>3, InChains DEF Forward, Has
    <2> QED
      BY Zenon, <1>2, <2>1, <2>2, <2>4 DEF StepOK, Forward, Has
  <1> QED
    BY <1>1, <1>2

\* One process moves and all others keep their step.
LEMMA StepMoved ==
    ASSUME TypeOK, StepsOK, ledger' \in [Ids -> LegalChains \cup {Unprepared}],
           \A d \in Ids : Forward(d),
           NEW p \in Procs, StepOK(proc[p])',
           \A q \in Procs : q # p => proc'[q] = proc[q]
    PROVE  StepsOK'
  BY StepKept DEF StepsOK

-----------------------------------------------------------------------------
(* The initial state *)

\* The rows, the ledger and the processes that Init describes are in order.
LEMMA InitOK == Init => IInv
  <1> SUFFICES ASSUME Init PROVE IInv
    BY Zenon
  <1>1. TypeOK
    BY DeletionConstants DEF Init, TypeOK, Target, Intent, IntentStates, ControlPhases,
       ReceiptStatuses, ProcState, Steps, Idle, Procs
  <1>2. OneControl
    BY DEF Init, OneControl
  <1>3. ASSUME NEW d \in Ids PROVE DeletionOK(d)
    <2>1. ledger[d] = Unprepared /\ control[d] = "NONE" /\ acks[d] = {}
      BY DEF Init
    <2> QED
      BY <2>1, ChainsDistinct DEF Init, DeletionOK, ChainFollowsControl,
         TargetFollowsControl, IntentFollows, AcksInChain, ReceiptFollows, SweepPhases
  <1>4. StepsOK
    BY DEF Init, StepsOK, StepOK, Idle
  <1> QED
    BY <1>1, <1>2, <1>3, <1>4 DEF IInv, RowsOK

-----------------------------------------------------------------------------
(* Steps that leave the rows and the ledger alone                           *)

rows == <<target, intent, control, receipt, acks, ledger>>

\* Nothing is taken back where nothing is written.
LEMMA RowsStutter ==
    ASSUME IInv, UNCHANGED rows
    PROVE  /\ RowsOK'
           /\ \A d \in Ids : Forward(d)
           /\ ledger' \in [Ids -> LegalChains \cup {Unprepared}]
  <1> USE DEF rows
  <1>1. OneControl'
    BY Zenon DEF IInv, RowsOK, OneControl
  <1>2. ASSUME NEW d \in Ids PROVE DeletionOK(d)'
    <2>1. DeletionOK(d)
      BY DEF IInv, RowsOK
    <2> QED
      BY <2>1 DEF DeletionOK, ChainFollowsControl, TargetFollowsControl,
         IntentFollows, AcksInChain, ReceiptFollows, Has
  <1>3. \A d \in Ids : Forward(d)
    BY DEF Forward
  <1>4. ledger' \in [Ids -> LegalChains \cup {Unprepared}]
    BY DEF IInv, TypeOK
  <1> QED
    BY Zenon, <1>1, <1>2, <1>3, <1>4 DEF RowsOK

\* A process moves to a step it may be at: a call begins, goes on, returns,
\* raises or crashes, and a lease changes hands.
LEMMA ProcMoves ==
    ASSUME IInv, UNCHANGED rows, NEW p \in Procs, NEW x \in ProcState,
           proc' = [proc EXCEPT ![p] = x],
           StepOK(x),
           holder' \in [Ids -> Sweepers \cup {NULL}],
           faults' \in 0 .. MaxFaults
    PROVE  IInv'
  <1>1. TypeOK'
    BY Zenon DEF IInv, TypeOK, rows
  <1>2. proc'[p] = x /\ \A q \in Procs : q # p => proc'[q] = proc[q]
    BY Zenon DEF IInv, TypeOK
  <1>3. StepOK(proc[p])'
    BY Zenon, <1>2 DEF StepOK, rows, Has
  <1>4. StepsOK'
    BY Zenon, <1>2, <1>3, RowsStutter, StepMoved DEF IInv
  <1> QED
    BY Zenon, <1>1, <1>4, RowsStutter DEF IInv

\* Raise, Crash and every other return.
LEMMA Returns ==
    ASSUME IInv, UNCHANGED rows, NEW p \in Procs, Return(p),
           holder' \in [Ids -> Sweepers \cup {NULL}],
           faults' \in 0 .. MaxFaults
    PROVE  IInv'
  <1>1. Idle \in ProcState /\ StepOK(Idle)
    BY DEF Idle, ProcState, Steps, StepOK
  <1> HIDE DEF Idle
  <1> QED
    BY <1>1, ProcMoves, Zenon DEF Return

\* A call raises.
LEMMA Raises ==
    ASSUME IInv, NEW p \in Procs, Raise(p)
    PROVE  IInv'
  <1>1. /\ UNCHANGED rows /\ Return(p)
        /\ holder' \in [Ids -> Sweepers \cup {NULL}]
        /\ faults' \in 0 .. MaxFaults
    BY DEF Raise, rows, database, IInv, TypeOK
  <1> QED
    BY <1>1, Returns

\* A call goes on to a step it may be at.
LEMMA Goes ==
    ASSUME IInv, NEW p \in Procs, NEW s \in Steps, Go(p, s),
           UNCHANGED <<database, ledger, faults>>,
           StepOK([at |-> s, id |-> proc[p].id])
    PROVE  IInv'
  <1>1. /\ UNCHANGED rows
        /\ holder' \in [Ids -> Sweepers \cup {NULL}]
        /\ faults' \in 0 .. MaxFaults
    BY DEF rows, database, IInv, TypeOK
  <1>2. [at |-> s, id |-> proc[p].id] \in ProcState
    BY DEF IInv, TypeOK, ProcState
  <1> DEFINE x == [at |-> s, id |-> proc[p].id]
  <1>3. x \in ProcState /\ StepOK(x) /\ proc' = [proc EXCEPT ![p] = x]
    BY <1>2 DEF Go
  <1> HIDE DEF x
  <1> QED
    BY <1>1, <1>3, ProcMoves, Zenon

\* A call begins at a step it may be at.
LEMMA Starts ==
    ASSUME IInv, NEW p \in Procs, NEW s \in Steps, NEW d \in Ids, Start(p, s, d),
           UNCHANGED rows,
           holder' \in [Ids -> Sweepers \cup {NULL}],
           faults' \in 0 .. MaxFaults,
           StepOK([at |-> s, id |-> d])
    PROVE  IInv'
  <1> DEFINE x == [at |-> s, id |-> d]
  <1>1. x \in ProcState /\ StepOK(x) /\ proc' = [proc EXCEPT ![p] = x]
    BY Zenon DEF Start, ProcState
  <1> HIDE DEF x
  <1> QED
    BY <1>1, ProcMoves, Zenon

-----------------------------------------------------------------------------
(* Calls that begin                                                         *)

\* What the invariant says of one deletion and of one process.
LEMMA Facts ==
    ASSUME IInv
    PROVE  /\ TypeOK /\ OneControl
           /\ \A d \in Ids : DeletionOK(d)
           /\ \A p \in Procs : StepOK(proc[p])
           /\ \A d \in Ids : ledger[d] \in LegalChains \cup {Unprepared}
           /\ \A d \in Ids : control[d] \in ControlPhases
           /\ \A d \in Ids : intent[d] \in Intent
           /\ \A p \in Procs : proc[p] \in ProcState
           /\ target \in Target
  BY DEF IInv, RowsOK, StepsOK, TypeOK

\* Authorize, the visits of the reconciler, prove_noncommit_and_abort and Lease.
LEMMA BeginOK == IInv /\ Begin => IInv'
  <1> SUFFICES ASSUME IInv, Begin PROVE IInv'
    OBVIOUS
  <1>0. PICK d \in Ids :
          \/ \E p \in Clients : Authorize(p, d)
          \/ \E p \in Reconcilers : ReconcilePrepared(p, d)
          \/ \E p \in Reconcilers : ReconcileControl(p, d)
          \/ \E p \in Operators : ProveNoncommit(p, d)
          \/ \E p \in Sweepers : Lease(p, d)
    BY DEF Begin
  <1> DEFINE Kept == /\ UNCHANGED rows
                     /\ holder' \in [Ids -> Sweepers \cup {NULL}]
                     /\ faults' \in 0 .. MaxFaults
  <1>1. UNCHANGED <<database, ledger, faults>> => Kept
    BY DEF rows, database, IInv, TypeOK
  <1>2. ASSUME NEW p \in Clients, Authorize(p, d) PROVE IInv'
    <2>1. StepOK([at |-> "prepare", id |-> d])
      BY <1>2 DEF StepOK, Authorize, Active
    <2>2. p \in Procs /\ "prepare" \in Steps /\ Start(p, "prepare", d) /\ Kept
      BY Zenon, <1>1, <1>2 DEF Procs, Steps, Authorize
    <2> QED
      BY Zenon, <2>1, <2>2, Starts
  <1>3. ASSUME NEW p \in Reconcilers, ReconcilePrepared(p, d) PROVE IInv'
    <2>1. StepOK([at |-> "reconcile", id |-> d])
      BY <1>3, ChainsDistinct DEF StepOK, ReconcilePrepared
    <2>2. p \in Procs /\ "reconcile" \in Steps /\ Start(p, "reconcile", d) /\ Kept
      BY <1>1, <1>3 DEF Procs, Steps, ReconcilePrepared
    <2> QED
      BY Zenon, <2>1, <2>2, Starts
  <1>4. ASSUME NEW p \in Reconcilers, ReconcileControl(p, d) PROVE IInv'
    <2>1. StepOK([at |-> "request", id |-> d])
      BY <1>4 DEF StepOK, ReconcileControl
    <2>2. p \in Procs /\ "request" \in Steps /\ Start(p, "request", d) /\ Kept
      BY <1>1, <1>4 DEF Procs, Steps, ReconcileControl
    <2> QED
      BY Zenon, <2>1, <2>2, Starts
  <1>5. ASSUME NEW p \in Operators, ProveNoncommit(p, d) PROVE IInv'
    <2>1. StepOK([at |-> "prove", id |-> d])
      BY Zenon, <1>5, ChainsDistinct DEF StepOK, ProveNoncommit
    <2>2. p \in Procs /\ "prove" \in Steps /\ Start(p, "prove", d) /\ Kept
      BY Zenon, <1>1, <1>5 DEF Procs, Steps, ProveNoncommit
    <2> QED
      BY Zenon, <2>1, <2>2, Starts
  <1>6. ASSUME NEW p \in Sweepers, Lease(p, d) PROVE IInv'
    <2>1. StepOK([at |-> "advance", id |-> d])
      BY DEF StepOK
    <2>2. p \in Procs /\ "advance" \in Steps /\ Start(p, "advance", d)
      BY Zenon, <1>6 DEF Procs, Steps, Lease
    <2>3. faults' \in 0 .. MaxFaults
      BY <1>6, DeletionConstants DEF Lease, Fault, IInv, TypeOK
    <2>4. Kept
      BY Zenon, <1>6, <2>3 DEF Lease, rows, IInv, TypeOK
    <2> QED
      BY Zenon, <2>1, <2>2, <2>4, Starts
  <1> QED
    BY Zenon, <1>0, <1>2, <1>3, <1>4, <1>5, <1>6

-----------------------------------------------------------------------------
(* Steps that only read                                                     *)

\* A process that is at a step has what StepOK says.
LEMMA AtStep ==
    ASSUME IInv, NEW p \in Procs, NEW s, At(p, s), s # "idle"
    PROVE  proc[p].id \in Ids /\ proc[p].at = s /\ StepOK(proc[p])
  BY Facts DEF At, StepOK

\* _ensure_requested before its append.
LEMMA RequestOK ==
    ASSUME IInv, NEW p \in Procs, Request(p)
    PROVE  IInv'
  <1> DEFINE d == proc[p].id
             s == IF Has(d, "REQUESTED") THEN "commit_requested" ELSE "append_requested"
  <1>1. CASE AtFence(d)
    <2>1. d \in Ids /\ s \in Steps
      BY Zenon, AtStep DEF Request, Steps
    <2>2. StepOK([at |-> s, id |-> d])
      BY <1>1, <2>1 DEF StepOK, AtFence, HasControl
    <2>3. Go(p, s) /\ UNCHANGED <<database, ledger, faults>>
      BY <1>1 DEF Request
    <2> HIDE DEF s
    <2> QED
      BY Zenon, <2>1, <2>2, <2>3, Goes
  <1>2. CASE ~AtFence(d)
    BY Zenon, <1>2, Raises DEF Request
  <1> QED
    BY Zenon, <1>1, <1>2

\* The decision of reconcile between abort and fence.
LEMMA ReconcileOK ==
    ASSUME IInv, NEW p \in Procs, Reconcile(p)
    PROVE  IInv'
  <1> DEFINE d == proc[p].id
             s == IF Noncommitted(d) THEN "abort" ELSE "fence"
  <1>1. d \in Ids /\ s \in Steps
    BY Zenon, AtStep DEF Reconcile, Steps
  <1>2. ledger[d] # Unprepared
    BY Zenon, AtStep DEF Reconcile, StepOK
  <1>3. StepOK([at |-> s, id |-> d])
    BY <1>1, <1>2 DEF StepOK
  <1>4. Go(p, s) /\ UNCHANGED <<database, ledger, faults>>
    BY Zenon DEF Reconcile
  <1> HIDE DEF s
  <1> QED
    BY <1>1, <1>3, <1>4, Goes

\* The unlocked proof of noncommit in _ensure_aborted.
LEMMA AbortOK ==
    ASSUME IInv, NEW p \in Procs, Abort(p)
    PROVE  IInv'
  <1> DEFINE d == proc[p].id
             s == IF Has(d, "ABORTED") THEN "store_aborted" ELSE "append_aborted"
  <1>1. CASE Noncommitted(d)
    <2>1. d \in Ids /\ s \in Steps
      BY Zenon, AtStep DEF Abort, Steps
    <2>2. ledger[d] # Unprepared
      BY Zenon, AtStep DEF Abort, StepOK
    <2>3. control[d] = "NONE"
      BY Zenon, <1>1, <2>1, Facts DEF Noncommitted, OneControl
    <2>4. StepOK([at |-> s, id |-> d])
      BY Zenon, <1>1, <2>1, <2>2, <2>3 DEF StepOK, Noncommitted
    <2>5. Go(p, s) /\ UNCHANGED <<database, ledger, faults>>
      BY <1>1 DEF Abort
    <2> HIDE DEF s
    <2> QED
      BY <2>1, <2>4, <2>5, Goes
  <1>2. CASE ~Noncommitted(d)
    BY Zenon, <1>2, Raises DEF Abort
  <1> QED
    BY <1>1, <1>2

\* The sweeper reads the chain before it completes the deletion.
LEMMA CompleteOK ==
    ASSUME IInv, NEW p \in Procs, Complete(p)
    PROVE  IInv'
  <1> DEFINE d == proc[p].id
             s == IF Has(d, "COMPLETED") THEN "commit_completed" ELSE "append_completed"
  <1>1. d \in Ids /\ s \in Steps
    BY Zenon, AtStep DEF Complete, Steps
  <1>2. StepOK([at |-> s, id |-> d])
    BY <1>1 DEF StepOK, Complete, Locked
  <1>3. Go(p, s) /\ UNCHANGED <<database, ledger, faults>>
    BY DEF Complete
  <1> HIDE DEF s
  <1> QED
    BY <1>1, <1>2, <1>3, Goes

-----------------------------------------------------------------------------
(* Calls that end without a write                                           *)

\* A fault is counted within its bound.
LEMMA FaultBound ==
    ASSUME TypeOK, Fault
    PROVE  faults' \in 0 .. MaxFaults
  BY DeletionConstants DEF TypeOK, Fault

\* JobService.fail gives the lease back and writes nothing else.
LEMMA FailSweepOK ==
    ASSUME IInv, NEW p \in Procs, FailSweep(p)
    PROVE  IInv'
  <1>1. UNCHANGED rows /\ Return(p) /\ faults' \in 0 .. MaxFaults
    BY DEF FailSweep, rows, IInv, TypeOK
  <1>2. holder' \in [Ids -> Sweepers \cup {NULL}]
    BY Zenon DEF FailSweep, IInv, TypeOK
  <1> QED
    BY Zenon, <1>1, <1>2, Returns

\* A drain that is pending, or an error of the object store.
LEMMA GiveBackOK ==
    ASSUME IInv, NEW p \in Procs, GiveBack(p)
    PROVE  IInv'
  <1>1. UNCHANGED rows /\ Return(p)
    BY Zenon DEF GiveBack, rows
  <1>2. faults' \in 0 .. MaxFaults
    BY FaultBound DEF GiveBack, IInv
  <1>3. holder' \in [Ids -> Sweepers \cup {NULL}]
    BY Zenon DEF GiveBack, IInv, TypeOK
  <1> QED
    BY Zenon, <1>1, <1>2, <1>3, Returns

\* A process dies and leaves its lease behind.
LEMMA CrashOK ==
    ASSUME IInv, NEW p \in Procs, Crash(p)
    PROVE  IInv'
  <1>1. UNCHANGED rows /\ Return(p) /\ holder' \in [Ids -> Sweepers \cup {NULL}]
    BY DEF Crash, database, rows, IInv, TypeOK
  <1>2. faults' \in 0 .. MaxFaults
    BY FaultBound DEF Crash, IInv
  <1> QED
    BY Zenon, <1>1, <1>2, Returns

-----------------------------------------------------------------------------
(* Steps that write: what has to be shown of them                           *)

\* A step of process p that keeps the rows in order and takes nothing back.
LEMMA Writes ==
    ASSUME IInv, TypeOK', RowsOK', \A d \in Ids : Forward(d),
           NEW p \in Procs, StepOK(proc[p])',
           \A q \in Procs : q # p => proc'[q] = proc[q]
    PROVE  IInv'
  <1>1. ledger' \in [Ids -> LegalChains \cup {Unprepared}]
    BY DEF TypeOK
  <1>2. StepsOK'
    BY <1>1, StepMoved DEF IInv
  <1> QED
    BY <1>2 DEF IInv

\* A step in which no process moves.
LEMMA WritesInPlace ==
    ASSUME IInv, TypeOK', RowsOK', \A d \in Ids : Forward(d), UNCHANGED proc
    PROVE  IInv'
  <1>1. ledger' \in [Ids -> LegalChains \cup {Unprepared}]
    BY DEF TypeOK
  <1>2. StepsOK'
    BY <1>1, StepKept DEF IInv, StepsOK
  <1> QED
    BY <1>2 DEF IInv

-----------------------------------------------------------------------------
(* Appends to the ledger                                                    *)

\* What the caller of append knows of the deletion.
Appendable(d, ph) ==
    /\ ph = "PREPARED" => intent[d].state # "NEW"
    /\ ph = "REQUESTED" => control[d] # "NONE"
    /\ ph = "COMPLETED" => control[d] \in {"COMPLETE", "DONE"}
    /\ ph = "ABORTED" =>
          control[d] = "NONE" /\ intent[d].state \in {"INVALIDATED", "SWEPT"}

\* An append that its caller may make agrees with the rows of the database,
\* which do not know of it yet.
LEMMA AppendRowsOK ==
    ASSUME IInv, NEW d \in Ids, NEW ph \in Phases, LedgerAppend(d, ph),
           Appendable(d, ph), UNCHANGED <<target, intent, control, receipt, acks>>
    PROVE  /\ RowsOK'
           /\ \A e \in Ids : Forward(e)
           /\ ledger' \in [Ids -> LegalChains \cup {Unprepared}]
  <1>0. TypeOK
    BY DEF IInv
  <1>1. /\ ledger' \in [Ids -> LegalChains \cup {Unprepared}]
        /\ \A e \in Ids : e # d => ledger'[e] = ledger[e]
        /\ \/ ledger'[d] = ledger[d]
           \/ ledger[d] = Unprepared /\ ph = "PREPARED" /\ ledger'[d] = Unresolved
           \/ ledger[d] = Unresolved /\ ph = "REQUESTED" /\ ledger'[d] = Requested
           \/ ledger[d] = Unresolved /\ ph = "ABORTED" /\ ledger'[d] = Aborted
           \/ ledger[d] = Requested /\ ph = "COMPLETED" /\ ledger'[d] = Completed
    BY <1>0, AppendStep
  <1>2. OneControl'
    BY Facts DEF OneControl
  <1>3. ASSUME NEW e \in Ids PROVE DeletionOK(e)' /\ Forward(e)
    <2>1. DeletionOK(e) /\ control[e] \in ControlPhases
      BY Zenon, Facts
    <2>2. CASE ledger'[e] = ledger[e]
      BY <2>1, <2>2 DEF DeletionOK, ChainFollowsControl, TargetFollowsControl,
         IntentFollows, AcksInChain, ReceiptFollows, Has, Forward
    <2>3. CASE ledger'[e] # ledger[e]
      <3>0. e = d
        BY Zenon, <1>1, <2>3
      <3>1. ChainFollowsControl(e)' /\ Forward(e)
        BY Zenon, <1>1, <2>1, <2>3, <3>0, ChainsDistinct DEF DeletionOK, ChainFollowsControl,
           IntentFollows, Forward, Appendable, ControlPhases
      <3>2. TargetFollowsControl(e)' /\ ReceiptFollows(e)'
        BY Zenon, <2>1 DEF DeletionOK, TargetFollowsControl, ReceiptFollows
      <3>3. IntentFollows(e)'
        BY Zenon, <1>1, <2>1, <2>3, <3>0, ChainsDistinct DEF DeletionOK, IntentFollows, Appendable
      <3>4. AcksInChain(e)'
        <4>1. \A f \in Phases : InChain(ledger[d], f) => InChain(ledger'[d], f)
          BY Zenon, <1>1, <2>3, <3>0, ChainPhases
        <4>2. acks[e] \subseteq Phases
          BY Zenon, <1>0 DEF TypeOK
        <4> QED
          BY Zenon, <2>1, <3>0, <4>1, <4>2 DEF DeletionOK, AcksInChain, Has
      <3> QED
        BY Zenon, <3>1, <3>2, <3>3, <3>4 DEF DeletionOK
    <2> QED
      BY <2>2, <2>3
  <1> QED
    BY <1>1, <1>2, <1>3 DEF RowsOK

\* An append by process p, which goes on to a step it may then be at.
LEMMA AppendGoes ==
    ASSUME IInv, NEW p \in Procs, NEW d \in Ids, NEW ph \in Phases,
           LedgerAppend(d, ph), Appendable(d, ph),
           UNCHANGED <<target, intent, control, receipt, acks, holder>>,
           faults' \in 0 .. MaxFaults,
           proc' \in [Procs -> ProcState],
           \A q \in Procs : q # p => proc'[q] = proc[q],
           StepOK(proc[p])'
    PROVE  IInv'
  <1>1. /\ RowsOK'
        /\ \A e \in Ids : Forward(e)
        /\ ledger' \in [Ids -> LegalChains \cup {Unprepared}]
    BY Zenon, AppendRowsOK
  <1>2. TypeOK'
    BY <1>1 DEF IInv, TypeOK
  <1> QED
    BY Zenon, <1>1, <1>2, Writes

\* REQUESTED is appended for a deletion that has a control.
LEMMA AppendRequestedOK ==
    ASSUME IInv, NEW p \in Procs, AppendRequested(p)
    PROVE  IInv'
  <1> DEFINE d == proc[p].id
  <1>1. d \in Ids /\ control[d] # "NONE"
    BY AtStep DEF AppendRequested, StepOK
  <1>2. CASE /\ LedgerAppend(d, "REQUESTED")
             /\ Go(p, "commit_requested")
             /\ UNCHANGED <<database, faults>>
    <2>1. Appendable(d, "REQUESTED") /\ "REQUESTED" \in Phases
      BY <1>1 DEF Appendable, Phases
    <2>2. faults' \in 0 .. MaxFaults
      BY <1>2 DEF IInv, TypeOK
    <2>3. /\ proc' \in [Procs -> ProcState]
          /\ \A q \in Procs : q # p => proc'[q] = proc[q]
          /\ proc'[p].at = "commit_requested" /\ proc'[p].id = d
      BY Zenon, <1>1, <1>2 DEF Go, ProcState, Steps, IInv, TypeOK
    <2>4. InChain(ledger'[d], "REQUESTED")
      BY Zenon, <1>1, <1>2, <2>1, AppendStep DEF IInv
    <2>5. StepOK(proc[p])'
      BY <1>1, <2>3, <2>4 DEF StepOK, Has
    <2> QED
      BY Zenon, <1>1, <1>2, <2>1, <2>2, <2>3, <2>5, AppendGoes DEF database
  <1>3. CASE AppendRefused(d, "REQUESTED") /\ Raise(p)
    BY <1>3, Raises
  <1> QED
    BY Zenon, <1>2, <1>3 DEF AppendRequested

\* ABORTED is appended for an intent that can no longer be fenced.
LEMMA AppendAbortedOK ==
    ASSUME IInv, NEW p \in Procs, AppendAborted(p)
    PROVE  IInv'
  <1> DEFINE d == proc[p].id
  <1>1. d \in Ids /\ control[d] = "NONE" /\ intent[d].state \in {"INVALIDATED", "SWEPT"}
    BY Zenon, AtStep DEF AppendAborted, StepOK
  <1>2. CASE /\ LedgerAppend(d, "ABORTED")
             /\ Go(p, "store_aborted")
             /\ UNCHANGED <<database, faults>>
    <2>1. Appendable(d, "ABORTED") /\ "ABORTED" \in Phases
      BY <1>1 DEF Appendable, Phases
    <2>2. faults' \in 0 .. MaxFaults
      BY Zenon, <1>2 DEF IInv, TypeOK
    <2>3. /\ proc' \in [Procs -> ProcState]
          /\ \A q \in Procs : q # p => proc'[q] = proc[q]
          /\ proc'[p].at = "store_aborted" /\ proc'[p].id = d
      BY Zenon, <1>1, <1>2 DEF Go, ProcState, Steps, IInv, TypeOK
    <2>4. InChain(ledger'[d], "ABORTED")
      BY Zenon, <1>1, <1>2, <2>1, AppendStep DEF IInv
    <2>5. StepOK(proc[p])'
      BY <1>1, <2>3, <2>4 DEF StepOK, Has
    <2> QED
      BY Zenon, <1>1, <1>2, <2>1, <2>2, <2>3, <2>5, AppendGoes DEF database
  <1>3. CASE AppendRefused(d, "ABORTED") /\ Raise(p)
    BY Zenon, <1>3, Raises
  <1> QED
    BY Zenon, <1>2, <1>3 DEF AppendAborted

\* COMPLETED is appended once the control is verified.
LEMMA AppendCompletedOK ==
    ASSUME IInv, NEW p \in Procs, AppendCompleted(p)
    PROVE  IInv'
  <1> DEFINE d == proc[p].id
  <1>1. d \in Ids /\ control[d] \in {"COMPLETE", "DONE"}
    BY Zenon, AtStep DEF AppendCompleted, StepOK
  <1>2. CASE /\ LedgerAppend(d, "COMPLETED")
             /\ Go(p, "commit_completed")
             /\ UNCHANGED <<database, faults>>
    <2>1. Appendable(d, "COMPLETED") /\ "COMPLETED" \in Phases
      BY Zenon, <1>1 DEF Appendable, Phases
    <2>2. faults' \in 0 .. MaxFaults
      BY Zenon, <1>2 DEF IInv, TypeOK
    <2>3. /\ proc' \in [Procs -> ProcState]
          /\ \A q \in Procs : q # p => proc'[q] = proc[q]
          /\ proc'[p].at = "commit_completed" /\ proc'[p].id = d
      BY Zenon, <1>1, <1>2 DEF Go, ProcState, Steps, IInv, TypeOK
    <2>4. InChain(ledger'[d], "COMPLETED")
      BY Zenon, <1>1, <1>2, <2>1, AppendStep DEF IInv
    <2>5. StepOK(proc[p])'
      BY Zenon, <1>1, <2>3, <2>4 DEF StepOK, Has
    <2> QED
      BY Zenon, <1>1, <1>2, <2>1, <2>2, <2>3, <2>5, AppendGoes DEF database
  <1>3. CASE AppendRefused(d, "COMPLETED") /\ FailSweep(p)
    BY Zenon, <1>3, FailSweepOK
  <1> QED
    BY Zenon, <1>2, <1>3 DEF AppendCompleted

-----------------------------------------------------------------------------
(* _ensure_prepared and _fence_prepared                                     *)

\* The ledger half of _ensure_prepared leaves a chain that is prepared.
LEMMA AppendPreparedStep ==
    ASSUME TypeOK, NEW d \in Ids, AppendPrepared(d)
    PROVE  /\ ledger' \in [Ids -> LegalChains \cup {Unprepared}]
           /\ \A e \in Ids : e # d => ledger'[e] = ledger[e]
           /\ ledger'[d] # Unprepared
           /\ \/ ledger'[d] = ledger[d]
              \/ ledger[d] = Unprepared /\ ledger'[d] = Unresolved
           /\ InChain(ledger'[d], "PREPARED")
  <1>1. ledger \in [Ids -> LegalChains \cup {Unprepared}] /\ "PREPARED" \in Phases
    BY DEF TypeOK, Phases
  <1>2. CASE ledger[d] = Unprepared
    <2>1. LedgerAppend(d, "PREPARED")
      BY <1>2 DEF AppendPrepared
    <2>2. /\ ledger' \in [Ids -> LegalChains \cup {Unprepared}]
          /\ \A e \in Ids : e # d => ledger'[e] = ledger[e]
          /\ InChain(ledger'[d], "PREPARED")
          /\ ledger'[d] = ledger[d] \/ ledger'[d] = Unresolved
      BY Zenon, <1>1, <1>2, <2>1, AppendStep, ChainsDistinct
    <2>3. ledger'[d] # Unprepared
      BY Zenon, <1>1, <2>2, ChainPhases
    <2> QED
      BY <1>2, <2>2, <2>3
  <1>3. CASE ledger[d] # Unprepared
    <2>1. UNCHANGED ledger
      BY <1>3 DEF AppendPrepared
    <2> QED
      BY Zenon, <1>1, <1>3, <2>1, InChains
  <1> QED
    BY <1>2, <1>3

\* The intent rows after their states are written: _ensure_prepared and
\* _fence_prepared.
LEMMA IntentAcked ==
    ASSUME TypeOK, NEW d \in Ids, NEW s \in IntentStates,
           intent' = [intent EXCEPT ![d].state = s, ![d].acked = TRUE]
    PROVE  /\ intent' \in [Ids -> Intent]
           /\ intent'[d].state = s
           /\ \A e \in Ids : e # d => intent'[e] = intent[e]
  <1> DEFINE r == [intent[d] EXCEPT !.state = s]
             t == [r EXCEPT !.acked = TRUE]
  <1>0. intent \in [Ids -> Intent]
    BY DEF TypeOK
  <1>1. r \in Intent /\ r.state = s
    BY <1>0 DEF Intent
  <1>2. t \in Intent /\ t.state = s
    <2> HIDE DEF r
    <2> QED
      BY <1>1, Zenon DEF Intent
  <1>3. intent' = [intent EXCEPT ![d] = t]
    BY <1>0, Zenon
  <1> HIDE DEF t
  <1> QED
    BY <1>0, <1>2, <1>3, Zenon

\* The intent exists when a preparation commits: _ensure_prepared.
LEMMA PrepareOK ==
    ASSUME IInv, NEW p \in Procs, Prepare(p)
    PROVE  IInv'
  <1> DEFINE d == proc[p].id
  <1>0. d \in Ids /\ TypeOK
    BY AtStep DEF Prepare, IInv
  <1>1. CASE ~HasIntent(d)
    BY Zenon, <1>1, Raises DEF Prepare
  <1>2. CASE HasIntent(d)
    <2>0. AppendPrepared(d) /\ StorePrepared(d) /\ Go(p, "fence") /\ UNCHANGED faults
      BY Zenon, <1>2 DEF Prepare
    <2>1. /\ ledger' \in [Ids -> LegalChains \cup {Unprepared}]
          /\ \A e \in Ids : e # d => ledger'[e] = ledger[e]
          /\ ledger'[d] # Unprepared
          /\ \/ ledger'[d] = ledger[d]
             \/ ledger[d] = Unprepared /\ ledger'[d] = Unresolved
          /\ InChain(ledger'[d], "PREPARED")
      BY Zenon, <1>0, <2>0, AppendPreparedStep
    <2>2. /\ proc' \in [Procs -> ProcState]
          /\ \A q \in Procs : q # p => proc'[q] = proc[q]
          /\ proc'[p].at = "fence" /\ proc'[p].id = d
      BY Zenon, <1>0, <2>0 DEF Go, ProcState, Steps, TypeOK
    <2>3. UNCHANGED <<target, control, holder, faults>>
      BY Zenon, <2>0 DEF StorePrepared
    <2>4. /\ acks' \in [Ids -> SUBSET Phases]
          /\ acks'[d] = acks[d] \cup {"PREPARED"}
          /\ \A e \in Ids : e # d => acks'[e] = acks[e]
      BY Zenon, <1>0, <2>0 DEF StorePrepared, TypeOK, Phases
    <2>5. /\ intent' \in [Ids -> Intent]
          /\ \A e \in Ids : \/ intent'[e].state = intent[e].state
                            \/ /\ e = d
                               /\ intent[e].state = "INTENT_CREATED"
                               /\ intent'[e].state = "PREPARED"
      <3> HIDE DEF d
      <3>0. intent \in [Ids -> Intent] /\ "PREPARED" \in IntentStates
        BY Zenon, <1>0 DEF TypeOK, IntentStates
      <3>1. CASE intent[d].state # "INTENT_CREATED"
        <4>1. intent' = intent
          BY Zenon, <2>0, <3>1 DEF StorePrepared
        <4> QED
          BY Zenon, <3>0, <4>1
      <3>2. CASE intent[d].state = "INTENT_CREATED"
        <4>1. intent' = [intent EXCEPT ![d].state = "PREPARED", ![d].acked = TRUE]
          BY <2>0, <3>2 DEF StorePrepared
        <4>2. /\ intent' \in [Ids -> Intent] /\ intent'[d].state = "PREPARED"
              /\ \A e \in Ids : e # d => intent'[e] = intent[e]
          BY <1>0, <3>0, <4>1, IntentAcked, Zenon
        <4> QED
          BY <3>2, <4>2
      <3> QED
        BY Zenon, <3>1, <3>2
    <2>6. /\ receipt' \in [Ids -> ReceiptStatuses]
          /\ \A e \in Ids : \/ receipt'[e] = receipt[e]
                            \/ receipt[e] = "INTENT_CREATED"
      BY Zenon, <1>0, <2>0 DEF StorePrepared, TypeOK, ReceiptStatuses
    <2>7. TypeOK'
      BY Zenon, <1>0, <2>1, <2>2, <2>3, <2>4, <2>5, <2>6 DEF TypeOK
    <2>8. OneControl'
      BY <2>3, Facts DEF OneControl
    <2>9. ASSUME NEW e \in Ids PROVE DeletionOK(e)' /\ Forward(e)
      <3>1. /\ DeletionOK(e) /\ control[e] \in ControlPhases
            /\ e = d => intent[e].state # "NEW"
        BY Zenon, <1>2, Facts DEF HasIntent
      <3>2. ChainFollowsControl(e)' /\ TargetFollowsControl(e)' /\ ReceiptFollows(e)'
        BY <2>1, <2>3, <2>6, <3>1, ChainsDistinct, Zenon DEF DeletionOK, ChainFollowsControl,
           TargetFollowsControl, ReceiptFollows, ControlPhases
      <3>3. IntentFollows(e)' /\ Forward(e)
        BY <2>1, <2>3, <2>5, <3>1, ChainsDistinct, Zenon DEF DeletionOK, IntentFollows, Forward
      <3>4. AcksInChain(e)'
        <4>1. \A f \in Phases : InChain(ledger[e], f) => InChain(ledger'[e], f)
          BY <2>1, ChainPhases
        <4>2. acks[e] \subseteq Phases
          BY Zenon, <1>0 DEF TypeOK
        <4> QED
          BY Zenon, <2>1, <2>4, <3>1, <4>1, <4>2 DEF DeletionOK, AcksInChain, Has
      <3> QED
        BY Zenon, <3>2, <3>3, <3>4 DEF DeletionOK
    <2>10. StepOK(proc[p])'
      BY Zenon, <1>0, <2>1, <2>2 DEF StepOK
    <2> QED
      BY Zenon, <2>2, <2>7, <2>8, <2>9, <2>10, Writes DEF RowsOK
  <1> QED
    BY Zenon, <1>1, <1>2

\* The append survives a crash that loses the transaction.
LEMMA PrepareCrashOK ==
    ASSUME IInv, NEW p \in Procs, PrepareCrash(p)
    PROVE  IInv'
  <1> DEFINE d == proc[p].id
  <1>0. d \in Ids /\ TypeOK /\ "PREPARED" \in Phases
    BY AtStep DEF PrepareCrash, IInv, Phases
  <1>1. faults' \in 0 .. MaxFaults
    BY Zenon, <1>0, FaultBound DEF PrepareCrash
  <1>2. UNCHANGED <<target, intent, control, receipt, acks, holder>>
    BY Zenon DEF PrepareCrash, database
  <1>3. CASE ledger[d] = Unprepared
    <2>1. LedgerAppend(d, "PREPARED")
      BY Zenon, <1>3 DEF PrepareCrash, AppendPrepared
    <2>2. Appendable(d, "PREPARED")
      BY DEF PrepareCrash, HasIntent, Appendable
    <2>3. /\ proc' \in [Procs -> ProcState]
          /\ \A q \in Procs : q # p => proc'[q] = proc[q]
          /\ proc'[p].at = "idle"
      BY Zenon, <1>0 DEF PrepareCrash, Return, Idle, ProcState, Steps, TypeOK
    <2>4. StepOK(proc[p])'
      BY <2>3 DEF StepOK
    <2> QED
      BY Zenon, <1>0, <1>1, <1>2, <2>1, <2>2, <2>3, <2>4, AppendGoes
  <1>4. CASE ledger[d] # Unprepared
    <2>1. UNCHANGED rows
      BY Zenon, <1>2, <1>4 DEF PrepareCrash, AppendPrepared, rows
    <2>2. holder' \in [Ids -> Sweepers \cup {NULL}] /\ Return(p)
      BY Zenon, <1>0, <1>2 DEF TypeOK, PrepareCrash
    <2> QED
      BY Zenon, <1>1, <2>1, <2>2, Returns
  <1> QED
    BY Zenon, <1>3, <1>4

\* A process that goes on, as the invariant sees it.
LEMMA GoStep ==
    ASSUME TypeOK, NEW p \in Procs, NEW s \in Steps, Go(p, s)
    PROVE  /\ proc' \in [Procs -> ProcState]
           /\ \A q \in Procs : q # p => proc'[q] = proc[q]
           /\ proc'[p].at = s /\ proc'[p].id = proc[p].id
  BY Zenon DEF Go, ProcState, TypeOK

\* A process that returns, as the invariant sees it.
LEMMA ReturnStep ==
    ASSUME TypeOK, NEW p \in Procs, Return(p)
    PROVE  /\ proc' \in [Procs -> ProcState]
           /\ \A q \in Procs : q # p => proc'[q] = proc[q]
           /\ StepOK(proc[p])'
  <1>1. Idle \in ProcState /\ Idle.at = "idle"
    BY DEF Idle, ProcState, Steps
  <1>2. proc' = [proc EXCEPT ![p] = Idle]
    BY DEF Return
  <1> HIDE DEF Idle
  <1>3. /\ proc' \in [Procs -> ProcState]
        /\ \A q \in Procs : q # p => proc'[q] = proc[q]
        /\ proc'[p].at = "idle"
    BY Zenon, <1>1, <1>2 DEF TypeOK
  <1> QED
    BY <1>3 DEF StepOK

\* An acknowledgement is stored for an event that is in the chain.
LEMMA AckStep ==
    ASSUME IInv, NEW d \in Ids, NEW ph \in Phases, Has(d, ph),
           acks' = [acks EXCEPT ![d] = @ \cup {ph}], UNCHANGED ledger
    PROVE  /\ acks' \in [Ids -> SUBSET Phases]
           /\ \A e \in Ids : AcksInChain(e)'
  <1>1. acks \in [Ids -> SUBSET Phases]
    BY DEF IInv, TypeOK
  <1>2. ASSUME NEW e \in Ids PROVE AcksInChain(e)'
    <2>1. AcksInChain(e)
      BY Facts DEF DeletionOK
    <2>2. \A f \in acks'[e] : f \in acks[e] \/ (e = d /\ f = ph)
      BY Zenon, <1>1
    <2> QED
      BY Zenon, <2>1, <2>2 DEF AcksInChain, Has
  <1> QED
    BY Zenon, <1>1, <1>2

\* The fence of _fence_prepared, or the discovery that it is there already.
LEMMA FenceOK ==
    ASSUME IInv, NEW p \in Procs, Fence(p)
    PROVE  IInv'
  <1> DEFINE d == proc[p].id
  <1>0. /\ d \in Ids /\ TypeOK /\ "request" \in Steps /\ "PREPARED" \in Phases
        /\ ledger[d] # Unprepared
    BY Zenon, AtStep DEF Fence, IInv, StepOK, Steps, Phases
  <1>1. Has(d, "PREPARED")
    BY Zenon, <1>0, Facts, InChains DEF Has
  <1>2. CASE /\ HasIntent(d)
             /\ AtFence(d)
             /\ acks' = [acks EXCEPT ![d] = @ \cup {"PREPARED"}]
             /\ Go(p, "request")
             /\ UNCHANGED <<target, intent, control, receipt, holder, ledger, faults>>
    <2>1. acks' \in [Ids -> SUBSET Phases] /\ \A e \in Ids : AcksInChain(e)'
      BY <1>0, <1>1, <1>2, AckStep, Zenon
    <2>2. /\ proc' \in [Procs -> ProcState]
          /\ \A q \in Procs : q # p => proc'[q] = proc[q]
          /\ proc'[p].at = "request" /\ proc'[p].id = proc[p].id
      BY Zenon, <1>0, <1>2, GoStep
    <2>3. TypeOK'
      BY Zenon, <1>0, <1>2, <2>1, <2>2 DEF TypeOK
    <2>4. OneControl'
      BY Zenon, <1>2, Facts DEF OneControl
    <2>5. ASSUME NEW e \in Ids PROVE DeletionOK(e)' /\ Forward(e)
      <3>1. DeletionOK(e)
        BY Zenon, Facts
      <3> QED
        BY <1>2, <2>1, <3>1 DEF DeletionOK, ChainFollowsControl, TargetFollowsControl,
           IntentFollows, ReceiptFollows, Forward
    <2>6. StepOK(proc[p])'
      BY Zenon, <1>0, <1>2, <2>2 DEF StepOK, AtFence, HasControl
    <2> QED
      BY Zenon, <2>2, <2>3, <2>4, <2>5, <2>6, Writes DEF RowsOK
  <1>3. CASE /\ HasIntent(d)
             /\ ~HasControl(d)
             /\ Fenceable(d)
             /\ FenceRows(d)
             /\ Go(p, "request")
             /\ UNCHANGED <<ledger, faults>>
    <2>1. acks' \in [Ids -> SUBSET Phases] /\ \A e \in Ids : AcksInChain(e)'
      BY <1>0, <1>1, <1>3, AckStep, Zenon DEF FenceRows
    <2>2. /\ proc' \in [Procs -> ProcState]
          /\ \A q \in Procs : q # p => proc'[q] = proc[q]
          /\ proc'[p].at = "request" /\ proc'[p].id = proc[p].id
      BY Zenon, <1>0, <1>3, GoStep
    <2>3. \A e \in Ids : control[e] = "NONE"
      BY Zenon, <1>3, Facts DEF Fenceable, OneControl
    <2>4. ledger[d] = Unresolved
      BY Zenon, <1>0, <1>3, <2>3, Facts DEF Fenceable, DeletionOK, ChainFollowsControl, IntentFollows
    <2>5. /\ intent' \in [Ids -> Intent]
          /\ intent'[d].state = "CONSUMED"
          /\ \A e \in Ids : e # d => intent'[e] = intent[e]
      <3>1. /\ intent' = [intent EXCEPT ![d].state = "CONSUMED", ![d].acked = TRUE]
            /\ "CONSUMED" \in IntentStates
        BY Zenon, <1>3 DEF FenceRows, IntentStates
      <3> HIDE DEF d
      <3> QED
        BY <1>0, <3>1, IntentAcked, Zenon
    <2>6. /\ target'.state = "DELETION_PENDING_LEDGER" /\ target'.generation = 1
          /\ target' \in Target
      <3>1. intent[d].original = 0
        BY Zenon, <1>0, Facts DEF Intent
      <3> QED
        BY <1>3, <3>1 DEF FenceRows, Target
    <2>7. /\ control' = [control EXCEPT ![d] = "FENCE"]
          /\ receipt' = [receipt EXCEPT ![d] = "DELETION_PENDING_LEDGER"]
          /\ UNCHANGED <<holder, ledger, faults>>
      BY Zenon, <1>3 DEF FenceRows
    <2>8. /\ control' \in [Ids -> ControlPhases] /\ receipt' \in [Ids -> ReceiptStatuses]
          /\ control'[d] = "FENCE" /\ receipt'[d] = "DELETION_PENDING_LEDGER"
          /\ \A e \in Ids : e # d => control'[e] = "NONE" /\ receipt'[e] = receipt[e]
      BY Zenon, <1>0, <2>3, <2>7 DEF TypeOK, ControlPhases, ReceiptStatuses
    <2>9. TypeOK'
      BY Zenon, <1>0, <2>1, <2>2, <2>5, <2>6, <2>7, <2>8 DEF TypeOK
    <2>10. OneControl'
      BY Zenon, <1>0, <2>6, <2>8 DEF OneControl
    <2>11. ASSUME NEW e \in Ids PROVE DeletionOK(e)' /\ Forward(e)
      <3>1. DeletionOK(e) /\ intent[d].state \in {"INTENT_CREATED", "PREPARED"}
        BY <1>3, Facts, Zenon DEF Fenceable
      <3>2. CASE e = d
        BY <2>1, <2>3, <2>4, <2>5, <2>6, <2>7, <2>8, <3>1, <3>2, ChainsDistinct, ZenonT(30)
           DEF DeletionOK, ChainFollowsControl, TargetFollowsControl, IntentFollows,
               ReceiptFollows, Forward, SweepPhases
      <3>3. CASE e # d
        <4>1. /\ control[e] = "NONE" /\ control'[e] = "NONE"
              /\ intent'[e] = intent[e] /\ ledger'[e] = ledger[e]
          BY Zenon, <2>3, <2>5, <2>7, <2>8, <3>3
        <4>2. ChainFollowsControl(e)' /\ IntentFollows(e)'
          BY Zenon, <3>1, <4>1 DEF DeletionOK, ChainFollowsControl, IntentFollows
        <4>3. TargetFollowsControl(e)' /\ ReceiptFollows(e)'
          BY Zenon, <4>1 DEF TargetFollowsControl, ReceiptFollows, SweepPhases
        <4>4. Forward(e)
          BY Zenon, <4>1 DEF Forward
        <4> QED
          BY Zenon, <2>1, <4>2, <4>3, <4>4 DEF DeletionOK
      <3> QED
        BY <3>2, <3>3, Zenon
    <2>12. StepOK(proc[p])'
      BY Zenon, <1>0, <2>2, <2>8 DEF StepOK
    <2> QED
      BY <2>2, <2>9, <2>10, <2>11, <2>12, Writes DEF RowsOK
  <1>4. CASE Raise(p)
    BY <1>4, Raises
  <1> QED
    BY Zenon, <1>2, <1>3, <1>4 DEF Fence

=============================================================================
