--------------------------- MODULE JobQueueProofs ---------------------------
(***************************************************************************)
(* The inductive invariant of the job queue, for any sets of workers,       *)
(* clients and jobs, any budget and durations, and overlapping              *)
(* transactions, and the theorems that follow from it.                      *)
(*                                                                          *)
(* The argument: a transaction other than lease_next changes a row only in  *)
(* ways (Writes) that survive being merged into a row other transactions    *)
(* have changed meanwhile (Keeps), as long as the row it loaded was not of  *)
(* a later generation.  lease_next works on a row it has locked.            *)
(*                                                                          *)
(* When the transactions follow each other more holds.  The argument: an    *)
(* open transaction excludes all others, so the rows it loaded are the      *)
(* stored ones when it commits (SnapsFresh), and what it stores is what it  *)
(* computed, without a merge (lemma MergeFresh).                            *)
(***************************************************************************)
EXTENDS JobQueue, TLAPS

-----------------------------------------------------------------------------
(* Rows *)

\* The counters and the attempt rows of a row agree.
Accounted(r) ==
    /\ r.count = r.gen
    /\ \A g \in Generations : r.attempts[g] = "NONE" <=> g > r.gen

\* An import that claims success has its readings.
Backed(r) ==
    (r.state = "SUCCEEDED" \/ r.imported = "READY") /\ r.imported # "NONE" => r.draft # 0

\* What a transaction other than lease_next may want to change.
Writes(old, new) ==
    /\ new \in Row
    /\ new.gen = old.gen
    /\ new.count = old.count
    /\ \A g \in Generations : new.attempts[g] # old.attempts[g]
                                 => new.attempts[g] # "NONE" /\ g <= old.gen
    /\ old.cancel => new.cancel
    /\ new.expires # old.expires => new.expires = NULL
    /\ new.owner # old.owner => new.owner = NULL
    /\ new.imported = "NONE" <=> old.imported = "NONE"
    /\ new.draft # old.draft => new.draft # 0
    /\ new.state # old.state /\ new.state = "SUCCEEDED" /\ old.imported # "NONE"
          => new.draft # old.draft
    /\ new.imported # old.imported /\ new.imported = "READY" => new.draft # old.draft

\* What becomes of a row when such a transaction commits.
Keeps(cur, new) ==
    /\ new \in Row
    /\ new.gen = cur.gen
    /\ Accounted(new)
    /\ cur.cancel => new.cancel
    /\ new.expires # cur.expires => new.expires = NULL
    /\ new.owner # cur.owner => new.owner = NULL
    /\ new.imported = "NONE" <=> cur.imported = "NONE"
    /\ Backed(cur) => Backed(new)

\* A merge of columns keeps what the row it is merged into has.
LEMMA MergeKeeps ==
    ASSUME NEW cur \in Row, NEW old \in Row, NEW new, Writes(old, new),
           Accounted(cur), old.gen <= cur.gen,
           old.imported = "NONE" <=> cur.imported = "NONE"
    PROVE  Keeps(cur, Merge(cur, old, new))
<1> DEFINE m == Merge(cur, old, new)
<1>1. m \in Row
  BY Zenon DEF Merge, Row, Writes
<1>2. m.gen = cur.gen /\ m.count = cur.count
  BY Zenon DEF Merge, Writes
<1>3. ASSUME NEW g \in Generations
      PROVE  m.attempts[g] = "NONE" <=> g > m.gen
  BY <1>2, RowConstants DEF Merge, Writes, Accounted, Row, Generations
<1>4. Accounted(m)
  BY Zenon, <1>2, <1>3 DEF Accounted
<1>5. cur.cancel => m.cancel
  BY Zenon DEF Merge, Writes, Row
<1>6. /\ m.expires # cur.expires => m.expires = NULL
      /\ m.owner # cur.owner => m.owner = NULL
  BY Zenon DEF Merge, Writes
<1>7. m.imported = "NONE" <=> cur.imported = "NONE"
  BY Zenon DEF Merge, Writes
<1>8. Backed(cur) => Backed(m)
  BY Zenon DEF Merge, Writes, Backed
<1> QED
  BY Zenon, <1>1, <1>2, <1>4, <1>5, <1>6, <1>7, <1>8 DEF Keeps

\* A committed row that no transaction touches.
LEMMA SameKeeps ==
    ASSUME NEW cur \in Row, Accounted(cur)
    PROVE  Keeps(cur, cur)
  BY Zenon DEF Keeps

\* start
LEMMA StartedWrites ==
    ASSUME NEW r \in Row, NEW g \in Generations, g = r.gen
    PROVE  Writes(r, Started(r, g))
<1> DEFINE n == Started(r, g)
<1>1. n \in Row
  BY Zenon DEF Started, Row, JobStates, ActiveStates, AttemptStates
<1>2. \A h \in Generations :
         n.attempts[h] # r.attempts[h] => n.attempts[h] # "NONE" /\ h <= r.gen
  BY DEF Started, Row, Generations
<1>3. n = [r EXCEPT !.state = "RUNNING", !.attempts = n.attempts]
  BY Zenon DEF Started, Row
<1> QED
  BY Zenon, <1>1, <1>2, <1>3 DEF Writes, Row

\* publish_draft
LEMMA PublishedWrites ==
    ASSUME NEW r \in Row, NEW g \in Generations, g = r.gen,
           r.draft = 0, r.imported # "NONE"
    PROVE  Writes(r, Published(r, g))
<1> DEFINE n == Published(r, g)
<1>1. n \in Row
  BY Zenon DEF Published, Row, JobStates, TerminalStates, ImportStates, AttemptStates, Generations
<1>2. \A h \in Generations :
         n.attempts[h] # r.attempts[h] => n.attempts[h] # "NONE" /\ h <= r.gen
  BY DEF Published, Row, Generations
<1>3. /\ n.gen = r.gen /\ n.count = r.count /\ n.cancel = r.cancel
      /\ n.owner = r.owner /\ n.expires = r.expires
      /\ n.imported = "READY" /\ n.draft = g
  BY Zenon DEF Published, Row
<1> HIDE DEF n
<1>4. Writes(r, n)
  BY <1>1, <1>2, <1>3 DEF Writes, Row, Generations
<1> QED
  BY <1>4 DEF n

\* complete_system
LEMMA CompletedWrites ==
    ASSUME NEW r \in Row, NEW g \in Generations, g = r.gen, r.imported = "NONE"
    PROVE  Writes(r, Completed(r, g))
<1> DEFINE n == Completed(r, g)
<1>1. n \in Row
  BY Zenon DEF Completed, Release, Row, JobStates, TerminalStates, AttemptStates
<1>2. \A h \in Generations :
         n.attempts[h] # r.attempts[h] => n.attempts[h] # "NONE" /\ h <= r.gen
  BY DEF Completed, Release, Row, Generations
<1>3. n = [r EXCEPT !.state = "SUCCEEDED", !.owner = NULL, !.expires = NULL,
                    !.attempts = n.attempts]
  BY Zenon DEF Completed, Release, Row
<1> QED
  BY Zenon, <1>1, <1>2, <1>3 DEF Writes, Row

\* fail
LEMMA FailedWrites ==
    ASSUME NEW r \in Row, NEW g \in Generations, g = r.gen,
           NEW scopeOk \in BOOLEAN, NEW retryable \in BOOLEAN, NEW retryAt \in Nat
    PROVE  Writes(r, Failed(r, g, scopeOk, retryable, retryAt))
<1> DEFINE n == Failed(r, g, scopeOk, retryable, retryAt)
<1>1. n \in Row
  BY ZenonT(30) DEF Failed, Release, WithImport, Row, JobStates, TerminalStates, ImportStates, AttemptStates
<1>2. \A h \in Generations :
         n.attempts[h] # r.attempts[h] => n.attempts[h] # "NONE" /\ h <= r.gen
  BY DEF Failed, Release, WithImport, Row, Generations
<1>3. /\ n.gen = r.gen /\ n.count = r.count /\ n.cancel = r.cancel
      /\ n.owner = NULL /\ n.expires = NULL /\ n.draft = r.draft
      /\ n.state # "SUCCEEDED"
      /\ n.imported # r.imported => n.imported \in {"QUEUED", "FAILED"} /\ r.imported # "NONE"
  BY Zenon DEF Failed, Release, WithImport, Row
<1> HIDE DEF n
<1>4. Writes(r, n)
  BY Zenon, <1>1, <1>2, <1>3 DEF Writes, Row, Generations
<1> QED
  BY Zenon, <1>4 DEF n

\* rescue_expired
LEMMA RescuedWrites ==
    ASSUME NEW r \in Row, NEW scopeOk \in BOOLEAN, NEW t \in Nat
    PROVE  Writes(r, Rescued(r, scopeOk, t))
<1> DEFINE n == Rescued(r, scopeOk, t)
<1>1. n \in Row
  BY Zenon DEF Rescued, Release, WithImport, Row, JobStates, TerminalStates, ImportStates, AttemptStates
<1>2. \A h \in Generations :
         n.attempts[h] # r.attempts[h] => n.attempts[h] # "NONE" /\ h <= r.gen
  BY DEF Rescued, Release, WithImport, Row, Generations
<1>3. /\ n.gen = r.gen /\ n.count = r.count /\ n.cancel = r.cancel
      /\ n.owner = NULL /\ n.expires = NULL /\ n.draft = r.draft
      /\ n.state # "SUCCEEDED"
      /\ n.imported # r.imported => n.imported \in {"QUEUED", "FAILED"} /\ r.imported # "NONE"
  BY Zenon DEF Rescued, Release, WithImport, Row
<1> HIDE DEF n
<1>4. Writes(r, n)
  BY Zenon, <1>1, <1>2, <1>3 DEF Writes, Row, Generations
<1> QED
  BY Zenon, <1>4 DEF n

\* JobService.cancel
LEMMA CancelledWrites ==
    ASSUME NEW r \in Row
    PROVE  Writes(r, Cancelled(r))
  BY Zenon DEF Writes, Cancelled, WithImport, Row, JobStates, TerminalStates, ImportStates

\* _fence_dependent_work
LEMMA FencedWrites ==
    ASSUME NEW r \in Row
    PROVE  Writes(r, Fenced(r))
  BY Zenon DEF Writes, Fenced, Row, JobStates, TerminalStates

\* lease_next finishes a job it does not lease.
LEMMA FinishedKeeps ==
    ASSUME NEW r \in Row, NEW scopeOk \in BOOLEAN, Accounted(r)
    PROVE  Keeps(r, FinishedWithoutLease(r, scopeOk))
  BY Zenon DEF Keeps, Accounted, Backed, FinishedWithoutLease, Release, WithImport, Row, JobStates,
         TerminalStates, ImportStates

\* The backoff is a duration once an attempt was made.
LEMMA RetryDelaysNat ==
    ASSUME NEW n \in Nat \ {0}
    PROVE  RetryDelays(n) \subseteq Nat
<1> DEFINE base == RetryBase * Pow2[IF n < 8 THEN n ELSE 8]
<1>1. Pow2[IF n < 8 THEN n ELSE 8] \in Nat
  BY DEF Pow2
<1>2. base \in Nat
  BY <1>1, RowConstants
<1>3. RetryDelays(n) = {IF base + jitter < MaxRetryDelay THEN base + jitter ELSE MaxRetryDelay :
                           jitter \in 0..(base \div 4)}
  BY Zenon DEF RetryDelays
<1> HIDE DEF base
<1> QED
  BY <1>2, <1>3, RowConstants

-----------------------------------------------------------------------------
(* The inductive invariant *)

RowsOK ==
    \A j \in Jobs : /\ Accounted(job[j])
                    /\ Backed(job[j])
                    /\ job[j].imported = "NONE" <=> j \in SystemJobs

\* A row that a transaction loaded is not ahead of the stored one.
SnapsOK ==
    \A p \in Procs : \A j \in DOMAIN txn[p].snap :
       /\ Accounted(txn[p].snap[j])
       /\ txn[p].snap[j].gen <= job[j].gen
       /\ txn[p].snap[j].imported = "NONE" <=> j \in SystemJobs

\* A worker in the middle of a transaction on its lease has loaded that job.
TxnFollowsPC ==
    \A w \in Workers :
       /\ worker[w].pc \in {"starting", "publishing", "failing"}
             => DOMAIN txn[w].snap = {worker[w].job}
       /\ worker[w].pc = "publishing" /\ txn[w].op = "COMPLETE" => worker[w].job \in SystemJobs
       /\ worker[w].pc = "publishing" /\ txn[w].op = "PUBLISH" => worker[w].job \in ImportJobs

IInv == /\ TypeOK
        /\ RowsOK
        /\ SnapsOK
        /\ TxnFollowsPC
        /\ FencingTokensUnique
        /\ HolderNeverSeesExpiry

-----------------------------------------------------------------------------
(* Steps that hand out no lease *)

JobsKept == job' \in [Jobs -> Row] /\ \A j \in Jobs : Keeps(job[j], job'[j])

\* Whoever holds a lease after the step held it before.
WorkersKept ==
    \A w \in Workers : worker'[w].pc \in Holding =>
       /\ worker[w].pc \in Holding
       /\ worker'[w].job = worker[w].job
       /\ worker'[w].gen = worker[w].gen
       /\ worker'[w].now = worker[w].now

LEMMA UnchangedKept ==
    ASSUME TypeOK, RowsOK, UNCHANGED job
    PROVE  JobsKept
  BY Zenon, SameKeeps DEF TypeOK, RowsOK, JobsKept

LEMMA StoreKept ==
    ASSUME TypeOK, RowsOK, SnapsOK, NEW p \in Procs, NEW new,
           DOMAIN new \subseteq DOMAIN txn[p].snap,
           \A j \in DOMAIN new : Writes(txn[p].snap[j], new[j]),
           Store(p, new)
    PROVE  JobsKept
<1> DEFINE snap == txn[p].snap
<1>1. /\ job \in [Jobs -> Row]
      /\ DOMAIN snap \subseteq Jobs
      /\ \A j \in DOMAIN snap : snap[j] \in Row
  BY Zenon DEF TypeOK, TxnsOK, TxnOK
<1>2. job' = [j \in Jobs |-> IF j \in DOMAIN new THEN Merge(job[j], snap[j], new[j]) ELSE job[j]]
  BY Zenon DEF Store
<1>3. ASSUME NEW j \in Jobs
      PROVE  Keeps(job[j], job'[j])
  <2>1. CASE j \in DOMAIN new
    <3>1. /\ job[j] \in Row /\ snap[j] \in Row /\ Writes(snap[j], new[j])
          /\ Accounted(job[j]) /\ snap[j].gen <= job[j].gen
          /\ snap[j].imported = "NONE" <=> job[j].imported = "NONE"
      BY Zenon, <1>1, <2>1 DEF RowsOK, SnapsOK
    <3>2. Keeps(job[j], Merge(job[j], snap[j], new[j]))
      BY Zenon, <3>1, MergeKeeps
    <3> QED
      BY Zenon, <1>2, <2>1, <3>2
  <2>2. CASE j \notin DOMAIN new
    BY Zenon, <1>1, <1>2, <2>2, SameKeeps DEF RowsOK
  <2> QED
    BY Zenon, <2>1, <2>2
<1>4. job' \in [Jobs -> Row]
  BY Zenon, <1>2, <1>3 DEF Keeps
<1> QED
  BY Zenon, <1>3, <1>4 DEF JobsKept

LEMMA RowsKept ==
    ASSUME RowsOK, JobsKept
    PROVE  RowsOK'
  BY Zenon DEF RowsOK, JobsKept, Keeps

LEMMA HoldersKept ==
    ASSUME TypeOK, FencingTokensUnique, HolderNeverSeesExpiry, JobsKept, WorkersKept,
           worker' \in [Workers -> WorkerStates]
    PROVE  FencingTokensUnique' /\ HolderNeverSeesExpiry'
<1>1. \A w \in Workers : worker'[w].pc \in Holding =>
         /\ worker[w].pc \in Holding /\ worker[w].job \in Jobs
         /\ job'[worker[w].job].gen = job[worker[w].job].gen
  BY Zenon DEF TypeOK, WorkersOK, WorkersKept, JobsKept, Keeps
<1>2. FencingTokensUnique'
  BY <1>1 DEF FencingTokensUnique, WorkersKept
<1>3. ASSUME NEW w \in Workers, worker'[w].pc \in Holding,
             LeaseMatches(job'[worker'[w].job], w, worker'[w].gen),
             job'[worker'[w].job].expires # NULL
      PROVE  worker'[w].now < job'[worker'[w].job].expires
  <2> DEFINE j == worker[w].job
  <2>1. j \in Jobs /\ worker'[w].job = j /\ worker'[w].gen = worker[w].gen
        /\ worker'[w].now = worker[w].now /\ worker[w].pc \in Holding
    BY Zenon, <1>1, <1>3 DEF WorkersKept
  <2>2. Keeps(job[j], job'[j])
    BY Zenon, <2>1 DEF JobsKept
  <2>3. job'[j].expires = job[j].expires /\ job'[j].owner = job[j].owner /\ job'[j].gen = job[j].gen
    BY Zenon, <1>3, <2>1, <2>2, RowConstants DEF Keeps, LeaseMatches
  <2> QED
    BY Zenon, <1>3, <2>1, <2>3 DEF HolderNeverSeesExpiry, LeaseMatches
<1>4. HolderNeverSeesExpiry'
  BY Zenon, <1>3 DEF HolderNeverSeesExpiry
<1> QED
  BY Zenon, <1>2, <1>4

LEMMA BeginOK ==
    ASSUME TypeOK, RowsOK, SnapsOK, UNCHANGED job,
           NEW p \in Procs, NEW op \in Ops, NEW S \in SUBSET Jobs, NEW valid \in SUBSET Jobs,
           NEW target, op = "FENCE" => target \in Targets, NEW retryable \in BOOLEAN,
           Begin(p, Txn(op, S, valid, target, retryable))
    PROVE  /\ TxnsOK' /\ SnapsOK'
           /\ txn'[p].op = op /\ DOMAIN txn'[p].snap = S
           /\ \A q \in Procs \ {p} : txn'[q] = txn[q]
<1> DEFINE t == Txn(op, S, valid, target, retryable)
<1>1. /\ t.op = op /\ t.snap = [j \in S |-> job[j]] /\ t.valid = valid
      /\ t.target = target /\ t.retryable = retryable
  BY Zenon DEF Txn
<1>2. /\ txn' = [txn EXCEPT ![p] = t]
      /\ txn'[p] = t /\ \A q \in Procs \ {p} : txn'[q] = txn[q]
      /\ DOMAIN txn' = Procs
  BY Zenon DEF Begin, TypeOK, TxnsOK
<1> HIDE DEF t
<1>3. TxnOK(t)
  BY Zenon, <1>1 DEF TypeOK, TxnOK
<1>4. TxnsOK'
  BY <1>2, <1>3 DEF TypeOK, TxnsOK
<1>5. ASSUME NEW q \in Procs, NEW j \in DOMAIN txn'[q].snap
      PROVE  /\ Accounted(txn'[q].snap[j])
             /\ txn'[q].snap[j].gen <= job[j].gen
             /\ txn'[q].snap[j].imported = "NONE" <=> j \in SystemJobs
  <2>1. CASE q = p
    <3>1. j \in Jobs /\ txn'[q].snap[j] = job[j]
      BY Zenon, <1>1, <1>2, <1>5, <2>1
    <3>2. job[j].gen \in Nat
      BY <3>1 DEF TypeOK, Row
    <3> QED
      BY <3>1, <3>2 DEF RowsOK
  <2>2. CASE q # p
    BY Zenon, <1>2, <1>5, <2>2 DEF SnapsOK
  <2> QED
    BY Zenon, <2>1, <2>2
<1>6. SnapsOK'
  BY Zenon, <1>5 DEF SnapsOK
<1> QED
  BY Zenon, <1>1, <1>2, <1>4, <1>6

LEMMA SnapsKept ==
    ASSUME TypeOK, SnapsOK, JobsKept, NEW q \in Procs, NEW j \in DOMAIN txn[q].snap
    PROVE  txn[q].snap[j].gen <= job'[j].gen
  BY Zenon DEF TypeOK, TxnsOK, TxnOK, SnapsOK, JobsKept, Keeps

LEMMA CloseOK ==
    ASSUME TypeOK, SnapsOK, JobsKept, NEW p \in Procs, Close(p)
    PROVE  /\ TxnsOK' /\ SnapsOK'
           /\ \A q \in Procs \ {p} : txn'[q] = txn[q]
<1>1. /\ txn'[p] = NoTxn /\ \A q \in Procs \ {p} : txn'[q] = txn[q]
      /\ txn' = [q \in Procs |-> txn'[q]]
  BY Zenon DEF Close, TypeOK, TxnsOK
<1>2. DOMAIN NoTxn.snap = {} /\ TxnOK(NoTxn)
  BY DEF NoTxn, TxnOK
<1>3. TxnsOK'
  BY Zenon, <1>1, <1>2 DEF TypeOK, TxnsOK
<1>4. SnapsOK'
  BY <1>1, <1>2, SnapsKept DEF SnapsOK
<1> QED
  BY Zenon, <1>1, <1>3, <1>4

LEMMA SameTxnOK ==
    ASSUME TypeOK, SnapsOK, JobsKept, UNCHANGED txn
    PROVE  TxnsOK' /\ SnapsOK'
  BY Zenon, SnapsKept DEF TypeOK, TxnsOK, SnapsOK

LEMMA GotoOK ==
    ASSUME TypeOK, NEW w \in Workers, NEW pc \in PCs,
           pc \in Holding => worker[w].pc \in Holding, Goto(w, pc)
    PROVE  /\ WorkersOK' /\ WorkersKept
           /\ worker'[w].pc = pc /\ worker'[w].job = worker[w].job
           /\ \A v \in Workers \ {w} : worker'[v] = worker[v]
  BY Zenon DEF TypeOK, WorkersOK, WorkersKept, WorkerStates, Goto

LEMMA ReturnOK ==
    ASSUME TypeOK, NEW w \in Workers, Return(w)
    PROVE  /\ WorkersOK' /\ WorkersKept
           /\ worker'[w].pc = "idle"
           /\ \A v \in Workers \ {w} : worker'[v] = worker[v]
<1>1. Idle \in WorkerStates /\ Idle.pc = "idle" /\ "idle" \notin Holding
  BY RowConstants DEF Idle, WorkerStates, PCs, Holding
<1> QED
  BY Zenon, <1>1 DEF TypeOK, WorkersOK, WorkersKept, Return

\* A cancelled job stays cancelled and is not leased.
CancelKept ==
    \A j \in Jobs : job[j].cancel => job'[j].cancel /\ job'[j].gen = job[j].gen

StepOK == IInv' /\ CancelKept

LEMMA KeptOK ==
    ASSUME IInv, JobsKept, WorkersKept, WorkersOK', TxnsOK', SnapsOK', TxnFollowsPC',
           now' \in Nat, fenced' \subseteq Targets, crashes' \in 0..MaxCrashes
    PROVE  StepOK
<1>1. RowsOK'
  BY Zenon, RowsKept DEF IInv
<1>2. FencingTokensUnique' /\ HolderNeverSeesExpiry'
  BY Zenon, HoldersKept DEF IInv, WorkersOK
<1>3. TypeOK'
  BY Zenon DEF TypeOK, JobsKept
<1>4. CancelKept
  BY Zenon DEF JobsKept, Keeps, CancelKept
<1> QED
  BY Zenon, <1>1, <1>2, <1>3, <1>4 DEF IInv, StepOK

-----------------------------------------------------------------------------
(* One lemma per action *)

LEMMA InitOK ==
    ASSUME Init
    PROVE  IInv
<1>1. \A i \in ImportStates : NewRow(i) \in Row /\ Accounted(NewRow(i)) /\ NewRow(i).imported = i
                             /\ (i # "READY" => Backed(NewRow(i)))
  BY RowConstants DEF NewRow, Row, JobStates, ImportStates, AttemptStates, Generations,
                      Accounted, Backed
<1>2. /\ "QUEUED" \in ImportStates /\ "NONE" \in ImportStates
  BY Zenon DEF ImportStates
<1>3. job \in [Jobs -> Row] /\ RowsOK
  BY Zenon, <1>1, <1>2, QueueConstants DEF Init, RowsOK, Jobs
<1>4. /\ \A w \in Workers : worker[w] = Idle
      /\ Idle \in WorkerStates /\ Idle.pc = "idle" /\ "idle" \notin Holding
      /\ worker \in [Workers -> WorkerStates]
  BY RowConstants DEF Init, Idle, WorkerStates, PCs, Holding
<1>5. /\ txn = [p \in Procs |-> NoTxn]
      /\ DOMAIN NoTxn.snap = {} /\ TxnOK(NoTxn)
  BY DEF Init, NoTxn, TxnOK
<1>6. TypeOK
  BY <1>3, <1>4, <1>5, QueueConstants DEF Init, TypeOK, WorkersOK, TxnsOK
<1>7. SnapsOK
  BY Zenon, <1>5 DEF SnapsOK
<1>8. TxnFollowsPC /\ FencingTokensUnique /\ HolderNeverSeesExpiry
  BY Zenon, <1>4 DEF TxnFollowsPC, FencingTokensUnique, HolderNeverSeesExpiry
<1> QED
  BY Zenon, <1>3, <1>6, <1>7, <1>8 DEF IInv

LEMMA PollOK ==
    ASSUME IInv, NEW w \in Workers, NEW kind \in {ImportJobs, SystemJobs}, Poll(w, kind)
    PROVE  StepOK
<1> DEFINE S == {j \in Jobs : Expired(job[j], now)}
           pc == IF S = {} THEN "lease" ELSE "rescue"
           x == [pc |-> pc, now |-> now, kind |-> kind, job |-> NULL, gen |-> 0]
<1>1. JobsKept
  BY Zenon, UnchangedKept DEF Poll, IInv
<1>2. x \in WorkerStates /\ x.pc \notin Holding /\ x.pc \in {"lease", "rescue"}
  <2>1. now \in Nat /\ kind \in SUBSET Jobs
    BY Zenon DEF IInv, TypeOK, Jobs
  <2>2. pc \in {"lease", "rescue"}
    OBVIOUS
  <2> HIDE DEF pc
  <2> QED
    BY <2>1, <2>2, RowConstants DEF WorkerStates, PCs, Holding
<1>3. worker' = [worker EXCEPT ![w] = x]
  BY Zenon DEF Poll
<1> HIDE DEF x
<1>4. WorkersOK' /\ WorkersKept
  BY Zenon, <1>2, <1>3 DEF IInv, TypeOK, WorkersOK, WorkersKept
<1>5. /\ TxnsOK' /\ SnapsOK' /\ \A q \in Procs \ {w} : txn'[q] = txn[q]
  <2>1. CASE S = {}
    BY Zenon, <1>1, <2>1, SameTxnOK DEF IInv, Poll
  <2>2. CASE S # {}
    <3>1. S \in SUBSET Jobs /\ {j \in S : ScopeValid(j)} \in SUBSET Jobs
          /\ w \in Procs /\ "RESCUE" \in Ops
      BY Zenon DEF Procs, Ops
    <3>2. UNCHANGED job /\ Begin(w, Txn("RESCUE", S, {j \in S : ScopeValid(j)}, NULL, FALSE))
      BY Zenon, <2>2 DEF Poll
    <3> HIDE DEF S
    <3> QED
      BY Zenon, <3>1, <3>2, BeginOK DEF IInv
  <2> QED
    BY Zenon, <2>1, <2>2
<1>6. TxnFollowsPC'
  BY Zenon, <1>2, <1>3, <1>5 DEF IInv, TypeOK, WorkersOK, TxnFollowsPC, Procs
<1> QED
  BY Zenon, <1>1, <1>4, <1>5, <1>6, KeptOK DEF Poll, IInv, TypeOK

\* A worker begins a transaction on the job it holds.
LEMMA BeginOnLeaseOK ==
    ASSUME IInv, NEW w \in Workers, worker[w].pc \in Holding,
           NEW op \in Ops \ {"FENCE"}, NEW valid \in SUBSET Jobs, NEW retryable \in BOOLEAN,
           NEW pc \in {"starting", "publishing", "failing"},
           BeginOnLease(w, op, valid, retryable), Goto(w, pc),
           pc = "publishing" /\ op = "COMPLETE" => worker[w].job \in SystemJobs,
           pc = "publishing" /\ op = "PUBLISH" => worker[w].job \in ImportJobs,
           UNCHANGED <<now, job, fenced, crashes>>
    PROVE  StepOK
<1> DEFINE j == worker[w].job
<1>1. JobsKept
  BY Zenon, UnchangedKept DEF IInv
<1>2. /\ WorkersOK' /\ WorkersKept
      /\ worker'[w].pc = pc /\ worker'[w].job = j
      /\ \A v \in Workers \ {w} : worker'[v] = worker[v]
  <2>1. pc \in PCs
    BY Zenon DEF PCs
  <2> QED
    BY Zenon, <2>1, GotoOK DEF IInv
<1>3. /\ TxnsOK' /\ SnapsOK' /\ txn'[w].op = op /\ DOMAIN txn'[w].snap = {j}
      /\ \A q \in Procs \ {w} : txn'[q] = txn[q]
  <2>1. {j} \in SUBSET Jobs /\ {j} \cap valid \in SUBSET Jobs /\ w \in Procs
    BY Zenon DEF IInv, TypeOK, WorkersOK, Procs
  <2>2. Begin(w, Txn(op, {j}, {j} \cap valid, NULL, retryable))
    BY Zenon DEF BeginOnLease
  <2> HIDE DEF j
  <2> QED
    BY Zenon, <2>1, <2>2, BeginOK DEF IInv
<1>4. TxnFollowsPC'
  BY Zenon, <1>2, <1>3 DEF IInv, TxnFollowsPC, Procs
<1> QED
  BY <1>1, <1>2, <1>3, <1>4, KeptOK DEF IInv, TypeOK

\* A worker ends a transaction.
LEMMA EndOK ==
    ASSUME IInv, NEW w \in Workers, NEW pc \in {"lease", "running", "stale"},
           pc # "lease" => worker[w].pc \in Holding,
           Goto(w, pc) \/ Return(w),
           JobsKept, Close(w), UNCHANGED <<now, fenced, crashes>>
    PROVE  StepOK
<1>1. /\ WorkersOK' /\ WorkersKept
      /\ worker'[w].pc \in {"lease", "running", "stale", "idle"}
      /\ \A v \in Workers \ {w} : worker'[v] = worker[v]
  <2>1. pc \in PCs /\ (pc \in Holding => pc # "lease")
    BY Zenon DEF PCs, Holding
  <2>2. CASE Goto(w, pc)
    BY Zenon, <2>1, <2>2, GotoOK DEF IInv
  <2>3. CASE Return(w)
    BY Zenon, <2>3, ReturnOK DEF IInv
  <2> QED
    BY Zenon, <2>2, <2>3
<1>2. TxnsOK' /\ SnapsOK' /\ \A q \in Procs \ {w} : txn'[q] = txn[q]
  BY Zenon, CloseOK DEF IInv, Procs
<1>3. TxnFollowsPC'
  BY Zenon, <1>1, <1>2 DEF IInv, TxnFollowsPC, Procs
<1> QED
  BY Zenon, <1>1, <1>2, <1>3, KeptOK DEF IInv, TypeOK

LEMMA SnapOnLease ==
    ASSUME IInv, NEW w \in Workers, worker[w].pc \in {"starting", "publishing", "failing"}
    PROVE  /\ worker[w].pc \in Holding
           /\ worker[w].job \in Jobs
           /\ worker[w].gen \in Generations
           /\ DOMAIN txn[w].snap = {worker[w].job}
           /\ txn[w].snap[worker[w].job] \in Row
           /\ Accounted(txn[w].snap[worker[w].job])
           /\ txn[w].snap[worker[w].job].imported = "NONE" <=> worker[w].job \in SystemJobs
<1>1. worker[w].pc \in Holding /\ DOMAIN txn[w].snap = {worker[w].job} /\ w \in Procs
  BY Zenon DEF IInv, TxnFollowsPC, Holding, Procs
<1>2. worker[w].job \in Jobs /\ worker[w].gen \in Generations
  BY <1>1, RowConstants DEF IInv, TypeOK, WorkersOK, WorkerStates, Generations
<1> QED
  BY Zenon, <1>1, <1>2 DEF IInv, TypeOK, TxnsOK, TxnOK, SnapsOK

LEMMA StoreOnLease ==
    ASSUME IInv, NEW w \in Workers, worker[w].pc \in {"starting", "publishing", "failing"},
           NEW n, Writes(txn[w].snap[worker[w].job], n), Store(w, [k \in {worker[w].job} |-> n])
    PROVE  JobsKept
<1> DEFINE new == [k \in {worker[w].job} |-> n]
<1>1. /\ w \in Procs
      /\ DOMAIN new \subseteq DOMAIN txn[w].snap
      /\ \A k \in DOMAIN new : Writes(txn[w].snap[k], new[k])
  BY Zenon, SnapOnLease DEF Procs
<1>2. Store(w, new)
  OBVIOUS
<1> HIDE DEF new
<1> QED
  BY Zenon, <1>1, <1>2, StoreKept DEF IInv

-----------------------------------------------------------------------------
(* The commits *)

LEMMA RescueCommitOK ==
    ASSUME IInv, NEW w \in Workers, RescueCommit(w)
    PROVE  StepOK
<1> DEFINE snap == txn[w].snap
<1>1. PICK V : Store(w, [j \in DOMAIN snap |-> Rescued(snap[j], j \in V, worker[w].now)])
  BY Zenon DEF RescueCommit
<1> DEFINE new == [j \in DOMAIN snap |-> Rescued(snap[j], j \in V, worker[w].now)]
<1>2. worker[w].now \in Nat /\ w \in Procs /\ \A j \in DOMAIN snap : snap[j] \in Row
  BY Zenon DEF IInv, TypeOK, WorkersOK, WorkerStates, TxnsOK, TxnOK, Procs
<1>3. ASSUME NEW j \in DOMAIN new
      PROVE  Writes(snap[j], new[j])
  <2> DEFINE ok == j \in V
  <2>1. ok \in BOOLEAN /\ snap[j] \in Row
    BY <1>2
  <2>2. new[j] = Rescued(snap[j], ok, worker[w].now)
    OBVIOUS
  <2> HIDE DEF ok, new
  <2> QED
    BY Zenon, <1>2, <2>1, <2>2, RescuedWrites
<1>4. JobsKept
  <2>1. Store(w, new) /\ DOMAIN new \subseteq DOMAIN snap
    BY Zenon, <1>1
  <2> HIDE DEF new
  <2> QED
    BY Zenon, <1>2, <1>3, <2>1, StoreKept DEF IInv
<1> QED
  BY Zenon, <1>4, EndOK DEF RescueCommit

LEMMA StartCommitOK ==
    ASSUME IInv, NEW w \in Workers, StartCommit(w)
    PROVE  StepOK
<1> DEFINE j == worker[w].job
           g == worker[w].gen
           r == txn[w].snap[j]
<1>1. worker[w].pc = "starting" /\ Close(w) /\ UNCHANGED <<now, fenced, crashes>>
  BY Zenon DEF StartCommit
<1>2. \/ LeaseMatches(r, w, g) /\ Store(w, [k \in {j} |-> Started(r, g)]) /\ Goto(w, "running")
      \/ UNCHANGED job /\ Return(w)
  BY Zenon DEF StartCommit, FenceHolds
<1>3. worker[w].pc \in Holding /\ r \in Row /\ g \in Generations
  BY Zenon, <1>1, SnapOnLease
<1>4. CASE LeaseMatches(r, w, g) /\ Store(w, [k \in {j} |-> Started(r, g)]) /\ Goto(w, "running")
  <2>1. Writes(r, Started(r, g))
    BY Zenon, <1>3, <1>4, StartedWrites DEF LeaseMatches
  <2>2. JobsKept
    BY Zenon, <1>1, <1>4, <2>1, StoreOnLease
  <2> QED
    BY Zenon, <1>1, <1>3, <1>4, <2>2, EndOK
<1>5. CASE UNCHANGED job /\ Return(w)
  BY Zenon, <1>1, <1>5, UnchangedKept, EndOK DEF IInv
<1> QED
  BY Zenon, <1>2, <1>4, <1>5

LEMMA PublishCommitOK ==
    ASSUME IInv, NEW w \in Workers, PublishCommit(w)
    PROVE  StepOK
<1> DEFINE j == worker[w].job
           g == worker[w].gen
           r == txn[w].snap[j]
<1>1. /\ worker[w].pc = "publishing" /\ txn[w].op = "PUBLISH"
      /\ Close(w) /\ Return(w) /\ UNCHANGED <<now, fenced, crashes>>
  BY Zenon DEF PublishCommit
<1>2. \/ LeaseMatches(r, w, g) /\ r.draft = 0 /\ Store(w, [k \in {j} |-> Published(r, g)])
      \/ UNCHANGED job
  BY Zenon DEF PublishCommit, Publishable
<1>3. /\ worker[w].pc \in Holding /\ r \in Row /\ g \in Generations
      /\ r.imported # "NONE"
  BY Zenon, <1>1, SnapOnLease, QueueConstants DEF IInv, TxnFollowsPC
<1>4. CASE LeaseMatches(r, w, g) /\ r.draft = 0 /\ Store(w, [k \in {j} |-> Published(r, g)])
  <2>1. Writes(r, Published(r, g))
    BY Zenon, <1>3, <1>4, PublishedWrites DEF LeaseMatches
  <2>2. JobsKept
    BY Zenon, <1>1, <1>4, <2>1, StoreOnLease
  <2> QED
    BY Zenon, <1>1, <1>3, <2>2, EndOK
<1>5. CASE UNCHANGED job
  BY Zenon, <1>1, <1>3, <1>5, UnchangedKept, EndOK DEF IInv
<1> QED
  BY Zenon, <1>2, <1>4, <1>5

LEMMA CompleteCommitOK ==
    ASSUME IInv, NEW w \in Workers, CompleteCommit(w)
    PROVE  StepOK
<1> DEFINE j == worker[w].job
           g == worker[w].gen
           r == txn[w].snap[j]
<1>1. /\ worker[w].pc = "publishing" /\ txn[w].op = "COMPLETE"
      /\ Close(w) /\ UNCHANGED <<now, fenced, crashes>>
  BY Zenon DEF CompleteCommit
<1>2. \/ LeaseMatches(r, w, g) /\ Store(w, [k \in {j} |-> Completed(r, g)]) /\ Return(w)
      \/ UNCHANGED job /\ Goto(w, "stale")
  BY Zenon DEF CompleteCommit, FenceHolds
<1>3. /\ worker[w].pc \in Holding /\ r \in Row /\ g \in Generations
      /\ r.imported = "NONE"
  BY Zenon, <1>1, SnapOnLease DEF IInv, TxnFollowsPC
<1>4. CASE LeaseMatches(r, w, g) /\ Store(w, [k \in {j} |-> Completed(r, g)]) /\ Return(w)
  <2>1. Writes(r, Completed(r, g))
    BY Zenon, <1>3, <1>4, CompletedWrites DEF LeaseMatches
  <2>2. JobsKept
    BY Zenon, <1>1, <1>4, <2>1, StoreOnLease
  <2> QED
    BY Zenon, <1>1, <1>3, <1>4, <2>2, EndOK
<1>5. CASE UNCHANGED job /\ Goto(w, "stale")
  BY Zenon, <1>1, <1>3, <1>5, UnchangedKept, EndOK DEF IInv
<1> QED
  BY Zenon, <1>2, <1>4, <1>5

LEMMA FailCommitOK ==
    ASSUME IInv, NEW w \in Workers, FailCommit(w)
    PROVE  StepOK
<1> DEFINE j == worker[w].job
           g == worker[w].gen
           r == txn[w].snap[j]
           F(ok, delay) == Failed(r, g, ok, txn[w].retryable, worker[w].now + delay)
<1>1. /\ worker[w].pc = "failing"
      /\ Close(w) /\ Return(w) /\ UNCHANGED <<now, fenced, crashes>>
  BY Zenon DEF FailCommit
<1>2. /\ worker[w].pc \in Holding /\ r \in Row /\ g \in Generations /\ Accounted(r)
      /\ txn[w].retryable \in BOOLEAN /\ worker[w].now \in Nat
  BY Zenon, <1>1, SnapOnLease DEF IInv, TypeOK, WorkersOK, WorkerStates, TxnsOK, TxnOK, Procs
<1>3. \/ /\ LeaseMatches(r, w, g)
         /\ \E V \in ScopesSeen(w, {k \in Jobs : ScopeValid(k)}), delay \in RetryDelays(r.count) :
               Store(w, [k \in {j} |-> F(j \in V, delay)])
      \/ UNCHANGED job
  BY Zenon DEF FailCommit
<1>4. ASSUME LeaseMatches(r, w, g),
             NEW V \in ScopesSeen(w, {k \in Jobs : ScopeValid(k)}), NEW delay \in RetryDelays(r.count),
             Store(w, [k \in {j} |-> F(j \in V, delay)])
      PROVE  StepOK
  <2> DEFINE ok == j \in V
  <2>1. r.count \in Nat \ {0}
    <3>1. r.count = g
      BY Zenon, <1>2, <1>4 DEF LeaseMatches, Accounted
    <3> QED
      BY <1>2, <3>1, RowConstants DEF Generations
  <2>2. worker[w].now + delay \in Nat /\ ok \in BOOLEAN /\ g = r.gen
    <3>1. delay \in Nat
      BY Zenon, <1>4, <2>1, RetryDelaysNat
    <3>2. g = r.gen
      BY Zenon, <1>4 DEF LeaseMatches
    <3> QED
      BY <1>2, <3>1, <3>2
  <2>3. Store(w, [k \in {j} |-> F(ok, delay)])
    BY Zenon, <1>4
  <2> HIDE DEF ok
  <2>4. Writes(r, F(ok, delay))
    BY Zenon, <1>2, <2>2, FailedWrites
  <2>5. JobsKept
    <3> DEFINE n == F(ok, delay)
    <3>1. Store(w, [k \in {j} |-> n]) /\ Writes(r, n)
      BY Zenon, <2>3, <2>4
    <3> HIDE DEF n
    <3> QED
      BY Zenon, <1>1, <3>1, StoreOnLease
  <2> QED
    BY Zenon, <1>1, <1>2, <2>5, EndOK
<1>5. CASE UNCHANGED job
  BY Zenon, <1>1, <1>2, <1>5, UnchangedKept, EndOK DEF IInv
<1> QED
  BY Zenon, <1>3, <1>4, <1>5

\* A client begins a transaction.
LEMMA ClientBeginOK ==
    ASSUME IInv, NEW c \in Clients, NEW op \in Ops, NEW S \in SUBSET Jobs,
           NEW target, op = "FENCE" => target \in Targets,
           Begin(c, Txn(op, S, {}, target, FALSE)),
           UNCHANGED <<now, job, fenced, worker, crashes>>
    PROVE  StepOK
<1>1. JobsKept
  BY Zenon, UnchangedKept DEF IInv
<1>2. WorkersOK' /\ WorkersKept
  BY Zenon DEF IInv, TypeOK, WorkersOK, WorkersKept
<1>3. TxnsOK' /\ SnapsOK' /\ \A q \in Procs \ {c} : txn'[q] = txn[q]
  <2>1. c \in Procs /\ {} \in SUBSET Jobs /\ FALSE \in BOOLEAN
    BY Zenon DEF Procs
  <2> QED
    BY Zenon, <2>1, BeginOK DEF IInv
<1>4. TxnFollowsPC'
  BY Zenon, <1>3, QueueConstants DEF IInv, TxnFollowsPC, Procs
<1> QED
  BY Zenon, <1>1, <1>2, <1>3, <1>4, KeptOK DEF IInv, TypeOK

\* A client ends a transaction.
LEMMA ClientEndOK ==
    ASSUME IInv, NEW c \in Clients, JobsKept, Close(c),
           UNCHANGED <<now, worker>>, fenced' \subseteq Targets, crashes' \in 0..MaxCrashes
    PROVE  StepOK
<1>1. WorkersOK' /\ WorkersKept
  BY Zenon DEF IInv, TypeOK, WorkersOK, WorkersKept
<1>2. TxnsOK' /\ SnapsOK' /\ \A q \in Procs \ {c} : txn'[q] = txn[q]
  BY Zenon, CloseOK DEF IInv, Procs
<1>3. TxnFollowsPC'
  BY Zenon, <1>2, QueueConstants DEF IInv, TxnFollowsPC, Procs
<1> QED
  BY Zenon, <1>1, <1>2, <1>3, KeptOK DEF IInv, TypeOK

LEMMA CancelCommitOK ==
    ASSUME IInv, NEW c \in Clients, CancelCommit(c)
    PROVE  StepOK
<1> DEFINE snap == txn[c].snap
           new == [j \in DOMAIN snap |-> Cancelled(snap[j])]
<1>1. c \in Procs /\ \A j \in DOMAIN snap : snap[j] \in Row
  BY Zenon DEF IInv, TypeOK, TxnsOK, TxnOK, Procs
<1>2. /\ DOMAIN new \subseteq DOMAIN snap /\ Store(c, new)
      /\ \A j \in DOMAIN new : Writes(snap[j], new[j])
  BY Zenon, <1>1, CancelledWrites DEF CancelCommit
<1> HIDE DEF new
<1>3. JobsKept
  BY Zenon, <1>1, <1>2, StoreKept DEF IInv
<1> QED
  BY Zenon, <1>3, ClientEndOK DEF CancelCommit, IInv, TypeOK

LEMMA FenceCommitOK ==
    ASSUME IInv, NEW c \in Clients, FenceCommit(c)
    PROVE  StepOK
<1> DEFINE snap == txn[c].snap
           new == [j \in DOMAIN snap |-> Fenced(snap[j])]
<1>1. c \in Procs /\ \A j \in DOMAIN snap : snap[j] \in Row
  BY Zenon DEF IInv, TypeOK, TxnsOK, TxnOK, Procs
<1>2. /\ DOMAIN new \subseteq DOMAIN snap /\ Store(c, new)
      /\ \A j \in DOMAIN new : Writes(snap[j], new[j])
  BY Zenon, <1>1, FencedWrites DEF FenceCommit
<1> HIDE DEF new
<1>3. JobsKept
  BY Zenon, <1>1, <1>2, StoreKept DEF IInv
<1>4. fenced' \subseteq Targets
  BY Zenon, <1>1 DEF FenceCommit, IInv, TypeOK, TxnsOK, TxnOK
<1> QED
  BY Zenon, <1>3, <1>4, ClientEndOK DEF FenceCommit, IInv, TypeOK

LEMMA CrashOK ==
    ASSUME IInv
    PROVE  /\ \A w \in Workers : WorkerCrash(w) => StepOK
           /\ \A c \in Clients : ClientCrash(c) => StepOK
<1>1. ASSUME NEW w \in Workers, WorkerCrash(w)
      PROVE  StepOK
  <2>1. JobsKept /\ crashes' \in 0..MaxCrashes
    BY <1>1, UnchangedKept, QueueConstants DEF WorkerCrash, IInv, TypeOK
  <2>2. /\ WorkersOK' /\ WorkersKept /\ worker'[w].pc = "idle"
        /\ \A v \in Workers \ {w} : worker'[v] = worker[v]
    BY Zenon, <1>1, ReturnOK DEF WorkerCrash, IInv
  <2>3. TxnsOK' /\ SnapsOK' /\ \A q \in Procs \ {w} : txn'[q] = txn[q]
    BY Zenon, <1>1, <2>1, CloseOK DEF WorkerCrash, IInv, Procs
  <2>4. TxnFollowsPC'
    BY Zenon, <2>2, <2>3 DEF IInv, TxnFollowsPC, Procs
  <2> QED
    BY Zenon, <1>1, <2>1, <2>2, <2>3, <2>4, KeptOK DEF WorkerCrash, IInv, TypeOK
<1>2. ASSUME NEW c \in Clients, ClientCrash(c)
      PROVE  StepOK
  <2>1. JobsKept /\ crashes' \in 0..MaxCrashes /\ fenced' \subseteq Targets
    BY <1>2, UnchangedKept, QueueConstants DEF ClientCrash, IInv, TypeOK
  <2> QED
    BY Zenon, <1>2, <2>1, ClientEndOK DEF ClientCrash
<1> QED
  BY Zenon, <1>1, <1>2

LEMMA TickOK ==
    ASSUME IInv, Tick
    PROVE  StepOK
<1>1. JobsKept
  BY Zenon, UnchangedKept DEF IInv, Tick
<1>2. TxnsOK' /\ SnapsOK'
  BY Zenon, <1>1, SameTxnOK DEF IInv, Tick
<1>3. WorkersOK' /\ WorkersKept /\ TxnFollowsPC'
  BY DEF IInv, TypeOK, WorkersOK, WorkersKept, TxnFollowsPC, Tick
<1> QED
  BY <1>1, <1>2, <1>3, KeptOK DEF IInv, TypeOK, Tick

-----------------------------------------------------------------------------
(* The step that hands out a lease *)

LEMMA LeasedRow ==
    ASSUME NEW r \in Row, NEW w \in Workers, NEW t \in Nat, Accounted(r), BudgetLeft(r)
    PROVE  LET n == Leased(r, w, t)
           IN  /\ n \in Row
               /\ Accounted(n)
               /\ Backed(r) => Backed(n)
               /\ n.gen = r.gen + 1
               /\ n.cancel = r.cancel
               /\ n.owner = w
               /\ n.expires = t + LeaseDuration
               /\ n.imported = "NONE" <=> r.imported = "NONE"
<1> DEFINE n == Leased(r, w, t)
<1>0. r.gen \in Nat /\ r.gen + 1 \in Generations /\ r.count = r.gen
  BY RowConstants DEF Accounted, BudgetLeft, Row, Generations
<1>1. n \in Row
  <2> DEFINE a == [r.attempts EXCEPT ![r.gen + 1] = "LEASED"]
             g == r.gen + 1
             c == r.count + 1
             e == t + LeaseDuration
             i == IF r.imported = "NONE" THEN "NONE" ELSE "PROCESSING"
  <2>1. /\ a \in [Generations -> AttemptStates] /\ i \in ImportStates /\ "LEASED" \in JobStates
        /\ g \in 0..MaxAttempts /\ c \in 0..MaxAttempts /\ e \in Nat
    BY <1>0, RowConstants DEF Row, AttemptStates, ImportStates, JobStates, ActiveStates, Generations
  <2>2. n = [r EXCEPT !.state = "LEASED", !.owner = w, !.gen = g, !.count = c, !.expires = e,
                      !.attempts = a, !.imported = i]
    BY Zenon DEF Leased, WithImport, Row
  <2> HIDE DEF a, g, c, e, i
  <2> QED
    BY ZenonT(30), <2>1, <2>2 DEF Row
<1>2. /\ n.gen = r.gen + 1 /\ n.count = r.count + 1 /\ n.cancel = r.cancel
      /\ n.owner = w /\ n.expires = t + LeaseDuration /\ n.state = "LEASED"
      /\ n.draft = r.draft
      /\ n.imported = IF r.imported = "NONE" THEN "NONE" ELSE "PROCESSING"
  BY Zenon DEF Leased, WithImport, Row
<1>3. n.attempts = [r.attempts EXCEPT ![r.gen + 1] = "LEASED"]
  BY Zenon DEF Leased, WithImport, Row
<1> HIDE DEF n
<1>4. ASSUME NEW g \in Generations
      PROVE  n.attempts[g] = "NONE" <=> g > n.gen
  <2>1. r.attempts \in [Generations -> AttemptStates] /\ g \in Nat
    BY RowConstants DEF Row, Generations
  <2>2. CASE g = r.gen + 1
    BY <1>0, <1>2, <1>3, <2>1, <2>2
  <2>3. CASE g # r.gen + 1
    BY <1>0, <1>2, <1>3, <2>1, <2>3 DEF Accounted
  <2> QED
    BY Zenon, <2>2, <2>3
<1>5. Accounted(n)
  BY Zenon, <1>0, <1>2, <1>4 DEF Accounted
<1>6. Backed(r) => Backed(n)
  BY Zenon, <1>2 DEF Backed
<1> QED
  BY Zenon, <1>1, <1>2, <1>5, <1>6 DEF n

\* What lease_next does to the rows: it leases job j, or none.
Handed(w, j) ==
    /\ job' \in [Jobs -> Row]
    /\ \A k \in Jobs \ {j} : Keeps(job[k], job'[k])
    /\ job[j].cancel = FALSE
    /\ job'[j] = Leased(job[j], w, worker[w].now)
    /\ BudgetLeft(job[j])
    /\ worker' = [worker EXCEPT ![w].pc = "leased", ![w].job = j, ![w].gen = job'[j].gen]

LEMMA LeaseNextCases ==
    ASSUME IInv, NEW w \in Workers, LeaseNext(w)
    PROVE  \/ JobsKept /\ Return(w)
           \/ \E j \in Jobs : Handed(w, j)
<1> DEFINE due  == {j \in worker[w].kind : Leasable(job[j], worker[w].now)}
           good == {j \in due : ScopeValid(j) /\ BudgetLeft(job[j])}
           Finish(D) == [j \in Jobs |-> IF j \in D
                                        THEN FinishedWithoutLease(job[j], ScopeValid(j))
                                        ELSE job[j]]
<1>1. ASSUME NEW D
      PROVE  Finish(D) \in [Jobs -> Row] /\ \A k \in Jobs : Keeps(job[k], Finish(D)[k])
  <2>1. ASSUME NEW k \in Jobs
        PROVE  Keeps(job[k], Finish(D)[k])
    <3>1. job[k] \in Row /\ Accounted(job[k])
      BY Zenon DEF IInv, TypeOK, RowsOK
    <3> DEFINE ok == ScopeValid(k)
    <3>2. ok \in BOOLEAN
      BY Zenon DEF ScopeValid
    <3>3. Finish(D)[k] = IF k \in D THEN FinishedWithoutLease(job[k], ok) ELSE job[k]
      OBVIOUS
    <3> HIDE DEF ok, Finish
    <3>4. Keeps(job[k], FinishedWithoutLease(job[k], ok)) /\ Keeps(job[k], job[k])
      BY Zenon, <3>1, <3>2, FinishedKeeps, SameKeeps
    <3> QED
      BY Zenon, <3>3, <3>4
  <2>2. DOMAIN Finish(D) = Jobs /\ Finish(D) = [k \in Jobs |-> Finish(D)[k]]
    OBVIOUS
  <2> HIDE DEF Finish
  <2> QED
    BY Zenon, <2>1, <2>2 DEF Keeps
<1>2. \/ job' = Finish(due) /\ Return(w)
      \/ \E j \in good, D \in SUBSET (due \ good) :
            /\ job' = [Finish(D) EXCEPT ![j] = Leased(job[j], w, worker[w].now)]
            /\ worker' = [worker EXCEPT ![w].pc = "leased", ![w].job = j,
                                        ![w].gen = Leased(job[j], w, worker[w].now).gen]
  BY Zenon DEF LeaseNext
<1>3. CASE job' = Finish(due) /\ Return(w)
  <2> HIDE DEF Finish, due
  <2> QED
    BY Zenon, <1>1, <1>3 DEF JobsKept
<1>4. ASSUME NEW j \in good, NEW D \in SUBSET (due \ good),
             job' = [Finish(D) EXCEPT ![j] = Leased(job[j], w, worker[w].now)],
             worker' = [worker EXCEPT ![w].pc = "leased", ![w].job = j,
                                      ![w].gen = Leased(job[j], w, worker[w].now).gen]
      PROVE  \E k \in Jobs : Handed(w, k)
  <2> DEFINE n == Leased(job[j], w, worker[w].now)
  <2>1. /\ j \in Jobs /\ BudgetLeft(job[j]) /\ worker[w].now \in Nat
        /\ job[j] \in Row /\ Accounted(job[j])
    BY Zenon DEF IInv, TypeOK, WorkersOK, WorkerStates, RowsOK
  <2>2. job[j].cancel = FALSE
    BY Zenon, <2>1 DEF Leasable, Row
  <2>3. n \in Row
    BY Zenon, <2>1, LeasedRow
  <2>4. job' = [Finish(D) EXCEPT ![j] = n]
        /\ worker' = [worker EXCEPT ![w].pc = "leased", ![w].job = j, ![w].gen = n.gen]
    BY Zenon, <1>4
  <2>5. Finish(D) \in [Jobs -> Row] /\ \A k \in Jobs : Keeps(job[k], Finish(D)[k])
    BY Zenon, <1>1
  <2> HIDE DEF Finish, n
  <2>6. /\ job' \in [Jobs -> Row] /\ job'[j] = n
        /\ \A k \in Jobs \ {j} : Keeps(job[k], job'[k])
    BY Zenon, <2>1, <2>3, <2>4, <2>5
  <2>7. Handed(w, j)
    BY Zenon, <2>1, <2>2, <2>4, <2>6 DEF Handed, n
  <2> QED
    BY Zenon, <2>1, <2>7
<1> QED
  BY Zenon, <1>2, <1>3, <1>4

LEMMA HandedOK ==
    ASSUME IInv, NEW w \in Workers, worker[w].pc = "lease", NEW j \in Jobs, Handed(w, j),
           UNCHANGED <<now, fenced, txn, crashes>>
    PROVE  StepOK
<1>1. /\ job[j] \in Row /\ Accounted(job[j]) /\ Backed(job[j]) /\ worker[w].now \in Nat
      /\ job[j].imported = "NONE" <=> j \in SystemJobs
  BY Zenon DEF IInv, TypeOK, RowsOK, WorkersOK, WorkerStates
<1> DEFINE n == job'[j]
<1>2. /\ n \in Row /\ Accounted(n) /\ Backed(n) /\ n.gen = job[j].gen + 1 /\ n.owner = w
      /\ n.expires = worker[w].now + LeaseDuration
      /\ n.imported = "NONE" <=> j \in SystemJobs
  BY <1>1, LeasedRow DEF Handed
<1>3. RowsOK'
  BY Zenon, <1>2 DEF IInv, RowsOK, Handed, Keeps
<1>4. \A k \in Jobs : job'[k].gen \in Nat /\ job[k].gen \in Nat /\ job[k].gen <= job'[k].gen
  <2>1. \A k \in Jobs : job'[k].gen \in Nat /\ job[k].gen \in Nat
    BY DEF IInv, TypeOK, Handed, Row
  <2>2. \A k \in Jobs \ {j} : job'[k].gen = job[k].gen
    BY Zenon DEF Handed, Keeps
  <2> QED
    BY <1>2, <2>1, <2>2
<1>5. SnapsOK'
  <2>1. ASSUME NEW p \in Procs, NEW k \in DOMAIN txn[p].snap
        PROVE  txn[p].snap[k].gen <= job'[k].gen
    <3>1. k \in Jobs /\ txn[p].snap[k].gen \in Nat /\ txn[p].snap[k].gen <= job[k].gen
      BY <2>1 DEF IInv, TypeOK, TxnsOK, TxnOK, SnapsOK, Row
    <3> QED
      BY <1>4, <3>1
  <2> QED
    BY Zenon, <2>1 DEF IInv, SnapsOK
<1>6. /\ worker' \in [Workers -> WorkerStates]
      /\ worker'[w].pc = "leased" /\ worker'[w].job = j /\ worker'[w].gen = n.gen
      /\ worker'[w].now = worker[w].now
      /\ \A v \in Workers \ {w} : worker'[v] = worker[v]
  <2>1. n.gen \in 0..MaxAttempts /\ "leased" \in PCs
    BY Zenon, <1>2 DEF Row, PCs
  <2>2. worker' = [worker EXCEPT ![w].pc = "leased", ![w].job = j, ![w].gen = n.gen]
    BY Zenon DEF Handed
  <2> HIDE DEF n
  <2> QED
    BY ZenonT(30), <2>1, <2>2 DEF IInv, TypeOK, WorkersOK, WorkerStates
<1>7. WorkersOK'
  BY <1>1, <1>2, <1>4, <1>6 DEF IInv, TypeOK, WorkersOK
<1>8. TypeOK'
  BY Zenon, <1>7 DEF IInv, TypeOK, TxnsOK, Handed
<1>9. TxnFollowsPC'
  BY Zenon, <1>6 DEF IInv, TxnFollowsPC
<1>10. ASSUME NEW v \in Workers \ {w}, worker'[v].pc \in Holding
       PROVE  /\ worker[v].pc \in Holding /\ worker[v].job \in Jobs /\ worker[v].gen \in Nat
              /\ worker[v].gen <= job[worker[v].job].gen
              /\ worker[v].gen <= job'[worker[v].job].gen
  <2>1. /\ worker[v].pc \in Holding /\ worker[v].job \in Jobs /\ worker[v].gen \in Nat
    BY <1>6, <1>10, RowConstants DEF IInv, TypeOK, WorkersOK, WorkerStates
  <2>2. worker[v].gen <= job[worker[v].job].gen
    BY Zenon, <2>1 DEF IInv, FencingTokensUnique
  <2> QED
    BY <1>4, <2>1, <2>2
<1>11. FencingTokensUnique'
  <2>1. \A v \in Workers : worker'[v].pc \in Holding => worker'[v].gen <= job'[worker'[v].job].gen
    <3>1. worker'[w].gen <= job'[worker'[w].job].gen
      BY <1>4, <1>6
    <3>2. ASSUME NEW v \in Workers \ {w}, worker'[v].pc \in Holding
          PROVE  worker'[v].gen <= job'[worker'[v].job].gen
      BY Zenon, <1>6, <1>10, <3>2
    <3> QED
      BY Zenon, <3>1, <3>2
  <2>2. ASSUME NEW v \in Workers \ {w}, worker'[v].pc \in Holding
        PROVE  <<worker'[v].job, worker'[v].gen>> # <<worker'[w].job, worker'[w].gen>>
    <3>1. CASE worker[v].job = j
      <4>1. worker[v].gen \in Nat /\ worker[v].gen <= job[j].gen
        BY Zenon, <1>10, <2>2, <3>1
      <4>2. job[j].gen \in Nat /\ worker'[w].gen = job[j].gen + 1 /\ worker'[v].gen = worker[v].gen
        BY Zenon, <1>2, <1>4, <1>6
      <4>3. worker'[v].gen # worker'[w].gen
        BY <4>1, <4>2
      <4> QED
        BY Zenon, <4>3
    <3>2. CASE worker[v].job # j
      BY Zenon, <1>6, <2>2, <3>2
    <3> QED
      BY Zenon, <3>1, <3>2
  <2>3. ASSUME NEW u \in Workers \ {w}, NEW v \in Workers \ {w}, u # v,
               worker'[u].pc \in Holding, worker'[v].pc \in Holding
        PROVE  <<worker'[u].job, worker'[u].gen>> # <<worker'[v].job, worker'[v].gen>>
    BY <1>6, <2>3 DEF IInv, FencingTokensUnique
  <2> QED
    BY Zenon, <2>1, <2>2, <2>3 DEF FencingTokensUnique
<1>12. HolderNeverSeesExpiry'
  <2>1. worker'[w].now < job'[worker'[w].job].expires
    BY <1>1, <1>2, <1>6, RowConstants
  <2>2. ASSUME NEW v \in Workers \ {w}, worker'[v].pc \in Holding,
               LeaseMatches(job'[worker'[v].job], v, worker'[v].gen),
               job'[worker'[v].job].expires # NULL
        PROVE  worker'[v].now < job'[worker'[v].job].expires
    <3> DEFINE k == worker[v].job
    <3>1. worker'[v] = worker[v] /\ worker[v].pc \in Holding /\ k \in Jobs
      BY Zenon, <1>6, <1>10, <2>2
    <3>2. k # j
      BY Zenon, <1>2, <2>2, <3>1 DEF LeaseMatches
    <3>3. Keeps(job[k], job'[k])
      BY Zenon, <3>1, <3>2 DEF Handed
    <3>4. job'[k].expires = job[k].expires /\ job'[k].owner = job[k].owner
          /\ job'[k].gen = job[k].gen
      BY Zenon, <2>2, <3>1, <3>3, RowConstants DEF Keeps, LeaseMatches
    <3> QED
      BY Zenon, <2>2, <3>1, <3>4 DEF IInv, HolderNeverSeesExpiry, LeaseMatches
  <2> QED
    BY Zenon, <2>1, <2>2 DEF HolderNeverSeesExpiry
<1>13. CancelKept
  BY Zenon DEF CancelKept, Handed, Keeps
<1> QED
  BY Zenon, <1>3, <1>5, <1>8, <1>9, <1>11, <1>12, <1>13 DEF IInv, StepOK

LEMMA LeaseNextOK ==
    ASSUME IInv, NEW w \in Workers, LeaseNext(w)
    PROVE  StepOK
<1>1. worker[w].pc = "lease" /\ UNCHANGED <<now, fenced, txn, crashes>>
  BY Zenon DEF LeaseNext
<1>2. CASE JobsKept /\ Return(w)
  <2>1. /\ WorkersOK' /\ WorkersKept /\ worker'[w].pc = "idle"
        /\ \A v \in Workers \ {w} : worker'[v] = worker[v]
    BY Zenon, <1>2, ReturnOK DEF IInv
  <2>2. TxnsOK' /\ SnapsOK'
    BY Zenon, <1>1, <1>2, SameTxnOK DEF IInv
  <2>3. TxnFollowsPC'
    BY Zenon, <1>1, <2>1 DEF IInv, TxnFollowsPC
  <2> QED
    BY Zenon, <1>1, <1>2, <2>1, <2>2, <2>3, KeptOK DEF IInv, TypeOK
<1>3. CASE \E j \in Jobs : Handed(w, j)
  BY Zenon, <1>1, <1>3, HandedOK
<1> QED
  BY Zenon, <1>2, <1>3, LeaseNextCases

-----------------------------------------------------------------------------
(* The theorems *)

LEMMA WorkerBeginOK ==
    ASSUME IInv, NEW w \in Workers,
           StartBegin(w) \/ PublishBegin(w) \/ CompleteBegin(w) \/ FailBegin(w)
    PROVE  StepOK
<1>1. /\ "START" \in Ops \ {"FENCE"} /\ "PUBLISH" \in Ops \ {"FENCE"}
      /\ "COMPLETE" \in Ops \ {"FENCE"} /\ "FAIL" \in Ops \ {"FENCE"}
      /\ "leased" \in Holding /\ "running" \in Holding /\ "stale" \in Holding
      /\ {j \in Jobs : ScopeValid(j)} \in SUBSET Jobs
      /\ {j \in Jobs : ImportActive(j)} \in SUBSET Jobs
  BY Zenon DEF Ops, Holding
<1>2. CASE StartBegin(w)
  BY Zenon, <1>1, <1>2, BeginOnLeaseOK DEF StartBegin
<1>3. CASE PublishBegin(w)
  BY Zenon, <1>1, <1>3, BeginOnLeaseOK DEF PublishBegin
<1>4. CASE CompleteBegin(w)
  BY Zenon, <1>1, <1>4, BeginOnLeaseOK DEF CompleteBegin
<1>5. CASE FailBegin(w)
  <2>1. PICK retryable \in BOOLEAN :
           BeginOnLease(w, "FAIL", {j \in Jobs : ScopeValid(j)}, retryable)
    BY Zenon, <1>5 DEF FailBegin
  <2>2. worker[w].pc \in Holding /\ Goto(w, "failing") /\ UNCHANGED <<now, job, fenced, crashes>>
    BY Zenon, <1>1, <1>5 DEF FailBegin
  <2> QED
    BY Zenon, <1>1, <2>1, <2>2, BeginOnLeaseOK
<1> QED
  BY Zenon, <1>2, <1>3, <1>4, <1>5

LEMMA ClientRequestOK ==
    ASSUME IInv, NEW c \in Clients,
           \/ \E j \in Cancellable : CancelBegin(c, j)
           \/ \E t \in Targets : FenceBegin(c, t)
    PROVE  StepOK
<1>1. "CANCEL" \in Ops /\ "FENCE" \in Ops /\ "CANCEL" # "FENCE"
  BY Zenon DEF Ops
<1>2. ASSUME NEW j \in Cancellable, CancelBegin(c, j)
      PROVE  StepOK
  <2>1. {j} \in SUBSET Jobs
    BY Zenon, QueueConstants DEF Jobs
  <2> QED
    BY Zenon, <1>1, <1>2, <2>1, ClientBeginOK DEF CancelBegin
<1>3. ASSUME NEW t \in Targets, FenceBegin(c, t)
      PROVE  StepOK
  <2>1. Dependent(t) \in SUBSET Jobs
    BY Zenon DEF Dependent, Jobs
  <2> QED
    BY Zenon, <1>1, <1>3, <2>1, ClientBeginOK DEF FenceBegin
<1> QED
  BY Zenon, <1>2, <1>3

LEMMA NextOK ==
    ASSUME IInv, Next
    PROVE  StepOK
<1>1. ASSUME NEW w \in Workers, NEW kind \in {ImportJobs, SystemJobs}, Poll(w, kind)
      PROVE  StepOK
  BY Zenon, <1>1, PollOK
<1>2. ASSUME NEW w \in Workers, WorkerStep(w)
      PROVE  StepOK
  BY Zenon, <1>2, WorkerBeginOK, RescueCommitOK, LeaseNextOK, StartCommitOK, PublishCommitOK,
     CompleteCommitOK, FailCommitOK DEF WorkerStep
<1>3. ASSUME NEW w \in Workers, WorkerCrash(w)
      PROVE  StepOK
  BY Zenon, <1>3, CrashOK
<1>4. ASSUME NEW c \in Clients,
             \/ \E j \in Cancellable : CancelBegin(c, j)
             \/ \E t \in Targets : FenceBegin(c, t)
      PROVE  StepOK
  BY Zenon, <1>4, ClientRequestOK
<1>5. ASSUME NEW c \in Clients, ClientStep(c)
      PROVE  StepOK
  BY Zenon, <1>5, CancelCommitOK, FenceCommitOK DEF ClientStep
<1>6. ASSUME NEW c \in Clients, ClientCrash(c)
      PROVE  StepOK
  BY Zenon, <1>6, CrashOK
<1>7. CASE Tick
  BY Zenon, <1>7, TickOK
<1> QED
  BY Zenon, <1>1, <1>2, <1>3, <1>4, <1>5, <1>6, <1>7 DEF Next

LEMMA StutterOK ==
    ASSUME IInv, UNCHANGED vars
    PROVE  IInv'
  BY Zenon DEF vars, IInv, TypeOK, WorkersOK, TxnsOK, RowsOK, SnapsOK, TxnFollowsPC,
         FencingTokensUnique, HolderNeverSeesExpiry, LeaseMatches

\* The invariant of the job queue is inductive: it holds in the initial states
\* of the queue and every action keeps it.
THEOREM Inductive == Spec => []IInv
<1>1. Init => IInv
  BY Zenon, InitOK
<1>2. IInv /\ [Next]_vars => IInv'
  BY Zenon, NextOK, StutterOK DEF StepOK
<1> QED
  BY <1>1, <1>2, PTL DEF Spec

\* Every variable has its type; in particular no job is handed out more often
\* than max_attempts, whichever transactions overlap.
THEOREM TypeCorrect == Spec => []TypeOK
<1>1. IInv => TypeOK
  BY Zenon DEF IInv
<1> QED
  BY <1>1, Inductive, PTL

\* The fencing token that lease_next hands out is unique, with any number of
\* workers, overlapping transactions and crashes.
THEOREM TokensUnique == Spec => []FencingTokensUnique
<1>1. IInv => FencingTokensUnique
  BY Zenon DEF IInv
<1> QED
  BY <1>1, Inductive, PTL

\* attempt_count, fencing_generation and the attempt rows agree although start,
\* fail, rescue_expired, publish_draft and complete_system store them from
\* rows they did not lock.
THEOREM AttemptsAgree == Spec => []AttemptsAccounted
<1>1. IInv => AttemptsAccounted
  BY Zenon DEF IInv, RowsOK, Accounted, AttemptsAccounted
<1> QED
  BY <1>1, Inductive, PTL

\* No overlap of transactions makes an import READY, or its job SUCCEEDED,
\* without the readings publish_draft stores with them.
THEOREM SuccessIsBacked == Spec => []SucceededHasDraft
<1>1. IInv => SucceededHasDraft
  BY Zenon, QueueConstants DEF IInv, RowsOK, Backed, SucceededHasDraft, Jobs
<1> QED
  BY <1>1, Inductive, PTL

\* The expiry check of start and current_fenced_job never refuses a worker
\* that still owns its lease, since it compares the time of the poll.
THEOREM ExpiryNeverRefuses == Spec => []HolderNeverSeesExpiry
<1>1. IInv => HolderNeverSeesExpiry
  BY Zenon DEF IInv
<1> QED
  BY <1>1, Inductive, PTL

\* Once cancel_requested is stored it stays, and the job is not leased again.
THEOREM CancelIsFinal == Spec => NoLeaseOnceCancelled
<1>1. IInv /\ [Next]_vars => [CancelKept]_vars
  BY Zenon, NextOK DEF StepOK
<1>2. CancelKept <=> \A j \in Jobs : job[j].cancel => job'[j].cancel /\ job'[j].gen = job[j].gen
  BY Zenon DEF CancelKept
<1> QED
  BY <1>1, <1>2, Inductive, PTL DEF Spec, NoLeaseOnceCancelled

-----------------------------------------------------------------------------
(* Rows, when transactions follow each other *)

\* A row in progress can be rescued, and the state of its import fits its state.
InStep(r) ==
    /\ r.state \in ActiveStates => r.expires # NULL
    /\ r.imported # "NONE" =>
        /\ r.state = "QUEUED"       => r.imported = "QUEUED"
        /\ r.state \in ActiveStates => r.imported = "PROCESSING"
        /\ r.state = "SUCCEEDED"    => r.imported = "READY"
        /\ r.state = "FAILED"       => r.imported = "FAILED"

\* Readings are stored under the lease of the row.
DraftLeased(old, new) ==
    new.draft # old.draft => /\ old.state = "RUNNING"
                             /\ old.gen = new.draft
                             /\ old.owner # NULL

\* What every transaction makes of a row it has to itself.
Steps(old, new) == /\ new \in Row
                   /\ InStep(old) => InStep(new)
                   /\ DraftLeased(old, new)

\* A transaction that loaded the stored row stores the row it computed.
LEMMA MergeFresh ==
    ASSUME NEW cur \in Row, NEW new \in Row
    PROVE  Merge(cur, cur, new) = new
<1> DEFINE m == Merge(cur, cur, new)
<1>1. /\ m.state = new.state /\ m.cancel = new.cancel /\ m.owner = new.owner
      /\ m.gen = new.gen /\ m.count = new.count /\ m.expires = new.expires
      /\ m.notBefore = new.notBefore /\ m.imported = new.imported /\ m.draft = new.draft
  BY Zenon DEF Merge
<1>2. m.attempts = [g \in Generations |-> new.attempts[g]]
  <2>1. m.attempts = [g \in Generations |-> IF new.attempts[g] # cur.attempts[g]
                                            THEN new.attempts[g] ELSE cur.attempts[g]]
    BY Zenon DEF Merge
  <2> QED
    BY Zenon, <2>1
<1>3. new.attempts \in [Generations -> AttemptStates]
  BY Zenon DEF Row
<1>4. m.attempts = new.attempts
  BY Zenon, <1>2, <1>3
<1>5. m = [state |-> m.state, cancel |-> m.cancel, owner |-> m.owner, gen |-> m.gen,
           count |-> m.count, expires |-> m.expires, notBefore |-> m.notBefore,
           imported |-> m.imported, draft |-> m.draft, attempts |-> m.attempts]
  BY Zenon DEF Merge
<1>6. new = [state |-> new.state, cancel |-> new.cancel, owner |-> new.owner,
             gen |-> new.gen, count |-> new.count, expires |-> new.expires,
             notBefore |-> new.notBefore, imported |-> new.imported,
             draft |-> new.draft, attempts |-> new.attempts]
  BY Zenon DEF Row
<1> HIDE DEF m
<1>7. m = new
  BY Zenon, <1>1, <1>4, <1>5, <1>6
<1> QED
  BY Zenon, <1>7 DEF m

\* rescue_expired
LEMMA RescuedSteps ==
    ASSUME NEW r \in Row, NEW scopeOk \in BOOLEAN, NEW t \in Nat
    PROVE  Steps(r, Rescued(r, scopeOk, t))
<1> DEFINE n == Rescued(r, scopeOk, t)
<1>1. n \in Row
  BY Zenon, RescuedWrites DEF Writes
<1>2. /\ n.draft = r.draft
      /\ \/ n.state = "CANCELLED"
         \/ n.state = "FAILED" /\ (n.imported # "NONE" => n.imported = "FAILED")
         \/ n.state = "QUEUED" /\ (n.imported # "NONE" => n.imported = "QUEUED")
  BY Zenon DEF Rescued, Release, WithImport, Row
<1> HIDE DEF n
<1>3. Steps(r, n)
  BY Zenon, <1>1, <1>2 DEF Steps, InStep, DraftLeased, ActiveStates
<1> QED
  BY Zenon, <1>3 DEF n

\* fail
LEMMA FailedSteps ==
    ASSUME NEW r \in Row, NEW g \in Generations, g = r.gen,
           NEW scopeOk \in BOOLEAN, NEW retryable \in BOOLEAN, NEW retryAt \in Nat
    PROVE  Steps(r, Failed(r, g, scopeOk, retryable, retryAt))
<1> DEFINE n == Failed(r, g, scopeOk, retryable, retryAt)
<1>1. n \in Row
  BY Zenon, FailedWrites DEF Writes
<1>2. /\ n.draft = r.draft
      /\ \/ n.state = "CANCELLED"
         \/ n.state = "FAILED" /\ (n.imported # "NONE" => n.imported = "FAILED")
         \/ n.state = "QUEUED" /\ (n.imported # "NONE" => n.imported = "QUEUED")
  BY Zenon DEF Failed, Release, WithImport, Row
<1> HIDE DEF n
<1>3. Steps(r, n)
  BY Zenon, <1>1, <1>2 DEF Steps, InStep, DraftLeased, ActiveStates
<1> QED
  BY Zenon, <1>3 DEF n

\* start; it stores RUNNING over LEASED.
LEMMA StartedSteps ==
    ASSUME NEW r \in Row, NEW g \in Generations, g = r.gen, r.state = "LEASED"
    PROVE  Steps(r, Started(r, g))
<1> DEFINE n == Started(r, g)
<1>1. n \in Row
  BY Zenon, StartedWrites DEF Writes
<1>2. n.draft = r.draft /\ n.state = "RUNNING" /\ n.imported = r.imported
      /\ n.expires = r.expires
  BY Zenon DEF Started, Row
<1> HIDE DEF n
<1>3. Steps(r, n)
  BY Zenon, <1>1, <1>2 DEF Steps, InStep, DraftLeased, ActiveStates
<1> QED
  BY Zenon, <1>3 DEF n

\* publish_draft, by the holder w of the lease.
LEMMA PublishedSteps ==
    ASSUME NEW r \in Row, NEW w \in Workers, NEW g \in Generations,
           Publishable(r, w, g, TRUE)
    PROVE  Steps(r, Published(r, g))
<1> DEFINE n == Published(r, g)
<1>1. /\ r.state = "RUNNING" /\ r.owner = w /\ r.gen = g /\ r.imported = "PROCESSING"
      /\ r.draft = 0
  BY Zenon DEF Publishable, LeaseMatches
<1>2. n \in Row
  BY Zenon, <1>1, PublishedWrites DEF Writes
<1>3. n.draft = g /\ n.state = "SUCCEEDED" /\ n.imported = "READY"
  BY Zenon DEF Published, Row
<1> HIDE DEF n
<1>4. w # NULL
  BY Zenon, RowConstants
<1>5. Steps(r, n)
  BY Zenon, <1>1, <1>2, <1>3, <1>4 DEF Steps, InStep, DraftLeased, ActiveStates
<1> QED
  BY Zenon, <1>5 DEF n

\* complete_system, on a job that has no import.
LEMMA CompletedSteps ==
    ASSUME NEW r \in Row, NEW g \in Generations, g = r.gen, r.imported = "NONE"
    PROVE  Steps(r, Completed(r, g))
<1> DEFINE n == Completed(r, g)
<1>1. n \in Row
  BY Zenon, CompletedWrites DEF Writes
<1>2. n.draft = r.draft /\ n.state = "SUCCEEDED" /\ n.imported = "NONE"
  BY Zenon DEF Completed, Release, Row
<1> HIDE DEF n
<1>3. Steps(r, n)
  BY Zenon, <1>1, <1>2 DEF Steps, InStep, DraftLeased, ActiveStates
<1> QED
  BY Zenon, <1>3 DEF n

\* JobService.cancel and _fence_dependent_work
LEMMA CancelledSteps ==
    ASSUME NEW r \in Row
    PROVE  Steps(r, Cancelled(r)) /\ Steps(r, Fenced(r))
<1>1. Cancelled(r) \in Row /\ Fenced(r) \in Row
  BY Zenon, CancelledWrites, FencedWrites DEF Writes
<1>2. Cancelled(r).draft = r.draft /\ Cancelled(r).state = "CANCELLED"
  BY Zenon DEF Cancelled, WithImport, Row
<1>3. /\ Fenced(r).draft = r.draft /\ Fenced(r).imported = r.imported
      /\ Fenced(r).expires = r.expires
      /\ Fenced(r).state = r.state \/ Fenced(r).state = "CANCELLED"
  BY Zenon DEF Fenced, Row
<1> QED
  BY Zenon, <1>1, <1>2, <1>3 DEF Steps, InStep, DraftLeased, ActiveStates

\* lease_next finishes a job or leases it.
LEMMA FinishedSteps ==
    ASSUME NEW r \in Row, NEW scopeOk \in BOOLEAN, Accounted(r)
    PROVE  Steps(r, FinishedWithoutLease(r, scopeOk))
<1> DEFINE n == FinishedWithoutLease(r, scopeOk)
<1>1. n \in Row
  BY Zenon, FinishedKeeps DEF Keeps
<1>2. /\ n.draft = r.draft
      /\ \/ n.state = "CANCELLED"
         \/ n.state = "FAILED" /\ (n.imported # "NONE" => n.imported = "FAILED")
  BY Zenon DEF FinishedWithoutLease, Release, WithImport, Row
<1> HIDE DEF n
<1>3. Steps(r, n)
  BY Zenon, <1>1, <1>2 DEF Steps, InStep, DraftLeased, ActiveStates
<1> QED
  BY Zenon, <1>3 DEF n

LEMMA LeasedSteps ==
    ASSUME NEW r \in Row, NEW w \in Workers, NEW t \in Nat, Accounted(r), BudgetLeft(r)
    PROVE  Steps(r, Leased(r, w, t))
<1> DEFINE n == Leased(r, w, t)
           e == t + LeaseDuration
<1>1. n \in Row
  BY Zenon, LeasedRow
<1>2. e # NULL
  BY RowConstants
<1>3. /\ n.draft = r.draft /\ n.state = "LEASED" /\ n.expires = e
      /\ n.imported # "NONE" => n.imported = "PROCESSING"
  BY Zenon DEF Leased, WithImport, Row
<1> HIDE DEF n, e
<1>4. Steps(r, n)
  BY Zenon, <1>1, <1>2, <1>3 DEF Steps, InStep, DraftLeased, ActiveStates
<1> QED
  BY Zenon, <1>4 DEF n

-----------------------------------------------------------------------------
(* The invariant of serial transactions *)

\* What an open transaction loaded is what is stored.
SnapsFresh ==
    \A p \in Procs : /\ ~Open(p) => DOMAIN txn[p].snap = {}
                     /\ \A j \in DOMAIN txn[p].snap : txn[p].snap[j] = job[j]

OneOpen == \A p, q \in Procs : Open(p) /\ Open(q) => p = q

RowsInStep == \A j \in Jobs : InStep(job[j])

SerialInv == SnapsFresh /\ OneOpen /\ RowsInStep

DraftsLeased == \A j \in Jobs : DraftLeased(job[j], job'[j])

\* What has to be shown of a step.
SerialStep == SerialInv' /\ DraftsLeased

LEMMA SerialInit ==
    ASSUME Init
    PROVE  SerialInv
<1>1. SnapsFresh /\ OneOpen
  BY DEF Init, NoTxn, SnapsFresh, OneOpen, Open
<1>2. RowsInStep
  BY Zenon DEF Init, NewRow, RowsInStep, InStep, ActiveStates
<1> QED
  BY Zenon, <1>1, <1>2 DEF SerialInv

\* A transaction begins when no other is open.
LEMMA SerialBegin ==
    ASSUME Overlapping = FALSE, IInv, SerialInv, NEW p \in Procs, NEW op \in Ops,
           NEW S \in SUBSET Jobs, NEW valid, NEW target, NEW retryable,
           Begin(p, Txn(op, S, valid, target, retryable)), UNCHANGED job
    PROVE  SerialStep
<1> DEFINE t == Txn(op, S, valid, target, retryable)
<1>1. /\ t.op # "NONE" /\ DOMAIN t.snap = S
      /\ \A j \in S : t.snap[j] = job[j]
  BY Zenon DEF Txn, Ops
<1>2. /\ \A q \in Procs : ~Open(q)
      /\ txn' = [txn EXCEPT ![p] = t]
  BY Zenon DEF Begin, MayBegin
<1> HIDE DEF t
<1>3. txn'[p] = t /\ \A q \in Procs \ {p} : txn'[q] = txn[q]
  BY Zenon, <1>2 DEF IInv, TypeOK, TxnsOK
<1>4. SnapsFresh'
  BY <1>1, <1>2, <1>3 DEF SerialInv, SnapsFresh, Open
<1>5. OneOpen'
  BY <1>2, <1>3 DEF OneOpen, Open
<1> QED
  BY Zenon, <1>4, <1>5 DEF SerialInv, SerialStep, RowsInStep, DraftsLeased, DraftLeased

\* A transaction ends without storing anything.
LEMMA SerialRollback ==
    ASSUME IInv, SerialInv, NEW p \in Procs, Close(p), UNCHANGED job
    PROVE  SerialStep
<1>1. txn'[p] = NoTxn /\ \A q \in Procs \ {p} : txn'[q] = txn[q]
  BY Zenon DEF Close, IInv, TypeOK, TxnsOK
<1>2. NoTxn.op = "NONE" /\ DOMAIN NoTxn.snap = {}
  BY DEF NoTxn
<1>3. SnapsFresh'
  BY Zenon, <1>1, <1>2 DEF SerialInv, SnapsFresh, Open
<1>4. OneOpen'
  BY Zenon, <1>1, <1>2 DEF SerialInv, OneOpen, Open
<1> QED
  BY Zenon, <1>3, <1>4 DEF SerialInv, SerialStep, RowsInStep, DraftsLeased, DraftLeased

\* A transaction stores what it made of the rows it loaded.
LEMMA SerialCommit ==
    ASSUME IInv, SerialInv, NEW p \in Procs, Close(p), NEW new, Store(p, new),
           DOMAIN new \subseteq DOMAIN txn[p].snap,
           \A j \in DOMAIN new : Steps(txn[p].snap[j], new[j])
    PROVE  SerialStep
<1>1. /\ txn'[p] = NoTxn /\ \A q \in Procs \ {p} : txn'[q] = txn[q]
      /\ NoTxn.op = "NONE" /\ DOMAIN NoTxn.snap = {}
  BY DEF Close, IInv, TypeOK, TxnsOK, NoTxn
<1>2. ASSUME NEW j \in DOMAIN new
      PROVE  j \in Jobs /\ job'[j] = new[j] /\ Steps(job[j], new[j])
  <2>1. j \in Jobs /\ txn[p].snap[j] = job[j] /\ job[j] \in Row
    BY Zenon, <1>2 DEF SerialInv, SnapsFresh, IInv, TypeOK, TxnsOK, TxnOK
  <2>2. job'[j] = Merge(job[j], job[j], new[j])
    BY Zenon, <2>1 DEF Store
  <2>3. Steps(job[j], new[j]) /\ new[j] \in Row
    BY Zenon, <2>1 DEF Steps
  <2> QED
    BY Zenon, <2>1, <2>2, <2>3, MergeFresh
<1>3. \A j \in Jobs \ DOMAIN new : job'[j] = job[j]
  BY Zenon DEF Store
<1>4. RowsInStep' /\ DraftsLeased
  BY Zenon, <1>2, <1>3 DEF SerialInv, RowsInStep, DraftsLeased, Steps, DraftLeased
<1>5. OneOpen'
  BY Zenon, <1>1 DEF SerialInv, OneOpen, Open
<1>6. SnapsFresh'
  <2>1. ASSUME NEW q \in Procs \ {p}, NEW j \in DOMAIN txn[q].snap
        PROVE  txn[q].snap[j] = job'[j]
    <3>1. Open(q) /\ ~Open(p)
      BY Zenon, <2>1 DEF SerialInv, SnapsFresh, OneOpen
    <3>2. DOMAIN new = {}
      BY Zenon, <3>1 DEF SerialInv, SnapsFresh
    <3>3. j \in Jobs /\ txn[q].snap[j] = job[j]
      BY Zenon, <2>1 DEF SerialInv, SnapsFresh, IInv, TypeOK, TxnsOK, TxnOK
    <3> QED
      BY Zenon, <1>3, <3>2, <3>3
  <2> QED
    BY <1>1, <2>1 DEF SerialInv, SnapsFresh, Open
<1> QED
  BY Zenon, <1>4, <1>5, <1>6 DEF SerialInv, SerialStep

\* A step that leaves rows and transactions alone.
LEMMA SerialSame ==
    ASSUME SerialInv, UNCHANGED <<job, txn>>
    PROVE  SerialStep
  BY Zenon DEF SerialInv, SerialStep, SnapsFresh, OneOpen, RowsInStep, DraftsLeased, DraftLeased, Open

-----------------------------------------------------------------------------
(* The steps of serial transactions *)

LEMMA SerialPoll ==
    ASSUME Overlapping = FALSE, IInv, SerialInv, NEW w \in Workers, NEW kind, Poll(w, kind)
    PROVE  SerialStep
<1> DEFINE S == {j \in Jobs : Expired(job[j], now)}
<1>1. UNCHANGED job /\ w \in Procs /\ "RESCUE" \in Ops /\ S \in SUBSET Jobs
  BY Zenon DEF Poll, Procs, Ops
<1>2. \/ UNCHANGED txn
      \/ Begin(w, Txn("RESCUE", S, {j \in S : ScopeValid(j)}, NULL, FALSE))
  BY Zenon DEF Poll
<1> HIDE DEF S
<1> QED
  BY Zenon, <1>1, <1>2, SerialSame, SerialBegin

LEMMA SerialWorkerBegin ==
    ASSUME Overlapping = FALSE, IInv, SerialInv, NEW w \in Workers,
           StartBegin(w) \/ PublishBegin(w) \/ CompleteBegin(w) \/ FailBegin(w)
    PROVE  SerialStep
<1> DEFINE j == worker[w].job
<1>1. UNCHANGED job /\ worker[w].pc \in Holding
  BY Zenon DEF StartBegin, PublishBegin, CompleteBegin, FailBegin, Holding
<1>2. w \in Procs /\ {j} \in SUBSET Jobs
  BY Zenon, <1>1 DEF IInv, TypeOK, WorkersOK, Procs
<1>3. PICK op \in Ops, valid \in SUBSET Jobs, retryable \in BOOLEAN :
           BeginOnLease(w, op, valid, retryable)
  BY Zenon DEF StartBegin, PublishBegin, CompleteBegin, FailBegin, Ops
<1>4. Begin(w, Txn(op, {j}, {j} \cap valid, NULL, retryable))
  BY Zenon, <1>3 DEF BeginOnLease
<1> HIDE DEF j
<1> QED
  BY Zenon, <1>1, <1>2, <1>3, <1>4, SerialBegin

LEMMA SerialRescue ==
    ASSUME IInv, SerialInv, NEW w \in Workers, RescueCommit(w)
    PROVE  SerialStep
<1> DEFINE snap == txn[w].snap
<1>1. PICK V : Store(w, [j \in DOMAIN snap |-> Rescued(snap[j], j \in V, worker[w].now)])
  BY Zenon DEF RescueCommit
<1> DEFINE new == [j \in DOMAIN snap |-> Rescued(snap[j], j \in V, worker[w].now)]
<1>2. worker[w].now \in Nat /\ w \in Procs /\ \A j \in DOMAIN snap : snap[j] \in Row
  BY Zenon DEF IInv, TypeOK, WorkersOK, WorkerStates, TxnsOK, TxnOK, Procs
<1>3. ASSUME NEW j \in DOMAIN new
      PROVE  Steps(snap[j], new[j])
  <2> DEFINE ok == j \in V
  <2>1. ok \in BOOLEAN /\ snap[j] \in Row
    BY <1>2
  <2>2. new[j] = Rescued(snap[j], ok, worker[w].now)
    BY Zenon
  <2> HIDE DEF ok, new
  <2> QED
    BY Zenon, <1>2, <2>1, <2>2, RescuedSteps
<1>4. Store(w, new) /\ DOMAIN new \subseteq DOMAIN snap /\ Close(w)
  BY Zenon, <1>1 DEF RescueCommit
<1> HIDE DEF new
<1> QED
  BY Zenon, <1>2, <1>3, <1>4, SerialCommit

\* A worker stores what it made of the job it holds.
LEMMA SerialOnLease ==
    ASSUME IInv, SerialInv, NEW w \in Workers,
           worker[w].pc \in {"starting", "publishing", "failing"}, NEW n,
           Steps(txn[w].snap[worker[w].job], n), Store(w, [k \in {worker[w].job} |-> n]),
           Close(w)
    PROVE  SerialStep
<1> DEFINE new == [k \in {worker[w].job} |-> n]
<1>1. /\ w \in Procs
      /\ DOMAIN new \subseteq DOMAIN txn[w].snap
      /\ \A k \in DOMAIN new : Steps(txn[w].snap[k], new[k])
  BY Zenon, SnapOnLease DEF Procs
<1>2. Store(w, new)
  BY Zenon
<1> HIDE DEF new
<1> QED
  BY Zenon, <1>1, <1>2, SerialCommit

LEMMA SerialStart ==
    ASSUME IInv, SerialInv, NEW w \in Workers, StartCommit(w)
    PROVE  SerialStep
<1> DEFINE j == worker[w].job
           g == worker[w].gen
           r == txn[w].snap[j]
           n == Started(r, g)
<1>1. worker[w].pc = "starting" /\ Close(w) /\ w \in Procs
  BY Zenon DEF StartCommit, Procs
<1>2. \/ r.state = "LEASED" /\ LeaseMatches(r, w, g) /\ Store(w, [k \in {j} |-> n])
      \/ UNCHANGED job
  BY Zenon DEF StartCommit, FenceHolds
<1>3. r \in Row /\ g \in Generations
  BY Zenon, <1>1, SnapOnLease
<1>4. CASE r.state = "LEASED" /\ LeaseMatches(r, w, g) /\ Store(w, [k \in {j} |-> n])
  <2>1. Steps(r, n)
    <3>1. g = r.gen
      BY Zenon, <1>4 DEF LeaseMatches
    <3> HIDE DEF r, g
    <3> QED
      BY Zenon, <1>3, <1>4, <3>1, StartedSteps
  <2> HIDE DEF n
  <2> QED
    BY Zenon, <1>1, <1>4, <2>1, SerialOnLease
<1>5. CASE UNCHANGED job
  BY Zenon, <1>1, <1>5, SerialRollback
<1> QED
  BY Zenon, <1>2, <1>4, <1>5

LEMMA SerialPublish ==
    ASSUME IInv, SerialInv, NEW w \in Workers, PublishCommit(w)
    PROVE  SerialStep
<1> DEFINE j == worker[w].job
           g == worker[w].gen
           r == txn[w].snap[j]
           n == Published(r, g)
<1>1. worker[w].pc = "publishing" /\ Close(w) /\ w \in Procs
  BY Zenon DEF PublishCommit, Procs
<1>2. \/ Publishable(r, w, g, TRUE) /\ Store(w, [k \in {j} |-> n])
      \/ UNCHANGED job
  BY Zenon DEF PublishCommit, Publishable
<1>3. r \in Row /\ g \in Generations
  BY Zenon, <1>1, SnapOnLease
<1>4. CASE Publishable(r, w, g, TRUE) /\ Store(w, [k \in {j} |-> n])
  <2>1. Steps(r, n)
    <3> HIDE DEF r, g
    <3> QED
      BY Zenon, <1>3, <1>4, PublishedSteps
  <2> HIDE DEF n
  <2> QED
    BY Zenon, <1>1, <1>4, <2>1, SerialOnLease
<1>5. CASE UNCHANGED job
  BY Zenon, <1>1, <1>5, SerialRollback
<1> QED
  BY Zenon, <1>2, <1>4, <1>5

LEMMA SerialComplete ==
    ASSUME IInv, SerialInv, NEW w \in Workers, CompleteCommit(w)
    PROVE  SerialStep
<1> DEFINE j == worker[w].job
           g == worker[w].gen
           r == txn[w].snap[j]
           n == Completed(r, g)
<1>1. /\ worker[w].pc = "publishing" /\ txn[w].op = "COMPLETE"
      /\ Close(w) /\ w \in Procs
  BY Zenon DEF CompleteCommit, Procs
<1>2. \/ LeaseMatches(r, w, g) /\ Store(w, [k \in {j} |-> n])
      \/ UNCHANGED job
  BY Zenon DEF CompleteCommit, FenceHolds
<1>3. r \in Row /\ g \in Generations /\ r.imported = "NONE"
  BY Zenon, <1>1, SnapOnLease DEF IInv, TxnFollowsPC
<1>4. CASE LeaseMatches(r, w, g) /\ Store(w, [k \in {j} |-> n])
  <2>1. Steps(r, n)
    <3>1. g = r.gen
      BY Zenon, <1>4 DEF LeaseMatches
    <3> HIDE DEF r, g
    <3> QED
      BY Zenon, <1>3, <3>1, CompletedSteps
  <2> HIDE DEF n
  <2> QED
    BY Zenon, <1>1, <1>4, <2>1, SerialOnLease
<1>5. CASE UNCHANGED job
  BY Zenon, <1>1, <1>5, SerialRollback
<1> QED
  BY Zenon, <1>2, <1>4, <1>5

LEMMA SerialFail ==
    ASSUME IInv, SerialInv, NEW w \in Workers, FailCommit(w)
    PROVE  SerialStep
<1> DEFINE j == worker[w].job
           g == worker[w].gen
           r == txn[w].snap[j]
           F(scopeOk, delay) == Failed(r, g, scopeOk, txn[w].retryable, worker[w].now + delay)
<1>1. worker[w].pc = "failing" /\ Close(w) /\ w \in Procs
  BY Zenon DEF FailCommit, Procs
<1>2. /\ r \in Row /\ g \in Generations /\ Accounted(r)
      /\ txn[w].retryable \in BOOLEAN /\ worker[w].now \in Nat
  BY Zenon, <1>1, SnapOnLease DEF IInv, TypeOK, WorkersOK, WorkerStates, TxnsOK, TxnOK, Procs
<1>3. \/ /\ LeaseMatches(r, w, g)
         /\ \E V \in ScopesSeen(w, {k \in Jobs : ScopeValid(k)}), delay \in RetryDelays(r.count) :
               Store(w, [k \in {j} |-> F(j \in V, delay)])
      \/ UNCHANGED job
  BY Zenon DEF FailCommit
<1>4. ASSUME LeaseMatches(r, w, g),
             NEW V \in ScopesSeen(w, {k \in Jobs : ScopeValid(k)}), NEW delay \in RetryDelays(r.count),
             Store(w, [k \in {j} |-> F(j \in V, delay)])
      PROVE  SerialStep
  <2> DEFINE ok == j \in V
             n == F(ok, delay)
  <2>1. g = r.gen
    BY Zenon, <1>4 DEF LeaseMatches
  <2>2. r.count \in Nat \ {0}
    <3>1. r.count = g
      BY Zenon, <1>2, <2>1 DEF Accounted
    <3>2. g \in Nat \ {0}
      <4> HIDE DEF g
      <4> QED
        BY <1>2, RowConstants DEF Generations
    <3> QED
      BY Zenon, <3>1, <3>2
  <2>3. worker[w].now + delay \in Nat /\ ok \in BOOLEAN
    <3>1. delay \in Nat
      <4> HIDE DEF r
      <4> QED
        BY Zenon, <2>2, RetryDelaysNat
    <3> QED
      BY <1>2, <3>1
  <2>4. Store(w, [k \in {j} |-> n])
    BY Zenon, <1>4
  <2> HIDE DEF ok
  <2>5. Steps(r, n)
    BY Zenon, <1>2, <2>1, <2>3, FailedSteps
  <2> HIDE DEF n
  <2> QED
    BY Zenon, <1>1, <2>4, <2>5, SerialOnLease
<1>5. CASE UNCHANGED job
  BY Zenon, <1>1, <1>5, SerialRollback
<1> QED
  BY Zenon, <1>3, <1>4, <1>5

LEMMA SerialClient ==
    ASSUME IInv, SerialInv, NEW c \in Clients, ClientStep(c)
    PROVE  SerialStep
<1> DEFINE snap == txn[c].snap
<1>1. c \in Procs /\ \A j \in DOMAIN snap : snap[j] \in Row
  BY Zenon DEF IInv, TypeOK, TxnsOK, TxnOK, Procs
<1>2. CASE CancelCommit(c)
  <2> DEFINE new == [j \in DOMAIN snap |-> Cancelled(snap[j])]
  <2>1. /\ DOMAIN new \subseteq DOMAIN snap /\ Store(c, new) /\ Close(c)
        /\ \A j \in DOMAIN new : Steps(snap[j], new[j])
    BY Zenon, <1>1, <1>2, CancelledSteps DEF CancelCommit
  <2> HIDE DEF new
  <2> QED
    BY Zenon, <1>1, <2>1, SerialCommit
<1>3. CASE FenceCommit(c)
  <2> DEFINE new == [j \in DOMAIN snap |-> Fenced(snap[j])]
  <2>1. /\ DOMAIN new \subseteq DOMAIN snap /\ Store(c, new) /\ Close(c)
        /\ \A j \in DOMAIN new : Steps(snap[j], new[j])
    BY Zenon, <1>1, <1>3, CancelledSteps DEF FenceCommit
  <2> HIDE DEF new
  <2> QED
    BY Zenon, <1>1, <2>1, SerialCommit
<1> QED
  BY Zenon, <1>2, <1>3 DEF ClientStep

LEMMA SerialRequest ==
    ASSUME Overlapping = FALSE, IInv, SerialInv, NEW c \in Clients,
           \/ \E j \in Cancellable : CancelBegin(c, j)
           \/ \E t \in Targets : FenceBegin(c, t)
    PROVE  SerialStep
<1>1. UNCHANGED job /\ c \in Procs
  BY Zenon DEF CancelBegin, FenceBegin, Procs
<1>2. PICK op \in Ops, S \in SUBSET Jobs, target \in Targets \cup {NULL} :
           Begin(c, Txn(op, S, {}, target, FALSE))
  BY Zenon, QueueConstants DEF CancelBegin, FenceBegin, Ops, Dependent, Jobs
<1> QED
  BY Zenon, <1>1, <1>2, SerialBegin

\* lease_next waits until no transaction is open.
LEMMA SerialLease ==
    ASSUME Overlapping = FALSE, IInv, SerialInv, NEW w \in Workers, LeaseNext(w)
    PROVE  SerialStep
<1> DEFINE due  == {j \in worker[w].kind : Leasable(job[j], worker[w].now)}
           good == {j \in due : ScopeValid(j) /\ BudgetLeft(job[j])}
           Finish(D) == [j \in Jobs |-> IF j \in D
                                        THEN FinishedWithoutLease(job[j], ScopeValid(j))
                                        ELSE job[j]]
           L(j) == Leased(job[j], w, worker[w].now)
<1>1. UNCHANGED txn /\ \A q \in Procs : ~Open(q)
  BY Zenon DEF LeaseNext
<1>2. \/ job' = Finish(due)
      \/ \E j \in good, D \in SUBSET (due \ good) : job' = [Finish(D) EXCEPT ![j] = L(j)]
  BY Zenon DEF LeaseNext
<1>3. worker[w].now \in Nat /\ \A k \in Jobs : job[k] \in Row /\ Accounted(job[k])
  BY Zenon DEF IInv, TypeOK, RowsOK, WorkersOK, WorkerStates
<1>4. ASSUME NEW D, NEW k \in Jobs
      PROVE  Steps(job[k], Finish(D)[k])
  <2> DEFINE ok == ScopeValid(k)
  <2>1. ok \in BOOLEAN
    BY Zenon DEF ScopeValid
  <2>2. Finish(D)[k] = IF k \in D THEN FinishedWithoutLease(job[k], ok) ELSE job[k]
    OBVIOUS
  <2> HIDE DEF ok, Finish
  <2>3. Steps(job[k], FinishedWithoutLease(job[k], ok))
    BY Zenon, <1>3, <2>1, FinishedSteps
  <2>4. Steps(job[k], job[k])
    BY Zenon, <1>3 DEF Steps, DraftLeased
  <2> QED
    BY Zenon, <2>2, <2>3, <2>4
<1>5. \A k \in Jobs : Steps(job[k], job'[k])
  <2>1. CASE job' = Finish(due)
    <3> HIDE DEF Finish, due
    <3> QED
      BY Zenon, <1>4, <2>1
  <2>2. ASSUME NEW j \in good, NEW D, job' = [Finish(D) EXCEPT ![j] = L(j)], NEW k \in Jobs
        PROVE  Steps(job[k], job'[k])
    <3>1. DOMAIN Finish(D) = Jobs
      OBVIOUS
    <3>2. k = j => BudgetLeft(job[k])
      OBVIOUS
    <3> HIDE DEF Finish, good, due, L
    <3>3. CASE k = j
      <4>1. job'[k] = L(k)
        BY Zenon, <2>2, <3>1, <3>3
      <4>2. Steps(job[k], L(k))
        BY Zenon, <1>3, <3>2, <3>3, LeasedSteps DEF L
      <4> QED
        BY Zenon, <4>1, <4>2
    <3>4. CASE k # j
      <4>1. job'[k] = Finish(D)[k]
        BY Zenon, <2>2, <3>1, <3>4
      <4> QED
        BY Zenon, <1>4, <4>1
    <3> QED
      BY Zenon, <3>3, <3>4
  <2> QED
    BY Zenon, <1>2, <2>1, <2>2
<1>6. SnapsFresh' /\ OneOpen'
  BY Zenon, <1>1 DEF SerialInv, SnapsFresh, OneOpen, Open
<1> QED
  BY Zenon, <1>5, <1>6 DEF SerialInv, SerialStep, RowsInStep, DraftsLeased, Steps

LEMMA SerialNext ==
    ASSUME Overlapping = FALSE, IInv, SerialInv, Next
    PROVE  SerialStep
<1>1. ASSUME NEW w \in Workers, NEW kind, Poll(w, kind)
      PROVE  SerialStep
  BY Zenon, <1>1, SerialPoll
<1>2. ASSUME NEW w \in Workers, WorkerStep(w)
      PROVE  SerialStep
  BY Zenon, <1>2, SerialWorkerBegin, SerialRescue, SerialLease, SerialStart, SerialPublish,
     SerialComplete, SerialFail DEF WorkerStep
<1>3. ASSUME NEW w \in Workers, WorkerCrash(w)
      PROVE  SerialStep
  BY Zenon, <1>3, SerialRollback DEF WorkerCrash, Procs
<1>4. ASSUME NEW c \in Clients,
             \/ \E j \in Cancellable : CancelBegin(c, j)
             \/ \E t \in Targets : FenceBegin(c, t)
      PROVE  SerialStep
  BY Zenon, <1>4, SerialRequest
<1>5. ASSUME NEW c \in Clients, ClientStep(c)
      PROVE  SerialStep
  BY Zenon, <1>5, SerialClient
<1>6. ASSUME NEW c \in Clients, ClientCrash(c)
      PROVE  SerialStep
  BY Zenon, <1>6, SerialRollback DEF ClientCrash, Procs
<1>7. CASE Tick
  BY Zenon, <1>7, SerialSame DEF Tick
<1> QED
  BY Zenon, <1>1, <1>2, <1>3, <1>4, <1>5, <1>6, <1>7 DEF Next

-----------------------------------------------------------------------------
(* The theorems about serial transactions *)

\* Transactions that follow each other keep what they load fresh until they
\* commit, and every row in step with its import.
THEOREM SerialInductive ==
    ASSUME Overlapping = FALSE
    PROVE  Spec => [](IInv /\ SerialInv)
<1>1. Init => IInv /\ SerialInv
  BY Zenon, InitOK, SerialInit
<1>2. IInv /\ SerialInv /\ [Next]_vars => (IInv /\ SerialInv)'
  <2>1. ASSUME IInv, SerialInv, Next
        PROVE  (IInv /\ SerialInv)'
    BY Zenon, <2>1, NextOK, SerialNext DEF StepOK, SerialStep
  <2>2. ASSUME IInv, SerialInv, UNCHANGED vars
        PROVE  (IInv /\ SerialInv)'
    BY Zenon, <2>2, StutterOK, SerialSame DEF vars, SerialStep
  <2> QED
    BY Zenon, <2>1, <2>2
<1> QED
  BY <1>1, <1>2, PTL DEF Spec

\* A leased or running job always carries the expiry by which rescue_expired
\* finds it, and the state of an import is the one its job's state calls for,
\* as long as the transactions of the queue do not overlap.
THEOREM SerialIsConsistent ==
    ASSUME Overlapping = FALSE
    PROVE  Spec => []SerialConsistent
<1>1. IInv /\ SerialInv => SerialConsistent
  <2> SUFFICES ASSUME IInv, SerialInv
               PROVE  SerialConsistent
    OBVIOUS
  <2>1. \A j \in Jobs : InStep(job[j])
    BY Zenon DEF SerialInv, RowsInStep
  <2>2. \A j \in ImportJobs : j \in Jobs /\ job[j].imported # "NONE"
    BY Zenon, QueueConstants DEF IInv, RowsOK, Jobs
  <2> QED
    BY Zenon, <2>1, <2>2 DEF SerialConsistent, InProgressExpires, ImportFollowsJob, InStep
<1> QED
  BY <1>1, SerialInductive, PTL

\* Only the holder of a job's current lease stores readings, and only while
\* the job is RUNNING, as long as the transactions do not overlap.
THEOREM SerialPublication ==
    ASSUME Overlapping = FALSE
    PROVE  Spec => PublishedUnderLease
<1> DEFINE A == \A j \in ImportJobs : job'[j].draft # job[j].draft =>
                   /\ job[j].state = "RUNNING"
                   /\ job[j].gen = job'[j].draft
                   /\ job[j].owner # NULL
<1>1. IInv /\ SerialInv /\ [Next]_vars => [A]_vars
  BY Zenon, SerialNext DEF SerialStep, DraftsLeased, DraftLeased, Jobs
<1> QED
  BY <1>1, SerialInductive, PTL DEF Spec, PublishedUnderLease

=============================================================================
