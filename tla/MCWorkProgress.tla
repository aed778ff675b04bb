--------------------------- MODULE MCWorkProgress ---------------------------
(***************************************************************************)
(* What the workers must eventually do, for two components in one run:     *)
(* `part' is the component that a behaviour is about; the other stays as   *)
(* it was initially, and its fairness asks nothing.                        *)
(***************************************************************************)
EXTENDS Calculations

VARIABLES part, now, qjob, fenced, qworker, txn, crashes

\* An import job that a client may cancel or fence, and one crash.  The
\* transactions follow each other.
Q == INSTANCE JobQueue WITH
    Account <- "account", ImportJobs <- {"i1"}, SystemJobs <- {}, Cancellable <- {"i1"},
    Workers <- {"w1", "w2"}, Clients <- {"c1"}, MaxAttempts <- 2, LeaseDuration <- 1,
    RetryBase <- 1, MaxRetryDelay <- 2, MaxCrashes <- 1, Overlapping <- FALSE,
    job <- qjob, worker <- qworker

queueVars == <<now, qjob, fenced, qworker, txn, crashes>>
allVars == <<part, queueVars, vars>>
-----------------------------------------------------------------------------
MCInit == part \in {"QUEUE", "RESULTS"} /\ Q!Init /\ Init

Queue   == part = "QUEUE" /\ UNCHANGED <<part, vars>>
Results == part = "RESULTS" /\ UNCHANGED <<part, queueVars>>

MCNext == (Queue /\ Q!Next) \/ (Results /\ Next)

QueueFairness ==
    /\ \A w \in {"w1", "w2"} : /\ WF_allVars(Queue /\ Q!WorkerStep(w))
                               /\ SF_allVars(Queue /\ Q!Poll(w, {"i1"}))
    /\ WF_allVars(Queue /\ Q!ClientStep("c1"))
    /\ WF_allVars(Queue /\ Q!Tick)

ResultFairness ==
    /\ \A w \in Workers : WF_allVars(Results /\ WorkerStep(w))
    /\ \A s \in Workers \cup Sweepers : WF_allVars(Results /\ SweepStep(s))
    /\ \A j \in JobIds : /\ WF_allVars(Results /\ LeaseExpires(j))
                       /\ WF_allVars(Results /\ RescueExpired(j))

MCSpec == MCInit /\ [][MCNext]_allVars /\ QueueFairness /\ ResultFairness
-----------------------------------------------------------------------------
\* A job in progress carries the expiry by which rescue_expired finds it after
\* its worker is lost, and the state of the import is the one that the state of
\* its job calls for (start, fail, _mark_import_terminal, publish_draft).
SerialConsistent == Q!SerialConsistent

\* Readings are stored by the holder of the job's current lease while its job
\* is RUNNING, and by no other (publish_draft).
PublishedUnderLease == Q!PublishedUnderLease

\* Every job reaches a terminal state: lease expiry, the attempt budget and the
\* scope checks leave no job queued or in progress for ever.
JobsTerminate == part = "QUEUE" => Q!JobsTerminate
=============================================================================
