----------------------------- MODULE MCAccount -----------------------------
(***************************************************************************)
(* An account's sessions and deletion intents (Access), the receipt that   *)
(* its browser keeps (Receipts) and the request budgets (RateLimiter), for *)
(* TLC.  `part' is what a behaviour is about; the rest stays as it was     *)
(* initially, so that the properties of a part need not look at the        *)
(* behaviours of another.                                                  *)
(***************************************************************************)
EXTENDS Access, TLC

VARIABLES part,
          recovery, stored, busy, session, ops, cookie, deletions, secrets,
          clock, attempts, accepted

\* One tab that makes two credentials.
R == INSTANCE Receipts WITH MaxSecrets <- 2, MaxInFlight <- 2

\* Three clients, and room for one bucket of two attempts and the shared one.
B == INSTANCE RateLimiter WITH
    Identifiers <- Requests \cup {"c"}, Overflow <- "overflow", Limit <- 2, Window <- 3,
    MaxIdentifiers <- 2, Second <- 2, Skew <- 1, MaxTime <- 6

ASSUME B!LimiterConstants

receiptVars == <<recovery, stored, busy, session, ops, cookie, deletions, secrets>>
budgetVars == <<clock, attempts, accepted>>

Symmetry == Permutations(Sessions) \cup Permutations(Requests)
-----------------------------------------------------------------------------
MCInit == part \in {"ACCESS", "RECEIPT", "BUDGET"} /\ Init /\ R!Init /\ B!Init

MCNext ==
    /\ UNCHANGED part
    /\ \/ part = "ACCESS" /\ Next /\ UNCHANGED <<receiptVars, budgetVars>>
       \/ part = "RECEIPT" /\ R!Next /\ UNCHANGED <<vars, budgetVars>>
       \/ part = "BUDGET" /\ B!Next /\ UNCHANGED <<vars, receiptVars>>

MCSpec == MCInit /\ [][MCNext]_<<part, vars, receiptVars, budgetVars>>
-----------------------------------------------------------------------------
\* The credential of a deletion that is not over leaves the tab only when a
\* late answer about an earlier deletion puts that one's credential back
\* (App.tsx deleteAccount, restoreReceipt, DeletionReceipt).
ReceiptKept == R!ReceiptKept

\* The state of every part has its type: a session is idle no longer than it may
\* live (authenticate).  However many clients ask, the limiter keeps at most
\* MaxIdentifiers buckets, the shared one included; no client has more than Limit
\* attempts accepted from a bucket in a window, less the time an attempt may wait
\* for the lock; and who waits as long as retry_after says is not refused for the
\* same attempts again (abuse.py allow, retry_after).
PartsConsistent ==
    /\ part = "ACCESS" => TypeOK
    /\ part = "RECEIPT" => R!TypeOK
    /\ part = "BUDGET" => B!Consistent
=============================================================================
