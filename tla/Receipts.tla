------------------------------ MODULE Receipts ------------------------------
(***************************************************************************)
(* The deletion controls of the web client (PrivacyControls).  The browser *)
(* makes the secret of a deletion receipt before the server knows of the   *)
(* deletion; whoever holds the secret and the deletion identifier can read *)
(* the status of the deletion after every session of the account is gone.  *)
(*                                                                         *)
(* `recovery' is the credential the component holds and `stored' its copy  *)
(* in the session storage of the tab, which survives a reload.  A secret   *)
(* stands for the credential made with it: secret, idempotency key and,    *)
(* once known, deletion identifier.  `deletions' is the server's receipt   *)
(* of each secret and is external, as is the answer of every request.      *)
(***************************************************************************)
EXTENDS Naturals, FiniteSets

CONSTANTS
    NONE,
    MaxSecrets,   \* bound: credentials one tab makes
    MaxInFlight   \* bound: requests in flight at once

VARIABLES
    recovery,   \* the credential in the state of the component, or NONE
    stored,     \* the credential in sessionStorage, or NONE
    busy,       \* a request of the component disables its buttons
    session,    \* App has a session
    ops,        \* requests in flight
    cookie,     \* the server knows the session
    deletions,  \* secret -> status the server reports
    secrets     \* number of secrets made

vars == <<recovery, stored, busy, session, ops, cookie, deletions, secrets>>

Secrets == 1..MaxSecrets
Terminal == {"DELETED", "ABORTED"}
Fenced == {"DELETING", "DELETED"}
Statuses == {"ABSENT", "INTENT_CREATED", "EXPIRED", "PREPARED", "ABORTED"} \cup Fenced
Known == {"INTENT_CREATED", "PREPARED", "ABORTED"} \cup Fenced

Credential == [kind : {"ACCOUNT", "RESOURCE"}, secret : Secrets, id : BOOLEAN,
               status : {"CLIENT_PREPARED", "RECOVERY_LOADED"} \cup Known]

\* Who waits for the answer: the component, a component that is unmounted, or,
\* after a reload, nobody.
Request == [kind : {"intent", "account", "resource", "receipt"}, credential : Credential,
            waiter : {"mounted", "unmounted", "gone"}, cookie : BOOLEAN,
            ans : {"sent", "ok", "401"}, status : Known \cup {NONE}]

Init ==
    /\ recovery = NONE /\ stored = NONE /\ busy = FALSE
    /\ session = TRUE /\ cookie = TRUE
    /\ ops = {} /\ secrets = 0
    /\ deletions = [s \in Secrets |-> [kind |-> "ACCOUNT", status |-> "ABSENT"]]

-----------------------------------------------------------------------------

AccountPrepared == recovery # NONE /\ recovery.kind = "ACCOUNT" /\ recovery.id
DeletionActive == recovery # NONE /\ recovery.status \notin Terminal

NewRecovery(kind) ==
    [kind |-> kind, secret |-> secrets + 1, id |-> FALSE, status |-> "CLIENT_PREPARED"]

\* remember: the component and the session storage hold the same credential.
Remember(credential) == recovery' = credential /\ stored' = credential

Send(kind, credential) ==
    /\ Cardinality(ops) < MaxInFlight
    /\ busy' = TRUE
    /\ ops' = ops \cup {[kind |-> kind, credential |-> credential, waiter |-> "mounted",
                         cookie |-> cookie, ans |-> "sent", status |-> NONE]}
    /\ UNCHANGED <<session, cookie, deletions>>

\* Mutant: every attempt makes a new credential.
PrepareAgain ==
    /\ session /\ ~busy /\ ~AccountPrepared
    /\ DeletionActive => recovery.kind = "ACCOUNT"
    /\ secrets < MaxSecrets /\ secrets' = secrets + 1
    /\ Remember(NewRecovery("ACCOUNT"))
    /\ Send("intent", NewRecovery("ACCOUNT"))

\* The credential is remembered before the request that makes the intent, and
\* an intent whose answer was lost is asked for again with the same one.
PrepareAccountDeletion ==
    /\ session /\ ~busy /\ ~AccountPrepared
    /\ DeletionActive => recovery.kind = "ACCOUNT"
    /\ LET retry == recovery # NONE /\ recovery.kind = "ACCOUNT"
           pending == IF retry THEN recovery ELSE NewRecovery("ACCOUNT")
       IN  /\ retry \/ secrets < MaxSecrets
           /\ secrets' = IF retry THEN secrets ELSE secrets + 1
           /\ Remember(pending)
           /\ Send("intent", pending)

DeleteAccount ==
    /\ session /\ ~busy /\ AccountPrepared
    /\ Send("account", recovery)
    /\ UNCHANGED <<recovery, stored, secrets>>

\* The credential of a resource is remembered when the answer has come.
DeleteResource ==
    /\ session /\ ~busy /\ ~DeletionActive /\ secrets < MaxSecrets
    /\ secrets' = secrets + 1
    /\ Send("resource", NewRecovery("RESOURCE"))
    /\ UNCHANGED <<recovery, stored>>

CheckReceipt ==
    /\ recovery # NONE /\ recovery.id /\ ~busy
    /\ Send("receipt", recovery)
    /\ UNCHANGED <<recovery, stored, secrets>>

\* recoverReceipt: the form is shown without a session and without a credential;
\* the user types the identifier and the secret of a deletion that was made.
RecoverReceipt ==
    /\ ~session /\ recovery = NONE
    /\ \E s \in 1..secrets :
          /\ deletions[s].status # "ABSENT"
          /\ LET credential == [kind |-> "ACCOUNT", secret |-> s, id |-> TRUE,
                                status |-> "RECOVERY_LOADED"]
             IN  Remember(credential) /\ Send("receipt", credential)
    /\ UNCHANGED secrets

Forget ==
    /\ recovery # NONE /\ recovery.id /\ recovery.status \in Terminal
    /\ Remember(NONE)
    /\ UNCHANGED <<busy, session, ops, cookie, deletions, secrets>>

\* The public demo, which a page without a session can show, unmounts the
\* component; a reload also forgets every handler that waits.
Remount(waiter) ==
    /\ recovery' = stored /\ busy' = FALSE
    /\ ops' = {[r EXCEPT !.waiter = IF @ = "gone" THEN @ ELSE waiter] : r \in ops}
    /\ UNCHANGED <<stored, session, cookie, deletions, secrets>>

VisitDemo == ~session /\ Remount("unmounted")

Reload == Remount("gone")

\* App signs in; the account is there to sign in to until it is fenced.
AccountActive == \A s \in Secrets : deletions[s].kind = "ACCOUNT" => deletions[s].status \notin Fenced

Login ==
    /\ ~session /\ AccountActive
    /\ session' = TRUE /\ cookie' = TRUE
    /\ UNCHANGED <<recovery, stored, busy, ops, deletions, secrets>>

-----------------------------------------------------------------------------
(* The API, external to the client.                                        *)

Pending(s) == deletions[s].status \in {"INTENT_CREATED", "PREPARED"}

Reply(r, ans, status) ==
    ops' = (ops \ {r}) \cup {[r EXCEPT !.ans = ans, !.status = status]}

ServeUnauthorized(r) ==
    /\ r.kind # "receipt" /\ ~r.cookie
    /\ Reply(r, "401", NONE)
    /\ UNCHANGED <<cookie, deletions>>

\* One account has one pending intent; the key of an expired one stays refused.
ServeIntent(r) ==
    LET s == r.credential.secret IN
    /\ r.kind = "intent" /\ r.cookie
    /\ \/ /\ deletions[s].status = "ABSENT"
          /\ \A u \in Secrets : deletions[u].kind = "ACCOUNT" => ~Pending(u)
          /\ deletions' = [deletions EXCEPT ![s] = [kind |-> "ACCOUNT", status |-> "INTENT_CREATED"]]
          /\ Reply(r, "ok", "INTENT_CREATED")
       \/ /\ deletions[s].status \in Known
          /\ Reply(r, "ok", deletions[s].status)
          /\ UNCHANGED deletions
    /\ UNCHANGED cookie

\* Fencing the account revokes its sessions; the request may stop before that.
ServeAccount(r) ==
    LET s == r.credential.secret IN
    /\ r.kind = "account" /\ r.cookie /\ Pending(s)
    /\ \/ /\ deletions' = [deletions EXCEPT ![s].status = "DELETING"]
          /\ cookie' = FALSE
          /\ ops' = {[o EXCEPT !.cookie = FALSE] : o \in ops \ {r}}
                       \cup {[r EXCEPT !.ans = "ok", !.status = "DELETING", !.cookie = FALSE]}
       \/ /\ deletions[s].status = "INTENT_CREATED"
          /\ deletions' = [deletions EXCEPT ![s].status = "PREPARED"]
          /\ ops' = (ops \ {r}) \cup {[r EXCEPT !.cookie = FALSE]}
          /\ UNCHANGED cookie

ServeResource(r) ==
    /\ r.kind = "resource" /\ r.cookie
    /\ deletions[r.credential.secret].status = "ABSENT"
    /\ deletions' = [deletions EXCEPT ![r.credential.secret] =
                        [kind |-> "RESOURCE", status |-> "DELETING"]]
    /\ Reply(r, "ok", "DELETING")
    /\ UNCHANGED cookie

ServeReceipt(r) ==
    /\ r.kind = "receipt"
    /\ deletions[r.credential.secret].status \in Known
    /\ Reply(r, "ok", deletions[r.credential.secret].status)
    /\ UNCHANGED <<cookie, deletions>>

Serve(r) ==
    /\ r.ans = "sent"
    /\ \/ ServeUnauthorized(r)
       \/ ServeIntent(r)
       \/ ServeAccount(r)
       \/ ServeResource(r)
       \/ ServeReceipt(r)
    /\ UNCHANGED <<recovery, stored, busy, session, secrets>>

SessionExpires ==
    /\ cookie /\ cookie' = FALSE
    /\ ops' = {[r EXCEPT !.cookie = FALSE] : r \in ops}
    /\ UNCHANGED <<recovery, stored, busy, session, deletions, secrets>>

\* What the server does on its own: an intent expires, the reconciler resolves
\* a preparation, the sweep completes a deletion.
Progress ==
    /\ \E s \in Secrets, pair \in {<<"INTENT_CREATED", "EXPIRED">>, <<"PREPARED", "ABORTED">>,
                                  <<"PREPARED", "DELETING">>, <<"DELETING", "DELETED">>} :
          /\ deletions[s].status = pair[1]
          /\ deletions' = [deletions EXCEPT ![s].status = pair[2]]
          /\ IF pair[2] = "DELETING" THEN /\ cookie' = FALSE
                                         /\ ops' = {[r EXCEPT !.cookie = FALSE] : r \in ops}
             ELSE UNCHANGED <<cookie, ops>>
    /\ UNCHANGED <<recovery, stored, busy, session, secrets>>

-----------------------------------------------------------------------------

\* A component that is unmounted still writes the session storage.
RememberFrom(r, credential) ==
    /\ stored' = credential
    /\ recovery' = IF r.waiter = "mounted" THEN credential ELSE recovery

Released(r) == busy' = IF r.waiter = "mounted" THEN FALSE ELSE busy

ContinueIntent(r) ==
    /\ r.kind \in {"intent", "resource"}
    /\ RememberFrom(r, [r.credential EXCEPT !.id = TRUE, !.status = r.status])
    /\ UNCHANGED session

\* Both the deletion of the account and a receipt that shows it fenced end the
\* session of the page.
ContinueAccount(r) ==
    /\ r.kind = "account"
    /\ RememberFrom(r, [r.credential EXCEPT !.status = r.status])
    /\ session' = FALSE

ContinueReceipt(r) ==
    /\ r.kind = "receipt"
    /\ RememberFrom(r, [r.credential EXCEPT !.status = r.status])
    /\ session' = (session /\ ~(r.credential.kind = "ACCOUNT" /\ r.status \in Fenced))

\* showError: nothing changes; a 401 has ended the session of the page.
ContinueFailed(r, unauthorized) ==
    /\ session' = (session /\ ~unauthorized)
    /\ UNCHANGED <<recovery, stored>>

Continue(r) ==
    /\ r.waiter # "gone"
    /\ \/ r.ans = "ok" /\ (ContinueIntent(r) \/ ContinueAccount(r) \/ ContinueReceipt(r))
       \/ r.ans = "401" /\ ContinueFailed(r, TRUE)
       \/ ContinueFailed(r, FALSE)
    /\ Released(r)
    /\ ops' = ops \ {r}
    /\ UNCHANGED <<cookie, deletions, secrets>>

\* The answer to a page that was reloaded reaches nobody.
Drop(r) ==
    /\ r.waiter = "gone"
    /\ ops' = ops \ {r}
    /\ UNCHANGED <<recovery, stored, busy, session, cookie, deletions, secrets>>

User ==
    \/ PrepareAccountDeletion \/ DeleteAccount \/ DeleteResource \/ CheckReceipt
    \/ RecoverReceipt \/ Forget \/ VisitDemo \/ Reload \/ Login

Next ==
    \/ User \/ SessionExpires \/ Progress
    \/ \E r \in ops : Serve(r) \/ Continue(r) \/ Drop(r)

Spec == Init /\ [][Next]_vars

-----------------------------------------------------------------------------

\* Every request carries a credential the browser made, and the storage holds
\* nothing else.
TypeOK ==
    /\ recovery \in Credential \cup {NONE} /\ stored \in Credential \cup {NONE}
    /\ ops \subseteq Request
    /\ deletions \in [Secrets -> [kind : {"ACCOUNT", "RESOURCE"}, status : Statuses]]
    /\ {busy, session, cookie} \subseteq BOOLEAN /\ secrets \in 0..MaxSecrets

\* The credential of a deletion that is not over leaves the tab only when a late
\* answer about an earlier deletion puts that one's credential back: neither a
\* lost answer nor a reload, another deletion or the recovery form replaces it.
ReceiptKept ==
    [][stored # NONE /\ stored = recovery
          /\ (stored' = NONE \/ stored'.secret # stored.secret)
          /\ deletions[stored.secret].status \notin Terminal
             => \E r \in ops \ ops' : r.credential.secret # stored.secret]_vars

=============================================================================
