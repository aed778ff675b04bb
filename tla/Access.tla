------------------------------- MODULE Access -------------------------------
(***************************************************************************)
(* The sessions of one account and the deletion intents made under them:   *)
(* AuthService and the routes in front of it, the part of the deletion     *)
(* coordinator that a session starts, and the retention pass that removes  *)
(* expired sessions and expired intents underneath all of them.            *)
(*                                                                         *)
(* Sessions are read and written without a lock: a request reads its row,  *)
(* and commits a renewal or a revocation later.  The ORM writes only the   *)
(* columns it changed.  Intents are locked by whoever changes them.        *)
(***************************************************************************)
EXTENDS Naturals, FiniteSets, FiniteSetsExt

CONSTANTS
    Sessions,      \* identifiers for the sessions to come
    Intents,       \* identifiers for the deletion intents to come
    Requests,      \* the API calls that can be under way at once
    NONE,
    Idle,          \* SESSION_IDLE_LIFETIME
    Absolute,      \* SESSION_ABSOLUTE_LIFETIME
    IntentLife,    \* INTENT_LIFETIME
    MaxTime        \* bound on the clock

VARIABLES
    now,       \* the clock
    active,    \* the account is ACTIVE: it is not fenced
    row,       \* SessionRecord of every identifier, or NONE
    intent,    \* DeletionIntentRecord and receipt of every identifier, or NONE
    prepared,  \* the intents whose ledger chain is not empty
    call,      \* what every API call is doing
    pass       \* what the retention pass is doing

vars == <<now, active, row, intent, prepared, call, pass>>

SessionRow == [revoked : BOOLEAN, idle : Nat, absolute : Nat]

IntentRow ==
    [state : {"INTENT_CREATED", "PREPARED", "CONSUMED", "INVALIDATED"}, expires : Nat,
     receipt : {"INTENT_CREATED", "PREPARED", "DELETION_PENDING_LEDGER"}]

\* The lifetimes of auth.py and deletions.py, 30 minutes, 24 hours, 15 minutes;
\* a missing row is no row.
ASSUME AccessConstants ==
    /\ {Idle, Absolute, IntentLife, MaxTime} \subseteq Nat /\ Idle <= Absolute
    /\ NONE \notin SessionRow \cup IntentRow

IdleCall == [at |-> "idle", id |-> NONE, time |-> 0, over |-> FALSE]
IdlePass == [at |-> "idle", time |-> 0, ids |-> {}]

Init ==
    /\ now = 0 /\ active = TRUE
    /\ row = [s \in Sessions |-> NONE]
    /\ intent = [d \in Intents |-> NONE] /\ prepared = {}
    /\ call = [q \in Requests |-> IdleCall]
    /\ pass = IdlePass

Tick ==
    /\ now < MaxTime /\ now' = now + 1
    /\ UNCHANGED <<active, row, intent, prepared, call, pass>>

-----------------------------------------------------------------------------
(* Sessions.                                                               *)

Dead(s) == row[s] = NONE \/ row[s].revoked \/ now >= row[s].absolute \/ ~active

At(q, at) == call[q].at = at

Go(q, at) == call' = [call EXCEPT ![q].at = at]

Return(q) == call' = [call EXCEPT ![q] = IdleCall]

\* A request arrives with the cookie of a session; `over' remembers whether
\* the session was over by then, `time' will be the clock of the renewal.
Arrive(q, s) ==
    /\ At(q, "idle")
    /\ call' = [call EXCEPT ![q] = [at |-> "arrived", id |-> s, time |-> 0, over |-> Dead(s)]]
    /\ UNCHANGED <<now, active, row, intent, prepared, pass>>

\* login reads the account without looking at its lifecycle, and names the
\* session that the cookie of the browser holds, if any.
LoginRead(q, s) ==
    /\ At(q, "idle")
    /\ call' = [call EXCEPT ![q] = [at |-> "login", id |-> s, time |-> 0, over |-> FALSE]]
    /\ UNCHANGED <<now, active, row, intent, prepared, pass>>

\* ... and commits the new session together with the end of the prior one.
LoginCommit(q) ==
    /\ At(q, "login")
    /\ \E new \in {s \in Sessions : row[s] = NONE /\ \A r \in Requests : call[r].id # s} :
          row' = [s \in Sessions |->
             IF s = new THEN [revoked |-> FALSE, idle |-> now + Idle, absolute |-> now + Absolute]
             ELSE IF s = call[q].id /\ row[s] # NONE THEN [row[s] EXCEPT !.revoked = TRUE]
             ELSE row[s]]
    /\ Return(q)
    /\ UNCHANGED <<now, active, intent, prepared, pass>>

\* Mutant: the lifecycle of the account is not looked at.
AuthenticateReadAny(q) ==
    /\ At(q, "arrived")
    /\ LET s == call[q].id IN
       IF row[s] = NONE \/ row[s].revoked THEN Return(q)
       ELSE call' = [call EXCEPT ![q].time = now, ![q].at =
                        IF now >= row[s].idle \/ now >= row[s].absolute THEN "revoke" ELSE "renew"]
    /\ UNCHANGED <<now, active, row, intent, prepared, pass>>

\* authenticate: the row and the account in one statement, then the clock.
AuthenticateRead(q) ==
    /\ At(q, "arrived")
    /\ LET s == call[q].id IN
       IF row[s] = NONE \/ ~active \/ row[s].revoked THEN Return(q)
       ELSE call' = [call EXCEPT ![q].time = now, ![q].at =
                        IF now >= row[s].idle \/ now >= row[s].absolute THEN "revoke" ELSE "renew"]
    /\ UNCHANGED <<now, active, row, intent, prepared, pass>>

\* The session had expired: it is revoked, and the request refused.
AuthenticateRevoke(q) ==
    /\ At(q, "revoke")
    /\ row' = [row EXCEPT ![call[q].id] = IF @ = NONE THEN @ ELSE [@ EXCEPT !.revoked = TRUE]]
    /\ Return(q)
    /\ UNCHANGED <<now, active, intent, prepared, pass>>

\* Mutant: the whole row is written back as it was read.
RenewedRow(r, t) == [r EXCEPT !.idle = Min({t + Idle, r.absolute}), !.revoked = FALSE]

Renewed(r, t) == [r EXCEPT !.idle = Min({t + Idle, r.absolute})]

\* The session is renewed; a row deleted meanwhile fails the request.
AuthenticateRenew(q) ==
    /\ At(q, "renew")
    /\ LET s == call[q].id IN
       IF row[s] = NONE
       THEN Return(q) /\ UNCHANGED row
       ELSE /\ row' = [row EXCEPT ![s] = Renewed(@, call[q].time)]
            /\ call' = [call EXCEPT ![q].at = "granted", ![q].time = 0]
    /\ UNCHANGED <<now, active, intent, prepared, pass>>

\* Whatever an authenticated request does that changes nothing here.
Read(q) ==
    /\ At(q, "granted")
    /\ Return(q)
    /\ UNCHANGED <<now, active, row, intent, prepared, pass>>

Logout(q) ==
    /\ At(q, "granted")
    /\ row' = [row EXCEPT ![call[q].id] = IF @ = NONE THEN @ ELSE [@ EXCEPT !.revoked = TRUE]]
    /\ Return(q)
    /\ UNCHANGED <<now, active, intent, prepared, pass>>

-----------------------------------------------------------------------------
(* Deletion intents.                                                       *)

Expired(d) == intent[d].state = "INTENT_CREATED" /\ now >= intent[d].expires

\* _create_intent under the lock on the account; an expired intent gives way.
CreateIntent(q) ==
    /\ At(q, "granted") /\ active
    /\ \A d \in Intents : intent[d] # NONE => intent[d].state = "INVALIDATED" \/ Expired(d)
    /\ \E new \in {d \in Intents : intent[d] = NONE /\ d \notin prepared
                                     /\ \A r \in Requests : call[r].id # d} :
          intent' = [d \in Intents |->
             IF d = new THEN [state |-> "INTENT_CREATED", expires |-> now + IntentLife,
                              receipt |-> "INTENT_CREATED"]
             ELSE IF intent[d] = NONE THEN NONE
             ELSE [intent[d] EXCEPT !.state = "INVALIDATED"]]
    /\ Return(q)
    /\ UNCHANGED <<now, active, row, prepared, pass>>

\* authorize_and_start: _authorized_intent reads the intent without a lock.
Authorize(q) ==
    /\ At(q, "granted")
    /\ \E d \in Intents : /\ intent[d] # NONE /\ intent[d].state # "INVALIDATED" /\ ~Expired(d)
                          /\ call' = [call EXCEPT ![q].id = d, ![q].at = "prepare", ![q].over = FALSE]
    /\ UNCHANGED <<now, active, row, intent, prepared, pass>>

\* _ensure_prepared: the locked intent, the append to the ledger, the commit.
EnsurePrepared(q) ==
    LET d == call[q].id IN
    /\ At(q, "prepare")
    /\ IF intent[d] = NONE
       THEN Return(q) /\ UNCHANGED <<intent, prepared>>
       ELSE /\ prepared' = prepared \cup {d}
            /\ intent' = [intent EXCEPT
                  ![d].state = IF @ = "INTENT_CREATED" THEN "PREPARED" ELSE @,
                  ![d].receipt = IF @ = "INTENT_CREATED" THEN "PREPARED" ELSE @]
            /\ Go(q, "fence")
    /\ UNCHANGED <<now, active, row, pass>>

\* The process stops after the append and before the commit.
CrashPrepared(q) ==
    /\ At(q, "prepare") /\ intent[call[q].id] # NONE
    /\ prepared' = prepared \cup {call[q].id}
    /\ Return(q)
    /\ UNCHANGED <<now, active, row, intent, pass>>

\* _fence_prepared, which revokes every session of the account.
Fence(q) ==
    LET d == call[q].id IN
    /\ At(q, "fence")
    /\ IF active /\ intent[d] # NONE /\ intent[d].state \in {"INTENT_CREATED", "PREPARED"}
       THEN /\ active' = FALSE
            /\ intent' = [intent EXCEPT ![d].state = "CONSUMED", ![d].receipt = "DELETION_PENDING_LEDGER"]
            /\ row' = [s \in Sessions |-> IF row[s] = NONE THEN NONE
                                          ELSE [row[s] EXCEPT !.revoked = TRUE]]
       ELSE UNCHANGED <<active, intent, row>>
    /\ Return(q)
    /\ UNCHANGED <<now, prepared, pass>>

-----------------------------------------------------------------------------
(* The retention pass.  One clock reading serves the whole pass.           *)

SelectSessions ==
    /\ pass.at = "idle"
    /\ pass' = [at |-> "sessions", time |-> now,
                ids |-> {s \in Sessions : row[s] # NONE /\
                           (row[s].revoked \/ row[s].idle <= now \/ row[s].absolute <= now)}]
    /\ UNCHANGED <<now, active, row, intent, prepared, call>>

\* The identifiers that were selected are deleted, whatever became of them.
DeleteSessions ==
    /\ pass.at = "sessions"
    /\ row' = [s \in Sessions |-> IF s \in pass.ids THEN NONE ELSE row[s]]
    /\ pass' = [pass EXCEPT !.at = "intents", !.ids = {}]
    /\ UNCHANGED <<now, active, intent, prepared, call>>

Due(d, t) == intent[d] # NONE /\ intent[d].state = "INTENT_CREATED" /\ intent[d].expires <= t

SelectIntents ==
    /\ pass.at = "intents"
    /\ pass' = [pass EXCEPT !.at = "expire", !.ids = {d \in Intents : Due(d, pass.time)}]
    /\ UNCHANGED <<now, active, row, intent, prepared, call>>

\* Mutant: the ledger is not asked.
ExpirableUnledgered(d, t) == Due(d, t)

\* Under the lock of the intent: it is still due, and has no ledger chain.
ExpirableNow(d, t) == Due(d, t) /\ d \notin prepared

ExpireIntent ==
    /\ pass.at = "expire"
    /\ \E d \in pass.ids :
          /\ intent' = IF ExpirableNow(d, pass.time) THEN [intent EXCEPT ![d] = NONE] ELSE intent
          /\ pass' = [pass EXCEPT !.ids = @ \ {d}]
    /\ UNCHANGED <<now, active, row, prepared, call>>

\* The pass ends, by itself or because the worker stops.
EndPass ==
    /\ pass.at # "idle"
    /\ pass' = IdlePass
    /\ UNCHANGED <<now, active, row, intent, prepared, call>>

Serve(q) ==
    \/ \E s \in Sessions : Arrive(q, s)
    \/ \E s \in Sessions \cup {NONE} : LoginRead(q, s)
    \/ LoginCommit(q) \/ AuthenticateRead(q) \/ AuthenticateRevoke(q) \/ AuthenticateRenew(q)
    \/ Read(q) \/ Logout(q)
    \/ CreateIntent(q) \/ Authorize(q) \/ EnsurePrepared(q) \/ CrashPrepared(q) \/ Fence(q)

Retain == SelectSessions \/ DeleteSessions \/ SelectIntents \/ ExpireIntent \/ EndPass

Next == Tick \/ (\E q \in Requests : Serve(q)) \/ Retain

Spec == Init /\ [][Next]_vars

-----------------------------------------------------------------------------

\* The steps at which a call names a session, and those at which it names an
\* intent.
SessionSteps == {"arrived", "revoke", "renew", "granted"}
IntentSteps  == {"prepare", "fence"}

CallRow == [at : {"idle", "login"} \cup SessionSteps \cup IntentSteps,
            id : Sessions \cup Intents \cup {NONE}, time : Nat, over : BOOLEAN]

\* Every row holds what its columns allow, a session can be idle no longer than
\* it may live, and a call names what its step is about.
TypeOK ==
    /\ now \in 0..MaxTime /\ active \in BOOLEAN /\ prepared \subseteq Intents
    /\ row \in [Sessions -> SessionRow \cup {NONE}]
    /\ \A s \in Sessions : row[s] # NONE => row[s].idle <= row[s].absolute
    /\ intent \in [Intents -> IntentRow \cup {NONE}]
    /\ call \in [Requests -> CallRow]
    /\ \A q \in Requests : /\ call[q].at \in SessionSteps => call[q].id \in Sessions
                           /\ call[q].at \in IntentSteps => call[q].id \in Intents
    /\ pass \in [at : {"idle", "sessions", "intents", "expire"}, time : Nat,
                 ids : SUBSET (Sessions \cup Intents)]
    /\ pass.at = "expire" => pass.ids \subseteq Intents

\* A request that arrives when its session is over, logged out, replaced by
\* another login, past its lifetime or fenced with its account, is refused:
\* not even a login that the fence missed lets one through.
EndedNeverServed == \A q \in Requests : At(q, "granted") => ~call[q].over

\* No renewal that was under way revives a session that was revoked meanwhile.
RevocationIsFinal ==
    [][\A s \in Sessions : row[s] # NONE /\ row[s].revoked => row'[s] = NONE \/ row'[s].revoked]_vars

\* An intent with a ledger chain keeps its row and its receipt, although the
\* append can be lost to the database and the retention pass removes intents
\* that the database calls unprepared.
PreparedIntentKept == \A d \in prepared : intent[d] # NONE

=============================================================================
