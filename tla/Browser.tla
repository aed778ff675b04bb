------------------------------- MODULE Browser -------------------------------
(***************************************************************************)
(* The private workspace of the web client: App, its comparison panel and  *)
(* the requests they have in flight.  Nothing serialises the handlers:     *)
(* each one captures what it needs, waits, and continues on whatever the   *)
(* workspace has become.  App fences the answer of a replay with the       *)
(* counter profileMutationVersion; a panel is fenced by React, which drops *)
(* the state of a panel whose key changes.                                 *)
(*                                                                         *)
(* `app' is the state App renders, `panel' the state of the panels, `ops'  *)
(* the requests in flight.  The counter is only ever compared with a value *)
(* captured earlier, so a request carries the outcome of that comparison:  *)
(* it is fresh until the counter moves.  The API is reduced to what its    *)
(* routes answer, and `server' is what they answer from.                   *)
(***************************************************************************)
EXTENDS Naturals, FiniteSets

CONSTANTS
    Files,        \* the files the user can upload, each one import
    BuiltIn,      \* the built-in simulated profile
    NONE,
    MaxInFlight,  \* bound: requests the user has in flight at once
    ReplayIds     \* bound: the identifiers of the replays something still names

VARIABLES app, panel, ops, server

vars == <<app, panel, ops, server>>

Profiles == Files \cup {BuiltIn}
ImportStates == {"ABSENT", "PROCESSING", "READY", "CONFIRMED", "DELETED"}
NoPanel == [comparison |-> NONE, comparing |-> FALSE]

\* The request a handler sends: what it captured, whether the version it
\* captured is still current, whether the component that waits for it is
\* still there, whether its cookie names a session (the sign-in needs none) and
\* the answer so far.
Request(kind, arg, cookie) ==
    [kind |-> kind, arg |-> arg, fresh |-> TRUE, mounted |-> TRUE,
     cookie |-> cookie /\ kind # "authenticate", ans |-> "sent", val |-> NONE]

Init ==
    /\ server \in [cookie : BOOLEAN, live : SUBSET {BuiltIn}, deleted : {FALSE},
                   imports : {[f \in Files |-> "ABSENT"]}]
    /\ app = [mode |-> "private", checking |-> TRUE, session |-> FALSE,
              tariff |-> FALSE, import |-> NONE, profile |-> NONE,
              replay |-> NONE, submitting |-> FALSE]
    /\ panel = NoPanel
    /\ ops = {Request("session", NONE, server.cookie)}

-----------------------------------------------------------------------------
(* What React renders.                                                     *)

\* Mutant: the panels are not keyed by the replay.
PanelKeyless(a) ==
    IF a.mode = "private" /\ ~a.checking /\ a.session /\ a.replay # NONE THEN 1 ELSE 0

\* The panels are keyed by the replay they belong to; 0 when none is shown.
PanelKey(a) ==
    IF a.mode = "private" /\ ~a.checking /\ a.session /\ a.replay # NONE
    THEN a.replay.id ELSE 0

Unmounted(o, kinds) ==
    {IF r.kind \in kinds
     THEN [r EXCEPT !.mounted = FALSE, !.fresh = FALSE, !.arg = NONE, !.val = NONE]
     ELSE r : r \in o}

\* A change of the key unmounts the panels and mounts empty ones.
Render(a, k, o) ==
    /\ app' = a
    /\ IF PanelKey(a) = PanelKey(app)
       THEN panel' = k /\ ops' = o
       ELSE panel' = NoPanel /\ ops' = Unmounted(o, {"comparison"})

\* profileMutationVersion.current += 1: only a load and a replay compare it.
Bumped(o) ==
    {IF r.kind \in {"load", "replay"}
     THEN [r EXCEPT !.fresh = FALSE, !.arg = NONE, !.val = NONE] ELSE r : r \in o}

\* setSession with a value: the effect on the session ignores the load of the
\* session before it and starts a load that expects the version of now.
SignIn(a, o) ==
    Render([a EXCEPT !.session = TRUE, !.checking = FALSE], panel,
           Unmounted(o, {"load"}) \cup {Request("load", NONE, server.cookie)})

Cleared == [app EXCEPT !.session = FALSE, !.tariff = FALSE, !.import = NONE,
                       !.profile = NONE, !.replay = NONE, !.submitting = FALSE]

\* clearPrivateWorkspace: everything private leaves the page.
ClearPrivateWorkspace(o) ==
    Render([Cleared EXCEPT !.checking = FALSE], panel, Unmounted(Bumped(o), {"load"}))

-----------------------------------------------------------------------------
(* What the user starts.                                                   *)

Usable == app.mode = "private" /\ ~app.checking /\ app.session

Send(kind, arg, a, k, o) ==
    /\ Cardinality(ops) < MaxInFlight
    /\ Render(a, k, o \cup {Request(kind, arg, server.cookie)})
    /\ UNCHANGED server

Authenticate ==
    /\ app.mode = "private" /\ ~app.checking /\ ~app.session
    /\ Send("authenticate", NONE, app, panel, ops)

ShowDemo ==
    /\ app.mode = "private" /\ ~app.session
    /\ Render([app EXCEPT !.mode = "demo", !.checking = FALSE], panel, ops)
    /\ UNCHANGED server

ShowPrivateWorkspace ==
    /\ app.mode = "demo"
    /\ Send("session", NONE, [app EXCEPT !.mode = "private", !.checking = TRUE], panel, ops)

\* A mutation of the profile moves the version before it sends its request.
Mutate(kind, arg) ==
    Send(kind, arg, [app EXCEPT !.submitting = FALSE], panel, Bumped(ops))

Upload == Usable /\ Mutate("upload", NONE)

InstallBuiltInProfile == Usable /\ Mutate("install", NONE)

ConfirmImport ==
    /\ Usable /\ app.import # NONE /\ app.import.state = "READY"
    /\ Mutate("confirm", app.import.id)

RefreshImport ==
    /\ Usable /\ app.import # NONE
    /\ Send("refresh", app.import.id, app, panel, ops)

CreateReplay ==
    /\ Usable /\ app.profile # NONE /\ app.tariff /\ ~app.submitting
    /\ Send("replay", app.profile, [app EXCEPT !.submitting = TRUE], panel, ops)

Logout == Usable /\ Send("logout", NONE, app, panel, ops)

\* PrivacyControls calls back when a receipt reports a deleted resource; the
\* resource need not be the one the page shows.
OnResourceDeleted ==
    /\ app.mode = "private" /\ server.deleted
    /\ \E import \in {app.import, NONE} :
          Render([app EXCEPT !.import = import, !.profile = NONE, !.replay = NONE,
                             !.submitting = FALSE], panel, Bumped(ops))
    /\ UNCHANGED server

OnAccountDeletionStarted ==
    /\ app.mode = "private" /\ ~server.cookie
    /\ ClearPrivateWorkspace(ops)
    /\ UNCHANGED server

CreateComparison ==
    /\ PanelKey(app) # 0 /\ ~panel.comparing
    /\ Send("comparison", app.replay.id, app, [panel EXCEPT !.comparing = TRUE], ops)

-----------------------------------------------------------------------------
(* The API, external to the client.                                        *)

Reply(o, ans, val) ==
    /\ ops' = (ops \ {o}) \cup {[o EXCEPT !.ans = ans, !.val = val, !.cookie = FALSE]}
    /\ UNCHANGED <<app, panel>>

\* The list of profiles is read one page of one profile long; a load that is no
\* longer fresh ignores it.
ServeRead(o) ==
    /\ o.cookie
    /\ \/ o.kind = "session" /\ Reply(o, "ok", NONE)
       \/ /\ o.kind = "load"
          /\ \E p \in IF o.fresh /\ server.live # {} THEN server.live ELSE {NONE} :
                Reply(o, "ok", p)
       \/ /\ o.kind \in {"status", "refresh"}
          /\ server.imports[o.arg] # "DELETED"
          /\ Reply(o, "ok", [id |-> o.arg, state |-> server.imports[o.arg]])
    /\ UNCHANGED server

\* A calculation is a durable job, accepted, polled and read when it succeeded;
\* a poll, too, is answered 401 once the session is over.
FinishDurableJob(o) ==
    /\ o.kind \in {"replay", "comparison"} /\ o.cookie
    /\ Reply(o, "ok", NONE)
    /\ UNCHANGED server

ServeWrite(o) ==
    \/ /\ o.kind = "authenticate"
       /\ server' = [server EXCEPT !.cookie = TRUE]
       /\ Reply(o, "ok", NONE)
    \/ /\ o.kind = "upload" /\ o.cookie
       /\ \E f \in Files : /\ server.imports[f] = "ABSENT"
                           /\ server' = [server EXCEPT !.imports[f] = "PROCESSING"]
                           /\ Reply(o, "ok", f)
    \/ /\ o.kind = "install" /\ o.cookie
       /\ server' = [server EXCEPT !.live = @ \cup {BuiltIn}]
       /\ Reply(o, "ok", BuiltIn)
    \/ /\ o.kind = "confirm" /\ o.cookie
       /\ server.imports[o.arg] \in {"READY", "CONFIRMED"}
       /\ server' = [server EXCEPT !.imports[o.arg] = "CONFIRMED", !.live = @ \cup {o.arg}]
       /\ Reply(o, "ok", o.arg)

\* A session that ends takes with it every request that carries its cookie.
SessionEnds(keep, answered) ==
    /\ server' = [server EXCEPT !.cookie = FALSE]
    /\ ops' = {[r EXCEPT !.cookie = FALSE] : r \in keep} \cup answered
    /\ UNCHANGED <<app, panel>>

ServeLogout(o) ==
    /\ o.kind = "logout" /\ o.cookie
    /\ SessionEnds(ops \ {o}, {[o EXCEPT !.ans = "ok", !.cookie = FALSE]})

Serve(o) ==
    /\ o.ans = "sent"
    /\ \/ ServeRead(o)
       \/ ServeWrite(o)
       \/ ServeLogout(o)
       \/ FinishDurableJob(o)

SessionExpires == server.cookie /\ SessionEnds(ops, {})

ImportReady ==
    /\ \E f \in Files : /\ server.imports[f] = "PROCESSING"
                        /\ server' = [server EXCEPT !.imports[f] = "READY"]
    /\ UNCHANGED <<app, panel, ops>>

ResourceDeleted ==
    /\ \E p \in server.live : \E gone \in {{}, {p}} :
          server' = [server EXCEPT !.live = @ \ {p}, !.deleted = TRUE,
                        !.imports = [f \in Files |-> IF f \in gone THEN "DELETED" ELSE @[f]]]
    /\ UNCHANGED <<app, panel, ops>>

-----------------------------------------------------------------------------
(* The continuations.  Every other answer is a failure to the handler: a   *)
(* refusal, a job that failed or outlived the polls, a lost connection.    *)

\* A request whose cookie names no session is answered 401, now or later.
Unauthorized(o) == o.ans = "sent" /\ ~o.cookie /\ o.kind \notin {"session", "authenticate"}

Outcomes(o) == {"failed"} \cup (IF o.ans = "ok" THEN {"ok"} ELSE {})
                          \cup (IF Unauthorized(o) THEN {"401"} ELSE {})

ContinueSession(ok, o) ==
    IF ok THEN SignIn(app, o)
    ELSE Render([app EXCEPT !.session = FALSE, !.checking = FALSE], panel,
                IF app.session THEN Unmounted(o, {"load"}) ELSE o)

ContinueAuthenticate(ok, o) ==
    IF ok THEN SignIn([app EXCEPT !.checking = FALSE], o) ELSE Render(app, panel, o)

\* The listed profile is taken only if no mutation started since the sign-in.
ContinueLoad(r, ok, o) ==
    Render(IF ok /\ r.mounted
           THEN [app EXCEPT !.tariff = TRUE,
                            !.profile = IF r.fresh THEN r.val ELSE @]
           ELSE app, panel, o)

\* upload: the answer names the import, whose status is then read.
ContinueUpload(r, ok, o) ==
    Render(app, panel, IF ok THEN o \cup {Request("status", r.val, server.cookie)} ELSE o)

\* The page now shows another profile, and nothing derived from the last one.
Show(import, profile, o) ==
    Render([app EXCEPT !.import = import, !.profile = profile, !.replay = NONE],
           panel, Bumped(o))

ContinueStatus(r, ok, o) == IF ok THEN Show(r.val, NONE, o) ELSE Render(app, panel, o)

ContinueInstall(r, ok, o) == IF ok THEN Show(NONE, r.val, o) ELSE Render(app, panel, o)

ContinueRefresh(r, ok, o) == Render(IF ok THEN [app EXCEPT !.import = r.val] ELSE app, panel, o)

\* Mutant: the confirmed profile replaces the one shown and fences nothing.
ContinueConfirmUnfenced(r, ok, o) ==
    Render(IF ok THEN [app EXCEPT !.profile = r.val] ELSE app, panel, o)

ContinueConfirm(r, ok, o) ==
    IF ok THEN Render([app EXCEPT !.profile = r.val], panel,
                      Bumped(o) \cup {Request("refresh", r.arg, server.cookie)})
          ELSE Render(app, panel, o)

\* The identifier of a replay that is not the one shown: nothing on the page
\* names it.  A calculation that was already stored answers with the replay it
\* stored; when that is the replay shown, nothing changes, as in a failure.
NewReplayId ==
    CHOOSE id \in ReplayIds :
        /\ app.replay = NONE \/ app.replay.id # id
        /\ panel.comparison # id
        /\ \A r \in ops : r.kind = "comparison" => r.arg # id

\* createReplay: a replay whose profile was mutated meanwhile is dropped.
ContinueReplay(r, ok, o) ==
    Render(IF ~r.fresh THEN app
           ELSE IF ok THEN [app EXCEPT !.submitting = FALSE,
                               !.replay = [id |-> NewReplayId, profile |-> r.arg]]
           ELSE [app EXCEPT !.submitting = FALSE], panel, o)

ContinueLogout(ok, o) ==
    IF ok THEN Render(Cleared, panel, Unmounted(Bumped(o), {"load"})) ELSE Render(app, panel, o)

ContinueComparison(r, ok, o) ==
    Render(app, IF r.mounted
                THEN [comparing |-> FALSE, comparison |-> IF ok THEN r.arg ELSE panel.comparison]
                ELSE panel, o)

\* A 401 outside the sign-in requests first clears the workspace; what the
\* handler does after that finds nothing left of what it captured.
Continue(r) ==
    LET o == ops \ {r} IN
    /\ UNCHANGED server
    /\ \E end \in Outcomes(r) :
          \/ end = "401" /\ ClearPrivateWorkspace(o)
          \/ /\ end # "401"
             /\ CASE r.kind = "session" -> ContinueSession(end = "ok", o)
                  [] r.kind = "authenticate" -> ContinueAuthenticate(end = "ok", o)
                  [] r.kind = "load" -> ContinueLoad(r, end = "ok", o)
                  [] r.kind = "upload" -> ContinueUpload(r, end = "ok", o)
                  [] r.kind = "status" -> ContinueStatus(r, end = "ok", o)
                  [] r.kind = "install" -> ContinueInstall(r, end = "ok", o)
                  [] r.kind = "refresh" -> ContinueRefresh(r, end = "ok", o)
                  [] r.kind = "confirm" -> ContinueConfirm(r, end = "ok", o)
                  [] r.kind = "replay" -> ContinueReplay(r, end = "ok", o)
                  [] r.kind = "logout" -> ContinueLogout(end = "ok", o)
                  [] r.kind = "comparison" -> ContinueComparison(r, end = "ok", o)

Next ==
    \/ Authenticate \/ ShowDemo \/ ShowPrivateWorkspace
    \/ Upload \/ InstallBuiltInProfile \/ ConfirmImport \/ RefreshImport
    \/ CreateReplay \/ Logout \/ OnResourceDeleted \/ OnAccountDeletionStarted
    \/ CreateComparison
    \/ SessionExpires \/ ImportReady \/ ResourceDeleted
    \/ \E r \in ops : Serve(r) \/ Continue(r)

Spec == Init /\ [][Next]_vars

-----------------------------------------------------------------------------

\* The workspace, its panel and the server hold what they are declared to hold;
\* a replay that is shown is one of a profile.
TypeOK ==
    /\ app \in [mode : {"private", "demo"}, checking : BOOLEAN, session : BOOLEAN,
                tariff : BOOLEAN, import : {NONE} \cup [id : Files, state : ImportStates],
                profile : Profiles \cup {NONE},
                replay : {NONE} \cup [id : ReplayIds, profile : Profiles],
                submitting : BOOLEAN]
    /\ panel \in [comparison : {NONE} \cup ReplayIds, comparing : BOOLEAN]
    /\ server \in [cookie : BOOLEAN, live : SUBSET Profiles, deleted : BOOLEAN,
                   imports : [Files -> ImportStates]]

\* A replay that is still going to be shown is a replay of the profile shown:
\* whatever replaces the profile while the replay is calculated, an upload, the
\* built-in profile, a confirmation, a deletion or the end of the session, also
\* fences it.  The listing that a new sign-in reads is the one exception.
ReplacedProfileFencesReplay ==
    [][\A r \in ops \cap ops' :
          r.kind = "replay" /\ r.fresh
             => app'.profile = app.profile \/ \E l \in ops \ ops' : l.kind = "load"]_vars

\* At most one replay can still be shown, and while it is calculated the form
\* that would submit another is disabled.
OneReplayAtATime ==
    LET pending == {r \in ops : r.kind = "replay" /\ r.fresh}
    IN  Cardinality(pending) <= 1 /\ (pending # {} => app.submitting)

\* The comparison shown is one of the replay shown: the answer to a comparison
\* of an earlier replay reaches a panel that is gone.
ComparisonIsForReplay ==
    panel.comparison # NONE => app.replay # NONE /\ panel.comparison = app.replay.id

\* No panel is left disabled: while it says that it is busy, an answer that
\* ends the wait is still to come.
BusyHasRequest ==
    panel.comparing => \E r \in ops : r.kind = "comparison" /\ r.mounted

\* What the workspace shows belongs together: one replay is under way at a time,
\* the comparison is of the replay shown, and no panel waits for nothing
\* (App.tsx submitReplay, ComparisonWorkspace.tsx).
PanelsConsistent == TypeOK /\ OneReplayAtATime /\ ComparisonIsForReplay /\ BusyHasRequest
=============================================================================
