---------------------------- MODULE AccessProofs ----------------------------
(***************************************************************************)
(* The theorems about the sessions and the deletion intents of an account. *)
(*                                                                         *)
(* That a request of an ended session is never served is not inductive as  *)
(* it stands: between its arrival and its answer other requests log in,    *)
(* renew and revoke, and the retention pass deletes rows.  What is carried  *)
(* along is that a session which was over stays over while a call that has *)
(* not read it yet names it (OverIsDead).                                  *)
(***************************************************************************)
EXTENDS Access, TLAPS

\* What a call remembers about its session is still so when it reads the row,
\* and afterwards the call can only revoke and return.
OverIsDead ==
    \A q \in Requests : call[q].over =>
        At(q, "revoke") \/ (At(q, "arrived") /\ Dead(call[q].id))

IInv == TypeOK /\ OverIsDead /\ PreparedIntentKept

-----------------------------------------------------------------------------
(* Rows *)

\* The earlier of two times, as authenticate takes it with min.
LEMMA MinOfTwo ==
    ASSUME NEW a \in Nat, NEW b \in Nat
    PROVE  Min({a, b}) \in {a, b} /\ Min({a, b}) <= a /\ Min({a, b}) <= b
<1>1. \E x \in {a, b} : \A y \in {a, b} : x <= y
  <2>1. CASE a <= b
    BY <2>1
  <2>2. CASE b <= a
    BY <2>2
  <2> QED
    BY <2>1, <2>2
<1>2. Min({a, b}) \in {a, b} /\ \A y \in {a, b} : Min({a, b}) <= y
  BY <1>1 DEF Min
<1> QED
  BY <1>2

\* A renewal keeps the row's end and its revocation (auth.py authenticate).
LEMMA RenewedRowOK ==
    ASSUME NEW r \in SessionRow, NEW t \in Nat
    PROVE  /\ Renewed(r, t) \in SessionRow
           /\ Renewed(r, t).revoked = r.revoked /\ Renewed(r, t).absolute = r.absolute
           /\ Renewed(r, t).idle <= Renewed(r, t).absolute
<1>1. t + Idle \in Nat /\ r.absolute \in Nat
  BY AccessConstants DEF SessionRow
<1> DEFINE e == Min({t + Idle, r.absolute})
<1>2. e \in Nat /\ e <= r.absolute
  BY <1>1, MinOfTwo
<1>3. Renewed(r, t) = [r EXCEPT !.idle = e]
  BY DEF Renewed
<1> HIDE DEF e
<1> QED
  BY <1>2, <1>3 DEF SessionRow

LEMMA RevokedRowOK ==
    ASSUME NEW r \in SessionRow
    PROVE  /\ [r EXCEPT !.revoked = TRUE] \in SessionRow
           /\ [r EXCEPT !.revoked = TRUE].revoked
           /\ [r EXCEPT !.revoked = TRUE].idle = r.idle
           /\ [r EXCEPT !.revoked = TRUE].absolute = r.absolute
  BY Zenon DEF SessionRow

-----------------------------------------------------------------------------
(* What every step does *)

Named(s) == \E q \in Requests : call[q].id = s

\* The row of a session is deleted, or keeps its end and its revocation.
RowKept(s) ==
    \/ row'[s] = NONE
    \/ /\ row[s] # NONE /\ row'[s] # NONE /\ row'[s].absolute = row[s].absolute
       /\ row[s].revoked => row'[s].revoked

\* Only a session that no call names is new.
RowsKept == \A s \in Sessions : row[s] # NONE \/ Named(s) => RowKept(s)

CallsKept ==
    \A q \in Requests : call'[q].over =>
        call'[q] = call[q] \/ At(q, "revoke")' \/ (At(q, "arrived")' /\ Dead(call[q].id)')

\* The conjuncts of TypeOK about calls and about sessions, for the next state.
CallsTyped ==
    /\ call' \in [Requests -> CallRow]
    /\ \A q \in Requests : /\ call'[q].at \in SessionSteps => call'[q].id \in Sessions
                           /\ call'[q].at \in IntentSteps => call'[q].id \in Intents

RowsTyped ==
    /\ row' \in [Sessions -> SessionRow \cup {NONE}]
    /\ \A s \in Sessions : row'[s] # NONE => row'[s].idle <= row'[s].absolute

StepOK ==
    /\ TypeOK' /\ PreparedIntentKept'
    /\ RowsKept /\ CallsKept
    /\ now <= now' /\ (active' => active)

\* A session that is over stays over while a call names it.
LEMMA DeadStays ==
    ASSUME TypeOK, TypeOK', RowsKept, now <= now', active' => active,
           NEW s \in Sessions, Named(s), Dead(s)
    PROVE  Dead(s)'
<1>1. RowKept(s)
  BY DEF RowsKept
<1>2. CASE row'[s] = NONE
  BY <1>2 DEF Dead
<1>3. CASE row'[s] # NONE
  <2>1. /\ row[s] # NONE /\ row'[s].absolute = row[s].absolute
        /\ row[s].revoked => row'[s].revoked
    BY <1>1, <1>3 DEF RowKept
  <2>2. now \in Nat /\ now' \in Nat /\ row[s].absolute \in Nat
    BY <2>1 DEF TypeOK, SessionRow
  <2> QED
    BY <2>1, <2>2 DEF Dead
<1> QED
  BY <1>2, <1>3

LEMMA StepKeeps ==
    ASSUME IInv, StepOK
    PROVE  IInv'
<1>1. ASSUME NEW q \in Requests, call'[q].over
      PROVE  At(q, "revoke")' \/ (At(q, "arrived")' /\ Dead(call[q].id)')
  <2>1. CASE call'[q] = call[q]
    <3>1. At(q, "revoke") \/ (At(q, "arrived") /\ Dead(call[q].id))
      BY <1>1, <2>1 DEF IInv, OverIsDead
    <3>2. CASE At(q, "revoke")
      BY <2>1, <3>2 DEF At
    <3>3. CASE At(q, "arrived") /\ Dead(call[q].id)
      <4>1. call[q].id \in Sessions /\ Named(call[q].id)
        BY <3>3 DEF IInv, TypeOK, SessionSteps, At, Named
      <4>2. row'[call[q].id] = NONE \/ row'[call[q].id].revoked
               \/ now' >= row'[call[q].id].absolute \/ ~active'
        BY <3>3, <4>1, DeadStays DEF IInv, StepOK, Dead
      <4> QED
        BY <2>1, <3>3, <4>2 DEF At, Dead
    <3> QED
      BY <3>1, <3>2, <3>3
  <2> QED
    BY <1>1, <2>1 DEF StepOK, CallsKept
<1> QED
  BY <1>1 DEF IInv, StepOK, OverIsDead

-----------------------------------------------------------------------------
(* The steps of a call *)

\* A call that returns remembers nothing.
LEMMA ReturnOK ==
    ASSUME TypeOK, NEW q \in Requests, Return(q)
    PROVE  CallsTyped /\ CallsKept
<1>1. \A r \in Requests : call'[r] = IF r = q THEN IdleCall ELSE call[r]
  BY DEF TypeOK, Return
<1>2. IdleCall \in CallRow
  BY DEF IdleCall, CallRow
<1>3. IdleCall.at = "idle" /\ ~IdleCall.over
  BY DEF IdleCall
<1>4. CallsKept
  BY <1>1, <1>3 DEF CallsKept
<1>5. call' \in [Requests -> CallRow]
  BY <1>2 DEF TypeOK, Return
<1>6. \A r \in Requests : /\ call'[r].at \in SessionSteps => call'[r].id \in Sessions
                          /\ call'[r].at \in IntentSteps => call'[r].id \in Intents
  BY <1>1, <1>3 DEF TypeOK, SessionSteps, IntentSteps
<1> QED
  BY <1>4, <1>5, <1>6 DEF CallsTyped

\* Rows that are left alone are kept.
LEMMA UnchangedRows ==
    ASSUME TypeOK, UNCHANGED row
    PROVE  RowsTyped /\ RowsKept
  BY DEF TypeOK, RowsTyped, RowsKept, RowKept

\* A session is revoked, if it has a row.
LEMMA RevokedRows ==
    ASSUME TypeOK, NEW s \in Sessions,
           row' = [row EXCEPT ![s] = IF @ = NONE THEN @ ELSE [@ EXCEPT !.revoked = TRUE]]
    PROVE  RowsTyped /\ RowsKept
<1>1. CASE row[s] = NONE
  <2>1. row' = row
    BY <1>1 DEF TypeOK
  <2> QED
    BY <2>1, UnchangedRows
<1>2. CASE row[s] # NONE
  <2> DEFINE new == [row[s] EXCEPT !.revoked = TRUE]
  <2>1. row' = [row EXCEPT ![s] = new] /\ row[s] \in SessionRow /\ row[s].idle <= row[s].absolute
    BY <1>2 DEF TypeOK
  <2>2. /\ new \in SessionRow /\ new # NONE /\ new.revoked
        /\ new.idle = row[s].idle /\ new.absolute = row[s].absolute
    BY <2>1, RevokedRowOK, AccessConstants
  <2> HIDE DEF new
  <2> QED
    BY Zenon, <1>2, <2>1, <2>2 DEF TypeOK, RowsTyped, RowsKept, RowKept
<1> QED
  BY <1>1, <1>2

LEMMA ArriveOK ==
    ASSUME IInv, NEW q \in Requests, NEW s \in Sessions, Arrive(q, s)
    PROVE  StepOK
<1> DEFINE new == [at |-> "arrived", id |-> s, time |-> 0, over |-> Dead(s)]
<1>1. /\ UNCHANGED <<now, active, row, intent, prepared, pass>>
      /\ call' = [call EXCEPT ![q] = new]
  BY DEF Arrive
<1>2. Dead(s) \in BOOLEAN
  BY DEF IInv, TypeOK, SessionRow, Dead
<1>3. /\ new \in CallRow
      /\ new.at = "arrived" /\ new.id = s /\ (new.over <=> Dead(s))
  BY <1>2 DEF SessionSteps, CallRow
<1> HIDE DEF new
<1>4. TypeOK'
  BY <1>1, <1>3 DEF IInv, TypeOK, SessionSteps, IntentSteps
<1>5. CallsKept
  <2>1. ASSUME NEW r \in Requests, call'[r].over, call'[r] # call[r]
        PROVE  At(r, "arrived")' /\ Dead(call[r].id)'
    BY <1>1, <1>3, <2>1 DEF IInv, TypeOK, At, Dead
  <2> QED
    BY <2>1 DEF CallsKept
<1>6. RowsKept
  BY Zenon, <1>1, UnchangedRows DEF IInv
<1> QED
  BY <1>1, <1>4, <1>5, <1>6 DEF StepOK, IInv, PreparedIntentKept, TypeOK

LEMMA LoginReadOK ==
    ASSUME IInv, NEW q \in Requests, NEW s \in Sessions \cup {NONE}, LoginRead(q, s)
    PROVE  StepOK
<1> DEFINE new == [at |-> "login", id |-> s, time |-> 0, over |-> FALSE]
<1>1. /\ UNCHANGED <<now, active, row, intent, prepared, pass>>
      /\ call' = [call EXCEPT ![q] = new]
  BY DEF LoginRead
<1>2. /\ new \in CallRow
      /\ new.at = "login" /\ ~new.over
  BY Zenon DEF CallRow
<1> HIDE DEF new
<1>3. TypeOK'
  BY Zenon, <1>1, <1>2 DEF IInv, TypeOK, SessionSteps, IntentSteps
<1>4. CallsKept
  BY <1>1, <1>2 DEF IInv, TypeOK, CallsKept
<1>5. RowsKept
  BY Zenon, <1>1, UnchangedRows DEF IInv
<1> QED
  BY <1>1, <1>3, <1>4, <1>5 DEF StepOK, IInv, PreparedIntentKept, TypeOK

LEMMA LoginCommitOK ==
    ASSUME IInv, NEW q \in Requests, LoginCommit(q)
    PROVE  StepOK
<1>1. UNCHANGED <<now, active, intent, prepared, pass>> /\ Return(q)
  BY DEF LoginCommit
<1>2. PICK new \in {s \in Sessions : row[s] = NONE /\ \A r \in Requests : call[r].id # s} :
          row' = [s \in Sessions |->
             IF s = new THEN [revoked |-> FALSE, idle |-> now + Idle, absolute |-> now + Absolute]
             ELSE IF s = call[q].id /\ row[s] # NONE THEN [row[s] EXCEPT !.revoked = TRUE]
             ELSE row[s]]
  BY DEF LoginCommit
<1> DEFINE r0 == [revoked |-> FALSE, idle |-> now + Idle, absolute |-> now + Absolute]
<1>3. r0 \in SessionRow /\ r0.idle <= r0.absolute
  <2>1. now \in Nat
    BY DEF IInv, TypeOK
  <2> QED
    BY <2>1, AccessConstants DEF SessionRow
<1> HIDE DEF r0
<1>4. ASSUME NEW s \in Sessions
      PROVE  /\ row'[s] \in SessionRow \cup {NONE}
             /\ row'[s] # NONE => row'[s].idle <= row'[s].absolute
             /\ row[s] # NONE \/ Named(s) => RowKept(s)
  <2>1. CASE s = new
    <3>1. row'[s] = r0 /\ row[s] = NONE /\ ~Named(s)
      BY Zenon, <1>2, <2>1 DEF r0, Named
    <3> QED
      BY <1>3, <3>1
  <2>2. CASE s # new /\ s = call[q].id /\ row[s] # NONE
    <3>1. row'[s] = [row[s] EXCEPT !.revoked = TRUE]
      BY <1>2, <2>2
    <3>2. row[s] \in SessionRow /\ row[s].idle <= row[s].absolute
      BY <2>2 DEF IInv, TypeOK
    <3>3. row'[s] \in SessionRow /\ row'[s] # NONE /\ row'[s].revoked
             /\ row'[s].idle = row[s].idle /\ row'[s].absolute = row[s].absolute
      BY <3>1, <3>2, RevokedRowOK, AccessConstants
    <3> QED
      BY <2>2, <3>2, <3>3 DEF RowKept
  <2>3. CASE s # new /\ ~(s = call[q].id /\ row[s] # NONE)
    <3>1. row'[s] = row[s]
      BY <1>2, <2>3
    <3> QED
      BY <3>1 DEF IInv, TypeOK, RowKept
  <2> QED
    BY <2>1, <2>2, <2>3
<1>5. row' \in [Sessions -> SessionRow \cup {NONE}]
  <2>1. DOMAIN row' = Sessions /\ row' = [s \in Sessions |-> row'[s]]
    BY Zenon, <1>2
  <2> QED
    BY <1>4, <2>1
<1>6. TypeOK'
  BY <1>1, <1>4, <1>5, ReturnOK DEF IInv, TypeOK, CallsTyped
<1> QED
  BY <1>1, <1>4, <1>6, ReturnOK DEF StepOK, IInv, PreparedIntentKept, TypeOK, RowsKept

\* A call moves to another step, and no earlier than the session allows.
LEMMA AuthenticateReadOK ==
    ASSUME IInv, NEW q \in Requests, AuthenticateRead(q)
    PROVE  StepOK
<1> DEFINE s == call[q].id
           at == IF now >= row[s].idle \/ now >= row[s].absolute THEN "revoke" ELSE "renew"
<1>1. UNCHANGED <<now, active, row, intent, prepared, pass>> /\ At(q, "arrived")
  BY DEF AuthenticateRead
<1>2. RowsTyped /\ RowsKept
  BY <1>1, UnchangedRows DEF IInv
<1>3. CallsTyped /\ CallsKept
  <2>1. CASE row[s] = NONE \/ ~active \/ row[s].revoked
    BY <2>1, ReturnOK DEF IInv, AuthenticateRead
  <2>2. CASE ~(row[s] = NONE \/ ~active \/ row[s].revoked)
    <3>1. call' = [call EXCEPT ![q].time = now, ![q].at = at]
      BY <2>2 DEF AuthenticateRead
    <3>2. at \in {"revoke", "renew"} /\ s \in Sessions /\ now \in Nat
      BY <1>1 DEF IInv, TypeOK, SessionSteps, At
    <3>3. call[q].over => at = "revoke"
      BY <1>1, <2>2 DEF IInv, OverIsDead, Dead, At
    <3> HIDE DEF at
    <3>4. call[q] \in CallRow /\ \A r \in Requests : r # q => call'[r] = call[r]
      BY <3>1 DEF IInv, TypeOK
    <3>5. call'[q] \in CallRow /\ call'[q].at = at /\ call'[q].id = s /\ call'[q].over = call[q].over
      BY Zenon, <3>1, <3>2, <3>4 DEF IInv, TypeOK, CallRow, SessionSteps
    <3>6. CallsTyped
      BY <3>1, <3>2, <3>4, <3>5 DEF IInv, TypeOK, CallsTyped, SessionSteps, IntentSteps
    <3>7. CallsKept
      BY Zenon, <3>2, <3>3, <3>4, <3>5 DEF CallsKept, At
    <3> QED
      BY Zenon, <3>6, <3>7
  <2> QED
    BY Zenon, <2>1, <2>2
<1> QED
  BY <1>1, <1>2, <1>3 DEF StepOK, IInv, PreparedIntentKept, TypeOK, CallsTyped, RowsTyped

LEMMA AuthenticateRevokeOK ==
    ASSUME IInv, NEW q \in Requests, AuthenticateRevoke(q)
    PROVE  StepOK
<1>1. /\ UNCHANGED <<now, active, intent, prepared, pass>> /\ At(q, "revoke") /\ Return(q)
      /\ row' = [row EXCEPT ![call[q].id] = IF @ = NONE THEN @ ELSE [@ EXCEPT !.revoked = TRUE]]
  BY DEF AuthenticateRevoke
<1>2. call[q].id \in Sessions
  BY <1>1 DEF IInv, TypeOK, SessionSteps, At
<1>3. RowsTyped /\ RowsKept
  BY Zenon, <1>1, <1>2, RevokedRows DEF IInv
<1>4. CallsTyped /\ CallsKept
  BY <1>1, ReturnOK DEF IInv
<1> QED
  BY <1>1, <1>3, <1>4 DEF StepOK, IInv, PreparedIntentKept, TypeOK, CallsTyped, RowsTyped

LEMMA AuthenticateRenewOK ==
    ASSUME IInv, NEW q \in Requests, AuthenticateRenew(q)
    PROVE  StepOK
<1> DEFINE s == call[q].id
<1>1. UNCHANGED <<now, active, intent, prepared, pass>> /\ At(q, "renew")
  BY DEF AuthenticateRenew
<1>2. s \in Sessions /\ ~call[q].over
  BY <1>1 DEF IInv, TypeOK, SessionSteps, At, OverIsDead
<1>3. RowsTyped /\ RowsKept /\ CallsTyped /\ CallsKept
  <2>1. CASE row[s] = NONE
    BY <2>1, ReturnOK, UnchangedRows DEF IInv, AuthenticateRenew
  <2>2. CASE row[s] # NONE
    <3> DEFINE new == Renewed(row[s], call[q].time)
    <3>1. /\ row' = [row EXCEPT ![s] = new]
          /\ call' = [call EXCEPT ![q].at = "granted", ![q].time = 0]
      BY <2>2 DEF AuthenticateRenew
    <3>2. row[s] \in SessionRow /\ call[q] \in CallRow /\ call[q].time \in Nat
      BY <1>2, <2>2 DEF IInv, TypeOK, CallRow
    <3>3. /\ new \in SessionRow /\ new # NONE /\ new.revoked = row[s].revoked
          /\ new.absolute = row[s].absolute /\ new.idle <= new.absolute
      BY Zenon, <3>2, RenewedRowOK, AccessConstants
    <3> HIDE DEF new
    <3>4. RowsTyped /\ RowsKept
      BY <1>2, <2>2, <3>1, <3>3 DEF IInv, TypeOK, RowsTyped, RowsKept, RowKept
    <3>5. \A r \in Requests : r # q => call'[r] = call[r]
      BY <3>1 DEF IInv, TypeOK
    <3>6. /\ call'[q] \in CallRow /\ call'[q].at = "granted" /\ call'[q].id = s
          /\ call'[q].over = call[q].over
      BY Zenon, <3>1, <3>2 DEF IInv, TypeOK, CallRow, SessionSteps
    <3>7. CallsTyped
      BY <1>2, <3>1, <3>5, <3>6 DEF IInv, TypeOK, CallsTyped, SessionSteps, IntentSteps
    <3>8. CallsKept
      BY <1>2, <3>5, <3>6 DEF CallsKept
    <3> QED
      BY <3>4, <3>7, <3>8
  <2> QED
    BY <2>1, <2>2
<1> QED
  BY <1>1, <1>3 DEF StepOK, IInv, PreparedIntentKept, TypeOK, CallsTyped, RowsTyped

LEMMA ReadOK ==
    ASSUME IInv, NEW q \in Requests, Read(q)
    PROVE  StepOK
<1>1. UNCHANGED <<now, active, row, intent, prepared, pass>> /\ Return(q)
  BY DEF Read
<1>2. RowsTyped /\ RowsKept /\ CallsTyped /\ CallsKept
  BY Zenon, <1>1, UnchangedRows, ReturnOK DEF IInv
<1> QED
  BY <1>1, <1>2 DEF StepOK, IInv, PreparedIntentKept, TypeOK, CallsTyped, RowsTyped

LEMMA LogoutOK ==
    ASSUME IInv, NEW q \in Requests, Logout(q)
    PROVE  StepOK
<1>1. /\ UNCHANGED <<now, active, intent, prepared, pass>> /\ At(q, "granted") /\ Return(q)
      /\ row' = [row EXCEPT ![call[q].id] = IF @ = NONE THEN @ ELSE [@ EXCEPT !.revoked = TRUE]]
  BY DEF Logout
<1>2. call[q].id \in Sessions
  BY <1>1 DEF IInv, TypeOK, SessionSteps, At
<1>3. RowsTyped /\ RowsKept
  BY Zenon, <1>1, <1>2, RevokedRows DEF IInv
<1>4. CallsTyped /\ CallsKept
  BY Zenon, <1>1, ReturnOK DEF IInv
<1> QED
  BY <1>1, <1>3, <1>4 DEF StepOK, IInv, PreparedIntentKept, TypeOK, CallsTyped, RowsTyped

-----------------------------------------------------------------------------
(* The steps of a deletion *)

LEMMA CreateIntentOK ==
    ASSUME IInv, NEW q \in Requests, CreateIntent(q)
    PROVE  StepOK
<1>1. UNCHANGED <<now, active, row, prepared, pass>> /\ Return(q)
  BY DEF CreateIntent
<1>2. RowsTyped /\ RowsKept /\ CallsTyped /\ CallsKept
  BY <1>1, UnchangedRows, ReturnOK DEF IInv
<1>3. PICK new \in {d \in Intents : intent[d] = NONE /\ d \notin prepared
                                      /\ \A r \in Requests : call[r].id # d} :
          intent' = [d \in Intents |->
             IF d = new THEN [state |-> "INTENT_CREATED", expires |-> now + IntentLife,
                              receipt |-> "INTENT_CREATED"]
             ELSE IF intent[d] = NONE THEN NONE
             ELSE [intent[d] EXCEPT !.state = "INVALIDATED"]]
  BY DEF CreateIntent
<1>4. ASSUME NEW d \in Intents
      PROVE  /\ intent'[d] \in IntentRow \cup {NONE}
             /\ intent[d] # NONE => intent'[d] # NONE
  <2>1. CASE d = new
    <3>1. intent'[d] = [state |-> "INTENT_CREATED", expires |-> now + IntentLife,
                        receipt |-> "INTENT_CREATED"]
      BY <1>3, <2>1
    <3>2. now + IntentLife \in Nat
      BY AccessConstants DEF IInv, TypeOK
    <3> QED
      BY <1>3, <2>1, <3>1, <3>2 DEF IntentRow
  <2>2. CASE d # new /\ intent[d] = NONE
    BY <1>3, <2>2
  <2>3. CASE d # new /\ intent[d] # NONE
    <3>1. intent'[d] = [intent[d] EXCEPT !.state = "INVALIDATED"] /\ intent[d] \in IntentRow
      BY <1>3, <2>3 DEF IInv, TypeOK
    <3>2. intent'[d] \in IntentRow
      BY <3>1 DEF IntentRow
    <3> QED
      BY <3>2, AccessConstants
  <2> QED
    BY <2>1, <2>2, <2>3
<1>5. intent' \in [Intents -> IntentRow \cup {NONE}]
  BY <1>3, <1>4
<1> QED
  BY <1>1, <1>2, <1>4, <1>5 DEF StepOK, IInv, PreparedIntentKept, TypeOK, CallsTyped, RowsTyped

LEMMA AuthorizeOK ==
    ASSUME IInv, NEW q \in Requests, Authorize(q)
    PROVE  StepOK
<1>1. UNCHANGED <<now, active, row, intent, prepared, pass>>
  BY DEF Authorize
<1>2. PICK d \in Intents : call' = [call EXCEPT ![q].id = d, ![q].at = "prepare", ![q].over = FALSE]
  BY Zenon DEF Authorize
<1>3. call[q] \in CallRow /\ \A r \in Requests : r # q => call'[r] = call[r]
  BY <1>2 DEF IInv, TypeOK
<1>4. call'[q] \in CallRow /\ call'[q].at = "prepare" /\ call'[q].id = d /\ ~call'[q].over
  BY Zenon, <1>2, <1>3 DEF IInv, TypeOK, CallRow, IntentSteps
<1>5. CallsTyped
  BY <1>2, <1>3, <1>4 DEF IInv, TypeOK, CallsTyped, SessionSteps, IntentSteps
<1>6. CallsKept
  BY <1>3, <1>4 DEF CallsKept
<1>7. RowsTyped /\ RowsKept
  BY <1>1, UnchangedRows DEF IInv
<1> QED
  BY <1>1, <1>5, <1>6, <1>7 DEF StepOK, IInv, PreparedIntentKept, TypeOK, CallsTyped, RowsTyped

LEMMA EnsurePreparedOK ==
    ASSUME IInv, NEW q \in Requests, EnsurePrepared(q)
    PROVE  StepOK
<1> DEFINE d == call[q].id
           new == [intent[d] EXCEPT !.state = IF @ = "INTENT_CREATED" THEN "PREPARED" ELSE @,
                                    !.receipt = IF @ = "INTENT_CREATED" THEN "PREPARED" ELSE @]
<1>1. UNCHANGED <<now, active, row, pass>> /\ At(q, "prepare")
  BY DEF EnsurePrepared
<1>2. RowsTyped /\ RowsKept
  BY <1>1, UnchangedRows DEF IInv
<1>3. d \in Intents /\ call[q] \in CallRow /\ ~call[q].over
  BY <1>1 DEF IInv, TypeOK, IntentSteps, At, OverIsDead
<1>4. CASE intent[d] = NONE
  <2>1. UNCHANGED <<intent, prepared>> /\ CallsTyped /\ CallsKept
    BY Zenon, <1>4, ReturnOK DEF IInv, EnsurePrepared
  <2> QED
    BY <1>1, <1>2, <2>1 DEF StepOK, IInv, PreparedIntentKept, TypeOK, CallsTyped, RowsTyped
<1>5. CASE intent[d] # NONE
  <2>1. /\ prepared' = prepared \cup {d}
        /\ intent' = [intent EXCEPT
              ![d].state = IF @ = "INTENT_CREATED" THEN "PREPARED" ELSE @,
              ![d].receipt = IF @ = "INTENT_CREATED" THEN "PREPARED" ELSE @]
        /\ call' = [call EXCEPT ![q].at = "fence"]
    BY <1>5 DEF EnsurePrepared, Go
  <2>2. new \in IntentRow
    <3>1. intent[d] \in IntentRow
      BY <1>3, <1>5 DEF IInv, TypeOK
    <3> QED
      BY Zenon, <3>1 DEF IntentRow
  <2>3. new # NONE
    BY <2>2, AccessConstants
  <2>9. /\ \A e \in Intents : intent'[e] = IF e = d THEN new ELSE intent[e]
        /\ DOMAIN intent' = Intents /\ intent' = [e \in Intents |-> intent'[e]]
        /\ prepared' = prepared \cup {d}
    BY Zenon, <1>3, <2>1 DEF IInv, TypeOK
  <2> HIDE DEF new
  <2>4. intent' \in [Intents -> IntentRow \cup {NONE}] /\ PreparedIntentKept' /\ prepared' \subseteq Intents
    BY <1>3, <2>2, <2>3, <2>9 DEF IInv, TypeOK, PreparedIntentKept
  <2>5. \A r \in Requests : r # q => call'[r] = call[r]
    BY <2>1 DEF IInv, TypeOK
  <2>6. call'[q] \in CallRow /\ call'[q].at = "fence" /\ call'[q].id = d /\ ~call'[q].over
    BY Zenon, <1>3, <2>1 DEF IInv, TypeOK, CallRow, IntentSteps
  <2>7. CallsTyped
    BY <1>3, <2>1, <2>5, <2>6 DEF IInv, TypeOK, CallsTyped, SessionSteps, IntentSteps
  <2>8. CallsKept
    BY <2>5, <2>6 DEF CallsKept
  <2> QED
    BY <1>1, <1>2, <2>4, <2>7, <2>8 DEF StepOK, IInv, TypeOK, CallsTyped, RowsTyped
<1> QED
  BY Zenon, <1>4, <1>5

LEMMA CrashPreparedOK ==
    ASSUME IInv, NEW q \in Requests, CrashPrepared(q)
    PROVE  StepOK
<1>1. /\ UNCHANGED <<now, active, row, intent, pass>> /\ Return(q) /\ At(q, "prepare")
      /\ intent[call[q].id] # NONE /\ prepared' = prepared \cup {call[q].id}
  BY Zenon DEF CrashPrepared
<1>2. RowsTyped /\ RowsKept /\ CallsTyped /\ CallsKept
  BY <1>1, UnchangedRows, ReturnOK DEF IInv
<1>3. call[q].id \in Intents
  BY <1>1 DEF IInv, TypeOK, IntentSteps, At
<1>4. PreparedIntentKept' /\ prepared' \subseteq Intents
  BY <1>1, <1>3 DEF IInv, TypeOK, PreparedIntentKept
<1> QED
  BY <1>1, <1>2, <1>4 DEF StepOK, IInv, TypeOK, CallsTyped, RowsTyped

LEMMA FenceOK ==
    ASSUME IInv, NEW q \in Requests, Fence(q)
    PROVE  StepOK
<1> DEFINE d == call[q].id
<1>1. UNCHANGED <<now, prepared, pass>> /\ Return(q) /\ At(q, "fence")
  BY DEF Fence
<1>2. CallsTyped /\ CallsKept
  BY <1>1, ReturnOK DEF IInv
<1>3. CASE UNCHANGED <<active, intent, row>>
  <2>1. RowsTyped /\ RowsKept
    BY Zenon, <1>3, UnchangedRows DEF IInv
  <2> QED
    BY <1>1, <1>2, <1>3, <2>1 DEF StepOK, IInv, PreparedIntentKept, TypeOK, CallsTyped, RowsTyped
<1>4. CASE active /\ intent[d] # NONE /\ intent[d].state \in {"INTENT_CREATED", "PREPARED"}
  <2> DEFINE new == [intent[d] EXCEPT !.state = "CONSUMED", !.receipt = "DELETION_PENDING_LEDGER"]
  <2>1. /\ active' = FALSE
        /\ intent' = [intent EXCEPT ![d].state = "CONSUMED", ![d].receipt = "DELETION_PENDING_LEDGER"]
        /\ row' = [s \in Sessions |-> IF row[s] = NONE THEN NONE
                                      ELSE [row[s] EXCEPT !.revoked = TRUE]]
    BY <1>4 DEF Fence
  <2>2. d \in Intents /\ intent[d] \in IntentRow
    BY <1>1, <1>4 DEF IInv, TypeOK, IntentSteps, At
  <2>3. new \in IntentRow /\ new # NONE
    <3>1. new \in IntentRow
      BY Zenon, <2>2 DEF IntentRow
    <3> QED
      BY <3>1, AccessConstants
  <2>4. \A e \in Intents : intent'[e] = IF e = d THEN new ELSE intent[e]
    BY Zenon, <2>1, <2>2 DEF IInv, TypeOK
  <2>5. intent' \in [Intents -> IntentRow \cup {NONE}]
    <3>1. DOMAIN intent' = Intents /\ intent' = [e \in Intents |-> intent'[e]]
      BY Zenon, <2>1 DEF IInv, TypeOK
    <3> HIDE DEF new
    <3> QED
      BY <2>3, <2>4, <3>1 DEF IInv, TypeOK
  <2>6. PreparedIntentKept'
    BY <1>1, <2>3, <2>4 DEF IInv, TypeOK, PreparedIntentKept
  <2>7. ASSUME NEW s \in Sessions
        PROVE  /\ row'[s] \in SessionRow \cup {NONE}
               /\ row'[s] # NONE => row'[s].idle <= row'[s].absolute
               /\ RowKept(s)
    <3>1. CASE row[s] = NONE
      BY <2>1, <3>1 DEF RowKept
    <3>2. CASE row[s] # NONE
      <4>1. /\ row'[s] = [row[s] EXCEPT !.revoked = TRUE]
            /\ row[s] \in SessionRow /\ row[s].idle <= row[s].absolute
        BY <2>1, <3>2 DEF IInv, TypeOK
      <4>2. /\ row'[s] \in SessionRow /\ row'[s] # NONE /\ row'[s].revoked
            /\ row'[s].idle = row[s].idle /\ row'[s].absolute = row[s].absolute
        BY <4>1, RevokedRowOK, AccessConstants
      <4> QED
        BY <3>2, <4>1, <4>2 DEF RowKept
    <3> QED
      BY <3>1, <3>2
  <2>8. RowsTyped /\ RowsKept
    <3>1. row' \in [Sessions -> SessionRow \cup {NONE}]
      BY Zenon, <2>1, <2>7
    <3> QED
      BY Zenon, <2>7, <3>1 DEF RowsTyped, RowsKept
  <2>9. TypeOK'
    <3> HIDE DEF new
    <3> QED
      BY Zenon, <1>1, <1>2, <2>1, <2>5, <2>8 DEF IInv, TypeOK, CallsTyped, RowsTyped
  <2> QED
    BY <1>1, <1>2, <2>1, <2>6, <2>8, <2>9 DEF StepOK, IInv, TypeOK
<1> QED
  BY <1>3, <1>4 DEF Fence

-----------------------------------------------------------------------------
(* The retention pass *)

\* Calls that are left alone are kept.
LEMMA UnchangedCalls ==
    ASSUME TypeOK, UNCHANGED call
    PROVE  CallsTyped /\ CallsKept
  BY DEF TypeOK, CallsTyped, CallsKept

LEMMA SelectOK ==
    ASSUME IInv, SelectSessions \/ SelectIntents \/ EndPass
    PROVE  StepOK
<1>1. UNCHANGED <<now, active, row, intent, prepared, call>>
  BY DEF SelectSessions, SelectIntents, EndPass
<1>2. /\ pass' \in [at : {"idle", "sessions", "intents", "expire"}, time : Nat,
                    ids : SUBSET (Sessions \cup Intents)]
      /\ pass'.at = "expire" => pass'.ids \subseteq Intents
  <2>1. CASE SelectSessions
    BY <2>1 DEF IInv, TypeOK, SelectSessions
  <2>2. CASE SelectIntents
    BY Zenon, <2>2 DEF IInv, TypeOK, SelectIntents
  <2>3. CASE EndPass
    BY <2>3 DEF EndPass, IdlePass
  <2> QED
    BY <2>1, <2>2, <2>3
<1>3. RowsTyped /\ RowsKept /\ CallsTyped /\ CallsKept
  BY <1>1, UnchangedRows, UnchangedCalls DEF IInv
<1> QED
  BY <1>1, <1>2, <1>3 DEF StepOK, IInv, PreparedIntentKept, TypeOK, CallsTyped, RowsTyped

LEMMA DeleteSessionsOK ==
    ASSUME IInv, DeleteSessions
    PROVE  StepOK
<1>1. /\ UNCHANGED <<now, active, intent, prepared, call>>
      /\ row' = [s \in Sessions |-> IF s \in pass.ids THEN NONE ELSE row[s]]
      /\ pass' = [pass EXCEPT !.at = "intents", !.ids = {}]
  BY DEF DeleteSessions
<1>2. RowsTyped /\ RowsKept
  BY <1>1 DEF IInv, TypeOK, RowsTyped, RowsKept, RowKept
<1>3. CallsTyped /\ CallsKept
  BY <1>1, UnchangedCalls DEF IInv
<1>4. /\ pass' \in [at : {"idle", "sessions", "intents", "expire"}, time : Nat,
                    ids : SUBSET (Sessions \cup Intents)]
      /\ pass'.at # "expire"
  BY Zenon, <1>1 DEF IInv, TypeOK
<1> QED
  BY <1>1, <1>2, <1>3, <1>4 DEF StepOK, IInv, PreparedIntentKept, TypeOK, CallsTyped, RowsTyped

LEMMA ExpireIntentOK ==
    ASSUME IInv, ExpireIntent
    PROVE  StepOK
<1>1. UNCHANGED <<now, active, row, prepared, call>> /\ pass.at = "expire"
  BY DEF ExpireIntent
<1>2. PICK d \in pass.ids :
          /\ intent' = IF ExpirableNow(d, pass.time) THEN [intent EXCEPT ![d] = NONE] ELSE intent
          /\ pass' = [pass EXCEPT !.ids = @ \ {d}]
  BY Zenon DEF ExpireIntent
<1>3. d \in Intents
  BY <1>1 DEF IInv, TypeOK
<1>4. intent' \in [Intents -> IntentRow \cup {NONE}] /\ PreparedIntentKept'
  BY <1>1, <1>2, <1>3 DEF IInv, TypeOK, PreparedIntentKept, ExpirableNow
<1>5. /\ pass' \in [at : {"idle", "sessions", "intents", "expire"}, time : Nat,
                    ids : SUBSET (Sessions \cup Intents)]
      /\ pass'.at = "expire" => pass'.ids \subseteq Intents
  BY <1>1, <1>2 DEF IInv, TypeOK
<1>6. RowsTyped /\ RowsKept /\ CallsTyped /\ CallsKept
  BY Zenon, <1>1, UnchangedRows, UnchangedCalls DEF IInv
<1> QED
  BY <1>1, <1>4, <1>5, <1>6 DEF StepOK, IInv, TypeOK, CallsTyped, RowsTyped

LEMMA TickOK ==
    ASSUME IInv, Tick
    PROVE  StepOK
<1>1. UNCHANGED <<active, row, intent, prepared, call, pass>> /\ now < MaxTime /\ now' = now + 1
  BY DEF Tick
<1>2. now' \in 0..MaxTime /\ now <= now'
  BY <1>1, AccessConstants DEF IInv, TypeOK
<1>3. RowsTyped /\ RowsKept /\ CallsTyped /\ CallsKept
  BY <1>1, UnchangedRows, UnchangedCalls DEF IInv
<1> QED
  BY <1>1, <1>2, <1>3 DEF StepOK, IInv, PreparedIntentKept, TypeOK, CallsTyped, RowsTyped

-----------------------------------------------------------------------------
(* The specification *)

LEMMA InitOK == Init => IInv
<1> SUFFICES ASSUME Init PROVE IInv
  OBVIOUS
<1>1. TypeOK
  BY AccessConstants DEF Init, TypeOK, IdleCall, IdlePass, CallRow, SessionSteps, IntentSteps
<1> QED
  BY <1>1 DEF Init, IInv, OverIsDead, PreparedIntentKept, IdleCall

LEMMA ServeOK ==
    ASSUME IInv, NEW q \in Requests, Serve(q)
    PROVE  StepOK
<1>1. CASE \E s \in Sessions : Arrive(q, s)
  BY <1>1, ArriveOK
<1>2. CASE \E s \in Sessions \cup {NONE} : LoginRead(q, s)
  BY <1>2, LoginReadOK
<1> QED
  BY <1>1, <1>2, LoginCommitOK, AuthenticateReadOK, AuthenticateRevokeOK, AuthenticateRenewOK,
     ReadOK, LogoutOK, CreateIntentOK, AuthorizeOK, EnsurePreparedOK, CrashPreparedOK, FenceOK
     DEF Serve

LEMMA NextOK ==
    ASSUME IInv, [Next]_vars
    PROVE  StepOK
<1>1. CASE UNCHANGED vars
  <2>1. RowsTyped /\ RowsKept /\ CallsTyped /\ CallsKept
    BY <1>1, UnchangedRows, UnchangedCalls DEF IInv, vars
  <2> QED
    BY <1>1, <2>1 DEF vars, StepOK, IInv, PreparedIntentKept, TypeOK, CallsTyped, RowsTyped
<1>2. CASE Next
  BY <1>2, TickOK, ServeOK, SelectOK, DeleteSessionsOK, ExpireIntentOK DEF Next, Retain
<1> QED
  BY Zenon, <1>1, <1>2

LEMMA InvariantHolds == Spec => []IInv
<1>1. ASSUME IInv, [Next]_vars PROVE IInv'
  BY <1>1, NextOK, StepKeeps
<1> QED
  BY <1>1, InitOK, PTL DEF Spec

\* Whatever requests, logins, passes and crashes interleave, every row keeps
\* within its columns, no renewal takes the idle limit of a session past its
\* absolute one, and no call uses an intent as a session or the other way.
THEOREM TypeCorrect == Spec => []TypeOK
<1>1. IInv => TypeOK
  BY DEF IInv
<1> QED
  BY <1>1, InvariantHolds, PTL

\* A request whose session was over when it arrived is never served: the row
\* that authenticate reads later is still missing, revoked, past its lifetime
\* or of a fenced account, for any number of sessions and requests.
THEOREM EndedIsRefused == Spec => []EndedNeverServed
<1>1. IInv => EndedNeverServed
  BY DEF IInv, OverIsDead, EndedNeverServed, At
<1> QED
  BY <1>1, InvariantHolds, PTL

\* An intent with a chain in the ledger is never expired, although the append
\* may be lost to the database: the pass asks the ledger under the lock.
THEOREM PreparedKept == Spec => []PreparedIntentKept
<1>1. IInv => PreparedIntentKept
  BY DEF IInv
<1> QED
  BY <1>1, InvariantHolds, PTL

\* No step un-revokes a session: a renewal computed from an earlier read writes
\* only the idle limit, and a deleted row is not written back.
THEOREM RevokedForGood == Spec => RevocationIsFinal
<1>1. ASSUME IInv, [Next]_vars
      PROVE  [\A s \in Sessions : row[s] # NONE /\ row[s].revoked
                                  => row'[s] = NONE \/ row'[s].revoked]_vars
  BY <1>1, NextOK DEF StepOK, RowsKept, RowKept
<1> QED
  BY <1>1, InvariantHolds, PTL DEF Spec, RevocationIsFinal

=============================================================================
