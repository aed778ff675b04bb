-------------------------- MODULE ImportsInvariant --------------------------
(***************************************************************************)
(* The inductive invariant of module Imports, and its proof for submit,     *)
(* install_simulated_profile and the import worker.  The steps of confirm,  *)
(* of the retention worker and of deletions, and the theorems, are in       *)
(* module ImportsProofs.                                                    *)
(*                                                                          *)
(* The invariant has two halves that share only the import rows.  Uploads   *)
(* is about the object store: who may still put, record, discard or expire  *)
(* the object of an import.  References is about the rows that name one     *)
(* another: idempotency records, imports and profiles.                      *)
(***************************************************************************)
EXTENDS Imports, TLAPS

-----------------------------------------------------------------------------
(* The inductive invariant *)

ProfileRow == [state : Lifecycles \cup {"NONE", "DELETED"},
               hash : Hashes \cup {NULL, Simulated}, home : ImportIds \cup {NULL}]

OperationRow == [route : {"UPLOAD", "SIMULATED"}, key : Keys,
                 payload : Payloads \cup {NULL}, target : ImportIds \cup ProfileIds,
                 late : BOOLEAN]

ClientSteps == {"idle", "put", "record", "drop", "install", "confirm", "discard",
                "discarded"}

ClientRow == [at : ClientSteps, key : Keys \cup {NULL},
              payload : Payloads \cup Hashes \cup {NULL}, id : ImportIds \cup {NULL},
              found : ProfileIds \cup {NULL}]

\* The types of the rows, and what each process remembers between its steps.
Shapes ==
    /\ account \in {"ACTIVE", "FENCED"}
    /\ imports \in [ImportIds -> ImportRow]
    /\ raw \in [ImportIds -> {"NONE", "AVAILABLE", "DELETE_PENDING", "DELETED"}]
    /\ objects \subseteq ImportIds
    /\ profiles \in [ProfileIds -> ProfileRow]
    /\ ops \subseteq OperationRow
    /\ client \in [Clients -> ClientRow]
    /\ worker \in [at : {"idle", "open", "publish"}, id : ImportIds \cup {NULL}]
    /\ expirer \in [at : {"idle", "delete", "mark"}, keys : SUBSET ImportIds]

\* A request of submit that holds an identifier it allocated itself.
Holds(c) == client[c].at \in {"put", "record", "drop"}

\* Without an import row there is no raw_objects row, and nothing to fence.
Blank(i) == imports[i].state = "NONE" => imports[i].lifecycle = "ACTIVE" /\ raw[i] = "NONE"

\* AvailableIsStored, for one import.
Stored(i) == raw[i] = "AVAILABLE" => i \in objects \cup lost

\* StoredIsTracked, for one import.
Tracked(i) ==
    i \in objects =>
        \/ raw[i] \in {"AVAILABLE", "DELETE_PENDING"}
        \/ i \in lost
        \/ \E c \in Clients : client[c].id = i /\ client[c].at \in {"record", "drop"}

\* Until its rows are recorded a submission is alone with its identifier; the
\* object that it drops is one without rows, or one whose answer was lost.
Submitting(c) ==
    /\ Holds(c) => client[c].id \in ImportIds
    /\ client[c].at \in {"put", "record"} =>
           /\ client[c].key \in Keys /\ client[c].payload \in Payloads
           /\ imports[client[c].id].state = "NONE"
           /\ client[c].id \notin lost
    /\ client[c].at = "record" => client[c].id \in objects
    /\ client[c].at = "drop" =>
           imports[client[c].id].state = "NONE" \/ client[c].id \in lost

\* A confirmation discards an object after its row stopped being AVAILABLE, and
\* says DELETED once the object is gone.
Confirming(c) ==
    /\ client[c].at \in {"confirm", "discard", "discarded"} =>
           client[c].id \in ImportIds /\ imports[client[c].id].state # "NONE"
    /\ client[c].at \in {"discard", "discarded"} => raw[client[c].id] # "AVAILABLE"
    /\ client[c].at = "discarded" => client[c].id \notin objects
    /\ client[c].at = "confirm" => client[c].payload \in Hashes
    /\ client[c].at = "install" => client[c].key \in Keys

\* Two submissions never hold the same identifier.
OneHolder ==
    \A c, d \in Clients : Holds(c) /\ Holds(d) /\ client[c].id = client[d].id => c = d

\* The worker works on an import that was submitted.
Working ==
    worker.at # "idle" => worker.id \in ImportIds /\ imports[worker.id].state # "NONE"

\* The retention worker deletes objects whose rows are not AVAILABLE, and says
\* DELETED of those that are gone.
Expiring ==
    /\ \A i \in expirer.keys : raw[i] # "AVAILABLE" /\ imports[i].state # "NONE"
    /\ expirer.at = "mark" => expirer.keys \cap objects = {}

Uploads ==
    /\ \A i \in ImportIds : Blank(i) /\ Stored(i) /\ Tracked(i)
    /\ \A c \in Clients : Submitting(c) /\ Confirming(c)
    /\ OneHolder /\ Working /\ Expiring

\* LateImportNeverReady, for one import.
Late(i) == imports[i].late => imports[i].state = "QUEUED"

\* ConfirmedNamesProfile, for one import, which is the home of the profile: the
\* deletion of the profile opens it again, its own takes the profile along.
Named(i) ==
    /\ imports[i].profile # NULL => imports[i].state = "CONFIRMED"
    /\ imports[i].state = "CONFIRMED" /\ ~imports[i].adopted =>
           \/ imports[i].lifecycle = "VERIFIED"
           \/ /\ imports[i].profile \in ProfileIds
              /\ ProfileExists(imports[i].profile)
              /\ profiles[imports[i].profile].home = i

\* The key of a live import is bound to it: what OneLiveImportPerKey rests on.
KeyBound(i) ==
    imports[i].key # NULL /\ imports[i].lifecycle = "ACTIVE" /\ ~Terminal(i) =>
        \E o \in ops : o.route = "UPLOAD" /\ o.key = imports[i].key /\ o.target = i

\* The unique constraint on the idempotency keys of a route.
KeysUnique == \A o, q \in ops : o.route = q.route /\ o.key = q.key => o = q

\* OperationNamesResult, with the lifecycle that VERIFY of a deletion waits for.
Targets ==
    \A o \in ops :
        /\ o.route = "UPLOAD" => /\ o.target \in ImportIds /\ Exists(o.target)
                                 /\ imports[o.target].lifecycle # "VERIFIED"
        /\ o.route = "SIMULATED" =>
               /\ o.target \in ProfileIds
               /\ ~o.late => profiles[o.target].state \in {"ACTIVE", "FENCED"}

\* uq_owner_profile_content
ContentUnique ==
    \A p, q \in ProfileIds :
        ProfileExists(p) /\ ProfileExists(q) /\ profiles[p].hash = profiles[q].hash => p = q

References ==
    /\ \A i \in ImportIds : Late(i) /\ Named(i) /\ KeyBound(i)
    /\ KeysUnique /\ Targets /\ ContentUnique

\* What holds in every state that is reached (submit, confirm,
\* install_simulated_profile, the retention worker and VERIFY of a deletion).
IInv == Shapes /\ Uploads /\ References

-----------------------------------------------------------------------------
(* What the halves depend on *)

\* References speaks of the import, profile and operation rows only.
LEMMA ReferencesFrame ==
    ASSUME References, UNCHANGED <<imports, profiles, ops>>
    PROVE  References'
BY DEF References, Late, Named, KeyBound, Terminal, ProfileExists, Exists, KeysUnique,
       Targets, ContentUnique

\* Uploads sees of an import row only whether it is there: a step of the worker
\* or of a deletion that leaves the store, the raw_objects rows and the requests
\* alone keeps it, when no row appears or disappears.
LEMMA UploadsFrame ==
    ASSUME Uploads,
           \A i \in ImportIds : imports[i].state = "NONE" => imports'[i] = imports[i],
           \A i \in ImportIds : imports[i].state # "NONE" => imports'[i].state # "NONE",
           expirer.keys \subseteq ImportIds,
           Working',
           UNCHANGED <<raw, objects, client, expirer, lost>>
    PROVE  Uploads'
<1>1. ASSUME NEW i \in ImportIds PROVE (Blank(i) /\ Stored(i) /\ Tracked(i))'
  BY Zenon, <1>1 DEF Uploads, Blank, Stored, Tracked
<1>2. ASSUME NEW c \in Clients PROVE Submitting(c)'
  BY Zenon, <1>2 DEF Uploads, Submitting, Holds
<1>3. ASSUME NEW c \in Clients PROVE Confirming(c)'
  BY Zenon, <1>3 DEF Uploads, Confirming
<1>4. OneHolder' /\ Expiring'
  BY DEF Uploads, OneHolder, Holds, Expiring
<1> QED BY <1>1, <1>2, <1>3, <1>4 DEF Uploads

\* A request that holds no identifier of its own has nothing in the object store
\* that its end could leave behind.
LEMMA ReturnKeeps ==
    ASSUME IInv, NEW c \in Clients, ~Holds(c), Return(c),
           UNCHANGED <<imports, raw, objects, worker, expirer, lost>>
    PROVE  Uploads'
<1>1. /\ client'[c] = Idle
      /\ \A d \in Clients : d # c => client'[d] = client[d]
  BY Zenon DEF IInv, Shapes, Return
<1>2. ASSUME NEW i \in ImportIds PROVE (Blank(i) /\ Stored(i) /\ Tracked(i))'
  BY Zenon, <1>1, <1>2 DEF IInv, Uploads, Blank, Stored, Tracked, Holds
<1>3. ASSUME NEW d \in Clients PROVE (Submitting(d) /\ Confirming(d))'
  BY <1>1, <1>3 DEF IInv, Uploads, Submitting, Confirming, Holds, Idle
<1>4. OneHolder' /\ Working' /\ Expiring'
  <2>1. OneHolder'
    BY <1>1 DEF IInv, Uploads, OneHolder, Holds, Idle
  <2>2. Working'
    BY Zenon, <1>1 DEF IInv, Uploads, Working
  <2>3. Expiring'
    BY <1>1 DEF IInv, Shapes, Uploads, Expiring
  <2> QED BY Zenon, <2>1, <2>2, <2>3
<1> QED BY <1>2, <1>3, <1>4 DEF Uploads

\* The profile that _profile_by_hash finds, when there is one.
LEMMA FoundIsThere ==
    ASSUME NEW h
    PROVE  /\ ByHash(h) # {} => FoundByHash(h) \in ByHash(h)
           /\ ByHash(h) = {} => FoundByHash(h) = NULL
BY DEF FoundByHash

\* The initial state.
LEMMA InitHolds == Init => IInv
<1> SUFFICES ASSUME Init PROVE IInv OBVIOUS
<1>1. Shapes
  BY DEF Init, Shapes, ImportRow, NoImport, Lifecycles, ProfileRow, NoProfile, ClientRow,
         ClientSteps, Idle
<1>2. /\ \A i \in ImportIds : imports[i] = NoImport /\ raw[i] = "NONE"
      /\ \A p \in ProfileIds : profiles[p] = NoProfile
      /\ \A c \in Clients : client[c] = Idle
  BY Zenon DEF Init
<1>3. Uploads
  BY Zenon, <1>2 DEF Init, Uploads, Blank, Stored, Tracked, Submitting, Confirming, OneHolder,
              Working, Expiring, Holds, NoImport, Idle
<1>4. References
  BY Zenon, <1>2 DEF Init, References, Late, Named, KeyBound, KeysUnique, Targets, ContentUnique,
              ProfileExists, Lifecycles, NoImport, NoProfile
<1> QED BY <1>1, <1>3, <1>4 DEF IInv

-----------------------------------------------------------------------------
(* submit *)

\* A new identifier is held by one request: Fresh passes over those that any
\* request, row or lost process has (submit).
LEMMA SubmitKeeps ==
    ASSUME IInv, NEW c \in Clients, NEW k \in Keys, NEW h \in Payloads, Submit(c, k, h)
    PROVE  IInv'
<1>1. PICK i \in ImportIds :
          /\ Fresh(i)
          /\ client' = [client EXCEPT ![c] = [at |-> "put", key |-> k, payload |-> h,
                                              id |-> i, found |-> NULL]]
  BY Zenon DEF Submit
<1>2. /\ client'[c].at = "put" /\ client'[c].id = i /\ client'[c].key = k
      /\ client'[c].payload = h
      /\ \A d \in Clients : d # c => client'[d] = client[d]
      /\ client[c].at = "idle"
      /\ UNCHANGED <<account, imports, raw, profiles, ops, objects, worker, expirer, lost>>
  BY Zenon, <1>1 DEF IInv, Shapes, Submit, database
<1>3. /\ imports[i].state = "NONE" /\ i \notin lost
      /\ \A d \in Clients : client[d].id # i
  BY Zenon, <1>1 DEF Fresh, Allocated
<1>4. Shapes'
  BY Zenon, <1>1, <1>2 DEF IInv, Shapes, ClientRow, ClientSteps
<1>5. ASSUME NEW j \in ImportIds PROVE (Blank(j) /\ Stored(j) /\ Tracked(j))'
  BY Zenon, <1>2, <1>5 DEF IInv, Uploads, Blank, Stored, Tracked
<1>6. ASSUME NEW d \in Clients PROVE (Submitting(d) /\ Confirming(d))'
  BY Zenon, <1>2, <1>3, <1>6 DEF IInv, Uploads, Submitting, Confirming, Holds
<1>7. OneHolder' /\ Working' /\ Expiring'
  <2>1. OneHolder'
    BY <1>2, <1>3 DEF IInv, Uploads, OneHolder, Holds
  <2>2. Working'
    BY Zenon, <1>2, <1>3 DEF IInv, Uploads, Working
  <2>3. Expiring'
    BY Zenon, <1>2, <1>3 DEF IInv, Shapes, Uploads, Expiring
  <2> QED BY Zenon, <2>1, <2>2, <2>3
<1>8. References'
  BY Zenon, <1>2, ReferencesFrame DEF IInv
<1> QED BY Zenon, <1>4, <1>5, <1>6, <1>7, <1>8 DEF IInv, Uploads

\* The object is stored under an identifier that nobody else deletes (put_file).
LEMMA PutKeeps ==
    ASSUME IInv, NEW c \in Clients, Put(c)
    PROVE  IInv'
<1>1. /\ client'[c].at = "record" /\ client'[c].id = client[c].id
      /\ client'[c].key = client[c].key /\ client'[c].payload = client[c].payload
      /\ \A d \in Clients : d # c => client'[d] = client[d]
      /\ client[c].at = "put" /\ objects' = objects \cup {client[c].id}
      /\ UNCHANGED <<account, imports, raw, profiles, ops, worker, expirer, lost>>
  BY Zenon DEF IInv, Shapes, ClientRow, Put, Goto, database
<1>2. /\ client[c].id \in ImportIds /\ imports[client[c].id].state = "NONE"
      /\ client[c].id \notin lost
      /\ client[c].key \in Keys /\ client[c].payload \in Payloads
  BY Zenon, <1>1 DEF IInv, Uploads, Submitting, Holds
<1>3. Shapes'
  BY <1>1, <1>2 DEF IInv, Shapes, ClientRow, ClientSteps, Put, Goto
<1>4. ASSUME NEW j \in ImportIds PROVE (Blank(j) /\ Stored(j) /\ Tracked(j))'
  BY <1>1, <1>4 DEF IInv, Uploads, Blank, Stored, Tracked
<1>5. ASSUME NEW d \in Clients PROVE (Submitting(d) /\ Confirming(d))'
  BY Zenon, <1>1, <1>2, <1>5 DEF IInv, Uploads, Submitting, Confirming, Holds
<1>6. OneHolder' /\ Working' /\ Expiring'
  <2>1. OneHolder'
    BY <1>1, <1>2 DEF IInv, Uploads, OneHolder, Holds
  <2>2. Working'
    BY Zenon, <1>1, <1>2 DEF IInv, Uploads, Working
  <2>3. Expiring'
    BY Zenon, <1>1, <1>2 DEF IInv, Shapes, Uploads, Expiring
  <2> QED BY Zenon, <2>1, <2>2, <2>3
<1>7. References'
  BY Zenon, <1>1, ReferencesFrame DEF IInv
<1> QED BY <1>3, <1>4, <1>5, <1>6, <1>7 DEF IInv, Uploads

\* A request that gives up its submission keeps its object tracked until it drops
\* it (put_file raises, or _record_submission meets the unique constraint).
LEMMA GiveUpKeeps ==
    ASSUME IInv, NEW c \in Clients, client[c].at \in {"put", "record"}, Goto(c, "drop"),
           UNCHANGED <<database, objects, worker, expirer, lost>>
    PROVE  IInv'
<1>1. /\ client'[c].at = "drop" /\ client'[c].id = client[c].id
      /\ \A d \in Clients : d # c => client'[d] = client[d]
      /\ UNCHANGED <<account, imports, raw, profiles, ops>>
  BY Zenon DEF IInv, Shapes, ClientRow, Goto, database
<1>2. Shapes'
  BY <1>1 DEF IInv, Shapes, ClientRow, ClientSteps, Goto
<1>3. ASSUME NEW j \in ImportIds PROVE (Blank(j) /\ Stored(j) /\ Tracked(j))'
  BY <1>1, <1>3 DEF IInv, Uploads, Blank, Stored, Tracked
<1>4. ASSUME NEW d \in Clients PROVE (Submitting(d) /\ Confirming(d))'
  BY Zenon, <1>1, <1>4 DEF IInv, Uploads, Submitting, Confirming, Holds
<1>5. OneHolder' /\ Working' /\ Expiring'
  <2>1. OneHolder'
    BY <1>1 DEF IInv, Uploads, OneHolder, Holds
  <2>2. Working'
    BY Zenon, <1>1 DEF IInv, Uploads, Working
  <2>3. Expiring'
    BY Zenon, <1>1 DEF IInv, Shapes, Uploads, Expiring
  <2> QED BY Zenon, <2>1, <2>2, <2>3
<1>6. References'
  BY Zenon, <1>1, ReferencesFrame DEF IInv
<1> QED BY Zenon, <1>2, <1>3, <1>4, <1>5, <1>6 DEF IInv, Uploads

\* The object that is dropped has no row that calls it AVAILABLE, unless the answer
\* of the commit was lost (submit, its exception handler).
LEMMA DropKeeps ==
    ASSUME IInv, NEW c \in Clients, Drop(c)
    PROVE  IInv'
<1>1. /\ client'[c] = Idle
      /\ \A d \in Clients : d # c => client'[d] = client[d]
      /\ client[c].at = "drop" /\ objects' = objects \ {client[c].id}
      /\ UNCHANGED <<account, imports, raw, profiles, ops, worker, expirer, lost>>
  BY Zenon DEF IInv, Shapes, Drop, Return, database
<1>2. /\ client[c].id \in ImportIds
      /\ raw[client[c].id] = "NONE" \/ client[c].id \in lost
  BY Zenon, <1>1 DEF IInv, Uploads, Submitting, Holds, Blank
<1>3. Shapes'
  BY Zenon, <1>1 DEF IInv, Shapes, ClientRow, ClientSteps, Drop, Return, Idle
<1>4. ASSUME NEW j \in ImportIds PROVE (Blank(j) /\ Stored(j) /\ Tracked(j))'
  BY Zenon, <1>1, <1>2, <1>4 DEF IInv, Uploads, Blank, Stored, Tracked
<1>5. ASSUME NEW d \in Clients PROVE (Submitting(d) /\ Confirming(d))'
  BY <1>1, <1>2, <1>5 DEF IInv, Uploads, Submitting, Confirming, Holds, Idle, OneHolder
<1>6. OneHolder' /\ Working' /\ Expiring'
  <2>1. OneHolder'
    BY <1>1 DEF IInv, Uploads, OneHolder, Holds, Idle
  <2>2. Working'
    BY Zenon, <1>1 DEF IInv, Uploads, Working
  <2>3. Expiring'
    BY Zenon, <1>1 DEF IInv, Shapes, Uploads, Expiring
  <2> QED BY Zenon, <2>1, <2>2, <2>3
<1>7. References'
  BY Zenon, <1>1, ReferencesFrame DEF IInv
<1> QED BY <1>3, <1>4, <1>5, <1>6, <1>7 DEF IInv, Uploads

\* A process that dies while it submits leaves its identifier among the lost ones.
LEMMA CrashKeeps ==
    ASSUME IInv, NEW c \in Clients, Crash(c)
    PROVE  IInv'
<1>1. /\ client'[c] = Idle
      /\ \A d \in Clients : d # c => client'[d] = client[d]
      /\ UNCHANGED <<account, imports, raw, objects, profiles, ops, worker, expirer>>
  BY Zenon DEF IInv, Shapes, Crash, Return, database
<1>2. /\ lost \subseteq lost'
      /\ lost' \subseteq lost \cup {client[c].id}
      /\ Holds(c) => client[c].id \in lost'
      /\ ~Holds(c) => lost' = lost
  BY Zenon DEF Crash, Holds
<1>3. Shapes'
  BY Zenon, <1>1 DEF IInv, Shapes, ClientRow, ClientSteps, Crash, Return, Idle
<1>4. ASSUME NEW j \in ImportIds PROVE (Blank(j) /\ Stored(j) /\ Tracked(j))'
  <2>1. Blank(j) /\ Stored(j) /\ Tracked(j)
    BY Zenon, <1>4 DEF IInv, Uploads
  <2>2. Blank(j)' /\ Stored(j)'
    BY Zenon, <1>1, <1>2, <2>1 DEF Blank, Stored
  <2>3. Tracked(j)'
    BY Zenon, <1>1, <1>2, <2>1 DEF Tracked, Holds
  <2> QED BY Zenon, <2>2, <2>3
<1>5. ASSUME NEW d \in Clients PROVE (Submitting(d) /\ Confirming(d))'
  BY <1>1, <1>2, <1>5 DEF IInv, Uploads, Submitting, Confirming, Holds, Idle, OneHolder
<1>6. OneHolder' /\ Working' /\ Expiring'
  <2>1. OneHolder'
    BY <1>1 DEF IInv, Uploads, OneHolder, Holds, Idle
  <2>2. Working'
    BY Zenon, <1>1 DEF IInv, Uploads, Working
  <2>3. Expiring'
    BY Zenon, <1>1 DEF IInv, Shapes, Uploads, Expiring
  <2> QED BY <2>1, <2>2, <2>3
<1>7. References'
  BY Zenon, <1>1, ReferencesFrame DEF IInv
<1> QED BY <1>3, <1>4, <1>5, <1>6, <1>7 DEF IInv, Uploads

\* The rows of a submission, pointwise.
LEMMA SubmissionEffect ==
    ASSUME IInv, NEW c \in Clients, client[c].at = "record", SubmissionRows(c)
    PROVE  LET i == client[c].id IN
           /\ i \in ImportIds /\ imports[i].state = "NONE" /\ raw[i] = "NONE"
           /\ i \notin lost /\ i \in objects
           /\ client[c].key \in Keys /\ client[c].payload \in Payloads
           /\ imports'[i] = [NoImport EXCEPT !.state = "QUEUED", !.key = client[c].key,
                                             !.late = account # "ACTIVE"]
           /\ \A j \in ImportIds : j # i => imports'[j] = imports[j] /\ raw'[j] = raw[j]
           /\ raw'[i] = "AVAILABLE"
<1>1. /\ client[c].id \in ImportIds /\ imports[client[c].id].state = "NONE"
      /\ client[c].id \notin lost /\ client[c].id \in objects
      /\ client[c].key \in Keys /\ client[c].payload \in Payloads
  BY Zenon DEF IInv, Uploads, Submitting, Holds
<1>2. raw[client[c].id] = "NONE"
  BY Zenon, <1>1 DEF IInv, Uploads, Blank
<1> QED BY Zenon, <1>1, <1>2 DEF IInv, Shapes, SubmissionRows

\* The rows have their types.
LEMMA SubmissionShapes ==
    ASSUME IInv, NEW c \in Clients, client[c].at = "record", SubmissionRows(c)
    PROVE  /\ imports' \in [ImportIds -> ImportRow]
           /\ raw' \in [ImportIds -> {"NONE", "AVAILABLE", "DELETE_PENDING", "DELETED"}]
           /\ ops' \subseteq OperationRow
<1>1. client[c].id \in ImportIds /\ client[c].key \in Keys /\ client[c].payload \in Payloads
  BY Zenon, SubmissionEffect
<1>2. [NoImport EXCEPT !.state = "QUEUED", !.key = client[c].key,
                       !.late = account # "ACTIVE"] \in ImportRow
  BY Zenon, <1>1 DEF NoImport, ImportRow, Lifecycles
<1>3. imports' \in [ImportIds -> ImportRow]
  BY Zenon, <1>1, <1>2 DEF IInv, Shapes, SubmissionRows
<1>4. [route |-> "UPLOAD", key |-> client[c].key, payload |-> client[c].payload,
       target |-> client[c].id, late |-> FALSE] \in OperationRow
  BY Zenon, <1>1 DEF OperationRow
<1>5. ops' \subseteq OperationRow
  BY Zenon, <1>4 DEF IInv, Shapes, SubmissionRows
<1> QED BY <1>1, <1>3, <1>5 DEF IInv, Shapes, SubmissionRows

\* The key is bound with the import, in one transaction and under the unique
\* constraint (_record_submission).
LEMMA SubmissionReferences ==
    ASSUME IInv, NEW c \in Clients, client[c].at = "record",
           Bound("UPLOAD", client[c].key) = {}, SubmissionRows(c)
    PROVE  References'
<1> DEFINE i == client[c].id
           op == [route |-> "UPLOAD", key |-> client[c].key,
                  payload |-> client[c].payload, target |-> i, late |-> FALSE]
<1>1. /\ i \in ImportIds /\ imports[i].state = "NONE"
      /\ \A j \in ImportIds : j # i => imports'[j] = imports[j]
  BY Zenon, SubmissionEffect
<1>2. /\ imports'[i].state = "QUEUED" /\ imports'[i].lifecycle = "ACTIVE"
      /\ imports'[i].profile = NULL /\ imports'[i].key = client[c].key
  BY Zenon, SubmissionEffect DEF NoImport
<1>3. ops' = ops \cup {op} /\ UNCHANGED profiles
  BY Zenon DEF SubmissionRows
<1>4. /\ op.route = "UPLOAD" /\ op.key = client[c].key /\ op.target = i
      /\ \A o \in ops : ~(o.route = "UPLOAD" /\ o.key = client[c].key)
  BY Zenon DEF Bound
<1> HIDE DEF i, op
<1>5. ASSUME NEW j \in ImportIds PROVE (Late(j) /\ Named(j))'
  BY <1>1, <1>2, <1>3, <1>5 DEF IInv, References, Late, Named, ProfileExists
<1>6. ASSUME NEW j \in ImportIds PROVE KeyBound(j)'
  BY <1>1, <1>2, <1>3, <1>4, <1>6 DEF IInv, References, KeyBound, Terminal
<1>7. KeysUnique'
  BY <1>3, <1>4 DEF IInv, References, KeysUnique
<1>8. Targets'
  BY Zenon, <1>1, <1>2, <1>3, <1>4 DEF IInv, References, Targets, Exists
<1>9. ContentUnique'
  BY Zenon, <1>3 DEF IInv, References, ContentUnique, ProfileExists
<1> QED BY Zenon, <1>5, <1>6, <1>7, <1>8, <1>9 DEF References

\* Until its rows are there the object has one request that knows of it, and then
\* the raw_objects row (_record_submission).
LEMMA RecordKeeps ==
    ASSUME IInv, NEW c \in Clients, Record(c)
    PROVE  IInv'
<1>1. CASE Bound("UPLOAD", client[c].key) # {}
  <2>1. /\ client[c].at \in {"put", "record"} /\ Goto(c, "drop")
        /\ UNCHANGED <<database, objects, worker, expirer, lost>>
    BY Zenon, <1>1 DEF Record
  <2> QED BY Zenon, <2>1, GiveUpKeeps
<1>2. CASE Bound("UPLOAD", client[c].key) = {}
  <2>1. /\ client[c].at = "record" /\ SubmissionRows(c) /\ Return(c)
        /\ UNCHANGED <<objects, worker, expirer, lost>>
    BY Zenon, <1>2 DEF Record
  <2> DEFINE i == client[c].id
  <2>2. /\ i \in ImportIds /\ imports[i].state = "NONE" /\ raw[i] = "NONE"
        /\ i \notin lost /\ i \in objects
        /\ \A j \in ImportIds : j # i => imports'[j] = imports[j] /\ raw'[j] = raw[j]
        /\ raw'[i] = "AVAILABLE"
        /\ imports'[i].state = "QUEUED"
    BY Zenon, <2>1, SubmissionEffect DEF NoImport
  <2>3. /\ client'[c] = Idle
        /\ \A d \in Clients : d # c => client'[d] = client[d]
    BY Zenon, <2>1 DEF IInv, Shapes, Return
  <2>4. Shapes'
    <3>1. client' \in [Clients -> ClientRow]
      BY Zenon, <2>1 DEF IInv, Shapes, Return, Idle, ClientRow, ClientSteps
    <3> QED BY Zenon, <2>1, <3>1, SubmissionShapes DEF IInv, Shapes, SubmissionRows
  <2>5. \A d \in Clients : d # c /\ Holds(d) => client[d].id # i
    BY Zenon, <2>1 DEF IInv, Uploads, OneHolder, Holds
  <2> HIDE DEF i
  <2>6. ASSUME NEW j \in ImportIds PROVE (Blank(j) /\ Stored(j) /\ Tracked(j))'
    <3>1. CASE j = i
      BY Zenon, <2>1, <2>2, <3>1 DEF Blank, Stored, Tracked
    <3>2. CASE j # i
      BY <2>1, <2>2, <2>3, <2>6, <3>2 DEF IInv, Uploads, Blank, Stored, Tracked, i
    <3> QED BY Zenon, <3>1, <3>2
  <2>7. ASSUME NEW d \in Clients PROVE (Submitting(d) /\ Confirming(d))'
    BY <2>1, <2>2, <2>3, <2>5, <2>7 DEF IInv, Uploads, Submitting, Confirming, Holds, Idle
  <2>8. OneHolder' /\ Working' /\ Expiring'
    <3>1. OneHolder'
      BY <2>1, <2>2, <2>3 DEF IInv, Uploads, OneHolder, Holds, Idle
    <3>2. Working'
      BY Zenon, <2>1, <2>2, <2>3 DEF IInv, Uploads, Working
    <3>3. Expiring'
      BY Zenon, <2>1, <2>2, <2>3 DEF IInv, Shapes, Uploads, Expiring
    <3> QED BY <3>1, <3>2, <3>3
  <2>9. References'
    BY Zenon, <1>2, <2>1, SubmissionReferences
  <2> QED BY <2>4, <2>6, <2>7, <2>8, <2>9 DEF IInv, Uploads
<1> QED BY Zenon, <1>1, <1>2

\* The commit took effect without an answer: the rows are there, and the request is
\* about to delete their object; the identifier counts as lost.
LEMMA RecordUnansweredKeeps ==
    ASSUME IInv, NEW c \in Clients, RecordUnanswered(c)
    PROVE  IInv'
<1>1. /\ client[c].at = "record" /\ SubmissionRows(c) /\ Goto(c, "drop")
      /\ Bound("UPLOAD", client[c].key) = {}
      /\ lost' = lost \cup {client[c].id}
      /\ UNCHANGED <<objects, worker, expirer>>
  BY Zenon DEF RecordUnanswered
<1> DEFINE i == client[c].id
<1>2. /\ i \in ImportIds /\ imports[i].state = "NONE" /\ raw[i] = "NONE"
      /\ \A j \in ImportIds : j # i => imports'[j] = imports[j] /\ raw'[j] = raw[j]
      /\ raw'[i] = "AVAILABLE"
      /\ imports'[i].state = "QUEUED"
  BY Zenon, <1>1, SubmissionEffect DEF NoImport
<1>3. /\ client'[c].at = "drop" /\ client'[c].id = i
      /\ \A d \in Clients : d # c => client'[d] = client[d]
  BY <1>1 DEF IInv, Shapes, Goto, ClientRow
<1>4. Shapes'
  <2>1. client' \in [Clients -> ClientRow]
    BY <1>1 DEF IInv, Shapes, Goto, ClientRow, ClientSteps
  <2> QED BY Zenon, <1>1, <2>1, SubmissionShapes DEF IInv, Shapes, SubmissionRows
<1>5. \A d \in Clients : d # c /\ Holds(d) => client[d].id # i
  BY Zenon, <1>1 DEF IInv, Uploads, OneHolder, Holds
<1>6. lost' = lost \cup {i}
  BY Zenon, <1>1
<1> HIDE DEF i
<1>7. ASSUME NEW j \in ImportIds PROVE (Blank(j) /\ Stored(j) /\ Tracked(j))'
  <2>1. CASE j = i
    BY Zenon, <1>2, <1>6, <2>1 DEF Blank, Stored, Tracked
  <2>2. CASE j # i
    BY <1>1, <1>2, <1>3, <1>6, <1>7, <2>2 DEF IInv, Uploads, Blank, Stored, Tracked, i
  <2> QED BY <2>1, <2>2
<1>8. ASSUME NEW d \in Clients PROVE (Submitting(d) /\ Confirming(d))'
  BY <1>1, <1>2, <1>3, <1>5, <1>6, <1>8 DEF IInv, Uploads, Submitting, Confirming, Holds
<1>9. OneHolder' /\ Working' /\ Expiring'
  <2>1. OneHolder'
    BY <1>1, <1>2, <1>3, <1>5 DEF IInv, Uploads, OneHolder, Holds
  <2>2. Working'
    BY Zenon, <1>1, <1>2, <1>3, <1>5 DEF IInv, Uploads, Working
  <2>3. Expiring'
    BY <1>1, <1>2, <1>3, <1>5 DEF IInv, Shapes, Uploads, Expiring
  <2> QED BY <2>1, <2>2, <2>3
<1>10. References'
  BY <1>1, SubmissionReferences
<1> QED BY <1>4, <1>7, <1>8, <1>9, <1>10 DEF IInv, Uploads

-----------------------------------------------------------------------------
(* install_simulated_profile *)

\* The first read of install_simulated_profile changes no row.
LEMMA InstallBeginKeeps ==
    ASSUME IInv, NEW c \in Clients, NEW k \in Keys, InstallBegin(c, k)
    PROVE  IInv'
<1> DEFINE found == FoundByHash(Simulated)
<1>1. found \in ProfileIds \cup {NULL}
  BY Zenon, FoundIsThere DEF ByHash
<1>2. client' = [client EXCEPT ![c] = [at |-> "install", key |-> k, payload |-> NULL,
                                       id |-> NULL, found |-> found]]
  BY Zenon DEF InstallBegin
<1> HIDE DEF found
<1>3. /\ client'[c].at = "install" /\ client'[c].key = k
      /\ \A d \in Clients : d # c => client'[d] = client[d]
  BY <1>2 DEF IInv, Shapes
<1>4. /\ client[c].at = "idle"
      /\ UNCHANGED <<account, imports, raw, profiles, ops, objects, worker, expirer, lost>>
  BY Zenon DEF InstallBegin, database
<1>5. Shapes'
  <2>1. [at |-> "install", key |-> k, payload |-> NULL, id |-> NULL, found |-> found]
            \in ClientRow
    BY <1>1 DEF ClientRow, ClientSteps
  <2> QED BY Zenon, <1>2, <1>4, <2>1 DEF IInv, Shapes
<1>6. ASSUME NEW j \in ImportIds PROVE (Blank(j) /\ Stored(j) /\ Tracked(j))'
  BY Zenon, <1>3, <1>4, <1>6 DEF IInv, Uploads, Blank, Stored, Tracked
<1>7. ASSUME NEW d \in Clients PROVE Submitting(d)'
  BY Zenon, <1>3, <1>4, <1>7 DEF IInv, Uploads, Submitting, Holds
<1>8. ASSUME NEW d \in Clients PROVE Confirming(d)'
  BY Zenon, <1>3, <1>4, <1>8 DEF IInv, Uploads, Confirming
<1>9. OneHolder'
  BY <1>3 DEF IInv, Uploads, OneHolder, Holds
<1>10. Working' /\ Expiring'
  BY Zenon, <1>4 DEF IInv, Uploads, Working, Expiring
<1>11. References'
  BY Zenon, <1>4, ReferencesFrame DEF IInv
<1> QED BY Zenon, <1>5, <1>6, <1>7, <1>8, <1>9, <1>10, <1>11 DEF IInv, Uploads

\* The record of the operation is bound once, to a profile; it is on time when the
\* profile it found is still ACTIVE.
LEMMA InstallFoundKeeps ==
    ASSUME IInv, NEW c \in Clients, client[c].at = "install", ~InstallConflicts(c),
           InstallFound(c)
    PROVE  References' /\ ops' \subseteq OperationRow
<1> DEFINE op == InstalledOperation(c, client[c].found)
<1>1. client[c].found \in ProfileIds /\ client[c].key \in Keys
  BY Zenon DEF IInv, Shapes, ClientRow, Uploads, Confirming, InstallFound
<1>2. /\ op.route = "SIMULATED" /\ op.key = client[c].key /\ op.target = client[c].found
      /\ ~op.late => profiles[client[c].found].state = "ACTIVE"
      /\ op \in OperationRow
  BY Zenon, <1>1 DEF InstalledOperation, OperationRow
<1>3. ops' = ops \cup {op} /\ UNCHANGED <<imports, profiles>>
  BY Zenon DEF InstallFound
<1>4. \A o \in ops : ~(o.route = "SIMULATED" /\ o.key = client[c].key)
  BY Zenon DEF InstallConflicts, Bound
<1> HIDE DEF op
<1>5. ASSUME NEW j \in ImportIds PROVE (Late(j) /\ Named(j) /\ KeyBound(j))'
  BY Zenon, <1>3, <1>5 DEF IInv, References, Late, Named, ProfileExists, KeyBound, Terminal
<1>6. KeysUnique'
  BY <1>2, <1>3, <1>4 DEF IInv, References, KeysUnique
<1>7. Targets'
  BY Zenon, <1>1, <1>2, <1>3 DEF IInv, References, Targets, Exists
<1>8. ContentUnique'
  BY Zenon, <1>3 DEF IInv, References, ContentUnique, ProfileExists
<1> QED BY Zenon, <1>2, <1>3, <1>5, <1>6, <1>7, <1>8 DEF References, IInv, Shapes

\* A new simulated profile has an import of its own as its home.
LEMMA InstallNewKeeps ==
    ASSUME IInv, NEW c \in Clients, client[c].at = "install", ~InstallConflicts(c),
           InstallNew(c), Return(c), UNCHANGED <<objects, worker, expirer, lost>>
    PROVE  IInv'
<1>1. PICK i \in ImportIds, p \in ProfileIds :
          /\ Fresh(i) /\ FreshProfile(p)
          /\ imports' = [imports EXCEPT ![i] =
                [NoImport EXCEPT !.state = "CONFIRMED", !.profile = p]]
          /\ profiles' = [profiles EXCEPT ![p] =
                [state |-> "ACTIVE", hash |-> Simulated, home |-> i]]
          /\ ops' = ops \cup {[InstalledOperation(c, p) EXCEPT !.late = FALSE]}
  BY Zenon DEF InstallNew
<1> DEFINE op == [InstalledOperation(c, p) EXCEPT !.late = FALSE]
<1>2. client[c].key \in Keys /\ UNCHANGED <<account, raw>>
  BY Zenon DEF IInv, Uploads, Confirming, InstallNew
<1>3. /\ op.route = "SIMULATED" /\ op.key = client[c].key /\ op.target = p
      /\ op \in OperationRow /\ ops' = ops \cup {op}
  BY Zenon, <1>1, <1>2 DEF InstalledOperation, OperationRow
<1> HIDE DEF op
<1>4. /\ imports[i].state = "NONE" /\ i \notin lost /\ \A d \in Clients : client[d].id # i
      /\ profiles[p].state = "NONE"
  BY Zenon, <1>1 DEF Fresh, Allocated, FreshProfile
<1>5. [NoImport EXCEPT !.state = "CONFIRMED", !.profile = p] \in ImportRow
  BY Zenon DEF NoImport, ImportRow, Lifecycles
<1>6. [state |-> "ACTIVE", hash |-> Simulated, home |-> i] \in ProfileRow
  BY Zenon DEF ProfileRow, Lifecycles
<1>7. imports' \in [ImportIds -> ImportRow] /\ profiles' \in [ProfileIds -> ProfileRow]
  BY Zenon, <1>1, <1>5, <1>6 DEF IInv, Shapes
<1>8. /\ \A j \in ImportIds : j # i => imports'[j] = imports[j]
      /\ \A q \in ProfileIds : q # p => profiles'[q] = profiles[q]
  BY Zenon, <1>1 DEF IInv, Shapes
<1>9. /\ imports'[i].state = "CONFIRMED" /\ imports'[i].lifecycle = "ACTIVE"
      /\ imports'[i].profile = p /\ ~imports'[i].late
      /\ profiles'[p].state = "ACTIVE" /\ profiles'[p].hash = Simulated
      /\ profiles'[p].home = i
  <2>1. /\ imports'[i] = [NoImport EXCEPT !.state = "CONFIRMED", !.profile = p]
        /\ profiles'[p] = [state |-> "ACTIVE", hash |-> Simulated, home |-> i]
    BY Zenon, <1>1 DEF IInv, Shapes
  <2> QED BY <2>1 DEF NoImport
<1>10. /\ \A o \in ops : ~(o.route = "SIMULATED" /\ o.key = client[c].key)
       /\ \A q \in ProfileIds : ProfileExists(q) => profiles[q].hash # Simulated
  BY Zenon DEF InstallConflicts, Bound, ByHash, InstallNew
<1>11. client' \in [Clients -> ClientRow]
  BY DEF IInv, Shapes, Return, Idle, ClientRow, ClientSteps
<1>12. /\ client'[c] = Idle /\ client[c].at = "install"
       /\ \A d \in Clients : d # c => client'[d] = client[d]
  BY Zenon DEF IInv, Shapes, Return
<1>13. Shapes'
  BY Zenon, <1>2, <1>3, <1>7, <1>11 DEF IInv, Shapes
<1>14. ASSUME NEW j \in ImportIds PROVE (Blank(j) /\ Stored(j) /\ Tracked(j))'
  <2>1. Blank(j)'
    <3>1. CASE j = i
      BY Zenon, <1>9, <3>1 DEF Blank
    <3>2. CASE j # i
      BY Zenon, <1>2, <1>8, <1>14, <3>2 DEF IInv, Uploads, Blank
    <3> QED BY Zenon, <3>1, <3>2
  <2>2. Stored(j)'
    BY Zenon, <1>2, <1>14 DEF IInv, Uploads, Stored
  <2>3. Tracked(j)'
    <3>1. \A d \in Clients : client[d].at \in {"record", "drop"} => client'[d] = client[d]
      BY Zenon, <1>12
    <3>2. Tracked(j) /\ UNCHANGED <<raw, objects, lost>>
      BY Zenon, <1>2, <1>14 DEF IInv, Uploads
    <3> QED BY Zenon, <3>1, <3>2 DEF Tracked
  <2> QED BY Zenon, <2>1, <2>2, <2>3
<1>15. ASSUME NEW d \in Clients PROVE (Submitting(d) /\ Confirming(d))'
  BY <1>2, <1>4, <1>8, <1>9, <1>12, <1>15 DEF IInv, Uploads, Submitting, Confirming, Holds,
     Idle
<1>16. OneHolder'
  BY <1>12 DEF IInv, Uploads, OneHolder, Holds, Idle
<1>17. Working'
  BY Zenon, <1>8, <1>9 DEF IInv, Uploads, Working
<1>18. Expiring'
  <2>1. ASSUME NEW j \in expirer.keys PROVE raw[j] # "AVAILABLE" /\ imports'[j].state # "NONE"
    <3>1. j \in ImportIds /\ raw[j] # "AVAILABLE" /\ imports[j].state # "NONE"
      BY <2>1 DEF IInv, Shapes, Uploads, Expiring
    <3> QED BY Zenon, <1>4, <1>8, <3>1
  <2> QED BY Zenon, <1>2, <2>1 DEF IInv, Uploads, Expiring
<1>19. ASSUME NEW j \in ImportIds PROVE (Late(j) /\ Named(j))'
  <2>1. CASE j = i
    BY <1>9, <2>1 DEF Late, Named, ProfileExists, Lifecycles
  <2>2. CASE j # i
    <3>1. imports'[j] = imports[j] /\ Late(j) /\ Named(j)
      BY Zenon, <1>8, <1>19, <2>2 DEF IInv, References
    <3>2. \A q \in ProfileIds : ProfileExists(q) => profiles'[q] = profiles[q]
      BY <1>4, <1>8 DEF ProfileExists, Lifecycles
    <3> QED BY Zenon, <3>1, <3>2 DEF Late, Named, ProfileExists
  <2> QED BY Zenon, <2>1, <2>2
<1>20. ASSUME NEW j \in ImportIds PROVE KeyBound(j)'
  <2>1. CASE j = i
    BY Zenon, <1>9, <2>1 DEF KeyBound, Terminal
  <2>2. CASE j # i
    <3>1. KeyBound(j) /\ imports'[j] = imports[j] /\ ops \subseteq ops'
      BY Zenon, <1>3, <1>8, <1>20, <2>2 DEF IInv, References
    <3> QED BY Zenon, <3>1 DEF KeyBound, Terminal
  <2> QED BY Zenon, <2>1, <2>2
<1>21. KeysUnique'
  BY <1>3, <1>10 DEF IInv, References, KeysUnique
<1>22. Targets'
  BY Zenon, <1>3, <1>4, <1>8, <1>9 DEF IInv, References, Targets, Exists
<1>23. ContentUnique'
  BY <1>8, <1>9, <1>10 DEF IInv, References, ContentUnique, ProfileExists
<1> QED BY Zenon, <1>13, <1>14, <1>15, <1>16, <1>17, <1>18, <1>19, <1>20, <1>21, <1>22,
           <1>23 DEF IInv, Uploads, References

\* The transaction of install_simulated_profile: whatever it found before, it does
\* not bind a key twice, nor create a second profile of the same content.
LEMMA InstallCommitKeeps ==
    ASSUME IInv, NEW c \in Clients, InstallCommit(c)
    PROVE  IInv'
<1>1. /\ client[c].at = "install" /\ ~Holds(c) /\ Return(c)
      /\ UNCHANGED <<objects, worker, expirer, lost>>
  BY Zenon DEF InstallCommit, Holds
<1>2. client' \in [Clients -> ClientRow]
  BY Zenon, <1>1 DEF IInv, Shapes, Return, Idle, ClientRow, ClientSteps
<1>3. CASE ~InstallConflicts(c) /\ InstallFound(c)
  <2>1. UNCHANGED <<account, imports, raw, profiles>>
    BY Zenon, <1>3 DEF InstallFound
  <2>2. References' /\ ops' \subseteq OperationRow
    BY Zenon, <1>1, <1>3, InstallFoundKeeps
  <2>3. Uploads'
    BY Zenon, <1>1, <2>1, ReturnKeeps
  <2> QED BY Zenon, <1>1, <1>2, <2>1, <2>2, <2>3 DEF IInv, Shapes
<1>4. CASE ~InstallConflicts(c) /\ InstallNew(c)
  BY Zenon, <1>1, <1>4, InstallNewKeeps
<1>5. CASE UNCHANGED database
  <2>1. UNCHANGED <<account, imports, raw, profiles, ops>>
    BY Zenon, <1>5 DEF database
  <2>2. Uploads' /\ References'
    BY Zenon, <1>1, <2>1, ReturnKeeps, ReferencesFrame DEF IInv
  <2> QED BY Zenon, <1>1, <1>2, <2>1, <2>2 DEF IInv, Shapes
<1> QED BY Zenon, <1>3, <1>4, <1>5 DEF InstallCommit

-----------------------------------------------------------------------------
(* The import worker *)

\* One import row changes its state, and no other column that matters: the step
\* of a worker on a job.
LEMMA JobStepKeeps ==
    ASSUME IInv, NEW i \in ImportIds, imports[i].state \in {"QUEUED", "PROCESSING"},
           ~imports[i].late \/ imports'[i].state = imports[i].state,
           imports'[i] \in ImportRow,
           imports'[i].state \in {"QUEUED", "PROCESSING", "READY", "FAILED"},
           imports'[i].profile = imports[i].profile,
           imports'[i].lifecycle = imports[i].lifecycle,
           imports'[i].key = imports[i].key, imports'[i].late = imports[i].late,
           imports[i].cancelled => imports'[i].cancelled,
           imports' = [imports EXCEPT ![i] = imports'[i]],
           worker' \in [at : {"idle", "open", "publish"}, id : ImportIds \cup {NULL}],
           worker'.at # "idle" => worker'.id = i,
           UNCHANGED <<account, raw, objects, profiles, ops, client, expirer, lost>>
    PROVE  IInv'
<1>1. \A j \in ImportIds : j # i => imports'[j] = imports[j]
  BY Zenon DEF IInv, Shapes
<1>2. imports' \in [ImportIds -> ImportRow]
  BY Zenon DEF IInv, Shapes
<1>3. Shapes'
  BY Zenon, <1>2 DEF IInv, Shapes
<1>4. imports[i].state # "NONE" /\ imports'[i].state # "NONE"
  BY Zenon
<1>5. Working'
  BY Zenon, <1>4 DEF Working
<1>6. Uploads'
  <2>1. expirer.keys \subseteq ImportIds
    BY DEF IInv, Shapes
  <2>2. \A j \in ImportIds : imports[j].state = "NONE" => imports'[j] = imports[j]
    BY Zenon, <1>1, <1>4
  <2>3. \A j \in ImportIds : imports[j].state # "NONE" => imports'[j].state # "NONE"
    BY Zenon, <1>1, <1>4
  <2> QED BY Zenon, <1>5, <2>1, <2>2, <2>3, UploadsFrame DEF IInv
<1>7. Late(i) /\ Named(i) /\ KeyBound(i)
  BY Zenon DEF IInv, References
<1>8. Late(i)'
  BY Zenon, <1>7 DEF Late
<1>9. Named(i)'
  BY Zenon, <1>7 DEF Named
<1>10. KeyBound(i)'
  BY <1>7 DEF KeyBound, Terminal
<1>11. ASSUME NEW j \in ImportIds, j # i PROVE (Late(j) /\ Named(j) /\ KeyBound(j))'
  <2>1. Late(j) /\ Named(j) /\ KeyBound(j) /\ imports'[j] = imports[j]
    BY Zenon, <1>1, <1>11 DEF IInv, References
  <2>2. Late(j)' /\ Named(j)'
    BY Zenon, <2>1 DEF Late, Named, ProfileExists
  <2>3. KeyBound(j)'
    BY Zenon, <2>1 DEF KeyBound, Terminal
  <2> QED BY Zenon, <2>2, <2>3
<1>12. KeysUnique' /\ ContentUnique'
  BY Zenon DEF IInv, References, KeysUnique, ContentUnique, ProfileExists
<1>13. Targets'
  <2>1. \A j \in ImportIds : /\ Exists(j) => Exists(j)'
                             /\ imports'[j].lifecycle = imports[j].lifecycle
    BY Zenon, <1>1, <1>4 DEF Exists
  <2>2. Targets
    BY Zenon DEF IInv, References
  <2> QED BY <2>1, <2>2 DEF Targets
<1> QED BY Zenon, <1>3, <1>6, <1>8, <1>9, <1>10, <1>11, <1>12, <1>13 DEF IInv, References

\* lease_next takes an import that is not late.
LEMMA LeaseKeeps ==
    ASSUME IInv, NEW i \in ImportIds, Lease(i)
    PROVE  IInv'
<1>1. /\ imports[i] \in ImportRow /\ imports[i].state = "QUEUED" /\ ~imports[i].late
      /\ imports' = [imports EXCEPT ![i].state = "PROCESSING"]
      /\ worker' = [at |-> "open", id |-> i]
      /\ UNCHANGED <<account, raw, objects, profiles, ops, client, expirer, lost>>
  BY Zenon DEF IInv, Shapes, Lease
<1>2. imports'[i] = [imports[i] EXCEPT !.state = "PROCESSING"]
  BY Zenon, <1>1 DEF IInv, Shapes
<1>3. imports' = [imports EXCEPT ![i] = imports'[i]]
  BY Zenon, <1>1, <1>2 DEF IInv, Shapes
<1>4. /\ imports'[i] \in ImportRow /\ imports'[i].state = "PROCESSING"
      /\ imports'[i].profile = imports[i].profile
      /\ imports'[i].lifecycle = imports[i].lifecycle /\ imports'[i].key = imports[i].key
      /\ imports'[i].late = imports[i].late /\ imports'[i].cancelled = imports[i].cancelled
  BY <1>1, <1>2 DEF ImportRow
<1> QED BY Zenon, <1>1, <1>3, <1>4, JobStepKeeps

\* The worker's own variable changes.
LEMMA WorkerStepKeeps ==
    ASSUME IInv, Working',
           worker' \in [at : {"idle", "open", "publish"}, id : ImportIds \cup {NULL}],
           UNCHANGED <<account, imports, raw, objects, profiles, ops, client, expirer, lost>>
    PROVE  IInv'
<1>1. Shapes'
  BY Zenon DEF IInv, Shapes
<1>2. expirer.keys \subseteq ImportIds
  BY DEF IInv, Shapes
<1>3. Uploads'
  BY Zenon, <1>2, UploadsFrame DEF IInv
<1>4. References'
  BY Zenon, ReferencesFrame DEF IInv
<1> QED BY Zenon, <1>1, <1>3, <1>4 DEF IInv

\* open_raw reads; only the worker moves on.
LEMMA OpenRawKeeps ==
    ASSUME IInv, OpenRaw
    PROVE  IInv'
<1>1. /\ worker'.at = "publish" /\ worker'.id = worker.id /\ worker.at = "open"
      /\ worker' \in [at : {"idle", "open", "publish"}, id : ImportIds \cup {NULL}]
      /\ UNCHANGED <<account, imports, raw, objects, profiles, ops, client, expirer, lost>>
  BY Zenon DEF IInv, Shapes, OpenRaw, database
<1>2. Working'
  BY <1>1 DEF IInv, Uploads, Working
<1> QED BY Zenon, <1>1, <1>2, WorkerStepKeeps

\* A draft is published, or not, for the import that the worker leased.
LEMMA PublishKeeps ==
    ASSUME IInv, Publish
    PROVE  IInv'
<1> DEFINE i == worker.id
<1>1. /\ worker' = [at |-> "idle", id |-> NULL]
      /\ UNCHANGED <<account, raw, objects, profiles, ops, client, expirer, lost>>
      /\ i \in ImportIds
  BY DEF IInv, Uploads, Working, Publish
<1>2. /\ worker'.at = "idle"
      /\ worker' \in [at : {"idle", "open", "publish"}, id : ImportIds \cup {NULL}]
  BY <1>1
<1>3. CASE UNCHANGED imports
  BY Zenon, <1>1, <1>2, <1>3, WorkerStepKeeps DEF Working
<1>4. CASE /\ imports[i].state = "PROCESSING"
           /\ imports' = [imports EXCEPT ![i].state = "READY"]
  <2>1. /\ imports[i] \in ImportRow
        /\ imports'[i] = [imports[i] EXCEPT !.state = "READY"]
    BY Zenon, <1>1, <1>4 DEF IInv, Shapes
  <2>2. imports' = [imports EXCEPT ![i] = imports'[i]]
    BY Zenon, <1>1, <1>4, <2>1 DEF IInv, Shapes
  <2>3. /\ imports'[i] \in ImportRow /\ imports'[i].state = "READY"
        /\ imports'[i].profile = imports[i].profile
        /\ imports'[i].lifecycle = imports[i].lifecycle /\ imports'[i].key = imports[i].key
        /\ imports'[i].late = imports[i].late /\ imports'[i].cancelled = imports[i].cancelled
    BY <2>1 DEF ImportRow
  <2>4. ~imports[i].late
    BY Zenon, <1>1, <1>4 DEF IInv, References, Late
  <2> QED BY Zenon, <1>1, <1>2, <1>4, <2>2, <2>3, <2>4, JobStepKeeps
<1> QED BY Zenon, <1>3, <1>4 DEF Publish

\* A failure is retried, is final, or cancels an import outside its scope.
LEMMA FailKeeps ==
    ASSUME IInv, Fail
    PROVE  IInv'
<1> DEFINE i == worker.id
<1>1. /\ worker' = [at |-> "idle", id |-> NULL]
      /\ UNCHANGED <<account, raw, objects, profiles, ops, client, expirer, lost>>
      /\ i \in ImportIds
  BY DEF IInv, Uploads, Working, Fail
<1>2. /\ worker'.at = "idle"
      /\ worker' \in [at : {"idle", "open", "publish"}, id : ImportIds \cup {NULL}]
  BY <1>1
<1>3. CASE UNCHANGED imports
  BY Zenon, <1>1, <1>2, <1>3, WorkerStepKeeps DEF Working
<1>4. imports[i] \in ImportRow
  BY Zenon, <1>1 DEF IInv, Shapes
<1>5. imports[i].state = "PROCESSING" => ~imports[i].late
  BY Zenon, <1>1 DEF IInv, References, Late
<1>6. CASE /\ imports[i].state = "PROCESSING"
           /\ imports' = [imports EXCEPT ![i].cancelled = TRUE]
  <2>1. imports'[i] = [imports[i] EXCEPT !.cancelled = TRUE]
    BY Zenon, <1>1, <1>6 DEF IInv, Shapes
  <2>2. imports' = [imports EXCEPT ![i] = imports'[i]]
    BY Zenon, <1>1, <1>6, <2>1 DEF IInv, Shapes
  <2>3. imports'[i] \in ImportRow
    BY Zenon, <1>4, <2>1 DEF ImportRow
  <2>4. /\ imports'[i].state = imports[i].state /\ imports'[i].profile = imports[i].profile
        /\ imports'[i].lifecycle = imports[i].lifecycle /\ imports'[i].key = imports[i].key
        /\ imports'[i].late = imports[i].late /\ imports'[i].cancelled
    BY <1>4, <2>1 DEF ImportRow
  <2> QED BY Zenon, <1>1, <1>2, <1>5, <1>6, <2>2, <2>3, <2>4, JobStepKeeps
<1>7. ASSUME imports[i].state = "PROCESSING", NEW s \in {"QUEUED", "FAILED"},
             imports' = [imports EXCEPT ![i].state = s]
      PROVE  IInv'
  <2>1. imports'[i] = [imports[i] EXCEPT !.state = s]
    BY Zenon, <1>1, <1>7 DEF IInv, Shapes
  <2>2. imports' = [imports EXCEPT ![i] = imports'[i]]
    BY Zenon, <1>1, <1>7, <2>1 DEF IInv, Shapes
  <2>3. /\ imports'[i] \in ImportRow /\ imports'[i].state = s
        /\ imports'[i].profile = imports[i].profile
        /\ imports'[i].lifecycle = imports[i].lifecycle /\ imports'[i].key = imports[i].key
        /\ imports'[i].late = imports[i].late /\ imports'[i].cancelled = imports[i].cancelled
    BY <1>4, <1>7, <2>1 DEF ImportRow
  <2> QED BY Zenon, <1>1, <1>2, <1>5, <1>7, <2>2, <2>3, JobStepKeeps
<1> QED BY Zenon, <1>3, <1>6, <1>7 DEF Fail
=============================================================================
