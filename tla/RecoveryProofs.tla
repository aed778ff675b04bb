--------------------------- MODULE RecoveryProofs ---------------------------
(***************************************************************************)
(* The theorems about backups and restores: whatever backup the primary     *)
(* comes from, its rows agree with the deletion ledger, and a restore that  *)
(* may be exposed is erased of the requested deletions and short of no      *)
(* object.  They hold for any sets of resources and of backups and for any  *)
(* number of losses of the primary.                                         *)
(*                                                                          *)
(* Neither property is inductive.  The rows that matter are not in the      *)
(* primary alone but in dumps that are taken at different times and         *)
(* restored later, so the invariant speaks of every place where a row may   *)
(* be (Rows): as long as a chain is not requested, what the primary shows   *)
(* of the fence bounds what the dumps show (ChainOK).  The objects of a     *)
(* backup are listed after its dump, so a row in it has its object or a     *)
(* reason not to (BackupOK), and what is left of that while the restore     *)
(* goes on is one conjunct of RestoreOK for each of its phases.             *)
(***************************************************************************)
EXTENDS Recovery, TLAPS

\* The steps of a backup and of a restore, and the records that they go through.
BackupSteps == {"none", "dumped", "copying", "stored", "failed"}
RestoreSteps == {"none", "materialize", "database", "objects", "resolve",
                 "suppress", "qualified", "held", "bound"}

BackupRecord == [step : BackupSteps, db : Database, listed : SUBSET Resources,
                 copied : SUBSET Resources,
                 parts : SUBSET (Resources \cup {"dump", "manifest"}),
                 old : BOOLEAN]

RestoreRecord == [step : RestoreSteps, of : SUBSET Backups, db : Database,
                  objects : SUBSET Resources, left : SUBSET Resources]

\* The type of the state.  While the primary serves nothing is in quarantine,
\* and a primary that was lost holds nothing.
Shapes ==
    /\ up \in BOOLEAN
    /\ db \in Database
    /\ known \in SUBSET Resources
    /\ objects \in SUBSET known /\ clients \in SUBSET known /\ aged \in SUBSET known
    /\ ledger \in [Resources -> LedgerPhases]
    /\ evidence \in [Resources -> Outcomes]
    /\ backups \in [Backups -> BackupRecord]
    /\ restore \in RestoreRecord
    /\ up => restore = NoRestore
    /\ ~up => db = EmptyDatabase /\ clients = {}

\* The row of a resource in every dump; in every database; and its intent.
Dumps(r) == {backups[b].db.row[r] : b \in Backups}
Rows(r) == {db.row[r], restore.db.row[r]} \cup Dumps(r)
Intents(r) == {db.intent[r], restore.db.intent[r]}
              \cup {backups[b].db.intent[r] : b \in Backups}

\* The chain of a deletion and the rows.  No row is fenced before the chain is
\* prepared or after it is aborted.  While the chain is prepared a dump holds
\* a fence only if a primary that serves still does, an invalidated intent and
\* a fence exclude each other, and evidence of a noncommit says that no dump
\* holds the fence.  Once the deletion is requested the row is not active.
ChainOK(r) ==
    /\ ledger[r] = "NONE" => evidence[r] = "NONE"
    /\ ledger[r] \in {"NONE", "ABORTED"} => "FENCED" \notin Rows(r)
    /\ ledger[r] = "PREPARED" =>
        /\ up /\ db.row[r] # "FENCED" => "FENCED" \notin Dumps(r)
        /\ up /\ db.intent[r] = "INVALIDATED" => db.row[r] # "FENCED"
        /\ evidence[r] = "NOT_COMMITTED" =>
              "FENCED" \notin Dumps(r) /\ (up => db.intent[r] = "INVALIDATED")
    /\ Suppressed(r) => db.row[r] # "ACTIVE"

\* A resource that was never created is nowhere; one whose row is not yet
\* committed has its object and no deletion; an active row has its object
\* unless the upload is past its retention.
UploadOK(r) ==
    /\ r \notin known =>
           ledger[r] = "NONE" /\ Rows(r) = {"NONE"} /\ Intents(r) = {"NONE"}
    /\ r \in clients =>
           r \in objects /\ ledger[r] = "NONE"
           /\ db.row[r] = "NONE" /\ db.intent[r] = "NONE"
    /\ up /\ db.row[r] = "ACTIVE" => r \in objects \cup aged

\* Why a row may be without its object: the upload is past its retention, or
\* the deletion was requested.
Dated(r) == r \in aged \/ Suppressed(r)

\* An active row of a dump has its object, in the primary until the objects
\* are listed and in the list from then on, or it is dated.
BackupOK(b) ==
    /\ "manifest" \in backups[b].parts => backups[b].step = "stored"
    /\ backups[b].listed \subseteq known
    /\ backups[b].step = "dumped" =>
           /\ up
           /\ \A r \in Resources : backups[b].db.row[r] = "ACTIVE" =>
                  r \in objects \/ Dated(r)
    /\ backups[b].step \in {"copying", "stored"} =>
           \A r \in Resources : backups[b].db.row[r] = "ACTIVE" =>
                  r \in backups[b].listed \/ Dated(r)

\* A restore is of one backup, whose manifest was written.
OneBackup ==
    /\ restore.objects \subseteq known
    /\ \A b, c \in restore.of : b = c
    /\ \A b \in restore.of : backups[b].step = "stored"

\* The quarantine database is the dump until the ledger is followed.
Loaded ==
    restore.step = "objects" => \A b \in restore.of : restore.db = backups[b].db

\* An active row in quarantine has its object there, or it is dated.
RowsCovered ==
    restore.step \in {"resolve", "suppress", "qualified", "bound"} =>
        \A r \in Resources : restore.db.row[r] = "ACTIVE" =>
            r \in restore.objects \/ Dated(r)

\* The passes over the ledger remove no row ahead of their turn.
DumpFollowed ==
    restore.step \in {"resolve", "suppress"} =>
        \A r \in Resources : restore.step = "resolve" \/ r \in restore.left =>
            (restore.db.row[r] = "NONE" =>
                 \A b \in restore.of : backups[b].db.row[r] = "NONE")

\* A resource that the second pass is done with is erased if its deletion is
\* requested; an object of it is one that the dump does not know.
Erased ==
    restore.step \in {"suppress", "qualified", "bound"} =>
        \A r \in Resources : Suppressed(r) /\ r \notin restore.left =>
            /\ restore.db.row[r] = "NONE"
            /\ r \in restore.objects =>
                   \A b \in restore.of : backups[b].db.row[r] = "NONE"

\* A restore is qualified when the pass is over and no chain is prepared.
Settled ==
    restore.step \in {"qualified", "bound"} => restore.left = {} /\ ExposureAllowed

\* What holds of the restore in quarantine.
RestoreOK ==
    OneBackup /\ Loaded /\ RowsCovered /\ DumpFollowed /\ Erased /\ Settled

\* The inductive invariant.
IInv ==
    /\ Shapes
    /\ \A r \in Resources : ChainOK(r) /\ UploadOK(r)
    /\ \A b \in Backups : BackupOK(b)
    /\ RestoreOK

-----------------------------------------------------------------------------
(* Databases *)

\* A new database is a database.
LEMMA EmptyIsDatabase == EmptyDatabase \in Database
  BY Zenon DEF EmptyDatabase, Database, RowStates, IntentStates

\* Writing a row, or an intent, of one resource changes nothing else.
LEMMA SetRow ==
    ASSUME NEW d \in Database, NEW r \in Resources, NEW s \in RowStates,
           NEW e, e = [d EXCEPT !.row[r] = s]
    PROVE  /\ e \in Database
           /\ e.row[r] = s
           /\ \A q \in Resources : q # r => e.row[q] = d.row[q]
           /\ e.intent = d.intent
  BY Zenon DEF Database

LEMMA SetIntent ==
    ASSUME NEW d \in Database, NEW r \in Resources, NEW i \in IntentStates,
           NEW e, e = [d EXCEPT !.intent[r] = i]
    PROVE  /\ e \in Database
           /\ e.intent[r] = i
           /\ \A q \in Resources : q # r => e.intent[q] = d.intent[q]
           /\ e.row = d.row
  BY Zenon DEF Database

\* An empty quarantine satisfies what is said of a restore.
LEMMA NoRestoreOK ==
    ASSUME restore' = NoRestore
    PROVE  RestoreOK' /\ restore' \in RestoreRecord
  BY Zenon, EmptyIsDatabase
  DEF NoRestore, RestoreRecord, RestoreSteps, RestoreOK, OneBackup, Loaded,
      RowsCovered, DumpFollowed, Erased, Settled

-----------------------------------------------------------------------------
(* Steps of the primary *)

\* A step of the primary changes only what belongs to resource r.
Touches(r) ==
    \A s \in Resources \ {r} :
        /\ db'.row[s] = db.row[s] /\ db'.intent[s] = db.intent[s]
        /\ ledger'[s] = ledger[s] /\ evidence'[s] = evidence[s]
        /\ s \in known' <=> s \in known
        /\ s \in objects' <=> s \in objects
        /\ s \in clients' <=> s \in clients
        /\ s \in aged' <=> s \in aged

\* A step of the primary on resource r keeps the invariant if it keeps what
\* concerns r, if it withdraws no request, and if it takes the object of r only
\* when that is dated.
LEMMA PrimaryKeeps ==
    ASSUME IInv, up, NEW r \in Resources, Touches(r), Shapes',
           UNCHANGED <<up, backups, restore>>,
           known \subseteq known', aged \subseteq aged',
           Suppressed(r) => Suppressed(r)',
           r \in objects => r \in objects' \/ Dated(r)',
           ChainOK(r)', UploadOK(r)'
    PROVE  IInv'
  <1>1. ASSUME NEW s \in Resources PROVE ChainOK(s)' /\ UploadOK(s)'
    <2>1. CASE s = r
      BY Zenon, <2>1
    <2>2. CASE s # r
      <3>1. Dumps(s)' = Dumps(s) /\ Rows(s)' = Rows(s) /\ Intents(s)' = Intents(s)
        BY Zenon, <2>2 DEF Rows, Dumps, Intents, Touches
      <3>2. /\ UNCHANGED <<db.row[s], db.intent[s], ledger[s], evidence[s], up>>
            /\ s \in known' <=> s \in known
            /\ s \in objects' <=> s \in objects
            /\ s \in clients' <=> s \in clients
            /\ s \in aged' <=> s \in aged
        BY Zenon, <2>2 DEF Touches
      <3>3. ChainOK(s) /\ UploadOK(s)
        BY Zenon DEF IInv
      <3> QED BY Zenon, <3>1, <3>2, <3>3 DEF ChainOK, UploadOK, Suppressed
    <2> QED BY Zenon, <2>1, <2>2
  <1>2. ASSUME NEW s \in Resources
        PROVE  /\ Dated(s) => Dated(s)'
               /\ s \in objects => s \in objects' \/ Dated(s)'
    BY Zenon DEF Dated, Suppressed, Touches
  <1>3. ASSUME NEW b \in Backups PROVE BackupOK(b)'
    BY Zenon, <1>2 DEF IInv, BackupOK
  <1>4. RestoreOK'
    BY Zenon, NoRestoreOK DEF IInv, Shapes
  <1> QED BY Zenon, <1>1, <1>3, <1>4 DEF IInv

\* While the primary serves no row or intent is in quarantine.
LEMMA QuarantineEmpty ==
    ASSUME Shapes, up, NEW r \in Resources
    PROVE  restore.db.row[r] = "NONE" /\ restore.db.intent[r] = "NONE"
  BY DEF Shapes, NoRestore, EmptyDatabase

\* An upload stored ahead of its row keeps the invariant (PutObject).
LEMMA PutObjectKeeps ==
    ASSUME IInv, NEW r \in Resources, PutObject(r)
    PROVE  IInv'
  <1>0. up /\ UNCHANGED <<up, aged, evidence, backups, restore>>
    BY Zenon DEF PutObject, Primary
  <1>1. Shapes /\ ChainOK(r) /\ UploadOK(r)
    BY Zenon DEF IInv
  <1>2. \A s \in Resources : s # r => (s \in objects' <=> s \in objects)
    BY Zenon DEF PutObject, Primary
  <1>3. Shapes'
    BY <1>0, <1>1, <1>2 DEF PutObject, Primary, primary, Shapes
  <1>4. Touches(r) /\ known \subseteq known'
    BY Zenon, <1>0, <1>2 DEF PutObject, Primary, primary, Touches
  <1>5. /\ Suppressed(r) => Suppressed(r)'
        /\ r \in objects => r \in objects' \/ Dated(r)'
    BY Zenon, <1>0, <1>1, <1>2 DEF PutObject, Primary, primary, Suppressed, Dated, UploadOK
  <1>6. Dumps(r)' = Dumps(r)
    BY Zenon, <1>0 DEF Dumps
  <1>7. ChainOK(r)'
    BY Zenon, <1>0, <1>1, <1>2, <1>6, QuarantineEmpty
    DEF PutObject, Primary, primary, ChainOK, UploadOK, Rows, Suppressed
  <1>8. UploadOK(r)'
    <2>1. Intents(r)' \subseteq Intents(r) \cup {db'.intent[r]}
      BY Zenon, <1>0 DEF Intents
    <2>2. Rows(r)' \subseteq Rows(r) \cup {db'.row[r]}
      BY Zenon, <1>0, <1>6 DEF Rows
    <2> QED BY Zenon, <1>0, <1>1, <1>2, <2>1, <2>2
            DEF PutObject, Primary, primary, UploadOK, Shapes, Rows, Intents
  <1> QED BY Zenon, <1>0, <1>3, <1>4, <1>5, <1>7, <1>8, PrimaryKeeps

\* The commit of the row of a stored upload keeps it (InsertRow).
LEMMA InsertRowKeeps ==
    ASSUME IInv, NEW r \in Resources, InsertRow(r)
    PROVE  IInv'
  <1>0. up /\ UNCHANGED <<up, aged, evidence, backups, restore>>
    BY Zenon DEF InsertRow, Primary
  <1>1. Shapes /\ ChainOK(r) /\ UploadOK(r)
    BY DEF IInv
  <1>2. /\ db' \in Database
        /\ db'.row[r] = "ACTIVE"
        /\ db'.intent = db.intent
        /\ \A s \in Resources : s # r => db'.row[s] = db.row[s]
    BY <1>1, SetRow DEF InsertRow, Primary, Row, Shapes, RowStates
  <1>3. Shapes'
    BY <1>0, <1>1, <1>2 DEF InsertRow, Primary, primary, Shapes
  <1>4. Touches(r) /\ known \subseteq known'
    BY Zenon, <1>0, <1>2 DEF InsertRow, Primary, primary, Touches
  <1>5. /\ Suppressed(r) => Suppressed(r)'
        /\ r \in objects => r \in objects' \/ Dated(r)'
    BY Zenon, <1>0, <1>1, <1>2 DEF InsertRow, Primary, primary, Suppressed, Dated, UploadOK
  <1>6. Dumps(r)' = Dumps(r)
    BY <1>0 DEF Dumps
  <1>7. ChainOK(r)'
    BY Zenon, <1>0, <1>1, <1>2, <1>6, QuarantineEmpty
    DEF InsertRow, Primary, primary, ChainOK, UploadOK, Rows, Suppressed
  <1>8. UploadOK(r)'
    <2>1. Intents(r)' \subseteq Intents(r) \cup {db'.intent[r]}
      BY <1>0 DEF Intents
    <2>2. Rows(r)' \subseteq Rows(r) \cup {db'.row[r]}
      BY <1>0, <1>6 DEF Rows
    <2> QED BY Zenon, <1>0, <1>1, <1>2, <2>1, <2>2
            DEF InsertRow, Primary, primary, UploadOK, Shapes, Rows, Intents
  <1> QED BY <1>0, <1>3, <1>4, <1>5, <1>7, <1>8, PrimaryKeeps

\* The creation of a deletion intent keeps it (CreateIntent).
LEMMA CreateIntentKeeps ==
    ASSUME IInv, NEW r \in Resources, CreateIntent(r)
    PROVE  IInv'
  <1>0. up /\ UNCHANGED <<up, aged, evidence, backups, restore>>
    BY Zenon DEF CreateIntent, Primary
  <1>1. Shapes /\ ChainOK(r) /\ UploadOK(r)
    BY DEF IInv
  <1>2. /\ db' \in Database
        /\ db'.row = db.row
        /\ db'.intent[r] = "CREATED"
        /\ \A s \in Resources : s # r => db'.intent[s] = db.intent[s]
    BY <1>1, SetIntent DEF CreateIntent, Primary, Shapes, IntentStates
  <1>3. Shapes'
    BY <1>0, <1>1, <1>2 DEF CreateIntent, Primary, primary, Shapes
  <1>4. Touches(r) /\ known \subseteq known'
    BY Zenon, <1>0, <1>2 DEF CreateIntent, Primary, primary, Touches
  <1>5. /\ Suppressed(r) => Suppressed(r)'
        /\ r \in objects => r \in objects' \/ Dated(r)'
    BY Zenon, <1>0, <1>1, <1>2
    DEF CreateIntent, Primary, primary, Suppressed, Dated, UploadOK
  <1>6. Dumps(r)' = Dumps(r)
    BY <1>0 DEF Dumps
  <1>7. ChainOK(r)'
    BY Zenon, <1>0, <1>1, <1>2, <1>6, QuarantineEmpty
    DEF CreateIntent, Primary, primary, ChainOK, UploadOK, Rows, Suppressed
  <1>8. UploadOK(r)'
    <2>1. Intents(r)' \subseteq Intents(r) \cup {db'.intent[r]}
      BY <1>0 DEF Intents
    <2>2. Rows(r)' \subseteq Rows(r) \cup {db'.row[r]}
      BY <1>0, <1>6 DEF Rows
    <2> QED BY Zenon, <1>0, <1>1, <1>2, <2>1, <2>2
            DEF CreateIntent, Primary, primary, UploadOK, Shapes, Rows, Intents
  <1> QED BY <1>0, <1>3, <1>4, <1>5, <1>7, <1>8, PrimaryKeeps

\* The first ledger event of a deletion keeps it (Prepare).
LEMMA PrepareKeeps ==
    ASSUME IInv, NEW r \in Resources, Prepare(r)
    PROVE  IInv'
  <1>0. up /\ UNCHANGED <<up, aged, evidence, backups, restore>>
    BY Zenon DEF Prepare, Primary
  <1>1. Shapes /\ ChainOK(r) /\ UploadOK(r)
    BY DEF IInv
  <1>2. /\ ledger' \in [Resources -> LedgerPhases]
        /\ ledger'[r] = "PREPARED"
        /\ \A s \in Resources : s # r => ledger'[s] = ledger[s]
    BY Zenon, <1>1 DEF Prepare, Primary, Shapes, LedgerPhases
  <1>3. Shapes'
    BY <1>0, <1>1, <1>2 DEF Prepare, Primary, primary, Shapes
  <1>4. Touches(r) /\ known \subseteq known'
    BY Zenon, <1>0, <1>2 DEF Prepare, Primary, primary, Touches
  <1>5. /\ Suppressed(r) => Suppressed(r)'
        /\ r \in objects => r \in objects' \/ Dated(r)'
    BY Zenon, <1>0, <1>1, <1>2 DEF Prepare, Primary, primary, Suppressed, Dated, UploadOK
  <1>6. Dumps(r)' = Dumps(r)
    BY <1>0 DEF Dumps
  <1>7. ChainOK(r)'
    BY Zenon, <1>0, <1>1, <1>2, <1>6, QuarantineEmpty
    DEF Prepare, Primary, primary, ChainOK, UploadOK, Rows, Suppressed
  <1>8. UploadOK(r)'
    <2>1. Intents(r)' \subseteq Intents(r) \cup {db'.intent[r]}
      BY <1>0 DEF Intents
    <2>2. Rows(r)' \subseteq Rows(r) \cup {db'.row[r]}
      BY <1>0, <1>6 DEF Rows
    <2> QED BY Zenon, <1>0, <1>1, <1>2, <2>1, <2>2
            DEF Prepare, Primary, primary, UploadOK, Shapes, Rows, Intents
  <1> QED BY <1>0, <1>3, <1>4, <1>5, <1>7, <1>8, PrimaryKeeps

\* The commit of the fence keeps it: the intent was not invalidated, so there
\* is no evidence of a noncommit (Fence).
LEMMA FenceKeeps ==
    ASSUME IInv, NEW r \in Resources, Fence(r)
    PROVE  IInv'
  <1>0. up /\ UNCHANGED <<up, aged, evidence, backups, restore>>
    BY Zenon DEF Fence, Primary
  <1>1. Shapes /\ ChainOK(r) /\ UploadOK(r)
    BY DEF IInv
  <1>2. /\ db' \in Database
        /\ db'.row[r] = "FENCED"
        /\ db'.intent[r] = "CONSUMED"
        /\ \A s \in Resources : s # r => db'.row[s] = db.row[s] /\ db'.intent[s] = db.intent[s]
    <2> DEFINE e == Row(r, "FENCED")
    <2>1. /\ e \in Database
          /\ e.row[r] = "FENCED"
          /\ \A s \in Resources : s # r => e.row[s] = db.row[s]
          /\ e.intent = db.intent
      BY <1>1, SetRow DEF Row, Shapes, RowStates
    <2>2. db' = [e EXCEPT !.intent[r] = "CONSUMED"]
      BY Zenon DEF Fence, Primary
    <2> HIDE DEF e
    <2> QED BY <2>1, <2>2, SetIntent DEF IntentStates
  <1>3. Shapes'
    BY <1>0, <1>1, <1>2 DEF Fence, Primary, primary, Shapes
  <1>4. Touches(r) /\ known \subseteq known'
    BY Zenon, <1>0, <1>2 DEF Fence, Primary, primary, Touches
  <1>5. /\ Suppressed(r) => Suppressed(r)'
        /\ r \in objects => r \in objects' \/ Dated(r)'
    BY Zenon, <1>0, <1>1, <1>2 DEF Fence, Primary, primary, Suppressed, Dated, UploadOK
  <1>6. Dumps(r)' = Dumps(r)
    BY <1>0 DEF Dumps
  <1>7. ChainOK(r)'
    BY Zenon, <1>0, <1>1, <1>2, <1>6, QuarantineEmpty
    DEF Fence, Primary, primary, ChainOK, UploadOK, Rows, Suppressed
  <1>8. UploadOK(r)'
    <2>1. Intents(r)' \subseteq Intents(r) \cup {db'.intent[r]}
      BY <1>0 DEF Intents
    <2>2. Rows(r)' \subseteq Rows(r) \cup {db'.row[r]}
      BY <1>0, <1>6 DEF Rows
    <2> QED BY Zenon, <1>0, <1>1, <1>2, <2>1, <2>2
            DEF Fence, Primary, primary, UploadOK, Shapes, Rows, Intents
  <1> QED BY <1>0, <1>3, <1>4, <1>5, <1>7, <1>8, PrimaryKeeps

\* The proof of a noncommit keeps it: the row is not fenced, so no dump holds
\* the fence (Invalidate).
LEMMA InvalidateKeeps ==
    ASSUME IInv, NEW r \in Resources, Invalidate(r)
    PROVE  IInv'
  <1>0. up /\ UNCHANGED <<up, aged, evidence, backups, restore>>
    BY Zenon DEF Invalidate, Primary
  <1>1. Shapes /\ ChainOK(r) /\ UploadOK(r)
    BY DEF IInv
  <1>2. /\ db' \in Database
        /\ db'.row = db.row
        /\ db'.intent[r] = "INVALIDATED"
        /\ \A s \in Resources : s # r => db'.intent[s] = db.intent[s]
    BY <1>1, SetIntent DEF Invalidate, Primary, Shapes, IntentStates
  <1>3. Shapes'
    BY <1>0, <1>1, <1>2 DEF Invalidate, Primary, primary, Shapes
  <1>4. Touches(r) /\ known \subseteq known'
    BY Zenon, <1>0, <1>2 DEF Invalidate, Primary, primary, Touches
  <1>5. /\ Suppressed(r) => Suppressed(r)'
        /\ r \in objects => r \in objects' \/ Dated(r)'
    BY Zenon, <1>0, <1>1, <1>2 DEF Invalidate, Primary, primary, Suppressed, Dated, UploadOK
  <1>6. Dumps(r)' = Dumps(r)
    BY <1>0 DEF Dumps
  <1>7. ChainOK(r)'
    BY Zenon, <1>0, <1>1, <1>2, <1>6, QuarantineEmpty
    DEF Invalidate, Primary, primary, ChainOK, UploadOK, Rows, Suppressed
  <1>8. UploadOK(r)'
    <2>1. Intents(r)' \subseteq Intents(r) \cup {db'.intent[r]}
      BY <1>0 DEF Intents
    <2>2. Rows(r)' \subseteq Rows(r) \cup {db'.row[r]}
      BY <1>0, <1>6 DEF Rows
    <2> QED BY Zenon, <1>0, <1>1, <1>2, <2>1, <2>2
            DEF Invalidate, Primary, primary, UploadOK, Shapes, Rows, Intents
  <1> QED BY <1>0, <1>3, <1>4, <1>5, <1>7, <1>8, PrimaryKeeps

\* The abort keeps it: with the intent invalidated the row is not fenced, here
\* or in any dump (Abort).
LEMMA AbortKeeps ==
    ASSUME IInv, NEW r \in Resources, Abort(r)
    PROVE  IInv'
  <1>0. up /\ UNCHANGED <<up, aged, evidence, backups, restore>>
    BY Zenon DEF Abort, Primary
  <1>1. Shapes /\ ChainOK(r) /\ UploadOK(r)
    BY DEF IInv
  <1>2. /\ ledger' \in [Resources -> LedgerPhases]
        /\ ledger'[r] = "ABORTED"
        /\ \A s \in Resources : s # r => ledger'[s] = ledger[s]
    BY Zenon, <1>1 DEF Abort, Primary, Shapes, LedgerPhases
  <1>3. Shapes'
    BY <1>0, <1>1, <1>2 DEF Abort, Primary, primary, Shapes
  <1>4. Touches(r) /\ known \subseteq known'
    BY Zenon, <1>0, <1>2 DEF Abort, Primary, primary, Touches
  <1>5. /\ Suppressed(r) => Suppressed(r)'
        /\ r \in objects => r \in objects' \/ Dated(r)'
    BY Zenon, <1>0, <1>1, <1>2 DEF Abort, Primary, primary, Suppressed, Dated, UploadOK
  <1>6. Dumps(r)' = Dumps(r)
    BY <1>0 DEF Dumps
  <1>7. ChainOK(r)'
    BY Zenon, <1>0, <1>1, <1>2, <1>6, QuarantineEmpty
    DEF Abort, Primary, primary, ChainOK, UploadOK, Rows, Suppressed
  <1>8. UploadOK(r)'
    <2>1. Intents(r)' \subseteq Intents(r) \cup {db'.intent[r]}
      BY <1>0 DEF Intents
    <2>2. Rows(r)' \subseteq Rows(r) \cup {db'.row[r]}
      BY <1>0, <1>6 DEF Rows
    <2> QED BY Zenon, <1>0, <1>1, <1>2, <2>1, <2>2
            DEF Abort, Primary, primary, UploadOK, Shapes, Rows, Intents
  <1> QED BY <1>0, <1>3, <1>4, <1>5, <1>7, <1>8, PrimaryKeeps

\* The request keeps it: the row is fenced, so it is not active (Request).
LEMMA RequestKeeps ==
    ASSUME IInv, NEW r \in Resources, Request(r)
    PROVE  IInv'
  <1>0. up /\ UNCHANGED <<up, aged, evidence, backups, restore>>
    BY Zenon DEF Request, Primary
  <1>1. Shapes /\ ChainOK(r) /\ UploadOK(r)
    BY DEF IInv
  <1>2. /\ ledger' \in [Resources -> LedgerPhases]
        /\ ledger'[r] = "REQUESTED"
        /\ \A s \in Resources : s # r => ledger'[s] = ledger[s]
    BY Zenon, <1>1 DEF Request, Primary, Shapes, LedgerPhases
  <1>3. Shapes'
    BY <1>0, <1>1, <1>2 DEF Request, Primary, primary, Shapes
  <1>4. Touches(r) /\ known \subseteq known'
    BY Zenon, <1>0, <1>2 DEF Request, Primary, primary, Touches
  <1>5. /\ Suppressed(r) => Suppressed(r)'
        /\ r \in objects => r \in objects' \/ Dated(r)'
    BY Zenon, <1>0, <1>1, <1>2 DEF Request, Primary, primary, Suppressed, Dated, UploadOK
  <1>6. Dumps(r)' = Dumps(r)
    BY <1>0 DEF Dumps
  <1>7. ChainOK(r)'
    BY Zenon, <1>0, <1>1, <1>2, <1>6, QuarantineEmpty
    DEF Request, Primary, primary, ChainOK, UploadOK, Rows, Suppressed
  <1>8. UploadOK(r)'
    <2>1. Intents(r)' \subseteq Intents(r) \cup {db'.intent[r]}
      BY <1>0 DEF Intents
    <2>2. Rows(r)' \subseteq Rows(r) \cup {db'.row[r]}
      BY <1>0, <1>6 DEF Rows
    <2> QED BY Zenon, <1>0, <1>1, <1>2, <2>1, <2>2
            DEF Request, Primary, primary, UploadOK, Shapes, Rows, Intents
  <1> QED BY <1>0, <1>3, <1>4, <1>5, <1>7, <1>8, PrimaryKeeps

\* The erasure of an object keeps it: the deletion was requested (Sweep).
LEMMA SweepKeeps ==
    ASSUME IInv, NEW r \in Resources, Sweep(r)
    PROVE  IInv'
  <1>0. up /\ UNCHANGED <<up, aged, evidence, backups, restore>>
    BY Zenon DEF Sweep, Primary
  <1>1. Shapes /\ ChainOK(r) /\ UploadOK(r)
    BY DEF IInv
  <1>2. \A s \in Resources : s # r => (s \in objects' <=> s \in objects)
    BY Zenon DEF Sweep, Primary
  <1>3. Shapes'
    BY <1>0, <1>1, <1>2 DEF Sweep, Primary, primary, Shapes
  <1>4. Touches(r) /\ known \subseteq known'
    BY Zenon, <1>0, <1>2 DEF Sweep, Primary, primary, Touches
  <1>5. /\ Suppressed(r) => Suppressed(r)'
        /\ r \in objects => r \in objects' \/ Dated(r)'
    BY Zenon, <1>0, <1>1, <1>2 DEF Sweep, Primary, primary, Suppressed, Dated, UploadOK
  <1>6. Dumps(r)' = Dumps(r)
    BY <1>0 DEF Dumps
  <1>7. ChainOK(r)'
    BY Zenon, <1>0, <1>1, <1>2, <1>6, QuarantineEmpty
    DEF Sweep, Primary, primary, ChainOK, UploadOK, Rows, Suppressed
  <1>8. UploadOK(r)'
    <2>1. Intents(r)' \subseteq Intents(r) \cup {db'.intent[r]}
      BY <1>0 DEF Intents
    <2>2. Rows(r)' \subseteq Rows(r) \cup {db'.row[r]}
      BY <1>0, <1>6 DEF Rows
    <2> QED BY Zenon, <1>0, <1>1, <1>2, <2>1, <2>2
            DEF Sweep, Primary, primary, UploadOK, Shapes, Rows, Intents
  <1> QED BY <1>0, <1>3, <1>4, <1>5, <1>7, <1>8, PrimaryKeeps

\* The completion event keeps it (Complete).
LEMMA CompleteKeeps ==
    ASSUME IInv, NEW r \in Resources, Complete(r)
    PROVE  IInv'
  <1>0. up /\ UNCHANGED <<up, aged, evidence, backups, restore>>
    BY Zenon DEF Complete, Primary
  <1>1. Shapes /\ ChainOK(r) /\ UploadOK(r)
    BY DEF IInv
  <1>2. /\ ledger' \in [Resources -> LedgerPhases]
        /\ ledger'[r] = "COMPLETED"
        /\ \A s \in Resources : s # r => ledger'[s] = ledger[s]
    BY Zenon, <1>1 DEF Complete, Primary, Shapes, LedgerPhases
  <1>3. Shapes'
    BY <1>0, <1>1, <1>2 DEF Complete, Primary, primary, Shapes
  <1>4. Touches(r) /\ known \subseteq known'
    BY Zenon, <1>0, <1>2 DEF Complete, Primary, primary, Touches
  <1>5. /\ Suppressed(r) => Suppressed(r)'
        /\ r \in objects => r \in objects' \/ Dated(r)'
    BY Zenon, <1>0, <1>1, <1>2 DEF Complete, Primary, primary, Suppressed, Dated, UploadOK
  <1>6. Dumps(r)' = Dumps(r)
    BY <1>0 DEF Dumps
  <1>7. ChainOK(r)'
    BY Zenon, <1>0, <1>1, <1>2, <1>6, QuarantineEmpty
    DEF Complete, Primary, primary, ChainOK, UploadOK, Rows, Suppressed
  <1>8. UploadOK(r)'
    <2>1. Intents(r)' \subseteq Intents(r) \cup {db'.intent[r]}
      BY <1>0 DEF Intents
    <2>2. Rows(r)' \subseteq Rows(r) \cup {db'.row[r]}
      BY <1>0, <1>6 DEF Rows
    <2> QED BY Zenon, <1>0, <1>1, <1>2, <2>1, <2>2
            DEF Complete, Primary, primary, UploadOK, Shapes, Rows, Intents
  <1> QED BY <1>0, <1>3, <1>4, <1>5, <1>7, <1>8, PrimaryKeeps

\* The removal of the row keeps it (RemoveRow).
LEMMA RemoveRowKeeps ==
    ASSUME IInv, NEW r \in Resources, RemoveRow(r)
    PROVE  IInv'
  <1>0. up /\ UNCHANGED <<up, aged, evidence, backups, restore>>
    BY Zenon DEF RemoveRow, Primary
  <1>1. Shapes /\ ChainOK(r) /\ UploadOK(r)
    BY DEF IInv
  <1>2. /\ db' \in Database
        /\ db'.row[r] = "NONE"
        /\ db'.intent = db.intent
        /\ \A s \in Resources : s # r => db'.row[s] = db.row[s]
    BY <1>1, SetRow DEF RemoveRow, Primary, Row, Shapes, RowStates
  <1>3. Shapes'
    BY <1>0, <1>1, <1>2 DEF RemoveRow, Primary, primary, Shapes
  <1>4. Touches(r) /\ known \subseteq known'
    BY Zenon, <1>0, <1>2 DEF RemoveRow, Primary, primary, Touches
  <1>5. /\ Suppressed(r) => Suppressed(r)'
        /\ r \in objects => r \in objects' \/ Dated(r)'
    BY Zenon, <1>0, <1>1, <1>2 DEF RemoveRow, Primary, primary, Suppressed, Dated, UploadOK
  <1>6. Dumps(r)' = Dumps(r)
    BY <1>0 DEF Dumps
  <1>7. ChainOK(r)'
    BY Zenon, <1>0, <1>1, <1>2, <1>6, QuarantineEmpty
    DEF RemoveRow, Primary, primary, ChainOK, UploadOK, Rows, Suppressed
  <1>8. UploadOK(r)'
    <2>1. Intents(r)' \subseteq Intents(r) \cup {db'.intent[r]}
      BY <1>0 DEF Intents
    <2>2. Rows(r)' \subseteq Rows(r) \cup {db'.row[r]}
      BY <1>0, <1>6 DEF Rows
    <2> QED BY Zenon, <1>0, <1>1, <1>2, <2>1, <2>2
            DEF RemoveRow, Primary, primary, UploadOK, Shapes, Rows, Intents
  <1> QED BY <1>0, <1>3, <1>4, <1>5, <1>7, <1>8, PrimaryKeeps

\* The expiry of an upload keeps it: the upload is past its retention
\* (expire_raw_objects).
LEMMA ExpireRawKeeps ==
    ASSUME IInv, NEW r \in Resources, ExpireRaw(r)
    PROVE  IInv'
  <1>0. up /\ UNCHANGED <<up, aged, evidence, backups, restore>>
    BY Zenon DEF ExpireRaw, Primary
  <1>1. Shapes /\ ChainOK(r) /\ UploadOK(r)
    BY DEF IInv
  <1>2. \A s \in Resources : s # r => (s \in objects' <=> s \in objects)
    BY Zenon DEF ExpireRaw, Primary
  <1>3. Shapes'
    BY <1>0, <1>1, <1>2 DEF ExpireRaw, Primary, primary, Shapes
  <1>4. Touches(r) /\ known \subseteq known'
    BY Zenon, <1>0, <1>2 DEF ExpireRaw, Primary, primary, Touches
  <1>5. /\ Suppressed(r) => Suppressed(r)'
        /\ r \in objects => r \in objects' \/ Dated(r)'
    BY Zenon, <1>0, <1>1, <1>2 DEF ExpireRaw, Primary, primary, Suppressed, Dated, UploadOK
  <1>6. Dumps(r)' = Dumps(r)
    BY <1>0 DEF Dumps
  <1>7. ChainOK(r)'
    BY Zenon, <1>0, <1>1, <1>2, <1>6, QuarantineEmpty
    DEF ExpireRaw, Primary, primary, ChainOK, UploadOK, Rows, Suppressed
  <1>8. UploadOK(r)'
    <2>1. Intents(r)' \subseteq Intents(r) \cup {db'.intent[r]}
      BY <1>0 DEF Intents
    <2>2. Rows(r)' \subseteq Rows(r) \cup {db'.row[r]}
      BY <1>0, <1>6 DEF Rows
    <2> QED BY Zenon, <1>0, <1>1, <1>2, <2>1, <2>2
            DEF ExpireRaw, Primary, primary, UploadOK, Shapes, Rows, Intents
  <1> QED BY <1>0, <1>3, <1>4, <1>5, <1>7, <1>8, PrimaryKeeps

\* The end of a retention keeps it (Age).
LEMMA AgeKeeps ==
    ASSUME IInv, NEW r \in Resources, Age(r)
    PROVE  IInv'
  <1>1. /\ UNCHANGED <<up, db, objects, clients, known, ledger, evidence, backups, restore>>
        /\ aged' = aged \cup {r} /\ r \in known
    BY Zenon DEF Age, primary
  <1>2. Shapes /\ Shapes'
    BY Zenon, <1>1 DEF IInv, Shapes
  <1>3. ASSUME NEW s \in Resources PROVE ChainOK(s)' /\ UploadOK(s)'
    <2>1. Dumps(s)' = Dumps(s) /\ Rows(s)' = Rows(s) /\ Intents(s)' = Intents(s)
      BY Zenon, <1>1 DEF Rows, Dumps, Intents
    <2>2. ChainOK(s) /\ UploadOK(s)
      BY Zenon DEF IInv
    <2> QED BY Zenon, <1>1, <2>1, <2>2 DEF ChainOK, UploadOK, Suppressed
  <1>4. \A s \in Resources : Dated(s) => Dated(s)'
    BY Zenon, <1>1 DEF Dated, Suppressed
  <1>5. ASSUME NEW b \in Backups PROVE BackupOK(b)'
    BY Zenon, <1>1, <1>4 DEF IInv, BackupOK
  <1>6. RestoreOK'
    BY Zenon, <1>1, <1>4 DEF IInv, RestoreOK, Suppressed, ExposureAllowed,
                      OneBackup, Loaded, RowsCovered, DumpFollowed, Erased, Settled
  <1> QED BY Zenon, <1>2, <1>3, <1>5, <1>6 DEF IInv

\* Signed evidence of an outcome keeps it: the outcome is read from the durable
\* state of the primary (derive_local_postgres_outcome).
LEMMA ObserveKeeps ==
    ASSUME IInv, NEW r \in Resources, Observe(r)
    PROVE  IInv'
  <1>0. up /\ UNCHANGED <<up, db, objects, clients, known, aged, ledger, backups, restore>>
    BY Zenon DEF Observe, primary
  <1>1. Shapes /\ ChainOK(r) /\ UploadOK(r)
    BY DEF IInv
  <1>2. /\ evidence' \in [Resources -> Outcomes]
        /\ evidence'[r] = IF committed_fence_matches(r) THEN "COMMITTED" ELSE "NOT_COMMITTED"
        /\ \A s \in Resources : s # r => evidence'[s] = evidence[s]
    BY Zenon, <1>1 DEF Observe, Shapes, Outcomes
  <1>3. Shapes'
    BY Zenon, <1>0, <1>1, <1>2 DEF Shapes
  <1>4. Touches(r)
    BY Zenon, <1>0, <1>2 DEF Touches
  <1>5. Dumps(r)' = Dumps(r) /\ Rows(r)' = Rows(r) /\ Intents(r)' = Intents(r)
    BY Zenon, <1>0 DEF Rows, Dumps, Intents
  <1>6. ChainOK(r)'
    BY Zenon, <1>0, <1>1, <1>2, <1>5
    DEF Observe, ChainOK, Suppressed, committed_fence_matches, proved_noncommit_matches
  <1>7. UploadOK(r)'
    BY Zenon, <1>0, <1>1, <1>5 DEF UploadOK
  <1> QED BY Zenon, <1>0, <1>3, <1>4, <1>6, <1>7, PrimaryKeeps DEF Suppressed

\* The loss of the primary keeps it: the backups that are being taken fail with
\* it, and what is known of the dumps stays known (Lose).
LEMMA LoseKeeps ==
    ASSUME IInv, Lose
    PROVE  IInv'
  <1>1. Shapes /\ up
    BY Zenon DEF IInv, Lose
  <1>2. ASSUME NEW b \in Backups
        PROVE  /\ backups'[b] \in BackupRecord
               /\ backups'[b].db = backups[b].db
               /\ backups'[b].listed = backups[b].listed
               /\ backups'[b].parts = backups[b].parts
               /\ backups'[b].step = IF backups[b].step \in {"dumped", "copying"}
                                     THEN "failed" ELSE backups[b].step
    BY Zenon, <1>1 DEF Lose, Shapes, BackupRecord, BackupSteps
  <1>3. Shapes'
    BY Zenon, <1>1, <1>2, EmptyIsDatabase DEF Lose, Shapes
  <1>4. ASSUME NEW r \in Resources PROVE ChainOK(r)' /\ UploadOK(r)'
    <2>1. Dumps(r)' = Dumps(r)
      BY Zenon, <1>2 DEF Dumps
    <2>2. {backups'[b].db.intent[r] : b \in Backups} = {backups[b].db.intent[r] : b \in Backups}
      BY Zenon, <1>2
    <2>3. db'.row[r] = "NONE" /\ db'.intent[r] = "NONE"
      BY Zenon DEF Lose, EmptyDatabase
    <2>4. ChainOK(r) /\ UploadOK(r)
      BY Zenon DEF IInv
    <2>5. ChainOK(r)'
      BY Zenon, <2>1, <2>3, <2>4 DEF Lose, ChainOK, Rows, Suppressed
    <2>6. UploadOK(r)'
      BY Zenon, <2>1, <2>2, <2>3, <2>4 DEF Lose, UploadOK, Rows, Intents
    <2> QED BY Zenon, <2>5, <2>6
  <1>5. ASSUME NEW b \in Backups PROVE BackupOK(b)'
    BY <1>2 DEF IInv, BackupOK, Lose, Dated, Suppressed
  <1>6. RestoreOK'
    BY Zenon, <1>1, NoRestoreOK DEF Lose, Shapes
  <1> QED BY Zenon, <1>3, <1>4, <1>5, <1>6 DEF IInv

-----------------------------------------------------------------------------
(* Steps of a backup *)

\* A step of a backup keeps the invariant if it writes no dump but the present
\* rows, leaves a stored backup stored, and keeps what is said of the backup.
LEMMA BackupKeeps ==
    ASSUME IInv, NEW b \in Backups,
           UNCHANGED <<up, primary, aged, ledger, evidence, restore>>,
           backups' \in [Backups -> BackupRecord],
           \A c \in Backups : c # b => backups'[c] = backups[c],
           backups'[b].db = backups[b].db \/ (up /\ backups'[b].db = db),
           backups[b].step = "stored" =>
               backups'[b].step = "stored" /\ backups'[b].db = backups[b].db,
           BackupOK(b)'
    PROVE  IInv'
  <1>1. Shapes /\ UNCHANGED <<db, objects, clients, known>>
    BY Zenon DEF IInv, primary
  <1>2. Shapes'
    BY Zenon, <1>1 DEF Shapes
  <1>3. ASSUME NEW r \in Resources PROVE ChainOK(r)' /\ UploadOK(r)'
    <2>1. /\ Dumps(r)' \subseteq Dumps(r) \cup {db.row[r]}
          /\ ~up => Dumps(r)' \subseteq Dumps(r)
      BY Zenon DEF Dumps
    <2>2. Rows(r)' \subseteq Rows(r)
      BY Zenon, <1>1, <2>1 DEF Rows
    <2>3. Intents(r)' \subseteq Intents(r)
      BY Zenon, <1>1 DEF Intents
    <2>4. ChainOK(r) /\ UploadOK(r)
      BY Zenon DEF IInv
    <2>5. ChainOK(r)'
      BY Zenon, <1>1, <2>1, <2>2, <2>4 DEF ChainOK, Suppressed
    <2>6. UploadOK(r)'
      BY Zenon, <1>1, <2>2, <2>3, <2>4 DEF UploadOK, Rows, Intents
    <2> QED BY Zenon, <2>5, <2>6
  <1>4. ASSUME NEW c \in Backups PROVE BackupOK(c)'
    BY Zenon, <1>1 DEF IInv, BackupOK, Dated, Suppressed
  <1>5. RestoreOK'
    <2>1. \A c \in restore.of : /\ c \in Backups
                                /\ backups'[c].db = backups[c].db
                                /\ backups'[c].step = "stored"
      BY Zenon, <1>1 DEF IInv, RestoreOK, OneBackup, Shapes, RestoreRecord
    <2> QED BY <1>1, <2>1 DEF IInv, RestoreOK, Dated, Suppressed, ExposureAllowed,
                              OneBackup, Loaded, RowsCovered, DumpFollowed, Erased, Settled
  <1> QED BY Zenon, <1>2, <1>3, <1>4, <1>5 DEF IInv

\* The dump is the present rows, whose objects the primary has (Dump).
LEMMA DumpKeeps ==
    ASSUME IInv, NEW b \in Backups, Dump(b)
    PROVE  IInv'
  <1>1. Shapes /\ backups[b] \in BackupRecord /\ BackupOK(b)
    BY Zenon DEF IInv, Shapes
  <1>2. /\ backups' \in [Backups -> BackupRecord]
        /\ \A c \in Backups : c # b => backups'[c] = backups[c]
        /\ backups'[b].step = "dumped"
        /\ backups'[b].db = db
        /\ backups'[b].listed = backups[b].listed
        /\ backups'[b].parts = {"dump"}
    BY Zenon, <1>1 DEF Dump, Backup, Shapes, BackupRecord, BackupSteps
  <1>3. UNCHANGED <<up, primary, aged, ledger, evidence, restore>>
    BY Zenon DEF Dump, Backup
  <1>4. BackupOK(b)'
    <2>1. UNCHANGED <<db, objects, known>>
      BY Zenon, <1>3 DEF primary
    <2>2. \A s \in Resources : UploadOK(s) /\ (Dated(s)' <=> Dated(s))
      BY Zenon, <1>3 DEF IInv, Dated, Suppressed
    <2> QED BY <1>1, <1>2, <1>3, <2>1, <2>2, RecoveryConstants
            DEF Dump, Backup, BackupOK, UploadOK, Dated, Shapes
  <1> QED BY Zenon, <1>1, <1>2, <1>3, <1>4, BackupKeeps DEF Dump, Backup

\* The list of objects, taken after the dump, holds the object of every active
\* row of it that is not dated (ListObjects).
LEMMA ListObjectsKeeps ==
    ASSUME IInv, NEW b \in Backups, ListObjects(b)
    PROVE  IInv'
  <1>1. Shapes /\ backups[b] \in BackupRecord /\ BackupOK(b)
    BY DEF IInv, Shapes
  <1>2. /\ backups' \in [Backups -> BackupRecord]
        /\ \A c \in Backups : c # b => backups'[c] = backups[c]
        /\ backups'[b].step = "copying"
        /\ backups'[b].db = backups[b].db
        /\ backups'[b].listed = objects
        /\ backups'[b].parts = backups[b].parts
    BY Zenon, <1>1 DEF ListObjects, Backup, Shapes, BackupRecord, BackupSteps
  <1>3. UNCHANGED <<up, primary, aged, ledger, evidence, restore>>
    BY Zenon DEF ListObjects, Backup
  <1>4. BackupOK(b)'
    <2>1. UNCHANGED <<db, objects, known>>
      BY <1>3 DEF primary
    <2>2. \A s \in Resources : UploadOK(s) /\ (Dated(s)' <=> Dated(s))
      BY <1>3 DEF IInv, Dated, Suppressed
    <2> QED BY <1>1, <1>2, <1>3, <2>1, <2>2, RecoveryConstants
            DEF ListObjects, Backup, BackupOK, UploadOK, Dated, Shapes
  <1> QED BY Zenon, <1>1, <1>2, <1>3, <1>4, BackupKeeps DEF ListObjects, Backup

\* The copy of an object keeps the invariant (CopyObject).
LEMMA CopyObjectKeeps ==
    ASSUME IInv, NEW b \in Backups, NEW r \in Resources, CopyObject(b, r)
    PROVE  IInv'
  <1>1. Shapes /\ backups[b] \in BackupRecord /\ BackupOK(b)
    BY Zenon DEF IInv, Shapes
  <1>2. /\ backups' \in [Backups -> BackupRecord]
        /\ \A c \in Backups : c # b => backups'[c] = backups[c]
        /\ backups'[b].step = backups[b].step
        /\ backups'[b].db = backups[b].db
        /\ backups'[b].listed = backups[b].listed
        /\ backups'[b].parts = backups[b].parts \cup {r}
    <2> DEFINE v == [backups[b] EXCEPT !.copied = backups[b].copied \cup {r},
                                       !.parts = backups[b].parts \cup {r}]
    <2>1. /\ v \in BackupRecord
          /\ v.step = backups[b].step /\ v.db = backups[b].db
          /\ v.listed = backups[b].listed
          /\ v.parts = backups[b].parts \cup {r}
      BY Zenon, <1>1 DEF BackupRecord
    <2>2. backups' = [backups EXCEPT ![b] = v]
      BY Zenon, <1>1 DEF CopyObject, Backup, Shapes
    <2> HIDE DEF v
    <2> QED BY Zenon, <1>1, <2>1, <2>2 DEF Shapes
  <1>3. UNCHANGED <<up, primary, aged, ledger, evidence, restore>>
    BY Zenon DEF CopyObject, Backup
  <1>4. BackupOK(b)'
    <2>1. UNCHANGED <<db, objects, known>>
      BY Zenon, <1>3 DEF primary
    <2>2. \A s \in Resources : UploadOK(s) /\ (Dated(s)' <=> Dated(s))
      BY Zenon, <1>3 DEF IInv, Dated, Suppressed
    <2> QED BY <1>1, <1>2, <1>3, <2>1, <2>2, RecoveryConstants
            DEF CopyObject, Backup, BackupOK, UploadOK, Dated, Shapes
  <1> QED BY Zenon, <1>1, <1>2, <1>3, <1>4, BackupKeeps DEF CopyObject, Backup

\* The manifest makes the backup a stored one (WriteManifest).
LEMMA WriteManifestKeeps ==
    ASSUME IInv, NEW b \in Backups, WriteManifest(b)
    PROVE  IInv'
  <1>1. Shapes /\ backups[b] \in BackupRecord /\ BackupOK(b)
    BY DEF IInv, Shapes
  <1>2. /\ backups' \in [Backups -> BackupRecord]
        /\ \A c \in Backups : c # b => backups'[c] = backups[c]
        /\ backups'[b].step = "stored"
        /\ backups'[b].db = backups[b].db
        /\ backups'[b].listed = backups[b].listed
        /\ backups'[b].parts = backups[b].parts \cup {"manifest"}
    BY Zenon, <1>1 DEF WriteManifest, Backup, Shapes, BackupRecord, BackupSteps
  <1>3. UNCHANGED <<up, primary, aged, ledger, evidence, restore>>
    BY Zenon DEF WriteManifest, Backup
  <1>4. BackupOK(b)'
    <2>1. UNCHANGED <<db, objects, known>>
      BY <1>3 DEF primary
    <2>2. \A s \in Resources : UploadOK(s) /\ (Dated(s)' <=> Dated(s))
      BY <1>3 DEF IInv, Dated, Suppressed
    <2> QED BY Zenon, <1>1, <1>2, <1>3, <2>1, <2>2, RecoveryConstants
            DEF WriteManifest, Backup, BackupOK, UploadOK, Dated, Shapes
  <1> QED BY Zenon, <1>1, <1>2, <1>3, <1>4, BackupKeeps DEF WriteManifest, Backup

\* A backup that fails removes what it stored (FailBackup).
LEMMA FailBackupKeeps ==
    ASSUME IInv, NEW b \in Backups, FailBackup(b)
    PROVE  IInv'
  <1>1. Shapes /\ backups[b] \in BackupRecord /\ BackupOK(b)
    BY DEF IInv, Shapes
  <1>2. /\ backups' \in [Backups -> BackupRecord]
        /\ \A c \in Backups : c # b => backups'[c] = backups[c]
        /\ backups'[b].step = "failed"
        /\ backups'[b].db = backups[b].db
        /\ backups'[b].listed = backups[b].listed
        /\ backups'[b].parts = {}
    BY Zenon, <1>1 DEF FailBackup, Backup, Shapes, BackupRecord, BackupSteps
  <1>3. UNCHANGED <<up, primary, aged, ledger, evidence, restore>>
    BY Zenon DEF FailBackup, Backup
  <1>4. BackupOK(b)'
    <2>1. UNCHANGED <<db, objects, known>>
      BY <1>3 DEF primary
    <2>2. \A s \in Resources : UploadOK(s) /\ (Dated(s)' <=> Dated(s))
      BY <1>3 DEF IInv, Dated, Suppressed
    <2> QED BY Zenon, <1>1, <1>2, <1>3, <2>1, <2>2, RecoveryConstants
            DEF FailBackup, Backup, BackupOK, UploadOK, Dated, Shapes
  <1> QED BY Zenon, <1>1, <1>2, <1>3, <1>4, BackupKeeps DEF FailBackup, Backup

\* A backup that dies leaves parts without a manifest (CrashBackup).
LEMMA CrashBackupKeeps ==
    ASSUME IInv, NEW b \in Backups, CrashBackup(b)
    PROVE  IInv'
  <1>1. Shapes /\ backups[b] \in BackupRecord /\ BackupOK(b)
    BY DEF IInv, Shapes
  <1>2. /\ backups' \in [Backups -> BackupRecord]
        /\ \A c \in Backups : c # b => backups'[c] = backups[c]
        /\ backups'[b].step = "failed"
        /\ backups'[b].db = backups[b].db
        /\ backups'[b].listed = backups[b].listed
        /\ backups'[b].parts = backups[b].parts
    BY Zenon, <1>1 DEF CrashBackup, Backup, Shapes, BackupRecord, BackupSteps
  <1>3. UNCHANGED <<up, primary, aged, ledger, evidence, restore>>
    BY Zenon DEF CrashBackup, Backup
  <1>4. BackupOK(b)'
    <2>1. UNCHANGED <<db, objects, known>>
      BY <1>3 DEF primary
    <2>2. \A s \in Resources : UploadOK(s) /\ (Dated(s)' <=> Dated(s))
      BY <1>3 DEF IInv, Dated, Suppressed
    <2> QED BY Zenon, <1>1, <1>2, <1>3, <2>1, <2>2, RecoveryConstants
            DEF CrashBackup, Backup, BackupOK, UploadOK, Dated, Shapes
  <1> QED BY Zenon, <1>1, <1>2, <1>3, <1>4, BackupKeeps DEF CrashBackup, Backup

\* The age of a backup is not spoken of (AgeBackup).
LEMMA AgeBackupKeeps ==
    ASSUME IInv, NEW b \in Backups, AgeBackup(b)
    PROVE  IInv'
  <1>1. Shapes /\ backups[b] \in BackupRecord /\ BackupOK(b)
    BY DEF IInv, Shapes
  <1>2. /\ backups' \in [Backups -> BackupRecord]
        /\ \A c \in Backups : c # b => backups'[c] = backups[c]
        /\ backups'[b].step = backups[b].step
        /\ backups'[b].db = backups[b].db
        /\ backups'[b].listed = backups[b].listed
        /\ backups'[b].parts = backups[b].parts
    BY Zenon, <1>1 DEF AgeBackup, Backup, Shapes, BackupRecord, BackupSteps
  <1>3. UNCHANGED <<up, primary, aged, ledger, evidence, restore>>
    BY Zenon DEF AgeBackup, Backup
  <1>4. BackupOK(b)'
    <2>1. UNCHANGED <<db, objects, known>>
      BY <1>3 DEF primary
    <2>2. \A s \in Resources : UploadOK(s) /\ (Dated(s)' <=> Dated(s))
      BY <1>3 DEF IInv, Dated, Suppressed
    <2> QED BY <1>1, <1>2, <1>3, <2>1, <2>2, RecoveryConstants
            DEF AgeBackup, Backup, BackupOK, UploadOK, Dated, Shapes
  <1> QED BY Zenon, <1>1, <1>2, <1>3, <1>4, BackupKeeps DEF AgeBackup, Backup

\* An expiry only takes parts away (BackupRetentionService.expire).
LEMMA ExpirePartKeeps ==
    ASSUME IInv, NEW b \in Backups, ExpirePart(b)
    PROVE  IInv'
  <1>1. Shapes /\ backups[b] \in BackupRecord /\ BackupOK(b)
    BY DEF IInv, Shapes
  <1>2. /\ backups' \in [Backups -> BackupRecord]
        /\ \A c \in Backups : c # b => backups'[c] = backups[c]
        /\ backups'[b].step = backups[b].step
        /\ backups'[b].db = backups[b].db
        /\ backups'[b].listed = backups[b].listed
        /\ backups'[b].parts \subseteq backups[b].parts
    BY <1>1 DEF ExpirePart, Backup, Shapes, BackupRecord, BackupSteps
  <1>3. UNCHANGED <<up, primary, aged, ledger, evidence, restore>>
    BY Zenon DEF ExpirePart, Backup
  <1>4. BackupOK(b)'
    <2>1. UNCHANGED <<db, objects, known>>
      BY <1>3 DEF primary
    <2>2. \A s \in Resources : UploadOK(s) /\ (Dated(s)' <=> Dated(s))
      BY <1>3 DEF IInv, Dated, Suppressed
    <2> QED BY <1>1, <1>2, <1>3, <2>1, <2>2, RecoveryConstants
            DEF ExpirePart, Backup, BackupOK, UploadOK, Dated, Shapes
  <1> QED BY Zenon, <1>1, <1>2, <1>3, <1>4, BackupKeeps DEF ExpirePart, Backup

-----------------------------------------------------------------------------
(* Steps of a restore *)

\* What a step of a restore does to a resource: it moves no chain, or it
\* resolves a preparation on evidence.
ResolvesOnEvidence(r) ==
    \/ /\ ledger'[r] = ledger[r]
       /\ restore'.db.row[r] \in Rows(r) \cup {"NONE"}
       /\ restore'.db.intent[r] \in Intents(r) \cup {"NONE"}
    \/ ledger[r] = "PREPARED" /\ ledger'[r] = "REQUESTED"
    \/ /\ ledger[r] = "PREPARED" /\ ledger'[r] = "ABORTED"
       /\ evidence[r] = "NOT_COMMITTED" /\ restore'.db.row[r] # "FENCED"

\* A step of a restore keeps the invariant if it moves chains on evidence only
\* and keeps what is said of the restore.
LEMMA RestoringKeeps ==
    ASSUME IInv, ~up, UNCHANGED <<up, primary, aged, evidence, backups>>,
           restore' \in RestoreRecord, ledger' \in [Resources -> LedgerPhases],
           \A r \in Resources : ResolvesOnEvidence(r), RestoreOK'
    PROVE  IInv'
  <1>1. Shapes /\ UNCHANGED <<db, objects, clients, known>>
    BY Zenon DEF IInv, primary
  <1>2. Shapes'
    BY Zenon, <1>1 DEF Shapes
  <1>3. ASSUME NEW r \in Resources PROVE ChainOK(r)' /\ UploadOK(r)'
    <2>1. Dumps(r)' = Dumps(r)
      BY Zenon DEF Dumps
    <2>2. ChainOK(r) /\ UploadOK(r) /\ ResolvesOnEvidence(r)
      BY Zenon DEF IInv
    <2>3. db.row[r] = "NONE" /\ db.intent[r] = "NONE"
      BY <1>1 DEF Shapes, EmptyDatabase
    <2>4. ChainOK(r)'
      BY Zenon, <1>1, <2>1, <2>2, <2>3 DEF ChainOK, Rows, Suppressed, ResolvesOnEvidence
    <2>5. UploadOK(r)'
      <3>1. CASE r \in known
        BY Zenon, <1>1, <2>2, <2>3, <3>1 DEF UploadOK, Shapes
      <3>2. CASE r \notin known
        <4>1. ledger'[r] = ledger[r]
          BY Zenon, <2>2, <3>2 DEF UploadOK, ResolvesOnEvidence
        <4>2. Rows(r)' = {"NONE"}
          BY Zenon, <1>1, <2>1, <2>2, <2>3, <3>2 DEF UploadOK, ResolvesOnEvidence, Rows
        <4>3. Intents(r)' = {"NONE"}
          BY Zenon, <1>1, <2>2, <2>3, <3>2 DEF UploadOK, ResolvesOnEvidence, Intents
        <4> QED BY Zenon, <1>1, <2>2, <3>2, <4>1, <4>2, <4>3 DEF UploadOK
      <3> QED BY Zenon, <3>1, <3>2
    <2> QED BY Zenon, <2>4, <2>5
  <1>4. \A r \in Resources : Dated(r) => Dated(r)'
    BY Zenon DEF Dated, Suppressed, ResolvesOnEvidence
  <1>5. ASSUME NEW b \in Backups PROVE BackupOK(b)'
    BY Zenon, <1>1, <1>4 DEF IInv, BackupOK
  <1> QED BY Zenon, <1>2, <1>3, <1>5 DEF IInv

\* A backup that verifies has its manifest, so it is stored (StartRestore).
LEMMA StartRestoreKeeps ==
    ASSUME IInv, NEW b \in Backups, StartRestore(b)
    PROVE  IInv'
  <1>1. /\ Shapes /\ RestoreOK /\ restore \in RestoreRecord
        /\ ~up /\ UNCHANGED <<up, primary, aged, evidence, backups, ledger>>
    BY Zenon DEF StartRestore, Restoring, IInv, Shapes
  <1>2. /\ restore' \in RestoreRecord
        /\ restore'.step = "materialize"
        /\ restore'.of = {b}
        /\ restore'.db = EmptyDatabase
        /\ restore'.objects = {}
        /\ restore'.left = {}
    BY Zenon, <1>1, EmptyIsDatabase
    DEF StartRestore, Restoring, NoRestore, RestoreRecord, RestoreSteps,
        BackupRecord
  <1>3. ASSUME NEW r \in Resources PROVE ResolvesOnEvidence(r)
    BY <1>1, <1>2 DEF ResolvesOnEvidence, Rows, Dumps, Intents, EmptyDatabase
  <1>4. RestoreOK'
    <2>1. UNCHANGED known /\ \A r \in Resources : /\ Suppressed(r)' <=> Suppressed(r)
                                                  /\ Dated(r)' <=> Dated(r)
      BY Zenon, <1>1 DEF primary, Suppressed, Dated
    <2>2. OneBackup'
      BY Zenon, <1>1, <1>2, <2>1
      DEF RestoreOK, OneBackup, StartRestore, Restoring, Verifies, IInv, BackupOK
    <2>3. Loaded'
      BY Zenon, <1>1, <1>2, <2>1 DEF RestoreOK, Loaded
    <2>4. RowsCovered'
      BY Zenon, <1>1, <1>2, <2>1 DEF RestoreOK, RowsCovered
    <2>5. DumpFollowed'
      BY Zenon, <1>1, <1>2, <2>1 DEF RestoreOK, DumpFollowed
    <2>6. Erased'
      BY Zenon, <1>1, <1>2, <2>1 DEF RestoreOK, Erased
    <2>7. Settled'
      BY Zenon, <1>1, <1>2, <2>1 DEF RestoreOK, Settled
    <2> QED BY Zenon, <2>2, <2>3, <2>4, <2>5, <2>6, <2>7 DEF RestoreOK
  <1> QED BY Zenon, <1>1, <1>2, <1>3, <1>4, RestoringKeeps DEF Shapes

\* The second verification keeps the invariant (materialize_verified).
LEMMA MaterializeKeeps ==
    ASSUME IInv, Materialize
    PROVE  IInv'
  <1>1. /\ Shapes /\ RestoreOK /\ restore \in RestoreRecord
        /\ ~up /\ UNCHANGED <<up, primary, aged, evidence, backups, ledger>>
    BY Zenon DEF Materialize, Restoring, IInv, Shapes
  <1>2. /\ restore' \in RestoreRecord
        /\ restore'.step = "database"
        /\ restore'.of = restore.of
        /\ restore'.db = restore.db
        /\ restore'.objects = restore.objects
        /\ restore'.left = restore.left
    BY Zenon, <1>1
    DEF Materialize, Restoring, NoRestore, RestoreRecord, RestoreSteps, BackupRecord
  <1>3. ASSUME NEW r \in Resources PROVE ResolvesOnEvidence(r)
    BY Zenon, <1>1, <1>2 DEF ResolvesOnEvidence, Rows, Dumps, Intents
  <1>4. RestoreOK'
    <2>1. UNCHANGED known /\ \A r \in Resources : /\ Suppressed(r)' <=> Suppressed(r)
                                                  /\ Dated(r)' <=> Dated(r)
      BY Zenon, <1>1 DEF primary, Suppressed, Dated
    <2>2. OneBackup'
      BY Zenon, <1>1, <1>2, <2>1 DEF RestoreOK, OneBackup
    <2>3. Loaded'
      BY Zenon, <1>1, <1>2, <2>1 DEF RestoreOK, Loaded
    <2>4. RowsCovered'
      BY Zenon, <1>1, <1>2, <2>1 DEF RestoreOK, RowsCovered
    <2>5. DumpFollowed'
      BY Zenon, <1>1, <1>2, <2>1 DEF RestoreOK, DumpFollowed
    <2>6. Erased'
      BY Zenon, <1>1, <1>2, <2>1 DEF RestoreOK, Erased
    <2>7. Settled'
      BY Zenon, <1>1, <1>2, <2>1 DEF RestoreOK, Settled
    <2> QED BY Zenon, <2>2, <2>3, <2>4, <2>5, <2>6, <2>7 DEF RestoreOK
  <1> QED BY Zenon, <1>1, <1>2, <1>3, <1>4, RestoringKeeps DEF Shapes

\* The rows of the dump go into quarantine (RestoreDatabase).
LEMMA RestoreDatabaseKeeps ==
    ASSUME IInv, RestoreDatabase
    PROVE  IInv'
  <1>1. /\ Shapes /\ RestoreOK /\ restore \in RestoreRecord
        /\ ~up /\ UNCHANGED <<up, primary, aged, evidence, backups, ledger>>
    BY Zenon DEF RestoreDatabase, Restoring, IInv, Shapes
  <1>0. PICK b \in restore.of : restore' = [restore EXCEPT !.step = "objects", !.db = backups[b].db]
    BY Zenon DEF RestoreDatabase, Restoring
  <1>b. b \in Backups /\ backups[b] \in BackupRecord
    BY Zenon, <1>0, <1>1 DEF RestoreRecord, Shapes
  <1>2. /\ restore' \in RestoreRecord
        /\ restore'.step = "objects"
        /\ restore'.of = restore.of
        /\ restore'.db = backups[b].db
        /\ restore'.objects = restore.objects
        /\ restore'.left = restore.left
    BY Zenon, <1>0, <1>1, <1>b
    DEF RestoreDatabase, Restoring, NoRestore, RestoreRecord, RestoreSteps,
        BackupRecord
  <1>3. ASSUME NEW r \in Resources PROVE ResolvesOnEvidence(r)
    BY Zenon, <1>1, <1>2, <1>b DEF ResolvesOnEvidence, Rows, Dumps, Intents
  <1>4. RestoreOK'
    <2>1. UNCHANGED known /\ \A r \in Resources : /\ Suppressed(r)' <=> Suppressed(r)
                                                  /\ Dated(r)' <=> Dated(r)
      BY Zenon, <1>1 DEF primary, Suppressed, Dated
    <2>2. OneBackup'
      BY Zenon, <1>1, <1>2, <2>1, <1>0 DEF RestoreOK, OneBackup
    <2>3. Loaded'
      BY Zenon, <1>1, <1>2, <2>1, <1>0 DEF RestoreOK, Loaded, OneBackup
    <2>4. RowsCovered'
      BY Zenon, <1>1, <1>2, <2>1, <1>0 DEF RestoreOK, RowsCovered
    <2>5. DumpFollowed'
      BY Zenon, <1>1, <1>2, <2>1, <1>0 DEF RestoreOK, DumpFollowed
    <2>6. Erased'
      BY Zenon, <1>1, <1>2, <2>1, <1>0 DEF RestoreOK, Erased
    <2>7. Settled'
      BY Zenon, <1>1, <1>2, <2>1, <1>0 DEF RestoreOK, Settled
    <2> QED BY Zenon, <2>2, <2>3, <2>4, <2>5, <2>6, <2>7 DEF RestoreOK
  <1> QED BY Zenon, <1>1, <1>2, <1>3, <1>4, RestoringKeeps DEF Shapes

\* With the listed objects every active row of the dump has its object, or is
\* dated (RestoreObjects).
LEMMA RestoreObjectsKeeps ==
    ASSUME IInv, RestoreObjects
    PROVE  IInv'
  <1>1. /\ Shapes /\ RestoreOK /\ restore \in RestoreRecord
        /\ ~up /\ UNCHANGED <<up, primary, aged, evidence, backups, ledger>>
    BY Zenon DEF RestoreObjects, Restoring, IInv, Shapes
  <1>0. PICK b \in restore.of : restore' = [restore EXCEPT !.step = "resolve", !.left = Resources, !.objects = backups[b].listed]
    BY Zenon DEF RestoreObjects, Restoring
  <1>b. b \in Backups /\ backups[b] \in BackupRecord
    BY Zenon, <1>0, <1>1 DEF RestoreRecord, Shapes
  <1>2. /\ restore' \in RestoreRecord
        /\ restore'.step = "resolve"
        /\ restore'.of = restore.of
        /\ restore'.db = restore.db
        /\ restore'.objects = backups[b].listed
        /\ restore'.left = Resources
    BY Zenon, <1>0, <1>1, <1>b
    DEF RestoreObjects, Restoring, NoRestore, RestoreRecord, RestoreSteps,
        BackupRecord
  <1>3. ASSUME NEW r \in Resources PROVE ResolvesOnEvidence(r)
    BY Zenon, <1>1, <1>2, <1>b DEF ResolvesOnEvidence, Rows, Dumps, Intents
  <1>4. RestoreOK'
    <2>1. UNCHANGED known /\ \A r \in Resources : /\ Suppressed(r)' <=> Suppressed(r)
                                                  /\ Dated(r)' <=> Dated(r)
      BY <1>1 DEF primary, Suppressed, Dated
    <2>2. OneBackup'
      BY Zenon, <1>1, <1>2, <2>1, <1>0, <1>b DEF RestoreOK, OneBackup, IInv, BackupOK
    <2>3. Loaded'
      BY Zenon, <1>1, <1>2, <2>1, <1>0, <1>b DEF RestoreOK, Loaded
    <2>4. RowsCovered'
      BY <1>1, <1>2, <2>1, <1>0, <1>b
      DEF RestoreOK, RowsCovered, RestoreObjects, Restoring, OneBackup, Loaded,
          IInv, BackupOK
    <2>5. DumpFollowed'
      BY <1>1, <1>2, <2>1, <1>0, <1>b
      DEF RestoreOK, DumpFollowed, RestoreObjects, Restoring, Loaded
    <2>6. Erased'
      BY Zenon, <1>1, <1>2, <2>1, <1>0, <1>b DEF RestoreOK, Erased
    <2>7. Settled'
      BY Zenon, <1>1, <1>2, <2>1, <1>0, <1>b DEF RestoreOK, Settled
    <2> QED BY <2>2, <2>3, <2>4, <2>5, <2>6, <2>7 DEF RestoreOK
  <1> QED BY Zenon, <1>1, <1>2, <1>3, <1>4, RestoringKeeps DEF Shapes

\* The second pass starts with the requested deletions left (StartSuppress).
LEMMA StartSuppressKeeps ==
    ASSUME IInv, StartSuppress
    PROVE  IInv'
  <1>1. /\ Shapes /\ RestoreOK /\ restore \in RestoreRecord
        /\ ~up /\ UNCHANGED <<up, primary, aged, evidence, backups, ledger>>
    BY Zenon DEF StartSuppress, Restoring, IInv, Shapes
  <1>2. /\ restore' \in RestoreRecord
        /\ restore'.step = "suppress"
        /\ restore'.of = restore.of
        /\ restore'.db = restore.db
        /\ restore'.objects = restore.objects
        /\ restore'.left = {r \in Resources : Suppressed(r)}
    BY Zenon, <1>1
    DEF StartSuppress, Restoring, NoRestore, RestoreRecord, RestoreSteps,
        BackupRecord
  <1>3. ASSUME NEW r \in Resources PROVE ResolvesOnEvidence(r)
    BY Zenon, <1>1, <1>2 DEF ResolvesOnEvidence, Rows, Dumps, Intents
  <1>4. RestoreOK'
    <2>1. UNCHANGED known /\ \A r \in Resources : /\ Suppressed(r)' <=> Suppressed(r)
                                                  /\ Dated(r)' <=> Dated(r)
      BY <1>1 DEF primary, Suppressed, Dated
    <2>2. OneBackup'
      BY Zenon, <1>1, <1>2, <2>1 DEF RestoreOK, OneBackup
    <2>3. Loaded'
      BY Zenon, <1>1, <1>2, <2>1 DEF RestoreOK, Loaded
    <2>4. RowsCovered'
      BY Zenon, <1>1, <1>2, <2>1 DEF RestoreOK, RowsCovered, StartSuppress, Restoring
    <2>5. DumpFollowed'
      BY <1>1, <1>2, <2>1 DEF RestoreOK, DumpFollowed, StartSuppress, Restoring
    <2>6. Erased'
      BY Zenon, <1>1, <1>2, <2>1 DEF RestoreOK, Erased
    <2>7. Settled'
      BY Zenon, <1>1, <1>2, <2>1 DEF RestoreOK, Settled
    <2> QED BY <2>2, <2>3, <2>4, <2>5, <2>6, <2>7 DEF RestoreOK
  <1> QED BY Zenon, <1>1, <1>2, <1>3, <1>4, RestoringKeeps DEF Shapes

\* The signed exposure record keeps what was qualified (Bind).
LEMMA BindKeeps ==
    ASSUME IInv, Bind
    PROVE  IInv'
  <1>1. /\ Shapes /\ RestoreOK /\ restore \in RestoreRecord
        /\ ~up /\ UNCHANGED <<up, primary, aged, evidence, backups, ledger>>
    BY Zenon DEF Bind, Restoring, IInv, Shapes
  <1>2. /\ restore' \in RestoreRecord
        /\ restore'.step = "bound"
        /\ restore'.of = restore.of
        /\ restore'.db = restore.db
        /\ restore'.objects = restore.objects
        /\ restore'.left = restore.left
    BY Zenon, <1>1 DEF Bind, Restoring, NoRestore, RestoreRecord, RestoreSteps, BackupRecord
  <1>3. ASSUME NEW r \in Resources PROVE ResolvesOnEvidence(r)
    BY Zenon, <1>1, <1>2 DEF ResolvesOnEvidence, Rows, Dumps, Intents
  <1>4. RestoreOK'
    <2>1. UNCHANGED known /\ \A r \in Resources : /\ Suppressed(r)' <=> Suppressed(r)
                                                  /\ Dated(r)' <=> Dated(r)
      BY <1>1 DEF primary, Suppressed, Dated
    <2>2. OneBackup'
      BY Zenon, <1>1, <1>2, <2>1 DEF RestoreOK, OneBackup
    <2>3. Loaded'
      BY Zenon, <1>1, <1>2, <2>1 DEF RestoreOK, Loaded
    <2>4. RowsCovered'
      BY Zenon, <1>1, <1>2, <2>1 DEF RestoreOK, RowsCovered, Bind, Restoring
    <2>5. DumpFollowed'
      BY Zenon, <1>1, <1>2, <2>1 DEF RestoreOK, DumpFollowed
    <2>6. Erased'
      BY <1>1, <1>2, <2>1 DEF RestoreOK, Erased, Bind, Restoring
    <2>7. Settled'
      BY Zenon, <1>1, <1>2, <2>1 DEF RestoreOK, Settled, Bind, Restoring, ExposureAllowed
    <2> QED BY <2>2, <2>3, <2>4, <2>5, <2>6, <2>7 DEF RestoreOK
  <1> QED BY Zenon, <1>1, <1>2, <1>3, <1>4, RestoringKeeps DEF Shapes

\* With nothing left and no chain prepared the restore is settled (Qualify).
LEMMA QualifyKeeps ==
    ASSUME IInv, Qualify
    PROVE  IInv'
  <1>1. /\ Shapes /\ RestoreOK /\ restore \in RestoreRecord
        /\ ~up /\ UNCHANGED <<up, primary, aged, evidence, backups, ledger>>
    BY Zenon DEF Qualify, Restoring, IInv, Shapes
  <1>2. /\ restore' \in RestoreRecord
        /\ restore'.step = IF ExposureAllowed THEN "qualified" ELSE "held"
        /\ restore'.of = restore.of
        /\ restore'.db = restore.db
        /\ restore'.objects = restore.objects \ ExpiredUploads
        /\ restore'.left = restore.left
    BY Zenon, <1>1
    DEF Qualify, Restoring, NoRestore, RestoreRecord, RestoreSteps, BackupRecord
  <1>3. ASSUME NEW r \in Resources PROVE ResolvesOnEvidence(r)
    BY Zenon, <1>1, <1>2 DEF ResolvesOnEvidence, Rows, Dumps, Intents
  <1>4. RestoreOK'
    <2>1. UNCHANGED known /\ \A r \in Resources : /\ Suppressed(r)' <=> Suppressed(r)
                                                  /\ Dated(r)' <=> Dated(r)
      BY <1>1 DEF primary, Suppressed, Dated
    <2>2. OneBackup'
      BY Zenon, <1>1, <1>2, <2>1 DEF RestoreOK, OneBackup
    <2>3. Loaded'
      BY Zenon, <1>1, <1>2, <2>1 DEF RestoreOK, Loaded
    <2>4. RowsCovered'
      BY Zenon, <1>1, <1>2, <2>1
      DEF RestoreOK, RowsCovered, Qualify, Restoring, ExpiredUploads, Dated
    <2>5. DumpFollowed'
      BY Zenon, <1>1, <1>2, <2>1 DEF RestoreOK, DumpFollowed
    <2>6. Erased'
      BY <1>1, <1>2, <2>1 DEF RestoreOK, Erased, Qualify, Restoring
    <2>7. Settled'
      BY <1>1, <1>2, <2>1 DEF RestoreOK, Settled, Qualify, Restoring, ExposureAllowed
    <2> QED BY <2>2, <2>3, <2>4, <2>5, <2>6, <2>7 DEF RestoreOK
  <1> QED BY Zenon, <1>1, <1>2, <1>3, <1>4, RestoringKeeps DEF Shapes

\* The second pass erases the row of a requested deletion, and its object when
\* the row was there (Suppress).
LEMMA SuppressKeeps ==
    ASSUME IInv, NEW r \in Resources, Suppress(r)
    PROVE  IInv'
  <1>1. /\ Shapes /\ RestoreOK /\ restore \in RestoreRecord
        /\ ~up /\ UNCHANGED <<up, primary, aged, evidence, backups, ledger>>
    BY Zenon DEF Suppress, Restoring, IInv, Shapes
  <1>2. /\ SuppressRows(r) \in Database
        /\ SuppressRows(r).row[r] = "NONE" /\ SuppressRows(r).intent[r] = "NONE"
        /\ \A s \in Resources : s # r => /\ SuppressRows(r).row[s] = restore.db.row[s]
                                         /\ SuppressRows(r).intent[s] = restore.db.intent[s]
    <2> DEFINE e == [restore.db EXCEPT !.row[r] = "NONE"]
    <2>1. restore.db \in Database
      BY Zenon, <1>1 DEF RestoreRecord
    <2>2. /\ e \in Database /\ e.row[r] = "NONE" /\ e.intent = restore.db.intent
          /\ \A s \in Resources : s # r => e.row[s] = restore.db.row[s]
      BY <2>1, SetRow DEF RowStates
    <2>3. SuppressRows(r) = [e EXCEPT !.intent[r] = "NONE"]
      BY Zenon DEF SuppressRows
    <2> HIDE DEF e
    <2> QED BY <2>2, <2>3, SetIntent DEF IntentStates
  <1>3. /\ restore' \in RestoreRecord
        /\ restore.step = "suppress" /\ r \in restore.left
        /\ restore'.step = "suppress" /\ restore'.of = restore.of
        /\ restore'.db = SuppressRows(r)
        /\ restore'.objects = SuppressObjects(r)
        /\ restore'.left = restore.left \ {r}
    BY Zenon, <1>1, <1>2 DEF Suppress, Restoring, SuppressObjects, RestoreRecord
  <1>4. ASSUME NEW s \in Resources PROVE ResolvesOnEvidence(s)
    BY Zenon, <1>1, <1>2, <1>3 DEF ResolvesOnEvidence, Rows, Intents
  <1>5. RestoreOK'
    <2>1. UNCHANGED known /\ \A s \in Resources : /\ Suppressed(s)' <=> Suppressed(s)
                                                  /\ Dated(s)' <=> Dated(s)
      BY Zenon, <1>1 DEF primary, Suppressed, Dated
    <2>2. OneBackup'
      BY Zenon, <1>1, <1>2, <1>3, <2>1 DEF RestoreOK, OneBackup, SuppressObjects
    <2>3. Loaded'
      BY Zenon, <1>1, <1>2, <1>3, <2>1 DEF RestoreOK, Loaded
    <2>4. RowsCovered'
      BY Zenon, <1>1, <1>2, <1>3, <2>1 DEF RestoreOK, RowsCovered, SuppressObjects
    <2>5. DumpFollowed'
      BY Zenon, <1>1, <1>2, <1>3, <2>1 DEF RestoreOK, DumpFollowed
    <2>6. Erased'
      BY Zenon, <1>1, <1>2, <1>3, <2>1
      DEF RestoreOK, Erased, DumpFollowed, SuppressObjects, Restored
    <2>7. Settled'
      BY Zenon, <1>3 DEF Settled
    <2> QED BY <2>2, <2>3, <2>4, <2>5, <2>6, <2>7 DEF RestoreOK
  <1> QED BY Zenon, <1>1, <1>3, <1>4, <1>5, RestoringKeeps DEF Shapes

\* The first pass moves a prepared chain on evidence: a commit fences an active
\* row, and a noncommit leaves a row that no dump holds fenced (Resolve).
LEMMA ResolveKeeps ==
    ASSUME IInv, NEW r \in Resources, Resolve(r)
    PROVE  IInv'
  <1>1. /\ Shapes /\ RestoreOK /\ restore \in RestoreRecord /\ restore.db \in Database
        /\ ~up /\ UNCHANGED <<up, primary, aged, evidence, backups>>
        /\ restore.step = "resolve" /\ r \in restore.left
    BY Zenon DEF Resolve, Restoring, IInv, Shapes, RestoreRecord
  <1> DEFINE Resolved ==
        /\ restore' \in RestoreRecord
        /\ restore'.step = "resolve" /\ restore'.of = restore.of
        /\ restore'.objects = restore.objects
        /\ ledger' \in [Resources -> LedgerPhases]
        /\ \A s \in Resources : s # r => /\ ledger'[s] = ledger[s]
                                         /\ restore'.db.row[s] = restore.db.row[s]
                                         /\ restore'.db.intent[s] = restore.db.intent[s]
        /\ restore'.db.row[r] = "NONE" <=> restore.db.row[r] = "NONE"
        /\ restore'.db.row[r] = "ACTIVE" => restore.db.row[r] = "ACTIVE"
        /\ ResolvesOnEvidence(r)
  <1>2. ASSUME ResolveCommitted(r) PROVE Resolved
    <2>1. /\ FenceRestored(r) \in Database
          /\ FenceRestored(r).intent = restore.db.intent
          /\ \A s \in Resources : s # r => FenceRestored(r).row[s] = restore.db.row[s]
          /\ FenceRestored(r).row[r] = "NONE" <=> restore.db.row[r] = "NONE"
          /\ FenceRestored(r).row[r] # "ACTIVE"
      BY <1>1, SetRow DEF FenceRestored, RowStates
    <2>2. /\ restore' \in RestoreRecord
          /\ restore'.step = "resolve" /\ restore'.of = restore.of
          /\ restore'.objects = restore.objects
          /\ restore'.db = FenceRestored(r)
      BY Zenon, <1>1, <1>2, <2>1 DEF ResolveCommitted, RestoreRecord
    <2>3. /\ ledger' \in [Resources -> LedgerPhases]
          /\ \A s \in Resources : s # r => ledger'[s] = ledger[s]
          /\ ledger[r] = "PREPARED" /\ ledger'[r] = "REQUESTED"
      BY Zenon, <1>1, <1>2 DEF ResolveCommitted, Shapes, LedgerPhases
    <2> QED BY Zenon, <2>1, <2>2, <2>3 DEF ResolvesOnEvidence
  <1>3. ASSUME ResolveNotCommitted(r) PROVE Resolved
    <2> DEFINE e == [restore.db EXCEPT !.intent[r] = "INVALIDATED"]
    <2>1. /\ e \in Database /\ e.row = restore.db.row
          /\ \A s \in Resources : s # r => e.intent[s] = restore.db.intent[s]
      BY <1>1, SetIntent DEF IntentStates
    <2>2. restore' = [restore EXCEPT !.left = restore.left \ {r}, !.db = e]
      BY Zenon, <1>1, <1>3 DEF ResolveNotCommitted, RestoreRecord
    <2>3. restore.db.row[r] = "ACTIVE"
      BY Zenon, <1>3 DEF ResolveNotCommitted
    <2>4. /\ ledger' \in [Resources -> LedgerPhases]
          /\ \A s \in Resources : s # r => ledger'[s] = ledger[s]
          /\ ledger[r] = "PREPARED" /\ ledger'[r] = "ABORTED"
          /\ evidence[r] = "NOT_COMMITTED"
      BY Zenon, <1>1, <1>3 DEF ResolveNotCommitted, Shapes, LedgerPhases
    <2> HIDE DEF e
    <2>5. /\ restore' \in RestoreRecord
          /\ restore'.step = "resolve" /\ restore'.of = restore.of
          /\ restore'.objects = restore.objects
          /\ restore'.db = e
      BY Zenon, <1>1, <2>1, <2>2 DEF RestoreRecord
    <2> QED BY Zenon, <2>1, <2>3, <2>4, <2>5 DEF ResolvesOnEvidence
  <1>4. ASSUME ResolveNot(r) PROVE Resolved
    <2>1. /\ restore' \in RestoreRecord
          /\ restore'.step = "resolve" /\ restore'.of = restore.of
          /\ restore'.objects = restore.objects
          /\ restore'.db = restore.db
          /\ ledger' = ledger
      BY Zenon, <1>1, <1>4 DEF ResolveNot, RestoreRecord
    <2> QED BY Zenon, <1>1, <2>1 DEF ResolvesOnEvidence, Rows, Intents, Shapes
  <1>5. Resolved
    BY Zenon, <1>2, <1>3, <1>4 DEF Resolve, Restoring
  <1>6. ASSUME NEW s \in Resources PROVE ResolvesOnEvidence(s)
    <2>1. CASE s = r
      BY Zenon, <1>5, <2>1
    <2>2. CASE s # r
      <3>1. /\ ledger'[s] = ledger[s]
            /\ restore'.db.row[s] = restore.db.row[s]
            /\ restore'.db.intent[s] = restore.db.intent[s]
        BY Zenon, <1>5, <2>2
      <3> QED BY Zenon, <3>1 DEF ResolvesOnEvidence, Rows, Intents
    <2> QED BY Zenon, <2>1, <2>2
  <1>7. RestoreOK'
    <2>1. UNCHANGED known /\ \A s \in Resources : Dated(s) => Dated(s)'
      BY Zenon, <1>1, <1>6 DEF primary, Suppressed, Dated, ResolvesOnEvidence
    <2>2. /\ restore'.step = "resolve" /\ restore'.of = restore.of
          /\ restore'.objects = restore.objects
          /\ \A s \in Resources : /\ restore'.db.row[s] = "ACTIVE" => restore.db.row[s] = "ACTIVE"
                                  /\ restore'.db.row[s] = "NONE" => restore.db.row[s] = "NONE"
      BY Zenon, <1>5
    <2>3. OneBackup'
      BY Zenon, <1>1, <2>1, <2>2 DEF RestoreOK, OneBackup
    <2>4. Loaded'
      BY Zenon, <1>1, <2>1, <2>2 DEF RestoreOK, Loaded
    <2>5. RowsCovered'
      BY Zenon, <1>1, <2>1, <2>2 DEF RestoreOK, RowsCovered
    <2>6. DumpFollowed'
      BY Zenon, <1>1, <2>1, <2>2 DEF RestoreOK, DumpFollowed
    <2>7. Erased'
      BY Zenon, <1>1, <2>1, <2>2 DEF RestoreOK, Erased
    <2>8. Settled'
      BY Zenon, <1>1, <2>1, <2>2 DEF RestoreOK, Settled
    <2> QED BY <2>3, <2>4, <2>5, <2>6, <2>7, <2>8 DEF RestoreOK
  <1> HIDE DEF Resolved
  <1> QED BY Zenon, <1>1, <1>5, <1>6, <1>7, RestoringKeeps DEF Resolved

\* The exposed restore becomes the primary: its rows are not active when their
\* deletion is requested, and its active rows have their objects (Expose).
LEMMA ExposeKeeps ==
    ASSUME IInv, Expose
    PROVE  IInv'
  <1>1. /\ Shapes /\ RestoreOK /\ restore \in RestoreRecord
        /\ restore.step = "bound" /\ ~up /\ clients = {}
        /\ up' /\ db' = restore.db /\ objects' = restore.objects
        /\ restore' = NoRestore
        /\ UNCHANGED <<clients, known, aged, ledger, evidence, backups>>
    BY Zenon DEF Expose, ExposureVerifies, IInv, Shapes
  <1>2. Shapes'
    BY Zenon, <1>1, NoRestoreOK DEF Shapes, RestoreRecord, RestoreOK, OneBackup
  <1>3. ASSUME NEW r \in Resources
        PROVE  /\ ledger[r] # "PREPARED"
               /\ Suppressed(r) => restore.db.row[r] = "NONE"
               /\ restore.db.row[r] = "ACTIVE" => r \in restore.objects \cup aged
    BY Zenon, <1>1 DEF RestoreOK, RowsCovered, Erased, Settled, ExposureAllowed, Dated
  <1>4. ASSUME NEW r \in Resources PROVE ChainOK(r)' /\ UploadOK(r)'
    <2>1. Dumps(r)' = Dumps(r)
      BY Zenon, <1>1 DEF Dumps
    <2>2. restore'.db.row[r] = "NONE" /\ restore'.db.intent[r] = "NONE"
      BY Zenon, <1>1 DEF NoRestore, EmptyDatabase
    <2>3. ChainOK(r) /\ UploadOK(r)
      BY Zenon DEF IInv
    <2>4. ChainOK(r)'
      BY Zenon, <1>1, <1>3, <2>1, <2>2, <2>3 DEF ChainOK, Rows, Suppressed
    <2>5. r \notin known => Rows(r)' = {"NONE"} /\ Intents(r)' = {"NONE"}
      BY Zenon, <1>1, <2>1, <2>2, <2>3 DEF UploadOK, Rows, Intents
    <2>6. UploadOK(r)'
      BY Zenon, <1>1, <1>3, <2>3, <2>5 DEF UploadOK
    <2> QED BY Zenon, <2>4, <2>6
  <1>5. ASSUME NEW b \in Backups PROVE BackupOK(b)'
    BY Zenon, <1>1 DEF IInv, BackupOK, Dated, Suppressed
  <1> QED BY Zenon, <1>1, <1>2, <1>4, <1>5, NoRestoreOK DEF IInv

\* A restore that is given up leaves nothing in quarantine (Abandon).
LEMMA AbandonKeeps ==
    ASSUME IInv, AbandonRestore
    PROVE  IInv'
  <1>1. /\ restore' = NoRestore
        /\ UNCHANGED <<up, db, objects, clients, known, aged, ledger, evidence, backups>>
    BY Zenon DEF AbandonRestore, primary
  <1>2. Shapes'
    BY Zenon, <1>1, NoRestoreOK DEF IInv, Shapes
  <1>3. ASSUME NEW r \in Resources PROVE ChainOK(r)' /\ UploadOK(r)'
    <2>1. Dumps(r)' = Dumps(r)
      BY Zenon, <1>1 DEF Dumps
    <2>2. restore'.db.row[r] = "NONE" /\ restore'.db.intent[r] = "NONE"
      BY Zenon, <1>1 DEF NoRestore, EmptyDatabase
    <2>3. ChainOK(r) /\ UploadOK(r)
      BY DEF IInv
    <2>4. ChainOK(r)'
      BY Zenon, <1>1, <2>1, <2>2, <2>3 DEF ChainOK, Rows, Suppressed
    <2>5. r \notin known => Rows(r)' = {"NONE"} /\ Intents(r)' = {"NONE"}
      BY Zenon, <1>1, <2>1, <2>2, <2>3 DEF UploadOK, Rows, Intents
    <2>6. UploadOK(r)'
      BY Zenon, <1>1, <2>3, <2>5 DEF UploadOK
    <2> QED BY <2>4, <2>6
  <1>4. ASSUME NEW b \in Backups PROVE BackupOK(b)'
    BY Zenon, <1>1 DEF IInv, BackupOK, Dated, Suppressed
  <1> QED BY Zenon, <1>1, <1>2, <1>3, <1>4, NoRestoreOK DEF IInv

-----------------------------------------------------------------------------
(* The theorems *)

\* The invariant holds before anything was created.
LEMMA InitHolds == Init => IInv
  <1> SUFFICES ASSUME Init PROVE IInv
    OBVIOUS
  <1>1. /\ restore = NoRestore /\ db = EmptyDatabase
        /\ \A b \in Backups : backups[b] = NoBackup
    BY Zenon DEF Init
  <1>2. NoBackup \in BackupRecord
    BY Zenon, EmptyIsDatabase DEF NoBackup, BackupRecord, BackupSteps
  <1>3. Shapes
    BY Zenon, <1>2, EmptyIsDatabase
    DEF Init, Shapes, NoRestore, RestoreRecord, RestoreSteps, LedgerPhases, Outcomes
  <1>4. ASSUME NEW r \in Resources PROVE ChainOK(r) /\ UploadOK(r)
    <2>a. Rows(r) = {"NONE"}
      <3>1. db.row[r] = "NONE" /\ restore.db.row[r] = "NONE"
        BY Zenon, <1>1 DEF NoRestore, EmptyDatabase
      <3>2. \A b \in Backups : backups[b].db.row[r] = "NONE"
        BY <1>1 DEF NoBackup, EmptyDatabase
      <3> QED BY Zenon, <3>1, <3>2 DEF Rows, Dumps
    <2>b. Intents(r) = {"NONE"}
      <3>1. db.intent[r] = "NONE" /\ restore.db.intent[r] = "NONE"
        BY Zenon, <1>1 DEF NoRestore, EmptyDatabase
      <3>2. \A b \in Backups : backups[b].db.intent[r] = "NONE"
        BY <1>1 DEF NoBackup, EmptyDatabase
      <3> QED BY Zenon, <3>1, <3>2 DEF Intents
    <2> QED BY Zenon, <2>a, <2>b DEF Init, ChainOK, UploadOK, Suppressed, Rows
  <1>5. ASSUME NEW b \in Backups PROVE BackupOK(b)
    BY <1>1 DEF BackupOK, NoBackup
  <1>6. RestoreOK
    BY Zenon, <1>1
    DEF NoRestore, RestoreOK, OneBackup, Loaded, RowsCovered, DumpFollowed, Erased,
        Settled
  <1> QED BY Zenon, <1>3, <1>4, <1>5, <1>6 DEF IInv

\* Every step of the primary, of a backup and of a restore keeps it.
LEMMA NextKeeps == IInv /\ [Next]_vars => IInv'
  <1> SUFFICES ASSUME IInv, [Next]_vars PROVE IInv'
    OBVIOUS
  <1>1. ASSUME NEW r \in Resources, PrimaryStep(r) PROVE IInv'
    BY Zenon, <1>1, PutObjectKeeps, InsertRowKeeps, CreateIntentKeeps, PrepareKeeps, FenceKeeps,
       InvalidateKeeps, AbortKeeps, RequestKeeps, SweepKeeps, CompleteKeeps,
       RemoveRowKeeps, ExpireRawKeeps, AgeKeeps, ObserveKeeps
    DEF PrimaryStep
  <1>2. ASSUME NEW b \in Backups, BackupStep(b) PROVE IInv'
    BY Zenon, <1>2, DumpKeeps, ListObjectsKeeps, CopyObjectKeeps, WriteManifestKeeps,
       FailBackupKeeps, CrashBackupKeeps, AgeBackupKeeps, ExpirePartKeeps
    DEF BackupStep
  <1>3. ASSUME RestoreStep PROVE IInv'
    BY Zenon, <1>3, StartRestoreKeeps, MaterializeKeeps, RestoreDatabaseKeeps,
       RestoreObjectsKeeps, ResolveKeeps, SuppressKeeps, StartSuppressKeeps,
       QualifyKeeps, BindKeeps, ExposeKeeps, AbandonKeeps
    DEF RestoreStep
  <1>4. CASE UNCHANGED vars
    <2>1. UNCHANGED <<up, db, objects, clients, known, aged, ledger, evidence, backups, restore>>
      BY Zenon, <1>4 DEF vars
    <2>2. Shapes'
      BY Zenon, <2>1 DEF IInv, Shapes
    <2>3. ASSUME NEW r \in Resources PROVE ChainOK(r)' /\ UploadOK(r)'
      <3>1. Dumps(r)' = Dumps(r) /\ Rows(r)' = Rows(r) /\ Intents(r)' = Intents(r)
        BY Zenon, <2>1 DEF Rows, Dumps, Intents
      <3> QED BY Zenon, <2>1, <3>1 DEF IInv, ChainOK, UploadOK, Suppressed
    <2>4. ASSUME NEW b \in Backups PROVE BackupOK(b)'
      BY Zenon, <2>1 DEF IInv, BackupOK, Dated, Suppressed
    <2>5. RestoreOK'
      BY Zenon, <2>1 DEF IInv, RestoreOK, Dated, Suppressed, ExposureAllowed,
                  OneBackup, Loaded, RowsCovered, DumpFollowed, Erased, Settled
    <2> QED BY Zenon, <2>2, <2>3, <2>4, <2>5 DEF IInv
  <1> QED BY Zenon, <1>1, <1>2, <1>3, <1>4, LoseKeeps DEF Next

\* The inductive invariant holds for any number of resources, backups, losses
\* and faults.
THEOREM Inductive == Spec => []IInv
  BY InitHolds, NextKeeps, PTL DEF Spec

\* Whatever backup the primary came from, no resource whose deletion was
\* requested is active in it, and no aborted deletion is fenced in it or in
\* the quarantine (RestoreReconciler.qualify).
THEOREM FollowsLedger == Spec => []DatabaseFollowsLedger
  <1>1. IInv => DatabaseFollowsLedger
    BY Zenon
    DEF IInv, ChainOK, Rows, Suppressed, DatabaseFollowsLedger,
        SuppressedNeverActive,
           AbortedNeverFenced
  <1> QED BY <1>1, Inductive, PTL

\* A restore that may be exposed holds no row of a requested deletion, no
\* object of one but an upload that the dump does not know, and the object of
\* every active row that is within its retention (RestoreReconciler.qualify,
\* BackupService.create).
THEOREM Qualified == Spec => []RestoreIsQualified
  <1>1. IInv => TypeOK
    BY Zenon DEF IInv, Shapes, RestoreOK, OneBackup, TypeOK, BackupRecord, RestoreRecord
  <1>2. IInv => QualifiedIsErased
    BY Zenon DEF IInv, RestoreOK, Erased, Settled, QualifiedIsErased
  <1>3. IInv => RestoredRowHasObject
    BY Zenon DEF IInv, RestoreOK, RowsCovered, Erased, Settled, Dated, RestoredRowHasObject
  <1> QED BY <1>1, <1>2, <1>3, Inductive, PTL DEF RestoreIsQualified
=============================================================================
