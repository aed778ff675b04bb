--------------------------- MODULE DeletionLedger ---------------------------
(***************************************************************************)
(* The files of the encrypted deletion ledger: FilesystemDeletionLedger     *)
(* (packages/persistence/.../deletion_ledger.py), the rotation of its keys  *)
(* and the offline migration of a plaintext ledger                          *)
(* (deletion_ledger_migration.py).                                          *)
(*                                                                          *)
(* Every operation runs under an exclusive lock, so at most one is in       *)
(* progress.  It reads and verifies everything, and then writes: a record   *)
(* to the stream, and after it a head that names the record, each durable   *)
(* on its own.  A process dies, or a write fails, between any two of them.  *)
(*                                                                          *)
(* The ledger key and the restore key are rotated together and have one     *)
(* version here.  A process has a current version and the keys of all       *)
(* versions or only those up to its own (keys are staged before they are    *)
(* selected).  Hashes, signatures, nonces and ciphertext are left out: a    *)
(* record whose bytes are complete decodes, a torn one does not.            *)
(***************************************************************************)
EXTENDS Integers, Sequences, FiniteSets

CONSTANTS
    Deletions,   \* deletion identifiers
    Times,       \* values of occurred_at
    MaxVersion,  \* bound on key versions
    MaxRecords,  \* bound on the length of the stream
    MaxFaults    \* bound on crashes and failed writes

Versions == 1 .. MaxVersion

VARIABLES
    files,    \* files of the ledger directory, the migration marker included
    genesis,  \* key version in the genesis file
    stream,   \* complete records of the stream
    torn,     \* the stream ends in an incomplete record
    head,     \* sequence and key version in the head file
    op,       \* the operation that holds the lock
    noted,    \* the head an operator wrote down for a rotation
    acked,    \* events that were returned to a caller of append
    legacy,   \* events of the plaintext ledger that is to be migrated
    faults

vars == <<files, genesis, stream, torn, head, op, noted, acked, legacy, faults>>

Phases == {"PREPARED", "REQUESTED", "COMPLETED", "ABORTED"}

LEGAL_CHAINS == { <<"PREPARED">>, <<"PREPARED", "REQUESTED">>,
                  <<"PREPARED", "REQUESTED", "COMPLETED">>,
                  <<"PREPARED", "ABORTED">> }

EventValues == [id : Deletions, phase : Phases, at : Times]

Audit(v, operation) ==
    [type |-> "ACCESS_AUDIT", key |-> v, operation |-> operation]
Event(v, e) == [type |-> "LEDGER_EVENT", key |-> v, event |-> e]
Rotation(v, old, h) ==
    [type |-> "KEY_ROTATION", key |-> v, previous |-> old, head |-> h]

Events == SelectSeq(stream, LAMBDA r : r.type = "LEDGER_EVENT")
Chain(d) == SelectSeq(Events, LAMBDA r : r.event.id = d)
PhasesOf(chain) == [i \in DOMAIN chain |-> chain[i].event.phase]

RotationsAt == {i \in DOMAIN stream : stream[i].type = "KEY_ROTATION"}

Idle == [step |-> "idle"]
NoHead == [seq |-> 0, key |-> 0]

\* An operation of a process with current version v: the event to append, the
\* sequence number it has reached, and for a rotation the expected head.
Operation(step, v, operation, event, seq, from) ==
    [step |-> step, key |-> v, operation |-> operation, event |-> event,
     seq |-> seq, from |-> from]

ControlFiles == {"stream", "genesis", "head", "active"}

-----------------------------------------------------------------------------
(* Reading and verifying the whole ledger *)

MaxOf(S) == CHOOSE x \in S : \A y \in S : y <= x
MinOf(S) == CHOOSE x \in S : \A y \in S : x <= y

\* The version that the rotations covered by the head lead to.
CommittedKey ==
    LET R == {i \in RotationsAt : i <= head.seq}
    IN  IF R = {} THEN genesis ELSE stream[MaxOf(R)].key

\* Each rotation starts from the version the one before it led to.
RotationsContiguous ==
    \A i \in RotationsAt :
        LET before == {j \in RotationsAt : j < i}
        IN  stream[i].previous = IF before = {} THEN genesis
                                 ELSE stream[MaxOf(before)].key

\* A rotation that the head does not cover is accepted from a process that
\* is configured for its new version only.
RotationTailMatches(v) ==
    LET R == {i \in RotationsAt : i > head.seq}
    IN  R # {} => /\ stream[MinOf(R)].previous = head.key
                  /\ stream[MaxOf(R)].key = v

RotationChainValid(v) ==
    /\ RotationsContiguous
    /\ CommittedKey = head.key
    /\ RotationTailMatches(v)

\* (mutant) a partial line at the end is passed over
StreamDecodesPrefix(held) == \A i \in DOMAIN stream : stream[i].key \in held

\* A partial line at the end of the stream does not decode.
StreamDecodes(held) ==
    /\ ~torn
    /\ \A i \in DOMAIN stream : stream[i].key \in held

\* A signed file is read with the key of the version that signed it.
SignedFilesRead(held) == {genesis, head.key} \subseteq held

\* __init__ and _read_state of a process whose current version is v, which
\* holds the keys of held and expects the head to name version expected.
Readable(v, held, expected) ==
    /\ files = ControlFiles
    /\ SignedFilesRead(held)
    /\ head.key = expected
    /\ StreamDecodes(held)
    /\ \A d \in Deletions :
           Chain(d) # <<>> => PhasesOf(Chain(d)) \in LEGAL_CHAINS
    /\ head.seq <= Len(stream)
    /\ RotationChainValid(v)

Keyrings(v) == {1 .. v, Versions}

HeadOf(v) == [seq |-> Len(stream), key |-> v]

\* Records after the head are adopted by writing a head that covers them.
RecoveredHead(v) == IF Len(stream) > head.seq THEN HeadOf(v) ELSE head

-----------------------------------------------------------------------------
(* Operations of a configured process *)

\* _append_record: the line is complete, or the write was cut short, which
\* os.write reports by its result only.
WriteRecord(r, next) ==
    /\ \/ /\ torn' = torn
          /\ stream' = IF torn THEN stream ELSE Append(stream, r)
       \/ /\ torn' = TRUE
          /\ UNCHANGED stream
    /\ op' = [op EXCEPT !.step = next, !.seq = @ + 1]
    /\ UNCHANGED <<files, genesis, head, noted, acked, legacy, faults>>

WriteHead == head' = [seq |-> op.seq, key |-> op.key]

\* Bound on the length of the stream; migrated events leave room for an append.
Room(n) == Len(stream) + n <= MaxRecords + Len(legacy)

\* The operation is read-only beyond its audit, or appends event e.
Start(v, held, operation, e) ==
    /\ op = Idle
    /\ Room(2)
    /\ Readable(v, held, v)
    /\ head' = RecoveredHead(v)
    /\ op' = Operation("audit", v, operation, e, Len(stream), NoHead)
    /\ UNCHANGED <<files, genesis, stream, torn, noted, acked, legacy, faults>>

StartAppend(v, held, e) == Start(v, held, e.phase, {e})

StartRead(v, held) == Start(v, held, "READ", {})

WriteAudit ==
    /\ op.step = "audit"
    /\ WriteRecord(Audit(op.key, op.operation), "audit head")

\* The head that covers the audit record is written; then the operation
\* goes on with the state it read before.
Finish == op' = Idle

\* (mutant) the event that was asked for is answered, not the one on the stream
AnswerCandidate(e) ==
    IF \E i \in DOMAIN Chain(e.id) : Chain(e.id)[i].event.phase = e.phase
    THEN acked' = acked \cup {e} /\ Finish
    ELSE op' = [op EXCEPT !.step = "event"] /\ UNCHANGED acked

\* append of event e after its audit: a phase that is on the chain is
\* answered from the chain when it is the same event and refused when it is
\* not, and a phase that may not follow is refused.
Answer(e) ==
    LET chain == Chain(e.id)
        same == {i \in DOMAIN chain : chain[i].event.phase = e.phase}
    IN  \/ /\ same # {}
           /\ acked' = acked \cup ({chain[i].event : i \in same} \cap {e})
           /\ Finish
        \/ /\ same = {}
           /\ Append(PhasesOf(chain), e.phase) \notin LEGAL_CHAINS
           /\ UNCHANGED acked
           /\ Finish
        \/ /\ same = {}
           /\ Append(PhasesOf(chain), e.phase) \in LEGAL_CHAINS
           /\ UNCHANGED acked
           /\ op' = [op EXCEPT !.step = "event"]

WriteAuditHead ==
    /\ op.step = "audit head"
    /\ WriteHead
    /\ \/ op.event = {} /\ Finish /\ UNCHANGED acked
       \/ \E e \in op.event : Answer(e)
    /\ UNCHANGED <<files, genesis, stream, torn, noted, legacy, faults>>

WriteEvent ==
    /\ op.step = "event"
    /\ \E e \in op.event : WriteRecord(Event(op.key, e), "event head")

WriteEventHead ==
    /\ op.step = "event head"
    /\ WriteHead
    /\ acked' = acked \cup op.event
    /\ Finish
    /\ UNCHANGED <<files, genesis, stream, torn, noted, legacy, faults>>

-----------------------------------------------------------------------------
(* Rotation of the keys *)

\* The operator records the digest of the head file.  A head that is noted
\* while an operation is about to replace it only makes the rotation fail.
NoteHead ==
    /\ op = Idle
    /\ "head" \in files
    /\ head.key < MaxVersion
    /\ noted' = head
    /\ UNCHANGED <<files, genesis, stream, torn, head, op, acked, legacy, faults>>

\* The rotation that an earlier attempt with the same head left behind.
Matching(v) ==
    {i \in RotationsAt : stream[i] = Rotation(v, noted.key, noted)}

StartRotate(v) ==
    /\ op = Idle
    /\ Room(1)
    /\ noted = head /\ noted.key < v
    /\ Readable(v, Versions, noted.key)
    /\ head' = RecoveredHead(v)
    /\ op' = Operation(IF Matching(v) = {} THEN "rotation" ELSE "rotated",
                     v, "ROTATE", {}, Len(stream), noted)
    /\ UNCHANGED <<files, genesis, stream, torn, noted, acked, legacy, faults>>

WriteRotation ==
    /\ op.step = "rotation"
    /\ WriteRecord(Rotation(op.key, op.from.key, op.from), "rotation head")

WriteRotationHead ==
    /\ op.step = "rotation head"
    /\ WriteHead
    /\ op' = [op EXCEPT !.step = "rotated"]
    /\ UNCHANGED <<files, genesis, stream, torn, noted, acked, legacy, faults>>

\* The ledger is read again and the artifact is returned, or the
\* verification fails; neither changes a file.
EndRotate ==
    /\ op.step = "rotated"
    /\ Finish
    /\ UNCHANGED <<files, genesis, stream, torn, head, noted, acked, legacy,
                   faults>>

-----------------------------------------------------------------------------
(* Creation of the files *)

Create(file, next) ==
    /\ files' = files \cup {file}
    /\ op' = [op EXCEPT !.step = next]
    /\ UNCHANGED <<stream, torn, noted, acked, legacy, faults>>

\* __init__ of a service; one that finds some of the files is refused.
StartInitialize(v) ==
    /\ op = Idle
    /\ legacy = <<>>
    /\ files = {}
    /\ op' = Operation("initialize", v, "INITIALIZE", {}, 0, NoHead)
    /\ UNCHANGED <<files, genesis, stream, torn, head, noted, acked, legacy,
                   faults>>

CreateStream ==
    /\ op.step = "initialize"
    /\ Create("stream", "genesis")
    /\ UNCHANGED <<genesis, head>>

CreateGenesis ==
    /\ op.step = "genesis"
    /\ Create("genesis", "head")
    /\ genesis' = op.key
    /\ UNCHANGED head

CreateHead ==
    /\ op.step = "head"
    /\ Create("head", "active")
    /\ WriteHead
    /\ UNCHANGED genesis

CreateActive ==
    /\ op.step = "active"
    /\ files' = files \cup {"active"}
    /\ Finish
    /\ UNCHANGED <<genesis, stream, torn, head, noted, acked, legacy, faults>>

-----------------------------------------------------------------------------
(* Migration into an empty directory *)

\* The staging ledger after import_legacy_events, events and validate.
Staged(v) ==
    <<Audit(v, "IMPORT_LEGACY")>>
        \o [i \in DOMAIN legacy |-> Event(v, legacy[i])]
        \o <<Audit(v, "READ"), Audit(v, "READ")>>

StartMigrate(v) ==
    /\ op = Idle
    /\ legacy # <<>>
    /\ files = {}
    /\ files' = {"marker"}
    /\ op' = Operation("move stream", v, "MIGRATE", {}, Len(Staged(v)), NoHead)
    /\ UNCHANGED <<genesis, stream, torn, head, noted, acked, legacy, faults>>

MoveStream ==
    /\ op.step = "move stream"
    /\ files' = files \cup {"stream"}
    /\ stream' = Staged(op.key)
    /\ op' = [op EXCEPT !.step = "move genesis"]
    /\ UNCHANGED <<genesis, torn, head, noted, acked, legacy, faults>>

MoveGenesis ==
    /\ op.step = "move genesis"
    /\ Create("genesis", "move head")
    /\ genesis' = op.key
    /\ UNCHANGED head

MoveHead ==
    /\ op.step = "move head"
    /\ Create("head", "move active")
    /\ WriteHead
    /\ UNCHANGED genesis

MoveActive ==
    /\ op.step = "move active"
    /\ Create("active", "unmark")
    /\ UNCHANGED <<genesis, head>>

\* The new ledger is opened and read, which is audited, before the artifact
\* is returned.
Unmark ==
    /\ op.step = "unmark"
    /\ files' = files \ {"marker"}
    /\ op' = [op EXCEPT !.step = "audit", !.operation = "READ"]
    /\ UNCHANGED <<genesis, stream, torn, head, noted, acked, legacy, faults>>

\* After a failed migration the operator takes another empty directory.
TakeNewDirectory ==
    /\ op = Idle
    /\ "marker" \in files
    /\ files' = {} /\ stream' = <<>> /\ genesis' = 0 /\ head' = NoHead
    /\ UNCHANGED <<torn, op, noted, acked, legacy, faults>>

-----------------------------------------------------------------------------

\* The process that holds the lock dies, or a write fails, before the next
\* step; a record may be left incomplete.
Fault ==
    /\ op # Idle
    /\ faults < MaxFaults
    /\ faults' = faults + 1
    /\ Finish
    /\ torn' \in IF op.step \in {"audit", "event", "rotation"}
                 THEN {torn, TRUE} ELSE {torn}
    /\ UNCHANGED <<files, genesis, stream, head, noted, acked, legacy>>

\* The events of a plaintext ledger, verified: none, or a legal chain.
LegacyLedgers ==
    {<<>>} \cup { << [id |-> d, phase |-> "PREPARED", at |-> t],
                    [id |-> d, phase |-> "REQUESTED", at |-> t] >> :
                     d \in Deletions, t \in Times }

Init ==
    /\ files = {} /\ genesis = 0 /\ stream = <<>> /\ torn = FALSE
    /\ head = NoHead /\ op = Idle /\ noted = NoHead /\ acked = {}
    /\ legacy \in LegacyLedgers
    /\ faults = 0

\* Versions are numbered in the order in which they come into use.
ServiceStep ==
    \/ \E v \in Versions : \E held \in Keyrings(v) :
           \/ \E e \in EventValues : StartAppend(v, held, e)
           \/ StartRead(v, held)
    \/ StartInitialize(1)

OperatorStep ==
    \/ NoteHead
    \/ \E v \in Versions : StartRotate(v)
    \/ StartMigrate(1)
    \/ TakeNewDirectory

LockedStep ==
    \/ WriteAudit \/ WriteAuditHead \/ WriteEvent \/ WriteEventHead
    \/ WriteRotation \/ WriteRotationHead \/ EndRotate
    \/ CreateStream \/ CreateGenesis \/ CreateHead \/ CreateActive
    \/ MoveStream \/ MoveGenesis \/ MoveHead \/ MoveActive \/ Unmark
    \/ Fault

Next == ServiceStep \/ OperatorStep \/ LockedStep

Spec == Init /\ [][Next]_vars

-----------------------------------------------------------------------------
(* Properties *)

\* Type invariant: the files of the ledger and the operation that holds its
\* lock (deletion_ledger.py); the head never names a record that is not on
\* the stream.
TypeOK ==
    /\ files \subseteq ControlFiles \cup {"marker"}
    /\ genesis \in 0 .. MaxVersion
    /\ \A i \in DOMAIN stream : stream[i].key \in Versions
    /\ Room(0)
    /\ torn \in BOOLEAN
    /\ torn \/ head.seq <= Len(stream)
    /\ {head, noted} \subseteq [seq : Nat, key : 0 .. MaxVersion]
    /\ acked \subseteq EventValues
    /\ op = Idle \/ op.key \in Versions
    /\ faults \in 0 .. MaxFaults

\* An event that append returned is on the stream, as it was returned,
\* whatever crashes and rotations follow, unless a record was cut short:
\* the caller acts on the event as soon as append returns it.
AckedIsDurable ==
    torn \/ \A e \in acked : \E i \in DOMAIN stream :
                                 stream[i].type = "LEDGER_EVENT" /\ stream[i].event = e

\* The record before an event is the audit of the append that wrote it: no
\* mutation without its persisted access audit (_audit before _append_record).
AuditPrecedesEvent ==
    \A i \in DOMAIN stream :
        stream[i].type = "LEDGER_EVENT" /\ i > Len(legacy) + 1 =>
            /\ i > 1
            /\ stream[i - 1] = Audit(stream[i].key, stream[i].event.phase)

\* No record is written under an older key than the record before it: a
\* process that still selects an old version is refused once a rotation is
\* on the stream, covered by the head or not.
KeysNeverGoBack ==
    \A i, j \in DOMAIN stream : i < j => stream[i].key <= stream[j].key

\* However often a rotation is interrupted and repeated, the stream has one
\* record of it, and the rotations lead from the genesis key onwards.
RotatedOnce == RotationsContiguous

\* A stream that ends in an incomplete record is never written again: every
\* later operation fails closed, and the record is not silently dropped.
TornFailsClosed ==
    [][torn /\ op = Idle => UNCHANGED <<stream, head, acked, op>>]_vars

\* A service that finds the files of a migrated ledger in place and no marker
\* finds every event of the plaintext ledger, in order.
MigratedKeepsEvents ==
    files = ControlFiles =>
        /\ Len(Events) >= Len(legacy)
        /\ \A i \in DOMAIN legacy : Events[i].event = legacy[i]

\* The stream is what the answers, the audits, the keys and the migration say.
Consistent ==
    /\ TypeOK /\ AckedIsDurable /\ AuditPrecedesEvent
    /\ KeysNeverGoBack /\ RotatedOnce /\ MigratedKeepsEvents
=============================================================================
