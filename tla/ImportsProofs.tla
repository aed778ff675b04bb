--------------------------- MODULE ImportsProofs ---------------------------
(***************************************************************************)
(* What module Imports promises for every number of requests, keys, imports *)
(* and profiles, and every number of crashes and lost answers.  The         *)
(* invariant, and its proof for the other steps, are in ImportsInvariant.   *)
(***************************************************************************)
EXTENDS ImportsInvariant

-----------------------------------------------------------------------------
(* confirm *)

\* The draft that confirm reads is of an import that was submitted.
LEMMA ConfirmBeginKeeps ==
    ASSUME IInv, NEW c \in Clients, NEW i \in ImportIds, NEW h \in Hashes,
           ConfirmBegin(c, i, h)
    PROVE  IInv'
<1>1. client' = [client EXCEPT ![c] = [at |-> "confirm", key |-> NULL, payload |-> h,
                                       id |-> i, found |-> NULL]]
  BY Zenon DEF ConfirmBegin
<1>2. /\ client'[c].at = "confirm" /\ client'[c].payload = h /\ client'[c].id = i
      /\ \A d \in Clients : d # c => client'[d] = client[d]
  BY <1>1 DEF IInv, Shapes
<1>3. /\ client[c].at = "idle" /\ imports[i].state # "NONE"
      /\ UNCHANGED <<account, imports, raw, profiles, ops, objects, worker, expirer, lost>>
  BY Zenon DEF ConfirmBegin, database
<1>4. Shapes'
  <2>1. [at |-> "confirm", key |-> NULL, payload |-> h, id |-> i, found |-> NULL]
            \in ClientRow
    BY DEF ClientRow, ClientSteps
  <2> QED BY Zenon, <1>1, <1>3, <2>1 DEF IInv, Shapes
<1>5. ASSUME NEW j \in ImportIds PROVE (Blank(j) /\ Stored(j) /\ Tracked(j))'
  BY Zenon, <1>2, <1>3, <1>5 DEF IInv, Uploads, Blank, Stored, Tracked
<1>6. ASSUME NEW d \in Clients PROVE Submitting(d)'
  BY Zenon, <1>2, <1>3, <1>6 DEF IInv, Uploads, Submitting, Holds
<1>7. ASSUME NEW d \in Clients PROVE Confirming(d)'
  BY Zenon, <1>2, <1>3, <1>7 DEF IInv, Uploads, Confirming
<1>8. OneHolder'
  BY <1>2 DEF IInv, Uploads, OneHolder, Holds
<1>9. Working' /\ Expiring'
  BY Zenon, <1>3 DEF IInv, Uploads, Working, Expiring
<1>10. References'
  BY Zenon, <1>3, ReferencesFrame DEF IInv
<1> QED BY Zenon, <1>4, <1>5, <1>6, <1>7, <1>8, <1>9, <1>10 DEF IInv, Uploads

\* The profile of a confirmation: the one with the content, or a new one with the
\* import as its home.  The content stays unique.
LEMMA ConfirmProfile ==
    ASSUME IInv, NEW i \in ImportIds, NEW h \in Hashes,
           \/ /\ ByHash(h) # {}
              /\ imports' = Confirmed(i, FoundByHash(h), profiles[FoundByHash(h)])
              /\ UNCHANGED profiles
           \/ /\ ByHash(h) = {}
              /\ \E p \in ProfileIds :
                 LET row == [state |-> "ACTIVE", hash |-> h, home |-> i]
                 IN  /\ FreshProfile(p)
                     /\ imports' = Confirmed(i, p, row)
                     /\ profiles' = [profiles EXCEPT ![p] = row]
    PROVE  /\ profiles' \in [ProfileIds -> ProfileRow]
           /\ \A q \in ProfileIds : ProfileExists(q) => profiles'[q] = profiles[q]
           /\ ContentUnique'
           /\ \E p \in ProfileIds, row \in ProfileRow :
                 /\ imports' = Confirmed(i, p, row)
                 /\ profiles'[p] = row /\ ProfileExists(p)'
<1>1. CASE ByHash(h) # {} /\ imports' = Confirmed(i, FoundByHash(h), profiles[FoundByHash(h)])
           /\ UNCHANGED profiles
  <2>1. FoundByHash(h) \in ProfileIds /\ ProfileExists(FoundByHash(h))
    BY Zenon, <1>1, FoundIsThere DEF ByHash
  <2>2. profiles \in [ProfileIds -> ProfileRow] /\ ContentUnique
    BY Zenon DEF IInv, Shapes, References
  <2> QED BY Zenon, <1>1, <2>1, <2>2 DEF ContentUnique, ProfileExists
<1>2. ASSUME ByHash(h) = {}, NEW p \in ProfileIds, FreshProfile(p),
             imports' = Confirmed(i, p, [state |-> "ACTIVE", hash |-> h, home |-> i]),
             profiles' = [profiles EXCEPT ![p] =
                             [state |-> "ACTIVE", hash |-> h, home |-> i]]
      PROVE  /\ profiles' \in [ProfileIds -> ProfileRow]
             /\ \A q \in ProfileIds : ProfileExists(q) => profiles'[q] = profiles[q]
             /\ ContentUnique'
             /\ \E q \in ProfileIds, row \in ProfileRow :
                   /\ imports' = Confirmed(i, q, row)
                   /\ profiles'[q] = row /\ ProfileExists(q)'
  <2> DEFINE row == [state |-> "ACTIVE", hash |-> h, home |-> i]
  <2>1. row \in ProfileRow /\ row.state = "ACTIVE" /\ row.hash = h
    BY DEF ProfileRow, Lifecycles
  <2>2. profiles \in [ProfileIds -> ProfileRow] /\ ContentUnique
    BY Zenon DEF IInv, Shapes, References
  <2>3. imports' = Confirmed(i, p, row) /\ profiles' = [profiles EXCEPT ![p] = row]
    BY Zenon, <1>2
  <2> HIDE DEF row
  <2>4. /\ profiles' \in [ProfileIds -> ProfileRow] /\ profiles'[p] = row
        /\ \A q \in ProfileIds : q # p => profiles'[q] = profiles[q]
    BY Zenon, <2>1, <2>2, <2>3
  <2>5. ~ProfileExists(p)
    BY Zenon, <1>2 DEF FreshProfile, ProfileExists, Lifecycles
  <2>6. ProfileExists(p)'
    BY <2>1, <2>4 DEF ProfileExists, Lifecycles
  <2>7. \A q \in ProfileIds : ProfileExists(q) => profiles[q].hash # h
    BY Zenon, <1>2 DEF ByHash
  <2>8. ContentUnique'
    BY <2>1, <2>2, <2>4, <2>7 DEF ContentUnique, ProfileExists
  <2> QED BY Zenon, <2>1, <2>3, <2>4, <2>5, <2>6, <2>8
<1> QED BY Zenon, <1>1, <1>2

\* The import is confirmed, and its row is not AVAILABLE any more before the
\* object goes (confirm, its transaction).
LEMMA ConfirmCommitKeeps ==
    ASSUME IInv, NEW c \in Clients, ConfirmCommit(c)
    PROVE  IInv'
<1> DEFINE i == client[c].id
           h == client[c].payload
<1>1. /\ client[c].at = "confirm" /\ ~Holds(c) /\ i \in ImportIds /\ h \in Hashes
      /\ imports[i].state # "NONE"
      /\ UNCHANGED <<account, objects, ops, worker, expirer, lost>>
  BY DEF IInv, Uploads, Confirming, ConfirmCommit, Holds
<1>2. CASE UNCHANGED <<imports, profiles, raw>> /\ Return(c)
  <2>1. client' \in [Clients -> ClientRow]
    BY <1>2 DEF IInv, Shapes, Return, Idle, ClientRow, ClientSteps
  <2>2. Uploads' /\ References'
    BY Zenon, <1>1, <1>2, ReturnKeeps, ReferencesFrame DEF IInv
  <2> QED BY Zenon, <1>1, <1>2, <2>1, <2>2 DEF IInv, Shapes
<1>3. CASE imports[i].state \in {"READY", "CONFIRMED"}
  <2>1. /\ profiles' \in [ProfileIds -> ProfileRow]
        /\ \A q \in ProfileIds : ProfileExists(q) => profiles'[q] = profiles[q]
        /\ ContentUnique'
        /\ \E p \in ProfileIds, row \in ProfileRow :
              /\ imports' = Confirmed(i, p, row)
              /\ profiles'[p] = row /\ ProfileExists(p)'
    BY Zenon, <1>1, <1>3, ConfirmProfile DEF ConfirmCommit
  <2>2. PICK p \in ProfileIds, row \in ProfileRow :
              /\ imports' = Confirmed(i, p, row)
              /\ profiles'[p] = row /\ ProfileExists(p)'
    BY Zenon, <2>1
  <2>3. imports \in [ImportIds -> ImportRow]
    BY Zenon DEF IInv, Shapes
  <2> HIDE DEF i, h
  <2>4. /\ imports'[i] = [imports[i] EXCEPT !.state = "CONFIRMED", !.profile = p,
                                    !.adopted = row.home # i \/ row.state # "ACTIVE"]
        /\ \A j \in ImportIds : j # i => imports'[j] = imports[j]
        /\ imports' \in [ImportIds -> ImportRow]
    <3> DEFINE a == row.home # i \/ row.state # "ACTIVE"
               new == [imports[i] EXCEPT !.state = "CONFIRMED", !.profile = p, !.adopted = a]
    <3>1. a \in BOOLEAN
      OBVIOUS
    <3>2. imports' = [imports EXCEPT ![i].state = "CONFIRMED", ![i].profile = p,
                                     ![i].adopted = a]
      BY Zenon, <2>2 DEF Confirmed
    <3> HIDE DEF a
    <3>3. new \in ImportRow
      BY Zenon, <1>1, <2>3, <3>1 DEF ImportRow
    <3>4. imports' = [imports EXCEPT ![i] = new]
      BY Zenon, <1>1, <2>3, <3>2 DEF ImportRow
    <3> HIDE DEF new
    <3>5. /\ imports'[i] = new /\ imports' \in [ImportIds -> ImportRow]
          /\ \A j \in ImportIds : j # i => imports'[j] = imports[j]
      BY Zenon, <1>1, <2>3, <3>3, <3>4
    <3> QED BY Zenon, <3>5 DEF new, a
  <2>5. /\ imports'[i].state = "CONFIRMED" /\ imports'[i].profile = p
        /\ imports'[i].adopted = (row.home # i \/ row.state # "ACTIVE")
        /\ imports'[i].lifecycle = imports[i].lifecycle
        /\ imports'[i].late = imports[i].late
    BY <1>1, <2>3, <2>4 DEF ImportRow
  <2>6. /\ raw' \in [ImportIds -> {"NONE", "AVAILABLE", "DELETE_PENDING", "DELETED"}]
        /\ \A j \in ImportIds : j # i => raw'[j] = raw[j]
        /\ raw'[i] # "AVAILABLE"
        /\ raw[i] \in {"AVAILABLE", "DELETE_PENDING"} => raw'[i] = "DELETE_PENDING"
    BY <1>1, <1>3 DEF IInv, Shapes, ConfirmCommit, ConfirmRaw, i
  <2>7. /\ client' \in [Clients -> ClientRow]
        /\ \A d \in Clients : d # c => client'[d] = client[d]
        /\ client'[c] = Idle \/ (client'[c].at = "discard" /\ client'[c].id = i)
    <3>1. Goto(c, "discard") \/ Return(c)
      BY Zenon, <1>3 DEF ConfirmCommit, i
    <3>2. client \in [Clients -> ClientRow]
      BY Zenon DEF IInv, Shapes
    <3>3. CASE Goto(c, "discard")
      BY <3>2, <3>3 DEF Goto, ClientRow, ClientSteps, i
    <3>4. CASE Return(c)
      BY <3>2, <3>4 DEF Return, Idle, ClientRow, ClientSteps
    <3> QED BY Zenon, <3>1, <3>3, <3>4
  <2>8. Shapes'
    BY Zenon, <1>1, <2>1, <2>4, <2>6, <2>7 DEF IInv, Shapes
  <2>9. /\ \A j \in ImportIds : imports[j].state = "NONE" => imports'[j] = imports[j]
        /\ \A j \in ImportIds : imports[j].state # "NONE" => imports'[j].state # "NONE"
    BY Zenon, <1>1, <2>4, <2>5
  <2>10. ASSUME NEW j \in ImportIds PROVE Blank(j)'
    <3>1. CASE j = i
      BY Zenon, <2>5, <3>1 DEF Blank
    <3>2. CASE j # i
      <4>1. Blank(j)
        BY Zenon, <2>10 DEF IInv, Uploads
      <4>2. imports'[j] = imports[j] /\ raw'[j] = raw[j]
        BY Zenon, <2>4, <2>6, <2>10, <3>2
      <4> QED BY Zenon, <4>1, <4>2 DEF Blank
    <3> QED BY Zenon, <3>1, <3>2
  <2>11. ASSUME NEW j \in ImportIds PROVE Stored(j)'
    BY Zenon, <1>1, <2>6, <2>11 DEF IInv, Uploads, Stored
  <2>12. ASSUME NEW j \in ImportIds PROVE Tracked(j)'
    <3>1. \A d \in Clients : client[d].at \in {"record", "drop"} => client'[d] = client[d]
      BY Zenon, <1>1, <2>7
    <3>2. Tracked(j) /\ UNCHANGED <<objects, lost>>
      BY Zenon, <1>1, <2>12 DEF IInv, Uploads
    <3>3. raw[j] \in {"AVAILABLE", "DELETE_PENDING"}
              => raw'[j] \in {"AVAILABLE", "DELETE_PENDING"}
      BY Zenon, <2>6, <2>12
    <3> QED BY Zenon, <3>1, <3>2, <3>3 DEF Tracked
  <2>13. ASSUME NEW d \in Clients PROVE Submitting(d)'
    <3>1. CASE d = c
      BY <2>7, <3>1 DEF Submitting, Holds, Idle
    <3>2. CASE d # c
      <4>1. Submitting(d) /\ client'[d] = client[d] /\ UNCHANGED <<objects, lost>>
        BY Zenon, <1>1, <2>7, <2>13, <3>2 DEF IInv, Uploads
      <4> QED BY <2>9, <4>1 DEF Submitting, Holds
    <3> QED BY Zenon, <3>1, <3>2
  <2>14. ASSUME NEW d \in Clients PROVE Confirming(d)'
    <3>1. CASE d = c
      BY <1>1, <2>5, <2>6, <2>7, <3>1 DEF Confirming, Idle
    <3>2. CASE d # c
      <4>1. Confirming(d) /\ client'[d] = client[d] /\ UNCHANGED objects
        BY Zenon, <1>1, <2>7, <2>14, <3>2 DEF IInv, Uploads
      <4> QED BY <2>6, <2>9, <4>1 DEF Confirming
    <3> QED BY Zenon, <3>1, <3>2
  <2>15. OneHolder'
    BY <2>7 DEF IInv, Uploads, OneHolder, Holds, Idle
  <2>16. Working'
    BY Zenon, <1>1, <2>9 DEF IInv, Uploads, Working
  <2>17. Expiring'
    <3>1. expirer.keys \subseteq ImportIds /\ Expiring /\ UNCHANGED <<objects, expirer>>
      BY <1>1 DEF IInv, Shapes, Uploads
    <3> QED BY Zenon, <2>6, <2>9, <3>1 DEF Expiring
  <2>18. ASSUME NEW j \in ImportIds, j # i PROVE (Late(j) /\ Named(j) /\ KeyBound(j))'
    <3>1. Late(j) /\ Named(j) /\ KeyBound(j) /\ imports'[j] = imports[j] /\ UNCHANGED ops
      BY Zenon, <1>1, <2>4, <2>18 DEF IInv, References
    <3>2. Late(j)' /\ Named(j)'
      BY Zenon, <2>1, <3>1 DEF Late, Named, ProfileExists
    <3>3. KeyBound(j)'
      BY Zenon, <3>1 DEF KeyBound, Terminal
    <3> QED BY Zenon, <3>2, <3>3
  <2>19. ASSUME NEW j \in ImportIds, j = i PROVE (Late(j) /\ Named(j) /\ KeyBound(j))'
    <3>1. ~imports[j].late
      BY Zenon, <1>3, <2>19 DEF IInv, References, Late, i
    <3>2. Late(j)'
      BY Zenon, <2>5, <2>19, <3>1 DEF Late
    <3>3. Named(j)'
      BY Zenon, <2>2, <2>5, <2>19 DEF Named
    <3>4. KeyBound(j)'
      BY Zenon, <2>5, <2>19 DEF KeyBound, Terminal
    <3> QED BY Zenon, <3>2, <3>3, <3>4
  <2>20. KeysUnique'
    BY Zenon, <1>1 DEF IInv, References, KeysUnique
  <2>21. Targets'
    <3>1. \A j \in ImportIds : /\ Exists(j) => Exists(j)'
                               /\ imports'[j].lifecycle = imports[j].lifecycle
      BY Zenon, <2>4, <2>5 DEF Exists
    <3>2. \A q \in ProfileIds : profiles[q].state \in {"ACTIVE", "FENCED"} =>
              profiles'[q] = profiles[q]
      BY Zenon, <2>1 DEF ProfileExists, Lifecycles
    <3>3. Targets /\ UNCHANGED ops
      BY Zenon, <1>1 DEF IInv, References
    <3> QED BY Zenon, <3>1, <3>2, <3>3 DEF Targets
  <2> QED BY Zenon, <2>1, <2>8, <2>10, <2>11, <2>12, <2>13, <2>14, <2>15, <2>16, <2>17,
             <2>18, <2>19, <2>20, <2>21 DEF IInv, Uploads, References
<1> QED BY Zenon, <1>2, <1>3 DEF ConfirmCommit

\* The object of a row that is not AVAILABLE goes.
LEMMA ConfirmDiscardKeeps ==
    ASSUME IInv, NEW c \in Clients, ConfirmDiscard(c)
    PROVE  IInv'
<1>1. /\ client'[c].at = "discarded" /\ client'[c].id = client[c].id
      /\ \A d \in Clients : d # c => client'[d] = client[d]
      /\ client' \in [Clients -> ClientRow]
  BY DEF IInv, Shapes, ClientRow, ClientSteps, ConfirmDiscard, Goto
<1>2. /\ client[c].at = "discard" /\ objects' = objects \ {client[c].id}
      /\ UNCHANGED <<account, imports, raw, profiles, ops, worker, expirer, lost>>
  BY Zenon DEF ConfirmDiscard, database
<1>3. /\ client[c].id \in ImportIds /\ imports[client[c].id].state # "NONE"
      /\ raw[client[c].id] # "AVAILABLE"
  BY <1>2 DEF IInv, Uploads, Confirming
<1>4. Shapes'
  BY Zenon, <1>1, <1>2 DEF IInv, Shapes
<1>5. ASSUME NEW j \in ImportIds PROVE (Blank(j) /\ Stored(j))'
  <2>1. Blank(j) /\ Stored(j)
    BY Zenon, <1>5 DEF IInv, Uploads
  <2> QED BY Zenon, <1>2, <1>3, <2>1 DEF Blank, Stored
<1>6. ASSUME NEW j \in ImportIds PROVE Tracked(j)'
  <2>1. Tracked(j)
    BY Zenon, <1>6 DEF IInv, Uploads
  <2>2. \A d \in Clients : client[d].at \in {"record", "drop"} => client'[d] = client[d]
    BY Zenon, <1>1, <1>2
  <2> QED BY Zenon, <1>2, <2>1, <2>2 DEF Tracked
<1>7. ASSUME NEW d \in Clients PROVE Submitting(d)'
  <2>1. Submitting(d)
    BY Zenon, <1>7 DEF IInv, Uploads
  <2> QED BY <1>1, <1>2, <1>3, <2>1 DEF Submitting, Holds
<1>8. ASSUME NEW d \in Clients PROVE Confirming(d)'
  <2>1. Confirming(d)
    BY Zenon, <1>8 DEF IInv, Uploads
  <2> QED BY <1>1, <1>2, <1>3, <2>1 DEF Confirming
<1>9. OneHolder'
  BY <1>1 DEF IInv, Uploads, OneHolder, Holds
<1>10. Working' /\ Expiring'
  BY Zenon, <1>2 DEF IInv, Uploads, Working, Expiring
<1>11. References'
  BY Zenon, <1>2, ReferencesFrame DEF IInv
<1> QED BY Zenon, <1>4, <1>5, <1>6, <1>7, <1>8, <1>9, <1>10, <1>11 DEF IInv, Uploads

\* A row says DELETED when its object is gone; no other row changes.
LEMMA MarkedRows ==
    ASSUME IInv, NEW S, S \cap objects = {}, raw' = MarkDeleted(S),
           UNCHANGED <<imports, objects, lost>>
    PROVE  /\ raw' \in [ImportIds -> {"NONE", "AVAILABLE", "DELETE_PENDING", "DELETED"}]
           /\ \A i \in ImportIds : raw'[i] = "AVAILABLE" <=> raw[i] = "AVAILABLE"
           /\ \A i \in ImportIds : Blank(i)' /\ Stored(i)'
           /\ \A i \in objects : raw'[i] = raw[i]
<1>1. raw \in [ImportIds -> {"NONE", "AVAILABLE", "DELETE_PENDING", "DELETED"}]
  BY Zenon DEF IInv, Shapes
<1>2. raw' \in [ImportIds -> {"NONE", "AVAILABLE", "DELETE_PENDING", "DELETED"}]
  BY <1>1 DEF MarkDeleted
<1>3. \A i \in ImportIds : /\ raw'[i] = "AVAILABLE" <=> raw[i] = "AVAILABLE"
                           /\ raw[i] = "NONE" => raw'[i] = "NONE"
                           /\ i \notin S => raw'[i] = raw[i]
  BY <1>1 DEF MarkDeleted
<1>4. \A i \in ImportIds : Blank(i)' /\ Stored(i)'
  BY Zenon, <1>3 DEF IInv, Uploads, Blank, Stored
<1>5. objects \subseteq ImportIds
  BY Zenon DEF IInv, Shapes
<1> QED BY Zenon, <1>2, <1>3, <1>4, <1>5

\* The row follows its object: DELETED is said of an object that is gone.
LEMMA ConfirmDiscardedKeeps ==
    ASSUME IInv, NEW c \in Clients, ConfirmDiscarded(c)
    PROVE  IInv'
<1>1. /\ client'[c] = Idle
      /\ \A d \in Clients : d # c => client'[d] = client[d]
      /\ client' \in [Clients -> ClientRow]
  BY DEF IInv, Shapes, ClientRow, ClientSteps, Idle, ConfirmDiscarded, Return
<1>2. /\ client[c].at = "discarded" /\ raw' = MarkDeleted({client[c].id})
      /\ UNCHANGED <<account, imports, objects, profiles, ops, worker, expirer, lost>>
  BY Zenon DEF ConfirmDiscarded
<1>3. {client[c].id} \cap objects = {}
  BY Zenon, <1>2 DEF IInv, Uploads, Confirming
<1>4. /\ raw' \in [ImportIds -> {"NONE", "AVAILABLE", "DELETE_PENDING", "DELETED"}]
      /\ \A i \in ImportIds : raw'[i] = "AVAILABLE" <=> raw[i] = "AVAILABLE"
      /\ \A i \in ImportIds : Blank(i)' /\ Stored(i)'
      /\ \A i \in objects : raw'[i] = raw[i]
  BY Zenon, <1>2, <1>3, MarkedRows
<1>5. Shapes'
  BY Zenon, <1>1, <1>2, <1>4 DEF IInv, Shapes
<1>6. ASSUME NEW j \in ImportIds PROVE Tracked(j)'
  <2>1. Tracked(j)
    BY Zenon, <1>6 DEF IInv, Uploads
  <2>2. \A d \in Clients : client[d].at \in {"record", "drop"} => client'[d] = client[d]
    BY Zenon, <1>1, <1>2
  <2> QED BY Zenon, <1>2, <1>4, <2>1, <2>2 DEF Tracked
<1>7. ASSUME NEW d \in Clients PROVE Submitting(d)'
  <2>1. Submitting(d)
    BY Zenon, <1>7 DEF IInv, Uploads
  <2> QED BY <1>1, <1>2, <2>1 DEF Submitting, Holds, Idle
<1>8. ASSUME NEW d \in Clients PROVE Confirming(d)'
  <2>1. Confirming(d)
    BY Zenon, <1>8 DEF IInv, Uploads
  <2>2. CASE d = c
    BY <1>1, <2>2 DEF Confirming, Idle
  <2>3. CASE d # c
    <3>1. client'[d] = client[d]
      BY Zenon, <1>1, <1>8, <2>3
    <3> QED BY <1>2, <1>4, <2>1, <3>1 DEF Confirming
  <2> QED BY Zenon, <2>2, <2>3
<1>9. OneHolder'
  BY <1>1 DEF IInv, Uploads, OneHolder, Holds, Idle
<1>10. Working' /\ Expiring'
  BY Zenon, <1>2, <1>4 DEF IInv, Shapes, Uploads, Working, Expiring
<1>11. References'
  BY Zenon, <1>2, ReferencesFrame DEF IInv
<1> QED BY Zenon, <1>4, <1>5, <1>6, <1>7, <1>8, <1>9, <1>10, <1>11 DEF IInv, Uploads

-----------------------------------------------------------------------------
(* The retention worker *)

\* The rows that expire_raw_objects takes stop being AVAILABLE before it deletes
\* their objects.
LEMMA ExpireMarkKeeps ==
    ASSUME IInv, ExpireMark
    PROVE  IInv'
<1>1. PICK E \in SUBSET {i \in ImportIds : raw[i] = "AVAILABLE"} :
          /\ raw' = [i \in ImportIds |-> IF i \in E THEN "DELETE_PENDING" ELSE raw[i]]
          /\ expirer' = [at |-> "delete", keys |-> E \cup Pending]
  BY Zenon DEF ExpireMark
<1>2. UNCHANGED <<account, imports, objects, profiles, ops, client, worker, lost>>
  BY Zenon DEF ExpireMark
<1>3. /\ expirer'.at = "delete" /\ expirer'.keys = E \cup Pending
      /\ E \cup Pending \subseteq ImportIds
      /\ expirer' \in [at : {"idle", "delete", "mark"}, keys : SUBSET ImportIds]
  BY Zenon, <1>1 DEF Pending
<1>4. raw' \in [ImportIds -> {"NONE", "AVAILABLE", "DELETE_PENDING", "DELETED"}]
  BY Zenon, <1>1 DEF IInv, Shapes
<1>5. \A i \in ImportIds : /\ i \in E => raw[i] = "AVAILABLE" /\ raw'[i] = "DELETE_PENDING"
                           /\ i \notin E => raw'[i] = raw[i]
  BY Zenon, <1>1
<1>6. Shapes'
  BY Zenon, <1>2, <1>3, <1>4 DEF IInv, Shapes
<1>7. ASSUME NEW j \in ImportIds PROVE (Blank(j) /\ Stored(j) /\ Tracked(j))'
  <2>1. Blank(j) /\ Stored(j) /\ Tracked(j)
    BY Zenon, <1>7 DEF IInv, Uploads
  <2>2. Blank(j)' /\ Stored(j)'
    BY Zenon, <1>2, <1>5, <2>1 DEF Blank, Stored
  <2>3. Tracked(j)'
    BY Zenon, <1>2, <1>5, <2>1 DEF Tracked
  <2> QED BY Zenon, <2>2, <2>3
<1>8. ASSUME NEW d \in Clients PROVE (Submitting(d) /\ Confirming(d))'
  <2>1. Submitting(d) /\ Confirming(d)
    BY Zenon, <1>8 DEF IInv, Uploads
  <2>2. Submitting(d)'
    BY Zenon, <1>2, <2>1 DEF Submitting, Holds
  <2>3. Confirming(d)'
    BY <1>2, <1>5, <2>1 DEF Confirming
  <2> QED BY Zenon, <2>2, <2>3
<1>9. OneHolder' /\ Working'
  BY Zenon, <1>2 DEF IInv, Uploads, OneHolder, Working, Holds
<1>10. Expiring'
  <2>1. ASSUME NEW j \in E \cup Pending PROVE raw'[j] # "AVAILABLE" /\ imports'[j].state # "NONE"
    <3>1. j \in ImportIds /\ raw[j] \in {"AVAILABLE", "DELETE_PENDING"}
      BY Zenon, <1>1, <2>1 DEF Pending
    <3>2. raw'[j] # "AVAILABLE"
      BY Zenon, <1>5, <2>1, <3>1 DEF Pending
    <3>3. imports[j].state # "NONE"
      BY Zenon, <3>1 DEF IInv, Uploads, Blank
    <3> QED BY Zenon, <1>2, <3>2, <3>3
  <2> QED BY Zenon, <1>3, <2>1 DEF Expiring
<1>11. References'
  BY Zenon, <1>2, ReferencesFrame DEF IInv
<1> QED BY Zenon, <1>6, <1>7, <1>8, <1>9, <1>10, <1>11 DEF IInv, Uploads

\* No object that the retention worker deletes is AVAILABLE, and none belongs to a
\* submission that is not recorded yet.
LEMMA ExpireDeleteKeeps ==
    ASSUME IInv, ExpireDelete
    PROVE  IInv'
<1>1. /\ expirer'.at = "mark" /\ expirer'.keys = expirer.keys
      /\ expirer' \in [at : {"idle", "delete", "mark"}, keys : SUBSET ImportIds]
      /\ expirer.keys \subseteq ImportIds
  BY DEF IInv, Shapes, ExpireDelete
<1>2. /\ objects' = objects \ expirer.keys
      /\ UNCHANGED <<account, imports, raw, profiles, ops, client, worker, lost>>
  BY Zenon DEF ExpireDelete, database
<1>3. \A i \in expirer.keys : raw[i] # "AVAILABLE" /\ imports[i].state # "NONE"
  BY Zenon DEF IInv, Uploads, Expiring
<1>4. Shapes'
  BY Zenon, <1>1, <1>2 DEF IInv, Shapes
<1>5. ASSUME NEW j \in ImportIds PROVE (Blank(j) /\ Stored(j) /\ Tracked(j))'
  <2>1. Blank(j) /\ Stored(j) /\ Tracked(j)
    BY Zenon, <1>5 DEF IInv, Uploads
  <2> QED BY Zenon, <1>2, <1>3, <2>1 DEF Blank, Stored, Tracked
<1>6. ASSUME NEW d \in Clients PROVE (Submitting(d) /\ Confirming(d))'
  <2>1. Submitting(d) /\ Confirming(d)
    BY Zenon, <1>6 DEF IInv, Uploads
  <2>2. Submitting(d)'
    BY <1>2, <1>3, <2>1 DEF Submitting, Holds
  <2>3. Confirming(d)'
    BY Zenon, <1>2, <2>1 DEF Confirming
  <2> QED BY Zenon, <2>2, <2>3
<1>7. OneHolder' /\ Working'
  BY Zenon, <1>2 DEF IInv, Uploads, OneHolder, Working, Holds
<1>8. Expiring'
  BY Zenon, <1>1, <1>2, <1>3 DEF Expiring
<1>9. References'
  BY Zenon, <1>2, ReferencesFrame DEF IInv
<1> QED BY Zenon, <1>4, <1>5, <1>6, <1>7, <1>8, <1>9 DEF IInv, Uploads

\* The retention worker is done, or dies, with the rows in raw'.
LEMMA ExpirerRests ==
    ASSUME IInv, NEW S, S \cap objects = {}, raw' = MarkDeleted(S) \/ UNCHANGED raw,
           expirer' = [at |-> "idle", keys |-> {}],
           UNCHANGED <<account, imports, objects, profiles, ops, client, worker, lost>>
    PROVE  IInv'
<1>1. /\ expirer'.at = "idle" /\ expirer'.keys = {}
      /\ expirer' \in [at : {"idle", "delete", "mark"}, keys : SUBSET ImportIds]
  OBVIOUS
<1>2. /\ raw' \in [ImportIds -> {"NONE", "AVAILABLE", "DELETE_PENDING", "DELETED"}]
      /\ \A i \in ImportIds : raw'[i] = "AVAILABLE" <=> raw[i] = "AVAILABLE"
      /\ \A i \in ImportIds : Blank(i)' /\ Stored(i)'
      /\ \A i \in objects : raw'[i] = raw[i]
  <2>1. CASE raw' = MarkDeleted(S)
    BY Zenon, <2>1, MarkedRows
  <2>2. CASE UNCHANGED raw
    BY Zenon, <2>2 DEF IInv, Shapes, Uploads, Blank, Stored
  <2> QED BY Zenon, <2>1, <2>2
<1>3. Shapes'
  BY Zenon, <1>1, <1>2 DEF IInv, Shapes
<1>4. ASSUME NEW j \in ImportIds PROVE Tracked(j)'
  BY Zenon, <1>2, <1>4 DEF IInv, Uploads, Tracked
<1>5. ASSUME NEW d \in Clients PROVE (Submitting(d) /\ Confirming(d))'
  <2>1. Submitting(d) /\ Confirming(d)
    BY Zenon, <1>5 DEF IInv, Uploads
  <2>2. Submitting(d)'
    BY Zenon, <2>1 DEF Submitting, Holds
  <2>3. Confirming(d)'
    BY <1>2, <2>1 DEF Confirming
  <2> QED BY Zenon, <2>2, <2>3
<1>6. OneHolder' /\ Working'
  BY Zenon DEF IInv, Uploads, OneHolder, Working, Holds
<1>7. Expiring'
  BY Zenon, <1>1 DEF Expiring
<1>8. References'
  BY Zenon, ReferencesFrame DEF IInv
<1> QED BY Zenon, <1>2, <1>3, <1>4, <1>5, <1>6, <1>7, <1>8 DEF IInv, Uploads

\* The rows follow their objects.
LEMMA ExpireDeletedKeeps ==
    ASSUME IInv, ExpireDeleted
    PROVE  IInv'
<1>1. expirer.keys \cap objects = {}
  BY Zenon DEF IInv, Uploads, Expiring, ExpireDeleted
<1> QED BY Zenon, <1>1, ExpirerRests DEF ExpireDeleted

\* What a dead retention worker leaves behind is still DELETE_PENDING.
LEMMA ExpirerCrashKeeps ==
    ASSUME IInv, ExpirerCrash
    PROVE  IInv'
<1>1. /\ expirer' = [at |-> "idle", keys |-> {}]
      /\ UNCHANGED <<account, imports, raw, objects, profiles, ops, client, worker, lost>>
  BY Zenon DEF ExpirerCrash, database
<1>2. {} \cap objects = {}
  OBVIOUS
<1> QED BY Zenon, <1>1, <1>2, ExpirerRests

\* _expire_operations gives a key back when the job of its import has ended.
LEMMA ExpireOperationKeeps ==
    ASSUME IInv, NEW o \in ops, ExpireOperation(o)
    PROVE  IInv'
<1>1. /\ OperationIsTerminal(o) /\ ops' = ops \ {o}
      /\ UNCHANGED <<account, imports, raw, objects, profiles, client, worker, expirer, lost>>
  BY Zenon DEF ExpireOperation
<1>2. Shapes'
  BY Zenon, <1>1 DEF IInv, Shapes
<1>3. expirer.keys \subseteq ImportIds
  BY DEF IInv, Shapes
<1>4. Working'
  BY Zenon, <1>1 DEF IInv, Uploads, Working
<1>5. Uploads'
  BY Zenon, <1>1, <1>3, <1>4, UploadsFrame DEF IInv
<1>6. ASSUME NEW j \in ImportIds PROVE (Late(j) /\ Named(j))'
  BY Zenon, <1>1, <1>6 DEF IInv, References, Late, Named, ProfileExists
<1>7. ASSUME NEW j \in ImportIds PROVE KeyBound(j)'
  <2>1. KeyBound(j)
    BY Zenon, <1>7 DEF IInv, References
  <2>2. o.route = "UPLOAD" /\ o.target = j => Terminal(j)
    BY Zenon, <1>1 DEF OperationIsTerminal
  <2> QED BY Zenon, <1>1, <2>1, <2>2 DEF KeyBound, Terminal
<1>8. KeysUnique' /\ ContentUnique'
  BY Zenon, <1>1 DEF IInv, References, KeysUnique, ContentUnique, ProfileExists
<1>9. Targets'
  BY Zenon, <1>1 DEF IInv, References, Targets, Exists
<1> QED BY Zenon, <1>2, <1>5, <1>6, <1>7, <1>8, <1>9 DEF IInv, References

-----------------------------------------------------------------------------
(* Deletion *)

\* A step on the import rows alone: it is enough that no row appears or disappears.
LEMMA ImportRowsStep ==
    ASSUME IInv, imports' \in [ImportIds -> ImportRow], account' \in {"ACTIVE", "FENCED"},
           profiles' \in [ProfileIds -> ProfileRow], ops' \subseteq ops,
           \A i \in ImportIds : imports[i].state = "NONE" => imports'[i] = imports[i],
           \A i \in ImportIds : imports[i].state # "NONE" => imports'[i].state # "NONE",
           UNCHANGED <<raw, objects, client, worker, expirer, lost>>
    PROVE  Shapes' /\ Uploads'
<1>1. Shapes'
  BY Zenon DEF IInv, Shapes
<1>2. expirer.keys \subseteq ImportIds
  BY DEF IInv, Shapes
<1>3. Working'
  BY Zenon DEF IInv, Uploads, Working
<1> QED BY Zenon, <1>1, <1>2, <1>3, UploadsFrame DEF IInv

\* The fence of the account cancels the queued jobs: they end, and stay late.
LEMMA FenceAccountKeeps ==
    ASSUME IInv, FenceAccount
    PROVE  IInv'
<1>1. /\ account' = "FENCED"
      /\ imports' = [i \in ImportIds |->
            IF imports[i].state = "QUEUED" THEN [imports[i] EXCEPT !.cancelled = TRUE]
            ELSE imports[i]]
      /\ UNCHANGED <<raw, objects, profiles, ops, client, worker, expirer, lost>>
  BY Zenon DEF FenceAccount
<1>2. imports \in [ImportIds -> ImportRow] /\ profiles \in [ProfileIds -> ProfileRow]
  BY Zenon DEF IInv, Shapes
<1>3. ASSUME NEW i \in ImportIds
      PROVE  /\ imports'[i] \in ImportRow
             /\ imports'[i].state = imports[i].state /\ imports'[i].late = imports[i].late
             /\ imports'[i].lifecycle = imports[i].lifecycle
             /\ imports'[i].profile = imports[i].profile
             /\ imports'[i].adopted = imports[i].adopted /\ imports'[i].key = imports[i].key
             /\ imports[i].cancelled => imports'[i].cancelled
             /\ imports[i].state # "QUEUED" => imports'[i] = imports[i]
  <2>1. CASE imports[i].state # "QUEUED"
    BY Zenon, <1>1, <1>2, <1>3, <2>1
  <2>2. CASE imports[i].state = "QUEUED"
    <3>1. imports[i] \in ImportRow /\ imports'[i] = [imports[i] EXCEPT !.cancelled = TRUE]
      BY Zenon, <1>1, <1>2, <1>3, <2>2
    <3>2. imports'[i] \in ImportRow
      BY Zenon, <3>1 DEF ImportRow
    <3>3. /\ imports'[i].state = imports[i].state /\ imports'[i].late = imports[i].late
          /\ imports'[i].lifecycle = imports[i].lifecycle
          /\ imports'[i].profile = imports[i].profile
          /\ imports'[i].adopted = imports[i].adopted /\ imports'[i].key = imports[i].key
          /\ imports'[i].cancelled
      BY <3>1 DEF ImportRow
    <3> QED BY Zenon, <2>2, <3>2, <3>3
  <2> QED BY Zenon, <2>1, <2>2
<1>4. Shapes' /\ Uploads'
  <2>1. imports' \in [ImportIds -> ImportRow]
    BY Zenon, <1>1, <1>3
  <2>2. /\ \A i \in ImportIds : imports[i].state = "NONE" => imports'[i] = imports[i]
        /\ \A i \in ImportIds : imports[i].state # "NONE" => imports'[i].state # "NONE"
    BY Zenon, <1>3
  <2> QED BY Zenon, <1>1, <1>2, <2>1, <2>2, ImportRowsStep
<1>5. ASSUME NEW j \in ImportIds PROVE (Late(j) /\ Named(j))'
  <2>1. Late(j) /\ Named(j)
    BY Zenon, <1>5 DEF IInv, References
  <2> QED BY Zenon, <1>1, <1>3, <2>1 DEF Late, Named, ProfileExists
<1>6. ASSUME NEW j \in ImportIds PROVE KeyBound(j)'
  <2>1. KeyBound(j)
    BY Zenon, <1>6 DEF IInv, References
  <2>2. Terminal(j) => Terminal(j)'
    BY Zenon, <1>3, <1>6 DEF Terminal
  <2>3. imports'[j].key = imports[j].key /\ imports'[j].lifecycle = imports[j].lifecycle
    BY Zenon, <1>3, <1>6
  <2> QED BY Zenon, <1>1, <2>1, <2>2, <2>3 DEF KeyBound
<1>7. KeysUnique' /\ ContentUnique'
  BY Zenon, <1>1 DEF IInv, References, KeysUnique, ContentUnique, ProfileExists
<1>8. Targets'
  <2>1. Targets
    BY Zenon DEF IInv, References
  <2> QED BY <1>1, <1>3, <2>1 DEF Targets, Exists
<1> QED BY Zenon, <1>4, <1>5, <1>6, <1>7, <1>8 DEF IInv, References

\* The fence of an import ends its job, so its key is free again.
LEMMA FenceImportKeeps ==
    ASSUME IInv, NEW i \in ImportIds, FenceImport(i)
    PROVE  IInv'
<1>1. /\ Exists(i) /\ imports[i].lifecycle = "ACTIVE"
      /\ imports' = [imports EXCEPT ![i].lifecycle = "FENCED",
                                    ![i].cancelled = @ \/ imports[i].state = "QUEUED"]
      /\ UNCHANGED <<account, raw, objects, profiles, ops, client, worker, expirer, lost>>
  BY Zenon DEF FenceImport
<1>2. /\ imports \in [ImportIds -> ImportRow] /\ profiles \in [ProfileIds -> ProfileRow]
      /\ account \in {"ACTIVE", "FENCED"} /\ imports[i] \in ImportRow
  BY Zenon DEF IInv, Shapes
<1>3. \E b \in BOOLEAN : imports' = [imports EXCEPT ![i] =
          [imports[i] EXCEPT !.lifecycle = "FENCED", !.cancelled = b]]
  BY Zenon, <1>1, <1>2 DEF ImportRow
<1>4. PICK b \in BOOLEAN : imports' = [imports EXCEPT ![i] =
          [imports[i] EXCEPT !.lifecycle = "FENCED", !.cancelled = b]]
  BY Zenon, <1>3
<1>5. [imports[i] EXCEPT !.lifecycle = "FENCED", !.cancelled = b] \in ImportRow
  BY Zenon, <1>2 DEF ImportRow, Lifecycles
<1>6. /\ imports' \in [ImportIds -> ImportRow]
      /\ imports'[i] = [imports[i] EXCEPT !.lifecycle = "FENCED", !.cancelled = b]
      /\ \A j \in ImportIds : j # i => imports'[j] = imports[j]
  BY Zenon, <1>2, <1>4, <1>5
<1>7. /\ imports'[i].state = imports[i].state /\ imports'[i].late = imports[i].late
      /\ imports'[i].lifecycle = "FENCED" /\ imports'[i].profile = imports[i].profile
      /\ imports'[i].adopted = imports[i].adopted
  BY <1>2, <1>6 DEF ImportRow
<1>8. imports[i].state # "NONE"
  BY Zenon, <1>1 DEF Exists
<1>9. Shapes' /\ Uploads'
  <2>1. /\ \A j \in ImportIds : imports[j].state = "NONE" => imports'[j] = imports[j]
        /\ \A j \in ImportIds : imports[j].state # "NONE" => imports'[j].state # "NONE"
    BY Zenon, <1>6, <1>7, <1>8
  <2> QED BY Zenon, <1>1, <1>2, <1>6, <2>1, ImportRowsStep
<1>10. ASSUME NEW j \in ImportIds, j # i PROVE (Late(j) /\ Named(j) /\ KeyBound(j))'
  <2>1. Late(j) /\ Named(j) /\ KeyBound(j) /\ imports'[j] = imports[j]
    BY Zenon, <1>6, <1>10 DEF IInv, References
  <2>2. Late(j)' /\ Named(j)'
    BY Zenon, <1>1, <2>1 DEF Late, Named, ProfileExists
  <2>3. KeyBound(j)'
    BY Zenon, <1>1, <2>1 DEF KeyBound, Terminal
  <2> QED BY Zenon, <2>2, <2>3
<1>11. Late(i)' /\ Named(i)' /\ KeyBound(i)'
  <2>1. Late(i) /\ Named(i) /\ imports[i].lifecycle # "VERIFIED"
    BY Zenon, <1>1 DEF IInv, References
  <2> QED BY Zenon, <1>1, <1>7, <2>1 DEF Late, Named, ProfileExists, KeyBound
<1>12. KeysUnique' /\ ContentUnique'
  BY Zenon, <1>1 DEF IInv, References, KeysUnique, ContentUnique, ProfileExists
<1>13. Targets'
  <2>1. Targets
    BY Zenon DEF IInv, References
  <2> QED BY <1>1, <1>6, <1>7, <2>1 DEF Targets, Exists
<1> QED BY Zenon, <1>9, <1>10, <1>11, <1>12, <1>13 DEF IInv, References

\* VERIFY removes the upload, the profiles made from the import and every operation
\* that names one of them, in one transaction.
LEMMA VerifyImportKeeps ==
    ASSUME IInv, NEW i \in ImportIds, VerifyImport(i)
    PROVE  IInv'
<1> DEFINE gone == {p \in ProfileIds : ProfileExists(p) /\ profiles[p].home = i}
<1>1. /\ imports[i].lifecycle = "FENCED" /\ objects' = objects \ {i}
      /\ raw' = [raw EXCEPT ![i] = "NONE"]
      /\ profiles' = [p \in ProfileIds |->
            IF p \in gone THEN [profiles[p] EXCEPT !.state = "DELETED"] ELSE profiles[p]]
      /\ ops' = {o \in ops : ~(\/ o.route = "UPLOAD" /\ o.target = i
                               \/ o.route = "SIMULATED" /\ o.target \in gone)}
      /\ imports' = [imports EXCEPT ![i].lifecycle = "VERIFIED"]
      /\ UNCHANGED <<account, client, worker, expirer, lost>>
  BY Zenon DEF VerifyImport
<1>2. /\ imports \in [ImportIds -> ImportRow] /\ imports[i] \in ImportRow
      /\ profiles \in [ProfileIds -> ProfileRow]
      /\ raw \in [ImportIds -> {"NONE", "AVAILABLE", "DELETE_PENDING", "DELETED"}]
      /\ ops \subseteq OperationRow
  BY Zenon DEF IInv, Shapes
<1>3. [imports[i] EXCEPT !.lifecycle = "VERIFIED"] \in ImportRow
  BY <1>2 DEF ImportRow, Lifecycles
<1>4. /\ imports' \in [ImportIds -> ImportRow]
      /\ imports'[i] = [imports[i] EXCEPT !.lifecycle = "VERIFIED"]
      /\ \A j \in ImportIds : j # i => imports'[j] = imports[j]
  BY Zenon, <1>1, <1>2, <1>3
<1>5. /\ imports'[i].state = imports[i].state /\ imports'[i].late = imports[i].late
      /\ imports'[i].lifecycle = "VERIFIED" /\ imports'[i].profile = imports[i].profile
  BY <1>2, <1>4 DEF ImportRow
<1>6. ASSUME NEW p \in ProfileIds
      PROVE  /\ profiles'[p] \in ProfileRow
             /\ p \notin gone => profiles'[p] = profiles[p]
             /\ ProfileExists(p)' => ProfileExists(p) /\ profiles'[p] = profiles[p]
  <2>1. CASE p \notin gone
    BY Zenon, <1>1, <1>2, <1>6, <2>1 DEF ProfileExists
  <2>2. CASE p \in gone
    <3>1. profiles[p] \in ProfileRow /\ profiles'[p] = [profiles[p] EXCEPT !.state = "DELETED"]
      BY Zenon, <1>1, <1>2, <1>6, <2>2
    <3>2. profiles'[p] \in ProfileRow /\ profiles'[p].state = "DELETED"
      BY Zenon, <3>1 DEF ProfileRow
    <3>3. ~ProfileExists(p)'
      BY <3>2 DEF ProfileExists, Lifecycles
    <3> QED BY Zenon, <2>2, <3>2, <3>3
  <2> QED BY Zenon, <2>1, <2>2
<1>7. /\ raw' \in [ImportIds -> {"NONE", "AVAILABLE", "DELETE_PENDING", "DELETED"}]
      /\ raw'[i] = "NONE" /\ \A j \in ImportIds : j # i => raw'[j] = raw[j]
  BY Zenon, <1>1, <1>2
<1>8. imports[i].state # "NONE"
  BY Zenon, <1>1 DEF IInv, Uploads, Blank
<1>9. Shapes'
  <2>1. profiles' \in [ProfileIds -> ProfileRow]
    BY Zenon, <1>1, <1>6
  <2> QED BY Zenon, <1>1, <1>2, <1>4, <1>7, <2>1 DEF IInv, Shapes
<1>10. \A j \in ImportIds : imports'[j].state = imports[j].state
  BY Zenon, <1>4, <1>5
<1>11. ASSUME NEW j \in ImportIds PROVE (Blank(j) /\ Stored(j) /\ Tracked(j))'
  <2>1. Blank(j) /\ Stored(j) /\ Tracked(j)
    BY Zenon, <1>11 DEF IInv, Uploads
  <2>2. CASE j = i
    BY Zenon, <1>1, <1>5, <1>7, <1>8, <2>2 DEF Blank, Stored, Tracked
  <2>3. CASE j # i
    <3>1. imports'[j] = imports[j] /\ raw'[j] = raw[j] /\ (j \in objects' <=> j \in objects)
      BY Zenon, <1>1, <1>4, <1>7, <1>11, <2>3
    <3> QED BY Zenon, <1>1, <2>1, <3>1 DEF Blank, Stored, Tracked
  <2> QED BY Zenon, <2>2, <2>3
<1>12. ASSUME NEW d \in Clients PROVE Submitting(d)'
  <2>1. Submitting(d)
    BY Zenon, <1>12 DEF IInv, Uploads
  <2> QED BY <1>1, <1>8, <1>10, <2>1 DEF Submitting, Holds
<1>13. ASSUME NEW d \in Clients PROVE Confirming(d)'
  <2>1. Confirming(d)
    BY Zenon, <1>13 DEF IInv, Uploads
  <2> QED BY <1>1, <1>7, <1>10, <2>1 DEF Confirming
<1>14. OneHolder' /\ Working'
  BY Zenon, <1>1, <1>10 DEF IInv, Uploads, OneHolder, Working, Holds
<1>15. Expiring'
  <2>1. expirer.keys \subseteq ImportIds /\ Expiring
    BY DEF IInv, Shapes, Uploads
  <2> QED BY Zenon, <1>1, <1>7, <1>10, <2>1 DEF Expiring
<1>16. ASSUME NEW j \in ImportIds PROVE (Late(j) /\ Named(j))'
  <2>1. Late(j) /\ Named(j)
    BY Zenon, <1>16 DEF IInv, References
  <2>2. CASE j = i
    BY Zenon, <1>5, <2>1, <2>2 DEF Late, Named
  <2>3. CASE j # i
    <3>1. imports'[j] = imports[j]
      BY Zenon, <1>4, <1>16, <2>3
    <3>2. \A p \in ProfileIds : profiles[p].home = j => profiles'[p] = profiles[p]
      BY Zenon, <1>6, <2>3
    <3> QED BY Zenon, <2>1, <3>1, <3>2 DEF Late, Named, ProfileExists
  <2> QED BY Zenon, <2>2, <2>3
<1>17. ASSUME NEW j \in ImportIds PROVE KeyBound(j)'
  <2>1. KeyBound(j)
    BY Zenon, <1>17 DEF IInv, References
  <2>2. CASE j = i
    BY Zenon, <1>5, <2>2 DEF KeyBound
  <2>3. CASE j # i
    <3>1. imports'[j] = imports[j]
      BY Zenon, <1>4, <1>17, <2>3
    <3>2. \A o \in ops : o.route = "UPLOAD" /\ o.target = j => o \in ops'
      BY Zenon, <1>1, <2>3
    <3> QED BY Zenon, <2>1, <3>1, <3>2 DEF KeyBound, Terminal
  <2> QED BY Zenon, <2>2, <2>3
<1>18. KeysUnique'
  BY Zenon, <1>1 DEF IInv, References, KeysUnique
<1>19. ContentUnique'
  <2>1. ContentUnique
    BY Zenon DEF IInv, References
  <2> QED BY Zenon, <1>6, <2>1 DEF ContentUnique
<1>20. Targets'
  <2>1. ASSUME NEW o \in ops'
        PROVE  /\ o.route = "UPLOAD" => /\ o.target \in ImportIds /\ Exists(o.target)'
                                        /\ imports'[o.target].lifecycle # "VERIFIED"
               /\ o.route = "SIMULATED" =>
                      /\ o.target \in ProfileIds
                      /\ ~o.late => profiles'[o.target].state \in {"ACTIVE", "FENCED"}
    <3>1. /\ o \in ops
          /\ o.route = "UPLOAD" => o.target # i
          /\ o.route = "SIMULATED" => o.target \notin gone
      BY Zenon, <1>1, <2>1
    <3>2. Targets
      BY Zenon DEF IInv, References
    <3>3. CASE o.route = "UPLOAD"
      BY Zenon, <1>4, <3>1, <3>2, <3>3 DEF Targets, Exists
    <3>4. CASE o.route = "SIMULATED"
      BY <1>6, <3>1, <3>2, <3>4 DEF Targets
    <3> QED BY Zenon, <3>3, <3>4
  <2> QED BY Zenon, <2>1 DEF Targets
<1> QED BY Zenon, <1>9, <1>11, <1>12, <1>13, <1>14, <1>15, <1>16, <1>17, <1>18, <1>19, <1>20
           DEF IInv, Uploads, References

\* No operation names an import that is VERIFIED, so its row can go.
LEMMA CompleteImportKeeps ==
    ASSUME IInv, NEW i \in ImportIds, CompleteImport(i)
    PROVE  IInv'
<1> DEFINE new == [NoImport EXCEPT !.state = "DELETED"]
<1>1. /\ imports[i].lifecycle = "VERIFIED" /\ imports' = [imports EXCEPT ![i] = new]
      /\ UNCHANGED <<account, raw, objects, profiles, ops, client, worker, expirer, lost>>
  BY Zenon DEF CompleteImport
<1>2. /\ imports \in [ImportIds -> ImportRow] /\ profiles \in [ProfileIds -> ProfileRow]
      /\ account \in {"ACTIVE", "FENCED"}
  BY Zenon DEF IInv, Shapes
<1>3. /\ new \in ImportRow /\ new.state = "DELETED" /\ new.key = NULL
      /\ new.profile = NULL /\ new.late = FALSE
  BY Zenon DEF NoImport, ImportRow, Lifecycles
<1> HIDE DEF new
<1>4. /\ imports' \in [ImportIds -> ImportRow] /\ imports'[i] = new
      /\ \A j \in ImportIds : j # i => imports'[j] = imports[j]
  BY Zenon, <1>1, <1>2, <1>3
<1>5. imports[i].state # "NONE"
  BY Zenon, <1>1 DEF IInv, Uploads, Blank
<1>6. Shapes' /\ Uploads'
  <2>1. /\ \A j \in ImportIds : imports[j].state = "NONE" => imports'[j] = imports[j]
        /\ \A j \in ImportIds : imports[j].state # "NONE" => imports'[j].state # "NONE"
    BY Zenon, <1>3, <1>4, <1>5
  <2> QED BY Zenon, <1>1, <1>2, <1>4, <2>1, ImportRowsStep
<1>7. ASSUME NEW j \in ImportIds PROVE (Late(j) /\ Named(j) /\ KeyBound(j))'
  <2>1. CASE j = i
    <3>1. /\ imports'[j].state = "DELETED" /\ imports'[j].key = NULL
          /\ imports'[j].profile = NULL /\ imports'[j].late = FALSE
      BY Zenon, <1>3, <1>4, <2>1
    <3> QED BY Zenon, <3>1 DEF Late, Named, KeyBound
  <2>2. CASE j # i
    <3>1. Late(j) /\ Named(j) /\ KeyBound(j) /\ imports'[j] = imports[j]
      BY Zenon, <1>4, <1>7, <2>2 DEF IInv, References
    <3>2. Late(j)' /\ Named(j)'
      BY Zenon, <1>1, <3>1 DEF Late, Named, ProfileExists
    <3>3. KeyBound(j)'
      BY Zenon, <1>1, <3>1 DEF KeyBound, Terminal
    <3> QED BY Zenon, <3>2, <3>3
  <2> QED BY Zenon, <2>1, <2>2
<1>8. KeysUnique' /\ ContentUnique'
  BY Zenon, <1>1 DEF IInv, References, KeysUnique, ContentUnique, ProfileExists
<1>9. Targets'
  <2>1. Targets
    BY Zenon DEF IInv, References
  <2> QED BY <1>1, <1>4, <2>1 DEF Targets, Exists
<1> QED BY Zenon, <1>6, <1>7, <1>8, <1>9 DEF IInv, References

\* A fenced profile is still there for what names it.
LEMMA FenceProfileKeeps ==
    ASSUME IInv, NEW p \in ProfileIds, FenceProfile(p)
    PROVE  IInv'
<1>1. /\ profiles[p].state = "ACTIVE"
      /\ profiles' = [profiles EXCEPT ![p].state = "FENCED"]
      /\ UNCHANGED <<account, imports, raw, objects, ops, client, worker, expirer, lost>>
  BY Zenon DEF FenceProfile
<1>2. /\ imports \in [ImportIds -> ImportRow] /\ profiles \in [ProfileIds -> ProfileRow]
      /\ account \in {"ACTIVE", "FENCED"} /\ profiles[p] \in ProfileRow
  BY Zenon DEF IInv, Shapes
<1>3. /\ profiles'[p] = [profiles[p] EXCEPT !.state = "FENCED"]
      /\ \A q \in ProfileIds : q # p => profiles'[q] = profiles[q]
  BY Zenon, <1>1, <1>2
<1>4. /\ profiles'[p].state = "FENCED" /\ profiles'[p].hash = profiles[p].hash
      /\ profiles'[p].home = profiles[p].home /\ profiles'[p] \in ProfileRow
  BY <1>2, <1>3 DEF ProfileRow, Lifecycles
<1>5. /\ ProfileExists(p) /\ ProfileExists(p)'
      /\ \A q \in ProfileIds : /\ ProfileExists(q)' <=> ProfileExists(q)
                               /\ profiles'[q].hash = profiles[q].hash
                               /\ profiles'[q].home = profiles[q].home
  BY <1>1, <1>3, <1>4 DEF ProfileExists, Lifecycles
<1>6. Shapes' /\ Uploads'
  <2>1. profiles' \in [ProfileIds -> ProfileRow]
    BY Zenon, <1>1, <1>2, <1>3, <1>4
  <2> QED BY Zenon, <1>1, <1>2, <2>1, ImportRowsStep
<1>7. ASSUME NEW j \in ImportIds PROVE (Late(j) /\ Named(j) /\ KeyBound(j))'
  <2>1. Late(j) /\ Named(j) /\ KeyBound(j)
    BY Zenon, <1>7 DEF IInv, References
  <2>2. Late(j)' /\ Named(j)'
    BY Zenon, <1>1, <1>5, <2>1 DEF Late, Named
  <2>3. KeyBound(j)'
    BY Zenon, <1>1, <2>1 DEF KeyBound, Terminal
  <2> QED BY Zenon, <2>2, <2>3
<1>8. KeysUnique'
  BY Zenon, <1>1 DEF IInv, References, KeysUnique
<1>9. ContentUnique'
  BY Zenon, <1>5 DEF IInv, References, ContentUnique
<1>10. Targets'
  <2>1. Targets
    BY Zenon DEF IInv, References
  <2> QED BY <1>1, <1>3, <1>4, <2>1 DEF Targets, Exists
<1> QED BY Zenon, <1>6, <1>7, <1>8, <1>9, <1>10 DEF IInv, References

\* The operations that name the profile go before it does.
LEMMA VerifyProfileKeeps ==
    ASSUME IInv, NEW p \in ProfileIds, VerifyProfile(p)
    PROVE  IInv'
<1>1. /\ profiles[p].state = "FENCED"
      /\ profiles' = [profiles EXCEPT ![p].state = "VERIFIED"]
      /\ ops' = {o \in ops : ~(o.route = "SIMULATED" /\ o.target = p)}
      /\ UNCHANGED <<account, imports, raw, objects, client, worker, expirer, lost>>
  BY Zenon DEF VerifyProfile
<1>2. /\ imports \in [ImportIds -> ImportRow] /\ profiles \in [ProfileIds -> ProfileRow]
      /\ account \in {"ACTIVE", "FENCED"} /\ profiles[p] \in ProfileRow
  BY Zenon DEF IInv, Shapes
<1>3. /\ profiles'[p] = [profiles[p] EXCEPT !.state = "VERIFIED"]
      /\ \A q \in ProfileIds : q # p => profiles'[q] = profiles[q]
  BY Zenon, <1>1, <1>2
<1>4. /\ profiles'[p].state = "VERIFIED" /\ profiles'[p].hash = profiles[p].hash
      /\ profiles'[p].home = profiles[p].home /\ profiles'[p] \in ProfileRow
  BY <1>2, <1>3 DEF ProfileRow, Lifecycles
<1>5. /\ ProfileExists(p) /\ ProfileExists(p)'
      /\ \A q \in ProfileIds : /\ ProfileExists(q)' <=> ProfileExists(q)
                               /\ profiles'[q].hash = profiles[q].hash
                               /\ profiles'[q].home = profiles[q].home
  BY <1>1, <1>3, <1>4 DEF ProfileExists, Lifecycles
<1>6. Shapes' /\ Uploads'
  <2>1. profiles' \in [ProfileIds -> ProfileRow] /\ ops' \subseteq ops
    BY Zenon, <1>1, <1>2, <1>3, <1>4
  <2> QED BY Zenon, <1>1, <1>2, <2>1, ImportRowsStep
<1>7. ASSUME NEW j \in ImportIds PROVE (Late(j) /\ Named(j) /\ KeyBound(j))'
  <2>1. Late(j) /\ Named(j) /\ KeyBound(j)
    BY Zenon, <1>7 DEF IInv, References
  <2>2. Late(j)' /\ Named(j)'
    BY Zenon, <1>1, <1>5, <2>1 DEF Late, Named
  <2>3. \A o \in ops : o.route = "UPLOAD" => o \in ops'
    BY Zenon, <1>1
  <2>4. KeyBound(j)'
    BY Zenon, <1>1, <2>1, <2>3 DEF KeyBound, Terminal
  <2> QED BY Zenon, <2>2, <2>4
<1>8. KeysUnique'
  BY Zenon, <1>1 DEF IInv, References, KeysUnique
<1>9. ContentUnique'
  BY Zenon, <1>5 DEF IInv, References, ContentUnique
<1>10. Targets'
  <2>1. Targets
    BY Zenon DEF IInv, References
  <2> QED BY <1>1, <1>3, <2>1 DEF Targets, Exists
<1> QED BY Zenon, <1>6, <1>7, <1>8, <1>9, <1>10 DEF IInv, References

\* The import that the profile was made from is opened again; it was confirmed, and
\* so not late.
LEMMA CompleteProfileKeeps ==
    ASSUME IInv, NEW p \in ProfileIds, CompleteProfile(p)
    PROVE  IInv'
<1>1. /\ profiles[p].state = "VERIFIED"
      /\ profiles' = [profiles EXCEPT ![p].state = "DELETED"]
      /\ imports' = ImportWithoutProfile(p)
      /\ UNCHANGED <<account, raw, objects, ops, client, worker, expirer, lost>>
  BY Zenon DEF CompleteProfile
<1>2. /\ imports \in [ImportIds -> ImportRow] /\ profiles \in [ProfileIds -> ProfileRow]
      /\ account \in {"ACTIVE", "FENCED"} /\ profiles[p] \in ProfileRow
  BY Zenon DEF IInv, Shapes
<1>3. /\ profiles'[p] = [profiles[p] EXCEPT !.state = "DELETED"]
      /\ \A q \in ProfileIds : q # p => profiles'[q] = profiles[q]
  BY Zenon, <1>1, <1>2
<1>4. profiles'[p].state = "DELETED" /\ profiles'[p] \in ProfileRow
  BY <1>2, <1>3 DEF ProfileRow
<1>5. /\ ~ProfileExists(p)'
      /\ profiles' \in [ProfileIds -> ProfileRow]
  <2>1. ~ProfileExists(p)'
    BY <1>4 DEF ProfileExists, Lifecycles
  <2> QED BY Zenon, <1>1, <1>2, <1>3, <1>4, <2>1
<1>6. ASSUME NEW j \in ImportIds, profiles[p].home = j, imports[j].profile = p
      PROVE  /\ imports'[j] \in ImportRow
             /\ imports'[j].state = "READY" /\ imports'[j].profile = NULL
             /\ imports'[j].late = imports[j].late /\ ~imports[j].late
             /\ imports'[j].lifecycle = imports[j].lifecycle
             /\ imports[j].state = "CONFIRMED"
  <2>1. /\ imports[j] \in ImportRow
        /\ imports'[j] = [imports[j] EXCEPT !.profile = NULL, !.state = "READY",
                                            !.adopted = FALSE]
    BY Zenon, <1>1, <1>2, <1>6 DEF ImportWithoutProfile
  <2>2. /\ imports'[j].state = "READY" /\ imports'[j].profile = NULL
        /\ imports'[j].late = imports[j].late /\ imports'[j] \in ImportRow
        /\ imports'[j].lifecycle = imports[j].lifecycle
    BY Zenon, <2>1 DEF ImportRow
  <2>3. imports[j].profile # NULL
    BY Zenon, <1>6, ImportConstants
  <2>4. Late(j) /\ Named(j)
    BY Zenon, <1>6 DEF IInv, References
  <2>5. imports[j].state = "CONFIRMED" /\ ~imports[j].late
    BY Zenon, <2>3, <2>4 DEF Late, Named
  <2> QED BY Zenon, <2>2, <2>5
<1>7. ASSUME NEW j \in ImportIds, ~(profiles[p].home = j /\ imports[j].profile = p)
      PROVE  imports'[j] = imports[j]
  BY Zenon, <1>1, <1>7 DEF ImportWithoutProfile
<1>8. Shapes' /\ Uploads'
  <2>1. /\ \A j \in ImportIds : imports[j].state = "NONE" => imports'[j] = imports[j]
        /\ \A j \in ImportIds : imports[j].state # "NONE" => imports'[j].state # "NONE"
    BY Zenon, <1>6, <1>7
  <2>2. imports' \in [ImportIds -> ImportRow]
    <3>1. imports' = [j \in ImportIds |-> imports'[j]]
      BY Zenon, <1>1 DEF ImportWithoutProfile
    <3>2. ASSUME NEW j \in ImportIds PROVE imports'[j] \in ImportRow
      <4>1. CASE profiles[p].home = j /\ imports[j].profile = p
        BY Zenon, <1>6, <3>2, <4>1
      <4>2. CASE ~(profiles[p].home = j /\ imports[j].profile = p)
        BY Zenon, <1>2, <1>7, <3>2, <4>2
      <4> QED BY Zenon, <4>1, <4>2
    <3> QED BY Zenon, <3>1, <3>2
  <2> QED BY Zenon, <1>1, <1>2, <1>5, <2>1, <2>2, ImportRowsStep
<1>9. ASSUME NEW j \in ImportIds PROVE (Late(j) /\ Named(j) /\ KeyBound(j))'
  <2>1. CASE profiles[p].home = j /\ imports[j].profile = p
    <3>1. imports'[j].state = "READY" /\ imports'[j].profile = NULL /\ ~imports'[j].late
      BY Zenon, <1>6, <1>9, <2>1
    <3> QED BY Zenon, <3>1 DEF Late, Named, KeyBound, Terminal
  <2>2. CASE ~(profiles[p].home = j /\ imports[j].profile = p)
    <3>1. Late(j) /\ Named(j) /\ KeyBound(j) /\ imports'[j] = imports[j]
      BY Zenon, <1>7, <1>9, <2>2 DEF IInv, References
    <3>2. Late(j)' /\ Named(j)'
      BY Zenon, <1>3, <2>2, <3>1 DEF Late, Named, ProfileExists
    <3>3. KeyBound(j)'
      BY Zenon, <1>1, <3>1 DEF KeyBound, Terminal
    <3> QED BY Zenon, <3>2, <3>3
  <2> QED BY Zenon, <2>1, <2>2
<1>10. KeysUnique'
  BY Zenon, <1>1 DEF IInv, References, KeysUnique
<1>11. ContentUnique'
  <2>1. ContentUnique
    BY Zenon DEF IInv, References
  <2>2. \A q \in ProfileIds : ProfileExists(q)' => ProfileExists(q) /\ profiles'[q] = profiles[q]
    BY Zenon, <1>3, <1>5 DEF ProfileExists
  <2> QED BY Zenon, <2>1, <2>2 DEF ContentUnique
<1>12. Targets'
  <2>1. Targets
    BY Zenon DEF IInv, References
  <2>2. \A j \in ImportIds : /\ Exists(j) => Exists(j)'
                             /\ imports'[j].lifecycle = imports[j].lifecycle
    BY Zenon, <1>6, <1>7 DEF Exists
  <2> QED BY <1>1, <1>3, <2>1, <2>2 DEF Targets
<1> QED BY Zenon, <1>8, <1>9, <1>10, <1>11, <1>12 DEF IInv, References

-----------------------------------------------------------------------------
(* The theorems *)

\* Every step keeps the invariant.
LEMMA NextKeeps ==
    ASSUME IInv, [Next]_vars
    PROVE  IInv'
<1>1. ASSUME NEW c \in Clients, Request(c) \/ Serve(c) \/ Disturb(c) PROVE IInv'
  <2>1. CASE Request(c)
    BY Zenon, <1>1, <2>1, SubmitKeeps, InstallBeginKeeps, ConfirmBeginKeeps DEF Request
  <2>2. CASE Serve(c)
    BY Zenon, <1>1, <2>2, PutKeeps, RecordKeeps, DropKeeps, InstallCommitKeeps,
       ConfirmCommitKeeps, ConfirmDiscardKeeps, ConfirmDiscardedKeeps DEF Serve
  <2>3. CASE PutFails(c)
    BY Zenon, <1>1, <2>3, GiveUpKeeps DEF PutFails
  <2>4. CASE RecordUnanswered(c) \/ Crash(c)
    BY Zenon, <1>1, <2>4, RecordUnansweredKeeps, CrashKeeps
  <2> QED BY Zenon, <1>1, <2>1, <2>2, <2>3, <2>4 DEF Disturb
<1>2. ASSUME NEW i \in ImportIds, Lease(i) PROVE IInv'
  BY Zenon, <1>2, LeaseKeeps
<1>3. CASE Work
  BY Zenon, <1>3, OpenRawKeeps, PublishKeeps, FailKeeps DEF Work
<1>4. CASE Expire \/ ExpirerCrash
  BY Zenon, <1>4, ExpireMarkKeeps, ExpireDeleteKeeps, ExpireDeletedKeeps, ExpirerCrashKeeps
     DEF Expire
<1>5. CASE Delete
  BY Zenon, <1>5, FenceAccountKeeps, FenceImportKeeps, VerifyImportKeeps, CompleteImportKeeps,
     FenceProfileKeeps, VerifyProfileKeeps, CompleteProfileKeeps DEF Delete
<1>6. ASSUME NEW o \in ops, ExpireOperation(o) PROVE IInv'
  BY Zenon, <1>6, ExpireOperationKeeps
<1>7. CASE UNCHANGED vars
  <2>1. UNCHANGED <<account, imports, raw, objects, profiles, ops, client, worker, expirer, lost>>
    BY Zenon, <1>7 DEF vars
  <2>2. worker \in [at : {"idle", "open", "publish"}, id : ImportIds \cup {NULL}]
    BY Zenon DEF IInv, Shapes
  <2>3. Working'
    BY Zenon, <2>1 DEF IInv, Uploads, Working
  <2> QED BY Zenon, <2>1, <2>2, <2>3, WorkerStepKeeps
<1> QED BY Zenon, <1>1, <1>2, <1>3, <1>4, <1>5, <1>6, <1>7 DEF Next

\* In every reachable state the two halves of the invariant hold.
THEOREM Inductive == Spec => []IInv
<1>1. IInv /\ [Next]_vars => IInv'
  BY Zenon, NextKeeps
<1> QED BY InitHolds, <1>1, PTL DEF Spec

\* An upload whose row is AVAILABLE is stored and a stored upload is tracked, for
\* any number of requests at once and any number of crashes (submit, confirm,
\* expire_raw_objects); keys and contents are unique.
THEOREM UploadsAreTracked == Spec => []UploadsTracked
<1>1. IInv => UploadsTracked
  <2> SUFFICES ASSUME IInv PROVE UploadsTracked
    OBVIOUS
  <2>1. TypeOK
    <3>1. \A p \in ProfileIds : profiles[p].state \in Lifecycles \cup {"NONE", "DELETED"}
      BY Zenon DEF IInv, Shapes, ProfileRow
    <3>2. \A h \in Hashes : \A p, q \in ByHash(h) : p = q
      BY Zenon DEF IInv, References, ContentUnique, ByHash
    <3>3. \A o1, o2 \in ops : o1.route = o2.route /\ o1.key = o2.key => o1 = o2
      BY Zenon DEF IInv, References, KeysUnique
    <3>4. /\ account \in {"ACTIVE", "FENCED"} /\ imports \in [ImportIds -> ImportRow]
          /\ raw \in [ImportIds -> {"NONE", "AVAILABLE", "DELETE_PENDING", "DELETED"}]
          /\ objects \subseteq ImportIds
      BY Zenon DEF IInv, Shapes
    <3> QED BY Zenon, <3>1, <3>2, <3>3, <3>4 DEF TypeOK
  <2>2. AvailableIsStored /\ StoredIsTracked
    BY Zenon DEF IInv, Shapes, Uploads, Stored, Tracked, AvailableIsStored, StoredIsTracked
  <2> QED BY Zenon, <2>1, <2>2 DEF UploadsTracked
<1> QED BY <1>1, Inductive, PTL

\* A key has one live import, a confirmed import its profile, and an idempotency
\* record the row it answers with (submit, confirm, install_simulated_profile, VERIFY).
THEOREM ReferencesAreResolved == Spec => []ReferencesResolve
<1>1. IInv => ReferencesResolve
  <2> SUFFICES ASSUME IInv PROVE ReferencesResolve
    OBVIOUS
  <2>1. OneLiveImportPerKey
    <3> SUFFICES ASSUME NEW i \in ImportIds, NEW j \in ImportIds,
                        imports[i].key # NULL, imports[i].key = imports[j].key,
                        imports[i].lifecycle = "ACTIVE", imports[j].lifecycle = "ACTIVE",
                        ~Terminal(i), ~Terminal(j)
                 PROVE  i = j
      BY Zenon DEF OneLiveImportPerKey
    <3>1. PICK o \in ops : o.route = "UPLOAD" /\ o.key = imports[i].key /\ o.target = i
      BY Zenon DEF IInv, References, KeyBound
    <3>2. PICK q \in ops : q.route = "UPLOAD" /\ q.key = imports[j].key /\ q.target = j
      BY Zenon DEF IInv, References, KeyBound
    <3>3. o = q
      BY Zenon, <3>1, <3>2 DEF IInv, References, KeysUnique
    <3> QED BY Zenon, <3>1, <3>2, <3>3
  <2>2. ConfirmedNamesProfile
    BY Zenon DEF IInv, References, Named, ConfirmedNamesProfile
  <2>3. OperationNamesResult
    <3>1. \A o \in ops : o.route \in {"UPLOAD", "SIMULATED"}
      BY DEF IInv, Shapes, OperationRow
    <3>2. Targets
      BY Zenon DEF IInv, References
    <3> QED BY Zenon, <3>1, <3>2 DEF Targets, OperationNamesResult, ProfileExists, Lifecycles
  <2> QED BY Zenon, <2>1, <2>2, <2>3 DEF ReferencesResolve
<1> QED BY <1>1, Inductive, PTL

\* An import that was recorded after the fence of its account stays queued
\* (_record_submission, lease_next).
THEOREM LateNeverReady == Spec => []LateImportNeverReady
<1>1. IInv => LateImportNeverReady
  BY Zenon DEF IInv, References, Late, LateImportNeverReady
<1> QED BY <1>1, Inductive, PTL
=============================================================================
