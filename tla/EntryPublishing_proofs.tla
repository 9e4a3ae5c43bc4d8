------------------------ MODULE EntryPublishing_proofs ------------------------
(***************************************************************************)
(* What EntryPublishing guarantees for every set of entries and clients:   *)
(* type correctness, the derived status, and that the published pointer    *)
(* parts from the read model only through a save of a stale aggregate.     *)
(* And what the indexes that follow its events guarantee (EventFanOut):    *)
(* search finds what is served, and a reindex reaches every entry.         *)
(***************************************************************************)
EXTENDS EntryPublishing, EventFanOut, FiniteSetTheorems, WellFoundedInduction, TLAPS

(***************************************************************************)
(* Type correctness.                                                       *)
(***************************************************************************)
LEMMA IdleType == Idle \in Request
  BY DEF Idle, Request, Row, NoRow, Step

LEMMA ReadType ==
  ASSUME entry \in [Entries -> Row], NEW c \in Clients, NEW step \in Step,
         NEW E \in SUBSET Entries, NEW batch \in BOOLEAN
  PROVE  Read(c, step, E, batch) \in Request
  BY DEF Read, Idle, Request, Row, NoRow, Step

\* Changing fields of a request within their types keeps it a request.
LEMMA StepType ==
  ASSUME NEW r \in Request, NEW step \in Step
  PROVE  [r EXCEPT !.step = step] \in Request
  BY DEF Request

LEMMA AtType ==
  ASSUME NEW r \in Request, NEW at \in Nat
  PROVE  [r EXCEPT !.at = at] \in Request
  BY DEF Request

LEMMA PublishType ==
  ASSUME NEW r \in Request, NEW step \in Step, NEW E \in SUBSET Entries,
         NEW f \in [Entries -> Nat], NEW at \in Nat, NEW st \in SUBSET Entries
  PROVE  [r EXCEPT !.step = step, !.items = E, !.fields = f, !.at = at,
                   !.stale = st] \in Request
  BY DEF Request

LEMMA RowOperators ==
  ASSUME NEW r \in Row
  PROVE  saveDraft(r) \in Row /\ publish(r) \in Row /\ unpublish(r) \in Row
<1>1. saveDraft(r) \in Row
  <2>1. deriveStatus(r.currentVersion + 1, r.publishedVersion)
          \in {"draft", "changed", "published"}
    BY DEF deriveStatus
  <2>2. r.currentVersion + 1 \in Nat /\ r.publishedVersion \in Nat
    BY DEF Row
  <2> QED BY <2>1, <2>2 DEF Row, saveDraft
<1>2. publish(r) \in Row
  BY DEF Row, publish
<1>3. unpublish(r) \in Row
  BY DEF Row, unpublish
<1> QED BY <1>1, <1>2, <1>3

LEMMA OverwriteType ==
  ASSUME TypeOK, NEW c \in Clients, NEW next \in Request, NEW E \in SUBSET Entries,
         NEW overtaken, NEW fault \in Fault, Overwrite(c, next, E, overtaken, fault)
  PROVE  request' \in [Clients -> Request] /\ taint' \in [Entries -> SUBSET Fault]
<1>1. request' \in [Clients -> Request]
  <2>1. ASSUME NEW d \in Clients
        PROVE  [request[d] EXCEPT !.stale = @ \union (E \intersect request[d].items)] \in Request
    BY DEF TypeOK, Request
  <2> QED BY <2>1 DEF Overwrite, TypeOK
<1>2. taint' \in [Entries -> SUBSET Fault]
  BY DEF Overwrite, TypeOK
<1> QED BY <1>1, <1>2

LEMMA AnnounceType ==
  ASSUME TypeOK, NEW r \in Request,
         NEW type \in {"entry.published", "entry.unpublished"},
         NEW snapshot, \A e \in r.items : snapshot[e] \in Snapshot,
         Announce(r, type, snapshot)
  PROVE  outbox' \subseteq Event /\ clock' \in Nat
  BY DEF TypeOK, Announce, Event, Snapshot, Request

LEMMA TypeInit == Init => TypeOK
  BY IdleType DEF Init, TypeOK, Row, NoRow, Snapshot, NoSnapshot

LEMMA TypeStep == TypeOK /\ [Next]_vars => TypeOK'
<1> SUFFICES ASSUME TypeOK, [Next]_vars PROVE TypeOK'
  OBVIOUS
<1> USE DEF TypeOK
<1>1. ASSUME NEW c \in Clients, NEW e \in Entries, BeginCreate(c, e) PROVE TypeOK'
  BY <1>1, ReadType DEF BeginCreate, Step
<1>2. ASSUME NEW c \in Clients, NEW e \in Entries, InsertEntry(c, e) PROVE TypeOK'
  <2>1. [request[c] EXCEPT !.step = "insertFirstVersion"] \in Request
    BY StepType DEF Step
  <2>2. NewRow \in Row
    BY DEF Row, NewRow
  <2>3. request' \in [Clients -> Request] /\ entry' \in [Entries -> Row]
    BY <1>2, <2>1, <2>2, IdleType DEF InsertEntry
  <2> QED BY <1>2, <2>3 DEF InsertEntry
<1>3. ASSUME NEW c \in Clients, NEW e \in Entries, InsertFirstVersion(c, e) PROVE TypeOK'
  BY <1>3, IdleType DEF InsertFirstVersion
<1>4. ASSUME NEW c \in Clients, NEW e \in Entries, BeginUpdate(c, e) PROVE TypeOK'
  BY <1>4, ReadType DEF BeginUpdate, Step
<1>5. ASSUME NEW c \in Clients, NEW e \in Entries, InsertVersion(c, e) PROVE TypeOK'
  <2>1. [request[c] EXCEPT !.step = "saveAggregate"] \in Request
    BY StepType DEF Step
  <2>2. request[c].found[e].currentVersion + 1 \in Nat
    BY DEF Request, Row
  <2> QED BY <1>5, <2>1, <2>2, IdleType DEF InsertVersion
<1>6. ASSUME NEW c \in Clients, NEW e \in Entries, SaveAggregate(c, e) PROVE TypeOK'
  <2>1. request[c].found[e] \in Row
    BY DEF Request
  <2>2. request' \in [Clients -> Request] /\ taint' \in [Entries -> SUBSET Fault]
    BY <1>6, IdleType, OverwriteType DEF SaveAggregate, Fault
  <2> QED BY <1>6, <2>1, <2>2, RowOperators DEF SaveAggregate
<1>7. ASSUME NEW c \in Clients, NEW E \in SUBSET Entries, NEW batch \in Batching,
             BeginPublish(c, E, batch)
      PROVE  TypeOK'
  BY <1>7, ReadType, BatchingAssumption DEF BeginPublish, Step
<1>8. ASSUME NEW c \in Clients, ReadFields(c) PROVE TypeOK'
  <2> DEFINE r == request[c]
             f == [e \in Entries |-> IF e \in r.items THEN FieldsOf(r.found[e], e) ELSE 0]
             p == Publishable(r, f)
  <2>1. r \in Request
    OBVIOUS
  <2>2. f \in [Entries -> Nat]
    BY <2>1 DEF FieldsOf, Request, Row
  <2>3. p \in SUBSET Entries
    BY <2>1 DEF Publishable, Request
  <2>4. [r EXCEPT !.step = "publish", !.items = p, !.fields = f,
                  !.at = IF r.batch THEN clock + 1 ELSE 0,
                  !.stale = @ \intersect p] \in Request
    <3> HIDE DEF p, f
    <3>1. (IF r.batch THEN clock + 1 ELSE 0) \in Nat /\ "publish" \in Step
      BY DEF Step
    <3>2. r.stale \intersect p \in SUBSET Entries
      BY <2>3
    <3> QED BY <2>1, <2>2, <2>3, <3>1, <3>2, PublishType
  <2> HIDE DEF f, p
  <2>5. request' \in [Clients -> Request] /\ clock' \in Nat
    BY <1>8, <2>4, IdleType DEF ReadFields, f, p
  <2> QED BY <1>8, <2>5 DEF ReadFields
<1>9. ASSUME NEW c \in Clients, CommitPublish(c) PROVE TypeOK'
  <2> DEFINE r == request[c]
             s == [e \in r.items |-> [version |-> r.found[e].currentVersion,
                                      fields  |-> r.fields[e]]]
  <2>1. r \in Request /\ r.items \in SUBSET Entries
    BY DEF Request
  <2>2. \A e \in r.items : s[e] \in Snapshot
    BY <2>1 DEF Snapshot, Request, Row
  <2>3. \A e \in r.items : publish(r.found[e]) \in Row
    BY <2>1, RowOperators DEF Request
  <2>4. \A e \in r.items : extractReferences(r.fields[e], e) \in SUBSET Entries
    BY <2>1, LinksAssumption DEF extractReferences
  <2>5. request' \in [Clients -> Request] /\ taint' \in [Entries -> SUBSET Fault]
    BY <1>9, <2>1, IdleType, OverwriteType DEF CommitPublish, Fault
  <2>6. outbox' \subseteq Event /\ clock' \in Nat
    BY <1>9, <2>1, <2>2, AnnounceType DEF CommitPublish
  <2>7. entry' \in [Entries -> Row] /\ published' \in [Entries -> Snapshot]
        /\ references' \in [Entries -> SUBSET Entries]
    BY <1>9, <2>2, <2>3, <2>4 DEF CommitPublish
  <2> QED BY <1>9, <2>5, <2>6, <2>7 DEF CommitPublish
<1>10. ASSUME NEW c \in Clients, NEW E \in SUBSET Entries, NEW batch \in Batching,
              BeginUnpublish(c, E, batch)
       PROVE  TypeOK'
  <2> DEFINE w == {e \in E : entry[e].publishedVersion > 0}
             q == Read(c, "unpublish", w, batch)
  <2>1. q \in Request
    BY ReadType, BatchingAssumption DEF Step
  <2> HIDE DEF q
  <2>2. [q EXCEPT !.at = IF batch THEN clock + 1 ELSE 0] \in Request
    <3>1. (IF batch THEN clock + 1 ELSE 0) \in Nat
      OBVIOUS
    <3> QED BY <2>1, <3>1, AtType
  <2> QED BY <1>10, <2>2 DEF BeginUnpublish, q
<1>11. ASSUME NEW c \in Clients, CommitUnpublish(c) PROVE TypeOK'
  <2> DEFINE r == request[c]
             s == [e \in r.items |-> NoSnapshot]
  <2>1. r \in Request /\ r.items \in SUBSET Entries
    BY DEF Request
  <2>2. NoSnapshot \in Snapshot /\ \A e \in r.items : s[e] \in Snapshot
    BY DEF Snapshot, NoSnapshot
  <2>3. \A e \in r.items : unpublish(r.found[e]) \in Row
    BY <2>1, RowOperators DEF Request
  <2>4. request' \in [Clients -> Request] /\ taint' \in [Entries -> SUBSET Fault]
    BY <1>11, <2>1, IdleType, OverwriteType DEF CommitUnpublish, Fault
  <2>5. outbox' \subseteq Event /\ clock' \in Nat
    BY <1>11, <2>1, <2>2, AnnounceType DEF CommitUnpublish
  <2> QED BY <1>11, <2>2, <2>3, <2>4, <2>5 DEF CommitUnpublish
<1>12. ASSUME NEW c \in Clients, Crash(c) PROVE TypeOK'
  BY <1>12, IdleType DEF Crash, Fault
<1>13. CASE UNCHANGED vars
  BY <1>13 DEF vars
<1> QED
  BY <1>1, <1>2, <1>3, <1>4, <1>5, <1>6, <1>7, <1>8, <1>9, <1>10, <1>11, <1>12, <1>13
     DEF Next, Save, Publish

\* Every reachable state is well typed.
THEOREM TypeCorrect == Spec => []TypeOK
  BY TypeInit, TypeStep, PTL DEF Spec

(***************************************************************************)
(* The derived status.  Every writer computes a row from a row it read, so *)
(* it is enough that the copies in flight are consistent as well.          *)
(***************************************************************************)
Consistent(row) ==
  /\ row.publishedVersion <= row.currentVersion
  /\ row.currentVersion > 0 =>
       row.status = deriveStatus(row.currentVersion, row.publishedVersion)

RowsConsistent == \A e \in Entries : Consistent(entry[e])
CopiesConsistent == \A c \in Clients, e \in Entries : Consistent(request[c].found[e])

LEMMA ConsistentOperators ==
  ASSUME NEW r \in Row, Consistent(r)
  PROVE  Consistent(saveDraft(r)) /\ Consistent(publish(r)) /\ Consistent(unpublish(r))
  BY DEF Row, Consistent, saveDraft, publish, unpublish, deriveStatus

LEMMA ConsistentNew == Consistent(NoRow) /\ Consistent(NewRow)
  BY DEF Consistent, NoRow, NewRow, deriveStatus

\* The copies a step leaves are the ones it finds, those of the rows as they are,
\* or none.
LEMMA CopiesStep ==
  ASSUME TypeOK, RowsConsistent, CopiesConsistent, [Next]_vars
  PROVE  CopiesConsistent'
<1> DEFINE RowsOf(E) == [e \in Entries |-> IF e \in E THEN entry[e] ELSE NoRow]
<1>1. SUFFICES ASSUME NEW c \in Clients
               PROVE  \E E : request'[c].found \in
                        {request[c].found, Idle.found, RowsOf(E)}
  BY ConsistentNew DEF CopiesConsistent, RowsConsistent, Idle
<1> USE DEF TypeOK
<1>2. \A d, E, step, b : Read(d, step, E, b).found = RowsOf(E)
  BY DEF Read, Idle
<1>3. ASSUME NEW d \in Clients, NEW next, request' = [request EXCEPT ![d] = next]
      PROVE  request'[c].found = IF d = c THEN next.found ELSE request[c].found
  BY <1>3
<1>4. ASSUME NEW d \in Clients, NEW next, NEW E, NEW o, NEW fault,
             Overwrite(d, next, E, o, fault)
      PROVE  request'[c].found = IF d = c THEN next.found ELSE request[c].found
  <2>1. \A st : [request[c] EXCEPT !.stale = st].found = request[c].found
    BY DEF Request
  <2> QED BY <1>4, <2>1 DEF Overwrite
<1> HIDE DEF RowsOf
<1>5. ASSUME NEW d \in Clients, NEW e \in Entries, BeginCreate(d, e) \/ BeginUpdate(d, e)
      PROVE  request'[c].found \in {request[c].found, RowsOf({e})}
  <2>1. PICK next : request' = [request EXCEPT ![d] = next] /\ next.found = RowsOf({e})
    <3>1. CASE BeginCreate(d, e)
      BY <3>1, <1>2 DEF BeginCreate
    <3>2. CASE BeginUpdate(d, e)
      BY <3>2, <1>2 DEF BeginUpdate
    <3> QED BY <1>5, <3>1, <3>2
  <2> QED BY <2>1, <1>3
<1>6. ASSUME NEW d \in Clients, NEW e \in Entries,
             InsertEntry(d, e) \/ InsertFirstVersion(d, e) \/ InsertVersion(d, e)
      PROVE  request'[c].found \in {request[c].found, Idle.found}
  <2>1. \A s : [request[d] EXCEPT !.step = s].found = request[d].found
    BY DEF Request
  <2>2. PICK s : request' \in {[request EXCEPT ![d] = Idle],
                               [request EXCEPT ![d] = [request[d] EXCEPT !.step = s]]}
    BY <1>6 DEF InsertEntry, InsertFirstVersion, InsertVersion
  <2> QED BY <2>1, <2>2, <1>3
<1>7. ASSUME NEW d \in Clients,
             \/ \E e \in Entries : SaveAggregate(d, e)
             \/ CommitPublish(d) \/ CommitUnpublish(d)
      PROVE  request'[c].found \in {request[c].found, Idle.found}
  BY <1>4, <1>7 DEF SaveAggregate, CommitPublish, CommitUnpublish
<1>8. ASSUME NEW d \in Clients, NEW E \in SUBSET Entries, NEW b \in Batching,
             BeginPublish(d, E, b)
      PROVE  request'[c].found \in {request[c].found, RowsOf(E)}
  BY <1>2, <1>3, <1>8 DEF BeginPublish
<1>9. ASSUME NEW d \in Clients, NEW E \in SUBSET Entries, NEW b \in Batching,
             BeginUnpublish(d, E, b)
      PROVE  \E S : request'[c].found \in {request[c].found, RowsOf(S)}
  <2> DEFINE w == {e \in E : entry[e].publishedVersion > 0}
             q == Read(d, "unpublish", w, b)
             at == IF b THEN clock + 1 ELSE 0
  <2>1. w \in SUBSET Entries /\ q \in Request
    BY ReadType, BatchingAssumption DEF Step
  <2>2. request' = [request EXCEPT ![d] = [q EXCEPT !.at = at]]
    BY <1>9 DEF BeginUnpublish
  <2>3. q.found = RowsOf(w)
    BY <1>2
  <2> HIDE DEF q, w, at
  <2>4. [q EXCEPT !.at = at].found = q.found
    BY <2>1 DEF Request
  <2> QED BY <2>1, <2>2, <2>3, <2>4, <1>3
<1>10. ASSUME NEW d \in Clients, ReadFields(d)
       PROVE  request'[c].found \in {request[c].found, Idle.found}
  <2>1. PICK next : /\ request' = [request EXCEPT ![d] = next]
                    /\ next.found \in {request[d].found, Idle.found}
    <3> DEFINE r == request[d]
               f == [e \in Entries |-> IF e \in r.items THEN FieldsOf(r.found[e], e) ELSE 0]
               p == Publishable(r, f)
               read == [r EXCEPT !.step = "publish", !.items = p, !.fields = f,
                                 !.at = IF r.batch THEN clock + 1 ELSE 0,
                                 !.stale = @ \intersect p]
    <3>1. read.found = r.found
      BY DEF Request
    <3>2. \/ request' = [request EXCEPT ![d] = Idle]
          \/ request' = [request EXCEPT ![d] = read]
      BY <1>10 DEF ReadFields
    <3> HIDE DEF read
    <3> QED BY <3>1, <3>2
  <2> QED BY <2>1, <1>3
<1>11. ASSUME NEW d \in Clients, Crash(d)
       PROVE  request'[c].found \in {request[c].found, Idle.found}
  BY <1>3, <1>11 DEF Crash
<1>12. CASE UNCHANGED vars
  BY <1>12 DEF vars
<1> QED
  BY <1>5, <1>6, <1>7, <1>8, <1>9, <1>10, <1>11, <1>12 DEF Next, Save, Publish

LEMMA RowsStep ==
  ASSUME TypeOK, RowsConsistent, CopiesConsistent, [Next]_vars
  PROVE  RowsConsistent'
<1> USE DEF TypeOK, RowsConsistent
<1>1. ASSUME NEW c \in Clients, NEW e \in Entries, InsertEntry(c, e)
      PROVE  RowsConsistent'
  BY <1>1, ConsistentNew DEF InsertEntry
<1>2. ASSUME NEW c \in Clients, NEW e \in Entries, SaveAggregate(c, e)
      PROVE  RowsConsistent'
  <2>1. request[c].found[e] \in Row /\ Consistent(request[c].found[e])
    BY DEF CopiesConsistent, Request
  <2> QED BY <1>2, <2>1, ConsistentOperators DEF SaveAggregate
<1>3. ASSUME NEW c \in Clients, CommitPublish(c) \/ CommitUnpublish(c)
      PROVE  RowsConsistent'
  <2>1. \A e \in Entries : request[c].found[e] \in Row /\ Consistent(request[c].found[e])
    BY DEF CopiesConsistent, Request
  <2> QED BY <1>3, <2>1, ConsistentOperators DEF CommitPublish, CommitUnpublish
<1>4. ASSUME UNCHANGED entry PROVE RowsConsistent'
  BY <1>4
<1> QED
  <2>1. ASSUME NEW c \in Clients, NEW e \in Entries,
               BeginCreate(c, e) \/ InsertFirstVersion(c, e) \/ BeginUpdate(c, e) \/ InsertVersion(c, e)
        PROVE  entry' = entry
    BY <2>1 DEF BeginCreate, InsertFirstVersion, BeginUpdate, InsertVersion
  <2>2. ASSUME NEW c \in Clients, Publish(c) PROVE entry' = entry \/ CommitPublish(c) \/ CommitUnpublish(c)
    BY <2>2 DEF Publish, BeginPublish, BeginUnpublish, ReadFields
  <2>3. ASSUME NEW c \in Clients, Crash(c) PROVE entry' = entry
    BY <2>3 DEF Crash
  <2>4. CASE UNCHANGED vars
    BY <1>4, <2>4 DEF vars
  <2>5. ASSUME NEW c \in Clients, Save(c) PROVE RowsConsistent'
    BY <1>1, <1>2, <1>4, <2>1, <2>5 DEF Save
  <2> QED BY <1>3, <1>4, <2>2, <2>3, <2>4, <2>5 DEF Next

\* However stale the copies that are written back, the stored status is the one
\* deriveStatus computes from the two pointers.
THEOREM StatusAlwaysDerived == Spec => []StatusIsDerived
<1> DEFINE I == TypeOK /\ RowsConsistent /\ CopiesConsistent
<1>1. Init => I
  BY TypeInit, ConsistentNew DEF Init, RowsConsistent, CopiesConsistent, Idle
<1>2. I /\ [Next]_vars => I'
  BY TypeStep, RowsStep, CopiesStep
<1>3. I => StatusIsDerived
  BY DEF RowsConsistent, Consistent, StatusIsDerived, Exists
<1> QED BY <1>1, <1>2, <1>3, PTL DEF Spec

(***************************************************************************)
(* The published pointer.  A save that has not been overtaken writes back  *)
(* the pointer the row still has; a publish or an unpublish writes pointer *)
(* and read model together, and makes every save in flight stale.          *)
(***************************************************************************)
FreshCopies ==
  \A c \in Clients : request[c].step \in SaveSteps =>
    \A e \in request[c].items \ request[c].stale :
      "staleSave" \notin taint[e] =>
        request[c].found[e].publishedVersion = entry[e].publishedVersion

PointerInv == TypeOK /\ RowsConsistent /\ CopiesConsistent
              /\ PointerMatchesReadModel /\ FreshCopies

\* Requests that do not touch the pointers or the faults keep both conjuncts when
\* their own copies, if they are saving, are the rows as they are.
LEMMA QuietStep ==
  ASSUME PointerInv, NEW c \in Clients, NEW next \in Request,
         request' = [request EXCEPT ![c] = next],
         \/ next.step \notin SaveSteps
         \/ next.found = request[c].found /\ next.items = request[c].items
            /\ next.stale = request[c].stale /\ request[c].step \in SaveSteps
         \/ \A e \in next.items : next.found[e] = entry[e],
         \A e \in Entries : entry'[e].publishedVersion = entry[e].publishedVersion,
         published' = published, taint' = taint
  PROVE  PointerMatchesReadModel' /\ FreshCopies'
<1>1. PointerMatchesReadModel'
  BY DEF PointerInv, PointerMatchesReadModel
<1>2. ASSUME NEW d \in Clients, request'[d].step \in SaveSteps,
             NEW e \in request'[d].items \ request'[d].stale, "staleSave" \notin taint'[e]
      PROVE  request'[d].found[e].publishedVersion = entry'[e].publishedVersion
  <2>1. request'[d] = IF d = c THEN next ELSE request[d]
    BY DEF PointerInv, TypeOK
  <2>2. request[d] \in Request /\ e \in Entries
    BY <1>2, <2>1 DEF PointerInv, TypeOK, Request
  <2> QED BY <1>2, <2>1, <2>2 DEF PointerInv, FreshCopies
<1> QED BY <1>1, <1>2 DEF FreshCopies

\* A commit of the publishing side: every save holding a copy of E is made stale.
LEMMA CommitStep ==
  ASSUME PointerInv, NEW c \in Clients, NEW E \in SUBSET Entries,
         Overwrite(c, Idle, E, SaveSteps, "stalePublish"),
         \A e \in E : entry'[e].publishedVersion = published'[e].version,
         \A e \in Entries \ E : entry'[e] = entry[e] /\ published'[e] = published[e]
  PROVE  PointerMatchesReadModel' /\ FreshCopies'
<1>1. \A e \in Entries : "staleSave" \in taint'[e] <=> "staleSave" \in taint[e]
  BY DEF Overwrite
<1>2. PointerMatchesReadModel'
  BY <1>1 DEF PointerInv, PointerMatchesReadModel
<1>3. ASSUME NEW d \in Clients, request'[d].step \in SaveSteps,
             NEW e \in request'[d].items \ request'[d].stale, "staleSave" \notin taint'[e]
      PROVE  request'[d].found[e].publishedVersion = entry'[e].publishedVersion
  <2>1. d # c
    BY <1>3 DEF Overwrite, Idle, SaveSteps
  <2>2. request[d] \in Request
    BY DEF PointerInv, TypeOK
  <2> DEFINE r == [request[d] EXCEPT !.stale = @ \union (E \intersect request[d].items)]
  <2>3. /\ r.step = request[d].step /\ r.items = request[d].items
        /\ r.found = request[d].found
        /\ r.stale = request[d].stale \union (E \intersect request[d].items)
    BY <2>2 DEF Request
  <2> HIDE DEF r
  <2>4. request[d].step \in SaveSteps /\ request'[d] = r
    BY <1>3, <2>1, <2>3 DEF Overwrite, r
  <2>5. e \in Entries \ E /\ e \in request[d].items \ request[d].stale
    BY <1>3, <2>2, <2>3, <2>4 DEF Request
  <2> QED BY <1>1, <1>3, <2>3, <2>4, <2>5 DEF PointerInv, FreshCopies
<1> QED BY <1>2, <1>3 DEF FreshCopies

\* A save.  A stale one is recorded as a fault of its entry; the other writes the
\* pointer back as it is.
LEMMA SaveStep ==
  ASSUME PointerInv, NEW c \in Clients, NEW e \in Entries, SaveAggregate(c, e)
  PROVE  PointerMatchesReadModel' /\ FreshCopies'
<1> USE DEF PointerInv, TypeOK
<1>1. /\ request[c].step \in SaveSteps /\ request[c].items = {e}
      /\ entry' = [entry EXCEPT ![e] = saveDraft(request[c].found[e])]
      /\ published' = published
      /\ Overwrite(c, Idle, {e}, PublishSteps, "staleSave")
  BY DEF SaveAggregate, SaveSteps
<1>2. \A x \in Entries : "staleSave" \in taint[x] => "staleSave" \in taint'[x]
  BY <1>1 DEF Overwrite
<1>3. e \in request[c].stale => "staleSave" \in taint'[e]
  BY <1>1 DEF Overwrite
<1>4. entry'[e].publishedVersion = request[c].found[e].publishedVersion
  BY <1>1 DEF saveDraft
<1>5. ASSUME NEW x \in Entries, "staleSave" \notin taint'[x]
      PROVE  entry'[x].publishedVersion = entry[x].publishedVersion
  BY <1>1, <1>2, <1>3, <1>4, <1>5 DEF FreshCopies
<1>6. PointerMatchesReadModel'
  BY <1>1, <1>2, <1>5 DEF PointerMatchesReadModel
<1>7. ASSUME NEW d \in Clients, request'[d].step \in SaveSteps,
             NEW x \in request'[d].items \ request'[d].stale, "staleSave" \notin taint'[x]
      PROVE  request'[d].found[x].publishedVersion = entry'[x].publishedVersion
  <2>1. d # c
    BY <1>1, <1>7 DEF Overwrite, Idle, SaveSteps
  <2>2. \A st : [request[d] EXCEPT !.stale = st].step = request[d].step
    BY DEF Request
  <2>3. SaveSteps \intersect PublishSteps = {}
    BY DEF SaveSteps, PublishSteps
  <2>4. request'[d] = request[d]
    BY <1>1, <1>7, <2>1, <2>2, <2>3 DEF Overwrite
  <2>5. x \in Entries
    BY <1>7, <2>4 DEF Request
  <2> QED BY <1>2, <1>5, <1>7, <2>4, <2>5 DEF FreshCopies
<1> QED BY <1>6, <1>7 DEF FreshCopies

LEMMA PointerStep == PointerInv /\ [Next]_vars => PointerMatchesReadModel' /\ FreshCopies'
<1> SUFFICES ASSUME PointerInv, [Next]_vars
             PROVE  PointerMatchesReadModel' /\ FreshCopies'
  OBVIOUS
<1> DEFINE Goal == PointerMatchesReadModel' /\ FreshCopies'
<1> USE DEF PointerInv, TypeOK
<1>1. Idle \in Request /\ Idle.step \notin SaveSteps
  BY IdleType DEF Idle, SaveSteps
<1>2. ASSUME NEW c \in Clients, NEW e \in Entries, NEW step \in Step,
             request' = [request EXCEPT ![c] = Read(c, step, {e}, FALSE)],
             UNCHANGED <<entry, published, taint>>
      PROVE  Goal
  <2>1. Read(c, step, {e}, FALSE) \in Request
    BY ReadType
  <2>2. \A x \in Read(c, step, {e}, FALSE).items : Read(c, step, {e}, FALSE).found[x] = entry[x]
    BY DEF Read, Idle
  <2> QED BY <1>2, <2>1, <2>2, QuietStep
<1>3. ASSUME NEW c \in Clients, NEW e \in Entries, BeginCreate(c, e) \/ BeginUpdate(c, e)
      PROVE  Goal
  <2>1. "insertEntry" \in Step /\ "insertVersion" \in Step
    BY DEF Step
  <2> QED BY <1>2, <1>3, <2>1 DEF BeginCreate, BeginUpdate
<1>4. ASSUME NEW c \in Clients, NEW e \in Entries, InsertEntry(c, e) PROVE Goal
  <2> DEFINE next == IF Exists(e) THEN Idle
                     ELSE [request[c] EXCEPT !.step = "insertFirstVersion"]
  <2>1. next \in Request /\ next.step \notin SaveSteps
    <3>1. [request[c] EXCEPT !.step = "insertFirstVersion"] \in Request
      BY StepType DEF Step
    <3>2. [request[c] EXCEPT !.step = "insertFirstVersion"].step \notin SaveSteps
      BY DEF Request, SaveSteps
    <3> QED BY <1>1, <3>1, <3>2
  <2>2. request' = [request EXCEPT ![c] = next]
    BY <1>4 DEF InsertEntry
  <2>3. \A x \in Entries : entry'[x].publishedVersion = entry[x].publishedVersion
    BY <1>4 DEF InsertEntry, Exists, RowsConsistent, Consistent, Row, NewRow
  <2> QED BY <1>4, <2>1, <2>2, <2>3, QuietStep DEF InsertEntry
<1>5. ASSUME NEW c \in Clients, NEW e \in Entries, InsertFirstVersion(c, e) PROVE Goal
  BY <1>1, <1>5, QuietStep DEF InsertFirstVersion
<1>6. ASSUME NEW c \in Clients, NEW e \in Entries, InsertVersion(c, e) PROVE Goal
  <2> DEFINE next == [request[c] EXCEPT !.step = "saveAggregate"]
  <2>1. next \in Request
    BY StepType DEF Step
  <2>2. /\ next.found = request[c].found /\ next.items = request[c].items
        /\ next.stale = request[c].stale
    BY DEF Request
  <2>3. request[c].step \in SaveSteps
    BY <1>6 DEF InsertVersion, SaveSteps
  <2>4. request' = [request EXCEPT ![c] = Idle] \/ request' = [request EXCEPT ![c] = next]
    BY <1>6 DEF InsertVersion
  <2>5. UNCHANGED <<entry, published, taint>>
    BY <1>6 DEF InsertVersion
  <2> HIDE DEF next
  <2> QED BY <1>1, <2>1, <2>2, <2>3, <2>4, <2>5, QuietStep
<1>7. ASSUME NEW c \in Clients, NEW e \in Entries, SaveAggregate(c, e) PROVE Goal
  BY <1>7, SaveStep
<1>8. ASSUME NEW c \in Clients, NEW E \in SUBSET Entries, NEW b \in Batching,
             BeginPublish(c, E, b)
      PROVE  Goal
  <2>1. Read(c, "readFields", E, b) \in Request
    BY ReadType, BatchingAssumption DEF Step
  <2>2. Read(c, "readFields", E, b).step \notin SaveSteps
    BY DEF Read, Idle, SaveSteps
  <2> QED BY <1>8, <2>1, <2>2, QuietStep DEF BeginPublish
<1>9. ASSUME NEW c \in Clients, NEW E \in SUBSET Entries, NEW b \in Batching,
             BeginUnpublish(c, E, b)
      PROVE  Goal
  <2> DEFINE w == {e \in E : entry[e].publishedVersion > 0}
             q == Read(c, "unpublish", w, b)
             at == IF b THEN clock + 1 ELSE 0
  <2>1. q \in Request
    BY ReadType, BatchingAssumption DEF Step
  <2>2. q.step \notin SaveSteps /\ at \in Nat
    BY DEF Read, Idle, SaveSteps
  <2>3. request' = [request EXCEPT ![c] = [q EXCEPT !.at = at]]
    BY <1>9 DEF BeginUnpublish
  <2> HIDE DEF q, at
  <2>4. [q EXCEPT !.at = at] \in Request
    BY <2>1, <2>2, AtType
  <2>5. [q EXCEPT !.at = at].step \notin SaveSteps
    BY <2>1, <2>2 DEF Request
  <2> QED BY <1>9, <2>3, <2>4, <2>5, QuietStep DEF BeginUnpublish
<1>10. ASSUME NEW c \in Clients, ReadFields(c) PROVE Goal
  <2> DEFINE next == request'[c]
  <2>1. TypeOK'
    BY TypeStep
  <2>2. next \in Request
    BY <2>1
  <2>3. next.step \notin SaveSteps
    <3> DEFINE r == request[c]
               f == [e \in Entries |-> IF e \in r.items THEN FieldsOf(r.found[e], e) ELSE 0]
               p == Publishable(r, f)
               read == [r EXCEPT !.step = "publish", !.items = p, !.fields = f,
                                 !.at = IF r.batch THEN clock + 1 ELSE 0,
                                 !.stale = @ \intersect p]
    <3>1. read.step = "publish"
      BY DEF Request
    <3>2. next = Idle \/ next = read
      BY <1>10 DEF ReadFields
    <3> HIDE DEF read
    <3> QED BY <1>1, <3>1, <3>2 DEF SaveSteps
  <2>4. request' = [request EXCEPT ![c] = next]
    BY <1>10 DEF ReadFields
  <2> QED BY <1>10, <2>2, <2>3, <2>4, QuietStep DEF ReadFields
<1>11. ASSUME NEW c \in Clients, CommitPublish(c) PROVE Goal
  <2>1. request[c].items \in SUBSET Entries
    BY DEF Request
  <2>2. \A e \in request[c].items : entry'[e].publishedVersion = published'[e].version
    <3>1. \A e \in request[c].items :
            publish(request[c].found[e]).publishedVersion = request[c].found[e].currentVersion
      BY <2>1 DEF publish, Request, Row
    <3> QED BY <1>11, <2>1, <3>1 DEF CommitPublish
  <2> QED BY <1>11, <2>1, <2>2, CommitStep DEF CommitPublish
<1>12. ASSUME NEW c \in Clients, CommitUnpublish(c) PROVE Goal
  <2>1. request[c].items \in SUBSET Entries
    BY DEF Request
  <2>2. \A e \in request[c].items : entry'[e].publishedVersion = published'[e].version
    <3>1. \A e \in request[c].items : unpublish(request[c].found[e]).publishedVersion = 0
      BY <2>1 DEF unpublish, Request, Row
    <3> QED BY <1>12, <2>1, <3>1 DEF CommitUnpublish, NoSnapshot
  <2> QED BY <1>12, <2>1, <2>2, CommitStep DEF CommitUnpublish
<1>13. ASSUME NEW c \in Clients, Crash(c) PROVE Goal
  <2>1. /\ request' = [request EXCEPT ![c] = Idle]
        /\ UNCHANGED <<entry, published>>
        /\ \A e \in Entries : "staleSave" \in taint'[e] <=> "staleSave" \in taint[e]
    BY <1>13 DEF Crash
  <2>2. PointerMatchesReadModel'
    BY <2>1 DEF PointerMatchesReadModel
  <2>3. ASSUME NEW d \in Clients, request'[d].step \in SaveSteps
        PROVE  request'[d] = request[d] /\ request[d].items \subseteq Entries
    BY <1>1, <2>1, <2>3 DEF Request
  <2> QED BY <2>1, <2>2, <2>3 DEF FreshCopies
<1>14. CASE UNCHANGED vars
  BY <1>14 DEF vars, PointerMatchesReadModel, FreshCopies
<1> QED
  BY <1>3, <1>4, <1>5, <1>6, <1>7, <1>8, <1>9, <1>10, <1>11, <1>12, <1>13, <1>14
     DEF Next, Save, Publish

\* An entry whose saves never overwrote a publish or an unpublish they had not seen
\* has a published pointer that names exactly the snapshot the Delivery API serves.
THEOREM PointerAlwaysMatches == Spec => []PointerMatchesReadModel
<1>1. Init => PointerInv
  BY TypeInit, ConsistentNew DEF Init, PointerInv, RowsConsistent, CopiesConsistent, Idle,
     PointerMatchesReadModel, FreshCopies, SaveSteps, NoRow, NoSnapshot
<1>2. PointerInv /\ [Next]_vars => PointerInv'
  BY TypeStep, RowsStep, CopiesStep, PointerStep DEF PointerInv
<1>3. PointerInv => PointerMatchesReadModel
  BY DEF PointerInv
<1> QED BY <1>1, <1>2, <1>3, PTL DEF Spec

(***************************************************************************)
(* What the steps of one request do to the others, and to its own record.  *)
(***************************************************************************)
\* The statements that the other requests are at, and what they read, stay.
LEMMA OthersSame ==
  ASSUME TypeOK, NEW c \in Clients, Save(c) \/ Publish(c) \/ Crash(c), NEW d \in Clients \ {c}
  PROVE  /\ request'[d].step = request[d].step /\ request'[d].batch = request[d].batch
         /\ request'[d].items = request[d].items /\ request'[d].found = request[d].found
         /\ request'[d].fields = request[d].fields /\ request'[d].at = request[d].at
         /\ request[d].stale \subseteq request'[d].stale
<1>1. request[d] \in Request
  BY DEF TypeOK
<1>2. ASSUME NEW st PROVE /\ [request[d] EXCEPT !.stale = st].step = request[d].step
                          /\ [request[d] EXCEPT !.stale = st].batch = request[d].batch
                          /\ [request[d] EXCEPT !.stale = st].items = request[d].items
                          /\ [request[d] EXCEPT !.stale = st].found = request[d].found
                          /\ [request[d] EXCEPT !.stale = st].fields = request[d].fields
                          /\ [request[d] EXCEPT !.stale = st].at = request[d].at
                          /\ [request[d] EXCEPT !.stale = st].stale = st
  BY <1>1 DEF Request
<1>3. ASSUME NEW next, NEW E, NEW o, NEW fault, Overwrite(c, next, E, o, fault)
      PROVE  request'[d] = request[d] \/ \E st : request[d].stale \subseteq st /\ request'[d] = [request[d] EXCEPT !.stale = st]
  BY <1>3 DEF Overwrite
<1>4. request'[d] = request[d] \/ \E st : request[d].stale \subseteq st /\ request'[d] = [request[d] EXCEPT !.stale = st]
  <2>1. CASE \E e \in Entries : SaveAggregate(c, e)
    BY <1>3, <2>1 DEF SaveAggregate
  <2>2. CASE CommitPublish(c) \/ CommitUnpublish(c)
    BY <1>3, <2>2 DEF CommitPublish, CommitUnpublish
  <2>3. CASE \E next : request' = [request EXCEPT ![c] = next]
    BY <2>3 DEF TypeOK
  <2> QED
    BY <2>1, <2>2, <2>3 DEF Save, Publish, BeginCreate, InsertEntry, InsertFirstVersion, BeginUpdate,
       InsertVersion, BeginPublish, BeginUnpublish, ReadFields, Crash, TypeOK
<1>5. CASE request'[d] = request[d]
  BY <1>5
<1>6. ASSUME NEW st, request[d].stale \subseteq st, request'[d] = [request[d] EXCEPT !.stale = st]
      PROVE  /\ request'[d].step = request[d].step /\ request'[d].batch = request[d].batch
             /\ request'[d].items = request[d].items /\ request'[d].found = request[d].found
             /\ request'[d].fields = request[d].fields /\ request'[d].at = request[d].at
             /\ request[d].stale \subseteq request'[d].stale
  BY <1>2, <1>6
<1> QED BY <1>4, <1>5, <1>6

\* A request that begins, with the aggregates as they are.
LEMMA ReadEffect ==
  ASSUME TypeOK, NEW c, NEW step, NEW E \in SUBSET Entries, NEW batch
  PROVE  /\ Read(c, step, E, batch).step = step /\ Read(c, step, E, batch).batch = batch
         /\ Read(c, step, E, batch).items = E /\ Read(c, step, E, batch).stale = {}
         /\ \A e \in Entries : Read(c, step, E, batch).found[e] = IF e \in E THEN entry[e] ELSE NoRow
  BY DEF Read, Idle

LEMMA BeginEffect ==
  ASSUME TypeOK, NEW c \in Clients, NEW e \in Entries, BeginCreate(c, e) \/ BeginUpdate(c, e)
  PROVE  LET q == request'[c]
         IN /\ q.step = IF Exists(e) THEN "insertVersion" ELSE "insertEntry"
            /\ q.items = {e} /\ q.stale = {}
            /\ \A x \in Entries : q.found[x] = IF x = e THEN entry[x] ELSE NoRow
            /\ UNCHANGED <<entry, versions, published, references, outbox, clock, taint>>
<1>1. \/ ~Exists(e) /\ request'[c] = Read(c, "insertEntry", {e}, FALSE)
      \/ Exists(e) /\ request'[c] = Read(c, "insertVersion", {e}, FALSE)
  BY DEF BeginCreate, BeginUpdate, TypeOK
<1>2. UNCHANGED <<entry, versions, published, references, outbox, clock, taint>>
  BY DEF BeginCreate, BeginUpdate
<1>3. CASE ~Exists(e)
  <2> DEFINE q == Read(c, "insertEntry", {e}, FALSE)
  <2>1. /\ q.step = "insertEntry" /\ q.items = {e} /\ q.stale = {}
        /\ \A x \in Entries : q.found[x] = IF x \in {e} THEN entry[x] ELSE NoRow
    BY DEF Read, Idle
  <2>2. request'[c] = q
    BY <1>1, <1>3
  <2> HIDE DEF q
  <2> QED BY <1>2, <1>3, <2>1, <2>2
<1>4. CASE Exists(e)
  <2> DEFINE q == Read(c, "insertVersion", {e}, FALSE)
  <2>1. /\ q.step = "insertVersion" /\ q.items = {e} /\ q.stale = {}
        /\ \A x \in Entries : q.found[x] = IF x \in {e} THEN entry[x] ELSE NoRow
    BY DEF Read, Idle
  <2>2. request'[c] = q
    BY <1>1, <1>4
  <2> HIDE DEF q
  <2> QED BY <1>2, <1>4, <2>1, <2>2
<1> QED BY <1>3, <1>4

LEMMA BeginPublishEffect ==
  ASSUME TypeOK, NEW c \in Clients, NEW E \in SUBSET Entries, NEW b \in Batching, BeginPublish(c, E, b)
  PROVE  LET q == request'[c]
         IN /\ q.step = "readFields" /\ q.batch = b /\ q.items = E /\ q.stale = {}
            /\ \A x \in Entries : q.found[x] = IF x \in E THEN entry[x] ELSE NoRow
            /\ UNCHANGED <<entry, versions, published, references, outbox, clock, taint>>
<1>1. request'[c] = Read(c, "readFields", E, b)
  BY DEF BeginPublish, TypeOK
<1>2. UNCHANGED <<entry, versions, published, references, outbox, clock, taint>>
  BY DEF BeginPublish
<1> QED BY <1>1, <1>2, ReadEffect

LEMMA BeginUnpublishEffect ==
  ASSUME TypeOK, NEW c \in Clients, NEW E \in SUBSET Entries, NEW b \in Batching, BeginUnpublish(c, E, b)
  PROVE  LET q == request'[c]
         IN /\ q.step = "unpublish" /\ q.batch = b /\ q.stale = {}
            /\ q.items = {e \in E : entry[e].publishedVersion > 0}
            /\ \A x \in q.items : q.found[x] = entry[x]
            /\ \A x \in Entries : q.found[x] \in {entry[x], NoRow}
            /\ b => q.at = clock + 1 /\ clock' = clock + 1
            /\ ~b => clock' = clock
            /\ UNCHANGED <<entry, versions, published, references, outbox, taint>>
<1> DEFINE w == {e \in E : entry[e].publishedVersion > 0}
           q == Read(c, "unpublish", w, b)
           at == IF b THEN clock + 1 ELSE 0
<1>1. request'[c] = [q EXCEPT !.at = at]
  BY DEF BeginUnpublish, TypeOK
<1>2. q \in Request /\ w \in SUBSET Entries
  BY ReadType, BatchingAssumption DEF TypeOK, Step
<1> HIDE DEF w
<1>3. /\ q.step = "unpublish" /\ q.batch = b /\ q.items = w /\ q.stale = {}
      /\ \A x \in Entries : q.found[x] = IF x \in w THEN entry[x] ELSE NoRow
  BY <1>2, ReadEffect
<1> HIDE DEF q, at
<1>4. LET p == [q EXCEPT !.at = at]
      IN p.step = q.step /\ p.batch = q.batch /\ p.items = q.items /\ p.stale = q.stale /\ p.found = q.found /\ p.at = at
  BY <1>2 DEF Request
<1>5. clock' = (IF b THEN clock + 1 ELSE clock) /\ UNCHANGED <<entry, versions, published, references, outbox, taint>>
  BY DEF BeginUnpublish
<1>6. b \in BOOLEAN
  BY BatchingAssumption
<1> QED BY <1>1, <1>2, <1>3, <1>4, <1>5, <1>6 DEF at, w

\* The fields that a publishing request reads.
FieldsRead(r) == [e \in Entries |-> IF e \in r.items THEN FieldsOf(r.found[e], e) ELSE 0]

LEMMA ReadFieldsEffect ==
  ASSUME TypeOK, NEW c \in Clients, ReadFields(c), request'[c] # Idle
  PROVE  LET r == request[c]
             q == request'[c]
         IN /\ q.step = "publish" /\ q.batch = r.batch /\ q.found = r.found
            /\ q.items = Publishable(r, FieldsRead(r)) /\ q.fields = FieldsRead(r)
            /\ q.stale = r.stale \intersect q.items
            /\ r.batch => q.at = clock + 1 /\ clock' = clock + 1
            /\ ~r.batch => clock' = clock
<1> DEFINE r == request[c]
           p == Publishable(r, FieldsRead(r))
           at == IF r.batch THEN clock + 1 ELSE 0
           st == r.stale \intersect p
           f == FieldsRead(r)
           q == [r EXCEPT !.step = "publish", !.items = p, !.fields = f, !.at = at, !.stale = st]
<1>1. request'[c] = q /\ clock' = (IF r.batch THEN clock + 1 ELSE clock)
  BY DEF ReadFields, FieldsRead, TypeOK
<1>2. r \in Request
  BY DEF TypeOK
<1> HIDE DEF p, at, st, f
<1>3. /\ q.step = "publish" /\ q.batch = r.batch /\ q.found = r.found /\ q.items = p
      /\ q.fields = f /\ q.stale = st /\ q.at = at
  BY <1>2 DEF Request
<1> HIDE DEF q
<1>4. r.batch \in BOOLEAN
  BY <1>2 DEF Request
<1> QED BY <1>1, <1>3, <1>4 DEF p, at, st, f

LEMMA StepEffect ==
  ASSUME NEW r \in Request, NEW step
  PROVE  LET q == [r EXCEPT !.step = step]
         IN /\ q.step = step /\ q.batch = r.batch /\ q.items = r.items /\ q.found = r.found
            /\ q.fields = r.fields /\ q.at = r.at /\ q.stale = r.stale
  BY DEF Request

\* Who writes a row, and with what version.
LEMMA RowWrites ==
  ASSUME TypeOK, [Next]_vars, NEW e \in Entries
  PROVE  \/ entry'[e] = entry[e]
         \/ ~Exists(e) /\ entry'[e].currentVersion = 1
         \/ \E c \in Clients : /\ request[c].step = "saveAggregate" /\ e \in request[c].items
                              /\ entry'[e].currentVersion = request[c].found[e].currentVersion + 1
         \/ \E c \in Clients : /\ request[c].step \in {"publish", "unpublish"} /\ e \in request[c].items
                              /\ entry'[e].currentVersion = request[c].found[e].currentVersion
<1> USE DEF TypeOK
<1>1. ASSUME NEW c \in Clients, NEW x \in Entries, InsertEntry(c, x)
      PROVE  entry'[e] = entry[e] \/ (~Exists(e) /\ entry'[e].currentVersion = 1)
  BY <1>1 DEF InsertEntry, NewRow
<1>2. ASSUME NEW c \in Clients, NEW x \in Entries, SaveAggregate(c, x)
      PROVE  \/ entry'[e] = entry[e]
             \/ /\ request[c].step = "saveAggregate" /\ e \in request[c].items
                /\ entry'[e].currentVersion = request[c].found[e].currentVersion + 1
  BY <1>2 DEF SaveAggregate, saveDraft
<1>3. ASSUME NEW c \in Clients, CommitPublish(c) \/ CommitUnpublish(c)
      PROVE  \/ entry'[e] = entry[e]
             \/ /\ request[c].step \in {"publish", "unpublish"} /\ e \in request[c].items
                /\ entry'[e].currentVersion = request[c].found[e].currentVersion
  <2>1. request[c].found[e] \in Row
    BY DEF Request
  <2>2. /\ publish(request[c].found[e]).currentVersion = request[c].found[e].currentVersion
        /\ unpublish(request[c].found[e]).currentVersion = request[c].found[e].currentVersion
    BY <2>1 DEF publish, unpublish, Row
  <2> QED BY <1>3, <2>2 DEF CommitPublish, CommitUnpublish
<1>4. CASE entry' = entry
  BY <1>4
<1> QED
  <2>1. ASSUME NEW c \in Clients, NEW x \in Entries,
               BeginCreate(c, x) \/ InsertFirstVersion(c, x) \/ BeginUpdate(c, x) \/ InsertVersion(c, x)
        PROVE  entry' = entry
    BY <2>1 DEF BeginCreate, InsertFirstVersion, BeginUpdate, InsertVersion
  <2>2. ASSUME NEW c \in Clients, Publish(c) PROVE entry' = entry \/ CommitPublish(c) \/ CommitUnpublish(c)
    BY <2>2 DEF Publish, BeginPublish, BeginUnpublish, ReadFields
  <2>3. ASSUME NEW c \in Clients, Crash(c) PROVE entry' = entry
    BY <2>3 DEF Crash
  <2>4. CASE UNCHANGED vars
    BY <1>4, <2>4 DEF vars
  <2>5. ASSUME NEW c \in Clients, Save(c)
        PROVE  entry' = entry \/ \E x \in Entries : InsertEntry(c, x) \/ SaveAggregate(c, x)
    BY <2>1, <2>5 DEF Save
  <2>6. \/ entry' = entry
        \/ \E c \in Clients : \/ \E x \in Entries : InsertEntry(c, x) \/ SaveAggregate(c, x)
                            \/ CommitPublish(c) \/ CommitUnpublish(c)
    BY <2>2, <2>3, <2>4, <2>5 DEF Next, vars
  <2> QED BY <1>1, <1>2, <1>3, <1>4, <2>6

LEMMA VersionsGrow ==
  ASSUME TypeOK, [Next]_vars, NEW e \in Entries PROVE versions[e] \subseteq versions'[e]
<1>1. ASSUME NEW c \in Clients, NEW x \in Entries, InsertFirstVersion(c, x) \/ InsertVersion(c, x)
      PROVE  versions[e] \subseteq versions'[e]
  BY <1>1 DEF InsertFirstVersion, InsertVersion, TypeOK
<1>2. CASE versions' = versions
  BY <1>2
<1> QED
  <2>1. ASSUME NEW c \in Clients, Save(c) PROVE versions[e] \subseteq versions'[e]
    BY <1>1, <1>2, <2>1 DEF Save, BeginCreate, InsertEntry, BeginUpdate, SaveAggregate
  <2>2. ASSUME NEW c \in Clients, Publish(c) PROVE versions' = versions
    BY <2>2 DEF Publish, BeginPublish, ReadFields, CommitPublish, BeginUnpublish, CommitUnpublish
  <2>3. ASSUME NEW c \in Clients, Crash(c) PROVE versions' = versions
    BY <2>3 DEF Crash
  <2> QED BY <1>2, <2>1, <2>2, <2>3 DEF Next, vars

(***************************************************************************)
(* The read model.  A row and the copies of it name a version that is      *)
(* there, or the first; so what a publish reads is that version's fields,  *)
(* or those of an entry whose creation is not complete.                    *)
(***************************************************************************)
VersionsKept ==
  \A e \in Entries : entry[e].currentVersion > 1 => entry[e].currentVersion \in versions[e]

CopiesKept ==
  \A c \in Clients, e \in Entries :
    request[c].found[e].currentVersion > 1 => request[c].found[e].currentVersion \in versions[e]

\* What a request is about to write is complete.
Complete(q, e) ==
  /\ q.step = "saveAggregate" => q.found[e].currentVersion + 1 \in versions[e]
  /\ q.step \in {"publish", "unpublish"} => q.found[e].currentVersion > 0
  /\ q.step = "publish" =>
       /\ q.fields[e] = q.found[e].currentVersion \/ (q.found[e].currentVersion = 1 /\ q.fields[e] = 0)
       /\ \A t \in extractReferences(q.fields[e], e) : Exists(t)

AllComplete == \A c \in Clients : \A e \in request[c].items : Complete(request[c], e)

ServedInv == /\ TypeOK /\ RowsConsistent /\ CopiesConsistent
             /\ VersionsKept /\ CopiesKept /\ AllComplete /\ ReadModelIsWhole

LEMMA ExistenceStays ==
  ASSUME ServedInv, [Next]_vars, NEW e \in Entries, Exists(e) PROVE Exists(e)'
<1> USE DEF ServedInv
<1>1. ASSUME NEW c \in Clients, e \in request[c].items, request[c].step \in {"publish", "unpublish"}
      PROVE  request[c].found[e].currentVersion > 0
  BY <1>1 DEF AllComplete, Complete
<1>2. \A c \in Clients : request[c].found[e].currentVersion \in Nat
  BY DEF TypeOK, Request, Row
<1> QED BY <1>1, <1>2, RowWrites DEF Exists

LEMMA VersionsStep == ServedInv /\ [Next]_vars => VersionsKept'
<1> SUFFICES ASSUME ServedInv, [Next]_vars, NEW e \in Entries, entry'[e].currentVersion > 1
             PROVE  entry'[e].currentVersion \in versions'[e]
  BY DEF VersionsKept
<1> USE DEF ServedInv
<1>1. CASE entry'[e] = entry[e]
  BY <1>1, VersionsGrow DEF VersionsKept
<1>2. ASSUME NEW c \in Clients, request[c].step = "saveAggregate", e \in request[c].items,
             entry'[e].currentVersion = request[c].found[e].currentVersion + 1
      PROVE  entry'[e].currentVersion \in versions'[e]
  BY <1>2, VersionsGrow DEF AllComplete, Complete
<1>3. ASSUME NEW c \in Clients, entry'[e].currentVersion = request[c].found[e].currentVersion
      PROVE  entry'[e].currentVersion \in versions'[e]
  BY <1>3, VersionsGrow DEF CopiesKept
<1> QED BY <1>1, <1>2, <1>3, RowWrites

\* The copies a step leaves are those it finds, the rows as they are, or none.
LEMMA FoundStep ==
  ASSUME TypeOK, [Next]_vars, NEW c \in Clients, NEW e \in Entries
  PROVE  request'[c].found[e] \in {request[c].found[e], entry[e], NoRow}
<1>1. CASE UNCHANGED vars
  BY <1>1 DEF vars
<1>2. ASSUME NEW d \in Clients \ {c}, Save(d) \/ Publish(d) \/ Crash(d)
      PROVE  request'[c].found[e] = request[c].found[e]
  BY <1>2, OthersSame
<1>3. Idle.found[e] = NoRow
  BY DEF Idle
<1>4. CASE request'[c] = Idle
  BY <1>3, <1>4
<1>5. ASSUME NEW x \in Entries, BeginCreate(c, x) \/ BeginUpdate(c, x)
      PROVE  request'[c].found[e] \in {entry[e], NoRow}
  BY <1>5, BeginEffect
<1>6. ASSUME NEW E \in SUBSET Entries, NEW b \in Batching, BeginPublish(c, E, b) \/ BeginUnpublish(c, E, b)
      PROVE  request'[c].found[e] \in {entry[e], NoRow}
  <2>1. CASE BeginPublish(c, E, b)
    BY <2>1, BeginPublishEffect
  <2>2. CASE BeginUnpublish(c, E, b)
    BY <2>2, BeginUnpublishEffect
  <2> QED BY <1>6, <2>1, <2>2
<1>7. ASSUME ReadFields(c), request'[c] # Idle PROVE request'[c].found[e] = request[c].found[e]
  BY <1>7, ReadFieldsEffect
<1>8. ASSUME NEW x \in Entries, InsertEntry(c, x) \/ InsertVersion(c, x), request'[c] # Idle
      PROVE  request'[c].found[e] = request[c].found[e]
  <2>1. request[c] \in Request
    BY DEF TypeOK
  <2>2. \E s : request'[c] = [request[c] EXCEPT !.step = s]
    BY <1>8 DEF InsertEntry, InsertVersion, TypeOK
  <2> QED BY <2>1, <2>2, StepEffect
<1>9. ASSUME \/ \E x \in Entries : InsertFirstVersion(c, x) \/ SaveAggregate(c, x)
             \/ CommitPublish(c) \/ CommitUnpublish(c) \/ Crash(c)
      PROVE  request'[c] = Idle
  BY <1>9 DEF InsertFirstVersion, SaveAggregate, CommitPublish, CommitUnpublish, Crash, Overwrite, TypeOK
<1> QED BY <1>1, <1>2, <1>4, <1>5, <1>6, <1>7, <1>8, <1>9 DEF Next, Save, Publish

LEMMA CopiesKeptStep == ServedInv /\ [Next]_vars => CopiesKept'
<1> SUFFICES ASSUME ServedInv, [Next]_vars, NEW c \in Clients, NEW e \in Entries,
                    request'[c].found[e].currentVersion > 1
             PROVE  request'[c].found[e].currentVersion \in versions'[e]
  BY DEF CopiesKept
<1>1. NoRow.currentVersion = 0
  BY DEF NoRow
<1> QED BY <1>1, FoundStep, VersionsGrow DEF ServedInv, VersionsKept, CopiesKept

LEMMA ReferencesType ==
  ASSUME NEW f, NEW e \in Entries PROVE extractReferences(f, e) \subseteq Entries
  BY LinksAssumption DEF extractReferences

\* A request that waits while others write is as complete as before.
LEMMA CompleteStays ==
  ASSUME ServedInv, [Next]_vars, NEW c \in Clients, NEW e \in Entries, Complete(request[c], e),
         request'[c].step = request[c].step, request'[c].found = request[c].found,
         request'[c].fields = request[c].fields
  PROVE  Complete(request[c], e)'
<1>1. \A t \in extractReferences(request[c].fields[e], e) : Exists(t) => Exists(t)'
  BY ExistenceStays, ReferencesType
<1> QED BY <1>1, VersionsGrow DEF Complete, ServedInv

LEMMA CompleteStep == ServedInv /\ [Next]_vars => AllComplete'
<1> SUFFICES ASSUME ServedInv, [Next]_vars, NEW c \in Clients, NEW e \in request'[c].items
             PROVE  Complete(request[c], e)'
  BY DEF AllComplete
<1> USE DEF ServedInv
<1>0. TypeOK' /\ request[c] \in Request /\ e \in Entries
  BY TypeStep DEF TypeOK, Request
<1>1. ASSUME request'[c].step = request[c].step, request'[c].found = request[c].found,
             request'[c].fields = request[c].fields, request'[c].items = request[c].items
      PROVE  Complete(request[c], e)'
  BY <1>0, <1>1, CompleteStays DEF AllComplete
<1>2. ASSUME NEW d \in Clients \ {c}, Save(d) \/ Publish(d) \/ Crash(d) PROVE Complete(request[c], e)'
  BY <1>1, <1>2, OthersSame
<1>3. request'[c] # Idle
  BY DEF Idle
<1>4. ASSUME request'[c].step \in {"insertEntry", "insertVersion", "insertFirstVersion", "readFields"}
      PROVE  Complete(request[c], e)'
  BY <1>4 DEF Complete
<1>5. ASSUME NEW x \in Entries, BeginCreate(c, x) \/ BeginUpdate(c, x)
      PROVE  Complete(request[c], e)'
  BY <1>4, <1>5, BeginEffect
<1>6. ASSUME NEW x \in Entries, InsertEntry(c, x) PROVE Complete(request[c], e)'
  <2>1. request'[c] = [request[c] EXCEPT !.step = "insertFirstVersion"]
    BY <1>3, <1>6 DEF InsertEntry, TypeOK
  <2>2. request'[c].step = "insertFirstVersion"
    BY <1>0, <2>1, StepEffect
  <2> QED BY <1>4, <2>2
<1>7. ASSUME NEW x \in Entries, InsertVersion(c, x) PROVE Complete(request[c], e)'
  <2>1. /\ request'[c] = [request[c] EXCEPT !.step = "saveAggregate"] /\ request[c].items = {x}
        /\ request[c].found[x].currentVersion + 1 \in versions'[x]
    BY <1>3, <1>7 DEF InsertVersion, TypeOK
  <2>2. /\ request'[c].step = "saveAggregate" /\ request'[c].items = {x}
        /\ request'[c].found = request[c].found
    BY <1>0, <2>1, StepEffect
  <2> QED BY <2>1, <2>2 DEF Complete
<1>8. ASSUME NEW E \in SUBSET Entries, NEW b \in Batching, BeginPublish(c, E, b)
      PROVE  Complete(request[c], e)'
  BY <1>4, <1>8, BeginPublishEffect
<1>9. ASSUME NEW E \in SUBSET Entries, NEW b \in Batching, BeginUnpublish(c, E, b)
      PROVE  Complete(request[c], e)'
  <2>1. /\ request'[c].step = "unpublish"
        /\ request'[c].items = {x \in E : entry[x].publishedVersion > 0}
        /\ \A x \in request'[c].items : request'[c].found[x] = entry[x]
    BY <1>9, BeginUnpublishEffect
  <2>2. request'[c].found[e] = entry[e] /\ entry[e].publishedVersion > 0
    BY <2>1
  <2>3. entry[e].currentVersion > 0
    BY <1>0, <2>2 DEF RowsConsistent, Consistent, TypeOK, Row
  <2> QED BY <2>1, <2>2, <2>3 DEF Complete
<1>10. ASSUME ReadFields(c) PROVE Complete(request[c], e)'
  <2>1. /\ request'[c].step = "publish" /\ request'[c].found = request[c].found
        /\ request'[c].items = Publishable(request[c], FieldsRead(request[c]))
        /\ request'[c].fields = FieldsRead(request[c])
    BY <1>3, <1>10, ReadFieldsEffect
  <2> DEFINE v == request[c].found[e].currentVersion
             f == FieldsRead(request[c])[e]
  <2>2. e \in request[c].items /\ v > 0 /\ \A t \in extractReferences(f, e) : Exists(t)
    BY <2>1 DEF Publishable
  <2>3. v \in Nat /\ (v > 1 => v \in versions[e])
    BY <1>0 DEF CopiesKept, Request, Row
  <2>4. f = IF v \in versions[e] THEN v ELSE 0
    BY <1>0, <2>2 DEF FieldsRead, FieldsOf
  <2>5. f = v \/ (v = 1 /\ f = 0)
    BY <2>2, <2>3, <2>4
  <2>6. \A t \in extractReferences(f, e) : Exists(t)'
    BY <1>0, <2>2, ExistenceStays, ReferencesType
  <2> QED BY <2>1, <2>2, <2>5, <2>6 DEF Complete
<1>11. ASSUME \/ \E x \in Entries : InsertFirstVersion(c, x) \/ SaveAggregate(c, x)
              \/ CommitPublish(c) \/ CommitUnpublish(c) \/ Crash(c)
       PROVE  request'[c] = Idle
  BY <1>11 DEF InsertFirstVersion, SaveAggregate, CommitPublish, CommitUnpublish, Crash, Overwrite, TypeOK
<1>12. CASE UNCHANGED vars
  BY <1>1, <1>12 DEF vars
<1> QED
  BY <1>2, <1>3, <1>5, <1>6, <1>7, <1>8, <1>9, <1>10, <1>11, <1>12 DEF Next, Save, Publish

LEMMA ReadModelStep == ServedInv /\ [Next]_vars => ReadModelIsWhole'
<1> SUFFICES ASSUME ServedInv, [Next]_vars PROVE ReadModelIsWhole'
  OBVIOUS
<1> USE DEF ServedInv
<1> DEFINE Good(e) == /\ \/ published'[e].fields = published'[e].version
                         \/ published'[e] = [version |-> 1, fields |-> 0]
                      /\ references'[e] = extractReferences(published'[e].fields, e)
                      /\ \A t \in references'[e] : Exists(t)'
<1>1. SUFFICES ASSUME NEW e \in Entries PROVE Good(e)
  BY <1>1 DEF ReadModelIsWhole, ServedFieldsAreOfVersion, ReferencesFollowReadModel
<1>2. CASE published'[e] = published[e] /\ references'[e] = references[e]
  <2>1. references[e] \subseteq Entries
    BY DEF TypeOK
  <2> QED
    BY <1>2, <2>1, ExistenceStays DEF ReadModelIsWhole, ServedFieldsAreOfVersion, ReferencesFollowReadModel
<1>3. ASSUME NEW c \in Clients, CommitPublish(c), e \in request[c].items PROVE Good(e)
  <2>1. Complete(request[c], e) /\ request[c].step = "publish"
    BY <1>3 DEF AllComplete, CommitPublish
  <2>2. /\ published'[e] = [version |-> request[c].found[e].currentVersion, fields |-> request[c].fields[e]]
        /\ references'[e] = extractReferences(request[c].fields[e], e)
    BY <1>3 DEF CommitPublish
  <2>3. \A t \in references'[e] : Exists(t)'
    BY <2>1, <2>2, ReferencesType, ExistenceStays DEF Complete
  <2> QED BY <2>1, <2>2, <2>3 DEF Complete
<1>4. ASSUME NEW c \in Clients, CommitUnpublish(c), e \in request[c].items PROVE Good(e)
  BY <1>4 DEF CommitUnpublish, NoSnapshot, extractReferences
<1>5. ASSUME NEW c \in Clients, CommitPublish(c) \/ CommitUnpublish(c), e \notin request[c].items
      PROVE  published'[e] = published[e] /\ references'[e] = references[e]
  BY <1>5 DEF CommitPublish, CommitUnpublish
<1> QED
  <2>1. ASSUME NEW c \in Clients, Save(c) PROVE UNCHANGED <<published, references>>
    BY <2>1 DEF Save, BeginCreate, InsertEntry, InsertFirstVersion, BeginUpdate, InsertVersion, SaveAggregate
  <2>2. ASSUME NEW c \in Clients, Publish(c)
        PROVE  UNCHANGED <<published, references>> \/ CommitPublish(c) \/ CommitUnpublish(c)
    BY <2>2 DEF Publish, BeginPublish, BeginUnpublish, ReadFields
  <2>3. ASSUME NEW c \in Clients, Crash(c) PROVE UNCHANGED <<published, references>>
    BY <2>3 DEF Crash
  <2>4. CASE UNCHANGED vars
    BY <1>2, <2>4 DEF vars
  <2> QED BY <1>2, <1>3, <1>4, <1>5, <2>1, <2>2, <2>3, <2>4 DEF Next

LEMMA ServedInit == Init => ServedInv
<1> SUFFICES ASSUME Init PROVE ServedInv
  OBVIOUS
<1>1. TypeOK /\ RowsConsistent /\ CopiesConsistent
  BY TypeInit, ConsistentNew DEF Init, RowsConsistent, CopiesConsistent, Idle
<1>2. VersionsKept /\ CopiesKept /\ AllComplete
  BY DEF Init, VersionsKept, CopiesKept, AllComplete, Idle, NoRow
<1>3. ReadModelIsWhole
  BY DEF Init, ReadModelIsWhole, ServedFieldsAreOfVersion, ReferencesFollowReadModel, NoSnapshot,
           extractReferences
<1> QED BY <1>1, <1>2, <1>3 DEF ServedInv

LEMMA ServedStep == ServedInv /\ [Next]_vars => ServedInv'
  BY TypeStep, RowsStep, CopiesStep, VersionsStep, CopiesKeptStep, CompleteStep, ReadModelStep DEF ServedInv

\* What is served of an entry is one version of it, its fields and its links, and no link
\* dangles - however reads and commits of saves, publishes and unpublishes interleave.
THEOREM ReadModelAlwaysWhole == Spec => []ReadModelIsWhole
<1>1. Init => ServedInv
  BY ServedInit
<1>2. ServedInv /\ [Next]_vars => ServedInv'
  BY ServedStep
<1>3. ServedInv => ReadModelIsWhole
  BY DEF ServedInv
<1> QED BY <1>1, <1>2, <1>3, PTL DEF Spec

(***************************************************************************)
(* The events.  Every event is appended under an instant of its commit     *)
(* alone: a batch takes one that no event bears and no other batch holds,  *)
(* a single publish or unpublish the next one.                             *)
(***************************************************************************)
Committing(c) == request[c].step \in {"publish", "unpublish"}
Stamped(c) == Committing(c) /\ request[c].batch
Instant(c) == IF request[c].batch THEN request[c].at ELSE clock + 1

EventsPast == \A ev \in outbox : ev.occurredAt <= clock

StampsApart ==
  \A c \in Clients : Stamped(c) =>
    /\ request[c].at <= clock
    /\ \A ev \in outbox : ev.occurredAt # request[c].at
    /\ \A d \in Clients \ {c} : Stamped(d) => request[d].at # request[c].at

EventsInv == ServedInv /\ EventsPast /\ StampsApart

\* A commit appends one event for each of its entries, and none was there before.
LEMMA AnnounceTells ==
  ASSUME EventsInv, NEW c \in Clients, Committing(c), NEW type, NEW snapshot,
         Announce(request[c], type, snapshot)
  PROVE  /\ \A e \in request[c].items : \E ev \in outbox' \ outbox : ev.entryId = e
         /\ \A ev \in outbox' \ outbox :
              /\ ev.entryId \in request[c].items
              /\ ev.type = type /\ ev.version = snapshot[ev.entryId].version
              /\ ev.fields = snapshot[ev.entryId].fields /\ ev.occurredAt = Instant(c)
              /\ \A other \in outbox' \ outbox : other.entryId = ev.entryId => other = ev
         /\ clock' = IF request[c].batch THEN clock ELSE clock + 1
<1> DEFINE at == Instant(c)
           Tell(e) == [type |-> type, entryId |-> e, version |-> snapshot[e].version,
                       fields |-> snapshot[e].fields, occurredAt |-> at]
<1>1. clock \in Nat /\ \A ev \in outbox : ev.occurredAt \in Nat
  BY DEF EventsInv, ServedInv, TypeOK, Event
<1>2. \A ev \in outbox : ev.occurredAt # at
  BY <1>1 DEF EventsInv, EventsPast, StampsApart, Stamped, Instant
<1>3. outbox' = outbox \union {Tell(e) : e \in request[c].items}
  BY DEF Announce, Instant
<1>4. clock' = IF request[c].batch THEN clock ELSE clock + 1
  BY DEF Announce
<1> HIDE DEF at
<1>5. \A e \in request[c].items : Tell(e) \in outbox' \ outbox /\ Tell(e).entryId = e
  BY <1>2, <1>3
<1>6. ASSUME NEW ev \in outbox' \ outbox
      PROVE  ev.entryId \in request[c].items /\ ev = Tell(ev.entryId)
  <2>1. PICK e \in request[c].items : ev = Tell(e)
    BY <1>3, <1>6
  <2> QED BY <2>1
<1>7. \A e \in Entries : /\ Tell(e).type = type /\ Tell(e).version = snapshot[e].version
                          /\ Tell(e).fields = snapshot[e].fields /\ Tell(e).occurredAt = Instant(c)
  BY DEF at
<1>8. request[c].items \subseteq Entries
  BY DEF EventsInv, ServedInv, TypeOK, Request
<1>9. ASSUME NEW ev \in outbox' \ outbox
      PROVE  /\ ev.entryId \in request[c].items
             /\ ev.type = type /\ ev.version = snapshot[ev.entryId].version
             /\ ev.fields = snapshot[ev.entryId].fields /\ ev.occurredAt = Instant(c)
             /\ \A other \in outbox' \ outbox : other.entryId = ev.entryId => other = ev
  <2> HIDE DEF Tell
  <2>1. ev.entryId \in request[c].items /\ ev = Tell(ev.entryId)
    BY <1>6, <1>9
  <2>2. \A other \in outbox' \ outbox : other.entryId = ev.entryId => other = ev
    BY <1>6, <2>1
  <2> QED BY <1>7, <1>8, <2>1, <2>2
<1> QED BY <1>4, <1>5, <1>9

\* Who appends events: the two commits.
LEMMA QuietOutbox ==
  ASSUME TypeOK, NEW c \in Clients, Save(c) \/ Publish(c) \/ Crash(c), ~CommitPublish(c), ~CommitUnpublish(c)
  PROVE  outbox' = outbox /\ published' = published
  BY DEF Save, Publish, BeginCreate, InsertEntry, InsertFirstVersion, BeginUpdate, InsertVersion, SaveAggregate,
         BeginPublish, ReadFields, BeginUnpublish, Crash

\* The request that is stamped in a step takes the next instant.
LEMMA StampEffect ==
  ASSUME TypeOK, NEW c \in Clients, Save(c) \/ Publish(c) \/ Crash(c), ~CommitPublish(c), ~CommitUnpublish(c)
  PROVE  /\ clock' \in {clock, clock + 1}
         /\ Stamped(c)' => clock' = clock + 1 /\ request'[c].at = clock + 1
<1> DEFINE Goal == /\ clock' \in {clock, clock + 1}
                   /\ Stamped(c)' => clock' = clock + 1 /\ request'[c].at = clock + 1
<1>0. ~(Idle.step \in {"publish", "unpublish"})
  BY DEF Idle
<1>1. ASSUME NEW e \in Entries, BeginCreate(c, e) \/ BeginUpdate(c, e) PROVE Goal
  <2>1. request'[c].step \in {"insertVersion", "insertEntry"} /\ clock' = clock
    BY <1>1, BeginEffect
  <2> QED BY <2>1 DEF Stamped, Committing
<1>2. ASSUME NEW e \in Entries, InsertEntry(c, e) \/ InsertVersion(c, e) PROVE Goal
  <2>1. PICK s : s \notin {"publish", "unpublish"} /\ request'[c] \in {Idle, [request[c] EXCEPT !.step = s]}
    BY <1>2 DEF InsertEntry, InsertVersion, TypeOK
  <2>2. [request[c] EXCEPT !.step = s].step = s
    BY DEF TypeOK, Request
  <2>3. clock' = clock
    BY <1>2 DEF InsertEntry, InsertVersion
  <2> QED BY <1>0, <2>1, <2>2, <2>3 DEF Stamped, Committing
<1>3. ASSUME \/ \E e \in Entries : InsertFirstVersion(c, e) \/ SaveAggregate(c, e)
             \/ Crash(c)
      PROVE  Goal
  <2>1. request'[c] = Idle /\ clock' = clock
    BY <1>3 DEF InsertFirstVersion, SaveAggregate, Crash, Overwrite, TypeOK
  <2> QED BY <1>0, <2>1 DEF Stamped, Committing
<1>4. ASSUME NEW E \in SUBSET Entries, NEW b \in Batching, BeginPublish(c, E, b) PROVE Goal
  <2>1. request'[c].step = "readFields" /\ clock' = clock
    BY <1>4, BeginPublishEffect
  <2> QED BY <2>1 DEF Stamped, Committing
<1>5. ASSUME NEW E \in SUBSET Entries, NEW b \in Batching, BeginUnpublish(c, E, b) PROVE Goal
  <2>2. b \in BOOLEAN
    BY BatchingAssumption
  <2>1. /\ request'[c].batch = b
        /\ b => request'[c].at = clock + 1 /\ clock' = clock + 1
        /\ ~b => clock' = clock
    BY <1>5, BeginUnpublishEffect, <2>2
  <2> QED BY <2>1, <2>2 DEF Stamped
<1>6. CASE ReadFields(c)
  <2>1. CASE request'[c] = Idle
    BY <1>0, <1>6, <2>1 DEF ReadFields, Stamped, Committing
  <2>2. CASE request'[c] # Idle
    <3>1. /\ request'[c].batch = request[c].batch
          /\ (request[c].batch => request'[c].at = clock + 1 /\ clock' = clock + 1)
          /\ (~request[c].batch => clock' = clock)
      BY <1>6, <2>2, ReadFieldsEffect
    <3> QED BY <3>1 DEF Stamped
  <2> QED BY <2>1, <2>2
<1> QED BY <1>1, <1>2, <1>3, <1>4, <1>5, <1>6 DEF Save, Publish

LEMMA StampsStep ==
  ASSUME EventsInv, [Next]_vars
  PROVE  EventsPast' /\ StampsApart'
<1>0. TypeOK /\ TypeOK'
  BY TypeStep DEF EventsInv, ServedInv
<1>1. CASE UNCHANGED vars
  BY <1>1 DEF vars, EventsInv, EventsPast, StampsApart, Stamped, Committing
<1>2. ASSUME NEW c \in Clients, Save(c) \/ Publish(c) \/ Crash(c)
      PROVE  EventsPast' /\ StampsApart'
  <2>1. ASSUME NEW d \in Clients \ {c}, Stamped(d)'
        PROVE  Stamped(d) /\ request'[d].at = request[d].at
    BY <1>0, <1>2, <2>1, OthersSame DEF Stamped, Committing
  <2>2. /\ clock \in Nat /\ \A d \in Clients : request[d].at \in Nat
        /\ \A ev \in outbox : ev.occurredAt \in Nat
    BY <1>0 DEF TypeOK, Request, Event
  <2>3. CASE ~CommitPublish(c) /\ ~CommitUnpublish(c)
    <3>1. outbox' = outbox
      BY <1>0, <1>2, <2>3, QuietOutbox
    <3>2. /\ clock' \in {clock, clock + 1}
          /\ Stamped(c)' => clock' = clock + 1 /\ request'[c].at = clock + 1
      BY <1>0, <1>2, <2>3, StampEffect
    <3>3. EventsPast'
      BY <2>2, <3>1, <3>2 DEF EventsInv, EventsPast
    <3>4. \A d \in Clients \ {c} : Stamped(d)' => request'[d].at <= clock /\ clock <= clock'
      BY <2>1, <2>2, <3>2 DEF EventsInv, StampsApart
    <3>5. ASSUME NEW d \in Clients, Stamped(d)', NEW ev \in outbox PROVE ev.occurredAt # request'[d].at
      BY <2>1, <2>2, <3>2, <3>5 DEF EventsInv, EventsPast, StampsApart
    <3>6. ASSUME NEW d \in Clients, Stamped(d)', NEW x \in Clients \ {d}, Stamped(x)'
          PROVE  request'[x].at # request'[d].at
      <4>1. CASE d = c
        BY <2>2, <3>2, <3>4, <3>6, <4>1
      <4>2. CASE x = c
        BY <2>2, <3>2, <3>4, <3>6, <4>2
      <4>3. CASE d # c /\ x # c
        BY <2>1, <3>6, <4>3 DEF EventsInv, StampsApart
      <4> QED BY <4>1, <4>2, <4>3
    <3>7. ASSUME NEW d \in Clients, Stamped(d)' PROVE request'[d].at <= clock'
      BY <2>1, <2>2, <3>2, <3>7 DEF EventsInv, StampsApart
    <3>8. StampsApart'
      BY <3>1, <3>5, <3>6, <3>7 DEF StampsApart
    <3> QED BY <3>3, <3>8
  <2>4. CASE CommitPublish(c) \/ CommitUnpublish(c)
    <3>1. Committing(c) /\ request'[c].step = "idle"
      <4>1. Committing(c)
        BY <2>4 DEF CommitPublish, CommitUnpublish, Committing
      <4>2. request'[c] = Idle
        BY <1>0, <2>4 DEF CommitPublish, CommitUnpublish, Overwrite, TypeOK
      <4> QED BY <4>1, <4>2 DEF Idle
    <3>2. PICK type, snapshot : Announce(request[c], type, snapshot)
      BY <2>4 DEF CommitPublish, CommitUnpublish
    <3>3. /\ \A ev \in outbox' \ outbox : ev.occurredAt = Instant(c)
          /\ clock' = IF request[c].batch THEN clock ELSE clock + 1
      BY <3>1, <3>2, AnnounceTells
    <3>4. ~Stamped(c)'
      BY <3>1 DEF Stamped, Committing
    <3>5. request[c].batch \in BOOLEAN
      BY <1>0 DEF TypeOK, Request
    <3>6. Instant(c) \in Nat /\ Instant(c) <= clock' /\ clock <= clock' /\ clock' \in Nat
      BY <2>2, <3>1, <3>3, <3>5 DEF EventsInv, StampsApart, Stamped, Instant
    <3>7. EventsPast'
      BY <2>2, <3>3, <3>6 DEF EventsInv, EventsPast
    <3>8. ASSUME NEW d \in Clients, Stamped(d)'
          PROVE  /\ d # c /\ Stamped(d) /\ request'[d].at = request[d].at
                 /\ request[d].at <= clock /\ Instant(c) # request[d].at
      <4>1. d # c /\ Stamped(d) /\ request'[d].at = request[d].at
        BY <2>1, <3>4, <3>8
      <4>2. request[d].at <= clock
        BY <4>1 DEF EventsInv, StampsApart
      <4>3. CASE request[c].batch
        BY <3>1, <4>1, <4>3 DEF EventsInv, StampsApart, Stamped, Instant
      <4>4. CASE ~request[c].batch
        <5>1. Instant(c) = clock + 1
          BY <4>4 DEF Instant
        <5> QED BY <2>2, <4>1, <4>2, <5>1
      <4> QED BY <4>1, <4>2, <4>3, <4>4
    <3>9. ASSUME NEW d \in Clients, Stamped(d)', NEW ev \in outbox' PROVE ev.occurredAt # request'[d].at
      BY <3>3, <3>8, <3>9 DEF EventsInv, StampsApart
    <3>10. ASSUME NEW d \in Clients, Stamped(d)' PROVE request'[d].at <= clock'
      BY <2>2, <3>6, <3>8, <3>10
    <3>11. ASSUME NEW d \in Clients, Stamped(d)', NEW x \in Clients \ {d}, Stamped(x)'
           PROVE  request'[x].at # request'[d].at
      BY <3>8, <3>11 DEF EventsInv, StampsApart
    <3>12. StampsApart'
      BY <3>9, <3>10, <3>11 DEF StampsApart
    <3> QED BY <3>7, <3>12
  <2> QED BY <2>3, <2>4
<1> QED BY <1>1, <1>2 DEF Next

LEMMA AnnouncedStep ==
  ASSUME EventsInv, [Next]_vars
  PROVE  Announced
<1>0. TypeOK
  BY DEF EventsInv, ServedInv
<1>1. CASE outbox' = outbox /\ published' = published
  BY <1>1 DEF Announced
<1>2. ASSUME NEW c \in Clients, CommitPublish(c) PROVE Announced
  <2> DEFINE r == request[c]
             snapshot == [e \in r.items |-> [version |-> r.found[e].currentVersion, fields |-> r.fields[e]]]
  <2>1. Committing(c) /\ Announce(r, "entry.published", snapshot)
    BY <1>2 DEF CommitPublish, Committing
  <2>2. r.items \subseteq Entries
    BY <1>0 DEF TypeOK, Request
  <2>3. \A e \in Entries : published'[e] = IF e \in r.items THEN snapshot[e] ELSE published[e]
    BY <1>2 DEF CommitPublish
  <2>4. \A e \in r.items : snapshot[e] = [version |-> r.found[e].currentVersion, fields |-> r.fields[e]]
    OBVIOUS
  <2>9. \A e \in r.items : snapshot[e].version = r.found[e].currentVersion /\ snapshot[e].fields = r.fields[e]
    BY <2>4
  <2>5. \A e \in r.items : r.found[e].currentVersion > 0
    BY <1>2 DEF EventsInv, ServedInv, AllComplete, Complete, CommitPublish
  <2> HIDE DEF snapshot
  <2>0. PICK type : type = "entry.published" /\ Announce(r, type, snapshot)
    BY <2>1
  <2>6. /\ \A e \in r.items : \E ev \in outbox' \ outbox : ev.entryId = e
        /\ \A ev \in outbox' \ outbox : ev.entryId \in r.items
    BY <2>1, AnnounceTells
  <2>10. ASSUME NEW ev \in outbox' \ outbox
         PROVE  ev.type = type /\ ev.version = snapshot[ev.entryId].version /\ ev.fields = snapshot[ev.entryId].fields
    <3> HIDE DEF r
    <3>1. Announce(request[c], type, snapshot)
      BY <2>0 DEF r
    <3> QED BY <2>1, <3>1, AnnounceTells
  <2>7. \A e \in Entries : published'[e] # published[e] => \E ev \in outbox' \ outbox : ev.entryId = e
    BY <2>3, <2>6
  <2>8. ASSUME NEW ev \in outbox' \ outbox
        PROVE  /\ published'[ev.entryId] = [version |-> ev.version, fields |-> ev.fields]
               /\ ev.type = "entry.published" /\ ev.version > 0
    <3>1. ev.entryId \in r.items /\ ev.entryId \in Entries
      BY <2>2, <2>6
    <3>2. /\ ev.type = "entry.published" /\ ev.version = snapshot[ev.entryId].version
          /\ ev.fields = snapshot[ev.entryId].fields
      BY <2>0, <2>10
    <3>3. /\ snapshot[ev.entryId].version = r.found[ev.entryId].currentVersion
          /\ snapshot[ev.entryId].fields = r.fields[ev.entryId]
      BY <2>9, <3>1
    <3> QED BY <2>3, <2>4, <2>5, <3>1, <3>2, <3>3
  <2> QED BY <2>7, <2>8 DEF Announced
<1>3. ASSUME NEW c \in Clients, CommitUnpublish(c) PROVE Announced
  <2> DEFINE r == request[c]
             snapshot == [e \in r.items |-> NoSnapshot]
  <2>1. Committing(c) /\ Announce(r, "entry.unpublished", snapshot)
    BY <1>3 DEF CommitUnpublish, Committing
  <2>2. r.items \subseteq Entries
    BY <1>0 DEF TypeOK, Request
  <2>3. \A e \in Entries : published'[e] = IF e \in r.items THEN NoSnapshot ELSE published[e]
    BY <1>3 DEF CommitUnpublish
  <2>4. \A e \in r.items : snapshot[e] = NoSnapshot
    OBVIOUS
  <2> HIDE DEF snapshot
  <2>0. PICK type : type = "entry.unpublished" /\ Announce(r, type, snapshot)
    BY <2>1
  <2>6. /\ \A e \in r.items : \E ev \in outbox' \ outbox : ev.entryId = e
        /\ \A ev \in outbox' \ outbox : ev.entryId \in r.items
    BY <2>1, AnnounceTells
  <2>10. ASSUME NEW ev \in outbox' \ outbox
         PROVE  ev.type = type /\ ev.version = snapshot[ev.entryId].version /\ ev.fields = snapshot[ev.entryId].fields
    <3> HIDE DEF r
    <3>1. Announce(request[c], type, snapshot)
      BY <2>0 DEF r
    <3> QED BY <2>1, <3>1, AnnounceTells
  <2>7. \A e \in Entries : published'[e] # published[e] => \E ev \in outbox' \ outbox : ev.entryId = e
    BY <2>3, <2>6
  <2>8. ASSUME NEW ev \in outbox' \ outbox
        PROVE  /\ published'[ev.entryId] = [version |-> ev.version, fields |-> ev.fields]
               /\ ev.type = "entry.unpublished" /\ ev.version = 0
    <3>1. ev.entryId \in r.items /\ ev.entryId \in Entries
      BY <2>2, <2>6
    <3>2. /\ ev.type = "entry.unpublished" /\ ev.version = NoSnapshot.version
          /\ ev.fields = NoSnapshot.fields
      BY <2>0, <2>4, <2>10, <3>1
    <3> QED BY <2>3, <3>1, <3>2 DEF NoSnapshot
  <2> QED BY <2>7, <2>8 DEF Announced
<1>4. \/ \E c \in Clients : CommitPublish(c) \/ CommitUnpublish(c)
      \/ outbox' = outbox /\ published' = published
  BY <1>0, QuietOutbox DEF Next, vars
<1> QED BY <1>1, <1>2, <1>3, <1>4

LEMMA SinglesStep ==
  ASSUME EventsInv, [Next]_vars
  PROVE  SinglesAreNewest
<1> SUFFICES ASSUME NEW c \in Clients, NEW ev \in outbox' \ outbox, NEW other \in outbox',
                    Committing(c), request'[c] = Idle, ~request[c].batch,
                    ev # other, ev.entryId = other.entryId
             PROVE  other.occurredAt < ev.occurredAt
  BY DEF SinglesAreNewest, Committing
<1>0. TypeOK
  BY DEF EventsInv, ServedInv
<1>1. PICK d \in Clients : CommitPublish(d) \/ CommitUnpublish(d)
  BY <1>0, QuietOutbox DEF Next, vars
<1>2. d = c
  <2>1. Publish(d) /\ Idle.step = "idle"
    BY <1>1 DEF Publish, Idle
  <2> QED BY <1>0, <2>1, OthersSame DEF Committing
<1>3. PICK type, snapshot : Announce(request[c], type, snapshot)
  BY <1>1, <1>2 DEF CommitPublish, CommitUnpublish
<1>4. \A x \in outbox' \ outbox :
        /\ x.occurredAt = Instant(c)
        /\ \A y \in outbox' \ outbox : y.entryId = x.entryId => y = x
  BY <1>3, AnnounceTells
<1>5. ev.occurredAt = Instant(c)
  BY <1>4
<1>6. other \in outbox
  BY <1>4
<1>7. ev.occurredAt = clock + 1
  BY <1>5 DEF Instant
<1>8. clock \in Nat /\ other.occurredAt \in Nat
  BY <1>0, <1>6 DEF TypeOK, Event
<1> QED BY <1>6, <1>7, <1>8 DEF EventsInv, EventsPast

\* The read model changes only with an event that tells its new state, and the event of
\* a single publish or unpublish is the newest of its entry - for any number of requests.
THEOREM EventsAlwaysTellCommits == Spec => EventsTellCommits
<1>1. Init => EventsInv
  <2>1. Init => EventsPast /\ StampsApart
    BY DEF Init, EventsPast, StampsApart, Stamped, Committing, Idle
  <2> QED BY <2>1, ServedInit DEF EventsInv
<1>2. EventsInv /\ [Next]_vars => EventsInv'
  BY ServedStep, StampsStep DEF EventsInv
<1>3. EventsInv /\ [Next]_vars => [Announced /\ SinglesAreNewest]_vars
  BY AnnouncedStep, SinglesStep
<1> QED BY <1>1, <1>2, <1>3, PTL DEF Spec, EventsTellCommits

(***************************************************************************)
(* The current version.  The versions of an entry that no publish, crash   *)
(* or unfinished save tampered with have no gap.  One save at a time is    *)
(* past its first statement, because the version it inserted bars the      *)
(* others; and a publish that no save has overtaken writes the current     *)
(* version back as it is.                                                  *)
(***************************************************************************)
Clean(e) == taint[e] \subseteq {"staleSave"}
Doing(c, step, e) == request[c].step = step /\ request[c].items = {e}
FirstPending(e) == \E c \in Clients : Doing(c, "insertFirstVersion", e)
SavePending(e) == \E c \in Clients : Doing(c, "saveAggregate", e)

Lowest(e) == IF FirstPending(e) THEN 2 ELSE 1
Highest(e) == entry[e].currentVersion + (IF SavePending(e) THEN 1 ELSE 0)

Gapless(e) == \A n \in Nat : n \in versions[e] <=> Lowest(e) <= n /\ n <= Highest(e)

FirstOnce(e) == \A c \in Clients : Doing(c, "insertFirstVersion", e) =>
  Exists(e) /\ \A d \in Clients \ {c} : ~Doing(d, "insertFirstVersion", e)

SaversCurrent(e) == \A c \in Clients :
  LET v == request[c].found[e].currentVersion IN
  /\ Doing(c, "insertVersion", e) => 1 <= v /\ v <= entry[e].currentVersion
  /\ Doing(c, "saveAggregate", e) =>
       /\ v = entry[e].currentVersion /\ Exists(e)
       /\ \A d \in Clients \ {c} : ~Doing(d, "saveAggregate", e)

PublishersCurrent(e) == \A c \in Clients :
  request[c].step \in PublishSteps /\ e \in request[c].items \ request[c].stale
    => request[c].found[e].currentVersion \in {0, entry[e].currentVersion}

Orderly(e) == /\ FirstOnce(e)
              /\ Clean(e) => Gapless(e) /\ SaversCurrent(e) /\ PublishersCurrent(e)

LatestInv == ServedInv /\ \A e \in Entries : Orderly(e)

\* The faults of an entry are not forgotten.
LEMMA FaultsStay ==
  ASSUME TypeOK, NEW c \in Clients, Save(c) \/ Publish(c) \/ Crash(c), NEW e \in Entries
  PROVE  taint[e] \subseteq taint'[e]
<1>1. ASSUME NEW next, NEW E, NEW o, NEW fault, Overwrite(c, next, E, o, fault)
      PROVE  taint[e] \subseteq taint'[e]
  BY <1>1 DEF Overwrite
<1>2. CASE (\E x \in Entries : SaveAggregate(c, x)) \/ CommitPublish(c) \/ CommitUnpublish(c)
  BY <1>1, <1>2 DEF SaveAggregate, CommitPublish, CommitUnpublish
<1>3. CASE Crash(c)
  BY <1>3 DEF Crash
<1>4. CASE taint' = taint
  BY <1>4
<1> QED
  BY <1>2, <1>3, <1>4 DEF Save, Publish, BeginCreate, InsertEntry, InsertFirstVersion, BeginUpdate, InsertVersion,
     BeginPublish, ReadFields, BeginUnpublish

\* The other requests are as far as they were, with the copies they had.
LEMMA OthersDoing ==
  ASSUME TypeOK, NEW c \in Clients, Save(c) \/ Publish(c) \/ Crash(c), NEW d \in Clients \ {c}, NEW e \in Entries
  PROVE  /\ \A step : Doing(d, step, e)' <=> Doing(d, step, e)
         /\ request'[d].found = request[d].found
         /\ request'[d].step \in PublishSteps /\ e \in request'[d].items \ request'[d].stale
              => request[d].step \in PublishSteps /\ e \in request[d].items \ request[d].stale
  BY OthersSame DEF Doing

\* A step that leaves an entry's version and versions alone, and whose request neither
\* enters nor leaves the second statement of a write of it, keeps the entry orderly.
LEMMA QuietKeeps ==
  ASSUME ServedInv, NEW e \in Entries, Orderly(e), NEW c \in Clients, Save(c) \/ Publish(c) \/ Crash(c),
         ~Doing(c, "insertFirstVersion", e)', ~Doing(c, "saveAggregate", e)',
         Clean(e)' =>
           /\ ~Doing(c, "insertFirstVersion", e) /\ ~Doing(c, "saveAggregate", e)
           /\ entry'[e].currentVersion = entry[e].currentVersion /\ versions'[e] = versions[e]
           /\ Doing(c, "insertVersion", e)' =>
                /\ 1 <= request'[c].found[e].currentVersion
                /\ request'[c].found[e].currentVersion <= entry[e].currentVersion
           /\ request'[c].step \in PublishSteps /\ e \in request'[c].items \ request'[c].stale =>
                request'[c].found[e].currentVersion \in {0, entry[e].currentVersion}
  PROVE  Orderly(e)'
<1>0. TypeOK /\ [Next]_vars
  BY DEF ServedInv, Next
<1>1. \A d \in Clients \ {c} : \A step : Doing(d, step, e)' <=> Doing(d, step, e)
  BY <1>0, OthersDoing
<1>2. \A d \in Clients \ {c} :
        /\ request'[d].found = request[d].found
        /\ request'[d].step \in PublishSteps /\ e \in request'[d].items \ request'[d].stale
             => request[d].step \in PublishSteps /\ e \in request[d].items \ request[d].stale
  BY <1>0, OthersDoing
<1>3. Exists(e) => Exists(e)'
  BY <1>0, ExistenceStays
<1>4. Clean(e)' => Clean(e)
  BY <1>0, FaultsStay DEF Clean
<1>5. FirstOnce(e)'
  BY <1>1, <1>3 DEF Orderly, FirstOnce
<1>6. ASSUME Clean(e)' PROVE Gapless(e)' /\ SaversCurrent(e)' /\ PublishersCurrent(e)'
  <2>1. (FirstPending(e)' <=> FirstPending(e)) /\ (SavePending(e)' <=> SavePending(e))
    BY <1>1, <1>6 DEF FirstPending, SavePending
  <2>2. Lowest(e)' = Lowest(e) /\ Highest(e)' = Highest(e)
    BY <1>6, <2>1 DEF Lowest, Highest
  <2>3. Gapless(e)'
    BY <1>4, <1>6, <2>2 DEF Orderly, Gapless
  <2>4. SaversCurrent(e)'
    BY <1>1, <1>2, <1>3, <1>4, <1>6 DEF Orderly, SaversCurrent
  <2>5. PublishersCurrent(e)'
    BY <1>2, <1>4, <1>6 DEF Orderly, PublishersCurrent
  <2> QED BY <2>3, <2>4, <2>5
<1> QED BY <1>5, <1>6 DEF Orderly

\* The row is inserted: the first version is yet to come.
LEMMA InsertKeeps ==
  ASSUME ServedInv, NEW e \in Entries, Orderly(e), NEW c \in Clients, InsertEntry(c, e), ~Exists(e)
  PROVE  Orderly(e)'
<1>0. TypeOK /\ Save(c) /\ request[c] \in Request
  BY DEF ServedInv, Save, TypeOK
<1>1. /\ entry'[e] = NewRow /\ versions' = versions /\ taint' = taint
      /\ request'[c] = [request[c] EXCEPT !.step = "insertFirstVersion"]
      /\ request[c].items = {e} /\ request[c].step = "insertEntry"
  BY <1>0 DEF InsertEntry, TypeOK
<1>2. request'[c].step = "insertFirstVersion" /\ request'[c].items = {e}
  BY <1>0, <1>1, StepEffect
<1>3. entry[e].currentVersion = 0 /\ entry'[e].currentVersion = 1
  BY <1>0, <1>1 DEF Exists, TypeOK, Row, NewRow
<1>4. \A d \in Clients \ {c} : \A step : Doing(d, step, e)' <=> Doing(d, step, e)
  BY <1>0, OthersDoing
<1>5. \A d \in Clients \ {c} :
        /\ request'[d].found = request[d].found
        /\ request'[d].step \in PublishSteps /\ e \in request'[d].items \ request'[d].stale
             => request[d].step \in PublishSteps /\ e \in request[d].items \ request[d].stale
  BY <1>0, OthersDoing
<1>6. FirstOnce(e)'
  BY <1>2, <1>3, <1>4 DEF Orderly, FirstOnce, Exists, Doing
<1>7. ASSUME Clean(e)' PROVE Gapless(e)' /\ SaversCurrent(e)' /\ PublishersCurrent(e)'
  <2>1. Clean(e)
    BY <1>1, <1>7 DEF Clean
  <2>2. ~Doing(c, "insertVersion", e)' /\ ~Doing(c, "saveAggregate", e)' /\ Doing(c, "insertFirstVersion", e)'
    BY <1>2 DEF Doing
  <2>3. ~SavePending(e) /\ ~FirstPending(e)
    BY <2>1 DEF Orderly, FirstOnce, SaversCurrent, SavePending, FirstPending
  <2>4. ~Doing(c, "saveAggregate", e)
    BY <1>1 DEF Doing
  <2>5. ~SavePending(e)' /\ FirstPending(e)'
    BY <1>4, <2>2, <2>3 DEF SavePending, FirstPending
  <2>6. Gapless(e)'
    BY <1>1, <1>3, <2>1, <2>3, <2>5 DEF Orderly, Gapless, Lowest, Highest
  <2>7. SaversCurrent(e)'
    <3>1. \A d \in Clients : ~Doing(d, "saveAggregate", e)'
      BY <2>5 DEF SavePending
    <3>2. ASSUME NEW d \in Clients, Doing(d, "insertVersion", e)' PROVE FALSE
      BY <1>0, <1>3, <1>4, <2>1, <2>2, <3>2 DEF Orderly, SaversCurrent, TypeOK, Request, Row
    <3> QED BY <3>1, <3>2 DEF SaversCurrent
  <2>8. PublishersCurrent(e)'
    BY <1>2, <1>3, <1>5, <2>1 DEF Orderly, PublishersCurrent, PublishSteps
  <2> QED BY <2>6, <2>7, <2>8
<1> QED BY <1>6, <1>7 DEF Orderly

\* The first version is inserted, by the one request that had it to come.
LEMMA FirstVersionKeeps ==
  ASSUME ServedInv, NEW e \in Entries, Orderly(e), NEW c \in Clients, InsertFirstVersion(c, e)
  PROVE  Orderly(e)'
<1>0. TypeOK /\ Save(c) /\ entry[e] \in Row
  BY DEF ServedInv, Save, TypeOK
<1>1. /\ entry' = entry /\ versions'[e] = versions[e] \union {1} /\ taint' = taint
      /\ request'[c] = Idle /\ Doing(c, "insertFirstVersion", e)
  BY <1>0 DEF InsertFirstVersion, TypeOK, Doing
<1>2. \A d \in Clients \ {c} : \A step : Doing(d, step, e)' <=> Doing(d, step, e)
  BY <1>0, OthersDoing
<1>3. \A d \in Clients \ {c} :
        /\ request'[d].found = request[d].found
        /\ request'[d].step \in PublishSteps /\ e \in request'[d].items \ request'[d].stale
             => request[d].step \in PublishSteps /\ e \in request[d].items \ request[d].stale
  BY <1>0, OthersDoing
<1>4. \A step : ~Doing(c, step, e)'
  BY <1>1 DEF Doing, Idle
<1>5. FirstPending(e) /\ ~FirstPending(e)' /\ Exists(e)
  BY <1>1, <1>2, <1>4 DEF Orderly, FirstOnce, FirstPending
<1>6. SavePending(e)' <=> SavePending(e)
  <2>1. ~Doing(c, "saveAggregate", e)
    BY <1>1 DEF Doing
  <2> QED BY <1>2, <1>4, <2>1 DEF SavePending
<1>7. FirstOnce(e)'
  BY <1>5 DEF FirstOnce, FirstPending
<1>8. ASSUME Clean(e)' PROVE Gapless(e)' /\ SaversCurrent(e)' /\ PublishersCurrent(e)'
  <2>1. Clean(e)
    BY <1>1, <1>8 DEF Clean
  <2>2. Lowest(e) = 2 /\ Lowest(e)' = 1 /\ Highest(e)' = Highest(e) /\ Highest(e) \in Nat /\ Highest(e) >= 1
    BY <1>0, <1>1, <1>5, <1>6 DEF Lowest, Highest, Exists, Row
  <2>3. Gapless(e)'
    BY <1>1, <2>1, <2>2 DEF Orderly, Gapless
  <2>4. SaversCurrent(e)'
    BY <1>1, <1>2, <1>3, <1>4, <2>1 DEF Orderly, SaversCurrent, Exists
  <2>5. PublishersCurrent(e)'
    BY <1>1, <1>3, <2>1 DEF Orderly, PublishersCurrent, Idle, PublishSteps
  <2> QED BY <2>3, <2>4, <2>5
<1> QED BY <1>7, <1>8 DEF Orderly

\* The next version is inserted: nobody else had inserted it, so the copy is current.
LEMMA VersionKeeps ==
  ASSUME ServedInv, NEW e \in Entries, Orderly(e), NEW c \in Clients, InsertVersion(c, e), request'[c] # Idle
  PROVE  Orderly(e)'
<1> DEFINE next == request[c].found[e].currentVersion + 1
<1>0. TypeOK /\ Save(c) /\ request[c] \in Request /\ entry[e] \in Row
  BY DEF ServedInv, Save, TypeOK
<1>1. /\ entry' = entry /\ versions'[e] = versions[e] \union {next} /\ taint' = taint /\ next \notin versions[e]
      /\ request'[c] = [request[c] EXCEPT !.step = "saveAggregate"]
      /\ request[c].items = {e} /\ request[c].step = "insertVersion"
  BY <1>0 DEF InsertVersion, TypeOK
<1>2. request'[c].step = "saveAggregate" /\ request'[c].items = {e} /\ request'[c].found = request[c].found
  BY <1>0, <1>1, StepEffect
<1>3. \A d \in Clients \ {c} : \A step : Doing(d, step, e)' <=> Doing(d, step, e)
  BY <1>0, OthersDoing
<1>4. \A d \in Clients \ {c} :
        /\ request'[d].found = request[d].found
        /\ request'[d].step \in PublishSteps /\ e \in request'[d].items \ request'[d].stale
             => request[d].step \in PublishSteps /\ e \in request[d].items \ request[d].stale
  BY <1>0, OthersDoing
<1>5. /\ Doing(c, "insertVersion", e) /\ ~Doing(c, "insertFirstVersion", e)
      /\ ~Doing(c, "insertFirstVersion", e)' /\ ~Doing(c, "insertVersion", e)' /\ Doing(c, "saveAggregate", e)'
  BY <1>1, <1>2 DEF Doing
<1>6. FirstOnce(e)'
  BY <1>1, <1>3, <1>5 DEF Orderly, FirstOnce, Exists
<1>7. ASSUME Clean(e)' PROVE Gapless(e)' /\ SaversCurrent(e)' /\ PublishersCurrent(e)'
  <2>1. Clean(e)
    BY <1>1, <1>7 DEF Clean
  <2>2. next \in Nat /\ 2 <= next /\ next <= entry[e].currentVersion + 1 /\ entry[e].currentVersion \in Nat
    BY <1>0, <1>5, <2>1 DEF Orderly, SaversCurrent, Request, Row
  <2>3. Lowest(e) \in {1, 2} /\ Highest(e) \in {entry[e].currentVersion, entry[e].currentVersion + 1}
    BY <2>2 DEF Lowest, Highest
  <2>4. ~(next <= Highest(e))
    BY <1>1, <2>1, <2>2, <2>3 DEF Orderly, Gapless
  <2>5. Highest(e) = entry[e].currentVersion /\ next = entry[e].currentVersion + 1
    BY <2>2, <2>3, <2>4
  <2>6. ~SavePending(e) /\ SavePending(e)' /\ (FirstPending(e)' <=> FirstPending(e))
    <3>1. ~SavePending(e)
      BY <2>2, <2>5 DEF Highest
    <3> QED BY <1>3, <1>5, <3>1 DEF SavePending, FirstPending
  <2>7. Lowest(e)' = Lowest(e) /\ Highest(e)' = next
    BY <1>1, <2>5, <2>6 DEF Lowest, Highest
  <2>8. Gapless(e)'
    <3> HIDE DEF next
    <3> QED BY <1>1, <2>1, <2>2, <2>3, <2>5, <2>7 DEF Orderly, Gapless
  <2>9. SaversCurrent(e)'
    <3>1. \A d \in Clients \ {c} : ~Doing(d, "saveAggregate", e)'
      BY <1>3, <2>6 DEF SavePending
    <3>2. request'[c].found[e].currentVersion = entry'[e].currentVersion /\ Exists(e)'
      <4>1. request[c].found[e].currentVersion \in Nat
        BY <1>0 DEF Request, Row
      <4> QED BY <1>1, <1>2, <2>2, <2>5, <4>1 DEF Exists
    <3> QED BY <1>1, <1>3, <1>4, <1>5, <2>1, <3>1, <3>2 DEF Orderly, SaversCurrent
  <2>10. PublishersCurrent(e)'
    BY <1>1, <1>2, <1>4, <2>1 DEF Orderly, PublishersCurrent, PublishSteps
  <2> QED BY <2>8, <2>9, <2>10
<1> QED BY <1>6, <1>7 DEF Orderly

\* The aggregate advances to the version inserted for it; publishes in flight are overtaken.
LEMMA SaveKeeps ==
  ASSUME ServedInv, NEW e \in Entries, Orderly(e), NEW c \in Clients, SaveAggregate(c, e)
  PROVE  Orderly(e)'
<1>0. TypeOK /\ Save(c) /\ entry[e] \in Row /\ request[c] \in Request /\ [Next]_vars
  BY DEF ServedInv, Save, TypeOK, Next
<1>1. /\ entry'[e] = saveDraft(request[c].found[e]) /\ versions' = versions
      /\ Overwrite(c, Idle, {e}, PublishSteps, "staleSave")
      /\ Doing(c, "saveAggregate", e)
  BY <1>0 DEF SaveAggregate, TypeOK, Doing
<1>2. \A d \in Clients \ {c} : \A step : Doing(d, step, e)' <=> Doing(d, step, e)
  BY <1>0, OthersDoing
<1>3. \A d \in Clients \ {c} : request'[d].found = request[d].found
  BY <1>0, OthersDoing
<1>4. request'[c] = Idle /\ \A step : ~Doing(c, step, e)'
  BY <1>0, <1>1 DEF Doing, Idle, Overwrite
<1>5. ASSUME NEW d \in Clients \ {c}, request'[d].step \in PublishSteps, e \in request'[d].items PROVE e \in request'[d].stale
  <2>1. request[d] \in Request /\ request[d].step = request'[d].step /\ request[d].items = request'[d].items
    BY <1>0, OthersSame DEF TypeOK
  <2> DEFINE st == request[d].stale \union ({e} \intersect request[d].items)
  <2>2. request'[d] = [request[d] EXCEPT !.stale = st]
    BY <1>1, <1>5, <2>1 DEF Overwrite
  <2>3. e \in st
    BY <1>5, <2>1
  <2> HIDE DEF st
  <2> QED BY <2>1, <2>2, <2>3 DEF Request
<1>6. Exists(e) => Exists(e)'
  BY <1>0, ExistenceStays
<1>7. FirstOnce(e)'
  BY <1>2, <1>4, <1>6 DEF Orderly, FirstOnce
<1>8. ASSUME Clean(e)' PROVE Gapless(e)' /\ SaversCurrent(e)' /\ PublishersCurrent(e)'
  <2>1. Clean(e)
    BY <1>0, <1>8, FaultsStay DEF Clean
  <2>2. entry'[e].currentVersion = entry[e].currentVersion + 1 /\ entry[e].currentVersion \in Nat
    BY <1>0, <1>1, <2>1 DEF Orderly, SaversCurrent, saveDraft, Row
  <2>3. SavePending(e) /\ ~SavePending(e)'
    BY <1>1, <1>2, <1>4, <2>1 DEF Orderly, SaversCurrent, SavePending
  <2>4. FirstPending(e)' <=> FirstPending(e)
    <3>1. ~Doing(c, "insertFirstVersion", e)
      BY <1>1 DEF Doing
    <3> QED BY <1>2, <1>4, <3>1 DEF FirstPending
  <2>5. Lowest(e)' = Lowest(e) /\ Highest(e)' = Highest(e)
    BY <2>2, <2>3, <2>4 DEF Lowest, Highest
  <2>6. Gapless(e)'
    BY <1>1, <2>1, <2>5 DEF Orderly, Gapless
  <2>7. SaversCurrent(e)'
    <3>1. \A d \in Clients : ~Doing(d, "saveAggregate", e)'
      BY <2>3 DEF SavePending
    <3>2. ASSUME NEW d \in Clients, Doing(d, "insertVersion", e)'
          PROVE  /\ 1 <= request'[d].found[e].currentVersion
                 /\ request'[d].found[e].currentVersion <= entry'[e].currentVersion
      <4>1. d # c /\ Doing(d, "insertVersion", e) /\ request'[d].found = request[d].found
        BY <1>2, <1>3, <1>4, <3>2
      <4>2. request[d].found[e].currentVersion \in Nat
        BY <1>0 DEF TypeOK, Request, Row
      <4> QED BY <2>1, <2>2, <4>1, <4>2 DEF Orderly, SaversCurrent
    <3> QED BY <3>1, <3>2 DEF SaversCurrent
  <2>8. PublishersCurrent(e)'
    BY <1>4, <1>5 DEF PublishersCurrent, Idle, PublishSteps
  <2> QED BY <2>6, <2>7, <2>8
<1> QED BY <1>7, <1>8 DEF Orderly

\* A commit of the publishing side writes the version back as it is, or is a fault.
LEMMA CommitKeeps ==
  ASSUME ServedInv, NEW e \in Entries, Orderly(e), NEW c \in Clients, CommitPublish(c) \/ CommitUnpublish(c)
  PROVE  Orderly(e)'
<1>0. TypeOK /\ Publish(c) /\ request[c] \in Request
  BY DEF ServedInv, Publish, TypeOK
<1>1. /\ request[c].step \in {"publish", "unpublish"} /\ versions' = versions
      /\ Overwrite(c, Idle, request[c].items, SaveSteps, "stalePublish")
  BY DEF CommitPublish, CommitUnpublish
<1>2. request'[c] = Idle /\ \A step : ~Doing(c, step, e)'
  BY <1>0, <1>1 DEF Doing, Idle, Overwrite
<1>3. ~Doing(c, "insertFirstVersion", e) /\ ~Doing(c, "saveAggregate", e)
  BY <1>1 DEF Doing
<1>4. ASSUME Clean(e)' PROVE entry'[e].currentVersion = entry[e].currentVersion
  <2>1. CASE e \notin request[c].items
    BY <2>1 DEF CommitPublish, CommitUnpublish
  <2>2. CASE e \in request[c].items
    <3>1. e \notin request[c].stale
      BY <1>1, <1>4, <2>2 DEF Overwrite, Clean
    <3>2. Clean(e)
      BY <1>0, <1>4, FaultsStay DEF Clean
    <3>3. request[c].found[e].currentVersion \in {0, entry[e].currentVersion}
      BY <1>1, <2>2, <3>1, <3>2 DEF Orderly, PublishersCurrent, PublishSteps
    <3>4. request[c].found[e].currentVersion > 0
      BY <1>1, <2>2 DEF ServedInv, AllComplete, Complete
    <3>5. entry'[e] \in {publish(request[c].found[e]), unpublish(request[c].found[e])}
      BY <2>2 DEF CommitPublish, CommitUnpublish
    <3>6. request[c].found[e] \in Row
      BY <1>0 DEF Request
    <3>7. /\ publish(request[c].found[e]).currentVersion = request[c].found[e].currentVersion
          /\ unpublish(request[c].found[e]).currentVersion = request[c].found[e].currentVersion
      BY <3>6 DEF publish, unpublish, Row
    <3>8. 0 \in Nat /\ ~(0 > 0)
      OBVIOUS
    <3> QED BY <3>3, <3>4, <3>5, <3>7, <3>8
  <2> QED BY <2>1, <2>2
<1>5. Idle.step \notin PublishSteps
  BY DEF Idle, PublishSteps
<1> QED BY <1>0, <1>1, <1>2, <1>3, <1>4, <1>5, QuietKeeps

LEMMA OrderlyStep == LatestInv /\ [Next]_vars => \A e \in Entries : Orderly(e)'
<1> SUFFICES ASSUME ServedInv, [Next]_vars, NEW e \in Entries, Orderly(e) PROVE Orderly(e)'
  BY DEF LatestInv
<1>0. TypeOK
  BY DEF ServedInv
<1> DEFINE Calm(c) ==
      /\ ~Doing(c, "insertFirstVersion", e)' /\ ~Doing(c, "saveAggregate", e)'
      /\ Clean(e)' =>
           /\ ~Doing(c, "insertFirstVersion", e) /\ ~Doing(c, "saveAggregate", e)
           /\ entry'[e].currentVersion = entry[e].currentVersion /\ versions'[e] = versions[e]
           /\ Doing(c, "insertVersion", e)' =>
                /\ 1 <= request'[c].found[e].currentVersion
                /\ request'[c].found[e].currentVersion <= entry[e].currentVersion
           /\ request'[c].step \in PublishSteps /\ e \in request'[c].items \ request'[c].stale =>
                request'[c].found[e].currentVersion \in {0, entry[e].currentVersion}
<1>1. CASE UNCHANGED vars
  BY <1>1 DEF vars, Orderly, FirstOnce, Clean, Gapless, SaversCurrent, PublishersCurrent, Doing, Exists,
              Lowest, Highest, FirstPending, SavePending
<1>2. SUFFICES ASSUME NEW c \in Clients, Save(c) \/ Publish(c) \/ Crash(c) PROVE Orderly(e)'
  BY <1>1, <1>2 DEF Next
<1>3. Calm(c) => Orderly(e)'
  BY <1>2, QuietKeeps
<1>4. Idle.step = "idle"
  BY DEF Idle
<1>5. ASSUME request'[c] = Idle, entry'[e] = entry[e], versions'[e] = versions[e],
             Clean(e)' => ~Doing(c, "insertFirstVersion", e) /\ ~Doing(c, "saveAggregate", e)
      PROVE  Calm(c)
  BY <1>4, <1>5 DEF Doing, PublishSteps
<1>6. ASSUME NEW x \in Entries, BeginCreate(c, x) \/ BeginUpdate(c, x) PROVE Calm(c)
  <2>1. /\ request'[c].step = (IF Exists(x) THEN "insertVersion" ELSE "insertEntry")
        /\ request'[c].items = {x} /\ entry' = entry /\ versions' = versions
        /\ \A y \in Entries : request'[c].found[y] = IF y = x THEN entry[y] ELSE NoRow
    BY <1>0, <1>6, BeginEffect
  <2>2. request[c].step = "idle"
    BY <1>6 DEF BeginCreate, BeginUpdate
  <2>3. entry[e].currentVersion \in Nat
    BY <1>0 DEF TypeOK, Row
  <2>4. Doing(c, "insertVersion", e)' => x = e /\ Exists(e)
    BY <2>1 DEF Doing
  <2> QED BY <2>1, <2>2, <2>3, <2>4 DEF Doing, PublishSteps, Exists
<1>7. ASSUME NEW x \in Entries, InsertEntry(c, x) PROVE Orderly(e)'
  <2>1. CASE x = e /\ ~Exists(e)
    BY <1>7, <2>1, InsertKeeps
  <2>2. request[c].step = "insertEntry" /\ request[c].items = {x} /\ versions' = versions
    BY <1>7 DEF InsertEntry
  <2>3. CASE Exists(x)
    <3>1. request'[c] = Idle /\ entry' = entry
      BY <1>0, <1>7, <2>3 DEF InsertEntry, TypeOK
    <3> QED BY <1>3, <1>5, <2>2, <3>1 DEF Doing
  <2>4. CASE x # e /\ ~Exists(x)
    <3>1. request'[c] = [request[c] EXCEPT !.step = "insertFirstVersion"] /\ entry'[e] = entry[e]
      BY <1>0, <1>7, <2>4 DEF InsertEntry, TypeOK
    <3>2. request'[c].step = "insertFirstVersion" /\ request'[c].items = {x}
      BY <1>0, <2>2, <3>1, StepEffect DEF TypeOK
    <3> QED BY <1>3, <2>2, <2>4, <3>1, <3>2 DEF Doing, PublishSteps
  <2> QED BY <2>1, <2>3, <2>4
<1>8. ASSUME NEW x \in Entries, InsertFirstVersion(c, x) PROVE Orderly(e)'
  <2>1. CASE x = e
    BY <1>8, <2>1, FirstVersionKeeps
  <2>2. CASE x # e
    <3>1. request'[c] = Idle /\ entry' = entry /\ versions'[e] = versions[e] /\ request[c].items = {x}
      BY <1>0, <1>8, <2>2 DEF InsertFirstVersion, TypeOK
    <3> QED BY <1>3, <1>5, <2>2, <3>1 DEF Doing
  <2> QED BY <2>1, <2>2
<1>9. ASSUME NEW x \in Entries, InsertVersion(c, x) PROVE Orderly(e)'
  <2>1. request[c].step = "insertVersion" /\ request[c].items = {x} /\ entry' = entry
    BY <1>9 DEF InsertVersion
  <2>2. CASE x = e /\ request'[c] # Idle
    BY <1>9, <2>2, VersionKeeps
  <2>3. CASE request'[c] = Idle
    <3>1. [request[c] EXCEPT !.step = "saveAggregate"].step = "saveAggregate"
      BY <1>0, StepEffect DEF TypeOK
    <3>2. versions' = versions
      BY <1>0, <1>4, <1>9, <2>3, <3>1 DEF InsertVersion, TypeOK
    <3> QED BY <1>3, <1>5, <2>1, <2>3, <3>2 DEF Doing
  <2>4. CASE x # e /\ request'[c] # Idle
    <3>1. request'[c] = [request[c] EXCEPT !.step = "saveAggregate"] /\ versions'[e] = versions[e]
      BY <1>0, <1>9, <2>4 DEF InsertVersion, TypeOK
    <3>2. request'[c].step = "saveAggregate" /\ request'[c].items = {x}
      BY <1>0, <2>1, <3>1, StepEffect DEF TypeOK
    <3> QED BY <1>3, <2>1, <2>4, <3>1, <3>2 DEF Doing, PublishSteps
  <2> QED BY <2>2, <2>3, <2>4
<1>10. ASSUME NEW x \in Entries, SaveAggregate(c, x) PROVE Orderly(e)'
  <2>1. CASE x = e
    BY <1>10, <2>1, SaveKeeps
  <2>2. CASE x # e
    <3>1. request'[c] = Idle /\ entry'[e] = entry[e] /\ versions' = versions /\ request[c].items = {x}
      BY <1>0, <1>10, <2>2 DEF SaveAggregate, Overwrite, TypeOK
    <3> QED BY <1>3, <1>5, <2>2, <3>1 DEF Doing
  <2> QED BY <2>1, <2>2
<1>11. ASSUME NEW E \in SUBSET Entries, NEW b \in Batching, BeginPublish(c, E, b) PROVE Calm(c)
  <2>1. /\ request'[c].step = "readFields" /\ entry' = entry /\ versions' = versions
        /\ request'[c].found[e] \in {entry[e], NoRow}
    BY <1>0, <1>11, BeginPublishEffect
  <2>2. request[c].step = "idle" /\ NoRow.currentVersion = 0
    BY <1>11 DEF BeginPublish, NoRow
  <2> QED BY <2>1, <2>2 DEF Doing
<1>12. ASSUME NEW E \in SUBSET Entries, NEW b \in Batching, BeginUnpublish(c, E, b) PROVE Calm(c)
  <2>1. /\ request'[c].step = "unpublish" /\ entry' = entry /\ versions' = versions
        /\ \A x \in Entries : request'[c].found[x] \in {entry[x], NoRow}
    BY <1>0, <1>12, BeginUnpublishEffect
  <2>2. request[c].step = "idle" /\ NoRow.currentVersion = 0
    BY <1>12 DEF BeginUnpublish, NoRow
  <2> QED BY <2>1, <2>2 DEF Doing
<1>13. CASE ReadFields(c)
  <2>1. request[c].step = "readFields" /\ entry' = entry /\ versions' = versions /\ taint' = taint
    BY <1>13 DEF ReadFields
  <2>2. CASE request'[c] = Idle
    BY <1>3, <1>5, <2>1, <2>2 DEF Doing
  <2>3. CASE request'[c] # Idle
    <3>1. /\ request'[c].step = "publish" /\ request'[c].found = request[c].found
          /\ request'[c].items = Publishable(request[c], FieldsRead(request[c]))
          /\ request'[c].stale = request[c].stale \intersect request'[c].items
      BY <1>0, <1>13, <2>3, ReadFieldsEffect
    <3>2. request'[c].items \subseteq request[c].items
      BY <3>1 DEF Publishable
    <3>3. Clean(e)' => Clean(e)
      BY <2>1 DEF Clean
    <3> QED BY <1>3, <2>1, <3>1, <3>2, <3>3 DEF Doing, Orderly, PublishersCurrent, PublishSteps
  <2> QED BY <2>2, <2>3
<1>14. CASE Crash(c)
  <2>1. request'[c] = Idle /\ entry' = entry /\ versions' = versions
    BY <1>0, <1>14 DEF Crash, TypeOK
  <2>2. Clean(e)' => ~Doing(c, "insertFirstVersion", e) /\ ~Doing(c, "saveAggregate", e)
    BY <1>14 DEF Crash, Clean, Doing
  <2> QED BY <1>3, <1>5, <2>1, <2>2
<1>15. CASE CommitPublish(c) \/ CommitUnpublish(c)
  BY <1>15, CommitKeeps
<1> HIDE DEF Calm
<1> QED
  BY <1>2, <1>3, <1>6, <1>7, <1>8, <1>9, <1>10, <1>11, <1>12, <1>13, <1>14, <1>15 DEF Save, Publish

\* An entry that no publish of a stale copy, no crash and no unfinished save has touched has
\* every version up to the current one - for any number of editors and publishers.
THEOREM CurrentAlwaysLatest == Spec => []CurrentIsLatest
<1>1. Init => LatestInv
  <2> SUFFICES ASSUME Init PROVE \A e \in Entries : Orderly(e)
    BY ServedInit DEF LatestInv
  <2>1. \A c \in Clients : \A e \in Entries : request[c].step = "idle"
    BY DEF Init, Idle
  <2>2. ASSUME NEW e \in Entries PROVE versions[e] = {} /\ entry[e].currentVersion = 0
    BY <2>2 DEF Init, NoRow
  <2> QED BY <2>1, <2>2 DEF Orderly, FirstOnce, Gapless, SaversCurrent, PublishersCurrent, Doing, Lowest,
             Highest, FirstPending, SavePending, PublishSteps
<1>2. LatestInv /\ [Next]_vars => LatestInv'
  BY ServedStep, OrderlyStep DEF LatestInv
<1>3. LatestInv => CurrentIsLatest
  <2> SUFFICES ASSUME LatestInv, NEW e \in Entries, Clean(e), ~Saving(e)
               PROVE  versions[e] = 1 .. entry[e].currentVersion
    BY DEF CurrentIsLatest, Clean
  <2>1. ~FirstPending(e) /\ ~SavePending(e)
    BY DEF Saving, FirstPending, SavePending, Doing
  <2>2. versions[e] \subseteq Nat /\ entry[e].currentVersion \in Nat
    BY DEF LatestInv, ServedInv, TypeOK, Row
  <2>3. \A n \in Nat : n \in versions[e] <=> 1 <= n /\ n <= entry[e].currentVersion
    BY <2>1, <2>2 DEF LatestInv, Orderly, Gapless, Lowest, Highest
  <2>4. \A n \in 1 .. entry[e].currentVersion : n \in versions[e]
    BY <2>2, <2>3
  <2>5. \A n \in versions[e] : n \in 1 .. entry[e].currentVersion
    BY <2>2, <2>3
  <2> QED BY <2>4, <2>5
<1> QED BY <1>1, <1>2, <1>3, PTL DEF Spec

-------------------------------------------------------------------------------
(***************************************************************************)
(* The indexes (EventFanOut).                                              *)
(***************************************************************************)
FanOutSteps == {"idle", "work", "read", "slice", "continue", "mark", "end"}
Calls == {"none", "drop", "fill", "lexical"}
Messages == [id : Nat \ {0}, kind : Kinds \union {"reindex"}, entries : SUBSET EntryIds, after : Nat, soFar : Nat]
Runs == [step : FanOutSteps, event : Messages \union {NoMessage}, plan : [EntryIds -> Calls],
         version : [EntryIds -> Nat], alone : SUBSET EntryIds, late : SUBSET EntryIds,
         hooks : SUBSET Webhooks, cursor : Nat, done : Nat, more : {"continue", "read", "mark"}]

FanOutType ==
  /\ served \in [EntryIds -> Nat] /\ ids \in Nat /\ queue \subseteq Messages
  /\ consumer \in [Consumers -> Runs]
  /\ vectors \in [EntryIds -> [Ordinals -> Nat]] /\ lexical \in [EntryIds -> Nat]
  /\ begun \in [EntryIds -> Nat] /\ doubt \subseteq EntryIds /\ owed \subseteq EntryIds
  /\ cut \in BOOLEAN

-------------------------------------------------------------------------------
\* A set of numbers that is not empty has a least one.
LEMMA LeastExists ==
  ASSUME NEW S \in SUBSET Nat, S # {}
  PROVE \E n \in S : \A m \in S : n <= m
<1>1. PICK n \in S : \A m \in S : <<m, n>> \notin OpToRel(<, Nat)
  BY NatLessThanWellFounded, WFMin
<1>2. \A m \in S : ~(m < n)
  BY <1>1 DEF OpToRel
<1> QED BY <1>2

\* A finite one has a greatest one: the one with the fewest numbers above it.
LEMMA GreatestExists ==
  ASSUME NEW S \in SUBSET Nat, S # {}, IsFiniteSet(S)
  PROVE Greatest(S) \in S /\ \A m \in S : m <= Greatest(S)
<1> DEFINE Above(n) == {m \in S : m > n}
           Counts == {Cardinality(Above(n)) : n \in S}
<1>1. \A n \in S : IsFiniteSet(Above(n)) /\ Cardinality(Above(n)) \in Nat
  BY FS_Subset, FS_CardinalityType
<1>2. PICK n \in S : \A m \in S : Cardinality(Above(n)) <= Cardinality(Above(m))
  <2>1. Counts \in SUBSET Nat /\ Counts # {}
    BY <1>1
  <2>2. PICK k \in Counts : \A l \in Counts : k <= l
    BY <2>1, LeastExists
  <2> QED BY <2>2
<1>3. ASSUME NEW m \in S, m > n PROVE FALSE
  <2>0. n \in Nat /\ m \in Nat /\ \A k \in S : k \in Nat
    BY <1>2, <1>3
  <2>1. \A k \in Above(m) : k \in Above(n)
    BY <1>3, <2>0
  <2>2. m \in Above(n) /\ m \notin Above(m)
    BY <1>3, <2>0
  <2>3. Above(m) \in SUBSET Above(n)
    BY <2>1
  <2> HIDE DEF Above
  <2>4. Cardinality(Above(m)) < Cardinality(Above(n))
    BY <1>1, <2>2, <2>3, FS_Subset
  <2> QED BY <1>1, <1>2, <2>4
<1>4. \A m \in S : m <= n
  BY <1>3
<1> QED BY <1>4 DEF Greatest

\* The first n numbers of a finite set come before the others.
LEMMA LeastFirst ==
  ASSUME NEW S \in SUBSET Nat, IsFiniteSet(S), NEW n \in Int, NEW e \in S, e \notin Least(n, S)
  PROVE \A f \in Least(n, S) : f < e
<1> DEFINE Below(f) == {g \in S : g < f}
<1>1. \A f \in S : IsFiniteSet(Below(f)) /\ Cardinality(Below(f)) \in Nat /\ f \in Nat
  BY FS_Subset, FS_CardinalityType
<1>2. SUFFICES ASSUME NEW f \in S, Cardinality(Below(f)) < n, ~(f < e) PROVE FALSE
  BY DEF Least
<1>3. ~(Cardinality(Below(e)) < n)
  BY DEF Least
<1>4. \A g \in Below(e) : g \in Below(f)
  BY <1>1, <1>2
<1>5. Below(e) \in SUBSET Below(f)
  BY <1>4
<1> HIDE DEF Below
<1>6. Cardinality(Below(e)) <= Cardinality(Below(f))
  BY <1>1, <1>5, FS_Subset
<1> QED BY <1>1, <1>2, <1>3, <1>6

\* When they are not all of it, they are n.
LEMMA LeastAre ==
  ASSUME NEW S \in SUBSET Nat, IsFiniteSet(S), NEW n \in Nat, NEW e \in S, e \notin Least(n, S)
  PROVE Cardinality(Least(n, S)) = n
<1> DEFINE Below(f) == {g \in S : g < f}
           L == Least(n, S)
<1>0. L \subseteq S /\ IsFiniteSet(L) /\ Cardinality(L) \in Nat
  BY FS_Subset, FS_CardinalityType DEF Least
<1>1. \A f \in S : IsFiniteSet(Below(f)) /\ Cardinality(Below(f)) \in Nat /\ f \in Nat
  BY FS_Subset, FS_CardinalityType
<1>2. \A f \in S : f \in L <=> Cardinality(Below(f)) < n
  BY DEF Least
<1>3. PICK m \in S \ L : \A k \in S \ L : m <= k
  BY <1>1, LeastExists
<1>4. \A f \in L : f < m
  BY <1>3, LeastFirst
<1>5. Below(m) = L
  <2>1. \A f \in L : f \in Below(m)
    BY <1>0, <1>4
  <2>2. \A f \in Below(m) : f \in L
    BY <1>1, <1>3
  <2> QED BY <2>1, <2>2
<1>6. n <= Cardinality(L)
  <2>1. ~(Cardinality(Below(m)) < n)
    BY <1>2, <1>3
  <2> QED BY <1>0, <1>5, <2>1
<1>7. Cardinality(L) <= n
  <2>1. CASE L = {}
    BY <2>1, FS_EmptySet
  <2>2. CASE L # {}
    <3> DEFINE g == Greatest(L)
    <3>1. g \in L /\ \A f \in L : f <= g
      BY <1>0, <1>1, <2>2, GreatestExists
    <3>2. g \in S /\ g \in Nat /\ Cardinality(Below(g)) < n
      BY <1>0, <1>1, <1>2, <3>1
    <3>3. Below(g) = L \ {g}
      <4>1. ASSUME NEW f \in L, f # g PROVE f \in Below(g)
        <5>1. f \in S /\ f \in Nat /\ f <= g
          BY <1>0, <1>1, <3>1
        <5>2. f < g
          BY <3>2, <4>1, <5>1
        <5> QED BY <5>1, <5>2
      <4>2. \A f \in Below(g) : f \in L \ {g}
        <5> SUFFICES ASSUME NEW f \in S, f < g, f \notin L PROVE FALSE
          BY <3>2
        <5>1. g < f
          BY <3>1, LeastFirst
        <5> QED BY <1>1, <3>2, <5>1
      <4> QED BY <4>1, <4>2
    <3>4. Cardinality(L \ {g}) = Cardinality(L) - 1
      BY <1>0, <3>1, FS_RemoveElement
    <3> HIDE DEF L, Below, g
    <3> QED BY <1>0, <1>1, <3>2, <3>3, <3>4
  <2> QED BY <2>1, <2>2
<1>8. Cardinality(L) = n
  <2> HIDE DEF L
  <2> QED BY <1>0, <1>6, <1>7
<1> QED BY <1>8

-------------------------------------------------------------------------------
\* The entries are numbers, the first of them 1 or more.
LEMMA EntryIdsAre == EntryIds \in SUBSET Nat /\ IsFiniteSet(EntryIds) /\ \A e \in EntryIds : e \in Nat /\ e > 0
  BY FanOutAssumption

\* A consumer that waits is one with nothing to do.
LEMMA WaitingIs ==
  /\ Waiting \in Runs /\ Waiting.step = "idle" /\ Waiting.event = NoMessage /\ NoMessage.entries = {}
  /\ Waiting.alone = {} /\ Planned(Waiting.plan) = {}
  BY DEF Waiting, Runs, FanOutSteps, Calls, NoMessage, Message, Planned

\* What a slice starts with.
LEMMA SliceIs ==
  ASSUME NEW event \in Messages, NEW step \in FanOutSteps
  PROVE /\ Slice(event, step) \in Runs /\ Slice(event, step).step = step /\ Slice(event, step).event = event
        /\ Slice(event, step).cursor = event.after /\ Slice(event, step).alone = {}
        /\ Planned(Slice(event, step).plan) = {}
  BY DEF Slice, Waiting, Runs, FanOutSteps, Calls, Messages, Message, NoMessage, Planned

\* The rows of a version, and what an upsert makes of the rows that are there.
LEMMA RowsAre ==
  ASSUME NEW v \in Nat
  PROVE /\ Rows(v) \in [Ordinals -> Nat] /\ NoRows \in [Ordinals -> Nat]
        /\ \A old \in [Ordinals -> Nat] : Upserted(old, v) \in [Ordinals -> Nat]
        /\ Upserted(NoRows, v) = Rows(v)
<1>1. \A i \in Ordinals : NoRows[i] = 0
  BY DEF NoRows, Rows
<1>2. Rows(v) \in [Ordinals -> Nat] /\ NoRows \in [Ordinals -> Nat]
  BY DEF NoRows, Rows
<1>3. \A old \in [Ordinals -> Nat] : Upserted(old, v) \in [Ordinals -> Nat]
  BY DEF Upserted
<1>4. Upserted(NoRows, v) = Rows(v)
  BY <1>1 DEF Upserted, Rows
<1> QED BY <1>2, <1>3, <1>4

\* The order of the calls.
LEMMA CallsFollow ==
  ASSUME NEW v
  PROVE /\ NextCall("none", v) = "drop" /\ NextCall("fill", v) = "lexical" /\ NextCall("lexical", v) = "none"
        /\ NextCall("drop", v) = IF v = 0 THEN "lexical" ELSE "fill"
        /\ \A call \in Calls : NextCall(call, v) \in Calls
  BY DEF NextCall, Calls

\* The next call is about an entry of the plan.
LEMMA CurrentIsPlanned ==
  ASSUME NEW run \in Runs, Planned(run.plan) # {}
  PROVE Current(run) \in EntryIds /\ run.plan[Current(run)] # "none"
<1> DEFINE unindexed == {e \in EntryIds : run.plan[e] \in {"drop", "fill"}}
           S == IF run.step = "work" /\ unindexed # {} THEN unindexed ELSE Planned(run.plan)
<1>1. S # {} /\ \A e \in S : e \in EntryIds /\ run.plan[e] # "none"
  BY DEF Planned
<1>2. S \in SUBSET Nat
  BY <1>1, EntryIdsAre
<1>3. \E e \in S : \A f \in S : e <= f
  BY <1>1, <1>2, LeastExists
<1>4. Current(run) \in S
  BY <1>3 DEF Current
<1> QED BY <1>1, <1>4

\* What a consumer does, but for whom it meets.
SameRun(c) ==
  /\ consumer'[c].step = consumer[c].step /\ consumer'[c].event = consumer[c].event
  /\ consumer'[c].plan = consumer[c].plan /\ consumer'[c].version = consumer[c].version
  /\ consumer'[c].late = consumer[c].late /\ consumer'[c].cursor = consumer[c].cursor
  /\ consumer'[c].more = consumer[c].more /\ consumer'[c].alone \subseteq consumer[c].alone

\* What a handler is at its start.
Starts(run, c, S, version, next) ==
  /\ run \in Runs /\ run.step = next.step /\ run.event = next.event /\ run.late = next.late
  /\ run.cursor = next.cursor /\ run.more = next.more /\ run.version = version
  /\ \A e \in EntryIds : run.plan[e] = IF e \in S THEN "drop" ELSE "none"
  /\ \A e \in EntryIds : e \in run.alone <=>
       e \in S /\ \A d \in Consumers \ {c} : consumer[d].plan[e] = "none"

\* What a handling is when it begins.
LEMMA StartedIs ==
  ASSUME FanOutType, NEW c \in Consumers, NEW S \in SUBSET EntryIds, NEW version \in [EntryIds -> Nat],
         NEW next \in Runs
  PROVE Starts(Started(c, S, version, next), c, S, version, next)
<1> DEFINE plan == [e \in EntryIds |-> IF e \in S THEN NextCall("none", version[e]) ELSE "none"]
           alone == S \ UNION {Touching(o) : o \in Consumers \ {c}}
           run == Started(c, S, version, next)
<1>1. plan \in [EntryIds -> Calls] /\ \A e \in EntryIds : plan[e] = IF e \in S THEN "drop" ELSE "none"
  BY CallsFollow DEF Calls
<1>2. alone \in SUBSET EntryIds
  OBVIOUS
<1>3. \A e \in EntryIds : e \in alone <=> e \in S /\ \A d \in Consumers \ {c} : consumer[d].plan[e] = "none"
  BY DEF Touching, Planned
<1>4. run = [next EXCEPT !.version = version, !.plan = plan, !.alone = alone]
  BY DEF Started
<1> HIDE DEF plan, alone, run
<1>5. /\ run \in Runs /\ run.step = next.step /\ run.event = next.event /\ run.late = next.late
      /\ run.cursor = next.cursor /\ run.more = next.more /\ run.version = version
      /\ run.plan = plan /\ run.alone = alone
  BY <1>1, <1>2, <1>4 DEF Runs
<1>6. Starts(run, c, S, version, next)
  BY <1>1, <1>3, <1>5 DEF Starts
<1> QED BY <1>6 DEF run

\* What the others are when a handling begins.
LEMMA OthersMet ==
  ASSUME FanOutType, NEW c \in Consumers, NEW S \in SUBSET EntryIds,
         \A k \in Consumers \ {c} : consumer'[k] = Met(consumer[k], S)
  PROVE \A d \in Consumers \ {c} :
          consumer'[d] \in Runs /\ SameRun(d) /\ consumer'[d].alone = consumer[d].alone \ S
<1> SUFFICES ASSUME NEW d \in Consumers \ {c}
             PROVE consumer'[d] \in Runs /\ SameRun(d) /\ consumer'[d].alone = consumer[d].alone \ S
  OBVIOUS
<1>1. consumer'[d] = [consumer[d] EXCEPT !.alone = @ \ S] /\ consumer[d] \in Runs
  BY DEF FanOutType, Met
<1> QED BY <1>1 DEF Runs, SameRun

\* What the actions make of the consumers: only the step changes ...
LEMMA StepEffectOf ==
  ASSUME FanOutType, NEW c \in Consumers, NEW s \in FanOutSteps, consumer' = [consumer EXCEPT ![c].step = s]
  PROVE /\ consumer' \in [Consumers -> Runs] /\ \A d \in Consumers \ {c} : consumer'[d] = consumer[d]
        /\ consumer'[c].step = s /\ consumer'[c].event = consumer[c].event
        /\ consumer'[c].plan = consumer[c].plan /\ consumer'[c].version = consumer[c].version
        /\ consumer'[c].alone = consumer[c].alone /\ consumer'[c].late = consumer[c].late
        /\ consumer'[c].cursor = consumer[c].cursor /\ consumer'[c].more = consumer[c].more
<1>1. consumer \in [Consumers -> Runs]
  BY DEF FanOutType
<1>2. PICK run : run = [consumer[c] EXCEPT !.step = s]
  OBVIOUS
<1>3. /\ run \in Runs /\ run.step = s /\ run.event = consumer[c].event /\ run.plan = consumer[c].plan
      /\ run.version = consumer[c].version /\ run.alone = consumer[c].alone /\ run.late = consumer[c].late
      /\ run.cursor = consumer[c].cursor /\ run.more = consumer[c].more
  BY <1>1, <1>2 DEF Runs
<1>4. consumer' = [consumer EXCEPT ![c] = run]
  BY <1>2
<1>5. /\ consumer' \in [Consumers -> Runs] /\ consumer'[c] = run
      /\ \A d \in Consumers \ {c} : consumer'[d] = consumer[d]
  BY <1>1, <1>3, <1>4
<1> QED BY <1>3, <1>5

\* ... an event is begun ...
LEMMA TakeEffect ==
  ASSUME FanOutType, NEW c \in Consumers, NEW event \in queue, Take(c, event)
  PROVE /\ consumer' \in [Consumers -> Runs]
        /\ \A d \in Consumers \ {c} : SameRun(d) /\ consumer'[d].alone = consumer[d].alone \ Indexable(event)
        /\ consumer'[c].step = "work" /\ consumer'[c].event = event
        /\ consumer'[c].late = Overtaken(event)
        /\ consumer'[c].version = VersionOf(event)
        /\ \A e \in EntryIds : consumer'[c].plan[e] = IF e \in Indexable(event) THEN "drop" ELSE "none"
        /\ \A e \in EntryIds : e \in consumer'[c].alone <=>
             e \in Indexable(event) /\ \A d \in Consumers \ {c} : consumer[d].plan[e] = "none"
<1> DEFINE next == [Waiting EXCEPT !.step = "work", !.event = event, !.hooks = Webhooks, !.late = Overtaken(event)]
<1> DEFINE S == Indexable(event)
<1>1. event \in Messages /\ event.entries \in SUBSET EntryIds /\ event.id \in Nat
  BY DEF FanOutType, Messages
<1>2. S \in SUBSET EntryIds /\ Overtaken(event) \in SUBSET EntryIds
  BY <1>1 DEF Indexable, Overtaken
<1> HIDE DEF S
<1>3. VersionOf(event) \in [EntryIds -> Nat]
  BY <1>1 DEF VersionOf, FanOutType
<1>4. next \in Runs /\ next.step = "work" /\ next.event = event /\ next.late = Overtaken(event)
  BY <1>1, <1>2, WaitingIs DEF Runs, FanOutSteps
<1> HIDE DEF next
<1>5. PICK run : run = Started(c, S, VersionOf(event), next)
  OBVIOUS
<1>6. /\ run \in Runs /\ run.step = next.step /\ run.event = next.event /\ run.late = next.late
      /\ run.version = VersionOf(event)
      /\ \A e \in EntryIds : run.plan[e] = IF e \in S THEN "drop" ELSE "none"
      /\ \A e \in EntryIds : e \in run.alone <=>
           e \in S /\ \A d \in Consumers \ {c} : consumer[d].plan[e] = "none"
  <2>1. Starts(run, c, S, VersionOf(event), next)
    BY <1>2, <1>3, <1>4, <1>5, StartedIs
  <2> QED BY <2>1 DEF Starts
<1>7. consumer' = [k \in Consumers |-> IF k = c THEN run ELSE Met(consumer[k], S)]
  BY <1>5 DEF Take, Begin, next, S
<1> HIDE DEF next
<1>8. consumer'[c] = run /\ \A k \in Consumers \ {c} : consumer'[k] = Met(consumer[k], S)
  BY <1>7
<1>9. \A d \in Consumers \ {c} :
        consumer'[d] \in Runs /\ SameRun(d) /\ consumer'[d].alone = consumer[d].alone \ S
  BY <1>2, <1>8, OthersMet
<1>10. consumer' \in [Consumers -> Runs]
  BY <1>6, <1>7, <1>8, <1>9
<1> QED BY <1>4, <1>6, <1>8, <1>9, <1>10 DEF S

\* ... or a slice ...
LEMMA TakeSliceEffect ==
  ASSUME FanOutType, NEW c \in Consumers, NEW event \in queue, TakeSlice(c, event)
  PROVE /\ consumer' \in [Consumers -> Runs] /\ \A d \in Consumers \ {c} : consumer'[d] = consumer[d]
        /\ consumer'[c] = Slice(event, "read") /\ event \in Messages
<1>1. event \in Messages /\ consumer \in [Consumers -> Runs] /\ "read" \in FanOutSteps
  BY DEF FanOutType, FanOutSteps
<1>2. Slice(event, "read") \in Runs
  BY <1>1, SliceIs
<1>3. consumer' = [consumer EXCEPT ![c] = Slice(event, "read")]
  BY DEF TakeSlice
<1> QED BY <1>1, <1>2, <1>3

\* ... a webhook is told ...
LEMMA SendEffect ==
  ASSUME FanOutType, NEW c \in Consumers, NEW w \in Webhooks, Send(c, w)
  PROVE /\ consumer' \in [Consumers -> Runs] /\ \A d \in Consumers : SameRun(d)
        /\ \A d \in Consumers : consumer'[d].alone = consumer[d].alone
<1>0. consumer \in [Consumers -> Runs]
  BY DEF FanOutType
<1>1. PICK run : run = [consumer[c] EXCEPT !.hooks = consumer[c].hooks \ {w}]
  OBVIOUS
<1>2. /\ run \in Runs /\ run.step = consumer[c].step /\ run.event = consumer[c].event /\ run.plan = consumer[c].plan
      /\ run.version = consumer[c].version /\ run.alone = consumer[c].alone /\ run.late = consumer[c].late
      /\ run.cursor = consumer[c].cursor /\ run.more = consumer[c].more
  BY <1>0, <1>1 DEF Runs
<1>3. consumer' = [consumer EXCEPT ![c] = run]
  BY <1>1 DEF Send
<1>4. /\ consumer' \in [Consumers -> Runs] /\ consumer'[c] = run
      /\ \A d \in Consumers \ {c} : consumer'[d] = consumer[d]
  BY <1>0, <1>2, <1>3
<1>5. SameRun(c) /\ consumer'[c].alone = consumer[c].alone
  BY <1>2, <1>4 DEF SameRun
<1> QED BY <1>4, <1>5 DEF SameRun

\* The call is about the entry e.
LEMMA WorkEffect ==
  ASSUME FanOutType, NEW c \in Consumers, Work(c), NEW e, e = Current(consumer[c])
  PROVE /\ e \in EntryIds /\ consumer[c].plan[e] # "none" /\ consumer[c].step \in {"work", "slice"}
        /\ consumer' \in [Consumers -> Runs] /\ \A d \in Consumers \ {c} : consumer'[d] = consumer[d]
        /\ consumer'[c].event = consumer[c].event /\ consumer'[c].version = consumer[c].version
        /\ consumer'[c].alone = consumer[c].alone /\ consumer'[c].late = consumer[c].late
        /\ consumer'[c].cursor = consumer[c].cursor /\ consumer'[c].more = consumer[c].more
        /\ consumer'[c].plan[e] = NextCall(consumer[c].plan[e], consumer[c].version[e])
        /\ \A f \in EntryIds \ {e} : consumer'[c].plan[f] = consumer[c].plan[f]
        /\ consumer'[c].step = IF consumer[c].step = "slice" /\ Planned(consumer'[c].plan) = {}
                               THEN consumer[c].more ELSE consumer[c].step
<1> DEFINE run == consumer[c]
           plan == [run.plan EXCEPT ![e] = NextCall(run.plan[e], run.version[e])]
           step == IF run.step = "slice" /\ Planned(plan) = {} THEN run.more ELSE run.step
<1>1. run \in Runs /\ consumer \in [Consumers -> Runs]
  BY DEF FanOutType
<1>2. e \in EntryIds /\ run.plan[e] # "none" /\ run.step \in {"work", "slice"}
  BY <1>1, CurrentIsPlanned DEF Work
<1>3. plan \in [EntryIds -> Calls]
  BY <1>1, <1>2, CallsFollow DEF Runs
<1>4. plan[e] = NextCall(run.plan[e], run.version[e]) /\ \A f \in EntryIds \ {e} : plan[f] = run.plan[f]
  BY <1>1, <1>2 DEF Runs
<1>5. consumer' = [consumer EXCEPT ![c].plan = plan, ![c].step = step]
  BY DEF Work
<1>6. step \in FanOutSteps
  BY <1>1 DEF Runs, FanOutSteps
<1> HIDE DEF plan, step
<1>7. /\ consumer' \in [Consumers -> Runs] /\ \A d \in Consumers \ {c} : consumer'[d] = consumer[d]
      /\ consumer'[c].event = run.event /\ consumer'[c].version = run.version
      /\ consumer'[c].alone = run.alone /\ consumer'[c].late = run.late
      /\ consumer'[c].cursor = run.cursor /\ consumer'[c].more = run.more
      /\ consumer'[c].plan = plan /\ consumer'[c].step = step
  BY <1>1, <1>3, <1>5, <1>6 DEF Runs
<1> QED BY <1>2, <1>4, <1>7 DEF step

\* What is left of the budget, the page, and the entries of it that are to be indexed.
LeftOf(c) == Budget(consumer[c].event) - consumer[c].done
PageOf(c) == Least(PageSize, {e \in EntryIds : e > consumer[c].cursor /\ served[e] # 0})
NowOf(c) == Least(LeftOf(c), PageOf(c))

\* ... a page is read ...
LEMMA ReadEffectOf ==
  ASSUME FanOutType, NEW c \in Consumers, ReadPage(c)
  PROVE /\ LeftOf(c) \in Int /\ PageOf(c) \in SUBSET EntryIds /\ NowOf(c) \in SUBSET PageOf(c)
        /\ consumer' \in [Consumers -> Runs]
        /\ \A d \in Consumers \ {c} : SameRun(d) /\ consumer'[d].alone = consumer[d].alone \ NowOf(c)
        /\ consumer'[c].event = consumer[c].event /\ consumer'[c].late = consumer[c].late
        /\ consumer'[c].version = served
        /\ \A e \in EntryIds : consumer'[c].plan[e] = IF e \in NowOf(c) THEN "drop" ELSE "none"
        /\ \A e \in EntryIds : e \in consumer'[c].alone <=>
             e \in NowOf(c) /\ \A d \in Consumers \ {c} : consumer[d].plan[e] = "none"
        /\ LET more == IF Cardinality(PageOf(c)) > LeftOf(c) THEN "continue"
                       ELSE IF Cardinality(PageOf(c)) = PageSize THEN "read" ELSE "mark"
           IN IF NowOf(c) = {} THEN consumer'[c].step = more /\ consumer'[c].cursor = consumer[c].cursor
              ELSE /\ consumer'[c].step = "slice" /\ consumer'[c].more = more
                   /\ consumer'[c].cursor = Greatest(NowOf(c)) /\ Greatest(NowOf(c)) \in NowOf(c)
<1> DEFINE page == PageOf(c)
           left == LeftOf(c)
           S == NowOf(c)
           run == consumer[c]
           more == IF Cardinality(page) > left THEN "continue"
                   ELSE IF Cardinality(page) = PageSize THEN "read" ELSE "mark"
           next == IF S = {} THEN [run EXCEPT !.step = more]
                   ELSE [run EXCEPT !.step = "slice", !.more = more, !.done = @ + Cardinality(S),
                                    !.cursor = Greatest(S)]
<1>1. run \in Runs /\ run.event \in Messages \union {NoMessage} /\ run.done \in Nat
  BY DEF FanOutType, Runs
<1>2. run.event.soFar \in Nat
  BY <1>1 DEF Messages, NoMessage, Message
<1>3. left \in Int
  BY <1>1, <1>2, FanOutAssumption DEF Budget, LeftOf
<1>4. page \in SUBSET EntryIds /\ S \in SUBSET page
  BY DEF Least, PageOf, NowOf
<1>5. S \in SUBSET Nat /\ IsFiniteSet(S) /\ Cardinality(S) \in Nat
  BY <1>4, EntryIdsAre, FS_Subset, FS_CardinalityType
<1>6. S # {} => Greatest(S) \in S /\ Greatest(S) \in Nat
  BY <1>5, GreatestExists
<1>7. more \in {"continue", "read", "mark"}
  OBVIOUS
<1>9. served \in [EntryIds -> Nat] /\ S \in SUBSET EntryIds
  BY <1>4 DEF FanOutType
<1> HIDE DEF more, page, left, S
<1>10. /\ next \in Runs /\ next.event = run.event /\ next.late = run.late
       /\ IF S = {} THEN next.step = more /\ next.cursor = run.cursor
          ELSE next.step = "slice" /\ next.more = more /\ next.cursor = Greatest(S)
  <2>1. CASE S = {}
    <3>1. next = [run EXCEPT !.step = more]
      BY <2>1
    <3> QED BY <1>1, <1>7, <2>1, <3>1 DEF Runs, FanOutSteps
  <2>2. CASE S # {}
    <3>1. next = [run EXCEPT !.step = "slice", !.more = more, !.done = run.done + Cardinality(S),
                             !.cursor = Greatest(S)]
      BY <2>2
    <3>2. run.done + Cardinality(S) \in Nat
      BY <1>1, <1>5
    <3> QED BY <1>1, <1>6, <1>7, <2>2, <3>1, <3>2 DEF Runs, FanOutSteps
  <2> QED BY <2>1, <2>2
<1>11. PICK started : started = Started(c, S, served, next)
  OBVIOUS
<1>12. /\ started \in Runs /\ started.step = next.step /\ started.event = next.event /\ started.late = next.late
       /\ started.cursor = next.cursor /\ started.more = next.more /\ started.version = served
       /\ \A e \in EntryIds : started.plan[e] = IF e \in S THEN "drop" ELSE "none"
       /\ \A e \in EntryIds : e \in started.alone <=>
            e \in S /\ \A d \in Consumers \ {c} : consumer[d].plan[e] = "none"
  <2>1. Starts(started, c, S, served, next)
    BY <1>9, <1>10, <1>11, StartedIs
  <2> QED BY <2>1 DEF Starts
<1>13. consumer' = [k \in Consumers |-> IF k = c THEN started ELSE Met(consumer[k], S)]
  BY <1>11 DEF ReadPage, Begin, next, run, more, S, page, left, PageOf, LeftOf, NowOf
<1> HIDE DEF next, run
<1>14. consumer'[c] = started /\ \A k \in Consumers \ {c} : consumer'[k] = Met(consumer[k], S)
  BY <1>13
<1>15. \A d \in Consumers \ {c} :
         consumer'[d] \in Runs /\ SameRun(d) /\ consumer'[d].alone = consumer[d].alone \ S
  BY <1>9, <1>14, OthersMet
<1>16. consumer' \in [Consumers -> Runs]
  BY <1>12, <1>13, <1>14, <1>15
<1> QED BY <1>3, <1>4, <1>6, <1>10, <1>12, <1>14, <1>15, <1>16 DEF more, run, S, page, left

\* ... and the consumer waits again.
LEMMA ResetEffect ==
  ASSUME FanOutType, NEW c \in Consumers, consumer' = [consumer EXCEPT ![c] = Waiting]
  PROVE /\ consumer' \in [Consumers -> Runs] /\ \A d \in Consumers \ {c} : consumer'[d] = consumer[d]
        /\ consumer'[c] = Waiting
  BY WaitingIs DEF FanOutType

-------------------------------------------------------------------------------
\* The types at the start.
LEMMA FanOutTypeInit == ASSUME FanOutInit PROVE FanOutType
<1>1. Greatest(EntryIds) \in Nat
  BY EntryIdsAre, GreatestExists, FanOutAssumption
<1>2. [e \in EntryIds |-> e] \in [EntryIds -> Nat]
  BY EntryIdsAre
<1>3. [e \in EntryIds |-> Rows(e)] \in [EntryIds -> [Ordinals -> Nat]]
  BY EntryIdsAre, RowsAre
<1>4. [c \in Consumers |-> Waiting] \in [Consumers -> Runs]
  BY WaitingIs
<1> QED BY <1>1, <1>2, <1>3, <1>4 DEF FanOutInit, FanOutType

\* A message that is made has a new id.
LEMMA MessageIs ==
  ASSUME NEW id \in Nat \ {0}, NEW kind \in Kinds \union {"reindex"}, NEW S \in SUBSET EntryIds,
         NEW after \in Nat, NEW soFar \in Nat
  PROVE /\ Message(id, kind, S, after, soFar) \in Messages /\ Message(id, kind, S, after, soFar).id = id
        /\ Message(id, kind, S, after, soFar).kind = kind /\ Message(id, kind, S, after, soFar).entries = S
        /\ Message(id, kind, S, after, soFar).after = after
  BY DEF Message, Messages

\* Each action keeps the types.
LEMMA FanOutTypeStep == ASSUME FanOutType, [FanOutNext]_fanOutVars PROVE FanOutType'
<1>1. ASSUME NEW S \in SUBSET EntryIds, NEW kind \in Kinds, Commit(kind, S) PROVE FanOutType'
  <2>1. ids' = ids + 1 /\ ids' \in Nat \ {0}
    BY <1>1 DEF Commit, FanOutType
  <2>2. served' \in [EntryIds -> Nat]
    BY <1>1, <2>1 DEF Commit, FanOutType
  <2>3. Message(ids', kind, S, 0, 0) \in Messages
    BY <2>1, MessageIs
  <2>4. queue' \subseteq Messages
    BY <1>1, <2>3 DEF Commit, FanOutType
  <2>5. owed' \subseteq EntryIds
    BY <1>1 DEF Commit, FanOutType
  <2> QED BY <1>1, <2>1, <2>2, <2>4, <2>5 DEF Commit, FanOutType, indexes
<1>2. CASE RequestReindex
  <2>1. ids' \in Nat \ {0}
    BY <1>2 DEF RequestReindex, FanOutType
  <2>2. Message(ids', "reindex", {}, 0, 0) \in Messages
    BY <2>1, MessageIs
  <2>3. queue' \subseteq Messages
    BY <1>2, <2>2 DEF RequestReindex, FanOutType
  <2> QED BY <1>2, <2>1, <2>3 DEF RequestReindex, FanOutType, indexes
<1>3. ASSUME NEW c \in Consumers, NEW event \in queue, Take(c, event) PROVE FanOutType'
  <2>1. consumer' \in [Consumers -> Runs]
    BY <1>3, TakeEffect
  <2>2. event.id \in Nat
    BY DEF FanOutType, Messages
  <2>3. begun' \in [EntryIds -> Nat]
    BY <1>3, <2>2 DEF Take, FanOutType
  <2> QED BY <1>3, <2>1, <2>3 DEF Take, FanOutType, indexes
<1>4. ASSUME NEW c \in Consumers, NEW event \in queue, TakeSlice(c, event) PROVE FanOutType'
  <2>1. consumer' \in [Consumers -> Runs]
    BY <1>4, TakeSliceEffect
  <2> QED BY <1>4, <2>1 DEF TakeSlice, FanOutType, indexes, hist
<1>5. ASSUME NEW c \in Consumers, NEW w \in Webhooks, Send(c, w) PROVE FanOutType'
  <2>1. consumer' \in [Consumers -> Runs]
    BY <1>5, SendEffect
  <2> QED BY <1>5, <2>1 DEF Send, FanOutType, indexes, hist
<1>6. ASSUME NEW c \in Consumers, Work(c) PROVE FanOutType'
  <2> DEFINE run == consumer[c]
  <2>0. PICK e : e = Current(run)
    OBVIOUS
  <2>1. consumer' \in [Consumers -> Runs] /\ e \in EntryIds
    BY <1>6, <2>0, WorkEffect
  <2>2. run.version[e] \in Nat
    BY <2>1 DEF FanOutType, Runs
  <2>3. /\ vectors' = [vectors EXCEPT ![e] = CASE run.plan[e] = "drop" -> NoRows
                                               [] run.plan[e] = "fill" -> Upserted(vectors[e], run.version[e])
                                               [] OTHER -> vectors[e]]
        /\ lexical' = [lexical EXCEPT ![e] = IF run.plan[e] = "lexical" THEN run.version[e] ELSE lexical[e]]
    BY <1>6, <2>0 DEF Work
  <2>4. vectors' \in [EntryIds -> [Ordinals -> Nat]]
    BY <2>1, <2>2, <2>3, RowsAre DEF FanOutType
  <2>5. lexical' \in [EntryIds -> Nat]
    BY <2>1, <2>2, <2>3 DEF FanOutType
  <2>6. doubt' \in SUBSET EntryIds /\ owed' \in SUBSET EntryIds
    BY <1>6, <2>0, <2>1 DEF Work, FanOutType
  <2> QED BY <1>6, <2>1, <2>4, <2>5, <2>6 DEF Work, FanOutType
<1>7. ASSUME NEW c \in Consumers, Known(c) PROVE FanOutType'
  <2>1. consumer' \in [Consumers -> Runs]
    BY <1>7, StepEffectOf DEF Known, FanOutSteps
  <2> QED BY <1>7, <2>1 DEF Known, FanOutType, indexes, hist
<1>8. ASSUME NEW c \in Consumers, ReadPage(c) PROVE FanOutType'
  <2>1. consumer' \in [Consumers -> Runs]
    BY <1>8, ReadEffectOf
  <2> QED BY <1>8, <2>1 DEF ReadPage, FanOutType, indexes, hist
<1>9. ASSUME NEW c \in Consumers, Continue(c) PROVE FanOutType'
  <2>1. consumer' \in [Consumers -> Runs]
    BY <1>9, StepEffectOf DEF Continue, FanOutSteps
  <2>2. consumer[c].cursor \in Nat /\ consumer[c].event.soFar + consumer[c].done \in Nat /\ ids + 1 \in Nat \ {0}
    BY DEF FanOutType, Runs, Messages, NoMessage, Message
  <2>3. Message(ids + 1, "reindex", {}, consumer[c].cursor, consumer[c].event.soFar + consumer[c].done) \in Messages
    BY <2>2, MessageIs
  <2>4. ids' \in Nat /\ queue' \subseteq Messages /\ cut' \in BOOLEAN
    BY <1>9, <2>2, <2>3 DEF Continue, FanOutType
  <2> QED BY <1>9, <2>1, <2>4 DEF Continue, FanOutType, indexes
<1>10. ASSUME NEW c \in Consumers, Mark(c) PROVE FanOutType'
  <2>1. consumer' \in [Consumers -> Runs]
    BY <1>10, StepEffectOf DEF Mark, FanOutSteps
  <2> QED BY <1>10, <2>1 DEF Mark, FanOutType, indexes, hist
<1>11. ASSUME NEW c \in Consumers, Settle(c) PROVE FanOutType'
  <2>1. consumer' \in [Consumers -> Runs]
    BY <1>11, ResetEffect DEF Settle
  <2> QED BY <1>11, <2>1 DEF Settle, FanOutType, indexes, hist
<1>12. ASSUME NEW c \in Consumers, Break(c) PROVE FanOutType'
  <2>1. consumer' \in [Consumers -> Runs]
    BY <1>12, ResetEffect DEF Break
  <2>2. consumer[c].event.entries \subseteq EntryIds /\ Touching(c) \subseteq EntryIds
    BY DEF FanOutType, Runs, Messages, NoMessage, Message, Touching, Planned
  <2>3. queue' \subseteq Messages /\ doubt' \subseteq EntryIds /\ cut' \in BOOLEAN
    BY <1>12, <2>2 DEF Break, FanOutType
  <2> QED BY <1>12, <2>1, <2>3 DEF Break, FanOutType, indexes
<1>13. CASE UNCHANGED fanOutVars
  BY <1>13 DEF fanOutVars, FanOutType
<1> QED BY <1>1, <1>2, <1>3, <1>4, <1>5, <1>6, <1>7, <1>8, <1>9, <1>10, <1>11, <1>12, <1>13 DEF FanOutNext

-------------------------------------------------------------------------------
\* A consumer acts.
Acts(c) ==
  \/ \E event \in queue : Take(c, event) \/ TakeSlice(c, event)
  \/ \E w \in Webhooks : Send(c, w)
  \/ Work(c) \/ Known(c) \/ ReadPage(c) \/ Continue(c) \/ Mark(c)
  \/ Settle(c) \/ Break(c)

\* Known, Continue and Mark, and Settle and Break, as far as the consumer goes.
LEMMA OtherActs ==
  ASSUME NEW c \in Consumers
  PROVE /\ Known(c) => consumer[c].step = "read" /\ consumer' = [consumer EXCEPT ![c].step = "end"]
        /\ Continue(c) => consumer[c].step = "continue" /\ consumer' = [consumer EXCEPT ![c].step = "mark"]
        /\ Mark(c) => consumer[c].step = "mark" /\ consumer' = [consumer EXCEPT ![c].step = "end"]
        /\ Settle(c) \/ Break(c) => consumer' = [consumer EXCEPT ![c] = Waiting]
  BY DEF Known, Continue, Mark, Settle, Break

\* The others go on with what they do.
LEMMA OthersGoOn ==
  ASSUME FanOutType, NEW c \in Consumers, Acts(c), NEW d \in Consumers \ {c}
  PROVE SameRun(d)
<1>1. ASSUME NEW event \in queue, Take(c, event) PROVE SameRun(d)
  BY <1>1, TakeEffect
<1>2. ASSUME NEW event \in queue, TakeSlice(c, event) PROVE SameRun(d)
  <2>1. consumer'[d] = consumer[d]
    BY <1>2, TakeSliceEffect
  <2> QED BY <2>1 DEF SameRun
<1>3. ASSUME NEW w \in Webhooks, Send(c, w) PROVE SameRun(d)
  BY <1>3, SendEffect
<1>4. ASSUME Work(c) PROVE SameRun(d)
  <2>1. consumer'[d] = consumer[d]
    BY <1>4, WorkEffect
  <2> QED BY <2>1 DEF SameRun
<1>5. ASSUME ReadPage(c) PROVE SameRun(d)
  <2> QED BY <1>5, ReadEffectOf
<1>6. ASSUME Known(c) \/ Continue(c) \/ Mark(c) \/ Settle(c) \/ Break(c) PROVE SameRun(d)
  <2>1. consumer'[d] = consumer[d]
    <3>1. "end" \in FanOutSteps /\ "mark" \in FanOutSteps
      BY DEF FanOutSteps
    <3> QED BY <1>6, <3>1, OtherActs, StepEffectOf, ResetEffect
  <2> QED BY <2>1 DEF SameRun
<1> QED BY <1>1, <1>2, <1>3, <1>4, <1>5, <1>6 DEF Acts

\* Only consumers change what consumers do.
LEMMA SomeoneActs ==
  ASSUME [FanOutNext]_fanOutVars
  PROVE \/ \E c \in Consumers : Acts(c)
        \/ RequestReindex /\ UNCHANGED consumer
        \/ (\E S \in SUBSET EntryIds, kind \in Kinds : Commit(kind, S)) /\ UNCHANGED consumer
        \/ UNCHANGED fanOutVars /\ UNCHANGED consumer
<1>1. RequestReindex => UNCHANGED consumer
  BY DEF RequestReindex
<1>2. (\E S \in SUBSET EntryIds, kind \in Kinds : Commit(kind, S)) => UNCHANGED consumer
  BY DEF Commit
<1>3. UNCHANGED fanOutVars => UNCHANGED consumer
  BY DEF fanOutVars
<1> QED BY <1>1, <1>2, <1>3 DEF FanOutNext, Acts

\* A message that is not settled, or that a consumer has.
Alive(m) == m \in queue \/ \E c \in Consumers : consumer[c].step # "idle" /\ consumer[c].event = m

\* The numbers are given out once, in order.
Numbered ==
  /\ \A m \in Messages : Alive(m) => m.id <= ids /\ (m.kind = "reindex" => m.entries = {})
  /\ \A m, n \in Messages : Alive(m) /\ Alive(n) /\ m.id = n.id => m = n
  /\ \A e \in EntryIds : begun[e] <= ids

\* An event that a consumer has is begun; a consumer plans calls only at work.
Busy == \A c \in Consumers :
  /\ consumer[c].step # "idle" => consumer[c].event \in Messages
  /\ \A e \in consumer[c].event.entries : begun[e] >= consumer[c].event.id
  /\ \A e \in EntryIds : consumer[c].plan[e] # "none" => consumer[c].step \in {"work", "slice"}

\* Where the consumers' messages come from.
LEMMA HeldStep ==
  ASSUME FanOutType, [FanOutNext]_fanOutVars, NEW d \in Consumers, consumer'[d].step # "idle"
  PROVE \/ consumer'[d].event \in queue
        \/ consumer[d].step # "idle" /\ consumer'[d].event = consumer[d].event
<1>1. ASSUME NEW event \in queue, Take(d, event) PROVE consumer'[d].event = event
  BY <1>1, TakeEffect
<1>2. ASSUME NEW event \in queue, TakeSlice(d, event) PROVE consumer'[d].event = event
  <2>1. event \in Messages /\ consumer'[d] = Slice(event, "read")
    BY <1>2, TakeSliceEffect
  <2> QED BY <2>1, SliceIs DEF FanOutSteps
<1>3. ASSUME SameRun(d) PROVE consumer[d].step # "idle" /\ consumer'[d].event = consumer[d].event
  BY <1>3 DEF SameRun
<1>4. ASSUME Work(d) PROVE consumer[d].step # "idle" /\ consumer'[d].event = consumer[d].event
  BY <1>4, WorkEffect
<1>5. ASSUME ReadPage(d) PROVE consumer[d].step # "idle" /\ consumer'[d].event = consumer[d].event
  <2>4. consumer'[d].event = consumer[d].event
    BY <1>5, ReadEffectOf
  <2> QED BY <1>5, <2>4 DEF ReadPage
<1>6. ASSUME Known(d) \/ Continue(d) \/ Mark(d)
      PROVE consumer[d].step # "idle" /\ consumer'[d].event = consumer[d].event
  BY <1>6, OtherActs, StepEffectOf DEF FanOutSteps
<1>7. ASSUME Settle(d) \/ Break(d) PROVE FALSE
  BY <1>7, OtherActs, ResetEffect, WaitingIs
<1>8. ASSUME NEW w \in Webhooks, Send(d, w) PROVE SameRun(d)
  BY <1>8, SendEffect
<1>9. Acts(d) => \/ consumer'[d].event \in queue
                 \/ consumer[d].step # "idle" /\ consumer'[d].event = consumer[d].event
  BY <1>1, <1>2, <1>3, <1>4, <1>5, <1>6, <1>7, <1>8 DEF Acts
<1> QED BY <1>3, <1>9, OthersGoOn, SomeoneActs

\* What becomes of the queue and of the numbers.
LEMMA QueueStep ==
  ASSUME FanOutType, [FanOutNext]_fanOutVars
  PROVE /\ ids' \in Nat /\ ids' >= ids
        /\ \A m \in queue' \ queue :
             /\ ids' = ids + 1 /\ m.id = ids' /\ m \in Messages
             /\ m.kind = "reindex" => m.entries = {}
             /\ \A n \in queue' \ queue : m = n
        /\ \A e \in EntryIds : begun'[e] \in Nat /\ begun'[e] >= begun[e]
        /\ \A e \in EntryIds : begun'[e] = begun[e] \/ \E m \in queue : begun'[e] = m.id
<1>0. ids \in Nat /\ \A e \in EntryIds : begun[e] \in Nat
  BY DEF FanOutType
<1>1. ASSUME NEW S \in SUBSET EntryIds, NEW kind \in Kinds, Commit(kind, S)
      PROVE ids' = ids + 1 /\ UNCHANGED begun /\
            \E m \in Messages : m.id = ids' /\ m.kind # "reindex" /\ queue' = queue \union {m}
  <2>0. PICK zero \in Nat, id \in Nat \ {0} : zero = 0 /\ id = ids + 1
    BY <1>0
  <2>1. PICK m : m = Message(id, kind, S, zero, zero)
    OBVIOUS
  <2>2. m \in Messages /\ m.id = id /\ m.kind = kind
    <3>1. kind \in Kinds \union {"reindex"}
      OBVIOUS
    <3> QED BY <2>1, <3>1, MessageIs
  <2>3. ids' = id /\ UNCHANGED begun /\ queue' = queue \union {m}
    BY <1>1, <2>0, <2>1 DEF Commit
  <2> QED BY <2>0, <2>2, <2>3 DEF Kinds, Publishing
<1>2. ASSUME RequestReindex
      PROVE ids' = ids + 1 /\ UNCHANGED begun /\
            \E m \in Messages : m.id = ids' /\ m.entries = {} /\ queue' = queue \union {m}
  <2>0. PICK zero \in Nat, id \in Nat \ {0} : zero = 0 /\ id = ids + 1
    BY <1>0
  <2>1. PICK m : m = Message(id, "reindex", {}, zero, zero)
    OBVIOUS
  <2>2. m \in Messages /\ m.id = id /\ m.entries = {}
    <3>1. {} \in SUBSET EntryIds /\ "reindex" \in Kinds \union {"reindex"}
      OBVIOUS
    <3> QED BY <2>1, <3>1, MessageIs
  <2>3. ids' = id /\ UNCHANGED begun /\ queue' = queue \union {m}
    BY <1>2, <2>0, <2>1 DEF RequestReindex
  <2> QED BY <2>0, <2>2, <2>3
<1>3. ASSUME NEW c \in Consumers, Continue(c)
      PROVE /\ UNCHANGED begun
            /\ \/ UNCHANGED <<ids, queue>>
               \/ /\ ids' = ids + 1
                  /\ \E m \in Messages : m.id = ids' /\ m.entries = {} /\ queue' = queue \union {m}
  <2>0. consumer[c].cursor \in Nat /\ consumer[c].event.soFar + consumer[c].done \in Nat
    BY DEF FanOutType, Runs, Messages, NoMessage, Message
  <2>1. PICK after \in Nat, total \in Nat :
              after = consumer[c].cursor /\ total = consumer[c].event.soFar + consumer[c].done
    BY <2>0
  <2>2. PICK m : m = Message(ids + 1, "reindex", {}, after, total)
    OBVIOUS
  <2>3. m \in Messages /\ m.id = ids + 1 /\ m.entries = {}
    <3>1. ids + 1 \in Nat \ {0} /\ {} \in SUBSET EntryIds /\ "reindex" \in Kinds \union {"reindex"}
      BY <1>0
    <3> QED BY <2>2, <3>1, MessageIs
  <2>5. UNCHANGED <<ids, queue>> \/ (ids' = ids + 1 /\ queue' = queue \union {m})
    BY <1>3, <2>1, <2>2 DEF Continue
  <2>4. UNCHANGED begun
    BY <1>3 DEF Continue
  <2> QED BY <2>3, <2>4, <2>5
<1>4. ASSUME NEW c \in Consumers, NEW event \in queue, Take(c, event)
      PROVE UNCHANGED <<ids, queue>> /\ begun' = [e \in EntryIds |->
               IF e \in event.entries /\ begun[e] < event.id THEN event.id ELSE begun[e]]
  BY <1>4 DEF Take
<1>5. ASSUME NEW c \in Consumers, Settle(c) \/ Break(c)
      PROVE UNCHANGED <<ids, begun>> /\ queue' \subseteq queue
  BY <1>5 DEF Settle, Break, hist
<1>6. ASSUME NEW c \in Consumers,
             \/ \E event \in queue : TakeSlice(c, event)
             \/ \E w \in Webhooks : Send(c, w)
             \/ Work(c) \/ Known(c) \/ ReadPage(c) \/ Mark(c)
      PROVE UNCHANGED <<ids, queue, begun>>
  BY <1>6 DEF TakeSlice, Send, Work, Known, ReadPage, Mark, hist
<1>7. \A m \in queue : m.id \in Nat
  BY DEF FanOutType, Messages
<1>8. CASE \E S \in SUBSET EntryIds, kind \in Kinds : Commit(kind, S)
  BY <1>0, <1>1, <1>8
<1>9. CASE RequestReindex
  BY <1>0, <1>2, <1>9
<1>10. CASE \E c \in Consumers : Continue(c)
  BY <1>0, <1>3, <1>10
<1>11. CASE \E c \in Consumers, event \in queue : Take(c, event)
  BY <1>0, <1>4, <1>7, <1>11
<1>12. CASE \E c \in Consumers : Settle(c) \/ Break(c)
  BY <1>0, <1>5, <1>12
<1>13. CASE UNCHANGED <<ids, queue, begun>>
  BY <1>0, <1>13
<1> QED BY <1>6, <1>8, <1>9, <1>10, <1>11, <1>12, <1>13 DEF FanOutNext, fanOutVars

\* The numbers stay in order.
LEMMA NumberedStep ==
  ASSUME FanOutType, Numbered, Busy, [FanOutNext]_fanOutVars PROVE Numbered'
<1>0. ids \in Nat /\ \A m \in queue : m \in Messages
  BY DEF FanOutType
<1>1. ASSUME NEW m \in Messages, Alive(m)' PROVE Alive(m) \/ m \in queue' \ queue
  <2>1. CASE m \in queue'
    BY <2>1 DEF Alive
  <2>2. CASE \E c \in Consumers : consumer'[c].step # "idle" /\ consumer'[c].event = m
    BY <2>2, HeldStep DEF Alive
  <2> QED BY <1>1, <2>1, <2>2 DEF Alive
<1>2. \A m \in Messages : Alive(m) => m.id \in Nat /\ m.id <= ids
  BY DEF Numbered, Messages
<1>3. \A m \in queue' \ queue : m.id = ids + 1 /\ ids' = ids + 1
  BY QueueStep
<1>4. \A m \in Messages : Alive(m)' => m.id <= ids' /\ (m.kind = "reindex" => m.entries = {})
  <2> SUFFICES ASSUME NEW m \in Messages, Alive(m)' PROVE m.id <= ids' /\ (m.kind = "reindex" => m.entries = {})
    OBVIOUS
  <2>1. CASE Alive(m)
    BY <1>0, <1>2, <2>1, QueueStep DEF Numbered
  <2>2. CASE m \in queue' \ queue
    BY <1>0, <2>2, QueueStep
  <2> QED BY <1>1, <2>1, <2>2
<1>5. \A m, n \in Messages : Alive(m)' /\ Alive(n)' /\ m.id = n.id => m = n
  <2> SUFFICES ASSUME NEW m \in Messages, NEW n \in Messages, Alive(m)', Alive(n)', m.id = n.id PROVE m = n
    OBVIOUS
  <2>1. CASE Alive(m) /\ Alive(n)
    BY <2>1 DEF Numbered
  <2>2. CASE m \in queue' \ queue /\ n \in queue' \ queue
    BY <2>2, QueueStep
  <2>3. CASE Alive(m) /\ n \in queue' \ queue
    BY <1>0, <1>2, <1>3, <2>3
  <2>4. CASE m \in queue' \ queue /\ Alive(n)
    BY <1>0, <1>2, <1>3, <2>4
  <2> QED BY <1>1, <2>1, <2>2, <2>3, <2>4
<1>6. \A e \in EntryIds : begun'[e] <= ids'
  <2> SUFFICES ASSUME NEW e \in EntryIds PROVE begun'[e] <= ids'
    OBVIOUS
  <2>1. \A m \in queue : m.id <= ids /\ m.id \in Nat
    BY <1>0, <1>2 DEF Alive
  <2>2. begun[e] <= ids /\ begun[e] \in Nat
    BY DEF Numbered, FanOutType
  <2>3. ids' \in Nat /\ ids' >= ids /\ (begun'[e] = begun[e] \/ \E m \in queue : begun'[e] = m.id)
    BY QueueStep
  <2> QED BY <1>0, <2>1, <2>2, <2>3
<1> QED BY <1>4, <1>5, <1>6 DEF Numbered

\* What a consumer has to do stays begun.
LEMMA BusyStep ==
  ASSUME FanOutType, Numbered, Busy, [FanOutNext]_fanOutVars PROVE Busy'
<1> SUFFICES ASSUME NEW d \in Consumers
             PROVE /\ consumer'[d].step # "idle" => consumer'[d].event \in Messages
                   /\ \A e \in consumer'[d].event.entries : begun'[e] >= consumer'[d].event.id
                   /\ \A e \in EntryIds : consumer'[d].plan[e] # "none" => consumer'[d].step \in {"work", "slice"}
  BY DEF Busy
<1>1. consumer'[d].step # "idle" => consumer'[d].event \in Messages
  BY HeldStep DEF FanOutType, Busy
<1>2. \A e \in consumer[d].event.entries : e \in EntryIds /\ begun[e] \in Nat /\ consumer[d].event.id \in Nat
  BY DEF FanOutType, Runs, Messages, NoMessage, Message
<1>3. ASSUME consumer'[d].event = consumer[d].event
      PROVE \A e \in consumer'[d].event.entries : begun'[e] >= consumer'[d].event.id
  <2> SUFFICES ASSUME NEW e \in consumer[d].event.entries PROVE begun'[e] >= consumer[d].event.id
    BY <1>3
  <2>1. begun'[e] \in Nat /\ begun'[e] >= begun[e]
    BY <1>2, QueueStep
  <2>2. begun[e] >= consumer[d].event.id
    BY DEF Busy
  <2> QED BY <1>2, <2>1, <2>2
<1>4. ASSUME SameRun(d)
      PROVE /\ \A e \in consumer'[d].event.entries : begun'[e] >= consumer'[d].event.id
            /\ \A e \in EntryIds : consumer'[d].plan[e] # "none" => consumer'[d].step \in {"work", "slice"}
  BY <1>3, <1>4 DEF SameRun, Busy
<1>5. ASSUME NEW event \in queue, Take(d, event)
      PROVE /\ \A e \in consumer'[d].event.entries : begun'[e] >= consumer'[d].event.id
            /\ consumer'[d].step = "work"
  <2>1. consumer'[d].event = event /\ consumer'[d].step = "work"
    BY <1>5, TakeEffect
  <2>2. event.entries \subseteq EntryIds /\ event.id \in Nat /\ \A e \in EntryIds : begun[e] \in Nat
    BY DEF FanOutType, Messages
  <2>3. begun' = [e \in EntryIds |-> IF e \in event.entries /\ begun[e] < event.id THEN event.id ELSE begun[e]]
    BY <1>5 DEF Take
  <2> QED BY <2>1, <2>2, <2>3
<1>6. ASSUME NEW event \in queue, TakeSlice(d, event)
      PROVE consumer'[d].event.entries = {} /\ \A e \in EntryIds : consumer'[d].plan[e] = "none"
  <2>1. event \in Messages /\ consumer'[d] = Slice(event, "read") /\ event.kind = "reindex"
    BY <1>6, TakeSliceEffect DEF TakeSlice
  <2>2. event.entries = {}
    BY <2>1 DEF Numbered, Alive
  <2> QED BY <2>1, <2>2, SliceIs DEF FanOutSteps, Planned
<1>7. ASSUME Work(d)
      PROVE /\ consumer'[d].event = consumer[d].event
            /\ \A e \in EntryIds : consumer'[d].plan[e] # "none" => consumer'[d].step \in {"work", "slice"}
  BY <1>7, WorkEffect DEF Planned
<1>8. ASSUME ReadPage(d)
      PROVE /\ consumer'[d].event = consumer[d].event
            /\ \A e \in EntryIds : consumer'[d].plan[e] # "none" => consumer'[d].step \in {"work", "slice"}
  <2>1. /\ consumer'[d].event = consumer[d].event
        /\ \A e \in EntryIds : consumer'[d].plan[e] = IF e \in NowOf(d) THEN "drop" ELSE "none"
        /\ NowOf(d) # {} => consumer'[d].step = "slice"
    BY <1>8, ReadEffectOf
  <2> QED BY <2>1
<1>9. ASSUME consumer[d].step \in {"read", "continue", "mark"},
             \E s \in FanOutSteps : consumer' = [consumer EXCEPT ![d].step = s]
      PROVE consumer'[d].event = consumer[d].event /\ \A e \in EntryIds : consumer'[d].plan[e] = "none"
  <2>1. consumer'[d].event = consumer[d].event /\ consumer'[d].plan = consumer[d].plan
    BY <1>9, StepEffectOf
  <2> QED BY <1>9, <2>1 DEF Busy
<1>10. ASSUME consumer' = [consumer EXCEPT ![d] = Waiting]
       PROVE consumer'[d].event.entries = {} /\ \A e \in EntryIds : consumer'[d].plan[e] = "none"
  BY <1>10, ResetEffect, WaitingIs DEF Planned
<1>11. ASSUME NEW w \in Webhooks, Send(d, w) PROVE SameRun(d)
  BY <1>11, SendEffect
<1>12. Known(d) \/ Continue(d) \/ Mark(d) =>
         /\ consumer[d].step \in {"read", "continue", "mark"}
         /\ \E s \in FanOutSteps : consumer' = [consumer EXCEPT ![d].step = s]
  BY OtherActs DEF FanOutSteps
<1>13. Acts(d) => /\ \A e \in consumer'[d].event.entries : begun'[e] >= consumer'[d].event.id
                  /\ \A e \in EntryIds : consumer'[d].plan[e] # "none" => consumer'[d].step \in {"work", "slice"}
  BY <1>3, <1>4, <1>5, <1>6, <1>7, <1>8, <1>9, <1>10, <1>11, <1>12, OtherActs DEF Acts
<1>14. UNCHANGED consumer => SameRun(d)
  BY DEF SameRun
<1> QED BY <1>1, <1>4, <1>13, <1>14, OthersGoOn, SomeoneActs

-------------------------------------------------------------------------------
\* An event of the entry that is newer than n is in the queue; and one that nobody has begun.
Newer(e, n) == \E m \in queue : e \in m.entries /\ m.id > n
Pending(e) == Newer(e, begun[e])

\* What the read model has of an entry whose last event this is.
Told(m) == IF m.kind \in Publishing THEN m.id ELSE 0

EventsTold ==
  \A m \in queue : \A e \in m.entries : begun[e] > m.id \/ Newer(e, m.id) \/ served[e] = Told(m)

\* The entry's handling has the entry to itself, writes what is served unless a newer event
\* is to come, and has left the indexes as its calls so far leave them.
AloneWith(c, e) ==
  /\ \A d \in Consumers \ {c} : consumer[d].plan[e] = "none"
  /\ e \notin consumer[c].late => consumer[c].version[e] = served[e] \/ Pending(e)
  /\ consumer[c].plan[e] = "fill" => vectors[e] = NoRows
  /\ consumer[c].plan[e] = "lexical" => vectors[e] = Rows(consumer[c].version[e])
Undisturbed == \A c \in Consumers, e \in EntryIds :
  e \in consumer[c].alone /\ consumer[c].plan[e] # "none" => AloneWith(c, e)

InWork(e) == \E c \in Consumers : consumer[c].plan[e] # "none"
Indexed(e) == lexical[e] = served[e] /\ vectors[e] = Rows(served[e])
Handled == \A e \in EntryIds \ doubt : InWork(e) \/ Pending(e) \/ Indexed(e)

SearchInv == FanOutType /\ Numbered /\ Busy /\ EventsTold /\ Undisturbed /\ Handled

\* The queue, as far as one entry goes: what stays in it, and what the events tell.
LEMMA CommitTells ==
  ASSUME FanOutType, NEW S \in SUBSET EntryIds, NEW kind \in Kinds, Commit(kind, S)
  PROVE \E m \in Messages :
          /\ queue' = queue \union {m} /\ m.id = ids + 1 /\ m.entries = S
          /\ \A e \in EntryIds : served'[e] = IF e \in S THEN Told(m) ELSE served[e]
<1>1. ids + 1 \in Nat \ {0}
  BY DEF FanOutType
<1>2. PICK m : m = Message(ids + 1, kind, S, 0, 0)
  OBVIOUS
<1>3. m \in Messages /\ m.id = ids + 1 /\ m.entries = S /\ m.kind = kind
  BY <1>1, <1>2, MessageIs
<1>4. queue' = queue \union {m} /\ ids' = ids + 1
  BY <1>2 DEF Commit
<1>5. served' = [e \in EntryIds |-> IF e \notin S THEN served[e] ELSE IF kind \in Publishing THEN ids' ELSE 0]
  BY DEF Commit
<1> QED BY <1>3, <1>4, <1>5 DEF Told

\* Reindexing has no events of entries.
LEMMA SlicesTellNothing ==
  ASSUME FanOutType, RequestReindex \/ \E c \in Consumers : Continue(c)
  PROVE /\ \A m \in queue' : m \in queue \/ m.entries = {}
        /\ queue \subseteq queue' /\ UNCHANGED <<served, begun, vectors, lexical, doubt>>
<1>1. ids + 1 \in Nat \ {0}
  BY DEF FanOutType
<1>2. CASE RequestReindex
  <2>1. Message(ids + 1, "reindex", {}, 0, 0).entries = {}
    BY DEF Message
  <2> QED BY <1>2, <2>1 DEF RequestReindex, indexes
<1>3. ASSUME NEW c \in Consumers, Continue(c)
      PROVE /\ \A m \in queue' : m \in queue \/ m.entries = {}
            /\ queue \subseteq queue' /\ UNCHANGED <<served, begun, vectors, lexical, doubt>>
  <2>1. Message(ids', "reindex", {}, consumer[c].cursor, consumer[c].event.soFar + consumer[c].done).entries = {}
    BY DEF Message
  <2> QED BY <1>3, <2>1 DEF Continue, indexes
<1> QED BY <1>2, <1>3

\* What is begun.
LEMMA TakeTells ==
  ASSUME FanOutType, NEW c \in Consumers, NEW event \in queue, Take(c, event)
  PROVE /\ UNCHANGED <<queue, served, vectors, lexical, doubt>>
        /\ event \in Messages /\ event.id \in Nat \ {0} /\ event.entries \subseteq EntryIds
        /\ \A e \in EntryIds :
             begun'[e] = IF e \in event.entries /\ begun[e] < event.id THEN event.id ELSE begun[e]
<1>1. event \in Messages
  BY DEF FanOutType
<1> QED BY <1>1 DEF Take, Messages, indexes

\* What leaves the queue has been begun.
LEMMA SettledTells ==
  ASSUME FanOutType, Busy, NEW c \in Consumers, Settle(c) \/ Break(c)
  PROVE /\ UNCHANGED <<served, begun, vectors, lexical>> /\ queue' \subseteq queue
        /\ \A m \in queue \ queue' : \A e \in m.entries : begun[e] >= m.id
<1>1. UNCHANGED <<served, begun, vectors, lexical>> /\ (queue' = queue \/ queue' = queue \ {consumer[c].event})
  BY DEF Settle, Break, hist, indexes
<1> QED BY <1>1 DEF Busy

\* An event that is to come stays to come until it is begun.
LEMMA PendingStays ==
  ASSUME FanOutType, Numbered, Busy, EventsTold, [FanOutNext]_fanOutVars, NEW e \in EntryIds, Pending(e),
         \A c \in Consumers, event \in queue : Take(c, event) => e \notin Indexable(event)
  PROVE Pending(e)'
<1>0. /\ begun[e] \in Nat /\ \A m \in queue : m \in Messages /\ m.id \in Nat
  BY DEF FanOutType, Messages
<1>1. PICK m \in queue : e \in m.entries /\ m.id > begun[e]
  BY DEF Pending, Newer
<1>2. ASSUME UNCHANGED begun, m \in queue' PROVE Pending(e)'
  BY <1>1, <1>2 DEF Pending, Newer
<1>3. ASSUME NEW S \in SUBSET EntryIds, NEW kind \in Kinds, Commit(kind, S) PROVE Pending(e)'
  BY <1>1, <1>2, <1>3 DEF Commit
<1>4. ASSUME RequestReindex \/ \E c \in Consumers : Continue(c) PROVE Pending(e)'
  BY <1>1, <1>2, <1>4, SlicesTellNothing
<1>5. ASSUME NEW c \in Consumers, NEW event \in queue, Take(c, event) PROVE Pending(e)'
  <2>1. /\ UNCHANGED <<queue, served>> /\ event.id \in Nat \ {0}
        /\ begun'[e] = IF e \in event.entries /\ begun[e] < event.id THEN event.id ELSE begun[e]
    BY <1>5, TakeTells
  <2>2. CASE begun'[e] = begun[e] \/ m.id > event.id
    BY <1>0, <1>1, <2>1, <2>2 DEF Pending, Newer
  <2>3. CASE begun'[e] # begun[e] /\ m.id <= event.id
    <3>1. e \in event.entries /\ begun[e] < event.id /\ begun'[e] = event.id
      BY <2>1, <2>3
    <3>2. event.kind = "published_bulk" /\ served[e] = 0
      BY <1>5, <3>1 DEF Indexable
    <3>3. served[e] # Told(event)
      BY <2>1, <3>2 DEF Told, Publishing
    <3>4. ~(begun[e] > event.id)
      BY <1>0, <2>1, <3>1
    <3>5. Newer(e, event.id)
      BY <3>1, <3>3, <3>4 DEF EventsTold
    <3> QED BY <2>1, <3>1, <3>5 DEF Pending, Newer
  <2> QED BY <1>0, <2>1, <2>2, <2>3
<1>6. ASSUME NEW c \in Consumers, Settle(c) \/ Break(c) PROVE Pending(e)'
  <2>1. UNCHANGED begun /\ \A n \in queue \ queue' : \A f \in n.entries : begun[f] >= n.id
    BY <1>6, SettledTells
  <2>2. m \in queue'
    BY <1>0, <1>1, <2>1
  <2> QED BY <1>2, <2>1, <2>2
<1>7. ASSUME NEW c \in Consumers,
             \/ \E event \in queue : TakeSlice(c, event)
             \/ \E w \in Webhooks : Send(c, w)
             \/ Work(c) \/ Known(c) \/ ReadPage(c) \/ Mark(c)
      PROVE Pending(e)'
  BY <1>1, <1>2, <1>7 DEF TakeSlice, Send, Work, Known, ReadPage, Mark, hist
<1>8. ASSUME UNCHANGED fanOutVars PROVE Pending(e)'
  BY <1>1, <1>2, <1>8 DEF fanOutVars
<1> QED BY <1>3, <1>4, <1>5, <1>6, <1>7, <1>8 DEF FanOutNext

\* The last event of an entry tells what is served of it.
LEMMA EventsToldStep ==
  ASSUME FanOutType, Numbered, Busy, EventsTold, [FanOutNext]_fanOutVars PROVE EventsTold'
<1>0. \A m \in queue : m \in Messages /\ m.id \in Nat /\ m.entries \subseteq EntryIds /\ m.id <= ids
  BY DEF FanOutType, Messages, Numbered, Alive
<1>00. ids \in Nat /\ \A e \in EntryIds : begun[e] \in Nat
  BY DEF FanOutType
<1>1. SUFFICES ASSUME NEW m \in queue', NEW e \in m.entries
               PROVE begun'[e] > m.id \/ Newer(e, m.id)' \/ served'[e] = Told(m)
  BY DEF EventsTold, Told
<1>2. ASSUME m \in queue, begun'[e] >= begun[e], begun'[e] \in Nat, served'[e] = served[e],
             Newer(e, m.id) => Newer(e, m.id)'
      PROVE begun'[e] > m.id \/ Newer(e, m.id)' \/ served'[e] = Told(m)
  BY <1>0, <1>00, <1>2 DEF EventsTold
<1>3. ASSUME NEW S \in SUBSET EntryIds, NEW kind \in Kinds, Commit(kind, S)
      PROVE begun'[e] > m.id \/ Newer(e, m.id)' \/ served'[e] = Told(m)
  <2>1. PICK n \in Messages : /\ queue' = queue \union {n} /\ n.id = ids + 1 /\ n.entries = S
                              /\ \A f \in EntryIds : served'[f] = IF f \in S THEN Told(n) ELSE served[f]
    BY <1>3, CommitTells
  <2>2. CASE m = n
    BY <2>1, <2>2
  <2>3. CASE m \in queue /\ e \in S
    <3>1. n.id > m.id
      BY <1>0, <1>00, <2>1, <2>3
    <3> QED BY <2>1, <2>3, <3>1 DEF Newer
  <2>4. CASE m \in queue /\ e \notin S
    <3>1. UNCHANGED begun
      BY <1>3 DEF Commit
    <3> QED BY <1>0, <1>00, <1>2, <2>1, <2>4, <3>1 DEF Newer
  <2> QED BY <2>1, <2>2, <2>3, <2>4
<1>4. ASSUME RequestReindex \/ \E c \in Consumers : Continue(c)
      PROVE begun'[e] > m.id \/ Newer(e, m.id)' \/ served'[e] = Told(m)
  BY <1>0, <1>00, <1>2, <1>4, SlicesTellNothing DEF Newer
<1>5. ASSUME NEW c \in Consumers, NEW event \in queue, Take(c, event)
      PROVE begun'[e] > m.id \/ Newer(e, m.id)' \/ served'[e] = Told(m)
  BY <1>0, <1>00, <1>2, <1>5, TakeTells DEF Newer
<1>6. ASSUME NEW c \in Consumers, Settle(c) \/ Break(c)
      PROVE begun'[e] > m.id \/ Newer(e, m.id)' \/ served'[e] = Told(m)
  <2>1. /\ UNCHANGED <<served, begun>> /\ queue' \subseteq queue
        /\ \A n \in queue \ queue' : \A f \in n.entries : begun[f] >= n.id
    BY <1>6, SettledTells
  <2>2. CASE Newer(e, m.id)
    <3>1. PICK n \in queue : e \in n.entries /\ n.id > m.id
      BY <2>2 DEF Newer
    <3>2. CASE n \in queue'
      BY <3>1, <3>2 DEF Newer
    <3>3. CASE n \notin queue'
      <4>1. begun[e] >= n.id
        BY <2>1, <3>1, <3>3
      <4> QED BY <1>0, <1>00, <2>1, <3>1, <4>1
    <3> QED BY <3>2, <3>3
  <2>3. CASE ~Newer(e, m.id)
    BY <2>1, <2>3 DEF EventsTold
  <2> QED BY <2>2, <2>3
<1>7. ASSUME UNCHANGED <<queue, served, begun>>
      PROVE begun'[e] > m.id \/ Newer(e, m.id)' \/ served'[e] = Told(m)
  BY <1>7 DEF EventsTold, Newer
<1>8. ASSUME NEW c \in Consumers,
             \/ \E event \in queue : TakeSlice(c, event)
             \/ \E w \in Webhooks : Send(c, w)
             \/ Work(c) \/ Known(c) \/ ReadPage(c) \/ Mark(c)
      PROVE UNCHANGED <<queue, served, begun>>
  BY <1>8 DEF TakeSlice, Send, Work, Known, ReadPage, Mark, hist
<1>9. UNCHANGED fanOutVars => UNCHANGED <<queue, served, begun>>
  BY DEF fanOutVars
<1> QED BY <1>3, <1>4, <1>5, <1>6, <1>7, <1>8, <1>9 DEF FanOutNext

\* The indexes of an entry change with a call about it.
LEMMA IndexesKept ==
  ASSUME FanOutType, [FanOutNext]_fanOutVars, NEW e \in EntryIds,
         \A c \in Consumers : Work(c) => e # Current(consumer[c])
  PROVE /\ vectors'[e] = vectors[e] /\ lexical'[e] = lexical[e]
        /\ e \in doubt => e \in doubt'
<1>1. ASSUME NEW c \in Consumers, Work(c)
      PROVE /\ vectors'[e] = vectors[e] /\ lexical'[e] = lexical[e]
            /\ e \in doubt => e \in doubt'
  <2>1. PICK f : f = Current(consumer[c])
    OBVIOUS
  <2>2. f # e
    BY <1>1, <2>1
  <2>3. \E r, v : vectors' = [vectors EXCEPT ![f] = r] /\ lexical' = [lexical EXCEPT ![f] = v]
    BY <1>1, <2>1 DEF Work
  <2>4. doubt' = doubt \/ doubt' = doubt \ {f} \/ doubt' = doubt \union {f}
    BY <1>1, <2>1 DEF Work
  <2> QED BY <2>2, <2>3, <2>4 DEF FanOutType
<1>2. ASSUME UNCHANGED <<vectors, lexical>> /\ doubt \subseteq doubt'
      PROVE /\ vectors'[e] = vectors[e] /\ lexical'[e] = lexical[e]
            /\ e \in doubt => e \in doubt'
  BY <1>2
<1>3. RequestReindex \/ (\E S \in SUBSET EntryIds, kind \in Kinds : Commit(kind, S)) \/ UNCHANGED fanOutVars
        => UNCHANGED <<vectors, lexical>> /\ doubt \subseteq doubt'
  BY DEF RequestReindex, Commit, fanOutVars, indexes
<1>4. ASSUME NEW c \in Consumers,
             \/ \E event \in queue : Take(c, event) \/ TakeSlice(c, event)
             \/ \E w \in Webhooks : Send(c, w)
             \/ Known(c) \/ ReadPage(c) \/ Continue(c) \/ Mark(c) \/ Settle(c) \/ Break(c)
      PROVE UNCHANGED <<vectors, lexical>> /\ doubt \subseteq doubt'
  BY <1>4 DEF Take, TakeSlice, Send, Known, ReadPage, Continue, Mark, Settle, Break, indexes, hist
<1> QED BY <1>1, <1>2, <1>3, <1>4 DEF FanOutNext

\* What is served of an entry changes with a new event of it.
LEMMA ServedKept ==
  ASSUME FanOutType, Numbered, [FanOutNext]_fanOutVars, NEW e \in EntryIds
  PROVE served'[e] = served[e] \/ Pending(e)'
<1>1. ASSUME NEW S \in SUBSET EntryIds, NEW kind \in Kinds, Commit(kind, S), e \in S PROVE Pending(e)'
  <2>1. PICK n \in Messages : queue' = queue \union {n} /\ n.id = ids + 1 /\ n.entries = S
    BY <1>1, CommitTells
  <2>2. UNCHANGED begun
    BY <1>1 DEF Commit
  <2>3. begun[e] <= ids /\ begun[e] \in Nat /\ ids \in Nat
    BY DEF Numbered, FanOutType
  <2>4. n.id > begun'[e] /\ e \in n.entries /\ n \in queue'
    BY <1>1, <2>1, <2>2, <2>3
  <2> QED BY <2>4 DEF Pending, Newer
<1>2. ASSUME NEW S \in SUBSET EntryIds, NEW kind \in Kinds, Commit(kind, S), e \notin S PROVE served'[e] = served[e]
  BY <1>2 DEF Commit
<1>3. ASSUME NEW c \in Consumers, Acts(c) PROVE UNCHANGED served
  BY <1>3 DEF Acts, Take, TakeSlice, Send, Work, Known, ReadPage, Continue, Mark, Settle, Break
<1>4. RequestReindex \/ UNCHANGED fanOutVars => UNCHANGED served
  BY DEF RequestReindex, fanOutVars
<1> QED BY <1>1, <1>2, <1>3, <1>4, SomeoneActs

\* A handling that goes on undisturbed.
LEMMA AloneKept ==
  ASSUME FanOutType, Numbered, Busy, EventsTold, [FanOutNext]_fanOutVars, NEW d \in Consumers, NEW e \in EntryIds,
         AloneWith(d, e), consumer'[d].plan[e] = consumer[d].plan[e],
         consumer'[d].version = consumer[d].version, consumer'[d].late = consumer[d].late,
         \A c \in Consumers \ {d} : consumer'[c].plan[e] = "none",
         \A c \in Consumers : Work(c) => e # Current(consumer[c]),
         \A c \in Consumers, event \in queue : Take(c, event) => e \notin Indexable(event)
  PROVE AloneWith(d, e)'
<1>1. vectors'[e] = vectors[e]
  BY IndexesKept
<1>2. served'[e] = served[e] \/ Pending(e)'
  BY ServedKept
<1>3. Pending(e) => Pending(e)'
  BY PendingStays
<1> QED BY <1>1, <1>2, <1>3 DEF AloneWith

\* Whoever begins with an entry meets the others that have to do with it.
LEMMA BeginMeets ==
  ASSUME FanOutType, NEW c \in Consumers, NEW d \in Consumers \ {c}, NEW e \in EntryIds, e \in consumer'[d].alone
  PROVE /\ \A event \in queue : Take(c, event) => e \notin Indexable(event)
        /\ ReadPage(c) => e \notin NowOf(c)
<1>1. ASSUME NEW event \in queue, Take(c, event) PROVE e \notin Indexable(event)
  BY <1>1, TakeEffect
<1>2. ASSUME ReadPage(c) PROVE e \notin NowOf(c)
  BY <1>2, ReadEffectOf
<1> QED BY <1>1, <1>2

\* An entry that a consumer has no call left for gets one when its handling begins.
LEMMA PlanGrows ==
  ASSUME FanOutType, NEW c \in Consumers, Acts(c), NEW e \in EntryIds, consumer[c].plan[e] = "none",
         \A event \in queue : Take(c, event) => e \notin Indexable(event),
         ReadPage(c) => e \notin NowOf(c)
  PROVE consumer'[c].plan[e] = "none" /\ (Work(c) => e # Current(consumer[c]))
<1>1. ASSUME NEW event \in queue, Take(c, event) PROVE consumer'[c].plan[e] = "none"
  BY <1>1, TakeEffect
<1>2. ASSUME NEW event \in queue, TakeSlice(c, event) PROVE consumer'[c].plan[e] = "none"
  <2>1. consumer'[c] = Slice(event, "read") /\ event \in Messages
    BY <1>2, TakeSliceEffect
  <2> QED BY <2>1, SliceIs DEF Planned, FanOutSteps
<1>3. ASSUME NEW w \in Webhooks, Send(c, w) PROVE consumer'[c].plan[e] = "none"
  BY <1>3, SendEffect DEF SameRun
<1>4. ASSUME Work(c) PROVE consumer'[c].plan[e] = "none" /\ e # Current(consumer[c])
  BY <1>4, WorkEffect
<1>5. ASSUME ReadPage(c) PROVE consumer'[c].plan[e] = "none"
  BY <1>5, ReadEffectOf
<1>6. ASSUME Known(c) \/ Continue(c) \/ Mark(c) PROVE consumer'[c].plan[e] = "none"
  BY <1>6, OtherActs, StepEffectOf DEF FanOutSteps
<1>7. ASSUME Settle(c) \/ Break(c) PROVE consumer'[c].plan[e] = "none"
  BY <1>7, OtherActs, ResetEffect, WaitingIs DEF Planned
<1> QED BY <1>1, <1>2, <1>3, <1>4, <1>5, <1>6, <1>7 DEF Acts

\* The handlings that begin.
LEMMA TakenAlone ==
  ASSUME FanOutType, Numbered, Busy, EventsTold, [FanOutNext]_fanOutVars,
         NEW d \in Consumers, NEW event \in queue, Take(d, event), NEW e \in EntryIds, e \in consumer'[d].alone
  PROVE AloneWith(d, e)'
<1>1. /\ \A c \in Consumers \ {d} : SameRun(c)
      /\ consumer'[d].late = Overtaken(event) /\ consumer'[d].version = VersionOf(event)
      /\ e \in Indexable(event) /\ consumer'[d].plan[e] = "drop"
      /\ \A c \in Consumers \ {d} : consumer[c].plan[e] = "none"
  BY TakeEffect
<1>2. \A c \in Consumers \ {d} : consumer'[c].plan[e] = "none"
  BY <1>1 DEF SameRun
<1>3. /\ UNCHANGED <<queue, served>> /\ event \in Messages /\ event.id \in Nat
      /\ begun'[e] = IF e \in event.entries /\ begun[e] < event.id THEN event.id ELSE begun[e]
  BY TakeTells
<1>4. e \in event.entries /\ begun[e] \in Nat
  BY <1>1 DEF Indexable, FanOutType
<1>5. ASSUME e \notin Overtaken(event) PROVE VersionOf(event)[e] = served'[e] \/ Pending(e)'
  <2>1. CASE event.kind = "published_bulk"
    BY <1>3, <2>1 DEF VersionOf
  <2>2. CASE event.kind # "published_bulk"
    <3>1. ~(begun[e] > event.id)
      BY <1>4, <1>5, <2>2 DEF Overtaken
    <3>2. begun'[e] = event.id
      BY <1>3, <1>4, <3>1
    <3>3. Newer(e, event.id) \/ served[e] = Told(event)
      BY <1>4, <3>1 DEF EventsTold
    <3>4. Told(event) = VersionOf(event)[e]
      BY <2>2 DEF Told, VersionOf, Publishing
    <3> QED BY <1>3, <3>2, <3>3, <3>4 DEF Pending, Newer
  <2> QED BY <2>1, <2>2
<1> QED BY <1>1, <1>2, <1>5 DEF AloneWith

\* A page writes the rows it has read.
LEMMA ReadAlone ==
  ASSUME FanOutType, NEW d \in Consumers, ReadPage(d), NEW e \in EntryIds, e \in consumer'[d].alone
  PROVE AloneWith(d, e)'
<1>1. /\ \A c \in Consumers \ {d} : SameRun(c) /\ consumer[c].plan[e] = "none"
      /\ consumer'[d].version = served /\ consumer'[d].plan[e] = "drop"
  BY ReadEffectOf
<1>2. \A c \in Consumers \ {d} : consumer'[c].plan[e] = "none"
  BY <1>1 DEF SameRun
<1>3. served' = served
  BY DEF ReadPage
<1> QED BY <1>1, <1>2, <1>3 DEF AloneWith

\* The call of a handling that is alone with the entry leaves what the calls so far leave.
LEMMA WorkAlone ==
  ASSUME FanOutType, NEW d \in Consumers, Work(d), NEW e \in EntryIds, e = Current(consumer[d]),
         AloneWith(d, e), consumer'[d].plan[e] # "none"
  PROVE AloneWith(d, e)'
<1> DEFINE call == consumer[d].plan[e]
           v == consumer[d].version[e]
<1>1. /\ \A c \in Consumers \ {d} : consumer'[c] = consumer[c]
      /\ consumer'[d].version = consumer[d].version /\ consumer'[d].late = consumer[d].late
      /\ consumer'[d].plan[e] = NextCall(call, v) /\ call # "none"
  BY WorkEffect
<1>2. call \in Calls /\ v \in Nat /\ vectors \in [EntryIds -> [Ordinals -> Nat]]
  BY DEF FanOutType, Runs
<1>3. UNCHANGED <<served, queue, begun>>
  BY DEF Work
<1>4. Pending(e)' <=> Pending(e)
  BY <1>3 DEF Pending, Newer
<1>5. vectors' = [vectors EXCEPT ![e] = CASE call = "drop" -> NoRows
                                          [] call = "fill" -> Upserted(vectors[e], v)
                                          [] OTHER -> vectors[e]]
  BY DEF Work
<1>6. CASE call = "drop"
  <2>1. vectors'[e] = NoRows
    BY <1>2, <1>5, <1>6
  <2>2. NextCall(call, v) = IF v = 0 THEN "lexical" ELSE "fill"
    BY <1>6, CallsFollow
  <2>3. v = 0 => NoRows = Rows(v)
    BY DEF NoRows
  <2> QED BY <1>1, <1>3, <1>4, <2>1, <2>2, <2>3 DEF AloneWith
<1>7. CASE call = "fill"
  <2>1. vectors[e] = NoRows
    BY <1>7 DEF AloneWith
  <2>2. vectors'[e] = Rows(v)
    BY <1>2, <1>5, <1>7, <2>1, RowsAre
  <2>3. NextCall(call, v) = "lexical"
    BY <1>7, CallsFollow
  <2> QED BY <1>1, <1>3, <1>4, <2>2, <2>3 DEF AloneWith
<1>8. CASE call = "lexical"
  BY <1>1, <1>8, CallsFollow
<1> QED BY <1>1, <1>2, <1>6, <1>7, <1>8 DEF Calls

\* Handlings that are alone with an entry stay undisturbed, or meet another.
LEMMA UndisturbedStep ==
  ASSUME FanOutType, Numbered, Busy, EventsTold, Undisturbed, [FanOutNext]_fanOutVars PROVE Undisturbed'
<1> SUFFICES ASSUME NEW d \in Consumers, NEW e \in EntryIds, e \in consumer'[d].alone, consumer'[d].plan[e] # "none"
             PROVE AloneWith(d, e)'
  BY DEF Undisturbed
<1>1. ASSUME SameRun(d), \A k \in Consumers \ {d} : consumer'[k].plan[e] = "none" PROVE AloneWith(d, e)'
  <2>1. AloneWith(d, e) /\ consumer[d].plan[e] # "none"
    BY <1>1 DEF SameRun, Undisturbed
  <2>2. ASSUME NEW k \in Consumers, Work(k) PROVE e # Current(consumer[k])
    <3>1. CASE k # d
      BY <2>1, <2>2, <3>1, WorkEffect DEF AloneWith
    <3>2. CASE k = d
      <4>1. consumer'[d].plan[e] = consumer[d].plan[e]
        BY <1>1 DEF SameRun
      <4>2. consumer[d].plan[e] \in Calls
        BY DEF FanOutType, Runs
      <4>3. \A v : NextCall(consumer[d].plan[e], v) # consumer[d].plan[e]
        BY <4>2, <2>1, CallsFollow DEF Calls
      <4> QED BY <2>2, <3>2, <4>1, <4>3, WorkEffect
    <3> QED BY <3>1, <3>2
  <2>3. ASSUME NEW k \in Consumers, NEW event \in queue, Take(k, event) PROVE e \notin Indexable(event)
    <3>1. CASE k # d
      BY <2>3, <3>1, BeginMeets
    <3>2. CASE k = d
      BY <2>1, <2>3, <3>2 DEF Take, Busy
    <3> QED BY <3>1, <3>2
  <2> QED BY <1>1, <2>1, <2>2, <2>3, AloneKept DEF SameRun
<1>2. ASSUME UNCHANGED consumer PROVE AloneWith(d, e)'
  <2>1. SameRun(d) /\ AloneWith(d, e)
    BY <1>2 DEF SameRun, Undisturbed
  <2> QED BY <1>1, <1>2, <2>1 DEF AloneWith
<1>3. ASSUME NEW c \in Consumers, Acts(c), c # d PROVE AloneWith(d, e)'
  <2>1. SameRun(d)
    BY <1>3, OthersGoOn
  <2>2. AloneWith(d, e)
    BY <2>1 DEF SameRun, Undisturbed
  <2>3. (\A event \in queue : Take(c, event) => e \notin Indexable(event)) /\ (ReadPage(c) => e \notin NowOf(c))
    BY <1>3, BeginMeets
  <2>4. consumer'[c].plan[e] = "none"
    BY <1>3, <2>2, <2>3, PlanGrows DEF AloneWith
  <2>5. ASSUME NEW k \in Consumers \ {d}, k # c PROVE consumer'[k].plan[e] = "none"
    BY <1>3, <2>2, <2>5, OthersGoOn DEF SameRun, AloneWith
  <2> QED BY <1>1, <2>1, <2>4, <2>5
<1>4. ASSUME NEW w \in Webhooks, Send(d, w) PROVE AloneWith(d, e)'
  <2>1. \A k \in Consumers : SameRun(k)
    BY <1>4, SendEffect
  <2>2. AloneWith(d, e)
    BY <2>1 DEF SameRun, Undisturbed
  <2> QED BY <1>1, <2>1, <2>2 DEF SameRun, AloneWith
<1>5. ASSUME Work(d) PROVE AloneWith(d, e)'
  <2>1. PICK f : f = Current(consumer[d])
    OBVIOUS
  <2>2. /\ \A k \in Consumers \ {d} : consumer'[k] = consumer[k]
        /\ consumer'[d].alone = consumer[d].alone /\ consumer[d].plan[f] # "none"
        /\ consumer'[d].version = consumer[d].version /\ consumer'[d].late = consumer[d].late
        /\ \A g \in EntryIds \ {f} : consumer'[d].plan[g] = consumer[d].plan[g]
    BY <1>5, <2>1, WorkEffect
  <2>3. AloneWith(d, e)
    BY <2>2 DEF Undisturbed
  <2>4. CASE e = f
    BY <1>5, <2>1, <2>3, <2>4, WorkAlone
  <2>5. CASE e # f
    <3>1. \A k \in Consumers \ {d} : consumer'[k].plan[e] = "none"
      BY <2>2, <2>3 DEF AloneWith
    <3>2. \A k \in Consumers : Work(k) => e # Current(consumer[k])
      BY <2>1, <2>3, <2>5, WorkEffect DEF AloneWith
    <3>3. ASSUME NEW k \in Consumers, NEW event \in queue, Take(k, event) PROVE e \notin Indexable(event)
      <4>1. k # d
        BY <1>5, <3>3 DEF Work, Take
      <4> QED BY <3>3, <4>1, BeginMeets
    <3> QED BY <2>2, <2>3, <2>5, <3>1, <3>2, <3>3, AloneKept
  <2> QED BY <2>4, <2>5
<1>6. ASSUME NEW event \in queue, TakeSlice(d, event) PROVE FALSE
  <2>1. consumer'[d] = Slice(event, "read") /\ event \in Messages
    BY <1>6, TakeSliceEffect
  <2> QED BY <2>1, SliceIs DEF FanOutSteps
<1>7. ASSUME Known(d) \/ Continue(d) \/ Mark(d) PROVE FALSE
  <2>1. consumer'[d].plan = consumer[d].plan
    BY <1>7, OtherActs, StepEffectOf DEF FanOutSteps
  <2> QED BY <1>7, <2>1, OtherActs DEF Busy
<1>8. ASSUME Settle(d) \/ Break(d) PROVE FALSE
  BY <1>8, OtherActs, ResetEffect, WaitingIs
<1>9. Acts(d) => AloneWith(d, e)'
  BY <1>4, <1>5, <1>6, <1>7, <1>8, TakenAlone, ReadAlone DEF Acts
<1> QED BY <1>2, <1>3, <1>9, SomeoneActs

\* An entry's handling ends with its last call, or in doubt.
LEMMA InWorkStays ==
  ASSUME FanOutType, Busy, [FanOutNext]_fanOutVars, NEW e \in EntryIds, InWork(e), e \notin doubt',
         \A c \in Consumers : Work(c) => e # Current(consumer[c])
  PROVE InWork(e)'
<1>1. PICK d \in Consumers : consumer[d].plan[e] # "none"
  BY DEF InWork
<1>2. consumer[d].step \in {"work", "slice"} /\ e \in Touching(d)
  BY <1>1 DEF Busy, Touching, Planned
<1>3. ASSUME SameRun(d) PROVE InWork(e)'
  BY <1>1, <1>3 DEF SameRun, InWork
<1>4. ASSUME Work(d) PROVE InWork(e)'
  <2>1. PICK f : f = Current(consumer[d])
    OBVIOUS
  <2>2. consumer'[d].plan[e] = consumer[d].plan[e]
    BY <1>4, <2>1, WorkEffect
  <2> QED BY <1>1, <2>2 DEF InWork
<1>5. ASSUME NEW w \in Webhooks, Send(d, w) PROVE InWork(e)'
  BY <1>3, <1>5, SendEffect
<1>6. ASSUME \/ \E event \in queue : Take(d, event) \/ TakeSlice(d, event)
             \/ Known(d) \/ ReadPage(d) \/ Continue(d) \/ Mark(d)
      PROVE FALSE
  BY <1>2, <1>6 DEF Take, TakeSlice, Known, ReadPage, Continue, Mark
<1>7. ASSUME Settle(d) PROVE FALSE
  BY <1>2, <1>7 DEF Settle
<1>8. ASSUME Break(d) PROVE FALSE
  BY <1>2, <1>8 DEF Break
<1>9. UNCHANGED consumer => SameRun(d)
  BY DEF SameRun
<1> QED BY <1>3, <1>4, <1>5, <1>6, <1>7, <1>8, <1>9, OthersGoOn, SomeoneActs DEF Acts

\* A handling that is alone with the entry leaves the indexes as the read model is, unless
\* an event is to come.
LEMMA LastCall ==
  ASSUME FanOutType, Undisturbed, NEW c \in Consumers, Work(c), NEW e \in EntryIds, e = Current(consumer[c]),
         consumer'[c].plan[e] = "none", e \notin doubt'
  PROVE Pending(e)' \/ Indexed(e)'
<1> DEFINE call == consumer[c].plan[e]
           v == consumer[c].version[e]
<1>1. consumer'[c].plan[e] = NextCall(call, v) /\ call # "none"
  BY WorkEffect
<1>2. call \in Calls
  BY DEF FanOutType, Runs
<1>3. call = "lexical"
  BY <1>1, <1>2, CallsFollow DEF Calls
<1>4. [consumer[c].plan EXCEPT ![e] = NextCall(call, v)][e] = "none"
  BY <1>1 DEF FanOutType, Runs
<1>5. e \in consumer[c].alone \ consumer[c].late
  BY <1>4 DEF Work
<1>6. AloneWith(c, e)
  BY <1>1, <1>5 DEF Undisturbed
<1>7. vectors[e] = Rows(v) /\ (v = served[e] \/ Pending(e))
  BY <1>3, <1>5, <1>6 DEF AloneWith
<1>8. lexical'[e] = v /\ vectors'[e] = vectors[e]
  BY <1>3 DEF Work, FanOutType
<1>9. UNCHANGED <<served, queue, begun>>
  BY DEF Work
<1> QED BY <1>7, <1>8, <1>9 DEF Pending, Newer, Indexed

\* Every entry is in work, to come, in doubt, or indexed.
LEMMA HandledStep ==
  ASSUME FanOutType, Numbered, Busy, EventsTold, Undisturbed, Handled, [FanOutNext]_fanOutVars PROVE Handled'
<1> SUFFICES ASSUME NEW e \in EntryIds, e \notin doubt' PROVE InWork(e)' \/ Pending(e)' \/ Indexed(e)'
  BY DEF Handled
<1>1. ASSUME NEW c \in Consumers, NEW event \in queue, Take(c, event), e \in Indexable(event) PROVE InWork(e)'
  <2>1. consumer'[c].plan[e] = "drop"
    BY <1>1, TakeEffect
  <2> QED BY <2>1 DEF InWork
<1>2. ASSUME NEW c \in Consumers, Work(c), e = Current(consumer[c]) PROVE InWork(e)' \/ Pending(e)' \/ Indexed(e)'
  BY <1>2, LastCall DEF InWork
<1>3. ASSUME \A c \in Consumers, event \in queue : Take(c, event) => e \notin Indexable(event),
             \A c \in Consumers : Work(c) => e # Current(consumer[c])
      PROVE InWork(e)' \/ Pending(e)' \/ Indexed(e)'
  <2>1. vectors'[e] = vectors[e] /\ lexical'[e] = lexical[e] /\ e \notin doubt
    BY <1>3, IndexesKept
  <2>2. InWork(e) \/ Pending(e) \/ Indexed(e)
    BY <2>1 DEF Handled
  <2>3. InWork(e) => InWork(e)'
    BY <1>3, InWorkStays
  <2>4. Pending(e) => Pending(e)'
    BY <1>3, PendingStays
  <2>5. Indexed(e) => Pending(e)' \/ Indexed(e)'
    BY <2>1, ServedKept DEF Indexed
  <2> QED BY <2>2, <2>3, <2>4, <2>5
<1> QED BY <1>1, <1>2, <1>3

\* The invariant of the indexes at the start, and after a step.
LEMMA SearchInvInit == ASSUME FanOutInit PROVE SearchInv
<1>1. FanOutType
  BY FanOutTypeInit
<1>2. queue = {} /\ \A c \in Consumers : consumer[c] = Waiting
  BY DEF FanOutInit
<1>3. \A e \in EntryIds : begun[e] = e /\ e <= ids
  <2>1. EntryIds \in SUBSET Nat /\ IsFiniteSet(EntryIds) /\ EntryIds # {}
    BY FanOutAssumption
  <2> QED BY <2>1, GreatestExists DEF FanOutInit
<1>4. \A m : ~Alive(m)
  BY <1>2, WaitingIs DEF Alive
<1>5. Numbered
  BY <1>3, <1>4 DEF Numbered
<1>6. Busy /\ Undisturbed
  BY <1>2, WaitingIs DEF Busy, Undisturbed, Planned
<1>7. EventsTold
  BY <1>2 DEF EventsTold
<1>8. Handled
  BY DEF FanOutInit, Handled, Indexed
<1> QED BY <1>1, <1>5, <1>6, <1>7, <1>8 DEF SearchInv

\* A step keeps the invariant of the indexes.
LEMMA SearchInvStep == ASSUME SearchInv, [FanOutNext]_fanOutVars PROVE SearchInv'
  BY FanOutTypeStep, NumberedStep, BusyStep, EventsToldStep, UndisturbedStep, HandledStep DEF SearchInv

\* Quiet entries have neither calls nor events to come.
LEMMA QuietIsIndexed == ASSUME SearchInv PROVE SearchFollowsReadModel
<1> SUFFICES ASSUME NEW e \in EntryIds \ doubt, Quiet(e) PROVE Indexed(e)
  BY DEF SearchFollowsReadModel, Indexed
<1>1. ~InWork(e)
  BY DEF Quiet, Touching, Planned, InWork
<1>2. ~Pending(e)
  BY DEF Quiet, Pending, Newer
<1> QED BY <1>1, <1>2 DEF SearchInv, Handled

\* Search finds what the read model serves: whatever the events, the consumers and the
\* duplicates, an entry whose last handling had it to itself and did not fail is indexed as
\* it is served once its events are settled (dispatchEvent, indexEntryEmbeddings).
THEOREM SearchAlwaysFollows == FanOutSpec => []SearchFollowsReadModel
<1>1. FanOutInit => SearchInv
  BY SearchInvInit
<1>2. SearchInv /\ [FanOutNext]_fanOutVars => SearchInv'
  BY SearchInvStep
<1>3. SearchInv => SearchFollowsReadModel
  BY QuietIsIndexed
<1> QED BY <1>1, <1>2, <1>3, PTL DEF FanOutSpec

-------------------------------------------------------------------------------
\* The consumer has the entry before it: in the plan of its slice, or behind its cursor with
\* more pages or a continuation to come.
Ahead(c, e) ==
  /\ consumer[c].step \in {"read", "slice", "continue"}
  /\ consumer[c].cursor < e \/ (consumer[c].step = "slice" /\ consumer[c].plan[e] # "none")
  /\ consumer[c].step = "slice" /\ consumer[c].more = "mark" => consumer[c].plan[e] # "none"

\* The slice has not been marked, starts before the entry, and whoever runs it comes to the entry.
Reaches(m, e) ==
  /\ m.kind = "reindex" /\ <<"slice", m.id>> \notin cache /\ m.after < e
  /\ \A c \in Consumers : consumer[c].step # "idle" /\ consumer[c].event = m => Ahead(c, e)

OwedServed == \A e \in owed : served[e] # 0
Marked == \A n \in Nat : <<"slice", n>> \in cache => n <= ids
ReindexGoesOn == ~cut => \A e \in owed : \E m \in queue : Reaches(m, e)

ReindexInv == FanOutType /\ Numbered /\ Busy /\ OwedServed /\ Marked /\ ReindexGoesOn

\* A page ends before the entries it leaves, and when it leaves one there is more to come.
LEMMA PageLeaves ==
  ASSUME FanOutType, NEW c \in Consumers, NEW e \in EntryIds, e > consumer[c].cursor, served[e] # 0,
         e \notin NowOf(c), LeftOf(c) \in Int
  PROVE /\ \A f \in NowOf(c) : f < e
        /\ Cardinality(PageOf(c)) > LeftOf(c) \/ Cardinality(PageOf(c)) = PageSize
<1> DEFINE S == {f \in EntryIds : f > consumer[c].cursor /\ served[f] # 0}
           page == PageOf(c)
           left == LeftOf(c)
           now == NowOf(c)
<1>1. S \in SUBSET Nat /\ IsFiniteSet(S) /\ e \in S /\ PageSize \in Nat
  BY EntryIdsAre, FS_Subset, FanOutAssumption
<1>2. page = Least(PageSize, S) /\ now = Least(left, page)
  BY DEF PageOf, NowOf
<1>3. page \in SUBSET S /\ now \in SUBSET page
  BY <1>2 DEF Least
<1> HIDE DEF S, page, left, now
<1>4. page \in SUBSET Nat /\ IsFiniteSet(page) /\ Cardinality(page) \in Nat
  BY <1>1, <1>3, FS_Subset, FS_CardinalityType
<1>5. CASE e \notin page
  <2>1. \A f \in page : f < e
    BY <1>1, <1>2, <1>5, LeastFirst
  <2>2. Cardinality(page) = PageSize
    BY <1>1, <1>2, <1>5, LeastAre
  <2> QED BY <1>3, <2>1, <2>2 DEF page, now
<1>6. CASE e \in page
  <2>0. e \notin now /\ left \in Int
    BY DEF now, left
  <2>1. \A f \in now : f < e
    BY <1>2, <1>4, <1>6, <2>0, LeastFirst
  <2>2. ASSUME ~(Cardinality(page) > left) PROVE FALSE
    <3>1. left \in Nat
      BY <1>4, <2>0, <2>2
    <3>2. Cardinality(now) = left
      BY <1>2, <1>4, <1>6, <2>0, <3>1, LeastAre
    <3>3. Cardinality(now) < Cardinality(page)
      <4>1. now # page
        BY <1>6, <2>0
      <4>2. Cardinality(now) <= Cardinality(page) /\ Cardinality(now) # Cardinality(page)
        BY <1>3, <1>4, <4>1, FS_Subset
      <4> QED BY <1>4, <3>1, <3>2, <4>2
    <3> QED BY <1>4, <2>0, <2>2, <3>2, <3>3
  <2> QED BY <2>1, <2>2 DEF page, left, now
<1> QED BY <1>5, <1>6

\* A consumer that goes on with a slice has the entry before it still.
LEMMA ReadAhead ==
  ASSUME FanOutType, NEW c \in Consumers, NEW e \in EntryIds, Ahead(c, e), served[e] # 0, ReadPage(c)
  PROVE Ahead(c, e)'
<1> DEFINE more == IF Cardinality(PageOf(c)) > LeftOf(c) THEN "continue"
                   ELSE IF Cardinality(PageOf(c)) = PageSize THEN "read" ELSE "mark"
<1>1. /\ LeftOf(c) \in Int /\ NowOf(c) \in SUBSET EntryIds
      /\ consumer'[c].plan[e] = IF e \in NowOf(c) THEN "drop" ELSE "none"
      /\ IF NowOf(c) = {} THEN consumer'[c].step = more /\ consumer'[c].cursor = consumer[c].cursor
         ELSE /\ consumer'[c].step = "slice" /\ consumer'[c].more = more
              /\ consumer'[c].cursor = Greatest(NowOf(c)) /\ Greatest(NowOf(c)) \in NowOf(c)
  BY ReadEffectOf
<1>2. consumer[c].cursor < e /\ consumer[c].cursor \in Nat /\ e \in Nat
  BY EntryIdsAre DEF Ahead, ReadPage, FanOutType, Runs
<1>3. e > consumer[c].cursor
  BY <1>2
<1>4. e \notin NowOf(c) => /\ \A f \in NowOf(c) : f < e
                           /\ more # "mark"
  BY <1>1, <1>3, PageLeaves
<1>5. more \in {"continue", "read", "mark"}
  OBVIOUS
<1> HIDE DEF more
<1>6. CASE NowOf(c) = {}
  BY <1>1, <1>2, <1>4, <1>5, <1>6 DEF Ahead
<1>7. CASE NowOf(c) # {}
  BY <1>1, <1>4, <1>7 DEF Ahead
<1> QED BY <1>6, <1>7

\* A call leaves the entry in the plan, or behind the cursor.
LEMMA WorkAhead ==
  ASSUME FanOutType, NEW c \in Consumers, NEW e \in EntryIds, Ahead(c, e), Work(c), e \in owed'
  PROVE Ahead(c, e)'
<1>1. PICK f : f = Current(consumer[c])
  OBVIOUS
<1>2. /\ f \in EntryIds /\ consumer'[c].cursor = consumer[c].cursor /\ consumer'[c].more = consumer[c].more
      /\ consumer'[c].plan[f] = NextCall(consumer[c].plan[f], consumer[c].version[f])
      /\ \A g \in EntryIds \ {f} : consumer'[c].plan[g] = consumer[c].plan[g]
      /\ consumer[c].step \in {"work", "slice"}
      /\ consumer'[c].step = IF consumer[c].step = "slice" /\ Planned(consumer'[c].plan) = {}
                             THEN consumer[c].more ELSE consumer[c].step
  BY <1>1, WorkEffect
<1>3. consumer[c].step = "slice" /\ consumer[c].more \in {"continue", "read", "mark"}
  BY <1>2 DEF Ahead, FanOutType, Runs
<1>4. consumer[c].plan[e] # "none" => consumer'[c].plan[e] # "none"
  <2> SUFFICES ASSUME consumer'[c].plan[e] = "none", f = e PROVE FALSE
    BY <1>2
  <2>1. [consumer[c].plan EXCEPT ![e] = NextCall(consumer[c].plan[e], consumer[c].version[e])][e] = "none"
    BY <1>2 DEF FanOutType, Runs
  <2>2. owed' = owed \ {e}
    BY <1>1, <1>3, <2>1 DEF Work
  <2> QED BY <2>2
<1>5. CASE consumer'[c].step = "slice"
  BY <1>2, <1>3, <1>4, <1>5 DEF Ahead
<1>6. CASE Planned(consumer'[c].plan) = {} /\ consumer'[c].step = consumer[c].more
  <2>1. consumer'[c].plan[e] = "none"
    BY <1>6 DEF Planned
  <2> QED BY <1>2, <1>3, <1>4, <1>6, <2>1 DEF Ahead
<1> QED BY <1>2, <1>3, <1>5, <1>6

\* Whatever a consumer that runs the slice does.
LEMMA AheadStep ==
  ASSUME FanOutType, [FanOutNext]_fanOutVars, NEW m \in queue, NEW e \in EntryIds, Reaches(m, e),
         served[e] # 0, e \in owed', NEW c \in Consumers, Acts(c), ~Continue(c),
         consumer'[c].step # "idle", consumer'[c].event = m
  PROVE Ahead(c, e)'
<1>0. m \in Messages /\ m.kind = "reindex" /\ m.after < e
  BY DEF Reaches, FanOutType
<1>1. ASSUME NEW event \in queue, Take(c, event) PROVE FALSE
  <2>1. event = m
    BY <1>1, TakeEffect
  <2> QED BY <1>0, <1>1, <2>1 DEF Take
<1>2. ASSUME NEW event \in queue, TakeSlice(c, event) PROVE Ahead(c, e)'
  <2>1. consumer'[c] = Slice(event, "read") /\ event \in Messages /\ "read" \in FanOutSteps
    BY <1>2, TakeSliceEffect DEF FanOutSteps
  <2>2. consumer'[c].step = "read" /\ consumer'[c].event = event /\ consumer'[c].cursor = event.after
    BY <2>1, SliceIs
  <2> QED BY <1>0, <2>2 DEF Ahead
<1>3. ASSUME NEW w \in Webhooks, Send(c, w) PROVE Ahead(c, e)'
  <2>1. SameRun(c)
    BY <1>3, SendEffect
  <2>2. Ahead(c, e)
    BY <2>1 DEF SameRun, Reaches
  <2> QED BY <2>1, <2>2 DEF SameRun, Ahead
<1>4. ASSUME Work(c) PROVE Ahead(c, e)'
  <2>1. consumer'[c].event = consumer[c].event
    BY <1>4, WorkEffect
  <2>2. consumer[c].step # "idle"
    BY <1>4 DEF Work
  <2>3. Ahead(c, e)
    BY <2>1, <2>2 DEF Reaches
  <2> QED BY <1>4, <2>3, WorkAhead
<1>5. ASSUME ReadPage(c) PROVE Ahead(c, e)'
  <2>1. consumer'[c].event = consumer[c].event
    BY <1>5, ReadEffectOf
  <2>2. consumer[c].step # "idle"
    BY <1>5 DEF ReadPage
  <2>3. Ahead(c, e)
    BY <2>1, <2>2 DEF Reaches
  <2> QED BY <1>5, <2>3, ReadAhead
<1>6. ASSUME Known(c) PROVE FALSE
  <2>1. consumer'[c].event = consumer[c].event
    BY <1>6, OtherActs, StepEffectOf DEF FanOutSteps
  <2> QED BY <1>6, <2>1 DEF Known, Reaches
<1>7. ASSUME Mark(c) PROVE FALSE
  <2>1. consumer'[c].event = consumer[c].event
    BY <1>7, OtherActs, StepEffectOf DEF FanOutSteps
  <2>2. Ahead(c, e)
    BY <1>7, <2>1 DEF Mark, Reaches
  <2> QED BY <1>7, <2>2 DEF Mark, Ahead
<1>8. ASSUME Settle(c) \/ Break(c) PROVE FALSE
  BY <1>8, OtherActs, ResetEffect, WaitingIs
<1> QED BY <1>1, <1>2, <1>3, <1>4, <1>5, <1>6, <1>7, <1>8 DEF Acts

\* The slice is neither marked nor settled while it has the entry to reach.
LEMMA SliceStays ==
  ASSUME FanOutType, Numbered, Busy, [FanOutNext]_fanOutVars, NEW m \in queue, NEW e \in EntryIds, Reaches(m, e),
         ~cut'
  PROVE m \in queue' /\ <<"slice", m.id>> \notin cache'
<1>0. m \in Messages /\ m.kind = "reindex" /\ <<"slice", m.id>> \notin cache
  BY DEF Reaches, FanOutType
<1>1. ASSUME NEW c \in Consumers, Mark(c) PROVE m \in queue' /\ <<"slice", m.id>> \notin cache'
  <2>1. consumer[c].step = "mark" /\ queue' = queue /\ cache' = cache \union {<<"slice", consumer[c].event.id>>}
    BY <1>1 DEF Mark
  <2>2. consumer[c].event \in Messages /\ Alive(consumer[c].event) /\ Alive(m)
    BY <2>1 DEF Busy, Alive
  <2>3. consumer[c].event # m
    BY <2>1 DEF Reaches, Ahead
  <2>4. consumer[c].event.id # m.id
    BY <1>0, <2>2, <2>3 DEF Numbered
  <2> QED BY <1>0, <2>1, <2>4
<1>2. ASSUME NEW c \in Consumers, Settle(c) PROVE m \in queue' /\ <<"slice", m.id>> \notin cache'
  <2>1. consumer[c].step \in {"end", "work"} /\ queue' = queue \ {consumer[c].event} /\ cache' = cache
    BY <1>2 DEF Settle
  <2>2. consumer[c].event # m
    BY <2>1 DEF Reaches, Ahead
  <2> QED BY <1>0, <2>1, <2>2
<1>3. ASSUME NEW c \in Consumers, Break(c) PROVE m \in queue' /\ <<"slice", m.id>> \notin cache'
  <2>1. /\ cache' = cache
        /\ \/ queue' = queue
           \/ queue' = queue \ {consumer[c].event} /\ cut' = (cut \/ consumer[c].event.kind = "reindex")
    BY <1>3 DEF Break
  <2>2. CASE queue' = queue
    BY <1>0, <2>1, <2>2
  <2>3. CASE queue' = queue \ {consumer[c].event} /\ cut' = (cut \/ consumer[c].event.kind = "reindex")
    <3>1. consumer[c].event.kind # "reindex"
      BY <2>3
    <3> QED BY <1>0, <2>1, <2>3, <3>1
  <2> QED BY <2>1, <2>2, <2>3
<1>4. ASSUME queue \subseteq queue', cache' \subseteq cache \union {<<"cooldown", 0>>}
      PROVE m \in queue' /\ <<"slice", m.id>> \notin cache'
  BY <1>0, <1>4
<1>5. ASSUME \/ \E S \in SUBSET EntryIds, kind \in Kinds : Commit(kind, S)
             \/ RequestReindex \/ \E c \in Consumers : Continue(c)
             \/ UNCHANGED fanOutVars
      PROVE queue \subseteq queue' /\ cache' \subseteq cache \union {<<"cooldown", 0>>}
  BY <1>5 DEF Commit, RequestReindex, Continue, fanOutVars
<1>6. ASSUME NEW c \in Consumers,
             \/ \E event \in queue : Take(c, event) \/ TakeSlice(c, event)
             \/ \E w \in Webhooks : Send(c, w)
             \/ Work(c) \/ Known(c) \/ ReadPage(c)
      PROVE queue \subseteq queue' /\ cache' \subseteq cache \union {<<"cooldown", 0>>}
  BY <1>6 DEF Take, TakeSlice, Send, Work, Known, ReadPage
<1> QED BY <1>1, <1>2, <1>3, <1>4, <1>5, <1>6 DEF FanOutNext

\* A slice with the entry before it keeps it there.
LEMMA ReachesStays ==
  ASSUME FanOutType, Numbered, Busy, [FanOutNext]_fanOutVars, NEW m \in queue, NEW e \in EntryIds, Reaches(m, e),
         served[e] # 0, e \in owed', ~cut', \A c \in Consumers : Continue(c) => consumer[c].event # m
  PROVE m \in queue' /\ Reaches(m, e)'
<1>1. m \in queue' /\ <<"slice", m.id>> \notin cache' /\ m.kind = "reindex" /\ m.after < e
  BY SliceStays DEF Reaches
<1>2. ASSUME NEW d \in Consumers, consumer'[d].step # "idle", consumer'[d].event = m PROVE Ahead(d, e)'
  <2>1. ASSUME SameRun(d) PROVE Ahead(d, e)'
    <3>1. Ahead(d, e)
      BY <1>2, <2>1 DEF SameRun, Reaches
    <3> QED BY <2>1, <3>1 DEF SameRun, Ahead
  <2>2. ASSUME Continue(d) PROVE FALSE
    <3>1. consumer'[d].event = consumer[d].event
      BY <2>2, OtherActs, StepEffectOf DEF FanOutSteps
    <3> QED BY <1>2, <2>2, <3>1
  <2>3. Acts(d) => Ahead(d, e)'
    BY <1>2, <2>2, AheadStep
  <2>4. UNCHANGED consumer => SameRun(d)
    BY DEF SameRun
  <2> QED BY <2>1, <2>3, <2>4, OthersGoOn, SomeoneActs
<1> QED BY <1>1, <1>2 DEF Reaches

\* A slice that has just been asked for reaches what comes after its start.
LEMMA NewSliceReaches ==
  ASSUME FanOutType, Numbered, Busy, Marked, [FanOutNext]_fanOutVars, NEW m \in Messages, m.kind = "reindex",
         m.id = ids + 1, NEW e \in EntryIds, m.after < e, cache' \subseteq cache \union {<<"cooldown", 0>>}
  PROVE Reaches(m, e)'
<1>0. ids \in Nat /\ m.id \in Nat /\ \A n \in queue : n \in Messages
  BY DEF FanOutType, Messages
<1>1. ~(m.id <= ids)
  BY <1>0
<1>2. <<"slice", m.id>> \notin cache'
  BY <1>0, <1>1 DEF Marked
<1>3. ASSUME NEW c \in Consumers, consumer'[c].step # "idle", consumer'[c].event = m PROVE FALSE
  <2>1. Alive(m)
    BY <1>3, HeldStep DEF Alive
  <2> QED BY <1>1, <2>1 DEF Numbered
<1> QED BY <1>2, <1>3 DEF Reaches

\* What is owed, and given up, only grows less and more but for a request.
LEMMA OwedShrinks ==
  ASSUME FanOutType, [FanOutNext]_fanOutVars, ~RequestReindex
  PROVE owed' \subseteq owed /\ (cut => cut')
<1>1. ASSUME NEW S \in SUBSET EntryIds, NEW kind \in Kinds, Commit(kind, S) PROVE owed' \subseteq owed /\ (cut => cut')
  BY <1>1 DEF Commit
<1>2. ASSUME NEW c \in Consumers, Work(c) PROVE owed' \subseteq owed /\ (cut => cut')
  BY <1>2 DEF Work
<1>3. ASSUME NEW c \in Consumers, Break(c) PROVE owed' \subseteq owed /\ (cut => cut')
  <2>1. owed' = owed /\ (cut' = cut \/ cut' = (cut \/ consumer[c].event.kind = "reindex"))
    BY <1>3 DEF Break
  <2>2. CASE cut' = cut
    BY <2>1, <2>2
  <2>3. CASE cut' = (cut \/ consumer[c].event.kind = "reindex")
    BY <2>1, <2>3
  <2> QED BY <2>1, <2>2, <2>3
<1>4. ASSUME NEW c \in Consumers,
             \/ \E event \in queue : Take(c, event) \/ TakeSlice(c, event)
             \/ \E w \in Webhooks : Send(c, w)
             \/ Known(c) \/ ReadPage(c) \/ Mark(c) \/ Settle(c)
      PROVE owed' \subseteq owed /\ (cut => cut')
  <2>1. owed' = owed /\ cut' = cut
    BY <1>4 DEF Take, TakeSlice, Send, Known, ReadPage, Mark, Settle, hist
  <2> QED BY <2>1
<1>6. ASSUME NEW c \in Consumers, Continue(c) PROVE owed' \subseteq owed /\ (cut => cut')
  <2>1. owed' = owed /\ (cut' = cut \/ cut' = TRUE)
    BY <1>6 DEF Continue
  <2> QED BY <2>1
<1>5. UNCHANGED fanOutVars => owed' \subseteq owed /\ (cut => cut')
  BY DEF fanOutVars
<1> QED BY <1>1, <1>2, <1>3, <1>4, <1>5, <1>6 DEF FanOutNext

\* Whatever happens, some slice in the queue reaches what is owed.
LEMMA ReindexGoesOnStep ==
  ASSUME ReindexInv, [FanOutNext]_fanOutVars PROVE ReindexGoesOn'
<1>0. FanOutType /\ Numbered /\ Busy /\ OwedServed /\ Marked /\ ReindexGoesOn /\ ids \in Nat
  BY DEF ReindexInv, FanOutType
<1>1. SUFFICES ASSUME ~cut', NEW e \in owed' PROVE \E m \in queue' : Reaches(m, e)'
  BY DEF ReindexGoesOn
<1>2. e \in EntryIds /\ e \in Nat /\ 0 < e
  BY <1>0, FanOutTypeStep, EntryIdsAre DEF FanOutType
<1>3. CASE RequestReindex
  <2>0. PICK zero \in Nat : zero = 0
    OBVIOUS
  <2>1. PICK m : m = Message(ids + 1, "reindex", {}, zero, zero)
    OBVIOUS
  <2>2. ids + 1 \in Nat \ {0} /\ {} \in SUBSET EntryIds /\ "reindex" \in Kinds \union {"reindex"}
    BY <1>0
  <2>3. m \in Messages /\ m.id = ids + 1 /\ m.kind = "reindex" /\ m.after = 0
    BY <2>0, <2>1, <2>2, MessageIs
  <2>4. m \in queue' /\ cache' \subseteq cache \union {<<"cooldown", 0>>}
    BY <1>3, <2>0, <2>1 DEF RequestReindex
  <2>5. Reaches(m, e)'
    BY <1>0, <1>2, <2>3, <2>4, NewSliceReaches
  <2> QED BY <2>4, <2>5
<1>4. CASE ~RequestReindex
  <2>1. e \in owed /\ ~cut
    BY <1>0, <1>1, <1>4, OwedShrinks
  <2>2. PICK m \in queue : Reaches(m, e)
    BY <1>0, <2>1 DEF ReindexGoesOn
  <2>3. served[e] # 0
    BY <1>0, <2>1 DEF OwedServed
  <2>4. CASE \A c \in Consumers : Continue(c) => consumer[c].event # m
    BY <1>0, <1>1, <1>2, <2>2, <2>3, <2>4, ReachesStays
  <2>5. ASSUME NEW c \in Consumers, Continue(c), consumer[c].event = m
        PROVE \E n \in queue' : Reaches(n, e)'
    <3>1. consumer[c].step = "continue" /\ consumer[c].cursor < e
      BY <2>2, <2>5 DEF Continue, Reaches, Ahead
    <3>2. consumer[c].cursor \in Nat /\ m.soFar + consumer[c].done \in Nat
      BY <1>0 DEF FanOutType, Runs, Messages
    <3>3. PICK after \in Nat, total \in Nat : after = consumer[c].cursor /\ total = m.soFar + consumer[c].done
      BY <3>2
    <3>4. PICK n : n = Message(ids + 1, "reindex", {}, after, total)
      OBVIOUS
    <3>5. ids + 1 \in Nat \ {0} /\ {} \in SUBSET EntryIds /\ "reindex" \in Kinds \union {"reindex"}
      BY <1>0
    <3>6. n \in Messages /\ n.id = ids + 1 /\ n.kind = "reindex" /\ n.after = after
      BY <3>4, <3>5, MessageIs
    <3>7. n \in queue' /\ cache' \subseteq cache \union {<<"cooldown", 0>>}
      BY <1>1, <2>5, <3>3, <3>4 DEF Continue
    <3>8. Reaches(n, e)'
      BY <1>0, <1>2, <3>1, <3>3, <3>6, <3>7, NewSliceReaches
    <3> QED BY <3>7, <3>8
  <2> QED BY <2>4, <2>5
<1> QED BY <1>3, <1>4

\* Only what is served is owed.
LEMMA OwedServedStep ==
  ASSUME FanOutType, OwedServed, [FanOutNext]_fanOutVars PROVE OwedServed'
<1>1. ASSUME NEW S \in SUBSET EntryIds, NEW kind \in Kinds, Commit(kind, S) PROVE OwedServed'
  BY <1>1 DEF Commit, OwedServed
<1>2. ASSUME RequestReindex PROVE OwedServed'
  BY <1>2 DEF RequestReindex, OwedServed
<1>3. ASSUME UNCHANGED served, ~RequestReindex PROVE OwedServed'
  BY <1>3, OwedShrinks DEF OwedServed
<1>4. ASSUME NEW c \in Consumers, Acts(c) PROVE UNCHANGED served
  BY <1>4 DEF Acts, Take, TakeSlice, Send, Work, Known, ReadPage, Continue, Mark, Settle, Break
<1>5. UNCHANGED fanOutVars => UNCHANGED served
  BY DEF fanOutVars
<1> QED BY <1>1, <1>2, <1>3, <1>4, <1>5, SomeoneActs

\* Only slices that there were are marked.
LEMMA MarkedStep ==
  ASSUME FanOutType, Numbered, Busy, Marked, [FanOutNext]_fanOutVars PROVE Marked'
<1>0. ids \in Nat /\ ids' \in Nat /\ ids' >= ids
  BY QueueStep DEF FanOutType
<1>1. ASSUME NEW c \in Consumers, Mark(c) PROVE Marked'
  <2>1. consumer[c].step = "mark" /\ cache' = cache \union {<<"slice", consumer[c].event.id>>}
    BY <1>1 DEF Mark
  <2>2. consumer[c].event \in Messages /\ Alive(consumer[c].event)
    BY <2>1 DEF Busy, Alive
  <2>3. consumer[c].event.id <= ids
    BY <2>2 DEF Numbered
  <2> QED BY <1>0, <2>1, <2>3 DEF Marked
<1>2. ASSUME cache' \subseteq cache \union {<<"cooldown", 0>>} PROVE Marked'
  BY <1>0, <1>2 DEF Marked
<1>3. ASSUME \/ \E S \in SUBSET EntryIds, kind \in Kinds : Commit(kind, S)
             \/ RequestReindex \/ UNCHANGED fanOutVars
      PROVE cache' \subseteq cache \union {<<"cooldown", 0>>}
  BY <1>3 DEF Commit, RequestReindex, fanOutVars
<1>4. ASSUME NEW c \in Consumers,
             \/ \E event \in queue : Take(c, event) \/ TakeSlice(c, event)
             \/ \E w \in Webhooks : Send(c, w)
             \/ Work(c) \/ Known(c) \/ ReadPage(c) \/ Continue(c) \/ Settle(c) \/ Break(c)
      PROVE cache' \subseteq cache \union {<<"cooldown", 0>>}
  BY <1>4 DEF Take, TakeSlice, Send, Work, Known, ReadPage, Continue, Settle, Break
<1> QED BY <1>1, <1>2, <1>3, <1>4 DEF FanOutNext

\* The invariant of the reindex at the start, and after a step.
LEMMA ReindexInvInit == ASSUME FanOutInit PROVE ReindexInv
<1>1. FanOutType /\ Numbered /\ Busy
  BY SearchInvInit DEF SearchInv
<1> QED BY <1>1 DEF FanOutInit, ReindexInv, OwedServed, Marked, ReindexGoesOn

\* A step keeps the invariant of the reindex.
LEMMA ReindexInvStep == ASSUME ReindexInv, [FanOutNext]_fanOutVars PROVE ReindexInv'
<1>1. FanOutType /\ Numbered /\ Busy /\ OwedServed /\ Marked
  BY DEF ReindexInv
<1> QED BY <1>1, FanOutTypeStep, NumberedStep, BusyStep, OwedServedStep, MarkedStep, ReindexGoesOnStep DEF ReindexInv

\* A reindex that is neither given up nor capped reaches every entry that is served all the
\* while: over slices that are delivered twice, chains that fork, markers that expire
\* (runReindexJob).
THEOREM ReindexAlwaysReaches == FanOutSpec => []ReindexReachesAll
<1>1. FanOutInit => ReindexInv
  BY ReindexInvInit
<1>2. ReindexInv /\ [FanOutNext]_fanOutVars => ReindexInv'
  BY ReindexInvStep
<1>3. ReindexInv => ReindexReachesAll
  BY DEF ReindexInv, ReindexGoesOn, Reaches, ReindexReachesAll
<1> QED BY <1>1, <1>2, <1>3, PTL DEF FanOutSpec
===============================================================================
