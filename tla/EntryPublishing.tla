--------------------------- MODULE EntryPublishing ---------------------------
(***************************************************************************)
(* The entry aggregate, its version history and the published read model   *)
(* of one environment, as API requests edit, publish and unpublish it.     *)
(*                                                                         *)
(* Saving a draft reads the aggregate, inserts a version row and updates   *)
(* the aggregate in three statements outside any transaction.  Publishing  *)
(* and unpublishing read without a lock and then write every table in one  *)
(* transaction whose first write locks the entry's row: the writes and the *)
(* commit are one step here, and each read before them is a step.          *)
(***************************************************************************)
EXTENDS Naturals, FiniteSets

CONSTANTS Entries,      \* entry ids of the environment
          Clients,      \* requests, each running one operation at a time
          Links,        \* the entries that the fields of each entry link to
          Batching,     \* FALSE: the single-entry path is used, TRUE: the batch
          MaxVersion,   \* bound: the highest version a draft is saved at
          MaxClock      \* bound: no publish or unpublish starts from there on

ASSUME LinksAssumption == Links \in [Entries -> SUBSET Entries]
ASSUME BatchingAssumption == Batching \subseteq BOOLEAN
ASSUME BoundsAssumption == MaxVersion \in Nat /\ MaxClock \in Nat

VARIABLES
  entry,        \* table entries: the aggregate row of each entry
  versions,     \* table entry_versions: the numbers of each entry's snapshots
  published,    \* table entry_published: what the Delivery API serves
  references,   \* table references: the links of what is served
  outbox,       \* table outbox: the events appended so far
  clock,        \* readings of the application clock
  request,      \* what each client is doing
  taint         \* history: the faults each entry went through

vars == <<entry, versions, published, references, outbox, clock, request, taint>>

(***************************************************************************)
(* Rows.  0 stands for a null version, an absent row and the empty field   *)
(* values {}; the field values saved with version v are identified by v.   *)
(***************************************************************************)
Row == [status : {"none", "draft", "changed", "published"},
        currentVersion : Nat, publishedVersion : Nat]
NoRow == [status |-> "none", currentVersion |-> 0, publishedVersion |-> 0]
NewRow == [status |-> "draft", currentVersion |-> 1, publishedVersion |-> 0]

Snapshot == [version : Nat, fields : Nat]
NoSnapshot == [version |-> 0, fields |-> 0]

Event == [type : {"entry.published", "entry.unpublished"}, entryId : Entries,
          version : Nat, fields : Nat, occurredAt : Nat]

(***************************************************************************)
(* A request: the statement it executes next, the entries it is about, the *)
(* aggregates and fields it read, the instant a batch took before its      *)
(* first write, and (history) which of the aggregates requests of the      *)
(* other kind, saves or publishes, have overwritten since it read them.    *)
(***************************************************************************)
Step == {"idle", "insertEntry", "insertFirstVersion", "insertVersion",
         "saveAggregate", "readFields", "publish", "unpublish"}
Request == [step : Step, batch : BOOLEAN, items : SUBSET Entries,
            found : [Entries -> Row], fields : [Entries -> Nat],
            at : Nat, stale : SUBSET Entries]
Idle == [step |-> "idle", batch |-> FALSE, items |-> {},
         found |-> [e \in Entries |-> NoRow], fields |-> [e \in Entries |-> 0],
         at |-> 0, stale |-> {}]

Fault == {"staleSave", "stalePublish", "crash"}

Exists(e) == entry[e].currentVersion > 0

deriveStatus(current, pub) ==
  IF pub = 0 THEN "draft" ELSE IF current > pub THEN "changed" ELSE "published"

\* Variant: the aggregate is saved without advancing to the new version.
saveDraft_NotAdvancing(row) ==
  [row EXCEPT !.status = deriveStatus(row.currentVersion, row.publishedVersion)]

saveDraft(row) ==
  [status           |-> deriveStatus(row.currentVersion + 1, row.publishedVersion),
   currentVersion   |-> row.currentVersion + 1,
   publishedVersion |-> row.publishedVersion]

\* Variant: publishing forgets the status.
publish_KeepingStatus(row) == [row EXCEPT !.publishedVersion = row.currentVersion]

publish(row) ==
  [row EXCEPT !.publishedVersion = row.currentVersion, !.status = "published"]

\* Variant: unpublishing keeps the pointer.
unpublish_KeepingPointer(row) == [row EXCEPT !.status = "draft"]

unpublish(row) == [row EXCEPT !.publishedVersion = 0, !.status = "draft"]

\* Variant: the newest snapshot is read whatever version the aggregate names.
FieldsOf_Newest(row, e) ==
  IF versions[e] = {} THEN 0 ELSE CHOOSE v \in versions[e] : \A w \in versions[e] : w <= v

\* The fields entries.get returns with the aggregate: those of the current
\* version's row, `version?.fields ?? {}`.
FieldsOf(row, e) == IF row.currentVersion \in versions[e] THEN row.currentVersion ELSE 0

extractReferences(f, e) == IF f = 0 THEN {} ELSE Links[e]

-------------------------------------------------------------------------------
Init ==
  /\ entry = [e \in Entries |-> NoRow]
  /\ versions = [e \in Entries |-> {}]
  /\ published = [e \in Entries |-> NoSnapshot]
  /\ references = [e \in Entries |-> {}]
  /\ outbox = {}
  /\ clock = 0
  /\ request = [c \in Clients |-> Idle]
  /\ taint = [e \in Entries |-> {}]

\* Client c starts an operation on E by reading the aggregates of E.
Read(c, step, E, batch) ==
  [Idle EXCEPT !.step = step, !.batch = batch, !.items = E,
               !.found = [e \in Entries |-> IF e \in E THEN entry[e] ELSE NoRow]]

SaveSteps == {"insertVersion", "saveAggregate"}
PublishSteps == {"readFields", "publish", "unpublish"}

\* Client c goes on as `next` after writing the rows of E.  The copies that the
\* requests at the steps `overtaken` hold of them become stale; when c's own copy
\* was, its write undoes what the others did, which is the fault recorded.
Overwrite(c, next, E, overtaken, fault) ==
  /\ request' = [d \in Clients |->
       IF d = c THEN next
       ELSE IF request[d].step \in overtaken
       THEN [request[d] EXCEPT !.stale = @ \union (E \intersect request[d].items)]
       ELSE request[d]]
  /\ taint' = [e \in Entries |->
       IF e \in E \intersect request[c].stale THEN taint[e] \union {fault} ELSE taint[e]]

-------------------------------------------------------------------------------
(***************************************************************************)
(* Creating an entry, as createEntry does under a fresh id and a merge of  *)
(* environments under the id of its source: two inserts.                   *)
(***************************************************************************)
BeginCreate(c, e) ==
  /\ request[c].step = "idle"
  /\ ~Exists(e)
  /\ request' = [request EXCEPT ![c] = Read(c, "insertEntry", {e}, FALSE)]
  /\ UNCHANGED <<entry, versions, published, references, outbox, clock, taint>>

\* The primary key refuses the row when someone else has inserted it.
InsertEntry(c, e) ==
  /\ request[c].step = "insertEntry"
  /\ request[c].items = {e}
  /\ IF Exists(e)
       THEN /\ request' = [request EXCEPT ![c] = Idle]
            /\ UNCHANGED entry
       ELSE /\ entry' = [entry EXCEPT ![e] = NewRow]
            /\ request' = [request EXCEPT ![c].step = "insertFirstVersion"]
  /\ UNCHANGED <<versions, published, references, outbox, clock, taint>>

InsertFirstVersion(c, e) ==
  /\ request[c].step = "insertFirstVersion"
  /\ request[c].items = {e}
  /\ versions' = [versions EXCEPT ![e] = @ \union {1}]
  /\ request' = [request EXCEPT ![c] = Idle]
  /\ UNCHANGED <<entry, published, references, outbox, clock, taint>>

(***************************************************************************)
(* Saving a draft (updateEntry, restoreVersion, a merge onto an existing   *)
(* entry): read the aggregate, insert the next version, update the         *)
(* aggregate with values computed from what was read.                      *)
(***************************************************************************)
BeginUpdate(c, e) ==
  /\ request[c].step = "idle"
  /\ Exists(e)
  /\ entry[e].currentVersion < MaxVersion
  /\ request' = [request EXCEPT ![c] = Read(c, "insertVersion", {e}, FALSE)]
  /\ UNCHANGED <<entry, versions, published, references, outbox, clock, taint>>

\* The primary key (entry, version) refuses a number that is taken.
InsertVersion(c, e) ==
  LET next == request[c].found[e].currentVersion + 1 IN
  /\ request[c].step = "insertVersion"
  /\ request[c].items = {e}
  /\ IF next \in versions[e]
       THEN /\ request' = [request EXCEPT ![c] = Idle]
            /\ UNCHANGED versions
       ELSE /\ versions' = [versions EXCEPT ![e] = @ \union {next}]
            /\ request' = [request EXCEPT ![c].step = "saveAggregate"]
  /\ UNCHANGED <<entry, published, references, outbox, clock, taint>>

SaveAggregate(c, e) ==
  /\ request[c].step = "saveAggregate"
  /\ request[c].items = {e}
  /\ entry' = [entry EXCEPT ![e] = saveDraft(request[c].found[e])]
  /\ Overwrite(c, Idle, {e}, PublishSteps, "staleSave")
  /\ UNCHANGED <<versions, published, references, outbox, clock>>

-------------------------------------------------------------------------------
(***************************************************************************)
(* Publishing: one entry (publishEntryTx), or a batch (publishEntriesTx)   *)
(* that leaves out the entries that fail a check.  A batch reads the clock *)
(* before its first write, a single publish after it.                      *)
(***************************************************************************)
BeginPublish(c, E, batch) ==
  /\ request[c].step = "idle"
  /\ clock < MaxClock
  /\ E # {} /\ (batch \/ Cardinality(E) = 1)
  /\ request' = [request EXCEPT ![c] = Read(c, "readFields", E, batch)]
  /\ UNCHANGED <<entry, versions, published, references, outbox, clock, taint>>

\* The entries of the request that exist and link to entries that do.
Publishable(r, f) ==
  {e \in r.items : /\ r.found[e].currentVersion > 0
                   /\ \A t \in extractReferences(f[e], e) : Exists(t)}

ReadFields(c) ==
  LET r == request[c]
      f == [e \in Entries |-> IF e \in r.items THEN FieldsOf(r.found[e], e) ELSE 0]
      publishable == Publishable(r, f)
  IN
  /\ r.step = "readFields"
  /\ IF publishable = {}
       THEN /\ request' = [request EXCEPT ![c] = Idle]
            /\ UNCHANGED clock
       ELSE /\ clock' = IF r.batch THEN clock + 1 ELSE clock
            /\ request' = [request EXCEPT ![c] =
                 [r EXCEPT !.step = "publish", !.items = publishable, !.fields = f,
                           !.at = IF r.batch THEN clock + 1 ELSE 0,
                           !.stale = @ \intersect publishable]]
  /\ UNCHANGED <<entry, versions, published, references, outbox, taint>>

\* Variant: the clock stands still.
Announce_StandingClock(r, type, snapshot) ==
  /\ clock' = clock
  /\ outbox' = outbox \union
       {[type |-> type, entryId |-> e, version |-> snapshot[e].version,
         fields |-> snapshot[e].fields, occurredAt |-> clock] : e \in r.items}

\* Appends one event per entry of r.items, all at the same instant.
Announce(r, type, snapshot) ==
  LET at == IF r.batch THEN r.at ELSE clock + 1 IN
  /\ clock' = IF r.batch THEN clock ELSE clock + 1
  /\ outbox' = outbox \union
       {[type |-> type, entryId |-> e, version |-> snapshot[e].version,
         fields |-> snapshot[e].fields, occurredAt |-> at] : e \in r.items}

CommitPublish(c) ==
  LET r == request[c]
      snapshot == [e \in r.items |-> [version |-> r.found[e].currentVersion,
                                      fields  |-> r.fields[e]]]
  IN
  /\ r.step = "publish"
  /\ entry' = [e \in Entries |-> IF e \in r.items THEN publish(r.found[e]) ELSE entry[e]]
  /\ published' = [e \in Entries |-> IF e \in r.items THEN snapshot[e] ELSE published[e]]
  /\ references' = [e \in Entries |-> IF e \in r.items
                       THEN extractReferences(r.fields[e], e) ELSE references[e]]
  /\ Announce(r, "entry.published", snapshot)
  /\ Overwrite(c, Idle, r.items, SaveSteps, "stalePublish")
  /\ UNCHANGED versions

(***************************************************************************)
(* Unpublishing one entry (unpublishEntryTx) or a batch                    *)
(* (unpublishEntriesTx): what is not published is refused or left out.     *)
(***************************************************************************)
BeginUnpublish(c, E, batch) ==
  LET withdrawn == {e \in E : entry[e].publishedVersion > 0} IN
  /\ request[c].step = "idle"
  /\ clock < MaxClock
  /\ withdrawn # {} /\ (batch \/ Cardinality(E) = 1)
  /\ clock' = IF batch THEN clock + 1 ELSE clock
  /\ request' = [request EXCEPT ![c] =
       [Read(c, "unpublish", withdrawn, batch) EXCEPT !.at = IF batch THEN clock + 1 ELSE 0]]
  /\ UNCHANGED <<entry, versions, published, references, outbox, taint>>

CommitUnpublish(c) ==
  LET r == request[c] IN
  /\ r.step = "unpublish"
  /\ entry' = [e \in Entries |-> IF e \in r.items THEN unpublish(r.found[e]) ELSE entry[e]]
  /\ published' = [e \in Entries |-> IF e \in r.items THEN NoSnapshot ELSE published[e]]
  /\ references' = [e \in Entries |-> IF e \in r.items THEN {} ELSE references[e]]
  /\ Announce(r, "entry.unpublished", [e \in r.items |-> NoSnapshot])
  /\ Overwrite(c, Idle, r.items, SaveSteps, "stalePublish")
  /\ UNCHANGED versions

(***************************************************************************)
(* The process dies, or the statement fails: what is not committed is      *)
(* lost, what other statements of the request wrote before stays.          *)
(***************************************************************************)
Crash(c) ==
  LET r == request[c] IN
  /\ r.step # "idle"
  /\ request' = [request EXCEPT ![c] = Idle]
  /\ taint' = IF r.step \in {"insertFirstVersion", "saveAggregate"}
                THEN [e \in Entries |-> IF e \in r.items THEN taint[e] \union {"crash"}
                                                         ELSE taint[e]]
                ELSE taint
  /\ UNCHANGED <<entry, versions, published, references, outbox, clock>>

Save(c) == \E e \in Entries :
  \/ BeginCreate(c, e) \/ InsertEntry(c, e) \/ InsertFirstVersion(c, e)
  \/ BeginUpdate(c, e) \/ InsertVersion(c, e) \/ SaveAggregate(c, e)

Publish(c) ==
  \/ \E E \in SUBSET Entries, batch \in Batching :
       BeginPublish(c, E, batch) \/ BeginUnpublish(c, E, batch)
  \/ ReadFields(c) \/ CommitPublish(c) \/ CommitUnpublish(c)

Next == \E c \in Clients : Save(c) \/ Publish(c) \/ Crash(c)

Spec == Init /\ [][Next]_vars

-------------------------------------------------------------------------------
TypeOK ==
  /\ entry \in [Entries -> Row]
  /\ versions \in [Entries -> SUBSET Nat]
  /\ published \in [Entries -> Snapshot]
  /\ references \in [Entries -> SUBSET Entries]
  /\ outbox \subseteq Event
  /\ clock \in Nat
  /\ request \in [Clients -> Request]
  /\ taint \in [Entries -> SUBSET Fault]

\* entry.ts: "`publishedVersion` (when set) points at the snapshot currently
\* served".  However publishes, unpublishes and batches race with each other, the
\* pointer and the read model never part; only a save that overwrites a publish
\* or an unpublish it has not seen parts them.
PointerMatchesReadModel ==
  \A e \in Entries :
    "staleSave" \notin taint[e] => entry[e].publishedVersion = published[e].version

Saving(e) == \E c \in Clients :
  /\ request[c].items = {e}
  /\ request[c].step \in {"insertFirstVersion", "saveAggregate"}

\* entry.ts: "`currentVersion` always points at the latest saved draft snapshot".
\* Editors racing each other cannot break it (the primary key of entry_versions
\* refuses the later one): only a publish that writes back an aggregate older than
\* a save, or a save cut off between its two statements, does.
CurrentIsLatest ==
  \A e \in Entries :
    taint[e] \subseteq {"staleSave"} /\ ~Saving(e)
      => versions[e] = 1 .. entry[e].currentVersion

\* deriveStatus "keeps the state machine consistent everywhere": the stored status
\* agrees with the two pointers even when a stale copy of the row is written back.
StatusIsDerived ==
  \A e \in Entries : Exists(e) =>
    /\ entry[e].publishedVersion <= entry[e].currentVersion
    /\ entry[e].status = deriveStatus(entry[e].currentVersion, entry[e].publishedVersion)

\* The fields served are those of the version the snapshot names.  The exception
\* is version 1 of an entry published between (or after a crash between) the two
\* inserts of its creation: that one is served with no fields.
ServedFieldsAreOfVersion ==
  \A e \in Entries :
    \/ published[e].fields = published[e].version
    \/ published[e] = [version |-> 1, fields |-> 0]

\* The link edges that drive cache invalidation are exactly those of what is
\* served, and none of them dangles.
ReferencesFollowReadModel ==
  \A e \in Entries :
    /\ references[e] = extractReferences(published[e].fields, e)
    /\ \A t \in references[e] : Exists(t)

\* What the Delivery API reads of an entry is one version of it, fields and links alike.
ReadModelIsWhole == ServedFieldsAreOfVersion /\ ReferencesFollowReadModel

\* publishing.ts: "guaranteeing the event is enqueued iff the publish commits".
\* The read model of an entry changes only in a step that appends an event telling
\* its new state, and every appended event tells the state its step leaves.
Announced ==
  LET new == outbox' \ outbox IN
  /\ \A e \in Entries : published'[e] # published[e] => \E ev \in new : ev.entryId = e
  /\ \A ev \in new :
       /\ published'[ev.entryId] = [version |-> ev.version, fields |-> ev.fields]
       /\ (ev.type = "entry.published") = (ev.version > 0)
\* The relay reads the outbox by occurredAt.  On the single-entry path the clock is read
\* under the row's lock, so the event it appends is the newest of its entry, later even
\* than those of batches that took their instant before they got the lock.
SinglesAreNewest ==
  \A c \in Clients, ev \in outbox' \ outbox, other \in outbox' :
    /\ request[c].step \in {"publish", "unpublish"} /\ request'[c] = Idle /\ ~request[c].batch
    /\ ev # other /\ ev.entryId = other.entryId
    => other.occurredAt < ev.occurredAt

\* The outbox tells the commits, each as it was and, of the single-entry path, in order.
EventsTellCommits == [][Announced /\ SinglesAreNewest]_vars

===============================================================================
