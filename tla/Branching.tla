------------------------------- MODULE Branching -------------------------------
(***************************************************************************)
(* The environments of a space as branches: a content type and entries of  *)
(* it in each, clients that revise, publish and save them, and the panel   *)
(* of the admin that compares two environments and merges what it shows.   *)
(* Every read and every write of a merge is a statement of its own.        *)
(***************************************************************************)
EXTENDS Integers, FiniteSets, SequencesExt

CONSTANTS
  Branches,   \* the environments
  Entries, Clients,
  Shapes,     \* definitions of the content type
  Allowed,    \* the field values that each shape allows
  Limits,     \* how many entries a list may have that is asked for without a limit (100)
  MaxActs     \* bound: writes of clients, merges, and moves of the pickers

BranchingAssumption ==
  /\ IsFiniteSet(Entries)
  /\ DOMAIN Allowed = Shapes
  /\ Limits \subseteq Nat \ {0} /\ MaxActs \in Nat

VARIABLES
  limit,    \* which of Limits it is, for good
  type,     \* the content type of each environment: [shape, version, status]
  list,     \* its entries by updatedAt: [id, fields, version]
  request,  \* what each client is doing
  panel,    \* the panel: its pickers (from, to), the comparison it shows, and its request, with history:
            \* "clean", no client wrote and no picker moved since the comparison began; "whole", the lists
            \* had all entries; "all", everything that was offered is merged
  acts

vars == <<limit, type, list, request, panel, acts>>

None == [version |-> 0]
Idle == [step |-> "idle"]
Values == UNION {Allowed[s] : s \in Shapes}

Ids(b) == {list[b][i].id : i \in DOMAIN list[b]}
Row(b, e) == IF e \in Ids(b) THEN list[b][CHOOSE i \in DOMAIN list[b] : list[b][i].id = e]
             ELSE [id |-> e, version |-> 0]
Fields(b, e) == IF e \in Ids(b) THEN Row(b, e).fields ELSE 0

\* A write of an entry's row moves it to the end of the list.
Put(b, row) ==
  list' = [list EXCEPT ![b] = Append(SelectSeq(@, LAMBDA r : r.id # row.id), row)]

NoDiff == [type |-> "unchanged", entries |-> <<>>]

NoRow == [id |-> 0, version |-> 0]
NotRead == [b \in {} |-> {}]

\* A branch that was merged once, or a new one.
Init ==
  \E main, staging \in Branches :
    /\ main = CHOOSE b \in Branches : TRUE
    /\ main # staging
    /\ \E s \in Shapes, f \in Values : \E new \in BOOLEAN :
         /\ f \in Allowed[s]
         /\ type = [b \in Branches |->
              IF b = main /\ new THEN None ELSE [shape |-> s, version |-> 1, status |-> "draft"]]
         /\ list = [b \in Branches |->
              IF b = main /\ new THEN <<>> ELSE <<[id |-> CHOOSE e \in Entries : TRUE, fields |-> f, version |-> 1]>>]
    /\ request = [c \in Clients |-> Idle]
    /\ panel = [step |-> "idle", from |-> staging, to |-> main, pair |-> <<staging, main>>, types |-> NotRead,
                lists |-> NotRead, diff |-> NoDiff, todo |-> <<>>, row |-> NoRow, merged |-> FALSE,
                clean |-> FALSE, whole |-> TRUE, all |-> FALSE]
    /\ acts = 0 /\ limit \in Limits

-------------------------------------------------------------------------------
(***************************************************************************)
(* Clients.  A request reads, and writes what it made of it.               *)
(***************************************************************************)
Goto(c, q) == request' = [request EXCEPT ![c] = q]
Stir == panel' = [panel EXCEPT !.clean = FALSE]
Act == acts < MaxActs /\ acts' = acts + 1

\* createContentType, updateContentType, publishContentType: the type is read.
BeginType(c, b, op) ==
  /\ request[c] = Idle
  /\ op = "publish" => type[b] # None
  /\ Goto(c, [step |-> op, branch |-> b, base |-> type[b]])
  /\ Act
  /\ UNCHANGED <<limit, type, list, panel>>

\* contentTypes.save, of the whole row: what was saved since the read is lost.  (The event of a
\* publish is delivered to webhooks only.)
WriteType(c, row) ==
  /\ type' = [type EXCEPT ![request[c].branch] = row]
  /\ Goto(c, Idle) /\ Stir
  /\ UNCHANGED <<limit, list, acts>>

Revise(c, s) ==
  /\ request[c].step = "revise"
  /\ WriteType(c, [shape |-> s, version |-> request[c].base.version + 1, status |-> "draft"])

PublishType(c) ==
  /\ request[c].step = "publish"
  /\ WriteType(c, [request[c].base EXCEPT !.status = "published"])

\* createEntry and updateEntry: the row and the type are read, the fields are validated.  (A row
\* that changes between the two reads has a version more: the write fails in either case.)
BeginSave(c, b, e, f) ==
  /\ request[c] = Idle
  /\ e \in Ids(b) \/ \A d \in Branches : e \notin Ids(d) /\
       ~ \E k \in Clients : request[k].step = "save" /\ request[k].row.id = e
  /\ type[b] # None /\ f \in Allowed[type[b].shape]
  /\ Goto(c, [step |-> "save", branch |-> b, row |-> [id |-> e, fields |-> f, version |-> Row(b, e).version + 1]])
  /\ Act
  /\ UNCHANGED <<limit, type, list, panel>>

\* saveVersion; the version's row may be there by now.
Save(c) ==
  LET q == request[c] IN
  /\ q.step = "save"
  /\ IF Row(q.branch, q.row.id).version < q.row.version THEN Put(q.branch, q.row) /\ Stir
     ELSE UNCHANGED <<list, panel>>
  /\ Goto(c, Idle)
  /\ UNCHANGED <<limit, type, acts>>

\* publishEntry, unpublishEntry: the row is written, its fields are not.
Publish(b, e) ==
  /\ e \in Ids(b) /\ Act
  /\ Put(b, Row(b, e)) /\ Stir
  /\ UNCHANGED <<limit, type, request>>

-------------------------------------------------------------------------------
(***************************************************************************)
(* The panel: BranchMerge, compareEnvironments and mergeEnvironments.      *)
(***************************************************************************)
others == <<limit, request, acts>>
kept == <<type, list, others>>
Panel(p) == panel' = p @@ panel

\* The pickers are never disabled, and the comparison stays.
Pick(b, d) ==
  /\ <<b, d>> # <<panel.from, panel.to>>
  /\ Panel([from |-> b, to |-> d, clean |-> FALSE])
  /\ Act
  /\ UNCHANGED <<limit, type, list, request>>

Compare ==
  /\ panel.step \in {"idle", "failed"} /\ panel.from # panel.to
  /\ Panel([step |-> "compare", pair |-> <<panel.from, panel.to>>, merged |-> FALSE,
            clean |-> TRUE, whole |-> TRUE, all |-> FALSE])
  /\ UNCHANGED kept

\* The two types are listed, then the two lists of entries: those that were written longest ago.
ListType(b) ==
  /\ panel.step = "compare" /\ b \in ToSet(panel.pair) \ DOMAIN panel.types
  /\ Panel([types |-> b :> type[b] @@ panel.types])
  /\ UNCHANGED kept

ListEntries(b) ==
  /\ panel.step = "compare" /\ ToSet(panel.pair) = DOMAIN panel.types
  /\ b \in ToSet(panel.pair) \ DOMAIN panel.lists
  /\ Panel([lists |-> b :> SubSeq(list[b], 1, Min({Len(list[b]), limit})) @@ panel.lists,
            whole |-> panel.whole /\ Len(list[b]) <= limit])
  /\ UNCHANGED kept

\* What merging the source (a) would do to the target (b), where one of them has the item.
classify(a, b, none) ==
  IF a = none THEN "removed" ELSE IF b = none THEN "added" ELSE IF a = b THEN "unchanged" ELSE "changed"
mergeable(kind) == kind \in {"added", "changed"}

shapeOf(t) == IF t = None THEN None ELSE [shape |-> t.shape, status |-> t.status]
listed(rows, e) == LET i == SelectInSeq(rows, LAMBDA r : r.id = e) IN IF i = 0 THEN 0 ELSE rows[i].fields

\* The items that the panel offers to merge: the type, and entries in the order of the source's list.
Offered(types, lists, a, b) ==
  LET rows == SelectSeq(lists[a], LAMBDA r : mergeable(classify(r.fields, listed(lists[b], r.id), 0)))
  IN [type |-> classify(shapeOf(types[a]), shapeOf(types[b]), None),
      entries |-> [i \in DOMAIN rows |-> rows[i].id]]

Show ==
  /\ panel.step = "compare" /\ ToSet(panel.pair) = DOMAIN panel.lists
  /\ Panel([step |-> "idle", types |-> NotRead, lists |-> NotRead,
            diff |-> Offered(panel.types, panel.lists, panel.pair[1], panel.pair[2])])
  /\ UNCHANGED kept

\* What is picked of the comparison is merged between what the pickers say now.
Merge(withType, entries) ==
  LET todo == SelectSeq(panel.diff.entries, LAMBDA e : e \in entries) IN
  /\ panel.step \in {"idle", "failed"}
  /\ withType => mergeable(panel.diff.type)
  /\ withType \/ entries # {}
  /\ Panel([step |-> IF withType THEN "type" ELSE "entry", pair |-> <<panel.from, panel.to>>, todo |-> todo,
            all |-> withType = mergeable(panel.diff.type) /\ todo = panel.diff.entries])
  /\ Act
  /\ UNCHANGED <<limit, type, list, request>>

Source == panel.pair[1]
Target == panel.pair[2]
Fails == Panel([step |-> "failed", todo |-> <<>>, row |-> NoRow]) /\ UNCHANGED <<type, list>>

\* The type is read in the source, then saved in the target as it is, version and status included.
LoadType ==
  /\ panel.step = "type"
  /\ \/ type[Source] = None /\ Fails
     \/ /\ type[Source] # None
        /\ Panel([step |-> "saveType", types |-> Source :> type[Source]])
        /\ UNCHANGED <<type, list>>
  /\ UNCHANGED others

SaveType ==
  /\ panel.step = "saveType"
  /\ type' = [type EXCEPT ![Target] = panel.types[Source]]
  /\ Panel([step |-> "entry", types |-> NotRead])
  /\ UNCHANGED <<list, others>>

\* The next entry is read in the source, and the result of the whole is compared again.
LoadEntry ==
  /\ panel.step = "entry"
  /\ \/ /\ panel.todo = <<>>
        /\ Panel([step |-> "compare", merged |-> TRUE])
        /\ UNCHANGED <<type, list>>
     \/ panel.todo # <<>> /\ Head(panel.todo) \notin Ids(Source) /\ Fails
     \/ /\ panel.todo # <<>> /\ Head(panel.todo) \in Ids(Source)
        /\ Panel([step |-> "validate", todo |-> Tail(panel.todo), row |-> Row(Source, Head(panel.todo))])
        /\ UNCHANGED <<type, list>>
  /\ UNCHANGED others

\* Its fields are validated against the target's type.
Fits(b, fields) == type[b] # None /\ fields \in Allowed[type[b].shape]
Validate ==
  /\ panel.step = "validate"
  /\ \/ ~ Fits(Target, panel.row.fields) /\ Fails
     \/ /\ Fits(Target, panel.row.fields)
        /\ Panel([step |-> "existing"])
        /\ UNCHANGED <<type, list>>
  /\ UNCHANGED others

\* Variant: an entry is always created, with its first version.
LoadTarget_Creating ==
  /\ panel.step = "existing"
  /\ Panel([step |-> "apply", row |-> [panel.row EXCEPT !.version = 1]])
  /\ UNCHANGED kept

\* applyEntry: a new entry, or a version more than the target has.
LoadTarget ==
  /\ panel.step = "existing"
  /\ Panel([step |-> "apply", row |-> [panel.row EXCEPT !.version = Row(Target, panel.row.id).version + 1]])
  /\ UNCHANGED kept

Apply ==
  /\ panel.step = "apply"
  /\ \/ Row(Target, panel.row.id).version >= panel.row.version /\ Fails
     \/ /\ Row(Target, panel.row.id).version < panel.row.version
        /\ Put(Target, panel.row)
        /\ Panel([step |-> "entry", row |-> NoRow])
        /\ UNCHANGED type
  /\ UNCHANGED others

Next ==
  \/ \E c \in Clients :
       \/ \E b \in Branches : BeginType(c, b, "revise") \/ BeginType(c, b, "publish")
       \/ \E b \in Branches, e \in Entries, f \in Values : BeginSave(c, b, e, f)
       \/ \E s \in Shapes : Revise(c, s)
       \/ PublishType(c) \/ Save(c)
  \/ \E b \in Branches, e \in Entries : Publish(b, e)
  \/ \E b, d \in Branches : Pick(b, d)
  \/ \E b \in Branches : ListType(b) \/ ListEntries(b)
  \/ \E withType \in BOOLEAN, entries \in SUBSET ToSet(panel.diff.entries) : Merge(withType, entries)
  \/ Compare \/ Show \/ LoadType \/ SaveType \/ LoadEntry \/ Validate \/ LoadTarget \/ Apply

Spec == Init /\ [][Next]_vars

-------------------------------------------------------------------------------
Offers == mergeable(panel.diff.type) \/ panel.diff.entries # <<>>

\* "Which content types and entries differ": the comparison shows every entry that differs, and no
\* other, if nobody wrote meanwhile.  True of lists that have all entries only.
ComparisonComplete ==
  panel.clean /\ panel.step = "idle" =>
    ToSet(panel.diff.entries) = {e \in Ids(Source) : Fields(Source, e) # Fields(Target, e)}

\* Unless somebody wrote or a picker moved meanwhile: a merge of all that was offered leaves nothing to
\* merge, and it fails only at an entry that does not fit the type; what is offered is what differs.
\* That nothing is left, and what is offered, only where the lists had all entries.
MergeSettles ==
  /\ panel.whole => ComparisonComplete
  /\ panel.clean /\ panel.all =>
       /\ panel.step = "idle" /\ panel.merged /\ panel.whole => ~ Offers
       /\ panel.step = "failed" => \E e \in Ids(Source) : ~ Fits(Target, Row(Source, e).fields)
===============================================================================
