----------------------------- MODULE ContentAssist -----------------------------
(***************************************************************************)
(* What an editor asks a model for: translate, summarize and fill fields,  *)
(* run a stored action, tag an entry or an asset, write an alternative     *)
(* text, draft an entry.  Each call reads a row, waits for the generation, *)
(* and writes the row back with its own part replaced or added; people go  *)
(* on editing in the meantime.                                             *)
(*                                                                         *)
(* A row is a set of places: the fields of an entry's draft, its tags and  *)
(* concepts, the labels of an asset and its texts by locale.  A place      *)
(* holds a set: the last writer of a field or a text, or ids of tags.      *)
(***************************************************************************)
EXTENDS Integers, Sequences, FiniteSets

CONSTANTS
  Calls,            \* requests for assistance
  Fields, Locales,  \* of the entry and of the asset
  OldTags,          \* the tags that exist at first, numbered from 1
  Jobs,             \* what can be asked for
  MaxActs           \* bound: what people do meanwhile

VARIABLES
  contents,    \* the rows, by place
  version,     \* currentVersion of the entry
  vocabulary,  \* the tags that exist: id -> name (at first, tag t is named t)
  call,        \* what every call has got to
  ledger,      \* the calls with an agent run record
  acts,        \* how often people acted
  made,        \* history: what was put where, <<place, value>>
  excused      \* history: what of it was replaced on purpose or by an overlapping call

vars == <<contents, version, vocabulary, call, ledger, acts, made, excused>>

FieldJobs == {"translate", "summarize", "autofill", "action"}
EntryTagJobs == {"suggest", "approve"}
TagJobs == EntryTagJobs \union {"autotag"}

Row(kind) ==
  CASE kind \in FieldJobs -> Fields
    [] kind \in EntryTagJobs -> {"tags", "concepts"}
    [] kind \in {"autotag", "alttext"} -> {"labels"} \union Locales
    [] kind = "draft" -> {}
Places == UNION {Row(kind) : kind \in {"action", "suggest", "autotag"}}

(* A job: its kind, the place it writes, whether to apply the answer, and the  *)
(* existing tags and the new names that the model or a reviewer chooses:       *)
(* [kind, at, apply, chosen, names].                                           *)
AssistAssumption ==
  /\ OldTags = 1..Cardinality(OldTags) /\ MaxActs \in Nat
  /\ \A j \in Jobs : /\ j.kind = "draft" \/ j.at \in Row(j.kind)
                     /\ j.kind = "draft" => ~j.apply
                     /\ j.kind \in TagJobs => j.apply /\ j.chosen \subseteq OldTags

Idle == [step |-> "idle"]

Init ==
  /\ contents = [p \in Places |-> {}]
  /\ version = 1
  /\ vocabulary = [t \in OldTags |-> t]
  /\ call = [c \in Calls |-> Idle]
  /\ ledger = {}
  /\ acts = 0
  /\ made = {} /\ excused = {}

-------------------------------------------------------------------------------

At(c, step) == call[c].step = step
Running(c) == ~At(c, "idle") /\ ~At(c, "over")
Goes(c, k) == call' = [call EXCEPT ![c] = k]
Over(c) == Goes(c, [call[c] EXCEPT !.step = "over"])
Unchanged == UNCHANGED <<contents, version, made, excused, acts>>

(* loadEntryForAi, getAsset and listTags; a reviewed set of tags needs no      *)
(* generation, and is refused at once when it names a tag that does not exist. *)
Load(c, job) ==
  /\ At(c, "idle")
  /\ job.kind = "approve" => job.chosen \subseteq DOMAIN vocabulary
  /\ Goes(c, [kind |-> job.kind, at |-> job.at, apply |-> job.apply,
              chosen |-> job.chosen \intersect DOMAIN vocabulary, names |-> job.names,
              step |-> IF job.kind = "approve" THEN "create" ELSE "generating",
              first |-> [p \in Row(job.kind) |-> contents[p]], second |-> <<>>, based |-> 0,
              listed |-> vocabulary, created |-> {}, seen |-> {}, paid |-> FALSE, applied |-> FALSE,
              unseen |-> {}, disturbed |-> FALSE])
  /\ Unchanged /\ UNCHANGED <<vocabulary, ledger>>

(* Where each call goes with the model's answer, which is of use or not: to     *)
(* apply it, to record the run only, or to throw.                              *)
Unless(useful, apply, next) == IF ~useful THEN "over" ELSE IF apply THEN next ELSE "record"
SummarizeEntry(useful, apply) == Unless(useful, apply, "reread")
AutofillField(useful, apply) == Unless(useful, apply, "reread")
GenerateAltText(useful, apply) == Unless(useful, apply, "reread")
DraftEntry(useful) == Unless(useful, FALSE, "record")
TranslateEntry(useful, apply) == IF useful /\ apply THEN "reread" ELSE "record"
RunAIAction(apply) == IF apply THEN "reread" ELSE "record"
SuggestEntryTags(apply) == IF apply THEN "create" ELSE "record"
AutoTagAsset(apply) == IF apply THEN "create" ELSE "record"

Answered(kind, useful, apply) ==
  CASE kind = "translate" -> TranslateEntry(useful, apply)
    [] kind = "summarize" -> SummarizeEntry(useful, apply)
    [] kind = "autofill" -> AutofillField(useful, apply)
    [] kind = "action" -> RunAIAction(apply)
    [] kind = "alttext" -> GenerateAltText(useful, apply)
    [] kind = "suggest" -> SuggestEntryTags(apply)
    [] kind = "autotag" -> AutoTagAsset(apply)
    [] kind = "draft" -> DraftEntry(useful)

Generate(c, useful) ==
  /\ At(c, "generating")
  /\ Goes(c, [call[c] EXCEPT !.step = Answered(call[c].kind, useful, call[c].apply), !.paid = TRUE,
                             !.names = IF useful THEN @ ELSE <<>>,
                             !.chosen = IF useful THEN @ ELSE {}])
  /\ Unchanged /\ UNCHANGED <<vocabulary, ledger>>

\* The budget refuses the call, or the provider fails.
GenerationFails(c) ==
  /\ At(c, "generating") /\ Over(c)
  /\ Unchanged /\ UNCHANGED <<vocabulary, ledger>>

(* One new name: it is created unless the list read at the beginning has it,   *)
(* in which case a reviewed name is taken as that tag and a model's is dropped; *)
(* a reviewed name that comes twice is created once.                           *)
Known(c, n) == {t \in DOMAIN call[c].listed : call[c].listed[t] = n}
Seen(c, n) == call[c].kind = "approve" /\ n \in call[c].seen

NewTag == 1 + Cardinality(OldTags \union UNION {call[c].created : c \in {d \in Calls : ~At(d, "idle")}})

CreateTag(c) ==
  /\ At(c, "create") /\ call[c].names # <<>>
  /\ LET n == Head(call[c].names)  k == [call[c] EXCEPT !.names = Tail(@), !.seen = @ \union {n}] IN
     IF Known(c, n) # {} \/ Seen(c, n)
     THEN /\ Goes(c, IF k.kind = "approve" THEN [k EXCEPT !.chosen = @ \union Known(c, n)] ELSE k)
          /\ UNCHANGED vocabulary
     ELSE LET t == NewTag IN
          /\ vocabulary' = [u \in DOMAIN vocabulary \union {t} |-> IF u = t THEN n ELSE vocabulary[u]]
          /\ Goes(c, [k EXCEPT !.created = @ \union {t}])
  /\ Unchanged /\ UNCHANGED ledger

TagsCreated(c) ==
  /\ At(c, "create") /\ call[c].names = <<>>
  /\ Goes(c, [call[c] EXCEPT !.step = "reread"])
  /\ Unchanged /\ UNCHANGED <<vocabulary, ledger>>

\* Variant: the metadata of the entry is taken from before the generation.
Reread_Early(c) ==
  /\ At(c, "reread")
  /\ Goes(c, [call[c] EXCEPT !.step = IF call[c].kind \in EntryTagJobs THEN "check" ELSE "write",
                !.second = call[c].first, !.based = version,
                !.unseen = IF call[c].kind \in EntryTagJobs THEN {} ELSE @])
  /\ Unchanged /\ UNCHANGED <<vocabulary, ledger>>

(* updateEntry reads the entry's versions, setAssetMetadata the asset, and the  *)
(* metadata of an entry is read for the first time.                            *)
Reread(c) ==
  /\ At(c, "reread")
  /\ Goes(c, [call[c] EXCEPT !.step = IF call[c].kind \in EntryTagJobs THEN "check" ELSE "write",
                !.second = [p \in Row(call[c].kind) |-> contents[p]], !.based = version,
                !.unseen = IF call[c].kind \in EntryTagJobs THEN {} ELSE @])
  /\ Unchanged /\ UNCHANGED <<vocabulary, ledger>>

Added(c) == call[c].chosen \union call[c].created

\* setEntryMetadata looks up every tag, those the entry has already as well.
CheckTags(c) ==
  /\ At(c, "check")
  /\ IF Added(c) \union call[c].second["tags"] \subseteq DOMAIN vocabulary
     THEN Goes(c, [call[c] EXCEPT !.step = "write"]) ELSE Over(c)
  /\ Unchanged /\ UNCHANGED <<vocabulary, ledger>>

(* What a call writes to a place of its row.  Fields, labels and texts are      *)
(* merged with what was read before the generation, the rest is from the        *)
(* second read.                                                                *)
Written(c, p) ==
  LET k == call[c] IN
  CASE p = k.at /\ k.kind = "autotag" -> k.first[p] \union Added(c)
    [] p = k.at /\ k.kind \in EntryTagJobs -> k.second[p] \union Added(c)
    [] p = k.at /\ k.kind \notin TagJobs -> {c}
    [] p # k.at -> IF k.kind \in FieldJobs \/ (k.kind = "alttext" /\ p \in Locales)
                   THEN k.first[p] ELSE k.second[p]

\* The values that a writer puts somewhere, and who replaces what was there on purpose.
Contribution(c) ==
  IF call[c].kind \in TagJobs THEN {<<call[c].at, t>> : t \in Added(c)} ELSE {<<call[c].at, c>>}
Tell(calls, own) == [k \in Calls |-> IF calls[k].step \in {"idle", "over"} THEN calls[k]
                                     ELSE [calls[k] EXCEPT !.unseen = @ \union own]]

(* saveVersion, whose primary key refuses a version that another save took, or *)
(* the upsert of the metadata or of the asset's whole row.                     *)
Write(c) ==
  LET k == call[c]  row == Row(k.kind) IN
  /\ At(c, "write") /\ (k.kind \in FieldJobs => k.based = version)
  /\ contents' = [p \in Places |-> IF p \in row THEN Written(c, p) ELSE contents[p]]
  /\ version' = IF k.kind \in FieldJobs THEN version + 1 ELSE version
  /\ call' = [Tell(call, Contribution(c)) EXCEPT ![c] = [k EXCEPT !.step = "record", !.applied = TRUE]]
  /\ made' = made \union Contribution(c)
  /\ excused' = excused \union k.unseen \union
       IF k.kind \in TagJobs THEN {} ELSE {m \in made : m[1] = k.at}
  /\ UNCHANGED <<vocabulary, ledger, acts>>

\* The version was taken, or the value does not pass the validation of the field.
Refused(c) ==
  /\ At(c, "write") /\ call[c].kind \in FieldJobs
  /\ Over(c)
  /\ Unchanged /\ UNCHANGED <<vocabulary, ledger>>

Record(c) ==
  /\ At(c, "record")
  /\ ledger' = ledger \union {c}
  /\ Over(c)
  /\ Unchanged /\ UNCHANGED vocabulary

-------------------------------------------------------------------------------
\* People: a save of the draft with one field changed, a concept given to the entry,
\* a tag that is deleted from the vocabulary (and from nowhere else).
Act == acts < MaxActs /\ acts' = acts + 1

Put(p, x, replaces) ==
  /\ contents' = [contents EXCEPT ![p] = IF replaces THEN {x} ELSE @ \union {x}]
  /\ call' = Tell(call, {<<p, x>>})
  /\ made' = made \union {<<p, x>>}
  /\ excused' = IF replaces THEN excused \union {m \in made : m[1] = p} ELSE excused

Edit(f) == Act /\ Put(f, acts, TRUE) /\ version' = version + 1 /\ UNCHANGED <<vocabulary, ledger>>
GiveConcept == Act /\ Put("concepts", acts, FALSE) /\ UNCHANGED <<version, vocabulary, ledger>>

DeleteTag(t) ==
  /\ Act
  /\ vocabulary' = [u \in DOMAIN vocabulary \ {t} |-> vocabulary[u]]
  /\ call' = [k \in Calls |-> IF Running(k) THEN [call[k] EXCEPT !.disturbed = TRUE] ELSE call[k]]
  /\ UNCHANGED <<contents, version, ledger, made, excused>>

Assist(c) ==
  \/ \E job \in Jobs : Load(c, job)
  \/ \E useful \in BOOLEAN : Generate(c, useful)
  \/ GenerationFails(c)
  \/ CreateTag(c) \/ TagsCreated(c)
  \/ Reread(c) \/ CheckTags(c) \/ Write(c) \/ Refused(c)
  \/ Record(c)

Next ==
  \/ \E c \in Calls : Assist(c)
  \/ \E f \in Fields : Edit(f)
  \/ GiveConcept
  \/ \E t \in DOMAIN vocabulary : DeleteTag(t)

Spec == Init /\ [][Next]_vars

-------------------------------------------------------------------------------
\* Whatever a call or a person put into a row is still there, unless someone wrote the
\* same place later, or a call that could not know of it wrote its row: for a field or
\* an asset a call knows what was there when it began, for the tags and concepts of an
\* entry what was there after the model had answered.
NothingLost == \A m \in made : m[2] \in contents[m[1]] \/ m \in excused

\* "Existing names are reused": a second tag of one name comes only from a call that
\* had listed the vocabulary before the first one was created, or whose model named it
\* twice.
TagsNamedOnce ==
  \A t, u \in DOMAIN vocabulary : t # u /\ vocabulary[t] = vocabulary[u] =>
    \E c \in Calls : ~At(c, "idle") /\ \E new \in {t, u} \intersect call[c].created :
      /\ {t, u} \intersect DOMAIN call[c].listed = {}
      /\ call[c].kind = "approve" => ({t, u} \ {new}) \intersect call[c].created = {}

\* "A stale review must fail without orphaning new vocabulary tags": it leaves new tags
\* behind only when a tag was deleted while it ran, or the entry carries a deleted one.
FailedReviewsLeaveNothing ==
  \A c \in Calls : At(c, "over") /\ call[c].kind = "approve" /\ ~call[c].applied =>
    \/ call[c].created = {} \/ call[c].disturbed
    \/ \E t \in call[c].second["tags"] : t \notin DOMAIN vocabulary

\* What people and calls do for an entry survives the calls of others.
AssistKeepsWork == NothingLost /\ TagsNamedOnce /\ FailedReviewsLeaveNothing

\* "Every run is recorded in the agent cost ledger" (media-ai.ts): so is every generation
\* that was paid for.
LedgerTellsSpending == \A c \in Calls : At(c, "over") /\ call[c].paid => c \in ledger
================================================================================
