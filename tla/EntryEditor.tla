------------------------------ MODULE EntryEditor ------------------------------
(***************************************************************************)
(* The entry editor of the admin: one page that stays mounted while its    *)
(* user goes from entry to entry, with a form that is seeded once from a   *)
(* cached query, and requests (save, publish, restore, generate) that are  *)
(* answered whenever they are answered.  A request takes effect on the     *)
(* server in one step (EntryPublishing has its parts), and other users     *)
(* save and publish the same entries.  A value is a number, fresh for each *)
(* keystroke; 0 is an empty field.  A failed query, which leaves the page, *)
(* is not modelled.                                                        *)
(***************************************************************************)
EXTENDS Integers, Sequences, SequencesExt

CONSTANTS
  Fields,
  MaxTyped, MaxActs, MaxVersions  \* bounds: keystrokes; patches, moves, failures, refetches and changes of others; versions

EditorAssumption == Fields # {} /\ {MaxTyped, MaxActs, MaxVersions} \subseteq Nat

VARIABLES
  rows,       \* the entries on the server, [versions, published]
  here,       \* the entry of the URL; New for .../new
  form,       \* the values of the mounted form, or NoForm
  dirty,      \* whether edits are unsaved
  patch,      \* patchState.patch: the values that were last merged, or NoPatch
  aggregate,  \* lastAggregate, or None
  confirm,    \* the publish dialog, or None
  cache,      \* data of the entry query, by entry
  asked,      \* the answer to the fetch of the query in flight, by entry
  runs,       \* what runs under the page's busy flag
  restoring,  \* the restore of the version history, or None
  drafting,   \* the entry that a generation dialog is open for, or NoDraft
  typed, acts, \* what the bounds limit
  excused,    \* history: typed values that were replaced or given up knowingly
  visits,     \* history: how often .../new was opened or a request failed there
  creations,  \* history: the entries that were created there
  doubted,    \* history: entries that changed behind the page, see PublishedAsShown
  strayed,    \* history: the kinds of answers that took effect on another entry's page
  surprises   \* history: the publishes of something else than their dialog showed

vars == <<rows, here, form, dirty, patch, aggregate, confirm, cache, asked, runs, restoring, drafting,
          typed, acts, excused, visits, creations, doubted, strayed, surprises>>

New == 0
NoForm == <<>>
NoPatch == <<>>
NoDraft == -1
None == [id |-> -1]
NoData == [version |-> 0, live |-> FALSE]
RowIds == 1..Len(rows)
Ids == 1..MaxVersions
Blank == [f \in Fields |-> 0]
Generated == -1  \* a value that a model made
Foreign == -2    \* a value of another user

Current(e) == Len(rows[e].versions)
AggregateOf(row, e) == [id |-> e, current |-> Len(row.versions), published |-> row.published]
Snapshot(e) == [version |-> Current(e), live |-> rows[e].published = Current(e)]
MayChange == MapThenSumSet(LAMBDA e : Current(e), RowIds) < MaxVersions
Revised(e, values) == rows' = [rows EXCEPT ![e].versions = Append(@, values)]

Init ==
  /\ rows = <<[versions |-> <<Blank>>, published |-> 1], [versions |-> <<Blank>>, published |-> 0]>>
  /\ here \in {New, 1}
  /\ form = (IF here = New THEN Blank ELSE NoForm)
  /\ dirty = FALSE /\ patch = NoPatch /\ aggregate = None /\ confirm = None
  /\ cache = [e \in Ids |-> NoData] /\ asked = [e \in Ids |-> IF e = here THEN Snapshot(e) ELSE NoData]
  /\ runs = {} /\ restoring = None /\ drafting = NoDraft
  /\ typed = 0 /\ acts = 0
  /\ excused = {} /\ visits = (IF here = New THEN 1 ELSE 0) /\ creations = 0
  /\ doubted = {} /\ strayed = {} /\ surprises = {}

\* The groups of variables that steps leave alone together.
Server == <<rows, creations>>
Page == <<form, dirty, patch, excused>>
Queries == <<cache, asked>>
Place == <<here, visits>>
Work == <<runs, restoring, drafting>>
Bar == <<aggregate, confirm>>
Tally == <<typed, acts, doubted, strayed, surprises>>

Act == acts < MaxActs /\ acts' = acts + 1
Strays(kind, from) == strayed' = IF from = here THEN strayed ELSE strayed \union {kind}

-------------------------------------------------------------------------------
\* The form.

Busy == runs # {}
Modal == confirm # None \/ drafting # NoDraft
Values(v) == {v[f] : f \in DOMAIN v}
Merge(values, p) == [f \in Fields |-> IF f \in DOMAIN p THEN p[f] ELSE values[f]]

(* onEdit: the request in flight does not carry the edit.                       *)
Edited == dirty' = TRUE /\ runs' = {[r EXCEPT !.clean = FALSE] : r \in runs}
Unedited == UNCHANGED <<dirty, runs>>

Type(f) ==
  /\ form # NoForm /\ ~Modal /\ typed < MaxTyped
  /\ typed' = typed + 1
  /\ form' = [form EXCEPT ![f] = typed'] /\ excused' = excused \union {form[f]}
  /\ Edited
  /\ UNCHANGED <<Server, Queries, Place, Bar, patch, restoring, drafting, acts, doubted, strayed, surprises>>

(* mergePatch: the values are merged over the form's, and again into every form *)
(* that is mounted later while the patch is still the page's.                   *)
ApplyPatch(p) ==
  /\ patch' = p
  /\ IF form = NoForm THEN Unedited /\ UNCHANGED <<form, excused>>
     ELSE Edited /\ form' = Merge(form, p) /\ excused' = excused \union {form[f] : f \in DOMAIN p}

\* A proposal of the assistant is applied to the form that shows it.
ApplyProposal(f) ==
  /\ here # New /\ ~Modal /\ Act
  /\ ApplyPatch([g \in {f} |-> Generated])
  /\ UNCHANGED <<Server, Queries, Place, Bar, restoring, drafting, typed, doubted, strayed, surprises>>

\* "Generate with AI" and "Draft from prose": their dialogs stay until the answer is there.
StartDraft ==
  /\ ~Modal /\ Act /\ drafting' = here
  /\ UNCHANGED <<Server, Page, Queries, Place, Bar, runs, restoring, typed, doubted, strayed, surprises>>

DraftReturns ==
  /\ drafting # NoDraft /\ drafting' = NoDraft
  /\ ApplyPatch([g \in Fields |-> Generated])
  /\ Strays("patch", drafting)
  /\ UNCHANGED <<Server, Queries, Place, Bar, restoring, typed, acts, doubted, surprises>>

\* The dialog shows the error, until it is closed.
DraftFails ==
  /\ drafting # NoDraft /\ drafting' = NoDraft
  /\ UNCHANGED <<Server, Page, Queries, Place, Bar, Tally, runs, restoring>>

(* A form is mounted with what it is seeded from and the page's patch.          *)
Seed(e) == IF e = New THEN Blank ELSE IF cache[e] = NoData THEN NoForm ELSE rows[e].versions[cache[e].version]
Mount(seed, p) == form' = IF seed = NoForm THEN NoForm ELSE Merge(seed, p)

-------------------------------------------------------------------------------
\* The entry query: it is fetched when its page opens, when it is invalidated, and when
\* the window gets the focus.

Asks(e) == asked' = [asked EXCEPT ![e] = Snapshot(e)]
\* What no page shows is marked stale, and fetched when a page opens it.
Invalidates(e) == IF e = here THEN Asks(e) ELSE UNCHANGED asked

Focus ==
  /\ here # New /\ asked[here] = NoData /\ cache[here] # Snapshot(here) /\ Act
  /\ Asks(here)
  /\ UNCHANGED <<Server, Page, Place, Work, Bar, cache, typed, doubted, strayed, surprises>>

\* The form is mounted by the first answer; later ones do not reach it.
FetchReturns(e) ==
  /\ asked[e] # NoData
  /\ cache' = [cache EXCEPT ![e] = asked[e]] /\ asked' = [asked EXCEPT ![e] = NoData]
  /\ IF e # here \/ form # NoForm THEN Unedited /\ UNCHANGED form
     ELSE /\ Mount(rows[e].versions[asked[e].version], patch)
          /\ IF patch = NoPatch THEN Unedited ELSE Edited
  /\ UNCHANGED <<Server, Place, Bar, Tally, patch, excused, restoring, drafting>>

-------------------------------------------------------------------------------
\* Navigation keeps the page mounted: patch, aggregate and dialog are reset in render.

Opens(e) ==
  /\ here' = e /\ visits' = IF e = New THEN visits + 1 ELSE visits
  /\ patch' = NoPatch /\ aggregate' = None /\ confirm' = None /\ dirty' = FALSE
  /\ Mount(Seed(e), NoPatch)

(* useBlocker: with unsaved edits the user is asked, and discards them.         *)
Go(e) ==
  /\ e # here /\ Act
  /\ Opens(e)
  /\ excused' = IF dirty THEN excused \union Values(form) ELSE excused
  /\ asked' = IF e # New /\ cache[e] = NoData THEN [asked EXCEPT ![e] = Snapshot(e)] ELSE asked
  /\ UNCHANGED <<Server, Work, cache, typed, doubted, strayed, surprises>>

-------------------------------------------------------------------------------
\* Saving and publishing, under the busy flag.

Run(kind, chain, values, shown) ==
  [kind |-> kind, for |-> here, visit |-> visits, values |-> values, clean |-> TRUE, chain |-> chain,
   shown |-> shown, step |-> "sent", answer |-> None]
Begin(r) == runs' = runs \union {r}
Becomes(r, s) == runs' = (runs \ {r}) \union {s}
Ends(r) == runs' = runs \ {r}

(* The button or the keyboard, which works under a dialog too.  A form that     *)
(* does not pass the validation is not sent.                                    *)
Submit(chain) ==
  /\ form # NoForm /\ ~Busy
  /\ Begin(Run("save", chain, form, None))
  /\ UNCHANGED <<Server, Page, Queries, Place, Bar, Tally, restoring, drafting>>

\* updateEntry and createEntry on the server.
SaveArrives(r) ==
  /\ r.kind = "save" /\ r.step = "sent" /\ MayChange
  /\ IF r.for = New
     THEN /\ rows' = Append(rows, [versions |-> <<r.values>>, published |-> 0])
          /\ creations' = creations + 1
     ELSE Revised(r.for, r.values) /\ UNCHANGED creations
  /\ LET e == IF r.for = New THEN Len(rows') ELSE r.for IN
     Becomes(r, [r EXCEPT !.step = "answered", !.answer = AggregateOf(rows'[e], e)])
  /\ doubted' = IF confirm.id = r.for THEN doubted \union {r.for} ELSE doubted
  /\ UNCHANGED <<Page, Queries, Place, Bar, restoring, drafting, typed, acts, strayed, surprises>>

(* computePublishConfirm: with a published version the two are compared first. *)
Dialog(e, a) == [id |-> e, upto |-> IF a # None /\ a.published # 0 THEN a.current ELSE 0, alone |-> restoring = None]

\* Variant: an answer clears the mark of unsaved edits whatever was typed since.
StillClean_Always(r) == TRUE

\* Nothing was typed while the request was in flight.
StillClean(r) == r.clean

(* The answer to a save of an entry, and the comparison that a publish asks for.*)
SaveReturns(r) ==
  /\ r.kind = "save" /\ r.step = "answered" /\ r.for # New
  /\ aggregate' = r.answer
  /\ dirty' = (dirty /\ ~StillClean(r))
  /\ Invalidates(r.for)
  /\ IF r.chain /\ r.answer.published # 0
     THEN Becomes(r, [r EXCEPT !.kind = "diff"]) /\ UNCHANGED <<confirm, strayed>>
     ELSE /\ Ends(r)
          /\ IF r.chain THEN confirm' = Dialog(r.for, r.answer) /\ Strays("dialog", r.for)
             ELSE UNCHANGED <<confirm, strayed>>
  /\ UNCHANGED <<Server, Place, cache, form, patch, excused, restoring, drafting, typed, acts, doubted, surprises>>

(* The answer to a creation: wherever the user is, the page goes on to the new  *)
(* entry, and what was typed meanwhile is given up.                             *)
CreateReturns(r) ==
  /\ r.kind = "save" /\ r.step = "answered" /\ r.for = New
  /\ Opens(r.answer.id) /\ Asks(r.answer.id)
  /\ excused' = excused \union Values(form)
  /\ strayed' = IF here = New /\ visits = r.visit THEN strayed ELSE strayed \union {"create"}
  /\ Ends(r)
  /\ UNCHANGED <<Server, cache, restoring, drafting, typed, acts, doubted, surprises>>

DiffReturns(r) ==
  /\ r.kind = "diff" /\ Ends(r)
  /\ confirm' = Dialog(r.for, r.answer) /\ Strays("dialog", r.for)
  /\ UNCHANGED <<Server, Page, Queries, Place, restoring, drafting, aggregate, typed, acts, doubted, surprises>>

(* The Publish button: unsaved edits are saved first.                           *)
RequestPublish ==
  /\ here # New /\ ~Busy /\ ~Modal /\ cache[here] # NoData
  /\ ~cache[here].live \/ dirty
  /\ LET a == IF aggregate.id = here THEN aggregate ELSE None
         compared == a # None /\ a.published # 0 IN
     \/ dirty /\ Submit(TRUE)
     \/ /\ ~dirty /\ compared
        /\ Begin([Run("diff", TRUE, <<>>, None) EXCEPT !.answer = a])
        /\ UNCHANGED <<Server, Page, Queries, Place, Bar, Tally, restoring, drafting>>
     \/ /\ ~dirty /\ ~compared
        /\ confirm' = Dialog(here, a)
        /\ UNCHANGED <<Server, Page, Queries, Place, Tally, Work, aggregate>>

\* The dialog closes, and the entry of the URL is published.
ConfirmPublish ==
  /\ confirm # None /\ here # New /\ ~Busy
  /\ Begin(Run("publish", FALSE, <<>>, confirm)) /\ confirm' = None
  /\ UNCHANGED <<Server, Page, Queries, Place, Tally, restoring, drafting, aggregate>>

CancelPublish ==
  /\ confirm # None /\ confirm' = None
  /\ UNCHANGED <<Server, Page, Queries, Place, Tally, Work, aggregate>>

PublishArrives(r) ==
  /\ r.kind = "publish" /\ r.step = "sent"
  /\ rows' = [rows EXCEPT ![r.for].published = Current(r.for)]
  /\ Becomes(r, [r EXCEPT !.step = "answered", !.answer = AggregateOf(rows'[r.for], r.for)])
  /\ surprises' = surprises \union
       IF r.shown.id # r.for THEN {"another entry"}
       ELSE IF r.for \in doubted \/ ~r.shown.alone \/ r.shown.upto \in {0, Current(r.for)} THEN {} ELSE {"another version"}
  /\ UNCHANGED <<Page, Queries, Place, Bar, restoring, drafting, creations, typed, acts, doubted, strayed>>

PublishReturns(r) ==
  /\ r.kind = "publish" /\ r.step = "answered"
  /\ Ends(r) /\ aggregate' = r.answer /\ confirm' = None
  /\ Invalidates(r.for)
  /\ UNCHANGED <<Server, Page, Place, Tally, cache, restoring, drafting>>

(* A request or its answer is lost, or the server refuses it: a toast.          *)
RunFails(r) ==
  /\ Act /\ Ends(r)
  /\ visits' = IF r.kind = "save" /\ r.for = New THEN visits + 1 ELSE visits
  /\ doubted' = doubted \union {r.for}
  /\ UNCHANGED <<Server, Page, Queries, Bar, here, restoring, drafting, typed, strayed, surprises>>

Runs ==
  \E r \in runs : \/ SaveArrives(r) \/ SaveReturns(r) \/ CreateReturns(r) \/ DiffReturns(r)
                  \/ PublishArrives(r) \/ PublishReturns(r) \/ RunFails(r)

-------------------------------------------------------------------------------
\* The version history restores under a flag of its own (one restore at a time).

Restore(v) ==
  /\ here # New /\ ~Modal /\ cache[here] # NoData /\ restoring = None
  /\ v \in 1..Current(here) \ {cache[here].version}
  /\ restoring' = [id |-> here, version |-> v, step |-> "sent"]
  /\ doubted' = IF Busy THEN doubted \union {here} ELSE doubted
  /\ UNCHANGED <<Server, Page, Queries, Place, Bar, runs, drafting, typed, acts, strayed, surprises>>

RestoreArrives ==
  /\ restoring # None /\ restoring.step = "sent" /\ MayChange
  /\ Revised(restoring.id, rows[restoring.id].versions[restoring.version])
  /\ restoring' = [restoring EXCEPT !.step = "answered"]
  /\ doubted' = IF Busy \/ confirm # None THEN doubted \union {restoring.id} ELSE doubted
  /\ UNCHANGED <<Page, Queries, Place, Bar, runs, drafting, creations, typed, acts, strayed, surprises>>

\* reseedFromServer, up to the fetch; a query that no page shows is not fetched.
RestoreReturns ==
  /\ restoring # None /\ restoring.step = "answered"
  /\ restoring' = [restoring EXCEPT !.step = "reseeding"]
  /\ Invalidates(restoring.id)
  /\ UNCHANGED <<Server, Page, Place, Bar, Tally, cache, runs, drafting>>

\* Variant: the aggregate from before the restore is kept.
Forgotten_Kept == UNCHANGED aggregate

\* The aggregate is the server's no longer.
Forgotten == aggregate' = None

(* ... and after it: the form is mounted anew, with the patch of the page.      *)
Reseed ==
  /\ restoring # None /\ restoring.step = "reseeding" /\ (restoring.id = here => asked[here] = NoData)
  /\ restoring' = None /\ Forgotten
  /\ Mount(Seed(here), patch) /\ excused' = excused \union Values(form)
  /\ IF patch # NoPatch /\ Seed(here) # NoForm THEN Edited ELSE dirty' = FALSE /\ UNCHANGED runs
  /\ Strays("restore", restoring.id)
  /\ doubted' = IF Busy \/ confirm # None THEN doubted \union {restoring.id} ELSE doubted
  /\ UNCHANGED <<Server, Queries, Place, patch, drafting, confirm, typed, acts, surprises>>

RestoreFails ==
  /\ restoring # None /\ restoring.step # "reseeding" /\ Act
  /\ restoring' = None /\ doubted' = doubted \union {restoring.id}
  /\ UNCHANGED <<Server, Page, Queries, Place, Bar, runs, drafting, typed, strayed, surprises>>

-------------------------------------------------------------------------------
\* Other users.
OtherSaves(e) ==
  /\ Act /\ MayChange
  /\ Revised(e, [f \in Fields |-> Foreign]) /\ doubted' = doubted \union {e}
  /\ UNCHANGED <<Page, Queries, Place, Bar, Work, creations, typed, strayed, surprises>>

OtherPublishes(e) ==
  /\ Act /\ rows[e].published # Current(e)
  /\ rows' = [rows EXCEPT ![e].published = Current(e)]
  /\ UNCHANGED <<Page, Queries, Place, Bar, Work, creations, typed, doubted, strayed, surprises>>

Next ==
  \/ \E f \in Fields : Type(f) \/ ApplyProposal(f)
  \/ StartDraft \/ DraftReturns \/ DraftFails
  \/ Focus \/ \E e \in RowIds : FetchReturns(e)
  \/ \E e \in {New} \union RowIds : Go(e)
  \/ Submit(FALSE) \/ RequestPublish \/ ConfirmPublish \/ CancelPublish
  \/ Runs
  \/ \E v \in 1..MaxVersions : Restore(v)
  \/ RestoreArrives \/ RestoreReturns \/ Reseed \/ RestoreFails
  \/ \E e \in RowIds : OtherSaves(e) \/ OtherPublishes(e)

Spec == Init /\ [][Next]_vars

-------------------------------------------------------------------------------
\* Whatever the user typed is in the form or in a version on the server, unless it was
\* replaced, discarded or restored over: "those keystrokes are NOT in the saved payload".
TypedIsKept ==
  \A t \in (1..typed) \ excused :
    \/ t \in Values(form)
    \/ \E e \in RowIds : \E i \in 1..Current(e) : t \in Values(rows[e].versions[i])

\* "A second createEntry in flight would duplicate the entry": one is created each time
\* the page for a new entry opens, or once more after a failure.
CreatedOnce == creations <= visits

\* The editor keeps what is typed, and makes one entry of it.
EditorKeepsWork == TypedIsKept /\ CreatedOnce

\* The publish dialog is about what will be published, unless the entry changed behind the
\* page (another user saved it, a request of the page was lost, a save or a restore arrived
\* while the dialog was being made or shown) or the dialog strayed to another entry.
PublishedAsShown ==
  /\ "another version" \notin surprises
  /\ "another entry" \in surprises => "dialog" \in strayed

\* "Bound to the entry they were generated for and reset in-render on navigation ... so
\* they never leak": no answer takes effect on the page of another entry.
AnswersStayHome == strayed = {}
================================================================================
