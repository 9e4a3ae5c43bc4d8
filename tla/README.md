# A TLA+ verification of contentworker

contentworker is a headless CMS: a TypeScript monorepo whose use-cases
(`packages/application`) run over ports (`packages/ports`) that adapters
(`packages/adapters`) bind to Postgres, Redis or Workers KV, BullMQ or
Cloudflare Queues, Temporal or Cloudflare Workflows. This directory holds the
TLA+ model of the parts of it in which several actors meet: requests, worker
ticks, queue consumers, durable agent workflows, model calls, the editor's page
and a device that syncs, and the crashes and retries of all of them. All paths
below are relative to `src/`.

Contents:

1. [The system](#1-the-system): components, state, operations, hazards
2. [Modules](#2-modules) and how they correspond to the code
3. [Runs](#3-runs): what TLC checks, with which bounds
4. [Fairness](#4-fairness)
5. [Proofs](#5-proofs)
6. [Where the code and its comments part](#6-where-the-code-and-its-comments-part)
7. [What is not modelled](#7-what-is-not-modelled)
8. [Plan](#8-plan)

To check a run: `tlc -config Content.cfg MCContent.tla`. To check a proof:
`tlapm EntryPublishing_proofs.tla`. `PROJECT.json` lists the components, runs,
hazards and theorems, and maps every definition to the lines of the code it
models.

## 1. The system

### 1.1 How the parts interact

    HTTP / MCP / GraphQL  -->  use-cases  -->  Postgres: entries, versions,
           ^                      |            entry_published, references,
           |                      |            releases, scheduled_actions,
    admin's entry editor          |            bulk_jobs, agent_reviews, outbox
                                  v
    Delivery API <-- cache    outbox rows --relay--> queue --> consumers
       ^               ^                                          |
       |               +---------- invalidate tags --------------+--> webhooks,
    devices that sync                                             |    search,
    worker intervals / edge cron: relay, due actions, bulk sweep, |    live stream
    retention, agent schedules                                    +--> agents --> reviews

- A *use-case* runs in a request. Most are several SQL statements without a
  transaction; publishing, releases, bulk job creation and the relay use
  `withTransaction`, which is READ COMMITTED. There are few explicit locks:
  rows are locked by the statement that writes them.
- Every state change that others must hear of appends a row to `outbox` in its
  transaction. A *relayer* (worker interval, edge cron, or a nudge after a
  commit) moves rows to the queue; *consumers* dispatch them.
- The Delivery API reads published snapshots through a cache whose entries
  carry tags; dispatching an event invalidates tags.
- *Intervals* run overlapping ticks, in one or several replicas of the worker:
  nothing prevents two ticks from doing the same work at the same time but
  what each component does about it.
- *Agents* propose changes that wait for a human decision; a durable workflow
  and the decider's own request both try to apply it. Model calls in requests
  read a row, wait for the model, and write the row.
- *Clients* keep state of their own: the admin's editor a form over a cached
  query, the React Native SDK a copy of what it synced.

### 1.2 Components

| Component | State | Operations | Hard behaviour | What makes it correct |
| --- | --- | --- | --- | --- |
| Entries and publishing (`entries.ts`, `publishing.ts`, `domain/entry`) | aggregate row with two version pointers and a status; version snapshots; published read model; reference edges | create, update, restore, publish, unpublish, batches of both | read-modify-write of the whole aggregate without a lock; two or three autocommitted statements | the pointer names what is served; events tell every change of it |
| Bulk jobs (`bulk-jobs.ts`) | job counters and status, chunk claims | start, run a chunk, cancel, sweep | redelivery, takeover of slow claims, crash between commit and count | every item is counted once, the job ends and is announced once |
| Delivery reads and caches (`delivery.ts`, `cache-kv`, `redis/cache.ts`) | cached renders, tag versions or tag sets | read, fill, invalidate | fills racing with invalidations; batches; expiry | what is served stale has a nameable, bounded cause |
| Outbox, queues (`events/relay.ts`, `redis/queue.ts`, `queue-cf`) | outbox rows, jobs and their attempts | append, relay, retry, prune | crash between enqueue and commit; failed twin jobs; several relayers | no event is lost, none is enqueued twice without a failure |
| Event dispatch (`events/dispatch.ts`), search and vectors (`rag.ts`), webhooks | index documents and vector rows, delivery records, reindex jobs | index, remove, reindex in slices, call webhooks | events out of order or again; forked chains of slices; a handler that throws after others took effect | the indexes follow the read model, a reindex reaches every entry |
| Scheduled actions (`scheduling.ts`) | status and instant of each action | schedule, cancel, run due | overlapping ticks without claims; crash between effect and record | bounded effects, true records, order, no starvation |
| Releases (`releases.ts`) | status and items of each release | create, add, remove, delete, publish | check-then-act on status and items; row locks in no fixed order | all or nothing; ships once unless raced; no request hangs |
| Agent reviews (`agent-reviews.ts`, `agent-runtime`) | decision, armed watcher, apply marker | propose, decide, watch, apply | retried activities; a watcher standing down while a decision is handed to it; lost replies | applied exactly once, no approval forgotten, ledger true |
| Agent schedules (`agent-schedules.ts`) | next firing, cursor | create, update, delete, run due | update writes back a stale row; cursor passes uncommitted publishes | one run per firing, nothing skipped |
| Agent workflows (`agent-runtime`, `agent-actions.ts`) | the agent ledger | pass on publish; enrich, curate, moderate, repurpose | verdict on a draft other than what is live; an entry that fails among others | what the ledger tells took place; misjudged for one reason only |
| AI use-cases (`content-ai.ts`, `ai-actions.ts`, `media-ai.ts`, `generation.ts`) | rows of entries, assets and tags | translate, fill, summarize, suggest, tag, alternative text, draft | row written after a long wait for a model | nobody's work is overwritten, tags are not doubled |
| AI budget (`ai-budget.ts`, cost guards) | requests and tokens used per window | consume, settle, alarm | settlement after the fact; two round trips; alarm of a window | ceilings hold up to what was in flight; refusals are deserved |
| Environments as branches (`branching.ts`), content types (`content-types.ts`) | a type and entries per environment | compare, merge, revise, publish | merge over a comparison that has aged; limited lists | a merge of all that differs leaves no difference |
| Query language (`domain/query`, `query-pushdown.ts`), locale fallback | none | filter, search, order; SQL prefilters | coercions of an untyped language computed twice | both stores answer alike |
| Taxonomy, assets, roles and keys, environments and aliases | rows that refer to each other | CRUD with checks | the check is a statement before the write | no cycle, no holder without role, names resolve |
| Authentication (`authenticate.ts`, auth limiters) | failures of a client | throttle, record, clear | counter and expiry in two round trips; windows | failures are bounded, refusals end |
| Entry editor of the admin (`EntryEditor.tsx`) | form, dirty mark, cached query, dialogs | type, save, publish, restore, draft with a model, navigate | answers arriving after the page has moved on | nothing typed is lost; what is published was shown |
| Rich text (`domain/rich-text`, `rich-text-mapper.ts`, `RichTextEditor.tsx`) | a stored document, the editor's content, the last document emitted | edit, replace from outside, mount again | documents of shapes the editor's schema does not have; echoes and foreign values told apart by focus | no text and no reference is lost; what is saved is what is shown |
| Offline store of the SDK (`sdk/react-native`) | entries, index, cursor on a device | sync, reset | paging over moving rows; killed in the middle | what the cursor passed is on the device |
| Comments, tasks, workflow stages (`comments.ts`, `tasks.ts`, `workflows.ts`) and their panel (`CollaborationPanel.tsx`) | threads, tasks, a stage per entry; lists and forms on the page | comment, reply, create, resolve, assign, delete, move | whole-row saves of what was read before; forms cleared before or after the answer | a task is as asked last, what was said is listed, no text is lost |
| App extensions, functions, previews, live stream, API surfaces, other admin screens, other SDKs | rows or none | CRUD, I/O, stateless checks | little interaction between actors | not modelled, see section 7 |

The hazards, each at the line where it bites and with the properties that
cover it, are listed in `PROJECT.json`.

## 2. Modules

Each component module declares its parameters as CONSTANTS with named
assumptions, its tables and processes as VARIABLES, and one action per
statement or transaction that others can observe. A *step* is what other actors
cannot see half-done: one autocommitted SQL statement, or the whole of a
transaction from its first write to its commit when the first write takes the
lock that the rest needs. Everything read before is a step of its own, so what
was read may be out of date when it is used.

History variables (marked "history" at their declaration) never guard an
action. They record which faults an entry, action, release or review went
through, so that a property can say "unless this happened" and mean exactly
that. Operators under a "Variant:" comment (`saveDraft_NotAdvancing`,
`Finalize_Unguarded`, ...) are mutations of the definition below them; no
specification uses them. Each is a plausible bug, and every property of a
passing run is violated when one of them takes the definition's place
(`PROJECT.json`, "mutants").

The MC modules put small instances of several components into one run. Such a
run has a variable `part` that names the component a behaviour exercises; it is
chosen in the initial state and never changes. The components of one run share
no state of the program, so nothing is lost by not interleaving them. An MC module
EXTENDS the components the theorems are about (MCScheduling ScheduledActions and
AgentSchedules, MCDelivery both caches, MCAgents AgentReviews and AgentPasses, MCContent
EntryPublishing and EventFanOut), so that the run and the theorem state one property; their variables
stay as they began in the other parts. Where two such components are in one run,
the names of one carry its own (`SchedulesNext`, `RedisNext`, `PassesNext`, `FanOutNext`). All other components are
instantiated (`INSTANCE ... WITH`) on one set of variables, and those a part does not
use are 0. In MCContent that set is EventFanOut's, but for the three its properties would
read in every state: its queue is empty, nothing is owed and every entry is in doubt in the other parts. Components that do interact in the program are one module: the caches with
the commits they follow, releases with single publishes, reviews with the edits they
overlap, the editor with the server it asks.

### 2.1 EntryPublishing

| Model | Code |
| --- | --- |
| `entry`, `versions`, `published`, `references`, `outbox` | the tables of `store-postgres/src/schema.ts` |
| `BeginCreate`, `InsertEntry`, `InsertFirstVersion` | `createEntry`, and a merge that creates its target |
| `BeginUpdate`, `InsertVersion`, `SaveAggregate` | `updateEntry`, `restoreVersion`, a merge onto an existing entry; `saveVersion` runs two statements without a transaction |
| `BeginPublish`, `ReadFields`, `CommitPublish` | `publishEntryTx` and `publishEntriesTx` |
| `BeginUnpublish`, `CommitUnpublish` | `unpublishEntryTx` and `unpublishEntriesTx` |
| `saveDraft`, `publish`, `unpublish`, `deriveStatus` | the pure functions of `domain/entry/entry.ts` |
| `Crash` | a process that dies, or a statement that fails |

Field values are identified with the version they were saved under, links are
fixed per entry, and archiving and deletion are left out because no use-case
calls them. Every writer writes back the *whole* aggregate it read, which is
where the hazards are; `taint` records when such a copy was out of date
(`staleSave`, `stalePublish`), and the properties say which invariant survives
which fault. `StatusIsDerived` survives all of them; `PointerMatchesReadModel`
all but a stale save; `CurrentIsLatest` all but a stale publish or a save cut
off in the middle.

### 2.2 BulkJobs

One job (`startBulkJob`, `cancelBulkJob`), its chunks, the consumers that run
them (`runBulkChunk`: `Deliver`, `ClaimChunk`, `RunChunk` or `RollBack` and
`ReleaseChunk`, `CompleteChunk`, `FinalizeIfDone`), and the sweep
(`resumeStalledBulkJobs`: `SweepFinalize`, `SweepNudge`). Jobs share no rows, so
one is enough. The batch transaction of a chunk is one commit with an arbitrary
set of refused items (inside it is EntryPublishing's batch). A claim older than
`BULK_CHUNK_STALE_SECONDS` may be taken over whether its owner is dead or slow:
`ClaimAges` can happen to any claim at any time. `due` is the queue; a
crash or a loss may or may not lead to a redelivery.

### 2.3 DeliveryRender, DeliveryReads, KvDeliveryCache, RedisDeliveryCache

`DeliveryRender` holds the pure part: which entries a render reaches, which
tags it carries (`RenderTags`), which tags an event invalidates (`EventTags`,
with the reverse closure over references). `DeliveryReads` adds what is common
to both caches: commits that leave an event, and readers that render one query
per level of links. The two cache modules EXTEND it and add what each adapter
does:

- `KvDeliveryCache`: an envelope stores the versions of its tags at the time it
  was put and is a hit while all are current; a consumer bumps versions, each
  tag once per batch; keys expire by `expirationTtl`, and an envelope's TTL is
  clamped to half a tag version's.
- `RedisDeliveryCache`: `set` stores the value and then adds its key to the set
  of each tag (two round trips); `invalidateTags` reads the sets and then
  deletes keys and sets (two round trips); keys and sets expire, readers and
  workers die between the round trips, and several workers dispatch. History: a value
  keeps the events that overlapped its rendering and storing, those of readers that still
  add its key included (`Overlapped`), and is `loose` from when its key loses the set of a
  tag (`Loosened`): to a deletion of the set that had not found the key, to the expiry of the
  set, or to a death between the two round trips that store it.

`StaleHasCause` and `RedisStaleHasCause` state the same of both: a hit shows what a
render now would show unless the event of a change to an entry in either is still on
its way, or was dispatched while the hit was being made (for Redis also: or the value is
`loose`). The links of an entry do not change in these modules; assets,
locales and projections do not change which tags are carried and are left out.

### 2.4 EventDelivery and OutboxRelay

`EventDelivery` is the abstract specification of what
`docs/events-and-webhooks.md` promises, at-least-once delivery of every
committed event: an event is owed from its commit until it was dispatched or
every attempt failed, and is not owed for ever. `OutboxRelay` is what the code
does: `readPending` under FOR UPDATE SKIP LOCKED, `enqueueMany` per topic in
two halves (look for jobs with the same ids and retry failed ones, then add the
others), `markRelayed` and commit; the queue's attempts; retention. The queue is
either of the two adapters, chosen in the initial state: BullMQ drops a job
whose id it holds, Cloudflare Queues does not. `KeepsPromise` is the refinement:
`INSTANCE EventDelivery WITH promise <- ...`, its specification checked as a
property, liveness included.

### 2.5 ScheduledActions

`scheduleAction`, `cancelScheduledAction` (read, then save) and
`runDueScheduledActions` (`FindDue`, then per action `Execute` or
`ExecuteFails`, then `Save`), run by overlapping ticks. Nothing claims an
action, and `save` writes the whole row. The catch clause also catches a failing
save of a success (`SaveFails`). The effect of an action is one step
(EntryPublishing and Releases open it up).

### 2.6 Releases

`createRelease`, `addEntryToRelease`, `removeEntryFromRelease`, `deleteRelease`,
`publishRelease` and the single publishes that lock the same rows. A publishing
transaction reads the release, lists its items and writes members one by one in
any order; a member's row is locked from its write to the commit; what is
written becomes visible at the commit. `AbortVictim` is Postgres's deadlock
detector.

### 2.7 AgentReviews

`decideAgentReview` (`Decide`, `Reread`, `Signal`, `RecordRejection`),
`reviewWorkflow` with its two activities (`Arm`, `Wait`, `ClearAwaiting`,
`Look`), and `applyReviewOnce`, which both share (`MarkApplied`, `ReadFields`,
`ReadEntry`, `InsertVersion`, `SaveEntry`, `RecordApply`, `ClearApplied`). An
activity that fails starts again from its beginning up to `MaxAttempts` times
(Temporal: 3; Cloudflare Workflows: 3 retries). `Fail` fails any statement,
`LoseReply` performs a write and reports a failure, `Die` ends a process at any
statement. The entry is a sequence of versions, each the set of proposals and
edits it contains, so that a lost update is visible.

### 2.8 AgentSchedules

A tick of `runDueAgentSchedules` is `ListDue`, then per schedule `Claim` (the
compare-and-set on `nextRunAt`), `ListPublished` (the page of publications after
the `(publishedAt, entryId)` cursor, at most `EntriesPerRun`), `RunEntry` or
`RunFails` per entry (the token ceiling may end the run), and `SaveRunState`. Ticks of
several workers overlap and may crash (`RunnerCrashes`). `BeginUpdate` and `SaveUpdate` are
`updateAgentSchedule`, which writes the whole row it read; a cron that is given, even
the one there was, computes `nextRunAt` anew (`Patched`). `BeginPublish` and
`CommitPublish` are a publish that takes its `publishedAt` before it commits,
which is how a publication can appear behind one of the cursors a schedule has, in
its row and in the ticks (`Cursors`, `PassedBy`). An update is `behind` (history) when a
claim or a cursor has been saved since its row was read (`Overtaken`): saving it
then is what excuses a repetition. A deleted schedule's id is never used again. A cron
expression is the multiples of a period.

### 2.9 AgentPasses

The on-publish pass (`StartChunk` on a durable runtime, `StartInline` without
one) and single runs (`StartSingle`): `LoadEntry`, `GenerateFields`,
`ApplyFields` or `CreateProposal`, `Classify`, `RecordRun`, `RetractEntry`,
`RecordRetraction`. On a durable runtime a step that `Fails`, or whose reply is lost
(`LostReply`), is executed again, gives up after its attempts, and
`RecordFailure` tells the ledger, without ending the passes of other entries in
the chunk; an inline pass raises, and the queue delivers the event again
(`Redeliver`). Meanwhile people `Edit` and `Publish`. `Deployments` chooses
the runtime, the workflows that are enabled, and whether proposals are applied at
once. Content is good or bad in the eye of the classifier.

### 2.10 ContentAssist

The use-cases in which an editor asks a model: `Load` reads the row,
`Generate` waits for the answer (or `GenerationFails`); suggested tags are
created (`CreateTag`), the row and the vocabulary read again (`Reread`,
`CheckTags`), and the row written (`Write`, or `Refused`), with the run in the
ledger last (`Record`). `Edit`, `GiveConcept` and `DeleteTag` are people who go
on working. A row is a set of places (fields, tags, concepts, labels, texts by
locale); every value is the id of who wrote it, so a lost one is missed.

### 2.11 AiBudget and AuthRateLimit

Two counters over a window, each in the three implementations the repository
has. `AiBudget`: `Consume` (for Redis `Incr` and `GetTokens`, two round trips),
the generation, `Settle`; the durable object's `Alarm` deletes its window.
`AuthRateLimit`: `throttleAuth`'s check, the credentials, `Incr` and `Expire` for
Redis in two round trips, the list of instants with its alarm for the durable
object, the list of one process. Faults lose a reply or a process between round
trips.

### 2.12 EventFanOut

What `dispatchEvent` does besides the cache: `Send` calls a webhook and keeps the
record, `Work` makes the next call to an index. A handler's `plan` has this call for each entry
it still has to do with, and `NextCall` their order: the entry's rows are deleted, the new ones
written (one by one in pgvector, a plain upsert in Vectorize: `Upserted`), the document of the
lexical index written or removed. `Current` is the entry whose turn it is: an event's handler
is done with the vectors of all its entries before their documents, a reindex goes entry by entry.
`VersionOf` and `Indexable` say what a handler writes: the fields of a single event, the
snapshots a bulk handler reads once, nothing for what was withdrawn. `Settle`
acknowledges; `Break` at any step makes the queue deliver the event again
from the first call, or give it up. A reindex is a chain of slices: `TakeSlice`, `Known` (its
marker), `ReadPage`, the entries, `Continue` (append the continuation), `Mark`.
Commits put events of single entries and of bulk chunks into the queue, which
keeps no order. Pages are sets of entry ids, `Least(n, S)` the first n of them.

### 2.13 EntryQueries

The query engine of the domain (`RunEntryQuery`: filters with their coercions
between texts, numbers, booleans, arrays and null; search; order; the locale
chain) and the SQL prefilters of the Postgres store, each translated on its own. `ListMemory`
and `ListPostgres` answer one query from each store; the prefilter is bounded by
`ScanLimit`, above which Postgres refuses (`TooBroad`).

### 2.14 Branching

`Compare` with its two lists per environment (`ListType`, `ListEntries`, each a
statement), `Show`, and `Merge` of a selection: `LoadType`, `SaveType`, then per
entry `LoadEntry`, `Validate`, `LoadTarget`, `Apply`. The panel's pickers
(`Pick`) move at any time. Clients revise and publish content types (`BeginType`,
`Revise`, `PublishType`, a read and a write of the whole definition) and save and
publish entries (`BeginSave`, `Save`, `Publish`). A shape of a content type is
the set of values it allows; a limit of the lists is chosen initially.

### 2.15 Taxonomy, Assets, Access, Environments

Check-then-act on rows that refer to each other, one step per statement. Taxonomy: create, move
and delete concepts, with `isAcyclicBroader` computed over the rows that were listed.
Assets: publish and unpublish (one transaction with snapshot and event), and a
metadata edit that writes the whole row it read. Access: roles, the API keys
bound to them, deletion of roles without holders, expiry, revocation,
authentication. Environments: creation, aliases, deletion, `resolveEnvironment`.

### 2.16 EntryEditor

The page of the admin that edits entries, and the server it asks. The page stays
mounted while its user navigates (`Go`); its form is seeded once from a cached
query that is refetched in the background (`Focus`, `FetchReturns`). `Type` and
`ApplyProposal` change the form; `StartDraft`, `DraftReturns`, `DraftFails` are generated
values; `Submit`, `SaveArrives`, `SaveReturns`, `CreateReturns` are saving, whose
request takes effect at one time and is answered at another; `RequestPublish`,
`DiffReturns`, `ConfirmPublish` or `CancelPublish`, `PublishArrives`,
`PublishReturns` the dialog that shows what will be published; `Restore`,
`RestoreArrives`, `RestoreReturns`, `Reseed`, `RestoreFails` the version history;
`RunFails` any of them failing. `OtherSaves` and `OtherPublishes` are other
users. Every keystroke is a new number, so that a lost one can be seen. A failed
query, which leaves the page, is not modelled, and one restore runs at a time.

### 2.17 RichText

A field of rich text. `toTiptap` and `toDocument` are the mapping of stored documents
to the editor's content and back (`rich-text-mapper.ts`), function by function under
its names: containers, lists and stray inline nodes (`blockChildrenToPm`, `Placed`),
links flattened to marks and grouped again (`linkChildrenToPm`, `pmInlineChildren`), unknown
nodes carried whole. `validateRichText`, `extractRichTextTargets` and `Letters` (the plain
text) are `domain/rich-text`. The actions are the component around it: `Type`,
`SetLink`, `InsertEmbed`, `PickTarget` (`onUpdate`), `Replace` (the effect that follows a value
from outside), `Focus`, `Remount`. ProseMirror itself is external: `fromJSON` joins runs that look
alike. A text is a sequence of letters, each of them another, so that a lost one can be
seen; heading levels and languages of code are left out. The module holds RECURSIVE
operators and is only model-checked.

### 2.18 OfflineSync

`sync()` and `reset()` of the React Native SDK, one step per `await` (fetch of a
page, write of an entry, of the index, of the cursor), beside other calls and
publishes whose `publishedAt` precedes their commit; the app may be killed
between any two steps.

### 2.19 Collaboration

The comments, tasks and stage of one entry, with the panel of the editor that shows
them; a behaviour follows one of its three tabs. A request goes through `Check` (what
the use-case reads and refuses), `Write` (one statement) and `Settle` (what the panel does
with the answer), may fail before its write and may lose its answer; two are in
flight at once, those of the panel and those of other clients. A task's `asked` is history:
what was asked of each column last.

## 3. Runs

Every run finishes within five minutes on two cores. Deadlock checking is off
everywhere: every model is bounded (commits, ticks, versions), and a system in
which everything asked for is done may stop.

| Run | Parts and instance | Checks |
| --- | --- | --- |
| `content` (1.6 million states) | *entries*: an article that links to an author, two clients, single and batch paths, `MaxVersion` 2, `MaxClock` 2. Every race is between two requests on one entry, or between a publish and its link target; so it is enough that only the article is saved again (`OnlyTheArticle`). With the author saved again (1.1 million states of this part), or `MaxVersion` 3 (450 thousand) or `MaxClock` 3 (1.4 million), all of it also holds | `PointerMatchesReadModel`, `CurrentIsLatest`, `StatusIsDerived`, `ReadModelIsWhole`, `EventsTellCommits` |
| | *fanout*: three entries, two consumers, one webhook, pgvector and Vectorize, `PageSize` 2 and `PerRun` 1 (so that a reindex needs a second slice), two faults or commits (`MaxActs`) | `SearchFollowsReadModel`, `ReindexReachesAll` |
| | *assets*: two assets, two edits. *taxonomy*: three concepts, the shortest cycle that two moves can close. *access*: two roles, two keys. *environments*: three names. Two clients each | `DeliveredAsTold`, `ChecksHold` |
| | *branches*: two environments, two entries, two shapes of which one allows less, list limits 1 and 2, two changes | `MergeSettles` |
| | *signin*: two requests, three limiters, `MaxAttempts` 2, `Window` 2 in a `MaxTime` of 3, one fault | `AuthLimitKept` |
| | *editor*: two entries, one field, one keystroke, one request or act of each kind besides, four versions. A second keystroke, or a second act, also holds (1.0 and 7.5 million states) | `EditorKeepsWork`, `PublishedAsShown` |
| | *richtext*: fifty documents of one or two blocks, among them every kind of node in every place that the mapping treats specially (nested and adjacent links, code in links, empty texts, missing targets, stray text and list items, unknown nodes), two edits or replacements. 1895 documents with one edit also hold | `EditorKeepsWork` |
| | *collaboration*: two requests in flight, three in all, two texts, three rows, two workflows of which one has a step that needs a permission (163 thousand states) | `EditorKeepsWork`, `ChecksHold` |
| `bulk` (676 thousand) | three items in chunks of two and one, two consumers, one attempt, a crash or a loss | `CountersExact`, `AnnouncedOnce`, `RunsAccounted`, `JobEnds` |
| `delivery` (3.3 million) | *kv*: a page and a card that link to each other, one reader, two commits, two ticks against a tag life of two, one failure, batches of both events | `StaleHasCause`, `InvalidatedForGood` |
| | *redis*: the same with two workers, the page's list with a shorter TTL than the page, a crash (2.4 million states) | `RedisStaleHasCause` |
| | *queries*: three locales, fields that hold texts, numbers, booleans, an array, null or nothing, up to two rows, `ScanLimit` 1 | `NothingMissed` |
| | *offline*: two entries, two calls, pages of one, three instants, two publishes or faults; also with three (3.0 million states) | `NothingMissed` |
| `outbox` (316 thousand) | two events on two topics, two relayers, batches of up to two, two tries, one failed relay, both queues | `JobsAccounted`, `KeepsPromise` |
| `scheduling` (947 thousand) | *actions*: two actions on an entry or a release at two instants, two overlapping ticks, one failure | `EffectsBounded`, `RecordTellsEffect`, `OrderKept`, `DueIsSettled` |
| | *schedules*: one schedule, two entries, two runners, a period of one in a `MaxTime` of 3, two acts (updates, faults) | `FiringsAccounted`, `NothingSkipped` |
| `releases` (324 thousand) | one release of up to two entries, two requests, two changes of its items, one failure; rings of waiting transactions included | `UndoubtedShipsOnce`, `AllOrNothing`, `RequestsEnd` |
| `agents` (1.1 million) | *reviews*: one review with its watcher, two deciders, one edit, two attempts, one failure. The safety part also holds with two (1.6 million states) | `AppliedOnce`, `ApprovalNotStuck`, `LedgerTellsOutcome`, `LostOnlyToOverlap`, `ApprovalLands` |
| | *passes*: one entry, two passes, an edit, two publishes, one error, three deployments: both runtimes, moderation alone and after enrichment. A fourth, with both agents and proposals applied at once, also holds (534 thousand states) | `PassesAccounted` |
| | *budget*: three calls, three guards, one request and two tokens per window of two in a `MaxTime` of 4 | `BudgetKept` |
| | *assist*: two requests out of eleven jobs over two fields, two locales, an asset and the vocabulary, one act of other people | `AssistKeepsWork` |
| `webhook_retry` | part *fanout* of `content` | `FailedDeliveriesRetried` violated |
| `redis_tags` | part *redis* of `delivery`, with no death and no tick, so that the deletion alone can take a key from its set | `TaggedWhileCached` violated |
| `stores_differ` | part *queries* of `delivery` | `StoresAnswerAlike` violated |
| `release_twice` | `releases`, with no failure and no deletion (`SpecWithoutDeletes`), so that only a publish can end a release | `OnlyOpenReleasesShip` violated |
| `inline_retraction` | part *passes* of `agents` | `InlineLedgerTellsRetraction` violated |

Bounds, by name: `MaxVersion`, `MaxVersions` and `MaxClock` limit saves and publishes;
`MaxCommits`, `MaxTicks`, `MaxTime` commits and time; `MaxCrashes`,
`MaxFailures`, `MaxErrors`, `MaxFaults` faults; `MaxActs` what other actors do and
what fails; `MaxChanges` the changes of a release; `MaxEdits`, `MaxPublishes`,
`MaxTyped` what people write; `MaxReindex` reindexes. `MaxAttempts`, `MaxTries`,
`MaxRequests`, `MaxTokens`, `PageSize`, `PerRun`, `EntriesPerRun`, `Window`,
`ScanLimit` are parameters of the code set to small values (in the code
`BULK_CHUNK_MAX_ATTEMPTS` is 5). `Include` and `MaxClosure` are 1 in the
cache parts: a longer chain of links repeats the step of one link, and the code
keeps the depth of resolution within that of the reverse closure (5 and 5),
which `RenderAssumption` states. `Requested` and `TagTtl` are chosen so that the
clamp of an envelope's TTL decides whether a tag version can expire under it.

Symmetry is used over clients and consumers (`content`), workers (`delivery`), and passes
and requests (`agents`), which the models do not tell apart. The only liveness
property of such a run, `ApprovalLands`, is about reviews, in whose states the passes and
requests stay as they began, so the reduction merges none of them.
In `scheduling` the two actions, interchangeable until they are scheduled, are
scheduled in one order (`InOrder`).

### What the properties say

Where the code is exposed to a race that it does nothing about, a property names the
race as its exception, by a history variable that records exactly that race, and so
shows that nothing *else* leads to the harm; the race itself is documented, not caught.
It is so for an asset's status overwritten by a metadata edit (`undone`), a cycle
closed on an outdated list (`stale`), a role deleted under a key (`loose`), an
environment created under an alias (`shadowed`), a truncated comparison (`whole`),
a counter whose expiry came late (`late`) and a publication that committed behind
a cursor (`late`). The hazards concerned say so in their note.

- *Entries.* The published pointer and the served snapshot agree however
  publishes and batches race, unless a save writes back a copy older than a
  publish. The stored status always follows from the pointers. `ReadModelIsWhole`
  (`ServedFieldsAreOfVersion` and `ReferencesFollowReadModel`): what is served
  is one version, and its reference edges are those of that version.
  `EventsTellCommits` (`Announced` and `SinglesAreNewest`): what is served
  changes only in a step that appends the event telling it, and an event of the
  single path is the newest of its entry.
- *Bulk.* The counters equal what the settled chunks say, no matter how often a
  chunk was claimed, redelivered, released by the wrong consumer or completed
  twice. The completion is announced once, with totals that account for every
  item. `RunsAccounted` does not say that a chunk recorded as failed did not
  run: after enough crashes it may have committed and still be reported as
  failed. All three are checked with one attempt and proved for any number.
- *Fan-out.* When the events of an entry are settled, both indexes hold it as it
  is served, unless its last handlings failed, met or came out of order. A
  reindex that was not given up or capped reached every entry.
- *Checks.* `CyclesOnlyByOverlap`, `HoldersKeepTheirRole` and `ResolvesToItself`
  are what three use-cases check before they write; each holds but for rows
  whose check and write another request came between. `CollaborationKept`, in the same
  property, is about what may refer to what and what overlapping requests undo: a task is in
  every column as it was asked to be last, unless two of its updates overlapped
  (`TasksAsAsked`); a comment made in the panel is listed until it or what it answers is deleted
  (`SaidIsListed`); the stage of an entry is a step of the workflow it is shown with (`StepsMatch`).
- *Branches.* A merge of everything a comparison offers leaves nothing to
  merge and fails only at an entry that does not fit the type; a comparison
  shows what differs. Both only where the lists had all entries.
- *Sign-in.* A refused client failed often enough within the last window, and
  no span as long as a window lets many more failures through than the limit: twice as
  many around the end of a fixed window, plus what was in flight.
- *Editor.* `TypedIsKept`: a keystroke is in the form or in a saved version,
  unless it was overwritten, discarded or restored over. `CreatedOnce`: an entry
  is created once per visit of the page for a new one. `PublishedAsShown`: what a
  confirmed dialog publishes is what it showed, with the exceptions the
  property names. `TextKept`: text typed in the panel of comments and tasks stays in its form until
  it is in a row or on its way, but for failures after the form was cleared, and makes one
  row unless an answer was lost.
- *Rich text.* `DocumentsSurvive`: whatever document a field is given and however it is
  edited, the text that was there and the targets it refers to are still there in order, with
  what was typed, and the result is valid. `ShownIsSaved`: what is saved is what the editor
  shows, and shows the same when it is opened again. `ListsOfItems`: in the editor's content
  lists hold items, items are in lists and text is in blocks (which blocks an item holds is not
  asked). All unless a value came while the editor had
  the focus.
- *Caches.* `StaleHasCause` and `RedisStaleHasCause`: a hit shows
  what a render now would show unless the event of a change to an entry in either is
  still on its way, or was dispatched while the hit was being made (for Redis also: or
  its key has lost the set of a tag). The cause need not be an entry at which the two
  differ: one that is published while a level of links is read, and found by the
  next level, may be shown as it is and lack its own links. `InvalidatedForGood`: expiry
  of tag versions never turns an invalidated envelope into a hit, the point of the TTL clamp.
- *Queries.* (In `NothingMissed`.) `ParsedQueriesAnswerAlike`: whatever the query string of the API can
  express, both stores answer alike. `FilterMatchesWhatIsShown`: a filter
  matches the value the response shows, where some locale of the chain has one.
- *Offline.* (`MissedForCause`, in `NothingMissed`.) What the cursor passed is on the device as served, unless pages
  moved under the sync, a commit came behind the cursor, calls overlapped, or a
  reset was interrupted. A sync that fails or is killed loses nothing.
- *Outbox.* The refinement, and `JobsAccounted` (`EnqueuedOncePerCrash` and
  `AbandonedAfterTries`): a second job of an event needs a failed relay, and an
  event is given up only after all attempts of a job.
- *Scheduled actions.* Without claims an action may take effect more than once;
  `EffectsBounded` and `RecordTellsEffect` say how often and what the record
  then means, `OrderKept` that while an action that was scheduled
  in time is pending, none that is scheduled for later has taken effect, `DueIsSettled` that failures of others
  do not starve an action.
- *Agent schedules.* `FiringsAccounted` (`FiringsRunOnce` and `RepeatedForCause`):
  one tick runs a firing, and a publication is processed again for one of three
  reasons. `NothingSkipped`: what the cursor passed was processed, unless it was
  published before the baseline, committed late, or an update wrote an old row back.
- *Releases.* `AllOrNothing` needs no exception. `UndoubtedShipsOnce` excludes
  the releases that changed between a request's look and its act, which is
  exactly the race `release_twice` exhibits. `RequestsEnd` needs the deadlock
  detector.
- *Reviews.* A proposal is saved once, or once more per save that was reported
  as failed; an approval is applied or can be repeated unless a process died
  with the marker set; nothing is lost to an apply but what was saved while it
  ran; an approval handed over to a watcher that stands down is applied.
- *Passes.* `PassesAccounted`: a retraction in the ledger took place, and every
  pass that ended left a row, or the failure to write one (`LedgerTellsPasses`); bad
  content survives, or good content is withdrawn (`MisjudgedOnlyByVersion`), only when the draft judged was of another version than the snapshot.
- *Budget.* `BudgetKept` (`RequestsBounded`, `AdmittedWithinTokens`,
  `RefusedForCause`): at most twice the ceiling of requests in any span as long
  as the window; a call is admitted only while settled tokens are below the
  ceiling; a refusal is owed to the last window.
- *Assist.* `AssistKeepsWork` (`NothingLost`, `TagsNamedOnce`,
  `FailedReviewsLeaveNothing`): calls overwrite only the place they were asked
  for, or what they could not know of; a name gets a second tag only if both
  calls had listed the vocabulary before; a refused review leaves no new tags.

## 4. Fairness

Fairness is stated only where code or platform keeps going on its own. No
user, editor or decider is ever obliged to act.

- BulkJobs: weak fairness of a consumer's own steps and of the sweep (an
  interval in the worker, a cron on the edge) and of the passing of time; strong
  fairness of delivering an event that stays in the queue, because a consumer
  busy with other chunks keeps coming back for it. Crashes and losses are not
  fair, and bounded.
- OutboxRelay: weak fairness of each relayer (interval or cron) and of the
  queue working on the jobs of each event. A relayer that fails is bounded by
  `MaxCrashes`; a consumer that fails is bounded by the queue's attempts.
- ScheduledActions: weak fairness of each tick, which the interval restarts.
  (AgentSchedules has safety properties only: a firing whose tick dies is not
  made up for, the next one continues from the cursor.)
- Releases: strong fairness per request. Weak fairness is not enough: a waiter
  on a row is disabled whenever another transaction holds it, and Postgres
  serves waiters in turn.
- AgentReviews: weak fairness of calls and workflows that have started; the
  workflow's wait has a timeout (seven days), which is what makes it fair.
  Starting a watcher (`watchReview`, best effort) and deciding are not fair.
- The other components have no liveness property: what a request or a cache
  should *eventually* do is a matter of expiry, of the outbox, or of a user who
  asks again.

## 5. Proofs

TLC checks instances; the theorems hold for every value of the constants that
meets the named assumptions. Every leaf is checked by `tlapm`. All safety
properties of EntryPublishing, BulkJobs, OutboxRelay, ScheduledActions, Releases,
AgentReviews, AgentPasses, AgentSchedules, EventFanOut, KvDeliveryCache and RedisDeliveryCache are theorems:
the nine components where most actors write the same rows, and the caches, whose correctness
rests on a graph argument.
Each module states the inductive invariant as a conjunction of named
parts, each with a comment that says why the property needs it. TLC refuted the
first forms of most of them on the instances of the runs.

**EntryPublishing_proofs** (assumptions: `LinksAssumption`,
`BatchingAssumption`, `BoundsAssumption`; any number of entries and requests; and
`FanOutAssumption`). *Entries*:

- `TypeCorrect == Spec => []TypeOK`, by `TypeInit` and `TypeStep`, one step per
  action over lemmas about the row operators.
- `StatusAlwaysDerived == Spec => []StatusIsDerived`. The property is about
  rows, but every writer writes a row it computed from a copy it read some time
  ago, so it is not inductive. The invariant adds that the *copies in flight*
  are consistent too: `TypeOK /\ RowsConsistent /\ CopiesConsistent`.
  `saveDraft`, `publish` and `unpublish` preserve consistency
  (`ConsistentOperators`), a copy is a row read or the empty row (`CopiesStep`),
  and a write is an operator applied to a copy (`RowsStep`). That is why a
  stale write cannot break the status, only the pointers.
- `PointerAlwaysMatches == Spec => []PointerMatchesReadModel`. What is missing is
  a fact about saves in flight: one that nobody has overtaken holds the pointer
  the row still has. `PointerInv` adds this as `FreshCopies`. A publish writes
  pointer and read model together and marks every save in flight stale
  (`CommitStep`); a save that is not stale writes the pointer back unchanged
  (`SaveStep`); other steps touch neither (`QuietStep`).
- `ReadModelAlwaysWhole == Spec => []ReadModelIsWhole`. `ServedInv` adds that the
  version a row or a copy names is there (`VersionsKept`, `CopiesKept`), and that
  what a request is about to write is the fields of that version, with
  references to entries that exist (`AllComplete`). Entries and versions only grow.
- `EventsAlwaysTellCommits == Spec => EventsTellCommits`. `EventsInv` adds that no
  event is in the future and that the instant a batch has taken is borne by no
  event and no other batch (`StampsApart`): the event of a commit is therefore new.
- `CurrentAlwaysLatest == Spec => []CurrentIsLatest`. `Orderly(e)`: for an entry no
  publish, crash or unfinished save tampered with, the versions have no gap up to
  the current one, or the next if a save is past its first statement; at
  most one save is (`SaversCurrent`: the primary key of versions bars the others);
  and a publish that no save has overtaken writes the current version back as
  it is (`PublishersCurrent`).

*The indexes* (EventFanOut: any entries, consumers, webhooks, page sizes, budgets, caps,
failures and duplicates), from two invariants that TLC checked first:

- `SearchAlwaysFollows == FanOutSpec => []SearchFollowsReadModel`, from `SearchInv`. Every entry that
  is not in doubt is in the plan of a consumer, has an event to come that nobody has begun
  (`Pending`), or is indexed as it is served (`Handled`). What a handler writes is
  right because of what events tell (`EventsTold`): an event in the queue is overtaken, has a
  newer one behind it, or tells what is served; so a handler that is alone with
  an entry and not late writes what is served, unless a newer event is to come (`TakenAlone`).
  `Undisturbed` carries this through the calls of the handler: nobody else has calls about
  the entry, its rows are gone before the new ones are written, and they are there before the
  document is. Without the first of these calls an upsert would leave rows of the old version
  behind, which is the mutant of the property. `PendingStays`: an event that is to come stays
  to come until a handler begins with its entry.
- `ReindexAlwaysReaches == FanOutSpec => []ReindexReachesAll`, from `ReindexInv`. For every entry that is
  owed there is a slice in the queue that `Reaches` it, unless a slice was given up or the
  job capped: its marker is not set, it starts before the entry, and *every* consumer that runs it has the
  entry `Ahead` - in the plan, or behind its cursor with pages or a continuation to come. Two
  runs of one slice may race, and each may append a continuation; the proof names one of them.
  A page that leaves the entry out ends before it and has more behind it
  (`PageLeaves`, over `LeastFirst` and `LeastAre` about the first n of a finite set). The marker is set by a consumer
  that has nothing ahead, so it is not this slice's (`SliceStays`); ids are given out once (`Numbered`).

**BulkJobs_proofs** (assumptions: `ItemsAssumption`: finitely many items,
chunks that partition them; `NoChunkAssumption`; `BoundsAssumption`).

- `TypeCorrect == Spec => []TypeOK`.
- `CountersAlwaysExact == Spec => []CountersExact` and
  `AnnouncedAtMostOnce == Spec => []AnnouncedOnce`, from one invariant:
  `Inv == TypeOK /\ CountersExact /\ FailuresOfOwnItems /\ FinalizedWhenFull`.
  A completion adds the number of refused items of one chunk; for this to be the
  growth of the union over all settled chunks, the refused items must be the
  chunk's own (`FailuresOfOwnItems`) and chunks disjoint
  (`CardinalityOfUnion`, `CountersAdvance`). A runner finalizes after it saw a
  full counter and the job may change before it does; `FinalizedWhenFull` says
  that full is for good: all chunks are settled at that moment and from then on
  (`FullWhenSettled`), so the announced totals account for every item.
- `RunsAlwaysAccounted == Spec => []RunsAccounted`. The bound on commits follows
  from a count of commits and runs under way together: each was paid for by an
  attempt of the chunk, and a claim beyond `MaxAttempts` does not run (`RunsBounded`).

**OutboxRelay_proofs** (assumption: `RelayAssumption`; any events, topics,
batches, attempts and relayers, both kinds of queue).

- `PromiseKept == Spec => Delivery!Safety`: the relay implements the abstract
  EventDelivery, initial states to initial states and each of its steps to a step
  or a stutter. The step that needs the invariant is the one that marks a row as
  relayed: the event must be in good hands by then (`HandedOver`: dispatched,
  dead-lettered, or with a job that has not failed), for what was enqueued and for
  what was left out because a job with its id was found. `LocksHeld` is what
  `FOR UPDATE SKIP LOCKED` grants: one reader per pending row.
- `JobsAlwaysAccounted == Spec => []JobsAccounted`. An event has the one job more
  than failures explain only when it has been sent (`EnqueuedWhenSent`), and with
  deduplication what a relayer found without a job has none until it adds one
  (`FreshIsFresh`). Jobs keep attempts until they are over (`JobsOwed`).

**ScheduledActions_proofs** (assumption: `ActionsAssumption`; any actions, times,
overlapping ticks and failures). From one invariant, `InvHolds == Spec => []Inv`:

- `EffectsAlwaysBounded == Spec => []EffectsBounded`. Every tick that holds an
  action can run it once more, so the bound is on effects and holders together
  (`HeldBounded`), and an open action took effect only in the ticks that are about
  to record it (`OpenUnrecorded`). `HeldOnce`: an action never listed
  twice at once is with one tick, and its record is open while it is.
- `RecordsAlwaysTell == Spec => []RecordTellsEffect`, by `OutcomeTold`: what a tick
  is about to record is what happened.
- `OrderAlwaysKept == Spec => []OrderKept`. It was an action property; to prove it, it became
  the stronger invariant it is now. A pending action that was scheduled in time was
  there when a tick listed a later one, so the tick listed it too and runs it
  first (`ListedInOrder`).

**Releases_proofs** (assumptions: `BoundsAssumption`, `FiniteAssumption`).

- `ShipsOnceUnlessDoubted == Spec => []UndoubtedShipsOnce` and
  `AlwaysAllOrNothing == Spec => AllOrNothing`, both from `AllPrepared`: a request
  saw the release open, has members to go through until all are changed, and
  commits only after it changed one. What is served changes in the commit alone.

**Agents_proofs** (assumptions: `ReviewsAssumption`, `PassesAssumption`). *Reviews* (any
proposals, deciders, edits, attempts and failures): one invariant for four theorems, `AlwaysAppliedOnce`,
`ApprovalNeverStuck`, `LedgerAlwaysTells` and `LostOnlyWhenOverlapped`. The proof
first says what each step does to its caller (`Happens`, `Effects`) and to the role
a caller has for a review (`Role`: it decides, applies or records), then treats
each part of the invariant by cases on that.

- `MarkerHeld`: the `applied` marker admits one caller; until it has saved, nothing
  of the proposal was saved but what was reported as a failure. `SavesCounted`
  counts saves, lost replies and rows of the ledger together.
- `RejectedOnce`, `VerdictsTrue`: one call decides a review, and whatever callers,
  signals and the watcher hold as the verdict is the row's.
- `MarkerOwned`, `WatchersOwned`: a marker or an armed watcher nobody works with is
  one that a death left (`orphaned`): the only way an approval can be stuck.
- `MergesComplete`, `MergesNext`: a caller that has read the fields merges all that
  was saved but what overlapped, and saves into the version after the current one,
  as the only one to do so. `LostOnlyToOverlap` is inductive with these.

*Passes* (any entries, passes, deployments, edits, publishes and failures):
`PassesAlwaysAccounted == PassesSpec => []PassesAccounted`, from one invariant,
`PassesInvariance == PassesSpec => []PassesInv`, which TLC checked first, with all
deployments and with two entries.

- `Stage` says what a pass has at each of its steps. Moderation comes last, so that a pass
  that holds its entry loads nothing more: the version it judged stays in `saw`.
- A version of an entry is bad or not wherever it is: in the draft, in what is live, and in
  what a pass saw (`Versions`, `SawVersion`). This is what makes the version the only
  cause of a misjudgement. A publish has a number that no other has
  (`Numbers`, `OfPublish`), so that what is live under the number of a pass is of its entry.
- `Took` relates a pass to what it took out of delivery and what it recorded: it takes
  something only while it holds its entry, records the retraction only after that, and what is
  live afterwards is another publish. It fails without a durable runtime, where an
  exception goes past the retraction to its record: the run `inline_retraction`.
- Other passes, editors and redeliveries disturb none of it (`TookStays`, `WorldStep`), and
  `ActStep` leaves of each step only what the pass itself took and told.

**AgentSchedules_proofs** (assumption: `SchedulesAssumption`, which `Inv` carries; any
schedules, entries, cadences, overlapping ticks, updates and failures). From one
invariant, `InvHolds == SchedulesAssumption /\ SchedulesSpec => []Inv` (MCScheduling
assumes `SchedulesAssumption`, so that TLC evaluates it):

- `FiringsAlwaysAccounted == SchedulesAssumption /\ SchedulesSpec => []FiringsAccounted`, of
  two halves.
  *A firing is claimed once*: the next firing, in the row and in every update that is
  not behind, is later than all that were claimed (`FiringsAhead`), which no claim lies ahead
  of the clock to disturb (`RowTimes`). *A repetition has a cause*: while nothing happened to a
  schedule, one run at a time works on it (`OneWorker`), and what was processed is not
  after the cursor of that run, or of the row if there is none (`DoneBehind`), so that
  no page brings it again; but a cursor set to the instant of a firing carries no entry id.
- `NothingEverSkipped == SchedulesAssumption /\ SchedulesSpec => []NothingSkipped`. What a cursor has
  passed is covered (`Covered`: processed, late, or before the baseline), for the row
  (`RowCovered`) and for the copies that ticks hold (`RunnerCovered`). A run that may still move its
  cursor has everything up to the firing in the rest of its page, or its page is full and
  the remainder comes after it (`Listed`): a window is exhausted only if nothing was left out.
- `FreshRows` says that nothing was recorded of a schedule not created yet; it is what
  needs ids that are never used again.

The plan of this proof corrected the model. Two history variables were right only on the
instance that TLC had checked: `late` looked at the row's cursor alone, where a tick that
listed the schedule earlier holds another, and an update counted as overwriting only if the
row differed from what it had read when it was saved, although a claim may have come and
been undone in between.

**DeliveryCaches_proofs** (assumptions: `RenderAssumption`, `RequestsAssumption`,
`KvTtlAssumption`, `RedisTtlAssumption`; any entries, graph of links, depth, requests,
readers, batches, workers, failures and lifetimes). What both caches share comes first: the
lemmas about renders, views and tags, and about commits and readers, whatever a reader does
besides. *KV*, from one invariant, `Invariance == Spec => []Inv`, which says of every render on its way (`Sees`) and every envelope (`Holds`) what it is owed:

- `StaleAlwaysHasCause == Spec => []StaleHasCause`. What is owed to a reader are the
  changes whose events are queued, and will be noticed, or were dispatched during the
  render (`Owing`). A finished render is a `View`: there are levels `L[0] .. L[Include]`
  of entries, each what the level before links to, such that an entry of them is shown
  as served or owed, and a link leaves a level for a published entry only if one of
  its ends is owed (`Follows`). Nothing owed makes a view the render of now
  (`RenderIsCurrent`). A dispatch that meets none of the tags takes nothing away from a view: an
  entry shown has its own tag or its type's (`ShownMeets`), a missing root that of the list
  (`RootMeets`), and the source of a missing link is an embedder of its target, or the list
  is tagged with the unresolved target (`LinkMeets`), so `ViewSurvives`. A tag that was
  bumped for a batch is not bumped for its later events. These are not owed to who has
  such a tag: a hit that has it was read after their commits, or beside the
  first dispatch, which made the batch `late`.
- `AlwaysInvalidatedForGood == Spec => InvalidatedForGood`. `Noted`: recorded versions are
  not from the future, and a tag recorded without a version that has one since
  keeps it for as long as the envelope lives. The clamp of the envelope's TTL is
  what a version's lifetime must cover, so `KvTtlAssumption` only asks for `TagTtl >= 2`.

*Redis*, from one invariant, `RedisInvariance == RedisSpec => []RedisInv`, which TLC checked
first on the part *redis* and with a second reader:

- `RedisStaleAlwaysHasCause == RedisSpec => []RedisStaleHasCause`. A value is a `View` as
  above, and what it is owed is said in two ways (`Held`), because its key is in its sets only
  when its reader is done: a value whose key is in them is owed by the events that will find
  the key (`Awaited`) and those that overlapped; one that a reader is still adding also by
  those that overlapped this reader. An event in the queue that a worker has looked up
  without finding the key is no longer `Awaited`: it met none of the tags (`ViewSurvives`,
  `HeldLookUp`), or the reader was not done, and remembers it. A value that is in
  neither case is `loose`. A second reader of the key may store between the two round trips
  of the first: `Held` speaks of every adder, and asks that one of them adds all the tags.
- `LookedCommitted`: an event that a worker holds was committed, so that none that comes
  later is overlooked before it is looked up.

`Reach` and `Embedders` are recursive functions. That they have the levels they
describe (`ReachLevels`, `EmbedderLevels`), and all that follows along the levels, is
by induction over sets of numbers (`InductionOnSet`, from the library's minimal
elements of a well-founded relation), which needs no operator as a parameter.

Type invariants are proved and no longer part of a run, whose actions would
fail on a value of another type.

Model-checked only:

- all liveness properties (`JobEnds`, `DueIsSettled`, `RequestsEnd`, `ApprovalLands`,
  and the liveness half of `KeepsPromise`): liveness under fairness is outside what
  the prover handles;
- `EditorKeepsWork` and the other properties of modules next to RichText, which needs
  a recursive operator;
- `RequestsBounded` (part of `BudgetKept`) and `AuthLimitKept`, which count over spans
  of time by induction over data;
- the safety properties of the other components, which section 8 lists.


## 6. Where the code and its comments part

Runs that TLC refutes, each with a short counterexample:

- `webhook_retry` / `FailedDeliveriesRetried`. `http-effects/src/webhook-sender.ts:8`
  and `:41` say that the queue retries a failed delivery. `dispatchEvent`
  (`events/dispatch.ts:94`) records it and goes on; the event is acknowledged.
- `redis_tags` / `TaggedWhileCached`. `redis/cache.ts:7`: each cached key is in a
  set per tag, and invalidation deletes every member. A key added between the
  read of a tag's set and its deletion (`redis/cache.ts:45`) stays cached in no
  set, and later invalidations miss it until its TTL ends. The run has no death and
  no tick, so the trace is this race: a reader stores a list, a worker looks up the
  tags of an event, the reader adds the list to its sets, the worker deletes the
  sets. With deaths the shortest way to the same state is a reader that dies between
  SET and SADD (`redis/cache.ts:24`), with a tick a set that a list gave its own, shorter
  life; `RedisStaleHasCause` counts with all three.
- `stores_differ` / `StoresAnswerAlike`. `query-pushdown.ts:13` says a prefilter
  "must never exclude a row the engine would have kept". For `eq` against an
  array it asks for containment of the whole array (`:150`), the engine for one
  common member. The MCP tool lets such a value through; the query string of the
  HTTP API cannot express it.
- `release_twice` / `OnlyOpenReleasesShip`. `domain/release/release.ts:36`: "Only
  an open release may ship." Two publishes both read it as open
  (`releases.ts:115`) and both ship and announce it. Nobody deletes a release in this
  run: with deletions, a shorter trace has a request delete the release that
  another is shipping (`releases.ts:95`), whose last update then finds no row while its
  members ship and `release.published` is announced for a release that is gone.
- `inline_retraction` / `InlineLedgerTellsRetraction`. `workflows.ts:446`: "the
  ledger must not claim flagged content was pulled from delivery when it
  wasn't". The inline pass swallows the error of the retraction and records it
  as done (`agent-actions.ts:273`).

Others were met while modelling; most are why a property above is worded as it is.

*Content and releases*

- `domain/entry/entry.ts:5`: "`currentVersion` always points at the latest saved
  draft snapshot". A publish that read the aggregate before a save writes the
  older `currentVersion` back (`publishing.ts:28`). The newer version row stays:
  the next save computes the same number again and is refused by the
  primary key, and so is every one after it (`CurrentIsLatest` excludes it).
- A save that read the aggregate before an unpublish restores the withdrawn
  pointer: the entry says published, nothing is served (why
  `PointerMatchesReadModel` excludes `staleSave`).
- `cancelBulkJob` (`bulk-jobs.ts:303-306`) relies on the job-status check that
  precedes the claim; a chunk may still be claimed and run after the
  cancellation returned when the check came before it.
- `scheduling.ts:61` ("Cancels a pending scheduled action so it never fires")
  and `scheduling.ts:97-98` ("a completed/canceled action is never re-run") hold
  for a single tick; two ticks that listed the action break both.
- `spaces.ts:83-87` ("so resolution is never ambiguous"): setting an alias looks
  for an environment of that name, creating an environment looks at no alias
  (`spaces.ts:66`).
- `compareEnvironments` lists both environments with the default limit
  (`branching.ts:90`; `store.ts:269`: 100, those updated longest ago first).
  Beyond it recent changes are not compared, entries are reported as added or
  removed that are neither, and the panel's "These environments are in sync"
  can be false: `ComparisonComplete` fails at limit 1 without its proviso.
- The panel's pickers can be moved under a comparison; a merge then applies the
  old selection between the new pair, even from an environment to itself.
- A merge is no transaction and stops at the first entry that no longer fits,
  after what it wrote. It copies a content type's version counter and
  status without an event: the target's version can go back and be announced
  again for another definition.

*Delivery*

- `redis/queue.ts:59-60` keeps occurrence order within a batch; two relayers, a
  retried job, or a failed twin put events of one entry out of order anyway.
- `redis/cache.ts:23` ("Tag sets live a bit longer than entries"): a key with a
  shorter TTL added later shortens the life of the set (EXPIRE overwrites), so
  a longer-lived key can outlive it.
- KV batches on the edge keep one set of bumped tags per batch: the second event
  of an entry in a batch does not bump again, so a render stored between the two
  stays a hit. `StaleHasCause` counts the whole batch as overlapping.
- `delivery.ts` says that sharing the locale chain keeps a filter from matching
  what the response does not show. Where no locale of the chain has a value
  the two differ (the proviso of `FilterMatchesWhatIsShown`).
- `match` on a rich text field compares the text "object"; a filter on
  `sys.publishedAt` with something that is no date is an SQL error in one store
  only; `entries.list` orders by `updatedAt` without a second key.
- The offline store (`sdk/react-native`): `store.ts:423-428` ("keeps offset
  paging reliable") fails when a row of a fetched page is published again or
  withdrawn during a sync; a transaction that commits with an earlier
  `publishedAt` is never synced (`since` is strict); overlapping syncs lose index
  entries or write an older version over a newer one; an interrupted reset
  leaves the cursor with nothing stored; a `pageSize` above the server's
  `MAX_PAGE_LIMIT` ends a sync after one page (`OfflineAssumption` excludes it).
- The `useEntries` hook of the web SDK leaves filters, order, selection and search out
  of its dependencies (`web/src/index.ts:66-72`).

*Agents and models*

- `agent-reviews.ts:142-143` and `:162` say that an approval whose apply crashed
  may be repeated. A process that dies after `markApplied` (line 90) and before
  its save leaves the marker set, and the repeated approval is then taken for
  one that was applied. `ApprovalNotStuck` excludes exactly these (`orphaned`).
- The edge's `runtime.ts:33-34` and `consume.ts:29-30` call a repeated pass benign
  because runs are "never direct state changes"; `autoApply` and the
  retraction change state.
- A classifier without an answer counts as "not flagged" (`activities.ts:151`).
- The durable object of the budget says that its alarm ends its window
  (`do/cost-guard.ts:32-33`, `:80`); the alarm can also delete a younger window that a
  settlement opened (`forgotten` in AiBudget).
- `media-ai.ts:34` ("Every run is recorded in the agent cost ledger"): a run that
  fails after its generation is paid for and not recorded
  (`LedgerTellsSpending` in ContentAssist, refuted by TLC). The same holds of
  `ai-actions.ts:102`.
- `content-ai.ts:405` ("a stale review must fail without orphaning new vocabulary
  tags") fails when the entry carries a deleted tag or one is deleted meanwhile.
  Suggestions that name a tag twice create it twice. Tagging assets and
  alternative texts merge with what was read before the generation.

*The editor* (`AnswersStayHome` in EntryEditor, refuted by TLC)

- `EntryEditor.tsx:70-73` says that generated values "never leak" to another
  entry. Answers that arrive after a navigation from entry to entry act on the
  page they find: a generated patch enters another entry's form, a publish
  dialog opens on another entry and confirming it publishes that one, a restore
  reseeds another entry's form (`:384-385`), a creation clears the mark of
  unsaved edits and navigates.
- After a restore the remounted form applies the page's old generated patch again
  (`:186`, `VersionHistory.tsx:37`); what is typed during a restore or a
  creation is lost; a form can be seeded from a stale cached query under "All
  changes saved"; saving by keyboard under the open publish dialog makes its comparison
  stale; the metadata panel does not invalidate the query it changed.

*Rich text* (provisos of `FieldKept` in RichText)

- `RichTextEditor.tsx:64-66`: updates from outside "always originate from a click outside
  the editor". The answer of a generation or a restore arrives later, when its user may be
  typing again: the editor then keeps showing the old document while the form holds the
  new one, nothing brings them together when the focus leaves (the effect depends on
  the value), and the next keystroke replaces the new document (`missed`).
- `rich-text-mapper.ts:8-12`: "foreign/API-authored documents are never corrupted". On the
  first keystroke anywhere in the field, a block embed without an id is dropped, and one
  whose link type is not that of its node gets the other type (so does a link to an entry
  or asset); a link that holds no text of its own (an embed, an empty text, another link)
  disappears; text in a code block loses its links. `Editable` excludes these.
- A link set over an inline embed is saved and is gone when the entry is opened again
  (`LinkedEmbed`): `linkChildrenToPm` leaves atoms unmarked.

*Comments, tasks and stages*

- `comment.ts:10` ("or null for a top-level comment") and the type of the admin's client
  (`lib/management.ts:970`): the panel sends `parentId: null` for such a comment
  (`CollaborationPanel.tsx:69-71`), and `commentBody` (`validation.ts:232-236`) takes an id or
  nothing, so that it is refused with 422 after its form was cleared (`WellFormed`, `Refuse`): the
  panel can reply, and cannot start a thread.
- `workflows.ts:17` ("Creates or replaces"): `defineWorkflow` makes a new workflow each time.
  Deleting one leaves the entries that were in it (`DropWorkflow`), and deleting a comment its replies,
  which are then listed nowhere; so are replies to replies.
- `updateTask` saves the row it read: of two overlapping updates of different columns one is
  undone (`torn`). A task's check box is the one control that is not disabled meanwhile.
- A created task clears the form, whatever was typed in it since (`Settle`).

*Authentication*

- `configuration.md:50` speaks of a sliding window; that of Redis is fixed.
- `redis/auth-rate-limit.ts:11-12` ("expires after the window"): a process that
  dies between INCR and EXPIRE leaves a counter that blocks until it is deleted.
- `throttleAuth` counts every error of the check, a failing store and a failing
  `clear` included, as a failed attempt, and answers all of them alike.

## 7. What is not modelled

- *Values.* Field contents, prompts, projections, ranking, chunking and
  embeddings. Where validation matters to control (a release member, an apply,
  a merge) it is a failing statement or a set of allowed values.
- *Limits of the platform.* Propagation delay of Workers KV (about a minute),
  the 500-entry cap of the reverse closure, activity attempts of Temporal that
  outlive their two-minute timeout, BullMQ's delay and backoff times, pages of a
  first sync that come from the delivery cache.
- *Clocks.* One wall clock per model; skew between worker replicas is not
  modelled. A cron is the multiples of a period.
- *The other screens of the admin*, about twenty of the forty-six thousand
  lines: forms over one request each. The editor is the one with requests in
  flight next to state of its own.
- *API surfaces* (HTTP, MCP, GraphQL generation): they parse a request and call
  one use-case.
- *Single-statement operations on one row*: app extensions,
  audit entries, concept schemes. A repurpose proposal holds channel variants
  that no field takes: approving one is refused by validation on every attempt
  (`workflows.ts:297`).
- *I/O and stateless checks*: functions, blob storage, image transforms, signing,
  tokens and permission tables, telemetry, seeds, migrations. Webhook receivers are
  told to be idempotent on `event.id`, which is the consumer side of
  EventDelivery.
- *The live stream* (durable object, SSE): it promises nothing after a drop.
- *Version diffs*: a pure function from two snapshots to a list.

The map covers about a fifth of the implementation's lines. The use-cases,
the domain and the agent runtime, where actors meet, are about 7.5 thousand
lines and mostly mapped; the rest is screens, wiring, generated clients and the
I/O of adapters, which have no behaviour of their own to check.

## 8. Plan

All safety properties of eleven components are proved (section 5). Theorems next, all of
them model-checked already:

1. `AdmittedWithinTokens` of AiBudget.
2. The small ones: `DeliveredAsTold` (the first half is inductive), `HoldersKeepTheirRole`
   and `ResolvesToItself` (need that a row in flight is `loose` or `shadowed`, or still
   has what was checked), `CyclesOnlyByOverlap`.

Modules that could follow: the coercion of field types as functions over bounded
inputs; the live stream, once it promises more; the in-memory store next to the
Postgres one.
