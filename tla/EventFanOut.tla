----------------------------- MODULE EventFanOut ------------------------------
(***************************************************************************)
(* What dispatchEvent does with an event besides the delivery cache: it    *)
(* tells the webhooks and brings the vector store and the lexical index up *)
(* to date, one call after the other and again from the first call when    *)
(* one of them throws.  A reindex runs as a chain of slices, each of them  *)
(* an event of its own.                                                    *)
(***************************************************************************)
EXTENDS Integers, FiniteSets

CONSTANTS EntryIds,     \* numbers, in the order of their creation
          Consumers, Webhooks,
          Backends,     \* the vector stores to consider
          PageSize,     \* batchSize of reindexEmbeddings
          PerRun,       \* REINDEX_ENTRIES_PER_RUN
          MaxReindex,   \* MAX_REINDEX_ENTRIES
          MaxActs       \* bound: commits, reindex requests, failing calls and
                        \* duplicate deliveries, all told

\* What the constants are assumed to be.
ASSUME FanOutAssumption ==
  /\ EntryIds \subseteq Nat \ {0} /\ EntryIds # {} /\ IsFiniteSet(EntryIds)
  /\ Backends \subseteq {"pgvector", "vectorize"}
  /\ {PageSize, PerRun, MaxReindex} \subseteq Nat \ {0}

VARIABLES
  backend,
  served,      \* published_entries: the version of each entry, 0 when there is none
  ids,         \* the ids and versions given out
  queue,       \* the events that are not settled
  consumer,    \* what each consumer is doing
  vectors,     \* the rows of each entry by ordinal: the version embedded there, or 0
  lexical,     \* the version of each entry's document in the lexical index, or 0
  deliveries,  \* the delivery records
  cache,       \* the cooldown and the slice markers; a key may have expired
  acts,
  \* history
  begun,       \* the newest event of each entry that a consumer has begun
  doubt,       \* the entries whose handlings failed, met or came late
  owed,        \* the entries a requested reindex has to reach
  cut          \* a reindex was given up or has reached its cap since the last request

hist == <<begun, doubt, owed, cut>>
indexes == <<vectors, lexical>>
fanOutVars == <<backend, served, ids, queue, consumer, vectors, lexical, deliveries, cache, acts,
                begun, doubt, owed, cut>>

Ordinals == 1..2
Chunks(v) == v % 3     \* how many chunks the text of a version has
Rows(v) == [i \in Ordinals |-> IF i <= Chunks(v) THEN v ELSE 0]
NoRows == Rows(0)

Greatest(S) == CHOOSE n \in S : \A m \in S : m <= n
Least(n, S) == {e \in S : Cardinality({f \in S : f < e}) < n}

Message(id, kind, entries, after, soFar) ==
  [id |-> id, kind |-> kind, entries |-> entries, after |-> after, soFar |-> soFar]
NoMessage == Message(0, "none", {}, 0, 0)

\* `plan` has the next call to an index for each entry a handler still has to do with,
\* `version` what the calls write.
Waiting == [step |-> "idle", event |-> NoMessage, plan |-> [e \in EntryIds |-> "none"],
            version |-> [e \in EntryIds |-> 0], alone |-> {}, late |-> {}, hooks |-> {},
            cursor |-> 0, done |-> 0, more |-> "mark"]

\* Every entry has been published and indexed once.
FanOutInit ==
  /\ backend \in Backends
  /\ served = [e \in EntryIds |-> e]
  /\ ids = Greatest(EntryIds) /\ queue = {} /\ deliveries = {} /\ cache = {}
  /\ consumer = [c \in Consumers |-> Waiting]
  /\ vectors = [e \in EntryIds |-> Rows(e)] /\ lexical = served
  /\ acts = 0
  /\ begun = served /\ doubt = {} /\ owed = {} /\ cut = FALSE

Act == acts < MaxActs /\ acts' = acts + 1

-------------------------------------------------------------------------------
Publishing == {"published", "published_bulk"}
Kinds == Publishing \union {"unpublished", "unpublished_bulk"}

\* The transactions that append the events: one entry, or several in a bulk chunk.
Commit(kind, S) ==
  /\ Act
  /\ Cardinality(S) = 1 <=> kind \in {"published", "unpublished"}
  /\ kind \notin Publishing => \A e \in S : served[e] # 0
  /\ ids' = ids + 1
  /\ served' = [e \in EntryIds |->
       IF e \notin S THEN served[e] ELSE IF kind \in Publishing THEN ids' ELSE 0]
  /\ queue' = queue \union {Message(ids', kind, S, 0, 0)}
  /\ owed' = {e \in owed : served'[e] # 0}
  /\ UNCHANGED <<backend, consumer, indexes, deliveries, cache, begun, doubt, cut>>

\* requestReindex: a cooldown key that has not expired turns the request down.
RequestReindex ==
  /\ Act
  /\ ids' = ids + 1
  /\ cache' = cache \union {<<"cooldown", 0>>}
  /\ queue' = queue \union {Message(ids', "reindex", {}, 0, 0)}
  /\ owed' = {e \in EntryIds : served[e] # 0} /\ cut' = FALSE
  /\ UNCHANGED <<backend, served, consumer, indexes, deliveries, begun, doubt>>

-------------------------------------------------------------------------------
(***************************************************************************)
(* A handler's calls to the indexes, in the order the code makes them.     *)
(***************************************************************************)
\* Variant: the old rows are left to the upsert.
NextCall_KeepRows(call, v) ==
  CASE call = "none" -> IF v = 0 THEN "drop" ELSE "fill"
    [] call \in {"drop", "fill"} -> "lexical"
    [] call = "lexical" -> "none"

\* indexEntryEmbeddings deletes the entry's rows, then writes the new ones; a withdrawn
\* entry has none.  Its document is written, or removed, after that.
NextCall(call, v) ==
  CASE call = "none" -> "drop"
    [] call = "drop" -> IF v = 0 THEN "lexical" ELSE "fill"
    [] call = "fill" -> "lexical"
    [] call = "lexical" -> "none"

Planned(plan) == {e \in EntryIds : plan[e] # "none"}
Touching(c) == Planned(consumer[c].plan)

\* Handlings that meet: neither of them is alone with the entries both have to do with.
Started(c, S, version, next) ==
  [next EXCEPT !.version = version,
               !.plan = [e \in EntryIds |-> IF e \in S THEN NextCall("none", version[e]) ELSE "none"],
               !.alone = S \ UNION {Touching(o) : o \in Consumers \ {c}}]
Met(run, S) == [run EXCEPT !.alone = @ \ S]

\* The handling of the entries S starts.
Begin(c, S, version, next) ==
  consumer' = [k \in Consumers |-> IF k = c THEN Started(c, S, version, next) ELSE Met(consumer[k], S)]

\* dispatchEvent: the event carries the fields of its version.  dispatchBulkPublished:
\* the snapshots are read once, first.
VersionOf(event) ==
  [e \in EntryIds |-> CASE event.kind = "published" -> event.id
                        [] event.kind = "published_bulk" -> served[e]
                        [] OTHER -> 0]

Held(event) == \E k \in Consumers : consumer[k].step # "idle" /\ consumer[k].event = event

\* A bulk chunk skips the entries that have left the read model.
Indexable(event) == {e \in event.entries : event.kind = "published_bulk" => served[e] # 0}
Overtaken(event) == {e \in event.entries : event.kind # "published_bulk" /\ begun[e] > event.id}

\* An event is handed to a consumer, now and then to a second one as well.
Take(c, event) ==
  /\ consumer[c].step = "idle" /\ event \in queue /\ event.kind # "reindex"
  /\ IF Held(event) THEN Act ELSE UNCHANGED acts
  /\ Begin(c, Indexable(event), VersionOf(event),
       [Waiting EXCEPT !.step = "work", !.event = event, !.hooks = Webhooks, !.late = Overtaken(event)])
  /\ begun' = [e \in EntryIds |-> IF e \in event.entries /\ begun[e] < event.id THEN event.id ELSE begun[e]]
  /\ UNCHANGED <<backend, served, ids, queue, indexes, deliveries, cache, doubt, owed, cut>>

\* webhooks.send and recordDelivery: a failure is recorded, it is not thrown.
Send(c, w) ==
  /\ consumer[c].step = "work" /\ w \in consumer[c].hooks
  /\ consumer' = [consumer EXCEPT ![c].hooks = @ \ {w}]
  /\ \E status \in {"success", "failed"} :
       /\ IF status = "failed" THEN Act ELSE UNCHANGED acts
       /\ deliveries' = deliveries \union {<<w, consumer[c].event.id, status>>}
  /\ UNCHANGED <<backend, served, ids, queue, indexes, cache, hist>>

\* pgvector and Qdrant overwrite the rows of the same ordinals; Vectorize clears the
\* ordinals behind the last new row as well.
Upserted(old, v) ==
  [i \in Ordinals |-> IF i <= Chunks(v) THEN v
                      ELSE IF backend = "vectorize" /\ Chunks(v) > 0 THEN 0 ELSE old[i]]

\* The entry whose call is next: an event's handler is done with the vectors of all its
\* entries before their documents, a reindex goes entry by entry.
Current(run) ==
  LET unindexed == {e \in EntryIds : run.plan[e] \in {"drop", "fill"}}
      S == IF run.step = "work" /\ unindexed # {} THEN unindexed ELSE Planned(run.plan)
  IN CHOOSE e \in S : \A f \in S : e <= f

\* The next call to an index, after the webhooks.  With the entry's last call its
\* handling is over.
Work(c) ==
  LET run  == consumer[c]
      e    == Current(run)
      v    == run.version[e]
      plan == [run.plan EXCEPT ![e] = NextCall(run.plan[e], v)]
  IN
  /\ run.step \in {"work", "slice"} /\ Planned(run.plan) # {}
  /\ run.step = "work" => run.hooks = {}
  /\ vectors' = [vectors EXCEPT ![e] = CASE run.plan[e] = "drop" -> NoRows
                                         [] run.plan[e] = "fill" -> Upserted(@, v)
                                         [] OTHER -> @]
  /\ lexical' = [lexical EXCEPT ![e] = IF run.plan[e] = "lexical" THEN v ELSE @]
  /\ consumer' = [consumer EXCEPT ![c].plan = plan,
       ![c].step = IF run.step = "slice" /\ Planned(plan) = {} THEN run.more ELSE run.step]
  /\ IF plan[e] # "none" THEN UNCHANGED <<doubt, owed>>
     ELSE /\ doubt' = IF e \in run.alone \ run.late THEN doubt \ {e} ELSE doubt \union {e}
          /\ owed' = IF run.step = "slice" THEN owed \ {e} ELSE owed
  /\ UNCHANGED <<backend, served, ids, queue, deliveries, cache, acts, begun, cut>>

-------------------------------------------------------------------------------
(***************************************************************************)
(* runReindexJob, one slice.                                               *)
(***************************************************************************)
Budget(event) == IF PerRun <= MaxReindex - event.soFar THEN PerRun ELSE MaxReindex - event.soFar

Slice(event, step) == [Waiting EXCEPT !.step = step, !.event = event, !.cursor = event.after]

\* Variant: the marker is set before the slice runs.
TakeSlice_MarkFirst(c, event) ==
  /\ consumer[c].step = "idle" /\ event \in queue /\ event.kind = "reindex"
  /\ ~Held(event)
  /\ consumer' = [consumer EXCEPT ![c] =
       Slice(event, IF <<"slice", event.id>> \in cache THEN "end" ELSE "read")]
  /\ cache' = cache \union {<<"slice", event.id>>}
  /\ UNCHANGED <<backend, served, ids, queue, indexes, deliveries, acts, hist>>

TakeSlice(c, event) ==
  /\ consumer[c].step = "idle" /\ event \in queue /\ event.kind = "reindex"
  /\ IF Held(event) THEN Act ELSE UNCHANGED acts
  /\ consumer' = [consumer EXCEPT ![c] = Slice(event, "read")]
  /\ UNCHANGED <<backend, served, ids, queue, indexes, deliveries, cache, hist>>

\* The marker of a slice that ran already; another handler may see it expired.
Known(c) ==
  /\ consumer[c].step = "read" /\ consumer[c].done = 0 /\ <<"slice", consumer[c].event.id>> \in cache
  /\ consumer' = [consumer EXCEPT ![c].step = "end"]
  /\ UNCHANGED <<backend, served, ids, queue, indexes, deliveries, cache, acts, hist>>

\* listPublished from the cursor on.  The rest of the page is left when the budget ends.
ReadPage(c) ==
  LET run  == consumer[c]
      left == Budget(run.event) - run.done
      page == Least(PageSize, {e \in EntryIds : e > run.cursor /\ served[e] # 0})
      now  == Least(left, page)
      more == IF Cardinality(page) > left THEN "continue"
              ELSE IF Cardinality(page) = PageSize THEN "read" ELSE "mark"
  IN
  /\ run.step = "read"
  /\ Begin(c, now, served,
       IF now = {} THEN [run EXCEPT !.step = more]
       ELSE [run EXCEPT !.step = "slice", !.more = more, !.done = @ + Cardinality(now),
                        !.cursor = Greatest(now)])
  /\ UNCHANGED <<backend, served, ids, queue, indexes, deliveries, cache, acts, hist>>

\* The rest is left to a continuation, unless the whole job has reached its cap.
Continue(c) ==
  LET run   == consumer[c]
      total == run.event.soFar + run.done
  IN
  /\ run.step = "continue"
  /\ IF total < MaxReindex
     THEN /\ ids' = ids + 1
          /\ queue' = queue \union {Message(ids', "reindex", {}, run.cursor, total)}
          /\ cache' = cache \union {<<"cooldown", 0>>} /\ UNCHANGED cut
     ELSE cut' = TRUE /\ UNCHANGED <<ids, queue, cache>>
  /\ consumer' = [consumer EXCEPT ![c].step = "mark"]
  /\ UNCHANGED <<backend, served, indexes, deliveries, acts, begun, doubt, owed>>

Mark(c) ==
  /\ consumer[c].step = "mark"
  /\ cache' = cache \union {<<"slice", consumer[c].event.id>>}
  /\ consumer' = [consumer EXCEPT ![c].step = "end"]
  /\ UNCHANGED <<backend, served, ids, queue, indexes, deliveries, acts, hist>>

-------------------------------------------------------------------------------
\* The handler returns and the message is settled.
Settle(c) ==
  /\ \/ consumer[c].step = "end"
     \/ consumer[c].step = "work" /\ Touching(c) = {} /\ consumer[c].hooks = {}
  /\ queue' = queue \ {consumer[c].event}
  /\ consumer' = [consumer EXCEPT ![c] = Waiting]
  /\ UNCHANGED <<backend, served, ids, indexes, deliveries, cache, acts, hist>>

\* A call throws, or the process dies: the event is delivered again, or given up after
\* the last of its attempts.
Break(c) ==
  /\ consumer[c].step # "idle" /\ Act
  /\ consumer' = [consumer EXCEPT ![c] = Waiting]
  /\ \/ /\ doubt' = doubt \union Touching(c)
        /\ UNCHANGED <<queue, cut>>
     \/ /\ queue' = queue \ {consumer[c].event}
        /\ doubt' = doubt \union Touching(c) \union consumer[c].event.entries
        /\ cut' = (cut \/ consumer[c].event.kind = "reindex")
  /\ UNCHANGED <<backend, served, ids, indexes, deliveries, cache, begun, owed>>

FanOutNext ==
  \/ RequestReindex
  \/ \E S \in SUBSET EntryIds \ {{}}, kind \in Kinds : Commit(kind, S)
  \/ \E c \in Consumers :
       \/ \E event \in queue : Take(c, event) \/ TakeSlice(c, event)
       \/ \E w \in Webhooks : Send(c, w)
       \/ Work(c) \/ Known(c) \/ ReadPage(c) \/ Continue(c) \/ Mark(c)
       \/ Settle(c) \/ Break(c)

FanOutSpec == FanOutInit /\ [][FanOutNext]_fanOutVars

-------------------------------------------------------------------------------
\* An entry that no event and no consumer has to do with.
Quiet(e) ==
  /\ \A event \in queue : e \notin event.entries
  /\ \A c \in Consumers : e \notin Touching(c)

\* Once the events of an entry are settled, search finds it as the read model serves it
\* and a withdrawn entry not at all - unless its last handlings failed, met or came out
\* of order; and then the next event or reindex slice that has the entry to itself puts
\* it right.
SearchFollowsReadModel ==
  \A e \in EntryIds \ doubt : Quiet(e) =>
    lexical[e] = served[e] /\ vectors[e] = Rows(served[e])

\* A reindex that was not given up or capped has reached every entry that was served all
\* the while, over redelivered slices, forked chains and expired markers.
ReindexReachesAll ==
  (\A event \in queue : event.kind # "reindex") => owed = {} \/ cut

\* webhook-sender.ts: a failed delivery is "retried by the queue like any other".
FailedDeliveriesRetried ==
  \A d \in deliveries : d[3] = "failed" /\ (\A event \in queue : event.id # d[2]) =>
    <<d[1], d[2], "success">> \in deliveries
===============================================================================
