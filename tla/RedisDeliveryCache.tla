-------------------------- MODULE RedisDeliveryCache --------------------------
(***************************************************************************)
(* The Delivery API over the Redis cache: a value is stored, then its key  *)
(* is added to the set of each of its tags; to invalidate tags a consumer  *)
(* reads their sets, then deletes the keys it found and the sets.          *)
(***************************************************************************)
EXTENDS DeliveryReads

CONSTANTS EntryTtl,       \* TTL of an entry's render, in clock ticks
          ListTtl,        \* TTL of a list, in clock ticks
          Workers,        \* worker processes that dispatch events
          MaxRedisTicks,  \* bound: clock ticks
          MaxCrashes      \* bound: readers and workers that die half-way

ASSUME RedisTtlAssumption ==
  /\ EntryTtl \in Nat \ {0} /\ ListTtl \in Nat \ {0}
  /\ MaxRedisTicks \in Nat /\ MaxCrashes \in Nat

VARIABLES
  cached,    \* the cached renders, with the time they have left
  members,  \* the set of each tag, with the time it has left
  worker,   \* what each worker is doing
  redisTicks, crashes

redisVars == <<readVars, cached, members, worker, redisTicks, crashes>>

NoValue == [left |-> 0]
NoMembers == [keys |-> {}, left |-> 0]
NoEvent == [step |-> "idle"]

RedisInit ==
  /\ InitReads
  /\ cached = [k \in Keys |-> NoValue]
  /\ members = [t \in Tags |-> NoMembers]
  /\ worker = [w \in Workers |-> NoEvent]
  /\ redisTicks = 0 /\ crashes = 0

RedisHit(k) == cached[k].left > 0
Tagged(k) == \A t \in cached[k].tags : k \in members[t].keys

\* History: a key of K has lost the set of one of its tags, or will never be in it, and the
\* value stays: it is `loose`.
Loosened(K) ==
  [k \in Keys |-> IF RedisHit(k) /\ k \in K THEN [cached[k] EXCEPT !.loose = TRUE] ELSE cached[k]]

RedisPublish == CommitSome /\ UNCHANGED <<cached, members, worker, redisTicks, crashes>>

-------------------------------------------------------------------------------
(***************************************************************************)
(* getPublishedEntry, listPublishedEntries and createRedisCache.set.       *)
(***************************************************************************)
RedisReadStore ==
  /\ \E r \in Readers : \/ \E k \in Requests : ~RedisHit(k) /\ ReadRoots(r, k)
                        \/ ReadLevel(r) \/ GiveUp(r)
  /\ UNCHANGED <<cached, members, worker, redisTicks, crashes>>

Ttl(k) == IF k.kind = "entry" THEN EntryTtl ELSE ListTtl

SetValue(r) ==
  LET k == reader[r].key IN
  /\ reader[r].step = "rendered"
  /\ cached' = [cached EXCEPT ![k] = [shown |-> reader[r].value, tags |-> reader[r].tags,
                                    late |-> reader[r].late, left |-> Ttl(k),
                                    loose |-> FALSE]]
  /\ reader' = [reader EXCEPT ![r].step = "tag"]
  /\ UNCHANGED <<served, commits, queue, members, worker, redisTicks, crashes>>

\* Variant: a key is added to new sets only.
AddToTags_NewSets(r) ==
  LET k == reader[r].key IN
  /\ reader[r].step = "tag"
  /\ members' = [t \in Tags |-> IF t \in reader[r].tags /\ members[t].keys = {}
                                  THEN [keys |-> members[t].keys \union {k}, left |-> Ttl(k) + 1]
                                  ELSE members[t]]
  /\ cached' = [cached EXCEPT ![k] =
       IF RedisHit(k) THEN [cached[k] EXCEPT !.late = cached[k].late \union reader[r].late] ELSE cached[k]]
  /\ reader' = [reader EXCEPT ![r] = Idle]
  /\ UNCHANGED <<served, commits, queue, worker, redisTicks, crashes>>

\* SADD, and EXPIRE a little later than the value, of every tag's set in a pipeline.
AddToTags(r) ==
  LET k == reader[r].key IN
  /\ reader[r].step = "tag"
  /\ members' = [t \in Tags |-> IF t \in reader[r].tags
                                  THEN [keys |-> members[t].keys \union {k}, left |-> Ttl(k) + 1]
                                  ELSE members[t]]
  /\ cached' = [cached EXCEPT ![k] =
       IF RedisHit(k) THEN [cached[k] EXCEPT !.late = cached[k].late \union reader[r].late] ELSE cached[k]]
  /\ reader' = [reader EXCEPT ![r] = Idle]
  /\ UNCHANGED <<served, commits, queue, worker, redisTicks, crashes>>

\* The process dies between the two: the value is cached under no tag.
DieUntagged(r) ==
  /\ reader[r].step = "tag"
  /\ crashes < MaxCrashes /\ crashes' = crashes + 1
  /\ reader' = [reader EXCEPT ![r] = Idle]
  /\ cached' = Loosened({k \in {reader[r].key} : RedisHit(k) /\ ~Tagged(k)})
  /\ UNCHANGED <<served, commits, queue, members, worker, redisTicks>>

-------------------------------------------------------------------------------
(***************************************************************************)
(* dispatchEvent and createRedisCache.invalidateTags.                      *)
(***************************************************************************)
LookUp(w, event) ==
  LET tags == EventTags(event, served) IN
  /\ worker[w].step = "idle"
  /\ \A v \in Workers : worker[v].step = "delete" => worker[v].event # event
  /\ worker' = [worker EXCEPT ![w] =
       [step |-> "delete", event |-> event, tags |-> tags,
        found |-> UNION {members[t].keys : t \in tags}]]
  /\ Overlap({event}, {"read", "rendered", "tag"})
  /\ UNCHANGED <<served, commits, queue, cached, members, redisTicks, crashes>>

\* Keys that were added to a set since it was read lose it.
Delete(w) ==
  LET later == UNION {members[t].keys : t \in worker[w].tags} IN
  /\ worker[w].step = "delete"
  /\ cached' = [k \in Keys |-> IF k \in worker[w].found THEN NoValue ELSE Loosened(later)[k]]
  /\ members' = [t \in Tags |-> IF t \in worker[w].tags THEN NoMembers ELSE members[t]]
  /\ queue' = queue \ {worker[w].event}
  /\ worker' = [worker EXCEPT ![w] = NoEvent]
  /\ UNCHANGED <<served, commits, reader, redisTicks, crashes>>

\* The worker dies before or after the deletes; the job is run again.
Die(w) ==
  /\ worker[w].step = "delete"
  /\ crashes < MaxCrashes /\ crashes' = crashes + 1
  /\ worker' = [worker EXCEPT ![w] = NoEvent]
  /\ UNCHANGED <<readVars, cached, members, redisTicks>>

\* Keys expire, and a set before a key in it when a list renewed it last.  A tick is longer than
\* a request.
RedisTick ==
  LET expiring == UNION {members[t].keys : t \in {t \in Tags : members[t].left <= 1}} IN
  /\ redisTicks < MaxRedisTicks
  /\ \A r \in Readers : reader[r].step # "tag"
  /\ redisTicks' = redisTicks + 1
  /\ cached' = [k \in Keys |-> IF cached[k].left <= 1 THEN NoValue
                              ELSE [Loosened(expiring)[k] EXCEPT !.left = @ - 1]]
  /\ members' = [t \in Tags |-> IF members[t].left <= 1 THEN NoMembers
                                ELSE [members[t] EXCEPT !.left = @ - 1]]
  /\ UNCHANGED <<readVars, worker, crashes>>

RedisNext ==
  \/ RedisPublish \/ RedisReadStore \/ RedisTick
  \/ \E r \in Readers : SetValue(r) \/ AddToTags(r) \/ DieUntagged(r)
  \/ \E w \in Workers : (\E event \in queue : LookUp(w, event)) \/ Delete(w) \/ Die(w)

RedisSpec == RedisInit /\ [][RedisNext]_redisVars

-------------------------------------------------------------------------------
Tagging == [step : {"tag"}, key : Requests, value : Shown, tags : SUBSET Tags, late : SUBSET Event]
Value == [shown : Shown, tags : SUBSET Tags, late : SUBSET Event, left : Nat \ {0}, loose : BOOLEAN]
Deleting == [step : {"delete"}, event : Event, tags : SUBSET Tags, found : SUBSET Keys]

RedisTypeOK ==
  /\ ReadsTypeOK
  /\ reader \in [Readers -> {Idle} \union Reading \union Rendered \union Tagging]
  /\ cached \in [Keys -> {NoValue} \union Value]
  /\ members \in [Tags -> [keys : SUBSET Keys, left : Nat]]
  /\ worker \in [Workers -> {NoEvent} \union Deleting]

\* What overlapped the rendering and storing of a key's value, by those who have stored it and those
\* who still add it to its sets.
Adding(k) == {r \in Readers : reader[r].step = "tag" /\ reader[r].key = k}
Overlapped(k) == cached[k].late \union UNION {reader[r].late : r \in Adding(k)}

\* A hit is out of date only while the event of a change to an entry that it shows, or
\* should show, is to be dispatched, because that happened while the hit was being rendered
\* and stored, or because its key has lost the set of a tag: to a death between the two
\* round trips that store it, to a deletion that had read the set before, or to an expiry.
RedisStaleHasCause ==
  \A k \in Keys :
    RedisHit(k) /\ cached[k].shown # Render(k, served) =>
      \/ Touches(queue \union Overlapped(k), Concerned(k, cached[k].shown))
      \/ cached[k].loose

-------------------------------------------------------------------------------
\* redis/cache.ts: "Each cached key is added to a Redis set per tag; invalidating a tag
\* deletes every member key": a cached key that no reader is still adding is in the sets
\* of all its tags.
TaggedWhileCached ==
  \A k \in Keys :
    RedisHit(k) /\ Adding(k) = {} => Tagged(k)

===============================================================================
