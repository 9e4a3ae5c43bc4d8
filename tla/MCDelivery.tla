------------------------------- MODULE MCDelivery -------------------------------
(***************************************************************************)
(* Small instances of what readers are served: cached renders in the KV    *)
(* cache (KvDeliveryCache) and in Redis (RedisDeliveryCache), answers to   *)
(* queries (EntryQueries), and what a device keeps (OfflineSync).  A       *)
(* behaviour runs one of them, `part`; the last two use variables of the   *)
(* caches, which stay empty.                                               *)
(***************************************************************************)
EXTENDS KvDeliveryCache, RedisDeliveryCache, TLC

CONSTANTS page, card, Page, Card,  \* two entries that link to each other, and their types
          r1, w1, w2,              \* a reader, two workers
          Parts                    \* the components to run

VARIABLE part

kv == <<consumer, tv, envelope, ticks, failures>>
redis == <<cached, members, worker, redisTicks, crashes>>
mcVars == <<part, readVars, kv, redis>>

PageAndCard == page :> {card} @@ card :> {page}
TypesOfTwo == page :> Page @@ card :> Card
PageAndItsList == {EntryKey(page), ListKey(Page)}

Offline == INSTANCE OfflineSync WITH
  Entries <- {1, 2}, Calls <- Workers, PageSize <- 1, MaxPage <- 1, MaxTime <- 2, MaxActs <- 2,
  published <- served, committing <- queue, now <- redisTicks, device <- members, call <- worker,
  excused <- commits, acts <- crashes

-------------------------------------------------------------------------------
(***************************************************************************)
(* Queries: a field "body" that holds texts, numbers, booleans, an array   *)
(* or null in three locales, and comparands as callers send them.          *)
(***************************************************************************)
Str(s) == <<"string", s>>
Num(n) == <<"number", n>>
Arr(S) == <<"array", S>>
Null == <<"null">>

TextsInOrder == <<"", "0", "1", "a", "a,1", "ab", "de", "en", "fr", "true">>
Texts == {TextsInOrder[i] : i \in DOMAIN TextsInOrder}
Collation == [s \in Texts |-> CHOOSE i \in DOMAIN TextsInOrder : TextsInOrder[i] = s]
Within == {p \in Texts \X Texts :
             p[1] = "" \/ p[1] = p[2] \/ p \in {<<"a", "ab">>, <<"a", "a,1">>, <<"1", "a,1">>}}
Numerals == "" :> 0 @@ "0" :> 0 @@ "1" :> 1
FieldValues == {Str("1"), Str("ab"), Num(1), Num(0), <<"boolean", TRUE>>, Null, Arr({Str("a"), Str("1")})}
NoLocale == [l \in {} |-> Null]
Bodies ==
  {NoLocale} \union {l :> v : l \in {"de", "en", "fr"}, v \in FieldValues}
    \union {"de" :> Str("ab") @@ "en" :> v : v \in FieldValues}
    \union {"de" :> v @@ "en" :> Null : v \in FieldValues}
    \union {"de" :> Num(1) @@ "en" :> v @@ "fr" :> Null : v \in FieldValues}
Comparands == {Str(""), Str("1"), Str("a"), Str("true"), Arr({Str("a"), Str("ab")}), Arr({Str(""), Str("1")})}

Queries == INSTANCE EntryQueries WITH
  ArrayText <- "a,1", Locales <- {"de", "en", "fr"}, Default <- "en",
  Companions <- {NoLocale, "de" :> Str("ab")}, ScanLimit <- 1,
  rows <- served, query <- queue, memory <- reader, postgres <- worker

-------------------------------------------------------------------------------
ASSUME Queries!QueriesAssumption /\ Offline!OfflineAssumption
ASSUME Parts \subseteq {"kv", "redis", "queries", "offline"}

NoKv == consumer = 0 /\ tv = 0 /\ envelope = [k \in Keys |-> NoEnvelope] /\ ticks = 0 /\ failures = 0
NothingCached == cached = [k \in Keys |-> NoValue]
\* Readers of the KV cache ask for the page only.
OnlyThePage == {reader'[r].key : r \in {r \in Readers : reader'[r] # Idle}} \subseteq {EntryKey(page)}

DeliveryInit ==
  /\ part \in Parts
  /\ \/ part = "kv" /\ Init /\ NothingCached /\ members = 0 /\ worker = 0 /\ redisTicks = 0 /\ crashes = 0
     \/ part = "redis" /\ RedisInit /\ NoKv
     \/ /\ part = "queries" /\ Queries!Init /\ NoKv /\ NothingCached
        /\ commits = 0 /\ members = 0 /\ redisTicks = 0 /\ crashes = 0
     \/ part = "offline" /\ Offline!Init /\ NoKv /\ NothingCached /\ reader = 0

DeliveryNext ==
  /\ UNCHANGED part
  /\ \/ part = "kv" /\ Next /\ OnlyThePage /\ UNCHANGED redis
     \/ part = "redis" /\ RedisNext /\ UNCHANGED kv
     \/ part = "queries" /\ Queries!Next /\ UNCHANGED <<kv, cached, commits, members, redisTicks, crashes>>
     \/ part = "offline" /\ Offline!Next /\ UNCHANGED <<kv, cached, reader>>

DeliverySpec == DeliveryInit /\ [][DeliveryNext]_mcVars

Symmetry == Permutations({w1, w2})

\* Both stores answer alike what the delivery API parses, and a filter matches what the
\* response shows (EntryQueries); a device misses nothing behind its cursor but for a cause
\* (OfflineSync).
NothingMissed ==
  /\ part = "queries" => Queries!ParsedQueriesAnswerAlike /\ Queries!FilterMatchesWhatIsShown
  /\ part = "offline" => Offline!MissedForCause
\* Both stores answer every query alike (EntryQueries).
StoresAnswerAlike == part = "queries" => Queries!StoresAnswerAlike
=================================================================================
