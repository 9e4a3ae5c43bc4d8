--------------------------- MODULE KvDeliveryCache ----------------------------
(***************************************************************************)
(* The Delivery API over the Workers KV cache: readers render and fill the *)
(* cache in several steps, publishes commit and leave an event, a consumer *)
(* bumps the versions of the tags the event touches.  An envelope is a hit *)
(* while the tag versions it was stored with are still current.            *)
(***************************************************************************)
EXTENDS DeliveryReads

CONSTANTS Requested,    \* the TTL a reader asks for, in clock ticks
          TagTtl,       \* TAG_VERSION_TTL_SECONDS, in clock ticks
          MaxTicks,     \* bound: clock ticks
          MaxFailures   \* bound: dispatches that fail or die after their writes

ASSUME KvTtlAssumption ==
  /\ Requested \in Nat \ {0} /\ TagTtl \in Nat /\ TagTtl >= 2
  /\ MaxTicks \in Nat /\ MaxFailures \in Nat

VARIABLES
  consumer,  \* the batch of one invocation, and the tags it has bumped
  tv,        \* the tag-version keys: the last version put and the time it has left
  envelope,  \* the cached envelopes
  ticks, failures

vars == <<readVars, consumer, tv, envelope, ticks, failures>>

NoEnvelope == [left |-> 0]

Init ==
  /\ InitReads
  /\ consumer = [batch |-> {}, bumped |-> {}]
  /\ tv = [t \in Tags |-> [ver |-> 0, left |-> 0]]
  /\ envelope = [k \in Keys |-> NoEnvelope]
  /\ ticks = 0 /\ failures = 0

\* An expired or missing key reads as '0'.
Current(t) == IF tv[t].left = 0 THEN 0 ELSE tv[t].ver

\* createKvCache.get
Hit(k) == /\ envelope[k].left > 0
          /\ \A t \in DOMAIN envelope[k].tags : envelope[k].tags[t] = Current(t)

-------------------------------------------------------------------------------
Publish == CommitSome /\ UNCHANGED <<consumer, tv, envelope, ticks, failures>>

\* Variant: the set of bumped tags outlives the batch it was made for.
TakeBatch_SharedSet ==
  /\ consumer.batch = {}
  /\ \E batch \in SUBSET queue \ {{}} :
       consumer' = [consumer EXCEPT !.batch = batch]
  /\ UNCHANGED <<readVars, tv, envelope, ticks, failures>>

(***************************************************************************)
(* consumeEvents and dispatchEvent.                                        *)
(***************************************************************************)
TakeBatch ==
  /\ consumer.batch = {}
  /\ \E batch \in SUBSET queue \ {{}} :
       consumer' = [batch |-> batch, bumped |-> {}]
  /\ UNCHANGED <<readVars, tv, envelope, ticks, failures>>

\* Tags that an earlier event of the batch has bumped are not written again.  A
\* failure after the writes leaves the event on the queue.
Dispatch(event) ==
  LET fresh == EventTags(event, served) \ consumer.bumped IN
  /\ event \in consumer.batch
  /\ tv' = [t \in Tags |-> IF t \in fresh THEN [ver |-> tv[t].ver + 1, left |-> TagTtl]
                                          ELSE tv[t]]
  /\ consumer' = [batch |-> consumer.batch \ {event}, bumped |-> consumer.bumped \union fresh]
  /\ \/ queue' = queue \ {event} /\ UNCHANGED failures
     \/ failures < MaxFailures /\ failures' = failures + 1 /\ UNCHANGED queue
  /\ Overlap(consumer.batch, {"read", "rendered"})
  /\ UNCHANGED <<served, commits, envelope, ticks>>

\* The invocation dies: its messages are delivered again.
Abort ==
  /\ consumer.batch # {}
  /\ failures < MaxFailures /\ failures' = failures + 1
  /\ consumer' = [batch |-> {}, bumped |-> {}]
  /\ UNCHANGED <<readVars, tv, envelope, ticks>>

(***************************************************************************)
(* getPublishedEntry and listPublishedEntries: after a miss the render,    *)
(* then the current tag versions, then the envelope.                       *)
(***************************************************************************)
ReadStore ==
  /\ \E r \in Readers : \/ \E k \in Requests : ~Hit(k) /\ ReadRoots(r, k)
                        \/ ReadLevel(r) \/ GiveUp(r)
  /\ UNCHANGED <<consumer, tv, envelope, ticks, failures>>

\* Variant: no clamp.
EnvelopeTtl_Unclamped == Requested

\* The TTL is clamped to half the life of a tag version.
EnvelopeTtl == IF Requested <= TagTtl \div 2 THEN Requested ELSE TagTtl \div 2

\* createKvCache.set: the versions first, then the envelope.
ReadVersions(r) ==
  /\ reader[r].step = "rendered"
  /\ reader' = [reader EXCEPT ![r] =
       [step |-> "put", key |-> @.key, value |-> @.value, late |-> @.late,
        versions |-> [t \in @.tags |-> Current(t)]]]
  /\ UNCHANGED <<served, commits, queue, consumer, tv, envelope, ticks, failures>>

PutEnvelope(r) ==
  /\ reader[r].step = "put"
  /\ envelope' = [envelope EXCEPT ![reader[r].key] =
       [value |-> reader[r].value, tags |-> reader[r].versions, late |-> reader[r].late,
        left |-> EnvelopeTtl]]
  /\ reader' = [reader EXCEPT ![r] = Idle]
  /\ UNCHANGED <<served, commits, queue, consumer, tv, ticks, failures>>

\* Keys expire.  A tick is longer than a request: no reader is between reading the
\* tag versions and putting the envelope.
Tick ==
  /\ ticks < MaxTicks
  /\ \A r \in Readers : reader[r].step # "put"
  /\ ticks' = ticks + 1
  /\ tv' = [t \in Tags |-> [tv[t] EXCEPT !.left = IF @ = 0 THEN 0 ELSE @ - 1]]
  /\ envelope' = [k \in Keys |-> IF envelope[k].left <= 1 THEN NoEnvelope
                                 ELSE [envelope[k] EXCEPT !.left = @ - 1]]
  /\ UNCHANGED <<readVars, consumer, failures>>

Next ==
  \/ Publish \/ TakeBatch \/ Abort \/ ReadStore \/ Tick
  \/ \E event \in queue : Dispatch(event)
  \/ \E r \in Readers : ReadVersions(r) \/ PutEnvelope(r)

Spec == Init /\ [][Next]_vars

-------------------------------------------------------------------------------
\* The tags T and the versions recorded for them.
Putting(T) == [step : {"put"}, key : Requests, value : Shown, late : SUBSET Event, versions : [T -> Nat]]
Envelope(T) == [value : Shown, late : SUBSET Event, left : 1..EnvelopeTtl, tags : [T -> Nat]]

TypeOK ==
  /\ ReadsTypeOK
  /\ DOMAIN reader = Readers
  /\ \A r \in Readers : \/ reader[r] \in {Idle} \union Reading \union Rendered
                        \/ \E T \in SUBSET Tags : reader[r] \in Putting(T)
  /\ consumer \in [batch : SUBSET queue, bumped : SUBSET Tags]
  /\ tv \in [Tags -> [ver : Nat, left : 0..TagTtl]]
  /\ DOMAIN envelope = Keys
  /\ \A k \in Keys : envelope[k] = NoEnvelope \/ \E T \in SUBSET Tags : envelope[k] \in Envelope(T)
  /\ ticks \in 0..MaxTicks /\ failures \in 0..MaxFailures

\* A hit is out of date only while the event of a change to an entry that it shows, or
\* should show, is to be dispatched, or because that happened while the hit was being
\* rendered: the tags of a render and those of the event always meet, whatever the links,
\* the lists, the stubs, the coalescing of a batch, its retries and the expiry of keys.
StaleHasCause ==
  \A k \in Keys :
    Hit(k) /\ envelope[k].value # Render(k, served) =>
      Touches(queue \union envelope[k].late, Concerned(k, envelope[k].value))

StaysInvalidated ==
  \A k \in Keys :
    /\ envelope[k].left > 0 /\ ~Hit(k)
    /\ envelope'[k].left > 0 /\ envelope'[k].tags = envelope[k].tags
    => ~Hit(k)'

\* cache-kv: "expiry can only produce a miss, never a stale hit".  An envelope that
\* was invalidated is never a hit again.
InvalidatedForGood == [][StaysInvalidated]_vars

===============================================================================
