------------------------------ MODULE OutboxRelay ------------------------------
(***************************************************************************)
(* The transactional outbox: relayers lock pending rows, enqueue them      *)
(* topic by topic and mark them relayed in one transaction; the queue runs *)
(* each job until it succeeds or its attempts are used up; a sweep deletes *)
(* relayed rows.  Relayers and consumers die between any two steps.        *)
(***************************************************************************)
EXTENDS Integers, FiniteSets

CONSTANTS Events,       \* events, by the instant they occurred
          TopicOf,      \* the topic each event is routed to
          Relayers,     \* worker ticks, cron sweeps, post-commit nudges
          BatchSize,    \* rows that readPending returns at most
          Queues,       \* the queues a host may bind: "bullmq", "cloudflare"
          MaxTries,     \* attempts of a job
          MaxCrashes    \* bound: relay transactions that fail

ASSUME RelayAssumption ==
  /\ Events \subseteq Nat /\ Queues \subseteq {"bullmq", "cloudflare"}
  /\ BatchSize \in Nat \ {0} /\ MaxTries \in Nat \ {0} /\ MaxCrashes \in Nat

VARIABLES
  queue,       \* the queue that is bound, for good
  outbox,      \* the row of each event
  relayer,     \* the transaction of each relayer
  jobs,        \* the jobs the queue holds
  enqueued,    \* history: the jobs made of each event
  dispatched,  \* history: the events that were dispatched to the end
  dead,        \* history: the events a job of which used up its attempts since a
               \* relayer last looked for it
  crashes

vars == <<queue, outbox, relayer, jobs, enqueued, dispatched, dead, crashes>>

NoBatch == [step |-> "idle", batch |-> {}, sent |-> {}, fresh |-> {}]

Job == [event : Events, copy : Nat, state : {"waiting", "active", "dispatched", "done", "failed"},
        tries : 0..MaxTries]

\* BullMQ drops a job whose id it still holds.
Dedupe == queue = "bullmq"

Init ==
  /\ queue \in Queues
  /\ outbox = [e \in Events |-> "none"]
  /\ relayer = [r \in Relayers |-> NoBatch]
  /\ jobs = {}
  /\ enqueued = [e \in Events |-> 0]
  /\ dispatched = {} /\ dead = {}
  /\ crashes = 0

Pending == {e \in Events : outbox[e] = "pending"}
Locked == UNION {relayer[r].batch : r \in Relayers}

\* The event commits with the state change it tells.
Append(e) ==
  /\ outbox[e] = "none"
  /\ outbox' = [outbox EXCEPT ![e] = "pending"]
  /\ UNCHANGED <<queue, relayer, jobs, enqueued, dispatched, dead, crashes>>

-------------------------------------------------------------------------------
(***************************************************************************)
(* relayOutbox.                                                            *)
(***************************************************************************)
\* Variant: rows that another relayer has read are not skipped.
Readable_All == Pending

\* FOR UPDATE SKIP LOCKED
Readable == Pending \ Locked

\* The oldest rows first.
ReadPending(r) ==
  /\ relayer[r].step = "idle"
  /\ \E batch \in SUBSET Readable \ {{}} :
       /\ Cardinality(batch) <= BatchSize
       /\ \A e \in batch, f \in Readable \ batch : e < f
       /\ batch # Readable => Cardinality(batch) = BatchSize
       /\ relayer' = [relayer EXCEPT ![r] = [NoBatch EXCEPT !.step = "check", !.batch = batch]]
  /\ UNCHANGED <<queue, outbox, jobs, enqueued, dispatched, dead, crashes>>

\* The topics in order of their oldest event.
NextTopic(r) ==
  LET left == relayer[r].batch \ relayer[r].sent
  IN {e \in left : TopicOf[e] = TopicOf[CHOOSE f \in left : \A g \in left : f <= g]}

JobsOf(S) == {j \in jobs : j.event \in S}

\* The failed jobs among those that are already there.
Retried(S) == {j \in JobsOf(S) : j.state = "failed"}

\* Variant: the rows are marked before their jobs are there.
CheckJobs_MarkFirst(r) ==
  LET topic == NextTopic(r)
      failed == IF Dedupe THEN Retried(topic) ELSE {}
      known == IF Dedupe THEN {j.event : j \in JobsOf(topic)} ELSE {}
  IN
  /\ relayer[r].step = "check"
  /\ relayer' = [relayer EXCEPT ![r].step = "add", ![r].fresh = topic \ known]
  /\ jobs' = (jobs \ failed) \union {[j EXCEPT !.state = "waiting", !.tries = 0] : j \in failed}
  /\ dead' = dead \ topic
  /\ outbox' = [e \in Events |-> IF e \in topic THEN "relayed" ELSE outbox[e]]
  /\ UNCHANGED <<queue, enqueued, dispatched, crashes>>

\* enqueueMany, first half: look for jobs with the same ids and retry failed ones.
CheckJobs(r) ==
  LET topic == NextTopic(r)
      failed == IF Dedupe THEN Retried(topic) ELSE {}
      known == IF Dedupe THEN {j.event : j \in JobsOf(topic)} ELSE {}
  IN
  /\ relayer[r].step = "check"
  /\ relayer' = [relayer EXCEPT ![r].step = "add", ![r].fresh = topic \ known]
  /\ jobs' = (jobs \ failed) \union {[j EXCEPT !.state = "waiting", !.tries = 0] : j \in failed}
  /\ dead' = dead \ topic
  /\ UNCHANGED <<queue, outbox, enqueued, dispatched, crashes>>

\* The queue drops a job when it has its id by now.
Add(S) ==
  LET fresh == {e \in S : Dedupe => JobsOf({e}) = {}} IN
  /\ jobs' = jobs \union {[event |-> e, copy |-> enqueued[e], state |-> "waiting", tries |-> 0] :
                            e \in fresh}
  /\ enqueued' = [e \in Events |-> IF e \in fresh THEN enqueued[e] + 1 ELSE enqueued[e]]

\* Second half: add the others.
AddJobs(r) ==
  LET sent == relayer[r].sent \union NextTopic(r) IN
  /\ relayer[r].step = "add"
  /\ Add(relayer[r].fresh)
  /\ relayer' = [relayer EXCEPT ![r].fresh = {}, ![r].sent = sent,
                   ![r].step = IF sent = relayer[r].batch THEN "mark" ELSE "check"]
  /\ UNCHANGED <<queue, outbox, dispatched, dead, crashes>>

\* markRelayed and the commit, which releases the rows.
MarkRelayed(r) ==
  /\ relayer[r].step = "mark"
  /\ outbox' = [e \in Events |-> IF e \in relayer[r].batch THEN "relayed" ELSE outbox[e]]
  /\ relayer' = [relayer EXCEPT ![r] = NoBatch]
  /\ UNCHANGED <<queue, jobs, enqueued, dispatched, dead, crashes>>

\* The relayer dies, or the queue or the database fails it: the transaction rolls
\* back, what was enqueued stays, were it the first chunks of a topic only.
Rollback(r) ==
  /\ relayer[r].step # "idle"
  /\ crashes < MaxCrashes
  /\ crashes' = crashes + 1
  /\ relayer' = [relayer EXCEPT ![r] = NoBatch]
  /\ \E chunks \in SUBSET relayer[r].fresh : Add(chunks)
  /\ UNCHANGED <<queue, outbox, dispatched, dead>>

-------------------------------------------------------------------------------
(***************************************************************************)
(* The queue and the consumers.                                            *)
(***************************************************************************)
Step(j, from, to) ==
  /\ j.state = from
  /\ jobs' = (jobs \ {j}) \union {[j EXCEPT !.state = to]}

Take(j) ==
  /\ Step(j, "waiting", "active")
  /\ UNCHANGED <<queue, outbox, relayer, enqueued, dispatched, dead, crashes>>

\* consumeEvent returns.
Dispatch(j) ==
  /\ Step(j, "active", "dispatched")
  /\ dispatched' = dispatched \union {j.event}
  /\ UNCHANGED <<queue, outbox, relayer, enqueued, dead, crashes>>

Acknowledge(j) ==
  /\ Step(j, "dispatched", "done")
  /\ UNCHANGED <<queue, outbox, relayer, enqueued, dispatched, dead, crashes>>

\* consumeEvent throws, or the consumer dies with the job.
Fail(j) ==
  LET last == j.tries + 1 >= MaxTries IN
  /\ j.state \in {"active", "dispatched"}
  /\ jobs' = (jobs \ {j}) \union
       {[j EXCEPT !.state = IF last THEN "failed" ELSE "waiting", !.tries = @ + 1]}
  /\ dead' = IF last THEN dead \union {j.event} ELSE dead
  /\ UNCHANGED <<queue, outbox, relayer, enqueued, dispatched, crashes>>

\* removeOnComplete, removeOnFail
Forget(j) ==
  /\ j.state \in {"done", "failed"}
  /\ jobs' = jobs \ {j}
  /\ UNCHANGED <<queue, outbox, relayer, enqueued, dispatched, dead, crashes>>

\* pruneEventHistory
Prune(e) ==
  /\ outbox[e] = "relayed"
  /\ outbox' = [outbox EXCEPT ![e] = "pruned"]
  /\ UNCHANGED <<queue, relayer, jobs, enqueued, dispatched, dead, crashes>>

Relay(r) == ReadPending(r) \/ CheckJobs(r) \/ AddJobs(r) \/ MarkRelayed(r)
Work(j) == Take(j) \/ Dispatch(j) \/ Acknowledge(j) \/ Fail(j)

Next ==
  \/ \E e \in Events : Append(e) \/ Prune(e)
  \/ \E r \in Relayers : Relay(r) \/ Rollback(r)
  \/ \E j \in jobs : Work(j) \/ Forget(j)

Spec == Init /\ [][Next]_vars

\* A relayer that is not hit by a failure goes on, and so does the queue with every
\* job it holds.
Fairness ==
  /\ \A r \in Relayers : WF_vars(Relay(r))
  /\ \A e \in Events : WF_vars(\E j \in JobsOf({e}) : Work(j))

FairSpec == Spec /\ Fairness

-------------------------------------------------------------------------------
\* The types, with the attempts of a job within their limit.
TypeOK ==
  /\ queue \in Queues
  /\ outbox \in [Events -> {"none", "pending", "relayed", "pruned"}]
  /\ relayer \in [Relayers -> [step : {"idle", "check", "add", "mark"}, batch : SUBSET Events,
                               sent : SUBSET Events, fresh : SUBSET Events]]
  /\ jobs \subseteq Job
  /\ enqueued \in [Events -> Nat]
  /\ dispatched \subseteq Events /\ dead \subseteq Events
  /\ crashes \in Nat

\* "skip each other's claimed rows instead of double-enqueueing": an event gets a
\* second job only after a relay transaction has failed.
EnqueuedOncePerCrash == \A e \in Events : enqueued[e] <= 1 + crashes

\* What is promised of an event while it is owed: a pending row, or a job under way.
Promise(e) ==
  IF outbox[e] = "none" THEN "none"
  ELSE IF e \in dispatched THEN "dispatched"
  ELSE IF outbox[e] # "pending" /\ \A j \in JobsOf({e}) : j.state = "failed" THEN "abandoned"
  ELSE "owed"

Delivery == INSTANCE EventDelivery WITH promise <- [e \in Events |-> Promise(e)]

\* "at-least-once delivery with no lost events": the relay keeps the outbox's promise
\* whatever a relayer or a consumer fails at, and each event is settled in the end.
KeepsPromise == Delivery!Spec

\* An event is given up only after all the attempts of a job that was not yet known to
\* have failed: "a failed twin must not swallow a legitimate re-enqueue".
AbandonedAfterTries == \A e \in Events : Promise(e) = "abandoned" => e \in dead

\* Each event has the jobs that it is due, no more and no fewer.
JobsAccounted == EnqueuedOncePerCrash /\ AbandonedAfterTries

===============================================================================
