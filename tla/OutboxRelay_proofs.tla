--------------------------- MODULE OutboxRelay_proofs ---------------------------
(***************************************************************************)
(* What the outbox and its relay guarantee for any events, topics, number  *)
(* of relayers and of failures: no event is enqueued twice but for a       *)
(* failed transaction, none is given up before its attempts are used up,   *)
(* and each keeps the promise of EventDelivery.                            *)
(***************************************************************************)
EXTENDS OutboxRelay, TLAPS

(***************************************************************************)
(* The inductive invariant.                                                *)
(***************************************************************************)
\* FOR UPDATE SKIP LOCKED: a row is read while it is pending, stays so until its reader
\* is done with it, and has one reader.
LocksHeld ==
  /\ \A r \in Relayers : relayer[r].batch \subseteq Pending
  /\ \A r, s \in Relayers : r # s => relayer[r].batch \intersect relayer[s].batch = {}

\* A relayer is at one topic, and past those it has sent.
InOrder ==
  \A r \in Relayers :
    /\ relayer[r].sent \subseteq relayer[r].batch
    /\ relayer[r].step = "idle" => relayer[r].batch = {}
    /\ IF relayer[r].step = "add" THEN relayer[r].fresh \subseteq NextTopic(r)
                                  ELSE relayer[r].fresh = {}
    /\ relayer[r].step = "mark" => relayer[r].sent = relayer[r].batch

\* Jobs have attempts left until they are over, and come of committed events.
JobsOwed ==
  /\ \A j \in jobs :
       /\ j.state \in {"waiting", "active", "dispatched"} => j.tries < MaxTries
       /\ j.state \in {"dispatched", "done"} => j.event \in dispatched
       /\ outbox[j.event] # "none"
  /\ \A e \in dispatched : outbox[e] # "none"

\* An event has the one job more than failures explain only when it has been sent.
Sent(e) == outbox[e] \in {"relayed", "pruned"} \/ \E r \in Relayers : e \in relayer[r].sent

EnqueuedWhenSent ==
  \A e \in Events : enqueued[e] <= 1 + crashes /\ (enqueued[e] = 1 + crashes => Sent(e))

\* An event that a relayer may forget about: it has been dispatched, it has a job that
\* is not over, or it ran out of attempts since the relayer looked.
InGoodHands(e) ==
  e \in dispatched \/ e \in dead \/ \E j \in jobs : j.event = e /\ j.state # "failed"

HandedOver ==
  /\ \A e \in Events : outbox[e] \in {"relayed", "pruned"} => InGoodHands(e)
  /\ \A r \in Relayers : \A e \in relayer[r].sent : InGoodHands(e)
  /\ \A r \in Relayers : relayer[r].step = "add" =>
       \A e \in NextTopic(r) \ relayer[r].fresh : InGoodHands(e)

\* What a relayer found without a job has none until it adds one.
FreshIsFresh ==
  Dedupe => \A r \in Relayers : \A j \in jobs : j.event \notin relayer[r].fresh

Inv == TypeOK /\ LocksHeld /\ InOrder /\ JobsOwed /\ EnqueuedWhenSent /\ HandedOver /\ FreshIsFresh
-------------------------------------------------------------------------------
(***************************************************************************)
(* Type correctness.                                                       *)
(***************************************************************************)
Batch == [step : {"idle", "check", "add", "mark"}, batch : SUBSET Events,
          sent : SUBSET Events, fresh : SUBSET Events]

LEMMA TopicType ==
  ASSUME TypeOK, NEW r \in Relayers
  PROVE  NextTopic(r) \subseteq relayer[r].batch \ relayer[r].sent
  BY DEF NextTopic

LEMMA AddType ==
  ASSUME TypeOK, NEW S \in SUBSET Events, Add(S)
  PROVE  jobs' \subseteq Job /\ enqueued' \in [Events -> Nat]
<1>1. 0 \in 0..MaxTries
  BY RelayAssumption
<1>2. \A e \in S : [event |-> e, copy |-> enqueued[e], state |-> "waiting", tries |-> 0] \in Job
  BY <1>1 DEF TypeOK, Job
<1>3. jobs' \subseteq Job
  BY <1>2 DEF TypeOK, Add
<1>4. enqueued' \in [Events -> Nat]
  BY DEF TypeOK, Add
<1> QED BY <1>3, <1>4

LEMMA BatchType ==
  ASSUME NEW b \in Batch, NEW step \in {"check", "add", "mark"},
         NEW sent \in SUBSET Events, NEW fresh \in SUBSET Events
  PROVE  /\ [b EXCEPT !.step = step, !.fresh = fresh] \in Batch
         /\ [b EXCEPT !.fresh = fresh, !.sent = sent, !.step = step] \in Batch
  BY DEF Batch

LEMMA TypeInit == Init => TypeOK
  BY DEF Init, TypeOK, NoBatch

LEMMA TypeStep == TypeOK /\ JobsOwed /\ [Next]_vars => TypeOK'
<1> SUFFICES ASSUME TypeOK, JobsOwed, [Next]_vars PROVE TypeOK'
  OBVIOUS
<1> USE DEF TypeOK
<1>1. ASSUME NEW e \in Events, Append(e) \/ Prune(e) PROVE TypeOK'
  BY <1>1 DEF Append, Prune
<1>2. ASSUME NEW r \in Relayers, ReadPending(r) PROVE TypeOK'
  <2>1. ASSUME NEW batch \in SUBSET Events
        PROVE  [NoBatch EXCEPT !.step = "check", !.batch = batch] \in Batch
    BY DEF NoBatch, Batch
  <2>2. PICK batch \in SUBSET Readable :
          relayer' = [relayer EXCEPT ![r] = [NoBatch EXCEPT !.step = "check", !.batch = batch]]
    BY <1>2 DEF ReadPending
  <2>3. relayer' \in [Relayers -> Batch]
    BY <2>1, <2>2 DEF Readable, Pending, Batch
  <2> QED BY <1>2, <2>3 DEF ReadPending, Batch
<1>3. ASSUME NEW r \in Relayers, CheckJobs(r) PROVE TypeOK'
  <2>1. NextTopic(r) \subseteq Events
    BY TopicType
  <2>2. ASSUME NEW j \in jobs PROVE [j EXCEPT !.state = "waiting", !.tries = 0] \in Job
    <3>1. 0 \in 0..MaxTries /\ j \in Job
      BY RelayAssumption
    <3> QED BY <3>1 DEF Job
  <2>3. jobs' \subseteq Job
    BY <1>3, <2>2 DEF CheckJobs, Retried, JobsOf
  <2>4. PICK fresh \in SUBSET Events :
          relayer' = [relayer EXCEPT ![r] = [relayer[r] EXCEPT !.step = "add", !.fresh = fresh]]
    BY <1>3, <2>1 DEF CheckJobs
  <2>5. relayer \in [Relayers -> Batch]
    BY DEF Batch
  <2>6. relayer' \in [Relayers -> Batch]
    BY <2>4, <2>5, BatchType
  <2> QED BY <1>3, <2>3, <2>6 DEF CheckJobs, Batch
<1>4. ASSUME NEW r \in Relayers, AddJobs(r) PROVE TypeOK'
  <2>1. jobs' \subseteq Job /\ enqueued' \in [Events -> Nat]
    BY <1>4, AddType DEF AddJobs
  <2>2. NextTopic(r) \subseteq Events
    BY TopicType
  <2>3. PICK sent \in SUBSET Events, step \in {"check", "mark"} :
          relayer' = [relayer EXCEPT ![r] = [relayer[r] EXCEPT !.fresh = {}, !.sent = sent, !.step = step]]
    <3> DEFINE sent == relayer[r].sent \union NextTopic(r)
               step == IF sent = relayer[r].batch THEN "mark" ELSE "check"
    <3>1. sent \in SUBSET Events /\ step \in {"check", "mark"}
      BY <2>2
    <3> QED BY <1>4, <3>1 DEF AddJobs
  <2>4. relayer \in [Relayers -> Batch]
    BY DEF Batch
  <2>5. relayer' \in [Relayers -> Batch]
    BY <2>3, <2>4, BatchType
  <2> QED BY <1>4, <2>1, <2>5 DEF AddJobs, Batch
<1>5. ASSUME NEW r \in Relayers, MarkRelayed(r) PROVE TypeOK'
  BY <1>5 DEF MarkRelayed, NoBatch
<1>6. ASSUME NEW r \in Relayers, Rollback(r) PROVE TypeOK'
  <2>1. jobs' \subseteq Job /\ enqueued' \in [Events -> Nat]
    BY <1>6, AddType DEF Rollback
  <2> QED BY <1>6, <2>1 DEF Rollback, NoBatch
<1>7. ASSUME NEW j \in jobs, Work(j) \/ Forget(j) PROVE TypeOK'
  <2>1. j \in Job /\ j.tries + 1 \in Nat
    BY DEF Job
  <2>2. \A s \in {"waiting", "active", "dispatched", "done", "failed"} : [j EXCEPT !.state = s] \in Job
    BY DEF Job
  <2>3. j.state \in {"active", "dispatched"} =>
          \A s \in {"waiting", "failed"} : [j EXCEPT !.state = s, !.tries = @ + 1] \in Job
    <3>1. j.state \in {"active", "dispatched"} => j.tries + 1 \in 0..MaxTries
      BY <2>1, RelayAssumption DEF Job, JobsOwed
    <3> QED BY <2>1, <3>1 DEF Job
  <2>4. j.event \in Events
    BY <2>1 DEF Job
  <2> QED BY <1>7, <2>2, <2>3, <2>4 DEF Work, Take, Dispatch, Acknowledge, Fail, Step, Forget
<1>8. CASE UNCHANGED vars
  BY <1>8 DEF vars
<1> QED
  BY <1>1, <1>2, <1>3, <1>4, <1>5, <1>6, <1>7, <1>8 DEF Next, Relay
-------------------------------------------------------------------------------
(***************************************************************************)
(* What a relayer's steps do to its transaction.                           *)
(***************************************************************************)
LEMMA ReadEffect ==
  ASSUME TypeOK, NEW r \in Relayers, ReadPending(r)
  PROVE  /\ \A s \in Relayers \ {r} : relayer'[s] = relayer[s]
         /\ relayer'[r].step = "check" /\ relayer'[r].sent = {} /\ relayer'[r].fresh = {}
         /\ relayer'[r].batch \subseteq Pending \ Locked
<1>1. PICK batch \in SUBSET Readable :
        relayer' = [relayer EXCEPT ![r] = [NoBatch EXCEPT !.step = "check", !.batch = batch]]
  BY DEF ReadPending
<1>2. relayer'[r] = [NoBatch EXCEPT !.step = "check", !.batch = batch]
  BY <1>1 DEF TypeOK
<1>3. \A s \in Relayers \ {r} : relayer'[s] = relayer[s]
  BY <1>1 DEF TypeOK
<1> QED BY <1>2, <1>3 DEF NoBatch, Readable

\* The events a relayer checks that have a job by now.
Known(r) == IF Dedupe THEN {j.event : j \in JobsOf(NextTopic(r))} ELSE {}

LEMMA CheckEffect ==
  ASSUME TypeOK, NEW r \in Relayers, CheckJobs(r)
  PROVE  /\ \A s \in Relayers \ {r} : relayer'[s] = relayer[s]
         /\ relayer'[r].step = "add" /\ relayer'[r].batch = relayer[r].batch
         /\ relayer'[r].sent = relayer[r].sent /\ relayer'[r].fresh = NextTopic(r) \ Known(r)
<1>1. relayer' = [relayer EXCEPT ![r].step = "add", ![r].fresh = NextTopic(r) \ Known(r)]
  BY DEF CheckJobs, Known
<1> QED BY <1>1 DEF TypeOK

LEMMA AddEffect ==
  ASSUME TypeOK, NEW r \in Relayers, AddJobs(r)
  PROVE  /\ \A s \in Relayers \ {r} : relayer'[s] = relayer[s]
         /\ relayer'[r].step = IF relayer'[r].sent = relayer[r].batch THEN "mark" ELSE "check"
         /\ relayer'[r].batch = relayer[r].batch
         /\ relayer'[r].sent = relayer[r].sent \union NextTopic(r) /\ relayer'[r].fresh = {}
  BY DEF AddJobs, TypeOK

LEMMA EndEffect ==
  ASSUME TypeOK, NEW r \in Relayers, MarkRelayed(r) \/ Rollback(r)
  PROVE  /\ \A s \in Relayers \ {r} : relayer'[s] = relayer[s]
         /\ relayer'[r].step = "idle" /\ relayer'[r].batch = {}
         /\ relayer'[r].sent = {} /\ relayer'[r].fresh = {}
  BY DEF MarkRelayed, Rollback, TypeOK, NoBatch

LEMMA SameTopic ==
  ASSUME NEW r \in Relayers, relayer'[r].batch = relayer[r].batch, relayer'[r].sent = relayer[r].sent
  PROVE  NextTopic(r)' = NextTopic(r)
  BY DEF NextTopic

\* Steps that are not a relayer's leave the transactions alone.
LEMMA OthersEffect ==
  ASSUME \/ \E e \in Events : Append(e) \/ Prune(e)
         \/ \E j \in jobs : Work(j) \/ Forget(j)
         \/ UNCHANGED vars
  PROVE  relayer' = relayer
  BY DEF Append, Prune, Work, Take, Dispatch, Acknowledge, Fail, Step, Forget, vars

LEMMA LocksStep == TypeOK /\ LocksHeld /\ [Next]_vars => LocksHeld'
<1> SUFFICES ASSUME TypeOK, LocksHeld, [Next]_vars PROVE LocksHeld'
  OBVIOUS
<1> USE DEF LocksHeld
<1>1. ASSUME NEW r \in Relayers, ReadPending(r) PROVE LocksHeld'
  <2>1. outbox' = outbox
    BY <1>1 DEF ReadPending
  <2> QED BY <1>1, <2>1, ReadEffect DEF Pending, Locked
<1>2. ASSUME NEW r \in Relayers, CheckJobs(r) \/ AddJobs(r) PROVE LocksHeld'
  <2>1. outbox' = outbox /\ \A s \in Relayers : relayer'[s].batch = relayer[s].batch
    BY <1>2, CheckEffect, AddEffect DEF CheckJobs, AddJobs
  <2> QED BY <2>1 DEF Pending
<1>3. ASSUME NEW r \in Relayers, MarkRelayed(r) PROVE LocksHeld'
  <2>1. \A e \in Pending \ relayer[r].batch : e \in Pending'
    BY <1>3 DEF MarkRelayed, Pending
  <2> QED BY <1>3, <2>1, EndEffect
<1>4. ASSUME NEW r \in Relayers, Rollback(r) PROVE LocksHeld'
  <2>1. outbox' = outbox
    BY <1>4 DEF Rollback
  <2> QED BY <1>4, <2>1, EndEffect DEF Pending
<1>5. ASSUME NEW e \in Events, Append(e) \/ Prune(e) PROVE LocksHeld'
  <2>1. Pending \subseteq Pending' /\ relayer' = relayer
    BY <1>5 DEF Append, Prune, Pending, TypeOK
  <2> QED BY <2>1
<1>6. ASSUME \/ \E j \in jobs : Work(j) \/ Forget(j)
             \/ UNCHANGED vars
      PROVE  LocksHeld'
  <2>1. outbox' = outbox /\ relayer' = relayer
    BY <1>6 DEF Work, Take, Dispatch, Acknowledge, Fail, Step, Forget, vars
  <2> QED BY <2>1 DEF Pending
<1> QED
  BY <1>1, <1>2, <1>3, <1>4, <1>5, <1>6 DEF Next, Relay

LEMMA OrderStep == TypeOK /\ InOrder /\ [Next]_vars => InOrder'
<1> SUFFICES ASSUME TypeOK, InOrder, [Next]_vars, NEW s \in Relayers
             PROVE  /\ relayer'[s].sent \subseteq relayer'[s].batch
                    /\ relayer'[s].step = "idle" => relayer'[s].batch = {}
                    /\ IF relayer'[s].step = "add" THEN relayer'[s].fresh \subseteq NextTopic(s)'
                                                   ELSE relayer'[s].fresh = {}
                    /\ relayer'[s].step = "mark" => relayer'[s].sent = relayer'[s].batch
  BY DEF InOrder
<1>1. CASE relayer'[s] = relayer[s]
  BY <1>1, SameTopic DEF InOrder
<1>2. CASE ReadPending(s)
  BY <1>2, ReadEffect
<1>3. CASE CheckJobs(s)
  BY <1>3, CheckEffect, SameTopic DEF InOrder
<1>4. CASE AddJobs(s)
  BY <1>4, AddEffect, TopicType DEF InOrder
<1>5. CASE MarkRelayed(s) \/ Rollback(s)
  BY <1>5, EndEffect
<1>6. ASSUME NEW r \in Relayers, Relay(r) \/ Rollback(r), r # s PROVE relayer'[s] = relayer[s]
  BY <1>6, ReadEffect, CheckEffect, AddEffect, EndEffect DEF Relay
<1> QED
  BY <1>1, <1>2, <1>3, <1>4, <1>5, <1>6, OthersEffect DEF Next, Relay
-------------------------------------------------------------------------------
(***************************************************************************)
(* The jobs.                                                               *)
(***************************************************************************)
\* What an open transaction is about to send is committed, unsent, and its alone.
LEMMA FreshOwned ==
  ASSUME TypeOK, LocksHeld, InOrder, NEW r \in Relayers
  PROVE  /\ relayer[r].fresh \subseteq NextTopic(r)
         /\ NextTopic(r) \subseteq Pending /\ NextTopic(r) \subseteq Events
         /\ \A e \in NextTopic(r) : ~Sent(e)
         /\ \A s \in Relayers \ {r} : NextTopic(r) \intersect relayer[s].batch = {}
<1>1. relayer[r].fresh \subseteq NextTopic(r)
  BY DEF InOrder
<1>2. NextTopic(r) \subseteq relayer[r].batch \ relayer[r].sent
  BY TopicType
<1>3. NextTopic(r) \subseteq Pending /\ NextTopic(r) \subseteq Events
  BY <1>2 DEF LocksHeld, Pending
<1>4. \A s \in Relayers \ {r} : NextTopic(r) \intersect relayer[s].batch = {}
  BY <1>2 DEF LocksHeld
<1>5. \A e \in NextTopic(r) : ~Sent(e)
  BY <1>2, <1>3, <1>4 DEF Sent, Pending, InOrder
<1> QED BY <1>1, <1>3, <1>4, <1>5

LEMMA Added ==
  ASSUME NEW S, Add(S)
  PROVE  /\ jobs \subseteq jobs'
         /\ \A j \in jobs' \ jobs : j.event \in S /\ j.state = "waiting" /\ j.tries = 0
         /\ \A e \in S : (Dedupe => JobsOf({e}) = {}) => \E j \in jobs' : j.event = e /\ j.state = "waiting"
         /\ \A e \in Events : enqueued'[e] \in {enqueued[e], enqueued[e] + 1}
         /\ \A e \in Events \ S : enqueued'[e] = enqueued[e]
<1> DEFINE fresh == {e \in S : Dedupe => JobsOf({e}) = {}}
           new(e) == [event |-> e, copy |-> enqueued[e], state |-> "waiting", tries |-> 0]
<1>1. jobs' = jobs \union {new(e) : e \in fresh}
  BY DEF Add
<1>2. ASSUME NEW e \in S, Dedupe => JobsOf({e}) = {}
      PROVE  \E j \in jobs' : j.event = e /\ j.state = "waiting"
  <2>1. new(e) \in jobs' /\ new(e).event = e /\ new(e).state = "waiting"
    BY <1>1, <1>2
  <2> QED BY <2>1
<1>3. \A e \in Events : enqueued'[e] = IF e \in fresh THEN enqueued[e] + 1 ELSE enqueued[e]
  BY DEF Add
<1>4. ASSUME NEW j \in jobs' \ jobs
      PROVE  j.event \in S /\ j.state = "waiting" /\ j.tries = 0
  <2>1. PICK e \in fresh : j = new(e)
    BY <1>1
  <2> QED BY <2>1
<1>5. /\ \A e \in Events : enqueued'[e] \in {enqueued[e], enqueued[e] + 1}
      /\ \A e \in Events \ S : enqueued'[e] = enqueued[e]
  BY <1>3
<1> QED BY <1>1, <1>2, <1>4, <1>5

\* What a relayer looks for is as it was, or, when it had failed, waits again.
LEMMA Checked ==
  ASSUME TypeOK, NEW r \in Relayers, CheckJobs(r)
  PROVE  /\ \A j \in jobs' : \/ j \in jobs
                            \/ /\ j.state = "waiting" /\ j.tries = 0 /\ j.event \in NextTopic(r)
                               /\ \E i \in jobs : i.event = j.event
         /\ \A j \in jobs : j \in jobs' \/ j.event \in NextTopic(r)
         /\ \A j \in jobs : \E i \in jobs' : i.event = j.event /\ (j.state # "failed" => i.state = j.state)
         /\ \A e \in Known(r) : \E i \in jobs' : i.event = e /\ i.state # "failed"
         /\ dead' = dead \ NextTopic(r)
<1> DEFINE failed == IF Dedupe THEN Retried(NextTopic(r)) ELSE {}
           again(j) == [j EXCEPT !.state = "waiting", !.tries = 0]
<1>1. jobs' = (jobs \ failed) \union {again(j) : j \in failed}
  BY DEF CheckJobs
<1>2. failed \subseteq jobs /\ \A j \in failed : j.state = "failed" /\ j.event \in NextTopic(r)
  BY DEF Retried, JobsOf
<1>3. \A j \in failed : again(j).state = "waiting" /\ again(j).tries = 0 /\ again(j).event = j.event
  BY <1>2 DEF TypeOK, Job
<1>4. ASSUME NEW e \in Known(r) PROVE \E i \in jobs' : i.event = e /\ i.state # "failed"
  <2>1. PICK j \in JobsOf(NextTopic(r)) : j.event = e /\ Dedupe
    BY <1>4 DEF Known
  <2>2. CASE j \in failed
    <3>1. again(j) \in jobs'
      BY <1>1, <2>2
    <3>2. again(j).event = e /\ again(j).state # "failed"
      BY <1>3, <2>1, <2>2
    <3> QED BY <3>1, <3>2
  <2>3. CASE j \notin failed
    BY <1>1, <2>1, <2>3 DEF Retried, JobsOf
  <2> QED BY <2>2, <2>3
<1> HIDE DEF failed, again
<1>5. dead' = dead \ NextTopic(r)
  BY DEF CheckJobs
<1> QED BY <1>1, <1>2, <1>3, <1>4, <1>5

\* A job that is worked on.
LEMMA Worked ==
  ASSUME TypeOK, JobsOwed, NEW j \in jobs, Work(j)
  PROVE  \E i : /\ jobs' = (jobs \ {j}) \union {i} /\ i.event = j.event /\ i.event \in Events
                /\ j.state # "failed"
                /\ i.state \in {"waiting", "active", "dispatched"} => i.tries < MaxTries
                /\ i.state \in {"dispatched", "done"} => i.event \in dispatched'
                /\ i.state = "failed" => dead' = dead \union {j.event}
                /\ i.state # "failed" => dead' = dead
                /\ dispatched' = dispatched \/ dispatched' = dispatched \union {j.event}
                /\ UNCHANGED <<queue, outbox, relayer, enqueued, crashes>>
<1> USE DEF Work, Step
<1>1. j \in Job /\ j.event \in Events
  BY DEF TypeOK, Job
<1>2. CASE Take(j) \/ Dispatch(j) \/ Acknowledge(j)
  <2>1. PICK to \in {"active", "dispatched", "done"} :
          /\ jobs' = (jobs \ {j}) \union {[j EXCEPT !.state = to]}
          /\ to \in {"dispatched", "done"} => j.event \in dispatched'
          /\ j.state \in {"waiting", "active", "dispatched"}
          /\ dead' = dead
          /\ dispatched' = dispatched \/ dispatched' = dispatched \union {j.event}
          /\ UNCHANGED <<queue, outbox, relayer, enqueued, crashes>>
    BY <1>2 DEF Take, Dispatch, Acknowledge, JobsOwed
  <2>2. [j EXCEPT !.state = to].event = j.event /\ [j EXCEPT !.state = to].state = to
        /\ [j EXCEPT !.state = to].tries = j.tries
    BY <1>1 DEF Job
  <2>3. j.tries < MaxTries
    BY <2>1 DEF JobsOwed
  <2> QED BY <1>1, <2>1, <2>2, <2>3
<1>3. CASE Fail(j)
  <2> DEFINE last == j.tries + 1 >= MaxTries
             i == [j EXCEPT !.state = IF last THEN "failed" ELSE "waiting", !.tries = @ + 1]
  <2>1. i.event = j.event /\ i.state = (IF last THEN "failed" ELSE "waiting") /\ i.tries = j.tries + 1
    BY <1>1 DEF Job
  <2>2. j.tries + 1 \in Nat /\ MaxTries \in Nat
    BY <1>1, RelayAssumption DEF Job
  <2>3. i.state = "waiting" => i.tries < MaxTries
    BY <2>1, <2>2
  <2>4. /\ jobs' = (jobs \ {j}) \union {i} /\ j.state # "failed"
        /\ dead' = IF last THEN dead \union {j.event} ELSE dead
        /\ UNCHANGED <<queue, outbox, relayer, enqueued, crashes, dispatched>>
    BY <1>3 DEF Fail
  <2>5. i.state \in {"failed", "waiting"} /\ (i.state = "failed" <=> last)
    BY <2>1
  <2> HIDE DEF i, last
  <2>6. dead' = IF i.state = "failed" THEN dead \union {j.event} ELSE dead
    BY <2>4, <2>5
  <2> QED BY <1>1, <2>1, <2>3, <2>4, <2>5, <2>6
<1> QED BY <1>2, <1>3
-------------------------------------------------------------------------------
(***************************************************************************)
(* Steps that leave the jobs or the rows alone, and the invariant's steps. *)
(***************************************************************************)
LEMMA RowsOnly ==
  ASSUME TypeOK, NEW e \in Events, Append(e) \/ Prune(e)
  PROVE  /\ \A x \in Events : (outbox[x] # "none" => outbox'[x] # "none")
                             /\ (outbox'[x] \in {"relayed", "pruned"} <=> outbox[x] \in {"relayed", "pruned"})
         /\ UNCHANGED <<queue, relayer, jobs, enqueued, dispatched, dead, crashes>>
  BY DEF Append, Prune, TypeOK

LEMMA Marked ==
  ASSUME TypeOK, NEW r \in Relayers, MarkRelayed(r)
  PROVE  /\ \A x \in Events : outbox'[x] = IF x \in relayer[r].batch THEN "relayed" ELSE outbox[x]
         /\ UNCHANGED <<queue, jobs, enqueued, dispatched, dead, crashes>>
  BY DEF MarkRelayed, TypeOK

LEMMA JobsStep == TypeOK /\ LocksHeld /\ InOrder /\ JobsOwed /\ [Next]_vars => JobsOwed'
<1> SUFFICES ASSUME TypeOK, LocksHeld, InOrder, JobsOwed, [Next]_vars PROVE JobsOwed'
  OBVIOUS
<1>0. (\A j \in jobs : j.event \in Events) /\ dispatched \subseteq Events /\ 0 < MaxTries
  BY RelayAssumption DEF TypeOK, Job
<1>1. ASSUME NEW e \in Events, Append(e) \/ Prune(e) PROVE JobsOwed'
  BY <1>0, <1>1, RowsOnly DEF JobsOwed
<1>2. ASSUME NEW r \in Relayers, ReadPending(r) PROVE JobsOwed'
  BY <1>2 DEF ReadPending, JobsOwed
<1>3. ASSUME NEW r \in Relayers, CheckJobs(r) PROVE JobsOwed'
  <2>1. outbox' = outbox /\ dispatched' = dispatched
    BY <1>3 DEF CheckJobs
  <2> QED BY <1>0, <1>3, <2>1, Checked DEF JobsOwed
<1>4. ASSUME NEW r \in Relayers, NEW S \in SUBSET relayer[r].fresh, Add(S), UNCHANGED <<outbox, dispatched>>
      PROVE  JobsOwed'
  <2>1. \A e \in S : outbox[e] # "none"
    BY FreshOwned DEF Pending
  <2> QED BY <1>0, <1>4, <2>1, Added DEF JobsOwed
<1>5. ASSUME NEW r \in Relayers, AddJobs(r) \/ Rollback(r) PROVE JobsOwed'
  BY <1>4, <1>5 DEF AddJobs, Rollback
<1>6. ASSUME NEW r \in Relayers, MarkRelayed(r) PROVE JobsOwed'
  BY <1>0, <1>6, Marked DEF JobsOwed
<1>7. ASSUME NEW j \in jobs, Work(j) PROVE JobsOwed'
  BY <1>0, <1>7, Worked DEF JobsOwed
<1>8. ASSUME NEW j \in jobs, Forget(j) PROVE JobsOwed'
  BY <1>8 DEF Forget, JobsOwed
<1>9. CASE UNCHANGED vars
  BY <1>9 DEF vars, JobsOwed
<1> QED
  BY <1>1, <1>2, <1>3, <1>5, <1>6, <1>7, <1>8, <1>9 DEF Next, Relay

LEMMA EnqueuedStep ==
  TypeOK /\ LocksHeld /\ InOrder /\ JobsOwed /\ EnqueuedWhenSent /\ [Next]_vars => EnqueuedWhenSent'
<1> SUFFICES ASSUME TypeOK, LocksHeld, InOrder, JobsOwed, EnqueuedWhenSent, [Next]_vars, NEW x \in Events
             PROVE  enqueued'[x] <= 1 + crashes' /\ (enqueued'[x] = 1 + crashes' => Sent(x)')
  BY DEF EnqueuedWhenSent
<1>0. /\ enqueued[x] \in Nat /\ crashes \in Nat
      /\ enqueued[x] <= 1 + crashes /\ (enqueued[x] = 1 + crashes => Sent(x))
  BY DEF TypeOK, EnqueuedWhenSent
<1>1. ASSUME NEW e \in Events, Append(e) \/ Prune(e) PROVE Sent(x) => Sent(x)'
  BY <1>1, RowsOnly DEF Sent
<1>2. ASSUME NEW r \in Relayers, ReadPending(r) PROVE Sent(x) => Sent(x)'
  <2>1. relayer[r].sent = {} /\ outbox' = outbox
    BY <1>2 DEF ReadPending, InOrder
  <2> QED BY <1>2, <2>1, ReadEffect DEF Sent
<1>3. ASSUME NEW r \in Relayers, CheckJobs(r) PROVE Sent(x) => Sent(x)'
  <2>1. outbox' = outbox
    BY <1>3 DEF CheckJobs
  <2> QED BY <1>3, <2>1, CheckEffect DEF Sent
<1>4. ASSUME NEW r \in Relayers, AddJobs(r)
      PROVE  (Sent(x) => Sent(x)') /\ (x \in NextTopic(r) => Sent(x)')
  <2>1. outbox' = outbox
    BY <1>4 DEF AddJobs
  <2> QED BY <1>4, <2>1, AddEffect DEF Sent
<1>5. ASSUME NEW r \in Relayers, MarkRelayed(r) PROVE Sent(x) => Sent(x)'
  <2>1. relayer[r].sent \subseteq relayer[r].batch
    BY DEF InOrder
  <2> QED BY <1>5, <2>1, Marked, EndEffect DEF Sent
<1>6. ASSUME UNCHANGED <<enqueued, crashes>>, Sent(x) => Sent(x)'
      PROVE  enqueued'[x] <= 1 + crashes' /\ (enqueued'[x] = 1 + crashes' => Sent(x)')
  BY <1>0, <1>6
<1>7. ASSUME NEW r \in Relayers, NEW S \in SUBSET relayer[r].fresh, Add(S)
      PROVE  \/ enqueued'[x] = enqueued[x]
             \/ x \in NextTopic(r) /\ enqueued'[x] = enqueued[x] + 1 /\ enqueued[x] <= crashes
  BY <1>0, <1>7, Added, FreshOwned
<1>8. ASSUME NEW r \in Relayers, AddJobs(r)
      PROVE  enqueued'[x] <= 1 + crashes' /\ (enqueued'[x] = 1 + crashes' => Sent(x)')
  <2>1. crashes' = crashes /\ Add(relayer[r].fresh)
    BY <1>8 DEF AddJobs
  <2> QED BY <1>0, <1>4, <1>7, <1>8, <2>1
<1>9. ASSUME NEW r \in Relayers, Rollback(r)
      PROVE  enqueued'[x] <= 1 + crashes' /\ (enqueued'[x] = 1 + crashes' => Sent(x)')
  <2>1. crashes' = crashes + 1 /\ \E S \in SUBSET relayer[r].fresh : Add(S)
    BY <1>9 DEF Rollback
  <2>2. enqueued'[x] \in Nat /\ enqueued'[x] <= crashes + 1
    BY <1>0, <1>7, <2>1
  <2>3. CASE enqueued'[x] <= crashes + 1
    BY <1>0, <2>1, <2>2, <2>3
  <2> QED BY <2>2, <2>3
<1>10. ASSUME NEW j \in jobs, Work(j) \/ Forget(j)
       PROVE  UNCHANGED <<enqueued, crashes, outbox, relayer>>
  BY <1>10 DEF Work, Take, Dispatch, Acknowledge, Fail, Step, Forget
<1>11. ASSUME UNCHANGED <<outbox, relayer>> PROVE Sent(x) => Sent(x)'
  BY <1>11 DEF Sent
<1>12. ASSUME NEW r \in Relayers, ReadPending(r) \/ CheckJobs(r) \/ MarkRelayed(r)
       PROVE  UNCHANGED <<enqueued, crashes>>
  BY <1>12 DEF ReadPending, CheckJobs, MarkRelayed
<1> QED
  BY <1>1, <1>2, <1>3, <1>5, <1>6, <1>8, <1>9, <1>10, <1>11, <1>12, RowsOnly DEF Next, Relay, vars

LEMMA FreshStep ==
  TypeOK /\ LocksHeld /\ InOrder /\ JobsOwed /\ FreshIsFresh /\ [Next]_vars => FreshIsFresh'
<1> SUFFICES ASSUME TypeOK, LocksHeld, InOrder, JobsOwed, FreshIsFresh, [Next]_vars, Dedupe',
                    NEW s \in Relayers, NEW i \in jobs'
             PROVE  i.event \notin relayer'[s].fresh
  BY DEF FreshIsFresh
<1>0. Dedupe
  BY DEF Dedupe, Next, Relay, Append, Prune, ReadPending, CheckJobs, AddJobs, MarkRelayed, Rollback,
         Work, Take, Dispatch, Acknowledge, Fail, Forget, vars
<1>1. \A j \in jobs : j.event \notin relayer[s].fresh
  BY <1>0 DEF FreshIsFresh
<1>2. ASSUME NEW r \in Relayers, CheckJobs(r) PROVE i.event \notin relayer'[s].fresh
  <2>1. \E j \in jobs : j.event = i.event
    BY <1>2, Checked
  <2>2. CASE s = r
    BY <1>0, <1>2, <2>1, <2>2, CheckEffect DEF Known, JobsOf
  <2>3. CASE s # r
    BY <1>1, <1>2, <2>1, <2>3, CheckEffect
  <2> QED BY <2>2, <2>3
<1>3. ASSUME NEW r \in Relayers, NEW S \in SUBSET relayer[r].fresh, Add(S),
             relayer'[r].fresh = {}, \A x \in Relayers \ {r} : relayer'[x] = relayer[x]
      PROVE  i.event \notin relayer'[s].fresh
  <2>1. CASE s = r
    BY <1>3, <2>1
  <2>2. CASE s # r
    <3>1. relayer[s].fresh \intersect relayer[r].fresh = {}
      BY <2>2, FreshOwned, TopicType
    <3> QED BY <1>1, <1>3, <2>2, <3>1, Added
  <2> QED BY <2>1, <2>2
<1>4. ASSUME NEW r \in Relayers, AddJobs(r) \/ Rollback(r) PROVE i.event \notin relayer'[s].fresh
  <2>1. \E S \in SUBSET relayer[r].fresh : Add(S)
    BY <1>4 DEF AddJobs, Rollback
  <2> QED BY <1>3, <1>4, <2>1, AddEffect, EndEffect
<1>5. ASSUME NEW r \in Relayers, ReadPending(r) \/ MarkRelayed(r) PROVE i.event \notin relayer'[s].fresh
  <2>1. jobs' = jobs
    BY <1>5 DEF ReadPending, MarkRelayed
  <2> QED BY <1>1, <1>5, <2>1, ReadEffect, EndEffect
<1>6. ASSUME NEW e \in Events, Append(e) \/ Prune(e) PROVE i.event \notin relayer'[s].fresh
  BY <1>1, <1>6, RowsOnly
<1>7. ASSUME NEW j \in jobs, Work(j) PROVE i.event \notin relayer'[s].fresh
  BY <1>1, <1>7, Worked
<1>8. ASSUME NEW j \in jobs, Forget(j) PROVE i.event \notin relayer'[s].fresh
  BY <1>1, <1>8 DEF Forget
<1>9. CASE UNCHANGED vars
  BY <1>1, <1>9 DEF vars
<1> QED
  BY <1>2, <1>4, <1>5, <1>6, <1>7, <1>8, <1>9 DEF Next, Relay

\* An event leaves the good hands it is in only while its relayer looks for its job.
LEMMA StaysInGoodHands ==
  ASSUME TypeOK, LocksHeld, InOrder, JobsOwed, [Next]_vars, NEW e \in Events, InGoodHands(e),
         \A r \in Relayers : CheckJobs(r) => e \notin NextTopic(r)
  PROVE  InGoodHands(e)'
<1>1. ASSUME NEW r \in Relayers, CheckJobs(r) PROVE InGoodHands(e)'
  <2>1. dispatched' = dispatched
    BY <1>1 DEF CheckJobs
  <2> QED BY <1>1, <2>1, Checked DEF InGoodHands
<1>2. ASSUME NEW r \in Relayers, AddJobs(r) \/ Rollback(r) PROVE InGoodHands(e)'
  <2>1. UNCHANGED <<dispatched, dead>> /\ \E S : Add(S)
    BY <1>2 DEF AddJobs, Rollback
  <2> QED BY <2>1, Added DEF InGoodHands
<1>3. ASSUME NEW j \in jobs, Work(j) PROVE InGoodHands(e)'
  BY <1>3, Worked DEF InGoodHands
<1>4. ASSUME NEW j \in jobs, Forget(j) PROVE InGoodHands(e)'
  BY <1>4 DEF Forget, InGoodHands, JobsOwed
<1>5. ASSUME UNCHANGED <<jobs, dispatched, dead>> PROVE InGoodHands(e)'
  BY <1>5 DEF InGoodHands
<1> QED
  BY <1>1, <1>2, <1>3, <1>4, <1>5 DEF Next, Relay, Append, Prune, ReadPending, MarkRelayed, vars

\* What a relayer is about to add has no job.
LEMMA FreshHasNoJob ==
  ASSUME FreshIsFresh, Dedupe, NEW r \in Relayers, NEW e \in relayer[r].fresh
  PROVE  JobsOf({e}) = {}
BY DEF FreshIsFresh, JobsOf

LEMMA HandedStep == Inv /\ [Next]_vars => HandedOver'
<1> SUFFICES ASSUME Inv, [Next]_vars PROVE HandedOver'
  OBVIOUS
<1> USE DEF Inv
<1>1. ASSUME NEW e \in Events, outbox'[e] \in {"relayed", "pruned"} PROVE InGoodHands(e)'
  <2>1. CASE outbox[e] \in {"relayed", "pruned"}
    <3>1. \A r \in Relayers : e \notin NextTopic(r)
      BY <2>1, FreshOwned DEF Pending
    <3> QED BY <2>1, <3>1, StaysInGoodHands DEF HandedOver
  <2>2. CASE outbox[e] \notin {"relayed", "pruned"}
    <3>1. PICK r \in Relayers : MarkRelayed(r)
      BY <1>1, <2>2, RowsOnly DEF Next, Relay, ReadPending, CheckJobs, AddJobs, Rollback,
         Work, Take, Dispatch, Acknowledge, Fail, Forget, vars
    <3>2. e \in relayer[r].batch /\ UNCHANGED <<jobs, dispatched, dead>>
      BY <1>1, <2>2, <3>1, Marked
    <3>3. e \in relayer[r].sent
      BY <3>1, <3>2 DEF MarkRelayed, InOrder
    <3> QED BY <3>2, <3>3 DEF HandedOver, InGoodHands
  <2> QED BY <2>1, <2>2
<1>2. ASSUME NEW s \in Relayers, NEW e \in relayer[s].batch, InGoodHands(e),
             CheckJobs(s) => e \notin NextTopic(s)
      PROVE  InGoodHands(e)'
  <2>1. e \in Events /\ \A r \in Relayers \ {s} : e \notin NextTopic(r)
    BY FreshOwned DEF TypeOK
  <2> QED BY <1>2, <2>1, StaysInGoodHands
<1>3. ASSUME NEW s \in Relayers, relayer'[s] = relayer[s], NEW e \in relayer[s].sent
      PROVE  InGoodHands(e)'
  BY <1>2, <1>3, TopicType DEF HandedOver, InOrder
<1>4. ASSUME NEW s \in Relayers, CheckJobs(s), NEW e \in relayer[s].sent
      PROVE  InGoodHands(e)'
  BY <1>2, <1>4, TopicType DEF HandedOver, InOrder
<1>5. ASSUME NEW s \in Relayers, AddJobs(s), NEW e \in relayer[s].sent \union NextTopic(s)
      PROVE  InGoodHands(e)'
  <2>1. Add(relayer[s].fresh) /\ relayer[s].step = "add"
    BY <1>5 DEF AddJobs
  <2>2. CASE e \in relayer[s].fresh
    <3>1. Dedupe => JobsOf({e}) = {}
      BY <2>2, FreshHasNoJob
    <3>2. \E j \in jobs' : j.event = e /\ j.state = "waiting"
      BY <2>1, <2>2, <3>1, Added
    <3> QED BY <3>2 DEF InGoodHands
  <2>3. CASE e \notin relayer[s].fresh
    <3>1. InGoodHands(e) /\ ~CheckJobs(s)
      BY <1>5, <2>1, <2>3 DEF HandedOver, CheckJobs
    <3> QED BY <1>2, <1>5, <3>1, TopicType DEF InOrder
  <2> QED BY <2>2, <2>3
<1>6. ASSUME NEW s \in Relayers, CheckJobs(s), NEW e \in Known(s) \intersect NextTopic(s)
      PROVE  InGoodHands(e)'
  BY <1>6, Checked DEF InGoodHands
<1>7. ASSUME NEW s \in Relayers
      PROVE  /\ \A e \in relayer'[s].sent : InGoodHands(e)'
             /\ relayer'[s].step = "add" => \A e \in NextTopic(s)' \ relayer'[s].fresh : InGoodHands(e)'
  <2>1. CASE relayer'[s] = relayer[s]
    <3>1. NextTopic(s)' = NextTopic(s) /\ NextTopic(s) \subseteq relayer[s].batch
      BY <2>1, SameTopic, TopicType
    <3>2. ASSUME relayer[s].step = "add", NEW e \in NextTopic(s) \ relayer[s].fresh PROVE InGoodHands(e)'
      <4>1. InGoodHands(e) /\ ~CheckJobs(s)
        BY <3>2 DEF HandedOver, CheckJobs
      <4> QED BY <1>2, <3>1, <4>1
    <3> QED BY <1>3, <2>1, <3>1, <3>2
  <2>2. CASE CheckJobs(s)
    <3>1. NextTopic(s)' = NextTopic(s)
      BY <2>2, CheckEffect, SameTopic
    <3> QED BY <1>4, <1>6, <2>2, <3>1, CheckEffect
  <2>3. CASE AddJobs(s)
    BY <1>5, <2>3, AddEffect
  <2>4. CASE ReadPending(s) \/ MarkRelayed(s) \/ Rollback(s)
    BY <2>4, ReadEffect, EndEffect
  <2>5. ASSUME NEW r \in Relayers, Relay(r) \/ Rollback(r), r # s PROVE relayer'[s] = relayer[s]
    BY <2>5, ReadEffect, CheckEffect, AddEffect, EndEffect DEF Relay
  <2> QED
    BY <2>1, <2>2, <2>3, <2>4, <2>5, OthersEffect DEF Next, Relay
<1> QED BY <1>1, <1>7 DEF HandedOver

LEMMA InvInit == Init => Inv
<1> SUFFICES ASSUME Init PROVE Inv
  OBVIOUS
<1>1. \A r \in Relayers : /\ relayer[r].step = "idle" /\ relayer[r].batch = {}
                          /\ relayer[r].sent = {} /\ relayer[r].fresh = {}
  BY DEF Init, NoBatch
<1>2. LocksHeld /\ InOrder /\ FreshIsFresh
  BY <1>1 DEF LocksHeld, InOrder, FreshIsFresh
<1>3. JobsOwed /\ EnqueuedWhenSent /\ HandedOver
  BY <1>1 DEF Init, JobsOwed, EnqueuedWhenSent, HandedOver
<1> QED BY <1>2, <1>3, TypeInit DEF Inv

LEMMA InvStep == Inv /\ [Next]_vars => Inv'
  BY TypeStep, LocksStep, OrderStep, JobsStep, EnqueuedStep, HandedStep, FreshStep DEF Inv

LEMMA InvAlways == Spec => []Inv
  BY InvInit, InvStep, PTL DEF Spec

\* However relayers and consumers fail: no event is enqueued twice but for a transaction
\* that failed, and none is given up with attempts of a job left to make.
THEOREM JobsAlwaysAccounted == Spec => []JobsAccounted
<1>1. Inv => EnqueuedOncePerCrash
  BY DEF Inv, EnqueuedWhenSent, EnqueuedOncePerCrash
<1>2. Inv => AbandonedAfterTries
  <2> SUFFICES ASSUME Inv, NEW e \in Events, Promise(e) = "abandoned" PROVE e \in dead
    BY DEF AbandonedAfterTries
  <2>1. /\ outbox[e] \in {"relayed", "pruned"} /\ e \notin dispatched
        /\ \A j \in JobsOf({e}) : j.state = "failed"
    BY DEF Promise, Inv, TypeOK
  <2> QED BY <2>1 DEF Inv, HandedOver, InGoodHands, JobsOf
<1> QED BY <1>1, <1>2, InvAlways, PTL DEF JobsAccounted

-------------------------------------------------------------------------------
(***************************************************************************)
(* The relay implements the safety part of EventDelivery: what is promised *)
(* of an event moves from owed to dispatched or abandoned, and no further. *)
(***************************************************************************)
AllFailed(e) == \A j \in jobs : j.event = e => j.state = "failed"
Closed(e) == outbox[e] \in {"relayed", "pruned"}

LEMMA PromiseIs ==
  ASSUME TypeOK, NEW e \in Events
  PROVE  Promise(e) = IF outbox[e] = "none" THEN "none"
                      ELSE IF e \in dispatched THEN "dispatched"
                      ELSE IF Closed(e) /\ AllFailed(e) THEN "abandoned" ELSE "owed"
<1>1. (\A j \in JobsOf({e}) : j.state = "failed") <=> AllFailed(e)
  BY DEF JobsOf, AllFailed
<1>2. outbox[e] # "none" => (outbox[e] # "pending" <=> Closed(e))
  BY DEF TypeOK, Closed
<1> QED BY <1>1, <1>2 DEF Promise

LEMMA PromiseStays ==
  ASSUME TypeOK, TypeOK', NEW e \in Events, outbox'[e] = "none" <=> outbox[e] = "none",
         Closed(e)' <=> Closed(e), e \in dispatched' <=> e \in dispatched,
         Closed(e) /\ e \notin dispatched => (AllFailed(e)' <=> AllFailed(e))
  PROVE  Promise(e)' = Promise(e)
<1>1. Promise(e)' = IF outbox'[e] = "none" THEN "none"
                    ELSE IF e \in dispatched' THEN "dispatched"
                    ELSE IF Closed(e)' /\ AllFailed(e)' THEN "abandoned" ELSE "owed"
  <2>1. (\A j \in JobsOf({e})' : j.state = "failed") <=> AllFailed(e)'
    BY DEF JobsOf, AllFailed
  <2>2. outbox'[e] # "none" => (outbox'[e] # "pending" <=> Closed(e)')
    BY DEF TypeOK, Closed
  <2> QED BY <2>1, <2>2 DEF Promise
<1> QED BY <1>1, PromiseIs

LEMMA DeliveryInit == Init => Delivery!Init
  BY DEF Init, Delivery!Init, Promise

\* The promises of the events of S move on, and those of the others stay.
PromisesMove(S, from, to) ==
  \A e \in Events : IF e \in S THEN Promise(e) = from /\ Promise(e)' = to ELSE Promise(e)' = Promise(e)

LEMMA DeliveryMove ==
  ASSUME NEW S \in SUBSET Events, NEW from, NEW to, PromisesMove(S, from, to)
  PROVE  Delivery!Move(S, from, to)
  BY DEF PromisesMove, Delivery!Move

LEMMA AppendPromise ==
  ASSUME Inv, TypeOK', NEW e \in Events, Append(e) PROVE PromisesMove({e}, "none", "owed")
<1> SUFFICES ASSUME NEW x \in Events
             PROVE  IF x = e THEN Promise(x) = "none" /\ Promise(x)' = "owed" ELSE Promise(x)' = Promise(x)
  BY DEF PromisesMove
<1>1. outbox[e] = "none" /\ outbox'[e] = "pending" /\ e \notin dispatched /\ dispatched' = dispatched
  BY DEF Append, Inv, TypeOK, JobsOwed
<1>2. x # e => outbox'[x] = outbox[x] /\ jobs' = jobs
  BY DEF Append, Inv, TypeOK
<1>3. CASE x = e
  BY <1>1, <1>3 DEF Promise
<1>4. CASE x # e
  BY <1>1, <1>2, <1>4, PromiseStays DEF Inv, Closed, AllFailed
<1> QED BY <1>3, <1>4

LEMMA MarkPromise ==
  ASSUME Inv, TypeOK', NEW r \in Relayers, MarkRelayed(r)
  PROVE  PromisesMove({e \in Events : Promise(e) # Promise(e)'}, "owed", "abandoned")
<1> SUFFICES ASSUME NEW x \in Events, Promise(x)' # Promise(x)
             PROVE  Promise(x) = "owed" /\ Promise(x)' = "abandoned"
  BY DEF PromisesMove
<1> USE DEF Inv
<1>1. outbox'[x] = (IF x \in relayer[r].batch THEN "relayed" ELSE outbox[x])
      /\ UNCHANGED <<jobs, dispatched>>
  BY Marked
<1>2. x \in relayer[r].batch
  BY <1>1, PromiseStays DEF Closed, AllFailed
<1>3. outbox[x] = "pending" /\ outbox'[x] = "relayed"
  BY <1>1, <1>2 DEF LocksHeld, Pending
<1> QED BY <1>1, <1>3 DEF Promise

LEMMA WorkPromise ==
  ASSUME Inv, TypeOK', NEW j \in jobs, Work(j)
  PROVE  \E S \in SUBSET Events, to \in {"dispatched", "abandoned"} : PromisesMove(S, "owed", to)
<1> USE DEF Inv
<1> DEFINE e == j.event
<1>1. PICK i : /\ jobs' = (jobs \ {j}) \union {i} /\ i.event = e /\ e \in Events /\ j.state # "failed"
               /\ dispatched' = dispatched \/ dispatched' = dispatched \union {e}
               /\ UNCHANGED outbox
  BY Worked
<1>2. ASSUME NEW x \in Events, x # e PROVE Promise(x)' = Promise(x)
  <2>1. AllFailed(x)' <=> AllFailed(x)
    BY <1>1, <1>2 DEF AllFailed
  <2> QED BY <1>1, <1>2, <2>1, PromiseStays DEF Closed
<1>3. outbox[e] # "none" /\ outbox'[e] = outbox[e] /\ ~AllFailed(e)
  BY <1>1 DEF JobsOwed, AllFailed
<1>4. Promise(e) = IF e \in dispatched THEN "dispatched" ELSE "owed"
  BY <1>1, <1>3, PromiseIs
<1>5. Promise(e)' \in {"owed", "dispatched", "abandoned"} /\ (e \in dispatched' <=> Promise(e)' = "dispatched")
  BY <1>3 DEF Promise
<1>6. CASE Promise(e)' = Promise(e)
  <2>1. \A x \in Events : Promise(x)' = Promise(x)
    BY <1>2, <1>6
  <2>2. PromisesMove({}, "owed", "dispatched")
    BY <2>1 DEF PromisesMove
  <2> QED BY <2>2
<1>7. CASE Promise(e)' # Promise(e)
  <2>1. Promise(e) = "owed" /\ Promise(e)' \in {"dispatched", "abandoned"}
    BY <1>1, <1>4, <1>5, <1>7
  <2>2. PromisesMove({e}, "owed", Promise(e)')
    BY <1>2, <2>1 DEF PromisesMove
  <2> QED BY <1>1, <2>1, <2>2
<1> QED BY <1>6, <1>7

\* The other steps keep every promise.
LEMMA OtherPromise ==
  ASSUME Inv, TypeOK', NEW x \in Events,
         \/ \E e \in Events : Prune(e)
         \/ \E r \in Relayers : ReadPending(r) \/ CheckJobs(r) \/ AddJobs(r) \/ Rollback(r)
         \/ \E j \in jobs : Forget(j)
         \/ UNCHANGED vars
  PROVE  Promise(x)' = Promise(x)
<1> USE DEF Inv
<1>1. dispatched' = dispatched
  BY DEF Prune, ReadPending, CheckJobs, AddJobs, Rollback, Forget, vars
<1>2. (outbox'[x] = "none" <=> outbox[x] = "none") /\ (Closed(x)' <=> Closed(x))
  <2>1. ASSUME NEW e \in Events, Prune(e)
        PROVE  (outbox'[x] = "none" <=> outbox[x] = "none") /\ (Closed(x)' <=> Closed(x))
    BY <2>1 DEF Prune, Closed, TypeOK
  <2>2. ASSUME outbox' = outbox
        PROVE  (outbox'[x] = "none" <=> outbox[x] = "none") /\ (Closed(x)' <=> Closed(x))
    BY <2>2 DEF Closed
  <2> QED BY <2>1, <2>2 DEF ReadPending, CheckJobs, AddJobs, Rollback, Forget, vars
<1>3. ASSUME Closed(x), x \notin dispatched PROVE AllFailed(x)' <=> AllFailed(x)
  <2>1. ASSUME NEW r \in Relayers, CheckJobs(r) PROVE AllFailed(x)' <=> AllFailed(x)
    <3>1. x \notin NextTopic(r)
      BY <1>3, FreshOwned DEF Closed, Pending
    <3> QED BY <2>1, <3>1, Checked DEF AllFailed
  <2>2. ASSUME NEW r \in Relayers, AddJobs(r) \/ Rollback(r) PROVE AllFailed(x)' <=> AllFailed(x)
    <3>1. x \notin relayer[r].fresh
      BY <1>3, FreshOwned DEF Closed, Pending
    <3>2. \E S \in SUBSET relayer[r].fresh : Add(S)
      BY <2>2 DEF AddJobs, Rollback
    <3> QED BY <3>1, <3>2, Added DEF AllFailed
  <2>3. ASSUME NEW j \in jobs, Forget(j) PROVE AllFailed(x)' <=> AllFailed(x)
    BY <1>3, <2>3 DEF Forget, AllFailed, JobsOwed
  <2>4. ASSUME jobs' = jobs PROVE AllFailed(x)' <=> AllFailed(x)
    BY <2>4 DEF AllFailed
  <2> QED BY <2>1, <2>2, <2>3, <2>4 DEF Prune, ReadPending, vars
<1> QED BY <1>1, <1>2, <1>3, PromiseStays

LEMMA DeliveryStep ==
  ASSUME Inv, TypeOK', [Next]_vars
  PROVE  [Delivery!Next]_([e \in Events |-> Promise(e)])
<1> DEFINE Steps == \E S \in SUBSET Events : Delivery!Commit(S) \/ Delivery!Dispatch(S) \/ Delivery!Abandon(S)
<1>1. Steps => Delivery!Next
  BY DEF Delivery!Next
<1>2. ASSUME NEW e \in Events, Append(e) PROVE Steps
  BY <1>2, AppendPromise, DeliveryMove DEF Delivery!Commit
<1>3. ASSUME NEW r \in Relayers, MarkRelayed(r) PROVE Steps
  <2> DEFINE S == {e \in Events : Promise(e) # Promise(e)'}
  <2>1. PromisesMove(S, "owed", "abandoned") /\ S \in SUBSET Events
    BY <1>3, MarkPromise
  <2> HIDE DEF S
  <2> QED BY <2>1, DeliveryMove DEF Delivery!Abandon
<1>4. ASSUME NEW j \in jobs, Work(j) PROVE Steps
  BY <1>4, WorkPromise, DeliveryMove DEF Delivery!Dispatch, Delivery!Abandon
<1>5. ASSUME \A x \in Events : Promise(x)' = Promise(x)
      PROVE  UNCHANGED [e \in Events |-> Promise(e)]
  BY <1>5
<1> HIDE DEF Steps
<1> QED
  BY <1>1, <1>2, <1>3, <1>4, <1>5, OtherPromise DEF Next, Relay

\* The relay keeps the outbox's promise, whatever a relayer or a consumer fails at: a
\* committed event is owed until it has been dispatched or all attempts have failed.
THEOREM PromiseKept == Spec => Delivery!Safety
<1>1. Inv /\ Inv' /\ [Next]_vars => [Delivery!Next]_([e \in Events |-> Promise(e)])
  BY DeliveryStep DEF Inv
<1> QED BY <1>1, DeliveryInit, InvAlways, PTL DEF Spec, Delivery!Safety
===============================================================================
