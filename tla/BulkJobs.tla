------------------------------- MODULE BulkJobs -------------------------------
(***************************************************************************)
(* A durable bulk publish or unpublish: one job, split into chunks that    *)
(* queue consumers claim by compare-and-set, run in a transaction each,    *)
(* and fold into the job's counters.  Consumers crash between any two      *)
(* statements, stall past the claim's stale window and fail; a periodic    *)
(* sweep nudges what stalled.  Jobs do not share rows, so one is enough.   *)
(***************************************************************************)
EXTENDS Naturals, FiniteSets, Sequences

CONSTANTS Items,        \* entry ids of the job
          Chunks,       \* ids of its chunks
          ItemsOf,      \* the items of each chunk, a slice of the job's items
          Runners,      \* queue consumers
          NoChunk,      \* what an idle consumer works on
          MaxAttempts,  \* BULK_CHUNK_MAX_ATTEMPTS
          MaxCrashes    \* bound: crashes of consumers

ASSUME ItemsAssumption ==
  /\ IsFiniteSet(Items) /\ IsFiniteSet(Chunks)
  /\ ItemsOf \in [Chunks -> SUBSET Items]
  /\ UNION {ItemsOf[c] : c \in Chunks} = Items
  /\ \A c, d \in Chunks : c # d => ItemsOf[c] \intersect ItemsOf[d] = {}
ASSUME NoChunkAssumption == NoChunk \notin Chunks
ASSUME BoundsAssumption == MaxAttempts \in Nat /\ MaxCrashes \in Nat

VARIABLES
  job,        \* the row of bulk_jobs
  chunk,      \* the rows of bulk_job_chunks
  due,        \* chunks with a bulk.chunk_due event on its way to a consumer
  runner,     \* what each consumer is doing
  commits,    \* history: the committed transactions of each chunk
  announced,  \* outbox: the bulk.job_completed events
  crashes     \* crashes so far

vars == <<job, chunk, due, runner, commits, announced, crashes>>

Job == [status : {"none", "running", "completed", "cancelled"},
        completedChunks : Nat, succeeded : Nat, failed : Nat]

\* `stale`: the claim is older than BULK_CHUNK_STALE_SECONDS.
Chunk == [status : {"pending", "running", "completed", "failed"},
          attempts : Nat, stale : BOOLEAN, failures : SUBSET Items]

\* `outcome` and `failures` are what the consumer completes the chunk with.
Runner == [step : {"idle", "claim", "run", "release", "complete", "finalize"},
           chunk : Chunks \union {NoChunk}, outcome : {"completed", "failed"},
           failures : SUBSET Items]
Idle == [step |-> "idle", chunk |-> NoChunk, outcome |-> "completed", failures |-> {}]

Terminal == {"completed", "failed"}
Settled == {c \in Chunks : chunk[c].status \in Terminal}
SettledItems == UNION {ItemsOf[c] : c \in Settled}
FailedItems == UNION {chunk[c].failures : c \in Settled}

Init ==
  /\ job = [status |-> "none", completedChunks |-> 0, succeeded |-> 0, failed |-> 0]
  /\ chunk = [c \in Chunks |->
       [status |-> "pending", attempts |-> 0, stale |-> FALSE, failures |-> {}]]
  /\ due = {}
  /\ runner = [r \in Runners |-> Idle]
  /\ commits = [c \in Chunks |-> 0]
  /\ announced = <<>>
  /\ crashes = 0

At(r, step, c) == runner[r].step = step /\ runner[r].chunk = c
Go(r, step) == runner' = [runner EXCEPT ![r].step = step]
GoComplete(r, outcome, failures) ==
  runner' = [runner EXCEPT ![r] = [step |-> "complete", chunk |-> @.chunk,
                                   outcome |-> outcome, failures |-> failures]]
Stop(r) == runner' = [runner EXCEPT ![r] = Idle]

-------------------------------------------------------------------------------
\* The job, its chunks and a nudge for each commit in one transaction.
StartBulkJob ==
  /\ job.status = "none"
  /\ job' = [job EXCEPT !.status = "running"]
  /\ due' = Chunks
  /\ UNCHANGED <<chunk, runner, commits, announced, crashes>>

\* finalizeJob: the compare-and-set on `running`.
CancelBulkJob ==
  /\ job.status = "running"
  /\ job' = [job EXCEPT !.status = "cancelled"]
  /\ UNCHANGED <<chunk, due, runner, commits, announced, crashes>>

(***************************************************************************)
(* runBulkChunk: look at the job, claim the chunk, run its transaction,    *)
(* fold the outcome into the job, finalize the job after the last chunk.   *)
(***************************************************************************)
Deliver(r, c) ==
  /\ runner[r].step = "idle"
  /\ c \in due
  /\ due' = due \ {c}
  /\ runner' = IF job.status = "running"
                 THEN [runner EXCEPT ![r] = [Idle EXCEPT !.step = "claim", !.chunk = c]]
                 ELSE runner
  /\ UNCHANGED <<job, chunk, commits, announced, crashes>>

Claimable(c) == \/ chunk[c].status = "pending"
                \/ chunk[c].status = "running" /\ chunk[c].stale

\* Variant: attempts are not limited.
NextStep_Unlimited(attempts) == "run"

\* A chunk claimed too often is failed without running it.
NextStep(attempts) == IF attempts > MaxAttempts THEN "complete" ELSE "run"

ClaimChunk(r, c) ==
  LET attempts == chunk[c].attempts + 1
      next == NextStep(attempts)
  IN
  /\ At(r, "claim", c)
  /\ IF Claimable(c)
       THEN /\ chunk' = [chunk EXCEPT ![c].status = "running", ![c].stale = FALSE,
                                      ![c].attempts = attempts]
            /\ IF next = "run" THEN Go(r, "run")
                 ELSE GoComplete(r, "failed", ItemsOf[c])
       ELSE Stop(r) /\ UNCHANGED chunk
  /\ UNCHANGED <<job, due, commits, announced, crashes>>

\* The batch transaction commits, with the items in `bad` refused.
RunChunk(r, c) ==
  /\ At(r, "run", c)
  /\ \E bad \in SUBSET ItemsOf[c] : GoComplete(r, "completed", bad)
  /\ commits' = [commits EXCEPT ![c] = @ + 1]
  /\ UNCHANGED <<job, chunk, due, announced, crashes>>

\* The batch transaction rolls back.
RollBack(r, c) ==
  /\ At(r, "run", c)
  /\ Go(r, "release")
  /\ UNCHANGED <<job, chunk, due, commits, announced, crashes>>

\* The claim is given up and the error rethrown: the queue retries the event,
\* unless its attempts are exhausted.
ReleaseChunk(r, c) ==
  /\ At(r, "release", c)
  /\ chunk' = IF chunk[c].status = "running"
                THEN [chunk EXCEPT ![c].status = "pending", ![c].stale = FALSE]
                ELSE chunk
  /\ Stop(r)
  /\ due' \in {due, due \union {c}}
  /\ UNCHANGED <<job, commits, announced, crashes>>

\* Variant: a duplicate completion is counted again.
Completable_Always(c) == TRUE

Completable(c) == chunk[c].status = "running"

\* completeChunk, one transaction; the runner goes on when the job it returns is
\* running and full.
CompleteChunk(r, c) ==
  LET bad == runner[r].failures IN
  /\ At(r, "complete", c)
  /\ IF Completable(c)
       THEN /\ chunk' = [chunk EXCEPT ![c].status = runner[r].outcome, ![c].failures = bad]
            /\ job' = [job EXCEPT !.completedChunks = @ + 1, !.failed = @ + Cardinality(bad),
                                  !.succeeded = @ + Cardinality(ItemsOf[c] \ bad)]
       ELSE UNCHANGED <<chunk, job>>
  /\ IF job'.status = "running" /\ job'.completedChunks >= Cardinality(Chunks)
       THEN Go(r, "finalize") ELSE Stop(r)
  /\ UNCHANGED <<due, commits, announced, crashes>>

\* Variant: the finalizer does not check that the job still runs.
Finalize_Unguarded ==
  /\ job' = [job EXCEPT !.status = "completed"]
  /\ announced' = Append(announced, [succeeded |-> job.succeeded, failed |-> job.failed])

\* The compare-and-set and the event commit together.
Finalize ==
  /\ job.status = "running"
  /\ job' = [job EXCEPT !.status = "completed"]
  /\ announced' = Append(announced, [succeeded |-> job.succeeded, failed |-> job.failed])

FinalizeIfDone(r) ==
  /\ runner[r].step = "finalize"
  /\ Finalize \/ (job.status # "running" /\ UNCHANGED <<job, announced>>)
  /\ Stop(r)
  /\ UNCHANGED <<chunk, due, commits, crashes>>

-------------------------------------------------------------------------------
(***************************************************************************)
(* resumeStalledBulkJobs, and what it is there for.                        *)
(***************************************************************************)
SweepFinalize ==
  /\ job.completedChunks >= Cardinality(Chunks)
  /\ Finalize
  /\ UNCHANGED <<chunk, due, runner, commits, crashes>>

\* Variant: only chunks that nobody ever claimed are nudged.
SweepNudge_PendingOnly(c) ==
  /\ job.status = "running"
  /\ chunk[c].status = "pending"
  /\ due' = due \union {c}
  /\ UNCHANGED <<job, chunk, runner, commits, announced, crashes>>

SweepNudge(c) ==
  /\ job.status = "running"
  /\ Claimable(c)
  /\ due' = due \union {c}
  /\ UNCHANGED <<job, chunk, runner, commits, announced, crashes>>

\* Five minutes pass since the claim, whether its owner is dead or only slow.
ClaimAges(c) ==
  /\ chunk[c].status = "running" /\ ~chunk[c].stale
  /\ chunk' = [chunk EXCEPT ![c].stale = TRUE]
  /\ UNCHANGED <<job, due, runner, commits, announced, crashes>>

\* The event is redelivered, or dropped after its last attempt.
Crash(r, c) ==
  /\ runner[r].chunk = c
  /\ crashes < MaxCrashes
  /\ crashes' = crashes + 1
  /\ Stop(r)
  /\ due' \in {due, due \union {c}}
  /\ UNCHANGED <<job, chunk, commits, announced>>

Lose(c) ==
  /\ c \in due
  /\ crashes < MaxCrashes
  /\ crashes' = crashes + 1
  /\ due' = due \ {c}
  /\ UNCHANGED <<job, chunk, runner, commits, announced>>

Run(r, c) == \/ ClaimChunk(r, c) \/ RunChunk(r, c) \/ RollBack(r, c)
             \/ ReleaseChunk(r, c) \/ CompleteChunk(r, c)

Next ==
  \/ StartBulkJob \/ CancelBulkJob \/ SweepFinalize
  \/ \E c \in Chunks : SweepNudge(c) \/ ClaimAges(c) \/ Lose(c)
  \/ \E r \in Runners, c \in Chunks : Deliver(r, c) \/ Run(r, c) \/ Crash(r, c)
  \/ \E r \in Runners : FinalizeIfDone(r)

Spec == Init /\ [][Next]_vars

(***************************************************************************)
(* A consumer that does not crash goes on; the sweep runs on an interval;  *)
(* time passes; a consumer that keeps coming back to the queue is given    *)
(* every event that stays in it.                                           *)
(***************************************************************************)
Fairness ==
  /\ \A r \in Runners :
       /\ WF_vars(\E c \in Chunks : Run(r, c))
       /\ WF_vars(FinalizeIfDone(r))
  /\ WF_vars(SweepFinalize)
  /\ \A c \in Chunks :
       /\ WF_vars(SweepNudge(c)) /\ WF_vars(ClaimAges(c))
       /\ SF_vars(\E r \in Runners : Deliver(r, c))

FairSpec == Spec /\ Fairness

-------------------------------------------------------------------------------
TypeOK ==
  /\ job \in Job
  /\ chunk \in [Chunks -> Chunk]
  /\ due \subseteq Chunks
  /\ runner \in [Runners -> Runner]
  /\ commits \in [Chunks -> Nat]
  /\ announced \in Seq([succeeded : Nat, failed : Nat])
  /\ crashes \in Nat

\* The job's counters are those of its settled chunks: no redelivery, takeover of a
\* slow consumer's claim, release by the wrong consumer or crash counts a chunk
\* twice or loses one.
CountersExact ==
  /\ job.completedChunks = Cardinality(Settled)
  /\ job.failed = Cardinality(FailedItems)
  /\ job.succeeded = Cardinality(SettledItems \ FailedItems)

\* bulk-jobs.ts: "exactly one competing finalizer wins and the completed event is
\* emitted once", and only for a job that accounts for every item.
AnnouncedOnce ==
  /\ job.status # "completed" => announced = <<>>
  /\ job.status = "completed" =>
       /\ announced = <<[succeeded |-> job.succeeded, failed |-> job.failed]>>
       /\ job.succeeded + job.failed = Cardinality(Items)

\* The report tells the truth about success: a chunk recorded as completed ran, and
\* a chunk is never run more often than BULK_CHUNK_MAX_ATTEMPTS.
RunsAccounted ==
  \A c \in Chunks : /\ chunk[c].status = "completed" => commits[c] > 0
                    /\ commits[c] <= MaxAttempts

\* "a crash anywhere resumes via the stall sweep": every job ends.
JobEnds == job.status = "running" ~> job.status \in {"completed", "cancelled"}

===============================================================================
