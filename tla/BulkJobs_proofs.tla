---------------------------- MODULE BulkJobs_proofs ----------------------------
(***************************************************************************)
(* A bulk job's accounting, for every partition of any items into chunks,  *)
(* any number of consumers and any number of crashes: the counters are     *)
(* exact, and the job is announced at most once, with all items counted.   *)
(***************************************************************************)
EXTENDS BulkJobs, FiniteSetTheorems, TLAPS

LEMMA TypeInit == Init => TypeOK
  BY DEF Init, TypeOK, Job, Chunk, Runner, Idle

LEMMA IdleType == Idle \in Runner
  BY DEF Idle, Runner

LEMMA StepType ==
  ASSUME NEW w \in Runner,
         NEW step \in {"idle", "claim", "run", "release", "complete", "finalize"}
  PROVE  [w EXCEPT !.step = step] \in Runner
  BY DEF Runner

LEMMA GoType ==
  ASSUME runner \in [Runners -> Runner], NEW r \in Runners,
         NEW step \in {"idle", "claim", "run", "release", "complete", "finalize"}, Go(r, step)
  PROVE  runner' \in [Runners -> Runner]
BY StepType DEF Go

LEMMA ItemsOfType == \A c \in Chunks : ItemsOf[c] \in SUBSET Items /\ IsFiniteSet(ItemsOf[c])
<1> TAKE c \in Chunks
<1>1. ItemsOf[c] \in SUBSET Items
  BY ItemsAssumption
<1> QED BY <1>1, ItemsAssumption, FS_Subset

LEMMA CompleteType ==
  ASSUME TypeOK, NEW r \in Runners, NEW outcome \in {"completed", "failed"},
         NEW bad \in SUBSET Items, GoComplete(r, outcome, bad)
  PROVE  runner' \in [Runners -> Runner]
<1>1. [step |-> "complete", chunk |-> runner[r].chunk, outcome |-> outcome,
       failures |-> bad] \in Runner
  BY DEF TypeOK, Runner
<1> QED BY <1>1 DEF TypeOK, GoComplete

LEMMA CountedType ==
  ASSUME NEW j \in Job, NEW m \in Nat, NEW n \in Nat
  PROVE  [j EXCEPT !.completedChunks = @ + 1, !.failed = @ + m, !.succeeded = @ + n] \in Job
<1> DEFINE k == j.completedChunks + 1
           f == j.failed + m
           s == j.succeeded + n
<1>1. k \in Nat /\ f \in Nat /\ s \in Nat
  BY DEF Job
<1> HIDE DEF k, f, s
<1>2. [j EXCEPT !.completedChunks = k, !.failed = f, !.succeeded = s] \in Job
  BY <1>1 DEF Job
<1> QED BY <1>2 DEF k, f, s

LEMMA FinishedType ==
  ASSUME NEW j \in Job PROVE [j EXCEPT !.status = "completed"] \in Job
  BY DEF Job

LEMMA OutcomeType ==
  ASSUME NEW w \in Chunk, NEW s \in {"completed", "failed"}, NEW bad \in SUBSET Items
  PROVE  [w EXCEPT !.status = s, !.failures = bad] \in Chunk
  BY DEF Chunk

LEMMA TypeStep == TypeOK /\ [Next]_vars => TypeOK'
<1> SUFFICES ASSUME TypeOK, [Next]_vars PROVE TypeOK'
  OBVIOUS
<1> USE DEF TypeOK
<1>1. CASE StartBulkJob
  BY <1>1 DEF StartBulkJob, Job
<1>2. CASE CancelBulkJob
  BY <1>2 DEF CancelBulkJob, Job
<1>3. ASSUME NEW r \in Runners, NEW c \in Chunks, Deliver(r, c) PROVE TypeOK'
  <2>1. [Idle EXCEPT !.step = "claim", !.chunk = c] \in Runner
    BY DEF Idle, Runner
  <2> QED BY <1>3, <2>1 DEF Deliver
<1>4. ASSUME NEW r \in Runners, NEW c \in Chunks, ClaimChunk(r, c) PROVE TypeOK'
  <2> DEFINE n == chunk[c].attempts + 1
             next == NextStep(n)
  <2>1. n \in Nat /\ next \in {"run", "complete"}
    BY DEF Chunk, NextStep
  <2> HIDE DEF n, next
  <2>2. [chunk EXCEPT ![c].status = "running", ![c].stale = FALSE, ![c].attempts = n]
          \in [Chunks -> Chunk]
    BY <2>1, ZenonT(40) DEF Chunk
  <2>3. Go(r, "run") => runner' \in [Runners -> Runner]
    BY GoType
  <2>4. GoComplete(r, "failed", ItemsOf[c]) => runner' \in [Runners -> Runner]
    BY CompleteType, ItemsOfType
  <2>5. Stop(r) => runner' \in [Runners -> Runner]
    BY IdleType DEF Stop
  <2> QED BY <1>4, <2>2, <2>3, <2>4, <2>5 DEF ClaimChunk, n, next
<1>5. ASSUME NEW r \in Runners, NEW c \in Chunks, RunChunk(r, c) PROVE TypeOK'
  <2>1. PICK bad \in SUBSET ItemsOf[c] :
          GoComplete(r, "completed", bad)
    BY <1>5 DEF RunChunk
  <2>2. runner' \in [Runners -> Runner]
    BY <2>1, ItemsOfType, CompleteType
  <2> QED BY <1>5, <2>2 DEF RunChunk
<1>6. ASSUME NEW r \in Runners, NEW c \in Chunks, RollBack(r, c) PROVE TypeOK'
  BY <1>6, StepType DEF RollBack, Go
<1>7. ASSUME NEW r \in Runners, NEW c \in Chunks, ReleaseChunk(r, c) PROVE TypeOK'
  <2> DEFINE freed == [chunk[c] EXCEPT !.status = "pending", !.stale = FALSE]
  <2>1. [chunk EXCEPT ![c].status = "pending", ![c].stale = FALSE] \in [Chunks -> Chunk]
    <3>1. freed \in Chunk
      BY DEF Chunk
    <3>2. [chunk EXCEPT ![c].status = "pending", ![c].stale = FALSE] = [chunk EXCEPT ![c] = freed]
      OBVIOUS
    <3> HIDE DEF freed
    <3> QED BY <3>1, <3>2
  <2>2. due' \subseteq Chunks
    BY <1>7 DEF ReleaseChunk
  <2> QED BY <1>7, <2>1, <2>2, IdleType DEF ReleaseChunk, Stop
<1>8. ASSUME NEW r \in Runners, NEW c \in Chunks, CompleteChunk(r, c) PROVE TypeOK'
  <2> DEFINE bad == runner[r].failures
  <2>1. bad \in SUBSET Items /\ runner[r].outcome \in {"completed", "failed"}
    BY DEF Runner
  <2>2. ItemsOf[c] \ bad \subseteq Items
    BY ItemsOfType
  <2>3. IsFiniteSet(bad) /\ IsFiniteSet(ItemsOf[c] \ bad)
    BY <2>1, <2>2, ItemsAssumption, FS_Subset
  <2>4. Cardinality(bad) \in Nat /\ Cardinality(ItemsOf[c] \ bad) \in Nat
    BY <2>3, FS_CardinalityType
  <2>5. Completable(c) => chunk' \in [Chunks -> Chunk]
    <3>1. [chunk[c] EXCEPT !.status = runner[r].outcome, !.failures = bad] \in Chunk
      BY <2>1, OutcomeType
    <3> QED BY <1>8, <3>1 DEF CompleteChunk
  <2>6. Completable(c) => job' \in Job
    <3> HIDE DEF bad
    <3>1. [job EXCEPT !.completedChunks = @ + 1, !.failed = @ + Cardinality(bad),
                      !.succeeded = @ + Cardinality(ItemsOf[c] \ bad)] \in Job
      BY <2>4, CountedType
    <3> QED BY <1>8, <3>1 DEF CompleteChunk, bad
  <2>7. chunk' \in [Chunks -> Chunk] /\ job' \in Job
    BY <1>8, <2>5, <2>6 DEF CompleteChunk
  <2>8. runner' \in [Runners -> Runner]
    <3>1. Go(r, "finalize") => runner' \in [Runners -> Runner]
      BY GoType
    <3>2. Stop(r) => runner' \in [Runners -> Runner]
      BY IdleType DEF Stop
    <3> QED BY <1>8, <3>1, <3>2 DEF CompleteChunk
  <2> QED BY <1>8, <2>7, <2>8 DEF CompleteChunk
<1>9. ASSUME Finalize PROVE job' \in Job /\ announced' \in Seq([succeeded : Nat, failed : Nat])
  <2>1. [succeeded |-> job.succeeded, failed |-> job.failed] \in [succeeded : Nat, failed : Nat]
    BY DEF Job
  <2>2. job' \in Job
    BY <1>9, FinishedType DEF Finalize
  <2>3. announced' = Append(announced, [succeeded |-> job.succeeded, failed |-> job.failed])
    BY <1>9 DEF Finalize
  <2> QED BY <2>1, <2>2, <2>3
<1>10. CASE SweepFinalize
  BY <1>9, <1>10 DEF SweepFinalize
<1>11. ASSUME NEW r \in Runners, FinalizeIfDone(r) PROVE TypeOK'
  BY <1>9, <1>11, IdleType DEF FinalizeIfDone, Stop
<1>12. ASSUME NEW c \in Chunks, SweepNudge(c) PROVE TypeOK'
  BY <1>12 DEF SweepNudge
<1>13. ASSUME NEW c \in Chunks, ClaimAges(c) PROVE TypeOK'
  BY <1>13 DEF ClaimAges, Chunk
<1>14. ASSUME NEW c \in Chunks, Lose(c) PROVE TypeOK'
  BY <1>14 DEF Lose
<1>15. ASSUME NEW r \in Runners, NEW c \in Chunks, Crash(r, c) PROVE TypeOK'
  <2>1. runner' \in [Runners -> Runner]
    BY <1>15, IdleType DEF Crash, Stop
  <2>2. due' \subseteq Chunks
    BY <1>15 DEF Crash
  <2> QED BY <1>15, <2>1, <2>2 DEF Crash
<1>16. CASE UNCHANGED vars
  BY <1>16 DEF vars
<1> QED
  BY <1>1, <1>2, <1>3, <1>4, <1>5, <1>6, <1>7, <1>8, <1>10, <1>11, <1>12, <1>13, <1>14,
     <1>15, <1>16 DEF Next, Run

\* Every reachable state is well typed.
THEOREM TypeCorrect == Spec => []TypeOK
  BY TypeInit, TypeStep, PTL DEF Spec

-------------------------------------------------------------------------------
(***************************************************************************)
(* The counters are exact because only the completion that settles a chunk *)
(* counts it, with failures among the chunk's own items; the announcement  *)
(* is complete because only a full job is finalized.                       *)
(***************************************************************************)
FailuresOfOwnItems ==
  /\ \A c \in Chunks : chunk[c].failures \subseteq ItemsOf[c]
  /\ \A r \in Runners, c \in Chunks :
       At(r, "complete", c) => runner[r].failures \subseteq ItemsOf[c]

FinalizedWhenFull ==
  /\ \A r \in Runners : runner[r].step = "finalize" => Settled = Chunks
  /\ job.status = "completed" =>
       /\ Settled = Chunks
       /\ announced = <<[succeeded |-> job.succeeded, failed |-> job.failed]>>
  /\ job.status # "completed" => announced = <<>>

Inv == TypeOK /\ CountersExact /\ FailuresOfOwnItems /\ FinalizedWhenFull

LEMMA InvInit == Init => Inv
<1> SUFFICES ASSUME Init PROVE Inv
  OBVIOUS
<1>1. TypeOK
  BY TypeInit
<1>2. Settled = {}
  BY DEF Init, Settled, Terminal
<1>3. FailedItems = {} /\ SettledItems = {}
  BY <1>2 DEF FailedItems, SettledItems
<1>4. CountersExact
  BY <1>2, <1>3, FS_EmptySet DEF CountersExact, Init
<1>5. FailuresOfOwnItems /\ FinalizedWhenFull
  BY DEF Init, Idle, At, FailuresOfOwnItems, FinalizedWhenFull
<1> QED BY <1>1, <1>4, <1>5 DEF Inv

\* Steps that settle no chunk and do not touch the counters keep them exact.
LEMMA CountersKept ==
  ASSUME CountersExact, Settled' = Settled,
         \A c \in Settled : chunk'[c].failures = chunk[c].failures,
         job'.completedChunks = job.completedChunks, job'.failed = job.failed,
         job'.succeeded = job.succeeded
  PROVE  CountersExact'
<1>1. FailedItems' = FailedItems /\ SettledItems' = SettledItems
  BY DEF FailedItems, SettledItems
<1> QED BY <1>1 DEF CountersExact

LEMMA CardinalityOfUnion ==
  ASSUME NEW S \in SUBSET Items, NEW T \in SUBSET Items, S \cap T = {}
  PROVE  Cardinality(S \cup T) = Cardinality(S) + Cardinality(T)
<1>1. IsFiniteSet(S) /\ IsFiniteSet(T)
  BY ItemsAssumption, FS_Subset
<1>2. Cardinality(S \cap T) = 0
  BY FS_EmptySet
<1>3. Cardinality(S) \in Nat /\ Cardinality(T) \in Nat
  BY <1>1, FS_CardinalityType
<1>4. Cardinality(S \cup T) = Cardinality(S) + Cardinality(T) - Cardinality(S \cap T)
  BY <1>1, FS_Union
<1> QED BY <1>2, <1>3, <1>4

LEMMA CompletionEffect ==
  ASSUME TypeOK, NEW r \in Runners, NEW c \in Chunks, CompleteChunk(r, c), Completable(c)
  PROVE  /\ chunk'[c].status = runner[r].outcome
         /\ chunk'[c].failures = runner[r].failures
         /\ \A d \in Chunks \ {c} : chunk'[d] = chunk[d]
<1> DEFINE bad == runner[r].failures
<1>1. chunk' = [chunk EXCEPT ![c] = [chunk[c] EXCEPT !.status = runner[r].outcome, !.failures = bad]]
  BY DEF CompleteChunk
<1>2. chunk[c] \in Chunk /\ chunk \in [Chunks -> Chunk]
  BY DEF TypeOK
<1> QED BY <1>1, <1>2 DEF Chunk

\* The completion that settles a chunk counts exactly its items.
LEMMA CountersAdvance ==
  ASSUME Inv, NEW r \in Runners, NEW c \in Chunks, CompleteChunk(r, c), Completable(c)
  PROVE  Settled' = Settled \cup {c} /\ CountersExact'
<1> DEFINE bad == runner[r].failures
<1>1. bad \subseteq ItemsOf[c] /\ runner[r].outcome \in Terminal
  BY DEF Inv, TypeOK, Runner, CompleteChunk, FailuresOfOwnItems, Terminal
<1>4. /\ chunk'[c].status = runner[r].outcome
      /\ chunk'[c].failures = bad
      /\ \A d \in Chunks \ {c} : chunk'[d] = chunk[d]
  BY CompletionEffect DEF Inv
<1>5. c \notin Settled
  BY DEF Completable, Settled, Terminal
<1>6. Settled' = Settled \cup {c}
  BY <1>1, <1>4, <1>5 DEF Settled
<1>7. SettledItems' = SettledItems \cup ItemsOf[c]
  BY <1>6 DEF SettledItems
<1>8. FailedItems' = FailedItems \cup bad
  BY <1>4, <1>5, <1>6 DEF FailedItems, Settled
<1>9. Settled \subseteq Chunks /\ ItemsOf[c] \in SUBSET Items
  BY ItemsOfType DEF Settled
<1>10. SettledItems \cap ItemsOf[c] = {} /\ SettledItems \subseteq Items
  BY <1>5, <1>9, ItemsAssumption DEF SettledItems
<1>11. FailedItems \subseteq SettledItems
  BY <1>9 DEF Inv, FailuresOfOwnItems, FailedItems, SettledItems
<1>12. SettledItems' \ FailedItems' = (SettledItems \ FailedItems) \cup (ItemsOf[c] \ bad)
  BY <1>1, <1>7, <1>8, <1>10, <1>11
<1>13. Cardinality(FailedItems') = Cardinality(FailedItems) + Cardinality(bad)
  <2>1. FailedItems \in SUBSET Items /\ bad \in SUBSET Items /\ FailedItems \cap bad = {}
    BY <1>1, <1>9, <1>10, <1>11
  <2> HIDE DEF bad
  <2> QED BY <1>8, <2>1, CardinalityOfUnion
<1>14. Cardinality(SettledItems' \ FailedItems')
         = Cardinality(SettledItems \ FailedItems) + Cardinality(ItemsOf[c] \ bad)
  <2> DEFINE S == SettledItems \ FailedItems
             T == ItemsOf[c] \ bad
  <2>1. S \in SUBSET Items /\ T \in SUBSET Items /\ S \cap T = {}
    BY <1>9, <1>10
  <2> HIDE DEF S, T
  <2>2. Cardinality(S \cup T) = Cardinality(S) + Cardinality(T)
    BY <2>1, CardinalityOfUnion
  <2> QED BY <1>12, <2>2 DEF S, T
<1>15. Cardinality(Settled') = Cardinality(Settled) + 1
  BY <1>5, <1>6, <1>9, ItemsAssumption, FS_Subset, FS_AddElement
<1>16. /\ job'.completedChunks = job.completedChunks + 1
       /\ job'.failed = job.failed + Cardinality(bad)
       /\ job'.succeeded = job.succeeded + Cardinality(ItemsOf[c] \ bad)
  <2>1. job \in Job
    BY DEF Inv, TypeOK
  <2>2. job' = [job EXCEPT !.completedChunks = @ + 1, !.failed = @ + Cardinality(bad),
                           !.succeeded = @ + Cardinality(ItemsOf[c] \ bad)]
    BY DEF CompleteChunk
  <2> HIDE DEF bad
  <2> QED BY <2>1, <2>2 DEF Job
<1>17. CountersExact'
  BY <1>13, <1>14, <1>15, <1>16 DEF Inv, CountersExact
<1> QED BY <1>6, <1>17

\* A job whose counter is full has all its chunks settled.
LEMMA FullWhenSettled ==
  CountersExact /\ job.completedChunks >= Cardinality(Chunks) => Settled = Chunks
<1> SUFFICES ASSUME CountersExact, job.completedChunks >= Cardinality(Chunks)
             PROVE  Settled = Chunks
  OBVIOUS
<1>1. Settled \in SUBSET Chunks
  BY DEF Settled
<1>2. /\ IsFiniteSet(Settled) /\ Cardinality(Settled) <= Cardinality(Chunks)
      /\ Cardinality(Chunks) = Cardinality(Settled) => Chunks = Settled
  BY <1>1, ItemsAssumption, FS_Subset
<1>3. Cardinality(Settled) \in Nat /\ Cardinality(Chunks) \in Nat
  BY <1>2, ItemsAssumption, FS_CardinalityType
<1> QED BY <1>2, <1>3 DEF CountersExact

\* What a consumer's moves change, and what they leave alone.
LEMMA GoEffect ==
  ASSUME TypeOK, NEW r \in Runners, NEW step, Go(r, step)
  PROVE  /\ \A q \in Runners \ {r} : runner'[q] = runner[q]
         /\ runner'[r].step = step /\ runner'[r].chunk = runner[r].chunk
         /\ runner'[r].failures = runner[r].failures
  BY DEF TypeOK, Go, Runner

LEMMA CompleteEffect ==
  ASSUME TypeOK, NEW r \in Runners, NEW outcome, NEW bad, GoComplete(r, outcome, bad)
  PROVE  /\ \A q \in Runners \ {r} : runner'[q] = runner[q]
         /\ runner'[r].step = "complete" /\ runner'[r].chunk = runner[r].chunk
         /\ runner'[r].failures = bad /\ runner'[r].outcome = outcome
  BY DEF TypeOK, GoComplete

LEMMA StopEffect ==
  ASSUME TypeOK, NEW r \in Runners, Stop(r)
  PROVE  /\ \A q \in Runners \ {r} : runner'[q] = runner[q]
         /\ runner'[r].step = "idle"
  BY DEF TypeOK, Stop, Idle

LEMMA InvStep == Inv /\ [Next]_vars => Inv'
<1> SUFFICES ASSUME Inv, [Next]_vars PROVE Inv'
  OBVIOUS
<1>1. TypeOK /\ CountersExact /\ FailuresOfOwnItems /\ FinalizedWhenFull /\ TypeOK'
  BY TypeStep DEF Inv
<1> USE DEF TypeOK
<1>2. CASE StartBulkJob
  <2>1. job'.completedChunks = job.completedChunks /\ job'.failed = job.failed
          /\ job'.succeeded = job.succeeded /\ job'.status = "running" /\ job.status = "none"
    BY <1>1, <1>2 DEF StartBulkJob, Job
  <2> QED BY <1>1, <1>2, <2>1, CountersKept
       DEF StartBulkJob, Inv, FailuresOfOwnItems, FinalizedWhenFull, Settled, At
<1>3. CASE CancelBulkJob
  <2>1. job'.completedChunks = job.completedChunks /\ job'.failed = job.failed
          /\ job'.succeeded = job.succeeded /\ job'.status = "cancelled" /\ job.status = "running"
    BY <1>1, <1>3 DEF CancelBulkJob, Job
  <2> QED BY <1>1, <1>3, <2>1, CountersKept
       DEF CancelBulkJob, Inv, FailuresOfOwnItems, FinalizedWhenFull, Settled, At
<1>4. ASSUME NEW r \in Runners, NEW c \in Chunks, Deliver(r, c) PROVE Inv'
  BY <1>1, <1>4, CountersKept
     DEF Deliver, Idle, Inv, FailuresOfOwnItems, FinalizedWhenFull, Settled, At
<1>5. ASSUME NEW r \in Runners, NEW c \in Chunks, ClaimChunk(r, c) PROVE Inv'
  <2>1. Settled' = Settled /\ \A d \in Chunks : chunk'[d].failures = chunk[d].failures
    <3>1. CASE Claimable(c)
      <4>1. /\ \A d \in Chunks \ {c} : chunk'[d] = chunk[d]
            /\ chunk'[c].status = "running" /\ chunk'[c].failures = chunk[c].failures
        BY <1>1, <1>5, <3>1 DEF ClaimChunk, Chunk
      <4> QED BY <3>1, <4>1 DEF Claimable, Settled, Terminal
    <3>2. CASE ~Claimable(c)
      BY <1>5, <3>2 DEF ClaimChunk, Settled
    <3> QED BY <3>1, <3>2
  <2>2. CountersExact'
    BY <1>1, <1>5, <2>1, CountersKept DEF ClaimChunk, Settled
  <2>3. At(r, "claim", c) /\ (Stop(r) \/ Go(r, "run") \/ GoComplete(r, "failed", ItemsOf[c]))
    BY <1>5 DEF ClaimChunk
  <2>4. \A q \in Runners, d \in Chunks :
          At(q, "complete", d)' => runner'[q].failures \subseteq ItemsOf[d]
    <3>1. CASE Stop(r)
      BY <1>1, <3>1, StopEffect DEF FailuresOfOwnItems, At
    <3>2. CASE Go(r, "run")
      <4>1. (\A q \in Runners \ {r} : runner'[q] = runner[q]) /\ runner'[r].step = "run"
        BY <1>1, <3>2, GoEffect
      <4> QED BY <1>1, <4>1 DEF FailuresOfOwnItems, At
    <3>3. CASE GoComplete(r, "failed", ItemsOf[c])
      <4>1. /\ \A q \in Runners \ {r} : runner'[q] = runner[q]
            /\ runner'[r].chunk = c /\ runner'[r].failures = ItemsOf[c]
        BY <1>1, <2>3, <3>3, CompleteEffect DEF At
      <4> QED BY <1>1, <4>1 DEF FailuresOfOwnItems, At
    <3> QED BY <2>3, <3>1, <3>2, <3>3
  <2>5. \A q \in Runners : runner'[q].step = "finalize" => runner[q].step = "finalize"
    BY <1>1, <2>3, StopEffect, GoEffect, CompleteEffect
  <2>6. UNCHANGED <<job, announced>>
    BY <1>5 DEF ClaimChunk
  <2>7. FailuresOfOwnItems'
    BY <2>1, <2>4 DEF Inv, FailuresOfOwnItems
  <2>8. FinalizedWhenFull'
    BY <2>1, <2>5, <2>6 DEF Inv, FinalizedWhenFull
  <2> QED BY <1>1, <2>2, <2>6, <2>7, <2>8 DEF Inv
<1>6. ASSUME NEW r \in Runners, NEW c \in Chunks, RunChunk(r, c) PROVE Inv'
  <2>0. PICK bad \in SUBSET ItemsOf[c] : GoComplete(r, "completed", bad)
    BY <1>6 DEF RunChunk
  <2>1. \A q \in Runners, d \in Chunks :
          At(q, "complete", d)' => runner'[q].failures \subseteq ItemsOf[d]
    <3>1. /\ \A q \in Runners \ {r} : runner'[q] = runner[q]
          /\ runner'[r].chunk = c /\ runner'[r].failures = bad
      BY <1>1, <1>6, <2>0, CompleteEffect DEF RunChunk, At
    <3> QED BY <1>1, <3>1 DEF FailuresOfOwnItems, At
  <2>2. \A q \in Runners : runner'[q].step = "finalize" => runner[q].step = "finalize"
    BY <1>1, <2>0, CompleteEffect
  <2> QED BY <1>1, <1>6, <2>1, <2>2, CountersKept
       DEF RunChunk, Inv, FailuresOfOwnItems, FinalizedWhenFull, Settled
<1>7. ASSUME NEW r \in Runners, NEW c \in Chunks, RollBack(r, c) PROVE Inv'
  BY <1>1, <1>7, CountersKept
     DEF RollBack, Go, Inv, FailuresOfOwnItems, FinalizedWhenFull, Settled, At, Runner
<1>8. ASSUME NEW r \in Runners, NEW c \in Chunks, ReleaseChunk(r, c) PROVE Inv'
  <2>1. Settled' = Settled /\ \A d \in Chunks : chunk'[d].failures = chunk[d].failures
    BY <1>1, <1>8 DEF ReleaseChunk, Settled, Terminal, Chunk
  <2> QED BY <1>1, <1>8, <2>1, CountersKept
       DEF ReleaseChunk, Stop, Idle, Inv, FailuresOfOwnItems, FinalizedWhenFull, At, Settled
<1>9. ASSUME NEW r \in Runners, NEW c \in Chunks, CompleteChunk(r, c) PROVE Inv'
  <2>1. CountersExact' /\ Settled \subseteq Settled'
          /\ \A d \in Chunks : chunk'[d].failures \subseteq ItemsOf[d]
    <3>1. CASE Completable(c)
      <4>1. \A d \in Chunks : chunk'[d].failures \subseteq ItemsOf[d]
        <5>1. runner[r].failures \subseteq ItemsOf[c]
          BY <1>1, <1>9 DEF CompleteChunk, FailuresOfOwnItems
        <5>2. /\ \A d \in Chunks \ {c} : chunk'[d] = chunk[d]
              /\ chunk'[c].failures = runner[r].failures
          BY <1>1, <1>9, <3>1, CompletionEffect
        <5> QED BY <1>1, <5>1, <5>2 DEF FailuresOfOwnItems
      <4> QED BY <1>9, <3>1, <4>1, CountersAdvance
    <3>2. CASE ~Completable(c)
      BY <1>1, <1>9, <3>2, CountersKept DEF CompleteChunk, FailuresOfOwnItems, Settled
    <3> QED BY <3>1, <3>2
  <2>2. Settled' \subseteq Chunks
    BY DEF Settled
  <2>3. \A q \in Runners : runner'[q].step = "finalize" => Settled' = Chunks
    <3>1. CASE job'.status = "running" /\ job'.completedChunks >= Cardinality(Chunks)
      <4>1. (Settled = Chunks)'
        <5>1. (CountersExact /\ job.completedChunks >= Cardinality(Chunks))'
                => (Settled = Chunks)'
          BY FullWhenSettled, PTL
        <5> QED BY <2>1, <3>1, <5>1
      <4> QED BY <4>1
    <3>2. CASE ~(job'.status = "running" /\ job'.completedChunks >= Cardinality(Chunks))
      <4>1. \A q \in Runners : runner'[q].step = "finalize" => runner[q].step = "finalize"
        BY <1>1, <1>9, <3>2, StopEffect DEF CompleteChunk
      <4> QED BY <1>1, <2>1, <2>2, <4>1 DEF FinalizedWhenFull
    <3> QED BY <3>1, <3>2
  <2>4. \A q \in Runners, d \in Chunks :
          At(q, "complete", d)' => runner'[q].failures \subseteq ItemsOf[d]
    <3>1. Go(r, "finalize") \/ Stop(r)
      BY <1>9 DEF CompleteChunk
    <3>2. /\ \A q \in Runners \ {r} : runner'[q] = runner[q]
          /\ runner'[r].step # "complete"
      BY <1>1, <3>1, GoEffect, StopEffect
    <3> QED BY <1>1, <3>2 DEF FailuresOfOwnItems, At
  <2>5. job'.status = job.status /\ announced' = announced
    BY <1>1, <1>9 DEF CompleteChunk, Job
  <2>6. job.status = "completed" => job' = job
    BY <1>1, <1>9 DEF CompleteChunk, FinalizedWhenFull, Settled, Completable, Terminal
  <2> QED BY <1>1, <2>1, <2>2, <2>3, <2>4, <2>5, <2>6
       DEF Inv, FailuresOfOwnItems, FinalizedWhenFull
<1>10. ASSUME Finalize, Settled = Chunks, UNCHANGED chunk
       PROVE  CountersExact' /\ Settled' = Chunks /\ job'.status = "completed"
              /\ announced' = <<[succeeded |-> job'.succeeded, failed |-> job'.failed]>>
  <2>1. /\ job'.completedChunks = job.completedChunks /\ job'.failed = job.failed
        /\ job'.succeeded = job.succeeded /\ job'.status = "completed"
        /\ job.status = "running"
    BY <1>1, <1>10 DEF Finalize, Job
  <2>2. announced = <<>>
    BY <1>1, <2>1 DEF FinalizedWhenFull
  <2>3. announced' = <<[succeeded |-> job.succeeded, failed |-> job.failed]>>
    BY <1>10, <2>2 DEF Finalize
  <2> QED BY <1>1, <1>10, <2>1, <2>3, CountersKept DEF Settled
<1>11. CASE SweepFinalize
  <2>1. Settled = Chunks
    BY <1>1, <1>11, FullWhenSettled DEF SweepFinalize
  <2>2. CountersExact' /\ Settled' = Chunks /\ job'.status = "completed"
          /\ announced' = <<[succeeded |-> job'.succeeded, failed |-> job'.failed]>>
    BY <1>10, <1>11, <2>1 DEF SweepFinalize
  <2> QED BY <1>1, <1>11, <2>2
       DEF SweepFinalize, Inv, FailuresOfOwnItems, FinalizedWhenFull, At
<1>12. ASSUME NEW r \in Runners, FinalizeIfDone(r) PROVE Inv'
  <2>1. Settled = Chunks /\ UNCHANGED chunk
    BY <1>1, <1>12 DEF FinalizeIfDone, FinalizedWhenFull
  <2>2. \A q \in Runners : runner'[q].step # "idle" => runner'[q] = runner[q]
    BY <1>1, <1>12 DEF FinalizeIfDone, Stop, Idle
  <2>3. FailuresOfOwnItems'
    BY <1>1, <2>1, <2>2 DEF FailuresOfOwnItems, At
  <2>4. CASE Finalize
    BY <1>1, <1>10, <2>1, <2>3, <2>4 DEF Inv, FinalizedWhenFull
  <2>5. CASE UNCHANGED <<job, announced>>
    BY <1>1, <2>1, <2>3, <2>5, CountersKept DEF Inv, FinalizedWhenFull, Settled
  <2> QED BY <1>12, <2>4, <2>5 DEF FinalizeIfDone
<1>13. ASSUME NEW c \in Chunks, SweepNudge(c) \/ Lose(c) PROVE Inv'
  BY <1>1, <1>13, CountersKept
     DEF SweepNudge, Lose, Inv, FailuresOfOwnItems, FinalizedWhenFull, Settled, At
<1>14. ASSUME NEW c \in Chunks, ClaimAges(c) PROVE Inv'
  <2>1. Settled' = Settled /\ \A d \in Chunks : chunk'[d].failures = chunk[d].failures
    BY <1>1, <1>14 DEF ClaimAges, Settled, Terminal, Chunk
  <2> QED BY <1>1, <1>14, <2>1, CountersKept
       DEF ClaimAges, Inv, FailuresOfOwnItems, FinalizedWhenFull, At, Settled
<1>15. ASSUME NEW r \in Runners, NEW c \in Chunks, Crash(r, c) PROVE Inv'
  BY <1>1, <1>15, CountersKept
     DEF Crash, Stop, Idle, Inv, FailuresOfOwnItems, FinalizedWhenFull, Settled, At
<1>16. CASE UNCHANGED vars
  BY <1>1, <1>16, CountersKept
     DEF vars, Inv, FailuresOfOwnItems, FinalizedWhenFull, Settled, At
<1> QED
  BY <1>2, <1>3, <1>4, <1>5, <1>6, <1>7, <1>8, <1>9, <1>11, <1>12, <1>13, <1>14, <1>15,
     <1>16 DEF Next, Run

LEMMA InvAnnounced == Inv => AnnouncedOnce
<1> SUFFICES ASSUME Inv, job.status = "completed"
             PROVE  job.succeeded + job.failed = Cardinality(Items)
  BY DEF Inv, FinalizedWhenFull, AnnouncedOnce
<1>1. Settled = Chunks
  BY DEF Inv, FinalizedWhenFull
<1>2. SettledItems = Items
  BY <1>1, ItemsAssumption DEF SettledItems
<1>3. FailedItems \subseteq Items
  BY <1>1, <1>2 DEF Inv, FailuresOfOwnItems, FailedItems, SettledItems
<1>4. Cardinality((Items \ FailedItems) \cup FailedItems)
        = Cardinality(Items \ FailedItems) + Cardinality(FailedItems)
  <2> DEFINE S == Items \ FailedItems
  <2>1. S \in SUBSET Items /\ S \cap FailedItems = {}
    OBVIOUS
  <2> HIDE DEF S
  <2>2. Cardinality(S \cup FailedItems) = Cardinality(S) + Cardinality(FailedItems)
    BY <1>3, <2>1, CardinalityOfUnion
  <2> QED BY <2>2 DEF S
<1>5. (Items \ FailedItems) \cup FailedItems = Items
  BY <1>3
<1> QED BY <1>2, <1>4, <1>5 DEF Inv, CountersExact

\* The job's counters are always those of its settled chunks.
THEOREM CountersAlwaysExact == Spec => []CountersExact
<1>1. Inv => CountersExact
  BY DEF Inv
<1> QED BY InvInit, InvStep, <1>1, PTL DEF Spec

\* The job is announced at most once, when it is completed, with all items counted.
THEOREM AnnouncedAtMostOnce == Spec => []AnnouncedOnce
  BY InvInit, InvStep, InvAnnounced, PTL DEF Spec

-------------------------------------------------------------------------------
(***************************************************************************)
(* The runs.  Each attempt of a chunk is either with a consumer that is    *)
(* about to run it, or has committed at most once; so commits and runs     *)
(* under way together never exceed the attempts, nor their limit.          *)
(***************************************************************************)
Running(c) == {r \in Runners : At(r, "run", c)}

RunsBounded(c) ==
  /\ IsFiniteSet(Running(c))
  /\ commits[c] + Cardinality(Running(c)) <= chunk[c].attempts
  /\ commits[c] + Cardinality(Running(c)) <= MaxAttempts

\* Whoever completes a chunk with success has committed it.
SuccessCommitted(c) ==
  /\ chunk[c].status = "completed" => commits[c] > 0
  /\ \A r \in Runners : At(r, "complete", c) /\ runner[r].outcome = "completed" => commits[c] > 0

RunsInv == TypeOK /\ \A c \in Chunks : RunsBounded(c) /\ SuccessCommitted(c)

\* Fewer runs under way, or more attempts, keep the bound.
LEMMA FewerRuns ==
  ASSUME TypeOK, NEW c \in Chunks, RunsBounded(c), chunk[c].attempts <= chunk'[c].attempts,
         chunk'[c].attempts \in Nat, commits'[c] = commits[c], Running(c)' \subseteq Running(c)
  PROVE  RunsBounded(c)'
<1>1. IsFiniteSet(Running(c)') /\ Cardinality(Running(c)') <= Cardinality(Running(c))
  BY FS_Subset DEF RunsBounded
<1>2. Cardinality(Running(c)') \in Nat /\ Cardinality(Running(c)) \in Nat
  BY <1>1, FS_CardinalityType DEF RunsBounded
<1>3. commits[c] \in Nat /\ chunk[c].attempts \in Nat
  BY DEF TypeOK, Chunk
<1> QED BY <1>1, <1>2, <1>3, BoundsAssumption DEF RunsBounded

\* A claim that goes on to run is one more run under way, and one more attempt.
LEMMA OneMoreRun ==
  ASSUME TypeOK, NEW c \in Chunks, RunsBounded(c), NEW r \in Runners, r \notin Running(c),
         chunk'[c].attempts = chunk[c].attempts + 1, chunk[c].attempts + 1 <= MaxAttempts,
         commits'[c] = commits[c], Running(c)' = Running(c) \union {r}
  PROVE  RunsBounded(c)'
<1>1. IsFiniteSet(Running(c)') /\ Cardinality(Running(c)') = Cardinality(Running(c)) + 1
  BY FS_AddElement DEF RunsBounded
<1>2. Cardinality(Running(c)) \in Nat
  BY FS_CardinalityType DEF RunsBounded
<1>3. commits[c] \in Nat /\ chunk[c].attempts \in Nat
  BY DEF TypeOK, Chunk
<1> QED BY <1>1, <1>2, <1>3, BoundsAssumption DEF RunsBounded

\* A commit ends the run that made it.
LEMMA OneCommit ==
  ASSUME TypeOK, NEW c \in Chunks, RunsBounded(c), NEW r \in Running(c), chunk' = chunk,
         commits'[c] = commits[c] + 1, Running(c)' = Running(c) \ {r}
  PROVE  RunsBounded(c)'
<1>1. IsFiniteSet(Running(c)') /\ Cardinality(Running(c)') = Cardinality(Running(c)) - 1
  BY FS_RemoveElement DEF RunsBounded
<1>2. Cardinality(Running(c)) \in Nat
  BY FS_CardinalityType DEF RunsBounded
<1>3. commits[c] \in Nat /\ chunk[c].attempts \in Nat
  BY DEF TypeOK, Chunk
<1> QED BY <1>1, <1>2, <1>3, BoundsAssumption DEF RunsBounded

\* What a step does to the record of a chunk, when it does not run or claim it.
LEMMA QuietRuns ==
  ASSUME RunsInv, TypeOK', NEW c \in Chunks, commits'[c] = commits[c],
         chunk[c].attempts <= chunk'[c].attempts,
         chunk'[c].status = "completed" =>
           \/ chunk[c].status = "completed"
           \/ \E r \in Runners : At(r, "complete", c) /\ runner[r].outcome = "completed",
         \A r \in Runners : At(r, "run", c)' => At(r, "run", c),
         \A r \in Runners : At(r, "complete", c)' /\ runner'[r].outcome = "completed" =>
           At(r, "complete", c) /\ runner[r].outcome = "completed"
  PROVE  RunsBounded(c)' /\ SuccessCommitted(c)'
<1>1. chunk'[c].attempts \in Nat
  BY DEF TypeOK, Chunk
<1>2. Running(c)' \subseteq Running(c)
  BY DEF Running
<1>3. RunsBounded(c)'
  BY <1>1, <1>2, FewerRuns DEF RunsInv
<1>4. SuccessCommitted(c)'
  BY DEF RunsInv, SuccessCommitted
<1> QED BY <1>3, <1>4

LEMMA RunsStep == RunsInv /\ [Next]_vars => RunsInv'
<1> SUFFICES ASSUME RunsInv, [Next]_vars, NEW c \in Chunks PROVE RunsBounded(c)' /\ SuccessCommitted(c)'
  BY TypeStep DEF RunsInv
<1> DEFINE Goal == RunsBounded(c)' /\ SuccessCommitted(c)'
<1>0. TypeOK /\ TypeOK'
  BY TypeStep DEF RunsInv
<1>1. chunk[c] \in Chunk /\ chunk[c].attempts \in Nat
  BY <1>0 DEF TypeOK, Chunk
<1>2. \A r \in Runners : \A next : runner' = [runner EXCEPT ![r] = next] =>
        runner'[r] = next /\ \A q \in Runners \ {r} : runner'[q] = runner[q]
  BY <1>0 DEF TypeOK
<1>3. ASSUME NEW r \in Runners, Stop(r), chunk'[c].status # "completed" \/ chunk'[c].status = chunk[c].status,
             commits'[c] = commits[c], chunk'[c].attempts = chunk[c].attempts
      PROVE  Goal
  <2>1. runner'[r].step = "idle" /\ \A q \in Runners \ {r} : runner'[q] = runner[q]
    BY <1>0, <1>3, StopEffect
  <2> QED BY <1>0, <1>1, <1>3, <2>1, QuietRuns DEF At
<1>4. CASE StartBulkJob \/ CancelBulkJob \/ SweepFinalize \/ UNCHANGED vars
  <2>1. UNCHANGED <<chunk, runner, commits>>
    BY <1>4 DEF StartBulkJob, CancelBulkJob, SweepFinalize, vars
  <2> QED BY <1>0, <1>1, <2>1, QuietRuns DEF At
<1>5. ASSUME NEW d \in Chunks, SweepNudge(d) \/ Lose(d) PROVE Goal
  <2>1. UNCHANGED <<chunk, runner, commits>>
    BY <1>5 DEF SweepNudge, Lose
  <2> QED BY <1>0, <1>1, <2>1, QuietRuns DEF At
<1>6. ASSUME NEW d \in Chunks, ClaimAges(d) PROVE Goal
  <2>1. UNCHANGED <<runner, commits>> /\ chunk'[c].attempts = chunk[c].attempts /\ chunk'[c].status = chunk[c].status
    BY <1>0, <1>6 DEF ClaimAges, TypeOK, Chunk
  <2> QED BY <1>0, <1>1, <2>1, QuietRuns DEF At
<1>7. ASSUME NEW r \in Runners, NEW d \in Chunks, Deliver(r, d) PROVE Goal
  <2>1. UNCHANGED <<chunk, commits>>
    BY <1>7 DEF Deliver
  <2>2. \A q \in Runners : runner'[q] = runner[q] \/ runner'[q].step = "claim"
    <3>1. [Idle EXCEPT !.step = "claim", !.chunk = d].step = "claim"
      BY DEF Idle
    <3> QED BY <1>2, <1>7, <3>1 DEF Deliver
  <2> QED BY <1>0, <1>1, <2>1, <2>2, QuietRuns DEF At
<1>8. ASSUME NEW r \in Runners, NEW d \in Chunks, ClaimChunk(r, d) PROVE Goal
  <2> DEFINE n == chunk[d].attempts + 1
             next == NextStep(n)
  <2>1. At(r, "claim", d) /\ commits' = commits
    BY <1>8 DEF ClaimChunk
  <2>2. CASE ~Claimable(d)
    BY <1>3, <1>8, <2>2 DEF ClaimChunk
  <2>3. CASE Claimable(d)
    <3>1. chunk' = [chunk EXCEPT ![d].status = "running", ![d].stale = FALSE, ![d].attempts = n]
      BY <1>8, <2>3 DEF ClaimChunk
    <3>2. /\ c = d => chunk'[c].status = "running" /\ chunk'[c].attempts = n
          /\ c # d => chunk'[c] = chunk[c]
      BY <1>0, <3>1 DEF TypeOK, Chunk
    <3>3. CASE next = "run"
      <4>1. Go(r, "run") /\ n <= MaxAttempts
        <5>1. n \in Nat
          BY <1>0 DEF TypeOK, Chunk
        <5> HIDE DEF n
        <5>2. n <= MaxAttempts
          BY <3>3, <5>1, BoundsAssumption DEF NextStep
        <5> QED BY <1>8, <2>3, <3>3, <5>2 DEF ClaimChunk, n
      <4>2. /\ \A q \in Runners \ {r} : runner'[q] = runner[q]
            /\ runner'[r].step = "run" /\ runner'[r].chunk = d
        BY <1>0, <2>1, <4>1, GoEffect DEF At
      <4>3. CASE c = d
        <5>1. r \notin Running(c) /\ Running(c)' = Running(c) \union {r}
          BY <2>1, <4>2, <4>3 DEF Running, At
        <5>2. chunk'[c].attempts = chunk[c].attempts + 1 /\ chunk[c].attempts + 1 <= MaxAttempts
          BY <3>2, <4>1, <4>3
        <5>3. RunsBounded(c)'
          BY <1>0, <2>1, <5>1, <5>2, OneMoreRun DEF RunsInv
        <5>4. SuccessCommitted(c)'
          BY <2>1, <3>2, <4>2, <4>3 DEF RunsInv, SuccessCommitted, At
        <5> QED BY <5>3, <5>4
      <4>4. CASE c # d
        BY <1>0, <1>1, <2>1, <3>2, <4>2, <4>4, QuietRuns DEF At
      <4> QED BY <4>3, <4>4
    <3>4. CASE next # "run"
      <4>1. GoComplete(r, "failed", ItemsOf[d])
        BY <1>8, <2>3, <3>4 DEF ClaimChunk
      <4>2. /\ \A q \in Runners \ {r} : runner'[q] = runner[q]
            /\ runner'[r].step = "complete" /\ runner'[r].outcome = "failed"
        BY <1>0, <4>1 DEF GoComplete, TypeOK
      <4>3. chunk[c].attempts <= chunk'[c].attempts /\ (chunk'[c].status = "completed" => chunk[c].status = "completed")
        BY <1>1, <3>2
      <4> QED BY <1>0, <2>1, <4>2, <4>3, QuietRuns DEF At
    <3> QED BY <3>3, <3>4
  <2> QED BY <2>2, <2>3
<1>9. ASSUME NEW r \in Runners, NEW d \in Chunks, RunChunk(r, d) PROVE Goal
  <2>1. PICK bad \in SUBSET ItemsOf[d] : GoComplete(r, "completed", bad)
    BY <1>9 DEF RunChunk
  <2>2. At(r, "run", d) /\ commits' = [commits EXCEPT ![d] = @ + 1] /\ chunk' = chunk
    BY <1>9 DEF RunChunk
  <2>3. /\ \A q \in Runners \ {r} : runner'[q] = runner[q]
        /\ runner'[r].step = "complete" /\ runner'[r].chunk = d
    BY <1>0, <2>1, <2>2, CompleteEffect DEF At
  <2>4. CASE c = d
    <3>1. commits'[c] = commits[c] + 1 /\ commits[c] \in Nat
      BY <1>0, <2>2, <2>4 DEF TypeOK
    <3>2. r \in Running(c) /\ Running(c)' = Running(c) \ {r}
      BY <2>2, <2>3, <2>4 DEF Running, At
    <3>3. RunsBounded(c)'
      BY <1>0, <2>2, <3>1, <3>2, OneCommit DEF RunsInv
    <3>4. SuccessCommitted(c)'
      BY <3>1 DEF SuccessCommitted
    <3> QED BY <3>3, <3>4
  <2>5. CASE c # d
    <3>1. commits'[c] = commits[c]
      BY <1>0, <2>2, <2>5 DEF TypeOK
    <3> QED BY <1>0, <1>1, <2>2, <2>3, <2>5, <3>1, QuietRuns DEF At
  <2> QED BY <2>4, <2>5
<1>10. ASSUME NEW r \in Runners, NEW d \in Chunks, RollBack(r, d) PROVE Goal
  <2>1. UNCHANGED <<chunk, commits>> /\ Go(r, "release")
    BY <1>10 DEF RollBack
  <2>2. runner'[r].step = "release" /\ \A q \in Runners \ {r} : runner'[q] = runner[q]
    BY <1>0, <2>1, GoEffect
  <2> QED BY <1>0, <1>1, <2>1, <2>2, QuietRuns DEF At
<1>11. ASSUME NEW r \in Runners, NEW d \in Chunks, ReleaseChunk(r, d) PROVE Goal
  <2>1. Stop(r) /\ commits' = commits
    BY <1>11 DEF ReleaseChunk
  <2>2. /\ chunk'[c].attempts = chunk[c].attempts
        /\ chunk'[c].status # "completed" \/ chunk'[c].status = chunk[c].status
    BY <1>0, <1>11 DEF ReleaseChunk, TypeOK, Chunk
  <2> QED BY <1>3, <2>1, <2>2
<1>12. ASSUME NEW r \in Runners, NEW d \in Chunks, CompleteChunk(r, d) PROVE Goal
  <2>1. At(r, "complete", d) /\ commits' = commits /\ (Go(r, "finalize") \/ Stop(r))
    BY <1>12 DEF CompleteChunk
  <2>2. runner'[r].step \in {"finalize", "idle"} /\ \A q \in Runners \ {r} : runner'[q] = runner[q]
    BY <1>0, <2>1, GoEffect, StopEffect
  <2>3. CASE Completable(d)
    <3>1. chunk' = [chunk EXCEPT ![d].status = runner[r].outcome, ![d].failures = runner[r].failures]
      BY <1>12, <2>3 DEF CompleteChunk
    <3>2. /\ c = d => chunk'[c].status = runner[r].outcome
          /\ chunk'[c].attempts = chunk[c].attempts
          /\ c # d => chunk'[c] = chunk[c]
      BY <1>0, <3>1 DEF TypeOK, Chunk
    <3> QED BY <1>0, <1>1, <2>1, <2>2, <3>2, QuietRuns DEF At
  <2>4. CASE ~Completable(d)
    <3>1. chunk' = chunk
      BY <1>12, <2>4 DEF CompleteChunk
    <3> QED BY <1>0, <1>1, <2>1, <2>2, <3>1, QuietRuns DEF At
  <2> QED BY <2>3, <2>4
<1>13. ASSUME NEW r \in Runners, FinalizeIfDone(r) PROVE Goal
  BY <1>3, <1>13 DEF FinalizeIfDone
<1>14. ASSUME NEW r \in Runners, NEW d \in Chunks, Crash(r, d) PROVE Goal
  BY <1>3, <1>14 DEF Crash
<1> QED
  BY <1>4, <1>5, <1>6, <1>7, <1>8, <1>9, <1>10, <1>11, <1>12, <1>13, <1>14 DEF Next, Run

\* A chunk recorded as completed ran, and no chunk runs more often than its attempts allow,
\* however many consumers claim, stall, fail and die.
THEOREM RunsAlwaysAccounted == Spec => []RunsAccounted
<1>1. Init => RunsInv
  <2> SUFFICES ASSUME Init, NEW c \in Chunks PROVE RunsBounded(c) /\ SuccessCommitted(c)
    BY TypeInit DEF RunsInv
  <2>1. Running(c) = {}
    BY DEF Init, Running, At, Idle
  <2>2. commits[c] = 0 /\ chunk[c].attempts = 0 /\ chunk[c].status = "pending"
    BY DEF Init
  <2>3. RunsBounded(c)
    BY <2>1, <2>2, FS_EmptySet, BoundsAssumption DEF RunsBounded
  <2> QED BY <2>2, <2>3 DEF SuccessCommitted, Init, At, Idle
<1>2. RunsInv => RunsAccounted
  <2> SUFFICES ASSUME RunsInv, NEW c \in Chunks PROVE commits[c] <= MaxAttempts
    BY DEF RunsInv, SuccessCommitted, RunsAccounted
  <2>1. Cardinality(Running(c)) \in Nat /\ commits[c] \in Nat
    BY FS_CardinalityType DEF RunsInv, RunsBounded, TypeOK
  <2> QED BY <2>1, BoundsAssumption DEF RunsInv, RunsBounded
<1> QED BY <1>1, <1>2, RunsStep, PTL DEF Spec
===============================================================================
