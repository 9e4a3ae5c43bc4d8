------------------------------ MODULE AgentPasses ------------------------------
(***************************************************************************)
(* The agents that run over an entry: the pass on publish (enrich, then    *)
(* moderate, then the retraction of what moderation holds) and single runs *)
(* of enrich, curate, repurpose and moderate.  On a durable runtime every  *)
(* activity is a step that is executed again until it succeeds or gives    *)
(* up, and a pass over a chunk of entries keeps their failures apart; an   *)
(* inline pass raises, and the queue delivers its event again.             *)
(***************************************************************************)
EXTENDS Integers, Sequences, FiniteSets

CONSTANTS Entries,
          Passes,        \* identities of runs
          Deployments,   \* bound: the configurations of a deployment
          MaxEdits,      \* bound: saves and unpublishes by editors
          MaxPublishes,  \* bound: publishes
          MaxErrors      \* bound: failing activities, lost replies, redeliveries

\* What the constants are assumed to be.
ASSUME PassesAssumption ==
  /\ Deployments \subseteq [runtime : {"durable", "inline"}, enrich : BOOLEAN, moderate : BOOLEAN,
                             autoApply : BOOLEAN]
  /\ \A d \in Deployments : d.enrich \/ d.moderate
  /\ {MaxEdits, MaxPublishes, MaxErrors} \subseteq Nat /\ IsFiniteSet(Passes)

VARIABLES
  config,    \* the deployment: its runtime and which agents run on publish
  draft,     \* the current version of each entry: is it bad, has it an empty field
  live,      \* the published snapshot of each entry
  events,    \* entry.published events that are not acknowledged
  pass,      \* what each run is at
  agentRuns,    \* the agent runs recorded: run, workflow, status
  budget,    \* what is left of the bounds
  pulled,    \* history: what each run found published when its retraction succeeded
  untold     \* history: the runs whose failure could not be recorded

passesVars == <<config, draft, live, events, pass, agentRuns, budget, pulled, untold>>

Workflows == {"enrich", "curate", "repurpose", "moderate"}
Draft == [version : Nat, bad : BOOLEAN, gap : BOOLEAN]
NotLive == [pub |-> 0]
NoPass == [step |-> "idle"]
Unseen == [version |-> 0, bad |-> FALSE, gap |-> FALSE]

Running(p) == pass[p].step \notin {"idle", "done"}
AtStep(p, step) == pass[p].step = step
EntryOf(p) == pass[p].of
Workflow(p) == Head(pass[p].todo)
Durable == config.runtime = "durable"

PassesInit ==
  /\ config \in Deployments
  /\ draft \in [Entries -> [version : {1}, bad : BOOLEAN, gap : BOOLEAN]]
  /\ live = [e \in Entries |-> NotLive]
  /\ events = {}
  /\ pass = [p \in Passes |-> NoPass]
  /\ agentRuns = {}
  /\ budget = [edits |-> MaxEdits, publishes |-> MaxPublishes, errors |-> MaxErrors]
  /\ pulled = [p \in Passes |-> {}]
  /\ untold = {}

Spend(what) ==
  /\ budget[what] > 0
  /\ budget' = [budget EXCEPT ![what] = @ - 1]

Proceeds(p, step) == pass' = [pass EXCEPT ![p].step = step]

-------------------------------------------------------------------------------
(***************************************************************************)
(* Editors: updateEntry, publishEntry and unpublishEntry, in one step each.*)
(***************************************************************************)
Save(e, bad, gap) ==
  /\ Spend("edits")
  /\ draft' = [draft EXCEPT ![e] = [version |-> @.version + 1, bad |-> bad, gap |-> gap]]
  /\ UNCHANGED <<config, live, events, pass, agentRuns, pulled, untold>>

Publish(e) ==
  /\ Spend("publishes")
  /\ live' = [live EXCEPT ![e] = [pub |-> budget.publishes, version |-> draft[e].version, bad |-> draft[e].bad]]
  /\ events' = events \union {[of |-> e, pub |-> budget.publishes]}
  /\ UNCHANGED <<config, draft, pass, agentRuns, pulled, untold>>

Unpublish(e) ==
  /\ live[e] # NotLive /\ Spend("edits")
  /\ live' = [live EXCEPT ![e] = NotLive]
  /\ UNCHANGED <<config, draft, events, pass, agentRuns, pulled, untold>>

-------------------------------------------------------------------------------
(***************************************************************************)
(* Runs begin.                                                             *)
(***************************************************************************)
OnPublish == (IF config.enrich THEN <<"enrich">> ELSE <<>>) \o (IF config.moderate THEN <<"moderate">> ELSE <<>>)

Begun(of, pub, chunk, todo, autoApply) ==
  [step |-> "load", of |-> of, pub |-> pub, chunk |-> chunk, todo |-> todo,
   autoApply |-> autoApply, saw |-> Unseen, status |-> "none", held |-> FALSE]

\* startPublishRuns: one instance for a chunk of events, which are acknowledged.
StartChunk(chunk) ==
  /\ Durable /\ chunk \subseteq events /\ chunk # {}
  /\ \E run \in [chunk -> {p \in Passes : pass[p] = NoPass}] :
       /\ \A x, y \in chunk : run[x] = run[y] => x = y
       /\ pass' = [p \in Passes |->
                     IF \E x \in chunk : run[x] = p
                     THEN LET x == CHOOSE x \in chunk : run[x] = p IN
                          Begun(x.of, x.pub, {run[y] : y \in chunk}, OnPublish, config.autoApply)
                     ELSE pass[p]]
  /\ events' = events \ chunk
  /\ UNCHANGED <<config, draft, live, agentRuns, budget, pulled, untold>>

\* runPublishAgents: the consumer awaits the pass and acknowledges its event at the end.
StartInline(p, x) ==
  /\ ~Durable /\ x \in events /\ pass[p] = NoPass
  /\ \A q \in Passes : Running(q) => pass[q].pub # x.pub
  /\ pass' = [pass EXCEPT ![p] = Begun(x.of, x.pub, {p}, OnPublish, config.autoApply)]
  /\ UNCHANGED <<config, draft, live, events, agentRuns, budget, pulled, untold>>

\* A run asked for by a request or a schedule, whose caller records it.
StartSingle(p, e, workflow) ==
  /\ pass[p] = NoPass /\ Spend("edits")
  /\ pass' = [pass EXCEPT ![p] = Begun(e, 0, {p}, <<workflow>>, config.autoApply)]
  /\ UNCHANGED <<config, draft, live, events, agentRuns, pulled, untold>>

-------------------------------------------------------------------------------
(***************************************************************************)
(* The workflows, activity by activity.                                    *)
(***************************************************************************)
\* Variant: moderation looks at an entry only if it was incomplete.
Wants_Gaps(workflow, content) ==
  CASE workflow \in {"enrich", "moderate"} -> content.gap
    [] workflow = "curate" -> ~content.gap
    [] OTHER -> TRUE

\* Whether a workflow finds something to do in the draft it loaded.
Wants(workflow, content) ==
  CASE workflow = "enrich" -> content.gap
    [] workflow = "curate" -> ~content.gap
    [] OTHER -> TRUE

LoadEntry(p) ==
  LET w == Workflow(p)  seen == draft[EntryOf(p)] IN
  /\ AtStep(p, "load")
  /\ pass' = [pass EXCEPT ![p].saw = seen,
                ![p].step = IF ~Wants(w, seen) THEN "recordRun"
                            ELSE IF w = "moderate" THEN "classify" ELSE "generate",
                ![p].status = IF Wants(w, seen) THEN @ ELSE "skipped"]
  /\ UNCHANGED <<config, draft, live, events, agentRuns, budget, pulled, untold>>

\* The gate: variants are always proposed, the others unless they may be applied and
\* the model filled every field it was asked for.
IsProposed(p, answer) == Workflow(p) = "repurpose" \/ answer = "part" \/ ~pass[p].autoApply

\* The model returns no value, some or all of what it was asked for.
GenerateFields(p, answer) ==
  /\ AtStep(p, "generate")
  /\ pass' = [pass EXCEPT
       ![p].step = IF answer = "none" THEN "recordRun" ELSE IF IsProposed(p, answer) THEN "propose" ELSE "apply",
       ![p].status = IF answer # "none" THEN @ ELSE IF Workflow(p) = "curate" THEN "completed" ELSE "skipped"]
  /\ UNCHANGED <<config, draft, live, events, agentRuns, budget, pulled, untold>>

\* Merged into the fields of the version that is current now, and saved as a draft.
ApplyFields(p) ==
  /\ AtStep(p, "apply")
  /\ draft' = [draft EXCEPT ![EntryOf(p)].version = @ + 1, ![EntryOf(p)].gap = FALSE]
  /\ pass' = [pass EXCEPT ![p].step = "recordRun", ![p].status = "completed"]
  /\ UNCHANGED <<config, live, events, agentRuns, budget, pulled, untold>>

\* The review is AgentReviews' from here on.
CreateProposal(p) ==
  /\ AtStep(p, "propose")
  /\ pass' = [pass EXCEPT ![p].step = "recordRun", ![p].status = "needs_review"]
  /\ UNCHANGED <<config, draft, live, events, agentRuns, budget, pulled, untold>>

Classify(p) ==
  /\ AtStep(p, "classify")
  /\ pass' = [pass EXCEPT ![p].step = "recordRun",
                          ![p].status = IF pass[p].saw.bad THEN "held" ELSE "completed"]
  /\ UNCHANGED <<config, draft, live, events, agentRuns, budget, pulled, untold>>

Ends(p) == [pass EXCEPT ![p].step = "done"]
Acknowledged(p) == {x \in events : x.pub # pass[p].pub}

\* The run is recorded; the next workflow follows, and after the last the retraction of
\* an entry that the pass on its publish holds.
RecordRun(p) ==
  LET held == pass[p].held \/ (Workflow(p) = "moderate" /\ pass[p].status = "held")
      rest == Tail(pass[p].todo)
      retracts == held /\ pass[p].pub # 0
  IN
  /\ AtStep(p, "recordRun")
  /\ agentRuns' = agentRuns \union {[run |-> p, workflow |-> Workflow(p), status |-> pass[p].status]}
  /\ pass' = [pass EXCEPT ![p].held = held, ![p].todo = rest, ![p].status = "none",
                ![p].step = IF rest # <<>> THEN "load" ELSE IF retracts THEN "retract" ELSE "done"]
  /\ events' = IF rest = <<>> /\ ~retracts /\ ~Durable THEN Acknowledged(p) ELSE events
  /\ UNCHANGED <<config, draft, live, budget, pulled, untold>>

Retracted(p) == [run |-> p, workflow |-> "moderate", status |-> "retracted"]

\* unpublishEntry takes down whatever is live; an entry that is not published is what the
\* retraction wants.
RetractEntry(p) ==
  /\ AtStep(p, "retract")
  /\ live' = [live EXCEPT ![EntryOf(p)] = NotLive]
  /\ pulled' = [pulled EXCEPT ![p] = @ \union {live[EntryOf(p)]}]
  /\ Proceeds(p, "recordRetraction")
  /\ UNCHANGED <<config, draft, events, agentRuns, budget, untold>>

RecordRetraction(p) ==
  /\ AtStep(p, "recordRetraction")
  /\ agentRuns' = agentRuns \union {Retracted(p)}
  /\ pass' = Ends(p)
  /\ events' = IF Durable THEN events ELSE Acknowledged(p)
  /\ UNCHANGED <<config, draft, live, budget, pulled, untold>>

-------------------------------------------------------------------------------
(***************************************************************************)
(* Failures.                                                               *)
(***************************************************************************)
\* The runs that an exception of a durable pass ends: the entry's own.
Boundary(p) == {p}

\* A durable pass records that it failed; an inline one raises and is delivered again,
\* except that it swallows whatever the retraction raises.  A single run raises to its caller.
Raised(p) ==
  IF pass[p].pub = 0 THEN "idle"
  ELSE IF Durable THEN "recordFailure" ELSE IF AtStep(p, "retract") THEN "recordRetraction" ELSE "idle"

\* An activity fails, on a durable runtime in every attempt.
Fails(p) ==
  /\ Running(p) /\ pass[p].step # "recordFailure" /\ Spend("errors")
  /\ pass' = [q \in Passes |->
                IF q = p THEN IF Raised(p) = "idle" THEN NoPass ELSE [pass[p] EXCEPT !.step = Raised(p)]
                ELSE IF q \in Boundary(p) /\ Running(q) THEN [pass[q] EXCEPT !.step = "done"] ELSE pass[q]]
  /\ UNCHANGED <<config, draft, live, events, agentRuns, pulled, untold>>

\* recordRun with the status skipped and the error among its decisions.
Failure(p) == [run |-> p, workflow |-> Head(OnPublish), status |-> "failed"]

\* The record of a failure is tried, and a failure to record it is swallowed.
RecordFailure(p, lost) ==
  /\ AtStep(p, "recordFailure")
  /\ IF lost THEN Spend("errors") /\ untold' = untold \union {p} /\ UNCHANGED agentRuns
     ELSE /\ agentRuns' = agentRuns \union {Failure(p)}
          /\ UNCHANGED <<budget, untold>>
  /\ pass' = Ends(p)
  /\ UNCHANGED <<config, draft, live, events, pulled>>

\* A step takes effect and its reply is lost: a durable runtime executes it again.
LostReply(p) ==
  /\ Durable /\ Spend("errors")
  /\ \/ /\ AtStep(p, "apply")
        /\ draft' = [draft EXCEPT ![EntryOf(p)].version = @ + 1, ![EntryOf(p)].gap = FALSE]
        /\ UNCHANGED <<live, pulled>>
     \/ /\ AtStep(p, "retract")
        /\ live' = [live EXCEPT ![EntryOf(p)] = NotLive]
        /\ pulled' = [pulled EXCEPT ![p] = @ \union {live[EntryOf(p)]}]
        /\ UNCHANGED draft
  /\ UNCHANGED <<config, events, pass, agentRuns, untold>>

\* The queue delivers an event again although its instance was started.
Redeliver(p) ==
  /\ Durable /\ Running(p) /\ pass[p].pub # 0 /\ Spend("errors")
  /\ events' = events \union {[of |-> EntryOf(p), pub |-> pass[p].pub]}
  /\ UNCHANGED <<config, draft, live, pass, agentRuns, pulled, untold>>

Editing ==
  \E e \in Entries :
    \/ \E bad \in BOOLEAN, gap \in BOOLEAN : Save(e, bad, gap)
    \/ Publish(e) \/ Unpublish(e)
    \/ \E p \in Passes, w \in Workflows : StartSingle(p, e, w)

Start == \/ \E chunk \in SUBSET events : StartChunk(chunk)
         \/ \E p \in Passes, x \in events : StartInline(p, x)

PassActivity(p) ==
  \/ LoadEntry(p) \/ ApplyFields(p) \/ CreateProposal(p) \/ Classify(p)
  \/ \E answer \in {"none", "part", "full"} : GenerateFields(p, answer)
  \/ RecordRun(p) \/ RetractEntry(p) \/ RecordRetraction(p)
  \/ \E lost \in BOOLEAN : RecordFailure(p, lost)

PassesNext ==
  \/ Editing \/ Start
  \/ \E p \in Passes : PassActivity(p) \/ Fails(p) \/ LostReply(p) \/ Redeliver(p)

PassesSpec == PassesInit /\ [][PassesNext]_passesVars

-------------------------------------------------------------------------------
(***************************************************************************)
(* Properties.                                                             *)
(***************************************************************************)
\* The ledger says that a durable pass retracted an entry only if the entry was taken
\* out of delivery, or was out of it already ("the ledger must not claim flagged content
\* was pulled from delivery when it wasn't").
LedgerTellsRetraction ==
  Durable => \A p \in Passes : Retracted(p) \in agentRuns => pulled[p] # {}

\* The same of the inline pass of a deployment without a durable runtime.
InlineLedgerTellsRetraction == \A p \in Passes : Retracted(p) \in agentRuns => pulled[p] # {}

Judged(p) == /\ pass[p].step = "done" /\ pass[p].pub # 0
             /\ \E r \in agentRuns : r.run = p /\ r.workflow = "moderate" /\ r.status # "failed"
             /\ Failure(p) \notin agentRuns

\* Moderation reads the draft, not the snapshot.  A bad snapshot outlives the pass on
\* its publish, and a good one is taken down, only if the draft that was judged is of
\* another version than the snapshot.
MisjudgedOnlyByVersion ==
  Durable => \A p \in Passes :
    /\ \A s \in pulled[p] \ {NotLive} : s.version = pass[p].saw.version => s.bad
    /\ \A e \in Entries :
         Judged(p) /\ p \notin untold /\ live[e] # NotLive /\ live[e].bad /\ live[e].pub = pass[p].pub
           => pass[p].saw.version # live[e].version

\* A run of the pass on publish ends with an entry in the ledger, or with the failure to
\* write one: the failure of another entry of its chunk never ends it.
EndsTold ==
  \A p \in Passes : pass[p].step = "done" => p \in untold \/ \E r \in agentRuns : r.run = p

\* The ledger can be relied on for what the passes did, a failed one included.
LedgerTellsPasses == LedgerTellsRetraction /\ EndsTold

\* The ledger tells the passes that took place, and moderation misjudges a published
\* version for one reason only.
PassesAccounted == LedgerTellsPasses /\ MisjudgedOnlyByVersion
================================================================================
