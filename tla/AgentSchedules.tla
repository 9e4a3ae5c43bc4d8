----------------------------- MODULE AgentSchedules -----------------------------
(***************************************************************************)
(* Recurring agent jobs.  A tick lists the due schedules, claims one       *)
(* firing of each by a compare-and-set on nextRunAt, and runs a workflow   *)
(* over the entries published after the schedule's cursor, in publish      *)
(* order.  Ticks of several workers overlap, an administrator saves whole  *)
(* rows back, and a publish takes its publishedAt before it commits.  The  *)
(* schedule's content type and workflow are fixed; published rows of other *)
(* types are left out.                                                     *)
(***************************************************************************)
EXTENDS Integers, FiniteSets

CONSTANTS Schedules,      \* identities of schedules
          Candidates,     \* entry ids, ordered like numbers
          Runners,        \* overlapping calls of runDueAgentSchedules
          Periods,        \* cadences: a cron fires at the multiples of a period
          EntriesPerRun,  \* the entry cap of a run
          MaxClock,       \* bound: the last instant
          MaxActs         \* bound: publishes, unpublishes, updates, deletions, failures
                          \* and crashes, all told

\* What the constants are assumed to be.
SchedulesAssumption ==
  /\ Candidates \subseteq Nat \ {0} /\ IsFiniteSet(Candidates)
  /\ Periods \subseteq Nat \ {0} /\ EntriesPerRun \in Nat \ {0}
  /\ MaxClock \in Nat \ {0} /\ MaxActs \in Nat

VARIABLES
  schedule,    \* the agent_schedules row of each schedule
  published,   \* publishedAt of each entry's row in the read model, 0 without one
  committing,  \* publishedAt of a publish that has not committed, 0 without one
  runner,      \* what each tick is at
  update,      \* the rows that updates are about to save; `behind` is history: a claim or
               \* a cursor has been saved since the row was read
  clock,       \* the wall clock
  acts,        \* what has happened of what MaxActs bounds
  claims,      \* history: how often each firing was claimed
  handled,     \* history: the publications a run of a schedule has processed
  baseline,    \* history: the instant of the latest run that only set the cursor
  late,        \* history: publications that committed behind a cursor or a listing
  repeated,    \* history: publications processed a second time
  instants,    \* history: the cursors saved without an entry id
  causes       \* history: what happened to a schedule that excuses a repetition

history == <<claims, handled, baseline, late, repeated, instants, causes>>
schedulesVars == <<schedule, published, committing, runner, update, clock, acts, history>>

\* A schedule that is not created yet, and one that is deleted: ids are never used again.
NoSchedule == [nextRunAt |-> 0]
Deleted == [nextRunAt |-> -1]
Position == [at : 0..MaxClock, entry : Candidates \union {0}]
Unset == [at |-> 0, entry |-> 0]
Instant(t) == [at |-> t, entry |-> 0]
Before(p, q) == p.at < q.at \/ (p.at = q.at /\ p.entry < q.entry)
Schedule == [enabled : BOOLEAN, period : Periods, cursor : Position, nextRunAt : Nat \ {0}]
NotRunning == [step |-> "idle", due |-> {}]

Exists(s) == schedule[s] \notin {NoSchedule, Deleted}
Works(k) == runner[k].step \in {"list", "run", "save"}
WorksOn(k, s) == Works(k) /\ runner[k].of = s

\* A schedule is created later, or has just set its cursor.
Started(period) == [enabled |-> TRUE, period |-> period, cursor |-> Instant(1),
                    nextRunAt |-> period * (1 \div period + 1)]

SchedulesInit ==
  /\ schedule \in [Schedules -> {NoSchedule} \union {Started(period) : period \in Periods}]
  /\ published = [e \in Candidates |-> 0] /\ committing = [e \in Candidates |-> 0]
  /\ runner = [k \in Runners |-> NotRunning]
  /\ update = {}
  /\ clock = 1
  /\ acts = 0
  /\ claims = [s \in Schedules |-> [t \in 1..MaxClock |-> 0]]
  /\ handled = {} /\ late = {} /\ repeated = {}
  /\ baseline = [s \in Schedules |-> IF Exists(s) THEN 1 ELSE 0]
  /\ instants = [s \in Schedules |-> IF Exists(s) THEN {1} ELSE {}] /\ causes = [s \in Schedules |-> {}]

Act == acts < MaxActs /\ acts' = acts + 1

-------------------------------------------------------------------------------
(***************************************************************************)
(* Time, and the publishes that other requests make.                       *)
(***************************************************************************)
TimePasses == clock < MaxClock /\ clock' = clock + 1 /\ UNCHANGED <<schedule, published, committing, runner, update, acts, history>>

BeginPublish(e) ==
  /\ committing[e] = 0 /\ Act
  /\ committing' = [committing EXCEPT ![e] = clock]
  /\ UNCHANGED <<schedule, published, runner, update, clock, history>>

\* The cursors of a schedule: in its row, in a tick that found it due or works on it.
Cursors(s) ==
  {schedule[o].cursor : o \in {o \in {s} : Exists(o)}}
    \union {d.row.cursor : d \in {d \in UNION {runner[k].due : k \in Runners} : d.of = s}}
    \union {runner[k].cursor : k \in {k \in Runners : WorksOn(k, s)}}

\* A cursor, or a listing under way, has passed the publication when it commits.
PassedBy(s, p) ==
  \/ \E cursor \in Cursors(s) : ~Before(cursor, p)
  \/ \E k \in Runners : WorksOn(k, s) /\ runner[k].step = "run" /\ p.at <= runner[k].now

CommitPublish(e) ==
  LET p == [at |-> committing[e], entry |-> e] IN
  /\ committing[e] # 0
  /\ published' = [published EXCEPT ![e] = committing[e]]
  /\ committing' = [committing EXCEPT ![e] = 0]
  /\ late' = late \union {<<s, p>> : s \in {s \in Schedules : PassedBy(s, p)}}
  /\ UNCHANGED <<schedule, runner, update, clock, acts, claims, handled, baseline, repeated, instants, causes>>

Unpublish(e) ==
  /\ published[e] # 0 /\ committing[e] = 0 /\ Act
  /\ published' = [published EXCEPT ![e] = 0]
  /\ UNCHANGED <<schedule, committing, runner, update, clock, history>>

-------------------------------------------------------------------------------
(***************************************************************************)
(* The use-cases of the administrator.                                     *)
(***************************************************************************)
nextCronOccurrence(period, t) == (t \div period + 1) * period

createAgentSchedule(s, period) ==
  /\ schedule[s] = NoSchedule
  /\ schedule' = [schedule EXCEPT ![s] = [enabled |-> TRUE, period |-> period, cursor |-> Unset,
                                nextRunAt |-> nextCronOccurrence(period, clock)]]
  /\ UNCHANGED <<published, committing, runner, update, clock, acts, history>>

\* The row read and patched, with a new cron or without; nextRunAt is computed anew for
\* a cron that is given, and for a schedule that is enabled again after its firing has passed.
NoCron == 0
Patched(old, cron, enabled) ==
  LET period == IF cron = NoCron THEN old.period ELSE cron IN
  [old EXCEPT !.period = period, !.enabled = enabled,
              !.nextRunAt = IF cron # NoCron \/ (enabled /\ ~old.enabled /\ @ <= clock)
                            THEN nextCronOccurrence(period, clock) ELSE @]

BeginUpdate(s, cron, enabled) ==
  /\ Exists(s) /\ Act
  /\ update' = update \union {[of |-> s, row |-> Patched(schedule[s], cron, enabled), behind |-> FALSE]}
  /\ UNCHANGED <<schedule, published, committing, runner, clock, history>>

\* The whole row is written; that undoes a claim or a cursor saved since it was read.
SaveUpdate(u) ==
  /\ update' = update \ {u}
  /\ schedule' = IF Exists(u.of) THEN [schedule EXCEPT ![u.of] = u.row] ELSE schedule
  /\ causes' = IF Exists(u.of) /\ u.behind THEN [causes EXCEPT ![u.of] = @ \union {"clobbered"}] ELSE causes
  /\ UNCHANGED <<published, committing, runner, clock, acts, claims, handled, baseline, late, repeated, instants>>

\* History: what a claim or a saved cursor makes of the updates under way.
Overtaken == update' = {[u EXCEPT !.behind = @ \/ schedule'[u.of] # schedule[u.of]] : u \in update}

deleteAgentSchedule(s) ==
  /\ Exists(s) /\ Act
  /\ schedule' = [schedule EXCEPT ![s] = Deleted]
  /\ UNCHANGED <<published, committing, runner, update, clock, history>>

-------------------------------------------------------------------------------
(***************************************************************************)
(* runDueAgentSchedules.                                                   *)
(***************************************************************************)
isScheduleDue(r) == r.enabled /\ r.nextRunAt <= clock
DueRows == {[of |-> s, row |-> schedule[s]] : s \in {s \in Schedules : Exists(s) /\ isScheduleDue(schedule[s])}}

ListDue(k) ==
  /\ runner[k] = NotRunning /\ DueRows # {}
  /\ runner' = [runner EXCEPT ![k] = [step |-> "claim", due |-> DueRows, now |-> clock]]
  /\ UNCHANGED <<schedule, published, committing, update, clock, acts, history>>

\* The tick goes on to its next due schedule, or ends.
Rest(k, due) == IF due = {} THEN NotRunning ELSE [step |-> "claim", due |-> due, now |-> runner[k].now]

FirstDue(due) == {d \in due : \A o \in due : d.row.nextRunAt <= o.row.nextRunAt}

\* Variant: the claim writes without comparing nextRunAt.
Claimable_Any(d) == Exists(d.of)

Claimable(d) == Exists(d.of) /\ schedule[d.of].nextRunAt = d.row.nextRunAt

\* What the claimed run does next: the first run of a schedule only sets its baseline.
Claimed(k, d) ==
  LET first == d.row.cursor = Unset IN
  [step |-> IF first THEN "save" ELSE "list", of |-> d.of, due |-> runner[k].due \ {d}, now |-> runner[k].now,
   cursor |-> IF first THEN Instant(runner[k].now) ELSE d.row.cursor, left |-> {}, full |-> FALSE]

\* The claim compares nextRunAt alone: the cursor may be one that another run has moved
\* since it was read, or is about to move.
StaleCursor(k, d) ==
  d.row.cursor # schedule[d.of].cursor \/ \E o \in Runners \ {k} : WorksOn(o, d.of)

Claim(k) ==
  /\ runner[k].step = "claim"
  /\ \E d \in FirstDue(runner[k].due) :
       IF Claimable(d)
       THEN /\ schedule' = [schedule EXCEPT ![d.of].nextRunAt = nextCronOccurrence(d.row.period, runner[k].now)]
            /\ runner' = [runner EXCEPT ![k] = Claimed(k, d)]
            /\ claims' = [claims EXCEPT ![d.of][d.row.nextRunAt] = @ + 1]
            /\ baseline' = IF d.row.cursor = Unset /\ baseline[d.of] < runner[k].now
                           THEN [baseline EXCEPT ![d.of] = runner[k].now] ELSE baseline
            /\ causes' = IF StaleCursor(k, d)
                         THEN [causes EXCEPT ![d.of] = @ \union {"stale"}] ELSE causes
       ELSE /\ runner' = [runner EXCEPT ![k] = Rest(k, runner[k].due \ {d})]
            /\ UNCHANGED <<schedule, claims, baseline, causes>>
  /\ Overtaken
  /\ UNCHANGED <<published, committing, clock, acts, handled, late, repeated, instants>>

\* listPublished: the rows strictly after the cursor, in publish order.
PublishedRows == {[at |-> published[e], entry |-> e] : e \in {e \in Candidates : published[e] # 0}}

\* Variant: the rows after the cursor's instant, without the entry id.
After_Instant(cursor) == {p \in PublishedRows : p.at > cursor.at}

After(cursor) == {p \in PublishedRows : Before(cursor, p)}

\* The first EntriesPerRun of them, in publish order, and whether there are as many.
Page(cursor) ==
  {p \in After(cursor) : Cardinality({q \in After(cursor) : Before(q, p)}) < EntriesPerRun}
IsFull(cursor) == Cardinality(After(cursor)) >= EntriesPerRun

First(left) == CHOOSE p \in left : \A q \in left \ {p} : Before(p, q)

\* The run with this left of its page: the next entry, up to the firing's instant, or the
\* end.  A window that is exhausted moves the cursor to that instant.
Continue(run, left, full, cursor, ceiling) ==
  IF left # {} /\ First(left).at <= run.now /\ ~ceiling
  THEN [run EXCEPT !.step = "run", !.left = left, !.full = full, !.cursor = cursor]
  ELSE [run EXCEPT !.step = "save", !.left = {}, !.full = FALSE,
                   !.cursor = IF left = {} /\ ~full THEN Instant(run.now) ELSE cursor]

ListPublished(k) ==
  LET run == runner[k] IN
  /\ run.step = "list"
  /\ runner' = [runner EXCEPT ![k] = Continue(run, Page(run.cursor), IsFull(run.cursor), run.cursor, FALSE)]
  /\ UNCHANGED <<schedule, published, committing, update, clock, acts, history>>

Handle(s, p) ==
  /\ handled' = handled \union {<<s, p>>}
  /\ repeated' = IF <<s, p>> \in handled THEN repeated \union {<<s, p>>} ELSE repeated

\* agents.run and its record for one entry; the run may then have used up its tokens.
RunEntry(k, ceiling) ==
  LET run == runner[k]  p == First(run.left) IN
  /\ run.step = "run"
  /\ Handle(run.of, p)
  /\ runner' = [runner EXCEPT ![k] = Continue(run, run.left \ {p}, run.full, p, ceiling)]
  /\ UNCHANGED <<schedule, published, committing, update, clock, acts, claims, baseline, late, instants, causes>>

\* The listing, an agent or its record fails; the agent may have done its work.
RunFails(k, effect) ==
  LET run == runner[k] IN
  /\ run.step \in {"list", "run"} /\ Act
  /\ effect => run.step = "run"
  /\ IF effect THEN Handle(run.of, First(run.left)) ELSE UNCHANGED <<handled, repeated>>
  /\ causes' = [causes EXCEPT ![run.of] = @ \union {"failed"}]
  /\ runner' = [runner EXCEPT ![k] = [run EXCEPT !.step = "save", !.left = {}, !.full = FALSE]]
  /\ UNCHANGED <<schedule, published, committing, update, clock, claims, baseline, late, instants>>

SaveRunState(k) ==
  LET run == runner[k] IN
  /\ run.step = "save"
  /\ schedule' = IF Exists(run.of) THEN [schedule EXCEPT ![run.of].cursor = run.cursor] ELSE schedule
  /\ runner' = [runner EXCEPT ![k] = Rest(k, run.due)]
  /\ instants' = IF run.cursor.entry = 0 THEN [instants EXCEPT ![run.of] = @ \union {run.cursor.at}]
                 ELSE instants
  /\ Overtaken
  /\ UNCHANGED <<published, committing, clock, acts, claims, handled, baseline, late, repeated, causes>>

\* The worker dies, or a claim or saveRunState throws out of the tick.
RunnerCrashes(k) ==
  /\ runner[k] # NotRunning /\ Act
  /\ causes' = IF Works(k) THEN [causes EXCEPT ![runner[k].of] = @ \union {"failed"}] ELSE causes
  /\ runner' = [runner EXCEPT ![k] = NotRunning]
  /\ UNCHANGED <<schedule, published, committing, update, clock, claims, handled, baseline, late, repeated, instants>>

SchedulesNext ==
  \/ TimePasses
  \/ \E e \in Candidates : BeginPublish(e) \/ CommitPublish(e) \/ Unpublish(e)
  \/ \E s \in Schedules :
       \/ \E period \in Periods : createAgentSchedule(s, period)
       \/ \E cron \in Periods \union {NoCron}, enabled \in BOOLEAN : BeginUpdate(s, cron, enabled)
       \/ deleteAgentSchedule(s)
  \/ \E u \in update : SaveUpdate(u)
  \/ \E k \in Runners :
       \/ ListDue(k) \/ Claim(k) \/ ListPublished(k) \/ SaveRunState(k) \/ RunnerCrashes(k)
       \/ \E ceiling \in BOOLEAN : RunEntry(k, ceiling)
       \/ \E effect \in BOOLEAN : RunFails(k, effect)

SchedulesSpec == SchedulesInit /\ [][SchedulesNext]_schedulesVars

-------------------------------------------------------------------------------
(***************************************************************************)
(* Properties.                                                             *)
(***************************************************************************)
\* A firing is run by one tick, whichever workers see it due, unless an update
\* wrote an older nextRunAt back (claimNextRun, "never double-run a firing").
FiringsRunOnce ==
  \A s \in Schedules : "clobbered" \in causes[s] \/ \A t \in DOMAIN claims[s] : claims[s][t] <= 1

\* A publication the cursor has passed was processed, unless it dates from before the
\* runs that only set the cursor, committed behind the cursor, or an update wrote an older row back.
NothingSkipped ==
  \A s \in {s \in Schedules : Exists(s)}, p \in PublishedRows :
    ~Before(schedule[s].cursor, p) =>
      \/ <<s, p>> \in handled \union late
      \/ p.at <= baseline[s]
      \/ "clobbered" \in causes[s]

\* A publication is processed twice only after a failed run, a run that started from
\* a stale cursor or an overwritten row, or because it has the very instant of a firing that exhausted its
\* window: that cursor carries no entry id.
RepeatedForCause ==
  \A s \in Schedules, p \in [at : 1..MaxClock, entry : Candidates] :
    <<s, p>> \in repeated => causes[s] # {} \/ p.at \in instants[s]

\* What ran more than once had a cause.
FiringsAccounted == FiringsRunOnce /\ RepeatedForCause
=================================================================================
