------------------------ MODULE AgentSchedules_proofs ------------------------
(***************************************************************************)
(* A firing is run once, nothing is skipped and nothing repeated without a *)
(* cause, for any schedules, runners, entries and cadences.                *)
(***************************************************************************)
EXTENDS AgentSchedules, FiniteSetTheorems, WellFoundedInduction, TLAPS

-------------------------------------------------------------------------------
(***************************************************************************)
(* The inductive invariant.                                                *)
(***************************************************************************)
Publications == [at : 1..MaxClock, entry : Candidates]
DueCopies == [of : Schedules, row : Schedule]
Claiming == [step : {"claim"}, due : SUBSET DueCopies, now : 1..MaxClock]
Runs == [step : {"list", "run", "save"}, of : Schedules, due : SUBSET DueCopies, now : 1..MaxClock,
         cursor : Position, left : SUBSET Publications, full : BOOLEAN]
Updates == [of : Schedules, row : Schedule, behind : BOOLEAN]
Causes == {"clobbered", "stale", "failed"}

\* The rows, the publications and the runners are what the code makes of them.
TypeOK ==
  /\ schedule \in [Schedules -> Schedule \union {NoSchedule, Deleted}]
  /\ published \in [Candidates -> 0..MaxClock] /\ committing \in [Candidates -> 0..MaxClock]
  /\ runner \in [Runners -> {NotRunning} \union Claiming \union Runs]
  /\ update \in SUBSET Updates
  /\ clock \in 1..MaxClock /\ acts \in Nat
  /\ claims \in [Schedules -> [1..MaxClock -> Nat]]
  /\ {handled, late, repeated} \subseteq SUBSET (Schedules \X Publications)
  /\ baseline \in [Schedules -> Nat]
  /\ instants \in [Schedules -> SUBSET Nat] /\ causes \in [Schedules -> SUBSET Causes]

\* No cursor and no claimed firing lies in the future.
RowTimes ==
  /\ \A s \in Schedules : Exists(s) => schedule[s].cursor.at <= clock
  /\ \A u \in update : u.row.cursor.at <= clock
  /\ \A s \in Schedules, t \in 1..MaxClock : claims[s][t] # 0 => t <= clock

\* A tick looks back from its instant; what is left of a page is after its cursor, and the next
\* entry was published by the firing.
RunnerTimes(k) ==
  /\ runner[k] # NotRunning => runner[k].now <= clock
  /\ \A d \in runner[k].due : d.row.nextRunAt <= runner[k].now /\ d.row.cursor.at <= runner[k].now
  /\ Works(k) => runner[k].cursor.at <= runner[k].now
  /\ runner[k].step = "run" => /\ runner[k].left # {} /\ First(runner[k].left).at <= runner[k].now
                               /\ \A q \in runner[k].left : Before(runner[k].cursor, q)

\* Nothing has happened to a schedule that is not created.
Fresh(s) ==
  /\ \A t \in 1..MaxClock : claims[s][t] = 0
  /\ \A p \in Publications : <<s, p>> \notin handled
  /\ \A u \in update : u.of # s
  /\ \A k \in Runners : ~WorksOn(k, s) /\ \A d \in runner[k].due : d.of # s

FreshRows == \A s \in Schedules : schedule[s] = NoSchedule => Fresh(s)

Sound(s) == "clobbered" \notin causes[s]
ClaimedBefore(s, t) == \A c \in 1..MaxClock : claims[s][c] # 0 => c < t

\* The next firing is later than those claimed, in the row and in an update that is not behind.
Ahead(s) ==
  /\ \A t \in 1..MaxClock : claims[s][t] <= 1
  /\ Exists(s) => ClaimedBefore(s, schedule[s].nextRunAt)
  /\ \A u \in update : u.of = s /\ ~u.behind /\ Exists(s) =>
       u.row.cursor = schedule[s].cursor /\ ClaimedBefore(s, u.row.nextRunAt)

FiringsAhead == \A s \in Schedules : Sound(s) => Ahead(s)

\* What a cursor of the schedule has passed was processed, committed late or precedes the baseline.
Covered(s, c) ==
  \A p \in PublishedRows : Before(c, p) \/ <<s, p>> \in handled \union late \/ p.at <= baseline[s]

RowCovered == \A s \in Schedules : Sound(s) /\ Exists(s) => Covered(s, schedule[s].cursor)

\* A run has all that lies between its cursor and its instant, but what is after a full page.
Listed(k) ==
  \A p \in PublishedRows :
    p.at <= runner[k].now /\ Before(runner[k].cursor, p) =>
      \/ <<runner[k].of, p>> \in late \/ p \in runner[k].left
      \/ runner[k].full /\ \A q \in runner[k].left : Before(q, p)

RunnerCovered(k) ==
  /\ \A d \in runner[k].due : Sound(d.of) => Covered(d.of, d.row.cursor)
  /\ Works(k) /\ Sound(runner[k].of) => Covered(runner[k].of, runner[k].cursor)
  /\ runner[k].step = "run" /\ Sound(runner[k].of) => Listed(k)

\* Unless something happened to it, one run at a time works on a schedule, and what was
\* processed is not after the cursor of that run, or of the row.
DoneBy(k, p) ==
  ~Before(runner[k].cursor, p) \/ (runner[k].step = "save" /\ runner[k].cursor = Instant(p.at))

OneWorker(s) == \A k, o \in Runners : WorksOn(k, s) /\ WorksOn(o, s) => k = o

DoneBehind(s) ==
  \A p \in Publications : <<s, p>> \in handled /\ p.at \notin instants[s] =>
    /\ \A k \in Runners : WorksOn(k, s) => DoneBy(k, p)
    /\ Exists(s) /\ (\A k \in Runners : ~WorksOn(k, s)) => ~Before(schedule[s].cursor, p)

OneAtATime == \A s \in Schedules : causes[s] = {} => OneWorker(s) /\ DoneBehind(s)

Inv ==
  /\ SchedulesAssumption /\ TypeOK /\ RowTimes /\ \A k \in Runners : RunnerTimes(k)
  /\ FreshRows /\ FiringsAhead /\ RowCovered /\ \A k \in Runners : RunnerCovered(k)
  /\ OneAtATime /\ RepeatedForCause

-------------------------------------------------------------------------------
(***************************************************************************)
(* The publish order, and the operators of the model.                      *)
(***************************************************************************)
Places == [at : Nat, entry : Nat]

LEMMA ArePlaces ==
  ASSUME SchedulesAssumption
  PROVE  Position \subseteq Places /\ Publications \subseteq Position /\ Unset \in Position
         /\ \A t \in 0..MaxClock : Instant(t) \in Position
<1> USE DEF SchedulesAssumption
<1>1. Position \subseteq Places
  <2>1. 0..MaxClock \subseteq Nat /\ Candidates \union {0} \subseteq Nat
    OBVIOUS
  <2> QED BY <2>1 DEF Position, Places
<1>2. Publications \subseteq Position
  BY DEF Publications, Position
<1>3. Unset \in Position /\ \A t \in 0..MaxClock : Instant(t) \in Position
  BY DEF Position, Unset, Instant
<1> QED BY <1>1, <1>2, <1>3

LEMMA BeforeOrders ==
  ASSUME NEW p \in Places, NEW q \in Places
  PROVE  /\ ~Before(p, p) /\ (Before(p, q) => ~Before(q, p))
         /\ p # q => Before(p, q) \/ Before(q, p)
         /\ \A o \in Places : Before(p, o) /\ Before(o, q) => Before(p, q)
  BY DEF Places, Before

\* A set of numbers has a least one.
LEMMA LeastNumber ==
  ASSUME NEW S, S \subseteq Nat, S # {}
  PROVE  \E m \in S : \A n \in S : m <= n
<1>1. PICK m \in S : \A n \in S : <<n, m>> \notin OpToRel(<, Nat)
  BY NatLessThanWellFounded, WFMin
<1>2. \A n \in S : ~(n < m)
  BY <1>1 DEF OpToRel
<1>3. \A n \in S : m <= n
  BY <1>2
<1> QED BY <1>3

LEMMA FirstIsLeast ==
  ASSUME SchedulesAssumption, NEW L, L \subseteq Publications, L # {}
  PROVE  First(L) \in L /\ \A q \in L \ {First(L)} : Before(First(L), q)
<1> USE DEF SchedulesAssumption
<1>1. PICK t \in {q.at : q \in L} : \A u \in {q.at : q \in L} : t <= u
  <2> DEFINE S == {q.at : q \in L}
  <2>1. S \subseteq Nat /\ S # {}
    BY DEF Publications
  <2> HIDE DEF S
  <2>2. \E m \in S : \A n \in S : m <= n
    BY <2>1, LeastNumber
  <2> QED BY <2>2 DEF S
<1>2. PICK e \in {q.entry : q \in {q \in L : q.at = t}} : \A f \in {q.entry : q \in {q \in L : q.at = t}} : e <= f
  <2> DEFINE S == {q.entry : q \in {q \in L : q.at = t}}
  <2>1. S \subseteq Nat /\ S # {}
    BY <1>1 DEF Publications
  <2> HIDE DEF S
  <2>2. \E m \in S : \A n \in S : m <= n
    BY <2>1, LeastNumber
  <2> QED BY <2>2 DEF S
<1>3. PICK p \in L : p.at = t /\ p.entry = e
  BY <1>2
<1>4. \A q \in L \ {p} : Before(p, q)
  <2> SUFFICES ASSUME NEW q \in L, q # p PROVE Before(p, q)
    OBVIOUS
  <2>1. t <= q.at /\ (q.at = t => e <= q.entry)
    BY <1>1, <1>2
  <2>2. q \in Publications /\ p \in Publications
    OBVIOUS
  <2>3. q.at # p.at \/ q.entry # p.entry
    BY <2>2 DEF Publications
  <2>4. p.at \in Nat /\ q.at \in Nat /\ p.entry \in Nat /\ q.entry \in Nat
    BY <2>2, ArePlaces DEF Places
  <2>5. p.at <= q.at /\ (q.at = p.at => p.entry <= q.entry)
    BY <1>3, <2>1
  <2> QED BY <2>3, <2>4, <2>5 DEF Before
<1>5. \E o \in L : \A q \in L \ {o} : Before(o, q)
  BY <1>4
<1> QED BY <1>5 DEF First

\* The next firing is later than the instant it is computed from.
LEMMA NextIsLater ==
  ASSUME SchedulesAssumption, NEW period \in Periods, NEW t \in Nat
  PROVE  nextCronOccurrence(period, t) \in Nat \ {0} /\ t < nextCronOccurrence(period, t)
<1>1. period \in Nat \ {0}
  BY DEF SchedulesAssumption
<1>2. \A a \in Nat, b \in Nat \ {0} : a \div b \in Nat /\ a < (a \div b + 1) * b
  OBVIOUS
<1>3. t < nextCronOccurrence(period, t)
  BY <1>1, <1>2 DEF nextCronOccurrence
<1>4. nextCronOccurrence(period, t) \in Int
  BY <1>1, <1>2 DEF nextCronOccurrence
<1> QED BY <1>3, <1>4

LEMMA RowsArePublications ==
  ASSUME SchedulesAssumption, TypeOK
  PROVE  PublishedRows \subseteq Publications /\ IsFiniteSet(PublishedRows)
<1>1. PublishedRows \subseteq Publications
  BY DEF TypeOK, PublishedRows, Publications
<1>2. IsFiniteSet({e \in Candidates : published[e] # 0})
  BY FS_Subset DEF SchedulesAssumption
<1>3. IsFiniteSet(PublishedRows)
  <2> DEFINE S == {e \in Candidates : published[e] # 0}
             f == [e \in S |-> [at |-> published[e], entry |-> e]]
  <2>1. f \in Surjection(S, PublishedRows)
    BY DEF PublishedRows, Surjection
  <2> QED BY <1>2, <2>1, FS_Surjection
<1> QED BY <1>1, <1>3

\* The cursors of a schedule, one kind at a time.
LEMMA CursorsAre ==
  ASSUME NEW s
  PROVE  /\ Exists(s) => schedule[s].cursor \in Cursors(s)
         /\ \A k \in Runners : \A d \in runner[k].due : d.of = s => d.row.cursor \in Cursors(s)
         /\ \A k \in Runners : WorksOn(k, s) => runner[k].cursor \in Cursors(s)
<1>1. Exists(s) => schedule[s].cursor \in Cursors(s)
  BY DEF Cursors
<1>2. ASSUME NEW k \in Runners, NEW d \in runner[k].due, d.of = s PROVE d.row.cursor \in Cursors(s)
  <2>1. d \in UNION {runner[o].due : o \in Runners}
    OBVIOUS
  <2> QED BY <1>2, <2>1 DEF Cursors
<1>3. ASSUME NEW k \in Runners, WorksOn(k, s) PROVE runner[k].cursor \in Cursors(s)
  <2>1. k \in {o \in Runners : WorksOn(o, s)}
    BY <1>3
  <2>2. runner[k].cursor \in {runner[o].cursor : o \in {o \in Runners : WorksOn(o, s)}}
    BY <2>1
  <2> QED BY <2>2 DEF Cursors
<1> QED BY <1>1, <1>2, <1>3

\* What a page leaves out is after all of it, and then the page is full.
LEMMA PageIsFirst ==
  ASSUME SchedulesAssumption, TypeOK, NEW c \in Position
  PROVE  /\ Page(c) \subseteq Publications /\ Page(c) \subseteq After(c)
         /\ IsFull(c) \in BOOLEAN
         /\ \A p \in After(c) \ Page(c) : IsFull(c) /\ \A q \in Page(c) : Before(q, p)
<1> USE DEF SchedulesAssumption
<1> DEFINE Preds(p) == {q \in After(c) : Before(q, p)}
<1>1. After(c) \subseteq Publications /\ IsFiniteSet(After(c))
  BY RowsArePublications, FS_Subset DEF After
<1>2. \A p : IsFiniteSet(Preds(p)) /\ Cardinality(Preds(p)) \in Nat /\ Cardinality(Preds(p)) <= Cardinality(After(c))
  <2> TAKE p
  <2>1. Preds(p) \in SUBSET After(c)
    OBVIOUS
  <2> HIDE DEF Preds
  <2> QED BY <1>1, <2>1, FS_Subset, FS_CardinalityType
<1>3. Cardinality(After(c)) \in Nat
  BY <1>1, FS_CardinalityType
<1>4. ASSUME NEW p \in After(c), p \notin Page(c)
      PROVE  IsFull(c) /\ \A q \in Page(c) : Before(q, p)
  <2>1. EntriesPerRun <= Cardinality(Preds(p))
    BY <1>2, <1>4 DEF Page
  <2>2. IsFull(c)
    BY <1>2, <1>3, <2>1 DEF IsFull
  <2>3. ASSUME NEW q \in Page(c) PROVE Before(q, p)
    <3>1. q \in After(c) /\ Cardinality(Preds(q)) < EntriesPerRun
      BY DEF Page
    <3>2. p \in Places /\ q \in Places /\ p # q /\ \A o \in After(c) : o \in Places
      BY <1>1, <1>4, <3>1, ArePlaces
    <3>3. CASE Before(p, q)
      <4>1. Preds(p) \subseteq Preds(q)
        BY <1>1, <3>2, <3>3, BeforeOrders
      <4> HIDE DEF Preds
      <4>2. Cardinality(Preds(p)) <= Cardinality(Preds(q))
        BY <1>2, <4>1, FS_Subset
      <4> QED BY <1>2, <2>1, <3>1, <4>2
    <3> QED BY <3>2, <3>3, BeforeOrders
  <2> QED BY <2>2, <2>3
<1>5. Page(c) \subseteq After(c) /\ IsFull(c) \in BOOLEAN
  BY DEF Page, IsFull
<1> QED BY <1>1, <1>4, <1>5

-------------------------------------------------------------------------------
(***************************************************************************)
(* The shapes of rows and runners.                                         *)
(***************************************************************************)
LEMMA RowShapes ==
  ASSUME TypeOK, NEW s \in Schedules
  PROVE  /\ Exists(s) <=> schedule[s] \in Schedule
         /\ Exists(s) => /\ schedule[s].cursor \in Position /\ schedule[s].nextRunAt \in Nat \ {0}
                         /\ schedule[s].period \in Periods /\ schedule[s].enabled \in BOOLEAN
<1>1. NoSchedule \notin Schedule /\ Deleted \notin Schedule
  BY DEF NoSchedule, Deleted, Schedule
<1>2. schedule[s] \in Schedule \union {NoSchedule, Deleted}
  BY DEF TypeOK
<1> QED BY <1>1, <1>2 DEF Exists, Schedule

LEMMA Shapes ==
  ASSUME TypeOK, NEW k \in Runners
  PROVE  /\ runner[k] # NotRunning => runner[k] \in Claiming \union Runs
         /\ runner[k] # NotRunning => runner[k].now \in 1..MaxClock
         /\ Works(k) <=> runner[k] \in Runs
         /\ runner[k].step = "claim" <=> runner[k] \in Claiming
         /\ runner[k].due \in SUBSET DueCopies
<1>1. runner[k] \in {NotRunning} \union Claiming \union Runs
  BY DEF TypeOK
<1>2. CASE runner[k] = NotRunning
  BY <1>2 DEF NotRunning, Works, Claiming, Runs
<1>3. CASE runner[k] \in Claiming
  BY <1>3 DEF NotRunning, Works, Claiming, Runs
<1>4. CASE runner[k] \in Runs
  BY <1>4 DEF NotRunning, Works, Claiming, Runs
<1> QED BY <1>1, <1>2, <1>3, <1>4

LEMMA RunShape ==
  ASSUME TypeOK, NEW k \in Runners, Works(k)
  PROVE  /\ runner[k] \in Runs /\ runner[k] # NotRunning
         /\ runner[k].of \in Schedules /\ runner[k].due \in SUBSET DueCopies /\ runner[k].now \in 1..MaxClock
         /\ runner[k].cursor \in Position /\ runner[k].left \in SUBSET Publications
         /\ runner[k].full \in BOOLEAN
<1>1. runner[k] \in Runs
  BY Shapes
<1> QED BY <1>1 DEF Runs, NotRunning

\* What the next entry of a page, or its end, makes of the run.
Continues(run, next, left, full, cursor) ==
  /\ next \in Runs /\ next.of = run.of /\ next.due = run.due /\ next.now = run.now
  /\ \/ /\ next.step = "run" /\ next.left = left /\ next.full = full /\ next.cursor = cursor
        /\ left # {} /\ First(left).at <= run.now
     \/ next.step = "save" /\ next.cursor = cursor
     \/ next.step = "save" /\ next.cursor = Instant(run.now) /\ left = {} /\ ~full

LEMMA ContinueIs ==
  ASSUME SchedulesAssumption, NEW run \in Runs, NEW left \in SUBSET Publications, NEW full \in BOOLEAN,
         NEW cursor \in Position, NEW ceiling \in BOOLEAN
  PROVE  Continues(run, Continue(run, left, full, cursor, ceiling), left, full, cursor)
<1>1. run.now \in 0..MaxClock
  BY DEF Runs
<1>2. Instant(run.now) \in Position
  BY <1>1, ArePlaces
<1>3. CASE left # {} /\ First(left).at <= run.now /\ ~ceiling
  <2>1. Continue(run, left, full, cursor, ceiling)
          = [run EXCEPT !.step = "run", !.left = left, !.full = full, !.cursor = cursor]
    BY <1>3 DEF Continue
  <2> QED BY <1>3, <2>1 DEF Runs, Continues
<1>4. CASE ~(left # {} /\ First(left).at <= run.now /\ ~ceiling)
  <2> DEFINE c == IF left = {} /\ ~full THEN Instant(run.now) ELSE cursor
  <2>1. Continue(run, left, full, cursor, ceiling)
          = [run EXCEPT !.step = "save", !.left = {}, !.full = FALSE, !.cursor = c]
    BY <1>4 DEF Continue
  <2>2. c \in Position
    BY <1>2
  <2>3. c = cursor \/ (c = Instant(run.now) /\ left = {} /\ ~full)
    OBVIOUS
  <2> HIDE DEF c
  <2> QED BY <2>1, <2>2, <2>3 DEF Runs, Continues
<1> QED BY <1>3, <1>4

\* What is claimed becomes a run from the cursor that was seen, or one that sets the baseline.
LEMMA ClaimedIs ==
  ASSUME SchedulesAssumption, TypeOK, NEW k \in Runners, runner[k].step = "claim", NEW d \in runner[k].due
  PROVE  /\ Claimed(k, d) \in Runs /\ Claimed(k, d).of = d.of /\ Claimed(k, d).now = runner[k].now
         /\ Claimed(k, d).due = runner[k].due \ {d} /\ d \in DueCopies
         /\ \/ Claimed(k, d).step = "list" /\ Claimed(k, d).cursor = d.row.cursor
            \/ Claimed(k, d).step = "save" /\ Claimed(k, d).cursor = Instant(runner[k].now) /\ d.row.cursor = Unset
<1>1. d \in DueCopies /\ runner[k].due \ {d} \in SUBSET DueCopies
  BY Shapes
<1>2. runner[k].now \in 1..MaxClock
  BY Shapes DEF Claiming
<1>3. Instant(runner[k].now) \in Position /\ d.row.cursor \in Position /\ d.of \in Schedules
  BY <1>1, <1>2, ArePlaces DEF DueCopies, Schedule, SchedulesAssumption
<1> QED BY <1>1, <1>2, <1>3 DEF Claimed, Runs

\* The tick goes on with some of what it found.
LEMMA RestIs ==
  ASSUME TypeOK, NEW k \in Runners, runner[k] # NotRunning, NEW due \in SUBSET DueCopies
  PROVE  /\ Rest(k, due) \in {NotRunning} \union Claiming /\ Rest(k, due).due = due
         /\ Rest(k, due) # NotRunning => Rest(k, due).now = runner[k].now
         /\ Rest(k, due).step \in {"idle", "claim"}
<1>1. runner[k].now \in 1..MaxClock
  BY Shapes
<1> QED BY <1>1 DEF Rest, NotRunning, Claiming

-------------------------------------------------------------------------------
(***************************************************************************)
(* Type correctness.                                                       *)
(***************************************************************************)
\* A claim that is won, and one that is lost.
Won(k, d) ==
  /\ runner[k].step = "claim" /\ d \in runner[k].due /\ Claimable(d)
  /\ schedule' = [schedule EXCEPT ![d.of].nextRunAt = nextCronOccurrence(d.row.period, runner[k].now)]
  /\ runner' = [runner EXCEPT ![k] = Claimed(k, d)]
  /\ claims' = [claims EXCEPT ![d.of][d.row.nextRunAt] = @ + 1]
  /\ baseline' = IF d.row.cursor = Unset /\ baseline[d.of] < runner[k].now
                 THEN [baseline EXCEPT ![d.of] = runner[k].now] ELSE baseline
  /\ causes' = IF StaleCursor(k, d) THEN [causes EXCEPT ![d.of] = @ \union {"stale"}] ELSE causes
  /\ Overtaken
  /\ UNCHANGED <<published, committing, clock, acts, handled, late, repeated, instants>>

Lost(k, d) ==
  /\ runner[k].step = "claim" /\ d \in runner[k].due
  /\ runner' = [runner EXCEPT ![k] = Rest(k, runner[k].due \ {d})]
  /\ Overtaken
  /\ UNCHANGED <<schedule, claims, baseline, causes, published, committing, clock, acts, handled, late, repeated, instants>>

LEMMA ClaimEither ==
  ASSUME NEW k \in Runners, Claim(k)
  PROVE  \E d : Won(k, d) \/ Lost(k, d)
<1>1. PICK d \in FirstDue(runner[k].due) :
        IF Claimable(d)
        THEN /\ schedule' = [schedule EXCEPT ![d.of].nextRunAt = nextCronOccurrence(d.row.period, runner[k].now)]
             /\ runner' = [runner EXCEPT ![k] = Claimed(k, d)]
             /\ claims' = [claims EXCEPT ![d.of][d.row.nextRunAt] = @ + 1]
             /\ baseline' = IF d.row.cursor = Unset /\ baseline[d.of] < runner[k].now
                            THEN [baseline EXCEPT ![d.of] = runner[k].now] ELSE baseline
             /\ causes' = IF StaleCursor(k, d)
                          THEN [causes EXCEPT ![d.of] = @ \union {"stale"}] ELSE causes
        ELSE /\ runner' = [runner EXCEPT ![k] = Rest(k, runner[k].due \ {d})]
             /\ UNCHANGED <<schedule, claims, baseline, causes>>
  BY DEF Claim
<1>2. d \in runner[k].due
  BY DEF FirstDue
<1>3. runner[k].step = "claim" /\ Overtaken
      /\ UNCHANGED <<published, committing, clock, acts, handled, late, repeated, instants>>
  BY DEF Claim
<1>4. CASE Claimable(d)
  <2>1. Won(k, d)
    BY <1>1, <1>2, <1>3, <1>4 DEF Won
  <2> QED BY <2>1
<1>5. CASE ~Claimable(d)
  <2>1. Lost(k, d)
    BY <1>1, <1>2, <1>3, <1>5 DEF Lost
  <2> QED BY <2>1
<1> QED BY <1>4, <1>5

\* An update stays what it was, but may fall behind.
LEMMA OvertakenKeeps ==
  ASSUME TypeOK, Overtaken
  PROVE  /\ update' \in SUBSET Updates
         /\ \A v \in update' : \E u \in update :
              /\ v.of = u.of /\ v.row = u.row /\ (v.behind <=> u.behind \/ schedule'[u.of] # schedule[u.of])
<1>1. ASSUME NEW u \in update
      PROVE  LET v == [u EXCEPT !.behind = @ \/ schedule'[u.of] # schedule[u.of]] IN
             v \in Updates /\ v.of = u.of /\ v.row = u.row
             /\ (v.behind <=> u.behind \/ schedule'[u.of] # schedule[u.of])
  <2>1. u \in Updates
    BY DEF TypeOK
  <2> QED BY <2>1 DEF Updates
<1>2. \A v \in update' : \E u \in update : v = [u EXCEPT !.behind = @ \/ schedule'[u.of] # schedule[u.of]]
  BY DEF Overtaken
<1>3. ASSUME NEW v \in update'
      PROVE  /\ v \in Updates
             /\ \E u \in update : v.of = u.of /\ v.row = u.row /\ (v.behind <=> u.behind \/ schedule'[u.of] # schedule[u.of])
  <2>1. PICK u \in update : v = [u EXCEPT !.behind = @ \/ schedule'[u.of] # schedule[u.of]]
    BY <1>2
  <2> QED BY <1>1, <2>1
<1> QED BY <1>3

LEMMA TypeInit == SchedulesAssumption /\ SchedulesInit => TypeOK
<1> SUFFICES ASSUME SchedulesAssumption, SchedulesInit PROVE TypeOK
  OBVIOUS
<1>1. schedule \in [Schedules -> Schedule \union {NoSchedule, Deleted}]
  <2>1. ASSUME NEW period \in Periods PROVE Started(period) \in Schedule
    <3>1. Instant(1) \in Position
      BY ArePlaces DEF SchedulesAssumption
    <3>2. nextCronOccurrence(period, 1) \in Nat \ {0}
      BY NextIsLater
    <3>3. period * (1 \div period + 1) = nextCronOccurrence(period, 1)
      <4>1. period \in Nat \ {0}
        BY DEF SchedulesAssumption
      <4>2. \A b \in Nat \ {0} : 1 \div b \in Nat /\ b * (1 \div b + 1) = (1 \div b + 1) * b
        OBVIOUS
      <4> QED BY <4>1, <4>2 DEF nextCronOccurrence
    <3> QED BY <3>1, <3>2, <3>3 DEF Started, Schedule
  <2> QED BY <2>1 DEF SchedulesInit
<1>2. published \in [Candidates -> 0..MaxClock] /\ committing \in [Candidates -> 0..MaxClock]
  BY DEF SchedulesInit, SchedulesAssumption
<1>3. runner \in [Runners -> {NotRunning} \union Claiming \union Runs] /\ update \in SUBSET Updates
  BY DEF SchedulesInit
<1>4. clock \in 1..MaxClock /\ acts \in Nat
  BY DEF SchedulesInit, SchedulesAssumption
<1>5. claims \in [Schedules -> [1..MaxClock -> Nat]]
  BY DEF SchedulesInit
<1>6. {handled, late, repeated} \subseteq SUBSET (Schedules \X Publications)
  BY DEF SchedulesInit
<1>7. baseline \in [Schedules -> Nat] /\ instants \in [Schedules -> SUBSET Nat]
      /\ causes \in [Schedules -> SUBSET Causes]
  BY DEF SchedulesInit
<1> QED BY <1>1, <1>2, <1>3, <1>4, <1>5, <1>6, <1>7 DEF TypeOK

\* A row with another next firing or another cursor is a row.
LEMMA RowFiring ==
  ASSUME NEW r \in Schedule, NEW t \in Nat \ {0}
  PROVE  /\ [r EXCEPT !.nextRunAt = t] \in Schedule
         /\ [r EXCEPT !.nextRunAt = t].cursor = r.cursor /\ [r EXCEPT !.nextRunAt = t].nextRunAt = t
  BY DEF Schedule

LEMMA RowCursor ==
  ASSUME NEW r \in Schedule, NEW c \in Position
  PROVE  /\ [r EXCEPT !.cursor = c] \in Schedule
         /\ [r EXCEPT !.cursor = c].cursor = c /\ [r EXCEPT !.cursor = c].nextRunAt = r.nextRunAt
  BY DEF Schedule

LEMMA PatchedIs ==
  ASSUME SchedulesAssumption, TypeOK, NEW r \in Schedule, NEW cron \in Periods \union {NoCron}, NEW enabled \in BOOLEAN
  PROVE  /\ Patched(r, cron, enabled) \in Schedule /\ Patched(r, cron, enabled).cursor = r.cursor
         /\ Patched(r, cron, enabled).nextRunAt = r.nextRunAt \/ clock < Patched(r, cron, enabled).nextRunAt
<1> DEFINE period == IF cron = NoCron THEN r.period ELSE cron
           t == IF cron # NoCron \/ (enabled /\ ~r.enabled /\ r.nextRunAt <= clock)
                THEN nextCronOccurrence(period, clock) ELSE r.nextRunAt
<1>1. period \in Periods
  BY DEF Schedule
<1>2. clock \in Nat
  BY DEF TypeOK
<1>3. Patched(r, cron, enabled) = [r EXCEPT !.period = period, !.enabled = enabled, !.nextRunAt = t]
  BY DEF Patched, Schedule
<1> HIDE DEF period
<1>4. nextCronOccurrence(period, clock) \in Nat \ {0} /\ clock < nextCronOccurrence(period, clock)
  BY <1>1, <1>2, NextIsLater
<1>5. t \in Nat \ {0} /\ (t = r.nextRunAt \/ clock < t)
  BY <1>4 DEF Schedule
<1> HIDE DEF t
<1> QED BY <1>1, <1>3, <1>5 DEF Schedule

LEMMA RunnerChange ==
  ASSUME TypeOK, NEW k \in Runners, NEW r \in {NotRunning} \union Claiming \union Runs,
         runner' = [runner EXCEPT ![k] = r]
  PROVE  runner' \in [Runners -> {NotRunning} \union Claiming \union Runs]
  BY DEF TypeOK

\* The first of what is left of a page is a publication the listing found.
LEMMA NextEntry ==
  ASSUME SchedulesAssumption, TypeOK, NEW k \in Runners, runner[k].step = "run", RunnerTimes(k)
  PROVE  /\ Works(k) /\ First(runner[k].left) \in runner[k].left
         /\ First(runner[k].left) \in Publications /\ First(runner[k].left) \in Position
         /\ \A q \in runner[k].left \ {First(runner[k].left)} : Before(First(runner[k].left), q)
<1>1. Works(k)
  BY DEF Works
<1>2. runner[k].left \subseteq Publications /\ runner[k].left # {}
  BY <1>1, RunShape DEF RunnerTimes
<1> QED BY <1>1, <1>2, FirstIsLeast, ArePlaces

LEMMA TypePublish ==
  ASSUME SchedulesAssumption, TypeOK, NEW e \in Candidates, BeginPublish(e) \/ CommitPublish(e) \/ Unpublish(e)
  PROVE  TypeOK'
<1>1. CASE BeginPublish(e)
  BY <1>1 DEF TypeOK, BeginPublish, Act, history
<1>2. CASE CommitPublish(e)
  <2> DEFINE p == [at |-> committing[e], entry |-> e]
  <2>1. p \in Publications
    BY <1>2 DEF TypeOK, CommitPublish, Publications
  <2>2. late' = late \union {<<s, p>> : s \in {s \in Schedules : PassedBy(s, p)}}
    BY <1>2 DEF CommitPublish
  <2> HIDE DEF p
  <2>3. late' \subseteq Schedules \X Publications
    BY <2>1, <2>2 DEF TypeOK
  <2>4. published' \in [Candidates -> 0..MaxClock] /\ committing' \in [Candidates -> 0..MaxClock]
    BY <1>2 DEF TypeOK, CommitPublish, SchedulesAssumption
  <2> QED BY <1>2, <2>3, <2>4 DEF TypeOK, CommitPublish
<1>3. CASE Unpublish(e)
  BY <1>3 DEF TypeOK, Unpublish, Act, history
<1> QED BY <1>1, <1>2, <1>3

LEMMA TypeAdmin ==
  ASSUME SchedulesAssumption, TypeOK, NEW s \in Schedules,
         \/ \E period \in Periods : createAgentSchedule(s, period)
         \/ \E cron \in Periods \union {NoCron}, enabled \in BOOLEAN : BeginUpdate(s, cron, enabled)
         \/ deleteAgentSchedule(s)
  PROVE  TypeOK'
<1>1. ASSUME NEW period \in Periods, createAgentSchedule(s, period) PROVE TypeOK'
  <2>1. nextCronOccurrence(period, clock) \in Nat \ {0} /\ Unset \in Position
    BY NextIsLater, ArePlaces DEF TypeOK
  <2>2. schedule' \in [Schedules -> Schedule \union {NoSchedule, Deleted}]
    BY <1>1, <2>1 DEF TypeOK, createAgentSchedule, Schedule
  <2> QED BY <1>1, <2>2 DEF TypeOK, createAgentSchedule, history
<1>2. ASSUME NEW cron \in Periods \union {NoCron}, NEW enabled \in BOOLEAN, BeginUpdate(s, cron, enabled)
      PROVE  TypeOK'
  <2>1. schedule[s] \in Schedule
    BY <1>2, RowShapes DEF BeginUpdate
  <2>2. Patched(schedule[s], cron, enabled) \in Schedule
    BY <2>1, PatchedIs
  <2>3. update' \in SUBSET Updates
    <3>1. [of |-> s, row |-> Patched(schedule[s], cron, enabled), behind |-> FALSE] \in Updates
      BY <2>2 DEF Updates
    <3> QED BY <1>2, <3>1 DEF TypeOK, BeginUpdate
  <2> QED BY <1>2, <2>3 DEF TypeOK, BeginUpdate, Act, history
<1>3. CASE deleteAgentSchedule(s)
  BY <1>3 DEF TypeOK, deleteAgentSchedule, Act, history
<1> QED BY <1>1, <1>2, <1>3

LEMMA TypeSave ==
  ASSUME SchedulesAssumption, TypeOK, NEW u \in update, SaveUpdate(u)
  PROVE  TypeOK'
<1>1. u.of \in Schedules /\ u.row \in Schedule
  BY DEF TypeOK, Updates
<1>2. schedule' \in [Schedules -> Schedule \union {NoSchedule, Deleted}]
  BY <1>1 DEF TypeOK, SaveUpdate
<1>3. causes' \in [Schedules -> SUBSET Causes]
  BY <1>1 DEF TypeOK, SaveUpdate, Causes
<1>4. update' \in SUBSET Updates
  BY DEF TypeOK, SaveUpdate
<1> QED BY <1>2, <1>3, <1>4 DEF TypeOK, SaveUpdate

LEMMA HandleType ==
  ASSUME TypeOK, NEW s \in Schedules, NEW p \in Publications, Handle(s, p)
  PROVE  handled' \subseteq Schedules \X Publications /\ repeated' \subseteq Schedules \X Publications
  BY DEF TypeOK, Handle

LEMMA TypeFind ==
  ASSUME TypeOK, NEW k \in Runners, ListDue(k)
  PROVE  TypeOK'
<1>1. DueRows \in SUBSET DueCopies
  BY RowShapes DEF DueRows, DueCopies
<1>2. [step |-> "claim", due |-> DueRows, now |-> clock] \in Claiming
  BY <1>1 DEF TypeOK, Claiming
<1>3. runner' \in [Runners -> {NotRunning} \union Claiming \union Runs]
  BY <1>2 DEF ListDue, TypeOK
<1> QED BY <1>3 DEF ListDue, TypeOK, history

LEMMA CountsUp ==
  ASSUME NEW S, NEW f \in [S -> Nat], NEW x \in S
  PROVE  [f EXCEPT ![x] = @ + 1] \in [S -> Nat]
  OBVIOUS

LEMMA TypeClaim ==
  ASSUME SchedulesAssumption, TypeOK, NEW k \in Runners, RunnerTimes(k), Claim(k)
  PROVE  TypeOK'
<1>1. ASSUME NEW d, Won(k, d) PROVE TypeOK'
  <2> USE <1>1 DEF Won
  <2>1. d \in DueCopies /\ Claimed(k, d) \in Runs
    BY ClaimedIs
  <2>2. d.of \in Schedules /\ d.row \in Schedule /\ d.row.period \in Periods
    BY <2>1 DEF DueCopies, Schedule
  <2>3. runner[k].now \in Nat
    BY Shapes DEF Claiming
  <2>4. schedule[d.of] \in Schedule
    BY <2>2, RowShapes DEF Claimable
  <2>5. nextCronOccurrence(d.row.period, runner[k].now) \in Nat \ {0}
    BY <2>2, <2>3, NextIsLater
  <2>6. schedule' \in [Schedules -> Schedule \union {NoSchedule, Deleted}]
    BY <2>2, <2>4, <2>5 DEF TypeOK, Schedule
  <2>7. runner' \in [Runners -> {NotRunning} \union Claiming \union Runs]
    BY <2>1, RunnerChange
  <2>8. claims' \in [Schedules -> [1..MaxClock -> Nat]]
    <3>1. d.row.nextRunAt \in 1..MaxClock
      <4>1. runner[k] \in Claiming
        BY Shapes
      <4>2. runner[k].now \in 1..MaxClock /\ d.row.nextRunAt <= runner[k].now
        BY <4>1 DEF Claiming, RunnerTimes
      <4>3. d.row.nextRunAt \in Nat \ {0}
        BY <2>2 DEF Schedule
      <4> QED BY <4>2, <4>3 DEF SchedulesAssumption
    <3>2. claims[d.of] \in [1..MaxClock -> Nat]
      BY <2>2 DEF TypeOK
    <3>3. [claims[d.of] EXCEPT ![d.row.nextRunAt] = @ + 1] \in [1..MaxClock -> Nat]
      BY <3>1, <3>2, CountsUp
    <3> QED BY <2>2, <3>3 DEF TypeOK
  <2>9. baseline' \in [Schedules -> Nat] /\ causes' \in [Schedules -> SUBSET Causes]
    BY <2>2, <2>3 DEF TypeOK, Causes
  <2>10. update' \in SUBSET Updates
    BY OvertakenKeeps
  <2> QED BY <2>6, <2>7, <2>8, <2>9, <2>10 DEF TypeOK
<1>2. ASSUME NEW d, Lost(k, d) PROVE TypeOK'
  <2> USE <1>2 DEF Lost
  <2>1. runner[k] # NotRunning
    BY DEF NotRunning
  <2>2. runner[k].due \ {d} \in SUBSET DueCopies
    BY Shapes
  <2>3. Rest(k, runner[k].due \ {d}) \in {NotRunning} \union Claiming
    BY <2>1, <2>2, RestIs
  <2>4. runner' \in [Runners -> {NotRunning} \union Claiming \union Runs]
    BY <2>3, RunnerChange
  <2>5. update' \in SUBSET Updates
    BY OvertakenKeeps
  <2> QED BY <2>4, <2>5 DEF TypeOK
<1> QED BY <1>1, <1>2, ClaimEither

LEMMA TypeList ==
  ASSUME SchedulesAssumption, TypeOK, NEW k \in Runners, ListPublished(k)
  PROVE  TypeOK'
<1>1. runner[k] \in Runs /\ runner[k].cursor \in Position
  BY RunShape DEF ListPublished, Works
<1>2. Page(runner[k].cursor) \in SUBSET Publications /\ IsFull(runner[k].cursor) \in BOOLEAN
  BY <1>1, PageIsFirst
<1> DEFINE left == Page(runner[k].cursor)
           full == IsFull(runner[k].cursor)
           next == Continue(runner[k], left, full, runner[k].cursor, FALSE)
<1>3. left \in SUBSET Publications /\ full \in BOOLEAN /\ runner' = [runner EXCEPT ![k] = next]
  BY <1>2 DEF ListPublished
<1> HIDE DEF left, full
<1>4. runner' \in [Runners -> {NotRunning} \union Claiming \union Runs]
  <2>1. Continues(runner[k], next, left, full, runner[k].cursor)
    BY <1>1, <1>3, ContinueIs
  <2>2. next \in Runs
    BY <2>1 DEF Continues
  <2> HIDE DEF next
  <2> QED BY <1>3, <2>2, RunnerChange
<1> QED BY <1>4 DEF TypeOK, ListPublished, history

LEMMA TypeRun ==
  ASSUME SchedulesAssumption, TypeOK, NEW k \in Runners, RunnerTimes(k), NEW ceiling \in BOOLEAN, RunEntry(k, ceiling)
  PROVE  TypeOK'
<1> DEFINE p == First(runner[k].left)
<1>1. p \in Publications /\ p \in Position /\ Works(k)
  BY NextEntry DEF RunEntry
<1>2. runner[k] \in Runs /\ runner[k].left \ {p} \in SUBSET Publications /\ runner[k].full \in BOOLEAN
      /\ runner[k].of \in Schedules
  BY <1>1, RunShape
<1>3. Handle(runner[k].of, p) /\ runner' = [runner EXCEPT ![k] = Continue(runner[k], runner[k].left \ {p}, runner[k].full, p, ceiling)]
  BY DEF RunEntry
<1> HIDE DEF p
<1>4. runner' \in [Runners -> {NotRunning} \union Claiming \union Runs]
  <2> DEFINE left == runner[k].left \ {p}
             next == Continue(runner[k], left, runner[k].full, p, ceiling)
  <2>1. left \in SUBSET Publications /\ runner' = [runner EXCEPT ![k] = next]
    BY <1>2, <1>3
  <2> HIDE DEF left
  <2>2. Continues(runner[k], next, left, runner[k].full, p)
    BY <1>1, <1>2, <2>1, ContinueIs
  <2>3. next \in Runs
    BY <2>2 DEF Continues
  <2> QED BY <2>1, <2>3, RunnerChange
<1>5. handled' \subseteq Schedules \X Publications /\ repeated' \subseteq Schedules \X Publications
  BY <1>1, <1>2, <1>3, HandleType
<1> QED BY <1>4, <1>5 DEF TypeOK, RunEntry

LEMMA TypeFails ==
  ASSUME SchedulesAssumption, TypeOK, NEW k \in Runners, RunnerTimes(k), NEW effect \in BOOLEAN, RunFails(k, effect)
  PROVE  TypeOK'
<1>1. Works(k)
  BY DEF RunFails, Works
<1>2. runner[k] \in Runs /\ runner[k].of \in Schedules
  BY <1>1, RunShape
<1>3. handled' \subseteq Schedules \X Publications /\ repeated' \subseteq Schedules \X Publications
  <2>1. CASE effect
    <3>1. First(runner[k].left) \in Publications /\ Handle(runner[k].of, First(runner[k].left))
      BY <2>1, NextEntry DEF RunFails
    <3> QED BY <1>2, <3>1, HandleType
  <2>2. CASE ~effect
    BY <2>2 DEF RunFails, TypeOK
  <2> QED BY <2>1, <2>2
<1>4. [runner[k] EXCEPT !.step = "save", !.left = {}, !.full = FALSE] \in Runs
  BY <1>2 DEF Runs
<1>5. runner' \in [Runners -> {NotRunning} \union Claiming \union Runs]
  BY <1>4, RunnerChange DEF RunFails
<1>6. causes' \in [Schedules -> SUBSET Causes] /\ acts' \in Nat
  BY <1>2 DEF RunFails, TypeOK, Causes, Act
<1> QED BY <1>3, <1>5, <1>6 DEF TypeOK, RunFails

LEMMA TypeSaveRun ==
  ASSUME SchedulesAssumption, TypeOK, NEW k \in Runners, SaveRunState(k)
  PROVE  TypeOK'
<1>1. Works(k)
  BY DEF SaveRunState, Works
<1>2. runner[k] # NotRunning /\ runner[k].of \in Schedules /\ runner[k].cursor \in Position
      /\ runner[k].due \in SUBSET DueCopies
  BY <1>1, RunShape
<1>3. runner' \in [Runners -> {NotRunning} \union Claiming \union Runs]
  BY <1>2, RestIs, RunnerChange DEF SaveRunState
<1>4. schedule' \in [Schedules -> Schedule \union {NoSchedule, Deleted}]
  <2>1. CASE Exists(runner[k].of)
    <3>1. schedule[runner[k].of] \in Schedule
      BY <1>2, <2>1, RowShapes
    <3>2. [schedule[runner[k].of] EXCEPT !.cursor = runner[k].cursor] \in Schedule
      BY <1>2, <3>1, RowCursor
    <3>3. schedule' = [schedule EXCEPT ![runner[k].of] = [schedule[runner[k].of] EXCEPT !.cursor = runner[k].cursor]]
      BY <2>1 DEF SaveRunState
    <3> QED BY <1>2, <3>2, <3>3 DEF TypeOK
  <2>2. CASE ~Exists(runner[k].of)
    BY <2>2 DEF SaveRunState, TypeOK
  <2> QED BY <2>1, <2>2
<1>5. instants' \in [Schedules -> SUBSET Nat]
  <2>1. runner[k].cursor.at \in Nat
    BY <1>2 DEF Position
  <2> QED BY <1>2, <2>1 DEF SaveRunState, TypeOK
<1>6. update' \in SUBSET Updates
  BY OvertakenKeeps DEF SaveRunState
<1> QED BY <1>3, <1>4, <1>5, <1>6 DEF TypeOK, SaveRunState

LEMMA TypeCrash ==
  ASSUME TypeOK, NEW k \in Runners, RunnerCrashes(k)
  PROVE  TypeOK'
<1>1. runner' \in [Runners -> {NotRunning} \union Claiming \union Runs]
  BY RunnerChange DEF RunnerCrashes
<1>2. causes' \in [Schedules -> SUBSET Causes] /\ acts' \in Nat
  BY RunShape DEF RunnerCrashes, TypeOK, Causes, Act
<1> QED BY <1>1, <1>2 DEF TypeOK, RunnerCrashes

LEMMA TypeStep ==
  ASSUME SchedulesAssumption, TypeOK, \A k \in Runners : RunnerTimes(k), [SchedulesNext]_schedulesVars
  PROVE  TypeOK'
<1>1. CASE TimePasses
  BY <1>1 DEF TypeOK, TimePasses, history, SchedulesAssumption
<1>2. CASE UNCHANGED schedulesVars
  BY <1>2 DEF TypeOK, schedulesVars, history
<1> QED BY <1>1, <1>2, TypePublish, TypeAdmin, TypeSave, TypeFind, TypeClaim, TypeList, TypeRun, TypeFails,
           TypeSaveRun, TypeCrash DEF SchedulesNext

-------------------------------------------------------------------------------
(***************************************************************************)
(* What a step leaves alone.                                               *)
(***************************************************************************)
RunnerActs(k) ==
  \/ ListDue(k) \/ Claim(k) \/ ListPublished(k) \/ SaveRunState(k) \/ RunnerCrashes(k)
  \/ \E ceiling \in BOOLEAN : RunEntry(k, ceiling)
  \/ \E effect \in BOOLEAN : RunFails(k, effect)

AdminActs(s) ==
  \/ \E period \in Periods : createAgentSchedule(s, period)
  \/ \E cron \in Periods \union {NoCron}, enabled \in BOOLEAN : BeginUpdate(s, cron, enabled)
  \/ deleteAgentSchedule(s)

LEMMA NextIs ==
  ASSUME [SchedulesNext]_schedulesVars
  PROVE  \/ TimePasses
         \/ \E e \in Candidates : BeginPublish(e) \/ CommitPublish(e) \/ Unpublish(e)
         \/ \E s \in Schedules : AdminActs(s)
         \/ \E u \in update : SaveUpdate(u)
         \/ \E k \in Runners : RunnerActs(k)
         \/ UNCHANGED schedulesVars
  BY DEF SchedulesNext, AdminActs, RunnerActs

\* A runner moves itself alone.
LEMMA RunnerMoves ==
  ASSUME TypeOK, NEW k \in Runners, RunnerActs(k)
  PROVE  \E r : runner' = [runner EXCEPT ![k] = r]
<1>1. ASSUME Claim(k) PROVE \E r : runner' = [runner EXCEPT ![k] = r]
  BY <1>1, ClaimEither DEF Won, Lost
<1> QED BY <1>1 DEF RunnerActs, ListDue, ListPublished, SaveRunState, RunnerCrashes, RunEntry, RunFails

LEMMA RunnerStays ==
  ASSUME TypeOK, [SchedulesNext]_schedulesVars, NEW o \in Runners
  PROVE  RunnerActs(o) \/ runner'[o] = runner[o]
<1>1. ASSUME NEW k \in Runners, RunnerActs(k), k # o PROVE runner'[o] = runner[o]
  <2>1. PICK r : runner' = [runner EXCEPT ![k] = r]
    BY <1>1, RunnerMoves
  <2> QED BY <1>1, <2>1 DEF TypeOK
<1>2. CASE TimePasses
  BY <1>2 DEF TimePasses
<1>3. ASSUME NEW e \in Candidates, BeginPublish(e) \/ CommitPublish(e) \/ Unpublish(e) PROVE runner' = runner
  BY <1>3 DEF BeginPublish, CommitPublish, Unpublish
<1>4. ASSUME NEW s \in Schedules, AdminActs(s) PROVE runner' = runner
  BY <1>4 DEF AdminActs, createAgentSchedule, BeginUpdate, deleteAgentSchedule
<1>5. ASSUME NEW u \in update, SaveUpdate(u) PROVE runner' = runner
  BY <1>5 DEF SaveUpdate
<1>6. CASE UNCHANGED schedulesVars
  BY <1>6 DEF schedulesVars
<1> QED BY <1>1, <1>2, <1>3, <1>4, <1>5, <1>6, NextIs

\* A step processes nothing, or a run processes the next entry of its page.
Processes(k) == RunnerActs(k) /\ Works(k) /\ Handle(runner[k].of, First(runner[k].left))

LEMMA HandledBy ==
  ASSUME [SchedulesNext]_schedulesVars
  PROVE  handled' = handled \/ \E k \in Runners : Processes(k)
<1>1. ASSUME NEW k \in Runners, NEW ceiling \in BOOLEAN, RunEntry(k, ceiling) PROVE Processes(k)
  BY <1>1 DEF RunEntry, Processes, RunnerActs, Works
<1>2. ASSUME NEW k \in Runners, NEW effect \in BOOLEAN, RunFails(k, effect)
      PROVE  handled' = handled \/ Processes(k)
  BY <1>2 DEF RunFails, Processes, RunnerActs, Works
<1>3. ASSUME NEW k \in Runners, RunnerActs(k) PROVE handled' = handled \/ Processes(k)
  BY <1>1, <1>2, <1>3 DEF RunnerActs, ListDue, Claim, ListPublished, SaveRunState, RunnerCrashes, history
<1>4. ASSUME NEW e \in Candidates, BeginPublish(e) \/ CommitPublish(e) \/ Unpublish(e) PROVE handled' = handled
  BY <1>4 DEF BeginPublish, CommitPublish, Unpublish, history
<1>5. ASSUME NEW s \in Schedules, AdminActs(s) PROVE handled' = handled
  BY <1>5 DEF AdminActs, createAgentSchedule, BeginUpdate, deleteAgentSchedule, history
<1>6. CASE TimePasses \/ (\E u \in update : SaveUpdate(u)) \/ UNCHANGED schedulesVars
  BY <1>6 DEF TimePasses, SaveUpdate, schedulesVars, history
<1> QED BY <1>3, <1>4, <1>5, <1>6, NextIs

\* The clock goes on; what is known of a schedule's causes and baseline only grows.
LEMMA Grows ==
  ASSUME SchedulesAssumption, TypeOK, [SchedulesNext]_schedulesVars
  PROVE  /\ clock' \in Nat /\ clock <= clock' /\ handled \subseteq handled' /\ late \subseteq late' /\ repeated \subseteq repeated'
         /\ \A s \in Schedules : /\ causes[s] \subseteq causes'[s] /\ instants[s] \subseteq instants'[s]
                                 /\ baseline[s] <= baseline'[s] /\ baseline[s] \in Nat
                                 /\ baseline'[s] \in Nat
<1> DEFINE Goal == /\ clock' \in Nat /\ clock <= clock' /\ handled \subseteq handled' /\ late \subseteq late' /\ repeated \subseteq repeated'
                   /\ \A s \in Schedules : /\ causes[s] \subseteq causes'[s] /\ instants[s] \subseteq instants'[s]
                                           /\ baseline[s] <= baseline'[s] /\ baseline[s] \in Nat
                                           /\ baseline'[s] \in Nat
<1>0. clock \in Nat /\ \A s \in Schedules : baseline[s] \in Nat
  BY DEF TypeOK
<1>1. CASE TimePasses
  BY <1>0, <1>1 DEF TimePasses, history
<1>2. ASSUME NEW e \in Candidates, BeginPublish(e) \/ CommitPublish(e) \/ Unpublish(e) PROVE Goal
  BY <1>0, <1>2 DEF BeginPublish, CommitPublish, Unpublish, history
<1>3. ASSUME NEW s \in Schedules, AdminActs(s) PROVE Goal
  BY <1>0, <1>3 DEF AdminActs, createAgentSchedule, BeginUpdate, deleteAgentSchedule, history
<1>4. ASSUME NEW u \in update, SaveUpdate(u) PROVE Goal
  <2>1. \A s \in Schedules : causes[s] \subseteq causes'[s]
    BY <1>4 DEF SaveUpdate, TypeOK, Updates
  <2> QED BY <1>0, <1>4, <2>1 DEF SaveUpdate
<1>5. CASE UNCHANGED schedulesVars
  BY <1>0, <1>5 DEF schedulesVars, history
<1>6. ASSUME NEW k \in Runners, RunnerActs(k) PROVE Goal
  <2>1. CASE ListDue(k)
    BY <1>0, <2>1 DEF ListDue, history
  <2>2. CASE ListPublished(k)
    BY <1>0, <2>2 DEF ListPublished, history
  <2>3. CASE RunnerCrashes(k)
    <3>1. \A s \in Schedules : causes[s] \subseteq causes'[s]
      BY <2>3, RunShape DEF RunnerCrashes, TypeOK
    <3> QED BY <1>0, <2>3, <3>1 DEF RunnerCrashes
  <2>4. CASE SaveRunState(k)
    <3>1. \A s \in Schedules : instants[s] \subseteq instants'[s]
      BY <2>4, RunShape DEF SaveRunState, TypeOK, Works
    <3> QED BY <1>0, <2>4, <3>1 DEF SaveRunState
  <2>5. ASSUME NEW ceiling \in BOOLEAN, RunEntry(k, ceiling) PROVE Goal
    BY <1>0, <2>5 DEF RunEntry, Handle
  <2>6. ASSUME NEW effect \in BOOLEAN, RunFails(k, effect) PROVE Goal
    <3>1. \A s \in Schedules : causes[s] \subseteq causes'[s]
      BY <2>6, RunShape DEF RunFails, TypeOK, Works
    <3> QED BY <1>0, <2>6, <3>1 DEF RunFails, Handle
  <2>7. ASSUME NEW d, Won(k, d) PROVE Goal
    <3>1. d.of \in Schedules /\ runner[k].now \in Nat
      BY <2>7, Shapes DEF Won, DueCopies, Claiming
    <3>2. \A s \in Schedules : causes[s] \subseteq causes'[s] /\ baseline[s] <= baseline'[s] /\ baseline'[s] \in Nat
      BY <1>0, <2>7, <3>1 DEF Won, TypeOK
    <3> QED BY <1>0, <2>7, <3>2 DEF Won
  <2>8. ASSUME NEW d, Lost(k, d) PROVE Goal
    BY <1>0, <2>8 DEF Lost
  <2> QED BY <1>6, <2>1, <2>2, <2>3, <2>4, <2>5, <2>6, <2>7, <2>8, ClaimEither DEF RunnerActs
<1> QED BY <1>1, <1>2, <1>3, <1>4, <1>5, <1>6, NextIs

-------------------------------------------------------------------------------
(***************************************************************************)
(* Instants.                                                               *)
(***************************************************************************)
\* What a runner claims, lists or finishes stays within its instant.
LEMMA RunnerTimesStep ==
  ASSUME SchedulesAssumption, TypeOK, RowTimes, NEW k \in Runners, RunnerTimes(k), [SchedulesNext]_schedulesVars
  PROVE  RunnerTimes(k)'
<1>0. clock \in Nat /\ clock' \in Nat /\ clock <= clock'
  BY Grows DEF TypeOK
<1>1. CASE runner'[k] = runner[k]
  <2>1. runner[k] # NotRunning => runner[k].now \in Nat
    BY Shapes
  <2> QED BY <1>0, <1>1, <2>1 DEF RunnerTimes, Works
<1>2. CASE ListDue(k)
  <2>1. runner'[k] = [step |-> "claim", due |-> DueRows, now |-> clock] /\ clock' = clock
    BY <1>2 DEF ListDue, TypeOK
  <2>2. \A d \in DueRows : d.row.nextRunAt <= clock /\ d.row.cursor.at <= clock
    BY DEF DueRows, isScheduleDue, RowTimes
  <2> QED BY <1>0, <2>1, <2>2 DEF RunnerTimes, Works
<1>3. ASSUME NEW d, Won(k, d) PROVE RunnerTimes(k)'
  <2>1. runner'[k] = Claimed(k, d) /\ clock' = clock /\ runner[k] # NotRunning /\ d \in runner[k].due
    BY <1>3 DEF Won, TypeOK, NotRunning
  <2>2. /\ Claimed(k, d) \in Runs /\ Claimed(k, d).now = runner[k].now /\ Claimed(k, d).due = runner[k].due \ {d}
        /\ Claimed(k, d).step \in {"list", "save"}
        /\ Claimed(k, d).cursor = d.row.cursor \/ Claimed(k, d).cursor = Instant(runner[k].now)
    BY <1>3, ClaimedIs DEF Won
  <2>3. d.row.cursor.at <= runner[k].now /\ Instant(runner[k].now).at <= runner[k].now
    BY <2>1, Shapes DEF RunnerTimes, Instant
  <2> QED BY <2>1, <2>2, <2>3 DEF RunnerTimes, Works
<1>4. ASSUME NEW d, Lost(k, d) PROVE RunnerTimes(k)'
  <2>1. runner[k] # NotRunning /\ runner[k].due \ {d} \in SUBSET DueCopies
    BY <1>4, Shapes DEF Lost, NotRunning
  <2>2. runner'[k] = Rest(k, runner[k].due \ {d}) /\ clock' = clock
    BY <1>4 DEF Lost, TypeOK
  <2>3. /\ runner'[k].due \subseteq runner[k].due /\ runner'[k].step \in {"idle", "claim"}
        /\ runner'[k] # NotRunning => runner'[k].now = runner[k].now
    BY <2>1, <2>2, RestIs
  <2>4. runner'[k] = NotRunning => runner'[k].due = {}
    BY DEF NotRunning
  <2> QED BY <2>1, <2>2, <2>3, <2>4 DEF RunnerTimes, Works
<1>5. CASE ListPublished(k)
  <2> DEFINE run == runner[k]
             left == Page(run.cursor)
             full == IsFull(run.cursor)
             next == Continue(run, left, full, run.cursor, FALSE)
  <2>1. Works(k) /\ runner'[k] = next /\ clock' = clock
    BY <1>5 DEF ListPublished, Works, TypeOK
  <2>2. run \in Runs /\ run.cursor \in Position /\ run # NotRunning /\ run.now \in Nat
    BY <2>1, RunShape
  <2>3. left \in SUBSET Publications /\ full \in BOOLEAN /\ \A q \in left : Before(run.cursor, q)
    BY <2>2, PageIsFirst DEF After
  <2> HIDE DEF left, full
  <2>4. Continues(run, next, left, full, run.cursor)
    BY <2>2, <2>3, ContinueIs
  <2> HIDE DEF next
  <2>5. Instant(run.now).at <= run.now
    BY <2>2 DEF Instant
  <2> QED BY <2>1, <2>2, <2>3, <2>4, <2>5 DEF RunnerTimes, Continues, Works, Runs
<1>6. ASSUME NEW ceiling \in BOOLEAN, RunEntry(k, ceiling) PROVE RunnerTimes(k)'
  <2> DEFINE run == runner[k]
             p == First(run.left)
             left == run.left \ {p}
             next == Continue(run, left, run.full, p, ceiling)
  <2>1. Works(k) /\ runner'[k] = next /\ clock' = clock /\ run.step = "run"
    BY <1>6 DEF RunEntry, Works, TypeOK
  <2>2. run \in Runs /\ run.left \in SUBSET Publications /\ run # NotRunning /\ run.now \in Nat /\ run.full \in BOOLEAN
    BY <2>1, RunShape
  <2>3. left \in SUBSET Publications /\ p \in Position /\ p.at <= run.now /\ \A q \in left : Before(p, q)
    BY <2>1, <2>2, NextEntry DEF RunnerTimes
  <2> HIDE DEF left, p
  <2>4. Continues(run, next, left, run.full, p)
    BY <2>2, <2>3, ContinueIs
  <2> HIDE DEF next
  <2>5. Instant(run.now).at <= run.now
    BY <2>2 DEF Instant
  <2> QED BY <2>1, <2>2, <2>3, <2>4, <2>5 DEF RunnerTimes, Continues, Works, Runs
<1>7. ASSUME NEW effect \in BOOLEAN, RunFails(k, effect) PROVE RunnerTimes(k)'
  <2>1. Works(k) /\ runner'[k] = [runner[k] EXCEPT !.step = "save", !.left = {}, !.full = FALSE] /\ clock' = clock
    BY <1>7 DEF RunFails, Works, TypeOK
  <2>2. runner[k] \in Runs /\ runner[k] # NotRunning
    BY <2>1, RunShape
  <2>3. /\ runner'[k].step = "save" /\ runner'[k].now = runner[k].now /\ runner'[k].due = runner[k].due
        /\ runner'[k].cursor = runner[k].cursor
    BY <2>1, <2>2 DEF Runs
  <2> QED BY <2>1, <2>2, <2>3 DEF RunnerTimes, Works
<1>8. CASE SaveRunState(k)
  <2>1. Works(k) /\ runner'[k] = Rest(k, runner[k].due) /\ clock' = clock
    BY <1>8 DEF SaveRunState, Works, TypeOK
  <2>2. runner[k] # NotRunning /\ runner[k].due \in SUBSET DueCopies
    BY <2>1, RunShape
  <2>3. /\ runner'[k].due \subseteq runner[k].due /\ runner'[k].step \in {"idle", "claim"}
        /\ runner'[k] # NotRunning => runner'[k].now = runner[k].now
    BY <2>1, <2>2, RestIs
  <2>4. runner'[k] = NotRunning => runner'[k].due = {}
    BY DEF NotRunning
  <2> QED BY <2>1, <2>2, <2>3, <2>4 DEF RunnerTimes, Works
<1>9. CASE RunnerCrashes(k)
  <2>1. runner'[k] = NotRunning
    BY <1>9 DEF RunnerCrashes, TypeOK
  <2> QED BY <2>1 DEF RunnerTimes, Works, NotRunning
<1> QED BY <1>1, <1>2, <1>3, <1>4, <1>5, <1>6, <1>7, <1>8, <1>9, RunnerStays, ClaimEither DEF RunnerActs

LEMMA RowTimesStep ==
  ASSUME SchedulesAssumption, TypeOK, RowTimes, \A k \in Runners : RunnerTimes(k), [SchedulesNext]_schedulesVars
  PROVE  RowTimes'
<1>0. clock \in Nat
  BY DEF TypeOK
<1>1. CASE TimePasses
  <2>1. \A s \in Schedules : Exists(s) => schedule[s].cursor.at \in Nat
    BY RowShapes DEF Position
  <2>2. \A u \in update : u.row.cursor.at \in Nat
    BY DEF TypeOK, Updates, Schedule, Position
  <2> QED BY <1>0, <1>1, <2>1, <2>2 DEF RowTimes, TimePasses, Exists, history
<1>2. CASE UNCHANGED schedulesVars
  BY <1>2 DEF RowTimes, Exists, schedulesVars, history
<1>3. ASSUME NEW e \in Candidates, BeginPublish(e) \/ CommitPublish(e) \/ Unpublish(e) PROVE RowTimes'
  BY <1>3 DEF BeginPublish, CommitPublish, Unpublish, RowTimes, Exists, history
<1>4. ASSUME NEW s \in Schedules, AdminActs(s) PROVE RowTimes'
  <2>1. ASSUME NEW period \in Periods, createAgentSchedule(s, period) PROVE RowTimes'
    BY <1>0, <2>1 DEF createAgentSchedule, RowTimes, Exists, TypeOK, Unset, history
  <2>2. ASSUME NEW cron \in Periods \union {NoCron}, NEW enabled \in BOOLEAN, BeginUpdate(s, cron, enabled)
        PROVE  RowTimes'
    <3>1. Exists(s) /\ schedule[s] \in Schedule
      BY <2>2, RowShapes DEF BeginUpdate
    <3>2. Patched(schedule[s], cron, enabled).cursor = schedule[s].cursor
      BY <3>1, PatchedIs
    <3> QED BY <2>2, <3>1, <3>2 DEF BeginUpdate, RowTimes, Exists, history
  <2>3. CASE deleteAgentSchedule(s)
    BY <2>3 DEF deleteAgentSchedule, RowTimes, Exists, TypeOK, history
  <2> QED BY <1>4, <2>1, <2>2, <2>3 DEF AdminActs
<1>5. ASSUME NEW u \in update, SaveUpdate(u) PROVE RowTimes'
  <2>1. \A s \in Schedules : Exists(s)' => schedule'[s].cursor.at <= clock
    <3> SUFFICES ASSUME NEW s \in Schedules, Exists(s)' PROVE schedule'[s].cursor.at <= clock
      OBVIOUS
    <3>1. CASE schedule'[s] = u.row
      BY <3>1 DEF RowTimes
    <3>2. CASE schedule'[s] = schedule[s]
      BY <3>2 DEF RowTimes, Exists
    <3>3. schedule'[s] \in {u.row, schedule[s]}
      BY <1>5 DEF SaveUpdate, TypeOK
    <3> QED BY <3>1, <3>2, <3>3
  <2> QED BY <1>5, <2>1 DEF SaveUpdate, RowTimes
<1>6. ASSUME NEW k \in Runners, RunnerActs(k) PROVE RowTimes'
  <2>1. CASE ListDue(k) \/ ListPublished(k) \/ RunnerCrashes(k) \/ (\E ceiling \in BOOLEAN : RunEntry(k, ceiling))
              \/ (\E effect \in BOOLEAN : RunFails(k, effect))
    <3>1. UNCHANGED <<schedule, update, claims, clock>>
      BY <2>1 DEF ListDue, ListPublished, RunnerCrashes, RunEntry, RunFails, history
    <3> QED BY <3>1 DEF RowTimes, Exists
  <2>2. CASE SaveRunState(k)
    <3>1. Works(k) /\ runner[k] # NotRunning /\ runner[k].of \in Schedules /\ runner[k].cursor \in Position
          /\ runner[k].now \in Nat
      BY <2>2, RunShape DEF SaveRunState, Works
    <3>2. runner[k].cursor.at <= clock
      BY <1>0, <3>1 DEF RunnerTimes, Position
    <3>3. \A s \in Schedules : Exists(s)' => schedule'[s].cursor.at <= clock
      BY <2>2, <3>1, <3>2, RowShapes, RowCursor DEF SaveRunState, RowTimes, Exists, TypeOK
    <3>4. \A u \in update' : u.row.cursor.at <= clock
      BY <2>2, OvertakenKeeps DEF SaveRunState, RowTimes
    <3> QED BY <2>2, <3>3, <3>4 DEF SaveRunState, RowTimes
  <2>3. ASSUME NEW d, Won(k, d) PROVE RowTimes'
    <3>1. d.of \in Schedules /\ d.row.period \in Periods /\ d.row.nextRunAt \in Nat
      BY <2>3, ClaimedIs DEF Won, DueCopies, Schedule
    <3>2. schedule[d.of] \in Schedule /\ Exists(d.of)
      BY <2>3, <3>1, RowShapes DEF Won, Claimable
    <3>3. runner[k].now \in Nat /\ runner[k].now <= clock /\ d.row.nextRunAt <= runner[k].now
      BY <2>3, Shapes DEF Won, Claiming, RunnerTimes, NotRunning
    <3>4. nextCronOccurrence(d.row.period, runner[k].now) \in Nat \ {0}
      BY <3>1, <3>3, NextIsLater
    <3>5. \A s \in Schedules : Exists(s)' => schedule'[s].cursor.at <= clock
      BY <2>3, <3>1, <3>2, <3>4, RowFiring DEF Won, RowTimes, Exists, TypeOK
    <3>6. \A u \in update' : u.row.cursor.at <= clock
      BY <2>3, OvertakenKeeps DEF Won, RowTimes
    <3>7. \A s \in Schedules, t \in 1..MaxClock : claims'[s][t] # 0 => t <= clock
      BY <1>0, <2>3, <3>1, <3>3 DEF Won, RowTimes, TypeOK
    <3> QED BY <2>3, <3>5, <3>6, <3>7 DEF Won, RowTimes
  <2>4. ASSUME NEW d, Lost(k, d) PROVE RowTimes'
    <3>1. \A u \in update' : u.row.cursor.at <= clock
      BY <2>4, OvertakenKeeps DEF Lost, RowTimes
    <3> QED BY <2>4, <3>1 DEF Lost, RowTimes, Exists
  <2> QED BY <1>6, <2>1, <2>2, <2>3, <2>4, ClaimEither DEF RunnerActs
<1> QED BY <1>1, <1>2, <1>3, <1>4, <1>5, <1>6, NextIs

-------------------------------------------------------------------------------
(***************************************************************************)
(* Schedules that are not created.                                         *)
(***************************************************************************)
\* What a runner is at comes from what it was at, or from the rows it finds due.
LEMMA RunnerComesFrom ==
  ASSUME SchedulesAssumption, TypeOK, NEW k \in Runners, RunnerTimes(k), [SchedulesNext]_schedulesVars
  PROVE  /\ \A d \in runner'[k].due : d \in runner[k].due \/ (d.of \in Schedules /\ Exists(d.of) /\ d.row = schedule[d.of])
         /\ \A s \in Schedules : WorksOn(k, s)' => WorksOn(k, s) \/ \E d \in runner[k].due : d.of = s /\ Won(k, d)
<1> DEFINE Goal == /\ \A d \in runner'[k].due : d \in runner[k].due \/ (d.of \in Schedules /\ Exists(d.of) /\ d.row = schedule[d.of])
                   /\ \A s \in Schedules : WorksOn(k, s)' => WorksOn(k, s) \/ \E d \in runner[k].due : d.of = s /\ Won(k, d)
<1>1. CASE runner'[k] = runner[k]
  BY <1>1 DEF WorksOn, Works
<1>2. CASE ListDue(k)
  <2>1. runner'[k] = [step |-> "claim", due |-> DueRows, now |-> clock]
    BY <1>2 DEF ListDue, TypeOK
  <2> QED BY <2>1 DEF DueRows, WorksOn, Works
<1>3. ASSUME NEW d, Won(k, d) PROVE Goal
  <2>1. runner'[k] = Claimed(k, d) /\ d \in runner[k].due /\ Claimed(k, d).of = d.of
        /\ Claimed(k, d).due = runner[k].due \ {d}
    BY <1>3, ClaimedIs DEF Won, TypeOK
  <2> QED BY <1>3, <2>1 DEF WorksOn, Works
<1>4. ASSUME NEW d, Lost(k, d) PROVE Goal
  <2>1. runner[k] # NotRunning /\ runner[k].due \ {d} \in SUBSET DueCopies
    BY <1>4, Shapes DEF Lost, NotRunning
  <2>2. runner'[k] = Rest(k, runner[k].due \ {d})
    BY <1>4 DEF Lost, TypeOK
  <2> QED BY <2>1, <2>2, RestIs DEF WorksOn, Works
<1>5. CASE ListPublished(k)
  <2> DEFINE left == Page(runner[k].cursor)
             full == IsFull(runner[k].cursor)
             next == Continue(runner[k], left, full, runner[k].cursor, FALSE)
  <2>1. Works(k) /\ runner'[k] = next
    BY <1>5 DEF ListPublished, Works, TypeOK
  <2>2. runner[k] \in Runs /\ runner[k].cursor \in Position
    BY <2>1, RunShape
  <2>3. left \in SUBSET Publications /\ full \in BOOLEAN
    BY <2>2, PageIsFirst
  <2> HIDE DEF left, full
  <2>4. Continues(runner[k], next, left, full, runner[k].cursor)
    BY <2>2, <2>3, ContinueIs
  <2> QED BY <2>1, <2>4 DEF Continues, WorksOn
<1>6. ASSUME NEW ceiling \in BOOLEAN, RunEntry(k, ceiling) PROVE Goal
  <2> DEFINE p == First(runner[k].left)
             left == runner[k].left \ {p}
             next == Continue(runner[k], left, runner[k].full, p, ceiling)
  <2>1. Works(k) /\ runner'[k] = next /\ runner[k].step = "run"
    BY <1>6 DEF RunEntry, Works, TypeOK
  <2>2. runner[k] \in Runs /\ runner[k].left \in SUBSET Publications /\ runner[k].full \in BOOLEAN
    BY <2>1, RunShape
  <2>3. left \in SUBSET Publications /\ p \in Position
    BY <2>1, <2>2, NextEntry
  <2> HIDE DEF left, p
  <2>4. Continues(runner[k], next, left, runner[k].full, p)
    BY <2>2, <2>3, ContinueIs
  <2> QED BY <2>1, <2>4 DEF Continues, WorksOn
<1>7. ASSUME NEW effect \in BOOLEAN, RunFails(k, effect) PROVE Goal
  <2>1. Works(k) /\ runner'[k] = [runner[k] EXCEPT !.step = "save", !.left = {}, !.full = FALSE]
    BY <1>7 DEF RunFails, Works, TypeOK
  <2>2. runner[k] \in Runs
    BY <2>1, RunShape
  <2>3. runner'[k].due = runner[k].due /\ runner'[k].of = runner[k].of
    BY <2>1, <2>2 DEF Runs
  <2> QED BY <2>1, <2>3 DEF WorksOn
<1>8. CASE SaveRunState(k)
  <2>1. Works(k) /\ runner'[k] = Rest(k, runner[k].due)
    BY <1>8 DEF SaveRunState, Works, TypeOK
  <2>2. runner[k] # NotRunning /\ runner[k].due \in SUBSET DueCopies
    BY <2>1, RunShape
  <2> QED BY <2>1, <2>2, RestIs DEF WorksOn, Works
<1>9. CASE RunnerCrashes(k)
  <2>1. runner'[k] = NotRunning
    BY <1>9 DEF RunnerCrashes, TypeOK
  <2> QED BY <2>1 DEF WorksOn, Works, NotRunning
<1> QED BY <1>1, <1>2, <1>3, <1>4, <1>5, <1>6, <1>7, <1>8, <1>9, RunnerStays, ClaimEither DEF RunnerActs

LEMMA FreshStep ==
  ASSUME SchedulesAssumption, TypeOK, FreshRows, \A k \in Runners : RunnerTimes(k), [SchedulesNext]_schedulesVars
  PROVE  FreshRows'
<1> SUFFICES ASSUME NEW s \in Schedules, schedule'[s] = NoSchedule PROVE Fresh(s)'
  BY DEF FreshRows
<1>1. schedule[s] = NoSchedule
  <2>1. CASE schedule' = schedule
    BY <2>1
  <2>2. ASSUME NEW o \in Schedules, AdminActs(o) PROVE schedule[s] = NoSchedule
    <3>1. ASSUME NEW period \in Periods, createAgentSchedule(o, period) PROVE schedule[s] = NoSchedule
      BY <3>1 DEF createAgentSchedule, TypeOK
    <3>2. CASE deleteAgentSchedule(o)
      BY <3>2 DEF deleteAgentSchedule, TypeOK, NoSchedule, Deleted
    <3> QED BY <2>1, <2>2, <3>1, <3>2 DEF AdminActs, BeginUpdate
  <2>3. ASSUME NEW u \in update, SaveUpdate(u) PROVE schedule[s] = NoSchedule
    <3>1. u.of \in Schedules /\ u.row \in Schedule
      BY DEF TypeOK, Updates
    <3>2. u.row # NoSchedule
      BY <3>1 DEF Schedule, NoSchedule
    <3> QED BY <2>3, <3>1, <3>2 DEF SaveUpdate, TypeOK
  <2>4. ASSUME NEW k \in Runners, SaveRunState(k) PROVE schedule[s] = NoSchedule
    <3>1. runner[k].of \in Schedules /\ runner[k].cursor \in Position
      BY <2>4, RunShape DEF SaveRunState, Works
    <3>2. Exists(runner[k].of) => [schedule[runner[k].of] EXCEPT !.cursor = runner[k].cursor] # NoSchedule
      <4>1. Exists(runner[k].of) => [schedule[runner[k].of] EXCEPT !.cursor = runner[k].cursor] \in Schedule
        BY <3>1, RowShapes, RowCursor
      <4> QED BY <4>1 DEF Schedule, NoSchedule
    <3> QED BY <2>4, <3>1, <3>2 DEF SaveRunState, TypeOK
  <2>5. ASSUME NEW k \in Runners, NEW d, Won(k, d) PROVE schedule[s] = NoSchedule
    <3>1. d.of \in Schedules /\ d.row.period \in Periods /\ runner[k].now \in Nat
      BY <2>5, ClaimedIs, Shapes DEF Won, DueCopies, Schedule, Claiming
    <3>2. schedule[d.of] \in Schedule
      BY <2>5, <3>1, RowShapes DEF Won, Claimable
    <3>3. nextCronOccurrence(d.row.period, runner[k].now) \in Nat \ {0}
      BY <3>1, NextIsLater
    <3>4. [schedule[d.of] EXCEPT !.nextRunAt = nextCronOccurrence(d.row.period, runner[k].now)] # NoSchedule
      <4>1. [schedule[d.of] EXCEPT !.nextRunAt = nextCronOccurrence(d.row.period, runner[k].now)] \in Schedule
        BY <3>2, <3>3, RowFiring
      <4> QED BY <4>1 DEF Schedule, NoSchedule
    <3> QED BY <2>5, <3>1, <3>4 DEF Won, TypeOK
  <2> QED BY <2>1, <2>2, <2>3, <2>4, <2>5, NextIs, ClaimEither
          DEF TimePasses, BeginPublish, CommitPublish, Unpublish, RunnerActs, ListDue, ListPublished, RunnerCrashes, RunEntry,
              RunFails, Lost, schedulesVars
<1>2. Fresh(s) /\ ~Exists(s)
  BY <1>1 DEF FreshRows, Exists
<1>3. \A k \in Runners : ~WorksOn(k, s)' /\ \A d \in runner'[k].due : d.of # s
  BY <1>2, RunnerComesFrom DEF Fresh
<1>4. \A u \in update' : u.of # s
  <2>1. CASE Overtaken
    BY <1>2, <2>1, OvertakenKeeps DEF Fresh
  <2>2. ASSUME NEW o \in Schedules, AdminActs(o) PROVE \A u \in update' : u.of # s
    BY <1>2, <2>2 DEF AdminActs, createAgentSchedule, BeginUpdate, deleteAgentSchedule, Fresh
  <2>3. ASSUME NEW u \in update, SaveUpdate(u) PROVE \A v \in update' : v.of # s
    BY <1>2, <2>3 DEF SaveUpdate, Fresh
  <2>4. CASE UNCHANGED update
    BY <1>2, <2>4 DEF Fresh
  <2> QED BY <2>1, <2>2, <2>3, <2>4, NextIs
          DEF TimePasses, BeginPublish, CommitPublish, Unpublish, RunnerActs, Claim, SaveRunState, ListDue, ListPublished,
              RunnerCrashes, RunEntry, RunFails, schedulesVars
<1>5. \A t \in 1..MaxClock : claims'[s][t] = 0
  <2>1. CASE UNCHANGED claims
    BY <1>2, <2>1 DEF Fresh
  <2>2. ASSUME NEW k \in Runners, NEW d, Won(k, d) PROVE claims'[s] = claims[s]
    BY <1>2, <2>2 DEF Won, Fresh, TypeOK
  <2> QED BY <1>2, <2>1, <2>2, NextIs, ClaimEither
          DEF TimePasses, BeginPublish, CommitPublish, Unpublish, AdminActs, createAgentSchedule, BeginUpdate,
              deleteAgentSchedule, SaveUpdate, RunnerActs, Lost, SaveRunState, ListDue, ListPublished, RunnerCrashes, RunEntry,
              RunFails, schedulesVars, history, Fresh
<1>6. \A p \in Publications : <<s, p>> \notin handled'
  <2>1. CASE UNCHANGED handled
    BY <1>2, <2>1 DEF Fresh
  <2>2. ASSUME NEW k \in Runners, Processes(k) PROVE \A p \in Publications : <<s, p>> \notin handled'
    BY <1>2, <2>2 DEF Processes, Handle, Fresh, WorksOn
  <2> QED BY <2>1, <2>2, HandledBy
<1> QED BY <1>3, <1>4, <1>5, <1>6 DEF Fresh

-------------------------------------------------------------------------------
(***************************************************************************)
(* A firing is claimed once.                                               *)
(***************************************************************************)
LEMMA AheadStays ==
  ASSUME TypeOK, NEW s \in Schedules, Ahead(s), schedule'[s] = schedule[s], claims'[s] = claims[s],
         \A v \in update' : v.of = s => \E u \in update : u.of = s /\ u.row = v.row /\ (u.behind => v.behind)
  PROVE  Ahead(s)'
  BY DEF Ahead, Exists, ClaimedBefore

LEMMA AheadAdmin ==
  ASSUME SchedulesAssumption, TypeOK, RowTimes, FreshRows, NEW s \in Schedules, NEW o \in Schedules, AdminActs(o),
         Ahead(s)
  PROVE  Ahead(s)'
<1>0. clock \in Nat /\ claims[s] \in [1..MaxClock -> Nat]
  BY DEF TypeOK
<1>1. ASSUME NEW period \in Periods, createAgentSchedule(o, period) PROVE Ahead(s)'
  <2>1. CASE o # s
    BY <1>1, <2>1, AheadStays DEF createAgentSchedule, history, TypeOK
  <2>2. CASE o = s
    <3>1. Fresh(s)
      BY <1>1, <2>2 DEF createAgentSchedule, FreshRows
    <3>2. claims' = claims /\ update' = update
      BY <1>1 DEF createAgentSchedule, history
    <3> QED BY <3>1, <3>2 DEF Ahead, ClaimedBefore, Fresh
  <2> QED BY <2>1, <2>2
<1>2. ASSUME NEW cron \in Periods \union {NoCron}, NEW enabled \in BOOLEAN, BeginUpdate(o, cron, enabled)
      PROVE  Ahead(s)'
  <2> DEFINE r == Patched(schedule[o], cron, enabled)
             new == [of |-> o, row |-> r, behind |-> FALSE]
  <2>1. schedule' = schedule /\ claims' = claims /\ update' = update \union {new} /\ Exists(o)
    BY <1>2 DEF BeginUpdate, history
  <2>2. schedule[o] \in Schedule
    BY <2>1, RowShapes
  <2>3. r.cursor = schedule[o].cursor /\ (r.nextRunAt = schedule[o].nextRunAt \/ clock < r.nextRunAt) /\ r \in Schedule
    BY <2>2, PatchedIs
  <2>4. ClaimedBefore(o, schedule[o].nextRunAt) => ClaimedBefore(o, r.nextRunAt)
    <3>1. r.nextRunAt \in Nat
      BY <2>3 DEF Schedule
    <3> QED BY <1>0, <2>3, <3>1 DEF ClaimedBefore, RowTimes
  <2>5. new.of = o /\ new.row = r
    OBVIOUS
  <2> HIDE DEF new, r
  <2>6. \A u \in update' : u \in update \/ (u.of = o /\ u.row = r)
    BY <2>1, <2>5
  <2> QED BY <2>1, <2>3, <2>4, <2>6 DEF Ahead, ClaimedBefore, Exists
<1>3. CASE deleteAgentSchedule(o)
  <2>1. CASE o # s
    BY <1>3, <2>1, AheadStays DEF deleteAgentSchedule, history, TypeOK
  <2>2. CASE o = s
    BY <1>3, <2>2 DEF deleteAgentSchedule, Ahead, Exists, history, TypeOK
  <2> QED BY <2>1, <2>2
<1> QED BY <1>1, <1>2, <1>3 DEF AdminActs

LEMMA AheadSave ==
  ASSUME TypeOK, NEW s \in Schedules, NEW u \in update, SaveUpdate(u), Ahead(s), Sound(s)'
  PROVE  Ahead(s)'
<1>0. u.of \in Schedules /\ u.row \in Schedule /\ claims' = claims /\ update' = update \ {u}
  BY DEF TypeOK, Updates, SaveUpdate
<1>1. CASE u.of = s /\ Exists(s)
  <2>1. schedule'[s] = u.row
    BY <1>1 DEF SaveUpdate, TypeOK
  <2>2. ~u.behind
    BY <1>1 DEF SaveUpdate, TypeOK, Sound
  <2>3. u.row.cursor = schedule[s].cursor /\ ClaimedBefore(s, u.row.nextRunAt)
    BY <1>1, <2>2 DEF Ahead
  <2> QED BY <1>0, <1>1, <2>1, <2>3 DEF Ahead, ClaimedBefore
<1>2. CASE ~(u.of = s /\ Exists(s))
  <2>1. schedule'[s] = schedule[s]
    BY <1>2 DEF SaveUpdate, TypeOK
  <2> QED BY <1>0, <2>1, AheadStays
<1> QED BY <1>1, <1>2

LEMMA AheadSaveRun ==
  ASSUME SchedulesAssumption, TypeOK, NEW s \in Schedules, NEW k \in Runners, SaveRunState(k), Ahead(s)
  PROVE  Ahead(s)'
<1>1. Works(k) /\ runner[k].of \in Schedules /\ runner[k].cursor \in Position /\ claims' = claims /\ Overtaken
  BY RunShape DEF SaveRunState, Works
<1>2. CASE runner[k].of = s /\ Exists(s)
  <2>1. schedule'[s] = [schedule[s] EXCEPT !.cursor = runner[k].cursor] /\ schedule[s] \in Schedule
    BY <1>1, <1>2, RowShapes DEF SaveRunState, TypeOK
  <2>2. schedule'[s] \in Schedule /\ schedule'[s].nextRunAt = schedule[s].nextRunAt
    BY <1>1, <2>1, RowCursor
  <2>3. \A v \in update' : v.of = s /\ ~v.behind =>
          \E u \in update : u.of = s /\ ~u.behind /\ v.row = u.row /\ schedule'[s] = schedule[s]
    BY <1>1, OvertakenKeeps
  <2>4. \A v \in update' : v.of = s /\ ~v.behind => v.row.cursor = schedule'[s].cursor /\ ClaimedBefore(s, v.row.nextRunAt)
    BY <1>2, <2>3 DEF Ahead
  <2> QED BY <1>1, <1>2, <2>2, <2>4 DEF Ahead, ClaimedBefore
<1>3. CASE ~(runner[k].of = s /\ Exists(s))
  <2>1. schedule'[s] = schedule[s]
    BY <1>3 DEF SaveRunState, TypeOK
  <2>2. \A v \in update' : v.of = s => \E u \in update : u.of = s /\ u.row = v.row /\ (u.behind => v.behind)
    BY <1>1, OvertakenKeeps
  <2> QED BY <1>1, <2>1, <2>2, AheadStays
<1> QED BY <1>2, <1>3

LEMMA AheadClaim ==
  ASSUME SchedulesAssumption, TypeOK, NEW s \in Schedules, NEW k \in Runners, RunnerTimes(k), NEW d, Won(k, d), Ahead(s)
  PROVE  Ahead(s)'
<1>1. d.of \in Schedules /\ d.row.period \in Periods /\ d.row.nextRunAt \in Nat \ {0} /\ Overtaken
  BY ClaimedIs DEF Won, DueCopies, Schedule
<1>2. runner[k].now \in 1..MaxClock /\ d.row.nextRunAt <= runner[k].now
  BY Shapes DEF Won, Claiming, RunnerTimes
<1> DEFINE t == d.row.nextRunAt
           next == nextCronOccurrence(d.row.period, runner[k].now)
<1>3. t \in 1..MaxClock
  BY <1>1, <1>2 DEF SchedulesAssumption
<1>4. next \in Nat \ {0} /\ t < next
  <2>1. next \in Nat \ {0} /\ runner[k].now < next
    BY <1>1, <1>2, NextIsLater
  <2> QED BY <1>1, <1>2, <2>1
<1>5. Exists(d.of) /\ schedule[d.of] \in Schedule /\ schedule[d.of].nextRunAt = t
  BY <1>1, RowShapes DEF Won, Claimable
<1>6. CASE d.of = s
  <2>1. schedule'[s] = [schedule[s] EXCEPT !.nextRunAt = next]
    BY <1>5, <1>6 DEF Won, TypeOK
  <2>2. claims'[s] = [claims[s] EXCEPT ![t] = @ + 1] /\ claims[s] \in [1..MaxClock -> Nat]
    BY <1>1, <1>6 DEF Won, TypeOK
  <2> HIDE DEF next, t
  <2>3. schedule'[s] \in Schedule /\ schedule'[s].nextRunAt = next
    BY <1>4, <1>5, <1>6, <2>1, RowFiring
  <2>4. ClaimedBefore(s, t)
    BY <1>5, <1>6 DEF Ahead
  <2>5. claims[s][t] = 0
    BY <1>3, <2>2, <2>4 DEF ClaimedBefore
  <2>6. \A c \in 1..MaxClock : claims'[s][c] <= 1 /\ (claims'[s][c] # 0 => c < next)
    BY <1>3, <1>4, <2>2, <2>4, <2>5 DEF Ahead, ClaimedBefore
  <2>7. schedule'[s] # schedule[s]
    BY <1>3, <1>4, <1>5, <1>6, <2>3
  <2>8. \A v \in update' : v.of = s => v.behind
    BY <1>1, <2>7, OvertakenKeeps
  <2> QED BY <2>3, <2>6, <2>8 DEF Ahead, ClaimedBefore
<1>7. CASE d.of # s
  <2>1. schedule'[s] = schedule[s] /\ claims'[s] = claims[s]
    BY <1>7 DEF Won, TypeOK
  <2>2. \A v \in update' : v.of = s => \E u \in update : u.of = s /\ u.row = v.row /\ (u.behind => v.behind)
    BY <1>1, OvertakenKeeps
  <2> QED BY <2>1, <2>2, AheadStays
<1> QED BY <1>6, <1>7

LEMMA AheadStep ==
  ASSUME SchedulesAssumption, TypeOK, RowTimes, FreshRows, FiringsAhead, \A k \in Runners : RunnerTimes(k), [SchedulesNext]_schedulesVars
  PROVE  FiringsAhead'
<1> SUFFICES ASSUME NEW s \in Schedules, Sound(s)' PROVE Ahead(s)'
  BY DEF FiringsAhead
<1>1. Ahead(s)
  BY Grows DEF FiringsAhead, Sound
<1>2. CASE UNCHANGED <<schedule, claims, update>>
  BY <1>1, <1>2, AheadStays
<1>3. ASSUME NEW k \in Runners, NEW d, Lost(k, d) PROVE Ahead(s)'
  <2>1. \A v \in update' : v.of = s => \E u \in update : u.of = s /\ u.row = v.row /\ (u.behind => v.behind)
    BY <1>3, OvertakenKeeps DEF Lost
  <2> QED BY <1>1, <1>3, <2>1, AheadStays DEF Lost
<1> QED BY <1>1, <1>2, <1>3, NextIs, ClaimEither, AheadAdmin, AheadSave, AheadSaveRun, AheadClaim
        DEF TimePasses, BeginPublish, CommitPublish, Unpublish, RunnerActs, ListDue, ListPublished, RunnerCrashes, RunEntry,
            RunFails, schedulesVars, history

-------------------------------------------------------------------------------
(***************************************************************************)
(* Nothing is skipped.                                                     *)
(***************************************************************************)
\* A publication that commits behind a cursor or a listing is late.
LEMMA NewRowsAreLate ==
  ASSUME TypeOK, [SchedulesNext]_schedulesVars, NEW p \in PublishedRows', p \notin PublishedRows, NEW s \in Schedules, PassedBy(s, p)
  PROVE  <<s, p>> \in late'
<1>1. ASSUME NEW e \in Candidates, CommitPublish(e) PROVE <<s, p>> \in late'
  <2>1. PICK f \in Candidates : published'[f] # 0 /\ p = [at |-> published'[f], entry |-> f]
    BY DEF PublishedRows
  <2>2. f = e
    BY <1>1, <2>1 DEF CommitPublish, TypeOK, PublishedRows
  <2>3. p = [at |-> committing[e], entry |-> e]
    BY <1>1, <2>1, <2>2 DEF CommitPublish, TypeOK
  <2> QED BY <1>1, <2>3 DEF CommitPublish
<1>2. ASSUME NEW e \in Candidates, Unpublish(e) PROVE FALSE
  BY <1>2 DEF Unpublish, TypeOK, PublishedRows
<1>3. CASE UNCHANGED published
  BY <1>3 DEF PublishedRows
<1> QED BY <1>1, <1>2, <1>3, NextIs, ClaimEither
        DEF TimePasses, BeginPublish, AdminActs, createAgentSchedule, BeginUpdate, deleteAgentSchedule, SaveUpdate,
            RunnerActs, Claim, SaveRunState, ListDue, ListPublished, RunnerCrashes, RunEntry, RunFails, schedulesVars

\* What Covered(s, c) is after the step, for a cursor c.
CoveredNext(s, c) ==
  \A p \in PublishedRows' : Before(c, p) \/ <<s, p>> \in handled' \union late' \/ p.at <= baseline'[s]

LEMMA RowPlaces ==
  ASSUME SchedulesAssumption, TypeOK
  PROVE  \A p \in PublishedRows : p \in Publications /\ p.at \in Nat /\ 0 < p.at /\ p.entry \in Nat /\ 0 < p.entry
<1> SUFFICES ASSUME NEW p \in PublishedRows
             PROVE  p \in Publications /\ p.at \in Nat /\ 0 < p.at /\ p.entry \in Nat /\ 0 < p.entry
  OBVIOUS
<1>1. p \in Publications
  BY RowsArePublications
<1>2. p.at \in 1..MaxClock /\ p.entry \in Candidates
  BY <1>1 DEF Publications
<1>3. p.at \in Nat /\ 0 < p.at
  BY <1>2
<1>4. p.entry \in Nat /\ 0 < p.entry
  <2>1. \A e \in Candidates : e \in Nat /\ 0 < e
    BY DEF SchedulesAssumption
  <2> QED BY <1>2, <2>1
<1> QED BY <1>1, <1>3, <1>4

\* What was covered stays so while nothing is published, and in any case for a cursor in use.
LEMMA CoveredKept ==
  ASSUME SchedulesAssumption, TypeOK, [SchedulesNext]_schedulesVars, NEW s \in Schedules, NEW c, Covered(s, c),
         published' = published \/ c \in Cursors(s)
  PROVE  CoveredNext(s, c)
<1> SUFFICES ASSUME NEW p \in PublishedRows', ~Before(c, p)
             PROVE  <<s, p>> \in handled' \union late' \/ p.at <= baseline'[s]
  BY DEF CoveredNext
<1>1. CASE p \in PublishedRows
  <2>1. p.at \in Nat
    BY <1>1, RowPlaces
  <2>2. handled \subseteq handled' /\ late \subseteq late' /\ baseline[s] <= baseline'[s]
        /\ baseline[s] \in Nat /\ baseline'[s] \in Nat
    BY Grows
  <2>3. <<s, p>> \in handled \union late \/ p.at <= baseline[s]
    BY <1>1 DEF Covered
  <2> QED BY <2>1, <2>2, <2>3
<1>2. CASE p \notin PublishedRows
  <2>1. c \in Cursors(s)
    BY <1>2 DEF PublishedRows
  <2> QED BY <1>2, <2>1, NewRowsAreLate DEF PassedBy
<1> QED BY <1>1, <1>2

LEMMA ListedKept ==
  ASSUME SchedulesAssumption, TypeOK, [SchedulesNext]_schedulesVars, NEW k \in Runners, runner[k].step = "run", Listed(k),
         runner'[k] = runner[k]
  PROVE  Listed(k)'
<1> SUFFICES ASSUME NEW p \in PublishedRows', p.at <= runner[k].now, Before(runner[k].cursor, p)
             PROVE  \/ <<runner[k].of, p>> \in late' \/ p \in runner[k].left
                    \/ runner[k].full /\ \A q \in runner[k].left : Before(q, p)
  BY DEF Listed
<1>1. CASE p \in PublishedRows
  BY <1>1, Grows DEF Listed
<1>2. CASE p \notin PublishedRows
  <2>1. runner[k].of \in Schedules /\ WorksOn(k, runner[k].of)
    BY RunShape DEF Works, WorksOn
  <2>2. PassedBy(runner[k].of, p)
    BY <2>1 DEF PassedBy
  <2> QED BY <1>2, <2>1, <2>2, NewRowsAreLate
<1> QED BY <1>1, <1>2

\* The cursor of the instant of a firing covers what was published before.
LEMMA InstantCovers ==
  ASSUME SchedulesAssumption, TypeOK, NEW s, NEW t \in Nat,
         \A p \in PublishedRows : p.at < t => <<s, p>> \in handled \union late \/ p.at <= baseline[s]
  PROVE  Covered(s, Instant(t))
<1>1. \A p \in PublishedRows : p.at \in Nat /\ p.entry \in Nat \ {0}
  BY RowPlaces
<1>2. \A p \in PublishedRows : ~Before(Instant(t), p) => p.at < t
  BY <1>1 DEF Before, Instant
<1> QED BY <1>2 DEF Covered

\* Where the cursor of a row comes from.
LEMMA CursorFrom ==
  ASSUME SchedulesAssumption, TypeOK, FiringsAhead, \A k \in Runners : RunnerTimes(k), [SchedulesNext]_schedulesVars,
         NEW s \in Schedules, Sound(s)', Exists(s)'
  PROVE  \/ schedule[s] = NoSchedule /\ schedule'[s].cursor = Unset /\ published' = published
         \/ Exists(s) /\ schedule'[s].cursor = schedule[s].cursor
         \/ \E k \in Runners : SaveRunState(k) /\ WorksOn(k, s) /\ schedule'[s].cursor = runner[k].cursor
<1> DEFINE Goal == \/ schedule[s] = NoSchedule /\ schedule'[s].cursor = Unset /\ published' = published
                   \/ Exists(s) /\ schedule'[s].cursor = schedule[s].cursor
                   \/ \E k \in Runners : SaveRunState(k) /\ WorksOn(k, s) /\ schedule'[s].cursor = runner[k].cursor
<1>1. CASE schedule' = schedule
  BY <1>1 DEF Exists
<1>2. ASSUME NEW o \in Schedules, AdminActs(o) PROVE Goal
  <2>1. ASSUME NEW period \in Periods, createAgentSchedule(o, period) PROVE Goal
    BY <2>1 DEF createAgentSchedule, Exists, TypeOK
  <2>2. CASE deleteAgentSchedule(o)
    BY <2>2 DEF deleteAgentSchedule, Exists, TypeOK
  <2> QED BY <1>1, <1>2, <2>1, <2>2 DEF AdminActs, BeginUpdate
<1>3. ASSUME NEW u \in update, SaveUpdate(u) PROVE Goal
  <2>1. CASE u.of = s /\ Exists(s)
    <3>1. schedule'[s] = u.row
      BY <1>3, <2>1 DEF SaveUpdate, TypeOK
    <3>2. ~u.behind /\ Sound(s)
      BY <1>3, <2>1, Grows DEF SaveUpdate, TypeOK, Sound
    <3> QED BY <2>1, <3>1, <3>2 DEF FiringsAhead, Ahead
  <2>2. CASE ~(u.of = s /\ Exists(s))
    BY <1>3, <2>2 DEF SaveUpdate, TypeOK, Exists
  <2> QED BY <2>1, <2>2
<1>4. ASSUME NEW k \in Runners, SaveRunState(k) PROVE Goal
  <2>1. Works(k) /\ runner[k].of \in Schedules /\ runner[k].cursor \in Position
    BY <1>4, RunShape DEF SaveRunState, Works
  <2>2. CASE runner[k].of = s /\ Exists(s)
    <3>1. schedule'[s] = [schedule[s] EXCEPT !.cursor = runner[k].cursor] /\ schedule[s] \in Schedule
      BY <1>4, <2>2, RowShapes DEF SaveRunState, TypeOK
    <3>2. schedule'[s].cursor = runner[k].cursor
      BY <2>1, <3>1, RowCursor
    <3> QED BY <1>4, <2>1, <2>2, <3>2 DEF WorksOn
  <2>3. CASE ~(runner[k].of = s /\ Exists(s))
    BY <1>4, <2>3 DEF SaveRunState, TypeOK, Exists
  <2> QED BY <2>2, <2>3
<1>5. ASSUME NEW k \in Runners, NEW d, Won(k, d) PROVE Goal
  <2>1. d.of \in Schedules /\ d.row.period \in Periods /\ runner[k].now \in Nat
    BY <1>5, ClaimedIs, Shapes DEF Won, DueCopies, Schedule, Claiming
  <2>2. nextCronOccurrence(d.row.period, runner[k].now) \in Nat \ {0}
    BY <2>1, NextIsLater
  <2>3. CASE d.of = s
    <3>1. schedule[s] \in Schedule /\ Exists(s)
      BY <1>5, <2>3, RowShapes DEF Won, Claimable
    <3>2. schedule'[s] = [schedule[s] EXCEPT !.nextRunAt = nextCronOccurrence(d.row.period, runner[k].now)]
      BY <1>5, <2>3 DEF Won, TypeOK
    <3> QED BY <2>2, <3>1, <3>2, RowFiring
  <2>4. CASE d.of # s
    BY <1>5, <2>4 DEF Won, TypeOK, Exists
  <2> QED BY <2>3, <2>4
<1> QED BY <1>1, <1>2, <1>3, <1>4, <1>5, NextIs, ClaimEither
        DEF TimePasses, BeginPublish, CommitPublish, Unpublish, RunnerActs, ListDue, ListPublished, RunnerCrashes, RunEntry,
            RunFails, Lost, schedulesVars

LEMMA UnsetCovers ==
  ASSUME SchedulesAssumption, TypeOK, NEW s PROVE Covered(s, Unset)
<1>1. \A p \in PublishedRows : p.at \in Nat /\ 0 < p.at
  BY RowPlaces
<1> QED BY <1>1 DEF Covered, Before, Unset

LEMMA RowCoveredStep ==
  ASSUME SchedulesAssumption, TypeOK, FiringsAhead, RowCovered, \A k \in Runners : RunnerTimes(k) /\ RunnerCovered(k),
         [SchedulesNext]_schedulesVars
  PROVE  RowCovered'
<1> SUFFICES ASSUME NEW s \in Schedules, Sound(s)', Exists(s)' PROVE CoveredNext(s, schedule'[s].cursor)
  BY DEF RowCovered, Covered, CoveredNext
<1>1. Sound(s)
  BY Grows DEF Sound
<1>2. CASE schedule'[s].cursor = Unset /\ published' = published
  BY <1>2, UnsetCovers, CoveredKept
<1>3. CASE Exists(s) /\ schedule'[s].cursor = schedule[s].cursor
  BY <1>1, <1>3, CursorsAre, CoveredKept DEF RowCovered
<1>4. ASSUME NEW k \in Runners, SaveRunState(k), WorksOn(k, s), schedule'[s].cursor = runner[k].cursor
      PROVE  CoveredNext(s, schedule'[s].cursor)
  <2>1. Covered(s, runner[k].cursor) /\ runner[k].cursor \in Cursors(s)
    BY <1>1, <1>4, CursorsAre DEF WorksOn, RunnerCovered
  <2> QED BY <1>4, <2>1, CoveredKept
<1> QED BY <1>2, <1>3, <1>4, CursorFrom

SoundNext(s) == "clobbered" \notin causes'[s]

LEMMA RunnerCoveredStep ==
  ASSUME SchedulesAssumption, TypeOK, RowCovered, [SchedulesNext]_schedulesVars,
         NEW k \in Runners, RunnerTimes(k), RunnerCovered(k)
  PROVE  RunnerCovered(k)'
<1> DEFINE Dues == \A d \in runner'[k].due : SoundNext(d.of) => CoveredNext(d.of, d.row.cursor)
           Goal == Works(k)' /\ SoundNext(runner'[k].of) =>
                     /\ CoveredNext(runner'[k].of, runner'[k].cursor)
                     /\ runner'[k].step = "run" => Listed(k)'
<1>0. \A s \in Schedules : SoundNext(s) => Sound(s)
  BY Grows DEF Sound, SoundNext
<1>1. Dues
  <2> SUFFICES ASSUME NEW d \in runner'[k].due, SoundNext(d.of) PROVE CoveredNext(d.of, d.row.cursor)
    OBVIOUS
  <2>1. CASE d \in runner[k].due
    <3>1. d.of \in Schedules
      BY <2>1, Shapes DEF DueCopies
    <3>2. Covered(d.of, d.row.cursor) /\ d.row.cursor \in Cursors(d.of)
      BY <1>0, <2>1, <3>1, CursorsAre DEF RunnerCovered
    <3> QED BY <3>1, <3>2, CoveredKept
  <2>2. CASE d.of \in Schedules /\ Exists(d.of) /\ d.row = schedule[d.of]
    <3>1. Covered(d.of, d.row.cursor) /\ d.row.cursor \in Cursors(d.of)
      BY <1>0, <2>2, CursorsAre DEF RowCovered
    <3> QED BY <2>2, <3>1, CoveredKept
  <2>3. d \in runner[k].due \/ (d.of \in Schedules /\ Exists(d.of) /\ d.row = schedule[d.of])
    BY RunnerComesFrom
  <2> QED BY <2>1, <2>2, <2>3
<1>2. ASSUME Works(k), runner'[k].of = runner[k].of, runner'[k].cursor = runner[k].cursor, SoundNext(runner'[k].of)
      PROVE  CoveredNext(runner'[k].of, runner'[k].cursor)
  <2>1. runner[k].of \in Schedules
    BY <1>2, RunShape
  <2>2. Covered(runner[k].of, runner[k].cursor) /\ runner[k].cursor \in Cursors(runner[k].of)
    BY <1>0, <1>2, <2>1, CursorsAre DEF RunnerCovered, WorksOn
  <2> QED BY <1>2, <2>1, <2>2, CoveredKept
<1>3. ASSUME runner'[k] = runner[k] PROVE Goal
  <2> SUFFICES ASSUME Works(k), SoundNext(runner[k].of)
               PROVE  /\ CoveredNext(runner[k].of, runner[k].cursor)
                      /\ runner[k].step = "run" => Listed(k)'
    BY <1>3 DEF Works
  <2>1. CoveredNext(runner[k].of, runner[k].cursor)
    BY <1>2, <1>3
  <2>2. runner[k].of \in Schedules
    BY RunShape
  <2> QED BY <1>0, <1>3, <2>1, <2>2, ListedKept DEF RunnerCovered
<1>4. ASSUME ListDue(k) \/ RunnerCrashes(k) PROVE Goal
  BY <1>4 DEF ListDue, RunnerCrashes, TypeOK, Works, NotRunning
<1>5. ASSUME NEW d, Lost(k, d) PROVE Goal
  <2>1. runner[k] # NotRunning /\ runner[k].due \ {d} \in SUBSET DueCopies
    BY <1>5, Shapes DEF Lost, NotRunning
  <2>2. runner'[k] = Rest(k, runner[k].due \ {d})
    BY <1>5 DEF Lost, TypeOK
  <2> QED BY <2>1, <2>2, RestIs DEF Works
<1>6. ASSUME SaveRunState(k) PROVE Goal
  <2>1. Works(k) /\ runner'[k] = Rest(k, runner[k].due)
    BY <1>6 DEF SaveRunState, Works, TypeOK
  <2>2. runner[k] # NotRunning /\ runner[k].due \in SUBSET DueCopies
    BY <2>1, RunShape
  <2> QED BY <2>1, <2>2, RestIs DEF Works
<1>7. ASSUME NEW d, Won(k, d) PROVE Goal
  <2>1. runner'[k] = Claimed(k, d) /\ d \in runner[k].due /\ Claimed(k, d).of = d.of /\ d.of \in Schedules
        /\ published' = published /\ runner[k].now \in Nat
    <3>1. runner'[k] = Claimed(k, d) /\ d \in runner[k].due /\ published' = published /\ runner[k].step = "claim"
      BY <1>7 DEF Won, TypeOK
    <3>2. d \in DueCopies /\ Claimed(k, d).of = d.of
      BY <3>1, ClaimedIs
    <3> QED BY <3>1, <3>2, Shapes DEF DueCopies, Claiming
  <2>2. \/ Claimed(k, d).step = "list" /\ Claimed(k, d).cursor = d.row.cursor
        \/ Claimed(k, d).step = "save" /\ Claimed(k, d).cursor = Instant(runner[k].now) /\ d.row.cursor = Unset
    BY <1>7, ClaimedIs DEF Won
  <2>3. ASSUME Claimed(k, d).step = "list", Claimed(k, d).cursor = d.row.cursor, SoundNext(d.of)
        PROVE  CoveredNext(d.of, d.row.cursor)
    <3>1. Covered(d.of, d.row.cursor)
      BY <1>0, <2>1, <2>3 DEF RunnerCovered
    <3> QED BY <2>1, <3>1, CoveredKept
  <2>4. ASSUME d.row.cursor = Unset PROVE CoveredNext(d.of, Instant(runner[k].now))
    <3>1. runner[k].now <= baseline'[d.of] /\ baseline'[d.of] \in Nat
      BY <1>7, <2>1, <2>4, Grows DEF Won, TypeOK
    <3>2. \A p \in PublishedRows : ~Before(Instant(runner[k].now), p) => p.at <= runner[k].now
      BY <2>1, RowPlaces DEF Before, Instant
    <3>3. PublishedRows' = PublishedRows
      BY <2>1 DEF PublishedRows
    <3> QED BY <2>1, <3>1, <3>2, <3>3, RowPlaces DEF CoveredNext
  <2> QED BY <2>1, <2>2, <2>3, <2>4 DEF Works
<1>8. ASSUME NEW effect \in BOOLEAN, RunFails(k, effect) PROVE Goal
  <2>1. Works(k) /\ runner'[k] = [runner[k] EXCEPT !.step = "save", !.left = {}, !.full = FALSE]
    BY <1>8 DEF RunFails, Works, TypeOK
  <2>2. runner[k] \in Runs
    BY <2>1, RunShape
  <2>3. runner'[k].step = "save" /\ runner'[k].of = runner[k].of /\ runner'[k].cursor = runner[k].cursor
    BY <2>1, <2>2 DEF Runs
  <2> QED BY <1>2, <2>1, <2>3
<1>9. ASSUME ListPublished(k) PROVE Goal
  <2> DEFINE run == runner[k]
             left == Page(run.cursor)
             full == IsFull(run.cursor)
             next == Continue(run, left, full, run.cursor, FALSE)
  <2>1. Works(k) /\ runner'[k] = next /\ published' = published
    BY <1>9 DEF ListPublished, Works, TypeOK
  <2>2. run \in Runs /\ run.cursor \in Position /\ run.of \in Schedules /\ run.now \in Nat
    BY <2>1, RunShape
  <2>3. left \in SUBSET Publications /\ full \in BOOLEAN
        /\ \A p \in PublishedRows : Before(run.cursor, p) => p \in left \/ (full /\ \A q \in left : Before(q, p))
    BY <2>2, PageIsFirst DEF After
  <2>4. PublishedRows' = PublishedRows
    BY <2>1 DEF PublishedRows
  <2> HIDE DEF left, full
  <2>5. Continues(run, next, left, full, run.cursor)
    BY <2>2, <2>3, ContinueIs
  <2> HIDE DEF next
  <2> SUFFICES ASSUME SoundNext(run.of)
               PROVE  /\ CoveredNext(run.of, next.cursor)
                      /\ next.step = "run" => Listed(k)'
    BY <2>1, <2>5 DEF Continues
  <2>6. Covered(run.of, run.cursor)
    BY <1>0, <2>1, <2>2 DEF RunnerCovered
  <2>7. CASE next.cursor = run.cursor
    <3>1. CoveredNext(run.of, next.cursor)
      BY <2>1, <2>2, <2>6, <2>7, CoveredKept
    <3>2. ASSUME next.step = "run" PROVE Listed(k)'
      BY <2>1, <2>3, <2>4, <2>5, <3>2 DEF Listed, Continues
    <3> QED BY <3>1, <3>2
  <2>8. CASE next.step = "save" /\ next.cursor = Instant(run.now) /\ left = {} /\ ~full
    <3>1. \A p \in PublishedRows : ~Before(run.cursor, p)
      BY <2>3, <2>8
    <3>2. Covered(run.of, Instant(run.now))
      BY <2>6, <3>1 DEF Covered
    <3> QED BY <2>1, <2>2, <2>8, <3>2, CoveredKept
  <2> QED BY <2>5, <2>7, <2>8 DEF Continues
<1>10. ASSUME NEW ceiling \in BOOLEAN, RunEntry(k, ceiling) PROVE Goal
  <2> DEFINE run == runner[k]
             first == First(run.left)
             left == run.left \ {first}
             next == Continue(run, left, run.full, first, ceiling)
  <2>1. Works(k) /\ runner'[k] = next /\ published' = published /\ run.step = "run" /\ <<run.of, first>> \in handled'
    BY <1>10 DEF RunEntry, Works, TypeOK, Handle
  <2>2. run \in Runs /\ run.cursor \in Position /\ run.of \in Schedules /\ run.now \in Nat
        /\ run.left \in SUBSET Publications /\ run.full \in BOOLEAN
    BY <2>1, RunShape
  <2>3. first \in run.left /\ first \in Position /\ first \in Publications
        /\ (\A q \in left : Before(first, q)) /\ first.at <= run.now /\ Before(run.cursor, first)
    BY <2>1, <2>2, NextEntry DEF RunnerTimes
  <2>4. PublishedRows' = PublishedRows /\ handled \subseteq handled' /\ late \subseteq late'
    BY <2>1, Grows DEF PublishedRows
  <2>5. left \in SUBSET Publications /\ left \subseteq run.left /\ first \notin left /\ run.left = left \union {first}
    BY <2>2, <2>3
  <2> HIDE DEF left, first
  <2>6. Continues(run, next, left, run.full, first)
    BY <2>2, <2>3, <2>5, ContinueIs
  <2> HIDE DEF next
  <2> SUFFICES ASSUME SoundNext(run.of)
               PROVE  /\ CoveredNext(run.of, next.cursor)
                      /\ next.step = "run" => Listed(k)'
    BY <2>1, <2>6 DEF Continues
  <2>7. Covered(run.of, run.cursor) /\ Listed(k)
    BY <1>0, <2>1, <2>2 DEF RunnerCovered
  <2>8. CoveredNext(run.of, run.cursor)
    BY <2>1, <2>2, <2>7, CoveredKept
  <2>9. /\ run.cursor \in Places /\ first \in Places
        /\ \A p \in PublishedRows : p \in Places /\ p.at \in Nat /\ 0 < p.entry
    BY <2>2, <2>3, RowPlaces, ArePlaces
  <2>10. ASSUME NEW p \in PublishedRows, p.at <= run.now, Before(run.cursor, p)
         PROVE  <<run.of, p>> \in late \/ p \in run.left \/ (run.full /\ \A q \in run.left : Before(q, p))
    BY <2>7, <2>10 DEF Listed
  <2>11. ASSUME NEW p \in PublishedRows, p.at <= run.now, Before(first, p)
         PROVE  <<run.of, p>> \in late' \/ p \in left \/ (run.full /\ \A q \in left : Before(q, p))
    <3>1. Before(run.cursor, p) /\ p # first
      BY <2>3, <2>9, <2>11, BeforeOrders
    <3> QED BY <2>4, <2>5, <2>10, <2>11, <3>1
  <2>12. CoveredNext(run.of, first)
    <3> SUFFICES ASSUME NEW p \in PublishedRows, ~Before(first, p)
                 PROVE  <<run.of, p>> \in handled' \union late' \/ p.at <= baseline'[run.of]
      BY <2>4 DEF CoveredNext
    <3>1. CASE ~Before(run.cursor, p)
      BY <2>4, <2>8, <3>1 DEF CoveredNext
    <3>2. CASE Before(run.cursor, p)
      <4>1. p.at <= run.now
        BY <2>2, <2>3, <2>9 DEF Before, Places
      <4>2. CASE p \in run.left
        BY <2>1, <2>3, <2>5, <4>2
      <4> QED BY <2>3, <2>4, <2>10, <3>2, <4>1, <4>2
    <3> QED BY <3>1, <3>2
  <2>13. CASE next.cursor = first
    <3>1. ASSUME next.step = "run" PROVE Listed(k)'
      BY <2>1, <2>4, <2>6, <2>11, <2>13, <3>1 DEF Listed, Continues
    <3> QED BY <2>12, <2>13, <3>1
  <2>14. CASE next.step = "save" /\ next.cursor = Instant(run.now) /\ left = {} /\ ~run.full
    <3> SUFFICES ASSUME NEW p \in PublishedRows, ~Before(Instant(run.now), p)
                 PROVE  <<run.of, p>> \in handled' \union late' \/ p.at <= baseline'[run.of]
      BY <2>4, <2>14 DEF CoveredNext
    <3>1. p.at <= run.now
      BY <2>2, <2>9 DEF Before, Instant
    <3> QED BY <2>4, <2>11, <2>12, <2>14, <3>1 DEF CoveredNext
  <2> QED BY <2>6, <2>13, <2>14 DEF Continues
<1>11. Goal
  <2> HIDE DEF Goal
  <2> QED BY <1>4, <1>3, <1>5, <1>6, <1>7, <1>8, <1>9, <1>10, RunnerStays, ClaimEither DEF RunnerActs
<1>12. Goal /\ Dues => RunnerCovered(k)'
  BY DEF RunnerCovered, Covered, CoveredNext, Works, Sound, SoundNext
<1> QED BY <1>1, <1>11, <1>12

-------------------------------------------------------------------------------
(***************************************************************************)
(* What is processed twice has a cause.                                    *)
(***************************************************************************)
\* The others work on what they worked on.
Undisturbed(s) ==
  \A k \in Runners : (WorksOn(k, s)' <=> WorksOn(k, s)) /\ (WorksOn(k, s) => runner'[k] = runner[k])

LEMMA OneStays ==
  ASSUME NEW s \in Schedules, OneWorker(s), DoneBehind(s), Undisturbed(s), instants[s] \subseteq instants'[s],
         \A p \in Publications : <<s, p>> \in handled' => <<s, p>> \in handled,
         Exists(s)' => (Exists(s) /\ schedule'[s].cursor = schedule[s].cursor) \/ \A p \in Publications : <<s, p>> \notin handled
  PROVE  OneWorker(s)' /\ DoneBehind(s)'
<1>1. OneWorker(s)'
  BY DEF OneWorker, Undisturbed
<1>2. DoneBehind(s)'
  BY DEF DoneBehind, Undisturbed, DoneBy
<1> QED BY <1>1, <1>2

\* A run that is claimed for a schedule to which nothing happened.
LEMMA OneClaim ==
  ASSUME SchedulesAssumption, TypeOK, NEW s \in Schedules, NEW k \in Runners, NEW d, Won(k, d), d.of = s,
         DoneBehind(s), causes'[s] = {}
  PROVE  OneWorker(s)' /\ DoneBehind(s)'
<1>1. /\ runner'[k] = Claimed(k, d) /\ (\A o \in Runners \ {k} : runner'[o] = runner[o])
      /\ handled' = handled /\ instants' = instants /\ runner[k].step = "claim"
  BY DEF Won, TypeOK
<1>2. ~StaleCursor(k, d)
  BY DEF Won, TypeOK
<1>3. d.row.cursor = schedule[s].cursor /\ \A o \in Runners \ {k} : ~WorksOn(o, s)
  BY <1>2 DEF StaleCursor
<1>4. ~WorksOn(k, s)
  BY <1>1 DEF WorksOn, Works
<1>5. Exists(s)
  BY DEF Won, Claimable
<1>6. \A p \in Publications : <<s, p>> \in handled /\ p.at \notin instants[s] => ~Before(schedule[s].cursor, p)
  BY <1>3, <1>4, <1>5 DEF DoneBehind
<1>7. \A o \in Runners \ {k} : ~WorksOn(o, s)'
  BY <1>1, <1>3 DEF WorksOn, Works
<1>8. WorksOn(k, s)'
  BY <1>1, ClaimedIs DEF Won, WorksOn, Works
<1>9. \A p \in Publications : <<s, p>> \in handled /\ p.at \notin instants[s] => ~Before(Claimed(k, d).cursor, p)
  <2>1. CASE Claimed(k, d).cursor = d.row.cursor
    BY <1>3, <1>6, <2>1
  <2>2. CASE d.row.cursor = Unset
    <3>1. \A p \in Publications : Before(Unset, p)
      <4>1. \A p \in Publications : 0 < p.at
        BY DEF Publications
      <4> QED BY <4>1 DEF Before, Unset
    <3> QED BY <1>3, <1>6, <2>2, <3>1
  <2> QED BY <1>1, <2>1, <2>2, ClaimedIs DEF Won
<1> QED BY <1>1, <1>7, <1>8, <1>9 DEF OneWorker, DoneBehind, DoneBy

\* A run goes on with its page, or ends.
LEMMA OneGoesOn ==
  ASSUME SchedulesAssumption, TypeOK, NEW s \in Schedules, NEW k \in Runners, RunnerTimes(k), WorksOn(k, s),
         runner[k].step # "save", ListPublished(k) \/ (\E ceiling \in BOOLEAN : RunEntry(k, ceiling)),
         OneWorker(s), DoneBehind(s)
  PROVE  OneWorker(s)' /\ DoneBehind(s)'
<1> DEFINE run == runner[k]
<1>1. /\ run \in Runs /\ run.cursor \in Position /\ run.of = s /\ run.now \in Nat /\ run.now \in 1..MaxClock
      /\ run.left \in SUBSET Publications /\ run.full \in BOOLEAN /\ run.cursor.at <= run.now
  BY RunShape DEF WorksOn, RunnerTimes
<1>2. PICK c, left, full :
        /\ Continues(run, runner'[k], left, full, c) /\ c \in Position /\ c.at <= run.now
        /\ \A p \in Publications : <<s, p>> \in handled' => (<<s, p>> \in handled /\ (p.at \notin instants[s] => ~Before(c, p))) \/ p = c
  <2> DEFINE Goal == \E c, left, full :
        /\ Continues(run, runner'[k], left, full, c) /\ c \in Position /\ c.at <= run.now
        /\ \A p \in Publications : <<s, p>> \in handled' => (<<s, p>> \in handled /\ (p.at \notin instants[s] => ~Before(c, p))) \/ p = c
  <2>0. \A p \in Publications : <<s, p>> \in handled /\ p.at \notin instants[s] => ~Before(run.cursor, p)
    BY DEF DoneBehind, DoneBy
  <2>1. ASSUME ListPublished(k) PROVE Goal
    <3> DEFINE left == Page(run.cursor)
               full == IsFull(run.cursor)
    <3>1. runner'[k] = Continue(run, left, full, run.cursor, FALSE) /\ handled' = handled
      BY <2>1 DEF ListPublished, TypeOK, history
    <3>2. left \in SUBSET Publications /\ full \in BOOLEAN
      BY <1>1, PageIsFirst
    <3> HIDE DEF left, full
    <3>3. Continues(run, runner'[k], left, full, run.cursor)
      BY <1>1, <3>1, <3>2, ContinueIs
    <3> QED BY <1>1, <2>0, <3>1, <3>3
  <2>2. ASSUME NEW ceiling \in BOOLEAN, RunEntry(k, ceiling) PROVE Goal
    <3> DEFINE first == First(run.left)
               left == run.left \ {first}
    <3>1. runner'[k] = Continue(run, left, run.full, first, ceiling) /\ run.step = "run"
          /\ handled' = handled \union {<<s, first>>}
      BY <1>1, <2>2 DEF RunEntry, TypeOK, Handle
    <3>2. first \in run.left /\ first \in Position /\ first \in Publications /\ first.at <= run.now
          /\ Before(run.cursor, first) /\ left \in SUBSET Publications
      BY <1>1, <3>1, NextEntry DEF RunnerTimes
    <3> HIDE DEF left, first
    <3>3. Continues(run, runner'[k], left, run.full, first)
      BY <1>1, <3>1, <3>2, ContinueIs
    <3>4. \A p \in Publications : ~Before(run.cursor, p) => ~Before(first, p)
      BY <1>1, <3>2, ArePlaces, BeforeOrders
    <3> QED BY <1>1, <2>0, <3>1, <3>2, <3>3, <3>4
  <2> QED BY <2>1, <2>2
<1>3. instants' = instants /\ \A o \in Runners \ {k} : runner'[o] = runner[o]
  BY DEF ListPublished, RunEntry, TypeOK, history
<1>4. \A o \in Runners \ {k} : ~WorksOn(o, s)'
  BY <1>3 DEF OneWorker, WorksOn, Works
<1>5. ASSUME NEW p \in Publications, <<s, p>> \in handled', p.at \notin instants[s]
      PROVE  /\ ~Before(c, p) /\ p.at <= run.now
             /\ ~Before(Instant(run.now), p) \/ Instant(run.now) = Instant(p.at)
  <2>1. p \in Places /\ c \in Places /\ p.at \in Nat /\ c.at \in Nat
    BY <1>2, ArePlaces DEF Places
  <2>2. ~Before(c, p)
    BY <1>2, <1>5, <2>1, BeforeOrders
  <2>3. p.at <= run.now
    BY <1>1, <1>2, <2>1, <2>2 DEF Before
  <2> QED BY <1>1, <2>1, <2>2, <2>3 DEF Before, Instant
<1>6. WorksOn(k, s)' => \A p \in Publications : <<s, p>> \in handled' /\ p.at \notin instants[s] => DoneBy(k, p)'
  BY <1>2, <1>5 DEF Continues, DoneBy
<1>7. WorksOn(k, s)'
  BY <1>1, <1>2 DEF Continues, WorksOn, Works
<1> QED BY <1>3, <1>4, <1>6, <1>7 DEF OneWorker, DoneBehind

\* The run state is saved.
LEMMA OneSaves ==
  ASSUME SchedulesAssumption, TypeOK, NEW s \in Schedules, NEW k \in Runners, SaveRunState(k), WorksOn(k, s),
         OneWorker(s), DoneBehind(s)
  PROVE  OneWorker(s)' /\ DoneBehind(s)'
<1>1. /\ runner[k] # NotRunning /\ runner[k].of = s /\ runner[k].cursor \in Position /\ runner[k].due \in SUBSET DueCopies
  BY RunShape DEF WorksOn
<1>2. /\ runner'[k] = Rest(k, runner[k].due) /\ handled' = handled /\ \A o \in Runners \ {k} : runner'[o] = runner[o]
      /\ instants'[s] = IF runner[k].cursor.entry = 0 THEN instants[s] \union {runner[k].cursor.at} ELSE instants[s]
  BY <1>1 DEF SaveRunState, TypeOK
<1>3. ~WorksOn(k, s)'
  BY <1>1, <1>2, RestIs DEF WorksOn, Works
<1>4. \A o \in Runners : ~WorksOn(o, s)'
  BY <1>2, <1>3 DEF OneWorker, WorksOn, Works
<1>5. Exists(s)' => schedule'[s].cursor = runner[k].cursor
  <2>1. CASE Exists(s)
    <3>1. schedule'[s] = [schedule[s] EXCEPT !.cursor = runner[k].cursor] /\ schedule[s] \in Schedule
      BY <1>1, <2>1, RowShapes DEF SaveRunState, TypeOK
    <3> QED BY <1>1, <3>1, RowCursor
  <2>2. CASE ~Exists(s)
    BY <1>1, <2>2 DEF SaveRunState, Exists
  <2> QED BY <2>1, <2>2
<1>6. ASSUME NEW p \in Publications, <<s, p>> \in handled, p.at \notin instants'[s] PROVE ~Before(runner[k].cursor, p)
  <2>1. DoneBy(k, p)
    BY <1>2, <1>6 DEF DoneBehind
  <2>2. CASE runner[k].cursor = Instant(p.at)
    BY <1>2, <1>6, <2>2 DEF Instant
  <2> QED BY <2>1, <2>2 DEF DoneBy
<1> QED BY <1>2, <1>4, <1>5, <1>6 DEF OneWorker, DoneBehind

LEMMA OneStep ==
  ASSUME SchedulesAssumption, TypeOK, FreshRows, FiringsAhead, OneAtATime, \A k \in Runners : RunnerTimes(k), [SchedulesNext]_schedulesVars
  PROVE  OneAtATime'
<1> SUFFICES ASSUME NEW s \in Schedules, causes'[s] = {} PROVE OneWorker(s)' /\ DoneBehind(s)'
  BY DEF OneAtATime
<1>1. causes[s] = {} /\ instants[s] \subseteq instants'[s] /\ Sound(s)'
  BY Grows DEF Sound
<1>2. OneWorker(s) /\ DoneBehind(s)
  BY <1>1 DEF OneAtATime
<1>3. ASSUME NEW k \in Runners, RunnerActs(k), WorksOn(k, s) PROVE OneWorker(s)' /\ DoneBehind(s)'
  <2>1. Works(k) /\ runner[k].of = s
    BY <1>3 DEF WorksOn
  <2>2. ASSUME NEW d PROVE ~Won(k, d) /\ ~Lost(k, d)
    BY <2>1 DEF Won, Lost, Works
  <2>3. ~ListDue(k)
    BY <2>1, RunShape DEF ListDue
  <2>4. ~RunnerCrashes(k)
    <3> SUFFICES ASSUME RunnerCrashes(k) PROVE FALSE
      OBVIOUS
    <3>1. causes' = [causes EXCEPT ![s] = @ \union {"failed"}]
      BY <2>1 DEF RunnerCrashes
    <3>2. "failed" \in causes'[s]
      BY <3>1 DEF TypeOK
    <3> QED BY <3>2
  <2>5. ASSUME NEW effect \in BOOLEAN PROVE ~RunFails(k, effect)
    <3> SUFFICES ASSUME RunFails(k, effect) PROVE FALSE
      OBVIOUS
    <3>1. causes' = [causes EXCEPT ![s] = @ \union {"failed"}]
      BY <2>1 DEF RunFails
    <3>2. "failed" \in causes'[s]
      BY <3>1 DEF TypeOK
    <3> QED BY <3>2
  <2>6. ListPublished(k) \/ (\E ceiling \in BOOLEAN : RunEntry(k, ceiling)) => runner[k].step # "save"
    BY DEF ListPublished, RunEntry
  <2> QED BY <1>2, <1>3, <2>2, <2>3, <2>4, <2>5, <2>6, ClaimEither, OneGoesOn, OneSaves DEF RunnerActs
<1>4. ASSUME NEW k \in Runners, NEW d, Won(k, d), d.of = s PROVE OneWorker(s)' /\ DoneBehind(s)'
  BY <1>2, <1>4, OneClaim
<1>5. ASSUME \A k \in Runners : WorksOn(k, s) => ~RunnerActs(k),
             \A k \in Runners : \A d : Won(k, d) => d.of # s
      PROVE  OneWorker(s)' /\ DoneBehind(s)'
  <2>1. Undisturbed(s)
    BY <1>5, RunnerStays, RunnerComesFrom DEF Undisturbed, WorksOn, Works
  <2>2. \A p \in Publications : <<s, p>> \in handled' => <<s, p>> \in handled
    <3>1. CASE UNCHANGED handled
      BY <3>1
    <3>2. ASSUME NEW k \in Runners, Processes(k) PROVE \A p \in Publications : <<s, p>> \in handled' => <<s, p>> \in handled
      BY <1>5, <3>2 DEF Processes, Handle, WorksOn
    <3> QED BY <3>1, <3>2, HandledBy
  <2>3. Exists(s)' => (Exists(s) /\ schedule'[s].cursor = schedule[s].cursor) \/ \A p \in Publications : <<s, p>> \notin handled
    <3>1. schedule[s] = NoSchedule => \A p \in Publications : <<s, p>> \notin handled
      BY DEF FreshRows, Fresh
    <3>2. \A k \in Runners : ~(SaveRunState(k) /\ WorksOn(k, s))
      BY <1>5 DEF RunnerActs
    <3> QED BY <1>1, <3>1, <3>2, CursorFrom
  <2> QED BY <1>1, <1>2, <2>1, <2>2, <2>3, OneStays
<1> QED BY <1>3, <1>4, <1>5

\* What a run processes again was done by an instant, or something had happened.
LEMMA RepeatedStep ==
  ASSUME SchedulesAssumption, TypeOK, OneAtATime, RepeatedForCause, \A k \in Runners : RunnerTimes(k), [SchedulesNext]_schedulesVars
  PROVE  RepeatedForCause'
<1> SUFFICES ASSUME NEW s \in Schedules, NEW p \in Publications, <<s, p>> \in repeated', causes'[s] = {}
             PROVE  p.at \in instants'[s]
  BY DEF RepeatedForCause, Publications
<1>1. causes[s] = {} /\ instants[s] \subseteq instants'[s]
  BY Grows
<1>2. CASE <<s, p>> \in repeated
  BY <1>1, <1>2 DEF RepeatedForCause, Publications
<1>3. ASSUME NEW k \in Runners, NEW ceiling \in BOOLEAN, RunEntry(k, ceiling), <<s, p>> \notin repeated
      PROVE  p.at \in instants'[s]
  <2>1. runner[k].step = "run" /\ runner[k].of = s /\ p = First(runner[k].left) /\ <<s, p>> \in handled
    BY <1>3 DEF RunEntry, Handle
  <2>2. Before(runner[k].cursor, p) /\ WorksOn(k, s)
    BY <2>1, NextEntry DEF RunnerTimes, WorksOn
  <2>3. p.at \in instants[s]
    BY <1>1, <2>1, <2>2 DEF OneAtATime, DoneBehind, DoneBy
  <2> QED BY <1>1, <2>3
<1>4. ASSUME NEW k \in Runners, NEW effect \in BOOLEAN, RunFails(k, effect), <<s, p>> \notin repeated
      PROVE  FALSE
  <2>1. <<s, p>> \in repeated' => runner[k].of = s
    BY <1>4 DEF RunFails, Handle
  <2>2. causes' = [causes EXCEPT ![s] = @ \union {"failed"}]
    BY <1>4, <2>1 DEF RunFails
  <2> QED BY <2>2 DEF TypeOK
<1> QED BY <1>2, <1>3, <1>4, NextIs
        DEF TimePasses, BeginPublish, CommitPublish, Unpublish, AdminActs, createAgentSchedule, BeginUpdate,
            deleteAgentSchedule, SaveUpdate, RunnerActs, Claim, SaveRunState, ListDue, ListPublished, RunnerCrashes, schedulesVars, history

-------------------------------------------------------------------------------
(***************************************************************************)
(* The theorems.                                                           *)
(***************************************************************************)
LEMMA InvInit == SchedulesAssumption /\ SchedulesInit => Inv
<1> SUFFICES ASSUME SchedulesAssumption, SchedulesInit PROVE Inv
  OBVIOUS
<1>1. TypeOK
  BY TypeInit
<1>2. \A s \in Schedules : schedule[s] = NoSchedule \/ \E period \in Periods : schedule[s] = Started(period)
  BY DEF SchedulesInit
<1>3. \A k \in Runners : runner[k] = NotRunning
  BY DEF SchedulesInit
<1>4. RowTimes
  <2>1. \A s \in Schedules : Exists(s) => schedule[s].cursor.at = 1
    <3> SUFFICES ASSUME NEW s \in Schedules, schedule[s] # NoSchedule PROVE schedule[s].cursor.at = 1
      BY DEF Exists
    <3>1. PICK period \in Periods : schedule[s] = Started(period)
      BY <1>2
    <3> QED BY <3>1 DEF Started, Instant
  <2> QED BY <2>1 DEF SchedulesInit, RowTimes
<1>5. \A k \in Runners : RunnerTimes(k) /\ RunnerCovered(k)
  BY <1>3 DEF RunnerTimes, RunnerCovered, NotRunning, Works
<1>6. FreshRows
  BY <1>3 DEF SchedulesInit, FreshRows, Fresh, WorksOn, Works, NotRunning
<1>7. FiringsAhead
  BY DEF SchedulesInit, FiringsAhead, Ahead, ClaimedBefore
<1>8. RowCovered
  BY DEF SchedulesInit, RowCovered, Covered, PublishedRows
<1>9. OneAtATime
  BY <1>3 DEF SchedulesInit, OneAtATime, OneWorker, DoneBehind, WorksOn, Works, NotRunning
<1>10. RepeatedForCause
  BY DEF SchedulesInit, RepeatedForCause
<1> QED BY <1>1, <1>4, <1>5, <1>6, <1>7, <1>8, <1>9, <1>10 DEF Inv

LEMMA InvStep == Inv /\ [SchedulesNext]_schedulesVars => Inv'
<1> SUFFICES ASSUME Inv, [SchedulesNext]_schedulesVars PROVE Inv'
  OBVIOUS
<1> USE DEF Inv
<1>1. TypeOK'
  BY TypeStep
<1>2. RowTimes' /\ \A k \in Runners : RunnerTimes(k)'
  BY RowTimesStep, RunnerTimesStep
<1>3. FreshRows' /\ FiringsAhead'
  BY FreshStep, AheadStep
<1>4. RowCovered' /\ \A k \in Runners : RunnerCovered(k)'
  BY RowCoveredStep, RunnerCoveredStep
<1>5. OneAtATime' /\ RepeatedForCause'
  BY OneStep, RepeatedStep
<1> QED BY <1>1, <1>2, <1>3, <1>4, <1>5 DEF SchedulesAssumption

\* The invariant holds throughout.
THEOREM InvHolds == SchedulesAssumption /\ SchedulesSpec => []Inv
  BY InvInit, InvStep, PTL DEF SchedulesSpec

\* A firing is claimed by one tick, however many workers see it due (claimNextRun), unless
\* an update wrote back a row that a claim or a run had changed since it was read.
THEOREM FiringsAlwaysRunOnce == SchedulesAssumption /\ SchedulesSpec => []FiringsRunOnce
<1>1. Inv => FiringsRunOnce
  BY DEF Inv, TypeOK, FiringsAhead, Ahead, Sound, FiringsRunOnce
<1> QED BY <1>1, InvHolds, PTL

\* What the cursor of a schedule has passed was processed by a run of it, precedes the run that
\* set the cursor, or committed behind a cursor or a listing: truncation and failure skip nothing.
THEOREM NothingEverSkipped == SchedulesAssumption /\ SchedulesSpec => []NothingSkipped
<1>1. Inv => NothingSkipped
  BY DEF Inv, RowCovered, Covered, Sound, NothingSkipped
<1> QED BY <1>1, InvHolds, PTL

\* A publication is processed again for a cause only: a failed run, a claim that began from a
\* cursor which another run has moved or may move, a row written back, or a publication of the
\* very instant of a firing.
THEOREM RepeatsHaveCause == SchedulesAssumption /\ SchedulesSpec => []RepeatedForCause
<1>1. Inv => RepeatedForCause
  BY DEF Inv
<1> QED BY <1>1, InvHolds, PTL

\* A firing that was claimed twice, and a publication that was processed twice, had a cause.
THEOREM FiringsAlwaysAccounted == SchedulesAssumption /\ SchedulesSpec => []FiringsAccounted
<1>1. FiringsRunOnce /\ RepeatedForCause => FiringsAccounted
  BY DEF FiringsAccounted
<1> QED BY <1>1, FiringsAlwaysRunOnce, RepeatsHaveCause, PTL
===============================================================================
