------------------------ MODULE ScheduledActions_proofs ------------------------
(***************************************************************************)
(* What scheduled actions guarantee for any actions, any number of         *)
(* overlapping ticks and any failures: how often an action takes effect,   *)
(* that its record tells what happened, and that actions keep their order. *)
(***************************************************************************)
EXTENDS ScheduledActions, FiniteSetTheorems, TLAPS

(***************************************************************************)
(* The inductive invariant.                                                *)
(***************************************************************************)
\* The ticks that are yet to run an action, and those that ran it last.
Holders(a) == {t \in Ticks : a \in tick[t].due}
Savers(a) == {t \in Ticks : tick[t].step = "save" /\ tick[t].action = a}

\* The actions that can still be listed.
Open == {a \in Actions : row[a].status \in {"none", "pending"}}

\* How often an action that two ticks held may take effect, and any other one.
Cap(a) == IF a \in shared THEN Cardinality(Ticks) ELSE 1

\* A tick holds actions that fell due, and not the one it has run.
HoldsDue ==
  \A t \in Ticks :
    /\ \A a \in Actions : Running(t, a) => a \in Scheduled /\ row[a].at <= now
    /\ tick[t].step = "idle" => tick[t].due = {}
    /\ tick[t].step = "save" => tick[t].action \notin tick[t].due

\* An action that was never listed by two ticks at once is held by one tick, and is no
\* longer held when its record is final.
HeldOnce ==
  \A a \in Actions \ shared, t \in Ticks :
    Running(t, a) => /\ row[a].status \notin {"completed", "failed"}
                     /\ \A u \in Ticks : Running(u, a) => u = t

\* An open action took effect only in the ticks that are about to record it, and in
\* those that failed to.
OpenUnrecorded == \A a \in Open : effects[a] <= errors + Cardinality(Savers(a))

\* Each tick that holds an action can run it once more.
HeldBounded == \A a \in Actions : effects[a] + Cardinality(Holders(a)) <= errors + Cap(a)

\* What a tick is about to record is what happened.
OutcomeTold ==
  \A t \in Ticks :
    tick[t].step = "save" =>
      /\ tick[t].outcome = "completed" => effects[tick[t].action] > 0
      /\ tick[t].outcome = "failed" /\ effects[tick[t].action] > 0
           => errors > 0 \/ tick[t].action \in shared

\* Only actions that fell due take effect.
EffectsDue == \A a \in Actions : effects[a] > 0 => a \in Scheduled /\ row[a].at <= now

\* A pending action that was scheduled in time was already there when a tick listed one
\* that is scheduled for later: the tick listed it too, and has not run the later one.
ListedInOrder ==
  \A a, b \in Scheduled :
    row[a].status = "pending" /\ a \notin overdue /\ row[a].at < row[b].at =>
      \A t \in Ticks : b \in tick[t].due => Running(t, a)

Inv ==
  /\ TypeOK /\ HoldsDue /\ HeldOnce /\ OpenUnrecorded /\ HeldBounded
  /\ OutcomeTold /\ RecordTellsEffect
  /\ EffectsDue /\ ListedInOrder /\ OrderKept

-------------------------------------------------------------------------------
(***************************************************************************)
(* Types.                                                                  *)
(***************************************************************************)
LEMMA IdleType == Idle \in Tick
  BY DEF Idle, Tick

LEMMA TickFields ==
  ASSUME NEW k \in Tick
  PROVE  /\ k.step \in {"idle", "execute", "save"} /\ k.due \in SUBSET Actions
         /\ k.step = "save" => k.action \in Actions /\ k.outcome \in {"completed", "failed"}
  BY DEF Tick

LEMMA TickTypes ==
  ASSUME NEW D \in SUBSET Actions, NEW a \in Actions, NEW o \in {"completed", "failed"}
  PROVE  /\ [step |-> "execute", due |-> D] \in Tick
         /\ [step |-> "save", due |-> D, action |-> a, outcome |-> o] \in Tick
  BY DEF Tick

LEMMA RowFields ==
  ASSUME TypeOK, NEW a \in Actions
  PROVE  /\ a \in Scheduled => row[a] \in Row /\ row[a].at \in 0..MaxTime
                               /\ row[a].status \in {"pending", "completed", "canceled", "failed"}
         /\ a \notin Scheduled => row[a] = NoRow /\ row[a].status = "none"
<1>1. row[a] \in Row \union {NoRow}
  BY DEF TypeOK
<1>2. NoRow.status = "none"
  BY DEF NoRow
<1>3. \A o \in Row : o.at \in 0..MaxTime /\ o.status \in {"pending", "completed", "canceled", "failed"}
  BY DEF Row
<1> QED BY <1>1, <1>2, <1>3 DEF Scheduled

\* Only its status changes when the row of a scheduled action is saved.
LEMMA RowSaved ==
  ASSUME TypeOK, NEW a \in Scheduled, NEW s \in {"completed", "canceled", "failed"},
         row' = [row EXCEPT ![a].status = s]
  PROVE  /\ row' \in [Actions -> Row \union {NoRow}]
         /\ row'[a].status = s /\ row'[a].at = row[a].at
         /\ \A b \in Actions \ {a} : row'[b] = row[b]
         /\ Scheduled' = Scheduled
<1> USE DEF TypeOK
<1>1. a \in Actions /\ row[a] \in Row
  BY RowFields DEF Scheduled
<1> DEFINE new == [row[a] EXCEPT !.status = s]
<1>2. new \in Row /\ new.status = s /\ new.at = row[a].at
  BY <1>1 DEF Row
<1>3. row' = [row EXCEPT ![a] = new]
  OBVIOUS
<1> HIDE DEF new
<1>4. row'[a] = new /\ \A b \in Actions \ {a} : row'[b] = row[b]
  BY <1>1, <1>3
<1>5. row' \in [Actions -> Row \union {NoRow}]
  BY <1>1, <1>2, <1>3
<1>6. row'[a] # NoRow
  <2>1. NoRow.status = "none"
    BY DEF NoRow
  <2> QED BY <1>2, <1>4, <2>1
<1>7. Scheduled' = Scheduled
  BY <1>1, <1>4, <1>6 DEF Scheduled
<1> QED BY <1>2, <1>4, <1>5, <1>7

\* The row of an action that is scheduled.
LEMMA RowAdded ==
  ASSUME TypeOK, NEW a \in Actions, NEW q \in Requests, NEW at \in 0..MaxTime,
         ScheduleAction(a, q.verb, q.target, at)
  PROVE  /\ row' \in [Actions -> Row \union {NoRow}]
         /\ row'[a].status = "pending" /\ row'[a].at = at
         /\ \A b \in Actions \ {a} : row'[b] = row[b]
         /\ a \notin Scheduled /\ Scheduled' = Scheduled \union {a}
<1> DEFINE new == [status |-> "pending", verb |-> q.verb, target |-> q.target, at |-> at]
<1>1. q.verb \in {"publish", "unpublish"} /\ q.target \in Targets
  BY ActionsAssumption
<1>2. new \in Row /\ new.status = "pending" /\ new.at = at
  BY <1>1 DEF Row
<1>3. row' = [row EXCEPT ![a] = new] /\ a \notin Scheduled
  BY DEF ScheduleAction
<1> HIDE DEF new
<1>4. row'[a] = new /\ \A b \in Actions \ {a} : row'[b] = row[b]
  BY <1>3 DEF TypeOK
<1>5. row' \in [Actions -> Row \union {NoRow}]
  BY <1>2, <1>3 DEF TypeOK
<1>6. row'[a] # NoRow
  <2>1. NoRow.status = "none"
    BY DEF NoRow
  <2> QED BY <1>2, <1>4, <2>1
<1> QED BY <1>2, <1>3, <1>4, <1>5, <1>6 DEF Scheduled

-------------------------------------------------------------------------------
(***************************************************************************)
(* What a step of a tick does.                                             *)
(***************************************************************************)
LEMMA FindDueTick ==
  ASSUME TypeOK, NEW t \in Ticks, FindDue(t)
  PROVE  /\ tick' \in [Ticks -> Tick] /\ tick[t].step = "idle"
         /\ \A u \in Ticks \ {t} : tick'[u] = tick[u]
         /\ tick'[t].step = "execute"
         /\ tick'[t].due \in SUBSET Due
         /\ \A a \in tick'[t].due, b \in Due \ tick'[t].due : row[a].at <= row[b].at
         /\ shared' = shared \union {a \in tick'[t].due : \E u \in Ticks \ {t} : Running(u, a)}
<1>1. PICK S \in SUBSET Due :
         /\ \A a \in S, b \in Due \ S : row[a].at <= row[b].at
         /\ tick' = [tick EXCEPT ![t] = [step |-> "execute", due |-> S]]
         /\ shared' = shared \union {a \in S : \E u \in Ticks \ {t} : Running(u, a)}
  BY DEF FindDue
<1> DEFINE new == [step |-> "execute", due |-> S]
<1>2. new \in Tick /\ new.step = "execute" /\ new.due = S
  BY TickTypes DEF Due, Scheduled, Tick
<1>3. tick' = [tick EXCEPT ![t] = new]
  BY <1>1
<1> HIDE DEF new
<1>4. tick'[t] = new /\ \A u \in Ticks \ {t} : tick'[u] = tick[u]
  BY <1>3 DEF TypeOK
<1>5. tick' \in [Ticks -> Tick]
  BY <1>2, <1>3 DEF TypeOK
<1> QED BY <1>1, <1>2, <1>4, <1>5 DEF FindDue

LEMMA RanTick ==
  ASSUME TypeOK, NEW t \in Ticks, NEW a \in Actions, NEW o \in {"completed", "failed"}, Ran(t, a, o)
  PROVE  /\ tick' \in [Ticks -> Tick]
         /\ \A u \in Ticks \ {t} : tick'[u] = tick[u]
         /\ tick'[t].step = "save" /\ tick'[t].action = a /\ tick'[t].outcome = o
         /\ tick'[t].due = tick[t].due \ {a}
<1> DEFINE new == [step |-> "save", due |-> tick[t].due \ {a}, action |-> a, outcome |-> o]
<1>1. tick[t].due \in SUBSET Actions
  BY TickFields DEF TypeOK
<1>2. new \in Tick /\ new.step = "save" /\ new.action = a /\ new.outcome = o
      /\ new.due = tick[t].due \ {a}
  BY <1>1, TickTypes
<1>3. tick' = [tick EXCEPT ![t] = new]
  BY DEF Ran
<1> HIDE DEF new
<1>4. tick'[t] = new /\ \A u \in Ticks \ {t} : tick'[u] = tick[u]
  BY <1>3 DEF TypeOK
<1>5. tick' \in [Ticks -> Tick]
  BY <1>2, <1>3 DEF TypeOK
<1> QED BY <1>2, <1>4, <1>5

LEMMA SavedTick ==
  ASSUME TypeOK, NEW t \in Ticks, Saved(t)
  PROVE  /\ tick' \in [Ticks -> Tick]
         /\ \A u \in Ticks \ {t} : tick'[u] = tick[u]
         /\ tick'[t].step \in {"idle", "execute"} /\ tick'[t].due = tick[t].due
         /\ tick'[t].step = "idle" => tick'[t].due = {}
<1> DEFINE new == IF tick[t].due = {} THEN Idle ELSE [step |-> "execute", due |-> tick[t].due]
<1>1. tick[t].due \in SUBSET Actions
  BY TickFields DEF TypeOK
<1>2. /\ new \in Tick /\ new.step \in {"idle", "execute"} /\ new.due = tick[t].due
      /\ new.step = "idle" => new.due = {}
  <2>1. Idle.step = "idle" /\ Idle.due = {}
    BY DEF Idle
  <2> QED BY <1>1, <2>1, IdleType, TickTypes
<1>3. tick' = [tick EXCEPT ![t] = new]
  BY DEF Saved
<1> HIDE DEF new
<1>4. tick'[t] = new /\ \A u \in Ticks \ {t} : tick'[u] = tick[u]
  BY <1>3 DEF TypeOK
<1>5. tick' \in [Ticks -> Tick]
  BY <1>2, <1>3 DEF TypeOK
<1> QED BY <1>2, <1>4, <1>5

LEMMA SaveFailsTick ==
  ASSUME TypeOK, NEW t \in Ticks, SaveFails(t)
  PROVE  /\ tick' \in [Ticks -> Tick]
         /\ \A u \in Ticks \ {t} : tick'[u] = tick[u]
         /\ tick'[t].step = "save" /\ tick'[t].due = tick[t].due
         /\ tick'[t].action = tick[t].action /\ tick'[t].outcome = "failed"
<1> DEFINE new == [tick[t] EXCEPT !.outcome = "failed"]
<1>1. tick[t] \in Tick /\ tick[t].step = "save"
  BY DEF TypeOK, SaveFails
<1>2. /\ new \in Tick /\ new.step = "save" /\ new.due = tick[t].due
      /\ new.action = tick[t].action /\ new.outcome = "failed"
  BY <1>1 DEF Tick
<1>3. tick' = [tick EXCEPT ![t] = new]
  BY DEF SaveFails
<1> HIDE DEF new
<1>4. tick'[t] = new /\ \A u \in Ticks \ {t} : tick'[u] = tick[u]
  BY <1>3 DEF TypeOK
<1>5. tick' \in [Ticks -> Tick]
  BY <1>2, <1>3 DEF TypeOK
<1> QED BY <1>2, <1>4, <1>5

LEMMA CrashTick ==
  ASSUME TypeOK, NEW t \in Ticks, Crash(t)
  PROVE  /\ tick' \in [Ticks -> Tick]
         /\ \A u \in Ticks \ {t} : tick'[u] = tick[u]
         /\ tick'[t].step = "idle" /\ tick'[t].due = {}
<1>1. tick' = [tick EXCEPT ![t] = Idle]
  BY DEF Crash
<1>2. tick'[t] = Idle /\ \A u \in Ticks \ {t} : tick'[u] = tick[u]
  BY <1>1 DEF TypeOK
<1>3. Idle.step = "idle" /\ Idle.due = {}
  BY DEF Idle
<1>4. tick' \in [Ticks -> Tick]
  BY <1>1, IdleType DEF TypeOK
<1> QED BY <1>2, <1>3, <1>4

-------------------------------------------------------------------------------
LEMMA ExecuteTick ==
  ASSUME TypeOK, HoldsDue, NEW t \in Ticks, Execute(t)
  PROVE  \E a \in tick[t].due :
           /\ a \in Scheduled /\ \A b \in tick[t].due : row[a].at <= row[b].at
           /\ tick[t].step = "execute" /\ tick' \in [Ticks -> Tick]
           /\ \A u \in Ticks \ {t} : tick'[u] = tick[u]
           /\ tick'[t].step = "save" /\ tick'[t].action = a /\ tick'[t].outcome = "completed"
           /\ tick'[t].due = tick[t].due \ {a}
           /\ live' \subseteq Targets
           /\ effects' \in [Actions -> Nat] /\ effects'[a] = effects[a] + 1
           /\ \A b \in Actions \ {a} : effects'[b] = effects[b]
<1>1. PICK a \in NextAction(t) :
        /\ Ran(t, a, "completed")
        /\ live' = IF row[a].verb = "publish" THEN live \union {row[a].target}
                                              ELSE live \ {row[a].target}
        /\ effects' = [effects EXCEPT ![a] = @ + 1]
  BY DEF Execute
<1>2. a \in tick[t].due /\ a \in Actions /\ \A b \in tick[t].due : row[a].at <= row[b].at
  BY <1>1, TickFields DEF NextAction, Earliest, TypeOK
<1>3. a \in Scheduled /\ row[a] \in Row
  BY <1>2, RowFields DEF HoldsDue, Running
<1>4. live' \subseteq Targets
  BY <1>1, <1>3 DEF Row, TypeOK
<1>5. PICK o \in {"completed", "failed"} : o = "completed"
  OBVIOUS
<1>6. /\ tick' \in [Ticks -> Tick]
      /\ \A u \in Ticks \ {t} : tick'[u] = tick[u]
      /\ tick'[t].step = "save" /\ tick'[t].action = a /\ tick'[t].outcome = "completed"
      /\ tick'[t].due = tick[t].due \ {a}
  BY <1>1, <1>2, <1>5, RanTick
<1>7. /\ effects' \in [Actions -> Nat] /\ effects'[a] = effects[a] + 1
      /\ \A b \in Actions \ {a} : effects'[b] = effects[b]
  BY <1>1, <1>2 DEF TypeOK
<1> QED BY <1>2, <1>3, <1>4, <1>6, <1>7 DEF Execute

LEMMA ExecuteFailsTick ==
  ASSUME TypeOK, HoldsDue, NEW t \in Ticks, ExecuteFails(t)
  PROVE  \E a \in tick[t].due :
           /\ a \in Scheduled
           /\ tick[t].step = "execute" /\ tick' \in [Ticks -> Tick]
           /\ \A u \in Ticks \ {t} : tick'[u] = tick[u]
           /\ tick'[t].step = "save" /\ tick'[t].action = a /\ tick'[t].outcome = "failed"
           /\ tick'[t].due = tick[t].due \ {a}
           /\ errors' \in 0..MaxErrors /\ errors' >= errors
<1>1. PICK a \in NextAction(t) :
        /\ Accepted(a) => errors < MaxErrors
        /\ errors' = IF Accepted(a) THEN errors + 1 ELSE errors
        /\ Ran(t, a, "failed")
  BY DEF ExecuteFails
<1>2. a \in tick[t].due /\ a \in Actions
  BY <1>1, TickFields DEF NextAction, Earliest, TypeOK
<1>3. a \in Scheduled
  BY <1>2 DEF HoldsDue, Running
<1>4. PICK o \in {"completed", "failed"} : o = "failed"
  OBVIOUS
<1>5. /\ tick' \in [Ticks -> Tick]
      /\ \A u \in Ticks \ {t} : tick'[u] = tick[u]
      /\ tick'[t].step = "save" /\ tick'[t].action = a /\ tick'[t].outcome = "failed"
      /\ tick'[t].due = tick[t].due \ {a}
  BY <1>1, <1>2, <1>4, RanTick
<1>6. errors' \in 0..MaxErrors /\ errors' >= errors
  BY <1>1, ActionsAssumption DEF TypeOK
<1> QED BY <1>2, <1>3, <1>5, <1>6 DEF ExecuteFails

LEMMA SaveTick ==
  ASSUME TypeOK, HoldsDue, NEW t \in Ticks, Save(t)
  PROVE  \E a \in Scheduled :
           /\ tick[t].step = "save" /\ a = tick[t].action /\ tick[t].outcome \in {"completed", "failed"}
           /\ tick' \in [Ticks -> Tick]
           /\ \A u \in Ticks \ {t} : tick'[u] = tick[u]
           /\ tick'[t].step \in {"idle", "execute"} /\ tick'[t].due = tick[t].due
           /\ tick'[t].step = "idle" => tick'[t].due = {}
           /\ row' \in [Actions -> Row \union {NoRow}]
           /\ row'[a].status = tick[t].outcome /\ row'[a].at = row[a].at
           /\ \A b \in Actions \ {a} : row'[b] = row[b]
           /\ Scheduled' = Scheduled
<1> DEFINE a == tick[t].action
<1>1. tick[t].step = "save" /\ a \in Actions /\ tick[t].outcome \in {"completed", "failed"}
  BY TickFields DEF Save, TypeOK
<1>2. a \in Scheduled
  BY <1>1 DEF HoldsDue, Running
<1>3. row' = [row EXCEPT ![a].status = tick[t].outcome] /\ Saved(t)
  BY DEF Save
<1> HIDE DEF a
<1>4. /\ row' \in [Actions -> Row \union {NoRow}]
      /\ row'[a].status = tick[t].outcome /\ row'[a].at = row[a].at
      /\ \A b \in Actions \ {a} : row'[b] = row[b]
      /\ Scheduled' = Scheduled
  BY <1>1, <1>2, <1>3, RowSaved
<1>5. /\ tick' \in [Ticks -> Tick]
      /\ \A u \in Ticks \ {t} : tick'[u] = tick[u]
      /\ tick'[t].step \in {"idle", "execute"} /\ tick'[t].due = tick[t].due
      /\ tick'[t].step = "idle" => tick'[t].due = {}
  BY <1>3, SavedTick
<1> QED BY <1>1, <1>2, <1>4, <1>5 DEF a

-------------------------------------------------------------------------------
LEMMA TypeInit == Init => TypeOK
<1> SUFFICES ASSUME Init PROVE TypeOK
  OBVIOUS
<1>1. tick \in [Ticks -> Tick]
  BY IdleType DEF Init
<1>2. 0 \in 0..MaxTime /\ 0 \in 0..MaxErrors
  BY ActionsAssumption
<1> QED BY <1>1, <1>2 DEF Init, TypeOK

LEMMA TypeStep == TypeOK /\ HoldsDue /\ [Next]_vars => TypeOK'
<1> SUFFICES ASSUME TypeOK, HoldsDue, [Next]_vars PROVE TypeOK'
  OBVIOUS
<1>0. errors < MaxErrors /\ errors' = errors + 1 => errors' \in 0..MaxErrors
  BY ActionsAssumption DEF TypeOK
<1>1. ASSUME NEW a \in Actions, NEW q \in Requests, NEW at \in 0..MaxTime,
             ScheduleAction(a, q.verb, q.target, at)
      PROVE  TypeOK'
  <2>1. row' \in [Actions -> Row \union {NoRow}] /\ Scheduled \subseteq Scheduled'
    BY <1>1, RowAdded
  <2>2. overdue' \subseteq Actions
    BY <1>1 DEF ScheduleAction, TypeOK
  <2> QED BY <1>1, <2>1, <2>2 DEF ScheduleAction, TypeOK
<1>2. ASSUME NEW a \in Actions, ReadForCancel(a) PROVE TypeOK'
  BY <1>2 DEF ReadForCancel, TypeOK, Scheduled
<1>3. ASSUME NEW a \in Actions, SaveCanceled(a) PROVE TypeOK'
  <2>1. a \in Scheduled
    BY <1>3 DEF SaveCanceled, TypeOK
  <2>2. PICK s \in {"completed", "canceled", "failed"} : s = "canceled"
    OBVIOUS
  <2>3. row' \in [Actions -> Row \union {NoRow}] /\ Scheduled' = Scheduled
    BY <1>3, <2>1, <2>2, RowSaved DEF SaveCanceled
  <2> QED BY <1>3, <2>3 DEF SaveCanceled, TypeOK
<1>4. ASSUME NEW t \in Ticks, FindDue(t) PROVE TypeOK'
  <2>1. tick' \in [Ticks -> Tick] /\ shared' \subseteq Actions
    BY <1>4, FindDueTick DEF TypeOK, Due, Scheduled
  <2> QED BY <1>4, <2>1 DEF FindDue, TypeOK, Scheduled
<1>5. ASSUME NEW t \in Ticks, Execute(t) PROVE TypeOK'
  <2>1. /\ tick' \in [Ticks -> Tick] /\ live' \subseteq Targets
        /\ effects' \in [Actions -> Nat]
    BY <1>5, ExecuteTick
  <2> QED BY <1>5, <2>1 DEF Execute, TypeOK, Scheduled
<1>6. ASSUME NEW t \in Ticks, ExecuteFails(t) PROVE TypeOK'
  <2>1. tick' \in [Ticks -> Tick] /\ errors' \in 0..MaxErrors
    BY <1>6, ExecuteFailsTick
  <2> QED BY <1>6, <2>1 DEF ExecuteFails, TypeOK, Scheduled
<1>7. ASSUME NEW t \in Ticks, Save(t) PROVE TypeOK'
  <2>1. /\ tick' \in [Ticks -> Tick] /\ row' \in [Actions -> Row \union {NoRow}]
        /\ Scheduled' = Scheduled
    BY <1>7, SaveTick
  <2> QED BY <1>7, <2>1 DEF Save, TypeOK
<1>8. ASSUME NEW t \in Ticks, SaveFails(t) PROVE TypeOK'
  <2>1. tick' \in [Ticks -> Tick]
    BY <1>8, SaveFailsTick
  <2> QED BY <1>0, <1>8, <2>1 DEF SaveFails, TypeOK, Scheduled
<1>9. ASSUME NEW t \in Ticks, Crash(t) PROVE TypeOK'
  <2>1. tick' \in [Ticks -> Tick]
    BY <1>9, CrashTick
  <2> QED BY <1>0, <1>9, <2>1 DEF Crash, TypeOK, Scheduled
<1>10. CASE ClockTicks
  BY <1>10, ActionsAssumption DEF ClockTicks, TypeOK, Scheduled
<1>11. CASE UNCHANGED vars
  BY <1>11 DEF vars, TypeOK, Scheduled
<1> QED BY <1>1, <1>2, <1>3, <1>4, <1>5, <1>6, <1>7, <1>8, <1>9, <1>10, <1>11 DEF Next, RunDue

-------------------------------------------------------------------------------
(***************************************************************************)
(* What no step undoes: a scheduled action keeps its instant, and one that *)
(* is no longer open stays so.                                             *)
(***************************************************************************)
LEMMA Lasting ==
  ASSUME TypeOK, HoldsDue, [Next]_vars
  PROVE  /\ Scheduled \subseteq Scheduled' /\ Open' \subseteq Open
         /\ now <= now' /\ errors <= errors' /\ shared \subseteq shared' /\ overdue \subseteq overdue'
         /\ \A a \in Scheduled : row'[a].at = row[a].at
<1>0. /\ now \in Int /\ errors \in Int
      /\ \A a \in Actions : row'[a] = row[a] => (a \in Open' <=> a \in Open)
      /\ UNCHANGED row => Open' = Open /\ Scheduled' = Scheduled
  BY ActionsAssumption DEF TypeOK, Open, Scheduled
<1> USE <1>0
<1>1. ASSUME NEW a \in Actions, NEW q \in Requests, NEW at \in 0..MaxTime,
             ScheduleAction(a, q.verb, q.target, at)
      PROVE  /\ Scheduled \subseteq Scheduled' /\ Open' \subseteq Open
             /\ \A b \in Scheduled : row'[b].at = row[b].at
  <2>1. /\ a \notin Scheduled /\ Scheduled' = Scheduled \union {a}
        /\ \A b \in Actions \ {a} : row'[b] = row[b]
    BY <1>1, RowAdded
  <2>2. a \in Open
    BY <2>1, RowFields DEF Open
  <2> QED BY <2>1, <2>2 DEF Open, Scheduled
<1>2. ASSUME NEW a \in Scheduled, row'[a].status \notin {"none", "pending"}, row'[a].at = row[a].at,
             \A b \in Actions \ {a} : row'[b] = row[b], Scheduled' = Scheduled
      PROVE  /\ Scheduled \subseteq Scheduled' /\ Open' \subseteq Open
             /\ \A b \in Scheduled : row'[b].at = row[b].at
  BY <1>2 DEF Open, Scheduled
<1>3. ASSUME NEW a \in Actions, SaveCanceled(a)
      PROVE  /\ Scheduled \subseteq Scheduled' /\ Open' \subseteq Open
             /\ \A b \in Scheduled : row'[b].at = row[b].at
  <2>1. a \in Scheduled
    BY <1>3 DEF SaveCanceled, TypeOK
  <2>2. PICK s \in {"completed", "canceled", "failed"} : s = "canceled"
    OBVIOUS
  <2>3. /\ row'[a].status = s /\ row'[a].at = row[a].at
        /\ \A b \in Actions \ {a} : row'[b] = row[b]
        /\ Scheduled' = Scheduled
    BY <1>3, <2>1, <2>2, RowSaved DEF SaveCanceled
  <2> QED BY <1>2, <2>1, <2>2, <2>3
<1>4. ASSUME NEW t \in Ticks, Save(t)
      PROVE  /\ Scheduled \subseteq Scheduled' /\ Open' \subseteq Open
             /\ \A b \in Scheduled : row'[b].at = row[b].at
  BY <1>2, <1>4, SaveTick
<1> DEFINE Grow == /\ now <= now' /\ errors <= errors'
                   /\ shared \subseteq shared' /\ overdue \subseteq overdue'
<1>5. ASSUME NEW a \in Actions, NEW verb, NEW target, NEW at, ScheduleAction(a, verb, target, at)
      PROVE  Grow
  BY <1>5 DEF ScheduleAction
<1>6. ASSUME NEW a \in Actions, ReadForCancel(a) \/ SaveCanceled(a) PROVE Grow
  BY <1>6 DEF ReadForCancel, SaveCanceled
<1>7. ASSUME NEW t \in Ticks, RunDue(t) \/ SaveFails(t) \/ Crash(t) PROVE Grow
  <2>1. FindDue(t) => Grow
    BY FindDueTick DEF FindDue
  <2>2. ExecuteFails(t) => Grow
    BY ExecuteFailsTick DEF ExecuteFails, TypeOK
  <2>3. Execute(t) \/ Save(t) \/ SaveFails(t) \/ Crash(t) => Grow
    BY DEF Execute, Save, SaveFails, Crash
  <2> QED BY <1>7, <2>1, <2>2, <2>3 DEF RunDue
<1>8. ClockTicks \/ UNCHANGED vars => Grow
  BY DEF ClockTicks, vars
<1> HIDE DEF Grow
<1>9. Grow
  BY <1>5, <1>6, <1>7, <1>8 DEF Next
<1>10. /\ Scheduled \subseteq Scheduled' /\ Open' \subseteq Open
      /\ \A a \in Scheduled : row'[a].at = row[a].at
  <2>1. CASE UNCHANGED row
    BY <2>1
  <2> QED
    BY <1>1, <1>3, <1>4, <2>1
       DEF Next, RunDue, vars, ReadForCancel, FindDue, Execute, ExecuteFails, SaveFails, Crash,
           ClockTicks
<1> QED BY <1>9, <1>10 DEF Grow

\* A tick comes to hold an action by listing it, when it is due.
LEMMA HoldsDueStep == TypeOK /\ HoldsDue /\ [Next]_vars => HoldsDue'
<1> SUFFICES ASSUME TypeOK, HoldsDue, [Next]_vars PROVE HoldsDue'
  OBVIOUS
<1> DEFINE Held(k, a) == a \in k.due \/ (k.step = "save" /\ k.action = a)
           Fine(k) == /\ \A a \in Actions : Held(k, a) => a \in Scheduled' /\ row'[a].at <= now'
                      /\ k.step = "idle" => k.due = {}
                      /\ k.step = "save" => k.action \notin k.due
<1>0. /\ now \in Int /\ now' \in Int
      /\ \A a \in Scheduled : row[a].at \in Int /\ row'[a].at \in Int
  <2>1. TypeOK'
    BY TypeStep
  <2> QED BY <2>1, ActionsAssumption, RowFields, Lasting DEF TypeOK, Scheduled
<1>1. \A t \in Ticks : Fine(tick[t])
  BY <1>0, Lasting DEF HoldsDue, Running
<1>2. ASSUME \A t \in Ticks : Fine(tick'[t]) PROVE HoldsDue'
  BY <1>2 DEF HoldsDue, Running
<1>3. ASSUME NEW t \in Ticks, Fine(tick'[t]), \A u \in Ticks \ {t} : tick'[u] = tick[u]
      PROVE  HoldsDue'
  <2> HIDE DEF Fine
  <2> QED BY <1>1, <1>2, <1>3
<1>4. ASSUME NEW t \in Ticks, FindDue(t) PROVE HoldsDue'
  <2>1. /\ tick'[t].step = "execute" /\ tick'[t].due \in SUBSET Due
        /\ \A u \in Ticks \ {t} : tick'[u] = tick[u]
    BY <1>4, FindDueTick
  <2>2. Scheduled' = Scheduled /\ row' = row /\ now' = now
    BY <1>4 DEF FindDue, Scheduled
  <2>3. Fine(tick'[t])
    BY <2>1, <2>2 DEF Due
  <2> QED BY <1>3, <2>1, <2>3
<1>5. ASSUME NEW t \in Ticks, NEW a \in tick[t].due, tick'[t].step = "save", tick'[t].action = a,
             tick'[t].due = tick[t].due \ {a}, \A u \in Ticks \ {t} : tick'[u] = tick[u]
      PROVE  HoldsDue'
  <2>1. Fine(tick'[t])
    BY <1>1, <1>5
  <2> QED BY <1>3, <1>5, <2>1
<1>6. ASSUME NEW t \in Ticks, Execute(t) PROVE HoldsDue'
  BY <1>5, <1>6, ExecuteTick
<1>7. ASSUME NEW t \in Ticks, ExecuteFails(t) PROVE HoldsDue'
  BY <1>5, <1>7, ExecuteFailsTick
<1>8. ASSUME NEW t \in Ticks, Save(t) PROVE HoldsDue'
  <2>1. /\ tick'[t].step \in {"idle", "execute"} /\ tick'[t].due = tick[t].due
        /\ tick'[t].step = "idle" => tick'[t].due = {}
        /\ \A u \in Ticks \ {t} : tick'[u] = tick[u]
    BY <1>8, SaveTick
  <2>2. Fine(tick'[t])
    BY <1>1, <2>1
  <2> QED BY <1>3, <2>1, <2>2
<1>9. ASSUME NEW t \in Ticks, SaveFails(t) PROVE HoldsDue'
  <2>1. /\ tick'[t].step = "save" /\ tick'[t].due = tick[t].due
        /\ tick'[t].action = tick[t].action /\ \A u \in Ticks \ {t} : tick'[u] = tick[u]
    BY <1>9, SaveFailsTick
  <2>2. Fine(tick'[t])
    BY <1>1, <1>9, <2>1 DEF SaveFails
  <2> QED BY <1>3, <2>1, <2>2
<1>10. ASSUME NEW t \in Ticks, Crash(t) PROVE HoldsDue'
  <2>1. /\ tick'[t].step = "idle" /\ tick'[t].due = {} /\ \A u \in Ticks \ {t} : tick'[u] = tick[u]
    BY <1>10, CrashTick
  <2>2. Fine(tick'[t])
    BY <2>1
  <2> QED BY <1>3, <2>1, <2>2
<1>11. CASE UNCHANGED tick
  BY <1>1, <1>2, <1>11
<1> QED
  BY <1>4, <1>6, <1>7, <1>8, <1>9, <1>10, <1>11
     DEF Next, RunDue, vars, ScheduleAction, ReadForCancel, SaveCanceled, ClockTicks

-------------------------------------------------------------------------------
(***************************************************************************)
(* An action that no two ticks were seen to hold at once is held by one    *)
(* tick at a time, until its record is final.                              *)
(***************************************************************************)
LEMMA HeldOnceStep == TypeOK /\ HoldsDue /\ HeldOnce /\ [Next]_vars => HeldOnce'
<1> SUFFICES ASSUME TypeOK, HoldsDue, HeldOnce, [Next]_vars PROVE HeldOnce'
  OBVIOUS
<1>1. ASSUME UNCHANGED shared, \A t \in Ticks, a \in Actions : Running(t, a)' => Running(t, a),
             \A a \in Actions : \/ row'[a].status \notin {"completed", "failed"} \/ row'[a] = row[a]
                                \/ \A t \in Ticks : a \notin shared => ~Running(t, a)'
      PROVE  HeldOnce'
  BY <1>1 DEF HeldOnce
<1>2. ASSUME NEW a \in Actions, NEW q \in Requests, NEW at \in 0..MaxTime,
             ScheduleAction(a, q.verb, q.target, at)
      PROVE  HeldOnce'
  <2>1. row'[a].status = "pending" /\ \A b \in Actions \ {a} : row'[b] = row[b]
    BY <1>2, RowAdded
  <2> QED BY <1>1, <1>2, <2>1 DEF ScheduleAction, Running
<1>3. ASSUME NEW a \in Actions, SaveCanceled(a) PROVE HeldOnce'
  <2>1. a \in Scheduled
    BY <1>3 DEF SaveCanceled, TypeOK
  <2>2. PICK s \in {"completed", "canceled", "failed"} : s = "canceled"
    OBVIOUS
  <2>3. row'[a].status = s /\ \A b \in Actions \ {a} : row'[b] = row[b]
    BY <1>3, <2>1, <2>2, RowSaved DEF SaveCanceled
  <2> QED BY <1>1, <1>3, <2>2, <2>3 DEF SaveCanceled, Running
<1>4. ASSUME NEW t \in Ticks, FindDue(t) PROVE HeldOnce'
  <2>1. /\ tick[t].step = "idle" /\ tick'[t].step = "execute" /\ tick'[t].due \in SUBSET Due
        /\ \A u \in Ticks \ {t} : tick'[u] = tick[u]
        /\ shared' = shared \union {a \in tick'[t].due : \E u \in Ticks \ {t} : Running(u, a)}
    BY <1>4, FindDueTick
  <2>2. row' = row
    BY <1>4 DEF FindDue
  <2> SUFFICES ASSUME NEW a \in Actions \ shared', NEW u \in Ticks, Running(u, a)'
               PROVE  /\ row[a].status \notin {"completed", "failed"}
                      /\ \A w \in Ticks : Running(w, a)' => w = u
    BY <2>2 DEF HeldOnce
  <2>3. CASE a \in tick'[t].due
    <3>1. \A w \in Ticks \ {t} : ~Running(w, a)'
      BY <2>1, <2>3 DEF Running
    <3>2. row[a].status = "pending"
      BY <2>1, <2>3 DEF Due
    <3> QED BY <3>1, <3>2
  <2>4. CASE a \notin tick'[t].due
    <3>1. \A w \in Ticks : Running(w, a)' => w # t /\ Running(w, a)
      BY <2>1, <2>4 DEF Running
    <3> QED BY <2>1, <3>1 DEF HeldOnce
  <2> QED BY <2>3, <2>4
<1>5. ASSUME NEW t \in Ticks, Execute(t) PROVE HeldOnce'
  <2>1. \A u \in Ticks, a \in Actions : Running(u, a)' => Running(u, a)
    BY <1>5, ExecuteTick DEF Running
  <2> QED BY <1>1, <1>5, <2>1 DEF Execute
<1>6. ASSUME NEW t \in Ticks, ExecuteFails(t) PROVE HeldOnce'
  <2>1. \A u \in Ticks, a \in Actions : Running(u, a)' => Running(u, a)
    BY <1>6, ExecuteFailsTick DEF Running
  <2> QED BY <1>1, <1>6, <2>1 DEF ExecuteFails
<1>7. ASSUME NEW t \in Ticks, Save(t) PROVE HeldOnce'
  <2>1. PICK a \in Scheduled :
           /\ tick[t].step = "save" /\ a = tick[t].action
           /\ \A u \in Ticks \ {t} : tick'[u] = tick[u]
           /\ tick'[t].step \in {"idle", "execute"} /\ tick'[t].due = tick[t].due
           /\ \A b \in Actions \ {a} : row'[b] = row[b]
    BY <1>7, SaveTick
  <2>2. \A u \in Ticks, b \in Actions : Running(u, b)' => Running(u, b)
    BY <2>1 DEF Running
  <2>3. a \notin shared => \A u \in Ticks : ~Running(u, a)'
    <3>1. Running(t, a) /\ ~Running(t, a)'
      BY <2>1 DEF Running, HoldsDue
    <3> QED BY <2>1, <2>2, <3>1 DEF HeldOnce, Scheduled
  <2> QED BY <1>1, <1>7, <2>1, <2>2, <2>3 DEF Save
<1>8. ASSUME NEW t \in Ticks, SaveFails(t) PROVE HeldOnce'
  <2>1. \A u \in Ticks, a \in Actions : Running(u, a)' => Running(u, a)
    BY <1>8, SaveFailsTick DEF Running, SaveFails
  <2> QED BY <1>1, <1>8, <2>1 DEF SaveFails
<1>9. ASSUME NEW t \in Ticks, Crash(t) PROVE HeldOnce'
  <2>1. \A u \in Ticks, a \in Actions : Running(u, a)' => Running(u, a)
    BY <1>9, CrashTick DEF Running
  <2> QED BY <1>1, <1>9, <2>1 DEF Crash
<1>10. CASE UNCHANGED <<row, tick, shared>>
  BY <1>1, <1>10 DEF Running
<1> QED
  BY <1>2, <1>3, <1>4, <1>5, <1>6, <1>7, <1>8, <1>9, <1>10
     DEF Next, RunDue, vars, ReadForCancel, ClockTicks

-------------------------------------------------------------------------------
(***************************************************************************)
(* How often an action takes effect.  While it is open, each effect is     *)
(* still to be recorded or its record was lost; from then on, only the     *)
(* ticks that hold it can run it.                                          *)
(***************************************************************************)
LEMMA Counts ==
  ASSUME NEW S \in SUBSET Ticks
  PROVE  /\ IsFiniteSet(S) /\ Cardinality(S) \in Nat /\ Cardinality(S) <= Cardinality(Ticks)
         /\ Cardinality(Ticks) \in Nat
         /\ \A T \in SUBSET S : Cardinality(T) \in Nat /\ Cardinality(T) <= Cardinality(S)
         /\ \A t \in Ticks : /\ Cardinality(S \union {t}) = IF t \in S THEN Cardinality(S)
                                                                     ELSE Cardinality(S) + 1
                             /\ Cardinality(S \ {t}) = IF t \in S THEN Cardinality(S) - 1
                                                                  ELSE Cardinality(S)
<1>1. IsFiniteSet(Ticks)
  BY ActionsAssumption
<1>2. IsFiniteSet(S) /\ Cardinality(S) <= Cardinality(Ticks)
  BY <1>1, FS_Subset
<1> QED BY <1>1, <1>2, FS_Subset, FS_CardinalityType, FS_AddElement, FS_RemoveElement

LEMMA OpenBounded ==
  TypeOK /\ HoldsDue /\ HeldOnce /\ OpenUnrecorded =>
    \A a \in Open : effects[a] + Cardinality(Holders(a)) <= errors + Cap(a)
<1> SUFFICES ASSUME TypeOK, HoldsDue, HeldOnce, OpenUnrecorded, NEW a \in Open
             PROVE  effects[a] + Cardinality(Holders(a)) <= errors + Cap(a)
  OBVIOUS
<1> DEFINE H == Holders(a)
           S == Savers(a)
<1>1. H \in SUBSET Ticks /\ S \in SUBSET Ticks /\ H \cap S = {} /\ a \in Actions
  BY DEF Holders, Savers, HoldsDue, Open
<1>2. \A t \in H \union S : Running(t, a)
  BY DEF Holders, Savers, Running
<1>3. effects[a] <= errors + Cardinality(S)
  BY DEF OpenUnrecorded
<1>4. effects[a] \in Nat /\ errors \in Nat
  BY <1>1, ActionsAssumption DEF TypeOK
<1> HIDE DEF H, S
<1>5. IsFiniteSet(H) /\ IsFiniteSet(S) /\ Cardinality(H) \in Nat /\ Cardinality(S) \in Nat
  BY <1>1, Counts
<1>6. Cardinality(H \union S) = Cardinality(H) + Cardinality(S)
  <2>1. Cardinality(H \union S) = Cardinality(H) + Cardinality(S) - Cardinality(H \cap S)
    BY <1>5, FS_Union
  <2>2. Cardinality(H \cap S) = 0
    BY <1>1, FS_EmptySet
  <2> QED BY <1>5, <2>1, <2>2
<1>7. Cardinality(H \union S) <= Cap(a)
  <2>1. CASE a \in shared
    <3>1. H \union S \in SUBSET Ticks
      BY <1>1
    <3>2. Cardinality(H \union S) <= Cardinality(Ticks)
      BY <3>1, Counts
    <3> QED BY <2>1, <3>2 DEF Cap
  <2>2. CASE a \notin shared
    <3>1. CASE H \union S = {}
      BY <2>2, <3>1, FS_EmptySet DEF Cap
    <3>2. CASE H \union S # {}
      <4>1. PICK t \in H \union S : TRUE
        BY <3>2
      <4>2. H \union S = {t}
        BY <1>1, <1>2, <2>2, <4>1 DEF HeldOnce
      <4> QED BY <2>2, <4>2, FS_Singleton DEF Cap
    <3> QED BY <3>1, <3>2
  <2> QED BY <2>1, <2>2
<1>8. Cap(a) \in Nat
  <2>1. Cardinality(Ticks) \in Nat
    BY <1>1, Counts
  <2> QED BY <2>1 DEF Cap
<1> QED BY <1>3, <1>4, <1>5, <1>6, <1>7, <1>8 DEF H

\* What a step does to the ticks that are yet to run an action, and to those that ran it.
LEMMA HoldersMoved ==
  ASSUME TypeOK, HoldsDue, NEW t \in Ticks, \A u \in Ticks \ {t} : tick'[u] = tick[u], NEW a \in Actions
  PROVE  /\ Holders(a) \in SUBSET Ticks /\ Savers(a) \in SUBSET Ticks
         /\ Holders(a)' = IF a \in tick'[t].due THEN Holders(a) \union {t} ELSE Holders(a) \ {t}
         /\ Savers(a)' = IF tick'[t].step = "save" /\ tick'[t].action = a
                         THEN Savers(a) \union {t} ELSE Savers(a) \ {t}
<1>1. Holders(a) \in SUBSET Ticks /\ Savers(a) \in SUBSET Ticks
  BY DEF Holders, Savers
<1>2. Holders(a)' = IF a \in tick'[t].due THEN Holders(a) \union {t} ELSE Holders(a) \ {t}
  BY DEF Holders
<1>3. Savers(a)' = IF tick'[t].step = "save" /\ tick'[t].action = a
                   THEN Savers(a) \union {t} ELSE Savers(a) \ {t}
  BY DEF Savers
<1> QED BY <1>1, <1>2, <1>3

LEMMA OpenUnrecordedStep == TypeOK /\ HoldsDue /\ OpenUnrecorded /\ [Next]_vars => OpenUnrecorded'
<1> SUFFICES ASSUME TypeOK, HoldsDue, OpenUnrecorded, [Next]_vars, NEW a \in Open'
             PROVE  effects'[a] <= errors' + Cardinality(Savers(a)')
  BY DEF OpenUnrecorded
<1>0. /\ a \in Actions /\ a \in Open /\ effects[a] <= errors + Cardinality(Savers(a))
      /\ effects[a] \in Nat /\ errors \in Nat /\ errors' \in Nat /\ errors <= errors'
      /\ Savers(a) \in SUBSET Ticks /\ Cardinality(Savers(a)) \in Nat
  <2>1. TypeOK'
    BY TypeStep
  <2>2. a \in Actions /\ a \in Open
    BY Lasting DEF Open
  <2>3. Savers(a) \in SUBSET Ticks
    BY DEF Savers
  <2> QED BY <2>1, <2>2, <2>3, Lasting, Counts, ActionsAssumption DEF TypeOK, OpenUnrecorded
<1>1. ASSUME NEW t \in Ticks, Savers(a)' = Savers(a) \/ Savers(a)' = Savers(a) \union {t},
             effects'[a] = effects[a]
      PROVE  effects'[a] <= errors' + Cardinality(Savers(a)')
  <2>1. Cardinality(Savers(a)') \in Nat /\ Cardinality(Savers(a)) <= Cardinality(Savers(a)')
    BY <1>0, <1>1, Counts
  <2> QED BY <1>0, <1>1, <2>1
<1>2. ASSUME UNCHANGED <<tick, effects>> PROVE effects'[a] <= errors' + Cardinality(Savers(a)')
  <2>1. Savers(a)' = Savers(a)
    BY <1>2 DEF Savers
  <2> QED BY <1>0, <1>2, <2>1
<1>3. ASSUME NEW t \in Ticks, FindDue(t) PROVE effects'[a] <= errors' + Cardinality(Savers(a)')
  <2>1. Savers(a)' = Savers(a)
    BY <1>0, <1>3, FindDueTick DEF Savers
  <2> QED BY <1>1, <1>3, <2>1 DEF FindDue
<1>4. ASSUME NEW t \in Ticks, Execute(t) PROVE effects'[a] <= errors' + Cardinality(Savers(a)')
  <2>1. PICK b \in tick[t].due :
           /\ b \in Scheduled /\ tick[t].step = "execute"
           /\ \A u \in Ticks \ {t} : tick'[u] = tick[u]
           /\ tick'[t].step = "save" /\ tick'[t].action = b
           /\ effects'[b] = effects[b] + 1
           /\ \A c \in Actions \ {b} : effects'[c] = effects[c]
    BY <1>4, ExecuteTick
  <2>2. t \notin Savers(a)
    BY <2>1 DEF Savers
  <2>3. CASE a = b
    <3>1. Savers(a)' = Savers(a) \union {t}
      BY <1>0, <2>1, <2>3, HoldersMoved
    <3>2. Cardinality(Savers(a)') = Cardinality(Savers(a)) + 1
      BY <1>0, <2>2, <3>1, Counts
    <3> QED BY <1>0, <2>1, <2>3, <3>2
  <2>4. CASE a # b
    <3>1. Savers(a)' = Savers(a)
      BY <2>1, <2>4 DEF Savers
    <3> QED BY <1>0, <1>1, <2>1, <2>4, <3>1
  <2> QED BY <2>3, <2>4
<1>5. ASSUME NEW t \in Ticks, ExecuteFails(t) PROVE effects'[a] <= errors' + Cardinality(Savers(a)')
  <2>1. tick[t].step = "execute" /\ \A u \in Ticks \ {t} : tick'[u] = tick[u]
    BY <1>5, ExecuteFailsTick
  <2>2. Savers(a)' = Savers(a) \/ Savers(a)' = Savers(a) \union {t}
    BY <1>0, <2>1, HoldersMoved DEF Savers
  <2> QED BY <1>1, <1>5, <2>2 DEF ExecuteFails
<1>6. ASSUME NEW t \in Ticks, Save(t) PROVE effects'[a] <= errors' + Cardinality(Savers(a)')
  <2>1. PICK b \in Scheduled :
           /\ b = tick[t].action /\ tick[t].outcome \in {"completed", "failed"}
           /\ \A u \in Ticks \ {t} : tick'[u] = tick[u]
           /\ tick'[t].step \in {"idle", "execute"} /\ row'[b].status = tick[t].outcome
    BY <1>6, SaveTick
  <2>2. a # b
    BY <2>1 DEF Open
  <2>3. Savers(a)' = Savers(a)
    BY <1>0, <2>1, <2>2, HoldersMoved DEF Savers
  <2> QED BY <1>1, <1>6, <2>3 DEF Save
<1>7. ASSUME NEW t \in Ticks, SaveFails(t) PROVE effects'[a] <= errors' + Cardinality(Savers(a)')
  <2>1. Savers(a)' = Savers(a)
    BY <1>7, SaveFailsTick DEF Savers, SaveFails
  <2> QED BY <1>1, <1>7, <2>1 DEF SaveFails
<1>8. ASSUME NEW t \in Ticks, Crash(t) PROVE effects'[a] <= errors' + Cardinality(Savers(a)')
  <2>1. Savers(a)' = Savers(a) \ {t}
    BY <1>0, <1>8, CrashTick, HoldersMoved
  <2>2. /\ Cardinality(Savers(a)') \in Nat
        /\ Cardinality(Savers(a)) <= Cardinality(Savers(a)') + 1
    BY <1>0, <2>1, Counts
  <2> QED BY <1>0, <1>8, <2>2 DEF Crash
<1> QED
  BY <1>2, <1>3, <1>4, <1>5, <1>6, <1>7, <1>8
     DEF Next, RunDue, vars, ScheduleAction, ReadForCancel, SaveCanceled, ClockTicks

LEMMA HeldBoundedStep ==
  /\ TypeOK /\ HoldsDue /\ HeldOnce /\ OpenUnrecorded /\ HeldBounded
  /\ [Next]_vars
  => HeldBounded'
<1> SUFFICES ASSUME TypeOK, HoldsDue, HeldOnce, OpenUnrecorded, HeldBounded, [Next]_vars
             PROVE  HeldBounded'
  OBVIOUS
<1>1. \A a \in Open' : effects'[a] + Cardinality(Holders(a)') <= errors' + Cap(a)'
  <2>1. TypeOK' /\ HoldsDue' /\ HeldOnce' /\ OpenUnrecorded'
    BY TypeStep, HoldsDueStep, HeldOnceStep, OpenUnrecordedStep
  <2>2. (TypeOK /\ HoldsDue /\ HeldOnce /\ OpenUnrecorded =>
          \A a \in Open : effects[a] + Cardinality(Holders(a)) <= errors + Cap(a))'
    BY OpenBounded, PTL
  <2> QED BY <2>1, <2>2
<1> SUFFICES ASSUME NEW a \in Actions, a \notin Open'
             PROVE  effects'[a] + Cardinality(Holders(a)') <= errors' + Cap(a)'
  BY <1>1 DEF HeldBounded
<1>0. /\ effects[a] + Cardinality(Holders(a)) <= errors + Cap(a)
      /\ effects[a] \in Nat /\ errors \in Nat /\ errors' \in Nat /\ errors <= errors'
      /\ Holders(a) \in SUBSET Ticks /\ Cardinality(Holders(a)) \in Nat
      /\ Cap(a) \in Nat /\ (Ticks # {} => Cap(a) <= Cap(a)')
      /\ Cap(a)' \in Nat /\ (UNCHANGED shared => Cap(a)' = Cap(a))
  <2>1. TypeOK'
    BY TypeStep
  <2>2. Holders(a) \in SUBSET Ticks
    BY DEF Holders
  <2>3. Cardinality(Ticks) \in Nat
    BY <2>2, Counts
  <2>4. Ticks # {} => Cardinality(Ticks) >= 1
    BY <2>3, ActionsAssumption, FS_EmptySet
  <2>5. Cap(a) \in Nat /\ Cap(a)' \in Nat /\ (Ticks # {} => Cap(a) <= Cap(a)')
        /\ (UNCHANGED shared => Cap(a)' = Cap(a))
    BY <2>3, <2>4, Lasting DEF Cap
  <2> QED BY <2>1, <2>2, <2>5, Lasting, Counts, ActionsAssumption DEF TypeOK, HeldBounded
<1> DEFINE Goal == effects'[a] + Cardinality(Holders(a)') <= errors' + Cap(a)'
<1>2. ASSUME Holders(a)' \in SUBSET Holders(a), effects'[a] = effects[a], Cap(a) <= Cap(a)'
      PROVE  Goal
  <2>1. Cardinality(Holders(a)') \in Nat /\ Cardinality(Holders(a)') <= Cardinality(Holders(a))
    BY <1>0, <1>2, Counts
  <2> QED BY <1>0, <1>2, <2>1
<1>3. ASSUME UNCHANGED <<tick, effects, shared>> PROVE Goal
  <2>1. Holders(a)' = Holders(a)
    BY <1>3 DEF Holders
  <2> QED BY <1>0, <1>3, <2>1
<1>4. ASSUME NEW t \in Ticks, FindDue(t) PROVE Goal
  <2>1. a \notin tick'[t].due
    <3>1. tick'[t].due \in SUBSET Due /\ row' = row
      BY <1>4, FindDueTick DEF FindDue
    <3> QED BY <3>1 DEF Due, Open
  <2>2. Holders(a)' \in SUBSET Holders(a)
    BY <1>4, <2>1, FindDueTick, HoldersMoved
  <2> QED BY <1>0, <1>2, <1>4, <2>2 DEF FindDue
<1>5. ASSUME NEW t \in Ticks, Execute(t) PROVE Goal
  <2>1. PICK b \in tick[t].due :
           /\ \A u \in Ticks \ {t} : tick'[u] = tick[u]
           /\ tick'[t].due = tick[t].due \ {b}
           /\ effects'[b] = effects[b] + 1
           /\ \A c \in Actions \ {b} : effects'[c] = effects[c]
    BY <1>5, ExecuteTick
  <2>2. UNCHANGED <<errors, shared>>
    BY <1>5 DEF Execute
  <2>3. CASE a = b
    <3>1. Holders(a)' = Holders(a) \ {t} /\ t \in Holders(a)
      BY <2>1, <2>3, HoldersMoved DEF Holders
    <3>2. Cardinality(Holders(a)') = Cardinality(Holders(a)) - 1
      BY <1>0, <3>1, Counts
    <3> QED BY <1>0, <2>1, <2>2, <2>3, <3>2
  <2>4. CASE a # b
    <3>1. Holders(a)' \in SUBSET Holders(a)
      BY <2>1 DEF Holders
    <3> QED BY <1>0, <1>2, <2>1, <2>2, <2>4, <3>1
  <2> QED BY <2>3, <2>4
<1>6. ASSUME NEW t \in Ticks, ExecuteFails(t) PROVE Goal
  <2>1. Holders(a)' \in SUBSET Holders(a)
    BY <1>6, ExecuteFailsTick DEF Holders
  <2> QED BY <1>0, <1>2, <1>6, <2>1 DEF ExecuteFails
<1>7. ASSUME NEW t \in Ticks, Save(t) PROVE Goal
  <2>1. Holders(a)' \in SUBSET Holders(a)
    BY <1>7, SaveTick DEF Holders
  <2> QED BY <1>0, <1>2, <1>7, <2>1 DEF Save
<1>8. ASSUME NEW t \in Ticks, SaveFails(t) PROVE Goal
  <2>1. Holders(a)' \in SUBSET Holders(a)
    BY <1>8, SaveFailsTick DEF Holders
  <2> QED BY <1>0, <1>2, <1>8, <2>1 DEF SaveFails
<1>9. ASSUME NEW t \in Ticks, Crash(t) PROVE Goal
  <2>1. Holders(a)' \in SUBSET Holders(a)
    BY <1>9, CrashTick DEF Holders
  <2> QED BY <1>0, <1>2, <1>9, <2>1 DEF Crash
<1> QED
  BY <1>3, <1>4, <1>5, <1>6, <1>7, <1>8, <1>9
     DEF Next, RunDue, vars, ScheduleAction, ReadForCancel, SaveCanceled, ClockTicks

-------------------------------------------------------------------------------
(***************************************************************************)
(* What a record tells.  A tick that runs an action another one has        *)
(* recorded, or is about to, makes two ticks that held it.                 *)
(***************************************************************************)
\* The effect of one action, or none.
LEMMA EffectsMoved ==
  ASSUME TypeOK, HoldsDue, [Next]_vars
  PROVE  \/ UNCHANGED effects
         \/ \E t \in Ticks : \E a \in tick[t].due :
              /\ a \in Scheduled /\ tick[t].step = "execute"
              /\ \A b \in tick[t].due : row[a].at <= row[b].at
              /\ effects'[a] = effects[a] + 1 /\ \A b \in Actions \ {a} : effects'[b] = effects[b]
<1>1. ASSUME NEW t \in Ticks, Execute(t)
      PROVE  \E a \in tick[t].due :
               /\ a \in Scheduled /\ tick[t].step = "execute"
               /\ \A b \in tick[t].due : row[a].at <= row[b].at
               /\ effects'[a] = effects[a] + 1 /\ \A b \in Actions \ {a} : effects'[b] = effects[b]
  BY <1>1, ExecuteTick
<1>2. ASSUME ~(\E t \in Ticks : Execute(t)) PROVE UNCHANGED effects
  BY <1>2
     DEF Next, RunDue, vars, ScheduleAction, ReadForCancel, SaveCanceled, FindDue, ExecuteFails,
         Save, SaveFails, Crash, ClockTicks
<1> QED BY <1>1, <1>2

LEMMA OutcomeToldStep ==
  /\ TypeOK /\ HoldsDue /\ HeldOnce /\ HeldBounded /\ OutcomeTold
  /\ [Next]_vars
  => OutcomeTold'
<1> SUFFICES ASSUME TypeOK, HoldsDue, HeldOnce, HeldBounded, OutcomeTold, [Next]_vars
             PROVE  OutcomeTold'
  OBVIOUS
<1>0. /\ \A a \in Actions : effects[a] \in Nat /\ effects'[a] \in Nat
      /\ errors \in Nat /\ errors' \in Nat /\ errors <= errors' /\ shared \subseteq shared'
      /\ \A t \in Ticks : tick[t].step = "save" => tick[t].action \in Actions
  <2>1. TypeOK'
    BY TypeStep
  <2> QED BY <2>1, Lasting, TickFields, ActionsAssumption DEF TypeOK
<1> DEFINE Told(k) == k.step = "save" =>
                        /\ k.outcome = "completed" => effects'[k.action] > 0
                        /\ k.outcome = "failed" /\ effects'[k.action] > 0
                             => errors' > 0 \/ k.action \in shared'
<1>1. ASSUME \A t \in Ticks : Told(tick'[t]) PROVE OutcomeTold'
  BY <1>1 DEF OutcomeTold
<1>2. UNCHANGED effects => \A t \in Ticks : Told(tick[t])
  BY <1>0 DEF OutcomeTold
<1>3. ASSUME NEW t \in Ticks, \A u \in Ticks \ {t} : tick'[u] = tick[u], UNCHANGED effects,
             Told(tick'[t])
      PROVE  OutcomeTold'
  <2> HIDE DEF Told
  <2> QED BY <1>1, <1>2, <1>3
<1>4. ASSUME NEW t \in Ticks, FindDue(t) PROVE OutcomeTold'
  <2>1. tick'[t].step = "execute" /\ \A u \in Ticks \ {t} : tick'[u] = tick[u]
    BY <1>4, FindDueTick
  <2>2. Told(tick'[t])
    BY <2>1
  <2> HIDE DEF Told
  <2> QED BY <1>3, <1>4, <2>1, <2>2 DEF FindDue
<1>5. ASSUME NEW t \in Ticks, Execute(t) PROVE OutcomeTold'
  <2>1. PICK a \in tick[t].due :
           /\ a \in Scheduled
           /\ \A u \in Ticks \ {t} : tick'[u] = tick[u]
           /\ tick'[t].step = "save" /\ tick'[t].action = a /\ tick'[t].outcome = "completed"
           /\ effects'[a] = effects[a] + 1 /\ \A b \in Actions \ {a} : effects'[b] = effects[b]
    BY <1>5, ExecuteTick
  <2>2. a \in Actions
    BY <2>1 DEF Scheduled
  <2>3. Told(tick'[t])
    BY <1>0, <2>1, <2>2
  <2>4. ASSUME NEW u \in Ticks \ {t} PROVE Told(tick[u])
    <3>1. CASE tick[u].step = "save" /\ tick[u].action = a
      <4>1. Running(t, a) /\ Running(u, a)
        BY <2>1, <3>1 DEF Running
      <4>2. a \in shared
        BY <2>2, <2>4, <4>1 DEF HeldOnce
      <4> QED BY <1>0, <2>1, <2>2, <3>1, <4>2
    <3>2. CASE ~(tick[u].step = "save" /\ tick[u].action = a)
      BY <1>0, <2>1, <3>2 DEF OutcomeTold
    <3> QED BY <3>1, <3>2
  <2> HIDE DEF Told
  <2> QED BY <1>1, <2>1, <2>3, <2>4
<1>6. ASSUME NEW t \in Ticks, ExecuteFails(t) PROVE OutcomeTold'
  <2>1. PICK a \in tick[t].due :
           /\ a \in Scheduled
           /\ \A u \in Ticks \ {t} : tick'[u] = tick[u]
           /\ tick'[t].step = "save" /\ tick'[t].action = a /\ tick'[t].outcome = "failed"
    BY <1>6, ExecuteFailsTick
  <2>2. a \in Actions /\ UNCHANGED <<effects, shared>>
    BY <1>6, <2>1 DEF Scheduled, ExecuteFails
  <2>3. effects[a] > 0 /\ a \notin shared => errors > 0
    <3>1. Holders(a) \in SUBSET Ticks /\ t \in Holders(a)
      BY <2>1 DEF Holders
    <3>2. Cardinality(Holders(a)) \in Nat /\ IsFiniteSet(Holders(a))
      BY <3>1, Counts
    <3>3. Cardinality(Holders(a)) >= 1
      BY <3>1, <3>2, FS_EmptySet
    <3>4. effects[a] + Cardinality(Holders(a)) <= errors + Cap(a)
      BY <2>2 DEF HeldBounded
    <3> QED BY <1>0, <2>2, <3>2, <3>3, <3>4 DEF Cap
  <2>4. Told(tick'[t])
    BY <1>0, <2>1, <2>2, <2>3
  <2> HIDE DEF Told
  <2> QED BY <1>3, <2>1, <2>2, <2>4
<1>7. ASSUME NEW t \in Ticks, Save(t) PROVE OutcomeTold'
  <2>1. tick'[t].step \in {"idle", "execute"} /\ \A u \in Ticks \ {t} : tick'[u] = tick[u]
    BY <1>7, SaveTick
  <2>2. Told(tick'[t])
    BY <2>1
  <2> HIDE DEF Told
  <2> QED BY <1>3, <1>7, <2>1, <2>2 DEF Save
<1>8. ASSUME NEW t \in Ticks, SaveFails(t) PROVE OutcomeTold'
  <2>1. /\ tick'[t].outcome = "failed" /\ \A u \in Ticks \ {t} : tick'[u] = tick[u]
        /\ errors' = errors + 1
    BY <1>8, SaveFailsTick DEF SaveFails
  <2>2. Told(tick'[t])
    BY <1>0, <2>1
  <2> HIDE DEF Told
  <2> QED BY <1>3, <1>8, <2>1, <2>2 DEF SaveFails
<1>9. ASSUME NEW t \in Ticks, Crash(t) PROVE OutcomeTold'
  <2>1. tick'[t].step = "idle" /\ \A u \in Ticks \ {t} : tick'[u] = tick[u]
    BY <1>9, CrashTick
  <2>2. Told(tick'[t])
    BY <2>1
  <2> HIDE DEF Told
  <2> QED BY <1>3, <1>9, <2>1, <2>2 DEF Crash
<1>10. CASE UNCHANGED <<tick, effects>>
  <2> HIDE DEF Told
  <2> QED BY <1>1, <1>2, <1>10
<1> QED
  BY <1>4, <1>5, <1>6, <1>7, <1>8, <1>9, <1>10
     DEF Next, RunDue, vars, ScheduleAction, ReadForCancel, SaveCanceled, ClockTicks

LEMMA RecordStep ==
  /\ TypeOK /\ HoldsDue /\ HeldOnce /\ OutcomeTold /\ RecordTellsEffect
  /\ [Next]_vars
  => RecordTellsEffect'
<1> SUFFICES ASSUME TypeOK, HoldsDue, HeldOnce, OutcomeTold, RecordTellsEffect, [Next]_vars
             PROVE  RecordTellsEffect'
  OBVIOUS
<1>0. /\ \A a \in Actions : effects[a] \in Nat /\ effects'[a] \in Nat
      /\ errors \in Nat /\ errors' \in Nat /\ errors <= errors' /\ shared \subseteq shared'
      /\ Scheduled \subseteq Actions /\ Scheduled' \subseteq Actions
  <2>1. TypeOK'
    BY TypeStep
  <2> QED BY <2>1, Lasting, ActionsAssumption DEF TypeOK, Scheduled
<1> DEFINE Tells(a) == /\ row'[a].status = "completed" => effects'[a] > 0
                       /\ row'[a].status = "failed" /\ effects'[a] > 0 => errors' > 0 \/ a \in shared'
<1> SUFFICES ASSUME NEW a \in Scheduled' PROVE Tells(a)
  BY DEF RecordTellsEffect
<1>1. ASSUME a \in Scheduled, row'[a] = row[a], effects'[a] = effects[a] PROVE Tells(a)
  BY <1>0, <1>1 DEF RecordTellsEffect
<1>2. ASSUME NEW b \in Actions, NEW q \in Requests, NEW at \in 0..MaxTime,
             ScheduleAction(b, q.verb, q.target, at)
      PROVE  Tells(a)
  <2>1. /\ row'[b].status = "pending" /\ \A c \in Actions \ {b} : row'[c] = row[c]
        /\ Scheduled' = Scheduled \union {b}
    BY <1>2, RowAdded
  <2>2. UNCHANGED effects
    BY <1>2 DEF ScheduleAction
  <2> HIDE DEF Tells
  <2>3. CASE a = b
    BY <2>1, <2>3 DEF Tells
  <2>4. CASE a # b
    BY <1>0, <1>1, <2>1, <2>2, <2>4
  <2> QED BY <2>3, <2>4
<1>3. ASSUME NEW b \in Actions, SaveCanceled(b) PROVE Tells(a)
  <2>1. b \in Scheduled
    BY <1>3 DEF SaveCanceled, TypeOK
  <2>2. PICK s \in {"completed", "canceled", "failed"} : s = "canceled"
    OBVIOUS
  <2>3. row'[b].status = s /\ Scheduled' = Scheduled /\ \A c \in Actions \ {b} : row'[c] = row[c]
    BY <1>3, <2>1, <2>2, RowSaved DEF SaveCanceled
  <2>4. CASE a = b
    BY <2>2, <2>3, <2>4
  <2>5. CASE a # b
    BY <1>0, <1>1, <1>3, <2>3, <2>5 DEF SaveCanceled
  <2> QED BY <2>4, <2>5
<1>4. ASSUME NEW t \in Ticks, Execute(t) PROVE Tells(a)
  <2>1. PICK b \in tick[t].due :
           /\ b \in Scheduled
           /\ effects'[b] = effects[b] + 1 /\ \A c \in Actions \ {b} : effects'[c] = effects[c]
    BY <1>4, ExecuteTick
  <2>2. row' = row /\ Scheduled' = Scheduled
    BY <1>4 DEF Execute, Scheduled
  <2>3. row[b].status = "failed" => b \in shared
    BY <1>0, <2>1 DEF HeldOnce, Running
  <2>4. CASE a = b
    BY <1>0, <2>1, <2>2, <2>3, <2>4
  <2>5. CASE a # b
    BY <1>0, <1>1, <2>1, <2>2, <2>5
  <2> QED BY <2>4, <2>5
<1>5. ASSUME NEW t \in Ticks, Save(t) PROVE Tells(a)
  <2>1. PICK b \in Scheduled :
           /\ tick[t].step = "save" /\ b = tick[t].action
           /\ row'[b].status = tick[t].outcome
           /\ \A c \in Actions \ {b} : row'[c] = row[c]
           /\ Scheduled' = Scheduled
    BY <1>5, SaveTick
  <2>2. UNCHANGED <<effects, errors, shared>>
    BY <1>5 DEF Save
  <2>3. CASE a = b
    BY <1>0, <2>1, <2>2, <2>3 DEF OutcomeTold
  <2>4. CASE a # b
    BY <1>0, <1>1, <2>1, <2>2, <2>4
  <2> QED BY <2>3, <2>4
<1>6. CASE UNCHANGED <<row, effects>>
  <2>1. Scheduled' = Scheduled
    BY <1>6 DEF Scheduled
  <2> HIDE DEF Tells
  <2> QED BY <1>1, <1>6, <2>1
<1> HIDE DEF Tells
<1> QED
  BY <1>2, <1>3, <1>4, <1>5, <1>6
     DEF Next, RunDue, vars, ReadForCancel, FindDue, ExecuteFails, SaveFails, Crash, ClockTicks

-------------------------------------------------------------------------------
(***************************************************************************)
(* Actions keep their order: an action that was scheduled in time was      *)
(* there when a later one fell due, so that the tick that lists the later  *)
(* one lists both, and runs the earlier one first.                         *)
(***************************************************************************)
LEMMA EffectsDueStep == TypeOK /\ HoldsDue /\ EffectsDue /\ [Next]_vars => EffectsDue'
<1> SUFFICES ASSUME TypeOK, HoldsDue, EffectsDue, [Next]_vars, NEW a \in Actions, effects'[a] > 0
             PROVE  a \in Scheduled' /\ row'[a].at <= now'
  BY DEF EffectsDue
<1>1. a \in Scheduled /\ row[a].at <= now
  <2>1. CASE UNCHANGED effects
    BY <2>1 DEF EffectsDue
  <2>2. CASE \E t \in Ticks : \E b \in tick[t].due :
               b \in Scheduled /\ \A c \in Actions \ {b} : effects'[c] = effects[c]
    BY <2>2 DEF EffectsDue, HoldsDue, Running
  <2> QED BY <2>1, <2>2, EffectsMoved
<1>2. now \in Int /\ now' \in Int /\ row[a].at \in Int
  <2>1. TypeOK'
    BY TypeStep
  <2> QED BY <1>1, <2>1, RowFields, ActionsAssumption DEF TypeOK
<1> QED BY <1>1, <1>2, Lasting

\* A pair of actions to be kept in order was there before, unless one of them has just been
\* scheduled; the later one then is not due.
LEMMA OrderedBefore ==
  ASSUME TypeOK, HoldsDue, EffectsDue, [Next]_vars, NEW a \in Scheduled', NEW b \in Scheduled',
         row'[a].status = "pending", a \notin overdue', row'[a].at < row'[b].at
  PROVE  \/ /\ a \in Scheduled /\ b \in Scheduled /\ row[a].status = "pending"
            /\ a \notin overdue /\ row[a].at < row[b].at
         \/ UNCHANGED <<tick, effects>> /\ effects[b] = 0 /\ \A t \in Ticks : b \notin tick[t].due
<1>0. /\ a \in Actions /\ b \in Actions /\ now \in Int /\ effects[b] \in Nat
      /\ b \in Scheduled => row[b].at \in Int
  BY ActionsAssumption, RowFields DEF TypeOK, Scheduled
<1>1. CASE a \in Scheduled /\ b \in Scheduled
  <2>1. a \in Open' /\ row'[a].at = row[a].at /\ row'[b].at = row[b].at /\ a \notin overdue
    BY <1>0, <1>1, Lasting DEF Open
  <2>2. row[a].status = "pending"
    BY <1>0, <1>1, <2>1, Lasting, RowFields DEF Open
  <2> QED BY <1>1, <2>1, <2>2
<1>2. ASSUME ~(a \in Scheduled /\ b \in Scheduled)
      PROVE  UNCHANGED <<tick, effects>> /\ effects[b] = 0 /\ \A t \in Ticks : b \notin tick[t].due
  <2>1. PICK c \in Actions, q \in Requests, at \in 0..MaxTime : ScheduleAction(c, q.verb, q.target, at)
    <3>1. ASSUME NEW c \in Actions, SaveCanceled(c) PROVE Scheduled' = Scheduled
      <4>1. c \in Scheduled
        BY <3>1 DEF SaveCanceled, TypeOK
      <4>2. PICK s \in {"completed", "canceled", "failed"} : s = "canceled"
        OBVIOUS
      <4> QED BY <3>1, <4>1, <4>2, RowSaved DEF SaveCanceled
    <3>2. ASSUME UNCHANGED row PROVE Scheduled' = Scheduled
      BY <3>2 DEF Scheduled
    <3>3. ASSUME NEW t \in Ticks, Save(t) PROVE Scheduled' = Scheduled
      BY <3>3, SaveTick
    <3>4. Scheduled' # Scheduled
      BY <1>2
    <3> QED
      BY <3>1, <3>2, <3>3, <3>4
         DEF Next, RunDue, vars, ReadForCancel, FindDue, Execute, ExecuteFails, SaveFails, Crash,
             ClockTicks
  <2>2. /\ c \notin Scheduled /\ Scheduled' = Scheduled \union {c} /\ row'[c].at = at
        /\ \A d \in Actions \ {c} : row'[d] = row[d]
    BY <2>1, RowAdded
  <2>3. UNCHANGED <<tick, effects>> /\ (at < now => c \in overdue')
    BY <2>1 DEF ScheduleAction
  <2>4. b \in Scheduled => row[b].at > now
    <3>1. ASSUME b \in Scheduled PROVE a = c /\ row'[b] = row[b]
      BY <1>0, <1>2, <2>2, <3>1
    <3> QED BY <1>0, <2>2, <2>3, <3>1
  <2>5. effects[b] = 0
    BY <1>0, <2>4 DEF EffectsDue
  <2>6. \A t \in Ticks : b \notin tick[t].due
    BY <1>0, <2>4 DEF HoldsDue, Running
  <2> QED BY <2>3, <2>5, <2>6
<1> QED BY <1>1, <1>2

LEMMA ListedInOrderStep ==
  /\ TypeOK /\ HoldsDue /\ EffectsDue /\ ListedInOrder
  /\ [Next]_vars
  => ListedInOrder'
<1> SUFFICES ASSUME TypeOK, HoldsDue, EffectsDue, ListedInOrder, [Next]_vars,
                    NEW a \in Scheduled', NEW b \in Scheduled', NEW u \in Ticks,
                    row'[a].status = "pending", a \notin overdue', row'[a].at < row'[b].at,
                    b \in tick'[u].due
             PROVE  Running(u, a)'
  BY DEF ListedInOrder, Running
<1>0. a \in Actions /\ b \in Actions
  BY DEF Scheduled
<1>1. CASE UNCHANGED tick
  <2>1. b \in tick[u].due
    BY <1>1
  <2>2. Running(u, a)
    BY <2>1, OrderedBefore DEF ListedInOrder
  <2> QED BY <1>1, <2>2 DEF Running
<1>2. CASE ~UNCHANGED tick
  <2>0. /\ a \in Scheduled /\ b \in Scheduled /\ row[a].status = "pending"
        /\ a \notin overdue /\ row[a].at < row[b].at
    BY <1>2, OrderedBefore
  <2>1. ASSUME b \in tick[u].due PROVE Running(u, a)
    BY <2>0, <2>1 DEF ListedInOrder
  <2>2. ASSUME tick'[u] = tick[u] PROVE Running(u, a)'
    BY <2>1, <2>2 DEF Running
  <2>3. ASSUME NEW t \in Ticks, FindDue(t) PROVE Running(u, a)'
    <3>1. /\ tick'[t].due \in SUBSET Due /\ \A v \in Ticks \ {t} : tick'[v] = tick[v]
          /\ \A c \in tick'[t].due, d \in Due \ tick'[t].due : row[c].at <= row[d].at
      BY <2>3, FindDueTick
    <3>2. CASE u = t
      <4>1. row[a].at \in Int /\ row[b].at \in Int /\ now \in Int
        BY <1>0, <2>0, RowFields, ActionsAssumption DEF TypeOK
      <4>2. a \in Due
        BY <2>0, <3>1, <3>2, <4>1 DEF Due
      <4>3. a \in tick'[t].due
        BY <2>0, <3>1, <3>2, <4>1, <4>2
      <4> QED BY <3>2, <4>3 DEF Running
    <3> QED BY <2>2, <3>1, <3>2
  <2>4. ASSUME NEW t \in Ticks, NEW c \in tick[t].due, tick[t].step = "execute",
               tick'[t].step = "save", tick'[t].action = c, tick'[t].due = tick[t].due \ {c},
               \A v \in Ticks \ {t} : tick'[v] = tick[v]
        PROVE  Running(u, a)'
    <3>1. CASE u = t
      BY <2>1, <2>4, <3>1 DEF Running
    <3> QED BY <2>2, <2>4, <3>1
  <2>5. ASSUME NEW t \in Ticks, Execute(t) PROVE Running(u, a)'
    BY <2>4, <2>5, ExecuteTick
  <2>6. ASSUME NEW t \in Ticks, ExecuteFails(t) PROVE Running(u, a)'
    BY <2>4, <2>6, ExecuteFailsTick
  <2>7. ASSUME NEW t \in Ticks, Save(t) PROVE Running(u, a)'
    <3>1. PICK c \in Scheduled :
             /\ tick[t].step = "save" /\ c = tick[t].action
             /\ tick[t].outcome \in {"completed", "failed"} /\ row'[c].status = tick[t].outcome
             /\ tick'[t].due = tick[t].due /\ \A v \in Ticks \ {t} : tick'[v] = tick[v]
      BY <2>7, SaveTick
    <3>2. a # c
      BY <3>1
    <3>3. CASE u = t
      BY <2>1, <3>1, <3>2, <3>3 DEF Running
    <3> QED BY <2>2, <3>1, <3>3
  <2>8. ASSUME NEW t \in Ticks, SaveFails(t) PROVE Running(u, a)'
    <3>1. /\ tick'[t].step = "save" /\ tick'[t].due = tick[t].due
          /\ tick'[t].action = tick[t].action /\ \A v \in Ticks \ {t} : tick'[v] = tick[v]
      BY <2>8, SaveFailsTick
    <3>2. CASE u = t
      BY <2>1, <3>1, <3>2 DEF Running
    <3> QED BY <2>2, <3>1, <3>2
  <2>9. ASSUME NEW t \in Ticks, Crash(t) PROVE Running(u, a)'
    BY <2>2, <2>9, CrashTick
  <2> QED
    BY <1>2, <2>3, <2>5, <2>6, <2>7, <2>8, <2>9
       DEF Next, RunDue, vars, ScheduleAction, ReadForCancel, SaveCanceled, ClockTicks
<1> QED BY <1>1, <1>2

LEMMA OrderStep ==
  /\ TypeOK /\ HoldsDue /\ EffectsDue /\ ListedInOrder /\ OrderKept
  /\ [Next]_vars
  => OrderKept'
<1> SUFFICES ASSUME TypeOK, HoldsDue, EffectsDue, ListedInOrder, OrderKept, [Next]_vars,
                    NEW a \in Scheduled', NEW b \in Scheduled',
                    row'[a].status = "pending", a \notin overdue', row'[a].at < row'[b].at
             PROVE  effects'[b] = 0
  BY DEF OrderKept
<1>1. CASE UNCHANGED <<tick, effects>> /\ effects[b] = 0
  BY <1>1
<1>2. CASE /\ a \in Scheduled /\ b \in Scheduled /\ row[a].status = "pending"
           /\ a \notin overdue /\ row[a].at < row[b].at
  <2>1. effects[b] = 0 /\ b \in Actions
    BY <1>2 DEF OrderKept, Scheduled
  <2>2. ASSUME NEW t \in Ticks, b \in tick[t].due, tick[t].step = "execute",
               \A c \in tick[t].due : row[b].at <= row[c].at
        PROVE  FALSE
    <3>1. a \in tick[t].due
      BY <1>2, <2>2 DEF ListedInOrder, Running
    <3>2. row[a].at \in Int /\ row[b].at \in Int
      BY <1>2, RowFields DEF Scheduled
    <3> QED BY <1>2, <2>2, <3>1, <3>2
  <2>3. CASE UNCHANGED effects
    BY <2>1, <2>3
  <2>4. CASE ~UNCHANGED effects
    <3>1. PICK t \in Ticks : \E c \in tick[t].due :
            /\ tick[t].step = "execute" /\ \A d \in tick[t].due : row[c].at <= row[d].at
            /\ \A d \in Actions \ {c} : effects'[d] = effects[d]
      BY <2>4, EffectsMoved
    <3> QED BY <2>1, <2>2, <3>1
  <2> QED BY <2>3, <2>4
<1> QED BY <1>1, <1>2, OrderedBefore

-------------------------------------------------------------------------------
LEMMA InvInit == Init => Inv
<1> SUFFICES ASSUME Init PROVE Inv
  OBVIOUS
<1>1. TypeOK
  BY TypeInit
<1>2. /\ \A t \in Ticks : tick[t].step = "idle" /\ tick[t].due = {}
      /\ \A a \in Actions : effects[a] = 0 /\ row[a] = NoRow
      /\ errors = 0 /\ shared = {}
  BY DEF Init, Idle
<1>3. Scheduled = {}
  BY <1>2 DEF Scheduled
<1>4. HoldsDue /\ HeldOnce /\ OutcomeTold
  BY <1>2 DEF HoldsDue, HeldOnce, OutcomeTold, Running
<1>5. RecordTellsEffect /\ EffectsDue /\ ListedInOrder /\ OrderKept
  BY <1>2, <1>3 DEF RecordTellsEffect, EffectsDue, ListedInOrder, OrderKept
<1>6. \A a \in Actions : Holders(a) = {} /\ Savers(a) = {}
  BY <1>2 DEF Holders, Savers
<1>7. OpenUnrecorded
  BY <1>2, <1>6, FS_EmptySet DEF OpenUnrecorded, Open
<1>8. HeldBounded
  BY <1>2, <1>6, FS_EmptySet DEF HeldBounded, Cap
<1> QED BY <1>1, <1>4, <1>5, <1>7, <1>8 DEF Inv

LEMMA InvStep == Inv /\ [Next]_vars => Inv'
  BY TypeStep, HoldsDueStep, HeldOnceStep, OpenUnrecordedStep, HeldBoundedStep, OutcomeToldStep,
     RecordStep, EffectsDueStep, ListedInOrderStep, OrderStep DEF Inv

\* Every reachable state is well typed, and what the ticks hold, what took effect and what
\* is recorded agree.
THEOREM InvHolds == Spec => []Inv
  BY InvInit, InvStep, PTL DEF Spec

-------------------------------------------------------------------------------
(***************************************************************************)
(* The theorems.                                                           *)
(***************************************************************************)
\* runDueScheduledActions claims nothing: an action takes effect once for each failure, and
\* once for each tick if two ticks ever held it at once; otherwise once.
THEOREM EffectsAlwaysBounded == Spec => []EffectsBounded
<1>1. ASSUME Inv, NEW a \in Actions
      PROVE  effects[a] <= errors + IF a \in shared THEN Cardinality(Ticks) ELSE 1
  <2>1. effects[a] + Cardinality(Holders(a)) <= errors + Cap(a)
    BY <1>1 DEF Inv, HeldBounded
  <2>2. Holders(a) \in SUBSET Ticks
    BY DEF Holders
  <2>3. Cardinality(Holders(a)) \in Nat /\ Cardinality(Ticks) \in Nat
    BY <2>2, Counts
  <2>4. effects[a] \in Nat /\ errors \in Nat
    BY <1>1, ActionsAssumption DEF Inv, TypeOK
  <2> QED BY <2>1, <2>3, <2>4 DEF Cap
<1>2. Inv => EffectsBounded
  BY <1>1 DEF EffectsBounded
<1> QED BY <1>2, InvHolds, PTL

\* The final status of an action is true: a completed one took effect, and one recorded as
\* failed did not, unless a failure hit its record or two ticks held it.
THEOREM RecordsAlwaysTell == Spec => []RecordTellsEffect
<1>1. Inv => RecordTellsEffect
  BY DEF Inv
<1> QED BY <1>1, InvHolds, PTL

\* Nothing scheduled for later takes effect while an action that was scheduled in time is
\* pending: findDue lists in order, the limit cuts off the latest, and the loop goes in order.
THEOREM OrderAlwaysKept == Spec => []OrderKept
<1>1. Inv => OrderKept
  BY DEF Inv
<1> QED BY <1>1, InvHolds, PTL
===============================================================================
