---------------------------- MODULE ScheduledActions ----------------------------
(***************************************************************************)
(* Publishing at a future instant.  A tick lists the pending actions that  *)
(* are due and runs them one after the other, each through its use-case;   *)
(* no action is claimed.  Ticks of one or several workers overlap, an      *)
(* action can be canceled while a tick holds it, and a tick dies between   *)
(* an action's effect and its record.                                      *)
(***************************************************************************)
EXTENDS Integers, FiniteSets

CONSTANTS Actions,      \* identities of scheduled actions
          Entries,      \* entries they target
          Releases,     \* releases they target
          Requests,     \* bound: the verbs and targets asked for
          Ticks,        \* runs of runDueScheduledActions that can overlap
          Limit,        \* rows that findDue returns at most
          MaxTime,      \* bound: the last instant
          MaxErrors     \* bound: failures of a statement, or of a worker

Targets == Entries \union Releases

\* What the constants are assumed to be.
ASSUME ActionsAssumption ==
  /\ Entries \intersect Releases = {} /\ Requests \subseteq [verb : {"publish", "unpublish"}, target : Targets]
  /\ Limit \in Nat \ {0} /\ MaxTime \in Nat /\ MaxErrors \in Nat
  /\ IsFiniteSet(Actions) /\ IsFiniteSet(Ticks)

VARIABLES
  row,        \* the scheduled_actions row of each action
  live,       \* the targets that are published
  tick,       \* what each tick is at
  canceling,  \* the actions read by a cancellation that has not saved yet
  now,        \* the wall clock
  effects,    \* history: how often each action took effect
  overdue,    \* history: the actions that were scheduled for a past instant
  shared,     \* history: the actions that two ticks held at once
  errors

vars == <<row, live, tick, canceling, now, effects, overdue, shared, errors>>

NoRow == [status |-> "none"]
Row == [status : {"pending", "completed", "canceled", "failed"}, verb : {"publish", "unpublish"},
        target : Targets, at : 0..MaxTime]

Idle == [step |-> "idle", due |-> {}]
Tick == [step : {"idle", "execute"}, due : SUBSET Actions]
          \union [step : {"save"}, due : SUBSET Actions, action : Actions,
                  outcome : {"completed", "failed"}]

Init ==
  /\ row = [a \in Actions |-> NoRow]
  /\ live = {}
  /\ tick = [t \in Ticks |-> Idle]
  /\ canceling = {}
  /\ now = 0
  /\ effects = [a \in Actions |-> 0]
  /\ overdue = {} /\ shared = {}
  /\ errors = 0

Scheduled == {a \in Actions : row[a] # NoRow}
Running(t, a) == a \in tick[t].due \/ (tick[t].step = "save" /\ tick[t].action = a)

-------------------------------------------------------------------------------
(***************************************************************************)
(* The management API.                                                     *)
(***************************************************************************)
\* scheduledFor may be any instant, a past one too.
ScheduleAction(a, verb, target, at) ==
  /\ a \notin Scheduled
  /\ row' = [row EXCEPT ![a] = [status |-> "pending", verb |-> verb, target |-> target, at |-> at]]
  /\ overdue' = IF at < now THEN overdue \union {a} ELSE overdue
  /\ UNCHANGED <<live, tick, canceling, now, effects, shared, errors>>

ReadForCancel(a) ==
  /\ a \in Scheduled /\ row[a].status = "pending"
  /\ canceling' = canceling \union {a}
  /\ UNCHANGED <<row, live, tick, now, effects, overdue, shared, errors>>

SaveCanceled(a) ==
  /\ a \in canceling
  /\ canceling' = canceling \ {a}
  /\ row' = [row EXCEPT ![a].status = "canceled"]
  /\ UNCHANGED <<live, tick, now, effects, overdue, shared, errors>>

-------------------------------------------------------------------------------
(***************************************************************************)
(* runDueScheduledActions.                                                 *)
(***************************************************************************)
\* Variant: the query looks at the time only.
Due_AnyStatus == {a \in Scheduled : row[a].at <= now}

Due == {a \in Scheduled : row[a].status = "pending" /\ row[a].at <= now}

\* The actions of S that are scheduled first.
Earliest(S) == {a \in S : \A b \in S : row[a].at <= row[b].at}

\* findDue: the earliest due rows.
FindDue(t) ==
  /\ tick[t].step = "idle"
  /\ \E S \in SUBSET Due \ {{}} :
       /\ Cardinality(S) <= Limit
       /\ S # Due => Cardinality(S) = Limit
       /\ \A a \in S, b \in Due \ S : row[a].at <= row[b].at
       /\ tick' = [tick EXCEPT ![t] = [step |-> "execute", due |-> S]]
       /\ shared' = shared \union {a \in S : \E u \in Ticks \ {t} : Running(u, a)}
  /\ UNCHANGED <<row, live, canceling, now, effects, overdue, errors>>

\* What the use-cases accept: an unpublish of a published entry, a publish of any
\* entry or of an open release.
Accepted(a) ==
  IF row[a].verb = "publish" THEN row[a].target \in Entries \/ row[a].target \notin live
                             ELSE row[a].target \in Entries \intersect live

Ran(t, a, outcome) ==
  tick' = [tick EXCEPT ![t] = [step |-> "save", due |-> @.due \ {a}, action |-> a,
                               outcome |-> outcome]]

\* Variant: the batch runs in no particular order.
NextAction_Any(t) == tick[t].due

\* The order of the query is the order of the loop.
NextAction(t) == Earliest(tick[t].due)

Execute(t) ==
  /\ tick[t].step = "execute"
  /\ \E a \in NextAction(t) :
       /\ Accepted(a)
       /\ Ran(t, a, "completed")
       /\ live' = IF row[a].verb = "publish" THEN live \union {row[a].target}
                                             ELSE live \ {row[a].target}
       /\ effects' = [effects EXCEPT ![a] = @ + 1]
  /\ UNCHANGED <<row, canceling, now, overdue, shared, errors>>

\* The use-case refuses the action, or fails: a dangling link, a deadlock.
ExecuteFails(t) ==
  /\ tick[t].step = "execute"
  /\ \E a \in NextAction(t) :
       /\ Accepted(a) => errors < MaxErrors
       /\ errors' = IF Accepted(a) THEN errors + 1 ELSE errors
       /\ Ran(t, a, "failed")
  /\ UNCHANGED <<row, live, canceling, now, effects, overdue, shared>>

Saved(t) ==
  tick' = [tick EXCEPT ![t] = IF @.due = {} THEN Idle ELSE [step |-> "execute", due |-> @.due]]

\* Variant: a failure is only counted.
Save_CompletedOnly(t) ==
  /\ tick[t].step = "save"
  /\ row' = IF tick[t].outcome = "completed"
            THEN [row EXCEPT ![tick[t].action].status = tick[t].outcome] ELSE row
  /\ Saved(t)
  /\ UNCHANGED <<live, canceling, now, effects, overdue, shared, errors>>

\* Variant: every action that was run is recorded as completed.
Save_AlwaysCompleted(t) ==
  /\ tick[t].step = "save"
  /\ row' = [row EXCEPT ![tick[t].action].status = "completed"]
  /\ Saved(t)
  /\ UNCHANGED <<live, canceling, now, effects, overdue, shared, errors>>

\* The whole row is written, whatever its status is by now.
Save(t) ==
  /\ tick[t].step = "save"
  /\ row' = [row EXCEPT ![tick[t].action].status = tick[t].outcome]
  /\ Saved(t)
  /\ UNCHANGED <<live, canceling, now, effects, overdue, shared, errors>>

\* Saving the completed action fails: the catch clause records a failure.
SaveFails(t) ==
  /\ tick[t].step = "save" /\ tick[t].outcome = "completed"
  /\ errors < MaxErrors
  /\ errors' = errors + 1
  /\ tick' = [tick EXCEPT ![t].outcome = "failed"]
  /\ UNCHANGED <<row, live, canceling, now, effects, overdue, shared>>

\* The worker dies, or the record of a failure cannot be saved.
Crash(t) ==
  /\ tick[t].step # "idle"
  /\ errors < MaxErrors
  /\ errors' = errors + 1
  /\ tick' = [tick EXCEPT ![t] = Idle]
  /\ UNCHANGED <<row, live, canceling, now, effects, overdue, shared>>

ClockTicks ==
  /\ now < MaxTime
  /\ now' = now + 1
  /\ UNCHANGED <<row, live, tick, canceling, effects, overdue, shared, errors>>

RunDue(t) == FindDue(t) \/ Execute(t) \/ ExecuteFails(t) \/ Save(t)

Next ==
  \/ \E a \in Actions, q \in Requests, at \in 0..MaxTime : ScheduleAction(a, q.verb, q.target, at)
  \/ \E a \in Actions : ReadForCancel(a) \/ SaveCanceled(a)
  \/ \E t \in Ticks : RunDue(t) \/ SaveFails(t) \/ Crash(t)
  \/ ClockTicks

Spec == Init /\ [][Next]_vars

\* The interval timer keeps starting ticks, and a tick goes on unless it fails.
FairSpec == Spec /\ \A t \in Ticks : WF_vars(RunDue(t))

-------------------------------------------------------------------------------
TypeOK ==
  /\ row \in [Actions -> Row \union {NoRow}]
  /\ live \subseteq Targets
  /\ tick \in [Ticks -> Tick]
  /\ canceling \subseteq Scheduled
  /\ now \in 0..MaxTime
  /\ effects \in [Actions -> Nat]
  /\ overdue \subseteq Actions /\ shared \subseteq Actions
  /\ errors \in 0..MaxErrors

\* There are no claims: an action takes effect once for each tick that listed it while
\* it was pending, and once more for each failure; once if no two ticks held it and
\* nothing failed.
EffectsBounded ==
  \A a \in Actions :
    effects[a] <= errors + IF a \in shared THEN Cardinality(Ticks) ELSE 1

\* A record tells what happened: a completed action took effect, one recorded as
\* failed did not unless a failure hit its record or two ticks held it.
RecordTellsEffect ==
  \A a \in Scheduled :
    /\ row[a].status = "completed" => effects[a] > 0
    /\ row[a].status = "failed" /\ effects[a] > 0 => errors > 0 \/ a \in shared

\* As long as an action is pending, no action that is scheduled for later has taken
\* effect: a publish does not come behind the unpublish that was to follow it.  An action
\* that was scheduled for a past instant may come late.
OrderKept ==
  \A a, b \in Scheduled :
    row[a].status = "pending" /\ a \notin overdue /\ row[a].at < row[b].at => effects[b] = 0

\* Every action that falls due is settled, however many others fail.
DueIsSettled == \A a \in Actions : a \in Due ~> a \notin Due

===============================================================================
