----------------------------- MODULE MCScheduling -----------------------------
(***************************************************************************)
(* Small instances of what the timers run: scheduled actions               *)
(* (ScheduledActions) and agent schedules (AgentSchedules).  They share no *)
(* state of the program, so a behaviour runs one of them, `part`, and the  *)
(* other stays where it began.                                             *)
(***************************************************************************)
EXTENDS ScheduledActions, AgentSchedules, TLC

CONSTANTS a1, a2, e, r,  \* two actions, on an entry or a release
          s1,            \* an agent schedule
          t1, t2         \* ticks

VARIABLE part

AllRequests ==
  [verb : {"publish", "unpublish"}, target : {e}] \union [verb : {"publish"}, target : {r}]

ASSUME SchedulesAssumption

SchedulingInit ==
  /\ Init /\ SchedulesInit
  /\ part \in {"actions", "schedules"}
  /\ part = "actions" => schedule = [s \in Schedules |-> NoSchedule]

\* The actions are interchangeable until they are scheduled: a1 is the first.
InOrder == a2 \in Scheduled' => a1 \in Scheduled'

SchedulingNext ==
  \/ part = "actions" /\ Next /\ InOrder /\ UNCHANGED <<part, schedulesVars>>
  \/ part = "schedules" /\ SchedulesNext /\ UNCHANGED <<part, vars>>

SchedulingSpec ==
  /\ SchedulingInit
  /\ [][SchedulingNext]_<<part, vars, schedulesVars>>
  /\ \A t \in Ticks : WF_vars(RunDue(t))
===============================================================================
