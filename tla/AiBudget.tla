-------------------------------- MODULE AiBudget --------------------------------
(***************************************************************************)
(* The budget of AI calls of one space, as generateWithBudget spends it:    *)
(* consult the guard, generate, settle the tokens.  Three guards count      *)
(* requests and tokens over a window:                                       *)
(*   "redis"    two keys per bucket of the clock, two round trips;           *)
(*   "object"   a durable object, whose window starts with its first use     *)
(*              and whose alarm deletes it;                                  *)
(*   "process"  the same window in one process's memory.                     *)
(* Time is counted in the smallest unit; Usages are the tokens that a        *)
(* generation can turn out to have used.                                     *)
(***************************************************************************)
EXTENDS Integers, FiniteSetsExt, Functions, TLC

CONSTANTS Calls, Guards, MaxRequests, MaxTokens, Window, Usages, MaxTime

\* What the constants are assumed to be.
AiBudgetAssumption ==
  /\ Guards \subseteq {"redis", "object", "process"}
  /\ MaxRequests \in Nat \ {0} /\ MaxTokens \in Nat \ {0} /\ Window \in Nat \ {0}
  /\ Usages \subseteq Nat /\ MaxTime \in Nat

VARIABLES
  guard,      \* the guard of this deployment
  now,
  windows,    \* the counters that exist: first instant -> [requests, tokens]
  alarm,      \* when the object's alarm goes off; 0 when it is not set
  calls,      \* what every call of generateWithBudget has got to
  tried, admitted, spent,    \* history, by instant: consumes, admissions, settled tokens
  forgotten   \* history: the alarm deleted a window that had not lapsed

vars == <<guard, now, windows, alarm, calls, tried, admitted, spent, forgotten>>

Fresh == [requests |-> 0, tokens |-> 0]
Time == 0 .. MaxTime

(* A call: the window it was counted in, the instant of its consume, and the  *)
(* count that its INCR returned; `spentBefore` and `caused` are history,      *)
(* taken when it is decided.                                                 *)
Idle == [step |-> "idle", since |-> 0, at |-> 0, requests |-> 0,
         spentBefore |-> 0, caused |-> FALSE]

Init ==
  /\ guard \in Guards
  /\ now = 0
  /\ windows = <<>>
  /\ alarm = 0
  /\ calls = [c \in Calls |-> Idle]
  /\ tried = [t \in Time |-> 0] /\ admitted = tried /\ spent = tried
  /\ forgotten = FALSE

-----------------------------------------------------------------------------

Open(s) == now - s < Window

(* The window that an operation of this instant counts in.                   *)
Since ==
  IF guard = "redis" THEN (now \div Window) * Window
  ELSE IF \E s \in DOMAIN windows : Open(s) THEN CHOOSE s \in DOMAIN windows : Open(s)
  ELSE now

Held(s) == IF s \in DOMAIN windows THEN windows[s] ELSE Fresh

(* The object and the process keep one window, Redis a pair of keys for each. *)
Put(s, counted) == windows' = (s :> counted) @@ (IF guard = "redis" THEN windows ELSE <<>>)

Between(log, from, to) == SumFunctionOnSet(log, {t \in Time : from <= t /\ t <= to})

OverRequests(requests) == requests > MaxRequests
Allowed(counted) == counted.tokens < MaxTokens /\ ~OverRequests(counted.requests)

(* consume answers the call: it goes on to generate, or the use-case throws   *)
(* RateLimitedError.                                                         *)
Decide(c, call, counted, begun) ==
  /\ calls' = [calls EXCEPT ![c] =
       [call EXCEPT !.step = IF Allowed(counted) THEN "generating" ELSE "refused",
                    !.spentBefore = Between(spent, call.since, call.since + Window - 1),
                    !.caused = \/ Between(begun, call.at - Window + 1, now) > MaxRequests
                               \/ Between(spent, call.at - Window + 1, now) >= MaxTokens]]
  /\ admitted' = IF Allowed(counted) THEN [admitted EXCEPT ![call.at] = @ + 1] ELSE admitted

Counted(s) == [Held(s) EXCEPT !.requests = @ + 1]
Begun == [Idle EXCEPT !.since = Since, !.at = now]

(* The durable object and the in-process guard count and decide in one turn. *)
Consume(c) ==
  /\ guard # "redis" /\ calls[c].step = "idle"
  /\ Put(Since, Counted(Since))
  /\ alarm' = IF guard = "object" THEN Since + 2 * Window ELSE 0
  /\ tried' = [tried EXCEPT ![now] = @ + 1]
  /\ Decide(c, Begun, Counted(Since), [tried EXCEPT ![now] = @ + 1])
  /\ UNCHANGED <<guard, now, spent, forgotten>>

(* Redis: the INCR, and the GET of the tokens that was sent along with it.    *)
Incr(c) ==
  /\ guard = "redis" /\ calls[c].step = "idle"
  /\ Put(Since, Counted(Since))
  /\ calls' = [calls EXCEPT ![c] = [Begun EXCEPT !.step = "counted",
                                             !.requests = Counted(Since).requests]]
  /\ tried' = [tried EXCEPT ![now] = @ + 1]
  /\ UNCHANGED <<guard, now, alarm, admitted, spent, forgotten>>

GetTokens(c) ==
  /\ calls[c].step = "counted"
  /\ Decide(c, calls[c], [requests |-> calls[c].requests, tokens |-> Held(calls[c].since).tokens],
            tried)
  /\ UNCHANGED <<guard, now, windows, alarm, tried, spent, forgotten>>

\* Settling in the window of the admission.
Settle_AtAdmission(c, tokens) ==
  /\ calls[c].step = "generating"
  /\ calls' = [calls EXCEPT ![c] = [Idle EXCEPT !.step = "returned"]]
  /\ IF tokens = 0
     THEN UNCHANGED <<windows, spent>>
     ELSE /\ Put(calls[c].since, [Held(calls[c].since) EXCEPT !.tokens = @ + tokens])
          /\ spent' = [spent EXCEPT ![now] = @ + tokens]
  /\ UNCHANGED <<guard, now, alarm, tried, admitted, forgotten>>

(* The generation returns, and its tokens are settled in the window of that   *)
(* instant; nothing is settled when it throws, or reports no tokens.          *)
Settle(c, tokens) ==
  /\ calls[c].step = "generating"
  /\ calls' = [calls EXCEPT ![c] = [Idle EXCEPT !.step = "returned"]]
  /\ IF tokens = 0
     THEN UNCHANGED <<windows, spent>>
     ELSE /\ Put(Since, [Held(Since) EXCEPT !.tokens = @ + tokens])
          /\ spent' = [spent EXCEPT ![now] = @ + tokens]
  /\ UNCHANGED <<guard, now, alarm, tried, admitted, forgotten>>

GenerationFails(c) ==
  /\ calls[c].step = "generating"
  /\ calls' = [calls EXCEPT ![c] = [Idle EXCEPT !.step = "returned"]]
  /\ UNCHANGED <<guard, now, windows, alarm, tried, admitted, spent, forgotten>>

(* The alarm deletes whatever the object holds.                              *)
Alarm ==
  /\ guard = "object" /\ alarm # 0 /\ now >= alarm
  /\ windows' = <<>> /\ alarm' = 0
  /\ forgotten' = (forgotten \/ \E s \in DOMAIN windows : Open(s))
  /\ UNCHANGED <<guard, now, calls, tried, admitted, spent>>

ClockTicks ==
  /\ now < MaxTime
  /\ now' = now + 1
  /\ UNCHANGED <<guard, windows, alarm, calls, tried, admitted, spent, forgotten>>

GenerateWithBudget(c) ==
  \/ Consume(c)
  \/ Incr(c)
  \/ GetTokens(c)
  \/ \E tokens \in Usages : Settle(c, tokens)
  \/ GenerationFails(c)

Next ==
  \/ \E c \in Calls : GenerateWithBudget(c)
  \/ Alarm
  \/ ClockTicks

Spec == Init /\ [][Next]_vars

-----------------------------------------------------------------------------

(* In any span as long as the window, whenever it starts, at most twice the   *)
(* ceiling of requests is admitted: a fixed window's ceiling holds twice      *)
(* around its end, and no alarm or late round trip adds to that.              *)
RequestsBounded ==
  \A t \in Time :
    Between(admitted, t, t + Window - 1) <= 2 * MaxRequests

(* A generation is admitted only while less than the ceiling of tokens has    *)
(* been settled in its window: what overshoots was in flight at the time.     *)
(* Only the object's alarm, when it deletes a window that a settlement opened *)
(* after the last consume, lets spent tokens go uncounted.                    *)
AdmittedWithinTokens ==
  \A c \in Calls :
    calls[c].step = "generating" => calls[c].spentBefore < MaxTokens \/ forgotten

(* A 429 is never owed to an older window: the space really began more than   *)
(* the ceiling of requests, or settled the ceiling of tokens, within the last *)
(* window's length.                                                          *)
RefusedForCause ==
  \A c \in Calls : calls[c].step = "refused" => calls[c].caused

(* The guard lets through no more than the budget and turns away nothing that *)
(* was within it, whichever of the three counts.                             *)
BudgetKept == RequestsBounded /\ AdmittedWithinTokens /\ RefusedForCause
=============================================================================
