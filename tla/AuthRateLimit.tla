---------------------------- MODULE AuthRateLimit ----------------------------
(***************************************************************************)
(* The limit of failed authentications of one client address, as           *)
(* throttleAuth applies it around every check of credentials.  Three       *)
(* limiters count failures:                                                *)
(*   "redis"    a counter, INCR and then EXPIRE for the first failure;     *)
(*   "object"   the instants of the failures in a durable object, which    *)
(*              an alarm drops when they have lapsed;                      *)
(*   "process"  the same list in the memory of one process.                *)
(***************************************************************************)
EXTENDS Integers, FiniteSetsExt, Functions

CONSTANTS
  Requests,     \* requests that present credentials
  Limiters,     \* the limiters of the deployments
  MaxAttempts,  \* AUTH_RATE_LIMIT_MAX
  Window,       \* AUTH_RATE_LIMIT_WINDOW_MS
  MaxTime,      \* bound: the clock
  MaxFaults     \* bound: statements that fail, restarts

AuthRateLimitAssumption ==
  /\ Limiters \subseteq {"redis", "object", "process"}
  /\ {MaxAttempts, Window} \subseteq Nat \ {0} /\ {MaxTime, MaxFaults} \subseteq Nat

VARIABLES
  limiter,
  now,
  kept,      \* redis: [n, until, since, late], the counter, its expiry and (history) its first
             \* failure, and whether its expiry came later or not at all; else the failures of each instant
  alarm,     \* when the object's alarm goes off; 0 when it is not set
  request,   \* what each request is doing
  seen,      \* history, by instant and since the last success: failures, and credentials found wrong
  faults

vars == <<limiter, now, kept, alarm, request, seen, faults>>

Time == 0..MaxTime
Idle == [step |-> "idle"]
Never == MaxTime + 2 * Window
None == [t \in Time |-> 0]
Nothing == IF limiter = "redis" THEN [n |-> 0, until |-> Never, since |-> 0, late |-> FALSE] ELSE None
Unseen == [failures |-> None, wrong |-> None]

Init ==
  /\ limiter \in Limiters
  /\ now = 0
  /\ kept = Nothing
  /\ alarm = 0
  /\ request = [r \in Requests |-> Idle]
  /\ seen = Unseen
  /\ faults = 0

\* How many of a log fall into the window that ends now.
Recent(log) == SumFunctionOnSet(log, {t \in Time : t > now - Window /\ t <= now})

\* recent(): the failures that are still listed.
Pruned == [t \in Time |-> IF t > now - Window THEN kept[t] ELSE 0]

Counted == IF limiter = "redis" THEN kept.n ELSE Recent(kept)
Becomes(r, new) == request' = [request EXCEPT ![r] = new]

\* A refusal; caused (history): there were enough failures in the last window, or the counter's
\* expiry was set late or never.
Refused(failures) ==
  [step |-> "refused",
   caused |-> Recent(failures) >= MaxAttempts \/ (limiter = "redis" /\ kept.late)]
Rejected == [step |-> "rejected"]

-------------------------------------------------------------------------------
(***************************************************************************)
(* throttleAuth.                                                           *)
(***************************************************************************)
IsBlocked(r) ==
  /\ request[r] = Idle
  /\ Becomes(r, IF Counted >= MaxAttempts THEN Refused(seen.failures) ELSE [step |-> "resolve"])
  /\ kept' = IF limiter = "process" THEN Pruned ELSE kept
  /\ UNCHANGED <<limiter, now, alarm, seen, faults>>

\* resolve(): the credentials are right, or wrong, or reading the key fails; all that is thrown
\* counts as a failure.
Resolve(r) ==
  /\ request[r].step = "resolve"
  /\ \/ Becomes(r, [step |-> "clear"]) /\ UNCHANGED <<seen, faults>>
     \/ Becomes(r, [step |-> "record"]) /\ seen' = [seen EXCEPT !.wrong[now] = @ + 1] /\ UNCHANGED faults
     \/ faults < MaxFaults /\ faults' = faults + 1 /\ Becomes(r, [step |-> "record"]) /\ UNCHANGED seen
  /\ UNCHANGED <<limiter, now, kept, alarm>>

Clear(r) ==
  /\ request[r].step = "clear"
  /\ kept' = Nothing /\ alarm' = 0
  /\ Becomes(r, [step |-> "admitted"])
  /\ seen' = Unseen
  /\ UNCHANGED <<limiter, now, faults>>

\* clear() throws: it is called inside the try block, so this is recorded as a failure.
ClearFails(r) ==
  /\ request[r].step = "clear" /\ faults < MaxFaults
  /\ faults' = faults + 1
  /\ Becomes(r, [step |-> "record"])
  /\ UNCHANGED <<limiter, now, kept, alarm, seen>>

Failures == [seen.failures EXCEPT ![now] = @ + 1]
Answer(n) == IF n >= MaxAttempts THEN Refused(Failures) ELSE Rejected

\* recordFailure of a list.
Push(r) ==
  /\ limiter # "redis" /\ request[r].step = "record"
  /\ kept' = [Pruned EXCEPT ![now] = @ + 1]
  /\ alarm' = IF limiter = "object" THEN now + 2 * Window ELSE 0
  /\ Becomes(r, Answer(Recent(kept) + 1))
  /\ seen' = [seen EXCEPT !.failures = Failures]
  /\ UNCHANGED <<limiter, now, faults>>

\* Variant: every failure renews the counter's expiry.
Incr_Renewing(r) ==
  /\ limiter = "redis" /\ request[r].step = "record"
  /\ kept' = [kept EXCEPT !.n = @ + 1, !.until = now + Window]
  /\ Becomes(r, Answer(kept'.n))
  /\ seen' = [seen EXCEPT !.failures = Failures]
  /\ UNCHANGED <<limiter, now, alarm, faults>>

\* recordFailure of the counter: INCR, and for the first failure EXPIRE.
Incr(r) ==
  /\ limiter = "redis" /\ request[r].step = "record"
  /\ kept' = IF kept.n = 0 THEN [kept EXCEPT !.n = 1, !.since = now, !.late = TRUE] ELSE [kept EXCEPT !.n = @ + 1]
  /\ Becomes(r, IF kept.n = 0 THEN [step |-> "expire"] ELSE Answer(kept'.n))
  /\ seen' = [seen EXCEPT !.failures = Failures]
  /\ UNCHANGED <<limiter, now, alarm, faults>>

Expire(r) ==
  /\ request[r].step = "expire"
  /\ kept' = IF kept.n = 0 THEN kept ELSE [kept EXCEPT !.until = now + Window, !.late = now # kept.since]
  /\ Becomes(r, IF MaxAttempts = 1 THEN Refused(seen.failures) ELSE Rejected)
  /\ UNCHANGED <<limiter, now, alarm, seen, faults>>

\* recordFailure throws, or the process of the request dies.
RecordFails(r) ==
  /\ request[r].step \in {"record", "expire"} /\ faults < MaxFaults
  /\ faults' = faults + 1
  /\ Becomes(r, Rejected)
  /\ UNCHANGED <<limiter, now, kept, alarm, seen>>

Return(r) ==
  /\ request[r].step \in {"admitted", "refused", "rejected"}
  /\ Becomes(r, Idle)
  /\ UNCHANGED <<limiter, now, kept, alarm, seen, faults>>

-------------------------------------------------------------------------------
(***************************************************************************)
(* What the limiters do by themselves.                                     *)
(***************************************************************************)
Alarm ==
  /\ limiter = "object" /\ alarm # 0 /\ now >= alarm
  /\ kept' = Pruned
  /\ alarm' = IF Recent(kept) = 0 THEN 0 ELSE now + 2 * Window
  /\ UNCHANGED <<limiter, now, request, seen, faults>>

\* The process restarts: its list and its requests are gone.
Restart ==
  /\ limiter = "process" /\ faults < MaxFaults
  /\ kept' = None /\ request' = [r \in Requests |-> Idle] /\ seen' = Unseen
  /\ faults' = faults + 1
  /\ UNCHANGED <<limiter, now, alarm>>

Tick ==
  /\ now < MaxTime
  /\ now' = now + 1
  /\ kept' = IF limiter = "redis" /\ kept.until <= now' THEN Nothing ELSE kept
  /\ UNCHANGED <<limiter, alarm, request, seen, faults>>

Next ==
  \/ \E r \in Requests :
       \/ IsBlocked(r) \/ Resolve(r) \/ Clear(r) \/ ClearFails(r)
       \/ Push(r) \/ Incr(r) \/ Expire(r) \/ RecordFails(r) \/ Return(r)
  \/ Alarm \/ Restart \/ Tick

Spec == Init /\ [][Next]_vars

-------------------------------------------------------------------------------
(***************************************************************************)
(* A client is refused for failures of the last window only, so silence    *)
(* for a window lifts every block; but for a counter of Redis whose EXPIRE *)
(* was late or lost.                                                       *)
(***************************************************************************)
RefusedForFailures ==
  \A r \in Requests : request[r].step = "refused" => request[r].caused

\* Between successes, a span as long as the window lets no more wrong credentials through than the
\* limit and the requests that were in flight; around the end of a counter's window, twice that.
AttemptsBounded ==
  \A t \in Time :
    SumFunctionOnSet(seen.wrong, {u \in Time : u > t - Window /\ u <= t})
      <= (IF limiter = "redis" THEN 2 ELSE 1) * (MaxAttempts - 1 + Cardinality(Requests)) + faults

AuthLimitKept == RefusedForFailures /\ AttemptsBounded
==============================================================================
