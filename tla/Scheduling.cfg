CONSTANTS
  a1 = a1
  a2 = a2
  e = e
  r = r
  s1 = s1
  t1 = t1
  t2 = t2
  Actions = {a1, a2}
  Entries = {e}
  Releases = {r}
  Requests <- AllRequests
  Ticks = {t1, t2}
  Limit = 2
  MaxTime = 1
  MaxErrors = 1
  Schedules = {s1}
  Candidates = {1, 2}
  Runners = {t1, t2}
  Periods = {1}
  EntriesPerRun = 2
  MaxClock = 3
  MaxActs = 2
SPECIFICATION SchedulingSpec
INVARIANTS
  EffectsBounded
  RecordTellsEffect
  OrderKept
  FiringsAccounted
  NothingSkipped
PROPERTIES
  DueIsSettled
CHECK_DEADLOCK FALSE
