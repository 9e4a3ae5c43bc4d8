CONSTANTS
  page = page
  card = card
  Page = Page
  Card = Card
  r1 = r1
  w1 = w1
  w2 = w2
  Parts = {"kv", "redis", "queries", "offline"}
  Entries = {page, card}
  Links <- PageAndCard
  TypeOf <- TypesOfTwo
  Include = 1
  MaxClosure = 1
  Readers = {r1}
  Requests <- PageAndItsList
  MaxCommits = 2
  Requested = 3
  TagTtl = 2
  MaxTicks = 2
  MaxFailures = 1
  EntryTtl = 3
  ListTtl = 1
  Workers = {w1, w2}
  MaxRedisTicks = 1
  MaxCrashes = 1
SPECIFICATION DeliverySpec
SYMMETRY Symmetry
INVARIANTS
  StaleHasCause
  RedisStaleHasCause
  NothingMissed
PROPERTIES
  InvalidatedForGood
CHECK_DEADLOCK FALSE
