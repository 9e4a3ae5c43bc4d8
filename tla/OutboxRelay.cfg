CONSTANTS
  a = a
  b = b
  events = events
  bulk = bulk
  Events = {1, 2}
  TopicOf <- TwoTopics
  Relayers = {a, b}
  BatchSize = 2
  Queues = {"bullmq", "cloudflare"}
  MaxTries = 2
  MaxCrashes = 1
SPECIFICATION FairSpec
INVARIANTS
  JobsAccounted
PROPERTIES
  KeepsPromise
CHECK_DEADLOCK FALSE
