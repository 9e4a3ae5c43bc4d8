CONSTANTS
  article = article
  author = author
  c1 = c1
  c2 = c2
  x = x
  y = y
  z = z
  Parts = {"fanout"}
  EntryIds = {1, 2, 3}
  Consumers = {c1, c2}
  Webhooks = {x}
  Backends = {"pgvector", "vectorize"}
  PageSize = 2
  PerRun = 1
  MaxReindex = 2
  MaxActs = 2
  Entries = {article, author}
  Clients = {c1, c2}
  Links <- ArticleAndAuthor
  Batching = {TRUE, FALSE}
  MaxVersion = 2
  MaxClock = 2
SPECIFICATION ContentSpec
SYMMETRY Symmetry
INVARIANTS
  FailedDeliveriesRetried
CHECK_DEADLOCK FALSE
