CONSTANTS
  proposal = proposal
  edit = edit
  d1 = d1
  d2 = d2
  p1 = p1
  p2 = p2
  q1 = q1
  q2 = q2
  q3 = q3
  Parts = {"reviews", "passes", "budget", "assist"}
  Reviews = {proposal}
  Edits = {edit}
  Deciders = {d1, d2}
  MaxAttempts = 2
  MaxFailures = 1
  Entries = {e1}
  Passes = {p1, p2}
  Deployments <- SomeDeployments
  MaxEdits = 1
  MaxPublishes = 2
  MaxErrors = 1
SPECIFICATION AgentsSpec
SYMMETRY Symmetry
INVARIANTS
  AppliedOnce
  ApprovalNotStuck
  LedgerTellsOutcome
  PassesAccounted
  LostOnlyToOverlap
  BudgetKept
  AssistKeepsWork
PROPERTIES
  ApprovalLands
CHECK_DEADLOCK FALSE
