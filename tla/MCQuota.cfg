CONSTANTS
  Call = {c1, c2}
  InTransaction = {c1}
  Buckets = 2
  Matches <- RunsAndCompletions
  Limit <- OrganisationAndWorkspace
  Periodic = {1}
  Coordinated = TRUE
  None = None
  MaxPeriods = 3
  MaxElapsed = 1
  MaxUpdates = 1
  MaxFaults = 1
SPECIFICATION Spec
INVARIANT LimitKept
INVARIANT RefusedWhenSpent
INVARIANT SeverityAnnounced
CHECK_DEADLOCK FALSE
