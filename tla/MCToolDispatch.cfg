CONSTANTS
  Worker = {w1, w2}
  Operator = {cancel, expire}
  Enqueuer = {e1, e2}
  None = None
  Account <- SharedAccount
  MaxAttempts = 2
SPECIFICATION FairSpec
INVARIANT ExecutionsBounded
INVARIANT PayloadAvailable
PROPERTY SettledStaysSettled
PROPERTY RequestSettles
PROPERTY PayloadDeleted
CHECK_DEADLOCK FALSE
