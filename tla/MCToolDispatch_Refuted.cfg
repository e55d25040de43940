CONSTANTS
  Worker = {w1, w2}
  Operator = {cancel, expire}
  Enqueuer = {e1, e2}
  None = None
  Account <- SharedAccount
  MaxAttempts = 2
SPECIFICATION Spec
CHECK_DEADLOCK FALSE
\* Each of these fails; TLC shows the one that is not commented out.
PROPERTY OutcomeIsFinal
\* INVARIANT ExecutedOnce
