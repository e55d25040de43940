CONSTANTS
  Drain = {d1, d2}
  Retrier = {r1, r2}
  Subscription = {s1}
  None = None
  MaxAttempts = 2
  MaxFaults = 2
SPECIFICATION HookFairSpec
CHECK_DEADLOCK FALSE
\* Each of these fails; TLC shows the one that is not commented out.
INVARIANT SentOncePerAttempt
\* PROPERTY PendingSettles
