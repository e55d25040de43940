CONSTANTS
  Drain = {d1, d2}
  Retrier = {r1, r2}
  Subscription = {s1}
  None = None
  MaxAttempts = 2
  MaxFaults = 2
SPECIFICATION HookFairSpec
INVARIANT PostsAccounted
INVARIANT CompletedJobReachedAll
PROPERTY DeliveredNotRepeated
PROPERTY OutboxDrains
PROPERTY FailedIsRetried
CHECK_DEADLOCK FALSE
