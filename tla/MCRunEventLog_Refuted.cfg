CONSTANTS
  Writer = {w1, w2}
  MaxSequence = 3
  PageSize = 2
  MaxReconnects = 1
SPECIFICATION Spec
CHECK_DEADLOCK FALSE
\* Each of these fails; TLC shows the one that is not commented out.
INVARIANT NothingSkipped
\* INVARIANT SuspendedAtWait
