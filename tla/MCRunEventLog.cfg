CONSTANTS
  Writer = {w1, w2}
  MaxSequence = 3
  PageSize = 2
  MaxReconnects = 1
SPECIFICATION FairSpec
INVARIANT NoLostWakeup
PROPERTY ImplementsFeed
PROPERTY EventReachesPage
CHECK_DEADLOCK FALSE
