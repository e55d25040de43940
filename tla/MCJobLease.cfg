CONSTANTS
  Worker = {w1, w2}
  None = None
  LeaseTicks = 2
  MaxProgress = 2
SPECIFICATION FairSpec
INVARIANT FreshCopyIsOwners
PROPERTY ImplementsOwnership
PROPERTY AbandonedIsReclaimed
