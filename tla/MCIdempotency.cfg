CONSTANTS
  Call = {c1, c2, c3}
  Request = {r1, r2}
  None = None
  MaxFaults = 2
SPECIFICATION FairSpec
INVARIANT ExecutedOncePerFault
PROPERTY CompletedByOwner
PROPERTY ImplementsKey
PROPERTY FaultFreeSettles
CHECK_DEADLOCK FALSE
