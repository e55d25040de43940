CONSTANTS
  Process = {p1, p2}
  None = None
  MaxTurns = 2
  MaxQueue = 2
  AttemptLimit = 2
  MaxDirect = 1
  MaxFaults = 1
SPECIFICATION FairSpec
INVARIANT SentOncePerFault
INVARIANT AttemptsBounded
INVARIANT StartedInOrder
PROPERTY SettledIsNotSent
PROPERTY TurnsSettle
