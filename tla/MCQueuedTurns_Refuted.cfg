CONSTANTS
  Process = {p1, p2}
  None = None
  MaxTurns = 2
  MaxQueue = 1
  AttemptLimit = 2
  MaxDirect = 1
  MaxFaults = 1
SPECIFICATION Spec
\* Each of these fails; TLC shows the one that is not commented out.
INVARIANT TurnSentOnce
\* INVARIANT OneLiveLease
\* INVARIANT OneActiveRun
\* INVARIANT QueueBound
\* INVARIANT ClaimsInOrder
