CONSTANTS
  Call = {c1, c2, c3}
  Request = {r1, r2}
  None = None
  MaxFaults = 2
SPECIFICATION Spec
CHECK_DEADLOCK FALSE
\* Each of these fails; TLC shows the one that is not commented out.
INVARIANT OneOwner
\* INVARIANT FailedHadNoEffect
\* INVARIANT CompletedByLastOwner
