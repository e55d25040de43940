CONSTANTS
  Process = {p1, p2}
  None = None
  MaxParts = 1
  MaxApprovals = 2
  MaxFaults = 1
SPECIFICATION FairSpec
CONSTRAINT OneTrouble
CHECK_DEADLOCK FALSE
\* Each of these fails; TLC shows the one that is not commented out.
PROPERTY EndedStaysEnded
\* INVARIANT ResumedOnce
\* INVARIANT GrantedOnce
\* PROPERTY ExpiryComes
\* INVARIANT WaitingIsNotExecuted
