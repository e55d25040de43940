CONSTANTS
  Worker = {w1, w2}
  None = None
  LeaseTicks = 2
  MaxProgress = 2
SPECIFICATION Spec
\* Each of these fails; TLC shows the one that is not commented out.
PROPERTY LostMeansLost
\* PROPERTY LiveLeaseNotStolen
