CONSTANTS
  Worker = {w1, w2}
  None = None
  MaxJobs = 2
  MaxOutput = 0
  MaxToolCalls = 1
  MaxFaults = 1
  MaxRequests = 1
  SecretsMayReject = FALSE
  Suspensions = {}
SPECIFICATION FairSpec
PROPERTY OrphanSettles
CHECK_DEADLOCK FALSE
