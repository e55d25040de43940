CONSTANTS
  Worker = {w1, w2}
  None = None
  MaxJobs = 2
  MaxOutput = 1
  MaxToolCalls = 1
  MaxFaults = 1
  MaxRequests = 2
  SecretsMayReject = TRUE
  Suspensions = {}
SPECIFICATION Spec
SYMMETRY WorkerSymmetry
CONSTRAINT ReadsAlone
INVARIANT ToolRunIsMarked
INVARIANT CheckpointIsCurrent
CHECK_DEADLOCK FALSE
