CONSTANTS
  Worker = {w1, w2}
  None = None
  MaxJobs = 2
  MaxOutput = 0
  MaxToolCalls = 1
  MaxFaults = 0
  MaxRequests = 1
  SecretsMayReject = FALSE
  Suspensions = {"approval"}
SPECIFICATION Spec
SYMMETRY WorkerSymmetry
PROPERTY TerminalIsFinal
CHECK_DEADLOCK FALSE
