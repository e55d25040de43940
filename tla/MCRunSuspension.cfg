CONSTANTS
  Worker = {w1, w2}
  None = None
  MaxJobs = 2
  MaxOutput = 0
  MaxToolCalls = 1
  MaxFaults = 0
  MaxRequests = 1
  SecretsMayReject = FALSE
  Suspensions = {"approval", "dispatch"}
SPECIFICATION Spec
SYMMETRY WorkerSymmetry
INVARIANT TerminalEffectsOnce
INVARIANT ClosedJobLeftRunning
CHECK_DEADLOCK FALSE
