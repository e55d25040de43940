CONSTANTS
  Worker = {w1, w2}
  None = None
  MaxJobs = 2
  MaxOutput = 1
  MaxToolCalls = 2
  MaxFaults = 1
  MaxRequests = 1
  SecretsMayReject = FALSE
  Suspensions = {"approval", "dispatch"}
SYMMETRY WorkerSymmetry
SPECIFICATION Spec
CHECK_DEADLOCK FALSE
\* Each of these fails; TLC shows the one that is not commented out.
INVARIANT EndedHasEffects
\* INVARIANT DispatchEndsWithRun
\* INVARIANT ShownOnce
\* PROPERTY MarkIsKept
\* INVARIANT TerminalTail
\* INVARIANT TextOnce
\* INVARIANT TextIsWhole
\* PROPERTY RetriesOnlyRunning
\* PROPERTY RetriesBeforeOutput
\* PROPERTY LiveLeaseNotRecovered
