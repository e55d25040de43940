CONSTANTS
  Worker = {w1, w2}
  None = None
  MaxJobs = 2
  MaxOutput = 0
  MaxToolCalls = 1
  MaxFaults = 0
  MaxRequests = 1
  SecretsMayReject = TRUE
  Suspensions = {"dispatch"}
SPECIFICATION FairSpec
CHECK_DEADLOCK FALSE
\* Each of these fails; TLC shows the one that is not commented out.
PROPERTY AnswerContinues
\* PROPERTY RunningSettles
