CONSTANTS
  Process = {p1, p2}
  None = None
  MaxParts = 1
  MaxApprovals = 2
  MaxFaults = 1
SPECIFICATION FairSpec
CONSTRAINT OneTrouble
INVARIANT EndedWithEffects
INVARIANT HeldUntilDecided
INVARIANT RefusedHasEnded
INVARIANT NothingRepeated
INVARIANT OneExecution
PROPERTY RunGoesOn
PROPERTY ApprovalIsDecided
CHECK_DEADLOCK FALSE
