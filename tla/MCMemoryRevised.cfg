SPECIFICATION Spec
CONSTANTS
  f = f
  Fact = {f}
  Turns = 2
  Loops = 2
  MaxRetries = 2
  MaxBreaks = 0
  Orders <- Mixed
  Said <- OfF
  MaxCandidates = 2
INVARIANT RevisionIsSafe
CHECK_DEADLOCK FALSE
