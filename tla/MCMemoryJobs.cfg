SPECIFICATION FairSpec
CONSTANTS
  f = f
  Fact = {f}
  Turns = 2
  Loops = 2
  MaxRetries = 2
  MaxBreaks = 1
  Orders <- Mixed
  Said <- OfF
  MaxCandidates = 2
INVARIANTS NoHiddenCalls OneAnswerPerTurn NoKeyTwice RevisedLeavesNothing
PROPERTIES PendingIsTaken
CHECK_DEADLOCK FALSE
