SPECIFICATION FlushSpec
CONSTANTS
  f = f
  Fact = {f}
  Turns = 2
  Loops = 2
  MaxRetries = 0
  MaxBreaks = 0
  Orders <- Talk
  Said <- OfF
  MaxCandidates = 1
  Session = {1}
PROPERTIES DrainWaits
CHECK_DEADLOCK FALSE
