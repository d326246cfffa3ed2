SPECIFICATION BatchingSpec
CONSTANTS
  Message = {m1, m2, m3}
  InitialWait = 1
  QuietWindow = 1
  TypingWindow = 1
  MaximumWait = 2
  AfterTurnQuiet = 1
  MaxMessages = 3
  MaxCharacters = 4
  Length = {1, 3}
  MaxTime = 3
  MaxCorrections = 1
  MaxRestarts = 1
SYMMETRY Interchangeable
INVARIANTS
  WaitIsBounded
PROPERTIES
  TypingDefersClaim
