SPECIFICATION BatchingSpec
CONSTANTS
  Message = {m1}
  InitialWait = 2
  QuietWindow = 1
  TypingWindow = 2
  MaximumWait = 3
  AfterTurnQuiet = 1
  MaxMessages = 2
  MaxCharacters = 4
  Length = {1}
  MaxTime = 7
  MaxCorrections = 0
  MaxRestarts = 0
INVARIANT HardMaximum
PROPERTY GraceIsKept
