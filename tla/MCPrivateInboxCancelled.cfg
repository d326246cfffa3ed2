SPECIFICATION Spec
CONSTANTS
  MessageId = {1, 2}
  Size <- MCSize
  Alike = {}
  MaxMessages = 2
  MaxCharacters = 5
  MaxVersion = 1
  MaxPause = 1
  MaxDirect = 0
  MaxCrash = 0
INVARIANTS
  CancelledInputRecorded
