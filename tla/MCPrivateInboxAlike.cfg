SPECIFICATION Spec
CONSTANTS
  MessageId = {1, 2}
  Size <- MCSize
  Alike = {1, 2}
  MaxMessages = 2
  MaxCharacters = 5
  MaxVersion = 2
  MaxPause = 0
  MaxDirect = 0
  MaxCrash = 1
PROPERTY EditRemovesOwnEntry
