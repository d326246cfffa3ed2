SPECIFICATION FairSpec
CONSTANTS
  MessageId = {1, 2}
  Size <- MCSize
  Alike = {}
  MaxMessages = 2
  MaxCharacters = 5
  MaxVersion = 2
  MaxPause = 0
  MaxDirect = 0
  MaxCrash = 1
INVARIANTS
  OneActiveBurst
  NoDuplicateInput
  CompletedRecorded
PROPERTIES
  QueuedIsServed
  ProcessingFinishes
  EditFinishes
