SPECIFICATION Spec
CONSTANTS
  MessageId = {1, 2}
  Size <- MCSize
  Alike = {}
  MaxMessages = 2
  MaxCharacters = 5
  MaxVersion = 2
  MaxPause = 1
  MaxDirect = 1
  MaxCrash = 0
INVARIANTS
  NoLostWakeup
  EditExcludesBurst
  RecordedInSendOrder
PROPERTIES
  EditKeepsLaterStop
  ImplementsLifecycle
