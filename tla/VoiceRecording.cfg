SPECIFICATION FairSpec
CONSTANTS
  Conversations = {a, b}
  None = None
  MaxStarts = 2
  MaxAudio = 2
INVARIANTS SentAsMeant ScreenInv
PROPERTIES BusyEnds
CHECK_DEADLOCK FALSE
