SPECIFICATION ListSpec
CONSTANTS
  a = a
  b = b
  Conversations = {a, b}
  Incoming = {in1}
  Texts = {text1}
  Files = {file1}
  Conversation <- MCConversation
  Pages = 2
  Room = 0
  MaxFetches = 3
  MaxRequests = 3
  MaxMessages = 1
  None = none
INVARIANTS
  ShowsTheSelected
  PagesWhole
  WaitsAreAnswered
  UploadsHonest
CHECK_DEADLOCK FALSE
