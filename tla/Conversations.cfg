\* Delays of 500 ms, at most 5000 ms and 2^31 - 1 ms are 1, 2 and 1.
CONSTANTS
  r1 = r1
  r2 = r2
  l1 = l1
  l2 = l2
  Missing = Missing
  Unreadable = Unreadable
  Empty = l1
  Bodies = {l1, l2, Unreadable}
  Reqs = {r1, r2}
  MaximumRetries <- FewRetries
  Replies <- MCReplies
  InitialDelay = 1
  MaximumDelay = 2
  IntMax = 1
  Countdown = 2
  MaximumRetry = 1
SPECIFICATION ConversationsSpec
INVARIANTS ListSound
PROPERTIES SupersededNeverSaved EveryRequestEnds ForceTry
CHECK_DEADLOCK FALSE
