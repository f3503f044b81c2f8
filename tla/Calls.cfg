CONSTANTS
  Peers = {p, q}
  Backlog = 2
  MaxCalls = 2
  MaxSids = 2
  Nil = Nil
SPECIFICATION CallsSpec
SYMMETRY Parties
INVARIANTS NothingAstray OnlyInCall QuietWhenClosed DiesOnlyByCandidate
CHECK_DEADLOCK FALSE
