CONSTANTS
  a = a
  b = b
  Accounts = {a, b}
  Refused <- MCRefused
  Backlog = 3
  None = None
SPECIFICATION Spec
INVARIANTS LastCallWins OnlineAsShown
PROPERTIES PendingServed
