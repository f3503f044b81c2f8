SPECIFICATION Spec
CONSTANTS
  Accounts = {alice, bob}
  Tokens = {t1, t2}
  LegacyPaths <- MCLegacyPaths
  UnreadableIndex = FALSE
  Absent = absent
  LoggedOut = loggedOut
  Damaged = damaged
  NoSession = noSession
INVARIANTS LoginConsistent
PROPERTIES ImplementsSessionRegister
CHECK_DEADLOCK FALSE
