SPECIFICATION Spec
CONSTANTS
  Audio = {input}
  Camera = camera
  Devices = {d1, d2}
  MaxPlugs = 2
  MaxPosts = 1
  None = none
SYMMETRY Symmetry
INVARIANTS
  SelectionCurrent
  CallFollowsSelection
  OnlyWhileAsked
CHECK_DEADLOCK FALSE
