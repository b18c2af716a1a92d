\* Three calls of the store's methods, over two roots and a branch.
SPECIFICATION Spec
CONSTANTS
  Roots = {p, q}
  Parent = p
  Branch = c
  NoChat = NoChat
  MaxJobs = 3
  Unit = 8
INVARIANTS FlagsComeDown RowsLandInPlace
PROPERTIES PropagationSettles
CHECK_DEADLOCK FALSE
