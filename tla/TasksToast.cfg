\* Three calls of the store's methods, over two roots and a branch.
SPECIFICATION Spec
CONSTANTS
  Roots = {p, q}
  Parent = p
  Branch = c
  NoChat = NoChat
  MaxJobs = 3
  Unit = 8
PROPERTY ToastNeverLies
CHECK_DEADLOCK FALSE
