\* One iteration, up to three calls of every kind in one reply, and the
\* request that follows wherever the turn is cut short.
SPECIFICATION Spec
CONSTANTS
  Kinds = {"auto", "choices", "high", "generative"}
  ToolCapable = {TRUE}
  AbortEnds = {"break", "throw"}
  MaxIterations = 1
  MaxCorrections = 1
  MaxCalls = 3
  RestartIds = FALSE
INVARIANTS EveryCallIsAnswered NextRequestIsAccepted
PROPERTY ImplementsLedger
CHECK_DEADLOCK FALSE
