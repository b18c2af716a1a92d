SPECIFICATION FairSpec
CONSTANTS
  Kinds = {"high"}
  ToolCapable = {TRUE}
  AbortEnds = {"break"}
  MaxIterations = 1
  MaxCorrections = 1
  MaxCalls = 1
PROPERTY StopEndsTurn
CHECK_DEADLOCK FALSE
