\* Two iterations of one call or two; text, critic, failures and Stop anywhere.
SPECIFICATION FairSpec
CONSTANTS
  Kinds = {"auto", "choices", "generative"}
  ToolCapable = {TRUE, FALSE}
  AbortEnds = {"break"}
  MaxIterations = 2
  MaxCorrections = 2
  MaxCalls = 2
INVARIANTS OneGenerativePerTurn ShownTextIsKept FinishedTurnSpeaks
PROPERTY TurnAdvances
CHECK_DEADLOCK FALSE
