\* Two sessions and two children that share the bridge's counter; a reply in three chunks
\* that is paced; two chats with a draft each and a prompt that is staged.
SPECIFICATION ClientSpec
CONSTANTS
  Sockets = {s1, s2}
  Servers = {k}
  Children = {p1, p2}
  Lines <- MCLines
  MaxChildren = 1
  MaxFrames = 1
  NoChild = NoChild
  NoHome = NoHome
  NoLine = NoLine
  Ids = {1}
  ServerAsks = TRUE
  Text <- Reply
  Chunks = {3, 7, 10}
  TickMs = 80
  BaseCps = 25
  CatchupPerSec = 5
  SnapLookback = 3
  DrainRampMs = 120
  DrainBudgetMs = 240
  DrainDeadlineMs = 400
  MaxGap = 2
  MaxIdle = 4
  MaxClears = 1
  MaxRows = 2
  MaxSwitches = 1
  Chats = {c1, c2}
  NoChat = none
  Loads = {1, 2}
  MaxGoes = 3
  MaxLeft = 2
INVARIANTS NoneWaitsOnTheDead NoOrphans NoLeakedSlots  LonePromptGoesHome
PROPERTIES ClosedSessionsEnd DrainedTextIsOnScreen
CHECK_DEADLOCK FALSE
