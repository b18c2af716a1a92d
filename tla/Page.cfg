\* Two labs; a quiz of two questions; bounds of two records; two calls of MCP and three sessions;
\* two batches of two statements and two single ones over two connections; two codes of
\* GitHub and two requests.
SPECIFICATION SumSpec
CONSTANTS
  LabIds = {l1, l2}
  Items = {x, y}
  LabCalls = {k1, k2}
  NoLab = NoLab
  MAX_CORRECTIVE_RETRIES = 2
  Parts = 2
  MaxMade = 1
  BUFFER_BOUND = 2
  QUEUE_BOUND = 2
  FLUSH_BATCH_RECORDS = 1
  Posts = {p1}
  Flights = {f1, f2}
  MaxRecords = 2
  MaxSwitches = 1
  MaxFaults = 1
  Calls = {c1, c2}
  MaxSessions = 3
  MaxFailures = 2
  Batches = {b1, b2}
  Singles = {w1, w2}
  Length = 2
  Conns = {n1, n2}
  NoConn = NoConn
  MaxRefusals = 2
  Flows = {d1, d2}
  Polls = {a1, a2}
  MaxOutages = 1
  NoFlow = NoFlow
CONSTRAINT Uncrossed
INVARIANTS ChecklistTellsTheTruth LegacyIsKept AcceptedAreAccountedFor CallsRunOnce AloneIsAtomic AuthorizationIsKept
PROPERTIES TelemetryDrains DialogSettles
CHECK_DEADLOCK FALSE
