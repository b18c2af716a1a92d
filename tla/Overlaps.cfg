\* Two sends that may overlap: in the store with two chats and two loads; as turns with
\* one MCP server that has everything, two tools and two changes of what it offers.
\* One quiz with a question of each kind, two attempts and two calls.  Two operations on two
\* providers.  Parts that never move together share model values, which exchanges them alike.
SPECIFICATION OverlapsSpec
CONSTANTS
  Turns = {t1, t2}
  Servers <- OneServer
  Names = {"a", "b"}
  Resourceful = {"s1"}
  Prompting = {"s1"}
  MaxChanges = 2
  NoTurn = NoTurn
  Sends = {t1, t2}
  NoSend = NoSend
  Chats = {a, b}
  Loads = {l1, l2}
  CardIds = {i1, i2}
  NoChat = NoChat
  Quizzed = {z}
  AtOnce = {m}
  Short = {s}
  Jobs = {l1, l2}
  MaxAttempts = 2
  MaxRows = 3
  NoQuiz = NoQuiz
  NoJob = NoJob
  Provs = {a, b}
  Models = {o1}
  Ops = {1, 2}
  NoProv = NoProv
  NoModel = NoModel
SYMMETRY Swaps
VIEW View
CONSTRAINT Straight
INVARIANTS OwnIsBound FewToolsOutliveATurn LoneTurnHasItsTools RestIsClean RunnerTellsTheTruth 
PROPERTY OnlyATwinOrphans
CHECK_DEADLOCK FALSE
