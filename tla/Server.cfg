\* At the gate two requests and the command line: a set-up, an invitation, two secrets.  At the
\* database two restores, an import, a download, a query and a crash, all at once.
SPECIFICATION ServerSpec
CONSTANTS
  Labels = {own, inv}
  Reqs = {r1, r2}
  MaxSecrets = 2
  MaxSessions = 1
  MaxStep = 2
  LOCKOUT = 2
  ENROLL_MAX_FAILS = 2
  NoLabel = NoLabel
  Restores = {r1, r2}
  Imports = {i1}
  Backups = {b1}
  Queries = {w1}
  FaultyTools = TRUE
  MaxCrashes = 1
SYMMETRY Swaps
VIEW View
INVARIANTS KeptRowsAreSafe ClaimIsExclusive CodeSpentOnce SomebodyCanEnter
PROPERTIES RestoredIsWhatWasGiven RestoresKeepQueriesOut RevokedComesBackLate
CHECK_DEADLOCK FALSE
