\* One restore by itself, with tools that fail only on what they are given.
SPECIFICATION RestoreSpec
CONSTANTS
  Restores = {r1}
  Imports = {}
  Backups = {b1}
  Queries = {w1}
  FaultyTools = FALSE
  MaxCrashes = 0
INVARIANT RolledBackIsBack
CHECK_DEADLOCK FALSE
