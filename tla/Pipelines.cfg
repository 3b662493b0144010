SPECIFICATION LiveSpec
CONSTANTS
  Runs = {r1, r2}
  Fresh = {r1}
  Definitions <- MCDefinitions
  Execs = {1, 2, 3}
  Tasks = {1, 2}
  MaxExtra = 1
  MaxFaults = 1
CHECK_DEADLOCK FALSE
INVARIANTS
  RunKept
PROPERTIES
  Progress
