SPECIFICATION Spec
CONSTANTS
  Canaries = {a, b}
  Bodies = {"v1"}
  MaxRuns = 3
  MaxTrouble = 2
INVARIANTS ChangesRecorded SetupAllOrNothing StillRestorable CleanRestore
PROPERTIES AdminKept
SYMMETRY CanarySymmetry
CHECK_DEADLOCK FALSE
