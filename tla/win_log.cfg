SPECIFICATION Spec
CONSTANTS
  Procs = {p1}
  Canaries = {a}
  Other = other
  System = system
  MaxEvents = 2
  Capacity = 1
  MaxRecord = 3
  MaxReads = 3
  MaxClears = 1
  MaxFaults = 0
  MaxBlind = 1
  MaxCrashes = 1
  MaxTimeouts = 0
INVARIANTS TypeOK RetainedCovered
PROPERTIES StagedIsStored EmittedOnce GapAlwaysReported
CHECK_DEADLOCK FALSE
