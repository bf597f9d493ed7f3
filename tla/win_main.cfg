SPECIFICATION LiveSpec
CONSTANTS
  Procs = {p1, p2}
  Canaries = {a, b}
  Other = other
  System = system
  MaxEvents = 1
  Capacity = 1
  MaxRecord = 1
  MaxReads = 1
  MaxClears = 0
  MaxFaults = 1
  MaxBlind = 0
  MaxCrashes = 1
  MaxTimeouts = 1
INVARIANTS ExactlyOnce
PROPERTIES ImplementsLedger EveryRowRecorded
CHECK_DEADLOCK FALSE
