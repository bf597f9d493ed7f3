SPECIFICATION LiveSpec
CONSTANTS
  MaxEvents = 1
  Capacity = 2
  MaxRecord = 3
  MaxClears = 1
  MaxTrouble = 1
INVARIANTS CheckpointCovered SentOncePerTrouble
PROPERTIES EveryReadSent
CHECK_DEADLOCK FALSE
