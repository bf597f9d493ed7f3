SPECIFICATION LiveSpec
CONSTANTS
  Paths = {a, b}
  EventTypes = {"removed"}
  DedupWindow = 1
  Cooldown = 0
  SweepWindow = 1
  SweepMax = 3
  Threshold = 3
  MaxHits = 4
  MaxFaults = 0
  MaxMutes = 0
  AlertMayDie = TRUE
INVARIANTS BurstsReleased
PROPERTIES EveryHitRecorded EveryAlertSettled
