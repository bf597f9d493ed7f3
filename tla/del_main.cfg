SPECIFICATION Spec
CONSTANTS
  Paths = {a, b}
  EventTypes = {"read", "recreated"}
  DedupWindow = 1
  Cooldown = 2
  SweepWindow = 1
  SweepMax = 2
  Threshold = 2
  MaxHits = 3
  MaxFaults = 1
  MaxMutes = 2
  AlertMayDie = TRUE
INVARIANTS OneEventPerHit AdvisoryExact
PROPERTIES CooldownMeansAlerted
SYMMETRY PathSymmetry
