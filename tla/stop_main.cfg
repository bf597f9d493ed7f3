SPECIFICATION LiveSpec
CONSTANTS
  Watchers = {w1}
  MaxHits = 2
  MaxTimeouts = 1
  MaxRaises = 1
  MaxFailures = 1
  WriterMayDie = TRUE
  AlertMayDie = TRUE
INVARIANTS CommittedBeforeAlertDrain AlertsDrained CleanStopSettles
PROPERTIES StopEnds AlertsGoOut
CHECK_DEADLOCK FALSE
