SPECIFICATION Spec
CONSTANTS
  Writers = {a, b}
  Refreshers = {a, b}
  StaticTexts = {FALSE}
  Tmpfiles = {TRUE}
  MaxUser = 0
  MaxFaults = 0
  MaxKills = 0
INVARIANTS CommitTogether
SYMMETRY WriterSymmetry
CHECK_DEADLOCK FALSE
