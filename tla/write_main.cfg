SPECIFICATION Spec
CONSTANTS
  Writers = {a, b}
  Refreshers = {a, b}
  StaticTexts = {TRUE, FALSE}
  Tmpfiles = {TRUE, FALSE}
  MaxUser = 3
  MaxFaults = 1
  MaxKills = 1
INVARIANTS InStep NoTraceOfRefused UserFileKept RecordedFileKept
PROPERTIES ReplacesChecked
SYMMETRY WriterSymmetry
CHECK_DEADLOCK FALSE
