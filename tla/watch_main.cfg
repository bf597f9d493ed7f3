CONSTANTS
    Inotify = TRUE
    MaxReads = 2
    MaxTrouble = 2
SPECIFICATION LiveSpec
INVARIANT BaselineExact
PROPERTY WatchersReport
PROPERTY BlindOnlyTogether
CHECK_DEADLOCK FALSE
