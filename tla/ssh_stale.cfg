CONSTANTS
    Keys <- MCKeys
    KnownHosts = "known_hosts"
    Planted <- MCPlanted
    NeedsRewrite = TRUE
    MaxTrouble = 2
    MaxEvents = 5
SPECIFICATION Spec
CHECK_DEADLOCK FALSE
PROPERTIES ConfigNeverStale
