CONSTANTS
    Keys <- MCKeys
    KnownHosts = "known_hosts"
    Planted <- MCPlanted
    NeedsRewrite = TRUE
    MaxTrouble = 2
    MaxEvents = 5
SPECIFICATION Spec
INVARIANT RealKept
INVARIANT ActivationWhole
INVARIANT RestoreFindsReal
INVARIANT ChangesUndoable
PROPERTY NeverStale
CHECK_DEADLOCK FALSE
