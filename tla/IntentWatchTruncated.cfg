SPECIFICATION WatchSpec
CONSTANTS
    Flows <- TwoFlows
    Metrics = 2
    MaxAlerts = 1
    MaxReentries = 1
    MaxIntents = 0
    MaxChanges = 4
INVARIANTS SuppressedUntilRecovery
CHECK_DEADLOCK FALSE
