SPECIFICATION FairWatchSpec
CONSTANTS
    Flows <- ThreeFlows
    Metrics = 1
    MaxAlerts = 3
    MaxReentries = 2
    MaxIntents = 1
    MaxChanges = 3
INVARIANTS SuppressedUntilRecovery NoAlertUnderSatisfied
PROPERTIES FailedIsFinal ViolationIsReplanned
CHECK_DEADLOCK FALSE
