SPECIFICATION LaunchFairSpec
CONSTANTS
    NWorkers = 2
    NSlots = 3
    RestartLimit = 2
    MaxRecoveryRequests = 3
    MaxPolls = 4
    MaxFaults = 1
    MaxReruns = 1
    Matrix <- MCMatrix
    Leftovers <- MCLeftovers
INVARIANTS SlotsFollowSimulators CaseStartsClean LedgerIsTrue
PROPERTY LauncherEnds
