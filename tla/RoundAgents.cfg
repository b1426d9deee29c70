SPECIFICATION AgentsSpec
CONSTANTS
    ue1 = ue1 ue2 = ue2 ue3 = ue3 f1 = f1 f2 = f2 f3 = f3 sA = sA sB = sB sC = sC none = none
    NoUe = none
    Ues <- MCUes
    Flows <- MCFlows
    Slices <- MCSlices
    Owner <- MCOwner
    Serving <- MCServing
    Access <- MCAccess
    InitialAm <- MCInitialAm
    Allocated <- MCAllocated
    Granted <- MCGranted
    Remaining <- MCRemaining
    CallLimit <- MCCallLimit
    Requests <- MCRequests
    GroundingAnswers <- MCGroundingAnswers
    PlanningAnswers <- MCPlanningAnswers
    MaxAttempts = 3
    MaxTurns = 3
    MaxRounds = 2
INVARIANTS
    HandoffGrounded MigrationAuthorized JointPlanAgrees BlockedKeepsServing
    MissAnswered FitsSnapshot AssociationOfItsUe
PROPERTIES
    EvidenceKept RunAdvances ImplementsPlacement
