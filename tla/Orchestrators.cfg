SPECIFICATION OrchestratorSpec
CONSTANTS
    sm = sm
    am = am
    ue1 = ue1
    NoSupi = NoSupi
    Policies <- MCPolicies
    Supis = {ue1}
    SupiOf <- MCSupiOf
    KindOf <- MCKindOf
    TargetOf <- MCTargetOf
    SliceBound = {}
    WellFormed = {sm, am}
    Served = {ue1}
    Plans <- EachPlan
    PollBudget = 1
    MaxExecutions = 2
    MaxReadFaults = 1
    MaxRounds = 3
    MaxStages = 2
    WindowSize = 2
    MaxRowFaults = 1
INVARIANTS CompletedIsStored MultiAgentPlansSettled ResultTellsTheRounds
PROPERTIES StoreFollowsApproval ImplementsSession RunReturns
CHECK_DEADLOCK FALSE
