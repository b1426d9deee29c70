SPECIFICATION ControlSpec
CONSTANTS
    sm = sm
    am = am
    ue1 = ue1
    NoSupi = NoSupi
    Policies <- MCPolicies
    Supis = {ue1}
    SupiOf <- MCSupiOf
    KindOf <- MCKindOf
    TargetOf <- MCTargetOf
    SliceBound = {}
    WellFormed = {sm, am}
    Served = {ue1}
    Plans <- OnePlan
    PollBudget = 1
    MaxExecutions = 1
    MaxReadFaults = 0
    MaxRounds = 3
    MaxStages = 2
    WindowSize = 2
    MaxRowFaults = 0
INVARIANTS StageAfterPrevious
CHECK_DEADLOCK FALSE
