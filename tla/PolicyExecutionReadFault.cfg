SPECIFICATION ExecSpec
CONSTANTS
    sm = sm
    ursp = ursp
    am = am
    bad = bad
    ue1 = ue1
    ue2 = ue2
    NoSupi = NoSupi
    Policies <- MCPolicies
    Supis <- MCSupis
    SupiOf <- MCSupiOf
    KindOf <- MCKindOf
    TargetOf <- MCTargetOf
    SliceBound = {sm}
    WellFormed = {sm, ursp, am}
    Served = {ue1}
    Plans <- TwoPlans
    PollBudget = 2
    MaxExecutions = 2
    MaxReadFaults = 1
PROPERTIES CommittedKept
CHECK_DEADLOCK FALSE
