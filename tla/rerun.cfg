SPECIFICATION FairSpec
CONSTANTS
    pr1 = pr1
    a1 = a1
    a2 = a2
    p1 = p1
    p2 = p2
    s1 = s1
    NoTarget = NoTarget
    PRs <- OnePR
    Lanes <- TwoLanes
    Actions <- TwoActions
    PrOf <- TwoActionsPr
    LanesOf <- TwoActionsLanes
    Posts <- TwoPosts
    KeyOf <- TwoKeys
    SourceRuns <- CpuSource
    SourceOf <- CpuSourceOf
    MaxRestarts = 1
INVARIANT OneStarterPerPr
PROPERTIES  Unblocked
CHECK_DEADLOCK FALSE
