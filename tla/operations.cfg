SPECIFICATION Spec
CONSTANTS
    Parts = {
        "discovery", "turns", "retention", "scrapes", "metrics",
        "deploy", "contracts", "publish", "plugin", "mic"}
    DiscoveredRuns = {1, 2, 3}
    Workflows = {"w1", "w2"}
    WorkflowOf <- TwoWorkflows
    Overlap = 2
    Grain = 2
    IndexDelay = 1
    ListingTime = 1
    Lookback = 1
    MaxListed = 1
    DiscoveryMaxTime = 4
    DueRuns = {1, 2, 3}
    Cost <- OneTakesAll
    RequestsPerCycle = 2
    MaxCycles = 4
    RetentionTime = 4
    PublishedTime = 1
    Horizon = 1
    Redelivery = 2
    Duration = 1
    RetentionMaxClock = 7
    Scrapes = {"a", "b"}
    ScrapesMaxChanges = 2
    Workloads <- ThreeWorkloads
    Configs = {"tc", "pc"}
    Secrets = {"s"}
    Consumes <- ReadAtStart
    Reloads = {"prom"}
    Applying <- RestartOrReload
    DeployFlags <- OneFlagAtMost
    MaxEdits = 2
    MaxDeploys = 3
    DeployMaxFaults = 1
    Traces = {"a", "b", "c"}
    StartOf <- ThreeStarts
    RunOf <- TwoRuns
    DayLength = 2
    Window = 2
    Limit = 2
    Batch = 2
    KeepDays = 1
    Every = 1
    PublishMaxTime = 6
    PublishMaxFaults = 2
    MicRuns = {1, 2}
    PrOf <- OnePullRequest
    Checks = {"c"}
    Branches = {"main"}
    Older = {1}
  
PROPERTIES OneRenderInOrder 
CHECK_DEADLOCK FALSE
