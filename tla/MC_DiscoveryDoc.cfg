SPECIFICATION FairSpec
CONSTANTS
    Probe = {"duo"}
    Required <- MCRequired
    SelfAbsent <- MCSelfAbsent
    Raising = {}
    Stages <- MCStages
    FirstJobs <- MCFirstJobs
    Workers = 5
    PerProbeTimeout = 10
    TotalBudget = 30
    LongestJob = 20
    Lookup = 1
    Url = 3
INVARIANT RequiredKeepTime
