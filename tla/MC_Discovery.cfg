SPECIFICATION FairSpec
CONSTANTS
    Probe = {"network", "docker", "system"}
    Required <- MCRequired
    SelfAbsent <- MCSelfAbsent
    Raising = {"docker", "network"}
    Stages <- MCStages
    FirstJobs <- MCFirstJobs
    Workers = 2
    PerProbeTimeout = 10
    TotalBudget = 30
    LongestJob = 20
    Lookup = 10
    Url = 2
INVARIANT TypeOK
INVARIANT SnapshotComplete
INVARIANT DecidedInTime
INVARIANT ExitsInTime
INVARIANT ErrorHasCause
PROPERTY VerdictsStand
PROPERTY NothingStartsLate
PROPERTY ImplementsProbeGroup
PROPERTY Terminates
