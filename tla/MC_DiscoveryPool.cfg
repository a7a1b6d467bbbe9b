SPECIFICATION FairSpec
CONSTANTS
    Probe = {"system", "docker", "tls", "time_sync", "firewall"}
    Required <- MCRequired
    SelfAbsent <- MCSelfAbsent
    Raising = {}
    Stages <- MCStages
    FirstJobs <- MCFirstJobs
    Workers = 3
    PerProbeTimeout = 10
    TotalBudget = 10
    LongestJob = 20
    Lookup = 10
    Url = 1
INVARIANTS ErrorHasCause AbsentOnlyWhenLate NoStarvation
