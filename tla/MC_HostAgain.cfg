SPECIFICATION HostSpec
CONSTANTS
    Host = {h}
    Addr <- MCAddr
    Offset = {0}
    Version <- MCVersion
    HostTools = {"ufw"}
    PriorRules <- MCNoRules
    PriorZones <- MCPriorZones
    MaxScriptRuns = 2
    MaxChanges = 0
    Now <- MCNow
    Skew <- MCSkew
    Delay = {0, 10, 20, 70, 100}
    Era = 100000
    Wait = 30
    Budget = 100
    Resolvers <- MCResolvers
    TextOrder <- MCTextOrder
INVARIANT AdminCidrsReach
