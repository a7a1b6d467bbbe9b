SPECIFICATION Spec
CONSTANTS
    Host <- MCHost
    Addr <- MCAddr
    Offset <- MCOffset
    Version <- MCVersion
    Observed <- MCObserved
    Given <- MCGivenOther
    Artifacts <- MCArtifacts
    Scripts = {"install.sh"}
    MaxCommands = 3
    MaxEdits = 0
INVARIANT PublicHostnameLookedUp
