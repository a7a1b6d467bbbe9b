SPECIFICATION Spec
CONSTANTS
    Host <- MCHost
    Addr <- MCAddr
    Offset <- MCOffset
    Version <- MCVersion
    Observed <- MCObserved
    Given <- MCGiven
    Artifacts <- MCArtifacts
    Scripts = {"install.sh"}
    MaxCommands = 3
    MaxEdits = 1
INVARIANT DerivedFieldTrue
