SPECIFICATION Spec
CONSTANTS
    Distros <- AllDistros
    MaxRuns = 4
    MaxFills = 1
INVARIANTS TypeOK SuccessMeansReady ChecksComeFirst SuccessLasts
