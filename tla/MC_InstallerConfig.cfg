SPECIFICATION Spec
CONSTANTS
    Distros = {"ubuntu"}
    MaxRuns = 2
    MaxFills = 1
PROPERTY ConfigKept
