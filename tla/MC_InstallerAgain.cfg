SPECIFICATION Spec
CONSTANTS
    Distros = {"rhel"}
    MaxRuns = 2
    MaxFills = 1
INVARIANT UndisturbedSucceeds
