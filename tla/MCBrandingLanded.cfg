\* One asset, branded a second time by the same process, no faults.
SPECIFICATION Spec
CONSTANTS
    NAssets = 1
    Procs = {service}
    MaxRuns = 2
    MaxFaults = 0
PROPERTY VerifiedMeansLanded
CHECK_DEADLOCK FALSE
