\* Two assets, the one-shot service and an operator's run, two runs in all.
SPECIFICATION FairSpec
CONSTANTS
    NAssets = 2
    Procs = {service, cli}
    MaxRuns = 2
    MaxFaults = 1
INVARIANTS
    TypeOK
    EarlierAssetsActive
PROPERTIES
    CompleteMeansPresent
    GivesUpOnlyOnLag
    EachStepNearsTheEnd
    RunsEnd
CHECK_DEADLOCK FALSE
