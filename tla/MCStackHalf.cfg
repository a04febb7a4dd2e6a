\* A production stack; standalone or a client id without its secret, no fault, no edit.
SPECIFICATION FairSpec
CONSTANTS
    Development = FALSE
    MaxFaults = 0
    MaxEdits = 0
    Configs <- MCHalfConfigs
    Autoredirect = TRUE
PROPERTY
    HalfConfigIsSkipped
