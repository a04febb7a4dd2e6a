\* The development stack, three edits by administrators, a fault.
SPECIFICATION FairSpec
CONSTANTS
    Development = TRUE
    MaxFaults = 1
    MaxEdits = 3
    Configs <- MCConfigs
    Autoredirect = TRUE
INVARIANTS
    TypeOK
    SuccessMeansConverged
    StateHandedOver
    KeyIsWhole
    WorksOnProvisioned
    NothingWaitsInACircle
PROPERTIES
    NeverDestroys
    ImplementsReconciler
    Converges
    LoginComesUp
    SyncFollowsDotenv
