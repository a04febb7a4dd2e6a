\* The container's job and a one-shot run, a user with a photo, a fault, expiry.
SPECIFICATION FairSpec
CONSTANTS
    Users = {u1}
    Attrs = {dept}
    Values = {sales, eng}
    Empty = Empty
    Photos = {ph}
    NoPhoto = NoPhoto
    Procs = {job, cli}
    TokensExpire = TRUE
    MaxClock = 3
    MaxFaults = 1
INVARIANTS
    TypeOK
    TokenIsCovered
    RunStartsCovered
    MirroredUnlessExcused
    OvertakenByOverlap
PROPERTIES
    ImplementsFeed
    EveryChangeHandled
