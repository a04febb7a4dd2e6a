\* One user whose attribute is set and then cleared, one process, no faults.
SPECIFICATION Spec
CONSTANTS
    Users = {u1}
    Attrs = {dept}
    Values = {sales}
    Empty = Empty
    Photos = {}
    NoPhoto = NoPhoto
    Procs = {job}
    TokensExpire = FALSE
    MaxClock = 3
    MaxFaults = 0
INVARIANT BlankIsBlank
