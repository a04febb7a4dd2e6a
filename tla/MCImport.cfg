\* Two users, a full import and a trial, a change of the directory, a fault.
SPECIFICATION FairSpec
CONSTANTS
    Users = {u1, u2}
    Pictured = {u1}
    Procs = {full, trial}
    Trials = {trial}
    MaxMoves = 1
    MaxFaults = 1
INVARIANTS
    TypeOK
    OneAccount
PROPERTIES
    SubjectsPreserved
    CleanImportIsComplete
    EveryoneImported
