\* The container's job and a one-shot run, edits in Entra and in the console.
SPECIFICATION FairSpec
CONSTANTS
    Users = {u1, u2}
    Groups = {g1}
    NativeRoles = {admin}
    Procs = {job, cli}
    MaxEdits = 2
    MaxFaults = 1
INVARIANTS
    TypeOK
    NoRoleNeverHeld
PROPERTIES
    ExactAfterCleanRun
    MembershipPropagates
