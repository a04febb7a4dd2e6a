\* One user in one group, one process, one page of Graph that fails.
SPECIFICATION Spec
CONSTANTS
    Users = {u1}
    Groups = {g1}
    NativeRoles = {}
    Procs = {job}
    MaxEdits = 1
    MaxFaults = 1
PROPERTY RolesKeptWhileMember
