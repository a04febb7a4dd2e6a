\* One user whose grant an administrator edits, one process, no faults.
SPECIFICATION Spec
CONSTANTS
    Users = {u1}
    Groups = {g1}
    NativeRoles = {admin}
    Procs = {job}
    MaxEdits = 1
    MaxFaults = 0
PROPERTY NativeRolesKept
