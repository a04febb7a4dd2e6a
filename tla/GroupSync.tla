----------------------------- MODULE GroupSync -----------------------------
(***************************************************************************)
(* The sync-groups job of directory-sync (jobs.py): for every user Entra   *)
(* lists and Zitadel knows, read the user's transitive groups, make sure a *)
(* namespaced role exists for each, and replace the user's grant on the    *)
(* applications project by exactly these roles.  The scheduler's container *)
(* and one-shot runs may do this at once; administrators edit users and    *)
(* groups in Entra and native roles in the Zitadel console meanwhile.      *)
(*                                                                         *)
(* The pages of one listing are taken together: a listing is one step,     *)
(* complete, or cut short by a page that fails.                            *)
(***************************************************************************)
EXTENDS Naturals, FiniteSets

CONSTANTS
    Users,                    \* Entra object ids, which are Zitadel user ids
    Groups,                   \* Entra group ids
    NativeRoles,              \* the role catalog Terraform owns
    Procs,                    \* processes that may run the job
    MaxEdits,                 \* bound: changes made by administrators
    MaxFaults                 \* bound: failed requests and aborted runs

ASSUME BoundsAssumption == MaxEdits \in Nat /\ MaxFaults \in Nat

VARIABLES
    \* Entra ID
    listed,                   \* users in the directory
    member,                   \* the groups of each user
    \* Zitadel
    project,                  \* the project exists
    roles,                    \* role keys of the project
    imported,                 \* users that exist
    granted,                  \* users with a grant on the project
    grant,                    \* the role keys of each grant
    \* one run of the job per process
    pc,
    queue,                    \* users still to visit
    cur,                      \* the user being visited, in a set
    groups,                   \* local `groups` not yet turned into roles
    roleKeys,                 \* local `role_keys`
    found,                    \* local `existing` is not None
    \* history
    ever,                     \* groups each user has ever been in
    clean,                    \* nothing disturbed the active runs so far
    edits, faults

entraVars == <<listed, member>>
zitadelVars == <<project, roles, imported, granted, grant>>
runVars == <<pc, queue, cur, groups, roleKeys, found>>
historyVars == <<ever, clean, edits, faults>>
vars == <<entraVars, zitadelVars, runVars, historyVars>>

\* role_key_for_group puts the prefix before the immutable group id, so synced
\* and native keys differ and two groups never share a key.
RoleKey(g) == <<"entra", g>>
NativeKey(r) == <<"native", r>>
SyncedKeys == {RoleKey(g) : g \in Groups}
NativeKeys == {NativeKey(r) : r \in NativeRoles}
Keys == SyncedKeys \cup NativeKeys
KeysOf(u) == {RoleKey(g) : g \in member[u]}

TypeOK ==
    /\ listed \in SUBSET Users
    /\ member \in [Users -> SUBSET Groups]
    /\ project \in BOOLEAN
    /\ roles \in SUBSET Keys
    /\ imported \in SUBSET Users /\ granted \in SUBSET Users
    /\ grant \in [Users -> SUBSET Keys]
    /\ pc \in [Procs -> {"idle", "list", "user", "groups", "roles", "set"}]
    /\ queue \in [Procs -> SUBSET Users]
    /\ cur \in [Procs -> SUBSET Users]
    /\ groups \in [Procs -> SUBSET Groups]
    /\ roleKeys \in [Procs -> SUBSET SyncedKeys]
    /\ found \in [Procs -> BOOLEAN]
    /\ ever \in [Users -> SUBSET Groups]
    /\ clean \in BOOLEAN
    /\ edits \in Nat /\ faults \in Nat

Init ==
    /\ listed = Users /\ member = [u \in Users |-> {}]
    /\ project = FALSE /\ roles = {} /\ imported = {}
    /\ granted = {} /\ grant = [u \in Users |-> {}]
    /\ pc = [p \in Procs |-> "idle"]
    /\ queue = [p \in Procs |-> {}] /\ cur = [p \in Procs |-> {}]
    /\ groups = [p \in Procs |-> {}] /\ roleKeys = [p \in Procs |-> {}]
    /\ found = [p \in Procs |-> FALSE]
    /\ ever = [u \in Users |-> {}]
    /\ clean = TRUE /\ edits = 0 /\ faults = 0

-----------------------------------------------------------------------------
(* Administrators and users, outside the job.                              *)

\* What happens outside disturbs the runs under way.
Disturb == clean' = FALSE

Edit == edits < MaxEdits /\ edits' = edits + 1

\* The provisioner creates the project with the native role catalog.
Provision ==
    /\ ~project
    /\ project' = TRUE /\ roles' = NativeKeys
    /\ Disturb
    /\ UNCHANGED <<entraVars, imported, granted, grant, runVars, ever, edits, faults>>

\* The user comes to exist in Zitadel: an import, or a first login.
Appear(u) ==
    /\ u \notin imported
    /\ imported' = imported \cup {u}
    /\ Disturb
    /\ UNCHANGED <<entraVars, project, roles, granted, grant, runVars, ever,
                   edits, faults>>

\* A user joins a group or leaves one.
Join(u, g) ==
    /\ u \in listed /\ g \notin member[u] /\ Edit
    /\ member' = [member EXCEPT ![u] = @ \cup {g}]
    /\ ever' = [ever EXCEPT ![u] = @ \cup {g}]
    /\ Disturb
    /\ UNCHANGED <<listed, zitadelVars, runVars, faults>>

Leave(u, g) ==
    /\ g \in member[u] /\ Edit
    /\ member' = [member EXCEPT ![u] = @ \ {g}]
    /\ Disturb
    /\ UNCHANGED <<listed, zitadelVars, runVars, ever, faults>>

\* A user is deleted in Entra: listings no longer name it, and a request for
\* its groups is refused, which reads as an empty list.
Delete(u) ==
    /\ u \in listed /\ Edit
    /\ listed' = listed \ {u}
    /\ member' = [member EXCEPT ![u] = {}]
    /\ Disturb
    /\ UNCHANGED <<zitadelVars, runVars, ever, faults>>

\* An administrator adds a native role to a grant or removes one, in the
\* console or through a break-glass resource of Terraform.
EditGrant(u, r) ==
    /\ project /\ u \in imported /\ Edit
    /\ granted' = granted \cup {u}
    /\ grant' = [grant EXCEPT ![u] =
                    IF NativeKey(r) \in @ THEN @ \ {NativeKey(r)}
                                          ELSE @ \cup {NativeKey(r)}]
    /\ Disturb
    /\ UNCHANGED <<entraVars, project, roles, imported, runVars, ever, faults>>

-----------------------------------------------------------------------------
(* One run of sync_groups.                                                 *)

Fault == faults < MaxFaults /\ faults' = faults + 1 /\ clean' = FALSE
NoFault == UNCHANGED <<faults, clean>>

\* find_project_id: without the project the job returns at once.
Start(p) ==
    /\ pc[p] = "idle" /\ project
    /\ pc' = [pc EXCEPT ![p] = "list"]
    /\ clean' = IF \E q \in Procs : pc[q] # "idle" THEN clean ELSE TRUE
    /\ UNCHANGED <<entraVars, zitadelVars, queue, cur, groups, roleKeys, found,
                   ever, edits, faults>>

\* list_users: a page that fails ends the list early.
ListUsers(p) ==
    /\ pc[p] = "list"
    /\ \E S \in SUBSET listed :
          /\ queue' = [queue EXCEPT ![p] = S]
          /\ IF S = listed THEN NoFault ELSE Fault
    /\ pc' = [pc EXCEPT ![p] = "user"]
    /\ UNCHANGED <<entraVars, zitadelVars, cur, groups, roleKeys, found, ever, edits>>

\* get_user returns nothing: the user is not in Zitadel, or the request failed.
SkipUser(p) ==
    /\ pc[p] = "user"
    /\ \E u \in queue[p] :
          /\ queue' = [queue EXCEPT ![p] = @ \ {u}]
          /\ IF u \in imported THEN Fault ELSE NoFault
    /\ UNCHANGED <<entraVars, zitadelVars, pc, cur, groups, roleKeys, found, ever, edits>>

VisitUser(p) ==
    /\ pc[p] = "user"
    /\ \E u \in queue[p] \cap imported :
          /\ queue' = [queue EXCEPT ![p] = @ \ {u}]
          /\ cur' = [cur EXCEPT ![p] = {u}]
    /\ pc' = [pc EXCEPT ![p] = "groups"]
    /\ UNCHANGED <<entraVars, zitadelVars, groups, roleKeys, found, historyVars>>

\* A variant that collects the roles of all users in one list.
ReadGroupsIntoOneList(p) ==
    /\ pc[p] = "groups"
    /\ \E u \in cur[p], S \in SUBSET Groups :
          /\ S \subseteq member[u]
          /\ groups' = [groups EXCEPT ![p] = S]
          /\ IF S = member[u] THEN NoFault ELSE Fault
    /\ UNCHANGED roleKeys
    /\ pc' = [pc EXCEPT ![p] = "roles"]
    /\ UNCHANGED <<entraVars, zitadelVars, queue, cur, found, ever, edits>>

\* user_groups, into an empty role_keys: a page that fails ends the list early.
ReadGroups(p) ==
    /\ pc[p] = "groups"
    /\ \E u \in cur[p], S \in SUBSET Groups :
          /\ S \subseteq member[u]
          /\ groups' = [groups EXCEPT ![p] = S]
          /\ IF S = member[u] THEN NoFault ELSE Fault
    /\ roleKeys' = [roleKeys EXCEPT ![p] = {}]
    /\ pc' = [pc EXCEPT ![p] = "roles"]
    /\ UNCHANGED <<entraVars, zitadelVars, queue, cur, found, ever, edits>>

\* A variant that grants the bare group id, without the namespace's prefix.
EnsureRoleUnprefixed(p) ==
    /\ pc[p] = "roles"
    /\ \E g \in groups[p] :
          /\ \/ roles' = roles \cup {RoleKey(g)} /\ NoFault
             \/ UNCHANGED roles /\ Fault
          /\ groups' = [groups EXCEPT ![p] = @ \ {g}]
          /\ roleKeys' = [roleKeys EXCEPT ![p] = @ \cup {g}]
    /\ UNCHANGED <<entraVars, project, imported, granted, grant, pc, queue, cur,
                   found, ever, edits>>

\* ensure_role: a role that exists is fine; a failure is not looked at.
EnsureRole(p) ==
    /\ pc[p] = "roles"
    /\ \E g \in groups[p] :
          /\ \/ roles' = roles \cup {RoleKey(g)} /\ NoFault
             \/ UNCHANGED roles /\ Fault
          /\ groups' = [groups EXCEPT ![p] = @ \ {g}]
          /\ roleKeys' = [roleKeys EXCEPT ![p] = @ \cup {RoleKey(g)}]
    /\ UNCHANGED <<entraVars, project, imported, granted, grant, pc, queue, cur,
                   found, ever, edits>>

\* find_user_grant: any answer but 200 counts as "no grant".
FindGrant(p) ==
    /\ pc[p] = "roles" /\ groups[p] = {}
    /\ \E u \in cur[p] :
          \/ found' = [found EXCEPT ![p] = u \in granted] /\ NoFault
          \/ found' = [found EXCEPT ![p] = FALSE] /\ Fault
    /\ pc' = [pc EXCEPT ![p] = "set"]
    /\ UNCHANGED <<entraVars, zitadelVars, queue, cur, groups, roleKeys, ever, edits>>

\* Variants: a user with no group is left alone; roles are only ever added.
WrittenIfAny(p, u) == IF roleKeys[p] = {} THEN grant[u] ELSE roleKeys[p]
WrittenMerged(p, u) == grant[u] \cup roleKeys[p]

\* What set_user_grant makes of the grant: exactly the role keys of this run.
Written(p, u) == roleKeys[p]

\* Zitadel refuses unknown roles, and a second grant for the same project.
Accepted(p, u) == roleKeys[p] \subseteq roles /\ (found[p] \/ u \notin granted)

\* set_user_grant: POST a grant, or PUT its role keys, which replaces them.
\* The result is not looked at.
SetGrant(p) ==
    /\ pc[p] = "set"
    /\ \E u \in cur[p] :
          \/ /\ Accepted(p, u)
             /\ granted' = granted \cup {u}
             /\ grant' = [grant EXCEPT ![u] = Written(p, u)]
             /\ NoFault
          \/ /\ ~Accepted(p, u) /\ UNCHANGED <<granted, grant>> /\ NoFault
          \/ /\ Accepted(p, u) /\ UNCHANGED <<granted, grant>> /\ Fault
    /\ cur' = [cur EXCEPT ![p] = {}]
    /\ pc' = [pc EXCEPT ![p] = "user"]
    /\ UNCHANGED <<entraVars, project, roles, imported, queue, groups, roleKeys,
                   found, ever, edits>>

EndRun(p) ==
    /\ pc' = [pc EXCEPT ![p] = "idle"]
    /\ queue' = [queue EXCEPT ![p] = {}] /\ cur' = [cur EXCEPT ![p] = {}]
    /\ groups' = [groups EXCEPT ![p] = {}]
    /\ roleKeys' = [roleKeys EXCEPT ![p] = {}]
    /\ found' = [found EXCEPT ![p] = FALSE]

\* Every listed user was visited.
Finish(p) ==
    /\ pc[p] = "user" /\ queue[p] = {}
    /\ EndRun(p)
    /\ UNCHANGED <<entraVars, zitadelVars, historyVars>>

\* An exception ends the run (_guard reports it), or the container is killed.
Abort(p) ==
    /\ pc[p] # "idle" /\ Fault
    /\ EndRun(p)
    /\ UNCHANGED <<entraVars, zitadelVars, ever, edits>>

Run(p) ==
    \/ Start(p) \/ ListUsers(p) \/ SkipUser(p) \/ VisitUser(p) \/ ReadGroups(p)
    \/ EnsureRole(p) \/ FindGrant(p) \/ SetGrant(p) \/ Finish(p) \/ Abort(p)

Environment ==
    \/ Provision
    \/ \E u \in Users : Appear(u) \/ Delete(u)
    \/ \E u \in Users, g \in Groups : Join(u, g) \/ Leave(u, g)
    \/ \E u \in Users, r \in NativeRoles : EditGrant(u, r)

Next == Environment \/ \E p \in Procs : Run(p)

Spec == Init /\ [][Next]_vars

\* The job is started again and again, and a started run keeps going.
FairSpec == Spec /\ \A p \in Procs : WF_vars(Run(p))

-----------------------------------------------------------------------------
(* Properties.                                                             *)

\* A grant holds no role of a group its user was never in, however the runs
\* over several users interleave.
NoRoleNeverHeld ==
    \A u \in Users : grant[u] \cap SyncedKeys \subseteq {RoleKey(g) : g \in ever[u]}

\* A run that nothing disturbed (no failed request and no change outside, in
\* it or in a run it overlapped) leaves every listed user of Zitadel with
\* exactly the roles of the user's groups: lost memberships are gone too.
ExactAfterCleanRun ==
    [][\A p \in Procs :
          (Finish(p) /\ clean) =>
              \A u \in listed \cap imported : grant[u] = KeysOf(u)]_vars

\* A membership change reaches the grant sooner or later, as long as the user
\* is listed, exists in Zitadel and the project exists.
MembershipPropagates ==
    \A u \in Users :
        []<>(project /\ u \in listed \cap imported => grant[u] = KeysOf(u))

\* The job never takes a native role away from a grant.
NativeRolesKept ==
    [][\A p \in Procs : SetGrant(p) =>
          \A u \in Users : grant[u] \cap NativeKeys \subseteq grant'[u]]_vars

\* The job never takes a role away from a user that is still in the group and
\* was so all along.
RolesKeptWhileMember ==
    [][\A p \in Procs : SetGrant(p) =>
          \A u \in Users, g \in Groups :
              (ever[u] = member[u] /\ RoleKey(g) \in grant[u])
                  => RoleKey(g) \in grant'[u]]_vars
=============================================================================
