-------------------------- MODULE GroupSyncProofs --------------------------
(***************************************************************************)
(* Proofs about GroupSync for any users, groups, native roles and runs:    *)
(* types, that no grant holds a role of a group its user was never in, and *)
(* that an undisturbed run leaves exactly the roles of the current groups. *)
(***************************************************************************)
EXTENDS GroupSync, TLAPS

(***************************************************************************)
(* The inductive invariant follows each run: what role_keys and the groups *)
(* still to turn into roles stand for, and, as long as nothing disturbed   *)
(* the runs under way, that every listed user is still queued, is being    *)
(* visited, or already has its exact grant.                                *)
(***************************************************************************)
HeldInv ==
    /\ \A u \in Users : member[u] \subseteq ever[u]
    /\ NoRoleNeverHeld
    /\ \A p \in Procs : pc[p] \in {"roles", "set"} =>
          \A u \in cur[p] :
              /\ groups[p] \subseteq ever[u]
              /\ roleKeys[p] \subseteq {RoleKey(g) : g \in ever[u]}

CurInv(p) ==
    /\ \A u, v \in cur[p] : u = v
    /\ pc[p] \in {"idle", "list", "user"} => cur[p] = {}

Exact(u) == grant[u] = KeysOf(u)

CleanRun(p) ==
    /\ pc[p] \in {"user", "groups", "roles", "set"} =>
          \A u \in listed \cap imported : u \in queue[p] \/ u \in cur[p] \/ Exact(u)
    /\ pc[p] = "roles" => \A u \in cur[p] :
          KeysOf(u) = roleKeys[p] \cup {RoleKey(g) : g \in groups[p]}
    /\ pc[p] = "set" => \A u \in cur[p] :
          /\ KeysOf(u) = roleKeys[p]
          /\ (found[p] \/ u \notin granted \/ Exact(u))
    /\ pc[p] \in {"roles", "set"} => roleKeys[p] \subseteq roles

CleanInv == clean => \A p \in Procs : CleanRun(p)

IInv == TypeOK /\ HeldInv /\ (\A p \in Procs : CurInv(p)) /\ CleanInv

-----------------------------------------------------------------------------
\* The Boolean variables keep their type.
LEMMA BooleanStep ==
  ASSUME TypeOK, [Next]_vars
  PROVE  project' \in BOOLEAN /\ clean' \in BOOLEAN /\ found' \in [Procs -> BOOLEAN]
<1>t. project \in BOOLEAN /\ clean \in BOOLEAN /\ found \in [Procs -> BOOLEAN]
  BY DEF TypeOK
<1>1. CASE Provision
  BY <1>1, <1>t DEF Provision, Disturb, runVars
<1>2. ASSUME NEW u \in Users, Appear(u) \/ Delete(u)
      PROVE  project' \in BOOLEAN /\ clean' \in BOOLEAN /\ found' \in [Procs -> BOOLEAN]
  BY <1>2, <1>t DEF Appear, Delete, Disturb, zitadelVars, runVars
<1>3. ASSUME NEW u \in Users, NEW g \in Groups, Join(u, g) \/ Leave(u, g)
      PROVE  project' \in BOOLEAN /\ clean' \in BOOLEAN /\ found' \in [Procs -> BOOLEAN]
  BY <1>3, <1>t DEF Join, Leave, Disturb, zitadelVars, runVars
<1>4. ASSUME NEW u \in Users, NEW r \in NativeRoles, EditGrant(u, r)
      PROVE  project' \in BOOLEAN /\ clean' \in BOOLEAN /\ found' \in [Procs -> BOOLEAN]
  BY <1>4, <1>t DEF EditGrant, Disturb, runVars
<1>5. ASSUME NEW p \in Procs, Run(p) PROVE project' = project
  BY <1>5 DEF Run, Start, ListUsers, SkipUser, VisitUser, ReadGroups, EnsureRole,
              FindGrant, SetGrant, Finish, Abort, zitadelVars
<1>6. ASSUME NEW p \in Procs, Run(p) PROVE clean' \in BOOLEAN
  <2>1. CASE Start(p)
    BY <2>1, <1>t DEF Start
  <2>2. CASE ~Start(p)
    <3>1. clean' = clean \/ clean' = FALSE
      BY <2>2, <1>6 DEF Run, ListUsers, SkipUser, VisitUser, ReadGroups, EnsureRole,
                  FindGrant, SetGrant, Finish, Abort, historyVars, Fault, NoFault
    <3>. QED
      BY <3>1, <1>t
  <2>. QED
    BY <2>1, <2>2
<1>7. ASSUME NEW p \in Procs, Run(p) PROVE found' \in [Procs -> BOOLEAN]
  <2>1. CASE FindGrant(p)
    <3>1. PICK u \in cur[p] : \/ found' = [found EXCEPT ![p] = u \in granted]
                              \/ found' = [found EXCEPT ![p] = FALSE]
      BY <2>1 DEF FindGrant
    <3>2. ASSUME NEW b \in BOOLEAN, found' = [found EXCEPT ![p] = b]
          PROVE  found' \in [Procs -> BOOLEAN]
      BY <3>2, <1>t
    <3>3. (u \in granted) \in BOOLEAN
      OBVIOUS
    <3>. QED
      BY <3>1, <3>2, <3>3
  <2>2. CASE ~FindGrant(p)
    <3>1. found' = found \/ found' = [found EXCEPT ![p] = FALSE]
      BY <2>2, <1>7 DEF Run, Start, ListUsers, SkipUser, VisitUser, ReadGroups,
                  EnsureRole, SetGrant, Finish, Abort, EndRun
    <3>. QED
      BY <3>1, <1>t
  <2>. QED
    BY <2>1, <2>2
<1>8. CASE UNCHANGED vars
  BY <1>8, <1>t DEF vars, zitadelVars, runVars, historyVars
<1>. QED
  BY <1>1, <1>2, <1>3, <1>4, <1>5, <1>6, <1>7, <1>8, <1>t DEF Next, Environment

LEMMA TypeStep == TypeOK /\ [Next]_vars => TypeOK'
<1>. SUFFICES ASSUME TypeOK, [Next]_vars PROVE TypeOK'
  OBVIOUS
<1>k. NativeKeys \subseteq Keys /\ SyncedKeys \subseteq Keys
      /\ \A g \in Groups : RoleKey(g) \in SyncedKeys
      /\ \A r \in NativeRoles : NativeKey(r) \in NativeKeys
  BY DEF Keys, SyncedKeys, NativeKeys
<1>b. project' \in BOOLEAN /\ clean' \in BOOLEAN /\ found' \in [Procs -> BOOLEAN]
  BY BooleanStep
<1>1. CASE Provision
  BY <1>1, <1>b, <1>k DEF TypeOK, Provision, entraVars, runVars
<1>2. ASSUME NEW u \in Users, Appear(u) PROVE TypeOK'
  BY <1>2, <1>b DEF TypeOK, Appear, entraVars, runVars
<1>3. ASSUME NEW u \in Users, Delete(u) PROVE TypeOK'
  BY <1>3, <1>b DEF TypeOK, Delete, Edit, zitadelVars, runVars
<1>4. ASSUME NEW u \in Users, NEW g \in Groups, Join(u, g) PROVE TypeOK'
  BY <1>4, <1>b DEF TypeOK, Join, Edit, zitadelVars, runVars
<1>5. ASSUME NEW u \in Users, NEW g \in Groups, Leave(u, g) PROVE TypeOK'
  BY <1>5, <1>b DEF TypeOK, Leave, Edit, zitadelVars, runVars
<1>6. ASSUME NEW u \in Users, NEW r \in NativeRoles, EditGrant(u, r) PROVE TypeOK'
  <2>1. NativeKey(r) \in Keys
    BY DEF Keys, NativeKeys
  <2>2. \/ grant' = [grant EXCEPT ![u] = grant[u] \ {NativeKey(r)}]
        \/ grant' = [grant EXCEPT ![u] = grant[u] \cup {NativeKey(r)}]
    <3>1. CASE NativeKey(r) \in grant[u]
      BY <1>6, <3>1 DEF EditGrant, TypeOK
    <3>2. CASE NativeKey(r) \notin grant[u]
      BY <1>6, <3>2 DEF EditGrant, TypeOK
    <3>. QED
      BY <3>1, <3>2
  <2>3. grant[u] \ {NativeKey(r)} \in SUBSET Keys
        /\ grant[u] \cup {NativeKey(r)} \in SUBSET Keys
    BY <2>1 DEF TypeOK
  <2>4. grant' \in [Users -> SUBSET Keys]
    BY <2>2, <2>3 DEF TypeOK
  <2>5. granted' \in SUBSET Users
    BY <1>6 DEF EditGrant, TypeOK
  <2>. QED
    BY <1>6, <1>b, <2>4, <2>5 DEF TypeOK, EditGrant, Edit, entraVars, runVars
<1>7. ASSUME NEW p \in Procs, Start(p) PROVE TypeOK'
  BY <1>7, <1>b DEF TypeOK, Start, entraVars, zitadelVars
<1>8. ASSUME NEW p \in Procs, ListUsers(p) PROVE TypeOK'
  BY <1>8, <1>b DEF TypeOK, ListUsers, Fault, NoFault, entraVars, zitadelVars
<1>9. ASSUME NEW p \in Procs, SkipUser(p) PROVE TypeOK'
  BY <1>9, <1>b DEF TypeOK, SkipUser, Fault, NoFault, entraVars, zitadelVars
<1>10. ASSUME NEW p \in Procs, VisitUser(p) PROVE TypeOK'
  BY <1>10, <1>b DEF TypeOK, VisitUser, entraVars, zitadelVars, historyVars
<1>11. ASSUME NEW p \in Procs, ReadGroups(p) PROVE TypeOK'
  BY <1>11, <1>b DEF TypeOK, ReadGroups, Fault, NoFault, entraVars, zitadelVars
<1>12. ASSUME NEW p \in Procs, EnsureRole(p) PROVE TypeOK'
  <2>1. PICK g \in groups[p] :
          /\ roles' \in {roles, roles \cup {RoleKey(g)}}
          /\ groups' = [groups EXCEPT ![p] = @ \ {g}]
          /\ roleKeys' = [roleKeys EXCEPT ![p] = @ \cup {RoleKey(g)}]
          /\ NoFault \/ Fault
    BY <1>12, <1>b DEF EnsureRole
  <2>2. RoleKey(g) \in SyncedKeys /\ RoleKey(g) \in Keys
    BY <1>k DEF TypeOK
  <2>3. roles' \in SUBSET Keys /\ roleKeys' \in [Procs -> SUBSET SyncedKeys]
    BY <2>1, <2>2 DEF TypeOK
  <2>4. groups' \in [Procs -> SUBSET Groups] /\ faults' \in Nat 
    BY <2>1 DEF TypeOK, Fault, NoFault
  <2>. QED
    BY <1>12, <1>b, <2>3, <2>4 DEF TypeOK, EnsureRole, entraVars
<1>13. ASSUME NEW p \in Procs, FindGrant(p) PROVE TypeOK'
  BY <1>13, <1>b DEF TypeOK, FindGrant, Fault, NoFault, entraVars, zitadelVars
<1>14. ASSUME NEW p \in Procs, SetGrant(p) PROVE TypeOK'
  <2>1. PICK u \in cur[p] :
          \/ /\ granted' = granted \cup {u}
             /\ grant' = [grant EXCEPT ![u] = roleKeys[p]]
             /\ NoFault
          \/ UNCHANGED <<granted, grant>> /\ (NoFault \/ Fault)
    BY <1>14, <1>b DEF SetGrant, Written
  <2>2. u \in Users /\ roleKeys[p] \in SUBSET Keys
    BY <1>k DEF TypeOK
  <2>3. granted' \in SUBSET Users /\ grant' \in [Users -> SUBSET Keys]
    BY <2>1, <2>2 DEF TypeOK
  <2>4. faults' \in Nat 
    BY <2>1 DEF TypeOK, Fault, NoFault
  <2>. QED
    BY <1>14, <1>b, <2>3, <2>4 DEF TypeOK, SetGrant, entraVars
<1>15. ASSUME NEW p \in Procs, Finish(p) PROVE TypeOK'
  BY <1>15, <1>b DEF TypeOK, Finish, EndRun, entraVars, zitadelVars, historyVars
<1>16. ASSUME NEW p \in Procs, Abort(p) PROVE TypeOK'
  BY <1>16, <1>b DEF TypeOK, Abort, EndRun, Fault, entraVars, zitadelVars
<1>17. CASE UNCHANGED vars
  BY <1>17, <1>b DEF TypeOK, vars, entraVars, zitadelVars, runVars, historyVars
<1>. QED
  BY <1>1, <1>b, <1>2, <1>3, <1>4, <1>5, <1>6, <1>7, <1>8, <1>9, <1>10, <1>11, <1>12,
     <1>13, <1>14, <1>15, <1>16, <1>17 DEF Next, Environment, Run

LEMMA InitIInv == Init => IInv
<1>. SUFFICES ASSUME Init PROVE IInv
  OBVIOUS
<1>1. TypeOK
  BY DEF Init, TypeOK
<1>2. HeldInv
  BY DEF Init, HeldInv, NoRoleNeverHeld
<1>3. \A p \in Procs : CurInv(p) /\ CleanRun(p)
  BY DEF Init, CurInv, CleanRun
<1>. QED
  BY <1>1, <1>2, <1>3 DEF IInv, CleanInv

\* TypeOK of the runs, for every value of the constants.
THEOREM TypeCorrect == Spec => []TypeOK
<1>1. Init => TypeOK
  BY InitIInv DEF IInv
<1>. QED
  BY <1>1, TypeStep, PTL DEF Spec

-----------------------------------------------------------------------------
(* No grant holds a role of a group its user was never in.                 *)

\* A step that leaves memberships, grants and the lists of the runs alone.
LEMMA HeldUntouched ==
  ASSUME HeldInv, TypeOK, UNCHANGED <<member, ever, grant, groups, roleKeys, pc, cur>>
  PROVE  HeldInv'
BY DEF HeldInv, NoRoleNeverHeld

\* Native and synced role keys differ.
LEMMA KeysDiffer == \A r \in NativeRoles : NativeKey(r) \notin SyncedKeys
BY DEF NativeKey, SyncedKeys, RoleKey

LEMMA HeldStep ==
  ASSUME IInv, TypeOK', [Next]_vars
  PROVE  HeldInv'
<1>t. TypeOK /\ HeldInv /\ \A p \in Procs : CurInv(p)
  BY DEF IInv
<1>1. CASE Provision
  BY <1>1, <1>t, HeldUntouched DEF Provision, entraVars, runVars
<1>2. ASSUME NEW u \in Users, Appear(u) PROVE HeldInv'
  BY <1>2, <1>t, HeldUntouched DEF Appear, entraVars, runVars
<1>3. ASSUME UNCHANGED <<grant, groups, roleKeys, pc, cur>>,
             \A u \in Users : ever[u] \subseteq ever'[u] /\ member'[u] \subseteq ever'[u]
      PROVE  HeldInv'
  <2>1. NoRoleNeverHeld'
    BY <1>3, <1>t DEF HeldInv, NoRoleNeverHeld
  <2>2. \A p \in Procs : pc'[p] \in {"roles", "set"} =>
          \A u \in cur'[p] :
              /\ groups'[p] \subseteq ever'[u]
              /\ roleKeys'[p] \subseteq {RoleKey(g) : g \in ever'[u]}
    BY <1>3, <1>t DEF HeldInv, TypeOK
  <2>. QED
    BY <1>3, <2>1, <2>2 DEF HeldInv
<1>4. ASSUME NEW u \in Users, Delete(u) PROVE HeldInv'
  BY <1>4, <1>3, <1>t DEF Delete, zitadelVars, runVars, TypeOK, HeldInv
<1>5. ASSUME NEW u \in Users, NEW g \in Groups, Join(u, g) PROVE HeldInv'
  BY <1>5, <1>3, <1>t DEF Join, zitadelVars, runVars, TypeOK, HeldInv
<1>6. ASSUME NEW u \in Users, NEW g \in Groups, Leave(u, g) PROVE HeldInv'
  BY <1>6, <1>3, <1>t DEF Leave, zitadelVars, runVars, TypeOK, HeldInv
<1>7. ASSUME NEW u \in Users, NEW r \in NativeRoles, EditGrant(u, r) PROVE HeldInv'
  <2>1. UNCHANGED <<member, ever, groups, roleKeys, pc, cur>>
    BY <1>7 DEF EditGrant, entraVars, runVars
  <2>2. \A v \in Users : grant'[v] \subseteq grant[v] \cup {NativeKey(r)}
    BY <1>7, <1>t DEF EditGrant, TypeOK
  <2>3. NoRoleNeverHeld'
    BY <2>1, <2>2, <1>t, KeysDiffer DEF HeldInv, NoRoleNeverHeld
  <2>. QED
    BY <2>1, <2>3, <1>t DEF HeldInv
<1>8. ASSUME NEW p \in Procs, UNCHANGED <<member, ever, grant>>,
             \A q \in Procs \ {p} : /\ pc'[q] = pc[q] /\ cur'[q] = cur[q]
                                    /\ groups'[q] = groups[q] /\ roleKeys'[q] = roleKeys[q],
             pc'[p] \in {"roles", "set"} =>
                \A u \in cur'[p] :
                    /\ groups'[p] \subseteq ever'[u]
                    /\ roleKeys'[p] \subseteq {RoleKey(g) : g \in ever'[u]}
      PROVE  HeldInv'
  BY <1>8, <1>t DEF HeldInv, NoRoleNeverHeld
<1>9. ASSUME NEW p \in Procs,
             Start(p) \/ ListUsers(p) \/ SkipUser(p) \/ VisitUser(p)
      PROVE  HeldInv'
  <2>1. UNCHANGED <<member, ever, grant, groups, roleKeys>>
    BY <1>9 DEF Start, ListUsers, SkipUser, VisitUser, entraVars, zitadelVars, historyVars
  <2>2. /\ \A q \in Procs \ {p} : pc'[q] = pc[q] /\ cur'[q] = cur[q]
        /\ pc'[p] \notin {"roles", "set"}
    BY <1>9, <1>t DEF Start, ListUsers, SkipUser, VisitUser, TypeOK
  <2>. QED
    BY <1>8, <2>1, <2>2
<1>10. ASSUME NEW p \in Procs, ReadGroups(p) PROVE HeldInv'
  <2>1. PICK u \in cur[p], S \in SUBSET Groups :
            S \subseteq member[u] /\ groups' = [groups EXCEPT ![p] = S]
    BY <1>10 DEF ReadGroups
  <2>2. UNCHANGED <<member, ever, grant, cur>>
    BY <1>10 DEF ReadGroups, entraVars, zitadelVars
  <2>3. \A v \in cur'[p] : v = u /\ groups'[p] \subseteq ever'[v] /\ roleKeys'[p] = {}
    BY <2>1, <2>2, <1>10, <1>t DEF CurInv, HeldInv, TypeOK, ReadGroups
  <2>. QED
    BY <1>8, <2>2, <2>3, <1>10, <1>t DEF ReadGroups, TypeOK
<1>11. ASSUME NEW p \in Procs, EnsureRole(p) PROVE HeldInv'
  <2>1. PICK g \in groups[p] :
          /\ groups' = [groups EXCEPT ![p] = @ \ {g}]
          /\ roleKeys' = [roleKeys EXCEPT ![p] = @ \cup {RoleKey(g)}]
    BY <1>11 DEF EnsureRole
  <2>2. UNCHANGED <<member, ever, grant, cur, pc>> /\ pc[p] = "roles"
    BY <1>11 DEF EnsureRole, entraVars
  <2>3. \A v \in cur[p] : g \in ever[v] /\ groups[p] \subseteq ever[v]
          /\ roleKeys[p] \subseteq {RoleKey(h) : h \in ever[v]}
    BY <2>2, <1>t DEF HeldInv
  <2>4. /\ groups'[p] = groups[p] \ {g} /\ roleKeys'[p] = roleKeys[p] \cup {RoleKey(g)}
        /\ \A q \in Procs \ {p} : groups'[q] = groups[q] /\ roleKeys'[q] = roleKeys[q]
    BY <2>1, <1>t DEF TypeOK
  <2>5. \A v \in cur[p] : {RoleKey(g)} \subseteq {RoleKey(h) : h \in ever[v]}
    BY <2>3
  <2>. QED
    BY <1>8, <2>2, <2>3, <2>4, <2>5
<1>12. ASSUME NEW p \in Procs, FindGrant(p) PROVE HeldInv'
  <2>1. UNCHANGED <<member, ever, grant, cur, groups, roleKeys>> /\ pc[p] = "roles"
    BY <1>12 DEF FindGrant, entraVars, zitadelVars
  <2>2. \A q \in Procs \ {p} : pc'[q] = pc[q]
    BY <1>12, <1>t DEF FindGrant, TypeOK
  <2>. QED
    BY <1>8, <2>1, <2>2, <1>t DEF HeldInv
<1>13. ASSUME NEW p \in Procs, SetGrant(p) PROVE HeldInv'
  <2>1. PICK u \in cur[p] :
            grant' = [grant EXCEPT ![u] = roleKeys[p]] \/ grant' = grant
    BY <1>13 DEF SetGrant, Written
  <2>2. UNCHANGED <<member, ever, groups, roleKeys>> /\ pc[p] = "set"
    BY <1>13 DEF SetGrant, entraVars
  <2>3. roleKeys[p] \subseteq {RoleKey(g) : g \in ever[u]} /\ u \in Users
    BY <2>1, <2>2, <1>t DEF HeldInv, TypeOK
  <2>4. NoRoleNeverHeld'
    BY <2>1, <2>2, <2>3, <1>t DEF HeldInv, NoRoleNeverHeld, TypeOK
  <2>5. /\ pc'[p] = "user"
        /\ \A q \in Procs \ {p} : pc'[q] = pc[q] /\ cur'[q] = cur[q]
    BY <1>13, <1>t DEF SetGrant, TypeOK
  <2>. QED
    BY <2>2, <2>4, <2>5, <1>t DEF HeldInv
<1>14. ASSUME NEW p \in Procs, Finish(p) \/ Abort(p) PROVE HeldInv'
  <2>1. UNCHANGED <<member, ever, grant>> /\ EndRun(p)
    BY <1>14 DEF Finish, Abort, entraVars, zitadelVars, historyVars
  <2>2. /\ pc'[p] = "idle"
        /\ \A q \in Procs \ {p} : /\ pc'[q] = pc[q] /\ cur'[q] = cur[q]
                                  /\ groups'[q] = groups[q] /\ roleKeys'[q] = roleKeys[q]
    BY <2>1, <1>t DEF EndRun, TypeOK
  <2>. QED
    BY <1>8, <2>1, <2>2
<1>15. CASE UNCHANGED vars
  BY <1>15, <1>t, HeldUntouched DEF vars, entraVars, zitadelVars, runVars, historyVars
<1>. QED
  BY <1>1, <1>2, <1>4, <1>5, <1>6, <1>7, <1>9, <1>10, <1>11, <1>12, <1>13, <1>14,
     <1>15 DEF Next, Environment, Run

LEMMA CurStep ==
  ASSUME IInv, [Next]_vars, NEW q \in Procs
  PROVE  CurInv(q)'
<1>t. TypeOK /\ CurInv(q)
  BY DEF IInv
<1>1. CASE Environment \/ UNCHANGED vars
  BY <1>1, <1>t DEF Environment, Provision, Appear, Delete, Join, Leave, EditGrant,
                    vars, runVars, CurInv
<1>2. ASSUME NEW p \in Procs, Run(p) PROVE CurInv(q)'
  <2>1. CASE q # p
    <3>1. pc'[q] = pc[q] /\ cur'[q] = cur[q]
      BY <1>2, <2>1, <1>t DEF Run, Start, ListUsers, SkipUser, VisitUser, ReadGroups,
           EnsureRole, FindGrant, SetGrant, Finish, Abort, EndRun, TypeOK, zitadelVars
    <3>. QED
      BY <3>1, <1>t DEF CurInv
  <2>2. CASE q = p
    <3>1. CASE VisitUser(p)
      BY <3>1, <2>2, <1>t DEF VisitUser, CurInv, TypeOK
    <3>2. CASE SetGrant(p) \/ Finish(p) \/ Abort(p)
      BY <3>2, <2>2, <1>t DEF SetGrant, Finish, Abort, EndRun, CurInv, TypeOK
    <3>3. CASE Start(p) \/ ListUsers(p) \/ SkipUser(p)
      BY <3>3, <2>2, <1>t DEF Start, ListUsers, SkipUser, CurInv, TypeOK
    <3>4. CASE ReadGroups(p) \/ EnsureRole(p) \/ FindGrant(p)
      BY <3>4, <2>2, <1>t DEF ReadGroups, EnsureRole, FindGrant, CurInv, TypeOK
    <3>. QED
      BY <1>2, <3>1, <3>2, <3>3, <3>4 DEF Run
  <2>. QED
    BY <2>1, <2>2
<1>. QED
  BY <1>1, <1>2 DEF Next

-----------------------------------------------------------------------------
(* While nothing disturbs the runs, each is on its way to exact grants.    *)

\* A run keeps CleanRun while another one takes a step that adds roles or
\* gives users their exact grant.
LEMMA CleanUntouched ==
  ASSUME TypeOK, NEW q \in Procs, CleanRun(q),
         UNCHANGED <<listed, member, imported>>,
         pc'[q] = pc[q], queue'[q] = queue[q], cur'[q] = cur[q],
         groups'[q] = groups[q], roleKeys'[q] = roleKeys[q], found'[q] = found[q],
         roles \subseteq roles',
         \A u \in Users : \/ Exact(u)'
                          \/ grant'[u] = grant[u] /\ (u \in granted' => u \in granted)
  PROVE  CleanRun(q)'
<1>1. \A u \in Users : KeysOf(u)' = KeysOf(u) /\ (Exact(u) => Exact(u)')
  BY DEF KeysOf, Exact
<1>. QED
  BY <1>1 DEF CleanRun, TypeOK

LEMMA CleanStep ==
  ASSUME IInv, TypeOK', [Next]_vars
  PROVE  CleanInv'
<1>. SUFFICES ASSUME clean', NEW q \in Procs PROVE CleanRun(q)'
  BY DEF CleanInv
<1>t. TypeOK /\ (\A p \in Procs : CurInv(p)) /\ (clean => \A p \in Procs : CleanRun(p))
  BY DEF IInv, CleanInv
<1>1. CASE UNCHANGED vars
  <2>1. CleanRun(q)
    BY <1>1, <1>t DEF vars, historyVars
  <2>. QED
    BY <1>1, <2>1, <1>t, CleanUntouched DEF vars, entraVars, zitadelVars, runVars
<1>2. CASE Environment
  BY <1>2 DEF Environment, Provision, Appear, Delete, Join, Leave, EditGrant, Disturb
<1>3. ASSUME NEW p \in Procs, Start(p) PROVE CleanRun(q)'
  <2>1. CASE q = p
    BY <1>3, <2>1, <1>t DEF Start, CleanRun, TypeOK
  <2>2. CASE q # p /\ pc[q] = "idle"
    BY <1>3, <2>2, <1>t DEF Start, CleanRun, TypeOK
  <2>3. CASE q # p /\ pc[q] # "idle"
    <3>1. clean /\ CleanRun(q)
      BY <1>3, <2>3, <1>t DEF Start
    <3>. QED
      BY <1>3, <2>3, <3>1, <1>t, CleanUntouched DEF Start, entraVars, zitadelVars, TypeOK
  <2>. QED
    BY <2>1, <2>2, <2>3
<1>4. ASSUME NEW p \in Procs, Run(p), ~Start(p)
      PROVE  clean /\ CleanRun(q) /\ CleanRun(p) /\ UNCHANGED <<clean, faults>>
  <2>1. UNCHANGED <<clean, faults>>
    BY <1>4 DEF Run, ListUsers, SkipUser, VisitUser, ReadGroups, EnsureRole, FindGrant,
                SetGrant, Finish, Abort, Fault, NoFault, historyVars
  <2>. QED
    BY <2>1, <1>t
<1>5. ASSUME NEW p \in Procs, SetGrant(p), ~Start(p)
      PROVE  \A u \in Users : \/ Exact(u)'
                              \/ grant'[u] = grant[u] /\ (u \in granted' => u \in granted)
  <2>1. PICK u \in cur[p] :
          \/ /\ granted' = granted \cup {u}
             /\ grant' = [grant EXCEPT ![u] = roleKeys[p]]
          \/ UNCHANGED <<granted, grant>>
    BY <1>5 DEF SetGrant, Written
  <2>2. pc[p] = "set" /\ CleanRun(p) /\ member' = member
    BY <1>5, <1>4 DEF SetGrant, Run, entraVars
  <2>3. u \in Users /\ KeysOf(u) = roleKeys[p] /\ KeysOf(u)' = KeysOf(u)
    BY <2>2, <1>t DEF CleanRun, TypeOK, KeysOf
  <2>. QED
    BY <2>1, <2>3, <1>t DEF Exact, TypeOK
<1>6. ASSUME NEW p \in Procs, Run(p), ~Start(p), q # p PROVE CleanRun(q)'
  <2>0. CleanRun(q)
    BY <1>6, <1>4
  <2>1. UNCHANGED <<listed, member, imported>>
    BY <1>6 DEF Run, ListUsers, SkipUser, VisitUser, ReadGroups, EnsureRole, FindGrant,
                SetGrant, Finish, Abort, entraVars, zitadelVars
  <2>2. /\ pc'[q] = pc[q] /\ queue'[q] = queue[q] /\ cur'[q] = cur[q]
        /\ groups'[q] = groups[q] /\ roleKeys'[q] = roleKeys[q] /\ found'[q] = found[q]
    <3>1. CASE ListUsers(p) \/ SkipUser(p) \/ VisitUser(p) \/ ReadGroups(p)
      BY <3>1, <1>6, <1>t DEF ListUsers, SkipUser, VisitUser, ReadGroups, TypeOK
    <3>2. CASE EnsureRole(p) \/ FindGrant(p) \/ SetGrant(p)
      BY <3>2, <1>6, <1>t DEF EnsureRole, FindGrant, SetGrant, TypeOK
    <3>3. CASE Finish(p) \/ Abort(p)
      BY <3>3, <1>6, <1>t DEF Finish, Abort, EndRun, TypeOK
    <3>. QED
      BY <1>6, <3>1, <3>2, <3>3 DEF Run
  <2>3. roles \subseteq roles'
    BY <1>6 DEF Run, ListUsers, SkipUser, VisitUser, ReadGroups, EnsureRole, FindGrant,
                SetGrant, Finish, Abort, zitadelVars
  <2>4. CASE SetGrant(p)
    BY <2>0, <2>1, <2>2, <2>3, <2>4, <1>5, <1>6, <1>t, CleanUntouched
  <2>5. CASE ~SetGrant(p)
    <3>1. UNCHANGED <<granted, grant>>
      BY <2>5, <1>6 DEF Run, ListUsers, SkipUser, VisitUser, ReadGroups, EnsureRole,
                        FindGrant, Finish, Abort, zitadelVars
    <3>. QED
      BY <2>0, <2>1, <2>2, <2>3, <3>1, <1>t, CleanUntouched
  <2>. QED
    BY <2>4, <2>5
<1>7. CASE ListUsers(q)
  <2>1. queue'[q] = listed /\ pc'[q] = "user" /\ listed' = listed
    BY <1>7, <1>t DEF ListUsers, Fault, TypeOK, entraVars
  <2>. QED
    BY <2>1 DEF CleanRun
<1>8. CASE SkipUser(q)
  <2>1. PICK u \in queue[q] : queue' = [queue EXCEPT ![q] = @ \ {u}] /\ u \notin imported
    BY <1>8 DEF SkipUser, Fault
  <2>2. UNCHANGED <<listed, member, imported, grant, pc, cur>> /\ pc[q] = "user"
    BY <1>8 DEF SkipUser, entraVars, zitadelVars
  <2>3. CleanRun(q) /\ queue'[q] = queue[q] \ {u}
    BY <1>8, <1>4, <2>1, <1>t DEF Run, TypeOK, SkipUser, Start
  <2>. QED
    BY <2>1, <2>2, <2>3 DEF CleanRun, Exact, KeysOf
<1>9. CASE VisitUser(q)
  <2>1. PICK u \in queue[q] \cap imported :
          queue' = [queue EXCEPT ![q] = @ \ {u}] /\ cur' = [cur EXCEPT ![q] = {u}]
    BY <1>9 DEF VisitUser
  <2>2. UNCHANGED <<listed, member, imported, grant>> /\ pc[q] = "user"
    BY <1>9 DEF VisitUser, entraVars, zitadelVars
  <2>3. /\ CleanRun(q) /\ cur[q] = {} /\ queue'[q] = queue[q] \ {u}
        /\ cur'[q] = {u} /\ pc'[q] = "groups"
    BY <1>9, <1>4, <2>1, <2>2, <1>t DEF Run, TypeOK, VisitUser, Start, CurInv
  <2>. QED
    BY <2>1, <2>2, <2>3 DEF CleanRun, Exact, KeysOf
<1>10. CASE ReadGroups(q)
  <2>1. PICK u \in cur[q] : groups' = [groups EXCEPT ![q] = member[u]]
    BY <1>10 DEF ReadGroups, Fault
  <2>2. /\ UNCHANGED <<listed, member, imported, grant, cur, queue>> /\ pc[q] = "groups"
        /\ roleKeys' = [roleKeys EXCEPT ![q] = {}]
    BY <1>10 DEF ReadGroups, entraVars, zitadelVars
  <2>3. /\ CleanRun(q) /\ groups'[q] = member[u] /\ roleKeys'[q] = {} /\ pc'[q] = "roles"
    BY <1>10, <1>4, <2>1, <2>2, <1>t DEF Run, TypeOK, ReadGroups, Start
  <2>4. \A v \in cur'[q] : KeysOf(v)' = roleKeys'[q] \cup {RoleKey(g) : g \in groups'[q]}
    BY <2>1, <2>2, <2>3, <1>t DEF CurInv, KeysOf
  <2>. QED
    BY <2>2, <2>3, <2>4 DEF CleanRun, Exact, KeysOf
<1>11. CASE EnsureRole(q)
  <2>1. PICK g \in groups[q] :
          /\ roles' = roles \cup {RoleKey(g)}
          /\ groups' = [groups EXCEPT ![q] = @ \ {g}]
          /\ roleKeys' = [roleKeys EXCEPT ![q] = @ \cup {RoleKey(g)}]
    BY <1>11 DEF EnsureRole, Fault
  <2>2. /\ UNCHANGED <<listed, member, imported, grant, cur, queue, pc>>
        /\ pc[q] = "roles"
    BY <1>11 DEF EnsureRole, entraVars
  <2>3. /\ CleanRun(q) /\ groups'[q] = groups[q] \ {g}
        /\ roleKeys'[q] = roleKeys[q] \cup {RoleKey(g)}
    BY <1>11, <1>4, <2>1, <2>2, <1>t DEF Run, TypeOK, EnsureRole, Start
  <2>4. roleKeys'[q] \cup {RoleKey(h) : h \in groups'[q]}
          = roleKeys[q] \cup {RoleKey(h) : h \in groups[q]}
    BY <2>1, <2>3
  <2>. QED
    BY <2>1, <2>2, <2>3, <2>4 DEF CleanRun, Exact, KeysOf
<1>12. CASE FindGrant(q)
  <2>1. PICK u \in cur[q] : found' = [found EXCEPT ![q] = u \in granted]
    BY <1>12 DEF FindGrant, Fault
  <2>2. /\ UNCHANGED <<listed, member, imported, grant, granted, roles, cur, queue,
                       groups, roleKeys>>
        /\ pc[q] = "roles" /\ groups[q] = {}
    BY <1>12 DEF FindGrant, entraVars, zitadelVars
  <2>3. CleanRun(q) /\ pc'[q] = "set"
    BY <1>12, <1>4, <2>2, <1>t DEF Run, TypeOK, FindGrant, Start
  <2>4. found'[q] = (u \in granted)
    BY <2>1, <1>t DEF TypeOK
  <2>5. \A v \in cur'[q] : /\ KeysOf(v)' = roleKeys'[q]
                           /\ found'[q] \/ v \notin granted'
    BY <2>1, <2>2, <2>3, <2>4, <1>t DEF CurInv, KeysOf, CleanRun
  <2>. QED
    BY <2>2, <2>3, <2>5 DEF CleanRun, Exact, KeysOf
<1>13. CASE SetGrant(q)
  <2>1. PICK u \in cur[q] :
          \/ grant' = [grant EXCEPT ![u] = roleKeys[q]]
          \/ ~Accepted(q, u) /\ UNCHANGED <<granted, grant>>
    BY <1>13 DEF SetGrant, Written, Fault
  <2>2. /\ UNCHANGED <<listed, member, imported, roles, queue, groups, roleKeys>>
        /\ pc[q] = "set"
    BY <1>13 DEF SetGrant, entraVars
  <2>3. CleanRun(q) /\ pc'[q] = "user"
    BY <1>13, <1>4, <2>2, <1>t DEF Run, TypeOK, SetGrant, Start
  <2>4. u \in Users /\ \A v \in cur[q] : v = u
    BY <2>1, <1>t DEF TypeOK, CurInv
  <2>5. Exact(u)'
    BY <2>1, <2>2, <2>3, <2>4, <1>t DEF CleanRun, Exact, KeysOf, Accepted, TypeOK
  <2>6. \A v \in Users : v # u => grant'[v] = grant[v]
    BY <2>1, <1>t DEF TypeOK
  <2>7. \A v \in listed' \cap imported' : v \in queue'[q] \/ Exact(v)'
    <3>. SUFFICES ASSUME NEW v \in listed \cap imported, v \notin queue[q]
                  PROVE  Exact(v)'
      BY <2>2
    <3>1. CASE v = u
      BY <3>1, <2>5
    <3>2. CASE v # u
      BY <3>2, <2>2, <2>3, <2>4, <2>6, <1>t DEF CleanRun, Exact, KeysOf, TypeOK
    <3>. QED
      BY <3>1, <3>2
  <2>. QED
    BY <2>3, <2>7 DEF CleanRun
<1>14. CASE Finish(q)
  <2>1. pc'[q] = "idle"
    BY <1>14, <1>t DEF Finish, EndRun, TypeOK
  <2>. QED
    BY <2>1 DEF CleanRun
<1>15. CASE Abort(q)
  BY <1>15 DEF Abort, Fault
<1>. QED
  BY <1>1, <1>2, <1>3, <1>6, <1>7, <1>8, <1>9, <1>10, <1>11, <1>12, <1>13, <1>14, <1>15
     DEF Next, Run

LEMMA IInvAlways == Spec => []IInv
<1>1. IInv /\ [Next]_vars => IInv'
  <2>. SUFFICES ASSUME IInv, [Next]_vars PROVE IInv'
    OBVIOUS
  <2>1. TypeOK'
    BY TypeStep DEF IInv
  <2>. QED
    BY <2>1, HeldStep, CurStep, CleanStep DEF IInv
<1>. QED
  BY <1>1, InitIInv, PTL DEF Spec

\* No grant ever holds a role of a group its user was never in.
THEOREM NoRoleNeverHeldAlways == Spec => []NoRoleNeverHeld
<1>1. IInv => NoRoleNeverHeld
  BY DEF IInv, HeldInv
<1>. QED
  BY <1>1, IInvAlways, PTL

\* An undisturbed run ends with exact grants, however many runs overlap.
THEOREM CleanRunsAreExact == Spec => ExactAfterCleanRun
<1>1. IInv /\ [Next]_vars =>
        [\A p \in Procs : (Finish(p) /\ clean) =>
            \A u \in listed \cap imported : grant[u] = KeysOf(u)]_vars
  <2>. SUFFICES ASSUME IInv, NEW p \in Procs, Finish(p), clean,
                       NEW u \in listed \cap imported
                PROVE  grant[u] = KeysOf(u)
    OBVIOUS
  <2>1. pc[p] = "user" /\ queue[p] = {}
    BY DEF Finish
  <2>2. cur[p] = {} /\ CleanRun(p)
    BY <2>1 DEF IInv, CurInv, CleanInv
  <2>. QED
    BY <2>1, <2>2 DEF CleanRun, Exact
<1>. QED
  BY <1>1, IInvAlways, PTL DEF Spec, ExactAfterCleanRun
=============================================================================
