---------------------------- MODULE StackProofs -----------------------------
(* Proofs about Stack, for any set of .env files and any bounds.           *)
EXTENDS Stack, TLAPS

States == {"off", "running", "healthy", "done", "failed"}
Objects == [Resources -> {"absent", "as code", "edited"}]

\* Which service is which.
LEMMA Names ==
    /\ Services = {"prepare-cert", "prepare-machinekey", "provisioner", "zitadel-brand",
                   "database-server", "zitadel", "proxy", "directory-sync", "login"}
    /\ "provisioner" \in Services /\ "zitadel" \in Services
    /\ "provisioner" \notin Containers
    /\ \A c \in Containers : c \in Services /\ c # "provisioner" /\ c # "zitadel"
BY DEF Services, Servers, OneShots, Containers

\* A step changes the state of one service.
LEMMA SvcStep ==
  ASSUME TypeOK, NEW s \in Services, NEW v \in States, svc' = [svc EXCEPT ![s] = v]
  PROVE  /\ svc' \in [Services -> States] /\ svc'[s] = v
         /\ \A t \in Services : t # s => svc'[t] = svc[t]
BY DEF TypeOK, ComposeTypeOK, States

-----------------------------------------------------------------------------
(* What the steps of each program leave alone.                             *)

\* The services from elsewhere: the two programs and their containers.
LEMMA ServeFrame ==
  ASSUME TypeOK, NEW s \in Services, Serve(s)
  PROVE  /\ UNCHANGED <<provisionerVars, spc>>
         /\ ComposeTypeOK'
         /\ \A t \in Containers \cup {"provisioner"} : svc'[t] = svc[t]
         /\ owner' = owner \/ owner' = "backup"
         /\ svc'["prepare-machinekey"] = "done" =>
                svc["prepare-machinekey"] = "done" \/ owner' = "backup"
         /\ key = "whole" => key' = "whole"
         /\ Healthy("zitadel")' => Healthy("zitadel") \/ key' = "whole"
<1> USE Names
<1>1. CASE Prepare(s)
  <2>1. PICK v \in States : svc' = [svc EXCEPT ![s] = v]
    BY <1>1 DEF Prepare, States
  <2>2. /\ owner' \in {owner, "backup"} /\ key' = key /\ faults' \in 0..MaxFaults
        /\ s \in {"prepare-cert", "prepare-machinekey"}
    BY <1>1, MaxFaultsAssumption DEF Prepare, Fault, NoFault, TypeOK, ComposeTypeOK
  <2>3. svc'["prepare-machinekey"] = "done" =>
            svc["prepare-machinekey"] = "done" \/ owner' = "backup"
    <3>1. svc'[s] = "done" => owner' = IF s = "prepare-machinekey" THEN "backup" ELSE owner
      BY <1>1, SvcStep DEF Prepare, States
    <3> QED
      BY <2>1, <3>1, SvcStep
  <2> QED
    BY <2>1, <2>2, <2>3, SvcStep
       DEF Serve, TypeOK, ComposeTypeOK, States, Containers, Healthy
<1>2. CASE StartServer(s)
  <2>1. /\ svc' = [svc EXCEPT ![s] = "running"] /\ UNCHANGED <<key, owner, faults>>
        /\ s \notin Containers \cup {"provisioner"}
    BY <1>2 DEF StartServer, Servers, MayStart, Containers, OneShots, Services
  <2> QED
    BY <2>1, SvcStep DEF Serve, TypeOK, ComposeTypeOK, States, Healthy
<1>3. CASE BecomeHealthy(s)
  <2>1. /\ svc' = [svc EXCEPT ![s] = "healthy"] /\ UNCHANGED <<key, owner, faults>>
        /\ s \in {"database-server", "zitadel", "proxy"} /\ (s = "zitadel" => key = "whole")
    BY <1>3 DEF BecomeHealthy
  <2> QED
    BY <2>1, SvcStep DEF Serve, TypeOK, ComposeTypeOK, States, Containers, Healthy
<1>4. CASE WriteKey
  BY <1>4 DEF WriteKey, Serve, TypeOK, ComposeTypeOK, Healthy
<1> QED
  BY <1>1, <1>2, <1>3, <1>4 DEF Serve, ServiceStep

\* A process of directory-sync: its container and the faults counted.
LEMMA SidecarFrame ==
  ASSUME TypeOK, NEW c \in Containers, SidecarStep(c)
  PROVE  /\ UNCHANGED <<provisionerVars, key, owner>>
         /\ ComposeTypeOK' /\ SidecarTypeOK'
         /\ \A t \in Services \ Containers : svc'[t] = svc[t]
         /\ \A d \in Containers : spc[d] = "off" /\ spc'[d] # "off" => SidecarMayStart
         /\ \A d \in Containers : spc'[d] \in {"clients", "work"} =>
                spc[d] \in {"clients", "work"} \/ Reachable
<1> USE Names DEF SidecarTypeOK, At
<1>0. /\ spc \in [Containers -> {"off", "wait", "clients", "work", "idle", "exited"}]
      /\ faults' \in 0..MaxFaults => (\A v \in States : svc' = [svc EXCEPT ![c] = v]
            /\ UNCHANGED <<key, owner>> => ComposeTypeOK')
  BY SvcStep DEF TypeOK, ComposeTypeOK, States
<1>1. CASE StartSidecar(c)
  <2>1. /\ svc' = [svc EXCEPT ![c] = "running"] /\ svc[c] = "off" /\ SidecarMayStart
        /\ UNCHANGED <<key, owner, faults, provisionerVars>>
        /\ spc' = [spc EXCEPT ![c] = Entry(c)] /\ Entry(c) \in {"idle", "wait"}
        /\ c = "zitadel-brand" => Entry(c) = "wait"
    BY <1>1 DEF StartSidecar, MayStart, Entry, Containers
  <2> QED
    BY <1>0, <2>1, SvcStep DEF TypeOK, ComposeTypeOK, States
<1>2. CASE Ready(c)
  BY <1>0, <1>2 DEF Ready, composeVars, TypeOK, ComposeTypeOK
<1>3. ASSUME ExitWithError(c), UNCHANGED <<key, owner, provisionerVars>>,
             faults' \in 0..MaxFaults, spc[c] \in {"wait", "clients", "work", "idle"}
      PROVE  /\ ComposeTypeOK' /\ SidecarTypeOK'
             /\ \A t \in Services \ Containers : svc'[t] = svc[t]
             /\ \A d \in Containers : spc'[d] \in {spc[d], "off", "exited"}
             /\ \A d \in Containers : spc[d] = "off" => spc'[d] = "off"
  <2>1. CASE c = "zitadel-brand"
    <3>1. svc' = [svc EXCEPT ![c] = "failed"] /\ spc' = [spc EXCEPT ![c] = "off"]
      BY <1>3, <2>1 DEF ExitWithError
    <3> QED
      BY <1>0, <1>3, <3>1, SvcStep DEF TypeOK, ComposeTypeOK, States
  <2>2. CASE c # "zitadel-brand"
    <3>1. svc' = svc /\ spc' = [spc EXCEPT ![c] = "exited"]
      BY <1>3, <2>2 DEF ExitWithError
    <3> QED
      BY <1>0, <1>3, <2>2, <3>1 DEF TypeOK, ComposeTypeOK
  <2> QED
    BY <2>1, <2>2
<1>4. CASE WaitForReadyFails(c)
  <2>1. faults' \in 0..MaxFaults
    BY <1>4, MaxFaultsAssumption DEF WaitForReadyFails, Fault, NoFault, TypeOK, ComposeTypeOK
  <2> QED
    BY <1>3, <1>4, <2>1 DEF WaitForReadyFails
<1>5. CASE MakeClients(c)
  <2>1. CASE KeyLoads
    <3>1. /\ svc' = svc /\ UNCHANGED <<key, owner, faults, provisionerVars>>
          /\ spc[c] = "clients" /\ spc' = [spc EXCEPT ![c] = "work"]
      BY <1>5, <2>1 DEF MakeClients
    <3>2. ComposeTypeOK' /\ SidecarTypeOK'
      BY <1>0, <3>1 DEF TypeOK, ComposeTypeOK
    <3> QED
      BY <1>0, <3>1, <3>2
  <2>2. CASE ~KeyLoads
    BY <1>3, <1>5, <2>2 DEF MakeClients, TypeOK, ComposeTypeOK
  <2> QED
    BY <2>1, <2>2
<1>6. CASE Crash(c)
  <2>1. faults' \in 0..MaxFaults
    BY <1>6, MaxFaultsAssumption DEF Crash, Fault, TypeOK, ComposeTypeOK
  <2> QED
    BY <1>3, <1>6, <2>1 DEF Crash
<1>7. CASE Restart(c)
  <2>1. /\ UNCHANGED <<composeVars, provisionerVars>> /\ spc[c] = "exited"
        /\ spc' = [spc EXCEPT ![c] = Entry(c)] /\ Entry(c) \in {"idle", "wait"}
        /\ c = "zitadel-brand" => Entry(c) = "wait"
    BY <1>7 DEF Restart, Entry, Containers
  <2> QED
    BY <1>0, <2>1 DEF composeVars, TypeOK, ComposeTypeOK
<1>8. CASE c = "zitadel-brand" /\ BrandEnds
  <2>1. /\ svc' = [svc EXCEPT ![c] = "done"] /\ spc' = [spc EXCEPT ![c] = "off"]
        /\ UNCHANGED <<key, owner, faults, provisionerVars>>
    BY <1>8 DEF BrandEnds
  <2> QED
    BY <1>0, <2>1, SvcStep DEF TypeOK, ComposeTypeOK, States
<1> QED
  BY <1>1, <1>2, <1>4, <1>5, <1>6, <1>7, <1>8 DEF SidecarStep

\* The script has ended and its trap is still to run.
LEMMA EndFacts ==
  ASSUME TypeOK, NEW status \in {"done", "failed"}, End(status)
  PROVE  /\ ppc' = status /\ plan' = Nothing /\ Nothing \in Plans
         /\ UNCHANGED <<svc, key, owner, dotenv, env, edits, unhanded>>
BY DEF End, Nothing, Plans

\* The end of a run of entrypoint.sh: its container has the script's status, and
\* the state is the backup's or the run is marked.
LEMMA ExitFacts ==
  ASSUME TypeOK, Exit
  PROVE  /\ ppc \in {"done", "failed"} /\ ppc' = "off"
         /\ svc' \in [Services -> States] /\ svc'["provisioner"] = ppc
         /\ \A t \in Services : t # "provisioner" => svc'[t] = svc[t]
         /\ (owner' = "backup" /\ unhanded' = unhanded) \/ (owner' = owner /\ unhanded' = TRUE)
         /\ faults' \in 0..MaxFaults
         /\ UNCHANGED <<key, dotenv, env, zit, known, plan, edits, stale>>
<1>1. ppc \in States /\ svc' = [svc EXCEPT !["provisioner"] = ppc]
  BY DEF Exit, States
<1>2. faults' \in 0..MaxFaults
  BY MaxFaultsAssumption DEF Exit, Fault, NoFault, TypeOK, ComposeTypeOK
<1> QED
  BY <1>1, <1>2, SvcStep, Names DEF Exit

\* The plan is one, whatever the environment and the state.
LEMMA ChangesType == ASSUME TypeOK, NEW c \in Configs PROVE Changes(c) \in Plans
BY DEF TypeOK, ProvisionerTypeOK, Changes, Desired, Plans

\* Administrators change neither a container nor a volume, nor the plan.
LEMMA EnvironmentFrame ==
  ASSUME TypeOK, Environment
  PROVE  /\ UNCHANGED <<composeVars, env, ppc, plan, unhanded>>
         /\ dotenv' \in Configs /\ edits' = edits + 1 /\ edits' \in 0..MaxEdits
         /\ zit' \in Objects /\ known' \in SUBSET Resources
         /\ (stale' = stale /\ zit' = zit /\ known' = known) \/ stale' = TRUE
         /\ "org" \in known => "org" \in known'
         /\ Exists("org") => Exists("org")'
<1>0. /\ edits \in 0..MaxEdits /\ dotenv \in Configs /\ zit \in Objects
      /\ known \in SUBSET Resources
  BY DEF TypeOK, ProvisionerTypeOK, Objects
<1>1. Edit => edits' = edits + 1 /\ edits' \in 0..MaxEdits
  BY <1>0, MaxEditsAssumption DEF Edit
<1>2. CASE EditDotenv
  BY <1>0, <1>1, <1>2 DEF EditDotenv, tofuVars, Exists
<1>3. CASE ForgetDemo
  BY <1>0, <1>1, <1>3 DEF ForgetDemo, Exists
<1>4. ASSUME NEW r \in Resources, EditConsole(r)
      PROVE  /\ zit' \in Objects
             /\ Exists("org") => Exists("org")'
  <2>1. \/ zit' = [zit EXCEPT ![r] = "edited"]
        \/ zit' = [s \in Resources |->
                     IF s = r THEN "absent"
                     ELSE IF r \in DependsOn(s) /\ Exists(s) THEN "edited" ELSE zit[s]]
    BY <1>4, Zenon DEF EditConsole
  <2>2. r # "org" /\ "org" \in Resources
    BY <1>4 DEF EditConsole, Resources
  <2> QED
    BY <1>0, <2>1, <2>2 DEF Exists, Objects
<1>5. ASSUME NEW r \in Resources, EditConsole(r)
      PROVE  /\ UNCHANGED <<composeVars, dotenv, env, known, ppc, plan, unhanded>>
             /\ Edit /\ stale' = TRUE
  BY <1>5, Zenon DEF EditConsole
<1> QED
  BY <1>0, <1>1, <1>2, <1>3, <1>4, <1>5 DEF Environment

\* A run of entrypoint.sh: its container, the state's owner, Zitadel's objects.
LEMMA ProvisionFrame ==
  ASSUME TypeOK, ProvisionerStep
  PROVE  /\ UNCHANGED <<dotenv, env, edits, key>>
         /\ ComposeTypeOK' /\ ProvisionerTypeOK'
         /\ \A t \in Services : t # "provisioner" => svc'[t] = svc[t]
<1> USE Names DEF ProvisionerTypeOK
<1>0. /\ svc \in [Services -> States] /\ key \in {"none", "partial", "whole"}
      /\ owner \in {"root", "backup"} /\ faults \in 0..MaxFaults
      /\ zit \in Objects /\ known \in SUBSET Resources /\ plan \in Plans
      /\ env \in Configs
      /\ ppc = "off" <=> svc["provisioner"] # "running"
  BY DEF TypeOK, ComposeTypeOK, Objects, States
<1>1. (Fault => faults' \in 0..MaxFaults) /\ (NoFault => faults' \in 0..MaxFaults)
  BY <1>0, MaxFaultsAssumption DEF Fault, NoFault
<1>2. CASE StartProvisioner
  <2>1. /\ svc' = [svc EXCEPT !["provisioner"] = "running"] /\ ppc' = "key" /\ unhanded' = FALSE
        /\ UNCHANGED <<key, owner, faults, dotenv, env, zit, known, plan, edits, stale>>
    BY <1>2 DEF StartProvisioner
  <2> QED
    BY <1>0, <2>1, SvcStep DEF TypeOK, ComposeTypeOK, States
<1>3. CASE KeyPresent \/ ZitadelReady \/ Accept
  BY <1>0, <1>3 DEF KeyPresent, ZitadelReady, Accept, GoTo, TypeOK, ComposeTypeOK
<1>4. ASSUME NEW status \in {"done", "failed"}, End(status), faults' \in 0..MaxFaults,
             ppc # "off", UNCHANGED <<zit, known>>, stale' \in BOOLEAN
      PROVE  /\ UNCHANGED <<dotenv, env, edits, key>>
             /\ ComposeTypeOK' /\ ProvisionerTypeOK'
             /\ \A t \in Services : t # "provisioner" => svc'[t] = svc[t]
  BY <1>0, <1>4, EndFacts DEF TypeOK, ComposeTypeOK, States
<1>5. CASE WaitTimesOut \/ PlanFails \/ Refuse \/ ApplyFails \/ ApplyEnds
  <2>1. /\ End("failed") \/ End("done")
        /\ ppc # "off"
        /\ faults' \in 0..MaxFaults /\ UNCHANGED <<zit, known>> /\ stale' = stale
    BY <1>0, <1>1, <1>5 DEF WaitTimesOut, PlanFails, Refuse, ApplyFails, ApplyEnds
  <2> QED
    BY <1>4, <2>1 DEF TypeOK
<1>6. CASE MakePlan
  <2>1. CASE Changes(env) = Nothing
    BY <1>1, <1>4, <1>6, <2>1 DEF MakePlan
  <2>2. CASE Changes(env) # Nothing
    BY <1>0, <1>1, <1>6, <2>2, ChangesType DEF MakePlan, GoTo, TypeOK, ComposeTypeOK
  <2> QED
    BY <2>1, <2>2
<1>7. ASSUME NEW r \in Resources, ApplyChange(r)
      PROVE  /\ UNCHANGED <<dotenv, env, edits, key>>
             /\ ComposeTypeOK' /\ ProvisionerTypeOK'
             /\ \A t \in Services : t # "provisioner" => svc'[t] = svc[t]
  <2>1. plan' \in Plans
    BY <1>0, <1>7 DEF ApplyChange, Applied, Plans
  <2>2. zit' \in Objects /\ known' \in SUBSET Resources
    BY <1>0, <1>7 DEF ApplyChange, Objects
  <2>3. UNCHANGED <<svc, key, faults, dotenv, env, ppc, edits, stale, unhanded>> /\ owner' = "root"
    BY <1>7 DEF ApplyChange
  <2> QED
    BY <1>0, <2>1, <2>2, <2>3 DEF TypeOK, ComposeTypeOK, Objects
<1>8. CASE Kill
  <2>1. zit' = zit \/ \E r \in Resources : zit' = [zit EXCEPT ![r] = "as code"]
    BY <1>0, <1>8 DEF Kill, Plans
  <2>2. /\ ppc' = "off" /\ plan' = Nothing /\ unhanded' = TRUE /\ faults' \in 0..MaxFaults
        /\ svc' = [svc EXCEPT !["provisioner"] = "failed"]
        /\ owner' \in {"root", owner}
        /\ UNCHANGED <<key, dotenv, env, known, edits, stale>>
    BY <1>1, <1>8 DEF Kill
  <2>3. zit' \in Objects /\ Nothing \in Plans
    BY <1>0, <2>1 DEF Objects, Nothing, Plans
  <2> QED
    BY <1>0, <2>2, <2>3, SvcStep DEF TypeOK, ComposeTypeOK, Objects, States
<1>9. CASE Exit
  BY <1>0, <1>9, ExitFacts DEF TypeOK, ComposeTypeOK, Objects, States
<1> QED
  BY <1>2, <1>3, <1>5, <1>6, <1>7, <1>8, <1>9 DEF ProvisionerStep

\* `up` takes down what it runs again; nothing of it is running any more.
LEMMA UpFrame ==
  ASSUME TypeOK, Up
  PROVE  /\ TypeOK' /\ svc["provisioner"] # "running" /\ svc'["provisioner"] = "off"
         /\ \A c \in Containers : spc'[c] \in {spc[c], "off"}
         /\ svc'["zitadel"] = svc["zitadel"]
         /\ svc'["prepare-machinekey"] = "off"
<1>1. svc["provisioner"] # "running" /\ svc["zitadel-brand"] # "running"
  BY DEF Up, Settled, OneShots
<1>2. svc' \in [Services -> States] /\ svc'["zitadel"] = svc["zitadel"]
  BY Names DEF Up, TypeOK, ComposeTypeOK, States, OneShots
<1>3. /\ svc'["provisioner"] = "off" /\ svc'["zitadel-brand"] = "off"
      /\ svc'["prepare-machinekey"] = "off"
  BY Names DEF Up, OneShots, Containers
<1>4. svc'["directory-sync"] = IF env # dotenv THEN "off" ELSE svc["directory-sync"]
  BY Names DEF Up, OneShots
<1>5. /\ spc' = [spc EXCEPT !["directory-sync"] = IF env # dotenv THEN "off" ELSE @]
      /\ UNCHANGED <<key, owner, faults, dotenv, zit, known, ppc, plan, edits, stale, unhanded>>
      /\ env' = dotenv
  BY DEF Up, tofuVars
<1>6. SidecarTypeOK' /\ \A c \in Containers : spc'[c] \in {spc[c], "off"}
  BY <1>1, <1>3, <1>4, <1>5 DEF TypeOK, SidecarTypeOK, Containers
<1> QED
  BY <1>1, <1>2, <1>3, <1>5, <1>6 DEF TypeOK, ComposeTypeOK, ProvisionerTypeOK, States

\* A crash of Zitadel changes its health only.
LEMMA CrashFrame ==
  ASSUME TypeOK, CrashZitadel
  PROVE  /\ ComposeTypeOK' /\ UNCHANGED <<key, owner>> /\ ~Healthy("zitadel")'
         /\ \A t \in Services : t # "zitadel" => svc'[t] = svc[t]
<1>1. faults' \in 0..MaxFaults
  BY MaxFaultsAssumption DEF CrashZitadel, Fault, TypeOK, ComposeTypeOK
<1> QED
  BY <1>1, SvcStep, Names DEF CrashZitadel, TypeOK, ComposeTypeOK, States, Healthy

\* What runs keeps its type while its container's state stays.
LEMMA Untouched ==
  ASSUME TypeOK, ComposeTypeOK', UNCHANGED <<provisionerVars, spc>>,
         \A t \in Containers \cup {"provisioner"} : svc'[t] = svc[t]
  PROVE  TypeOK'
BY DEF TypeOK, ProvisionerTypeOK, SidecarTypeOK, provisionerVars, tofuVars

\* Every step keeps the types, and a program runs while its container does.
LEMMA TypeStep == ASSUME TypeOK, [Next]_vars PROVE TypeOK'
<1>1. ASSUME NEW s \in Services, Serve(s) PROVE TypeOK'
  BY <1>1, ServeFrame, Untouched
<1>2. CASE Provision
  BY <1>2, ProvisionFrame, Names DEF Provision, TypeOK, SidecarTypeOK
<1>3. ASSUME NEW c \in Containers, SidecarStep(c) PROVE TypeOK'
  BY <1>3, SidecarFrame, Names DEF TypeOK, ProvisionerTypeOK, provisionerVars, tofuVars
<1>4. CASE CrashZitadel /\ UNCHANGED <<provisionerVars, spc>>
  BY <1>4, CrashFrame, Untouched, Names
<1>5. CASE Environment /\ UNCHANGED spc
  BY <1>5, EnvironmentFrame DEF TypeOK, ComposeTypeOK, ProvisionerTypeOK, SidecarTypeOK,
     composeVars, Objects
<1>6. CASE Up
  BY <1>6, UpFrame
<1>7. CASE UNCHANGED vars
  BY <1>7 DEF vars, composeVars, provisionerVars, tofuVars, TypeOK, ComposeTypeOK,
     ProvisionerTypeOK, SidecarTypeOK
<1> QED
  BY <1>1, <1>2, <1>3, <1>4, <1>5, <1>6, <1>7 DEF Next

\* Type correctness, and that a program runs exactly while its container does.
THEOREM TypeCorrect == Spec => []TypeOK
<1>1. Init => TypeOK
  <2> SUFFICES ASSUME Init PROVE TypeOK
    OBVIOUS
  <2>1. ComposeTypeOK
    BY MaxFaultsAssumption DEF Init, ComposeInit, ComposeTypeOK
  <2>0. svc["provisioner"] = "off" /\ \A c \in Containers : svc[c] = "off"
    BY Names DEF Init, ComposeInit
  <2>2. ProvisionerTypeOK
    <3>1. Nothing \in Plans
      BY DEF Nothing, Plans
    <3>2. zit \in [Resources -> {"absent", "as code", "edited"}] /\ known \in SUBSET Resources
      BY DEF Init, ProvisionerInit
    <3>3. edits \in 0..MaxEdits
      BY MaxEditsAssumption DEF Init, ProvisionerInit
    <3>5. stale \in BOOLEAN /\ unhanded \in BOOLEAN
      BY Zenon DEF Init, ProvisionerInit
    <3>4. dotenv \in Configs /\ env \in Configs /\ ppc = "off" /\ plan \in Plans
      BY <3>1 DEF Init, ProvisionerInit
    <3> QED
      BY <2>0, <3>2, <3>3, <3>4, <3>5 DEF ProvisionerTypeOK
  <2>3. SidecarTypeOK
    BY <2>0 DEF Init, SidecarInit, SidecarTypeOK, Containers
  <2> QED
    BY <2>1, <2>2, <2>3 DEF TypeOK
<1> QED
  BY <1>1, TypeStep, PTL DEF Spec

-----------------------------------------------------------------------------
(* The state, the key and the objects.                                     *)

\* Only a plan without a deletion is applied.
PlanInv == ppc = "apply" => plan.delete = {}

\* Applying a change keeps the plan free of deletions; only Accept starts it.
LEMMA PlanStep == ASSUME TypeOK, PlanInv, [Next]_vars PROVE PlanInv'
<1> USE DEF PlanInv
<1>1. CASE Provision
  <2>1. ASSUME NEW r \in Resources, ApplyChange(r) PROVE PlanInv'
    BY <2>1 DEF ApplyChange, Applied
  <2>2. CASE StartProvisioner \/ KeyPresent \/ ZitadelReady \/ MakePlan \/ Exit \/ Kill
    BY <2>2 DEF StartProvisioner, KeyPresent, ZitadelReady, MakePlan, Exit, Kill, GoTo, End
  <2>3. CASE WaitTimesOut \/ PlanFails \/ Refuse \/ ApplyFails \/ ApplyEnds
    BY <2>3 DEF WaitTimesOut, PlanFails, Refuse, ApplyFails, ApplyEnds, End
  <2>4. CASE Accept
    BY <2>4 DEF Accept, Destructive
  <2> QED
    BY <1>1, <2>1, <2>2, <2>3, <2>4 DEF Provision, ProvisionerStep
<1>2. ASSUME UNCHANGED <<ppc, plan>> PROVE PlanInv'
  BY <1>2
<1>3. CASE UNCHANGED provisionerVars
  BY <1>2, <1>3 DEF provisionerVars, tofuVars
<1>4. CASE Up
  BY <1>2, <1>4 DEF Up, tofuVars
<1>5. CASE Environment
  BY <1>2, <1>5, EnvironmentFrame
<1>6. CASE UNCHANGED vars
  BY <1>3, <1>6 DEF vars
<1> QED
  BY <1>1, <1>3, <1>4, <1>5, <1>6, ServeFrame, SidecarFrame DEF Next

\* No run of the provisioner removes an object.
LEMMA ProvisionKeeps ==
  ASSUME TypeOK, PlanInv, ProvisionerStep
  PROVE  \A r \in Resources : Exists(r) => Exists(r)'
<1> USE DEF Exists
<1>0. zit \in Objects
  BY DEF TypeOK, ProvisionerTypeOK, Objects
<1>1. ASSUME NEW r \in Resources, ApplyChange(r)
      PROVE  \A q \in Resources : Exists(q) => Exists(q)'
  BY <1>0, <1>1 DEF ApplyChange, PlanInv, Objects
<1>2. CASE Kill
  <2>1. zit' = zit \/ \E r \in plan.create : zit' = [zit EXCEPT ![r] = "as code"]
    BY <1>2, Zenon DEF Kill
  <2> QED
    BY <1>0, <2>1 DEF Objects
<1>3. CASE StartProvisioner \/ KeyPresent \/ ZitadelReady \/ MakePlan \/ Accept \/ Exit
  BY <1>3 DEF StartProvisioner, KeyPresent, ZitadelReady, MakePlan, Accept, Exit, GoTo
<1>4. CASE WaitTimesOut \/ PlanFails \/ Refuse \/ ApplyFails \/ ApplyEnds
  BY <1>4 DEF WaitTimesOut, PlanFails, Refuse, ApplyFails, ApplyEnds
<1> QED
  BY <1>1, <1>2, <1>3, <1>4 DEF ProvisionerStep

\* No step but an administrator's removes an object from Zitadel.
THEOREM NothingIsDestroyed == Spec => NeverDestroys
<1>1. Init => PlanInv
  BY DEF Init, ProvisionerInit, PlanInv
<1>2. TypeOK /\ PlanInv /\ [Next]_vars => PlanInv'
  BY PlanStep
<1>3. ASSUME TypeOK, PlanInv, [Next]_vars, edits' = edits
      PROVE  \A r \in Resources : Exists(r) => zit'[r] # "absent"
  <2>1. CASE Provision
    BY <1>3, <2>1, ProvisionKeeps DEF Provision, Exists
  <2>2. CASE UNCHANGED zit
    BY <2>2 DEF Exists
  <2>3. CASE Environment
    <3>1. edits' = edits + 1
      BY <1>3, <2>3, EnvironmentFrame
    <3>2. edits \in 0..MaxEdits
      BY <1>3 DEF TypeOK, ProvisionerTypeOK
    <3> QED
      BY <1>3, <3>1, <3>2, MaxEditsAssumption
  <2>4. CASE Up \/ UNCHANGED provisionerVars \/ UNCHANGED vars
    BY <2>2, <2>4 DEF Up, vars, provisionerVars, tofuVars
  <2> QED
    BY <1>3, <2>1, <2>3, <2>4, ServeFrame, SidecarFrame DEF Next
<1>4. TypeOK /\ PlanInv /\ [Next]_vars
         => [edits' = edits => \A r \in Resources : Exists(r) => zit'[r] # "absent"]_vars
  BY <1>3
<1> QED
  BY <1>1, <1>2, <1>4, TypeCorrect, PTL DEF Spec, NeverDestroys

\* A run starts with a state that prepare-machinekey has handed over, only its
\* apply takes it away, and its end gives it back or marks the run.
THEOREM StateIsHandedOver == Spec => []StateHandedOver
<1>1. Init => StateHandedOver
  BY Names DEF Init, ComposeInit, StateHandedOver
<1>2. TypeOK /\ StateHandedOver /\ [Next]_vars => StateHandedOver'
  <2> SUFFICES ASSUME TypeOK, StateHandedOver, [Next]_vars PROVE StateHandedOver'
    OBVIOUS
  <2> USE DEF StateHandedOver
  <2>0. ppc = "off" <=> svc["provisioner"] # "running"
    BY DEF TypeOK, ProvisionerTypeOK
  <2>1. CASE Provision
    <3>0. svc'["prepare-machinekey"] = svc["prepare-machinekey"]
      BY <2>1, ProvisionFrame, Names DEF Provision
    <3>1. CASE Exit
      BY <3>0, <3>1, ExitFacts
    <3>2. CASE StartProvisioner
      <4>1. svc["prepare-machinekey"] = "done" /\ svc["provisioner"] = "off"
        BY <3>2 DEF StartProvisioner, MayStart, ProvisionerMayStart, ZitadelVisited,
                    ZitadelMayStart, Completed
      <4>2. owner = "backup"
        BY <2>0, <4>1 DEF TypeOK, ComposeTypeOK
      <4> QED
        BY <3>2, <4>2 DEF StartProvisioner
    <3>3. CASE KeyPresent \/ ZitadelReady \/ Accept
      BY <3>3 DEF KeyPresent, ZitadelReady, Accept, GoTo
    <3>4. CASE WaitTimesOut \/ PlanFails \/ Refuse \/ ApplyFails \/ ApplyEnds
      BY <3>4, EndFacts DEF WaitTimesOut, PlanFails, Refuse, ApplyFails, ApplyEnds
    <3>5. CASE MakePlan
      BY <2>0, <3>5, EndFacts DEF MakePlan, GoTo
    <3>6. ASSUME NEW r \in Resources, ApplyChange(r) PROVE StateHandedOver'
      BY <3>6 DEF ApplyChange
    <3>7. CASE Kill
      BY <3>7, SvcStep, Names DEF Kill, States
    <3> QED
      BY <2>1, <3>1, <3>2, <3>3, <3>4, <3>5, <3>6, <3>7 DEF Provision, ProvisionerStep
  <2>2. ASSUME NEW s \in Services, Serve(s) PROVE StateHandedOver'
    BY <2>2, ServeFrame DEF provisionerVars, tofuVars
  <2>3. ASSUME NEW c \in Containers, SidecarStep(c) PROVE StateHandedOver'
    BY <2>3, SidecarFrame, Names DEF provisionerVars, tofuVars, Containers
  <2>4. CASE CrashZitadel /\ UNCHANGED <<provisionerVars, spc>>
    BY <2>4, CrashFrame, Names DEF provisionerVars, tofuVars
  <2>5. CASE Environment
    BY <2>5, EnvironmentFrame DEF composeVars
  <2>6. CASE Up
    BY <2>6, UpFrame
  <2>7. CASE UNCHANGED vars
    BY <2>7 DEF vars, composeVars, provisionerVars, tofuVars
  <2> QED
    BY <2>1, <2>2, <2>3, <2>4, <2>5, <2>6, <2>7 DEF Next
<1> QED
  BY <1>1, <1>2, TypeCorrect, PTL DEF Spec

\* Zitadel is healthy only with a whole key.
KeyInv == KeyIsWhole /\ (Healthy("zitadel") => key = "whole")

\* Whoever authenticates has waited for a Zitadel that is healthy, and by then the
\* key is whole, once and for all.
THEOREM KeyIsAlwaysWhole == Spec => []KeyIsWhole
<1>1. Init => KeyInv
  BY Names DEF Init, ComposeInit, ProvisionerInit, SidecarInit, KeyInv, KeyIsWhole, Healthy
<1>2. TypeOK /\ KeyInv /\ [Next]_vars => KeyInv'
  <2> SUFFICES ASSUME TypeOK, KeyInv, [Next]_vars PROVE KeyInv'
    OBVIOUS
  <2> USE DEF KeyInv, KeyIsWhole
  <2>1. CASE Provision
    <3>1. key' = key /\ spc' = spc /\ (Healthy("zitadel")' <=> Healthy("zitadel"))
      BY <2>1, ProvisionFrame, Names DEF Provision, Healthy
    <3>2. ppc' \in {"plan", "check", "apply"} => ppc \in {"plan", "check", "apply"} \/ Reachable
      BY <2>1 DEF Provision, ProvisionerStep, StartProvisioner, KeyPresent, ZitadelReady,
         WaitTimesOut, MakePlan, PlanFails, Refuse, Accept, ApplyChange, ApplyFails,
         ApplyEnds, Exit, Kill, GoTo, End
    <3> QED
      BY <3>1, <3>2 DEF Reachable
  <2>2. ASSUME NEW s \in Services, Serve(s) PROVE KeyInv'
    BY <2>2, ServeFrame DEF provisionerVars, tofuVars
  <2>3. ASSUME NEW c \in Containers, SidecarStep(c) PROVE KeyInv'
    <3>1. Healthy("zitadel")' <=> Healthy("zitadel")
      BY <2>3, SidecarFrame, Names DEF Healthy
    <3> QED
      BY <2>3, <3>1, SidecarFrame DEF Reachable, provisionerVars, tofuVars
  <2>4. CASE CrashZitadel /\ UNCHANGED <<provisionerVars, spc>>
    BY <2>4, CrashFrame DEF provisionerVars, tofuVars
  <2>5. CASE Environment /\ UNCHANGED spc
    BY <2>5, EnvironmentFrame DEF composeVars, Healthy
  <2>6. CASE Up
    <3>1. UNCHANGED <<key, ppc>>
      BY <2>6 DEF Up, tofuVars
    <3> QED
      BY <2>6, <3>1, UpFrame DEF Healthy
  <2>7. CASE UNCHANGED vars
    BY <2>7 DEF vars, composeVars, provisionerVars, tofuVars, Healthy
  <2> QED
    BY <2>1, <2>2, <2>3, <2>4, <2>5, <2>6, <2>7 DEF Next
<1> QED
  BY <1>1, <1>2, TypeCorrect, PTL DEF Spec, KeyInv

AsCode(r) == zit[r] = "as code" /\ r \in known

\* What the environment asks for and the plan does not hold is there already; a
\* script that has ended with success has nothing left of its plan.
PlanCovers ==
    ppc \in {"check", "apply", "done"} /\ ~stale =>
        \A r \in Desired(env) :
            (ppc # "done" /\ r \in plan.create \cup plan.update) \/ AsCode(r)

\* What a plan made now leaves out needs no change.
LEMMA ChangesCover ==
  ASSUME TypeOK, NEW r \in Desired(env)
  PROVE  r \in Changes(env).create \cup Changes(env).update \/ AsCode(r)
<1>1. r \in Resources /\ zit[r] \in {"absent", "as code", "edited"}
  BY DEF TypeOK, ProvisionerTypeOK, Desired
<1> QED
  BY <1>1 DEF Changes, AsCode, Exists

\* A run keeps the plan covering what is left to do, and succeeds when nothing is.
LEMMA ProvisionConverges ==
  ASSUME TypeOK, PlanInv, PlanCovers, SuccessMeansConverged, ProvisionerStep
  PROVE  PlanCovers' /\ SuccessMeansConverged'
<1> USE DEF PlanCovers, SuccessMeansConverged, AsCode
<1>0. /\ ppc = "off" <=> svc["provisioner"] # "running"
      /\ zit \in Objects /\ known \in SUBSET Resources
  BY DEF TypeOK, ProvisionerTypeOK, Objects
<1>1. CASE StartProvisioner
  BY <1>1, SvcStep, Names DEF StartProvisioner, States
<1>2. CASE KeyPresent \/ ZitadelReady \/ Accept
  BY <1>0, <1>2 DEF KeyPresent, ZitadelReady, Accept, GoTo
<1>3. CASE WaitTimesOut \/ PlanFails \/ Refuse \/ ApplyFails
  BY <1>0, <1>3, EndFacts DEF WaitTimesOut, PlanFails, Refuse, ApplyFails
<1>4. CASE ApplyEnds
  <2>1. /\ ppc = "apply" /\ plan = Nothing /\ UNCHANGED <<zit, known, stale>>
        /\ ppc' = "done" /\ UNCHANGED <<svc, env>>
    BY <1>4, EndFacts DEF ApplyEnds
  <2>2. plan.create \cup plan.update = {} /\ Desired(env)' = Desired(env)
    BY <2>1 DEF Nothing, Desired
  <2> QED
    BY <1>0, <2>1, <2>2
<1>5. CASE MakePlan
  <2>1. CASE Changes(env) = Nothing
    <3>1. End("done") /\ UNCHANGED <<zit, known>> /\ ppc = "plan"
      BY <1>5, <2>1 DEF MakePlan
    <3>2. \A r \in Desired(env) : AsCode(r)
      <4>1. Changes(env).create = {} /\ Changes(env).update = {}
        BY <2>1 DEF Nothing, Changes
      <4>2. ASSUME NEW r \in Desired(env)
            PROVE  r \in Changes(env).create \cup Changes(env).update \/ AsCode(r)
        BY ChangesCover
      <4> QED
        BY <4>1, <4>2
    <3>3. ppc' = "done" /\ UNCHANGED <<svc, env>>
      BY <3>1, EndFacts
    <3> QED
      BY <1>0, <3>1, <3>2, <3>3 DEF Desired
  <2>2. CASE Changes(env) # Nothing
    BY <1>0, <1>5, <2>2, ChangesCover DEF MakePlan, GoTo
  <2> QED
    BY <2>1, <2>2
<1>6. ASSUME NEW r \in Resources, ApplyChange(r)
      PROVE  PlanCovers' /\ SuccessMeansConverged'
  <2>1. plan.delete = {} /\ UNCHANGED <<svc, env, ppc, stale>> /\ ppc = "apply"
    BY <1>6 DEF ApplyChange, PlanInv
  <2>2. /\ zit' = [zit EXCEPT ![r] = "as code"] /\ known' = known \cup {r}
        /\ plan'.create = plan.create \ {r} /\ plan'.update = plan.update \ {r}
    BY <1>6, <2>1 DEF ApplyChange, Applied
  <2>3. \A q \in Resources : AsCode(q) => AsCode(q)'
    BY <1>0, <2>2 DEF Objects
  <2>4. AsCode(r)' /\ Desired(env)' = Desired(env) /\ Desired(env) \subseteq Resources
    BY <1>0, <2>1, <2>2 DEF Objects, Desired
  <2>5. svc["provisioner"] = "running"
    BY <1>0, <2>1
  <2>6. \A q \in Desired(env) : q = r \/ AsCode(q)' \/ q \in plan.create \cup plan.update
            \/ stale
    BY <2>1, <2>3, <2>4
  <2> QED
    BY <2>1, <2>2, <2>4, <2>5, <2>6
<1>7. CASE Exit
  BY <1>7, ExitFacts DEF Desired
<1>8. CASE Kill
  BY <1>8, SvcStep, Names DEF Kill, States
<1> QED
  BY <1>1, <1>2, <1>3, <1>4, <1>5, <1>6, <1>7, <1>8 DEF ProvisionerStep

LEMMA ConvergedAlways == Spec => [](PlanInv /\ PlanCovers /\ SuccessMeansConverged)
<1> DEFINE Inv == PlanInv /\ PlanCovers /\ SuccessMeansConverged
<1>1. Init => Inv
  BY Names DEF Init, ComposeInit, ProvisionerInit, PlanInv, PlanCovers, SuccessMeansConverged
<1>2. TypeOK /\ Inv /\ [Next]_vars => Inv'
  <2> SUFFICES ASSUME TypeOK, Inv, [Next]_vars PROVE PlanCovers' /\ SuccessMeansConverged'
    BY PlanStep
  <2>1. CASE Provision
    BY <2>1, ProvisionConverges DEF Provision
  <2>2. ASSUME UNCHANGED <<ppc, stale, env, plan, zit, known>>,
               svc'["provisioner"] = svc["provisioner"]
        PROVE  PlanCovers' /\ SuccessMeansConverged'
    BY <2>2 DEF PlanCovers, SuccessMeansConverged, AsCode, Desired
  <2>3. CASE UNCHANGED provisionerVars /\ svc'["provisioner"] = svc["provisioner"]
    BY <2>2, <2>3 DEF provisionerVars, tofuVars
  <2>4. CASE CrashZitadel /\ UNCHANGED <<provisionerVars, spc>>
    BY <2>3, <2>4, CrashFrame, Names
  <2>5. CASE Environment
    BY <2>2, <2>5, EnvironmentFrame DEF composeVars, PlanCovers, SuccessMeansConverged
  <2>6. CASE Up
    <3>1. ppc = "off" /\ ppc' = ppc
      BY <2>6, UpFrame DEF Up, tofuVars, TypeOK, ProvisionerTypeOK
    <3> QED
      BY <2>6, <3>1, UpFrame DEF PlanCovers, SuccessMeansConverged
  <2>7. CASE UNCHANGED vars
    BY <2>3, <2>7 DEF vars, composeVars
  <2> QED
    BY <2>1, <2>3, <2>4, <2>5, <2>6, <2>7, ServeFrame, SidecarFrame, Names DEF Next
<1> QED
  BY <1>1, <1>2, TypeCorrect, PTL DEF Spec

\* The provisioner exits with 0 only if Zitadel and the state hold what the
\* environment asks for, unless they were edited since the plan.
THEOREM SuccessIsConvergence == Spec => []SuccessMeansConverged
BY ConvergedAlways, PTL

\* The organisation exists, and OpenTofu knows it.
OrgMade == "org" \in known /\ Exists("org")

\* It does once the provisioner has succeeded, or a container waited for that, or
\* nothing of a plan is left to do.
OrgInv ==
    /\ svc["provisioner"] = "done" \/ ppc = "done" => OrgMade
    /\ \A c \in Containers : spc[c] # "off" => OrgMade
    /\ ppc \in {"check", "apply"} => "org" \in plan.create \cup plan.update \/ OrgMade

\* A run of the provisioner never unmakes the organisation, and ends with it made
\* if it succeeds.
LEMMA ProvisionMakesOrg ==
  ASSUME TypeOK, PlanInv, OrgInv, Provision
  PROVE  OrgInv'
<1> USE DEF OrgInv
<1>0. /\ ppc = "off" <=> svc["provisioner"] # "running"
      /\ "org" \in Resources /\ zit \in Objects /\ known \in SUBSET Resources
  BY DEF TypeOK, ProvisionerTypeOK, Objects, Resources
<1>1. spc' = spc
  BY DEF Provision
<1>2. OrgMade => OrgMade'
  <2>1. Exists("org") => Exists("org")'
    BY <1>0, ProvisionKeeps DEF Provision
  <2>2. "org" \in known => "org" \in known'
    <3>1. ASSUME NEW r \in Resources, ApplyChange(r)
          PROVE  "org" \in known => "org" \in known'
      BY <3>1 DEF ApplyChange, PlanInv
    <3> QED
      BY <3>1 DEF Provision, ProvisionerStep, StartProvisioner, KeyPresent, ZitadelReady,
         WaitTimesOut, MakePlan, PlanFails, Refuse, Accept, ApplyFails, ApplyEnds, Exit,
         Kill, GoTo
  <2> QED
    BY <2>1, <2>2 DEF OrgMade
<1>3. CASE StartProvisioner
  BY <1>1, <1>2, <1>3, SvcStep, Names DEF StartProvisioner, States
<1>4. CASE KeyPresent \/ ZitadelReady \/ Accept
  BY <1>0, <1>1, <1>2, <1>4 DEF KeyPresent, ZitadelReady, Accept, GoTo
<1>5. CASE WaitTimesOut \/ PlanFails \/ Refuse \/ ApplyFails
  BY <1>0, <1>1, <1>2, <1>5, EndFacts DEF WaitTimesOut, PlanFails, Refuse, ApplyFails
<1>6. CASE ApplyEnds
  BY <1>0, <1>1, <1>2, <1>6, EndFacts DEF ApplyEnds, Nothing
<1>7. CASE MakePlan
  <2>1. "org" \in Desired(env)
    BY <1>0 DEF Desired
  <2>2. "org" \in Changes(env).create \cup Changes(env).update \/ OrgMade
    BY <2>1, ChangesCover DEF AsCode, OrgMade, Exists
  <2>3. CASE Changes(env) = Nothing
    <3>1. Changes(env).create = {} /\ Changes(env).update = {}
      BY <2>3 DEF Nothing, Changes
    <3> QED
      BY <1>0, <1>1, <1>2, <1>7, <2>2, <2>3, <3>1, EndFacts DEF MakePlan
  <2>4. CASE Changes(env) # Nothing
    BY <1>0, <1>1, <1>2, <1>7, <2>2, <2>4 DEF MakePlan, GoTo
  <2> QED
    BY <2>3, <2>4
<1>8. ASSUME NEW r \in Resources, ApplyChange(r) PROVE OrgInv'
  <2>1. plan.delete = {} /\ UNCHANGED <<svc, ppc>> /\ ppc = "apply"
    BY <1>8 DEF ApplyChange, PlanInv
  <2>2. /\ zit' = [zit EXCEPT ![r] = "as code"] /\ known' = known \cup {r}
        /\ plan'.create = plan.create \ {r} /\ plan'.update = plan.update \ {r}
    BY <1>8, <2>1 DEF ApplyChange, Applied
  <2>3. r = "org" => OrgMade'
    BY <1>0, <2>2 DEF OrgMade, Exists, Objects
  <2> QED
    BY <1>0, <1>1, <1>2, <2>1, <2>2, <2>3
<1>9. CASE Exit
  BY <1>1, <1>2, <1>9, ExitFacts
<1>10. CASE Kill
  BY <1>1, <1>2, <1>10, SvcStep, Names DEF Kill, States
<1> QED
  BY <1>3, <1>4, <1>5, <1>6, <1>7, <1>8, <1>9, <1>10 DEF Provision, ProvisionerStep

\* The sidecars only ever work on an instance whose organisation is made.
THEOREM SidecarsWorkOnProvisioned == Spec => []WorksOnProvisioned
<1> DEFINE Inv == PlanInv /\ OrgInv
<1>1. Init => Inv
  BY Names DEF Init, ComposeInit, ProvisionerInit, SidecarInit, PlanInv, OrgInv
<1>2. TypeOK /\ Inv /\ [Next]_vars => Inv'
  <2> SUFFICES ASSUME TypeOK, Inv, [Next]_vars PROVE OrgInv'
    BY PlanStep
  <2>0. ASSUME UNCHANGED <<zit, known>> PROVE OrgMade' <=> OrgMade
    BY <2>0 DEF OrgMade, Exists
  <2>1. CASE Provision
    BY <2>1, ProvisionMakesOrg
  <2>2. CASE UNCHANGED <<provisionerVars, spc>> /\ svc'["provisioner"] = svc["provisioner"]
    BY <2>0, <2>2 DEF provisionerVars, tofuVars, OrgInv
  <2>3. ASSUME NEW c \in Containers, SidecarStep(c) PROVE OrgInv'
    <3>1. UNCHANGED <<zit, known, ppc, plan>> /\ svc'["provisioner"] = svc["provisioner"]
      BY <2>3, SidecarFrame, Names DEF provisionerVars, tofuVars
    <3> QED
      BY <2>0, <2>3, <3>1, SidecarFrame DEF OrgInv, SidecarMayStart, Completed
  <2>4. CASE CrashZitadel /\ UNCHANGED <<provisionerVars, spc>>
    BY <2>2, <2>4, CrashFrame, Names
  <2>5. CASE Environment /\ UNCHANGED spc
    <3>1. OrgMade => OrgMade'
      BY <2>5, EnvironmentFrame DEF OrgMade
    <3> QED
      BY <2>5, <3>1, EnvironmentFrame DEF composeVars, OrgInv
  <2>6. CASE Up
    <3>1. UNCHANGED <<zit, known, ppc, plan>>
      BY <2>6 DEF Up, tofuVars
    <3> QED
      BY <2>0, <2>6, <3>1, UpFrame DEF OrgInv
  <2>7. CASE UNCHANGED vars
    BY <2>2, <2>7 DEF vars, composeVars
  <2> QED
    BY <2>1, <2>2, <2>3, <2>4, <2>5, <2>6, <2>7, ServeFrame DEF Next
<1>3. Inv => WorksOnProvisioned
  BY DEF OrgInv, OrgMade, WorksOnProvisioned
<1> QED
  BY <1>1, <1>2, <1>3, TypeCorrect, PTL DEF Spec
=============================================================================
