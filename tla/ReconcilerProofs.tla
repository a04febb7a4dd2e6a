-------------------------- MODULE ReconcilerProofs --------------------------
(***************************************************************************)
(* The provisioner, with all that happens around it, implements the        *)
(* reconciler of module Reconciler, for any set of .env files and any      *)
(* bounds; and what its dependents may take from that.                     *)
(***************************************************************************)
EXTENDS StackProofs

(***************************************************************************)
(* The invariant the refinement needs.  What is left of a plan is wanted   *)
(* by the environment, which a run never changes, and still needs to be    *)
(* done unless somebody has edited Zitadel or the state since the plan;    *)
(* and no plan is made of an invalid configuration.                        *)
(***************************************************************************)
PlanWanted ==
    ppc \in {"check", "apply"} =>
        /\ plan.create \cup plan.update \subseteq Desired(env)
        /\ ~stale => \A r \in plan.create \cup plan.update : ~AsCode(r)
        /\ ~Invalid(env)

\* The provisioner has not succeeded with a configuration that cannot be planned.
DoneMeansValid == svc["provisioner"] = "done" => ~Invalid(env)

\* Nor has its script, whose trap is still to run.
EndMeansValid == ppc = "done" => ~Invalid(env)

WantedInv == PlanWanted /\ DoneMeansValid /\ EndMeansValid

\* A plan made now holds what the environment wants and is not as it wants it.
LEMMA ChangesWanted ==
  ASSUME TypeOK
  PROVE  /\ Changes(env).create \cup Changes(env).update \subseteq Desired(env)
         /\ \A r \in Changes(env).create \cup Changes(env).update : ~AsCode(r)
BY DEF Changes, AsCode, Exists

\* What is left of a plan loses only what has been done.
LEMMA ApplyFacts ==
  ASSUME TypeOK, PlanInv, NEW r \in Resources, ApplyChange(r)
  PROVE  /\ ppc = "apply" /\ svc["provisioner"] = "running"
         /\ r \in plan.create \cup plan.update
         /\ plan'.create = plan.create \ {r} /\ plan'.update = plan.update \ {r}
         /\ zit' = [zit EXCEPT ![r] = "as code"] /\ known' = known \cup {r}
         /\ UNCHANGED <<svc, env, ppc, stale>>
         /\ \A q \in Resources \ {r} : AsCode(q)' <=> AsCode(q)
<1>1. /\ ppc = "apply" /\ plan.delete = {} /\ r \in plan.create \cup plan.update
      /\ UNCHANGED <<svc, env, ppc, stale>>
  BY DEF ApplyChange, PlanInv
<1>2. svc["provisioner"] = "running"
  BY <1>1 DEF TypeOK, ProvisionerTypeOK
<1>3. /\ zit' = [zit EXCEPT ![r] = "as code"] /\ known' = known \cup {r}
      /\ plan'.create = plan.create \ {r} /\ plan'.update = plan.update \ {r}
  BY <1>1 DEF ApplyChange, Applied
<1>4. \A q \in Resources \ {r} : AsCode(q)' <=> AsCode(q)
  BY <1>3 DEF AsCode, TypeOK, ProvisionerTypeOK
<1> QED
  BY <1>1, <1>2, <1>3, <1>4

\* A run of the provisioner keeps its plan wanted.
LEMMA ProvisionWanted ==
  ASSUME TypeOK, PlanInv, WantedInv, ProvisionerStep
  PROVE  WantedInv'
<1> USE DEF WantedInv, PlanWanted, DoneMeansValid, EndMeansValid
<1>0. ppc = "off" <=> svc["provisioner"] # "running"
  BY DEF TypeOK, ProvisionerTypeOK
<1>1. CASE StartProvisioner
  BY <1>1, SvcStep, Names DEF StartProvisioner, States
<1>2. CASE KeyPresent \/ ZitadelReady \/ Accept
  BY <1>0, <1>2 DEF KeyPresent, ZitadelReady, Accept, GoTo, Invalid, WantsPolicy,
                    WantsEntra, Desired, AsCode
<1>3. CASE WaitTimesOut \/ PlanFails \/ Refuse \/ ApplyFails
  BY <1>0, <1>3, EndFacts DEF WaitTimesOut, PlanFails, Refuse, ApplyFails, Invalid,
                              WantsPolicy, WantsEntra
<1>4. CASE ApplyEnds
  <2>1. ~Invalid(env) /\ env' = env /\ ppc' = "done"
    BY <1>4, EndFacts DEF ApplyEnds
  <2> QED
    BY <2>1 DEF Invalid, WantsPolicy, WantsEntra
<1>5. CASE MakePlan
  <2>1. ~Invalid(env) /\ UNCHANGED <<env, zit, known>>
    BY <1>5 DEF MakePlan, End, GoTo
  <2>2. ~Invalid(env)'
    BY <2>1 DEF Invalid, WantsPolicy, WantsEntra
  <2>3. CASE Changes(env) = Nothing
    BY <1>5, <2>2, <2>3, EndFacts DEF MakePlan
  <2>4. CASE Changes(env) # Nothing
    <3>1. plan' = Changes(env) /\ ppc' = "check" /\ svc' = svc
      BY <1>5, <2>4 DEF MakePlan, GoTo
    <3>2. Desired(env)' = Desired(env) /\ \A r : AsCode(r)' <=> AsCode(r)
      BY <2>1 DEF Desired, AsCode
    <3> QED
      BY <1>0, <1>5, <2>2, <3>1, <3>2, ChangesWanted DEF MakePlan
  <2> QED
    BY <2>3, <2>4
<1>6. ASSUME NEW r \in Resources, ApplyChange(r) PROVE WantedInv'
  <2>1. plan.create \cup plan.update \subseteq Resources
    BY DEF TypeOK, ProvisionerTypeOK, Plans
  <2> QED
    BY <1>6, <2>1, ApplyFacts DEF Desired, Invalid, WantsPolicy, WantsEntra
<1>7. CASE Exit
  BY <1>7, ExitFacts DEF Invalid, WantsPolicy, WantsEntra
<1>8. CASE Kill
  BY <1>8, SvcStep, Names DEF Kill, States
<1> QED
  BY <1>1, <1>2, <1>3, <1>4, <1>5, <1>6, <1>7, <1>8 DEF ProvisionerStep

LEMMA WantedAlways == Spec => []WantedInv
<1>1. Init => WantedInv
  BY Names DEF Init, ComposeInit, ProvisionerInit, WantedInv, PlanWanted, DoneMeansValid,
                EndMeansValid
<1>2. TypeOK /\ PlanInv /\ WantedInv /\ [Next]_vars => WantedInv'
  <2> SUFFICES ASSUME TypeOK, PlanInv, WantedInv, [Next]_vars PROVE WantedInv'
    OBVIOUS
  <2>1. CASE Provision
    BY <2>1, ProvisionWanted DEF Provision
  <2>2. ASSUME UNCHANGED <<ppc, stale, env, plan, zit, known>>,
               svc'["provisioner"] = svc["provisioner"]
        PROVE  WantedInv'
    BY <2>2 DEF WantedInv, PlanWanted, DoneMeansValid, EndMeansValid, AsCode, Desired, Invalid,
                WantsPolicy, WantsEntra
  <2>3. CASE UNCHANGED provisionerVars /\ svc'["provisioner"] = svc["provisioner"]
    BY <2>2, <2>3 DEF provisionerVars, tofuVars
  <2>4. CASE CrashZitadel /\ UNCHANGED <<provisionerVars, spc>>
    BY <2>3, <2>4, CrashFrame, Names
  <2>5. CASE Environment
    <3>1. /\ UNCHANGED <<env, ppc, plan, svc>>
          /\ UNCHANGED <<stale, zit, known>> \/ stale' = TRUE
      BY <2>5, EnvironmentFrame DEF composeVars
    <3>2. CASE UNCHANGED <<stale, zit, known>>
      BY <2>2, <3>1, <3>2
    <3>3. CASE stale' = TRUE
      BY <3>1, <3>3 DEF WantedInv, PlanWanted, DoneMeansValid, EndMeansValid, Desired,
                        Invalid, WantsPolicy, WantsEntra
    <3> QED
      BY <3>1, <3>2, <3>3
  <2>6. CASE Up
    <3>1. ppc = "off" /\ ppc' = ppc
      BY <2>6, UpFrame DEF Up, tofuVars, TypeOK, ProvisionerTypeOK
    <3> QED
      BY <2>6, <3>1, UpFrame DEF WantedInv, PlanWanted, DoneMeansValid, EndMeansValid
  <2>7. CASE UNCHANGED vars
    BY <2>3, <2>7 DEF vars, composeVars
  <2> QED
    BY <2>1, <2>3, <2>4, <2>5, <2>6, <2>7, ServeFrame, SidecarFrame, Names DEF Next
<1> QED
  BY <1>1, <1>2, ConvergedAlways, TypeCorrect, PTL DEF Spec

\* With a configuration whose plan fails, such as a client id without its secret
\* and the redirect enabled, no run of the provisioner ever succeeds.
THEOREM InvalidNeverSucceeds == Spec => []DoneMeansValid
BY WantedAlways, PTL DEF WantedInv

-----------------------------------------------------------------------------
(* The refinement.                                                         *)

\* What the configuration of the run wants, as the abstract module sees it.
LEMMA WantsDesired == TypeOK => [c \in Configs |-> Desired(c)][env] = Desired(env)
BY DEF TypeOK, ProvisionerTypeOK

\* A run whose script has failed, having changed nothing more.
LEMMA FailStep ==
  ASSUME TypeOK, Exit, ppc = "failed"
  PROVE  Job!Fail
<1>1. svc["provisioner"] = "running"
  BY DEF TypeOK, ProvisionerTypeOK
<1> QED
  BY <1>1, ExitFacts DEF Job!Fail

\* A run that ends with everything as wanted, or edited since it looked.
LEMMA SucceedStep ==
  ASSUME TypeOK, PlanCovers, Exit, ppc = "done"
  PROVE  Job!Succeed
<1>1. svc["provisioner"] = "running"
  BY DEF TypeOK, ProvisionerTypeOK
<1>2. svc'["provisioner"] = "done" /\ UNCHANGED <<env, zit, known, stale>>
  BY ExitFacts
<1>3. stale \/ \A r \in Desired(env) : zit[r] = "as code" /\ r \in known
  BY DEF PlanCovers, AsCode
<1> QED
  BY <1>1, <1>2, <1>3, WantsDesired DEF Job!Succeed, Job!AsWanted

\* Every step of entrypoint.sh is a step of the reconciler, or none.
LEMMA ProvisionRefines ==
  ASSUME TypeOK, PlanInv, PlanCovers, WantedInv, ProvisionerStep
  PROVE  Job!ReconcilerNext \/ UNCHANGED Job!reconcilerVars
<1>0. /\ ppc = "off" <=> svc["provisioner"] # "running"
      /\ plan.create \cup plan.update \subseteq Resources
  BY DEF TypeOK, ProvisionerTypeOK, Plans
<1>1. CASE StartProvisioner
  <2>1. /\ svc["provisioner"] = "off" /\ svc'["provisioner"] = "running"
        /\ UNCHANGED <<env, zit, known, stale>>
    BY <1>1, SvcStep, Names DEF StartProvisioner, MayStart, States
  <2> QED
    BY <2>1 DEF Job!Begin, Job!ReconcilerNext
<1>2. CASE KeyPresent \/ ZitadelReady \/ Accept
  BY <1>2 DEF KeyPresent, ZitadelReady, Accept, GoTo, Job!reconcilerVars
<1>3. CASE WaitTimesOut \/ PlanFails \/ Refuse \/ ApplyFails \/ ApplyEnds
  <2>1. UNCHANGED <<svc, env, zit, known, stale>>
    BY <1>3, EndFacts DEF WaitTimesOut, PlanFails, Refuse, ApplyFails, ApplyEnds
  <2> QED
    BY <2>1 DEF Job!reconcilerVars
<1>4. CASE Exit
  <2>1. ppc \in {"done", "failed"}
    BY <1>4, ExitFacts
  <2> QED
    BY <1>4, <2>1, FailStep, SucceedStep DEF Job!ReconcilerNext
<1>5. CASE MakePlan
  <2>1. UNCHANGED <<svc, env, zit, known>> /\ stale' = FALSE /\ ppc = "plan"
    BY <1>5, EndFacts DEF MakePlan, GoTo
  <2> QED
    BY <1>0, <2>1 DEF Job!Look, Job!ReconcilerNext
<1>6. ASSUME NEW r \in Resources, ApplyChange(r) PROVE Job!Amend(r)
  <2>1. r \in Desired(env) /\ (stale \/ ~AsCode(r))
    BY <1>6, ApplyFacts DEF WantedInv, PlanWanted
  <2> QED
    BY <1>6, <2>1, ApplyFacts, WantsDesired DEF Job!Amend, Job!AsWanted, AsCode
<1>7. CASE Kill
  <2>1. /\ svc["provisioner"] = "running" /\ svc'["provisioner"] = "failed"
        /\ UNCHANGED <<env, known, stale>>
    BY <1>0, <1>7, SvcStep, Names DEF Kill, States
  <2>2. UNCHANGED zit \/ \E r \in Desired(env) : zit' = [zit EXCEPT ![r] = "as code"]
    BY <1>7 DEF Kill, WantedInv, PlanWanted
  <2> QED
    BY <2>1, <2>2, WantsDesired DEF Job!Fail, Job!ReconcilerNext
<1> QED
  BY <1>1, <1>2, <1>3, <1>4, <1>5, <1>6, <1>7 DEF ProvisionerStep, Job!ReconcilerNext

\* What administrators do is an edit, or nothing the reconciler sees.
LEMMA EnvironmentRefines ==
  ASSUME TypeOK, Environment
  PROVE  Job!Edit \/ UNCHANGED Job!reconcilerVars
<1>0. /\ zit \in Objects /\ known \in SUBSET Resources
      /\ ppc = "off" <=> svc["provisioner"] # "running"
  BY DEF TypeOK, ProvisionerTypeOK, Objects
<1>1. CASE EditDotenv
  BY <1>1 DEF EditDotenv, composeVars, tofuVars, Job!reconcilerVars
<1>2. CASE ForgetDemo
  BY <1>0, <1>2 DEF ForgetDemo, composeVars, Job!Edit
<1>3. ASSUME NEW r \in Resources, EditConsole(r) PROVE Job!Edit
  <2>1. UNCHANGED <<svc, env, known>> /\ stale' = TRUE /\ Exists(r)
    BY <1>3, Zenon DEF EditConsole, composeVars
  <2>2. \/ zit' = [zit EXCEPT ![r] = "edited"]
        \/ zit' = [s \in Resources |->
                     IF s = r THEN "absent"
                     ELSE IF r \in DependsOn(s) /\ Exists(s) THEN "edited" ELSE zit[s]]
    BY <1>3, Zenon DEF EditConsole
  <2>3. /\ zit' \in [Resources -> {"absent", "as code", "edited"}]
        /\ \A q \in Resources : zit'[q] \in {zit[q], "edited", "absent"}
        /\ \A q \in Resources : zit[q] = "absent" => zit'[q] = "absent"
    BY <1>0, <2>1, <2>2 DEF Exists, Objects
  <2> QED
    BY <2>1, <2>3 DEF Job!Edit
<1> QED
  BY <1>1, <1>2, <1>3 DEF Environment

\* Every step of the stack is a step of the reconciler, or none.
LEMMA StackRefines ==
  ASSUME TypeOK, PlanInv, PlanCovers, WantedInv, [Next]_vars
  PROVE  Job!ReconcilerNext \/ UNCHANGED Job!reconcilerVars
<1>1. CASE Provision
  BY <1>1, ProvisionRefines DEF Provision
<1>2. CASE UNCHANGED provisionerVars /\ svc'["provisioner"] = svc["provisioner"]
  BY <1>2 DEF provisionerVars, tofuVars, Job!reconcilerVars
<1>3. CASE CrashZitadel /\ UNCHANGED <<provisionerVars, spc>>
  BY <1>2, <1>3, CrashFrame, Names
<1>4. CASE Environment
  BY <1>4, EnvironmentRefines DEF Job!ReconcilerNext
<1>5. CASE Up
  <2>1. UNCHANGED <<zit, known, stale>> /\ env' \in Configs
    BY <1>5 DEF Up, tofuVars, TypeOK, ProvisionerTypeOK
  <2> QED
    BY <1>5, <2>1, UpFrame DEF Job!Reset, Job!ReconcilerNext
<1>6. CASE UNCHANGED vars
  BY <1>2, <1>6 DEF vars, composeVars
<1> QED
  BY <1>1, <1>2, <1>3, <1>4, <1>5, <1>6, ServeFrame, SidecarFrame, Names DEF Next

\* The provisioner implements the reconciler, through edits, failed applies and
\* kills: it amends what its environment wants and is not so, and nothing else.
THEOREM Refinement == Spec => ImplementsReconciler
<1>1. Init => Job!ReconcilerInit
  BY Names DEF Init, ComposeInit, ProvisionerInit, Job!ReconcilerInit
<1>2. TypeOK /\ PlanInv /\ PlanCovers /\ WantedInv /\ [Next]_vars
         => [Job!ReconcilerNext]_(Job!reconcilerVars)
  BY StackRefines
<1> QED
  BY <1>1, <1>2, TypeCorrect, ConvergedAlways, WantedAlways, PTL
     DEF Spec, ImplementsReconciler, Job!ReconcilerSpec

-----------------------------------------------------------------------------
(***************************************************************************)
(* Nothing waits in a circle.  The dependencies are followed from their    *)
(* roots: what waits for nothing is there, then what waits for that.       *)
(***************************************************************************)

\* A job ends, a server does not; only a server's health is asked for.
SvcInv ==
    /\ \A s \in OneShots : svc[s] # "healthy"
    /\ \A s \in Servers : svc[s] \notin {"done", "failed"}

\* A step of a program of this repository ends no server.
LEMMA ProvisionSvc ==
  ASSUME TypeOK, SvcInv, ProvisionerStep
  PROVE  SvcInv'
<1>1. \A t \in Services : t # "provisioner" => svc'[t] = svc[t]
  BY ProvisionFrame
<1>2. svc'["provisioner"] \in {"running", "done", "failed", svc["provisioner"]}
  BY SvcStep, ExitFacts, Names DEF ProvisionerStep, StartProvisioner, KeyPresent,
     ZitadelReady, WaitTimesOut, MakePlan, PlanFails, Refuse, Accept, ApplyChange,
     ApplyFails, ApplyEnds, Kill, GoTo, End, States
<1> QED
  BY <1>1, <1>2 DEF SvcInv, OneShots, Servers, Services

LEMMA SidecarSvc ==
  ASSUME TypeOK, SvcInv, NEW c \in Containers, SidecarStep(c)
  PROVE  SvcInv'
<1>1. \A t \in Services \ Containers : svc'[t] = svc[t]
  BY SidecarFrame
<1>2. \/ svc' = svc
      \/ svc' = [svc EXCEPT ![c] = "running"]
      \/ c = "zitadel-brand" /\ svc' = [svc EXCEPT ![c] = "failed"]
      \/ c = "zitadel-brand" /\ svc' = [svc EXCEPT ![c] = "done"]
  BY DEF SidecarStep, StartSidecar, Ready, WaitForReadyFails, MakeClients, Crash,
     Restart, BrandEnds, ExitWithError, composeVars
<1>3. /\ \A t \in Containers \ {c} : svc'[t] = svc[t]
      /\ svc'[c] \in {svc[c], "running"} \/ (c = "zitadel-brand" /\ svc'[c] # "healthy")
  BY <1>2, SvcStep, Names DEF States
<1> QED
  BY <1>1, <1>3 DEF SvcInv, OneShots, Servers, Services, Containers

LEMMA ServeSvc ==
  ASSUME TypeOK, SvcInv, NEW s \in Services, Serve(s)
  PROVE  SvcInv'
<1>1. \/ svc' = svc
      \/ s \in {"prepare-cert", "prepare-machinekey"} /\ svc' = [svc EXCEPT ![s] = "done"]
      \/ s \in {"prepare-cert", "prepare-machinekey"} /\ svc' = [svc EXCEPT ![s] = "failed"]
      \/ s \in Servers /\ svc' = [svc EXCEPT ![s] = "running"]
      \/ s \in {"database-server", "zitadel", "proxy"} /\ svc' = [svc EXCEPT ![s] = "healthy"]
  BY DEF Serve, ServiceStep, Prepare, StartServer, BecomeHealthy, WriteKey
<1> QED
  BY <1>1 DEF SvcInv, OneShots, Servers, Services, TypeOK, ComposeTypeOK

LEMMA SvcAlways == Spec => []SvcInv
<1>1. Init => SvcInv
  BY DEF Init, ComposeInit, SvcInv, OneShots, Servers, Services
<1>2. TypeOK /\ SvcInv /\ [Next]_vars => SvcInv'
  <2> SUFFICES ASSUME TypeOK, SvcInv, [Next]_vars PROVE SvcInv'
    OBVIOUS
  <2>1. ASSUME NEW s \in Services, Serve(s) PROVE SvcInv'
    BY <2>1, ServeSvc
  <2>2. CASE Provision
    BY <2>2, ProvisionSvc DEF Provision
  <2>3. ASSUME NEW c \in Containers, SidecarStep(c) PROVE SvcInv'
    BY <2>3, SidecarSvc
  <2>4. CASE CrashZitadel
    BY <2>4 DEF CrashZitadel, SvcInv, OneShots, Servers, Services, TypeOK, ComposeTypeOK
  <2>5. CASE Environment
    BY <2>5, EnvironmentFrame DEF composeVars, SvcInv
  <2>6. CASE Up
    BY <2>6 DEF Up, SvcInv, OneShots, Servers, Services
  <2>7. CASE UNCHANGED vars
    BY <2>7 DEF vars, composeVars, SvcInv
  <2> QED
    BY <2>1, <2>2, <2>3, <2>4, <2>5, <2>6, <2>7 DEF Next
<1> QED
  BY <1>1, <1>2, TypeCorrect, PTL DEF Spec

\* Whenever `up` has done all it can and nothing has failed, all of the stack is
\* there.
THEOREM NoCircle == Spec => []NothingWaitsInACircle
<1>1. ASSUME TypeOK, SvcInv, Settled,
             \A s \in OneShots : svc[s] # "failed",
             \A s \in {"database-server", "zitadel", "proxy"} : svc[s] # "running",
             NEW t \in Services, ~(t \in {"prepare-cert", "proxy"} /\ ~Development)
      PROVE  svc[t] # "off"
  <2>0. /\ \A s \in OneShots : svc[s] \in {"off", "done"}
        /\ \A s \in {"database-server", "zitadel", "proxy"} : svc[s] \in {"off", "healthy"}
    BY <1>1 DEF SvcInv, Settled, TypeOK, ComposeTypeOK, OneShots, Servers, Services
  <2>1. \A s \in Services : ~MayStart(s)
    BY <1>1 DEF Settled
  <2>2. svc["prepare-machinekey"] = "done" /\ svc["database-server"] = "healthy"
    BY <2>0, <2>1, Names DEF MayStart, OneShots
  <2>3. Development => svc["prepare-cert"] = "done"
    BY <2>0, <2>1, Names DEF MayStart, OneShots
  <2>4. ZitadelVisited /\ svc["zitadel"] = "healthy"
    BY <2>0, <2>1, <2>2, Names DEF MayStart, ZitadelVisited, ZitadelMayStart, Started,
       Healthy, Completed
  <2>5. Development => ProxyMayStart /\ svc["proxy"] = "healthy"
    BY <2>0, <2>1, <2>3, <2>4, Names DEF MayStart, ProxyMayStart, Completed
  <2>6. svc["provisioner"] = "done"
    BY <2>0, <2>1, <2>4, <2>5, Names DEF MayStart, ProvisionerMayStart, Healthy, OneShots
  <2>7. svc["zitadel-brand"] = "done" /\ svc["directory-sync"] # "off"
    BY <2>0, <2>1, <2>6, Names DEF MayStart, SidecarMayStart, Completed, OneShots
  <2>8. svc["login"] # "off"
    BY <2>1, <2>4, <2>7, Names DEF MayStart, LoginMayStart, Completed
  <2> QED
    BY <1>1, <2>2, <2>3, <2>4, <2>5, <2>6, <2>7, <2>8, Names
<1>2. TypeOK /\ SvcInv => NothingWaitsInACircle
  BY <1>1 DEF NothingWaitsInACircle
<1> QED
  BY <1>2, TypeCorrect, SvcAlways, PTL
=============================================================================
