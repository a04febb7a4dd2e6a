---------------------------- MODULE Provisioner -----------------------------
(***************************************************************************)
(* The provisioner (entrypoint.sh): wait for the machine key and for       *)
(* Zitadel, plan with OpenTofu, refuse a plan that destroys anything, and  *)
(* apply the saved plan; then the EXIT trap hands the state to the backup  *)
(* user, if it can.  Four resources stand for the Terraform configuration: *)
(* the organisations, the Entra IdP, the login policy that redirects to    *)
(* the IdP, and the demo.                                                  *)
(* Meanwhile administrators edit the .env file, the console and the state. *)
(***************************************************************************)
EXTENDS Compose

CONSTANTS
    Configs,                  \* .env files: which settings are there
    Autoredirect,             \* enable_workforce_autoredirect; no compose file sets it
    MaxEdits                  \* bound: administrators' edits

ASSUME ConfigsAssumption ==
    Configs \subseteq [id : BOOLEAN, secret : BOOLEAN, demo : BOOLEAN, sync : BOOLEAN]
ASSUME AutoredirectAssumption == Autoredirect \in BOOLEAN
ASSUME MaxEditsAssumption == MaxEdits \in Nat

VARIABLES
    dotenv,                   \* the .env file
    env,                      \* the environment the containers were created with
    zit,                      \* Zitadel's object for each resource
    known,                    \* resources in the OpenTofu state
    ppc,                      \* where entrypoint.sh is; its status, once it has ended
    plan,                     \* /tmp/plan.tfplan: what is left of it to apply
    edits,                    \* edits so far
    \* history
    stale,                    \* console or state were edited since the plan
    unhanded                  \* the last run was killed, or its chown failed

tofuVars == <<zit, known, ppc, plan>>
provisionerVars == <<dotenv, env, tofuVars, edits, stale, unhanded>>

Resources == {"org", "entra", "policy", "demo"}
Plans == [create : SUBSET Resources, update : SUBSET Resources, delete : SUBSET Resources]
Nothing == [create |-> {}, update |-> {}, delete |-> {}]

ProvisionerTypeOK ==
    /\ dotenv \in Configs /\ env \in Configs
    /\ zit \in [Resources -> {"absent", "as code", "edited"}]
    /\ known \in SUBSET Resources
    /\ ppc \in {"off", "key", "ready", "plan", "check", "apply", "done", "failed"}
    /\ ppc = "off" <=> svc["provisioner"] # "running"
    /\ plan \in Plans
    /\ edits \in 0..MaxEdits
    /\ stale \in BOOLEAN /\ unhanded \in BOOLEAN

ProvisionerInit ==
    /\ dotenv \in Configs /\ env = dotenv
    /\ zit = [r \in Resources |-> "absent"] /\ known = {}
    /\ ppc = "off" /\ plan = Nothing
    /\ edits = 0 /\ stale = FALSE /\ unhanded = FALSE

-----------------------------------------------------------------------------
(* The Terraform configuration.                                            *)

\* The IdP takes an id and a secret, its login policy the flag and the id.
WantsEntra(c) == c.id /\ c.secret
WantsPolicy(c) == Autoredirect /\ c.id

Desired(c) ==
    {r \in Resources : CASE r = "entra" -> WantsEntra(c)
                         [] r = "policy" -> WantsPolicy(c)
                         [] r = "demo" -> c.demo
                         [] OTHER -> TRUE}

\* The policy refers to the first of no IdPs: the plan fails.
Invalid(c) == WantsPolicy(c) /\ ~WantsEntra(c)

DependsOn(r) == ({"org"} \ {r}) \cup (IF r = "policy" THEN {"entra"} ELSE {})

Exists(r) == zit[r] # "absent"

\* tofu plan: the state is refreshed first.
Changes(c) ==
    [create |-> {r \in Desired(c) : r \notin known \/ ~Exists(r)},
     update |-> {r \in Desired(c) : r \in known /\ zit[r] = "edited"},
     delete |-> {r \in known : Exists(r) /\ r \notin Desired(c)}]

-----------------------------------------------------------------------------
(* Administrators.                                                         *)

Edit == edits < MaxEdits /\ edits' = edits + 1

\* The .env file is edited; the containers keep their environment.
EditDotenv ==
    /\ Edit
    /\ \E c \in Configs \ {dotenv} : dotenv' = c
    /\ UNCHANGED <<composeVars, env, tofuVars, stale, unhanded>>

\* The console changes or deletes an object; a policy loses the IdP that is
\* deleted.
EditConsole(r) ==
    /\ r # "org" /\ Exists(r) /\ Edit
    /\ \/ zit[r] = "as code" /\ zit' = [zit EXCEPT ![r] = "edited"]
       \/ zit' = [s \in Resources |->
                     IF s = r THEN "absent"
                     ELSE IF r \in DependsOn(s) /\ Exists(s) THEN "edited" ELSE zit[s]]
    /\ stale' = TRUE
    /\ UNCHANGED <<composeVars, dotenv, env, known, ppc, plan, unhanded>>

\* `tofu state rm`, the way to get rid of a demo that is no longer wanted.
ForgetDemo ==
    /\ ppc = "off" /\ "demo" \in known \ Desired(dotenv) /\ Edit
    /\ known' = known \ {"demo"}
    /\ stale' = TRUE
    /\ UNCHANGED <<composeVars, dotenv, env, zit, ppc, plan, unhanded>>

-----------------------------------------------------------------------------
(* One run of entrypoint.sh.                                               *)

\* The script ends with this status; its EXIT trap is still to run.
End(status) ==
    /\ ppc' = status /\ plan' = Nothing
    /\ UNCHANGED <<svc, key, owner, dotenv, env, edits, unhanded>>

GoTo(step) ==
    /\ ppc' = step
    /\ UNCHANGED <<svc, key, owner, dotenv, env, zit, known, edits, unhanded>>

StartProvisioner ==
    /\ MayStart("provisioner")
    /\ svc' = [svc EXCEPT !["provisioner"] = "running"]
    /\ ppc' = "key" /\ unhanded' = FALSE
    /\ UNCHANGED <<key, owner, faults, dotenv, env, zit, known, plan, edits, stale>>

\* A key file that is not empty will do.
KeyPresent == ppc = "key" /\ key # "none" /\ GoTo("ready") /\ UNCHANGED <<faults, plan, stale>>

\* A variant of ZitadelReady that does not ask Zitadel.
ZitadelPresumedReady ==
    ppc = "ready" /\ GoTo("plan") /\ UNCHANGED <<faults, plan, stale>>

ZitadelReady ==
    ppc = "ready" /\ Reachable /\ GoTo("plan") /\ UNCHANGED <<faults, plan, stale>>

\* ZITADEL_WAIT_TIMEOUT has passed.
WaitTimesOut ==
    /\ \/ ppc = "key" /\ key = "none"
       \/ ppc = "ready" /\ ~Reachable
    /\ End("failed") /\ UNCHANGED <<faults, zit, known, stale>>

\* A variant of MakePlan that reads the .env file instead of its environment.
MakePlanOfDotenv ==
    /\ ppc = "plan" /\ ~Invalid(dotenv) /\ Reachable
    /\ IF Changes(dotenv) = Nothing
       THEN End("done") /\ UNCHANGED <<zit, known>>
       ELSE GoTo("check") /\ plan' = Changes(dotenv)
    /\ stale' = FALSE
    /\ NoFault

\* tofu init and tofu plan; without changes the run is over.
MakePlan ==
    /\ ppc = "plan" /\ ~Invalid(env) /\ Reachable
    /\ IF Changes(env) = Nothing
       THEN End("done") /\ UNCHANGED <<zit, known>>
       ELSE GoTo("check") /\ plan' = Changes(env)
    /\ stale' = FALSE
    /\ NoFault

\* tofu init or tofu plan fails, or tofu show, which lists the plan's actions.
PlanFails ==
    /\ ppc \in {"plan", "check"}
    /\ IF ppc = "plan" /\ (Invalid(env) \/ ~Reachable) THEN NoFault ELSE Fault
    /\ End("failed") /\ UNCHANGED <<zit, known, stale>>

\* A variant of Destructive that wants every action to be a deletion.
DestructiveThroughout == plan.delete # {} /\ plan.create \cup plan.update = {}

\* A variant of Destructive that looks for updates as well.
DestructiveInPlace == plan.delete # {} \/ plan.update # {}

\* Any action of the plan contains "delete".
Destructive == plan.delete # {}

Refuse ==
    /\ ppc = "check" /\ Destructive
    /\ End("failed") /\ UNCHANGED <<faults, zit, known, stale>>

Accept ==
    /\ ppc = "check" /\ ~Destructive
    /\ GoTo("apply") /\ UNCHANGED <<faults, plan, stale>>

\* Zitadel does the change: what it refers to exists, what it updates exists,
\* and there is no second organisation or policy of that name.
Possible(r) ==
    /\ Reachable
    /\ r \in plan.create \cup plan.update => \A d \in DependsOn(r) : Exists(d)
    /\ r \in plan.create => r = "entra" \/ ~Exists(r)
    /\ r \in plan.update => Exists(r)

\* The next change of the plan, after those of the resources it depends on.
Due(r) == DependsOn(r) \cap (plan.create \cup plan.update) = {}

Applied(r) ==
    plan' = [create |-> plan.create \ {r}, update |-> plan.update \ {r},
             delete |-> plan.delete \ {r}]

\* tofu apply does one change and writes the state, as root.
ApplyChange(r) ==
    /\ ppc = "apply" /\ Possible(r) /\ Due(r)
    /\ r \in plan.create \cup plan.update \cup plan.delete
    /\ zit' = [zit EXCEPT ![r] = IF r \in plan.delete THEN "absent" ELSE "as code"]
    /\ known' = IF r \in plan.delete THEN known \ {r} ELSE known \cup {r}
    /\ Applied(r)
    /\ owner' = "root"
    /\ UNCHANGED <<svc, key, faults, dotenv, env, ppc, edits, stale, unhanded>>

\* A variant of ApplyFails that ignores the exit code of tofu apply.
ApplyFailsUnnoticed ==
    /\ ppc = "apply"
    /\ \E r \in plan.create \cup plan.update :
          IF Due(r) /\ ~Possible(r) THEN NoFault ELSE Due(r) /\ Fault
    /\ End("done") /\ UNCHANGED <<zit, known, stale>>

\* One change fails; what does not depend on it has been done before.
ApplyFails ==
    /\ ppc = "apply"
    /\ \E r \in plan.create \cup plan.update :
          IF Due(r) /\ ~Possible(r) THEN NoFault ELSE Due(r) /\ Fault
    /\ End("failed") /\ UNCHANGED <<zit, known, stale>>

ApplyEnds ==
    /\ ppc = "apply" /\ plan = Nothing
    /\ End("done") /\ UNCHANGED <<faults, zit, known, stale>>

\* A variant of Exit that hands the state over at the end of the script only.
ExitByTheEnd ==
    /\ ppc \in {"done", "failed"}
    /\ ppc' = "off" /\ svc' = [svc EXCEPT !["provisioner"] = ppc]
    /\ owner' = IF ppc = "done" THEN "backup" ELSE owner
    /\ NoFault
    /\ UNCHANGED <<key, dotenv, env, zit, known, plan, edits, stale, unhanded>>

\* The trap hands the state to the backup user; a chown that fails is only
\* warned of.  The container exits with the status of the script either way.
Exit ==
    /\ ppc \in {"done", "failed"}
    /\ ppc' = "off" /\ svc' = [svc EXCEPT !["provisioner"] = ppc]
    /\ \/ owner' = "backup" /\ NoFault /\ UNCHANGED unhanded
       \/ UNCHANGED owner /\ Fault /\ unhanded' = TRUE
    /\ UNCHANGED <<key, dotenv, env, zit, known, plan, edits, stale>>

\* The container is killed: no trap runs, and an object just created may not be
\* in the state yet.
Kill ==
    /\ ppc # "off" /\ Fault
    /\ \/ UNCHANGED zit
       \/ /\ ppc = "apply"
          /\ \E r \in plan.create :
                /\ Possible(r) /\ Due(r)
                /\ zit' = [zit EXCEPT ![r] = "as code"]
    /\ ppc' = "off" /\ plan' = Nothing
    /\ svc' = [svc EXCEPT !["provisioner"] = "failed"]
    /\ owner' = IF ppc = "apply" THEN "root" ELSE owner
    /\ unhanded' = TRUE
    /\ UNCHANGED <<key, dotenv, env, known, edits, stale>>

ProvisionerStep ==
    \/ StartProvisioner \/ KeyPresent \/ ZitadelReady \/ WaitTimesOut
    \/ MakePlan \/ PlanFails \/ Refuse \/ Accept
    \/ (\E r \in Resources : ApplyChange(r)) \/ ApplyFails \/ ApplyEnds
    \/ Exit \/ Kill
=============================================================================
