------------------------------- MODULE Stack --------------------------------
(***************************************************************************)
(* One of the stacks: `docker compose up -d`, run once more after each     *)
(* change or failure, starts the services in the order of their            *)
(* dependencies; the provisioner configures Zitadel, then the sidecars and *)
(* the login start.                                                        *)
(***************************************************************************)
EXTENDS Sidecar

vars == <<composeVars, provisionerVars, spc>>

TypeOK == ComposeTypeOK /\ ProvisionerTypeOK /\ SidecarTypeOK

Init == ComposeInit /\ ProvisionerInit /\ SidecarInit

\* The last `up` has returned: no one-shot is running, nothing else may start.
Settled ==
    /\ \A s \in OneShots : svc[s] # "running"
    /\ \A s \in Services : ~MayStart(s)

\* The .env file is read, the one-shots are run once more, and a container whose
\* environment has changed is recreated.
Up ==
    /\ Settled
    /\ env' = dotenv
    /\ svc' = [s \in Services |->
                  IF s \in OneShots \/ (s = "directory-sync" /\ env # dotenv)
                  THEN "off" ELSE svc[s]]
    /\ spc' = [spc EXCEPT !["directory-sync"] = IF env # dotenv THEN "off" ELSE @]
    /\ UNCHANGED <<key, owner, faults, dotenv, tofuVars, edits, stale, unhanded>>

Environment == EditDotenv \/ ForgetDemo \/ \E r \in Resources : EditConsole(r)

Serve(s) == ServiceStep(s) /\ UNCHANGED <<provisionerVars, spc>>
Provision == ProvisionerStep /\ UNCHANGED spc

Next ==
    \/ \E s \in Services : Serve(s)
    \/ Provision
    \/ \E c \in Containers : SidecarStep(c)
    \/ CrashZitadel /\ UNCHANGED <<provisionerVars, spc>>
    \/ Environment /\ UNCHANGED spc
    \/ Up

Spec == Init /\ [][Next]_vars

\* Every container makes progress: docker starts what may start, the images from
\* elsewhere come up, and each wait and each request of the programs has an end.
\* The operator repeats `up`.
FairSpec ==
    /\ Spec
    /\ \A s \in Services : WF_vars(Serve(s))
    /\ WF_vars(Provision)
    /\ \A c \in Containers : WF_vars(SidecarStep(c))
    /\ WF_vars(Up)

-----------------------------------------------------------------------------
(* Properties.                                                             *)

\* No step but an administrator's removes an object from Zitadel, whatever
\* happens to it between the plan and the apply.
NeverDestroys ==
    [][edits' = edits => \A r \in Resources : Exists(r) => zit'[r] # "absent"]_vars

\* The provisioner exits with 0 only if Zitadel holds what the environment asks
\* for and the state knows it, unless either was edited since the plan.
SuccessMeansConverged ==
    svc["provisioner"] = "done" /\ ~stale =>
        \A r \in Desired(env) : zit[r] = "as code" /\ r \in known

\* Once prepare-machinekey has handed the OpenTofu state to the backup, it is
\* root's only while a run applies a plan or is about to hand it back, however
\* the run ends.  It stays root's after a run that was killed or whose chown
\* failed, until `up` runs prepare-machinekey again, before the next run.
StateHandedOver ==
    owner = "root" =>
        \/ svc["prepare-machinekey"] # "done"
        \/ ppc \in {"apply", "done", "failed"}
        \/ unhanded /\ svc["provisioner"] \in {"done", "failed"}

\* Whoever authenticates with the machine key reads it in one piece, although it
\* is waited for as a file that is not empty.
KeyIsWhole ==
    /\ ppc \in {"plan", "check", "apply"} => key = "whole"
    /\ \A c \in Containers : spc[c] \in {"clients", "work"} => key = "whole"

\* The sidecars work on an instance whose organisation the provisioner has made,
\* whatever was restarted, recreated or run once more since.
WorksOnProvisioned ==
    \A c \in Containers : spc[c] \in {"wait", "clients", "work"} =>
        "org" \in known /\ Exists("org")

\* Between two runs of `up` nothing waits in a circle: unless a one-shot job has
\* failed or a server is not healthy, every service of the stack is there.
NothingWaitsInACircle ==
    (/\ Settled
     /\ \A s \in OneShots : svc[s] # "failed"
     /\ \A s \in {"database-server", "zitadel", "proxy"} : svc[s] # "running")
        => \A s \in Services : svc[s] # "off" \/ (s \in {"prepare-cert", "proxy"} /\ ~Development)

\* The provisioner reconciles: whatever is edited while it runs and wherever it
\* stops, it amends what its environment wants and nothing else, and never takes
\* a half-done apply for success.
Job == INSTANCE Reconciler WITH
           Wants <- [c \in Configs |-> Desired(c)],
           conf <- env, objects <- zit, outcome <- svc["provisioner"], dirty <- stale
ImplementsReconciler == Job!ReconcilerSpec

\* An administrator is needed: the plan is destructive, or an object of a killed
\* run is not in the state.
Stranded ==
    \/ Changes(dotenv).delete # {}
    \/ \E r \in Desired(dotenv) \ {"entra"} : Exists(r) /\ r \notin known

\* The provisioner cannot succeed: that, or the plan is invalid.
Held == Invalid(dotenv) \/ Stranded

\* Half of the Entra credentials does not stop the provisioner: "a half-config
\* would be rejected by Zitadel and abort the whole provision, so skip
\* gracefully instead".
HalfConfigIsSkipped ==
    (dotenv.id # dotenv.secret)
        ~> (Stranded \/ svc["provisioner"] = "done" \/ dotenv.id = dotenv.secret)

\* Repeated runs bring Zitadel to what the .env file asks for.
Converges ==
    []<>(Held \/ (svc["provisioner"] = "done"
                  /\ \A r \in Desired(dotenv) : zit[r] = "as code"))

\* The login is reached: nothing waits in a circle.
LoginComesUp == []<>(Held \/ svc["login"] = "running")

\* The container schedules its jobs if and only if the .env file enables them
\* and has the credentials.
SyncFollowsDotenv ==
    []<>(Held \/ (spc["directory-sync"] = "work")
                    = (dotenv.sync /\ dotenv.id /\ dotenv.secret))
=============================================================================
