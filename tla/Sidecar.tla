------------------------------ MODULE Sidecar -------------------------------
(***************************************************************************)
(* The processes of the directory-sync image (main.py): the container that *)
(* schedules the jobs and the one-shot `brand`.  What the jobs do is in    *)
(* ProfileSync, GroupSync and Branding, what the scheduler does in         *)
(* Scheduler; here are their starts and ends.                              *)
(***************************************************************************)
EXTENDS Provisioner

VARIABLES spc                 \* where main() is

Containers == {"directory-sync", "zitadel-brand"}

\* Only the container waits for credentials or for its restart.
SidecarTypeOK ==
    /\ spc \in [Containers -> {"off", "wait", "clients", "work", "idle", "exited"}]
    /\ spc["zitadel-brand"] \notin {"idle", "exited"}
    /\ \A c \in Containers : spc[c] = "off" <=> svc[c] # "running"

SidecarInit == spc = [c \in Containers |-> "off"]

\* A variant of GraphConfigured that forgets the id.
GraphConfiguredBySecret(e) == e.secret

\* The client id and the secret are set (the tenant goes with them).
GraphConfigured(e) == e.id /\ e.secret

\* main: the scheduler's container idles without credentials or when disabled.
Entry(c) ==
    IF c = "directory-sync" /\ ~(env.sync /\ GraphConfigured(env)) THEN "idle" ELSE "wait"

At(c, step) == spc' = [spc EXCEPT ![c] = step]

StartSidecar(c) ==
    /\ MayStart(c)
    /\ svc' = [svc EXCEPT ![c] = "running"]
    /\ At(c, Entry(c))
    /\ UNCHANGED <<key, owner, faults, provisionerVars>>

\* wait_for_ready finds a key file and the discovery document.
Ready(c) ==
    /\ spc[c] = "wait" /\ key # "none" /\ Reachable
    /\ At(c, "clients")
    /\ UNCHANGED <<composeVars, provisionerVars>>

\* A variant of ExitWithError with one restart policy for both.
ExitAndRestart(c) == At(c, "exited") /\ UNCHANGED svc

\* The process ends with an error: the container's restart policy is
\* unless-stopped, the one-shot's is "no".
ExitWithError(c) ==
    IF c = "zitadel-brand"
    THEN At(c, "off") /\ svc' = [svc EXCEPT ![c] = "failed"]
    ELSE At(c, "exited") /\ UNCHANGED svc

\* wait_for_ready gives up: Zitadel is away, or answers too late.
WaitForReadyFails(c) ==
    /\ spc[c] = "wait"
    /\ IF Reachable THEN Fault ELSE NoFault
    /\ ExitWithError(c)
    /\ UNCHANGED <<key, owner, provisionerVars>>

\* _load_key raises if the file is no JSON yet, or lacks a field.
KeyLoads == key = "whole"

\* The clients are made.
MakeClients(c) ==
    /\ spc[c] = "clients"
    /\ IF KeyLoads THEN At(c, "work") /\ UNCHANGED svc ELSE ExitWithError(c)
    /\ UNCHANGED <<key, owner, faults, provisionerVars>>

\* brand returns; a request that raises is a Crash.
BrandEnds ==
    /\ spc["zitadel-brand"] = "work"
    /\ At("zitadel-brand", "off")
    /\ svc' = [svc EXCEPT !["zitadel-brand"] = "done"]
    /\ UNCHANGED <<key, owner, faults, provisionerVars>>

\* An exception no one handles, or a kill.
Crash(c) ==
    /\ spc[c] \in {"clients", "work", "idle"} /\ Fault
    /\ ExitWithError(c)
    /\ UNCHANGED <<key, owner, provisionerVars>>

\* The container is restarted, whatever the services it depends on do.
Restart(c) ==
    /\ spc[c] = "exited"
    /\ At(c, Entry(c))
    /\ UNCHANGED <<composeVars, provisionerVars>>

SidecarStep(c) ==
    \/ StartSidecar(c) \/ Ready(c) \/ WaitForReadyFails(c) \/ MakeClients(c)
    \/ Crash(c) \/ Restart(c) \/ (c = "zitadel-brand" /\ BrandEnds)
=============================================================================
