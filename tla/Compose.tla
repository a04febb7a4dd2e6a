------------------------------ MODULE Compose -------------------------------
(***************************************************************************)
(* The services of the compose files, what each one waits for before it    *)
(* starts, and what the volumes hold that they share.  The development     *)
(* stack brings its own proxy; the others are served by a Traefik that is  *)
(* there, and their login does not wait for the branding.  Of the images   *)
(* from elsewhere (database, Zitadel, proxy, login) only the health is     *)
(* modelled.  Provisioner and Sidecar extend this module with the two      *)
(* programs of this repository, Stack puts all of it together.             *)
(***************************************************************************)
EXTENDS Naturals

CONSTANTS
    Development,              \* docker-compose.development.yml, or another
    MaxFaults                 \* bound: failed steps, crashes and kills

ASSUME DevelopmentAssumption == Development \in BOOLEAN
ASSUME MaxFaultsAssumption == MaxFaults \in Nat

VARIABLES
    svc,                      \* state of each service's container
    key,                      \* machinekey volume: how much of the key is written
    owner,                    \* tfstate volume: whose the OpenTofu state is
    faults

composeVars == <<svc, key, owner, faults>>

OneShots == {"prepare-cert", "prepare-machinekey", "provisioner", "zitadel-brand"}
Servers == {"database-server", "zitadel", "proxy", "directory-sync", "login"}
Services == OneShots \cup Servers

ComposeTypeOK ==
    /\ svc \in [Services -> {"off", "running", "healthy", "done", "failed"}]
    /\ key \in {"none", "partial", "whole"}
    /\ owner \in {"root", "backup"}
    /\ faults \in 0..MaxFaults

ComposeInit ==
    /\ svc = [s \in Services |-> "off"]
    /\ key = "none" /\ owner = "root" /\ faults = 0

Fault == faults < MaxFaults /\ faults' = faults + 1
NoFault == UNCHANGED faults

-----------------------------------------------------------------------------
(* depends_on, with its conditions service_started, service_healthy and    *)
(* service_completed_successfully.                                         *)

Started(s) == svc[s] \in {"running", "healthy"}
Healthy(s) == svc[s] = "healthy"
Completed(s) == svc[s] = "done"

ZitadelMayStart == Healthy("database-server") /\ Completed("prepare-machinekey")

\* Every `up` walks the dependencies from their beginning, so that a container
\* which runs already counts only after what it waits for itself.
ZitadelVisited == Started("zitadel") /\ ZitadelMayStart

\* A variant of ProxyMayStart that waits for the service it routes to.
ProxyMayStartAfterLogin ==
    Completed("prepare-cert") /\ ZitadelVisited /\ Started("login")

ProxyMayStart == Completed("prepare-cert") /\ ZitadelVisited

LoginMayStart == ZitadelVisited /\ (Development => Completed("zitadel-brand"))

ProvisionerMayStart ==
    ZitadelVisited /\ (Development => ProxyMayStart /\ Healthy("proxy"))

\* A variant of SidecarMayStart that waits for the provisioner's start.
SidecarMayStartEarly == svc["provisioner"] # "off"

SidecarMayStart == Completed("provisioner")

MayStart(s) ==
    /\ svc[s] = "off"
    /\ s \in {"prepare-cert", "proxy"} => Development
    /\ s = "zitadel" => ZitadelMayStart
    /\ s = "proxy" => ProxyMayStart
    /\ s = "login" => LoginMayStart
    /\ s = "provisioner" => ProvisionerMayStart
    /\ s \in {"directory-sync", "zitadel-brand"} => SidecarMayStart

\* The discovery document is served at the public URL.
Reachable == Healthy("zitadel") /\ (Development => Healthy("proxy"))

-----------------------------------------------------------------------------

\* prepare-cert and prepare-machinekey; the latter hands the volumes to the
\* user of Zitadel and of the backup.
Prepare(s) ==
    /\ s \in {"prepare-cert", "prepare-machinekey"} /\ MayStart(s)
    /\ \/ /\ svc' = [svc EXCEPT ![s] = "done"]
          /\ owner' = IF s = "prepare-machinekey" THEN "backup" ELSE owner
          /\ NoFault
       \/ svc' = [svc EXCEPT ![s] = "failed"] /\ Fault /\ UNCHANGED owner
    /\ UNCHANGED key

\* A server's container starts.
StartServer(s) ==
    /\ s \in Servers \ {"directory-sync"} /\ MayStart(s)
    /\ svc' = [svc EXCEPT ![s] = "running"]
    /\ UNCHANGED <<key, owner, faults>>

\* Zitadel's first start writes the machine key, not in one piece.
WriteKey ==
    /\ svc["zitadel"] = "running" /\ key # "whole"
    /\ key' = IF key = "none" THEN "partial" ELSE "whole"
    /\ UNCHANGED <<svc, owner, faults>>

\* The healthcheck passes; Zitadel serves only when its setup is complete.
BecomeHealthy(s) ==
    /\ s \in {"database-server", "zitadel", "proxy"} /\ svc[s] = "running"
    /\ s = "zitadel" => key = "whole"
    /\ svc' = [svc EXCEPT ![s] = "healthy"]
    /\ UNCHANGED <<key, owner, faults>>

\* Zitadel crashes and is restarted.
CrashZitadel ==
    /\ Healthy("zitadel") /\ Fault
    /\ svc' = [svc EXCEPT !["zitadel"] = "running"]
    /\ UNCHANGED <<key, owner>>

ServiceStep(s) ==
    Prepare(s) \/ StartServer(s) \/ BecomeHealthy(s) \/ (s = "zitadel" /\ WriteKey)
=============================================================================
