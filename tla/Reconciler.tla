----------------------------- MODULE Reconciler -----------------------------
(***************************************************************************)
(* What the provisioner promises, without its plan, its waits and the      *)
(* services around it: a run brings resources to what one configuration    *)
(* wants, one at a time, touches nothing else, writes down what it made,   *)
(* and calls itself done only if everything is as wanted or was edited     *)
(* behind its back since it looked.                                        *)
(***************************************************************************)
CONSTANTS
    Resources,
    Configs,
    Wants                     \* the resources each configuration asks for

VARIABLES
    conf,                     \* the configuration of the run
    objects,                  \* "absent", "as code" or "edited"
    known,                    \* the resources written down as made
    outcome,                  \* "off", "running", "done" or "failed"
    dirty                     \* edited since the last look

reconcilerVars == <<conf, objects, known, outcome, dirty>>

ReconcilerInit ==
    /\ conf \in Configs
    /\ objects = [r \in Resources |-> "absent"] /\ known = {}
    /\ outcome = "off" /\ dirty = FALSE

AsWanted(r) == objects[r] = "as code" /\ r \in known

Begin ==
    /\ outcome = "off" /\ outcome' = "running"
    /\ UNCHANGED <<conf, objects, known, dirty>>

\* The run looks at what there is.
Look ==
    /\ outcome = "running" /\ dirty' = FALSE
    /\ UNCHANGED <<conf, objects, known, outcome>>

\* A resource the configuration wants, and that is not as wanted.
Amend(r) ==
    /\ outcome = "running" /\ r \in Wants[conf]
    /\ dirty \/ ~AsWanted(r)
    /\ objects' = [objects EXCEPT ![r] = "as code"]
    /\ known' = known \cup {r}
    /\ UNCHANGED <<conf, outcome, dirty>>

Succeed ==
    /\ outcome = "running" /\ outcome' = "done"
    /\ dirty \/ \A r \in Wants[conf] : AsWanted(r)
    /\ UNCHANGED <<conf, objects, known, dirty>>

\* The run fails, possibly between making an object and writing it down.
Fail ==
    /\ outcome = "running" /\ outcome' = "failed"
    /\ \/ UNCHANGED objects
       \/ \E r \in Wants[conf] : objects' = [objects EXCEPT ![r] = "as code"]
    /\ UNCHANGED <<conf, known, dirty>>

\* Only between runs is there another configuration.
Reset ==
    /\ outcome # "running" /\ outcome' = "off"
    /\ conf' \in Configs
    /\ UNCHANGED <<objects, known, dirty>>

\* An administrator edits and deletes objects, or, between runs, takes some from
\* what is written down; what there was not, there still is not.
Edit ==
    /\ dirty' = TRUE
    /\ \/ /\ objects' \in [Resources -> {"absent", "as code", "edited"}]
          /\ \A r \in Resources : objects'[r] \in {objects[r], "edited", "absent"}
          /\ \A r \in Resources : objects[r] = "absent" => objects'[r] = "absent"
          /\ UNCHANGED known
       \/ outcome # "running" /\ known' \in SUBSET known /\ UNCHANGED objects
    /\ UNCHANGED <<conf, outcome>>

ReconcilerNext ==
    \/ Begin \/ Look \/ (\E r \in Resources : Amend(r))
    \/ Succeed \/ Fail \/ Reset \/ Edit

ReconcilerSpec == ReconcilerInit /\ [][ReconcilerNext]_reconcilerVars
=============================================================================
