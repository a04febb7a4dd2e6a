------------------------------ MODULE Branding ------------------------------
(***************************************************************************)
(* The brand job of directory-sync (jobs.py): upload the login assets that *)
(* are present to the preview of Zitadel's LabelPolicy, in a fixed order,  *)
(* then activate the preview and read the active policy until it names     *)
(* every uploaded asset, at most Attempts times.                           *)
(*                                                                         *)
(* Zitadel takes an upload at once but projects it later: an activation    *)
(* copies the preview as projected so far.  The uploads are a log, of      *)
(* which a prefix is projected; an asset's version is the position of its  *)
(* upload in the log, 0 meaning that the asset is unset.                   *)
(***************************************************************************)
EXTENDS Naturals, Sequences, FiniteSets

CONSTANTS
    NAssets,                  \* length of _BRAND_ASSETS
    Procs,                    \* the one-shot service and an operator's run
    MaxRuns,                  \* bound: runs of the job
    MaxFaults                 \* bound: failed requests and killed runs

ASSUME NAssetsAssumption == NAssets \in Nat \ {0}
ASSUME BoundsAssumption == MaxRuns \in Nat /\ MaxFaults \in Nat

VARIABLES
    \* Zitadel
    log,                      \* the assets uploaded, in order
    projected,                \* length of the projected prefix of the log
    preview,                  \* version of each asset on the projected preview
    active,                   \* version of each asset on the active policy
    \* one run of the job per process
    pc,
    present,                  \* assets with a file in the branding directory
    next,                     \* position of the loop over _BRAND_ASSETS
    mine,                     \* version of each asset this run uploaded
    attempt,
    unread,                   \* fields of `expected` this attempt has to read
    missing,
    result,                   \* how the process's newest run ended
    \* history
    snap,                     \* projected at the run's newest activation
    runs, faults

zitadelVars == <<log, projected, preview, active>>
runVars == <<pc, present, next, mine, attempt, unread, missing, result, snap>>
vars == <<zitadelVars, runVars, runs, faults>>

Assets == 1..NAssets

\* The bound of `for attempt in range(1, 6)`.
Attempts == 5

Uploaded(p) == {a \in Assets : mine[p][a] # 0}

TypeOK ==
    /\ log \in Seq(Assets)
    /\ projected \in 0..Len(log)
    /\ preview \in [Assets -> 0..Len(log)]
    /\ active \in [Assets -> 0..Len(log)]
    /\ pc \in [Procs -> {"idle", "upload", "activate", "read"}]
    /\ present \in [Procs -> SUBSET Assets]
    /\ next \in [Procs -> 1..NAssets + 1]
    /\ mine \in [Procs -> [Assets -> 0..Len(log)]]
    /\ attempt \in [Procs -> 1..Attempts]
    /\ unread \in [Procs -> SUBSET Assets]
    /\ missing \in [Procs -> SUBSET Assets]
    /\ result \in [Procs -> {"none", "skipped", "complete", "partial", "raised"}]
    /\ snap \in [Procs -> 0..Len(log)]
    /\ runs \in Nat /\ faults \in Nat

Unset == [a \in Assets |-> 0]

Init ==
    /\ log = <<>> /\ projected = 0 /\ preview = Unset /\ active = Unset
    /\ pc = [p \in Procs |-> "idle"]
    /\ present = [p \in Procs |-> {}] /\ next = [p \in Procs |-> 1]
    /\ mine = [p \in Procs |-> Unset] /\ attempt = [p \in Procs |-> 1]
    /\ unread = [p \in Procs |-> {}] /\ missing = [p \in Procs |-> {}]
    /\ result = [p \in Procs |-> "none"] /\ snap = [p \in Procs |-> 0]
    /\ runs = 0 /\ faults = 0

-----------------------------------------------------------------------------
(* Zitadel.                                                                *)

\* One more upload becomes visible in the preview.
Project ==
    /\ projected < Len(log)
    /\ projected' = projected + 1
    /\ preview' = [preview EXCEPT ![log[projected + 1]] = projected + 1]
    /\ UNCHANGED <<log, active, runVars, runs, faults>>

-----------------------------------------------------------------------------
(* One run of brand.                                                       *)

Fault == faults < MaxFaults /\ faults' = faults + 1
NoFault == UNCHANGED faults

\* The run is over and its locals are gone.
EndRun(p, r) ==
    /\ pc' = [pc EXCEPT ![p] = "idle"]
    /\ present' = [present EXCEPT ![p] = {}] /\ next' = [next EXCEPT ![p] = 1]
    /\ mine' = [mine EXCEPT ![p] = Unset] /\ attempt' = [attempt EXCEPT ![p] = 1]
    /\ unread' = [unread EXCEPT ![p] = {}] /\ missing' = [missing EXCEPT ![p] = {}]
    /\ result' = [result EXCEPT ![p] = r] /\ snap' = [snap EXCEPT ![p] = 0]

\* BRANDING_ENABLED=false ends the run before it does anything.
StartDisabled(p) ==
    /\ pc[p] = "idle" /\ runs < MaxRuns
    /\ runs' = runs + 1
    /\ EndRun(p, "skipped")
    /\ UNCHANGED <<zitadelVars, faults>>

\* The run finds the files of some assets.
Start(p) ==
    /\ pc[p] = "idle" /\ runs < MaxRuns
    /\ runs' = runs + 1
    /\ \E S \in SUBSET Assets : present' = [present EXCEPT ![p] = S]
    /\ pc' = [pc EXCEPT ![p] = "upload"]
    /\ UNCHANGED <<zitadelVars, next, mine, attempt, unread, missing, result,
                   snap, faults>>

\* A variant that takes the assets from the last to the first.
UploadFromTheEnd(p) ==
    /\ pc[p] = "upload" /\ next[p] <= NAssets
    /\ next' = [next EXCEPT ![p] = @ + 1]
    /\ LET a == NAssets + 1 - next[p] IN
       IF a \in present[p]
       THEN /\ log' = Append(log, a)
            /\ mine' = [mine EXCEPT ![p][a] = Len(log) + 1]
       ELSE UNCHANGED <<log, mine>>
    /\ UNCHANGED <<projected, preview, active, pc, present, attempt, unread,
                   missing, result, snap, runs, faults>>

\* upload_label_asset for the next asset, if its file is present.
Upload(p) ==
    /\ pc[p] = "upload" /\ next[p] <= NAssets
    /\ next' = [next EXCEPT ![p] = @ + 1]
    /\ IF next[p] \in present[p]
       THEN /\ log' = Append(log, next[p])
            /\ mine' = [mine EXCEPT ![p][next[p]] = Len(log) + 1]
       ELSE UNCHANGED <<log, mine>>
    /\ UNCHANGED <<projected, preview, active, pc, present, attempt, unread,
                   missing, result, snap, runs, faults>>

\* The loop over the assets is done; without an upload there is nothing to do.
Uploads(p) ==
    /\ pc[p] = "upload" /\ next[p] = NAssets + 1
    /\ IF Uploaded(p) = {}
       THEN EndRun(p, "skipped")
       ELSE /\ pc' = [pc EXCEPT ![p] = "activate"]
            /\ UNCHANGED <<present, next, mine, attempt, unread, missing,
                           result, snap>>
    /\ UNCHANGED <<zitadelVars, runs, faults>>

\* A variant that keeps what an earlier attempt found missing.
ActivateKeepingMissing(p) ==
    /\ pc[p] = "activate"
    /\ active' = preview
    /\ snap' = [snap EXCEPT ![p] = projected]
    /\ unread' = [unread EXCEPT ![p] = Uploaded(p)]
    /\ UNCHANGED missing
    /\ pc' = [pc EXCEPT ![p] = "read"]
    /\ UNCHANGED <<log, projected, preview, present, next, mine, attempt, result,
                   runs, faults>>

\* activate_label_policy: the preview, as projected, becomes active.
Activate(p) ==
    /\ pc[p] = "activate"
    /\ active' = preview
    /\ snap' = [snap EXCEPT ![p] = projected]
    /\ unread' = [unread EXCEPT ![p] = Uploaded(p)]
    /\ missing' = [missing EXCEPT ![p] = {}]
    /\ pc' = [pc EXCEPT ![p] = "read"]
    /\ UNCHANGED <<log, projected, preview, present, next, mine, attempt, result,
                   runs, faults>>

\* A variant that looks at the preview instead of the active policy.
ReadFieldOfPreview(p) ==
    /\ pc[p] = "read"
    /\ \E a \in unread[p] :
          /\ unread' = [unread EXCEPT ![p] = @ \ {a}]
          /\ missing' = [missing EXCEPT ![p] =
                            IF preview[a] = 0 THEN @ \cup {a} ELSE @]
    /\ UNCHANGED <<zitadelVars, pc, present, next, mine, attempt, result, snap,
                   runs, faults>>

\* One get_label_policy per expected field: is the field set?
ReadField(p) ==
    /\ pc[p] = "read"
    /\ \E a \in unread[p] :
          /\ unread' = [unread EXCEPT ![p] = @ \ {a}]
          /\ missing' = [missing EXCEPT ![p] =
                            IF active[a] = 0 THEN @ \cup {a} ELSE @]
    /\ UNCHANGED <<zitadelVars, pc, present, next, mine, attempt, result, snap,
                   runs, faults>>

AllRead(p) == pc[p] = "read" /\ unread[p] = {}

\* Every expected field is set.
Complete(p) ==
    /\ AllRead(p) /\ missing[p] = {}
    /\ EndRun(p, "complete")
    /\ UNCHANGED <<zitadelVars, runs, faults>>

\* A variant that does not count the attempts.
RetryForever(p) ==
    /\ AllRead(p) /\ missing[p] # {}
    /\ pc' = [pc EXCEPT ![p] = "activate"]
    /\ UNCHANGED <<zitadelVars, present, next, mine, attempt, unread, missing,
                   result, snap, runs, faults>>

\* A variant that counts one attempt too many.
RetryOnceMore(p) ==
    /\ AllRead(p) /\ missing[p] # {} /\ attempt[p] <= Attempts
    /\ attempt' = [attempt EXCEPT ![p] = @ + 1]
    /\ pc' = [pc EXCEPT ![p] = "activate"]
    /\ UNCHANGED <<zitadelVars, present, next, mine, unread, missing, result,
                   snap, runs, faults>>

\* Some field is unset and an attempt is left (the pause of 1.5 s between the
\* attempts is the time Zitadel has to project).
Retry(p) ==
    /\ AllRead(p) /\ missing[p] # {} /\ attempt[p] < Attempts
    /\ attempt' = [attempt EXCEPT ![p] = @ + 1]
    /\ pc' = [pc EXCEPT ![p] = "activate"]
    /\ UNCHANGED <<zitadelVars, present, next, mine, unread, missing, result,
                   snap, runs, faults>>

\* The attempts are used up: the run logs what is missing and returns.
GiveUp(p) ==
    /\ AllRead(p) /\ missing[p] # {} /\ attempt[p] = Attempts
    /\ EndRun(p, "partial")
    /\ UNCHANGED <<zitadelVars, runs, faults>>

\* A request to Zitadel fails (upload, activation or read, or the token they
\* carry): the ZitadelError is not caught and the process exits with status 1.
\* A killed run leaves the same behind.
Raise(p) ==
    /\ pc[p] # "idle" /\ Fault
    /\ EndRun(p, "raised")
    /\ UNCHANGED <<zitadelVars, runs>>

Run(p) ==
    \/ StartDisabled(p) \/ Start(p) \/ Upload(p) \/ Uploads(p) \/ Activate(p)
    \/ ReadField(p) \/ Complete(p) \/ Retry(p) \/ GiveUp(p) \/ Raise(p)

Next == Project \/ \E p \in Procs : Run(p)

Spec == Init /\ [][Next]_vars

\* A started run keeps going.  Nothing is assumed of Zitadel's projection.
FairSpec == Spec /\ \A p \in Procs : WF_vars(Run(p))

-----------------------------------------------------------------------------
(* Properties.                                                             *)

\* The logo goes first: whenever an asset of a run is active, every asset the
\* run uploaded before it is active too, in this version or a newer one, however
\* slowly Zitadel projects and whatever another run uploads and activates.
EarlierAssetsActive ==
    \A p \in Procs : \A a, b \in Uploaded(p) :
        (a < b /\ active[b] >= mine[p][b]) => active[a] >= mine[p][a]

\* A run that reports success leaves every asset it uploaded set on the active
\* policy, although each field was read at a moment of its own.
CompleteMeansPresent ==
    [][\A p \in Procs : Complete(p) => \A a \in Uploaded(p) : active[a] # 0]_vars

\* A run gives up only if its last activation came before Zitadel had
\* projected one of its uploads.
GivesUpOnlyOnLag ==
    [][\A p \in Procs : GiveUp(p) =>
          \E a \in Uploaded(p) : mine[p][a] > snap[p]]_vars

\* The steps of its own that a run still takes at most: the rest of the loop over
\* the assets, and for each attempt left an activation, the reads and a verdict.
PerAttempt == NAssets + 2
LaterAttempts(p) == (Attempts - attempt[p]) * PerAttempt
StepsLeft(p) ==
    CASE pc[p] = "idle"     -> 0
      [] pc[p] = "upload"   -> (NAssets + 2 - next[p]) + Attempts * PerAttempt
      [] pc[p] = "activate" -> LaterAttempts(p) + PerAttempt
      [] pc[p] = "read"     -> LaterAttempts(p) + Cardinality(unread[p]) + 1

\* The waiting is bounded, whatever Zitadel answers: each step of a run brings
\* its end nearer, and nothing else that happens puts it off.
EachStepNearsTheEnd ==
    [][\A p \in Procs : pc[p] # "idle" =>
          IF Run(p) THEN StepsLeft(p)' < StepsLeft(p)
                    ELSE StepsLeft(p)' = StepsLeft(p)]_vars

\* Every run ends, even if Zitadel never projects anything.
RunsEnd == \A p \in Procs : (pc[p] # "idle") ~> (pc[p] = "idle")

\* A run that reports success has its own uploads on the active policy.
VerifiedMeansLanded ==
    [][\A p \in Procs : Complete(p) =>
          \A a \in Uploaded(p) : active[a] >= mine[p][a]]_vars
=============================================================================
