# CS-IAM: specifications, model checking and proofs

CS-IAM is an identity stack built around Zitadel: the OIDC core and its login UI,
an OpenTofu provisioner that configures it, a Python sidecar (`directory-sync`)
that keeps profiles, photos, groups and the login branding up to date from
Microsoft Entra ID, and compose files that start all of it in order. This
directory holds TLA+ specifications of its own logic (not of Zitadel, Graph or
OpenTofu), the TLC configurations that check them on small instances, and proofs
that TLAPS checks for every instance.

## 1. The system

| Part | State it keeps | Operations | Talks to |
|---|---|---|---|
| `sync-profiles` (`jobs.py`, `graph.py`, `zitadel.py`) | `profiles.delta` on the `/data` volume | one run: read token, collect delta pages, write metadata and avatar of each user, store the new token | Graph (pages, photos), Zitadel (users, metadata, assets) |
| `sync-groups` | none; it recomputes | one run: list users, read each one's groups, make sure of the roles, replace the grant | Graph, Zitadel (roles, grants) |
| `brand` | none | upload assets in order, activate, read back, retry at most 5 times | Zitadel (LabelPolicy preview and active policy) |
| `import-users` | none | one run: full enumeration, create users with `userId` = Entra id, metadata, avatar | Graph, Zitadel |
| scheduler, guard, clients (`scheduler.py`, `main.py`) | scheduled jobs, cached access tokens | run both jobs in one process, wait for readiness, idle without credentials | the jobs |
| provisioner (`entrypoint.sh`) | OpenTofu state on `/tfstate` | wait for key and core, plan, refuse destructive plans, apply the saved plan, hand the state to the backup user | Zitadel, the backup sidecar (volume) |
| Terraform configuration | the desired resources | functions of the environment: IdPs, login policies, projects, roles, demo set | the provisioner |
| compose files | service states | start services in dependency order | everything |
| backup, OIDC test client, scripts, images | volumes, a session cookie, `.env` | | |

How they interact: the jobs share nothing but Zitadel and the delta file, and
nothing serialises them across processes. The scheduler's container and every
`docker compose run --rm directory-sync ...` (docs/directory-sync.md, "One-shot
CLI") may run the same job at once. `sync-groups` works on the project
Terraform creates and on grants an administrator may edit too. The login waits
for `brand` in the development stack, `brand` and `directory-sync` wait for the
provisioner.

What is hard: two runs that overlap; a run that stops half-way and is started
again; a page, a lookup or a write that fails and is only logged (almost every
error path of `graph.py` and `zitadel.py` is an ordinary return value nobody
looks at); state read at one moment and written from at a later one; a delta token
Graph no longer honours; the projection lag of Zitadel.

What makes each part correct:

* `sync-profiles`: the stored token never covers a change that was not
  processed; every change is processed in the end; metadata follows the profile.
* `sync-groups`: a grant holds exactly the roles of the user's groups, never
  another user's, and follows joins and leaves.
* `brand`: success means the assets are active; the run always ends; a partial
  result is one in which the first assets are there.
* `import-users`: one account per user, under the Entra id, so that the first
  login keeps the subject the applications know.
* token cache: a token is not sent once it has expired, or by how much it may be.
* provisioner: it never destroys, a saved plan is what is applied, an
  interrupted apply is continued, the state is handed to the backup user however
  a run ends.
* scheduler: each job runs at its interval, one instance at a time; a failure
  does not end the container.
* startup: no circular wait; a service starts only when what it needs is there.

The hazards are listed one by one, with their source lines and the properties
that cover them, in `PROJECT.json`.

## 2. Modules

| Module | Role |
|---|---|
| `ChangeFeed` | abstract: what a consumer of a change feed promises |
| `ProfileSync` | `sync-profiles` in detail; implements `ChangeFeed` |
| `GroupSync` | `sync-groups` in detail |
| `Branding` | `brand` with Zitadel's projection lag |
| `Import` | `import-users`, the first logins and the directory it races with |
| `TokenCache` | the cached access token of a client, used by several threads |
| `Scheduler` | the container's two jobs as `build_scheduler` leaves them |
| `Compose` | services, dependencies, shared volumes; extended by `Provisioner` |
| `Provisioner` | `entrypoint.sh`, the Terraform gates, administrators; extended by `Sidecar` |
| `Sidecar` | `main.py`: the scheduling container and the one-shot `brand` |
| `Stack` | the composition of the three under repeated `docker compose up -d`; implements `Reconciler` |
| `Reconciler` | abstract: what the provisioner promises |
| `ProfileSyncProofs`, `GroupSyncProofs`, `BrandingProofs`, `TokenCacheProofs`, `ImportProofs`, `StackProofs`, `ReconcilerProofs` | inductive invariants and theorems; `Scheduler` holds its one theorem itself |
| `MC...` | instances for TLC; the bounds are in the `.cfg` files |

In each detailed module some operators are named as variants (for example
`PageFailsKeepingLink`). They are no part of the specification: each is a
plausible mistake in the operator it precedes, and replacing the operator by it
makes TLC report the property that is meant to catch this mistake.

### ChangeFeed and ProfileSync

A change of a user takes the next position (`clock`) of Graph's feed; a delta
token is a position, 0 is "no token" (`_read_delta` and `users_delta` returning
`None`). `changedAt[u]` is the position of a user's newest change, `handled[u]`
the newest one some run processed.

| Code | Actions |
|---|---|
| `_read_delta` | `Start` |
| `GraphClient.users_delta` | `OpenRound`, `Page` (repeated), `PageFails` (also the 410 of an expired token) |
| the loop of `sync_profiles` | `Skip`, `Lookup`, `WriteMeta`, `FetchPhoto`, `UploadAvatar` |
| `_write_delta` | `OpenDelta` (opening truncates), `WriteDelta`, `KeepDelta` (no token) |
| `_guard`, an exception, a killed process | `Abort` |

Graph reports in a round the users changed since the token, each with its data at
the time its page is served; the token of the last page is the position at which
the round began, so a change during the round is reported again later. The entries of
a round are processed in any order (the code takes them in Graph's order, which
is unspecified). Users, photos and tokens change at any moment (`EditUser`, which
also removes a user or its address, `EditPhoto`, `ExpireTokens`), and users appear
in Zitadel (`Appear`). `set_metadata_bulk` is modelled by what it does: it sends
the non-empty attributes and leaves the other keys alone (`Merge`).

### GroupSync

| Code | Actions |
|---|---|
| `find_project_id` | `Start` |
| `list_users` | `ListUsers` (complete, or cut short by a failed page) |
| `get_user` | `SkipUser`, `VisitUser` |
| `user_groups` | `ReadGroups` (complete or cut short) |
| `ensure_role` | `EnsureRole`, once per group |
| `set_user_grant` | `FindGrant`, then `SetGrant` |
| end of the loop, an exception or a kill | `Finish`, `Abort` |

`role_key_for_group` is modelled as injective: the prefix keeps synced keys and
native keys apart, and group ids are GUIDs, which `_SAFE_RE` leaves as they are.
Zitadel accepts a grant only if it knows its roles and the user has no other
grant on the project (`Accepted`, external). The environment edits memberships,
deletes users, imports users, edits native roles of grants and provisions the
project.

### Branding

Uploads are a log; `projected` is how much of it the preview shows, and only
`Project` moves it, at any time or never. An asset's version is the position of
its upload. `Upload` and `Uploads` are the first loop, `Activate` and
`ReadField` (one `get_label_policy` per expected field) an attempt, `Complete`,
`Retry` and `GiveUp` its three outcomes, `Raise` an error answer or a kill,
`StartDisabled` the `BRANDING_ENABLED=false` exit. Which files are present is chosen
anew for each run. What comes before and after a run, `wait_for_ready` and the
exit of the container, is in `Sidecar`.

### Import

| Code | Actions |
|---|---|
| `users_delta(None)` | `Start` (all users, or what came before a failed page) |
| the two `continue`s of the loop | `SkipEntry` |
| `create_human_user` | `Create` (201 and 409 alike, `Created` says what Zitadel does), `CreateFails` |
| `set_metadata_bulk`, `user_photo`, `upload_avatar` | `WriteMeta`, `CopyPhoto` |
| `--test-one`, the end of the loop | `EntryDone`, `Finish` |
| an exception or a kill | `Abort` |

Addresses are per user and never used again, since what matters is whether an
account carries the user's present address. `own[u]` is the address of the account
whose id is the user's Entra id, `foreign[u]` that of an account with an id of
Zitadel's. A first login (`Login`, idps.tf: automatic linking by address, otherwise
automatic creation) is linked to the first if the address agrees and creates the
second if not. The get_user that follows a creation only chooses which counter of
the report goes up and has no action.

### TokenCache

A token stands for the time of its issue, times are those of one clock. `Hit` and
`Miss` are the test at the head of `token()` and `_bearer()`, `Issue` and
`RequestFails` the request, `StoreToken` and `StoreExp` the two assignments, `Return`
the second read of the attribute, `Sent` the end of the request that carries the
token. Each is a step of its own, because no lock is held. `client` says which
of the two clients it is: Zitadel's answer gives a duration, counted from when
it is stored, Entra's a point in time. `Delay` is how long a request may take, a
parameter no assumption bounds: `httpx`'s `timeout=30.0` (zitadel.py:34,
graph.py:33) bounds each phase of a request, nothing the whole of it.

The code relies on 60 s of slack without saying what they have to cover. The expiry in
the cache may be late by one `Delay` for a single thread, and by two for several, since
it may be that of another thread's younger token (`Skew`); the request that carries
the token takes another. `OverrunIsBounded` says that a token is sent past its expiry
by less than `Skew + Delay - Slack`. For a single thread and requests of up to 30 s
this is at most 0: no expired token is sent. For several threads it is so up to 20 s only; with
30 s a token may arrive up to 30 s late, and the user is skipped on the 401. The bound
is sharp: in the instance of run `tokens`, which has the ratio of 30 s to 60 s, TLC
finds a token sent at its expiry, and nothing worse.

### Scheduler

APScheduler is external; a job has a time until its next run, or is paused, which is
what `next_run_time=None` makes of it. `Submit` starts a job once for all missed runs,
`Drop` passes over a run that is too late or whose job is still running, `Return` is
the end of a guarded job.

### Compose, Provisioner, Sidecar, Stack

| Code | Actions |
|---|---|
| `depends_on` and its conditions | `MayStart`, the guard of every start |
| prepare-cert, prepare-machinekey | `Prepare` |
| database, Zitadel, proxy, login (images from elsewhere) | `StartServer`, `BecomeHealthy`, `WriteKey`, `CrashZitadel` |
| `entrypoint.sh`, waiting | `StartProvisioner`, `KeyPresent`, `ZitadelReady`, `WaitTimesOut` |
| `entrypoint.sh`, plan and guard | `MakePlan`, `PlanFails`, `Refuse`, `Accept` |
| `tofu apply` on the saved plan | `ApplyChange`, `ApplyFails`, `ApplyEnds` |
| the script's end; its EXIT trap, whose `chown` may fail; a kill, which runs none | `End` (in the actions that end it), `Exit`, `Kill` |
| `main`, `make_clients`, `wait_for_ready` | `StartSidecar`, `Ready`, `WaitForReadyFails`, `MakeClients` |
| `brand` returns; an exception; `restart: unless-stopped` | `BrandEnds`, `Crash`, `Restart` |
| `docker compose up -d` | `Up` |
| administrators: `.env`, the console, `tofu state rm` | `EditDotenv`, `EditConsole`, `ForgetDemo` |

`Desired` holds the `count` conditions of the Terraform files for four resources that
stand for the rest: the organisations (always), the Entra IdP (id and secret), the
workforce login policy (flag and id, and it refers to the IdP), the demo (its flag).
`Changes` is what a plan after a refresh contains, `plan` what is left of the saved
plan, `known` the state file, `zit` what Zitadel has. An apply does a change whenever
those it depends on are done, and one that fails leaves the others applied.
The script's end and its trap are two steps: `ppc` is the status in between, the
container still runs, and a console edit or a kill may come first. The trap changes no
status, and a `chown` that fails is only logged (entrypoint.sh:35-36), so the state
stays root's until the next `up` runs prepare-machinekey.
Organisation and policy names are unique in Zitadel, IdP names are not
(`Possible`, external). `Reconciler` is what remains of a run when plan, waits and the
other services are taken away: it looks, amends what its configuration wants and is
not so, and is done only if nothing is left or something was edited since it looked.
Under the refinement its `conf` is the environment the container was created with
(`env`, not the present `.env` file), its `objects` are `zit`, its `outcome` is the
state of the container, and `dirty` is `stale`. With `Development` the stack has its own proxy and
certificate, and the login waits for the branding; without it, it is the Traefik or
Coolify stack, whose login does not wait for `zitadel-brand`.

## 3. Runs

| Run | Instance | Shows |
|---|---|---|
| `profiles` | 1 user with a photo, 1 attribute of 2 values, 2 processes, 3 feed positions, 1 fault, expiry, fairness | `TokenIsCovered`, `RunStartsCovered`, `MirroredUnlessExcused`, `OvertakenByOverlap`, the refinement `ImplementsFeed`, `EveryChangeHandled` |
| `groups` | 2 users, 1 group, 1 native role, 2 processes, 2 edits, 1 fault, fairness | `NoRoleNeverHeld`, `ExactAfterCleanRun`, `MembershipPropagates` |
| `branding` | 2 assets, 2 processes, 2 runs, 1 fault, fairness | `EarlierAssetsActive`, `CompleteMeansPresent`, `GivesUpOnlyOnLag`, `EachStepNearsTheEnd`, `RunsEnd` |
| `tokens` | 3 threads, either client, lifetime 4, slack 2, delay 1, 9 units of time | `OverrunIsBounded` |
| `import` | 2 users (1 with a photo), a full and a `--test-one` process, 1 change of the directory, 1 fault, fairness | `OneAccount`, `SubjectsPreserved`, `CleanImportIsComplete`, `EveryoneImported` |
| `stack` | development, 6 `.env` files, 3 edits, 1 fault, fairness | `NeverDestroys`, `SuccessMeansConverged`, `StateHandedOver`, `KeyIsWhole`, `WorksOnProvisioned`, `NothingWaitsInACircle`, the refinement `ImplementsReconciler`, `Converges`, `LoginComesUp`, `SyncFollowsDotenv` |
| `profiles_blank` | 1 user, 1 process, no fault | violated: `BlankIsBlank` |
| `groups_native` | 1 user, 1 process, 1 edit | violated: `NativeRolesKept` |
| `groups_partial` | 1 user, 1 process, 1 fault | violated: `RolesKeptWhileMember` |
| `branding_landed` | 1 asset, 2 runs of 1 process | violated: `VerifiedMeansLanded` |
| `scheduler_paused` | the two jobs, fairness | violated: `EachJobRuns` |
| `stack_half` | production, 2 `.env` files, no edit, no fault, fairness | violated: `HalfConfigIsSkipped` |

Bounds and why they are enough. Two processes are what makes a file or a grant
change under a run, a third adds no new pair; in `TokenCache` the threads share two
attributes, so there are three. `profiles` has one user, because two are beyond what
TLC checks under fairness; what two would add, a run that stops between users, is in
the proofs, which are for any number of them. In `groups` two users let one's
roles end up with the other. `MaxClock` 3 is the initial enumeration (position 1)
and two more events: two changes of a user, or a change and an expiry; with it a run
can hold an entry while the user changes again. `MaxFaults` 1 puts a failure at any
one step of any run; what two failures would add is that a repair fails too, which
is a later run's failure. `MaxEdits` is 2 in `groups`, a join and a leave, or an edit
of the console between them, and 3 in `stack`: credentials are added, an object
drifts or is deleted, credentials or the demo are removed or forgotten. `MaxMoves` 1
is one new address, one lost address or one removal between listing, import and
login. Slack and delay of `tokens` have the ratio of the code's 60 s to `httpx`'s 30 s,
the lifetime is twice the slack, and the 9 units are two lifetimes and more. The six `.env` files are standalone, federated, both halves of the credentials, a demo,
and sync disabled. `Attempts` is the code's 5. Every bound is in the guard of the
environment or fault action it limits, none in an action of the code except
`Branding`'s `MaxRuns`, which limits how often the job is started, and the clock of
`TokenCache`. Symmetry is used in `tokens` only, which has no liveness. `stack` is the
development stack: the theorems about safety are for both kinds, liveness is checked for
this one. Deadlock is checked in every run but those of `Branding`, which stops once its
runs are over.

What is excused, each time because the code does not repair it:

* `EveryChangeHandled` excuses `Stuck`, a stored token that Graph refuses: the code
  never leaves that state. "Processed" includes "skipped": `MirroredUnlessExcused`
  names what the code gives up on, a user not in Zitadel and a user whose lookup or
  metadata write failed (`excused`), and a user whose newer attributes a slower run
  has overwritten with older ones (`overtaken`). Nothing in the code prevents the
  last; `OvertakenByOverlap` shows that it takes two runs at once.
* `CleanImportIsComplete` excuses an address a login has taken for an account of its
  own, and is about what the run listed: a listing cut short by a failed page is not
  clean.
* `EveryoneImported` excuses users that are gone or have no address, and those whose
  address a foreign account has. `SubjectsPreserved` speaks of users listed under
  their present address only: an import never changes the address of an account that
  exists.
* `Converges`, `LoginComesUp` and `SyncFollowsDotenv` excuse `Held`: an invalid plan
  (the half configuration), a destructive one, or an object of a killed or forgotten
  run that the state does not know. All three wait for an administrator.
* `NothingWaitsInACircle` speaks of the moments when `up` can start nothing more, no
  one-shot job has failed and no server is still unhealthy.
* `SuccessMeansConverged` excuses console and state edits since the plan, and
  `StateHandedOver` a run that was killed, after which no trap runs, or whose `chown`
  failed, after which the code only warns. It says that these two are the only ways for
  the state to stay root's, and that the next run does not start before
  prepare-machinekey has handed it over.
* `OverrunIsBounded` does not say that no expired token is sent, which the code does
  not ensure (see `TokenCache` above).

Fairness. In `ProfileSync`, `GroupSync`, `Branding` and `Import` it is weak fairness
of each process's runs as a whole: a started run takes another step (every request
of `httpx` has a timeout of 30 s) and the job is started again after it ended. The
second half rests on an operator or a timer that runs the one-shot command. The
container's own scheduler adds its two jobs paused, so it does not by itself justify
it. In `Stack` every service makes progress (docker starts what may start, the waits
of both programs have deadlines) and the operator repeats `up`; nothing is assumed of
single steps within a program. In `Scheduler` time passes, a due job is submitted
again and again, and runs end. Faults are bounded, so they cease. Nothing is assumed
of `Project` (Zitadel's projection), first logins, administrators or Graph.

The six violations are disagreements between the documentation and the code;
`PROJECT.json` quotes the sentence and the line for each:

* a cleared attribute stays in the metadata (README.md:18, "kept current");
* native roles on a grant are overwritten (docs/directory-sync.md:31-34, "never touched");
* a failed page of memberships removes roles (jobs.py:195, "exactly the current
  namespaced role set");
* a second branding is verified against the old assets (jobs.py:85, "VERIFY
  every uploaded asset actually landed");
* the scheduler's jobs are paused from the start (scheduler.py:5-6, "every ...
  seconds");
* an id without a secret makes every plan fail (idps.tf:18-19, "skip gracefully
  instead"; login_policy.tf:42 asks for the id alone and refers to the IdP).

Further disagreements met while modelling, without a run of their own: in the
Traefik and Coolify stacks the login does not wait for `zitadel-brand`, although
jobs.py:89-90 says "the login gates its startup on this job"; a request of the
verification loop that raises ends `brand` with status 1 although the same comment
says "never raises"; `import-users --test-one` reports success after a 409 that
another account caused, although docs/migration.md takes it as the confirmation
that Zitadel accepts the id; jobs.py:90-91 says that the logo "is always present by the
time the retries settle", while a run that gives up before Zitadel has projected
anything leaves it unset (`EarlierAssetsActive` and `GivesUpOnlyOnLag` are what holds).

## 4. Proofs

`ProfileSyncProofs`. The invariant adds to the type invariant that whatever a run
is about to store is accounted for: every change at or before `pos[p]` has been
processed, or is still among the users Graph has to report (`todo`), the fetched
entries (`changes`) or the entry being written (`cur`); and `Covered` holds of
`deltaFile` and of every `token[p]`. `TokenIsCovered` alone is not inductive,
since `WriteDelta` stores a token computed many steps before, while other runs
processed, stored and emptied the file. The monotone `handled`, and that a new
change lies after every position handed out, carry it through the steps of other
processes and of the environment (`CoveredStays`, `RunUntouched`). For `Mirrored`,
which holds however runs overlap, `MirrorInv` adds that every entry in a run's hands
is genuine (`Genuine`: no newer than the user's newest change, and equal to the
profile if it is that change) and that a processed user is mirrored, excused or
overtaken. `OnlyOverlapOvertakes` is about the time before two runs met: then only
one is under way (`Alone`), and the entries in its hands are one per user and older
than none that was processed (`Solo`, `OrderInv`). Theorems: `TypeCorrect`,
`TokenAlwaysCovered`, `RunsStartCovered`, `Mirrored`, `OnlyOverlapOvertakes`,
`Refinement`, that every behaviour is one of `ChangeFeed` with `acked` as `deltaFile`,
and `AttributesAreNeverCleared`, that no order of steps repairs what the run
`profiles_blank` shows: once set, an attribute is never empty again.

`GroupSyncProofs`. `NoRoleNeverHeld` needs the roles and groups a run is holding
to come from groups its current user has ever been in. `CleanRunsAreExact` needs,
while `clean` holds, that the listed users of Zitadel not yet visited by a run are
in its queue or its current user, that what it holds of this user is the
membership, complete, and that the users it is done with are exact, also when two
undisturbed runs write the same users. Theorems: `TypeCorrect`,
`NoRoleNeverHeldAlways`, `CleanRunsAreExact`.

`BrandingProofs`. The active policy is the preview of some prefix of the upload
log, no shorter than the prefix at any run's newest activation (`ActiveInv`); a
run's versions increase with the position in `_BRAND_ASSETS` (`UploadInv`); what a
run found missing was uploaded after its activation, what it did not is set
(`ReadInv`), which survives other runs' activations because an activation unsets
nothing (`StaysSet`). That runs end is a liveness property, but what makes them end is
an action property: `StepsLeft`, a number computed from the loop's position, the
attempts and the fields still to read, decreases with each step of the run and is
touched by no other (`RunsNearTheirEnd`), and it is a natural number below a bound
that depends on `NAssets` alone (`RunsAreBounded`). Theorems: `TypeCorrect`,
`EarlierAssetsAlwaysActive`, `SuccessMeansPresent`, `GivesUpOnLagOnly`,
`RunsNearTheirEnd`, `RunsAreBounded`.

`TokenCacheProofs`. `OverrunIsBounded` is about a thread that sends; what makes
it true happened before, in other threads. The invariant says how old the request
of every thread is (`InTime`), that the expiry in the cache is at most `Skew`
behind the true expiry of the token beside it (`ExpiryIsNear`), how much older the
cached token may be than the one whose expiry a thread is about to write
(`StoredIsYoung`), and that the token a thread is about to return or send had, when
its request began, the slack to go but for `Skew` (`ReturnedIsGood`, `SentIsGood`).
Theorems: `TypeCorrect`, `OverrunAlwaysBounded`.

`ImportProofs`. `AddressInv`: a user's address is its newest or none, and no
account and no entry in hand has a newer one. A user that has had at most one
address thus has the same one everywhere, so `Created` refuses the second account
and `Login` finds the first. `SubjectInv`: an account under a user's id has an
address some run listed the user under; a foreign account means a login; whoever a
clean full run has listed is still in its hands, skipped or settled (`Settled`:
the account exists or the user has logged in), which no other run undoes.
`ProgressInv` follows each entry of a clean run from the listing to the end
(`Pending`, `Advanced`): it is still to be taken up, in hand with the account and the
metadata it has got so far, or done; what it has got no other run, login or move takes
away (`AccountsGrow`). Theorems: `TypeCorrect`, `OneAccountAlways`,
`SubjectsArePreserved`, `CleanImportsAreComplete`.

`StackProofs`. The proofs are organised by program: one frame lemma for each says
what its steps leave alone (`ServeFrame`, `SidecarFrame`, `ProvisionFrame`,
`EnvironmentFrame`, `UpFrame`, `CrashFrame`), so that an invariant is shown for
the steps of the program it speaks of and follows for the others.
`NothingIsDestroyed` needs that a plan being applied deletes nothing (`PlanInv`);
`StateIsHandedOver` that a run starts only after prepare-machinekey, which every `up`
runs again;
`KeyIsAlwaysWhole` that a healthy Zitadel has written the key (`KeyInv`);
`SuccessIsConvergence` that the rest of a plan covers all that is not as in the
code unless someone edited it (`PlanCovers`); `SidecarsWorkOnProvisioned` that the
organisation is made once the provisioner has succeeded, and until then is in its
plan (`OrgInv`). Theorems: `TypeCorrect`, `NothingIsDestroyed`,
`StateIsHandedOver`, `KeyIsAlwaysWhole`, `SuccessIsConvergence`,
`SidecarsWorkOnProvisioned`.

`ReconcilerProofs`. For `Refinement` the plan must be justified from the other side
too: what is left of it is wanted by the environment and, unless someone has edited
since, still to be done (`PlanWanted`), so that every change of an apply is an `Amend`
of the abstract run; that nothing is left to do when the script has ended with success
(`PlanCovers`) makes the trap a `Succeed`, a kill in the middle of a change a `Fail`
that has made an object without writing it down. `NoCircle` follows the dependencies
from the services that wait for nothing; it needs that a job is never healthy and a server never done (`SvcInv`), and
with `Development` a parameter it holds for both kinds of stack. Theorems:
`InvalidNeverSucceeds`, `Refinement`, `NoCircle`.

`Scheduler` proves `PausedForever`: as `build_scheduler` leaves it, no job is ever due,
whatever the intervals.

The assumptions are those the modules name on their constants: bounds are natural
numbers, flags are Booleans, "no value" and "no photo" differ from values and
photos, there is at least one asset, `.env` files are records of four flags, and
a token lives longer than the slack of 60 s (`LifetimeAssumption`; 12 h in
config/zitadel/defaults.yaml:118, about an hour at Entra). Nothing else is assumed:
sets of users, groups, processes and threads may be empty or infinite.

Only model-checked: all liveness (`EveryChangeHandled`, `MembershipPropagates`,
`RunsEnd`, `EveryoneImported`, `Converges`, `LoginComesUp`, `SyncFollowsDotenv`),
which rests on fairness and is beyond TLAPS here, and the six violated properties.
Every safety and action property of a passing run and both refinements are theorems.

## 5. Not modelled

Simplifications within the modelled parts:

* `GroupSync` takes the pages of one listing together; Zitadel never deletes users
  or grants; request failures either took effect or not, and a write whose answer is
  lost is covered as a success followed by `Abort`.
* An activation in `Branding` is visible to the next read.
* `Import` and `ProfileSync` are not composed: an import that writes metadata while
  a profile run writes newer values is the same race as two profile runs, whose
  losers `ProfileSync` calls `overtaken`.
* `TokenCache` has one clock; what the client's is off by adds to the overrun.
* `Provisioner` has one resource of each kind of gate; external IdPs, applications,
  domains and outputs are more of the same. `ZITADEL_WAIT_TIMEOUT=0`, with which the
  waits never ask at all, is not an instance.
* In `Stack`, `up` runs again only when the last one has returned, and Mailpit, the
  backup and the test client are left out: nothing waits for them.

Not modelled, and why:

* `discover-subject-keys` writes log lines only.
* `generate-env.py` renders `.env` once, from a template, in one process, and
  `validate-stack.py` only reads. One remark from reading: `generate-env.py --force`
  keeps one `.env.bak`, so a second `--force` loses the first master key.
* Backup and restore: the engine lives in another repository; here are its
  configuration and a round-trip test. What it needs of this code, the ownership of
  the state volume, is `StateHandedOver`.
* The OIDC test client: a fixture that handles one request after the other.
* Images, static configuration, CI workflows.

## 6. What is left to do

* A composition of `Import` with `ProfileSync` over one metadata store, and an
  abstract specification of the group job that both a single and several concurrent
  runs implement.
* Measures like `StepsLeft` for the runs of the other jobs, whose loops end because
  the listings are finite.
* Properties of the avatar, and of the grants of users that are no longer listed,
  once the intended behaviour is documented.
