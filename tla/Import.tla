------------------------------- MODULE Import -------------------------------
(***************************************************************************)
(* The import-users command of directory-sync (jobs.py), which prepares    *)
(* the migration of docs/migration.md: every Entra user gets a Zitadel     *)
(* account whose id is its Entra object id, so that its first federated    *)
(* login, linked by address, gives the applications the subject they know. *)
(* The runs race with each other, with the users' first logins, which      *)
(* create an account of their own when no address matches, and with        *)
(* changes of the directory.                                               *)
(*                                                                         *)
(* Addresses are per user and never used again: n is the n-th address of a *)
(* user, 0 is none (primary_email's None, "no such account").              *)
(***************************************************************************)
EXTENDS Naturals, FiniteSets

CONSTANTS
    Users,                    \* Entra object ids
    Pictured,                 \* users with a photo
    Procs,                    \* processes that may run the command
    Trials,                   \* those that run it with --test-one
    MaxMoves,                 \* bound: changes of addresses, and removals
    MaxFaults                 \* bound: failed requests and aborted runs

ASSUME SubsetsAssumption == Pictured \subseteq Users /\ Trials \subseteq Procs
ASSUME BoundsAssumption == MaxMoves \in Nat /\ MaxFaults \in Nat

VARIABLES
    \* Entra ID
    addr,                     \* a user's address
    last,                     \* the newest address it ever had
    removed,                  \* users deleted there
    moves,                    \* changes so far
    \* Zitadel
    own,                      \* the address of the account with the user's id
    link,                     \* the account the user's logins are linked to
    foreign,                  \* the address of an account with another id
    meta,                     \* accounts with the extended metadata
    avatar,                   \* accounts with a photo
    \* one run of the command per process
    pc,
    todo,                     \* entries of `changes` not yet processed
    cur,                      \* the entry being processed, in a set
    \* history
    listed,                   \* the entries the run began with
    clean,                    \* they are all there are, and no request has failed
    listedAs,                 \* addresses the runs so far have listed a user under
    assured,                  \* users a clean run has listed with an address
    faults

entraVars == <<addr, last, removed, moves>>
zitadelVars == <<own, link, foreign, meta, avatar>>
runVars == <<pc, todo, cur>>
historyVars == <<listed, clean, listedAs, assured, faults>>
vars == <<entraVars, zitadelVars, runVars, historyVars>>

Entries == [user : Users, addr : Nat, removed : BOOLEAN]

TypeOK ==
    /\ addr \in [Users -> Nat] /\ last \in [Users -> Nat]
    /\ removed \in SUBSET Users
    /\ moves \in Nat
    /\ own \in [Users -> Nat] /\ foreign \in [Users -> Nat]
    /\ link \in [Users -> {"none", "own", "foreign"}]
    /\ meta \in SUBSET Users /\ avatar \in SUBSET Pictured
    /\ pc \in [Procs -> {"idle", "next", "meta", "photo"}]
    /\ todo \in [Procs -> SUBSET Entries] /\ cur \in [Procs -> SUBSET Entries]
    /\ clean \in [Procs -> BOOLEAN]
    /\ listed \in [Procs -> SUBSET Entries]
    /\ listedAs \in [Users -> SUBSET (Nat \ {0})]
    /\ assured \in SUBSET Users
    /\ faults \in Nat

Init ==
    /\ addr \in [Users -> {0, 1}]
    /\ last = addr /\ removed = {} /\ moves = 0
    /\ own = [u \in Users |-> 0] /\ foreign = [u \in Users |-> 0]
    /\ link = [u \in Users |-> "none"]
    /\ meta = {} /\ avatar = {}
    /\ pc = [p \in Procs |-> "idle"]
    /\ todo = [p \in Procs |-> {}] /\ cur = [p \in Procs |-> {}]
    /\ clean = [p \in Procs |-> FALSE]
    /\ listed = [p \in Procs |-> {}]
    /\ listedAs = [u \in Users |-> {}]
    /\ assured = {} /\ faults = 0

-----------------------------------------------------------------------------
(* Entra ID and the users, outside the command.                            *)

\* A user gets a new address, loses it, or is deleted.
Move(u) ==
    /\ moves < MaxMoves /\ u \notin removed
    /\ \/ /\ addr' = [addr EXCEPT ![u] = last[u] + 1]
          /\ last' = [last EXCEPT ![u] = @ + 1]
          /\ UNCHANGED removed
       \/ addr[u] # 0 /\ addr' = [addr EXCEPT ![u] = 0] /\ UNCHANGED <<last, removed>>
       \/ removed' = removed \cup {u} /\ UNCHANGED <<addr, last>>
    /\ moves' = moves + 1
    /\ UNCHANGED <<zitadelVars, runVars, historyVars>>

\* The first login through the Entra IdP: it is linked to the account with the
\* same address, and creates one with an id of Zitadel's otherwise.
Login(u) ==
    /\ link[u] = "none" /\ addr[u] # 0 /\ u \notin removed
    /\ IF own[u] = addr[u]
       THEN /\ link' = [link EXCEPT ![u] = "own"]
            /\ UNCHANGED foreign
       ELSE /\ link' = [link EXCEPT ![u] = "foreign"]
            /\ foreign' = [foreign EXCEPT ![u] = addr[u]]
    /\ UNCHANGED <<entraVars, own, meta, avatar, runVars, historyVars>>

-----------------------------------------------------------------------------
(* One run of import_users.                                                *)

Fault == faults < MaxFaults /\ faults' = faults + 1
NoFault == UNCHANGED faults

Unclean(p) == clean' = [clean EXCEPT ![p] = FALSE]

EntryOf(u) == [user |-> u, addr |-> addr[u], removed |-> u \in removed]

\* users_delta(None): all users, or what came before the page that failed.
Start(p) ==
    /\ pc[p] = "idle"
    /\ \E L \in SUBSET Users :
          /\ IF L = Users THEN NoFault ELSE Fault
          /\ todo' = [todo EXCEPT ![p] = {EntryOf(u) : u \in L}]
          /\ listed' = [listed EXCEPT ![p] = {EntryOf(u) : u \in L}]
          /\ clean' = [clean EXCEPT ![p] = L = Users]
          /\ listedAs' = [u \in Users |->
                 IF u \in L THEN listedAs[u] \cup ({addr[u]} \ {0}) ELSE listedAs[u]]
    /\ pc' = [pc EXCEPT ![p] = "next"]
    /\ UNCHANGED <<entraVars, zitadelVars, cur, assured>>

\* The run is over and its locals are gone.
EndRun(p) ==
    /\ pc' = [pc EXCEPT ![p] = "idle"]
    /\ todo' = [todo EXCEPT ![p] = {}] /\ cur' = [cur EXCEPT ![p] = {}]
    /\ clean' = [clean EXCEPT ![p] = FALSE] /\ listed' = [listed EXCEPT ![p] = {}]

\* A variant of EntryDone with the flag turned round.
EntryDoneOfFullImport(p) ==
    /\ pc' = [pc EXCEPT ![p] = "next"]
    /\ todo' = [todo EXCEPT ![p] = IF p \in Trials THEN @ ELSE {}]
    /\ cur' = [cur EXCEPT ![p] = {}]

\* After an entry that got as far as a request: --test-one stops here.
EntryDone(p) ==
    /\ pc' = [pc EXCEPT ![p] = "next"]
    /\ todo' = [todo EXCEPT ![p] = IF p \in Trials THEN {} ELSE @]
    /\ cur' = [cur EXCEPT ![p] = {}]

Skipped(e) == e.removed \/ e.addr = 0

\* A variant of SkipEntry that leaves the loop.
SkipTheRest(p) ==
    /\ pc[p] = "next"
    /\ \E e \in todo[p] : Skipped(e)
    /\ todo' = [todo EXCEPT ![p] = {}]
    /\ UNCHANGED <<entraVars, zitadelVars, pc, cur, historyVars>>

\* A removed entry, or one without an address.
SkipEntry(p) ==
    /\ pc[p] = "next"
    /\ \E e \in todo[p] : Skipped(e) /\ todo' = [todo EXCEPT ![p] = @ \ {e}]
    /\ UNCHANGED <<entraVars, zitadelVars, pc, cur, historyVars>>

\* A variant of Created that leaves the id to Zitadel.
CreatedWithAnyId(e) ==
    IF own[e.user] = 0 /\ foreign[e.user] # e.addr
    THEN foreign' = [foreign EXCEPT ![e.user] = e.addr] /\ UNCHANGED own
    ELSE UNCHANGED <<own, foreign>>

\* A variant of Created whose user name is the id.
CreatedUnderItsId(e) ==
    /\ IF own[e.user] = 0 THEN own' = [own EXCEPT ![e.user] = e.addr]
       ELSE UNCHANGED own
    /\ UNCHANGED foreign

\* What the request does: Zitadel refuses (409) an id it has and a user name,
\* which is the address, another account has.
Created(e) ==
    /\ IF own[e.user] = 0 /\ foreign[e.user] # e.addr
       THEN own' = [own EXCEPT ![e.user] = e.addr]
       ELSE UNCHANGED own
    /\ UNCHANGED foreign

\* create_human_user returns the id, after a 409 too.  The get_user that follows
\* decides which counter of the report goes up, and nothing else.
Create(p) ==
    /\ pc[p] = "next"
    /\ \E e \in todo[p] :
          /\ ~Skipped(e)
          /\ todo' = [todo EXCEPT ![p] = @ \ {e}]
          /\ cur' = [cur EXCEPT ![p] = {e}]
          /\ Created(e)
    /\ pc' = [pc EXCEPT ![p] = "meta"]
    /\ UNCHANGED <<entraVars, link, meta, avatar, historyVars>>

\* Any other answer: the user is counted as failed.
CreateFails(p) ==
    /\ pc[p] = "next" /\ Fault
    /\ \E e \in todo[p] :
          /\ ~Skipped(e)
          /\ todo' = [todo EXCEPT ![p] = IF p \in Trials THEN {} ELSE @ \ {e}]
    /\ Unclean(p)
    /\ UNCHANGED <<entraVars, zitadelVars, pc, cur, listed, listedAs, assured>>

\* set_metadata_bulk addresses the account with the user's id, which may not
\* exist; its result is not looked at.
WriteMeta(p) ==
    /\ pc[p] = "meta"
    /\ \/ /\ meta' = meta \cup {e.user : e \in {f \in cur[p] : own[f.user] # 0}}
          /\ NoFault /\ UNCHANGED clean
       \/ Fault /\ Unclean(p) /\ UNCHANGED meta
    /\ pc' = [pc EXCEPT ![p] = "photo"]
    /\ UNCHANGED <<entraVars, own, link, foreign, avatar, todo, cur, listed,
                   listedAs, assured>>

\* A variant of CopyPhoto that does not look whether there is a photo.
CopyPhotoUnseen(p) ==
    /\ pc[p] = "photo"
    /\ \/ /\ avatar' = avatar \cup {e.user : e \in {f \in cur[p] : own[f.user] # 0}}
          /\ NoFault /\ UNCHANGED clean
       \/ Fault /\ Unclean(p) /\ UNCHANGED avatar
    /\ EntryDone(p)
    /\ UNCHANGED <<entraVars, own, link, foreign, meta, listed, listedAs, assured>>

\* user_photo and, if there is a photo, upload_avatar.
CopyPhoto(p) ==
    /\ pc[p] = "photo"
    /\ \/ /\ avatar' = avatar \cup
                 {e.user : e \in {f \in cur[p] : f.user \in Pictured /\ own[f.user] # 0}}
          /\ NoFault /\ UNCHANGED clean
       \/ Fault /\ Unclean(p) /\ UNCHANGED avatar
    /\ EntryDone(p)
    /\ UNCHANGED <<entraVars, own, link, foreign, meta, listed, listedAs, assured>>

Finish(p) ==
    /\ pc[p] = "next" /\ todo[p] = {}
    /\ assured' = assured \cup
           (IF clean[p] /\ p \notin Trials
            THEN {e.user : e \in {f \in listed[p] : ~Skipped(f)}} ELSE {})
    /\ EndRun(p)
    /\ UNCHANGED <<entraVars, zitadelVars, listedAs, faults>>

\* A connection error or a kill ends the command: nothing guards it.
Abort(p) ==
    /\ pc[p] # "idle" /\ Fault
    /\ EndRun(p)
    /\ UNCHANGED <<entraVars, zitadelVars, listedAs, assured>>

Run(p) ==
    \/ Start(p) \/ SkipEntry(p) \/ Create(p) \/ CreateFails(p)
    \/ WriteMeta(p) \/ CopyPhoto(p) \/ Finish(p) \/ Abort(p)

Next == (\E u \in Users : Move(u) \/ Login(u)) \/ \E p \in Procs : Run(p)

Spec == Init /\ [][Next]_vars

\* The command is run again and again, and a run keeps going.
FairSpec == Spec /\ \A p \in Procs : WF_vars(Run(p))

-----------------------------------------------------------------------------
(* Properties.                                                             *)

\* A user whose address has never changed never has two accounts, in whatever
\* order imports and logins reach Zitadel.
OneAccount == \A u \in Users : last[u] <= 1 => own[u] = 0 \/ foreign[u] = 0

\* What the migration rests on: a user that an import without a failed request
\* has listed, and logs in for the first time after that import, gets the
\* subject the applications know, whatever other imports are under way.  Its
\* address must be the one all imports have listed it under, because an import
\* does not change the address of an account that exists.
SubjectsPreserved ==
    [][\A u \in Users :
          (/\ u \in assured /\ listedAs[u] \subseteq {addr[u]}
           /\ link[u] = "none" /\ link'[u] # "none")
              => link'[u] = "own"]_vars

Complete(u) == own[u] # 0 /\ u \in meta /\ (u \in Pictured => u \in avatar)

\* An import that ends without a failed request has done what its report says:
\* each entry it listed with an address has its account, metadata and photo,
\* whatever logins and other imports came between the requests, unless a login
\* has taken the address for an account of its own.
CleanImportIsComplete ==
    [][\A p \in Procs \ Trials : Finish(p) /\ clean[p] =>
          \A e \in listed[p] :
             Skipped(e) \/ foreign[e.user] = e.addr \/ Complete(e.user)]_vars

\* Repeated imports leave no user with an address without its account, metadata
\* and photo, unless another account has taken its address.
EveryoneImported ==
    \A u \in Users :
        []<>(addr[u] = 0 \/ u \in removed \/ foreign[u] = addr[u] \/ Complete(u))
=============================================================================
