---------------------------- MODULE ProfileSync ----------------------------
(***************************************************************************)
(* The sync-profiles job of directory-sync (jobs.py): read the stored      *)
(* delta token, collect the changed users from Microsoft Graph page by     *)
(* page, copy each one's extended attributes and photo into Zitadel, and   *)
(* only then store the new token.  Several processes may run the job: the  *)
(* scheduler's container and every one-shot `docker compose run`, which    *)
(* share the delta file on the /data volume and hold no lock.              *)
(*                                                                         *)
(* A delta token stands for a position of Graph's change feed; 0 is the    *)
(* absence of one (_read_delta and users_delta return None).               *)
(***************************************************************************)
EXTENDS Naturals, FiniteSets

CONSTANTS
    Users,                    \* Entra object ids, which are Zitadel user ids
    Attrs,                    \* the attributes extended_metadata maps
    Values,                   \* non-empty attribute values
    Empty,                    \* an attribute Entra leaves blank
    Photos,                   \* photo contents
    NoPhoto,                  \* user_photo's None
    Procs,                    \* processes that may run the job
    TokensExpire,             \* whether Graph may refuse an old delta token
    MaxClock,                 \* bound: changes of the directory
    MaxFaults                 \* bound: failed requests and aborted runs

ASSUME EmptyAssumption == Empty \notin Values
ASSUME NoPhotoAssumption == NoPhoto \notin Photos
ASSUME BoundsAssumption == MaxClock \in Nat /\ MaxFaults \in Nat
ASSUME ExpiryAssumption == TokensExpire \in BOOLEAN

VARIABLES
    \* Entra ID, as Graph serves it
    profile,                  \* the attributes of each user
    state,                    \* "mail", "nomail" or "removed"
    photo,                    \* the photo of each user
    changedAt,                \* feed position of each user's newest change
    clock,                    \* newest feed position
    horizon,                  \* tokens before this position are refused (410)
    \* Zitadel
    imported,                 \* users that exist there
    meta,                     \* user metadata; Empty is an absent key
    avatar,
    \* the /data volume
    deltaFile,                \* content of profiles.delta
    \* one run of the job per process
    pc,
    token,                    \* local `token`: the delta token read
    pos,                      \* position the Graph round will end at
    todo,                     \* users Graph has still to report in this round
    changes,                  \* local `changes`: fetched, not yet processed
    newToken,                 \* local `new_token`
    cur,                      \* the entry being applied, in a set
    pic,                      \* local `photo`
    \* history
    handled,                  \* newest position processed for each user
    excused,                  \* users whose newest processed change was not written
    overtaken,                \* users whose newer metadata an older entry overwrote
    overlapped,               \* two runs have been active at once
    faults

entraVars == <<profile, state, photo, changedAt, clock, horizon>>
zitadelVars == <<imported, meta, avatar>>
runVars == <<pc, token, pos, todo, changes, newToken, cur, pic>>
historyVars == <<handled, excused, overtaken, overlapped, faults>>
vars == <<entraVars, zitadelVars, deltaFile, runVars, historyVars>>

None == 0
Profiles == [Attrs -> Values \cup {Empty}]
Entries == [user : Users, state : {"mail", "nomail", "removed"},
            profile : Profiles, at : Nat]

TypeOK ==
    /\ profile \in [Users -> Profiles]
    /\ state \in [Users -> {"mail", "nomail", "removed"}]
    /\ photo \in [Users -> Photos \cup {NoPhoto}]
    /\ changedAt \in [Users -> Nat]
    /\ clock \in Nat /\ horizon \in Nat
    /\ imported \in SUBSET Users
    /\ meta \in [Users -> Profiles]
    /\ avatar \in [Users -> Photos \cup {NoPhoto}]
    /\ deltaFile \in Nat
    /\ pc \in [Procs -> {"idle", "request", "pages", "apply", "meta", "photo",
                         "avatar", "write"}]
    /\ token \in [Procs -> Nat] /\ pos \in [Procs -> Nat]
    /\ todo \in [Procs -> SUBSET Users]
    /\ changes \in [Procs -> SUBSET Entries]
    /\ newToken \in [Procs -> Nat]
    /\ cur \in [Procs -> SUBSET Entries]
    /\ pic \in [Procs -> Photos \cup {NoPhoto}]
    /\ handled \in [Users -> Nat]
    /\ excused \in SUBSET Users /\ overtaken \in SUBSET Users
    /\ overlapped \in BOOLEAN
    /\ faults \in Nat

Init ==
    /\ profile = [u \in Users |-> [a \in Attrs |-> Empty]]
    /\ state = [u \in Users |-> "mail"]
    /\ photo = [u \in Users |-> NoPhoto]
    /\ changedAt = [u \in Users |-> 1] /\ clock = 1 /\ horizon = 0
    /\ imported = {}
    /\ meta = [u \in Users |-> [a \in Attrs |-> Empty]]
    /\ avatar = [u \in Users |-> NoPhoto]
    /\ deltaFile = None
    /\ pc = [p \in Procs |-> "idle"]
    /\ token = [p \in Procs |-> None] /\ pos = [p \in Procs |-> 0]
    /\ todo = [p \in Procs |-> {}] /\ changes = [p \in Procs |-> {}]
    /\ newToken = [p \in Procs |-> None]
    /\ cur = [p \in Procs |-> {}] /\ pic = [p \in Procs |-> NoPhoto]
    /\ handled = [u \in Users |-> 0]
    /\ excused = {} /\ overtaken = {} /\ overlapped = FALSE /\ faults = 0

-----------------------------------------------------------------------------
(* Entra ID and Zitadel, outside the job.                                  *)

\* An administrator edits a user's attributes, changes its addresses or deletes
\* it; the change takes the next feed position.
EditUser(u) ==
    /\ clock < MaxClock /\ state[u] # "removed"
    /\ \/ /\ \E f \in Profiles \ {profile[u]} : profile' = [profile EXCEPT ![u] = f]
          /\ UNCHANGED state
       \/ /\ \E s \in {"mail", "nomail", "removed"} \ {state[u]} :
                state' = [state EXCEPT ![u] = s]
          /\ UNCHANGED profile
    /\ clock' = clock + 1
    /\ changedAt' = [changedAt EXCEPT ![u] = clock + 1]
    /\ UNCHANGED <<photo, horizon, zitadelVars, deltaFile, runVars, historyVars>>

\* A new photo: not one of the selected properties, so the feed is silent.
EditPhoto(u) ==
    /\ \E f \in Photos \ {photo[u]} : photo' = [photo EXCEPT ![u] = f]
    /\ UNCHANGED <<profile, state, changedAt, clock, horizon, zitadelVars,
                   deltaFile, runVars, historyVars>>

\* Graph forgets the tokens handed out so far.
ExpireTokens ==
    /\ TokensExpire /\ clock < MaxClock
    /\ clock' = clock + 1 /\ horizon' = clock + 1
    /\ UNCHANGED <<profile, state, photo, changedAt, zitadelVars, deltaFile,
                   runVars, historyVars>>

\* The user comes to exist in Zitadel with its first login.  (import_users also
\* creates users, and writes their metadata; it is not part of this module.)
Appear(u) ==
    /\ u \notin imported
    /\ imported' = imported \cup {u}
    /\ UNCHANGED <<entraVars, meta, avatar, deltaFile, runVars, historyVars>>

-----------------------------------------------------------------------------
(* One run of sync_profiles.                                               *)

Fault == faults < MaxFaults /\ faults' = faults + 1
NoFault == UNCHANGED faults

\* The newest position processed for a user never moves back.
HandledUpTo(e) ==
    [handled EXCEPT ![e.user] = IF e.at > @ THEN e.at ELSE @]

\* An entry that is given up without a write excuses its user, unless this
\* change or a newer one has been processed.
GivenUp(e) == excused \cup (IF e.at > handled[e.user] THEN {e.user} ELSE {})

\* _read_delta: an unreadable or empty file means a full enumeration.
Start(p) ==
    /\ pc[p] = "idle"
    /\ pc' = [pc EXCEPT ![p] = "request"]
    /\ token' = [token EXCEPT ![p] = deltaFile]
    /\ overlapped' = (overlapped \/ \E q \in Procs \ {p} : pc[q] # "idle")
    /\ UNCHANGED <<entraVars, zitadelVars, deltaFile, pos, todo, changes,
                   newToken, cur, pic, handled, excused, overtaken, faults>>

Refused(p) == token[p] # None /\ token[p] < horizon

\* Graph opens the round: it will report what changed since the token.
OpenRound(p) ==
    /\ pc[p] = "request" /\ ~Refused(p)
    /\ pc' = [pc EXCEPT ![p] = "pages"]
    /\ todo' = [todo EXCEPT ![p] = {u \in Users : changedAt[u] > token[p]}]
    /\ pos' = [pos EXCEPT ![p] = clock]
    /\ UNCHANGED <<entraVars, zitadelVars, deltaFile, token, changes, newToken,
                   cur, pic, historyVars>>

EntryOf(u) ==
    [user |-> u, state |-> state[u], profile |-> profile[u], at |-> changedAt[u]]

\* A page arrives with the current data of some users; the last one carries
\* the delta link instead of a next link.
Page(p) ==
    /\ pc[p] = "pages"
    /\ \E S \in SUBSET todo[p] :
          /\ S = {} => todo[p] = {}
          /\ todo' = [todo EXCEPT ![p] = @ \ S]
          /\ changes' = [changes EXCEPT ![p] = @ \cup {EntryOf(u) : u \in S}]
          /\ IF S = todo[p]
             THEN /\ pc' = [pc EXCEPT ![p] = "apply"]
                  /\ newToken' = [newToken EXCEPT ![p] = pos[p]]
             ELSE UNCHANGED <<pc, newToken>>
    /\ UNCHANGED <<entraVars, zitadelVars, deltaFile, token, pos, cur, pic,
                   historyVars>>

\* A variant of PageFails that keeps the link of the last good page.
PageFailsKeepingLink(p) ==
    /\ \/ pc[p] = "request" /\ Refused(p) /\ NoFault
       \/ pc[p] \in {"request", "pages"} /\ Fault
    /\ pc' = [pc EXCEPT ![p] = "apply"]
    /\ newToken' = [newToken EXCEPT ![p] = pos[p]]
    /\ todo' = [todo EXCEPT ![p] = {}]
    /\ UNCHANGED <<entraVars, zitadelVars, deltaFile, token, pos, changes, cur,
                   pic, handled, excused, overtaken, overlapped>>

\* A page is refused: the loop breaks, keeps what it has and returns no link.
PageFails(p) ==
    /\ \/ pc[p] = "request" /\ Refused(p) /\ NoFault
       \/ pc[p] \in {"request", "pages"} /\ Fault
    /\ pc' = [pc EXCEPT ![p] = "apply"]
    /\ newToken' = [newToken EXCEPT ![p] = None]
    /\ todo' = [todo EXCEPT ![p] = {}]
    /\ UNCHANGED <<entraVars, zitadelVars, deltaFile, token, pos, changes, cur,
                   pic, handled, excused, overtaken, overlapped>>

\* A removed user, one without an address, or one get_user does not return:
\* not in Zitadel, or any answer but 200.
Skip(p) ==
    /\ pc[p] = "apply"
    /\ \E e \in changes[p] :
          /\ \/ (e.state # "mail" \/ e.user \notin imported) /\ NoFault
             \/ e.state = "mail" /\ e.user \in imported /\ Fault
          /\ changes' = [changes EXCEPT ![p] = @ \ {e}]
          /\ handled' = HandledUpTo(e)
          /\ excused' = GivenUp(e)
    /\ UNCHANGED <<entraVars, zitadelVars, deltaFile, pc, token, pos, todo,
                   newToken, cur, pic, overtaken, overlapped>>

\* get_user returns the user: its metadata is written next.
Lookup(p) ==
    /\ pc[p] = "apply"
    /\ \E e \in changes[p] :
          /\ e.state = "mail" /\ e.user \in imported
          /\ changes' = [changes EXCEPT ![p] = @ \ {e}]
          /\ cur' = [cur EXCEPT ![p] = {e}]
    /\ pc' = [pc EXCEPT ![p] = "meta"]
    /\ UNCHANGED <<entraVars, zitadelVars, deltaFile, token, pos, todo,
                   newToken, pic, historyVars>>

\* Variants of Merge: keys already present are kept; keys not sent are dropped.
MergeAbsentOnly(old, new) == [a \in Attrs |-> IF old[a] = Empty THEN new[a] ELSE old[a]]
MergeReplacing(old, new) == [a \in {b \in Attrs : new[b] # Empty} |-> new[a]]

\* set_metadata_bulk sends the non-empty attributes only; a key it does not
\* send keeps its value.
Merge(old, new) == [a \in Attrs |-> IF new[a] = Empty THEN old[a] ELSE new[a]]

\* The result of set_metadata_bulk is not looked at.
WriteMeta(p) ==
    /\ pc[p] = "meta"
    /\ \E e \in cur[p] :
          /\ handled' = HandledUpTo(e)
          /\ \/ /\ meta' = [meta EXCEPT ![e.user] = Merge(@, e.profile)]
                /\ IF e.at >= handled[e.user]
                   THEN /\ excused' = excused \ {e.user}
                        /\ overtaken' = overtaken \ {e.user}
                   ELSE /\ overtaken' = overtaken \cup {e.user}
                        /\ UNCHANGED excused
                /\ NoFault
             \/ /\ excused' = GivenUp(e)
                /\ Fault /\ UNCHANGED <<meta, overtaken>>
    /\ pc' = [pc EXCEPT ![p] = "photo"]
    /\ UNCHANGED <<entraVars, imported, avatar, deltaFile, token, pos, todo,
                   changes, newToken, cur, pic, overlapped>>

\* user_photo: the photo as it is now, or None on any answer but 200.
FetchPhoto(p) ==
    /\ pc[p] = "photo"
    /\ \E e \in cur[p] :
          \/ /\ photo[e.user] # NoPhoto
             /\ pic' = [pic EXCEPT ![p] = photo[e.user]]
             /\ pc' = [pc EXCEPT ![p] = "avatar"]
             /\ NoFault /\ UNCHANGED cur
          \/ /\ pc' = [pc EXCEPT ![p] = "apply"]
             /\ cur' = [cur EXCEPT ![p] = {}]
             /\ IF photo[e.user] = NoPhoto THEN NoFault ELSE Fault
             /\ UNCHANGED pic
    /\ UNCHANGED <<entraVars, zitadelVars, deltaFile, token, pos, todo, changes,
                   newToken, handled, excused, overtaken, overlapped>>

\* upload_avatar is best-effort: its failure ends the user like its success.
UploadAvatar(p) ==
    /\ pc[p] = "avatar"
    /\ \E e \in cur[p] :
          \/ avatar' = [avatar EXCEPT ![e.user] = pic[p]] /\ NoFault
          \/ UNCHANGED avatar /\ Fault
    /\ pc' = [pc EXCEPT ![p] = "apply"]
    /\ cur' = [cur EXCEPT ![p] = {}]
    /\ pic' = [pic EXCEPT ![p] = NoPhoto]
    /\ UNCHANGED <<entraVars, imported, meta, deltaFile, token, pos, todo,
                   changes, newToken, handled, excused, overtaken, overlapped>>

\* A variant of EndRun with a buffer that outlives the run, as a mutable default
\* argument does.
EndRunKeepingChanges(p) ==
    /\ pc' = [pc EXCEPT ![p] = "idle"]
    /\ token' = [token EXCEPT ![p] = None] /\ pos' = [pos EXCEPT ![p] = 0]
    /\ todo' = [todo EXCEPT ![p] = {}] /\ UNCHANGED changes
    /\ newToken' = [newToken EXCEPT ![p] = None]
    /\ cur' = [cur EXCEPT ![p] = {}] /\ pic' = [pic EXCEPT ![p] = NoPhoto]

\* The run is over and its locals are gone.
EndRun(p) ==
    /\ pc' = [pc EXCEPT ![p] = "idle"]
    /\ token' = [token EXCEPT ![p] = None] /\ pos' = [pos EXCEPT ![p] = 0]
    /\ todo' = [todo EXCEPT ![p] = {}] /\ changes' = [changes EXCEPT ![p] = {}]
    /\ newToken' = [newToken EXCEPT ![p] = None]
    /\ cur' = [cur EXCEPT ![p] = {}] /\ pic' = [pic EXCEPT ![p] = NoPhoto]

\* A variant that stores the token with entries still to apply.
AllAppliedEarly(p) == pc[p] = "apply"

AllApplied(p) == pc[p] = "apply" /\ changes[p] = {}

\* _write_delta opens the file, which empties it ...
OpenDelta(p) ==
    /\ AllApplied(p) /\ newToken[p] # None
    /\ deltaFile' = None
    /\ pc' = [pc EXCEPT ![p] = "write"]
    /\ UNCHANGED <<entraVars, zitadelVars, token, pos, todo, changes, newToken,
                   cur, pic, historyVars>>

\* ... and writes the token.
WriteDelta(p) ==
    /\ pc[p] = "write"
    /\ deltaFile' = newToken[p]
    /\ EndRun(p)
    /\ UNCHANGED <<entraVars, zitadelVars, historyVars>>

\* With no token there is nothing to store.
KeepDelta(p) ==
    /\ AllApplied(p) /\ newToken[p] = None
    /\ EndRun(p)
    /\ UNCHANGED <<entraVars, zitadelVars, deltaFile, historyVars>>

\* The run stops where it is: an exception that _guard or the interpreter
\* reports, a killed container, or an OSError of _write_delta, which only warns.
Abort(p) ==
    /\ pc[p] # "idle" /\ Fault
    /\ EndRun(p)
    /\ UNCHANGED <<entraVars, zitadelVars, deltaFile, handled, excused, overtaken, overlapped>>

Run(p) ==
    \/ Start(p) \/ OpenRound(p) \/ Page(p) \/ PageFails(p)
    \/ Skip(p) \/ Lookup(p) \/ WriteMeta(p) \/ FetchPhoto(p) \/ UploadAvatar(p)
    \/ OpenDelta(p) \/ WriteDelta(p) \/ KeepDelta(p) \/ Abort(p)

Environment ==
    \/ \E u \in Users : EditUser(u) \/ EditPhoto(u) \/ Appear(u)
    \/ ExpireTokens

Next == Environment \/ \E p \in Procs : Run(p)

Spec == Init /\ [][Next]_vars

\* The job is started again and again (a timer or an operator) and a started
\* run keeps going: every request returns or times out after 30 s.
FairSpec == Spec /\ \A p \in Procs : WF_vars(Run(p))

-----------------------------------------------------------------------------
(* Properties.                                                             *)

\* Every change at or before position n has been written or skipped.
Covered(n) == \A u \in Users : changedAt[u] <= n => handled[u] >= changedAt[u]

\* The stored delta token never covers a change no run has processed: what a
\* crash, a failed page or an overlapping run left undone is fetched again.
TokenIsCovered == Covered(deltaFile)

\* Metadata holds every attribute the profile sets.
Reflects(u) == \A a \in Attrs : profile[u][a] # Empty => meta[u][a] = profile[u][a]

\* A user whose newest change the stored token covers carries the attributes of
\* that change, however runs overlap, unless it was skipped, its metadata request
\* failed, or a slower run has written an older entry over it.
MirroredUnlessExcused ==
    \A u \in Users :
        (changedAt[u] <= deltaFile /\ u \notin excused \cup overtaken) => Reflects(u)

\* Only two runs at once can put an older entry over a newer one: a single run,
\* however slow, and whatever changes under its pages, never does.
OvertakenByOverlap == overtaken # {} => overlapped

\* A run under way starts from a token whose changes were processed, whatever
\* the other processes have stored or emptied since it read the file.
RunStartsCovered == \A p \in Procs : pc[p] # "idle" => Covered(token[p])

\* A user's blank attribute is blank in the metadata the token vouches for.
BlankIsBlank ==
    \A u \in Users :
        (changedAt[u] <= deltaFile /\ u \notin excused \cup overtaken)
            => \A a \in Attrs : profile[u][a] = Empty => meta[u][a] = Empty

\* Graph refuses the stored token.  users_delta then returns no link, so the
\* job never replaces the token: only removing profiles.delta helps.
Stuck == deltaFile # None /\ deltaFile < horizon

\* Every change is processed sooner or later, whatever runs failed, stopped or
\* overlapped, unless Graph has forgotten the stored token.
EveryChangeHandled == \A u \in Users : []<>(handled[u] = changedAt[u] \/ Stuck)

\* The job keeps the promise of a change-feed consumer.
Feed == INSTANCE ChangeFeed WITH acked <- deltaFile
ImplementsFeed == Feed!FeedSpec
=============================================================================
