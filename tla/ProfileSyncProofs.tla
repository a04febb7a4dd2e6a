------------------------- MODULE ProfileSyncProofs -------------------------
(***************************************************************************)
(* Proofs about ProfileSync for any set of users, attributes and processes *)
(* and any bound: types, what the stored delta token vouches for, that the *)
(* job implements the change-feed promise of ChangeFeed, and what the      *)
(* metadata hold.                                                          *)
(***************************************************************************)
EXTENDS ProfileSync, TLAPS

(***************************************************************************)
(* The inductive invariant.  TokenIsCovered alone is not inductive: the    *)
(* token a run will store must be covered by the time it stores it, so the *)
(* invariant follows a run and says where each change up to the position   *)
(* of its round still is: processed, on a page to come, among the fetched  *)
(* entries, or in the entry whose metadata is about to be written.         *)
(***************************************************************************)
Carries(e, u) == e.user = u /\ e.at >= changedAt[u]

Accounted(p, u) ==
    \/ handled[u] >= changedAt[u]
    \/ u \in todo[p]
    \/ \E e \in changes[p] : Carries(e, u)
    \/ pc[p] = "meta" /\ \E e \in cur[p] : Carries(e, u)

ClockInv ==
    /\ \A u \in Users : changedAt[u] <= clock /\ changedAt[u] >= 1
    /\ \A u \in Users : handled[u] <= clock
    /\ deltaFile <= clock

RunInv(p) ==
    /\ token[p] <= clock /\ pos[p] <= clock /\ newToken[p] <= clock
    /\ \A e \in changes[p] \cup cur[p] : e.at <= clock
    /\ \A e, f \in cur[p] : e = f
    /\ Covered(token[p])
    /\ pc[p] = "pages" => \A u \in Users : changedAt[u] <= pos[p] => Accounted(p, u)
    /\ pc[p] \in {"apply", "meta", "photo", "avatar"} =>
          /\ todo[p] = {}
          /\ \A u \in Users : changedAt[u] <= newToken[p] => Accounted(p, u)
    /\ pc[p] = "write" => Covered(newToken[p])

IInv == TypeOK /\ ClockInv /\ TokenIsCovered /\ \A p \in Procs : RunInv(p)

-----------------------------------------------------------------------------
LEMMA InitIInv == Init => IInv
<1>. SUFFICES ASSUME Init PROVE IInv
  OBVIOUS
<1>1. TypeOK
  BY DEF Init, TypeOK, Profiles, None
<1>2. ClockInv /\ TokenIsCovered
  BY DEF Init, ClockInv, TokenIsCovered, Covered, None
<1>3. \A p \in Procs : RunInv(p)
  BY DEF Init, RunInv, Covered, None
<1>. QED
  BY <1>1, <1>2, <1>3 DEF IInv

\* The record a page delivers for a user is an entry.
LEMMA EntryType ==
  ASSUME TypeOK, NEW u \in Users
  PROVE  /\ EntryOf(u) \in Entries
         /\ EntryOf(u).user = u /\ EntryOf(u).at = changedAt[u]
BY DEF TypeOK, EntryOf, Entries

LEMMA MergeType ==
  ASSUME NEW old \in Profiles, NEW new \in Profiles
  PROVE  Merge(old, new) \in Profiles
BY DEF Merge, Profiles

LEMMA HandledType ==
  ASSUME TypeOK, NEW e \in Entries
  PROVE  /\ HandledUpTo(e) \in [Users -> Nat]
         /\ \A u \in Users : HandledUpTo(e)[u] >= handled[u]
         /\ HandledUpTo(e)[e.user] >= e.at
         /\ \A u \in Users : HandledUpTo(e)[u] \in {handled[u], e.at}
BY DEF TypeOK, HandledUpTo, Entries

-----------------------------------------------------------------------------
\* Types are preserved by every step.
LEMMA TypeStep == TypeOK /\ [Next]_vars => TypeOK'
<1>. SUFFICES ASSUME TypeOK, [Next]_vars PROVE TypeOK'
  OBVIOUS
<1>. USE DEF None
<1>1. ASSUME NEW u \in Users, EditUser(u) PROVE TypeOK'
  BY <1>1 DEF TypeOK, EditUser, zitadelVars, runVars, historyVars
<1>2. ASSUME NEW u \in Users, EditPhoto(u) PROVE TypeOK'
  BY <1>2 DEF TypeOK, EditPhoto, zitadelVars, runVars, historyVars
<1>3. ASSUME NEW u \in Users, Appear(u) PROVE TypeOK'
  BY <1>3 DEF TypeOK, Appear, entraVars, runVars, historyVars
<1>4. CASE ExpireTokens
  BY <1>4 DEF TypeOK, ExpireTokens, zitadelVars, runVars, historyVars
<1>5. ASSUME NEW p \in Procs, Start(p) PROVE TypeOK'
  BY <1>5 DEF TypeOK, Start, entraVars, zitadelVars
<1>6. ASSUME NEW p \in Procs, OpenRound(p) PROVE TypeOK'
  BY <1>6 DEF TypeOK, OpenRound, entraVars, zitadelVars, historyVars
<1>7. ASSUME NEW p \in Procs, Page(p) PROVE TypeOK'
  <2>1. PICK S \in SUBSET todo[p] :
          /\ todo' = [todo EXCEPT ![p] = @ \ S]
          /\ changes' = [changes EXCEPT ![p] = @ \cup {EntryOf(u) : u \in S}]
          /\ IF S = todo[p]
             THEN /\ pc' = [pc EXCEPT ![p] = "apply"]
                  /\ newToken' = [newToken EXCEPT ![p] = pos[p]]
             ELSE UNCHANGED <<pc, newToken>>
    BY <1>7 DEF Page
  <2>2. S \in SUBSET Users /\ todo[p] \in SUBSET Users
    BY DEF TypeOK
  <2>3. {EntryOf(u) : u \in S} \in SUBSET Entries
    BY <2>2, EntryType
  <2>4. changes' \in [Procs -> SUBSET Entries]
    BY <2>1, <2>3 DEF TypeOK
  <2>5. todo' \in [Procs -> SUBSET Users]
    BY <2>1, <2>2 DEF TypeOK
  <2>6. pc' \in [Procs -> {"idle", "request", "pages", "apply", "meta", "photo",
                           "avatar", "write"}]
        /\ newToken' \in [Procs -> Nat]
    BY <2>1 DEF TypeOK
  <2>. QED
    BY <1>7, <2>4, <2>5, <2>6 DEF TypeOK, Page, entraVars, zitadelVars, historyVars
<1>8. ASSUME NEW p \in Procs, PageFails(p) PROVE TypeOK'
  BY <1>8 DEF TypeOK, PageFails, Fault, NoFault, entraVars, zitadelVars
<1>9. ASSUME NEW p \in Procs, Skip(p) PROVE TypeOK'
  <2>1. PICK e \in changes[p] :
          /\ changes' = [changes EXCEPT ![p] = @ \ {e}]
          /\ handled' = HandledUpTo(e)
          /\ excused' = GivenUp(e)
          /\ NoFault \/ Fault
    BY <1>9 DEF Skip
  <2>2. e \in Entries /\ e.user \in Users
    BY DEF TypeOK, Entries
  <2>3. handled' \in [Users -> Nat] /\ excused' \in SUBSET Users
    BY <2>1, <2>2, HandledType DEF TypeOK, GivenUp
  <2>4. changes' \in [Procs -> SUBSET Entries] /\ faults' \in Nat
    BY <2>1 DEF TypeOK, Fault, NoFault
  <2>. QED
    BY <1>9, <2>3, <2>4 DEF TypeOK, Skip, entraVars, zitadelVars
<1>10. ASSUME NEW p \in Procs, Lookup(p) PROVE TypeOK'
  BY <1>10 DEF TypeOK, Lookup, entraVars, zitadelVars, historyVars
<1>11. ASSUME NEW p \in Procs, WriteMeta(p) PROVE TypeOK'
  <2>1. PICK e \in cur[p] :
          /\ handled' = HandledUpTo(e)
          /\ meta' \in {meta, [meta EXCEPT ![e.user] = Merge(@, e.profile)]}
          /\ excused' \in {excused, excused \ {e.user}, GivenUp(e)}
          /\ overtaken' \in {overtaken, overtaken \ {e.user}, overtaken \cup {e.user}}
          /\ NoFault \/ Fault
    BY <1>11 DEF WriteMeta
  <2>2. e \in Entries /\ e.user \in Users /\ e.profile \in Profiles
    BY DEF TypeOK, Entries
  <2>3. Merge(meta[e.user], e.profile) \in Profiles
    BY <2>2, MergeType DEF TypeOK
  <2>4. /\ meta' \in [Users -> Profiles] /\ faults' \in Nat
        /\ excused' \in SUBSET Users /\ overtaken' \in SUBSET Users
    BY <2>1, <2>2, <2>3 DEF TypeOK, GivenUp, Fault, NoFault
  <2>5. handled' \in [Users -> Nat]
    BY <2>1, <2>2, HandledType DEF TypeOK
  <2>. QED
    BY <1>11, <2>4, <2>5 DEF TypeOK, WriteMeta, entraVars
<1>12. ASSUME NEW p \in Procs, FetchPhoto(p) PROVE TypeOK'
  <2>1. PICK e \in cur[p] :
          /\ pic' \in {pic, [pic EXCEPT ![p] = photo[e.user]]}
          /\ cur' \in {cur, [cur EXCEPT ![p] = {}]}
          /\ pc' \in {[pc EXCEPT ![p] = "avatar"], [pc EXCEPT ![p] = "apply"]}
          /\ faults' \in {faults, faults + 1}
    BY <1>12 DEF FetchPhoto, Fault, NoFault
  <2>2. photo[e.user] \in Photos \cup {NoPhoto}
    BY DEF TypeOK, Entries
  <2>3. pic' \in [Procs -> Photos \cup {NoPhoto}] /\ cur' \in [Procs -> SUBSET Entries]
    BY <2>1, <2>2 DEF TypeOK
  <2>4. pc' \in [Procs -> {"idle", "request", "pages", "apply", "meta", "photo",
                           "avatar", "write"}] /\ faults' \in Nat
    BY <2>1 DEF TypeOK
  <2>. QED
    BY <1>12, <2>3, <2>4 DEF TypeOK, FetchPhoto, entraVars, zitadelVars
<1>13. ASSUME NEW p \in Procs, UploadAvatar(p) PROVE TypeOK'
  <2>1. PICK e \in cur[p] :
          /\ avatar' \in {avatar, [avatar EXCEPT ![e.user] = pic[p]]}
          /\ faults' \in {faults, faults + 1}
    BY <1>13 DEF UploadAvatar, Fault, NoFault
  <2>2. avatar' \in [Users -> Photos \cup {NoPhoto}] /\ faults' \in Nat
    BY <2>1 DEF TypeOK, Entries
  <2>. QED
    BY <1>13, <2>2 DEF TypeOK, UploadAvatar, entraVars
<1>14. ASSUME NEW p \in Procs, OpenDelta(p) PROVE TypeOK'
  BY <1>14 DEF TypeOK, OpenDelta, entraVars, zitadelVars, historyVars
<1>15. ASSUME NEW p \in Procs, WriteDelta(p) PROVE TypeOK'
  BY <1>15 DEF TypeOK, WriteDelta, EndRun, entraVars, zitadelVars, historyVars
<1>16. ASSUME NEW p \in Procs, KeepDelta(p) PROVE TypeOK'
  BY <1>16 DEF TypeOK, KeepDelta, EndRun, entraVars, zitadelVars, historyVars
<1>17. ASSUME NEW p \in Procs, Abort(p) PROVE TypeOK'
  BY <1>17 DEF TypeOK, Abort, EndRun, Fault, entraVars, zitadelVars
<1>18. CASE UNCHANGED vars
  BY <1>18 DEF TypeOK, vars, entraVars, zitadelVars, runVars, historyVars
<1>. QED
  BY <1>1, <1>2, <1>3, <1>4, <1>5, <1>6, <1>7, <1>8, <1>9, <1>10, <1>11, <1>12,
     <1>13, <1>14, <1>15, <1>16, <1>17, <1>18 DEF Next, Environment, Run

\* TypeOK of the runs, for every value of the constants.
THEOREM TypeCorrect == Spec => []TypeOK
<1>1. Init => TypeOK
  BY InitIInv DEF IInv
<1>. QED
  BY <1>1, TypeStep, PTL DEF Spec

-----------------------------------------------------------------------------
\* Positions that were covered stay covered while users do not change.
LEMMA CoveredStays ==
  ASSUME NEW n \in Nat, TypeOK, TypeOK', changedAt' = changedAt,
         \A u \in Users : handled'[u] >= handled[u], Covered(n)
  PROVE  Covered(n)'
<1>. SUFFICES ASSUME NEW u \in Users, changedAt[u] <= n
              PROVE  handled'[u] >= changedAt[u]
  BY DEF Covered
<1>1. handled[u] >= changedAt[u]
  BY DEF Covered
<1>. QED
  BY <1>1 DEF TypeOK

\* A run keeps its invariant while other processes take steps.
LEMMA RunUntouched ==
  ASSUME TypeOK, TypeOK', NEW q \in Procs, RunInv(q),
         pc'[q] = pc[q], token'[q] = token[q], pos'[q] = pos[q],
         todo'[q] = todo[q], changes'[q] = changes[q],
         newToken'[q] = newToken[q], cur'[q] = cur[q],
         changedAt' = changedAt, clock' >= clock,
         \A u \in Users : handled'[u] >= handled[u]
  PROVE  RunInv(q)'
<1>1. token'[q] <= clock' /\ pos'[q] <= clock' /\ newToken'[q] <= clock'
  BY DEF RunInv, TypeOK
<1>2. \A e \in changes'[q] \cup cur'[q] : e.at <= clock'
  BY DEF RunInv, TypeOK, Entries
<1>3. Covered(token[q])' /\ (pc'[q] = "write" => Covered(newToken[q])')
  BY CoveredStays DEF RunInv, TypeOK, Covered
<1>4. \A u \in Users : Accounted(q, u) => Accounted(q, u)'
  BY DEF Accounted, Carries, TypeOK
<1>. QED
  BY <1>1, <1>2, <1>3, <1>4 DEF RunInv

\* A run keeps its invariant when a user changes: the new change lies beyond
\* every position the run knows.
LEMMA RunSeesNoNewChange ==
  ASSUME TypeOK, ClockInv, NEW q \in Procs, RunInv(q), NEW u \in Users,
         changedAt' = [changedAt EXCEPT ![u] = clock + 1], clock' = clock + 1,
         UNCHANGED runVars, UNCHANGED handled
  PROVE  RunInv(q)'
<1>1. \A v \in Users, n \in Nat : n <= clock /\ changedAt'[v] <= n =>
          v # u /\ changedAt[v] <= n /\ changedAt'[v] = changedAt[v]
  BY DEF TypeOK
<1>2. token[q] \in Nat /\ pos[q] \in Nat /\ newToken[q] \in Nat
  BY DEF TypeOK
<1>3. token'[q] <= clock' /\ pos'[q] <= clock' /\ newToken'[q] <= clock'
  BY DEF RunInv, TypeOK, runVars
<1>4. \A e \in changes'[q] \cup cur'[q] : e.at <= clock'
  BY DEF RunInv, TypeOK, Entries, runVars
<1>5. Covered(token[q])' /\ (pc'[q] = "write" => Covered(newToken[q])')
  BY <1>1, <1>2 DEF RunInv, Covered, runVars
<1>6. \A v \in Users : v # u /\ Accounted(q, v) => Accounted(q, v)'
  BY DEF Accounted, Carries, TypeOK, runVars
<1>. QED
  BY <1>1, <1>2, <1>3, <1>4, <1>5, <1>6 DEF RunInv, runVars

\* A run that ends leaves nothing behind.
LEMMA EndedRun ==
  ASSUME TypeOK, TypeOK', ClockInv', NEW p \in Procs, EndRun(p)
  PROVE  RunInv(p)'
BY DEF TypeOK, ClockInv, EndRun, RunInv, Covered, None

\* What EndRun leaves of another process's run.
LEMMA EndRunOthers ==
  ASSUME TypeOK, NEW p \in Procs, EndRun(p), NEW q \in Procs \ {p}
  PROVE  /\ pc'[q] = pc[q] /\ token'[q] = token[q] /\ pos'[q] = pos[q]
         /\ todo'[q] = todo[q] /\ changes'[q] = changes[q]
         /\ newToken'[q] = newToken[q] /\ cur'[q] = cur[q]
BY DEF TypeOK, EndRun

\* What is left to show for a step of process p's run: the invariant of that
\* run, and that the delta file holds a covered position.
LEMMA RunStep ==
  ASSUME IInv, TypeOK', NEW p \in Procs,
         changedAt' = changedAt, clock' = clock,
         \A u \in Users : handled'[u] >= handled[u] /\ handled'[u] <= clock,
         deltaFile' <= clock, Covered(deltaFile'),
         RunInv(p)',
         \A q \in Procs \ {p} :
            /\ pc'[q] = pc[q] /\ token'[q] = token[q] /\ pos'[q] = pos[q]
            /\ todo'[q] = todo[q] /\ changes'[q] = changes[q]
            /\ newToken'[q] = newToken[q] /\ cur'[q] = cur[q]
  PROVE  IInv'
<1>1. ClockInv'
  BY DEF IInv, ClockInv, TypeOK
<1>2. TokenIsCovered'
  <2>1. deltaFile' \in Nat
    BY DEF TypeOK
  <2>. QED
    BY <2>1, CoveredStays DEF TokenIsCovered, Covered, IInv
<1>3. ASSUME NEW q \in Procs \ {p} PROVE RunInv(q)'
  BY <1>3, RunUntouched DEF IInv, TypeOK
<1>. QED
  BY <1>1, <1>2, <1>3 DEF IInv

LEMMA IInvStep == IInv /\ [Next]_vars => IInv'
<1>. SUFFICES ASSUME IInv, [Next]_vars PROVE IInv'
  OBVIOUS
<1>. USE DEF None
<1>t. TypeOK /\ TypeOK'
  BY TypeStep DEF IInv
<1>h. \A u \in Users : handled[u] >= handled[u] /\ handled[u] <= clock
  BY <1>t DEF IInv, ClockInv, TypeOK
<1>d. deltaFile <= clock /\ Covered(deltaFile) /\ Covered(0) /\ 0 <= clock
  BY <1>t DEF IInv, ClockInv, TypeOK, TokenIsCovered, Covered
<1>1. ASSUME NEW u \in Users, EditUser(u) PROVE IInv'
  <2>1. \A q \in Procs : RunInv(q)'
    BY <1>1, <1>t, RunSeesNoNewChange DEF IInv, EditUser, historyVars
  <2>2. ClockInv' /\ TokenIsCovered'
    BY <1>1, <1>t DEF IInv, ClockInv, TokenIsCovered, Covered, EditUser, TypeOK,
                     historyVars
  <2>. QED
    BY <2>1, <2>2, <1>t DEF IInv
<1>2. ASSUME changedAt' = changedAt, clock' >= clock, UNCHANGED handled,
             UNCHANGED deltaFile, UNCHANGED runVars
      PROVE  IInv'
  <2>1. \A q \in Procs : RunInv(q)'
    BY <1>2, <1>t, RunUntouched DEF IInv, TypeOK, runVars
  <2>2. ClockInv' /\ TokenIsCovered'
    BY <1>2, <1>t DEF IInv, ClockInv, TokenIsCovered, Covered, TypeOK
  <2>. QED
    BY <2>1, <2>2, <1>t DEF IInv
<1>3. ASSUME NEW u \in Users, EditPhoto(u) PROVE IInv'
  BY <1>3, <1>2, <1>t DEF EditPhoto, historyVars, TypeOK
<1>4. ASSUME NEW u \in Users, Appear(u) PROVE IInv'
  BY <1>4, <1>2, <1>t DEF Appear, historyVars, entraVars, TypeOK
<1>5. CASE ExpireTokens
  BY <1>5, <1>2, <1>t DEF ExpireTokens, historyVars, TypeOK
<1>6. ASSUME NEW p \in Procs, Start(p) PROVE IInv'
  <2>1. RunInv(p)'
    BY <1>6, <1>t, <1>d DEF IInv, Start, RunInv, Covered, entraVars, TypeOK
  <2>. QED
    BY <1>6, <2>1, <1>t, <1>h, <1>d, RunStep DEF Start, entraVars, TypeOK
<1>7. ASSUME NEW p \in Procs, OpenRound(p) PROVE IInv'
  <2>1. \A u \in Users : Accounted(p, u)'
    BY <1>7, <1>t DEF IInv, OpenRound, RunInv, Covered, Accounted, entraVars,
                     historyVars, TypeOK
  <2>2. RunInv(p)'
    BY <1>7, <2>1, <1>t DEF IInv, OpenRound, RunInv, Covered, entraVars,
                           historyVars, TypeOK
  <2>. QED
    BY <1>7, <2>2, <1>t, <1>h, <1>d, RunStep
       DEF OpenRound, entraVars, historyVars, TypeOK
<1>8. ASSUME NEW p \in Procs, Page(p) PROVE IInv'
  <2>1. PICK S \in SUBSET todo[p] :
          /\ todo' = [todo EXCEPT ![p] = @ \ S]
          /\ changes' = [changes EXCEPT ![p] = @ \cup {EntryOf(u) : u \in S}]
          /\ IF S = todo[p]
             THEN /\ pc' = [pc EXCEPT ![p] = "apply"]
                  /\ newToken' = [newToken EXCEPT ![p] = pos[p]]
             ELSE UNCHANGED <<pc, newToken>>
    BY <1>8 DEF Page
  <2>2. S \in SUBSET Users /\ pc[p] = "pages" /\ RunInv(p)
    BY <1>8, <1>t DEF TypeOK, Page, IInv
  <2>3. UNCHANGED <<changedAt, clock, handled, deltaFile, token, pos, cur>>
    BY <1>8 DEF Page, entraVars, historyVars
  <2>4. /\ todo'[p] = todo[p] \ S
        /\ changes'[p] = changes[p] \cup {EntryOf(u) : u \in S}
    BY <2>1, <1>t DEF TypeOK
  <2>5. \A u \in Users : changedAt[u] <= pos[p] => Accounted(p, u)'
    <3>. SUFFICES ASSUME NEW u \in Users, changedAt[u] <= pos[p]
                  PROVE  Accounted(p, u)'
      OBVIOUS
    <3>1. Accounted(p, u)
      BY <2>2 DEF RunInv
    <3>2. CASE u \in S
      <4>1. EntryOf(u) \in changes'[p] /\ EntryOf(u).user = u
             /\ EntryOf(u).at >= changedAt'[u]
        BY <3>2, <2>3, <2>4, <1>t, EntryType DEF TypeOK
      <4>. QED
        BY <4>1 DEF Accounted, Carries
    <3>3. CASE u \notin S
      BY <3>1, <3>3, <2>2, <2>3, <2>4 DEF Accounted, Carries
    <3>. QED
      BY <3>2, <3>3
  <2>6. \A e \in changes'[p] \cup cur'[p] : e.at <= clock'
    BY <2>2, <2>3, <2>4, <1>t, EntryType DEF RunInv, IInv, ClockInv
  <2>7. Covered(token[p])'
    BY <2>2, <2>3 DEF RunInv, Covered
  <2>8. RunInv(p)'
    <3>1. CASE S = todo[p]
      BY <3>1, <2>1, <2>2, <2>3, <2>4, <2>5, <2>6, <2>7, <1>t DEF RunInv, TypeOK
    <3>2. CASE S # todo[p]
      BY <3>2, <2>1, <2>2, <2>3, <2>4, <2>5, <2>6, <2>7, <1>t DEF RunInv, TypeOK
    <3>. QED
      BY <3>1, <3>2
  <2>. QED
    BY <2>1, <2>3, <2>8, <1>t, <1>h, <1>d, RunStep DEF TypeOK
<1>9. ASSUME NEW p \in Procs, PageFails(p) PROVE IInv'
  <2>1. RunInv(p)'
    BY <1>9, <1>t DEF IInv, PageFails, RunInv, Covered, ClockInv, Accounted,
                     entraVars, TypeOK
  <2>. QED
    BY <1>9, <2>1, <1>t, <1>h, <1>d, RunStep DEF PageFails, entraVars, TypeOK
<1>10. ASSUME NEW p \in Procs, Skip(p) PROVE IInv'
  <2>1. PICK e \in changes[p] :
          /\ changes' = [changes EXCEPT ![p] = @ \ {e}]
          /\ handled' = HandledUpTo(e)
    BY <1>10 DEF Skip
  <2>2. e \in Entries /\ e.at <= clock /\ pc[p] = "apply" /\ RunInv(p)
    BY <1>10, <1>t DEF IInv, RunInv, TypeOK, Skip
  <2>3. \A u \in Users : handled'[u] >= handled[u] /\ handled'[u] <= clock
    BY <2>1, <2>2, <1>h, <1>t, HandledType DEF TypeOK, Entries
  <2>4. UNCHANGED <<changedAt, clock, deltaFile, pc, token, pos, todo, newToken, cur>>
    BY <1>10 DEF Skip, entraVars
  <2>5. \A u \in Users : Accounted(p, u) => Accounted(p, u)'
    BY <2>1, <2>2, <2>3, <2>4, <1>t, HandledType DEF Accounted, Carries, TypeOK, Entries
  <2>6. Covered(token[p])'
    BY <2>2, <2>3, <2>4, <1>t, CoveredStays DEF RunInv, TypeOK, Covered
  <2>7. RunInv(p)'
    BY <2>1, <2>2, <2>4, <2>5, <2>6, <1>t DEF RunInv, TypeOK
  <2>. QED
    BY <2>1, <2>3, <2>4, <2>7, <1>t, <1>d, RunStep DEF TypeOK
<1>11. ASSUME NEW p \in Procs, Lookup(p) PROVE IInv'
  <2>1. RunInv(p)'
    BY <1>11, <1>t DEF IInv, Lookup, RunInv, Covered, Accounted, Carries,
                      entraVars, historyVars, TypeOK
  <2>. QED
    BY <1>11, <2>1, <1>t, <1>h, <1>d, RunStep DEF Lookup, entraVars, historyVars, TypeOK
<1>12. ASSUME NEW p \in Procs, WriteMeta(p) PROVE IInv'
  <2>1. PICK e \in cur[p] : handled' = HandledUpTo(e)
    BY <1>12 DEF WriteMeta
  <2>2. e \in Entries /\ e.at <= clock /\ pc[p] = "meta" /\ RunInv(p)
    BY <1>12, <1>t DEF IInv, RunInv, TypeOK, WriteMeta
  <2>3. \A u \in Users : handled'[u] >= handled[u] /\ handled'[u] <= clock
    BY <2>1, <2>2, <1>h, <1>t, HandledType DEF TypeOK, Entries
  <2>4. UNCHANGED <<changedAt, clock, deltaFile, token, pos, todo, changes, newToken, cur>>
        /\ pc' = [pc EXCEPT ![p] = "photo"]
    BY <1>12 DEF WriteMeta, entraVars
  <2>5. \A u \in Users : Accounted(p, u) => Accounted(p, u)'
    <3>. SUFFICES ASSUME NEW u \in Users, Accounted(p, u) PROVE Accounted(p, u)'
      OBVIOUS
    <3>1. ASSUME NEW f \in cur[p], Carries(f, u) PROVE handled'[u] >= changedAt'[u]
      <4>1. f = e
        BY <2>2 DEF RunInv
      <4>. QED
        BY <4>1, <3>1, <2>1, <2>2, <2>4, <1>t, HandledType DEF Carries, TypeOK, Entries
    <3>. QED
      BY <3>1, <2>3, <2>4, <1>t DEF Accounted, Carries, TypeOK
  <2>6. Covered(token[p])'
    BY <2>2, <2>3, <2>4, <1>t, CoveredStays DEF RunInv, TypeOK, Covered
  <2>7. RunInv(p)'
    BY <2>2, <2>4, <2>5, <2>6, <1>t DEF RunInv, TypeOK
  <2>. QED
    BY <2>3, <2>4, <2>7, <1>t, <1>d, RunStep DEF TypeOK
<1>13. ASSUME NEW p \in Procs, pc[p] \in {"photo", "avatar"},
              UNCHANGED <<changedAt, clock, handled, deltaFile, token, pos, todo,
                          changes, newToken>>,
              pc'[p] \in {"apply", "avatar"}, cur'[p] \in {cur[p], {}},
              \A q \in Procs \ {p} : pc'[q] = pc[q] /\ cur'[q] = cur[q]
       PROVE  IInv'
  <2>1. RunInv(p)
    BY DEF IInv
  <2>2. \A u \in Users : Accounted(p, u) => Accounted(p, u)'
    BY <1>13 DEF Accounted, Carries
  <2>3. Covered(token[p])'
    BY <1>13, <2>1 DEF RunInv, Covered
  <2>4. /\ \A e \in changes'[p] \cup cur'[p] : e.at <= clock'
        /\ \A e, f \in cur'[p] : e = f
    BY <1>13, <2>1 DEF RunInv
  <2>5. RunInv(p)'
    BY <1>13, <2>1, <2>2, <2>3, <2>4 DEF RunInv
  <2>. QED
    BY <1>13, <2>5, <1>t, <1>h, <1>d, RunStep
<1>14. ASSUME NEW p \in Procs, FetchPhoto(p) \/ UploadAvatar(p) PROVE IInv'
  <2>1. /\ pc[p] \in {"photo", "avatar"}
        /\ UNCHANGED <<changedAt, clock, handled, deltaFile, token, pos, todo,
                       changes, newToken>>
    BY <1>14 DEF FetchPhoto, UploadAvatar, entraVars, zitadelVars
  <2>2. /\ pc' = [pc EXCEPT ![p] = "apply"] \/ pc' = [pc EXCEPT ![p] = "avatar"]
        /\ cur' = cur \/ cur' = [cur EXCEPT ![p] = {}]
    BY <1>14 DEF FetchPhoto, UploadAvatar
  <2>3. /\ pc'[p] \in {"apply", "avatar"} /\ cur'[p] \in {cur[p], {}}
        /\ \A q \in Procs \ {p} : pc'[q] = pc[q] /\ cur'[q] = cur[q]
    BY <2>2, <1>t DEF TypeOK
  <2>. QED
    BY <2>1, <2>3, <1>13
<1>15. ASSUME NEW p \in Procs, OpenDelta(p) PROVE IInv'
  <2>1. RunInv(p)'
    BY <1>15, <1>t DEF IInv, OpenDelta, AllApplied, RunInv, Covered, Accounted,
                      entraVars, historyVars, TypeOK
  <2>. QED
    BY <1>15, <2>1, <1>t, <1>h, <1>d, RunStep DEF OpenDelta, entraVars, historyVars, TypeOK
<1>16. ASSUME NEW p \in Procs, EndRun(p), UNCHANGED <<changedAt, clock, handled>>,
              deltaFile' <= clock, Covered(deltaFile')
       PROVE  IInv'
  <2>1. ClockInv'
    BY <1>16, <1>t DEF IInv, ClockInv, TypeOK
  <2>2. RunInv(p)'
    BY <1>16, <2>1, <1>t, EndedRun
  <2>. QED
    BY <1>16, <2>2, <1>t, <1>h, EndRunOthers, RunStep
<1>17. ASSUME NEW p \in Procs, WriteDelta(p) PROVE IInv'
  <2>1. newToken[p] <= clock /\ Covered(newToken[p])
    BY <1>17 DEF IInv, RunInv, WriteDelta
  <2>. QED
    BY <1>17, <2>1, <1>16 DEF WriteDelta, entraVars, historyVars
<1>18. ASSUME NEW p \in Procs, KeepDelta(p) PROVE IInv'
  BY <1>18, <1>d, <1>16 DEF KeepDelta, entraVars, historyVars
<1>19. ASSUME NEW p \in Procs, Abort(p) PROVE IInv'
  BY <1>19, <1>d, <1>16 DEF Abort, entraVars
<1>20. CASE UNCHANGED vars
  BY <1>20, <1>2, <1>t DEF vars, entraVars, historyVars, TypeOK
<1>. QED
  BY <1>1, <1>3, <1>4, <1>5, <1>6, <1>7, <1>8, <1>9, <1>10, <1>11, <1>12,
     <1>14, <1>15, <1>17, <1>18, <1>19, <1>20 DEF Next, Environment, Run

LEMMA IInvAlways == Spec => []IInv
<1>. QED
  BY InitIInv, IInvStep, PTL DEF Spec

\* Whatever runs overlap, crash or lose a page, the stored delta token covers
\* only changes that were written or skipped.
THEOREM TokenAlwaysCovered == Spec => []TokenIsCovered
<1>1. IInv => TokenIsCovered
  BY DEF IInv
<1>. QED
  BY <1>1, IInvAlways, PTL

\* And so is the token every run under way started from.
THEOREM RunsStartCovered == Spec => []RunStartsCovered
<1>1. IInv => RunStartsCovered
  BY DEF IInv, RunInv, RunStartsCovered
<1>. QED
  BY <1>1, IInvAlways, PTL

-----------------------------------------------------------------------------
\* Every step of the job is a step of a change-feed consumer, or none.
LEMMA FeedStep == IInv /\ [Next]_vars => [Feed!FeedNext]_(Feed!feedVars)
<1>. SUFFICES ASSUME IInv, [Next]_vars
              PROVE  Feed!FeedNext \/ UNCHANGED Feed!feedVars
  OBVIOUS
<1>t. TypeOK
  BY DEF IInv
<1>1. ASSUME NEW u \in Users, EditUser(u) PROVE Feed!Change(u)
  BY <1>1 DEF EditUser, historyVars, Feed!Change
<1>2. CASE ExpireTokens
  BY <1>2 DEF ExpireTokens, historyVars, Feed!FeedNext, Feed!Tick
<1>3. ASSUME NEW p \in Procs, NEW e \in changes[p] \cup cur[p],
             handled' = HandledUpTo(e), UNCHANGED <<clock, changedAt, deltaFile>>
      PROVE  Feed!Handle(e.user) /\ e.user \in Users
  <2>1. e \in Entries /\ e.user \in Users /\ e.at \in 0..clock
    BY <1>t DEF IInv, RunInv, TypeOK, Entries
  <2>2. handled[e.user] \in 0..clock
    BY <2>1, <1>t DEF IInv, ClockInv, TypeOK
  <2>3. \E n \in 0..clock : n >= handled[e.user] /\ handled' = [handled EXCEPT ![e.user] = n]
    <3>1. CASE e.at > handled[e.user]
      <4>1. handled' = [handled EXCEPT ![e.user] = e.at]
        BY <3>1, <1>3 DEF HandledUpTo
      <4>2. e.at >= handled[e.user]
        BY <3>1, <2>1, <2>2, <1>t DEF TypeOK
      <4>. QED
        BY <4>1, <4>2, <2>1
    <3>2. CASE ~(e.at > handled[e.user])
      <4>1. handled' = [handled EXCEPT ![e.user] = handled[e.user]]
        BY <3>2, <1>3 DEF HandledUpTo
      <4>2. handled[e.user] >= handled[e.user]
        BY <2>1, <1>t DEF TypeOK
      <4>. QED
        BY <4>1, <4>2, <2>2
    <3>. QED
      BY <3>1, <3>2
  <2>. QED
    BY <2>1, <2>3, <1>3 DEF Feed!Handle
<1>4. ASSUME NEW p \in Procs, Skip(p) \/ WriteMeta(p) PROVE Feed!FeedNext
  <2>1. PICK e \in changes[p] \cup cur[p] : handled' = HandledUpTo(e)
    BY <1>4 DEF Skip, WriteMeta
  <2>2. UNCHANGED <<clock, changedAt, deltaFile>>
    BY <1>4 DEF Skip, WriteMeta, entraVars
  <2>. QED
    BY <2>1, <2>2, <1>3 DEF Feed!FeedNext
<1>5. ASSUME NEW p \in Procs, OpenDelta(p) PROVE Feed!FeedNext
  <2>1. Feed!Covered(0) /\ 0 \in 0..clock
    BY <1>t DEF IInv, ClockInv, Feed!Covered, TypeOK
  <2>. QED
    BY <1>5, <2>1 DEF OpenDelta, None, entraVars, historyVars, Feed!FeedNext, Feed!Acknowledge
<1>6. ASSUME NEW p \in Procs, WriteDelta(p) PROVE Feed!FeedNext
  <2>1. Feed!Covered(newToken[p]) /\ newToken[p] \in 0..clock
    BY <1>6, <1>t DEF IInv, RunInv, WriteDelta, Covered, Feed!Covered, TypeOK
  <2>. QED
    BY <1>6, <2>1 DEF WriteDelta, entraVars, historyVars, Feed!FeedNext, Feed!Acknowledge
<1>7. ASSUME NEW p \in Procs,
             \/ Start(p) \/ OpenRound(p) \/ Page(p) \/ PageFails(p) \/ Lookup(p)
             \/ FetchPhoto(p) \/ UploadAvatar(p) \/ KeepDelta(p) \/ Abort(p)
      PROVE  UNCHANGED Feed!feedVars
  BY <1>7 DEF Start, OpenRound, Page, PageFails, Lookup, FetchPhoto, UploadAvatar,
              KeepDelta, Abort, entraVars, historyVars, Feed!feedVars
<1>8. ASSUME NEW u \in Users, EditPhoto(u) \/ Appear(u) PROVE UNCHANGED Feed!feedVars
  BY <1>8 DEF EditPhoto, Appear, entraVars, historyVars, Feed!feedVars
<1>9. CASE UNCHANGED vars
  BY <1>9 DEF vars, entraVars, historyVars, Feed!feedVars
<1>. QED
  BY <1>1, <1>2, <1>4, <1>5, <1>6, <1>7, <1>8, <1>9
     DEF Next, Environment, Run, Feed!FeedNext

\* The profile synchronisation implements the change-feed promise.
THEOREM Refinement == Spec => ImplementsFeed
<1>1. Init => Feed!FeedInit
  BY DEF Init, None, Feed!FeedInit
<1>. QED
  BY <1>1, FeedStep, IInvAlways, PTL DEF Spec, ImplementsFeed, Feed!FeedSpec

-----------------------------------------------------------------------------
(***************************************************************************)
(* What the metadata hold, however runs overlap.  An entry in hand is      *)
(* never newer than its user's newest change, and carries the profile of   *)
(* that change if it is as new; so what the newest processed change left   *)
(* in the metadata is the newest profile, unless that change was given up  *)
(* or an older entry came after it.                                        *)
(***************************************************************************)
InHand(p) == changes[p] \cup (IF pc[p] = "meta" THEN cur[p] ELSE {})

Genuine(e) ==
    /\ e.at <= changedAt[e.user]
    /\ e.at = changedAt[e.user] => e.profile = profile[e.user]

Mirrors(u) ==
    handled[u] >= changedAt[u] /\ u \notin excused \cup overtaken => Reflects(u)

MirrorInv ==
    /\ \A p \in Procs : \A e \in InHand(p) : Genuine(e)
    /\ \A u \in Users : handled[u] <= changedAt[u] /\ Mirrors(u)

\* No entry is in hand, and no change has been processed.
LEMMA InitMirrorInv == Init => MirrorInv
BY DEF Init, MirrorInv, InHand, Mirrors

\* A written entry that is the newest change makes the metadata reflect it.
LEMMA MergeReflects ==
  ASSUME NEW old \in Profiles, NEW new \in Profiles, NEW a \in Attrs,
         new[a] # Empty
  PROVE  Merge(old, new)[a] = new[a]
BY DEF Merge

\* A step that leaves Entra, the metadata and the history as they are keeps the
\* mirror, if what it takes in hand was in hand before or is what Graph has now.
LEMMA MirrorUntouched ==
  ASSUME MirrorInv, TypeOK,
         UNCHANGED <<changedAt, profile, meta, handled, excused, overtaken>>,
         \A p \in Procs : \A e \in InHand(p)' :
            e \in InHand(p) \/ \E u \in Users : e = EntryOf(u)
  PROVE  MirrorInv'
<1>1. \A u \in Users : Genuine(EntryOf(u))
  BY DEF Genuine, EntryOf, TypeOK
<1>2. \A p \in Procs : \A e \in InHand(p)' : Genuine(e)'
  BY <1>1 DEF MirrorInv, Genuine
<1>. QED
  BY <1>2 DEF MirrorInv, Mirrors, Reflects

\* What Skip and a failed WriteMeta do: the entry is processed, and its user
\* excused if no change as new has been.
LEMMA MirrorGivenUp ==
  ASSUME MirrorInv, TypeOK, NEW p \in Procs, NEW e \in InHand(p), e \in Entries,
         handled' = HandledUpTo(e), excused' = GivenUp(e),
         UNCHANGED <<changedAt, profile, meta, overtaken>>,
         \A q \in Procs : InHand(q)' \subseteq InHand(q)
  PROVE  MirrorInv'
<1>1. e.user \in Users /\ e.at \in Nat /\ e.at <= changedAt[e.user]
  BY DEF Entries, MirrorInv, Genuine
<1>2. \A q \in Procs : \A f \in InHand(q)' : Genuine(f)'
  BY DEF MirrorInv, Genuine
<1>3. ASSUME NEW u \in Users PROVE handled'[u] <= changedAt'[u] /\ Mirrors(u)'
  <2>1. CASE u # e.user \/ e.at <= handled[u]
    <3>1. handled'[u] = handled[u] /\ (u \in excused => u \in excused')
      BY <2>1, <1>1 DEF HandledUpTo, GivenUp, TypeOK
    <3>. QED
      BY <3>1 DEF MirrorInv, Mirrors, Reflects
  <2>2. CASE u = e.user /\ e.at > handled[u]
    <3>1. handled'[u] = e.at /\ u \in excused'
      BY <2>2, <1>1 DEF HandledUpTo, GivenUp, TypeOK
    <3>. QED
      BY <2>2, <3>1, <1>1 DEF Mirrors
  <2>. QED
    BY <2>1, <2>2, <1>1 DEF TypeOK
<1>. QED
  BY <1>2, <1>3 DEF MirrorInv

\* What a successful WriteMeta does.
LEMMA MirrorWritten ==
  ASSUME MirrorInv, TypeOK, NEW p \in Procs, NEW e \in InHand(p), e \in Entries,
         handled' = HandledUpTo(e),
         meta' = [meta EXCEPT ![e.user] = Merge(@, e.profile)],
         IF e.at >= handled[e.user]
         THEN /\ excused' = excused \ {e.user}
              /\ overtaken' = overtaken \ {e.user}
         ELSE /\ overtaken' = overtaken \cup {e.user}
              /\ UNCHANGED excused,
         UNCHANGED <<changedAt, profile>>,
         \A q \in Procs : InHand(q)' \subseteq InHand(q)
  PROVE  MirrorInv'
<1>1. /\ e.user \in Users /\ e.at \in Nat /\ e.profile \in Profiles
      /\ e.at <= changedAt[e.user]
      /\ e.at = changedAt[e.user] => e.profile = profile[e.user]
  BY DEF Entries, MirrorInv, Genuine
<1>2. \A q \in Procs : \A f \in InHand(q)' : Genuine(f)'
  BY DEF MirrorInv, Genuine
<1>3. ASSUME NEW u \in Users, u # e.user PROVE handled'[u] <= changedAt'[u] /\ Mirrors(u)'
  <2>1. /\ handled'[u] = handled[u] /\ meta'[u] = meta[u]
        /\ u \in excused <=> u \in excused'
        /\ u \in overtaken <=> u \in overtaken'
    BY <1>1, <1>3 DEF HandledUpTo, TypeOK
  <2>. QED
    BY <2>1 DEF MirrorInv, Mirrors, Reflects
<1>4. CASE e.at < handled[e.user]
  <2>1. handled'[e.user] = handled[e.user] /\ e.user \in overtaken'
    BY <1>1, <1>4 DEF HandledUpTo, TypeOK
  <2>2. handled'[e.user] <= changedAt'[e.user] /\ Mirrors(e.user)'
    BY <2>1, <1>1 DEF MirrorInv, Mirrors
  <2>. QED
    BY <2>2, <1>2, <1>3 DEF MirrorInv
<1>5. CASE e.at >= handled[e.user]
  <2>1. handled'[e.user] = e.at
    BY <1>1, <1>5 DEF HandledUpTo, TypeOK
  <2>2. ASSUME handled'[e.user] >= changedAt'[e.user] PROVE Reflects(e.user)'
    <3>1. e.profile = profile[e.user]
      BY <2>1, <2>2, <1>1 DEF TypeOK
    <3>2. meta'[e.user] = Merge(meta[e.user], profile[e.user])
      BY <3>1, <1>1 DEF TypeOK
    <3>3. meta[e.user] \in Profiles /\ profile[e.user] \in Profiles
      BY <1>1 DEF TypeOK
    <3>. QED
      BY <3>2, <3>3, MergeReflects DEF Reflects
  <2>3. handled'[e.user] <= changedAt'[e.user] /\ Mirrors(e.user)'
    BY <2>1, <2>2, <1>1 DEF Mirrors
  <2>. QED
    BY <2>3, <1>2, <1>3 DEF MirrorInv
<1>. QED
  BY <1>1, <1>4, <1>5 DEF TypeOK

\* Every step keeps the metadata a mirror of what the runs so far have processed.
LEMMA MirrorStep == IInv /\ MirrorInv /\ [Next]_vars => MirrorInv'
<1>. SUFFICES ASSUME IInv, MirrorInv, [Next]_vars PROVE MirrorInv'
  OBVIOUS
<1>t. TypeOK /\ TypeOK' /\ ClockInv
  BY TypeStep DEF IInv
<1>e. \A p \in Procs : \A e \in InHand(p) : e \in Entries /\ e.user \in Users /\ e.at <= clock
  BY <1>t DEF IInv, RunInv, InHand, TypeOK, Entries
<1>1. ASSUME NEW u \in Users, EditUser(u) PROVE MirrorInv'
  <2>1. /\ changedAt' = [changedAt EXCEPT ![u] = clock + 1]
        /\ \A v \in Users \ {u} : profile'[v] = profile[v]
        /\ UNCHANGED <<pc, changes, cur, handled, excused, overtaken, meta>>
    BY <1>1, <1>t DEF EditUser, runVars, historyVars, zitadelVars, TypeOK
  <2>2. ASSUME NEW p \in Procs, NEW e \in InHand(p) PROVE Genuine(e)'
    BY <2>1, <2>2, <1>t, <1>e DEF MirrorInv, Genuine, TypeOK, Entries
  <2>3. ASSUME NEW v \in Users PROVE handled'[v] <= changedAt'[v] /\ Mirrors(v)'
    BY <2>1, <1>t DEF MirrorInv, Mirrors, Reflects, ClockInv, TypeOK
  <2>. QED
    BY <2>1, <2>2, <2>3 DEF MirrorInv, InHand
<1>2. ASSUME NEW u \in Users, EditPhoto(u) \/ Appear(u) PROVE MirrorInv'
  BY <1>2, <1>t, MirrorUntouched DEF EditPhoto, Appear, InHand, entraVars,
     zitadelVars, runVars, historyVars
<1>3. CASE ExpireTokens \/ UNCHANGED vars
  BY <1>3, <1>t, MirrorUntouched DEF ExpireTokens, InHand, vars, entraVars,
     zitadelVars, runVars, historyVars
<1>4. ASSUME NEW p \in Procs,
             \/ Start(p) \/ OpenRound(p) \/ Page(p) \/ PageFails(p) \/ Lookup(p)
             \/ FetchPhoto(p) \/ UploadAvatar(p) \/ OpenDelta(p) \/ WriteDelta(p)
             \/ KeepDelta(p) \/ Abort(p)
      PROVE  MirrorInv'
  <2>1. UNCHANGED <<changedAt, profile, meta, handled, excused, overtaken>>
    BY <1>4 DEF Start, OpenRound, Page, PageFails, Lookup, FetchPhoto, UploadAvatar,
       OpenDelta, WriteDelta, KeepDelta, Abort, entraVars, zitadelVars, historyVars
  <2>2. ASSUME NEW q \in Procs, NEW e \in InHand(q)'
        PROVE  e \in InHand(q) \/ \E u \in Users : e = EntryOf(u)
    <3>1. CASE Page(p)
      <4>1. PICK S \in SUBSET todo[p] :
              changes' = [changes EXCEPT ![p] = @ \cup {EntryOf(u) : u \in S}]
        BY <3>1 DEF Page
      <4>2. S \in SUBSET Users
        BY <1>t DEF TypeOK
      <4>3. cur' = cur /\ (pc'[q] = "meta" => pc[q] = "meta")
        BY <3>1, <1>t DEF Page, TypeOK
      <4>4. changes'[q] \subseteq changes[q] \cup {EntryOf(u) : u \in S}
        BY <4>1, <1>t DEF TypeOK
      <4>. QED
        BY <2>2, <4>2, <4>3, <4>4 DEF InHand
    <3>2. CASE Start(p) \/ OpenRound(p) \/ PageFails(p) \/ OpenDelta(p)
      <4>1. changes' = changes /\ cur' = cur /\ (pc'[q] = "meta" => pc[q] = "meta")
        BY <3>2, <1>t DEF Start, OpenRound, PageFails, OpenDelta, TypeOK
      <4>. QED
        BY <2>2, <4>1 DEF InHand
    <3>3. CASE FetchPhoto(p) \/ UploadAvatar(p)
      <4>1. /\ changes' = changes
            /\ pc' = [pc EXCEPT ![p] = "apply"] \/ pc' = [pc EXCEPT ![p] = "avatar"]
            /\ cur' = cur \/ cur' = [cur EXCEPT ![p] = {}]
        BY <3>3 DEF FetchPhoto, UploadAvatar
      <4>2. (pc'[q] = "meta" => pc[q] = "meta") /\ cur'[q] \subseteq cur[q]
        BY <4>1, <1>t DEF TypeOK
      <4>. QED
        BY <2>2, <4>1, <4>2 DEF InHand
    <3>4. CASE WriteDelta(p) \/ KeepDelta(p) \/ Abort(p)
      <4>1. EndRun(p)
        BY <3>4 DEF WriteDelta, KeepDelta, Abort
      <4>. QED
        BY <2>2, <4>1, <1>t DEF EndRun, InHand, TypeOK
    <3>5. CASE Lookup(p)
      <4>1. PICK f \in changes[p] :
              /\ changes' = [changes EXCEPT ![p] = @ \ {f}]
              /\ cur' = [cur EXCEPT ![p] = {f}]
              /\ pc' = [pc EXCEPT ![p] = "meta"]
        BY <3>5 DEF Lookup
      <4>. QED
        BY <2>2, <4>1, <1>t DEF InHand, TypeOK
    <3>. QED
      BY <1>4, <3>1, <3>2, <3>3, <3>4, <3>5
  <2>. QED
    BY <2>1, <2>2, <1>t, MirrorUntouched
<1>5. ASSUME NEW p \in Procs, Skip(p) PROVE MirrorInv'
  <2>1. PICK e \in changes[p] :
          /\ changes' = [changes EXCEPT ![p] = @ \ {e}]
          /\ handled' = HandledUpTo(e)
          /\ excused' = GivenUp(e)
    BY <1>5 DEF Skip
  <2>2. /\ e \in InHand(p) /\ e \in Entries
        /\ UNCHANGED <<changedAt, profile, meta, overtaken>>
    BY <1>5, <1>e DEF Skip, InHand, entraVars, zitadelVars
  <2>3. \A q \in Procs : InHand(q)' \subseteq InHand(q)
    BY <1>5, <2>1, <1>t DEF Skip, InHand, TypeOK
  <2>. QED
    BY <2>1, <2>2, <2>3, <1>t, MirrorGivenUp
<1>6. ASSUME NEW p \in Procs, WriteMeta(p) PROVE MirrorInv'
  <2>1. PICK e \in cur[p] :
          /\ handled' = HandledUpTo(e)
          /\ \/ /\ meta' = [meta EXCEPT ![e.user] = Merge(@, e.profile)]
                /\ IF e.at >= handled[e.user]
                   THEN /\ excused' = excused \ {e.user}
                        /\ overtaken' = overtaken \ {e.user}
                   ELSE /\ overtaken' = overtaken \cup {e.user}
                        /\ UNCHANGED excused
             \/ /\ excused' = GivenUp(e)
                /\ UNCHANGED <<meta, overtaken>>
    BY <1>6 DEF WriteMeta
  <2>2. /\ e \in InHand(p) /\ e \in Entries
        /\ UNCHANGED <<changedAt, profile>>
    BY <1>6, <1>e DEF WriteMeta, InHand, entraVars
  <2>3. \A q \in Procs : InHand(q)' \subseteq InHand(q)
    <3>1. UNCHANGED <<changes, cur>> /\ pc' = [pc EXCEPT ![p] = "photo"]
      BY <1>6 DEF WriteMeta
    <3>. QED
      BY <3>1, <1>t DEF InHand, TypeOK
  <2>4. CASE /\ excused' = GivenUp(e)
             /\ UNCHANGED <<meta, overtaken>>
    BY <2>1, <2>2, <2>3, <2>4, <1>t, MirrorGivenUp
  <2>5. CASE /\ meta' = [meta EXCEPT ![e.user] = Merge(@, e.profile)]
             /\ IF e.at >= handled[e.user]
                THEN /\ excused' = excused \ {e.user}
                     /\ overtaken' = overtaken \ {e.user}
                ELSE /\ overtaken' = overtaken \cup {e.user}
                     /\ UNCHANGED excused
    BY <2>1, <2>2, <2>3, <2>5, <1>t, MirrorWritten
  <2>. QED
    BY <2>1, <2>4, <2>5
<1>. QED
  BY <1>1, <1>2, <1>3, <1>4, <1>5, <1>6 DEF Next, Environment, Run

LEMMA MirrorAlways == Spec => []MirrorInv
BY InitIInv, IInvStep, InitMirrorInv, MirrorStep, PTL DEF Spec

\* However runs overlap, the metadata of every user the token covers reflect its
\* newest change, unless that change was given up or an older entry overwrote it.
THEOREM Mirrored == Spec => []MirroredUnlessExcused
<1>1. IInv /\ MirrorInv => MirroredUnlessExcused
  BY DEF IInv, MirrorInv, Mirrors, TokenIsCovered, Covered, MirroredUnlessExcused
<1>. QED
  BY <1>1, IInvAlways, MirrorAlways, PTL

-----------------------------------------------------------------------------
(***************************************************************************)
(* Why only overlapping runs write an older entry over a newer one: the    *)
(* run that is alone holds each user at most once, expects no second entry *)
(* of it, and holds nothing older than what has been processed.            *)
(***************************************************************************)
Solo(p) ==
    /\ pc[p] \in {"idle", "request"} => todo[p] = {} /\ changes[p] = {}
    /\ \A e \in InHand(p) : e.at >= handled[e.user] /\ e.user \notin todo[p]
    /\ \A e, f \in InHand(p) : e.user = f.user => e = f

Alone == \A p, q \in Procs : pc[p] # "idle" /\ pc[q] # "idle" => p = q

OrderInv == ~overlapped => overtaken = {} /\ Alone /\ \A p \in Procs : Solo(p)

\* No run has begun, so none has overlapped and no entry is in hand.
LEMMA InitOrderInv == Init => OrderInv
BY DEF Init, OrderInv, Alone, Solo, InHand

\* A step of one process, when no other has ever been active at the same time,
\* leaves the others idle, with nothing in hand.
LEMMA SoloStep ==
  ASSUME NEW p \in Procs, ~overlapped, OrderInv, pc[p] # "idle", overtaken' = {},
         \A q \in Procs \ {p} : pc'[q] = pc[q] /\ todo'[q] = todo[q]
                                /\ changes'[q] = changes[q],
         Solo(p)'
  PROVE  OrderInv'
<1>1. ASSUME NEW q \in Procs \ {p} PROVE pc[q] = "idle" /\ Solo(q)'
  BY <1>1 DEF OrderInv, Alone, Solo, InHand
<1>2. Alone'
  BY <1>1 DEF Alone
<1>. QED
  BY <1>1, <1>2 DEF OrderInv

\* A processed entry is no older than what has been processed then, and neither
\* are the entries of other users.
LEMMA ProcessedInOrder ==
  ASSUME TypeOK, NEW e \in Entries, NEW f \in Entries, f.at >= handled[f.user],
         e.user = f.user => e = f, handled' = HandledUpTo(e)
  PROVE  f.at >= handled'[f.user]
<1>1. e.user \in Users /\ f.user \in Users /\ e.at \in Nat /\ f.at \in Nat
  BY DEF Entries
<1>. QED
  BY <1>1 DEF HandledUpTo, TypeOK

LEMMA OrderStep == IInv /\ MirrorInv /\ OrderInv /\ [Next]_vars => OrderInv'
<1>. SUFFICES ASSUME IInv, MirrorInv, OrderInv, [Next]_vars, ~overlapped' PROVE OrderInv'
  BY DEF OrderInv
<1>t. TypeOK /\ TypeOK'
  BY TypeStep DEF IInv
<1>o. ~overlapped
  BY DEF Next, Environment, Run, EditUser, EditPhoto, Appear, ExpireTokens, Start,
     OpenRound, Page, PageFails, Skip, Lookup, WriteMeta, FetchPhoto, UploadAvatar,
     OpenDelta, WriteDelta, KeepDelta, Abort, historyVars, vars
<1>m. overtaken = {} /\ Alone /\ \A p \in Procs : Solo(p)
  BY <1>o DEF OrderInv
<1>e. \A p \in Procs : \A e \in InHand(p) : e \in Entries /\ e.user \in Users
  BY <1>t DEF InHand, TypeOK, Entries
<1>1. ASSUME UNCHANGED <<pc, todo, changes, cur, handled, overtaken>> PROVE OrderInv'
  BY <1>1, <1>m DEF OrderInv, Alone, Solo, InHand
<1>2. ASSUME NEW u \in Users, EditUser(u) \/ EditPhoto(u) \/ Appear(u) PROVE OrderInv'
  BY <1>2, <1>1 DEF EditUser, EditPhoto, Appear, runVars, historyVars
<1>3. CASE ExpireTokens \/ UNCHANGED vars
  BY <1>3, <1>1 DEF ExpireTokens, vars, runVars, historyVars
<1>4. ASSUME NEW p \in Procs, Start(p) PROVE OrderInv'
  <2>1. /\ pc' = [pc EXCEPT ![p] = "request"] /\ pc[p] = "idle"
        /\ \A q \in Procs \ {p} : pc[q] = "idle"
        /\ UNCHANGED <<todo, changes, cur, handled, overtaken>>
    BY <1>4 DEF Start
  <2>2. \A q \in Procs : Solo(q)'
    BY <2>1, <1>t, <1>m DEF Solo, InHand, TypeOK
  <2>3. Alone'
    BY <2>1, <1>t DEF Alone, TypeOK
  <2>. QED
    BY <2>1, <2>2, <2>3, <1>m DEF OrderInv
<1>5. ASSUME NEW p \in Procs, pc[p] # "idle", UNCHANGED overtaken,
             \A q \in Procs \ {p} : pc'[q] = pc[q] /\ todo'[q] = todo[q]
                                    /\ changes'[q] = changes[q],
             Solo(p)'
      PROVE  OrderInv'
  BY <1>5, <1>o, <1>m, SoloStep
<1>6. ASSUME NEW p \in Procs, OpenRound(p) \/ PageFails(p) PROVE OrderInv'
  <2>1. Solo(p)'
    BY <1>6, <1>t, <1>m DEF OpenRound, PageFails, Solo, InHand, historyVars, TypeOK
  <2>. QED
    BY <1>6, <2>1, <1>5, <1>t DEF OpenRound, PageFails, historyVars, TypeOK
<1>7. ASSUME NEW p \in Procs, Page(p) PROVE OrderInv'
  <2>1. PICK S \in SUBSET todo[p] :
          /\ todo' = [todo EXCEPT ![p] = @ \ S]
          /\ changes' = [changes EXCEPT ![p] = @ \cup {EntryOf(u) : u \in S}]
          /\ pc' = [pc EXCEPT ![p] = "apply"] \/ pc' = pc
    BY <1>7 DEF Page
  <2>2. pc[p] = "pages" /\ pc'[p] \in {"pages", "apply"} /\ S \in SUBSET Users
    BY <1>7, <2>1, <1>t DEF Page, TypeOK
  <2>3. UNCHANGED <<handled, overtaken>>
    BY <1>7 DEF Page, historyVars
  <2>4. /\ InHand(p) = changes[p]
        /\ InHand(p)' = changes[p] \cup {EntryOf(u) : u \in S}
        /\ todo'[p] = todo[p] \ S
    BY <2>1, <2>2, <1>t DEF InHand, TypeOK
  <2>5. \A u \in S : EntryOf(u).user = u /\ EntryOf(u).at >= handled[u]
    BY <2>2 DEF EntryOf, MirrorInv
  <2>6. \A e \in InHand(p)' : e.at >= handled'[e.user] /\ e.user \notin todo'[p]
    BY <2>2, <2>3, <2>4, <2>5, <1>m DEF Solo
  <2>7. \A e, f \in InHand(p)' : e.user = f.user => e = f
    BY <2>4, <2>5, <1>m DEF Solo
  <2>8. Solo(p)'
    BY <2>2, <2>6, <2>7 DEF Solo
  <2>. QED
    BY <2>1, <2>2, <2>3, <2>8, <1>5, <1>t DEF TypeOK
<1>8. ASSUME NEW p \in Procs, Skip(p) PROVE OrderInv'
  <2>1. PICK e \in changes[p] :
          /\ changes' = [changes EXCEPT ![p] = @ \ {e}]
          /\ handled' = HandledUpTo(e)
    BY <1>8 DEF Skip
  <2>2. /\ pc[p] = "apply" /\ InHand(p) = changes[p] /\ InHand(p)' = changes[p] \ {e}
        /\ UNCHANGED <<pc, todo, overtaken>>
    BY <1>8, <2>1, <1>t DEF Skip, InHand, TypeOK
  <2>3. \A f \in InHand(p)' : f.at >= handled'[f.user]
    BY <2>1, <2>2, <1>t, <1>m, <1>e, ProcessedInOrder DEF Solo
  <2>4. Solo(p)'
    BY <2>2, <2>3, <1>m DEF Solo
  <2>. QED
    BY <2>1, <2>2, <2>4, <1>5, <1>t DEF TypeOK
<1>9. ASSUME NEW p \in Procs, Lookup(p) PROVE OrderInv'
  <2>1. Solo(p)'
    BY <1>9, <1>t, <1>m DEF Lookup, Solo, InHand, historyVars, TypeOK
  <2>. QED
    BY <1>9, <2>1, <1>5, <1>t DEF Lookup, historyVars, TypeOK
<1>10. ASSUME NEW p \in Procs, WriteMeta(p) PROVE OrderInv'
  <2>1. PICK e \in cur[p] :
          /\ handled' = HandledUpTo(e)
          /\ e.at >= handled[e.user] => overtaken' \subseteq overtaken
    BY <1>10 DEF WriteMeta
  <2>2. /\ pc[p] = "meta" /\ pc'[p] = "photo" /\ e \in InHand(p)
        /\ InHand(p)' = changes[p] /\ changes[p] \subseteq InHand(p)
        /\ UNCHANGED <<changes, todo>>
    BY <1>10, <1>t DEF WriteMeta, InHand, TypeOK
  <2>3. overtaken' = {}
    BY <2>1, <2>2, <1>m DEF Solo
  <2>4. \A f \in InHand(p)' : f.at >= handled'[f.user]
    BY <2>1, <2>2, <1>t, <1>m, <1>e, ProcessedInOrder DEF Solo
  <2>5. Solo(p)'
    BY <2>2, <2>4, <1>m DEF Solo
  <2>6. \A q \in Procs \ {p} : pc'[q] = pc[q]
    BY <1>10, <1>t DEF WriteMeta, TypeOK
  <2>. QED
    BY <2>2, <2>3, <2>5, <2>6, <1>o, SoloStep
<1>11. ASSUME NEW p \in Procs, FetchPhoto(p) \/ UploadAvatar(p) \/ OpenDelta(p)
       PROVE  OrderInv'
  <2>1. /\ pc[p] \in {"photo", "avatar", "apply"}
        /\ pc' \in {[pc EXCEPT ![p] = "apply"], [pc EXCEPT ![p] = "avatar"],
                    [pc EXCEPT ![p] = "write"]}
        /\ UNCHANGED <<handled, overtaken, todo, changes>>
    BY <1>11 DEF FetchPhoto, UploadAvatar, OpenDelta, AllApplied, historyVars
  <2>2. Solo(p)'
    BY <2>1, <1>t, <1>m DEF Solo, InHand, TypeOK
  <2>. QED
    BY <2>1, <2>2, <1>5, <1>t DEF TypeOK
<1>12. ASSUME NEW p \in Procs, WriteDelta(p) \/ KeepDelta(p) \/ Abort(p)
       PROVE  OrderInv'
  <2>1. pc[p] # "idle" /\ EndRun(p) /\ UNCHANGED <<handled, overtaken>>
    BY <1>12 DEF WriteDelta, KeepDelta, AllApplied, Abort, historyVars
  <2>2. Solo(p)'
    BY <2>1, <1>t DEF EndRun, Solo, InHand, TypeOK
  <2>. QED
    BY <2>1, <2>2, <1>5, <1>t DEF EndRun, TypeOK
<1>. QED
  BY <1>2, <1>3, <1>4, <1>6, <1>7, <1>8, <1>9, <1>10, <1>11, <1>12
     DEF Next, Environment, Run

\* A single run at a time never puts an older entry over a newer one, however
\* long it takes and whatever changes under its pages.
THEOREM OnlyOverlapOvertakes == Spec => []OvertakenByOverlap
<1>1. OrderInv => OvertakenByOverlap
  BY DEF OrderInv, OvertakenByOverlap
<1>. QED
  BY <1>1, InitOrderInv, OrderStep, IInvAlways, MirrorAlways, PTL DEF Spec

-----------------------------------------------------------------------------
(* What is never cleared.                                                  *)

\* An attribute that is in Zitadel stays set: Merge skips the empty values.
SetAttributesStay ==
    [][\A u \in Users : \A a \in Attrs : meta[u][a] # Empty => meta'[u][a] # Empty]_vars

\* Once an attribute of a user is in Zitadel, no step of any run empties it again,
\* whatever becomes of the profile: the disagreement of BlankIsBlank is not one of
\* an unlucky order of steps.
THEOREM AttributesAreNeverCleared == Spec => SetAttributesStay
<1>1. ASSUME TypeOK, [Next]_vars, NEW u \in Users, NEW a \in Attrs, meta[u][a] # Empty
      PROVE  meta'[u][a] # Empty
  <2>1. CASE UNCHANGED meta
    BY <1>1, <2>1
  <2>2. ASSUME NEW p \in Procs, WriteMeta(p) PROVE meta'[u][a] # Empty
    <3>1. PICK e \in cur[p] : \/ UNCHANGED meta
                              \/ meta' = [meta EXCEPT ![e.user] = Merge(@, e.profile)]
      BY <2>2 DEF WriteMeta
    <3> QED
      BY <1>1, <3>1 DEF Merge, TypeOK
  <2>3. UNCHANGED meta \/ \E p \in Procs : WriteMeta(p)
    BY <1>1 DEF Next, Environment, Run, EditUser, EditPhoto, Appear, ExpireTokens, Start,
       OpenRound, Page, PageFails, Skip, Lookup, FetchPhoto, UploadAvatar,
       OpenDelta, WriteDelta, KeepDelta, Abort, EndRun, zitadelVars, vars
  <2> QED
    BY <2>1, <2>2, <2>3
<1>2. TypeOK /\ [Next]_vars =>
        [\A u \in Users : \A a \in Attrs : meta[u][a] # Empty => meta'[u][a] # Empty]_vars
  BY <1>1
<1> QED
  BY <1>2, TypeCorrect, PTL DEF Spec, SetAttributesStay
=============================================================================
