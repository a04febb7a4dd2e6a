---------------------------- MODULE ImportProofs ----------------------------
(* Proofs about Import, for any users, processes and bounds.               *)
EXTENDS Import, TLAPS

\* What EntryOf returns is an entry.
LEMMA EntryOfType == ASSUME TypeOK, NEW u \in Users PROVE EntryOf(u) \in Entries
BY DEF TypeOK, EntryOf, Entries

\* Ending a run, or an entry of it, keeps the types of what the run holds.
LEMMA EndRunType ==
  ASSUME TypeOK, NEW p \in Procs, EndRun(p)
  PROVE  /\ pc' \in [Procs -> {"idle", "next", "meta", "photo"}]
         /\ todo' \in [Procs -> SUBSET Entries] /\ cur' \in [Procs -> SUBSET Entries]
         /\ clean' \in [Procs -> BOOLEAN] /\ listed' \in [Procs -> SUBSET Entries]
BY DEF TypeOK, EndRun

\* The same of Start, whose listing is a set of entries.
LEMMA StartType == ASSUME TypeOK, NEW p \in Procs, Start(p) PROVE TypeOK'
<1>1. PICK L \in SUBSET Users :
         /\ IF L = Users THEN NoFault ELSE Fault
         /\ todo' = [todo EXCEPT ![p] = {EntryOf(u) : u \in L}]
         /\ listed' = [listed EXCEPT ![p] = {EntryOf(u) : u \in L}]
         /\ clean' = [clean EXCEPT ![p] = L = Users]
         /\ listedAs' = [u \in Users |->
                IF u \in L THEN listedAs[u] \cup ({addr[u]} \ {0}) ELSE listedAs[u]]
  BY Zenon DEF Start
<1>2. {EntryOf(u) : u \in L} \in SUBSET Entries
  BY EntryOfType
<1>3. /\ todo' \in [Procs -> SUBSET Entries] /\ listed' \in [Procs -> SUBSET Entries]
      /\ clean' \in [Procs -> BOOLEAN]
  BY <1>1, <1>2 DEF TypeOK
<1>4. listedAs' \in [Users -> SUBSET (Nat \ {0})]
  BY <1>1 DEF TypeOK
<1>5. faults' \in Nat
  BY <1>1 DEF TypeOK, Fault, NoFault
<1> QED
  BY <1>3, <1>4, <1>5 DEF Start, TypeOK, entraVars, zitadelVars

\* Type correctness: every step keeps the types of the directory, of Zitadel and
\* of the runs.
THEOREM TypeCorrect == Spec => []TypeOK
<1>1. Init => TypeOK
  BY DEF Init, TypeOK
<1>2. TypeOK /\ [Next]_vars => TypeOK'
  <2> SUFFICES ASSUME TypeOK, [Next]_vars PROVE TypeOK'
    OBVIOUS
  <2> USE DEF TypeOK, entraVars, zitadelVars, runVars, historyVars, Fault, NoFault,
              Unclean, EntryDone
  <2>1. ASSUME NEW u \in Users, Move(u) PROVE TypeOK'
    BY <2>1 DEF Move
  <2>2. ASSUME NEW u \in Users, Login(u) PROVE TypeOK'
    BY <2>2 DEF Login
  <2>3. ASSUME NEW p \in Procs, Start(p) PROVE TypeOK'
    BY <2>3, StartType
  <2>4. ASSUME NEW p \in Procs, SkipEntry(p) PROVE TypeOK'
    BY <2>4 DEF SkipEntry
  <2>5. ASSUME NEW p \in Procs, Create(p) PROVE TypeOK'
    BY <2>5 DEF Create, Created, Entries
  <2>6. ASSUME NEW p \in Procs, CreateFails(p) PROVE TypeOK'
    BY <2>6 DEF CreateFails
  <2>7. ASSUME NEW p \in Procs, WriteMeta(p) PROVE TypeOK'
    <3>1. meta' \in SUBSET Users
      BY <2>7 DEF WriteMeta, Entries
    <3>2. /\ faults' = faults \/ faults' = faults + 1
          /\ clean' = clean \/ clean' = [clean EXCEPT ![p] = FALSE]
      BY <2>7, Zenon DEF WriteMeta
    <3>3. /\ pc' = [pc EXCEPT ![p] = "photo"]
          /\ UNCHANGED <<addr, last, removed, moves, own, link, foreign, avatar, todo, cur,
                         listed, listedAs, assured>>
      BY <2>7 DEF WriteMeta
    <3>4. faults' \in Nat
      BY <3>2
    <3>5. clean' \in [Procs -> BOOLEAN]
      BY <3>2
    <3> QED
      BY <3>1, <3>3, <3>4, <3>5
  <2>8. ASSUME NEW p \in Procs, CopyPhoto(p) PROVE TypeOK'
    <3>1. avatar' \in SUBSET Pictured
      BY <2>8 DEF CopyPhoto
    <3>2. /\ faults' = faults \/ faults' = faults + 1
          /\ clean' = clean \/ clean' = [clean EXCEPT ![p] = FALSE]
      BY <2>8, Zenon DEF CopyPhoto
    <3>3. /\ EntryDone(p)
          /\ UNCHANGED <<addr, last, removed, moves, own, link, foreign, meta, listed,
                         listedAs, assured>>
      BY <2>8 DEF CopyPhoto
    <3>4. faults' \in Nat
      BY <3>2
    <3>5. clean' \in [Procs -> BOOLEAN]
      BY <3>2
    <3> QED
      BY <3>1, <3>3, <3>4, <3>5
  <2>9. ASSUME NEW p \in Procs, Finish(p) PROVE TypeOK'
    <3>1. assured' \in SUBSET Users
      BY <2>9 DEF Finish, Entries
    <3>2. EndRun(p) /\ UNCHANGED <<addr, last, removed, moves, own, link, foreign, meta,
                                   avatar, listedAs, faults>>
      BY <2>9 DEF Finish
    <3> QED
      BY <3>1, <3>2, EndRunType
  <2>10. ASSUME NEW p \in Procs, Abort(p) PROVE TypeOK'
    <3>1. EndRun(p) /\ faults' = faults + 1
          /\ UNCHANGED <<addr, last, removed, moves, own, link, foreign, meta, avatar,
                         listedAs, assured>>
      BY <2>10 DEF Abort
    <3> QED
      BY <3>1, EndRunType
  <2>11. CASE UNCHANGED vars
    BY <2>11 DEF vars
  <2> QED
    BY <2>1, <2>2, <2>3, <2>4, <2>5, <2>6, <2>7, <2>8, <2>9, <2>10, <2>11
       DEF Next, Run
<1> QED
  BY <1>1, <1>2, PTL DEF Spec

-----------------------------------------------------------------------------
(* One account per user.                                                   *)

\* No address is newer than the newest: not those of accounts, and not those a
\* run holds.
AddressInv ==
    /\ \A u \in Users : addr[u] \in {0, last[u]} /\ own[u] <= last[u] /\ foreign[u] <= last[u]
    /\ \A p \in Procs : \A e \in todo[p] : e.addr <= last[e.user]

\* Every step keeps addresses no newer than the newest, and one account per user.
LEMMA AddressStep ==
  ASSUME TypeOK, AddressInv, OneAccount, [Next]_vars
  PROVE  AddressInv' /\ OneAccount'
<1> USE DEF TypeOK, AddressInv, OneAccount
<1>1. ASSUME NEW u \in Users, Move(u) PROVE AddressInv' /\ OneAccount'
  <2>1. /\ \A v \in Users : last'[v] >= last[v] /\ addr'[v] \in {0, last'[v]}
        /\ UNCHANGED <<own, foreign, todo>>
    BY <1>1 DEF Move, zitadelVars, runVars
  <2>2. \A p \in Procs : \A e \in todo[p] : e.user \in Users /\ e.addr \in Nat
    BY DEF Entries
  <2>3. last' \in [Users -> Nat]
    BY <1>1 DEF Move
  <2> QED
    BY <2>1, <2>2, <2>3
<1>2. ASSUME NEW u \in Users, Login(u) PROVE AddressInv' /\ OneAccount'
  BY <1>2 DEF Login, entraVars, runVars
<1>3. ASSUME NEW p \in Procs, Start(p) PROVE AddressInv' /\ OneAccount'
  <2>1. PICK L \in SUBSET Users :
           todo' = [todo EXCEPT ![p] = {EntryOf(u) : u \in L}]
    BY <1>3, Zenon DEF Start
  <2>2. \A u \in L : EntryOf(u).addr <= last[EntryOf(u).user]
    BY DEF EntryOf
  <2>3. UNCHANGED <<addr, last, own, foreign>>
    BY <1>3 DEF Start, entraVars, zitadelVars
  <2> QED
    BY <2>1, <2>2, <2>3
<1>4. ASSUME NEW p \in Procs, SkipEntry(p) PROVE AddressInv' /\ OneAccount'
  BY <1>4 DEF SkipEntry, entraVars, zitadelVars
<1>5. ASSUME NEW p \in Procs, Create(p) PROVE AddressInv' /\ OneAccount'
  <2>1. PICK e \in todo[p] : ~Skipped(e) /\ todo' = [todo EXCEPT ![p] = @ \ {e}] /\ Created(e)
    BY <1>5, Zenon DEF Create
  <2>2. e.user \in Users /\ e.addr \in Nat /\ e.addr # 0 /\ e.addr <= last[e.user]
    BY <2>1 DEF Entries, Skipped
  <2>3. UNCHANGED <<addr, last, foreign>>
    BY <1>5, <2>1 DEF Create, Created, entraVars
  <2>4. own' = own \/ (foreign[e.user] # e.addr /\ own' = [own EXCEPT ![e.user] = e.addr])
    BY <2>1 DEF Created
  <2>5. \A u \in Users : own'[u] <= last[u]
    BY <2>2, <2>4
  <2>6. last[e.user] <= 1 /\ foreign[e.user] # e.addr => foreign[e.user] = 0
    BY <2>2
  <2>7. OneAccount'
    BY <2>2, <2>3, <2>4, <2>6
  <2>8. \A q \in Procs : todo'[q] \subseteq todo[q]
    BY <2>1
  <2> QED
    BY <2>3, <2>5, <2>7, <2>8
<1>6. ASSUME NEW p \in Procs, CreateFails(p) PROVE AddressInv' /\ OneAccount'
  BY <1>6 DEF CreateFails, entraVars, zitadelVars
<1>7. ASSUME NEW p \in Procs, WriteMeta(p) \/ CopyPhoto(p) PROVE AddressInv' /\ OneAccount'
  <2>1. UNCHANGED <<addr, last, own, foreign>> /\ (todo' = todo \/ todo' = [todo EXCEPT ![p] = {}])
    BY <1>7, Zenon DEF WriteMeta, CopyPhoto, EntryDone, entraVars
  <2> QED
    BY <2>1
<1>8. ASSUME NEW p \in Procs, Finish(p) \/ Abort(p) PROVE AddressInv' /\ OneAccount'
  BY <1>8 DEF Finish, Abort, EndRun, entraVars, zitadelVars
<1>9. CASE UNCHANGED vars
  BY <1>9 DEF vars, entraVars, zitadelVars, runVars
<1> QED
  BY <1>1, <1>2, <1>3, <1>4, <1>5, <1>6, <1>7, <1>8, <1>9 DEF Next, Run

\* A user whose address has never changed has one account at most.
THEOREM OneAccountAlways == Spec => []OneAccount
<1>1. Init => AddressInv /\ OneAccount
  BY DEF Init, AddressInv, OneAccount
<1>2. TypeOK /\ AddressInv /\ OneAccount /\ [Next]_vars => AddressInv' /\ OneAccount'
  BY AddressStep
<1> QED
  BY <1>1, <1>2, TypeCorrect, PTL DEF Spec

-----------------------------------------------------------------------------
(* Subjects.                                                               *)

Settled(u) == own[u] # 0 \/ link[u] # "none"

\* Accounts with the user's id have an address an import has listed, and others
\* come from logins; what a clean run has listed is done or still to do.
SubjectInv ==
    /\ \A u \in Users : own[u] # 0 => own[u] \in listedAs[u]
    /\ \A u \in Users : link[u] = "none" => foreign[u] = 0
    /\ \A p \in Procs : \A e \in todo[p] : e.addr # 0 => e.addr \in listedAs[e.user]
    /\ \A p \in Procs \ Trials : clean[p] =>
           \A e \in listed[p] : Skipped(e) \/ e \in todo[p] \/ Settled(e.user)
    /\ \A u \in assured : Settled(u)

\* What a run does to its own entries cannot unsettle a user of another run.
LEMMA SubjectStep ==
  ASSUME TypeOK, SubjectInv, [Next]_vars
  PROVE  SubjectInv'
<1> USE DEF TypeOK, SubjectInv, Settled, Skipped
<1>0. \A p \in Procs : \A e \in todo[p] \cup listed[p] : e.user \in Users /\ e.addr \in Nat
  BY DEF Entries
<1>1. ASSUME NEW u \in Users, Move(u) PROVE SubjectInv'
  BY <1>1 DEF Move, zitadelVars, runVars, historyVars
<1>2. ASSUME NEW u \in Users, Login(u) PROVE SubjectInv'
  BY <1>0, <1>2 DEF Login, entraVars, runVars, historyVars
<1>3. ASSUME NEW p \in Procs, Start(p) PROVE SubjectInv'
  <2>1. PICK L \in SUBSET Users :
           /\ todo' = [todo EXCEPT ![p] = {EntryOf(u) : u \in L}]
           /\ listed' = [listed EXCEPT ![p] = {EntryOf(u) : u \in L}]
           /\ clean' = [clean EXCEPT ![p] = L = Users]
           /\ listedAs' = [u \in Users |->
                  IF u \in L THEN listedAs[u] \cup ({addr[u]} \ {0}) ELSE listedAs[u]]
    BY <1>3, Zenon DEF Start
  <2>2. UNCHANGED <<own, link, foreign, assured>>
    BY <1>3 DEF Start, zitadelVars
  <2>3. \A u \in Users : listedAs[u] \subseteq listedAs'[u]
    BY <2>1
  <2>4. \A u \in L : EntryOf(u).addr # 0 => EntryOf(u).addr \in listedAs'[EntryOf(u).user]
    BY <2>1 DEF EntryOf
  <2>5. \A q \in Procs : \A e \in todo'[q] : e.addr # 0 => e.addr \in listedAs'[e.user]
    <3>1. ASSUME NEW q \in Procs, q # p, NEW e \in todo'[q], e.addr # 0
          PROVE  e.addr \in listedAs'[e.user]
      <4>1. e \in todo[q]
        BY <2>1, <3>1
      <4> QED
        BY <1>0, <2>3, <3>1, <4>1
    <3>2. todo'[p] = {EntryOf(u) : u \in L}
      BY <2>1
    <3> QED
      BY <2>4, <3>1, <3>2
  <2>6. \A q \in Procs \ Trials : clean'[q] =>
           \A e \in listed'[q] : Skipped(e) \/ e \in todo'[q] \/ Settled(e.user)
    BY <2>1
  <2> QED
    BY <2>2, <2>3, <2>5, <2>6
<1>4. ASSUME NEW p \in Procs, SkipEntry(p) PROVE SubjectInv'
  <2>1. PICK e \in todo[p] : Skipped(e) /\ todo' = [todo EXCEPT ![p] = @ \ {e}]
    BY <1>4, Zenon DEF SkipEntry
  <2>2. UNCHANGED <<own, link, foreign, assured, listed, listedAs, clean>>
    BY <1>4 DEF SkipEntry, zitadelVars, historyVars
  <2> QED
    BY <2>1, <2>2
<1>5. ASSUME NEW p \in Procs, Create(p) PROVE SubjectInv'
  <2>1. PICK e \in todo[p] : ~Skipped(e) /\ todo' = [todo EXCEPT ![p] = @ \ {e}] /\ Created(e)
    BY <1>5, Zenon DEF Create
  <2>2. UNCHANGED <<link, foreign, assured, listed, listedAs, clean>>
    BY <1>5, <2>1 DEF Create, Created, historyVars
  <2>3. e.user \in Users /\ e.addr \in Nat /\ e.addr # 0 /\ e.addr \in listedAs[e.user]
    BY <1>0, <2>1
  <2>4. Settled(e.user)' /\ (\A u \in Users : Settled(u) => Settled(u)')
    BY <2>1, <2>2, <2>3 DEF Created
  <2>5. \A u \in Users : own'[u] # 0 => own'[u] \in listedAs'[u]
    BY <2>1, <2>2, <2>3 DEF Created
  <2>6. \A q \in Procs \ Trials : clean'[q] =>
           \A f \in listed'[q] : Skipped(f) \/ f \in todo'[q] \/ Settled(f.user)'
    BY <1>0, <2>1, <2>2, <2>4
  <2> QED
    BY <2>1, <2>2, <2>4, <2>5, <2>6
<1>6. ASSUME NEW p \in Procs, CreateFails(p) PROVE SubjectInv'
  BY <1>6 DEF CreateFails, zitadelVars, Unclean
<1>7. ASSUME NEW p \in Procs, WriteMeta(p) \/ CopyPhoto(p) PROVE SubjectInv'
  <2>1. /\ UNCHANGED <<own, link, foreign, assured, listed, listedAs>>
        /\ todo' = todo \/ (p \in Trials /\ todo' = [todo EXCEPT ![p] = {}])
        /\ clean' = clean \/ clean' = [clean EXCEPT ![p] = FALSE]
    <3>1. CASE WriteMeta(p)
      BY <3>1, Zenon DEF WriteMeta, Unclean
    <3>2. CASE CopyPhoto(p)
      BY <3>2 DEF CopyPhoto, EntryDone, Unclean
    <3> QED
      BY <1>7, <3>1, <3>2
  <2> QED
    BY <2>1
<1>8. ASSUME NEW p \in Procs, Finish(p) PROVE SubjectInv'
  <2>1. /\ UNCHANGED <<own, link, foreign, listedAs>>
        /\ todo[p] = {} /\ todo' = [todo EXCEPT ![p] = {}]
        /\ clean' = [clean EXCEPT ![p] = FALSE]
        /\ listed' = [listed EXCEPT ![p] = {}]
    BY <1>8 DEF Finish, EndRun, zitadelVars
  <2>2. \A u \in assured' : Settled(u)
    BY <1>8, <2>1 DEF Finish
  <2> QED
    BY <2>1, <2>2
<1>9. ASSUME NEW p \in Procs, Abort(p) PROVE SubjectInv'
  BY <1>9 DEF Abort, EndRun, zitadelVars
<1>10. CASE UNCHANGED vars
  BY <1>10 DEF vars, zitadelVars, runVars, historyVars
<1> QED
  BY <1>1, <1>2, <1>3, <1>4, <1>5, <1>6, <1>7, <1>8, <1>9, <1>10 DEF Next, Run

\* The first login of a user a clean import has listed is linked to the account
\* with the user's id, whatever other imports and logins are under way.
THEOREM SubjectsArePreserved == Spec => SubjectsPreserved
<1>1. Init => SubjectInv
  BY DEF Init, SubjectInv
<1>2. TypeOK /\ SubjectInv /\ [Next]_vars => SubjectInv'
  BY SubjectStep
<1>3. ASSUME TypeOK, SubjectInv, [Next]_vars,
             NEW u \in Users, u \in assured, listedAs[u] \subseteq {addr[u]},
             link[u] = "none", link'[u] # "none"
      PROVE  link'[u] = "own"
  <2>1. Login(u)
    BY <1>3 DEF Next, Run, Move, Login, Start, SkipEntry, Create, CreateFails, WriteMeta,
       CopyPhoto, Finish, Abort, zitadelVars, vars, TypeOK
  <2>2. own[u] = addr[u]
    BY <1>3 DEF SubjectInv, Settled
  <2> QED
    BY <1>3, <2>1, <2>2 DEF Login, TypeOK
<1>4. TypeOK /\ SubjectInv /\ [Next]_vars
         => [\A u \in Users :
                (/\ u \in assured /\ listedAs[u] \subseteq {addr[u]}
                 /\ link[u] = "none" /\ link'[u] # "none")
                    => link'[u] = "own"]_vars
  BY <1>3
<1> QED
  BY <1>1, <1>2, <1>4, TypeCorrect, PTL DEF Spec, SubjectsPreserved
-----------------------------------------------------------------------------
(* Completeness.                                                           *)

\* How far a run is with an entry whose account exists.
Advanced(p, e) ==
    \/ Complete(e.user)
    \/ pc[p] = "meta" /\ e \in cur[p]
    \/ pc[p] = "photo" /\ e \in cur[p] /\ e.user \in meta

Pending(p, e) ==
    \/ Skipped(e) \/ e \in todo[p] \/ foreign[e.user] = e.addr
    \/ own[e.user] # 0 /\ Advanced(p, e)

\* A full run without a failed request has lost none of the entries it listed.
ProgressInv ==
    \A p \in Procs \ Trials : clean[p] => \A e \in listed[p] : Pending(p, e)

\* No step takes anything from an account, and a first login is the only step
\* that makes an account with another id.
LEMMA AccountsGrow ==
  ASSUME TypeOK, SubjectInv, [Next]_vars, NEW u \in Users
  PROVE  /\ own[u] # 0 => own'[u] # 0
         /\ foreign[u] # 0 => foreign'[u] = foreign[u]
         /\ u \in meta => u \in meta'
         /\ u \in avatar => u \in avatar'
<1> USE DEF TypeOK
<1>1. ASSUME NEW v \in Users, Move(v) \/ Login(v) PROVE
         /\ own'[u] = own[u] /\ meta' = meta /\ avatar' = avatar
         /\ foreign[u] # 0 => foreign'[u] = foreign[u]
  BY <1>1 DEF Move, Login, SubjectInv, zitadelVars
<1>2. ASSUME NEW p \in Procs, Create(p) PROVE
         /\ own[u] # 0 => own'[u] # 0
         /\ UNCHANGED <<foreign, meta, avatar>>
  <2>1. PICK e \in todo[p] : Created(e)
    BY <1>2, Zenon DEF Create
  <2>2. e.user \in Users
    BY DEF Entries
  <2> QED
    BY <1>2, <2>1, <2>2 DEF Create, Created
<1>3. ASSUME NEW p \in Procs, WriteMeta(p) PROVE
         UNCHANGED <<own, foreign, avatar>> /\ meta \subseteq meta'
  BY <1>3, Zenon DEF WriteMeta
<1>4. ASSUME NEW p \in Procs, CopyPhoto(p) PROVE
         UNCHANGED <<own, foreign, meta>> /\ avatar \subseteq avatar'
  BY <1>4, Zenon DEF CopyPhoto
<1>5. ASSUME NEW p \in Procs,
             Start(p) \/ SkipEntry(p) \/ CreateFails(p) \/ Finish(p) \/ Abort(p)
      PROVE  UNCHANGED <<own, foreign, meta, avatar>>
  BY <1>5 DEF Start, SkipEntry, CreateFails, Finish, Abort, zitadelVars
<1>6. CASE UNCHANGED vars
  BY <1>6 DEF vars, zitadelVars
<1> QED
  BY <1>1, <1>2, <1>3, <1>4, <1>5, <1>6 DEF Next, Run

\* What is pending in a run stays so while the run itself does nothing.
LEMMA PendingUntouched ==
  ASSUME TypeOK, SubjectInv, [Next]_vars, NEW p \in Procs, NEW e \in listed[p],
         Pending(p, e), pc'[p] = pc[p], cur'[p] = cur[p], e \in todo[p] => e \in todo'[p]
  PROVE  Pending(p, e)'
<1>1. e.user \in Users
  BY DEF TypeOK, Entries
<1>2. ~Skipped(e) /\ foreign[e.user] = e.addr => foreign'[e.user] = e.addr
  BY <1>1, AccountsGrow DEF Skipped
<1> QED
  BY <1>1, <1>2, AccountsGrow DEF Pending, Advanced, Complete, Skipped

LEMMA ProgressStep ==
  ASSUME TypeOK, SubjectInv, ProgressInv, [Next]_vars
  PROVE  ProgressInv'
<1>1. SUFFICES ASSUME NEW p \in Procs \ Trials, clean'[p], NEW e \in listed'[p]
               PROVE  Pending(p, e)'
  BY DEF ProgressInv
<1>2. CASE pc'[p] = pc[p] /\ cur'[p] = cur[p] /\ todo'[p] = todo[p]
           /\ clean'[p] = clean[p] /\ listed'[p] = listed[p]
  BY <1>1, <1>2, PendingUntouched DEF ProgressInv
<1>3. ASSUME NEW u \in Users, Move(u) \/ Login(u) PROVE Pending(p, e)'
  BY <1>2, <1>3 DEF Move, Login, runVars, historyVars
<1>4. ASSUME NEW q \in Procs, Run(q), q # p PROVE Pending(p, e)'
  <2>1. /\ pc'[p] = pc[p] /\ cur'[p] = cur[p] /\ todo'[p] = todo[p]
        /\ clean'[p] = clean[p] /\ listed'[p] = listed[p]
    <3> USE <1>4 DEF TypeOK
    <3>1. CASE Start(q) \/ SkipEntry(q) \/ Create(q)
      BY <3>1 DEF Start, SkipEntry, Create, historyVars
    <3>2. CASE CreateFails(q)
      BY <3>2 DEF CreateFails, Unclean
    <3>3. CASE WriteMeta(q)
      <4>1. /\ pc' = [pc EXCEPT ![q] = "photo"] /\ UNCHANGED <<todo, cur, listed>>
            /\ clean' = clean \/ clean' = [clean EXCEPT ![q] = FALSE]
        BY <3>3, Zenon DEF WriteMeta, Unclean
      <4> QED
        BY <4>1
    <3>4. CASE CopyPhoto(q)
      <4>1. /\ EntryDone(q) /\ UNCHANGED listed
            /\ clean' = clean \/ clean' = [clean EXCEPT ![q] = FALSE]
        BY <3>4, Zenon DEF CopyPhoto, Unclean
      <4> QED
        BY <4>1 DEF EntryDone
    <3>5. CASE Finish(q) \/ Abort(q)
      BY <3>5 DEF Finish, Abort, EndRun
    <3> QED
      BY <3>1, <3>2, <3>3, <3>4, <3>5 DEF Run
  <2> QED
    BY <1>2, <2>1
<1>5. CASE Start(p)
  <2>1. todo'[p] = listed'[p]
    BY <1>5 DEF Start, TypeOK
  <2> QED
    BY <2>1 DEF Pending
<1>6. CASE SkipEntry(p)
  <2>1. PICK f \in todo[p] : Skipped(f) /\ todo' = [todo EXCEPT ![p] = @ \ {f}]
    BY <1>6, Zenon DEF SkipEntry
  <2>2. UNCHANGED <<pc, cur, listed, clean>>
    BY <1>6 DEF SkipEntry, historyVars
  <2>3. e \in listed[p] /\ Pending(p, e)
    BY <1>1, <2>2 DEF ProgressInv
  <2>4. CASE e = f
    BY <2>1, <2>4 DEF Pending, Skipped
  <2>5. CASE e # f
    <3>1. e \in todo[p] => e \in todo'[p]
      BY <2>1, <2>5 DEF TypeOK
    <3> QED
      BY <2>2, <2>3, <3>1, PendingUntouched
  <2> QED
    BY <2>4, <2>5
<1>7. CASE Create(p)
  <2>1. PICK f \in todo[p] : /\ ~Skipped(f) /\ Created(f)
                             /\ todo' = [todo EXCEPT ![p] = @ \ {f}]
                             /\ cur' = [cur EXCEPT ![p] = {f}]
    BY <1>7, Zenon DEF Create
  <2>2. /\ pc[p] = "next" /\ pc' = [pc EXCEPT ![p] = "meta"]
        /\ UNCHANGED <<listed, clean, meta, avatar>>
    BY <1>7 DEF Create, historyVars
  <2>3. e \in listed[p] /\ Pending(p, e) /\ e.user \in Users
    BY <1>1, <2>2 DEF ProgressInv, TypeOK, Entries
  <2>4. CASE e = f
    <3>1. own'[e.user] # 0 \/ foreign'[e.user] = e.addr
      BY <2>1, <2>3, <2>4 DEF Created, Skipped, TypeOK
    <3>2. pc'[p] = "meta" /\ e \in cur'[p]
      BY <2>1, <2>2, <2>4 DEF TypeOK
    <3> QED
      BY <3>1, <3>2 DEF Pending, Advanced
  <2>5. CASE e # f
    <3>1. e \in todo[p] => e \in todo'[p]
      BY <2>1, <2>5 DEF TypeOK
    <3>2. Skipped(e) \/ e \in todo[p] \/ foreign[e.user] = e.addr \/ Complete(e.user)
      BY <2>2, <2>3 DEF Pending, Advanced
    <3>3. Complete(e.user) => Complete(e.user)'
      BY <2>3, AccountsGrow DEF Complete
    <3>4. ~Skipped(e) /\ foreign[e.user] = e.addr => foreign'[e.user] = e.addr
      BY <2>3, AccountsGrow DEF Skipped
    <3> QED
      BY <3>1, <3>2, <3>3, <3>4 DEF Pending, Advanced, Complete, Skipped
  <2> QED
    BY <2>4, <2>5
<1>8. CASE CreateFails(p) \/ Finish(p) \/ Abort(p)
  BY <1>1, <1>8 DEF CreateFails, Unclean, Finish, Abort, EndRun, TypeOK
<1>9. CASE WriteMeta(p)
  <2>1. clean'[p] => clean' = clean /\ meta' = meta \cup {f.user : f \in {g \in cur[p] : own[g.user] # 0}}
    BY <1>9 DEF WriteMeta, Unclean, TypeOK
  <2>2. /\ pc[p] = "meta" /\ pc' = [pc EXCEPT ![p] = "photo"]
        /\ UNCHANGED <<own, foreign, avatar, todo, cur, listed>>
    BY <1>9 DEF WriteMeta
  <2>3. e \in listed[p] /\ Pending(p, e)
    BY <1>1, <2>1, <2>2 DEF ProgressInv
  <2>4. own[e.user] # 0 /\ e \in cur[p] => e.user \in meta'
    BY <1>1, <2>1
  <2>5. meta \subseteq meta' /\ pc'[p] = "photo"
    BY <1>1, <2>1, <2>2 DEF TypeOK
  <2> QED
    BY <2>2, <2>3, <2>4, <2>5 DEF Pending, Advanced, Complete, Skipped
<1>10. CASE CopyPhoto(p)
  <2>1. clean'[p] => clean' = clean /\ avatar' = avatar \cup
            {f.user : f \in {g \in cur[p] : g.user \in Pictured /\ own[g.user] # 0}}
    BY <1>10 DEF CopyPhoto, Unclean, TypeOK
  <2>2. /\ pc[p] = "photo" /\ todo'[p] = todo[p]
        /\ UNCHANGED <<own, foreign, meta, listed>>
    BY <1>10 DEF CopyPhoto, EntryDone, TypeOK
  <2>3. e \in listed[p] /\ Pending(p, e)
    BY <1>1, <2>1, <2>2 DEF ProgressInv
  <2>4. own[e.user] # 0 /\ e \in cur[p] /\ e.user \in Pictured => e.user \in avatar'
    BY <1>1, <2>1
  <2>5. avatar \subseteq avatar'
    BY <1>1, <2>1
  <2> QED
    BY <2>2, <2>3, <2>4, <2>5 DEF Pending, Advanced, Complete, Skipped
<1>11. CASE UNCHANGED vars
  BY <1>2, <1>11 DEF vars, runVars, historyVars
<1> QED
  BY <1>3, <1>4, <1>5, <1>6, <1>7, <1>8, <1>9, <1>10, <1>11 DEF Next, Run

\* A full import that ends without a failed request has made every account it
\* listed complete, unless a login has taken the address.
THEOREM CleanImportsAreComplete == Spec => CleanImportIsComplete
<1>1. Init => SubjectInv /\ ProgressInv
  BY DEF Init, SubjectInv, ProgressInv
<1>2. TypeOK /\ SubjectInv /\ ProgressInv /\ [Next]_vars => SubjectInv' /\ ProgressInv'
  BY SubjectStep, ProgressStep
<1>3. ASSUME ProgressInv, NEW p \in Procs \ Trials, Finish(p), clean[p], NEW e \in listed[p]
      PROVE  Skipped(e) \/ foreign[e.user] = e.addr \/ Complete(e.user)
  BY <1>3 DEF ProgressInv, Pending, Advanced, Finish
<1>4. ProgressInv =>
        [\A p \in Procs \ Trials : Finish(p) /\ clean[p] =>
            \A e \in listed[p] :
               Skipped(e) \/ foreign[e.user] = e.addr \/ Complete(e.user)]_vars
  BY <1>3
<1> QED
  BY <1>1, <1>2, <1>4, TypeCorrect, PTL DEF Spec, CleanImportIsComplete
=============================================================================
