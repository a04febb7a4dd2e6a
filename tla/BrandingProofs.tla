--------------------------- MODULE BrandingProofs ---------------------------
(* Proofs about Branding, for every number of assets, processes, runs and  *)
(* failures, and however Zitadel projects.                                 *)
EXTENDS Branding, FiniteSetTheorems, TLAPS

\* f gives the versions of the first n uploads.
Prefix(f, n) ==
    \A a \in Assets :
        /\ f[a] <= n
        /\ f[a] # 0 => log[f[a]] = a
        /\ \A i \in 1..n : log[i] = a => f[a] >= i

\* The preview is what has been projected.
PreviewInv == Prefix(preview, projected)

\* The active policy is some earlier preview, no older than the one at any
\* run's newest activation.
ActiveInv ==
    \E n \in 0..projected :
        Prefix(active, n) /\ \A p \in Procs : snap[p] <= n

\* A run uploads its assets in their order.
UploadInv ==
    \A p \in Procs :
        /\ \A a \in Uploaded(p) : a < next[p] /\ log[mine[p][a]] = a
        /\ \A a, b \in Uploaded(p) : a < b => mine[p][a] < mine[p][b]

\* What a run found missing came after its activation, what it read and did
\* not find missing is set.
ReadInv ==
    \A p \in Procs :
        /\ unread[p] \subseteq Uploaded(p) /\ missing[p] \subseteq Uploaded(p)
        /\ \A a \in missing[p] : mine[p][a] > snap[p]
        /\ pc[p] = "read" =>
              \A a \in Uploaded(p) \ (unread[p] \cup missing[p]) : active[a] # 0

IInv == TypeOK /\ PreviewInv /\ ActiveInv /\ UploadInv /\ ReadInv

LEMMA InitIInv == Init => IInv
<1> SUFFICES ASSUME Init PROVE IInv
  OBVIOUS
<1> USE NAssetsAssumption DEF Init, Unset, Assets
<1>1. TypeOK
  BY DEF TypeOK, Attempts
<1>2. PreviewInv /\ ActiveInv
  BY DEF PreviewInv, ActiveInv, Prefix
<1>3. UploadInv /\ ReadInv
  BY DEF UploadInv, ReadInv, Uploaded
<1> QED
  BY <1>1, <1>2, <1>3 DEF IInv

LEMMA Appended ==
  ASSUME NEW S, NEW s \in Seq(S), NEW a \in S
  PROVE  /\ Append(s, a) \in Seq(S)
         /\ Len(Append(s, a)) = Len(s) + 1
         /\ Append(s, a)[Len(s) + 1] = a
         /\ \A i \in 1..Len(s) : Append(s, a)[i] = s[i]
OBVIOUS

\* What Upload changes when the file is present.
LEMMA UploadEffect ==
  ASSUME TypeOK, NEW p \in Procs, Upload(p), next[p] \in present[p]
  PROVE  /\ next[p] \in Assets
         /\ log' = Append(log, next[p])
         /\ log' \in Seq(Assets) /\ Len(log') = Len(log) + 1
         /\ mine' = [mine EXCEPT ![p] = [mine[p] EXCEPT ![next[p]] = Len(log) + 1]]
         /\ mine' \in [Procs -> [Assets -> 0..Len(log')]]
<1>1. next[p] \in Assets /\ log' = Append(log, next[p])
  BY DEF TypeOK, Upload
<1>2. log' \in Seq(Assets) /\ Len(log') = Len(log) + 1 /\ Len(log) \in Nat
  BY <1>1, Appended DEF TypeOK
<1>3. mine' = [mine EXCEPT ![p] = [mine[p] EXCEPT ![next[p]] = Len(log) + 1]]
  BY DEF Upload
<1>4. [mine[p] EXCEPT ![next[p]] = Len(log) + 1] \in [Assets -> 0..Len(log')]
  BY <1>1, <1>2 DEF TypeOK
<1>5. mine \in [Procs -> [Assets -> 0..Len(log')]]
  <2>1. \A q \in Procs : mine[q] \in [Assets -> 0..Len(log')]
    BY <1>2 DEF TypeOK
  <2> QED
    BY <2>1 DEF TypeOK
<1> QED
  BY <1>1, <1>2, <1>3, <1>4, <1>5

LEMMA TypeStep == TypeOK /\ [Next]_vars => TypeOK'
<1> SUFFICES ASSUME TypeOK, [Next]_vars PROVE TypeOK'
  OBVIOUS
<1> USE DEF TypeOK
<1>1. CASE UNCHANGED vars
  BY <1>1 DEF vars, zitadelVars, runVars
<1>2. CASE Project
  <2>1. projected' \in 0..Len(log') /\ log[projected + 1] \in Assets
    BY <1>2 DEF Project
  <2>2. preview' \in [Assets -> 0..Len(log')]
    BY <1>2, <2>1 DEF Project
  <2> QED
    BY <1>2, <2>1, <2>2 DEF Project, runVars
<1>3. ASSUME NEW p \in Procs, NEW r \in {"skipped", "complete", "partial", "raised"},
             EndRun(p, r), UNCHANGED zitadelVars, runs' \in Nat, faults' \in Nat
      PROVE  TypeOK'
  BY <1>3, NAssetsAssumption DEF EndRun, Unset, zitadelVars, Attempts
<1>4. ASSUME NEW p \in Procs, Run(p) PROVE TypeOK'
  <2>1. CASE StartDisabled(p)
    BY <2>1, <1>3 DEF StartDisabled
  <2>2. CASE Start(p)
    BY <2>2 DEF Start, zitadelVars
  <2>3. CASE Upload(p)
    <3>1. CASE next[p] \in present[p]
      <4>1. /\ log' \in Seq(Assets) /\ Len(log') = Len(log) + 1
            /\ mine' \in [Procs -> [Assets -> 0..Len(log')]]
        BY <2>3, <3>1, UploadEffect
      <4>2. next' \in [Procs -> 1..NAssets + 1]
        BY <2>3, NAssetsAssumption DEF Upload
      <4>3. /\ preview' \in [Assets -> 0..Len(log')]
            /\ active' \in [Assets -> 0..Len(log')]
            /\ projected' \in 0..Len(log')
            /\ snap' \in [Procs -> 0..Len(log')]
        <5>1. Len(log') = Len(log) + 1 /\ Len(log) \in Nat
          BY <4>1
        <5>2. UNCHANGED <<projected, preview, active, snap>>
          BY <2>3 DEF Upload
        <5>3. 0..Len(log) \subseteq 0..Len(log')
          BY <5>1
        <5> QED
          BY <5>2, <5>3
      <4>4. UNCHANGED <<pc, present, attempt, unread, missing, result, runs, faults>>
        BY <2>3 DEF Upload
      <4> QED
        BY <4>1, <4>2, <4>3, <4>4
    <3>2. CASE next[p] \notin present[p]
      BY <2>3, <3>2, NAssetsAssumption DEF Upload
    <3> QED
      BY <3>1, <3>2
  <2>4. CASE Uploads(p)
    <3>1. CASE Uploaded(p) = {}
      BY <2>4, <3>1, <1>3 DEF Uploads
    <3>2. CASE Uploaded(p) # {}
      BY <2>4, <3>2 DEF Uploads, zitadelVars
    <3> QED
      BY <3>1, <3>2
  <2>5. CASE Activate(p)
    BY <2>5 DEF Activate, Uploaded
  <2>6. CASE ReadField(p)
    BY <2>6 DEF ReadField, zitadelVars
  <2>7. CASE Complete(p)
    BY <2>7, <1>3 DEF Complete
  <2>8. CASE Retry(p)
    <3>1. attempt[p] + 1 \in 1..Attempts
      <4>1. attempt[p] \in 1..Attempts /\ attempt[p] < Attempts
        BY <2>8 DEF Retry
      <4> HIDE DEF TypeOK
      <4> QED
        BY <4>1 DEF Attempts
    <3>2. attempt' \in [Procs -> 1..Attempts]
      BY <2>8, <3>1 DEF Retry
    <3>3. pc' \in [Procs -> {"idle", "upload", "activate", "read"}]
      BY <2>8 DEF Retry
    <3>4. UNCHANGED <<zitadelVars, present, next, mine, unread, missing, result,
                      snap, runs, faults>>
      BY <2>8 DEF Retry
    <3> QED
      BY <3>2, <3>3, <3>4 DEF zitadelVars
  <2>9. CASE GiveUp(p)
    <3>1. EndRun(p, "partial") /\ UNCHANGED zitadelVars
      BY <2>9 DEF GiveUp
    <3>2. runs' \in Nat /\ faults' \in Nat
      BY <2>9 DEF GiveUp
    <3> QED
      BY <3>1, <3>2, <1>3
  <2>10. CASE Raise(p)
    <3>1. faults' \in Nat /\ runs' \in Nat
      BY <2>10 DEF Raise, Fault
    <3>2. EndRun(p, "raised") /\ UNCHANGED zitadelVars
      BY <2>10 DEF Raise
    <3> QED
      BY <3>1, <3>2, <1>3
  <2> QED
    BY <1>4, <2>1, <2>2, <2>3, <2>4, <2>5, <2>6, <2>7, <2>8, <2>9, <2>10 DEF Run
<1> QED
  BY <1>1, <1>2, <1>4 DEF Next

-----------------------------------------------------------------------------
(* Zitadel's side.                                                         *)

\* An upload does not change what is projected.
LEMMA PrefixAppend ==
  ASSUME TypeOK, NEW f \in [Assets -> Nat], NEW n \in 0..projected, Prefix(f, n),
         NEW a \in Assets, log' = Append(log, a)
  PROVE  Prefix(f, n)'
<1>1. n <= Len(log) /\ n \in Nat /\ Len(log) \in Nat
  BY DEF TypeOK
<1>2. \A i \in 1..Len(log) : log'[i] = log[i]
  BY Appended DEF TypeOK
<1> SUFFICES ASSUME NEW b \in Assets
             PROVE  /\ f[b] <= n
                    /\ f[b] # 0 => log'[f[b]] = b
                    /\ \A i \in 1..n : log'[i] = b => f[b] >= i
  BY DEF Prefix
<1>3. f[b] <= n /\ f[b] \in Nat /\ (f[b] # 0 => log[f[b]] = b)
  BY DEF Prefix
<1>4. f[b] # 0 => log'[f[b]] = b
  BY <1>1, <1>2, <1>3
<1>5. \A i \in 1..n : log'[i] = b => f[b] >= i
  BY <1>1, <1>2 DEF Prefix
<1> QED
  BY <1>3, <1>4, <1>5

\* The preview keeps up with the projection.
LEMMA PreviewStep == TypeOK /\ PreviewInv /\ [Next]_vars => PreviewInv'
<1> SUFFICES ASSUME TypeOK, PreviewInv, [Next]_vars PROVE PreviewInv'
  OBVIOUS
<1>1. CASE UNCHANGED <<log, projected, preview>>
  BY <1>1 DEF PreviewInv, Prefix
<1>2. CASE Project
  <2> DEFINE c == log[projected + 1]
  <2>1. c \in Assets /\ projected \in Nat
    BY <1>2 DEF Project, TypeOK
  <2>2. /\ log' = log /\ projected' = projected + 1
        /\ preview' = [preview EXCEPT ![c] = projected + 1]
    BY <1>2 DEF Project
  <2> SUFFICES ASSUME NEW b \in Assets
               PROVE  /\ preview'[b] <= projected'
                      /\ preview'[b] # 0 => log'[preview'[b]] = b
                      /\ \A i \in 1..projected' : log'[i] = b => preview'[b] >= i
    BY DEF PreviewInv, Prefix
  <2>3. /\ preview[b] <= projected /\ preview[b] \in Nat
        /\ preview[b] # 0 => log[preview[b]] = b
        /\ \A i \in 1..projected : log[i] = b => preview[b] >= i
    BY DEF PreviewInv, Prefix, TypeOK
  <2>4. CASE b = c
    <3>1. preview'[b] = projected + 1
      BY <2>2, <2>4 DEF TypeOK
    <3> QED
      BY <3>1, <2>1, <2>2, <2>4
  <2>5. CASE b # c
    <3>1. preview'[b] = preview[b]
      BY <2>2, <2>5 DEF TypeOK
    <3> QED
      BY <3>1, <2>1, <2>2, <2>3, <2>5
  <2> QED
    BY <2>4, <2>5
<1>3. ASSUME NEW p \in Procs, Upload(p), next[p] \in present[p] PROVE PreviewInv'
  <2>1. next[p] \in Assets /\ log' = Append(log, next[p])
    BY <1>3, UploadEffect
  <2>2. UNCHANGED <<projected, preview>> /\ projected \in 0..projected
    BY <1>3 DEF Upload, TypeOK
  <2>3. preview \in [Assets -> Nat]
    BY DEF TypeOK
  <2> QED
    BY <2>1, <2>2, <2>3, PrefixAppend DEF PreviewInv, Prefix
<1>4. ASSUME NEW p \in Procs, Run(p)
      PROVE  \/ UNCHANGED <<log, projected, preview>>
             \/ Upload(p) /\ next[p] \in present[p]
  BY <1>4 DEF Run, StartDisabled, Start, Upload, Uploads, Activate, ReadField,
      Complete, Retry, GiveUp, Raise, zitadelVars
<1> QED
  BY <1>1, <1>2, <1>3, <1>4 DEF Next, vars, zitadelVars
\* Where the steps of the runs touch the active policy or the snapshots.
LEMMA ActiveTouched ==
  ASSUME NEW p \in Procs, Run(p)
  PROVE  \/ UNCHANGED <<log, projected, active>> /\ UNCHANGED snap
         \/ UNCHANGED <<log, projected, active>> /\ snap' = [snap EXCEPT ![p] = 0]
         \/ Activate(p)
         \/ Upload(p) /\ next[p] \in present[p]
BY DEF Run, StartDisabled, Start, Upload, Uploads, Activate, ReadField,
    Complete, Retry, GiveUp, Raise, EndRun, zitadelVars

LEMMA ActiveStep == TypeOK /\ PreviewInv /\ ActiveInv /\ [Next]_vars => ActiveInv'
<1> SUFFICES ASSUME TypeOK, PreviewInv, ActiveInv, [Next]_vars PROVE ActiveInv'
  OBVIOUS
<1> PICK n \in 0..projected : Prefix(active, n) /\ \A q \in Procs : snap[q] <= n
  BY DEF ActiveInv
<1> projected \in Nat /\ n \in Nat /\ snap \in [Procs -> Nat]
  BY DEF TypeOK
<1>1. CASE UNCHANGED <<log, projected, active, snap>>
  BY <1>1 DEF ActiveInv, Prefix
<1>2. CASE Project
  <2>1. n \in 0..projected' /\ UNCHANGED <<log, active, snap>>
    BY <1>2 DEF Project, runVars
  <2> QED
    BY <2>1 DEF ActiveInv, Prefix
<1>3. ASSUME NEW p \in Procs, UNCHANGED <<log, projected, active>>,
             snap' = [snap EXCEPT ![p] = 0]
      PROVE  ActiveInv'
  <2>1. \A q \in Procs : snap'[q] <= n
    BY <1>3
  <2> QED
    BY <1>3, <2>1 DEF ActiveInv, Prefix
<1>4. ASSUME NEW p \in Procs, Activate(p) PROVE ActiveInv'
  <2>1. /\ UNCHANGED <<log, projected>> /\ active' = preview
        /\ snap' = [snap EXCEPT ![p] = projected]
    BY <1>4 DEF Activate
  <2>2. projected \in 0..projected' /\ \A q \in Procs : snap'[q] <= projected
    BY <2>1
  <2> QED
    BY <2>1, <2>2 DEF ActiveInv, PreviewInv, Prefix
<1>5. ASSUME NEW p \in Procs, Upload(p), next[p] \in present[p] PROVE ActiveInv'
  <2>1. next[p] \in Assets /\ log' = Append(log, next[p])
    BY <1>5, UploadEffect
  <2>2. UNCHANGED <<projected, active, snap>>
    BY <1>5 DEF Upload
  <2>3. active \in [Assets -> Nat]
    BY DEF TypeOK
  <2>4. \A a \in Assets : /\ active[a] <= n
                          /\ active[a] # 0 => log'[active[a]] = a
                          /\ \A i \in 1..n : log'[i] = a => active[a] >= i
    BY <2>1, <2>3, PrefixAppend DEF Prefix
  <2> QED
    BY <2>2, <2>4 DEF ActiveInv, Prefix
<1> QED
  BY <1>1, <1>2, <1>3, <1>4, <1>5, ActiveTouched DEF Next, vars, zitadelVars, runVars
-----------------------------------------------------------------------------
(* The runs' side.                                                         *)

\* Where a step touches what UploadInv speaks of.
LEMMA UploadTouched ==
  ASSUME NEW p \in Procs, Run(p)
  PROVE  \/ UNCHANGED <<log, next, mine>>
         \/ /\ UNCHANGED log /\ mine' = [mine EXCEPT ![p] = Unset]
            /\ next' = [next EXCEPT ![p] = 1]
         \/ Upload(p)
BY DEF Run, StartDisabled, Start, Upload, Uploads, Activate, ReadField,
    Complete, Retry, GiveUp, Raise, EndRun, zitadelVars

LEMMA UploadStep == TypeOK /\ UploadInv /\ [Next]_vars => UploadInv'
<1> SUFFICES ASSUME TypeOK, UploadInv, [Next]_vars PROVE UploadInv'
  OBVIOUS
<1>1. CASE UNCHANGED <<log, next, mine>>
  BY <1>1 DEF UploadInv, Uploaded
<1>2. ASSUME NEW p \in Procs, UNCHANGED log, mine' = [mine EXCEPT ![p] = Unset],
             next' = [next EXCEPT ![p] = 1]
      PROVE  UploadInv'
  <2> SUFFICES ASSUME NEW q \in Procs
               PROVE  /\ \A a \in Uploaded(q)' : a < next'[q] /\ log'[mine'[q][a]] = a
                      /\ \A a, b \in Uploaded(q)' : a < b => mine'[q][a] < mine'[q][b]
    BY DEF UploadInv
  <2>1. CASE q = p
    <3>1. Uploaded(q)' = {}
      BY <1>2, <2>1 DEF Uploaded, Unset, TypeOK
    <3> QED
      BY <3>1
  <2>2. CASE q # p
    <3>1. mine'[q] = mine[q] /\ next'[q] = next[q] /\ Uploaded(q)' = Uploaded(q)
      BY <1>2, <2>2 DEF Uploaded, TypeOK
    <3> QED
      BY <1>2, <3>1 DEF UploadInv
  <2> QED
    BY <2>1, <2>2
<1>3. ASSUME NEW p \in Procs, Upload(p), next[p] \notin present[p] PROVE UploadInv'
  <2>1. UNCHANGED <<log, mine>> /\ \A q \in Procs : next'[q] >= next[q] /\ next[q] \in Nat
    BY <1>3 DEF Upload, TypeOK
  <2>2. next' \in [Procs -> Nat]
    BY <1>3 DEF Upload, TypeOK
  <2>3. \A q \in Procs : Uploaded(q)' = Uploaded(q) /\ Uploaded(q) \subseteq Nat
    BY <2>1 DEF Uploaded, Assets
  <2> QED
    BY <2>1, <2>2, <2>3 DEF UploadInv
<1>4. ASSUME NEW p \in Procs, Upload(p), next[p] \in present[p] PROVE UploadInv'
  <2> DEFINE c == next[p]
  <2>1. /\ c \in Assets /\ c \in Nat /\ Len(log) \in Nat
        /\ log' = Append(log, c)
        /\ mine' = [mine EXCEPT ![p] = [mine[p] EXCEPT ![c] = Len(log) + 1]]
    <3>1. Assets \subseteq Nat /\ Len(log) \in Nat
      BY DEF Assets, TypeOK
    <3> QED
      BY <1>4, <3>1, UploadEffect
  <2>2. /\ log'[Len(log) + 1] = c
        /\ \A i \in 1..Len(log) : log'[i] = log[i]
    BY <2>1, Appended DEF TypeOK
  <2>3. next' = [next EXCEPT ![p] = c + 1]
    BY <1>4 DEF Upload
  <2> SUFFICES ASSUME NEW q \in Procs
               PROVE  /\ \A a \in Uploaded(q)' : a < next'[q] /\ log'[mine'[q][a]] = a
                      /\ \A a, b \in Uploaded(q)' : a < b => mine'[q][a] < mine'[q][b]
    BY DEF UploadInv
  <2>4. /\ \A a \in Uploaded(q) : /\ a < next[q] /\ log[mine[q][a]] = a
                                  /\ mine[q][a] \in 1..Len(log)
        /\ \A a, b \in Uploaded(q) : a < b => mine[q][a] < mine[q][b]
    BY DEF UploadInv, Uploaded, TypeOK
  <2>5. CASE q = p
    <3>1. /\ next'[q] = c + 1 /\ mine'[q][c] = Len(log) + 1
          /\ \A a \in Assets : a # c => mine'[q][a] = mine[q][a]
      BY <2>1, <2>3, <2>5 DEF TypeOK
    <3>2. Uploaded(q)' \subseteq Uploaded(q) \cup {c} /\ Uploaded(q)' \subseteq Assets
      BY <3>1 DEF Uploaded
    <3>3. ASSUME NEW a \in Uploaded(q)', a # c
          PROVE  /\ a \in Uploaded(q) /\ a \in Nat /\ a < c
                 /\ mine'[q][a] = mine[q][a] /\ mine'[q][a] \in 1..Len(log)
      BY <3>1, <3>2, <3>3, <2>4, <2>5 DEF Assets
    <3>4. \A a \in Uploaded(q)' : a < next'[q] /\ log'[mine'[q][a]] = a
      BY <3>1, <3>3, <2>1, <2>2, <2>4
    <3>5. ASSUME NEW a \in Uploaded(q)', NEW b \in Uploaded(q)', a < b
          PROVE  mine'[q][a] < mine'[q][b]
      <4>1. CASE b = c
        BY <4>1, <3>1, <3>3, <3>5, <2>1
      <4>2. CASE b # c /\ a = c
        BY <4>2, <3>3, <3>5, <2>1
      <4>3. CASE b # c /\ a # c
        BY <4>3, <3>3, <3>5, <2>4
      <4> QED
        BY <4>1, <4>2, <4>3
    <3> QED
      BY <3>4, <3>5
  <2>6. CASE q # p
    <3>1. mine'[q] = mine[q] /\ next'[q] = next[q] /\ Uploaded(q)' = Uploaded(q)
      BY <2>1, <2>3, <2>6 DEF Uploaded, TypeOK
    <3> QED
      BY <3>1, <2>2, <2>4
  <2> QED
    BY <2>5, <2>6
<1> QED
  BY <1>1, <1>2, <1>3, <1>4, UploadTouched DEF Next, Project, vars, zitadelVars, runVars
\* Where a step touches what ReadInv speaks of.
LEMMA ReadTouched ==
  ASSUME NEW p \in Procs, Run(p)
  PROVE  \/ (\E r \in {"skipped", "complete", "partial", "raised"} : EndRun(p, r))
               /\ UNCHANGED active
         \/ Start(p) \/ Upload(p) \/ Activate(p) \/ ReadField(p) \/ Retry(p)
         \/ Uploads(p) /\ Uploaded(p) # {}
BY DEF Run, StartDisabled, Uploads, Complete, GiveUp, Raise, zitadelVars

\* An activation unsets no asset.
LEMMA StaysSet ==
  ASSUME TypeOK, PreviewInv, ActiveInv, NEW a \in Assets, active[a] # 0
  PROVE  preview[a] # 0
<1> PICK n \in 0..projected : Prefix(active, n)
  BY DEF ActiveInv
<1>1. /\ active[a] \in 1..projected /\ log[active[a]] = a
      /\ preview[a] \in Nat
  BY DEF Prefix, TypeOK
<1> QED
  BY <1>1 DEF PreviewInv, Prefix

\* What a run uploaded before its newest activation is set.
LEMMA SetSinceSnap ==
  ASSUME TypeOK, ActiveInv, UploadInv, NEW p \in Procs, NEW a \in Uploaded(p),
         mine[p][a] <= snap[p]
  PROVE  active[a] # 0
<1> PICK n \in 0..projected : Prefix(active, n) /\ \A q \in Procs : snap[q] <= n
  BY DEF ActiveInv
<1>1. a \in Assets /\ log[mine[p][a]] = a
  BY DEF UploadInv, Uploaded
<1>2. mine[p][a] \in Nat \ {0} /\ snap[p] \in Nat /\ n \in Nat /\ projected \in Nat
  <2>1. mine[p][a] \in 0..Len(log) /\ snap[p] \in 0..Len(log) /\ Len(log) \in Nat
    BY <1>1 DEF TypeOK
  <2>2. mine[p][a] # 0 /\ projected \in Nat
    BY DEF Uploaded, TypeOK
  <2> QED
    BY <2>1, <2>2
<1>3. mine[p][a] \in 1..n
  BY <1>2
<1>4. active[a] \in Nat /\ active[a] >= mine[p][a]
  <2>1. active[a] \in Nat
    BY <1>1 DEF TypeOK
  <2> QED
    BY <1>1, <1>3, <2>1 DEF Prefix
<1> QED
  BY <1>2, <1>4
LEMMA ReadStep ==
  TypeOK /\ PreviewInv /\ ActiveInv /\ UploadInv /\ ReadInv /\ [Next]_vars => ReadInv'
<1> SUFFICES ASSUME TypeOK, PreviewInv, ActiveInv, UploadInv, ReadInv, [Next]_vars
             PROVE  ReadInv'
  OBVIOUS
<1> DEFINE Good(q) ==
      /\ unread[q] \subseteq Uploaded(q) /\ missing[q] \subseteq Uploaded(q)
      /\ \A a \in missing[q] : mine[q][a] > snap[q]
      /\ pc[q] = "read" =>
            \A a \in Uploaded(q) \ (unread[q] \cup missing[q]) : active[a] # 0
<1>1. \A q \in Procs : Good(q) /\ Uploaded(q) \subseteq Assets
  BY DEF ReadInv, Uploaded
\* A process whose locals stay as they are, whatever happens to the policy.
<1>2. ASSUME NEW q \in Procs,
             pc'[q] = pc[q], unread'[q] = unread[q], missing'[q] = missing[q],
             mine'[q] = mine[q], snap'[q] = snap[q],
             \A a \in Assets : active[a] # 0 => active'[a] # 0
      PROVE  Good(q)'
  <2>1. Uploaded(q)' = Uploaded(q)
    BY <1>2 DEF Uploaded
  <2> QED
    BY <1>1, <1>2, <2>1
<1>3. CASE UNCHANGED <<active, runVars>>
  BY <1>2, <1>3 DEF ReadInv, runVars
<1>4. ASSUME NEW p \in Procs, Run(p) PROVE ReadInv'
  <2>1. \A a \in Assets : active[a] # 0 => active'[a] # 0
    <3>1. CASE UNCHANGED active
      BY <3>1
    <3>2. CASE Activate(p)
      BY <3>2, StaysSet DEF Activate
    <3>3. CASE Upload(p)
      BY <3>3 DEF Upload
    <3> QED
      BY <1>4, <3>1, <3>2, <3>3, ActiveTouched
  <2>2. ASSUME NEW q \in Procs, q # p PROVE Good(q)'
    <3>1. /\ pc'[q] = pc[q] /\ unread'[q] = unread[q] /\ missing'[q] = missing[q]
          /\ mine'[q] = mine[q] /\ snap'[q] = snap[q]
      <4>1. CASE \E r \in {"skipped", "complete", "partial", "raised"} : EndRun(p, r)
        BY <2>2, <4>1 DEF EndRun, TypeOK
      <4>2. CASE Start(p)
        BY <2>2, <4>2 DEF Start, TypeOK
      <4>3. CASE Upload(p)
        BY <2>2, <4>3 DEF Upload, TypeOK
      <4>4. CASE Activate(p)
        BY <2>2, <4>4 DEF Activate, TypeOK
      <4>5. CASE ReadField(p)
        BY <2>2, <4>5 DEF ReadField, TypeOK
      <4>6. CASE Retry(p) \/ (Uploads(p) /\ Uploaded(p) # {})
        BY <2>2, <4>6 DEF Retry, Uploads, TypeOK
      <4> QED
        BY <1>4, <4>1, <4>2, <4>3, <4>4, <4>5, <4>6, ReadTouched
    <3> QED
      BY <3>1, <2>1, <1>2
  <2>3. Good(p)'
    <3>1. CASE \E r \in {"skipped", "complete", "partial", "raised"} : EndRun(p, r)
      <4>1. pc'[p] = "idle" /\ unread'[p] = {} /\ missing'[p] = {}
        BY <3>1 DEF EndRun, TypeOK
      <4> QED
        BY <4>1
    <3>2. CASE Start(p)
      <4>1. /\ pc'[p] = "upload" /\ unread'[p] = unread[p] /\ missing'[p] = missing[p]
            /\ mine'[p] = mine[p] /\ snap'[p] = snap[p]
        BY <3>2 DEF Start, TypeOK
      <4>2. Uploaded(p)' = Uploaded(p)
        BY <4>1 DEF Uploaded
      <4> QED
        BY <4>1, <4>2, <1>1
    <3>3. CASE Upload(p)
      <4>1. /\ pc'[p] = "upload" /\ unread'[p] = unread[p] /\ missing'[p] = missing[p]
            /\ snap'[p] = snap[p]
        BY <3>3 DEF Upload, TypeOK
      <4>2. \A a \in Assets : a # next[p] => mine'[p][a] = mine[p][a]
        BY <3>3 DEF Upload, TypeOK
      <4>3. \A a \in Uploaded(p) : a # next[p]
        BY NAssetsAssumption DEF UploadInv, Uploaded, TypeOK, Assets
      <4>4. Uploaded(p) \subseteq Uploaded(p)'
        BY <4>2, <4>3 DEF Uploaded
      <4> QED
        BY <1>1, <4>1, <4>2, <4>3, <4>4
    <3>4. CASE Activate(p)
      <4>1. /\ unread'[p] = Uploaded(p) /\ missing'[p] = {} /\ mine'[p] = mine[p]
        BY <3>4 DEF Activate, TypeOK
      <4>2. Uploaded(p)' = Uploaded(p)
        BY <4>1 DEF Uploaded
      <4> QED
        BY <4>1, <4>2
    <3>5. CASE ReadField(p)
      <4> PICK a \in unread[p] :
            /\ unread' = [unread EXCEPT ![p] = @ \ {a}]
            /\ missing' = [missing EXCEPT ![p] = IF active[a] = 0 THEN @ \cup {a} ELSE @]
        BY <3>5 DEF ReadField
      <4>1. /\ UNCHANGED <<active, mine, snap>> /\ pc'[p] = "read" /\ pc[p] = "read"
        BY <3>5 DEF ReadField, zitadelVars
      <4>2. Uploaded(p)' = Uploaded(p) /\ a \in Uploaded(p)
        BY <4>1, <1>1 DEF Uploaded
      <4>3. unread'[p] = unread[p] \ {a}
        BY DEF TypeOK
      <4>4. CASE active[a] = 0
        <5>1. missing'[p] = missing[p] \cup {a}
          BY <4>4 DEF TypeOK
        <5>2. mine[p][a] > snap[p]
          <6>1. mine[p][a] \in Nat /\ snap[p] \in Nat
            BY <4>2, <1>1 DEF TypeOK
          <6> QED
            BY <6>1, <4>2, <4>4, SetSinceSnap
        <5> QED
          BY <1>1, <4>1, <4>2, <4>3, <5>1, <5>2
      <4>5. CASE active[a] # 0
        <5>1. missing'[p] = missing[p]
          BY <4>5 DEF TypeOK
        <5> QED
          BY <1>1, <4>1, <4>2, <4>3, <4>5, <5>1
      <4> QED
        BY <4>4, <4>5
    <3>6. CASE Retry(p) \/ (Uploads(p) /\ Uploaded(p) # {})
      <4>1. /\ pc'[p] = "activate" /\ unread'[p] = unread[p] /\ missing'[p] = missing[p]
            /\ mine'[p] = mine[p] /\ snap'[p] = snap[p]
        BY <3>6 DEF Retry, Uploads, TypeOK
      <4>2. Uploaded(p)' = Uploaded(p)
        BY <4>1 DEF Uploaded
      <4> QED
        BY <4>1, <4>2, <1>1
    <3> QED
      BY <1>4, <3>1, <3>2, <3>3, <3>4, <3>5, <3>6, ReadTouched
  <2> QED
    BY <2>2, <2>3 DEF ReadInv
<1> QED
  BY <1>3, <1>4 DEF Next, Project, vars, zitadelVars

-----------------------------------------------------------------------------
LEMMA IInvStep == IInv /\ [Next]_vars => IInv'
BY TypeStep, PreviewStep, ActiveStep, UploadStep, ReadStep DEF IInv

LEMMA IInvAlways == Spec => []IInv
<1> QED
  BY InitIInv, IInvStep, PTL DEF Spec

\* Every variable keeps its type, for any number of assets, runs and failures.
THEOREM TypeCorrect == Spec => []TypeOK
<1>1. IInv => TypeOK
  BY DEF IInv
<1> QED
  BY <1>1, IInvAlways, PTL

\* The order of the uploads is kept on the active policy: an asset of a run is
\* never active before the assets the run uploaded earlier.
THEOREM EarlierAssetsAlwaysActive == Spec => []EarlierAssetsActive
<1>1. ASSUME IInv PROVE EarlierAssetsActive
  <2> PICK n \in 0..projected : Prefix(active, n)
    BY <1>1 DEF IInv, ActiveInv
  <2> SUFFICES ASSUME NEW p \in Procs, NEW a \in Uploaded(p), NEW b \in Uploaded(p),
                      a < b, active[b] >= mine[p][b]
               PROVE  active[a] >= mine[p][a]
    BY DEF EarlierAssetsActive
  <2>1. a \in Assets /\ b \in Assets /\ log[mine[p][a]] = a /\ mine[p][a] < mine[p][b]
    BY <1>1 DEF IInv, UploadInv, Uploaded
  <2>2. mine[p][a] # 0 /\ mine[p][a] \in Nat /\ mine[p][b] \in Nat
    BY <1>1, <2>1 DEF IInv, TypeOK, Uploaded
  <2>3. active[b] <= n /\ active[b] \in Nat /\ n \in Nat
    BY <1>1, <2>1 DEF IInv, TypeOK, Prefix
  <2>4. mine[p][a] \in 1..n
    BY <2>1, <2>2, <2>3
  <2> QED
    BY <2>1, <2>4 DEF Prefix
<1> QED
  BY <1>1, IInvAlways, PTL

\* The verification is sound as far as it goes: success means that every
\* uploaded asset is set, whatever other runs activate between the reads.
THEOREM SuccessMeansPresent == Spec => CompleteMeansPresent
<1>1. IInv /\ [Next]_vars =>
        [\A p \in Procs : Complete(p) => \A a \in Uploaded(p) : active[a] # 0]_vars
  BY DEF IInv, ReadInv, Complete, AllRead
<1> QED
  BY <1>1, IInvAlways, PTL DEF Spec, CompleteMeansPresent

\* A run never gives up on assets Zitadel had projected in time.
THEOREM GivesUpOnLagOnly == Spec => GivesUpOnlyOnLag
<1>1. IInv /\ [Next]_vars =>
        [\A p \in Procs : GiveUp(p) => \E a \in Uploaded(p) : mine[p][a] > snap[p]]_vars
  BY DEF IInv, ReadInv, GiveUp
<1> QED
  BY <1>1, IInvAlways, PTL DEF Spec, GivesUpOnlyOnLag

-----------------------------------------------------------------------------
(* Every run is bounded.                                                   *)

\* Any set of assets is finite and has at most NAssets members.
LEMMA SomeAssets ==
  ASSUME NEW S \in SUBSET Assets
  PROVE  IsFiniteSet(S) /\ Cardinality(S) \in 0..NAssets
<1>1. IsFiniteSet(Assets) /\ Cardinality(Assets) = NAssets
  BY NAssetsAssumption, FS_Interval DEF Assets
<1>2. IsFiniteSet(S) /\ Cardinality(S) <= NAssets
  BY <1>1, FS_Subset
<1>3. Cardinality(S) \in Nat
  BY <1>2, FS_CardinalityType
<1> QED
  BY <1>2, <1>3, NAssetsAssumption

\* The attempts a run has left, as a sum a linear prover can work with.
LEMMA AttemptsLeft ==
  ASSUME TypeOK, NEW p \in Procs
  PROVE  /\ PerAttempt \in Nat /\ PerAttempt = NAssets + 2
         /\ LaterAttempts(p) \in 0..4 * PerAttempt
         /\ Attempts * PerAttempt = 5 * PerAttempt
<1>1. PerAttempt \in Nat /\ PerAttempt = NAssets + 2
  BY NAssetsAssumption DEF PerAttempt
<1>2. attempt[p] \in 1..5
  BY DEF TypeOK, Attempts
<1>3. attempt[p] = 1 \/ attempt[p] = 2 \/ attempt[p] = 3 \/ attempt[p] = 4 \/ attempt[p] = 5
  BY <1>2
<1>4. LaterAttempts(p) = (5 - attempt[p]) * PerAttempt
  BY DEF LaterAttempts, Attempts
<1> HIDE DEF LaterAttempts
<1>5. LaterAttempts(p) \in 0..4 * PerAttempt
  BY <1>1, <1>3, <1>4
<1> QED
  BY <1>1, <1>5 DEF Attempts

\* An attempt more is PerAttempt steps less.
LEMMA AttemptTaken ==
  ASSUME TypeOK, NEW p \in Procs, attempt[p] < Attempts, attempt'[p] = attempt[p] + 1
  PROVE  LaterAttempts(p)' + PerAttempt = LaterAttempts(p)
<1>1. PerAttempt \in Nat
  BY NAssetsAssumption DEF PerAttempt
<1>2. attempt[p] \in 1..5 /\ attempt[p] < 5
  BY DEF TypeOK, Attempts
<1>3. attempt[p] = 1 \/ attempt[p] = 2 \/ attempt[p] = 3 \/ attempt[p] = 4
  BY <1>2
<1>4. /\ LaterAttempts(p) = (5 - attempt[p]) * PerAttempt
      /\ LaterAttempts(p)' = (5 - (attempt[p] + 1)) * PerAttempt
  BY DEF LaterAttempts, Attempts, PerAttempt
<1> HIDE DEF LaterAttempts
<1> QED
  BY <1>1, <1>3, <1>4

\* StepsLeft where a run stands, as a number.
LEMMA StepsLeftAt ==
  ASSUME TypeOK, NEW p \in Procs
  PROVE  /\ pc[p] = "idle" => StepsLeft(p) = 0
         /\ pc[p] = "upload" => StepsLeft(p) = (NAssets + 2 - next[p]) + 5 * PerAttempt
         /\ pc[p] = "activate" => StepsLeft(p) = LaterAttempts(p) + PerAttempt
         /\ pc[p] = "read" => /\ StepsLeft(p) = LaterAttempts(p) + Cardinality(unread[p]) + 1
                              /\ IsFiniteSet(unread[p])
                              /\ Cardinality(unread[p]) \in 0..NAssets
<1>1. unread[p] \in SUBSET Assets
  BY DEF TypeOK
<1> QED
  BY <1>1, AttemptsLeft, SomeAssets DEF StepsLeft

\* A run takes at most MostSteps steps: one per asset and one more for the uploads,
\* then at most five times an activation, the reads and a verdict.
MostSteps == NAssets + 1 + Attempts * (NAssets + 2)

LEMMA StepsLeftBounded ==
  ASSUME TypeOK, NEW p \in Procs
  PROVE  /\ StepsLeft(p) \in 0..MostSteps
         /\ pc[p] # "idle" => StepsLeft(p) >= 1
<1>1. /\ pc[p] \in {"idle", "upload", "activate", "read"}
      /\ next[p] \in 1..NAssets + 1 /\ NAssets \in Nat
  BY NAssetsAssumption DEF TypeOK
<1>2. MostSteps = NAssets + 1 + 5 * PerAttempt
  BY AttemptsLeft DEF MostSteps, Attempts
<1> HIDE DEF MostSteps
<1>3. CASE pc[p] = "idle"
  BY <1>1, <1>2, <1>3, StepsLeftAt, AttemptsLeft
<1>4. CASE pc[p] = "upload"
  BY <1>1, <1>2, <1>4, StepsLeftAt, AttemptsLeft
<1>5. CASE pc[p] = "activate"
  BY <1>1, <1>2, <1>5, StepsLeftAt, AttemptsLeft
<1>6. CASE pc[p] = "read"
  BY <1>1, <1>2, <1>6, StepsLeftAt, AttemptsLeft
<1> QED
  BY <1>1, <1>3, <1>4, <1>5, <1>6

\* What StepsLeft reads of a process only its own steps change.
LEMMA OthersLocals ==
  ASSUME TypeOK, NEW p \in Procs, NEW q \in Procs, q # p, Run(q)
  PROVE  UNCHANGED <<pc[p], next[p], attempt[p], unread[p]>>
<1>1. ASSUME NEW r, EndRun(q, r) PROVE UNCHANGED <<pc[p], next[p], attempt[p], unread[p]>>
  BY <1>1 DEF EndRun, TypeOK
<1>2. CASE StartDisabled(q) \/ Complete(q) \/ GiveUp(q) \/ Raise(q)
  BY <1>1, <1>2 DEF StartDisabled, Complete, GiveUp, Raise
<1>3. CASE Start(q)
  BY <1>3 DEF Start, TypeOK
<1>4. CASE Upload(q)
  BY <1>4 DEF Upload, TypeOK
<1>5. CASE Uploads(q)
  BY <1>1, <1>5 DEF Uploads, TypeOK
<1>6. CASE Activate(q)
  BY <1>6 DEF Activate, TypeOK
<1>7. CASE ReadField(q)
  BY <1>7 DEF ReadField, TypeOK
<1>8. CASE Retry(q)
  BY <1>8 DEF Retry, TypeOK
<1> QED
  BY <1>2, <1>3, <1>4, <1>5, <1>6, <1>7, <1>8 DEF Run

LEMMA RunNearsItsEnd ==
  ASSUME TypeOK, TypeOK', NEW p \in Procs, pc[p] # "idle", Run(p)
  PROVE  StepsLeft(p)' < StepsLeft(p)
<1> DEFINE Ended == pc'[p] = "idle"
<1> NAssets \in Nat /\ next[p] \in 1..NAssets + 1
  BY NAssetsAssumption DEF TypeOK
<1>1. CASE Ended
  <2>1. StepsLeft(p)' = 0
    BY <1>1 DEF StepsLeft
  <2>2. StepsLeft(p) \in Nat /\ StepsLeft(p) >= 1
    BY StepsLeftBounded
  <2> QED
    BY <2>1, <2>2
<1>2. ASSUME NEW r, EndRun(p, r) PROVE Ended
  BY <1>2 DEF EndRun, TypeOK
<1>3. CASE StartDisabled(p) \/ Start(p)
  BY <1>3 DEF StartDisabled, Start
<1>4. CASE Upload(p)
  <2>1. /\ pc[p] = "upload" /\ pc'[p] = "upload" /\ next'[p] = next[p] + 1
        /\ next[p] <= NAssets
    BY <1>4 DEF Upload, TypeOK
  <2>2. StepsLeft(p)' = (NAssets + 2 - next'[p]) + Attempts * PerAttempt
    BY <2>1 DEF StepsLeft, PerAttempt
  <2>3. StepsLeft(p) = (NAssets + 2 - next[p]) + 5 * PerAttempt
    BY <2>1, StepsLeftAt
  <2> QED
    BY <2>1, <2>2, <2>3, AttemptsLeft
<1>5. CASE Uploads(p) /\ Uploaded(p) # {}
  <2>1. /\ pc[p] = "upload" /\ next[p] = NAssets + 1
        /\ pc'[p] = "activate" /\ attempt'[p] = attempt[p]
    BY <1>5 DEF Uploads, TypeOK
  <2>2. StepsLeft(p)' = LaterAttempts(p) + PerAttempt
    BY <2>1 DEF StepsLeft, LaterAttempts, PerAttempt
  <2>3. StepsLeft(p) = 1 + 5 * PerAttempt
    BY <2>1, StepsLeftAt, AttemptsLeft
  <2> QED
    BY <2>2, <2>3, AttemptsLeft
<1>6. CASE Activate(p)
  <2>1. /\ pc[p] = "activate" /\ pc'[p] = "read" /\ attempt'[p] = attempt[p]
        /\ unread'[p] = Uploaded(p)
    BY <1>6 DEF Activate, TypeOK
  <2>2. StepsLeft(p)' = LaterAttempts(p) + Cardinality(Uploaded(p)) + 1
    BY <2>1 DEF StepsLeft, LaterAttempts, PerAttempt
  <2>3. Cardinality(Uploaded(p)) \in 0..NAssets
    BY SomeAssets DEF Uploaded
  <2>4. StepsLeft(p) = LaterAttempts(p) + PerAttempt
    BY <2>1, StepsLeftAt
  <2> QED
    BY <2>2, <2>3, <2>4, AttemptsLeft
<1>7. CASE ReadField(p)
  <2> PICK a \in unread[p] : unread' = [unread EXCEPT ![p] = @ \ {a}]
    BY <1>7 DEF ReadField
  <2>1. /\ pc[p] = "read" /\ pc'[p] = "read" /\ attempt'[p] = attempt[p]
        /\ unread'[p] = unread[p] \ {a}
    BY <1>7 DEF ReadField, TypeOK
  <2>2. /\ StepsLeft(p) = LaterAttempts(p) + Cardinality(unread[p]) + 1
        /\ IsFiniteSet(unread[p]) /\ Cardinality(unread[p]) \in 0..NAssets
    BY <2>1, StepsLeftAt
  <2>3. StepsLeft(p)' = LaterAttempts(p) + Cardinality(unread[p] \ {a}) + 1
    BY <2>1 DEF StepsLeft, LaterAttempts, PerAttempt
  <2>4. Cardinality(unread[p] \ {a}) = Cardinality(unread[p]) - 1
    BY <2>2, FS_RemoveElement
  <2> QED
    BY <2>2, <2>3, <2>4, AttemptsLeft
<1>8. CASE Retry(p)
  <2>1. /\ pc[p] = "read" /\ pc'[p] = "activate"
        /\ attempt[p] < Attempts /\ attempt'[p] = attempt[p] + 1
    BY <1>8 DEF Retry, AllRead, TypeOK
  <2>2. StepsLeft(p)' = LaterAttempts(p)' + PerAttempt
    BY <2>1 DEF StepsLeft, PerAttempt
  <2>3. LaterAttempts(p)' + PerAttempt = LaterAttempts(p)
    BY <2>1, AttemptTaken
  <2>4. /\ StepsLeft(p) = LaterAttempts(p) + Cardinality(unread[p]) + 1
        /\ Cardinality(unread[p]) \in 0..NAssets
    BY <2>1, StepsLeftAt
  <2> QED
    BY <2>2, <2>3, <2>4, AttemptsLeft
<1>9. CASE Complete(p) \/ GiveUp(p) \/ Raise(p) \/ (Uploads(p) /\ Uploaded(p) = {})
  <2>1. \E r : EndRun(p, r)
    BY <1>9 DEF Complete, GiveUp, Raise, Uploads
  <2> QED
    BY <2>1, <1>1, <1>2
<1> QED
  BY <1>3, <1>4, <1>5, <1>6, <1>7, <1>8, <1>9 DEF Run

\* Every step of a run brings its end nearer and nothing else puts it off, for any
\* number of assets and whatever Zitadel projects.
THEOREM RunsNearTheirEnd == Spec => EachStepNearsTheEnd
<1>1. ASSUME TypeOK, TypeOK', [Next]_vars, NEW p \in Procs, pc[p] # "idle"
      PROVE  IF Run(p) THEN StepsLeft(p)' < StepsLeft(p)
                       ELSE StepsLeft(p)' = StepsLeft(p)
  <2>1. CASE Run(p)
    BY <1>1, <2>1, RunNearsItsEnd
  <2>2. ASSUME UNCHANGED <<pc[p], next[p], attempt[p], unread[p]>>
        PROVE  StepsLeft(p)' = StepsLeft(p)
    BY <2>2 DEF StepsLeft, LaterAttempts, PerAttempt
  <2>3. CASE ~Run(p)
    <3>1. ASSUME UNCHANGED runVars PROVE StepsLeft(p)' = StepsLeft(p)
      BY <2>2, <3>1 DEF runVars
    <3>2. ASSUME NEW q \in Procs, Run(q), q # p PROVE StepsLeft(p)' = StepsLeft(p)
      BY <1>1, <2>2, <3>2, OthersLocals
    <3>3. UNCHANGED runVars \/ \E q \in Procs : Run(q) /\ q # p
      BY <1>1, <2>3 DEF Next, Project, vars
    <3>4. StepsLeft(p)' = StepsLeft(p)
      BY <3>1, <3>2, <3>3
    <3> QED
      BY <2>3, <3>4
  <2> QED
    BY <2>1, <2>3
<1>2. TypeOK /\ TypeOK' /\ [Next]_vars =>
        [\A p \in Procs : pc[p] # "idle" =>
           IF Run(p) THEN StepsLeft(p)' < StepsLeft(p)
                     ELSE StepsLeft(p)' = StepsLeft(p)]_vars
  BY <1>1
<1> QED
  BY <1>2, TypeCorrect, PTL DEF Spec, EachStepNearsTheEnd

\* A run takes at most MostSteps steps from its start: with the theorem before, it
\* ends after that many whatever Zitadel answers.
THEOREM RunsAreBounded == Spec => [](\A p \in Procs : StepsLeft(p) \in 0..MostSteps)
<1>1. TypeOK => \A p \in Procs : StepsLeft(p) \in 0..MostSteps
  BY StepsLeftBounded
<1> QED
  BY <1>1, TypeCorrect, PTL
=============================================================================
