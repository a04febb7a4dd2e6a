----------------------------- MODULE Scheduler ------------------------------
(***************************************************************************)
(* The container's scheduler (scheduler.py): two jobs with an interval     *)
(* trigger each in one BlockingScheduler of APScheduler, one instance of a *)
(* job at a time, missed runs taken together.  APScheduler is external: a  *)
(* job whose next run time is None is paused and never due.                *)
(*                                                                         *)
(* Time is counted down: wait[j] units are left until job j is due.        *)
(***************************************************************************)
EXTENDS Integers, TLAPS

CONSTANTS
    Jobs,                     \* sync_profiles and sync_groups
    Interval,                 \* SYNC_PROFILES_INTERVAL, SYNC_GROUPS_INTERVAL
    Paused                    \* next_run_time=None

VARIABLES
    wait,                     \* time until the job's next run time, or Paused
    running                   \* jobs with an instance in the thread pool

vars == <<wait, running>>

\* A run is late by more than its grace time, which is the interval, at -Late(j);
\* longer than that makes no difference.
Late(j) == Interval[j] + 1
Waits(j) == (-Late(j))..Interval[j]

TypeOK ==
    /\ \A j \in Jobs : wait[j] \in Waits(j) \cup {Paused}
    /\ running \in SUBSET Jobs

\* build_scheduler gives both jobs next_run_time=None.
Build ==
    /\ wait = [j \in Jobs |-> Paused]
    /\ running = {}

Due(j) == wait[j] # Paused /\ wait[j] <= 0

\* The job starts, once for all the runs that were missed (coalesce).
Submit(j) ==
    /\ Due(j) /\ wait[j] # -Late(j) /\ j \notin running
    /\ wait' = [wait EXCEPT ![j] = Interval[j]]
    /\ running' = running \cup {j}

\* The run is dropped: it is too late, or the only instance is still active.
Drop(j) ==
    /\ Due(j) /\ (wait[j] = -Late(j) \/ j \in running)
    /\ wait' = [wait EXCEPT ![j] = Interval[j]]
    /\ UNCHANGED running

\* The guarded job returns, whether it has worked or raised an exception.
Return(j) ==
    /\ j \in running
    /\ running' = running \ {j}
    /\ UNCHANGED wait

Tick ==
    /\ wait' = [j \in Jobs |-> IF wait[j] = Paused \/ wait[j] = -Late(j)
                               THEN wait[j] ELSE wait[j] - 1]
    /\ UNCHANGED running

Next == Tick \/ \E j \in Jobs : Submit(j) \/ Drop(j) \/ Return(j)

Spec == Build /\ [][Next]_vars

\* Time passes, the scheduler takes every due job up again and again in time, and
\* every run ends: each of its requests has a timeout.
FairSpec ==
    /\ Spec /\ WF_vars(Tick)
    /\ \A j \in Jobs : SF_vars(Submit(j)) /\ WF_vars(Drop(j)) /\ WF_vars(Return(j))

-----------------------------------------------------------------------------
(* Properties.                                                             *)

\* Each job runs again and again: "sync-profiles every SYNC_PROFILES_INTERVAL
\* seconds", "sync-groups every SYNC_GROUPS_INTERVAL seconds".
EachJobRuns == \A j \in Jobs : []<>(j \in running)

-----------------------------------------------------------------------------
(* Proofs.                                                                 *)

AllPaused == wait = [j \in Jobs |-> Paused] /\ running = {}

\* As build_scheduler leaves them no job ever starts, whatever jobs there are and
\* whatever their intervals: nothing in the scheduler resumes a paused job.
THEOREM PausedForever == Spec => [](running = {})
<1>1. Build => AllPaused
  BY DEF Build, AllPaused
<1>2. AllPaused /\ [Next]_vars => AllPaused'
  <2> SUFFICES ASSUME AllPaused, [Next]_vars PROVE AllPaused'
    OBVIOUS
  <2>1. \A j \in Jobs : ~Due(j) /\ j \notin running
    BY DEF AllPaused, Due
  <2>2. CASE Tick
    BY <2>2 DEF AllPaused, Tick
  <2>3. CASE UNCHANGED vars
    BY <2>3 DEF AllPaused, vars
  <2> QED
    BY <2>1, <2>2, <2>3 DEF Next, Submit, Drop, Return
<1>3. AllPaused => running = {}
  BY DEF AllPaused
<1> QED
  BY <1>1, <1>2, <1>3, PTL DEF Spec
=============================================================================
