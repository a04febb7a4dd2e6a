----------------------------- MODULE ChangeFeed -----------------------------
(***************************************************************************)
(* What a consumer of a change feed promises, whatever it does with the    *)
(* changes: it acknowledges a position of the feed only when every change  *)
(* up to that position has been processed.  A crash may make it forget the *)
(* acknowledgement (it then starts from the beginning), never invent one.  *)
(* The profile synchronisation of directory-sync implements this promise.  *)
(***************************************************************************)
EXTENDS Naturals

CONSTANT Users                \* the directory objects the feed reports on

VARIABLES
    clock,                    \* position of the newest change
    changedAt,                \* position of each user's newest change
    handled,                  \* newest position processed for each user
    acked                     \* position acknowledged, 0 for none

feedVars == <<clock, changedAt, handled, acked>>

\* Every change at or before position n has been processed.
Covered(n) == \A u \in Users : changedAt[u] <= n => handled[u] >= changedAt[u]

FeedInit ==
    /\ clock = 1
    /\ changedAt = [u \in Users |-> 1]
    /\ handled = [u \in Users |-> 0]
    /\ acked = 0

\* A user changes: the change gets the next position of the feed.
Change(u) ==
    /\ clock' = clock + 1
    /\ changedAt' = [changedAt EXCEPT ![u] = clock + 1]
    /\ UNCHANGED <<handled, acked>>

\* The feed advances with no change of a user.
Tick ==
    /\ clock' = clock + 1
    /\ UNCHANGED <<changedAt, handled, acked>>

\* The consumer processes a change of u, an old one possibly once more.
Handle(u) ==
    /\ \E n \in 0..clock : n >= handled[u] /\ handled' = [handled EXCEPT ![u] = n]
    /\ UNCHANGED <<clock, changedAt, acked>>

\* The consumer acknowledges a position all of whose changes it processed.
Acknowledge ==
    /\ \E n \in 0..clock : Covered(n) /\ acked' = n
    /\ UNCHANGED <<clock, changedAt, handled>>

FeedNext ==
    \/ \E u \in Users : Change(u) \/ Handle(u)
    \/ Tick
    \/ Acknowledge

FeedSpec == FeedInit /\ [][FeedNext]_feedVars
=============================================================================
