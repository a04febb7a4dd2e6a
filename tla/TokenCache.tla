----------------------------- MODULE TokenCache -----------------------------
(***************************************************************************)
(* The access token a client of directory-sync keeps between its requests: *)
(* ZitadelClient.token (zitadel.py) and GraphClient._bearer (graph.py).    *)
(* The scheduler's jobs run in threads that share one client of each kind, *)
(* and nothing locks the two attributes `_token` and `_token_exp`: they    *)
(* are tested together, assigned one after the other, and the token is     *)
(* read once more when it is returned.                                     *)
(*                                                                         *)
(* A token stands for the time it was issued at; 0 is None.  Times are     *)
(* those of one clock, which the client and the issuer share.              *)
(***************************************************************************)
EXTENDS Naturals

CONSTANTS
    Threads,                  \* threads that use the client
    Lifetime,                 \* how long an issued token is accepted
    Slack,                    \* the 60 s before its expiry
    Delay,                    \* longest time a request takes; httpx bounds each phase
                              \* of one by 30 s, nothing in the code the whole of it
    MaxTime                   \* bound: the clock stops there

ASSUME TimesAssumption ==
    Lifetime \in Nat /\ Slack \in Nat /\ Delay \in Nat /\ MaxTime \in Nat

\* Zitadel's tokens last for hours (AccessTokenLifetime), Entra's for about one.
ASSUME LifetimeAssumption == Slack < Lifetime

\* How far the expiry in the cache may lie behind the true one of the token next
\* to it.  It is counted from an answer that took up to Delay to arrive; with
\* several threads that answer may also belong to a younger token.
Skew == IF \A s, t \in Threads : s = t THEN Delay ELSE 2 * Delay

VARIABLES
    client,                   \* whose cache this is; it never changes
    now,                      \* the clock
    token,                    \* self._token
    exp,                      \* self._token_exp
    pc,                       \* where a thread is in token() or _bearer()
    since,                    \* when the request a thread is in began
    issued,                   \* the token in the answer a thread holds
    got                       \* the token a thread sends with its request

cacheVars == <<client, token, exp>>
threadVars == <<pc, since, issued, got>>
vars == <<now, cacheVars, threadVars>>

None == 0

\* No time lies in the future but the expiry, by a lifetime at most.
TypeOK ==
    /\ client \in {"zitadel", "graph"}
    /\ now \in Nat \ {0}
    /\ token \in 0..now
    /\ exp \in 0..(now + Lifetime)
    /\ pc \in [Threads -> {"idle", "request", "token", "exp", "return", "send"}]
    /\ since \in [Threads -> 0..now]
    /\ issued \in [Threads -> 0..now]
    /\ got \in [Threads -> 0..now]

Init ==
    /\ client \in {"zitadel", "graph"}
    /\ now = 1
    /\ token = None /\ exp = 0
    /\ pc = [t \in Threads |-> "idle"]
    /\ since = [t \in Threads |-> 0]
    /\ issued = [t \in Threads |-> None]
    /\ got = [t \in Threads |-> None]

-----------------------------------------------------------------------------

\* A variant of Fresh without the slack.
FreshToTheEnd == token # None /\ exp > now

\* The cached token is good for the slack and more.
Fresh == token # None /\ exp > now + Slack

\* The thread asks for the token, which is in the cache.
Hit(t) ==
    /\ pc[t] = "idle" /\ Fresh
    /\ pc' = [pc EXCEPT ![t] = "return"]
    /\ since' = [since EXCEPT ![t] = now]
    /\ UNCHANGED <<now, cacheVars, issued, got>>

\* There is none, or it is about to expire: a new one is requested.
Miss(t) ==
    /\ pc[t] = "idle" /\ ~Fresh
    /\ pc' = [pc EXCEPT ![t] = "request"]
    /\ since' = [since EXCEPT ![t] = now]
    /\ UNCHANGED <<now, cacheVars, issued, got>>

\* The issuer hands out a token; its answer is on the way.
Issue(t) ==
    /\ pc[t] = "request"
    /\ pc' = [pc EXCEPT ![t] = "token"]
    /\ issued' = [issued EXCEPT ![t] = now]
    /\ UNCHANGED <<now, cacheVars, since, got>>

\* The request is refused or lost: ZitadelError, or what get_token raises.
RequestFails(t) ==
    /\ pc[t] \in {"request", "token"}
    /\ pc' = [pc EXCEPT ![t] = "idle"]
    /\ issued' = [issued EXCEPT ![t] = None]
    /\ UNCHANGED <<now, cacheVars, since, got>>

\* self._token = ...
StoreToken(t) ==
    /\ pc[t] = "token"
    /\ token' = issued[t]
    /\ pc' = [pc EXCEPT ![t] = "exp"]
    /\ UNCHANGED <<now, client, exp, since, issued, got>>

\* A variant of ExpiresIn that adds the slack instead of keeping it.
ExpiresInAndSlack == now + Lifetime + Slack

\* Zitadel answers with a duration, which is counted from here on.
ExpiresIn == now + Lifetime

\* Entra's answer comes as a point in time.
ExpiresOn(t) == issued[t] + Lifetime

\* self._token_exp = ...
StoreExp(t) ==
    /\ pc[t] = "exp"
    /\ exp' = IF client = "zitadel" THEN ExpiresIn ELSE ExpiresOn(t)
    /\ pc' = [pc EXCEPT ![t] = "return"]
    /\ since' = [since EXCEPT ![t] = now]
    /\ issued' = [issued EXCEPT ![t] = None]
    /\ UNCHANGED <<now, client, token, got>>

\* return self._token: whatever it is by now.  The request with it begins.
Return(t) ==
    /\ pc[t] = "return"
    /\ got' = [got EXCEPT ![t] = token]
    /\ pc' = [pc EXCEPT ![t] = "send"]
    /\ UNCHANGED <<now, cacheVars, since, issued>>

\* The request has reached the server, or it is lost.
Sent(t) ==
    /\ pc[t] = "send"
    /\ pc' = [pc EXCEPT ![t] = "idle"]
    /\ got' = [got EXCEPT ![t] = None]
    /\ UNCHANGED <<now, cacheVars, since, issued>>

\* Time passes, but no request takes longer than Delay.
Tick ==
    /\ now < MaxTime
    /\ \A t \in Threads : pc[t] # "idle" => now < since[t] + Delay
    /\ now' = now + 1
    /\ UNCHANGED <<cacheVars, threadVars>>

Call(t) ==
    \/ Hit(t) \/ Miss(t) \/ Issue(t) \/ RequestFails(t)
    \/ StoreToken(t) \/ StoreExp(t) \/ Return(t) \/ Sent(t)

Next == Tick \/ \E t \in Threads : Call(t)

Spec == Init /\ [][Next]_vars

-----------------------------------------------------------------------------
(* Properties.                                                             *)

\* A token arrives at the server before its issuer has ceased to accept it for
\* Skew + Delay - Slack, whichever of the threads' answers is in the cache and
\* whichever expiry goes with it.  If that is not positive no token is sent
\* expired.  The clients treat a 401 like any other answer but 200: the user is
\* skipped.
OverrunIsBounded ==
    \A t \in Threads : pc[t] = "send" =>
        got[t] # None /\ now + Slack < got[t] + Lifetime + Skew + Delay
=============================================================================
