-------------------------- MODULE TokenCacheProofs --------------------------
(* Proofs about TokenCache, for any threads and times, however long a      *)
(* request may take, and any slack shorter than the tokens' lifetime.      *)
EXTENDS TokenCache, TLAPS

\* The skew is one or two delays, and one only if there is one thread.
LEMMA SkewCases ==
    /\ Skew \in Nat /\ Delay <= Skew
    /\ \A s, t \in Threads : s # t => Skew = 2 * Delay
BY TimesAssumption DEF Skew

\* Type correctness: every step keeps the types of client, clock and threads.
THEOREM TypeCorrect == Spec => []TypeOK
<1>1. Init => TypeOK
  BY TimesAssumption DEF Init, TypeOK, None
<1>2. TypeOK /\ [Next]_vars => TypeOK'
  <2> SUFFICES ASSUME TypeOK, [Next]_vars PROVE TypeOK'
    OBVIOUS
  <2> USE TimesAssumption DEF TypeOK, cacheVars, threadVars
  <2>1. CASE Tick
    BY <2>1 DEF Tick
  <2>2. ASSUME NEW t \in Threads, Hit(t) PROVE TypeOK'
    BY <2>2 DEF Hit
  <2>3. ASSUME NEW t \in Threads, Miss(t) PROVE TypeOK'
    BY <2>3 DEF Miss
  <2>4. ASSUME NEW t \in Threads, Issue(t) PROVE TypeOK'
    BY <2>4 DEF Issue
  <2>5. ASSUME NEW t \in Threads, RequestFails(t) PROVE TypeOK'
    BY <2>5 DEF RequestFails, None
  <2>6. ASSUME NEW t \in Threads, StoreToken(t) PROVE TypeOK'
    BY <2>6 DEF StoreToken
  <2>7. ASSUME NEW t \in Threads, StoreExp(t) PROVE TypeOK'
    BY <2>7 DEF StoreExp, ExpiresIn, ExpiresOn, None
  <2>8. ASSUME NEW t \in Threads, Return(t) PROVE TypeOK'
    BY <2>8 DEF Return
  <2>9. ASSUME NEW t \in Threads, Sent(t) PROVE TypeOK'
    BY <2>9 DEF Sent, None
  <2>10. CASE UNCHANGED vars
    BY <2>10 DEF vars
  <2> QED
    BY <2>1, <2>2, <2>3, <2>4, <2>5, <2>6, <2>7, <2>8, <2>9, <2>10
       DEF Next, Call
<1> QED
  BY <1>1, <1>2, PTL DEF Spec

-----------------------------------------------------------------------------
(* The inductive invariant.                                                *)

\* A thread in a request began it at most Delay ago, and the token in the answer
\* it holds was issued since.
InTime ==
    \A t \in Threads : pc[t] # "idle" =>
        /\ since[t] <= now /\ now <= since[t] + Delay
        /\ pc[t] \in {"token", "exp"} =>
              since[t] <= issued[t] /\ issued[t] <= now /\ issued[t] # None

\* The expiry in the cache is not far behind the true one.
ExpiryIsNear == exp <= now + Lifetime /\ exp <= token + Lifetime + Skew

\* The token in the cache is at most Skew - Delay older than the one a thread
\* is about to write the expiry of, because it was stored after that one ...
StoredIsYoung ==
    \A t \in Threads : pc[t] = "exp" =>
        token # None /\ since[t] + Delay <= token + Skew

\* ... so what a thread is about to return had, when its request began, no less
\* than the slack to go but for the skew, even if another thread replaces it
\* first ...
ReturnedIsGood ==
    \A t \in Threads : pc[t] = "return" =>
        token # None /\ since[t] + Slack < token + Lifetime + Skew

\* ... and so had what it sends.
SentIsGood ==
    \A t \in Threads : pc[t] = "send" =>
        got[t] # None /\ since[t] + Slack < got[t] + Lifetime + Skew

IInv == InTime /\ ExpiryIsNear /\ StoredIsYoung /\ ReturnedIsGood /\ SentIsGood

\* The invariant holds before any thread asks for a token.
LEMMA InitIInv == Init => IInv
BY SkewCases, TimesAssumption
   DEF Init, IInv, InTime, ExpiryIsNear, StoredIsYoung, ReturnedIsGood, SentIsGood, None

\* It implies the property: a request in flight began at most Delay ago.
LEMMA IInvImplies == TypeOK /\ IInv => OverrunIsBounded
BY SkewCases, TimesAssumption
   DEF TypeOK, IInv, InTime, SentIsGood, OverrunIsBounded

\* Time only runs while every request is within its Delay.
LEMMA TickKeeps == TypeOK /\ IInv /\ Tick => IInv'
BY SkewCases, TimesAssumption
   DEF TypeOK, IInv, InTime, ExpiryIsNear, StoredIsYoung, ReturnedIsGood,
       SentIsGood, Tick, cacheVars, threadVars, None

\* A cached token has an expiry beyond the slack, which the skew may belie.
LEMMA HitKeeps ==
  ASSUME TypeOK, IInv, NEW t \in Threads, Hit(t) PROVE IInv'
<1> USE DEF TypeOK, IInv, Hit, cacheVars
<1>1. token # None /\ now + Slack < token + Lifetime + Skew
  BY SkewCases, TimesAssumption DEF ExpiryIsNear, Fresh
<1>2. InTime'
  BY TimesAssumption DEF InTime
<1>3. ExpiryIsNear' /\ StoredIsYoung'
  BY DEF ExpiryIsNear, StoredIsYoung
<1>4. ReturnedIsGood' /\ SentIsGood'
  BY <1>1 DEF ReturnedIsGood, SentIsGood
<1> QED
  BY <1>2, <1>3, <1>4

\* A request begins, is answered or fails: the cache is as it was.
LEMMA RequestKeeps ==
  ASSUME TypeOK, IInv, NEW t \in Threads, Miss(t) \/ Issue(t) \/ RequestFails(t)
  PROVE  IInv'
<1> USE DEF TypeOK, IInv, Miss, Issue, RequestFails, cacheVars
<1>1. InTime'
  BY TimesAssumption DEF InTime, None
<1>2. ExpiryIsNear' /\ StoredIsYoung'
  BY DEF ExpiryIsNear, StoredIsYoung
<1>3. ReturnedIsGood' /\ SentIsGood'
  BY DEF ReturnedIsGood, SentIsGood
<1> QED
  BY <1>1, <1>2, <1>3

\* The token that is stored was issued within the last Delay, so no thread
\* loses much by it.
LEMMA StoreTokenKeeps ==
  ASSUME TypeOK, IInv, NEW t \in Threads, StoreToken(t) PROVE IInv'
<1> USE DEF TypeOK, IInv, StoreToken
<1>1. token' # None /\ now <= token' + Delay /\ since[t] <= token'
  BY TimesAssumption DEF InTime
<1>2. InTime'
  BY DEF InTime
<1>3. ExpiryIsNear'
  BY <1>1, SkewCases, TimesAssumption DEF ExpiryIsNear
<1>4. StoredIsYoung'
  <2> SUFFICES ASSUME NEW s \in Threads, pc'[s] = "exp"
               PROVE  token' # None /\ since[s] + Delay <= token' + Skew
    BY DEF StoredIsYoung
  <2>1. CASE s = t
    BY <2>1, <1>1, SkewCases, TimesAssumption
  <2>2. CASE s # t
    <3>1. Skew = 2 * Delay
      BY <2>2, SkewCases
    <3>2. since[s] <= now
      BY <2>2 DEF InTime
    <3> QED
      BY <3>1, <3>2, <1>1, TimesAssumption
  <2> QED
    BY <2>1, <2>2
<1>5. ReturnedIsGood'
  <2> SUFFICES ASSUME NEW s \in Threads, pc[s] = "return"
               PROVE  since[s] + Slack < token' + Lifetime + Skew
    BY <1>1 DEF ReturnedIsGood
  <2>1. since[s] <= now /\ Skew = 2 * Delay
    BY SkewCases DEF InTime
  <2> QED
    BY <2>1, <1>1, TimesAssumption, LifetimeAssumption
<1>6. SentIsGood'
  BY DEF SentIsGood
<1> QED
  BY <1>2, <1>3, <1>4, <1>5, <1>6

\* The expiry may belong to a younger token than the one next to it.
LEMMA StoreExpKeeps ==
  ASSUME TypeOK, IInv, NEW t \in Threads, StoreExp(t) PROVE IInv'
<1> USE DEF TypeOK, IInv, StoreExp
<1>1. /\ token # None /\ since[t] + Delay <= token + Skew
      /\ since[t] <= now /\ now <= since[t] + Delay /\ issued[t] <= now
  BY DEF StoredIsYoung, InTime
<1>2. now <= token + Skew
  BY <1>1, SkewCases, TimesAssumption
<1>3. exp' \in Nat /\ exp' <= now + Lifetime
  BY <1>1, TimesAssumption DEF ExpiresIn, ExpiresOn
<1>4. InTime'
  BY TimesAssumption DEF InTime, None
<1>5. ExpiryIsNear'
  BY <1>2, <1>3, SkewCases, TimesAssumption DEF ExpiryIsNear
<1>6. StoredIsYoung' /\ SentIsGood'
  BY DEF StoredIsYoung, SentIsGood
<1>7. now + Slack < token + Lifetime + Skew
  BY <1>2, SkewCases, TimesAssumption, LifetimeAssumption
<1>8. ReturnedIsGood'
  BY <1>1, <1>7 DEF ReturnedIsGood
<1> QED
  BY <1>4, <1>5, <1>6, <1>8

\* The token returned is the one in the cache; the call ends with the request.
LEMMA ReturnKeeps ==
  ASSUME TypeOK, IInv, NEW t \in Threads, Return(t) \/ Sent(t) PROVE IInv'
<1> USE DEF TypeOK, IInv, Return, Sent, cacheVars
<1>1. InTime'
  BY DEF InTime
<1>2. ExpiryIsNear' /\ StoredIsYoung'
  BY DEF ExpiryIsNear, StoredIsYoung
<1>3. ReturnedIsGood' /\ SentIsGood'
  BY DEF ReturnedIsGood, SentIsGood
<1> QED
  BY <1>1, <1>2, <1>3

\* However the cache mixes answers, a token is sent past its expiry by less than
\* the skew and a request exceed the slack.
THEOREM OverrunAlwaysBounded == Spec => []OverrunIsBounded
<1>1. TypeOK /\ IInv /\ [Next]_vars => IInv'
  <2> SUFFICES ASSUME TypeOK, IInv, [Next]_vars PROVE IInv'
    OBVIOUS
  <2>1. CASE Tick
    BY <2>1, TickKeeps
  <2>2. ASSUME NEW t \in Threads, Call(t) PROVE IInv'
    BY <2>2, HitKeeps, RequestKeeps, StoreTokenKeeps, StoreExpKeeps, ReturnKeeps
       DEF Call
  <2>3. CASE UNCHANGED vars
    BY <2>3 DEF vars, cacheVars, threadVars, IInv, InTime, ExpiryIsNear,
                StoredIsYoung, ReturnedIsGood, SentIsGood
  <2> QED
    BY <2>1, <2>2, <2>3 DEF Next
<1> QED
  BY <1>1, TypeCorrect, InitIInv, IInvImplies, PTL DEF Spec
=============================================================================
