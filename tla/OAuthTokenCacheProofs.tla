----------------------- MODULE OAuthTokenCacheProofs ------------------------
(* Theorems about OAuthTokenCache, for every set of goroutines, margin,    *)
(* latency within the margin, set of lifetimes and length of time.         *)
EXTENDS OAuthTokenCache, TLAPS

\* A cached token is dated at most MaxLatency after it really expires, and the
\* answer being waited for is at most MaxLatency old.
DatedInv ==
    /\ token # NoToken =>
           expiresAt <= token.issued + token.lifetime + MaxLatency
    /\ \A g \in Routines : pc[g] = "answer" =>
           answer[g] \in Token /\ now <= answer[g].issued + MaxLatency

\* Whoever asks the provider does so because the cached token is stale.
StaleInv ==
    \A g \in Routines : pc[g] \in {"request", "answer"} => ~Fresh

Inv == TypeOK /\ DatedInv /\ StaleInv

USE DEF Token, NoToken, Pc, Locking

\* Every action keeps the types, the two locks, and the cache's dates.
LEMMA InvStep == Inv /\ [Next]_vars => Inv'
<1> USE TokenAssumption DEF TypeOK
<1> SUFFICES ASSUME Inv, [Next]_vars PROVE Inv'
  OBVIOUS
<1>0. TypeOK /\ DatedInv /\ StaleInv
  BY DEF Inv
<1>t. CASE Tick
  <2>1. TypeOK'
    BY <1>0, <1>t DEF Tick
  <2>2. DatedInv'
    BY <1>0, <1>t DEF Tick, DatedInv
  <2>3. StaleInv'
    BY <1>0, <1>t DEF Tick, StaleInv, Fresh
  <2> QED
    BY <2>1, <2>2, <2>3 DEF Inv
<1>1. ASSUME NEW g \in Routines, Call(g) PROVE Inv'
  <2>1. TypeOK'
    BY <1>0, <1>1 DEF Call, At
  <2>2. DatedInv'
    BY <1>0, <1>1 DEF Call, At, DatedInv
  <2>3. StaleInv'
    BY <1>0, <1>1 DEF Call, At, StaleInv, Fresh
  <2> QED
    BY <2>1, <2>2, <2>3 DEF Inv
<1>2. ASSUME NEW g \in Routines, RLock(g) PROVE Inv'
  <2>1. TypeOK'
    BY <1>0, <1>2 DEF RLock, At
  <2>2. DatedInv'
    BY <1>0, <1>2 DEF RLock, At, DatedInv
  <2>3. StaleInv'
    BY <1>0, <1>2 DEF RLock, At, StaleInv, Fresh
  <2> QED
    BY <2>1, <2>2, <2>3 DEF Inv
<1>3. ASSUME NEW g \in Routines, CheckCached(g) PROVE Inv'
  <2>1. TypeOK'
    BY <1>0, <1>3 DEF CheckCached, At
  <2>2. DatedInv'
    BY <1>0, <1>3 DEF CheckCached, At, DatedInv
  <2>3. StaleInv'
    BY <1>0, <1>3 DEF CheckCached, At, StaleInv, Fresh
  <2> QED
    BY <2>1, <2>2, <2>3 DEF Inv
<1>4. ASSUME NEW g \in Routines, Lock(g) PROVE Inv'
  <2>1. TypeOK'
    BY <1>0, <1>4 DEF Lock, At
  <2>2. DatedInv'
    BY <1>0, <1>4 DEF Lock, At, DatedInv
  <2>3. StaleInv'
    BY <1>0, <1>4 DEF Lock, At, StaleInv, Fresh
  <2> QED
    BY <2>1, <2>2, <2>3 DEF Inv
<1>5. ASSUME NEW g \in Routines, ReadersGone(g) PROVE Inv'
  <2>1. TypeOK'
    BY <1>0, <1>5 DEF ReadersGone, At
  <2>2. DatedInv'
    BY <1>0, <1>5 DEF ReadersGone, At, DatedInv
  <2>3. StaleInv'
    BY <1>0, <1>5 DEF ReadersGone, At, StaleInv, Fresh
  <2> QED
    BY <2>1, <2>2, <2>3 DEF Inv
<1>6. ASSUME NEW g \in Routines, Recheck(g) PROVE Inv'
  <2>1. TypeOK'
    BY SMTT(30), <1>0, <1>6 DEF Recheck, At
  <2>2. DatedInv'
    BY <1>0, <1>6 DEF Recheck, At, DatedInv
  <2>3. StaleInv'
    BY <1>0, <1>6 DEF Recheck, At, StaleInv, Fresh
  <2> QED
    BY <2>1, <2>2, <2>3 DEF Inv
<1>7. ASSUME NEW g \in Routines, Issue(g) PROVE Inv'
  <2>1. TypeOK'
    BY <1>0, <1>7 DEF Issue, At
  <2>2. DatedInv'
    BY <1>0, <1>7 DEF Issue, At, DatedInv
  <2>3. StaleInv'
    BY <1>0, <1>7 DEF Issue, At, StaleInv, Fresh
  <2> QED
    BY <2>1, <2>2, <2>3 DEF Inv
<1>8. ASSUME NEW g \in Routines, RequestFails(g) PROVE Inv'
  <2>1. TypeOK'
    BY <1>0, <1>8 DEF RequestFails, At
  <2>2. DatedInv'
    BY <1>0, <1>8 DEF RequestFails, At, DatedInv
  <2>3. StaleInv'
    BY <1>0, <1>8 DEF RequestFails, At, StaleInv, Fresh
  <2> QED
    BY <2>1, <2>2, <2>3 DEF Inv
<1>9. ASSUME NEW g \in Routines, ReadAnswer(g) PROVE Inv'
  <2>1. /\ answer[g] \in Token
        /\ now <= answer[g].issued + MaxLatency
    BY <1>0, <1>9 DEF ReadAnswer, At, DatedInv
  <2>2. answer[g].lifetime \in Nat /\ answer[g].issued \in Nat
    BY <2>1
  <2>3. expiresAt' \in Nat /\ token' = answer[g]
    BY <1>0, <1>9, <2>2 DEF ReadAnswer
  <2>4. TypeOK'
    BY <1>0, <1>9, <2>1, <2>3 DEF ReadAnswer, At
  <2>5. expiresAt' <= answer[g].issued + answer[g].lifetime + MaxLatency
    BY <1>0, <1>9, <2>1, <2>2 DEF ReadAnswer
  <2>6. DatedInv'
    BY <1>0, <1>9, <2>3, <2>5 DEF ReadAnswer, At, DatedInv
  <2>7. StaleInv'
    BY <1>0, <1>9 DEF ReadAnswer, At, StaleInv
  <2> QED
    BY <2>4, <2>6, <2>7 DEF Inv
<1>u. CASE UNCHANGED vars
  BY <1>0, <1>u DEF vars, Inv, DatedInv, StaleInv, Fresh
<1> QED
  BY <1>t, <1>u, <1>1, <1>2, <1>3, <1>4, <1>5, <1>6, <1>7, <1>8, <1>9
     DEF Next, RefreshToken

LEMMA InvInit == Init => Inv
  BY TokenAssumption DEF Init, Inv, TypeOK, DatedInv, StaleInv

LEMMA InvAlways == Spec => []Inv
  BY InvInit, InvStep, PTL DEF Spec

\* The type invariant: among others, at most one goroutine holds the write
\* lock, and none holds the read lock with it.
THEOREM TypeCorrect == Spec => []TypeOK
  BY InvAlways, PTL DEF Inv

\* While the answer takes no longer than the margin, a token that is handed out
\* from the cache is still valid at the provider.
THEOREM CachedTokenIsValid == Spec => []FreshIsValid
<1>1. Inv => FreshIsValid
  <2> SUFFICES ASSUME TypeOK, DatedInv, Fresh
               PROVE  now < token.issued + token.lifetime
    BY DEF Inv, FreshIsValid
  <2>1. token \in Token /\ token # NoToken
    BY DEF TypeOK, Fresh
  <2>2. token.issued \in Nat /\ token.lifetime \in Nat
    BY <2>1, TokenAssumption
  <2> QED
    BY <2>1, <2>2, TokenAssumption DEF TypeOK, DatedInv, Fresh
<1> QED
  BY <1>1, InvAlways, PTL

\* The double-check under the write lock: a token is replaced only when it is
\* stale, whatever the other goroutines did while the lock was awaited.
THEOREM OneRenewal == Spec => RenewedOnlyWhenStale
<1>1. Inv /\ [Next]_vars => [token' # token => ~Fresh]_vars
  <2> SUFFICES ASSUME StaleInv, Next, token' # token PROVE ~Fresh
    BY DEF Inv
  <2>1. PICK g \in Routines : ReadAnswer(g)
    BY DEF Next, RefreshToken, Tick, Call, RLock, CheckCached, Lock,
           ReadersGone, Recheck, Issue, RequestFails
  <2> QED
    BY <2>1 DEF ReadAnswer, At, StaleInv
<1> QED
  BY <1>1, InvAlways, PTL DEF Spec, RenewedOnlyWhenStale

\* Readers are at their check, which waits for nothing; the writer waits for
\* readers only.
THEOREM LocksNeverClose == Spec => []NotAllWait
<1>1. Inv => NotAllWait
  <2> SUFFICES ASSUME TypeOK, NEW g \in Routines, Waits(g)
               PROVE  \E h \in readers \cup writer : ~Waits(h)
    BY DEF Inv, NotAllWait
  <2>1. \A h \in readers : ~Waits(h)
    BY DEF TypeOK, Waits
  <2>2. CASE readers # {}
    BY <2>1, <2>2
  <2>3. CASE readers = {}
    <3>1. PICK h \in writer : pc[h] \in Locking
      BY <2>3 DEF TypeOK, Waits
    <3> QED
      BY <2>3, <3>1 DEF Waits
  <2> QED
    BY <2>2, <2>3
<1> QED
  BY <1>1, InvAlways, PTL

-----------------------------------------------------------------------------
(* The refinement of TokenSource.                                          *)

\* Nothing that TokenSource sees changes.
Unseen == UNCHANGED <<now, token, expiresAt, Calling, Asking, Underway>>

LEMMA RefineInit == Init => Source!SInit
BY DEF Init, Source!SInit, Calling, Asking, Underway

LEMMA StaleIsNotFresh == TypeOK => (Source!Stale <=> ~Fresh)
BY TokenAssumption DEF TypeOK, Source!Stale, Fresh

\* Before the double-check a call only takes a token that is fresh.
LEMMA RefineReader ==
  ASSUME TypeOK, NEW g \in Routines,
         Call(g) \/ RLock(g) \/ CheckCached(g) \/ Lock(g) \/ ReadersGone(g)
  PROVE  Source!SNext \/ Unseen
<1> USE DEF At, TypeOK
<1>1. /\ UNCHANGED <<now, token, expiresAt, answer>>
      /\ Asking' = Asking
      /\ \A h \in Routines : pc'[h] = "answer" <=> pc[h] = "answer"
  BY DEF Call, RLock, CheckCached, Lock, ReadersGone, Asking
<1>2. Underway' = Underway
  BY <1>1 DEF Underway
<1>3. CASE Call(g)
  <2>1. g \notin Calling /\ Calling' = Calling \cup {g}
    BY <1>3 DEF Call, Calling
  <2> QED
    BY <1>1, <1>2, <2>1 DEF Source!SNext, Source!Begin
<1>4. CASE CheckCached(g) /\ Fresh
  <2>1. g \in Calling \ Asking /\ Calling' = Calling \ {g}
    BY <1>4 DEF CheckCached, Calling, Asking
  <2>2. Source!Take(g)
    BY <1>1, <1>2, <1>4, <2>1, StaleIsNotFresh DEF Source!Take
  <2> QED
    BY <2>2 DEF Source!SNext
<1>5. CASE RLock(g) \/ (CheckCached(g) /\ ~Fresh) \/ Lock(g) \/ ReadersGone(g)
  <2>1. Calling' = Calling
    BY <1>5 DEF RLock, CheckCached, Lock, ReadersGone, Calling
  <2> QED
    BY <1>1, <1>2, <2>1 DEF Unseen
<1> QED
  BY <1>3, <1>4, <1>5

\* Who holds the write lock is the only one at any of its steps.
LEMMA OneInTheLock ==
  ASSUME TypeOK, NEW g \in Routines, pc[g] \in Locking
  PROVE  \A h \in Routines : pc[h] \in Locking => h = g
BY DEF TypeOK

LEMMA RefineRecheck ==
  ASSUME TypeOK, NEW g \in Routines, Recheck(g)
  PROVE  Source!SNext
<1> USE DEF At, TypeOK
<1>1. /\ UNCHANGED <<now, token, expiresAt, answer>>
      /\ pc[g] = "recheck"
      /\ \A h \in Routines : pc'[h] = "answer" <=> pc[h] = "answer"
  BY DEF Recheck
<1>2. Underway' = Underway
  BY <1>1 DEF Underway
<1>3. g \in Calling /\ Asking = {}
  BY <1>1, OneInTheLock DEF Calling, Asking
<1>4. CASE Fresh
  <2>1. Calling' = Calling \ {g} /\ Asking' = Asking
    BY <1>4 DEF Recheck, Calling, Asking
  <2>2. Source!Take(g)
    BY <1>1, <1>2, <1>3, <1>4, <2>1, StaleIsNotFresh DEF Source!Take
  <2> QED
    BY <2>2 DEF Source!SNext
<1>5. CASE ~Fresh
  <2>1. pc' = [pc EXCEPT ![g] = "request"]
    BY <1>5 DEF Recheck
  <2>2. Calling' = Calling
    BY <1>1, <2>1 DEF Calling
  <2>3. Asking' = {g}
    BY <1>3, <2>1 DEF Asking
  <2>4. Source!Ask(g)
    BY <1>1, <1>2, <1>3, <1>5, <2>2, <2>3, StaleIsNotFresh DEF Source!Ask
  <2> QED
    BY <2>4 DEF Source!SNext
<1> QED
  BY <1>4, <1>5

LEMMA RefineIssue ==
  ASSUME TypeOK, NEW g \in Routines, Issue(g)
  PROVE  Source!SNext
<1> USE DEF At, TypeOK
<1>1. PICK l \in Lifetimes :
         answer' = [answer EXCEPT ![g] = [issued |-> now, lifetime |-> l]]
  BY DEF Issue
<1>2. /\ UNCHANGED <<now, token, expiresAt>>
      /\ pc[g] = "request" /\ pc' = [pc EXCEPT ![g] = "answer"]
  BY DEF Issue
<1>3. Asking = {g} /\ Underway = {}
  BY <1>2, OneInTheLock DEF Asking, Underway
<1>4. Calling' = Calling /\ Asking' = Asking
  BY <1>2 DEF Calling, Asking
<1>5. {h \in Routines : pc'[h] = "answer"} = {g}
  BY <1>2, OneInTheLock
<1>6. Underway' = {[issued |-> now, lifetime |-> l]}
  <2>1. answer'[g] = [issued |-> now, lifetime |-> l]
    BY <1>1
  <2> QED
    BY <1>5, <2>1 DEF Underway
<1>7. Source!Grant
  BY <1>2, <1>3, <1>4, <1>6 DEF Source!Grant
<1> QED
  BY <1>7 DEF Source!SNext

\* The end of a request, with a token or without.
LEMMA RefineEnd ==
  ASSUME TypeOK, NEW g \in Routines, RequestFails(g) \/ ReadAnswer(g)
  PROVE  Source!SNext
<1> USE DEF At, TypeOK
<1>1. /\ now' = now
      /\ pc[g] \in {"request", "answer"} /\ pc' = [pc EXCEPT ![g] = "idle"]
  BY DEF RequestFails, ReadAnswer
<1>2. Asking = {g} /\ Asking' = {} /\ Underway' = {}
  BY <1>1, OneInTheLock DEF Asking, Underway
<1>3. Calling' = Calling \ {g}
  BY <1>1 DEF Calling
<1>4. CASE RequestFails(g)
  <2>1. Source!GiveUp(g)
    BY <1>1, <1>2, <1>3, <1>4 DEF RequestFails, Source!GiveUp
  <2> QED
    BY <2>1 DEF Source!SNext
<1>5. CASE ReadAnswer(g)
  <2>1. answer[g] \in Underway
    BY <1>5 DEF ReadAnswer, Underway
  <2>2. token' = answer[g] /\ expiresAt' = now + answer[g].lifetime
    BY <1>5 DEF ReadAnswer
  <2>3. Source!Renew(g)
    BY <1>1, <1>2, <1>3, <2>1, <2>2 DEF Source!Renew
  <2> QED
    BY <2>3 DEF Source!SNext
<1> QED
  BY <1>4, <1>5

LEMMA RefineTick == Tick => Source!SNext
<1> SUFFICES ASSUME Tick PROVE Source!Pass
  BY DEF Source!SNext
<1>1. UNCHANGED <<Calling, Asking, Underway>>
  BY DEF Tick, Calling, Asking, Underway
<1>2. \A t \in Underway : now < t.issued + MaxLatency
  BY DEF Tick, Underway
<1> QED
  BY <1>1, <1>2 DEF Tick, Source!Pass

LEMMA RefineStep == TypeOK /\ [Next]_vars => [Source!SNext]_(Source!sVars)
<1> SUFFICES ASSUME TypeOK, [Next]_vars PROVE Source!SNext \/ Unseen
  BY DEF Source!sVars, Unseen
<1>1. CASE Next
  BY <1>1, RefineTick, RefineReader, RefineRecheck, RefineIssue, RefineEnd
     DEF Next, RefreshToken
<1>2. CASE UNCHANGED vars
  BY <1>2 DEF vars, Unseen, Calling, Asking, Underway
<1> QED
  BY <1>1, <1>2

\* The cache with its locks implements TokenSource: for any number of
\* goroutines, every call takes effect at one moment, and requests for a token
\* are made one at a time and only for want of one.
THEOREM CacheIsSource == Spec => SourceSpec
BY RefineInit, RefineStep, TypeCorrect, PTL DEF Spec, SourceSpec, Source!SSpec
=============================================================================
