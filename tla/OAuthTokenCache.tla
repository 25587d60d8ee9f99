-------------------------- MODULE OAuthTokenCache ---------------------------
(***************************************************************************)
(* The access token that the goroutines of a worker share: OAuthService    *)
(* with its RWMutex, the cached token, and the token request that is made  *)
(* while the write lock is held.                                           *)
(*                                                                         *)
(* Time is a counter.  The provider counts the lifetime of a token from    *)
(* the moment it issues it, the cache from the moment it reads the answer. *)
(***************************************************************************)
EXTENDS Integers

CONSTANTS
    Routines,    \* goroutines that send mail
    Margin,      \* a token is renewed this long before it expires (60 s)
    MaxLatency,  \* longest time from issuing a token to reading the answer
    Lifetimes,   \* what the provider may grant as expires_in
    MaxTime      \* bound: the clock stops here

\* The margin covers the latency: that is what it is for.
ASSUME TokenAssumption ==
    /\ Margin \in Nat
    /\ MaxLatency \in 0..Margin
    /\ Lifetimes \subseteq Nat
    /\ MaxTime \in Nat

VARIABLES
    now,       \* the clock
    token,     \* OAuthService.accessToken
    expiresAt, \* OAuthService.expiresAt
    answer,    \* the answer of the provider that each goroutine waits for
    pc,        \* next step of each goroutine
    readers,   \* goroutines that hold the read lock
    writer     \* the goroutine that holds, or waits first for, the write lock

vars == <<now, token, expiresAt, answer, pc, readers, writer>>

\* A token is known by when it was issued and how long it lives.
Token == [issued : Nat, lifetime : Lifetimes]
NoToken == [issued |-> 0, lifetime |-> -1]

Pc == {"idle", "rlock", "check", "lock", "drain", "recheck", "request",
       "answer"}

Init ==
    /\ now = 0
    /\ token = NoToken
    /\ expiresAt = 0
    /\ answer = [g \in Routines |-> NoToken]
    /\ pc = [g \in Routines |-> "idle"]
    /\ readers = {}
    /\ writer = {}

-----------------------------------------------------------------------------
\* Mutant: the margin is forgotten.
FreshToTheEnd == token # NoToken /\ now < expiresAt

\* The test of GetAccessToken and of refreshToken.
Fresh == token # NoToken /\ now + Margin < expiresAt

At(g, from, to) ==
    /\ pc[g] = from
    /\ pc' = [pc EXCEPT ![g] = to]

Call(g) ==
    /\ At(g, "idle", "rlock")
    /\ UNCHANGED <<now, token, expiresAt, answer, readers, writer>>

\* A writer that waits keeps new readers out (sync.RWMutex).
RLock(g) ==
    /\ writer = {}
    /\ At(g, "rlock", "check")
    /\ readers' = readers \cup {g}
    /\ UNCHANGED <<now, token, expiresAt, answer, writer>>

\* Mutant: GetAccessToken defers the release until refreshToken is through.
CheckCachedKeeps(g) ==
    /\ \/ Fresh /\ At(g, "check", "idle") /\ readers' = readers \ {g}
       \/ ~Fresh /\ At(g, "check", "lock") /\ UNCHANGED readers
    /\ UNCHANGED <<now, token, expiresAt, answer, writer>>

\* The read lock is released before refreshToken asks for the write lock.
CheckCached(g) ==
    /\ \/ Fresh /\ At(g, "check", "idle")
       \/ ~Fresh /\ At(g, "check", "lock")
    /\ readers' = readers \ {g}
    /\ UNCHANGED <<now, token, expiresAt, answer, writer>>

\* Mutant: refreshToken takes the lock that readers share.
LockShared(g) ==
    /\ writer = {}
    /\ At(g, "lock", "drain")
    /\ UNCHANGED <<now, token, expiresAt, answer, readers, writer>>

Lock(g) ==
    /\ writer = {}
    /\ At(g, "lock", "drain")
    /\ writer' = {g}
    /\ UNCHANGED <<now, token, expiresAt, answer, readers>>

ReadersGone(g) ==
    /\ readers = {}
    /\ At(g, "drain", "recheck")
    /\ UNCHANGED <<now, token, expiresAt, answer, readers, writer>>

\* Mutant: no double-check under the write lock.
RecheckNot(g) ==
    /\ At(g, "recheck", "request")
    /\ UNCHANGED <<now, token, expiresAt, answer, readers, writer>>

\* Another goroutine may have renewed the token meanwhile.
Recheck(g) ==
    /\ \/ Fresh /\ At(g, "recheck", "idle") /\ writer' = {}
       \/ ~Fresh /\ At(g, "recheck", "request") /\ UNCHANGED writer
    /\ UNCHANGED <<now, token, expiresAt, answer, readers>>

\* The provider issues a token; its answer is on the way.
Issue(g) ==
    /\ At(g, "request", "answer")
    /\ \E l \in Lifetimes :
          answer' = [answer EXCEPT ![g] = [issued |-> now, lifetime |-> l]]
    /\ UNCHANGED <<now, token, expiresAt, readers, writer>>

\* Mutant: the early returns of refreshToken do not release the lock.
RequestFailsLocked(g) ==
    /\ At(g, "request", "idle") \/ At(g, "answer", "idle")
    /\ answer' = [answer EXCEPT ![g] = NoToken]
    /\ UNCHANGED <<now, token, expiresAt, readers, writer>>

\* The request fails, is refused, or its answer cannot be decoded.
RequestFails(g) ==
    /\ At(g, "request", "idle") \/ At(g, "answer", "idle")
    /\ answer' = [answer EXCEPT ![g] = NoToken]
    /\ writer' = {}
    /\ UNCHANGED <<now, token, expiresAt, readers>>

ReadAnswer(g) ==
    /\ At(g, "answer", "idle")
    /\ token' = answer[g]
    /\ expiresAt' = now + answer[g].lifetime
    /\ answer' = [answer EXCEPT ![g] = NoToken]
    /\ writer' = {}
    /\ UNCHANGED <<now, readers>>

\* Time passes, but no answer takes longer than MaxLatency.
Tick ==
    /\ now < MaxTime
    /\ \A g \in Routines :
          pc[g] = "answer" => now < answer[g].issued + MaxLatency
    /\ now' = now + 1
    /\ UNCHANGED <<token, expiresAt, answer, pc, readers, writer>>

-----------------------------------------------------------------------------
RefreshToken(g) ==
    \/ ReadersGone(g) \/ Recheck(g) \/ Issue(g) \/ RequestFails(g)
    \/ ReadAnswer(g)

Next ==
    \/ Tick
    \/ \E g \in Routines : \/ Call(g) \/ RLock(g) \/ CheckCached(g) \/ Lock(g)
                           \/ RefreshToken(g)

Spec == Init /\ [][Next]_vars

\* Goroutines run and the provider answers or the request fails. RWMutex lets
\* waiting readers in after a writer and queues writers, so that a goroutine
\* cannot be passed over forever: strong fairness for the two lock calls.
FairSpec ==
    /\ Spec
    /\ \A g \in Routines : /\ SF_vars(RLock(g)) /\ SF_vars(Lock(g))
                           /\ WF_vars(CheckCached(g) \/ RefreshToken(g))

-----------------------------------------------------------------------------
Locking == {"drain", "recheck", "request", "answer"}

\* Types; who holds or waits for which lock.
TypeOK ==
    /\ now \in Nat
    /\ token \in Token \cup {NoToken}
    /\ expiresAt \in Nat
    /\ answer \in [Routines -> Token \cup {NoToken}]
    /\ pc \in [Routines -> Pc]
    /\ readers = {g \in Routines : pc[g] = "check"}
    /\ writer = {g \in Routines : pc[g] \in Locking}
    /\ \A g, h \in writer : g = h

\* A token that GetAccessToken takes from the cache has not expired at the
\* provider, although the cache dates it from the answer and the provider from
\* the issue, and although it is renewed by any of several goroutines.
FreshIsValid ==
    Fresh => now < token.issued + token.lifetime

\* A goroutine that waits for one of the locks.
Waits(g) ==
    \/ pc[g] \in {"rlock", "lock"} /\ writer # {}
    \/ pc[g] = "drain" /\ readers # {}

\* The goroutines never all wait for each other: whoever a waiting goroutine
\* waits for, directly or through the writer that drains the readers, is one
\* that can go on.
NotAllWait ==
    \A g \in Routines : Waits(g) => \E h \in readers \cup writer : ~Waits(h)

\* Of all the goroutines that found the token stale, one renews it: a cached
\* token is replaced only when it is stale at that moment.
RenewedOnlyWhenStale ==
    [][token' # token => ~Fresh]_vars

\* What TokenSource sees of the goroutines.
Calling == {g \in Routines : pc[g] # "idle"}
Asking == {g \in Routines : pc[g] \in {"request", "answer"}}
Underway == {answer[g] : g \in {h \in Routines : pc[h] = "answer"}}

Source == INSTANCE TokenSource WITH
    Callers  <- Routines,
    waiting  <- Calling,
    asking   <- Asking,
    underway <- Underway

\* The two locks and the double-check make GetAccessToken atomic: a call takes
\* a fresh token or is the only one that asks for another, never with a token
\* that is fresh already, and an error of one call is not the others'.
SourceSpec == Source!SSpec

\* Every call of GetAccessToken returns, whichever requests fail: no lock is
\* left behind and no goroutine is passed over.
CallsReturn ==
    \A g \in Routines : pc[g] # "idle" ~> pc[g] = "idle"
=============================================================================
