---------------------------- MODULE TokenSource ----------------------------
(***************************************************************************)
(* What the access token cache promises its callers, without locks: every  *)
(* call takes the token at one moment, and of the calls that find it stale *)
(* one at a time asks the provider for another.                            *)
(***************************************************************************)
EXTENDS Integers

CONSTANTS
    Callers,
    Margin,      \* a token is stale this long before it expires
    MaxLatency,  \* longest time from issuing a token to having it
    Lifetimes,   \* what the provider may grant
    NoToken      \* nothing is cached

VARIABLES
    now,
    token,       \* the cached token: when it was issued, and its lifetime
    expiresAt,   \* the end of it, by the cache's reckoning
    waiting,     \* calls that have not returned
    asking,      \* those of them that ask the provider
    underway     \* tokens that the provider has issued for them

sVars == <<now, token, expiresAt, waiting, asking, underway>>

SInit ==
    /\ now = 0
    /\ token = NoToken
    /\ expiresAt = 0
    /\ waiting = {}
    /\ asking = {}
    /\ underway = {}

Stale == token = NoToken \/ now + Margin >= expiresAt

Begin(g) ==
    /\ g \notin waiting
    /\ waiting' = waiting \cup {g}
    /\ UNCHANGED <<now, token, expiresAt, asking, underway>>

Take(g) ==
    /\ g \in waiting \ asking
    /\ ~Stale
    /\ waiting' = waiting \ {g}
    /\ UNCHANGED <<now, token, expiresAt, asking, underway>>

\* One at a time, and only for want of a token.
Ask(g) ==
    /\ g \in waiting
    /\ asking = {}
    /\ Stale
    /\ asking' = {g}
    /\ UNCHANGED <<now, token, expiresAt, waiting, underway>>

\* One token for each time that it is asked.
Grant ==
    /\ asking # {}
    /\ underway = {}
    /\ \E l \in Lifetimes : underway' = {[issued |-> now, lifetime |-> l]}
    /\ UNCHANGED <<now, token, expiresAt, waiting, asking>>

Renew(g) ==
    /\ asking = {g}
    /\ \E t \in underway : /\ token' = t
                           /\ expiresAt' = now + t.lifetime
    /\ waiting' = waiting \ {g}
    /\ asking' = {}
    /\ underway' = {}
    /\ UNCHANGED now

\* The call that asked returns an error; the others are none the wiser.
GiveUp(g) ==
    /\ asking = {g}
    /\ waiting' = waiting \ {g}
    /\ asking' = {}
    /\ underway' = {}
    /\ UNCHANGED <<now, token, expiresAt>>

Pass ==
    /\ \A t \in underway : now < t.issued + MaxLatency
    /\ now' = now + 1
    /\ UNCHANGED <<token, expiresAt, waiting, asking, underway>>

SNext ==
    \/ Grant \/ Pass
    \/ \E g \in Callers :
          Begin(g) \/ Take(g) \/ Ask(g) \/ Renew(g) \/ GiveUp(g)

SSpec == SInit /\ [][SNext]_sVars
=============================================================================
