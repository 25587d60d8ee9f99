---------------------------- MODULE ClientAccess ----------------------------
(***************************************************************************)
(* What mail-proxy promises about who comes in, without servers, start-up  *)
(* sequences or claims.  Clients are enrolled; those of them that are      *)
(* allowed come in with a token that they were shown.  The only ones to    *)
(* change anything are requests that came in with an admin's token, and    *)
(* starts of a server, which see to the admin and to nobody else.          *)
(***************************************************************************)
CONSTANTS
    Clients,   \* client ids, the admin's included
    Admin,
    Requests,
    NoToken    \* what a request that is not in has come in with

VARIABLES
    enrolled,  \* clients that were ever given access
    allowed,   \* those of them that have it now
    shown,     \* tokens that were shown to somebody
    admitted   \* the token each request that is in came in with

aVars == <<enrolled, allowed, shown, admitted>>

AInit ==
    /\ enrolled = {}
    /\ allowed = {}
    /\ shown = {}
    /\ admitted = [q \in Requests |-> NoToken]

Administers(q) == admitted[q] # NoToken /\ admitted[q].admin

\* A start gives the admin access, for the first time or again.
EnrolAdmin ==
    /\ enrolled' = enrolled \cup {Admin}
    /\ allowed' = allowed \cup {Admin}
    /\ UNCHANGED <<shown, admitted>>

\* It shows an administrator's token of the admin, however many there are.
ShowAdmin ==
    /\ Admin \in enrolled
    /\ \E t \in shown' : /\ t.client = Admin /\ t.admin
                         /\ shown' = shown \cup {t}
    /\ UNCHANGED <<enrolled, allowed, admitted>>

Enrol(q) ==
    /\ Administers(q)
    /\ \E c \in Clients \ (enrolled \cup {Admin}) :
          /\ enrolled' = enrolled \cup {c}
          /\ allowed' = allowed \cup {c}
    /\ UNCHANGED <<shown, admitted>>

\* The answer to the administrator is the end of the request.  No client but
\* the admin is ever shown a second token.
Show(q) ==
    /\ Administers(q)
    /\ \E t \in shown' :
          /\ t.client \in enrolled \ {Admin}
          /\ \A s \in shown : s.client = t.client => s = t
          /\ shown' = shown \cup {t}
    /\ admitted' = [admitted EXCEPT ![q] = NoToken]
    /\ UNCHANGED <<enrolled, allowed>>

Revoke(q) ==
    /\ Administers(q)
    /\ \E c \in enrolled : allowed' = allowed \ {c}
    /\ admitted' = [admitted EXCEPT ![q] = NoToken]
    /\ UNCHANGED <<enrolled, shown>>

Admit(q) ==
    /\ admitted[q] = NoToken
    /\ \E t \in shown : /\ t.client \in allowed
                        /\ admitted' = [admitted EXCEPT ![q] = t]
    /\ UNCHANGED <<enrolled, allowed, shown>>

\* Requests end one by one, or with the server they were on.
Leave ==
    /\ \E ended \in SUBSET Requests :
          admitted' = [q \in Requests |->
                          IF q \in ended THEN NoToken ELSE admitted[q]]
    /\ UNCHANGED <<enrolled, allowed, shown>>

ANext ==
    \/ EnrolAdmin \/ ShowAdmin \/ Leave
    \/ \E q \in Requests : Enrol(q) \/ Show(q) \/ Revoke(q) \/ Admit(q)

ASpec == AInit /\ [][ANext]_aVars
=============================================================================
