---------------------------- MODULE ClientTokens ----------------------------
(***************************************************************************)
(* The tokens of API clients: the API servers that each see to an admin    *)
(* token when they start, the requests they serve afterwards, and the      *)
(* table client_tokens that all of them share.                             *)
(*                                                                         *)
(* A token is a signed set of claims without an expiry.  Signatures are    *)
(* taken as sound: every bearer token is one that was handed out.  Rows    *)
(* are never deleted, so that what a request read stays the right row.     *)
(***************************************************************************)
EXTENDS Naturals

CONSTANTS
    Replicas,        \* API server processes
    Requests,        \* requests with a bearer token
    Clients,         \* client ids that CreateToken may draw
    Admin,           \* MISAdminClientID
    NoRow,           \* the row does not exist
    NoToken,         \* no token in hand
    InitAdminToken,  \* config: INIT_ADMIN_TOKEN
    MaxStarts        \* bound: starts of API servers

ClientIds == Clients \cup {Admin}

\* Claims: client_id, sub (a number here) and whether permissions has "admin".
Token == [client : ClientIds, sub : Nat, admin : BOOLEAN]

\* token_hash stands for the token; permissions and names never change.
Row == [token : Token, active : BOOLEAN]

ASSUME TokenAssumption ==
    /\ Admin \notin Clients
    /\ NoRow \notin Row
    /\ NoToken \notin Token
    /\ InitAdminToken \in BOOLEAN
    /\ MaxStarts \in Nat

VARIABLES
    rows,      \* client_tokens, by client_id
    signed,    \* tokens signed so far, by client_id
    replica,   \* next step of each API server
    fresh,     \* the token an API server has stored and not yet printed
    starts,    \* starts of API servers so far
    request,   \* next step of each request
    server,    \* the API server a request is on
    bearer,    \* its token
    operation, \* the group of routes it is for
    made,      \* the token that it has stored and not yet answered
    dbFails,   \* input: may a call of the database fail?
    given,     \* history: tokens printed or answered
    unseen,    \* history: tokens stored by a process that died before
    late       \* history: requests that began after their client's token was
               \*          revoked, and it has not been reinstated since

vars == <<rows, signed, replica, fresh, starts, request, server, bearer,
          operation, made, dbFails, given, unseen, late>>

replicaVars == <<replica, fresh, starts>>
requestVars == <<request, server, bearer, operation, made>>

ReplicaPc == {"down", "read", "create", "regenerate", "print", "serving"}
RequestPc == {"idle", "auth", "permission", "handle", "answer", "refused",
              "done"}
Operations == {"mail", "createToken", "revokeToken"}

Init ==
    /\ rows = [c \in ClientIds |-> NoRow]
    /\ signed = [c \in ClientIds |-> 0]
    /\ replica = [r \in Replicas |-> "down"]
    /\ fresh = [r \in Replicas |-> NoToken]
    /\ starts = 0
    /\ request = [q \in Requests |-> "idle"]
    /\ server \in [Requests -> Replicas]
    /\ bearer = [q \in Requests |-> NoToken]
    /\ operation \in [Requests -> Operations]
    /\ made = [q \in Requests |-> NoToken]
    /\ dbFails \in BOOLEAN
    /\ given = {}
    /\ unseen = {}
    /\ late = {}

Exists(c) == rows[c] # NoRow
Active(c) == Exists(c) /\ rows[c].active

\* JWTAuth has let the request in, and it has not been answered.
Inside(q) == request[q] \in {"permission", "handle", "answer"}

\* generateJWTToken and the first half of CreateToken.
Sign(c, admin) == [client |-> c, sub |-> signed[c] + 1, admin |-> admin]

-----------------------------------------------------------------------------
(* InitializeAdminToken, before the server begins to listen.               *)

StepTo(r, from, to) ==
    /\ replica[r] = from
    /\ replica' = [replica EXCEPT ![r] = to]

StartReplica(r) ==
    /\ starts < MaxStarts
    /\ starts' = starts + 1
    /\ StepTo(r, "down", IF InitAdminToken THEN "read" ELSE "serving")
    /\ UNCHANGED <<rows, signed, fresh, requestVars, dbFails, given, unseen,
                   late>>

\* Mutant: a revoked admin token counts as an existing one.
ReadAdminAnyRow(r) ==
    /\ \/ Exists(Admin) /\ StepTo(r, "read", "serving")
       \/ ~Exists(Admin) /\ StepTo(r, "read", "create")
       \/ dbFails /\ StepTo(r, "read", "serving")
    /\ UNCHANGED <<rows, signed, fresh, starts, requestVars, dbFails, given,
                   unseen, late>>

ReadAdmin(r) ==
    /\ \/ Active(Admin) /\ StepTo(r, "read", "serving")
       \/ Exists(Admin) /\ ~Active(Admin) /\ StepTo(r, "read", "regenerate")
       \/ ~Exists(Admin) /\ StepTo(r, "read", "create")
       \/ dbFails /\ StepTo(r, "read", "serving")
    /\ UNCHANGED <<rows, signed, fresh, starts, requestVars, dbFails, given,
                   unseen, late>>

\* The row and the token that is to be printed.
StoreAdmin(r, from) ==
    LET token == Sign(Admin, TRUE) IN
        /\ StepTo(r, from, "print")
        /\ rows' = [rows EXCEPT ![Admin] = [token |-> token, active |-> TRUE]]
        /\ fresh' = [fresh EXCEPT ![r] = token]

\* client_id is UNIQUE: a row that another server has created meanwhile is an
\* error, which main logs as a warning.
CreateAdmin(r) ==
    /\ \/ ~Exists(Admin) /\ StoreAdmin(r, "create")
       \/ /\ Exists(Admin) \/ dbFails
          /\ StepTo(r, "create", "serving")
          /\ UNCHANGED <<rows, fresh>>
    /\ signed' = [signed EXCEPT ![Admin] = @ + 1]
    /\ UNCHANGED <<starts, requestVars, dbFails, given, unseen, late>>

\* Mutant: the new token is stored and not printed.
RegenerateQuietly(r) ==
    /\ StepTo(r, "regenerate", "serving")
    /\ rows' = [rows EXCEPT ![Admin] =
                   [token |-> Sign(Admin, TRUE), active |-> TRUE]]
    /\ late' = {q \in late : bearer[q].client # Admin}
    /\ signed' = [signed EXCEPT ![Admin] = @ + 1]
    /\ UNCHANGED <<fresh, starts, requestVars, dbFails, given, unseen>>

\* Save writes the row that was read, whatever happened to it since.
RegenerateAdmin(r) ==
    /\ \/ /\ StoreAdmin(r, "regenerate")
          /\ late' = {q \in late : bearer[q].client # Admin}
       \/ /\ dbFails
          /\ StepTo(r, "regenerate", "serving")
          /\ UNCHANGED <<rows, fresh, late>>
    /\ signed' = [signed EXCEPT ![Admin] = @ + 1]
    /\ UNCHANGED <<starts, requestVars, dbFails, given, unseen>>

\* Mutant: the token stays in hand.
PrintTokenKeeps(r) ==
    /\ StepTo(r, "print", "serving")
    /\ given' = given \cup {fresh[r]}
    /\ UNCHANGED <<rows, signed, fresh, starts, requestVars, dbFails, unseen,
                   late>>

PrintToken(r) ==
    /\ StepTo(r, "print", "serving")
    /\ given' = given \cup {fresh[r]}
    /\ fresh' = [fresh EXCEPT ![r] = NoToken]
    /\ UNCHANGED <<rows, signed, starts, requestVars, dbFails, unseen, late>>

\* A crash, log.Fatalf, or the end of the process: its requests end with it,
\* and the tokens that were stored and not shown are seen by nobody.
Crash(r) ==
    /\ replica[r] # "down"
    /\ replica' = [replica EXCEPT ![r] = "down"]
    /\ fresh' = [fresh EXCEPT ![r] = NoToken]
    /\ LET ended == {q \in Requests :
                        request[q] # "idle" /\ server[q] = r} IN
          /\ request' = [q \in Requests |->
                            IF q \in ended THEN "done" ELSE request[q]]
          /\ made' = [q \in Requests |->
                         IF q \in ended THEN NoToken ELSE made[q]]
          /\ unseen' = (unseen \cup {fresh[r]} \cup {made[q] : q \in ended})
                           \ {NoToken}
    /\ UNCHANGED <<rows, signed, starts, server, bearer, operation, dbFails,
                   given, late>>

-----------------------------------------------------------------------------
(* A request: JWTAuth, RequirePermission on the admin routes, the handler. *)

At(q, from, to) ==
    /\ request[q] = from
    /\ request' = [request EXCEPT ![q] = to]

BeginRequest(q) ==
    /\ replica[server[q]] = "serving"
    /\ At(q, "idle", "auth")
    /\ \E t \in given :
          /\ bearer' = [bearer EXCEPT ![q] = t]
          /\ late' = IF Active(t.client) THEN late ELSE late \cup {q}
    /\ UNCHANGED <<rows, signed, replicaVars, server, operation, made, dbFails,
                   given, unseen>>

AfterAuth(q) == IF operation[q] = "mail" THEN "handle" ELSE "permission"

\* Mutant: the lookup has no condition on is_active.
JWTAuthAnyRow(q) ==
    /\ \/ At(q, "auth", AfterAuth(q)) /\ Exists(bearer[q].client)
       \/ At(q, "auth", "refused") /\ ~Exists(bearer[q].client)
    /\ UNCHANGED <<rows, signed, replicaVars, server, bearer, operation, made,
                   dbFails, given, unseen, late>>

\* The row is looked up by the client_id of the claims, on every request.
JWTAuth(q) ==
    /\ \/ At(q, "auth", AfterAuth(q)) /\ Active(bearer[q].client)
       \/ At(q, "auth", "refused") /\ (~Active(bearer[q].client) \/ dbFails)
    /\ UNCHANGED <<rows, signed, replicaVars, server, bearer, operation, made,
                   dbFails, given, unseen, late>>

\* Mutant: a missing permission is answered, and the chain of handlers goes on.
RequirePermissionGoesOn(q) ==
    /\ At(q, "permission", "handle")
    /\ UNCHANGED <<rows, signed, replicaVars, server, bearer, operation, made,
                   dbFails, given, unseen, late>>

RequirePermission(q) ==
    /\ At(q, "permission", IF bearer[q].admin THEN "handle" ELSE "refused")
    /\ UNCHANGED <<rows, signed, replicaVars, server, bearer, operation, made,
                   dbFails, given, unseen, late>>

\* The mail routes leave this table alone.
ServeMail(q) ==
    /\ operation[q] = "mail"
    /\ At(q, "handle", "done")
    /\ UNCHANGED <<rows, signed, replicaVars, server, bearer, operation, made,
                   dbFails, given, unseen, late>>

\* Mutant: a token is answered although its row could not be stored.
CreateTokenFallsThrough(q) ==
    /\ operation[q] = "createToken"
    /\ At(q, "handle", "answer")
    /\ \E c \in Clients, admin \in BOOLEAN :
          LET token == Sign(c, admin) IN
             /\ signed' = [signed EXCEPT ![c] = @ + 1]
             /\ made' = [made EXCEPT ![q] = token]
             /\ rows' = IF Exists(c) THEN rows
                        ELSE [rows EXCEPT ![c] = [token  |-> token,
                                                  active |-> TRUE]]
    /\ UNCHANGED <<replicaVars, server, bearer, operation, dbFails, given,
                   unseen, late>>

\* A client_id has 32 random bits: one that is drawn again meets UNIQUE.
CreateToken(q) ==
    /\ operation[q] = "createToken"
    /\ \E c \in Clients, admin \in BOOLEAN :
          LET token == Sign(c, admin) IN
             /\ signed' = [signed EXCEPT ![c] = @ + 1]
             /\ \/ /\ ~Exists(c)
                   /\ At(q, "handle", "answer")
                   /\ made' = [made EXCEPT ![q] = token]
                   /\ rows' = [rows EXCEPT ![c] = [token  |-> token,
                                                   active |-> TRUE]]
                \/ /\ Exists(c) \/ dbFails
                   /\ At(q, "handle", "refused")
                   /\ UNCHANGED <<rows, made>>
    /\ UNCHANGED <<replicaVars, server, bearer, operation, dbFails, given,
                   unseen, late>>

AnswerToken(q) ==
    /\ At(q, "answer", "done")
    /\ given' = given \cup {made[q]}
    /\ made' = [made EXCEPT ![q] = NoToken]
    /\ UNCHANGED <<rows, signed, replicaVars, server, bearer, operation,
                   dbFails, unseen, late>>

\* One UPDATE.  Its error is not looked at: no row affected is "not found".
RevokeToken(q) ==
    /\ operation[q] = "revokeToken"
    /\ \E c \in ClientIds :
          \/ /\ Exists(c)
             /\ At(q, "handle", "done")
             /\ rows' = [rows EXCEPT ![c].active = FALSE]
          \/ /\ ~Exists(c) \/ dbFails
             /\ At(q, "handle", "refused")
             /\ UNCHANGED rows
    /\ UNCHANGED <<signed, replicaVars, server, bearer, operation, made,
                   dbFails, given, unseen, late>>

-----------------------------------------------------------------------------
InitializeAdminToken(r) ==
    ReadAdmin(r) \/ CreateAdmin(r) \/ RegenerateAdmin(r) \/ PrintToken(r)

Serve(q) ==
    \/ JWTAuth(q) \/ RequirePermission(q) \/ ServeMail(q)
    \/ CreateToken(q) \/ AnswerToken(q) \/ RevokeToken(q)

Next ==
    \/ \E r \in Replicas :
          StartReplica(r) \/ InitializeAdminToken(r) \/ Crash(r)
    \/ \E q \in Requests : BeginRequest(q) \/ Serve(q)

Spec == Init /\ [][Next]_vars

\* A process that runs executes its start-up; requests need no fairness.
FairSpec ==
    Spec /\ \A r \in Replicas : WF_vars(InitializeAdminToken(r))

-----------------------------------------------------------------------------
TypeOK ==
    /\ rows \in [ClientIds -> Row \cup {NoRow}]
    /\ \A c \in ClientIds : Exists(c) => rows[c].token.client = c
    /\ signed \in [ClientIds -> Nat]
    /\ replica \in [Replicas -> ReplicaPc]
    /\ fresh \in [Replicas -> Token \cup {NoToken}]
    /\ \A r \in Replicas : fresh[r] = NoToken <=> replica[r] # "print"
    /\ starts \in 0..MaxStarts
    /\ request \in [Requests -> RequestPc]
    /\ server \in [Requests -> Replicas]
    /\ bearer \in [Requests -> Token \cup {NoToken}]
    /\ \A q \in Requests : bearer[q] = NoToken <=> request[q] = "idle"
    /\ operation \in [Requests -> Operations]
    /\ made \in [Requests -> Token \cup {NoToken}]
    /\ \A q \in Requests : made[q] = NoToken <=> request[q] # "answer"
    /\ dbFails \in BOOLEAN
    /\ given \subseteq Token
    /\ unseen \subseteq Token
    /\ late \subseteq Requests

\* Whoever was given a token has a row that lets it in until it is revoked:
\* what is printed or answered was stored before, under that client, and a
\* client id that was drawn twice, two servers that start together and calls
\* that fail never leave a token in somebody's hands that the table does not
\* know.  A client has one token; the admin may have several.
GivenTokensAreStored ==
    \A t \in given :
        /\ Exists(t.client)
        /\ t.client # Admin => rows[t.client].token = t

\* The other way round: the token whose hash a row has was shown to somebody,
\* is about to be, or died with the process that had just stored it -- also
\* when two servers regenerate the admin token over each other. (A store that
\* commits is taken to be answered with success.)
StoredTokensAreShown ==
    \A c \in ClientIds : Exists(c) =>
        \/ rows[c].token \in given \cup unseen
        \/ \E r \in Replicas : fresh[r] = rows[c].token
        \/ \E q \in Requests : made[q] = rows[c].token

\* A request that began after the token was revoked does not get past JWTAuth,
\* on any server, unless a start of a server has reinstated the admin since.
RevokedStayOut ==
    \A q \in late : ~Inside(q)

\* What ClientAccess sees of the table and of the requests that are in.
Enrolled == {c \in ClientIds : Exists(c)}
Allowed == {c \in ClientIds : Active(c)}
Admitted == [q \in Requests |-> IF Inside(q) THEN bearer[q] ELSE NoToken]

Access == INSTANCE ClientAccess WITH
    Clients  <- ClientIds,
    enrolled <- Enrolled,
    allowed  <- Allowed,
    shown    <- given,
    admitted <- Admitted

\* The chain of authority holds: whoever changes who may come in is a request
\* that came in itself, on a row that was active then, and with the admin
\* permission -- or a starting server, for the admin only.  No order of starts,
\* crashes, failing calls and requests on other servers gets around JWTAuth and
\* RequirePermission, or gives a client a second token.
AccessSpec == Access!ASpec

\* A server that starts on a database that answers leads to an active row of the
\* admin, whatever others that start with it, revocations and crashes left in
\* the table -- unless it is stopped itself. (That somebody holds the token of
\* the row is what StoredTokensAreShown is about.)
AdminReturns ==
    \A r \in Replicas :
        ~dbFails /\ replica[r] = "read"
            ~> Active(Admin) \/ replica[r] = "down"
=============================================================================
