------------------------- MODULE ClientTokensProofs -------------------------
(* Theorems about ClientTokens, for every set of servers, requests and     *)
(* client ids, and every number of starts.                                 *)
EXTENDS ClientTokens, TLAPS

\* A token that is about to be printed or answered has its row already.
PendingInv ==
    /\ \A r \in Replicas : fresh[r] # NoToken =>
           fresh[r].client = Admin /\ Exists(Admin)
    /\ \A q \in Requests : made[q] # NoToken =>
           /\ made[q].client \in Clients
           /\ Exists(made[q].client)
           /\ rows[made[q].client].token = made[q]

\* The token of a request was given to somebody.
BearerInv == \A q \in Requests : bearer[q] # NoToken => bearer[q] \in given

\* What a late request finds: the row of a client that is still revoked.
LateInv ==
    \A q \in late :
        /\ request[q] \in {"auth", "refused", "done"}
        /\ Exists(bearer[q].client) /\ ~rows[bearer[q].client].active

Inv == /\ TypeOK /\ GivenTokensAreStored /\ PendingInv
       /\ StoredTokensAreShown /\ BearerInv /\ LateInv

\* A fresh database and servers that are down satisfy the invariant.
LEMMA InitInv == Init => Inv
BY TokenAssumption
   DEF Init, Inv, TypeOK, GivenTokensAreStored, PendingInv, BearerInv,
       StoredTokensAreShown, LateInv, Exists, ReplicaPc, RequestPc

\* What Sign makes is a token of the client it is for.
LEMMA SignType ==
  ASSUME TypeOK, NEW c \in ClientIds, NEW admin \in BOOLEAN
  PROVE  /\ Sign(c, admin) \in Token
         /\ Sign(c, admin).client = c
         /\ Sign(c, admin) # NoToken
         /\ \A active \in BOOLEAN :
               /\ [token |-> Sign(c, admin), active |-> active] \in Row
               /\ [token |-> Sign(c, admin), active |-> active] # NoRow
BY TokenAssumption DEF Sign, Token, Row, TypeOK

\* The count of the tokens that were signed for a client.
LEMMA SignedType ==
  ASSUME signed \in [ClientIds -> Nat], NEW c \in ClientIds,
         signed' = [signed EXCEPT ![c] = @ + 1]
  PROVE  signed' \in [ClientIds -> Nat]
OBVIOUS

\* A step that only moves a server or a request on.
LEMMA QuietStep ==
  ASSUME Inv, TypeOK',
         UNCHANGED <<rows, fresh, made, bearer, given, unseen, late>>,
         \A q \in late : request'[q] \in {"auth", "refused", "done"}
  PROVE  Inv'
BY DEF Inv, GivenTokensAreStored, PendingInv, StoredTokensAreShown, BearerInv,
       LateInv, Exists

\* The row of the admin is written with a new token.
LEMMA StoreAdminStep ==
  ASSUME Inv, NEW r \in Replicas, NEW from \in {"create", "regenerate"},
         StoreAdmin(r, from),
         signed' = [signed EXCEPT ![Admin] = @ + 1],
         late' = {q \in late : bearer[q].client # Admin},
         UNCHANGED <<starts, requestVars, dbFails, given, unseen>>
  PROVE  Inv'
<1> USE TokenAssumption DEF requestVars
<1>0. /\ TypeOK /\ GivenTokensAreStored /\ PendingInv
      /\ StoredTokensAreShown /\ BearerInv /\ LateInv
  BY DEF Inv
<1>1. PICK token \in Token :
         /\ token.client = Admin /\ token # NoToken
         /\ [token |-> token, active |-> TRUE] \in Row
         /\ [token |-> token, active |-> TRUE] # NoRow
         /\ rows' = [rows EXCEPT ![Admin] = [token |-> token, active |-> TRUE]]
         /\ fresh' = [fresh EXCEPT ![r] = token]
  BY <1>0, SignType DEF StoreAdmin, ClientIds
<1>2. replica[r] = from /\ replica' = [replica EXCEPT ![r] = "print"]
  BY DEF StoreAdmin, StepTo
<1>3. \A c \in ClientIds : Exists(c)' <=> c = Admin \/ Exists(c)
  BY <1>0, <1>1 DEF TypeOK, Exists
<1>4. \A c \in ClientIds : c # Admin => rows'[c] = rows[c]
  BY <1>0, <1>1 DEF TypeOK
<1>5. rows'[Admin] = [token |-> token, active |-> TRUE]
  BY <1>0, <1>1 DEF TypeOK, ClientIds
<1>6. fresh'[r] = token /\ \A s \in Replicas : s # r => fresh'[s] = fresh[s]
  BY <1>0, <1>1 DEF TypeOK
<1>7. TypeOK'
  <2>1. rows' \in [ClientIds -> Row \cup {NoRow}]
    BY <1>0, <1>1 DEF TypeOK
  <2>2. \A c \in ClientIds : Exists(c)' => rows'[c].token.client = c
    BY <1>0, <1>1, <1>3, <1>4, <1>5 DEF TypeOK
  <2>3. signed' \in [ClientIds -> Nat]
    BY <1>0, SignedType DEF TypeOK, ClientIds
  <2>4. /\ replica' \in [Replicas -> ReplicaPc]
        /\ fresh' \in [Replicas -> Token \cup {NoToken}]
        /\ \A s \in Replicas : fresh'[s] = NoToken <=> replica'[s] # "print"
    BY <1>0, <1>1, <1>2, <1>6 DEF TypeOK, ReplicaPc
  <2> QED
    BY <1>0, <2>1, <2>2, <2>3, <2>4 DEF TypeOK
<1>8. GivenTokensAreStored'
  BY <1>0, <1>3, <1>4 DEF TypeOK, GivenTokensAreStored, Token
<1>9. PendingInv'
  BY <1>0, <1>1, <1>3, <1>4, <1>6 DEF PendingInv, ClientIds
<1>10. StoredTokensAreShown'
  <2> SUFFICES ASSUME NEW c \in ClientIds, Exists(c)'
               PROVE  \/ rows'[c].token \in given \cup unseen
                      \/ \E s \in Replicas : fresh'[s] = rows'[c].token
                      \/ \E q \in Requests : made[q] = rows'[c].token
    BY DEF StoredTokensAreShown
  <2>1. CASE c = Admin
    BY <2>1, <1>5, <1>6
  <2>2. CASE c # Admin
    <3>1. Exists(c) /\ rows'[c] = rows[c] /\ rows[c].token.client = c
      BY <2>2, <1>0, <1>3, <1>4 DEF TypeOK
    <3>2. rows[c].token # NoToken
      BY <3>1, <1>0 DEF TypeOK, Exists, Row
    <3>3. \A s \in Replicas : fresh[s] # rows[c].token
      BY <3>1, <3>2, <2>2, <1>0 DEF PendingInv
    <3> QED
      BY <3>1, <3>3, <1>0 DEF StoredTokensAreShown
  <2> QED
    BY <2>1, <2>2
<1>11. BearerInv'
  BY <1>0 DEF BearerInv
<1>12. LateInv'
  <2> SUFFICES ASSUME NEW q \in late, bearer[q].client # Admin
               PROVE  /\ request[q] \in {"auth", "refused", "done"}
                      /\ Exists(bearer[q].client)'
                      /\ ~rows'[bearer[q].client].active
    BY DEF LateInv
  <2>1. /\ request[q] \in {"auth", "refused", "done"}
        /\ Exists(bearer[q].client) /\ ~rows[bearer[q].client].active
    BY <1>0 DEF LateInv
  <2>2. bearer[q] \in Token
    BY <2>1, <1>0 DEF TypeOK
  <2>3. bearer[q].client \in ClientIds
    BY <2>2 DEF Token
  <2> QED
    BY <2>1, <2>3, <1>3, <1>4
<1> QED
  BY <1>7, <1>8, <1>9, <1>10, <1>11, <1>12 DEF Inv

\* The row of a new client is written.
LEMMA CreateTokenStep ==
  ASSUME Inv, NEW q \in Requests, NEW c \in Clients, NEW admin \in BOOLEAN,
         ~Exists(c),
         At(q, "handle", "answer"),
         signed' = [signed EXCEPT ![c] = @ + 1],
         made' = [made EXCEPT ![q] = Sign(c, admin)],
         rows' = [rows EXCEPT ![c] = [token  |-> Sign(c, admin),
                                      active |-> TRUE]],
         UNCHANGED <<replicaVars, server, bearer, operation, dbFails, given,
                     unseen, late>>
  PROVE  Inv'
<1> USE TokenAssumption DEF replicaVars
<1>0. /\ TypeOK /\ GivenTokensAreStored /\ PendingInv
      /\ StoredTokensAreShown /\ BearerInv /\ LateInv
  BY DEF Inv
<1>1. c \in ClientIds /\ c # Admin
  BY DEF ClientIds
<1>2. PICK token \in Token :
         /\ token.client = c /\ token # NoToken
         /\ [token |-> token, active |-> TRUE] \in Row
         /\ [token |-> token, active |-> TRUE] # NoRow
         /\ rows' = [rows EXCEPT ![c] = [token |-> token, active |-> TRUE]]
         /\ made' = [made EXCEPT ![q] = token]
  BY <1>0, <1>1, SignType
<1>3. request[q] = "handle" /\ request' = [request EXCEPT ![q] = "answer"]
  BY DEF At
<1>4. \A d \in ClientIds : Exists(d)' <=> d = c \/ Exists(d)
  BY <1>0, <1>1, <1>2 DEF TypeOK, Exists
<1>5. \A d \in ClientIds : d # c => rows'[d] = rows[d]
  BY <1>0, <1>1, <1>2 DEF TypeOK
<1>6. rows'[c] = [token |-> token, active |-> TRUE]
  BY <1>0, <1>1, <1>2 DEF TypeOK
<1>7. made'[q] = token /\ \A p \in Requests : p # q => made'[p] = made[p]
  BY <1>0, <1>2 DEF TypeOK
<1>8. made[q] = NoToken
  BY <1>0, <1>3 DEF TypeOK
<1>9. TypeOK'
  <2>1. rows' \in [ClientIds -> Row \cup {NoRow}]
    BY <1>0, <1>1, <1>2 DEF TypeOK
  <2>2. \A d \in ClientIds : Exists(d)' => rows'[d].token.client = d
    BY <1>0, <1>2, <1>4, <1>5, <1>6 DEF TypeOK
  <2>3. signed' \in [ClientIds -> Nat]
    BY <1>0, <1>1, SignedType DEF TypeOK
  <2>4. /\ request' \in [Requests -> RequestPc]
        /\ made' \in [Requests -> Token \cup {NoToken}]
        /\ \A p \in Requests : made'[p] = NoToken <=> request'[p] # "answer"
        /\ \A p \in Requests : bearer[p] = NoToken <=> request'[p] = "idle"
    BY <1>0, <1>2, <1>3, <1>7 DEF TypeOK, RequestPc
  <2> QED
    BY <1>0, <2>1, <2>2, <2>3, <2>4 DEF TypeOK
<1>10. GivenTokensAreStored'
  BY <1>0, <1>4, <1>5 DEF TypeOK, GivenTokensAreStored, Token
<1>11. PendingInv'
  <2>1. \A s \in Replicas : fresh[s] # NoToken =>
            fresh[s].client = Admin /\ Exists(Admin)'
    BY <1>0, <1>4 DEF PendingInv, ClientIds
  <2>2. \A p \in Requests : made'[p] # NoToken =>
            /\ made'[p].client \in Clients
            /\ Exists(made[p].client)'
            /\ rows'[made'[p].client].token = made'[p]
    <3> SUFFICES ASSUME NEW p \in Requests, made'[p] # NoToken
                 PROVE  /\ made'[p].client \in Clients
                        /\ Exists(made[p].client)'
                        /\ rows'[made'[p].client].token = made'[p]
      OBVIOUS
    <3>1. CASE p = q
      BY <3>1, <1>1, <1>2, <1>4, <1>6, <1>7
    <3>2. CASE p # q
      <4>1. /\ made'[p] = made[p] /\ made[p].client \in Clients
            /\ Exists(made[p].client)
            /\ rows[made[p].client].token = made[p]
        BY <3>2, <1>0, <1>7 DEF PendingInv
      <4>2. made[p].client # c /\ made[p].client \in ClientIds
        BY <4>1 DEF ClientIds
      <4> QED
        BY <4>1, <4>2, <1>4, <1>5
    <3> QED
      BY <3>1, <3>2
  <2> QED
    BY <2>1, <2>2 DEF PendingInv
<1>12. StoredTokensAreShown'
  <2> SUFFICES ASSUME NEW d \in ClientIds, Exists(d)'
               PROVE  \/ rows'[d].token \in given \cup unseen
                      \/ \E s \in Replicas : fresh[s] = rows'[d].token
                      \/ \E p \in Requests : made'[p] = rows'[d].token
    BY DEF StoredTokensAreShown
  <2>1. CASE d = c
    BY <2>1, <1>6, <1>7
  <2>2. CASE d # c
    <3>1. Exists(d) /\ rows'[d] = rows[d]
      BY <2>2, <1>4, <1>5
    <3>2. rows[d].token # NoToken
      BY <3>1, <1>0 DEF TypeOK, Exists, Row
    <3> QED
      BY <3>1, <3>2, <1>0, <1>7, <1>8 DEF StoredTokensAreShown
  <2> QED
    BY <2>1, <2>2
<1>13. BearerInv'
  BY <1>0 DEF BearerInv
<1>14. LateInv'
  <2> SUFFICES ASSUME NEW p \in late
               PROVE  /\ request'[p] \in {"auth", "refused", "done"}
                      /\ Exists(bearer[p].client)'
                      /\ ~rows'[bearer[p].client].active
    BY DEF LateInv
  <2>1. /\ request[p] \in {"auth", "refused", "done"}
        /\ Exists(bearer[p].client) /\ ~rows[bearer[p].client].active
        /\ p \in Requests
    BY <1>0 DEF LateInv, TypeOK
  <2>2. bearer[p] \in Token
    BY <2>1, <1>0 DEF TypeOK
  <2>3. bearer[p].client \in ClientIds /\ bearer[p].client # c
    BY <2>1, <2>2 DEF Token
  <2>4. request'[p] = request[p]
    BY <2>1, <1>0, <1>3 DEF TypeOK
  <2> QED
    BY <2>1, <2>3, <2>4, <1>4, <1>5
<1> QED
  BY <1>9, <1>10, <1>11, <1>12, <1>13, <1>14 DEF Inv

\* A row is deactivated, its token stays.
LEMMA RevokeTokenStep ==
  ASSUME Inv, NEW q \in Requests, NEW c \in ClientIds, Exists(c),
         At(q, "handle", "done"),
         rows' = [rows EXCEPT ![c].active = FALSE],
         UNCHANGED <<signed, replicaVars, server, bearer, operation, made,
                     dbFails, given, unseen, late>>
  PROVE  Inv'
<1> USE TokenAssumption DEF replicaVars
<1>0. /\ TypeOK /\ GivenTokensAreStored /\ PendingInv
      /\ StoredTokensAreShown /\ BearerInv /\ LateInv
  BY DEF Inv
<1>1. request[q] = "handle" /\ request' = [request EXCEPT ![q] = "done"]
  BY DEF At
<1>3. \A d \in ClientIds : d # c => rows'[d] = rows[d]
  BY <1>0 DEF TypeOK
<1>4. rows'[c] = [rows[c] EXCEPT !.active = FALSE] /\ rows[c] \in Row
  BY <1>0 DEF TypeOK, Exists
<1>5. rows'[c].token = rows[c].token /\ ~rows'[c].active /\ rows'[c] \in Row
  BY <1>4 DEF Row
<1>2. rows' \in [ClientIds -> Row \cup {NoRow}]
  <2>1. rows' = [d \in ClientIds |-> rows'[d]]
    BY <1>0 DEF TypeOK
  <2>2. \A d \in ClientIds : rows'[d] \in Row \cup {NoRow}
    BY <1>0, <1>3, <1>5 DEF TypeOK
  <2> QED
    BY <2>1, <2>2
<1>6. \A d \in ClientIds : /\ Exists(d)' <=> Exists(d)
                           /\ rows'[d].token = rows[d].token
  BY <1>0, <1>3, <1>5 DEF Exists
<1>7. TypeOK'
  <2>1. \A d \in ClientIds : Exists(d)' => rows'[d].token.client = d
    BY <1>0, <1>6 DEF TypeOK
  <2>2. /\ request' \in [Requests -> RequestPc]
        /\ \A p \in Requests : made[p] = NoToken <=> request'[p] # "answer"
        /\ \A p \in Requests : bearer[p] = NoToken <=> request'[p] = "idle"
    BY <1>0, <1>1 DEF TypeOK, RequestPc
  <2> QED
    BY <1>0, <1>2, <2>1, <2>2 DEF TypeOK
<1>8. GivenTokensAreStored'
  BY <1>0, <1>6 DEF TypeOK, GivenTokensAreStored, Token
<1>9. PendingInv'
  BY <1>0, <1>6 DEF PendingInv, ClientIds
<1>10. StoredTokensAreShown'
  BY <1>0, <1>6 DEF StoredTokensAreShown
<1>11. BearerInv'
  BY <1>0 DEF BearerInv
<1>12. LateInv'
  <2> SUFFICES ASSUME NEW p \in late
               PROVE  /\ request'[p] \in {"auth", "refused", "done"}
                      /\ Exists(bearer[p].client)'
                      /\ ~rows'[bearer[p].client].active
    BY DEF LateInv
  <2>1. /\ request[p] \in {"auth", "refused", "done"}
        /\ Exists(bearer[p].client) /\ ~rows[bearer[p].client].active
        /\ p \in Requests
    BY <1>0 DEF LateInv, TypeOK
  <2>2. bearer[p] \in Token
    BY <2>1, <1>0 DEF TypeOK
  <2>3. bearer[p].client \in ClientIds
    BY <2>2 DEF Token
  <2>4. request'[p] = request[p]
    BY <2>1, <1>0, <1>1 DEF TypeOK
  <2> QED
    BY <2>1, <2>3, <2>4, <1>3, <1>5, <1>6
<1> QED
  BY <1>7, <1>8, <1>9, <1>10, <1>11, <1>12 DEF Inv

\* Every action keeps the invariant.
LEMMA InvStep == Inv /\ [Next]_vars => Inv'
<1> USE TokenAssumption
<1> SUFFICES ASSUME Inv, [Next]_vars PROVE Inv'
  OBVIOUS
<1>0. /\ TypeOK /\ GivenTokensAreStored /\ PendingInv
      /\ StoredTokensAreShown /\ BearerInv /\ LateInv
  BY DEF Inv
<1>1. ASSUME NEW r \in Replicas, StartReplica(r) PROVE Inv'
  <2> USE <1>0, <1>1 DEF StartReplica, StepTo, replicaVars, requestVars
  <2>1. TypeOK'
    BY DEF TypeOK, Exists, Active, ReplicaPc, RequestPc
  <2>2. GivenTokensAreStored'
    BY DEF TypeOK, GivenTokensAreStored, PendingInv, Exists
  <2>3. PendingInv'
    BY DEF TypeOK, PendingInv, Exists
  <2>4. StoredTokensAreShown'
    BY DEF TypeOK, StoredTokensAreShown, Exists
  <2>5. BearerInv'
    BY DEF TypeOK, BearerInv
  <2>6. LateInv'
    BY DEF TypeOK, LateInv, GivenTokensAreStored, BearerInv, Exists, Active
  <2> QED
    BY <2>1, <2>2, <2>3, <2>4, <2>5, <2>6 DEF Inv
<1>2. ASSUME NEW r \in Replicas, ReadAdmin(r) PROVE Inv'
  <2> USE <1>0, <1>2 DEF ReadAdmin, StepTo, replicaVars, requestVars
  <2>1. TypeOK'
    BY DEF TypeOK, Exists, Active, ReplicaPc, RequestPc
  <2>2. GivenTokensAreStored'
    BY DEF TypeOK, GivenTokensAreStored, PendingInv, Exists
  <2>3. PendingInv'
    BY DEF TypeOK, PendingInv, Exists
  <2>4. StoredTokensAreShown'
    BY DEF TypeOK, StoredTokensAreShown, Exists
  <2>5. BearerInv'
    BY DEF TypeOK, BearerInv
  <2>6. LateInv'
    BY DEF TypeOK, LateInv, GivenTokensAreStored, BearerInv, Exists, Active
  <2> QED
    BY <2>1, <2>2, <2>3, <2>4, <2>5, <2>6 DEF Inv
<1>3. ASSUME NEW r \in Replicas, CreateAdmin(r) PROVE Inv'
  <2>1. CASE ~Exists(Admin) /\ StoreAdmin(r, "create")
    <3>1. late = {q \in late : bearer[q].client # Admin}
      BY <1>0, <2>1 DEF LateInv
    <3> QED
      BY <1>3, <2>1, <3>1, StoreAdminStep DEF CreateAdmin
  <2>2. CASE StepTo(r, "create", "serving") /\ UNCHANGED <<rows, fresh>>
    <3>1. TypeOK'
      <4>1. signed' \in [ClientIds -> Nat]
        BY <1>0, <1>3, SignedType DEF CreateAdmin, TypeOK, ClientIds
      <4>2. UNCHANGED <<rows, fresh, starts, requestVars, dbFails, given, late,
                        unseen>>
        BY <1>3, <2>2 DEF CreateAdmin
      <4> QED
        BY <1>0, <2>2, <4>1, <4>2
           DEF StepTo, requestVars, TypeOK, Exists, ReplicaPc
    <3> QED
      BY <1>0, <1>3, <2>2, <3>1, QuietStep
         DEF CreateAdmin, requestVars, LateInv
  <2> QED
    BY <1>3, <2>1, <2>2 DEF CreateAdmin
<1>4. ASSUME NEW r \in Replicas, RegenerateAdmin(r) PROVE Inv'
  <2>1. CASE /\ StoreAdmin(r, "regenerate")
             /\ late' = {q \in late : bearer[q].client # Admin}
    BY <1>4, <2>1, StoreAdminStep DEF RegenerateAdmin
  <2>2. CASE /\ StepTo(r, "regenerate", "serving")
             /\ UNCHANGED <<rows, fresh, late>>
    <3>1. TypeOK'
      <4>1. signed' \in [ClientIds -> Nat]
        BY <1>0, <1>4, SignedType DEF RegenerateAdmin, TypeOK, ClientIds
      <4>2. UNCHANGED <<rows, fresh, starts, requestVars, dbFails, given, late,
                        unseen>>
        BY <1>4, <2>2 DEF RegenerateAdmin
      <4> QED
        BY <1>0, <2>2, <4>1, <4>2
           DEF StepTo, requestVars, TypeOK, Exists, ReplicaPc
    <3> QED
      BY <1>0, <1>4, <2>2, <3>1, QuietStep
         DEF RegenerateAdmin, requestVars, LateInv
  <2> QED
    BY <1>4, <2>1, <2>2 DEF RegenerateAdmin
<1>5. ASSUME NEW r \in Replicas, PrintToken(r) PROVE Inv'
  <2> USE <1>0, <1>5 DEF PrintToken, StepTo, replicaVars, requestVars
  <2>1. TypeOK'
    BY DEF TypeOK, Exists, Active, ReplicaPc, RequestPc
  <2>2. GivenTokensAreStored'
    BY DEF TypeOK, GivenTokensAreStored, PendingInv, Exists
  <2>3. PendingInv'
    BY DEF TypeOK, PendingInv, Exists
  <2>4. StoredTokensAreShown'
    BY DEF TypeOK, StoredTokensAreShown, Exists
  <2>5. BearerInv'
    BY DEF TypeOK, BearerInv
  <2>6. LateInv'
    BY DEF TypeOK, LateInv, GivenTokensAreStored, BearerInv, Exists, Active
  <2> QED
    BY <2>1, <2>2, <2>3, <2>4, <2>5, <2>6 DEF Inv
<1>6. ASSUME NEW r \in Replicas, Crash(r) PROVE Inv'
  <2> USE <1>0, <1>6 DEF Crash, replicaVars, requestVars
  <2>1. TypeOK'
    BY DEF TypeOK, Exists, Active, ReplicaPc, RequestPc
  <2>2. GivenTokensAreStored'
    BY DEF TypeOK, GivenTokensAreStored, PendingInv, Exists
  <2>3. PendingInv'
    BY DEF TypeOK, PendingInv, Exists
  <2>4. StoredTokensAreShown'
    BY DEF TypeOK, StoredTokensAreShown, Exists
  <2>5. BearerInv'
    BY DEF TypeOK, BearerInv
  <2>6. LateInv'
    BY DEF TypeOK, LateInv, GivenTokensAreStored, BearerInv, Exists, Active
  <2> QED
    BY <2>1, <2>2, <2>3, <2>4, <2>5, <2>6 DEF Inv
<1>7. ASSUME NEW q \in Requests, BeginRequest(q) PROVE Inv'
  <2> USE <1>0, <1>7 DEF BeginRequest, At, replicaVars, requestVars
  <2>1. TypeOK'
    BY DEF TypeOK, Exists, Active, ReplicaPc, RequestPc
  <2>2. GivenTokensAreStored'
    BY DEF TypeOK, GivenTokensAreStored, PendingInv, Exists
  <2>3. PendingInv'
    BY DEF TypeOK, PendingInv, Exists
  <2>4. StoredTokensAreShown'
    BY DEF TypeOK, StoredTokensAreShown, Exists
  <2>5. BearerInv'
    BY DEF TypeOK, BearerInv
  <2>6. LateInv'
    BY DEF TypeOK, LateInv, GivenTokensAreStored, BearerInv, Exists, Active
  <2> QED
    BY <2>1, <2>2, <2>3, <2>4, <2>5, <2>6 DEF Inv
<1>8. ASSUME NEW q \in Requests, JWTAuth(q) PROVE Inv'
  <2> USE <1>0, <1>8 DEF JWTAuth, At, AfterAuth, replicaVars, requestVars
  <2>1. TypeOK'
    BY DEF TypeOK, Exists, Active, ReplicaPc, RequestPc
  <2>2. GivenTokensAreStored'
    BY DEF TypeOK, GivenTokensAreStored, PendingInv, Exists
  <2>3. PendingInv'
    BY DEF TypeOK, PendingInv, Exists
  <2>4. StoredTokensAreShown'
    BY DEF TypeOK, StoredTokensAreShown, Exists
  <2>5. BearerInv'
    BY DEF TypeOK, BearerInv
  <2>6. LateInv'
    BY DEF TypeOK, LateInv, GivenTokensAreStored, BearerInv, Exists, Active
  <2> QED
    BY <2>1, <2>2, <2>3, <2>4, <2>5, <2>6 DEF Inv
<1>9. ASSUME NEW q \in Requests, RequirePermission(q) PROVE Inv'
  <2> USE <1>0, <1>9 DEF RequirePermission, At, replicaVars, requestVars
  <2>1. TypeOK'
    BY DEF TypeOK, Exists, Active, ReplicaPc, RequestPc
  <2>2. GivenTokensAreStored'
    BY DEF TypeOK, GivenTokensAreStored, PendingInv, Exists
  <2>3. PendingInv'
    BY DEF TypeOK, PendingInv, Exists
  <2>4. StoredTokensAreShown'
    BY DEF TypeOK, StoredTokensAreShown, Exists
  <2>5. BearerInv'
    BY DEF TypeOK, BearerInv
  <2>6. LateInv'
    BY DEF TypeOK, LateInv, GivenTokensAreStored, BearerInv, Exists, Active
  <2> QED
    BY <2>1, <2>2, <2>3, <2>4, <2>5, <2>6 DEF Inv
<1>10. ASSUME NEW q \in Requests, ServeMail(q) PROVE Inv'
  <2> USE <1>0, <1>10 DEF ServeMail, At, replicaVars, requestVars
  <2>1. TypeOK'
    BY DEF TypeOK, Exists, Active, ReplicaPc, RequestPc
  <2>2. GivenTokensAreStored'
    BY DEF TypeOK, GivenTokensAreStored, PendingInv, Exists
  <2>3. PendingInv'
    BY DEF TypeOK, PendingInv, Exists
  <2>4. StoredTokensAreShown'
    BY DEF TypeOK, StoredTokensAreShown, Exists
  <2>5. BearerInv'
    BY DEF TypeOK, BearerInv
  <2>6. LateInv'
    BY DEF TypeOK, LateInv, GivenTokensAreStored, BearerInv, Exists, Active
  <2> QED
    BY <2>1, <2>2, <2>3, <2>4, <2>5, <2>6 DEF Inv
<1>11. ASSUME NEW q \in Requests, CreateToken(q) PROVE Inv'
  <2>1. PICK c \in Clients, admin \in BOOLEAN :
           /\ signed' = [signed EXCEPT ![c] = @ + 1]
           /\ \/ /\ ~Exists(c)
                 /\ At(q, "handle", "answer")
                 /\ made' = [made EXCEPT ![q] = Sign(c, admin)]
                 /\ rows' = [rows EXCEPT ![c] = [token  |-> Sign(c, admin),
                                                 active |-> TRUE]]
              \/ /\ Exists(c) \/ dbFails
                 /\ At(q, "handle", "refused")
                 /\ UNCHANGED <<rows, made>>
    BY <1>11 DEF CreateToken
  <2>2. UNCHANGED <<replicaVars, server, bearer, operation, dbFails, given,
                    unseen, late>>
    BY <1>11 DEF CreateToken
  <2>3. CASE At(q, "handle", "refused") /\ UNCHANGED <<rows, made>>
    <3>1. TypeOK'
      <4>1. signed' \in [ClientIds -> Nat]
        BY <1>0, <2>1, SignedType DEF TypeOK, ClientIds
      <4> QED
        BY <1>0, <2>2, <2>3, <4>1
           DEF At, replicaVars, TypeOK, Exists, RequestPc
    <3> QED
      BY <1>0, <2>2, <2>3, <3>1, QuietStep DEF At, replicaVars, TypeOK, LateInv
  <2>4. CASE /\ ~Exists(c)
             /\ At(q, "handle", "answer")
             /\ made' = [made EXCEPT ![q] = Sign(c, admin)]
             /\ rows' = [rows EXCEPT ![c] = [token  |-> Sign(c, admin),
                                             active |-> TRUE]]
    BY <1>0, <2>1, <2>2, <2>4, CreateTokenStep
  <2> QED
    BY <2>1, <2>3, <2>4
<1>12. ASSUME NEW q \in Requests, AnswerToken(q) PROVE Inv'
  <2> USE <1>0, <1>12 DEF AnswerToken, At, replicaVars, requestVars
  <2>1. TypeOK'
    BY DEF TypeOK, Exists, Active, ReplicaPc, RequestPc
  <2>2. GivenTokensAreStored'
    BY DEF TypeOK, GivenTokensAreStored, PendingInv, Exists
  <2>3. PendingInv'
    BY DEF TypeOK, PendingInv, Exists
  <2>4. StoredTokensAreShown'
    BY DEF TypeOK, StoredTokensAreShown, Exists
  <2>5. BearerInv'
    BY DEF TypeOK, BearerInv
  <2>6. LateInv'
    BY DEF TypeOK, LateInv, GivenTokensAreStored, BearerInv, Exists, Active
  <2> QED
    BY <2>1, <2>2, <2>3, <2>4, <2>5, <2>6 DEF Inv
<1>13. ASSUME NEW q \in Requests, RevokeToken(q) PROVE Inv'
  <2>1. PICK c \in ClientIds :
           \/ /\ Exists(c)
              /\ At(q, "handle", "done")
              /\ rows' = [rows EXCEPT ![c].active = FALSE]
           \/ /\ ~Exists(c) \/ dbFails
              /\ At(q, "handle", "refused")
              /\ UNCHANGED rows
    BY <1>13 DEF RevokeToken
  <2>2. UNCHANGED <<signed, replicaVars, server, bearer, operation, made,
                    dbFails, given, unseen, late>>
    BY <1>13 DEF RevokeToken
  <2>3. CASE At(q, "handle", "refused") /\ UNCHANGED rows
    <3>1. TypeOK'
      BY <1>0, <2>2, <2>3 DEF At, replicaVars, TypeOK, Exists, RequestPc
    <3> QED
      BY <1>0, <2>2, <2>3, <3>1, QuietStep DEF At, replicaVars, TypeOK, LateInv
  <2>4. CASE /\ Exists(c)
             /\ At(q, "handle", "done")
             /\ rows' = [rows EXCEPT ![c].active = FALSE]
    BY <2>2, <2>4, RevokeTokenStep
  <2> QED
    BY <2>1, <2>3, <2>4
<1>14. CASE UNCHANGED vars
  BY <1>0, <1>14 DEF vars, replicaVars, requestVars, Inv, TypeOK, PendingInv,
     GivenTokensAreStored, StoredTokensAreShown, BearerInv, LateInv, Exists
<1> QED
  BY <1>1, <1>2, <1>3, <1>4, <1>5, <1>6, <1>7,
     <1>8, <1>9, <1>10, <1>11, <1>12, <1>13, <1>14
     DEF Next, InitializeAdminToken, Serve

\* The invariant holds in every reachable state.
LEMMA InvHolds == Spec => []Inv
BY InitInv, InvStep, PTL DEF Spec

\* The tables, the servers and the requests keep to their types.
THEOREM TypeCorrect == Spec => []TypeOK
<1>1. Inv => TypeOK
  BY DEF Inv
<1> QED
  BY <1>1, InvHolds, PTL

\* No start, crash, revocation or failing call ever leaves somebody with a
\* token that the table does not know.
THEOREM GivenTokensWork == Spec => []GivenTokensAreStored
<1>1. Inv => GivenTokensAreStored
  BY DEF Inv
<1> QED
  BY <1>1, InvHolds, PTL

\* A stored token is lost only with the process that stored it.
THEOREM StoredTokensShown == Spec => []StoredTokensAreShown
<1>1. Inv => StoredTokensAreShown
  BY DEF Inv
<1> QED
  BY <1>1, InvHolds, PTL

\* After a revocation no later request of that client is let in, until a start
\* of a server reinstates the admin.
THEOREM RevocationHolds == Spec => []RevokedStayOut
<1>1. Inv => RevokedStayOut
  BY DEF Inv, LateInv, RevokedStayOut, Inside
<1> QED
  BY <1>1, InvHolds, PTL

-----------------------------------------------------------------------------
(* Authority, and the refinement of ClientAccess.                          *)

\* Past RequirePermission there are only administrators, and the token that a
\* start is about to print is one of an administrator.
AuthorityInv ==
    /\ \A q \in Requests :
          /\ request[q] = "handle" /\ operation[q] # "mail" => bearer[q].admin
          /\ request[q] = "answer" => bearer[q].admin
    /\ \A r \in Replicas : fresh[r] # NoToken => fresh[r].admin

LEMMA AuthorityInit == Init => AuthorityInv
BY DEF Init, AuthorityInv

\* What a start signs is a token with the admin permission.
LEMMA AuthorityStore ==
  ASSUME TypeOK, AuthorityInv, NEW r \in Replicas, NEW from,
         StoreAdmin(r, from), UNCHANGED requestVars
  PROVE  AuthorityInv'
<1>1. Sign(Admin, TRUE).admin
  BY DEF Sign
<1>2. \A s \in Replicas : fresh'[s] = fresh[s] \/ fresh'[s].admin
  BY <1>1 DEF StoreAdmin, TypeOK
<1> QED
  BY <1>2 DEF AuthorityInv, requestVars

LEMMA AuthorityStep == TypeOK /\ AuthorityInv /\ [Next]_vars => AuthorityInv'
<1> SUFFICES ASSUME TypeOK, AuthorityInv, [Next]_vars PROVE AuthorityInv'
  OBVIOUS
<1>1. ASSUME NEW r \in Replicas, StartReplica(r) \/ InitializeAdminToken(r)
      PROVE  AuthorityInv'
  <2>1. CASE StoreAdmin(r, "create") \/ StoreAdmin(r, "regenerate")
    <3>1. UNCHANGED requestVars
      BY <1>1 DEF StartReplica, InitializeAdminToken, ReadAdmin, CreateAdmin,
                  RegenerateAdmin, PrintToken
    <3> QED
      BY <2>1, <3>1, AuthorityStore
  <2>2. CASE ~StoreAdmin(r, "create") /\ ~StoreAdmin(r, "regenerate")
    <3>1. UNCHANGED requestVars
      BY <1>1 DEF StartReplica, InitializeAdminToken, ReadAdmin, CreateAdmin,
                  RegenerateAdmin, PrintToken
    <3>2. \A s \in Replicas : fresh'[s] \in {fresh[s], NoToken}
      BY <1>1, <2>2
         DEF StartReplica, InitializeAdminToken, ReadAdmin, CreateAdmin,
             RegenerateAdmin, PrintToken, TypeOK
    <3> QED
      BY <3>1, <3>2 DEF AuthorityInv, requestVars
  <2> QED
    BY <2>1, <2>2
<1>2. ASSUME NEW r \in Replicas, Crash(r) PROVE AuthorityInv'
  BY <1>2 DEF Crash, AuthorityInv, TypeOK
<1>3. ASSUME NEW q \in Requests, BeginRequest(q) PROVE AuthorityInv'
  BY <1>3 DEF BeginRequest, At, replicaVars, AuthorityInv, TypeOK
<1>4. ASSUME NEW q \in Requests, Serve(q) PROVE AuthorityInv'
  BY <1>4 DEF Serve, JWTAuth, AfterAuth, RequirePermission, ServeMail,
     CreateToken, AnswerToken, RevokeToken, At, replicaVars, AuthorityInv,
     TypeOK
<1>5. CASE UNCHANGED vars
  BY <1>5 DEF vars, replicaVars, requestVars, AuthorityInv
<1> QED
  BY <1>1, <1>2, <1>3, <1>4, <1>5 DEF Next

LEMMA AuthorityHolds == Spec => []AuthorityInv
<1>1. Inv => TypeOK
  BY DEF Inv
<1> QED
  BY <1>1, InvHolds, AuthorityInit, AuthorityStep, PTL DEF Spec

\* Nothing that ClientAccess sees changes.
Unseen == UNCHANGED <<Enrolled, Allowed, given, Admitted>>

LEMMA RefineInit == Init => Access!AInit
<1> SUFFICES ASSUME Init PROVE Access!AInit
  OBVIOUS
<1>1. Enrolled = {} /\ Allowed = {}
  BY DEF Init, Enrolled, Allowed, Exists, Active
<1>2. Admitted = [q \in Requests |-> NoToken]
  BY DEF Init, Admitted, Inside
<1> QED
  BY <1>1, <1>2 DEF Init, Access!AInit

\* A request that moves on is the only one that may come in or leave.
LEMMA OneMoves ==
  ASSUME TypeOK, NEW q \in Requests,
         NEW to \in {"permission", "handle", "answer"},
         request' = [request EXCEPT ![q] = to], bearer' = bearer
  PROVE  Admitted' = [Admitted EXCEPT ![q] = bearer[q]]
BY DEF TypeOK, Admitted, Inside

LEMMA OneEnds ==
  ASSUME TypeOK, NEW q \in Requests, NEW to \in {"refused", "done"},
         request' = [request EXCEPT ![q] = to], bearer' = bearer
  PROVE  Admitted' = [Admitted EXCEPT ![q] = NoToken]
BY DEF TypeOK, Admitted, Inside

\* A request that leaves, alone.
LEMMA OneLeaves ==
  ASSUME NEW q \in Requests, Admitted' = [Admitted EXCEPT ![q] = NoToken],
         UNCHANGED <<Enrolled, Allowed, given>>
  PROVE  Access!ANext
<1>1. Admitted' = [p \in Requests |->
                      IF p \in {q} THEN NoToken ELSE Admitted[p]]
  BY DEF Admitted
<1>2. {q} \in SUBSET Requests
  OBVIOUS
<1> QED
  BY <1>1, <1>2 DEF Access!ANext, Access!Leave

\* Rows that stay are seen as before.
LEMMA RowsStay == rows' = rows => UNCHANGED <<Enrolled, Allowed>>
BY DEF Enrolled, Allowed, Active, Exists

\* The row of one client is written, and lets it in.
LEMMA RowOfOne ==
  ASSUME TypeOK, NEW c \in ClientIds, NEW token \in Token,
         rows' = [rows EXCEPT ![c] = [token |-> token, active |-> TRUE]]
  PROVE  /\ Enrolled' = Enrolled \cup {c}
         /\ Allowed' = Allowed \cup {c}
<1>0. rows'[c] = [token |-> token, active |-> TRUE]
  BY DEF TypeOK
<1>1. rows'[c] # NoRow /\ rows'[c].active
  <2>1. [token |-> token, active |-> TRUE] \in Row
    BY DEF Row
  <2>2. rows'[c] # NoRow
    BY <1>0, <2>1, TokenAssumption
  <2>3. rows'[c].active = TRUE
    BY <1>0
  <2> QED
    BY <2>2, <2>3
<1>2. \A d \in ClientIds : d # c => rows'[d] = rows[d]
  BY DEF TypeOK
<1> QED
  BY <1>1, <1>2 DEF Enrolled, Allowed, Active, Exists

\* Starts of servers.
LEMMA RefineStart ==
  ASSUME Inv, AuthorityInv, NEW r \in Replicas,
         StartReplica(r) \/ InitializeAdminToken(r)
  PROVE  Access!ANext \/ Unseen
<1>0. TypeOK /\ PendingInv
  BY DEF Inv
<1>1. Admitted' = Admitted
  BY DEF StartReplica, InitializeAdminToken, ReadAdmin, CreateAdmin,
         RegenerateAdmin, PrintToken, requestVars, Admitted, Inside
<1>2. CASE StoreAdmin(r, "create") \/ StoreAdmin(r, "regenerate")
  <2>1. given' = given
    BY <1>2 DEF StoreAdmin, StepTo, StartReplica, InitializeAdminToken,
                ReadAdmin, CreateAdmin, RegenerateAdmin, PrintToken, TypeOK
  <2>2. Admin \in ClientIds
    BY DEF ClientIds
  <2>3. Sign(Admin, TRUE) \in Token
    BY <1>0, <2>2, SignType
  <2>4. /\ Enrolled' = Enrolled \cup {Admin}
        /\ Allowed' = Allowed \cup {Admin}
    BY <1>0, <1>2, <2>2, <2>3, RowOfOne DEF StoreAdmin
  <2> QED
    BY <1>1, <2>1, <2>4 DEF Access!ANext, Access!EnrolAdmin
<1>3. CASE PrintToken(r)
  <2>1. given' = given \cup {fresh[r]} /\ UNCHANGED rows
    BY <1>3 DEF PrintToken
  <2>2. fresh[r] # NoToken
    BY <1>0, <1>3 DEF PrintToken, StepTo, TypeOK
  <2>3. fresh[r].client = Admin /\ fresh[r].admin /\ Admin \in Enrolled
    BY <1>0, <2>2 DEF PendingInv, AuthorityInv, Enrolled, ClientIds
  <2>4. Access!ShowAdmin
    BY <1>1, <2>1, <2>3, RowsStay DEF Access!ShowAdmin
  <2> QED
    BY <2>4 DEF Access!ANext
<1>4. CASE rows' = rows /\ given' = given
  BY <1>1, <1>4, RowsStay DEF Unseen
<1> QED
  BY <1>2, <1>3, <1>4 DEF StartReplica, InitializeAdminToken, ReadAdmin,
     CreateAdmin, RegenerateAdmin

\* The end of a server ends its requests.
LEMMA RefineCrash ==
  ASSUME TypeOK, NEW r \in Replicas, Crash(r)
  PROVE  Access!ANext
<1> DEFINE ended == {q \in Requests : request[q] # "idle" /\ server[q] = r}
<1>1. /\ request' = [q \in Requests |->
                        IF q \in ended THEN "done" ELSE request[q]]
      /\ UNCHANGED <<rows, given, bearer>>
  BY DEF Crash
<1>2. Admitted' = [q \in Requests |->
                      IF q \in ended THEN NoToken ELSE Admitted[q]]
  BY <1>1 DEF Admitted, Inside
<1>3. ended \in SUBSET Requests
  OBVIOUS
<1> HIDE DEF ended
<1> QED
  BY <1>1, <1>2, <1>3, RowsStay DEF Access!ANext, Access!Leave

\* A request up to its handler: who comes in has a row that is active.
LEMMA RefineArrival ==
  ASSUME Inv, NEW q \in Requests,
         BeginRequest(q) \/ JWTAuth(q) \/ RequirePermission(q) \/ ServeMail(q)
  PROVE  Access!ANext \/ Unseen
<1>0. TypeOK /\ BearerInv
  BY DEF Inv
<1>1. UNCHANGED <<Enrolled, Allowed, given>>
  BY RowsStay DEF BeginRequest, JWTAuth, RequirePermission, ServeMail
<1>2. CASE BeginRequest(q)
  <2>1. \A p \in Requests : Inside(p)' <=> Inside(p)
    BY <1>0, <1>2 DEF BeginRequest, At, Inside, TypeOK
  <2>2. \A p \in Requests : Inside(p) => bearer'[p] = bearer[p]
    BY <1>0, <1>2 DEF BeginRequest, At, Inside, TypeOK
  <2>3. Admitted' = Admitted
    BY <2>1, <2>2 DEF Admitted
  <2> QED
    BY <1>1, <2>3 DEF Unseen
<1>3. CASE JWTAuth(q)
  <2>1. request[q] = "auth" /\ bearer' = bearer
    BY <1>3 DEF JWTAuth, At
  <2>2. Admitted[q] = NoToken /\ ~Inside(q)
    BY <2>1 DEF Admitted, Inside
  <2>3. bearer[q] # NoToken /\ bearer[q] \in given /\ bearer[q] \in Token
    BY <1>0, <2>1 DEF TypeOK, BearerInv
  <2>4. CASE Active(bearer[q].client) /\ At(q, "auth", AfterAuth(q))
    <3>1. AfterAuth(q) \in {"permission", "handle", "answer"}
      BY DEF AfterAuth
    <3>2. Admitted' = [Admitted EXCEPT ![q] = bearer[q]]
      BY <1>0, <2>1, <2>4, <3>1, OneMoves DEF At
    <3>3. bearer[q].client \in Allowed
      BY <2>3, <2>4 DEF Allowed, Token
    <3>4. Access!Admit(q)
      BY <1>1, <2>2, <2>3, <3>2, <3>3 DEF Access!Admit
    <3> QED
      BY <3>4 DEF Access!ANext
  <2>5. CASE At(q, "auth", "refused")
    <3>1. Admitted' = [Admitted EXCEPT ![q] = NoToken]
      BY <1>0, <2>1, <2>5, OneEnds DEF At
    <3> QED
      BY <1>1, <3>1, OneLeaves
  <2> QED
    BY <1>3, <2>4, <2>5 DEF JWTAuth
<1>4. CASE RequirePermission(q)
  <2>1. /\ request[q] = "permission" /\ bearer' = bearer
        /\ \/ request' = [request EXCEPT ![q] = "handle"]
           \/ request' = [request EXCEPT ![q] = "refused"]
    BY <1>4 DEF RequirePermission, At
  <2>2. Admitted[q] = bearer[q] /\ Admitted = [Admitted EXCEPT ![q] = bearer[q]]
    BY <2>1 DEF Admitted, Inside
  <2>3. CASE request' = [request EXCEPT ![q] = "handle"]
    <3>1. Admitted' = [Admitted EXCEPT ![q] = bearer[q]]
      BY <1>0, <2>1, <2>3, OneMoves
    <3> QED
      BY <1>1, <2>2, <3>1 DEF Unseen
  <2>4. CASE request' = [request EXCEPT ![q] = "refused"]
    <3>1. Admitted' = [Admitted EXCEPT ![q] = NoToken]
      BY <1>0, <2>1, <2>4, OneEnds
    <3> QED
      BY <1>1, <3>1, OneLeaves
  <2> QED
    BY <2>1, <2>3, <2>4
<1>5. CASE ServeMail(q)
  <2>1. bearer' = bearer /\ request' = [request EXCEPT ![q] = "done"]
    BY <1>5 DEF ServeMail, At
  <2>2. Admitted' = [Admitted EXCEPT ![q] = NoToken]
    BY <1>0, <2>1, OneEnds
  <2> QED
    BY <1>1, <2>2, OneLeaves
<1> QED
  BY <1>2, <1>3, <1>4, <1>5

\* A handler of the admin routes: in, and an administrator's.
LEMMA InTheHandler ==
  ASSUME TypeOK, AuthorityInv, NEW q \in Requests, Inside(q),
         request[q] \in {"handle", "answer"},
         request[q] = "handle" => operation[q] # "mail"
  PROVE  Access!Administers(q)
<1>1. bearer[q].admin /\ bearer[q] # NoToken
  BY DEF AuthorityInv, TypeOK
<1>2. Admitted[q] = bearer[q]
  BY DEF Admitted
<1> QED
  BY <1>1, <1>2 DEF Access!Administers

LEMMA RefineCreateToken ==
  ASSUME Inv, AuthorityInv, NEW q \in Requests, CreateToken(q)
  PROVE  Access!ANext
<1>0. TypeOK
  BY DEF Inv
<1>1. PICK c \in Clients, admin \in BOOLEAN :
         \/ /\ ~Exists(c)
            /\ At(q, "handle", "answer")
            /\ rows' = [rows EXCEPT ![c] = [token  |-> Sign(c, admin),
                                            active |-> TRUE]]
         \/ /\ At(q, "handle", "refused")
            /\ UNCHANGED rows
  BY DEF CreateToken
<1>2. bearer' = bearer /\ given' = given /\ operation[q] = "createToken"
  BY DEF CreateToken
<1>3. Inside(q) /\ request[q] = "handle"
  BY <1>1 DEF At, Inside
<1>4. CASE At(q, "handle", "refused") /\ UNCHANGED rows
  <2>1. Admitted' = [Admitted EXCEPT ![q] = NoToken]
    BY <1>0, <1>2, <1>4, OneEnds DEF At
  <2> QED
    BY <1>2, <1>4, <2>1, RowsStay, OneLeaves
<1>5. CASE /\ ~Exists(c)
           /\ At(q, "handle", "answer")
           /\ rows' = [rows EXCEPT ![c] = [token  |-> Sign(c, admin),
                                           active |-> TRUE]]
  <2>1. c \in ClientIds \ (Enrolled \cup {Admin})
    BY <1>5, TokenAssumption DEF ClientIds, Enrolled
  <2>2. Sign(c, admin) \in Token
    BY <1>0, <2>1, SignType
  <2>3. /\ Enrolled' = Enrolled \cup {c}
        /\ Allowed' = Allowed \cup {c}
    BY <1>0, <1>5, <2>1, <2>2, RowOfOne
  <2>4. Admitted' = [Admitted EXCEPT ![q] = bearer[q]]
    BY <1>0, <1>2, <1>5, OneMoves DEF At
  <2>5. Admitted' = Admitted
    BY <1>3, <2>4 DEF Admitted
  <2>6. Access!Administers(q)
    BY <1>0, <1>2, <1>3, InTheHandler
  <2>7. Access!Enrol(q)
    BY <1>2, <2>1, <2>3, <2>5, <2>6 DEF Access!Enrol
  <2> QED
    BY <2>7 DEF Access!ANext
<1> QED
  BY <1>1, <1>4, <1>5

\* The table knows the token that is answered as the client's only one, so
\* that nobody was shown another.
LEMMA RefineAnswerToken ==
  ASSUME Inv, AuthorityInv, NEW q \in Requests, AnswerToken(q)
  PROVE  Access!ANext
<1>0. TypeOK /\ PendingInv /\ GivenTokensAreStored
  BY DEF Inv
<1>1. /\ request[q] = "answer"
      /\ request' = [request EXCEPT ![q] = "done"]
      /\ given' = given \cup {made[q]}
      /\ UNCHANGED <<rows, bearer>>
  BY DEF AnswerToken, At
<1>2. /\ made[q].client \in Clients
      /\ Exists(made[q].client)
      /\ rows[made[q].client].token = made[q]
  BY <1>0, <1>1 DEF TypeOK, PendingInv
<1>3. made[q].client \in Enrolled \ {Admin}
  BY <1>2, TokenAssumption DEF Enrolled, ClientIds
<1>4. \A s \in given : s.client = made[q].client => s = made[q]
  BY <1>0, <1>2, <1>3 DEF GivenTokensAreStored
<1>5. Admitted' = [Admitted EXCEPT ![q] = NoToken]
  BY <1>0, <1>1, OneEnds
<1>6. Access!Administers(q)
  BY <1>0, <1>1, InTheHandler DEF Inside
<1>7. Access!Show(q)
  BY <1>1, <1>3, <1>4, <1>5, <1>6, RowsStay DEF Access!Show
<1> QED
  BY <1>7 DEF Access!ANext

LEMMA RefineRevokeToken ==
  ASSUME Inv, AuthorityInv, NEW q \in Requests, RevokeToken(q)
  PROVE  Access!ANext
<1>0. TypeOK
  BY DEF Inv
<1>1. PICK c \in ClientIds :
         \/ /\ Exists(c)
            /\ At(q, "handle", "done")
            /\ rows' = [rows EXCEPT ![c].active = FALSE]
         \/ /\ At(q, "handle", "refused")
            /\ UNCHANGED rows
  BY DEF RevokeToken
<1>2. bearer' = bearer /\ given' = given /\ operation[q] = "revokeToken"
  BY DEF RevokeToken
<1>3. Inside(q) /\ request[q] = "handle"
  BY <1>1 DEF At, Inside
<1>4. Admitted' = [Admitted EXCEPT ![q] = NoToken]
  BY <1>0, <1>1, <1>2, OneEnds DEF At
<1>5. CASE UNCHANGED rows
  BY <1>2, <1>4, <1>5, RowsStay, OneLeaves
<1>6. CASE Exists(c) /\ rows' = [rows EXCEPT ![c].active = FALSE]
  <2>1. rows[c] \in Row
    BY <1>0, <1>6 DEF TypeOK, Exists
  <2>2. rows'[c] = [rows[c] EXCEPT !.active = FALSE]
    BY <1>0, <1>6 DEF TypeOK
  <2>3. rows'[c] # NoRow /\ ~rows'[c].active
    BY <2>1, <2>2, TokenAssumption DEF Row
  <2>4. \A d \in ClientIds : d # c => rows'[d] = rows[d]
    BY <1>0, <1>6 DEF TypeOK
  <2>5. Enrolled' = Enrolled /\ Allowed' = Allowed \ {c} /\ c \in Enrolled
    BY <1>6, <2>3, <2>4 DEF Enrolled, Allowed, Active, Exists
  <2>6. Access!Administers(q)
    BY <1>0, <1>2, <1>3, InTheHandler
  <2>7. Access!Revoke(q)
    BY <1>2, <1>4, <2>5, <2>6 DEF Access!Revoke
  <2> QED
    BY <2>7 DEF Access!ANext
<1> QED
  BY <1>1, <1>5, <1>6

LEMMA RefineStep ==
  Inv /\ AuthorityInv /\ [Next]_vars => [Access!ANext]_(Access!aVars)
<1> SUFFICES ASSUME Inv, AuthorityInv, [Next]_vars
             PROVE  Access!ANext \/ Unseen
  BY DEF Access!aVars, Unseen
<1>1. CASE Next
  <2>1. TypeOK
    BY DEF Inv
  <2> QED
    BY <1>1, <2>1, RefineStart, RefineCrash, RefineArrival, RefineCreateToken,
       RefineAnswerToken, RefineRevokeToken DEF Next, Serve
<1>2. CASE UNCHANGED vars
  BY <1>2 DEF vars, requestVars, Unseen, Enrolled, Allowed, Admitted, Exists,
     Active, Inside
<1> QED
  BY <1>1, <1>2

\* The servers implement ClientAccess: in every behaviour, with any starts,
\* crashes and failing calls, who may come in is changed only by requests that
\* came in as an administrator and by starts, for the admin; and who comes in
\* does so with a token that was shown and a client that is allowed.
THEOREM AccessIsGoverned == Spec => AccessSpec
BY RefineInit, RefineStep, InvHolds, AuthorityHolds, PTL
   DEF Spec, AccessSpec, Access!ASpec
=============================================================================
