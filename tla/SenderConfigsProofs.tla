------------------------ MODULE SenderConfigsProofs -------------------------
(* Theorems about SenderConfigs, for every set of configurations, senders, *)
(* concurrent updates and mails.                                           *)
EXTENDS SenderConfigs, TLAPS

\* An id that a row, an update or a mail knows was minted: Create never uses it
\* again.
MintInv ==
    /\ \A c \in Configs : Exists(c) => c \in minted
    /\ \A u \in Updates : update[u] = "save" =>
           target[u] \in minted /\ snapshot[u] \in Row
    /\ \A m \in Mails : chosen[m] # NoConfig => chosen[m] \in minted

\* All who know an id agree on its sender: the row, the snapshots of updates in
\* progress (which may bring the row back) and the mails that looked it up.
SenderInv ==
    /\ \A u \in Updates : update[u] = "save" /\ Exists(target[u]) =>
           snapshot[u].sender = rows[target[u]].sender
    /\ \A u, v \in Updates :
           update[u] = "save" /\ update[v] = "save" /\ target[u] = target[v] =>
               snapshot[u].sender = snapshot[v].sender
    /\ \A u \in Updates, m \in Mails :
           update[u] = "save" /\ chosen[m] = target[u] =>
               snapshot[u].sender = sender[m]
    /\ \A m \in Mails : chosen[m] # NoConfig /\ Exists(chosen[m]) =>
           rows[chosen[m]].sender = sender[m]

\* Once it has a row, a mail keeps its configuration from being deleted.
LinkInv ==
    \A m \in Mails :
        /\ pc[m] = "new" => chosen[m] = NoConfig
        /\ pc[m] \in {"publish", "queued"} => refs[m] = chosen[m]
        /\ refs[m] # NoConfig => Exists(refs[m])

\* What an update holds is its request applied to the row as it is, unless
\* somebody has written the row since.
SnapshotInv ==
    \A u \in Updates \ overtaken : update[u] = "save" =>
        /\ Exists(target[u])
        /\ snapshot[u] = Applied(rows[target[u]], asked[u])

Inv == TypeOK /\ MintInv /\ SenderInv /\ LinkInv /\ OneConfigPerSender

USE DEF configVars, updateVars, mailVars

\* What an update keeps: the row stays a row, of the same sender.
LEMMA AppliedRow ==
  ASSUME NEW row \in Row, NEW req \in Request
  PROVE  Applied(row, req) \in Row /\ Applied(row, req).sender = row.sender
  BY DEF Applied, Row, Request

LEMMA InvInit == Init => Inv
  BY ConfigAssumption DEF Init, Inv, TypeOK, MintInv, SenderInv, LinkInv,
     OneConfigPerSender, Exists, MailPc, UpdatePc, NothingAsked, Request

\* Every action keeps what the mails and the updates in progress know of a row.
LEMMA InvStep == Inv /\ [Next]_vars => Inv'
<1> SUFFICES ASSUME Inv, [Next]_vars PROVE Inv'
  OBVIOUS
<1> USE ConfigAssumption
<1>0. TypeOK /\ MintInv /\ SenderInv /\ LinkInv /\ OneConfigPerSender
  BY DEF Inv
<1>1. ASSUME NEW c \in Configs, Create(c) PROVE Inv'
  <2>1. PICK s \in Senders, t \in Values, k \in Values :
           /\ SenderFree(s)
           /\ rows' = [rows EXCEPT ![c] = [sender |-> s, tenant |-> t,
                                           secret |-> k, active |-> TRUE]]
    BY <1>1 DEF Create
  <2> DEFINE r == [sender |-> s, tenant |-> t, secret |-> k, active |-> TRUE]
  <2>12. r \in Row /\ r.sender = s
    BY DEF Row
  <2>2. r \in Row /\ r.sender = s /\ r # NoRow
    BY <2>12
  <2>3. /\ c \notin minted /\ minted' = minted \cup {c}
        /\ UNCHANGED <<deleted, updateVars, mailVars>>
    BY <1>1 DEF Create
  <2>4. \A d \in Configs : rows'[d] = IF d = c THEN r ELSE rows[d]
    BY <1>0, <2>1 DEF TypeOK
  <2> HIDE DEF r
  <2>5. ~Exists(c)
    BY <1>0, <2>3 DEF MintInv
  <2>6. rows' \in [Configs -> Row \cup {NoRow}]
    BY <1>0, <2>1, <2>2 DEF TypeOK, r
  <2>7. TypeOK'
    BY <1>0, <2>3, <2>6 DEF TypeOK
  <2>8. MintInv'
    BY <1>0, <2>3, <2>4 DEF TypeOK, MintInv, Exists
  <2>9. SenderInv'
    BY <1>0, <2>3, <2>4 DEF TypeOK, MintInv, SenderInv, Exists
  <2>10. LinkInv'
    BY <1>0, <2>2, <2>3, <2>4 DEF TypeOK, LinkInv, Exists
  <2>11. OneConfigPerSender'
    BY <1>0, <2>1, <2>2, <2>4, <2>5 DEF OneConfigPerSender, SenderFree, Exists
  <2> QED
    BY <2>7, <2>8, <2>9, <2>10, <2>11 DEF Inv
<1>2. ASSUME NEW c \in Configs, Delete(c) PROVE Inv'
  <2>1. TypeOK'
    BY <1>0, <1>2 DEF Delete, TypeOK, MintInv, Exists, Reading
  <2>2. MintInv'
    BY <1>0, <1>2 DEF Delete, MintInv, TypeOK, Exists, Referenced
  <2>3. SenderInv'
    BY <1>0, <1>2 DEF Delete, SenderInv, TypeOK, Exists, Referenced
  <2>4. LinkInv'
    BY <1>0, <1>2 DEF Delete, LinkInv, TypeOK, Exists, Referenced
  <2>5. OneConfigPerSender'
    BY <1>0, <1>2 DEF Delete, OneConfigPerSender, TypeOK, Exists, Referenced
  <2> QED
    BY <2>1, <2>2, <2>3, <2>4, <2>5 DEF Inv
<1>3. ASSUME NEW u \in Updates, UpdateRead(u) PROVE Inv'
  <2>1. PICK c \in Configs, req \in Request :
           /\ Exists(c)
           /\ target' = [target EXCEPT ![u] = c]
           /\ asked' = [asked EXCEPT ![u] = req]
           /\ snapshot' = [snapshot EXCEPT ![u] = Applied(rows[c], req)]
    BY <1>3 DEF UpdateRead
  <2> DEFINE r == Applied(rows[c], req)
  <2>2. rows[c] \in Row
    BY <1>0, <2>1 DEF TypeOK, Exists
  <2>3. r \in Row /\ r.sender = rows[c].sender
    BY <2>2, AppliedRow
  <2>4. /\ update' = [update EXCEPT ![u] = "save"]
        /\ UNCHANGED <<configVars, overtaken, mailVars>>
    BY <1>3 DEF UpdateRead
  <2> HIDE DEF r
  <2>5. /\ \A v \in Updates : update'[v] = IF v = u THEN "save" ELSE update[v]
        /\ \A v \in Updates : target'[v] = IF v = u THEN c ELSE target[v]
        /\ \A v \in Updates : snapshot'[v] = IF v = u THEN r ELSE snapshot[v]
    BY <1>0, <2>1, <2>4 DEF TypeOK, r
  <2>6. snapshot' \in [Updates -> Row \cup {NoRow}]
    BY <1>0, <2>1, <2>3 DEF TypeOK, r
  <2>7. TypeOK'
    BY <1>0, <2>1, <2>4, <2>6 DEF TypeOK, UpdatePc
  <2>8. MintInv'
    BY <1>0, <2>1, <2>3, <2>4, <2>5 DEF MintInv, Exists
  <2>9. SenderInv'
    BY <1>0, <2>1, <2>3, <2>4, <2>5 DEF TypeOK, SenderInv, Exists
  <2>10. LinkInv'
    BY <1>0, <2>4 DEF LinkInv, Exists
  <2>11. OneConfigPerSender'
    BY <1>0, <2>4 DEF OneConfigPerSender, Exists
  <2> QED
    BY <2>7, <2>8, <2>9, <2>10, <2>11 DEF Inv
<1>4. ASSUME NEW u \in Updates, UpdateSave(u) PROVE Inv'
  <2> DEFINE c == target[u]
  <2>1. update[u] = "save" /\ c \in Configs /\ c \in minted
    BY <1>0, <1>4 DEF UpdateSave, TypeOK, MintInv
  <2>2. snapshot[u] \in Row
    BY <1>0, <2>1 DEF MintInv
  <2>3. /\ [snapshot[u] EXCEPT !.active = TRUE] \in Row
        /\ [snapshot[u] EXCEPT !.active = TRUE].sender = snapshot[u].sender
    BY <2>2 DEF Row
  <2>4. /\ update'[u] # "save"
        /\ \A v \in Updates : v # u =>
              /\ update'[v] = update[v] /\ target'[v] = target[v]
              /\ snapshot'[v] = snapshot[v]
        /\ UNCHANGED <<minted, deleted, mailVars>>
    BY <1>0, <1>4 DEF UpdateSave, Answer, TypeOK
  <2>5. /\ update' \in [Updates -> UpdatePc]
        /\ target' \in [Updates -> Configs \cup {NoConfig}]
        /\ snapshot' \in [Updates -> Row \cup {NoRow}]
        /\ overtaken' \subseteq Updates
    BY <1>0, <1>4 DEF UpdateSave, Answer, TypeOK, UpdatePc, Reading
  <2>6. asked' \in [Updates -> Request]
    BY <1>0, <1>4 DEF UpdateSave, Answer, TypeOK, NothingAsked, Request
  <2> HIDE DEF c
  <2>7. CASE UNCHANGED rows
    <3>1. TypeOK'
      BY <1>0, <2>4, <2>5, <2>6, <2>7 DEF TypeOK
    <3>2. MintInv'
      BY <1>0, <2>4, <2>7 DEF MintInv, Exists
    <3>3. SenderInv'
      BY <1>0, <2>4, <2>7 DEF SenderInv, Exists
    <3>4. LinkInv' /\ OneConfigPerSender'
      BY <1>0, <2>4, <2>7 DEF LinkInv, OneConfigPerSender, Exists
    <3> QED
      BY <3>1, <3>2, <3>3, <3>4 DEF Inv
  <2>8. ASSUME NEW r \in Row, r.sender = snapshot[u].sender,
               rows' = [rows EXCEPT ![c] = r],
               Exists(c) \/ SenderFree(snapshot[u].sender)
        PROVE  Inv'
    <3>1. \A d \in Configs : rows'[d] = IF d = c THEN r ELSE rows[d]
      BY <1>0, <2>8 DEF TypeOK
    <3>2. r # NoRow /\ (Exists(c) => rows[c].sender = r.sender)
      BY <1>0, <2>1, <2>8 DEF SenderInv, c
    <3>3. rows' \in [Configs -> Row \cup {NoRow}]
      BY <1>0, <2>8 DEF TypeOK
    <3>4. TypeOK'
      BY <1>0, <2>4, <2>5, <2>6, <3>3 DEF TypeOK
    <3>5. MintInv'
      BY <1>0, <2>1, <2>4, <3>1 DEF MintInv, Exists
    <3>6. SenderInv'
      BY <1>0, <2>1, <2>4, <2>8, <3>1 DEF TypeOK, MintInv, SenderInv, Exists, c
    <3>7. LinkInv'
      BY <1>0, <2>4, <3>1, <3>2 DEF LinkInv, TypeOK, Exists
    <3>8. OneConfigPerSender'
      BY <1>0, <2>1, <2>8, <3>1, <3>2 DEF OneConfigPerSender, SenderFree, Exists
    <3> QED
      BY <3>4, <3>5, <3>6, <3>7, <3>8 DEF Inv
  <2>9. CASE Exists(c) /\ rows' = [rows EXCEPT ![c] = snapshot[u]]
    BY <2>2, <2>8, <2>9
  <2>10. CASE /\ SenderFree(snapshot[u].sender)
              /\ rows' = [rows EXCEPT
                             ![c] = [snapshot[u] EXCEPT !.active = TRUE]]
    BY <2>3, <2>8, <2>10
  <2> QED
    BY <1>4, <2>7, <2>9, <2>10 DEF UpdateSave, c
<1>5. ASSUME NEW m \in Mails, LookUp(m) PROVE Inv'
  <2>1. TypeOK'
    BY <1>0, <1>5 DEF LookUp, TypeOK, Exists, MailAt, MailPc
  <2>2. MintInv'
    BY <1>0, <1>5 DEF LookUp, MintInv, TypeOK, Exists, MailAt, MailPc
  <2>3. SenderInv'
    BY <1>0, <1>5 DEF LookUp, SenderInv, TypeOK, Exists, MailAt, MailPc
  <2>4. LinkInv'
    BY <1>0, <1>5 DEF LookUp, LinkInv, TypeOK, Exists, MailAt, MailPc
  <2>5. OneConfigPerSender'
    BY <1>0, <1>5 DEF LookUp, OneConfigPerSender, TypeOK, Exists, MailAt, MailPc
  <2> QED
    BY <2>1, <2>2, <2>3, <2>4, <2>5 DEF Inv
<1>6. ASSUME NEW m \in Mails, StartBatch(m) PROVE Inv'
  <2>1. TypeOK'
    BY <1>0, <1>6 DEF StartBatch, TypeOK, Exists, MailAt, MailPc
  <2>2. MintInv'
    BY <1>0, <1>6 DEF StartBatch, MintInv, TypeOK, Exists, MailAt, MailPc
  <2>3. SenderInv'
    BY <1>0, <1>6 DEF StartBatch, SenderInv, TypeOK, Exists, MailAt, MailPc
  <2>4. LinkInv'
    BY <1>0, <1>6 DEF StartBatch, LinkInv, TypeOK, Exists, MailAt, MailPc
  <2>5. OneConfigPerSender'
    BY <1>0, <1>6
       DEF StartBatch, OneConfigPerSender, TypeOK, Exists, MailAt, MailPc
  <2> QED
    BY <2>1, <2>2, <2>3, <2>4, <2>5 DEF Inv
<1>7. ASSUME NEW m \in Mails, CreateMail(m) PROVE Inv'
  <2>1. TypeOK'
    BY <1>0, <1>7 DEF CreateMail, TypeOK, Exists, MailAt, MailPc
  <2>2. MintInv'
    BY <1>0, <1>7 DEF CreateMail, MintInv, TypeOK, Exists, MailAt, MailPc
  <2>3. SenderInv'
    BY <1>0, <1>7 DEF CreateMail, SenderInv, TypeOK, Exists, MailAt, MailPc
  <2>4. LinkInv'
    BY <1>0, <1>7 DEF CreateMail, LinkInv, TypeOK, Exists, MailAt, MailPc
  <2>5. OneConfigPerSender'
    BY <1>0, <1>7
       DEF CreateMail, OneConfigPerSender, TypeOK, Exists, MailAt, MailPc
  <2> QED
    BY <2>1, <2>2, <2>3, <2>4, <2>5 DEF Inv
<1>8. ASSUME NEW m \in Mails, PublishMail(m) PROVE Inv'
  <2>1. TypeOK'
    BY <1>0, <1>8 DEF PublishMail, TypeOK, Exists, MailAt, MailPc
  <2>2. MintInv'
    BY <1>0, <1>8 DEF PublishMail, MintInv, TypeOK, Exists, MailAt, MailPc
  <2>3. SenderInv'
    BY <1>0, <1>8 DEF PublishMail, SenderInv, TypeOK, Exists, MailAt, MailPc
  <2>4. LinkInv'
    BY <1>0, <1>8 DEF PublishMail, LinkInv, TypeOK, Exists, MailAt, MailPc
  <2>5. OneConfigPerSender'
    BY <1>0, <1>8
       DEF PublishMail, OneConfigPerSender, TypeOK, Exists, MailAt, MailPc
  <2> QED
    BY <2>1, <2>2, <2>3, <2>4, <2>5 DEF Inv
<1>9. ASSUME NEW m \in Mails, SendWithConfig(m) PROVE Inv'
  <2>1. TypeOK'
    BY <1>0, <1>9 DEF SendWithConfig, TypeOK, MailAt, MailPc
  <2>2. MintInv'
    BY <1>0, <1>9 DEF SendWithConfig, MintInv, TypeOK, Exists, MailAt, MailPc
  <2>3. SenderInv'
    BY <1>0, <1>9 DEF SendWithConfig, SenderInv, TypeOK, Exists, MailAt, MailPc
  <2>4. LinkInv'
    BY <1>0, <1>9 DEF SendWithConfig, LinkInv, TypeOK, Exists, MailAt, MailPc
  <2>5. OneConfigPerSender'
    BY <1>0, <1>9
       DEF SendWithConfig, OneConfigPerSender, TypeOK, Exists, MailAt, MailPc
  <2> QED
    BY <2>1, <2>2, <2>3, <2>4, <2>5 DEF Inv
<1>10. ASSUME NEW m \in Mails, SendWithEnvironment(m) PROVE Inv'
  <2>1. TypeOK'
    BY <1>0, <1>10 DEF SendWithEnvironment, TypeOK, Exists, MailAt, MailPc
  <2>2. MintInv'
    BY <1>0, <1>10
       DEF SendWithEnvironment, MintInv, TypeOK, Exists, MailAt, MailPc
  <2>3. SenderInv'
    BY <1>0, <1>10
       DEF SendWithEnvironment, SenderInv, TypeOK, Exists, MailAt, MailPc
  <2>4. LinkInv'
    BY <1>0, <1>10
       DEF SendWithEnvironment, LinkInv, TypeOK, Exists, MailAt, MailPc
  <2>5. OneConfigPerSender'
    BY <1>0, <1>10
       DEF SendWithEnvironment, OneConfigPerSender, TypeOK, Exists, MailAt,
           MailPc
  <2> QED
    BY <2>1, <2>2, <2>3, <2>4, <2>5 DEF Inv
<1>11. CASE UNCHANGED vars
  BY <1>0, <1>11 DEF vars, Inv, TypeOK, MintInv, SenderInv, LinkInv,
     OneConfigPerSender, Exists
<1> QED
  BY <1>1, <1>2, <1>3, <1>4, <1>5, <1>6, <1>7, <1>8, <1>9, <1>10, <1>11 DEF Next

LEMMA InvAlways == Spec => []Inv
  BY InvInit, InvStep, PTL DEF Spec

\* The type invariant.
THEOREM TypeCorrect == Spec => []TypeOK
  BY InvAlways, PTL DEF Inv

\* The foreign key of the mail's own row keeps the configuration that its job
\* names, until the worker has used it.
THEOREM QueuedJobsFindConfig == Spec => []JobsFindConfig
<1>1. Inv => JobsFindConfig
  BY ConfigAssumption DEF Inv, TypeOK, LinkInv, SenderInv, JobsFindConfig
<1> QED
  BY <1>1, InvAlways, PTL

\* However creates, deletes and updates interleave, a sender has at most one
\* configuration.
THEOREM SendersAreUnique == Spec => []OneConfigPerSender
  BY InvAlways, PTL DEF Inv

\* No action but UpdateRead makes a snapshot, and every write of a row overtakes
\* the updates that hold one of it.
LEMMA SnapshotStep == Inv /\ SnapshotInv /\ [Next]_vars => SnapshotInv'
<1> SUFFICES ASSUME Inv, SnapshotInv, [Next]_vars,
                    NEW v \in Updates, v \notin overtaken', update'[v] = "save"
             PROVE  /\ Exists(target[v])'
                    /\ snapshot'[v] = Applied(rows'[target'[v]], asked'[v])
  BY DEF SnapshotInv, Applied
<1> USE ConfigAssumption
<1>0. TypeOK /\ MintInv
  BY DEF Inv
<1>1. ASSUME UNCHANGED updateVars,
             \A c \in Configs : Exists(c) => rows'[c] = rows[c]
      PROVE  /\ Exists(target[v])'
             /\ snapshot'[v] = Applied(rows'[target'[v]], asked'[v])
  <2>1. target[v] \in Configs
    BY <1>0, <1>1 DEF TypeOK, SnapshotInv, Exists, MintInv
  <2>2. QED
    BY <1>1, <2>1 DEF SnapshotInv, Exists
<1>2. ASSUME NEW c \in Configs, Create(c)
      PROVE  UNCHANGED updateVars
             /\ \A d \in Configs : Exists(d) => rows'[d] = rows[d]
  BY <1>0, <1>2 DEF Create, MintInv, TypeOK
<1>3. ASSUME NEW c \in Configs, Delete(c)
      PROVE  /\ Exists(target[v])'
             /\ snapshot'[v] = Applied(rows'[target'[v]], asked'[v])
  <2>1. v \notin overtaken /\ update[v] = "save" /\ target[v] # c
    BY <1>3 DEF Delete, Reading
  <2>2. /\ rows'[target[v]] = rows[target[v]]
        /\ UNCHANGED <<target, asked, snapshot>>
    BY <1>0, <1>3, <2>1 DEF Delete, TypeOK, MintInv
  <2>3. QED
    BY <2>1, <2>2 DEF SnapshotInv, Exists
<1>4. ASSUME NEW u \in Updates, UpdateRead(u)
      PROVE  /\ Exists(target[v])'
             /\ snapshot'[v] = Applied(rows'[target'[v]], asked'[v])
  <2>1. PICK c \in Configs, req \in Request :
           /\ Exists(c)
           /\ target' = [target EXCEPT ![u] = c]
           /\ asked' = [asked EXCEPT ![u] = req]
           /\ snapshot' = [snapshot EXCEPT ![u] = Applied(rows[c], req)]
    BY <1>4 DEF UpdateRead
  <2>2. UNCHANGED <<rows, overtaken>> /\ update' = [update EXCEPT ![u] = "save"]
    BY <1>4 DEF UpdateRead
  <2>3. CASE v = u
    <3>1. target'[v] = c /\ asked'[v] = req
          /\ snapshot'[v] = Applied(rows[c], req)
      BY <1>0, <2>1, <2>3 DEF TypeOK
    <3>2. QED
      BY <2>1, <2>2, <3>1 DEF Exists
  <2>4. CASE v # u
    <3>1. /\ target'[v] = target[v] /\ asked'[v] = asked[v]
          /\ snapshot'[v] = snapshot[v] /\ update[v] = "save"
      BY <1>0, <2>1, <2>2, <2>4 DEF TypeOK
    <3>2. QED
      BY <2>2, <3>1 DEF SnapshotInv, Exists
  <2>5. QED
    BY <2>3, <2>4
<1>5. ASSUME NEW u \in Updates, UpdateSave(u)
      PROVE  /\ Exists(target[v])'
             /\ snapshot'[v] = Applied(rows'[target'[v]], asked'[v])
  <2>1. v # u
    BY <1>0, <1>5 DEF UpdateSave, Answer, TypeOK
  <2>2. /\ target'[v] = target[v] /\ asked'[v] = asked[v]
        /\ snapshot'[v] = snapshot[v] /\ update[v] = "save"
    BY <1>0, <1>5, <2>1 DEF UpdateSave, Answer, TypeOK
  <2>3. v \notin overtaken
    BY <1>5, <2>1 DEF UpdateSave
  <2>4. rows'[target[v]] = rows[target[v]]
    BY <1>0, <1>5, <2>1, <2>2, <2>3 DEF UpdateSave, Reading, TypeOK, MintInv
  <2>5. QED
    BY <2>2, <2>3, <2>4 DEF SnapshotInv, Exists
<1>6. ASSUME NEW m \in Mails,
             \/ LookUp(m) \/ StartBatch(m) \/ CreateMail(m) \/ PublishMail(m)
             \/ SendWithConfig(m) \/ SendWithEnvironment(m)
      PROVE  UNCHANGED <<rows, updateVars>>
  BY <1>6 DEF LookUp, StartBatch, CreateMail, PublishMail, SendWithConfig,
              SendWithEnvironment
<1>7. CASE UNCHANGED vars
  BY <1>1, <1>7 DEF vars
<1> QED
  BY <1>1, <1>2, <1>3, <1>4, <1>5, <1>6, <1>7 DEF Next

\* An update whose row is as it read it writes what its request says.
LEMMA AtomicStep ==
  Inv /\ SnapshotInv /\ [Next]_vars =>
    [\A u \in Updates \ overtaken : LET c == target[u] IN
       update[u] = "save" /\ update'[u] # "save" =>
           /\ update'[u] = "done" /\ Exists(c) /\ rows'[c] # NoRow
           /\ rows'[c].sender = rows[c].sender
           /\ AsAsked(rows'[c].tenant, rows[c].tenant, asked[u].tenant)
           /\ AsAsked(rows'[c].secret, rows[c].secret, asked[u].secret)
           /\ AsAsked(rows'[c].active, rows[c].active, asked[u].active)
           /\ \A d \in Configs \ {c} : rows'[d] = rows[d]]_vars
<1> SUFFICES ASSUME Inv, SnapshotInv, Next, NEW u \in Updates,
                    u \notin overtaken, update[u] = "save", update'[u] # "save"
             PROVE
    /\ update'[u] = "done" /\ Exists(target[u]) /\ rows'[target[u]] # NoRow
    /\ rows'[target[u]].sender = rows[target[u]].sender
    /\ AsAsked(rows'[target[u]].tenant, rows[target[u]].tenant, asked[u].tenant)
    /\ AsAsked(rows'[target[u]].secret, rows[target[u]].secret, asked[u].secret)
    /\ AsAsked(rows'[target[u]].active, rows[target[u]].active, asked[u].active)
    /\ \A d \in Configs \ {target[u]} : rows'[d] = rows[d]
  OBVIOUS
<1> USE ConfigAssumption
<1> DEFINE c == target[u]
<1>0. TypeOK /\ MintInv
  BY DEF Inv
<1>1. UpdateSave(u)
  <2>1. ASSUME NEW v \in Updates, v # u, UpdateRead(v) \/ UpdateSave(v)
        PROVE  FALSE
    BY <1>0, <2>1 DEF UpdateRead, UpdateSave, Answer, TypeOK
  <2>2. ~UpdateRead(u)
    BY DEF UpdateRead
  <2>3. ~\E d \in Configs : Create(d) \/ Delete(d)
    BY DEF Create, Delete
  <2>4. ASSUME NEW m \in Mails,
               \/ LookUp(m) \/ StartBatch(m) \/ CreateMail(m) \/ PublishMail(m)
               \/ SendWithConfig(m) \/ SendWithEnvironment(m)
        PROVE  FALSE
    BY <2>4 DEF LookUp, StartBatch, CreateMail, PublishMail, SendWithConfig,
                SendWithEnvironment
  <2>5. QED
    BY <2>1, <2>2, <2>3, <2>4 DEF Next
<1>2. /\ Exists(c) /\ c \in Configs /\ snapshot[u] \in Row
      /\ snapshot[u] = Applied(rows[c], asked[u])
  BY <1>0 DEF SnapshotInv, MintInv, TypeOK
<1>3. update'[u] = "done" /\ rows' = [rows EXCEPT ![c] = snapshot[u]]
  BY <1>0, <1>1, <1>2 DEF UpdateSave, Answer, TypeOK
<1>4. rows'[c] = snapshot[u] /\ \A d \in Configs \ {c} : rows'[d] = rows[d]
  BY <1>0, <1>2, <1>3 DEF TypeOK
<1>5. rows'[c] # NoRow
  BY <1>2, <1>4
<1>6. /\ rows'[c].sender = rows[c].sender
      /\ AsAsked(rows'[c].tenant, rows[c].tenant, asked[u].tenant)
      /\ AsAsked(rows'[c].secret, rows[c].secret, asked[u].secret)
      /\ AsAsked(rows'[c].active, rows[c].active, asked[u].active)
  BY <1>2, <1>4 DEF Applied, AsAsked
<1> QED
  BY <1>2, <1>3, <1>4, <1>5, <1>6

\* For any number of concurrent updates and deletes, an update that nobody
\* overtook changes exactly the fields that its request names.
THEOREM UpdatesApply == Spec => UpdatesAreAtomic
<1>1. Init => SnapshotInv
  BY DEF Init, SnapshotInv
<1> QED
  BY <1>1, InvAlways, SnapshotStep, AtomicStep, PTL DEF Spec, UpdatesAreAtomic
=============================================================================
