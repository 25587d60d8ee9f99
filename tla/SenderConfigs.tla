--------------------------- MODULE SenderConfigs ----------------------------
(***************************************************************************)
(* The Microsoft credentials that clients register for their senders, and  *)
(* the mails that are sent with them: the sender-config handlers, the      *)
(* lookup in Send, and the worker's choice of credentials.  The tables     *)
(* email_sender_configs and mails live in PostgreSQL, which enforces the   *)
(* UNIQUE and REFERENCES constraints of the migrations.                    *)
(*                                                                         *)
(* A sender stands for a pair of a client and an address of its in the     *)
(* organisation's domain; mails of other domains go to SendGrid and never  *)
(* meet a configuration.                                                   *)
(***************************************************************************)
EXTENDS Naturals

CONSTANTS
    Configs,   \* ids of configurations (uuid.New() in Create)
    Senders,   \* (client_token_id, sender_email) of organisation senders
    Values,    \* values of a credential field
    Updates,   \* update requests
    Mails,     \* mails sent over REST from organisation senders
    NoConfig,  \* no configuration
    NoRow,     \* the row does not exist
    Keep,      \* a field that an update request leaves out
    KeylessApi,    \* some API server has no valid ENCRYPTION_KEY
    KeylessWorker  \* some worker process has none

\* Tenant and client id always change together here: one field stands for both.
Row == [sender : Senders, tenant : Values, secret : Values, active : BOOLEAN]

Request == [tenant : Values \cup {Keep}, secret : Values \cup {Keep},
            active : BOOLEAN \cup {Keep}]

ASSUME ConfigAssumption ==
    /\ NoConfig \notin Configs
    /\ NoRow \notin Row
    /\ Keep \notin Values \cup BOOLEAN
    /\ KeylessApi \in BOOLEAN /\ KeylessWorker \in BOOLEAN

VARIABLES
    rows,     \* email_sender_configs, by id
    minted,   \* ids that Create has used
    deleted,  \* history: ids of which a Delete was answered with success
    update,   \* next step of each update request
    target,   \* the id it updates
    asked,    \* the fields it asks for
    snapshot, \* the row it read, with its changes applied
    overtaken, \* history: updates in progress whose row has been written since
    pc,       \* next step of each mail
    sender,   \* its from address
    chosen,   \* the configuration its handler looked up
    refs      \* mails.sender_config_id

vars == <<rows, minted, deleted, update, target, asked, snapshot, overtaken,
          pc, sender, chosen, refs>>

configVars == <<rows, minted, deleted>>
updateVars == <<update, target, asked, snapshot, overtaken>>
mailVars   == <<pc, sender, chosen, refs>>

UpdatePc == {"read", "save", "done", "refused"}

NothingAsked == [tenant |-> Keep, secret |-> Keep, active |-> Keep]

MailPc == {"new", "create", "publish", "queued", "sent", "rejected"}

Init ==
    /\ rows = [c \in Configs |-> NoRow]
    /\ minted = {}
    /\ deleted = {}
    /\ update = [u \in Updates |-> "read"]
    /\ target = [u \in Updates |-> NoConfig]
    /\ asked = [u \in Updates |-> NothingAsked]
    /\ snapshot = [u \in Updates |-> NoRow]
    /\ overtaken = {}
    /\ pc = [m \in Mails |-> "new"]
    /\ sender \in [Mails -> Senders]
    /\ chosen = [m \in Mails |-> NoConfig]
    /\ refs = [m \in Mails |-> NoConfig]

-----------------------------------------------------------------------------
(* The table email_sender_configs.                                         *)

Exists(c) == rows[c] # NoRow

\* Mutant: the table has no UNIQUE constraint.
SenderUnchecked(s) == TRUE

\* UNIQUE(client_token_id, sender_email).
SenderFree(s) == \A c \in Configs : Exists(c) => rows[c].sender # s

\* sender_config_id REFERENCES email_sender_configs(id), with no ON DELETE.
Referenced(c) == \E m \in Mails : refs[m] = c

Create(c) ==
    /\ c \notin minted
    /\ minted' = minted \cup {c}
    /\ \E s \in Senders, t, k \in Values :
          /\ SenderFree(s)
          /\ rows' = [rows EXCEPT ![c] = [sender |-> s, tenant |-> t,
                                          secret |-> k, active |-> TRUE]]
    /\ UNCHANGED <<deleted, updateVars, mailVars>>

\* Mutant: fields that the request leaves out are overwritten, too.
AppliedBlindly(row, req) ==
    [sender |-> row.sender, tenant |-> req.tenant, secret |-> req.secret,
     active |-> row.active]

\* Mutant: is_active is no pointer: leaving it out reads as false.
AppliedZeroActive(row, req) ==
    [sender |-> row.sender,
     tenant |-> IF req.tenant = Keep THEN row.tenant ELSE req.tenant,
     secret |-> IF req.secret = Keep THEN row.secret ELSE req.secret,
     active |-> req.active # Keep /\ req.active]

\* The fields that the request names.
Applied(row, req) ==
    [sender |-> row.sender,
     tenant |-> IF req.tenant = Keep THEN row.tenant ELSE req.tenant,
     secret |-> IF req.secret = Keep THEN row.secret ELSE req.secret,
     active |-> IF req.active = Keep THEN row.active ELSE req.active]

\* The row is found by its id alone: whoever sends the request, to whichever
\* client the row belongs.
UpdateRead(u) ==
    /\ update[u] = "read"
    /\ \E c \in Configs, req \in Request :
          /\ Exists(c)
          /\ target' = [target EXCEPT ![u] = c]
          /\ asked' = [asked EXCEPT ![u] = req]
          /\ snapshot' = [snapshot EXCEPT ![u] = Applied(rows[c], req)]
    /\ update' = [update EXCEPT ![u] = "save"]
    /\ UNCHANGED <<configVars, overtaken, mailVars>>

\* The updates that have read the row c and have not saved it.
Reading(c) == {u \in Updates : update[u] = "save" /\ target[u] = c}

\* The request is answered: what it held in memory is gone.
Answer(u, result) ==
    /\ update' = [update EXCEPT ![u] = result]
    /\ target' = [target EXCEPT ![u] = NoConfig]
    /\ asked' = [asked EXCEPT ![u] = NothingAsked]
    /\ snapshot' = [snapshot EXCEPT ![u] = NoRow]

\* Save writes every column. When the row is gone, gorm inserts it again; an
\* insert replaces is_active = false by the default true of the model.
UpdateSave(u) ==
    LET c == target[u] IN
    /\ update[u] = "save"
    /\ \/ /\ \/ /\ Exists(c)
                /\ rows' = [rows EXCEPT ![c] = snapshot[u]]
             \/ /\ ~Exists(c) /\ SenderFree(snapshot[u].sender)
                /\ rows' = [rows EXCEPT
                               ![c] = [snapshot[u] EXCEPT !.active = TRUE]]
          /\ overtaken' = (overtaken \cup Reading(c)) \ {u}
          /\ Answer(u, "done")
       \/ /\ ~Exists(c) /\ ~SenderFree(snapshot[u].sender)
          /\ overtaken' = overtaken \ {u}
          /\ Answer(u, "refused")
          /\ UNCHANGED rows
    /\ UNCHANGED <<minted, deleted, mailVars>>

\* A referenced row cannot be deleted: the answer is "config not found".
Delete(c) ==
    /\ Exists(c)
    /\ ~Referenced(c)
    /\ rows' = [rows EXCEPT ![c] = NoRow]
    /\ deleted' = deleted \cup {c}
    /\ overtaken' = overtaken \cup Reading(c)
    /\ UNCHANGED <<minted, update, target, asked, snapshot, mailVars>>

-----------------------------------------------------------------------------
(* A mail: Send or one mail of SendBatch, and the worker.                  *)

MailAt(m, from, to) ==
    /\ pc[m] = from
    /\ pc' = [pc EXCEPT ![m] = to]

\* Send: an active configuration of the sender is required. A server without
\* the service rejects the mail, too.
LookUp(m) ==
    /\ \/ \E c \in Configs :
             /\ Exists(c) /\ rows[c].sender = sender[m] /\ rows[c].active
             /\ chosen' = [chosen EXCEPT ![m] = c]
             /\ MailAt(m, "new", "create")
       \/ /\ \/ KeylessApi
             \/ \A c \in Configs : Exists(c) =>
                   rows[c].sender # sender[m] \/ ~rows[c].active
          /\ MailAt(m, "new", "rejected")
          /\ UNCHANGED chosen
    /\ UNCHANGED <<configVars, updateVars, sender, refs>>

\* SendBatch does not look for a configuration.
StartBatch(m) ==
    /\ MailAt(m, "new", "create")
    /\ UNCHANGED <<configVars, updateVars, sender, chosen, refs>>

\* Mutant: the row does not record the configuration.
CreateMailUnlinked(m) ==
    /\ MailAt(m, "create", "publish")
    /\ UNCHANGED <<configVars, updateVars, sender, chosen, refs>>

\* The row names the configuration, which must still exist.
CreateMail(m) ==
    /\ \/ /\ chosen[m] # NoConfig => Exists(chosen[m])
          /\ refs' = [refs EXCEPT ![m] = chosen[m]]
          /\ MailAt(m, "create", "publish")
       \/ /\ chosen[m] # NoConfig /\ ~Exists(chosen[m])
          /\ MailAt(m, "create", "rejected")
          /\ UNCHANGED refs
    /\ UNCHANGED <<configVars, updateVars, sender, chosen>>

\* The job carries the same id as the row.
PublishMail(m) ==
    /\ MailAt(m, "publish", "queued") \/ MailAt(m, "publish", "rejected")
    /\ UNCHANGED <<configVars, updateVars, sender, chosen, refs>>

\* GetDecryptedConfig finds the row by id, active or not.
SendWithConfig(m) ==
    /\ chosen[m] # NoConfig /\ Exists(chosen[m])
    /\ MailAt(m, "queued", "sent")
    /\ UNCHANGED <<configVars, updateVars, sender, chosen, refs>>

\* A job without an id is sent with the credentials of the environment, and so
\* is every job that comes to a worker without the service.
SendWithEnvironment(m) ==
    /\ chosen[m] = NoConfig \/ KeylessWorker
    /\ MailAt(m, "queued", "sent")
    /\ UNCHANGED <<configVars, updateVars, sender, chosen, refs>>

-----------------------------------------------------------------------------
Next ==
    \/ \E c \in Configs : Create(c) \/ Delete(c)
    \/ \E u \in Updates : UpdateRead(u) \/ UpdateSave(u)
    \/ \E m \in Mails : \/ LookUp(m) \/ StartBatch(m) \/ CreateMail(m)
                        \/ PublishMail(m)
                        \/ SendWithConfig(m) \/ SendWithEnvironment(m)

Spec == Init /\ [][Next]_vars

-----------------------------------------------------------------------------
\* Types, and what an update in progress has read.
TypeOK ==
    /\ rows \in [Configs -> Row \cup {NoRow}]
    /\ minted \subseteq Configs
    /\ deleted \subseteq minted
    /\ update \in [Updates -> UpdatePc]
    /\ target \in [Updates -> Configs \cup {NoConfig}]
    /\ asked \in [Updates -> Request]
    /\ snapshot \in [Updates -> Row \cup {NoRow}]
    /\ overtaken \subseteq Updates
    /\ pc \in [Mails -> MailPc]
    /\ sender \in [Mails -> Senders]
    /\ chosen \in [Mails -> Configs \cup {NoConfig}]
    /\ refs \in [Mails -> Configs \cup {NoConfig}]

\* A job that names a configuration finds it, however long it waits and
\* whatever is updated or deleted meanwhile, and the row there is still the one
\* of its own sender.
JobsFindConfig ==
    \A m \in Mails : pc[m] \in {"publish", "queued"} /\ chosen[m] # NoConfig =>
        Exists(chosen[m]) /\ rows[chosen[m]].sender = sender[m]

\* One sender has one configuration, also when a Save brings back a row that
\* was deleted: otherwise Send would look up any of them.
OneConfigPerSender ==
    \A c, d \in Configs :
        Exists(c) /\ Exists(d) /\ rows[c].sender = rows[d].sender => c = d

\* A field that is asked for gets the value, any other keeps the one it has.
AsAsked(new, old, want) == new = IF want = Keep THEN old ELSE want

\* Update is a read and a Save of the whole row, with other requests in between.
\* One whose row nobody wrote meanwhile is nevertheless atomic: it finds its row
\* and changes there, and nowhere else, exactly the fields its request names,
\* from the values they have when it saves. Only an update that was overtaken by
\* another Save or a Delete puts old values back. (The database answers here.)
UpdatesAreAtomic ==
    [][\A u \in Updates \ overtaken : LET c == target[u] IN
          update[u] = "save" /\ update'[u] # "save" =>
              /\ update'[u] = "done" /\ Exists(c) /\ rows'[c] # NoRow
              /\ rows'[c].sender = rows[c].sender
              /\ AsAsked(rows'[c].tenant, rows[c].tenant, asked[u].tenant)
              /\ AsAsked(rows'[c].secret, rows[c].secret, asked[u].secret)
              /\ AsAsked(rows'[c].active, rows[c].active, asked[u].active)
              /\ \A d \in Configs \ {c} : rows'[d] = rows[d]]_vars

-----------------------------------------------------------------------------
\* .doc/API_REFERENCE.md, 5.5: a configuration that was deleted is gone.
DeletedStaysGone ==
    \A c \in deleted : ~Exists(c)
=============================================================================
