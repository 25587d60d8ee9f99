---------------------------- MODULE MailPipeline ----------------------------
(***************************************************************************)
(* The life of a mail in mail-proxy, from the request that submits it to   *)
(* the provider that accepts it: the submission handlers (REST Send and    *)
(* SendBatch, SMTP Data), the Cancel handler, the RabbitMQ mail queue and  *)
(* failed queue, and the worker goroutines that consume, send and retry.   *)
(*                                                                         *)
(* One action stands for one call that another process can see: a database *)
(* statement, a KeyDB SET, a publish, a provider request, an ack.          *)
(* PostgreSQL, KeyDB, RabbitMQ and the mail providers are external; each   *)
(* is modelled by the effect and the errors its callers can see.           *)
(***************************************************************************)
EXTENDS Naturals

CONSTANTS
    Mails,            \* mail ids: one per accepted request (uuid.New())
    ApiMails,         \* those submitted over REST: only these can be cancelled
    Workers,          \* worker processes with one consumer goroutine each
    NoMsg,            \* what an idle worker works on
    MaxRetryCount,    \* config: MAX_RETRY_COUNT
    MaxCrashes,       \* bound: process crashes in one behaviour
    MaxLostConns,     \* bound: worker connections lost in one behaviour
    DbMayFail,        \* may a database call return an error?
    KeyDbMayFail,     \* may a KeyDB SET return an error?
    PublishMayFail,   \* may a publish error, or be lost without an error?
    SendMayBeAmbiguous\* may a request that errors have reached the provider?

\* A message of the mail queue: the MailJob it carries, reduced to the mail and
\* the retry count. tag is a history field: it numbers the independent copies
\* of one mail, so that two copies are never the same message.
Msg == [mail : Mails, retry : 0..MaxRetryCount, tag : Nat]

\* MAX_RETRY_COUNT defaults to 5; values below 1 act as 1 (a first failure has
\* RetryCount = 1, which already reaches them).
ASSUME PipelineAssumption ==
    /\ ApiMails \subseteq Mails
    /\ MaxRetryCount \in Nat \ {0}
    /\ MaxCrashes \in Nat
    /\ MaxLostConns \in Nat
    /\ {DbMayFail, KeyDbMayFail, PublishMayFail, SendMayBeAmbiguous}
           \subseteq BOOLEAN
    /\ NoMsg \notin Msg

VARIABLES
    handler,     \* submission handler of each mail: its next step
    canceller,   \* Cancel handler of each mail: its next step
    dbStatus,    \* mails.status, "none" while there is no row
    keydb,       \* the cached status mail:status:<id>, "none" when absent
    queue,       \* messages ready in the mail queue
    failedQueue, \* mails with a message in the failed queue
    pc,          \* next step of each worker in handleMessage/handleRetry
    job,         \* the job a worker handles
    unacked,     \* the message the broker holds unacknowledged for a worker
    connected,   \* is the worker's broker connection open?
    timers,      \* retry goroutines of a worker's process that still sleep
    delivered,   \* history: tags of the copies the provider accepted
    tags,        \* history: the last tag given to a copy of the mail
    withdrawn,   \* history: mails a worker skipped because of a cancel
    dropped,     \* history: mails of which a publish or a retry was lost
    crashes, lostConns

vars == <<handler, canceller, dbStatus, keydb, queue, failedQueue, pc, job,
          unacked, connected, timers, delivered, tags, withdrawn, dropped,
          crashes, lostConns>>

storeVars   == <<dbStatus, keydb>>
brokerVars  == <<queue, failedQueue, unacked, connected>>
workerVars  == <<pc, job, timers>>
clientVars  == <<handler, canceller>>
historyVars == <<delivered, tags, withdrawn, dropped>>
faultVars   == <<crashes, lostConns>>

Status == {"none", "queued", "processing", "sent", "failed", "cancelled"}

HandlerPc == {"received", "publish", "markFailed", "status",
              "accepted", "rejected", "crashed"}

CancelPc == {"idle", "update", "status"}

WorkerPc == {"idle", "check", "keydbProcessing", "dbProcessing", "send",
             "dbSent", "keydbSent",
             "publishFailed", "dbFailed", "keydbFailed",
             "keydbQueued", "spawn", "ack"}

\* Steps at which the worker's job may still reach the provider.
Holding == {"check", "keydbProcessing", "dbProcessing", "send",
            "keydbQueued", "spawn"}

Init ==
    /\ handler = [m \in Mails |-> "received"]
    /\ canceller = [m \in Mails |-> "idle"]
    /\ dbStatus = [m \in Mails |-> "none"]
    /\ keydb = [m \in Mails |-> "none"]
    /\ queue = {}
    /\ failedQueue = {}
    /\ pc = [w \in Workers |-> "idle"]
    /\ job = [w \in Workers |-> NoMsg]
    /\ unacked = [w \in Workers |-> {}]
    /\ connected = [w \in Workers |-> TRUE]
    /\ timers = [w \in Workers |-> {}]
    /\ delivered = [m \in Mails |-> {}]
    /\ tags = [m \in Mails |-> 0]
    /\ withdrawn = {}
    /\ dropped = {}
    /\ crashes = 0
    /\ lostConns = 0

-----------------------------------------------------------------------------
(* The stores. The worker and the handlers ignore the errors of these two  *)
(* writes: on an error they go on as if it had succeeded.                  *)

SetDbStatus(m, s) ==
    \/ dbStatus' = [dbStatus EXCEPT ![m] = s]
    \/ DbMayFail /\ UNCHANGED dbStatus

SetStatus(m, s) ==
    \/ keydb' = [keydb EXCEPT ![m] = s]
    \/ KeyDbMayFail /\ UNCHANGED keydb

-----------------------------------------------------------------------------
(* Submission: Send, processSingleMail and Data run the same four calls.   *)

HandlerAt(m, from, to) ==
    /\ handler[m] = from
    /\ handler' = [handler EXCEPT ![m] = to]

\* The row is created before anything is published; an error ends the request.
CreateMail(m) ==
    /\ \/ /\ HandlerAt(m, "received", "publish")
          /\ dbStatus' = [dbStatus EXCEPT ![m] = "queued"]
       \/ /\ DbMayFail
          /\ HandlerAt(m, "received", "rejected")
          /\ UNCHANGED dbStatus
    /\ UNCHANGED <<canceller, keydb, brokerVars, workerVars, historyVars,
                   faultVars>>

\* Publishing asks for no confirm: it can also be lost without an error.
PublishMail(m) ==
    /\ \/ /\ HandlerAt(m, "publish", "status")
          /\ queue' = queue \cup {[mail |-> m, retry |-> 0, tag |-> 0]}
          /\ UNCHANGED dropped
       \/ /\ PublishMayFail
          /\ HandlerAt(m, "publish", "markFailed")
          /\ UNCHANGED <<queue, dropped>>
       \/ /\ PublishMayFail
          /\ HandlerAt(m, "publish", "status")
          /\ dropped' = dropped \cup {m}
          /\ UNCHANGED queue
    /\ UNCHANGED <<canceller, storeVars, failedQueue, unacked, connected,
                   workerVars, delivered, tags, withdrawn, faultVars>>

MarkFailed(m) ==
    /\ HandlerAt(m, "markFailed", "rejected")
    /\ SetDbStatus(m, "failed")
    /\ UNCHANGED <<canceller, keydb, brokerVars, workerVars, historyVars,
                   faultVars>>

SetQueued(m) ==
    /\ HandlerAt(m, "status", "accepted")
    /\ SetStatus(m, "queued")
    /\ UNCHANGED <<canceller, dbStatus, brokerVars, workerVars, historyVars,
                   faultVars>>

-----------------------------------------------------------------------------
(* Cancel: read the row, refuse unless it is queued, then write both       *)
(* stores. The write is by primary key, whatever the status is by then.    *)

CancelRead(m) ==
    /\ m \in ApiMails
    /\ canceller[m] = "idle"
    /\ dbStatus[m] = "queued"
    /\ canceller' = [canceller EXCEPT ![m] = "update"]
    /\ UNCHANGED <<handler, storeVars, brokerVars, workerVars, historyVars,
                   faultVars>>

CancelUpdate(m) ==
    /\ canceller[m] = "update"
    /\ canceller' = [canceller EXCEPT ![m] = "status"]
    /\ SetDbStatus(m, "cancelled")
    /\ UNCHANGED <<handler, keydb, brokerVars, workerVars, historyVars,
                   faultVars>>

CancelStatus(m) ==
    /\ canceller[m] = "status"
    /\ canceller' = [canceller EXCEPT ![m] = "idle"]
    /\ SetStatus(m, "cancelled")
    /\ UNCHANGED <<handler, dbStatus, brokerVars, workerVars, historyVars,
                   faultVars>>

\* The key has lived for KEYDB_STATUS_TTL_DAYS since its last SET.
ExpireStatus(m) ==
    /\ keydb[m] # "none"
    /\ keydb' = [keydb EXCEPT ![m] = "none"]
    /\ UNCHANGED <<clientVars, dbStatus, brokerVars, workerVars, historyVars,
                   faultVars>>

\* What GetStatus answers: the cached status, or the row when none is cached.
GetStatus(m) == IF keydb[m] # "none" THEN keydb[m] ELSE dbStatus[m]

-----------------------------------------------------------------------------
(* Worker: handleMessage.                                                  *)

WorkerAt(w, from, to) ==
    /\ pc[w] = from
    /\ pc' = [pc EXCEPT ![w] = to]

\* Mutant: the queue is consumed with auto-ack, so the broker holds nothing.
DeliverAutoAck(w) ==
    /\ connected[w]
    /\ WorkerAt(w, "idle", "check")
    /\ \E msg \in queue :
          /\ queue' = queue \ {msg}
          /\ job' = [job EXCEPT ![w] = msg]
    /\ UNCHANGED <<clientVars, storeVars, failedQueue, unacked, connected,
                   timers, historyVars, faultVars>>

Deliver(w) ==
    /\ connected[w]
    /\ WorkerAt(w, "idle", "check")
    /\ \E msg \in queue :
          /\ queue' = queue \ {msg}
          /\ unacked' = [unacked EXCEPT ![w] = {msg}]
          /\ job' = [job EXCEPT ![w] = msg]
    /\ UNCHANGED <<clientVars, storeVars, failedQueue, connected, timers,
                   historyVars, faultVars>>

\* Mutant: the check trusts the cached status.
CheckCancelledCached(w) ==
    /\ \/ /\ WorkerAt(w, "check", "ack")
          /\ keydb[job[w].mail] = "cancelled"
          /\ withdrawn' = withdrawn \cup {job[w].mail}
       \/ /\ WorkerAt(w, "check", "keydbProcessing")
          /\ keydb[job[w].mail] # "cancelled"
          /\ UNCHANGED withdrawn
    /\ UNCHANGED <<clientVars, storeVars, brokerVars, job, timers, delivered,
                   tags, dropped, faultVars>>

\* A read that fails counts as "not cancelled".
CheckCancelled(w) ==
    /\ \/ /\ WorkerAt(w, "check", "ack")
          /\ dbStatus[job[w].mail] = "cancelled"
          /\ withdrawn' = withdrawn \cup {job[w].mail}
       \/ /\ WorkerAt(w, "check", "keydbProcessing")
          /\ DbMayFail \/ dbStatus[job[w].mail] # "cancelled"
          /\ UNCHANGED withdrawn
    /\ UNCHANGED <<clientVars, storeVars, brokerVars, job, timers, delivered,
                   tags, dropped, faultVars>>

KeyDbProcessing(w) ==
    /\ WorkerAt(w, "keydbProcessing", "dbProcessing")
    /\ SetStatus(job[w].mail, "processing")
    /\ UNCHANGED <<clientVars, dbStatus, brokerVars, job, timers, historyVars,
                   faultVars>>

DbProcessing(w) ==
    /\ WorkerAt(w, "dbProcessing", "send")
    /\ SetDbStatus(job[w].mail, "processing")
    /\ UNCHANGED <<clientVars, keydb, brokerVars, job, timers, historyVars,
                   faultVars>>

\* The provider accepts the mail and says so.
SendAccepted(w) ==
    /\ WorkerAt(w, "send", "dbSent")
    /\ delivered' = [delivered EXCEPT ![job[w].mail] = @ \cup {job[w].tag}]
    /\ UNCHANGED <<clientVars, storeVars, brokerVars, job, timers, tags,
                   withdrawn, dropped, faultVars>>

\* Mutant: > for >=.
AfterFailureLate(retry) ==
    IF retry > MaxRetryCount THEN "publishFailed" ELSE "keydbQueued"

\* Where handleRetry goes once it has counted the failure.
AfterFailure(retry) ==
    IF retry >= MaxRetryCount THEN "publishFailed" ELSE "keydbQueued"

\* Mutant: the return after handleRetry is missing.
SendRefusedFallsThrough(w) ==
    /\ WorkerAt(w, "send", "dbSent")
    /\ job' = [job EXCEPT ![w].retry = @ + 1]
    /\ UNCHANGED <<clientVars, storeVars, brokerVars, timers, historyVars,
                   faultVars>>

\* Anything that makes the attempt fail before the provider has the mail: the
\* sender config, the access token, an attachment, the request, its answer.
SendRefused(w) ==
    /\ WorkerAt(w, "send", AfterFailure(job[w].retry + 1))
    /\ job' = [job EXCEPT ![w].retry = @ + 1]
    /\ UNCHANGED <<clientVars, storeVars, brokerVars, timers, historyVars,
                   faultVars>>

\* The provider accepts the mail but the worker sees an error: from here on
\* the job stands for a new copy.
SendAmbiguous(w) ==
    /\ SendMayBeAmbiguous
    /\ WorkerAt(w, "send", AfterFailure(job[w].retry + 1))
    /\ LET m == job[w].mail IN
          /\ delivered' = [delivered EXCEPT ![m] = @ \cup {job[w].tag}]
          /\ tags' = [tags EXCEPT ![m] = @ + 1]
          /\ job' = [job EXCEPT ![w] = [mail  |-> m,
                                        retry |-> job[w].retry + 1,
                                        tag   |-> tags[m] + 1]]
    /\ UNCHANGED <<clientVars, storeVars, brokerVars, timers, withdrawn,
                   dropped, faultVars>>

DbSent(w) ==
    /\ WorkerAt(w, "dbSent", "keydbSent")
    /\ SetDbStatus(job[w].mail, "sent")
    /\ UNCHANGED <<clientVars, keydb, brokerVars, job, timers, historyVars,
                   faultVars>>

KeyDbSent(w) ==
    /\ WorkerAt(w, "keydbSent", "ack")
    /\ SetStatus(job[w].mail, "sent")
    /\ UNCHANGED <<clientVars, dbStatus, brokerVars, job, timers, historyVars,
                   faultVars>>

\* Mutant: Nack(false, true) where the code acknowledges.
AckRequeues(w) ==
    /\ WorkerAt(w, "ack", "idle")
    /\ queue' = queue \cup unacked[w]
    /\ unacked' = [unacked EXCEPT ![w] = {}]
    /\ job' = [job EXCEPT ![w] = NoMsg]
    /\ UNCHANGED <<clientVars, storeVars, failedQueue, connected, timers,
                   historyVars, faultVars>>

\* An ack on a lost connection fails; the error is ignored.
Ack(w) ==
    /\ WorkerAt(w, "ack", "idle")
    /\ unacked' = [unacked EXCEPT ![w] = {}]
    /\ job' = [job EXCEPT ![w] = NoMsg]
    /\ UNCHANGED <<clientVars, storeVars, queue, failedQueue, connected,
                   timers, historyVars, faultVars>>

-----------------------------------------------------------------------------
(* Worker: handleRetry.                                                    *)

PublishFailed(w) ==
    /\ WorkerAt(w, "publishFailed", "dbFailed")
    /\ \/ /\ connected[w]
          /\ failedQueue' = failedQueue \cup {job[w].mail}
          /\ UNCHANGED dropped
       \/ /\ PublishMayFail \/ ~connected[w]
          /\ dropped' = dropped \cup {job[w].mail}
          /\ UNCHANGED failedQueue
    /\ UNCHANGED <<clientVars, storeVars, queue, unacked, connected, job,
                   timers, delivered, tags, withdrawn, faultVars>>

\* Mutant: the row of a mail that is given up is not written.
DbFailedUnwritten(w) ==
    /\ WorkerAt(w, "dbFailed", "keydbFailed")
    /\ UNCHANGED <<clientVars, storeVars, brokerVars, job, timers, historyVars,
                   faultVars>>

DbFailed(w) ==
    /\ WorkerAt(w, "dbFailed", "keydbFailed")
    /\ SetDbStatus(job[w].mail, "failed")
    /\ UNCHANGED <<clientVars, keydb, brokerVars, job, timers, historyVars,
                   faultVars>>

KeyDbFailed(w) ==
    /\ WorkerAt(w, "keydbFailed", "ack")
    /\ SetStatus(job[w].mail, "failed")
    /\ UNCHANGED <<clientVars, dbStatus, brokerVars, job, timers, historyVars,
                   faultVars>>

\* Before this the row's retry_count is updated; its status stays as it was.
KeyDbQueued(w) ==
    /\ WorkerAt(w, "keydbQueued", "spawn")
    /\ SetStatus(job[w].mail, "queued")
    /\ UNCHANGED <<clientVars, dbStatus, brokerVars, job, timers, historyVars,
                   faultVars>>

\* The goroutine that sleeps through the back-off lives in memory only.
SpawnRetry(w) ==
    /\ WorkerAt(w, "spawn", "ack")
    /\ timers' = [timers EXCEPT ![w] = @ \cup {job[w]}]
    /\ UNCHANGED <<clientVars, storeVars, brokerVars, job, historyVars,
                   faultVars>>

\* Mutant: the goroutine publishes, and goes on sleeping to publish again.
FireRetryAgain(w) ==
    /\ connected[w]
    /\ queue' = queue \cup timers[w]
    /\ timers[w] # {}
    /\ UNCHANGED <<clientVars, storeVars, failedQueue, unacked, connected,
                   workerVars, historyVars, faultVars>>

\* The sleep is over: publish to the mail queue, ignoring any error.
FireRetry(w) ==
    /\ \E msg \in timers[w] :
          /\ timers' = [timers EXCEPT ![w] = @ \ {msg}]
          /\ \/ /\ connected[w]
                /\ queue' = queue \cup {msg}
                /\ UNCHANGED dropped
             \/ /\ PublishMayFail \/ ~connected[w]
                /\ dropped' = dropped \cup {msg.mail}
                /\ UNCHANGED queue
    /\ UNCHANGED <<clientVars, storeVars, failedQueue, unacked, connected, pc,
                   job, delivered, tags, withdrawn, faultVars>>

-----------------------------------------------------------------------------
(* Faults.                                                                 *)

\* The broker puts back what it holds unacknowledged for w: a new copy.
Requeue(w) ==
    /\ queue' = queue \cup
           {[u EXCEPT !.tag = tags[u.mail] + 1] : u \in unacked[w]}
    /\ tags' = [m \in Mails |->
           IF \E u \in unacked[w] : u.mail = m THEN tags[m] + 1 ELSE tags[m]]
    /\ unacked' = [unacked EXCEPT ![w] = {}]

\* Nothing reconnects: the goroutine finishes its job, whose ack and publishes
\* now fail, and receives nothing more until its process is restarted.
LoseConnection(w) ==
    /\ lostConns < MaxLostConns
    /\ lostConns' = lostConns + 1
    /\ connected[w]
    /\ connected' = [connected EXCEPT ![w] = FALSE]
    /\ Requeue(w)
    /\ UNCHANGED <<clientVars, storeVars, failedQueue, workerVars, delivered,
                   withdrawn, dropped, crashes>>

\* The process dies (or is stopped) and is started again: what it worked on
\* and its sleeping retries are gone.
CrashWorker(w) ==
    /\ crashes < MaxCrashes
    /\ crashes' = crashes + 1
    /\ Requeue(w)
    /\ pc' = [pc EXCEPT ![w] = "idle"]
    /\ job' = [job EXCEPT ![w] = NoMsg]
    /\ timers' = [timers EXCEPT ![w] = {}]
    /\ dropped' = dropped \cup {msg.mail : msg \in timers[w]}
    /\ connected' = [connected EXCEPT ![w] = TRUE]
    /\ UNCHANGED <<clientVars, storeVars, failedQueue, delivered, withdrawn,
                   lostConns>>

\* The API or SMTP process dies in the middle of a request.
CrashHandler(m) ==
    /\ crashes < MaxCrashes
    /\ crashes' = crashes + 1
    /\ \/ /\ handler[m] \in {"publish", "markFailed", "status"}
          /\ handler' = [handler EXCEPT ![m] = "crashed"]
          /\ UNCHANGED canceller
       \/ /\ canceller[m] \in {"update", "status"}
          /\ canceller' = [canceller EXCEPT ![m] = "idle"]
          /\ UNCHANGED handler
    /\ UNCHANGED <<storeVars, brokerVars, workerVars, historyVars, lostConns>>

-----------------------------------------------------------------------------
Submit(m) == CreateMail(m) \/ PublishMail(m) \/ MarkFailed(m) \/ SetQueued(m)

Cancel(m) == CancelRead(m) \/ CancelUpdate(m) \/ CancelStatus(m)

HandleMessage(w) ==
    \/ CheckCancelled(w) \/ KeyDbProcessing(w) \/ DbProcessing(w)
    \/ SendAccepted(w) \/ SendRefused(w) \/ SendAmbiguous(w)
    \/ DbSent(w) \/ KeyDbSent(w) \/ Ack(w)

HandleRetry(w) ==
    \/ PublishFailed(w) \/ DbFailed(w) \/ KeyDbFailed(w)
    \/ KeyDbQueued(w) \/ SpawnRetry(w)

Next ==
    \/ \E m \in Mails :
          Submit(m) \/ Cancel(m) \/ CrashHandler(m) \/ ExpireStatus(m)
    \/ \E w \in Workers :
          \/ Deliver(w) \/ HandleMessage(w) \/ HandleRetry(w)
          \/ FireRetry(w) \/ LoseConnection(w) \/ CrashWorker(w)

Spec == Init /\ [][Next]_vars

\* A request that was begun runs to its end, a worker that is not blocked by a
\* lost connection keeps consuming, provider requests return, timers fire.
\* Nobody has to submit or to cancel, and nothing has to fail.
Fairness ==
    /\ \A m \in Mails :
          /\ WF_vars(PublishMail(m) \/ MarkFailed(m) \/ SetQueued(m))
          /\ WF_vars(CancelUpdate(m) \/ CancelStatus(m))
    /\ \A w \in Workers :
          /\ WF_vars(HandleMessage(w) \/ HandleRetry(w))
          /\ WF_vars(FireRetry(w))
          /\ WF_vars(Deliver(w))

FairSpec == Spec /\ Fairness

-----------------------------------------------------------------------------
(* Safety.                                                                 *)

\* The messages that can still lead to a request to the provider.
InHand == {job[w] : w \in {v \in Workers : pc[v] \in Holding}}
Sleeping == UNION {timers[w] : w \in Workers}
Copies == queue \cup Sleeping \cup InHand

\* Steps at which the broker's unacknowledged message still stands for work to
\* do: the attempt, or the publish to the failed queue.
Unfinished == Holding \cup {"publishFailed"}

\* Somebody can still send the mail, or hand it to the failed queue: it is in
\* the queue, or sleeps in a retry goroutine, or the broker still holds the
\* message of a worker that has not finished with it.
Backed(m) ==
    \/ \E msg \in queue : msg.mail = m
    \/ \E w \in Workers : \E msg \in timers[w] : msg.mail = m
    \/ \E w \in Workers : /\ unacked[w] # {} /\ pc[w] \in Unfinished
                          /\ job[w].mail = m

\* There is an account of a mail: it was delivered, is in the failed queue, was
\* skipped because of a cancel -- or somebody can still send it.
Accounted(m) ==
    \/ delivered[m] # {}
    \/ m \in failedQueue \cup withdrawn
    \/ Backed(m)

\* The step ends the sleep of a retry of m: it is published, or its publish is
\* lost, or the process in whose memory it slept has died.
RetryEnds(m) ==
    \E w \in Workers : \E msg \in timers[w] \ timers'[w] : msg.mail = m

\* In the step a worker that gives m up has published it to the failed queue,
\* or believes so.
GivesUp(m) ==
    \E w \in Workers : /\ pc[w] = "publishFailed" /\ pc'[w] = "dbFailed"
                       /\ job[w].mail = m

\* Steps of a worker that has passed the cancel check and will still write the
\* row or call the provider.
PastCheck == {"keydbProcessing", "dbProcessing", "send", "dbSent",
              "publishFailed", "dbFailed"}

\* Types; a worker has a job exactly when it is not idle.
TypeOK ==
    /\ handler \in [Mails -> HandlerPc]
    /\ canceller \in [Mails -> CancelPc]
    /\ dbStatus \in [Mails -> Status]
    /\ keydb \in [Mails -> Status]
    /\ queue \subseteq Msg
    /\ failedQueue \subseteq Mails
    /\ pc \in [Workers -> WorkerPc]
    /\ job \in [Workers -> Msg \cup {NoMsg}]
    /\ \A w \in Workers : pc[w] = "idle" <=> job[w] = NoMsg
    /\ unacked \in [Workers -> SUBSET Msg]
    /\ connected \in [Workers -> BOOLEAN]
    /\ timers \in [Workers -> SUBSET Msg]
    /\ delivered \in [Mails -> SUBSET Nat]
    /\ tags \in [Mails -> Nat]
    /\ withdrawn \subseteq Mails
    /\ dropped \subseteq Mails
    /\ crashes \in 0..MaxCrashes
    /\ lostConns \in 0..MaxLostConns

\* A mail is given up when its retry count reaches MAX_RETRY_COUNT: whatever is
\* lost, repeated or cancelled meanwhile, no job that is queued, asleep or being
\* attempted has already reached it (handleRetry's comparison).
RetryBudget ==
    \A c \in Copies : c.retry < MaxRetryCount

\* What GetStatus or the row says of an outcome is true: "sent" only once the
\* provider accepted the mail, "failed" only when the mail is in the failed
\* queue, was refused by its submission handler, or was lost on its way to the
\* failed queue -- although the two stores are written by several processes in
\* separate calls that can each fail.
TruthfulStatus ==
    \A m \in Mails : \A s \in {dbStatus[m], keydb[m]} :
        /\ s = "sent" => delivered[m] # {}
        /\ s = "failed" => m \in failedQueue \cup dropped
                           \/ handler[m] = "rejected"

\* A copy that the provider accepted is never attempted again: a worker that is
\* done with a job has no second chance to send it, so that a duplicate needs a
\* redelivery by the broker or an answer that was lost.
CopiesUndelivered ==
    \A c \in Copies : c.tag \notin delivered[c.mail]

\* A mail of which there is an account never disappears in any other way than
\* these two: a retry that sleeps in a worker's memory ends without a message
\* (consumer.go acknowledges before the sleep and has only the goroutine left),
\* or the publish to the failed queue is lost. A crash or a lost connection
\* loses nothing that is in the queue or in a worker's hands, at whichever step
\* of the attempt it comes, because the acknowledgement is the last step.
NoSilentLoss ==
    [][\A m \in Mails : Accounted(m) =>
          Accounted(m)' \/ RetryEnds(m) \/ GivesUp(m)]_vars

HasOutcome(m) ==
    delivered[m] # {} \/ m \in failedQueue \cup withdrawn \cup dropped

\* A mail of which the broker redelivered nothing and the provider's answers
\* were all seen has one outcome, and that is the end of it: it is delivered, or
\* in the failed queue, or withdrawn, or lost with a publish, and no copy of it
\* is left in the queue, asleep or in the hands of a worker -- whichever
\* workers its attempts went through and whatever crashed meanwhile.
OneOutcome ==
    \A m \in Mails : tags[m] = 0 =>
        /\ delivered[m] # {} => m \notin failedQueue \cup withdrawn \cup dropped
        /\ m \in failedQueue => m \notin withdrawn \cup dropped
        /\ m \in withdrawn => m \notin dropped
        /\ HasOutcome(m) => \A c \in Copies : c.mail # m

\* A cancelled row that no handler will still mark failed and that no worker
\* past the check works on.
CancelSettled(m) ==
    /\ dbStatus[m] = "cancelled"
    /\ handler[m] \in {"status", "accepted", "rejected", "crashed"}
    /\ \A w \in Workers : pc[w] \in PastCheck => job[w].mail # m

\* Such a cancel holds for good while the database answers: no retry, no
\* redelivered message and no handler overwrites it, and the mail is not sent.
CancelSticks ==
    [][\A m \in Mails : CancelSettled(m) =>
          CancelSettled(m)' /\ delivered'[m] = delivered[m]]_vars

\* Mails whose handler has not decided yet whether there will be a message.
Undecided == {m \in Mails : handler[m] \in {"received", "publish"}}

\* Of each mail, the copies that can still lead to a request to the provider.
LiveTags == [m \in Mails |-> {c.tag : c \in {d \in Copies : d.mail = m}}]

Delivery == INSTANCE MailDelivery WITH
    open   <- Undecided,
    live   <- LiveTags,
    done   <- delivered,
    last   <- tags,
    faults <- crashes + lostConns

\* The pipeline keeps the promise of MailDelivery: duplicates come only from
\* redeliveries and lost answers, and there is at most one per fault, although
\* a message passes through queue, workers and timers on its way.
DeliverySpec == Delivery!DSpec

-----------------------------------------------------------------------------
(* Liveness.                                                               *)

Final == {"sent", "failed", "cancelled"}

\* An accepted mail is settled in the end: unless one of its publishes or
\* retries is lost, its row becomes sent, failed or cancelled and stays so,
\* however often workers crash and answers of the provider are lost.
Settles ==
    \A m \in Mails :
        handler[m] = "accepted" ~> (m \in dropped \/ [](dbStatus[m] \in Final))

-----------------------------------------------------------------------------
(* What the documents say, and the code does not do.                       *)

\* .doc/SPEC.md, 6.3.5: a mail that is processing or sent cannot be cancelled.
CancelOnlyQueued ==
    [][\A m \in Mails : dbStatus'[m] = "cancelled" =>
          dbStatus[m] \in {"queued", "cancelled"}]_vars

\* .doc/API_REFERENCE.md, 6: the status is set to queued before the job is
\* published, so that "queued" is never reported of a mail a worker has sent.
QueuedNotYetSent ==
    \A m \in Mails :
        handler[m] = "accepted" /\ GetStatus(m) = "queued" => delivered[m] = {}

\* .doc/SPEC.md, 2.1.5 and 7.1: queues are durable and a retry waits in
\* retry-queue, so that a worker crash loses no mail.
RetrySurvivesCrash ==
    \A m \in Mails : handler[m] \in {"status", "accepted"} => Accounted(m)
=============================================================================
