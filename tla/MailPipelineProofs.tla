------------------------- MODULE MailPipelineProofs -------------------------
(***************************************************************************)
(* Proofs about MailPipeline, for any mails, workers, retry limit and      *)
(* fault bounds.                                                           *)
(***************************************************************************)
EXTENDS MailPipeline, TLAPS

USE DEF storeVars, brokerVars, workerVars, clientVars, historyVars, faultVars

-----------------------------------------------------------------------------
(* Types and the retry budget. Each needs the other: a failed attempt stays *)
(* within 0..MaxRetryCount because the job it fails is within its budget.   *)

\* RetryBudget place by place, with the messages the broker may deliver again.
BudgetInv ==
    /\ \A c \in queue : c.retry < MaxRetryCount
    /\ \A w \in Workers : \A c \in timers[w] : c.retry < MaxRetryCount
    /\ \A w \in Workers : \A c \in unacked[w] : c.retry < MaxRetryCount
    /\ \A w \in Workers : pc[w] \in Holding => job[w].retry < MaxRetryCount

LEMMA TypeInit == Init => TypeOK
BY PipelineAssumption
   DEF Init, TypeOK, HandlerPc, CancelPc, Status, WorkerPc

\* A message with a new tag is a message: what Requeue puts into the queue.
LEMMA RetagType ==
  ASSUME TypeOK, NEW w \in Workers, Requeue(w)
  PROVE  queue' \subseteq Msg /\ tags' \in [Mails -> Nat]
                              /\ unacked' \in [Workers -> SUBSET Msg]
BY DEF TypeOK, Requeue, Msg

LEMMA SubmitType ==
  ASSUME TypeOK, NEW m \in Mails,
         Submit(m) \/ Cancel(m) \/ CrashHandler(m) \/ ExpireStatus(m)
  PROVE  TypeOK'
<1> USE PipelineAssumption DEF TypeOK, HandlerAt
<1>1. CASE CreateMail(m)
  BY <1>1 DEF CreateMail, HandlerPc, Status
<1>2. CASE PublishMail(m)
  BY <1>2 DEF PublishMail, HandlerPc, Msg
<1>3. CASE MarkFailed(m)
  BY <1>3 DEF MarkFailed, SetDbStatus, HandlerPc, Status
<1>4. CASE SetQueued(m)
  BY <1>4 DEF SetQueued, SetStatus, HandlerPc, Status
<1>5. CASE CancelRead(m)
  BY <1>5 DEF CancelRead, CancelPc
<1>6. CASE CancelUpdate(m)
  BY <1>6 DEF CancelUpdate, SetDbStatus, CancelPc, Status
<1>7. CASE CancelStatus(m)
  BY <1>7 DEF CancelStatus, SetStatus, CancelPc, Status
<1>8. CASE CrashHandler(m)
  BY <1>8 DEF CrashHandler, HandlerPc, CancelPc
<1>9. CASE ExpireStatus(m)
  BY <1>9 DEF ExpireStatus, Status
<1>10. QED
  BY <1>1, <1>2, <1>3, <1>4, <1>5, <1>6, <1>7, <1>8, <1>9 DEF Submit, Cancel

LEMMA WorkerType ==
  ASSUME TypeOK, BudgetInv, NEW w \in Workers,
         Deliver(w) \/ HandleMessage(w) \/ HandleRetry(w)
  PROVE  TypeOK'
<1> USE PipelineAssumption DEF TypeOK, WorkerAt
<1>0. pc[w] # "idle" => job[w] \in Msg
  OBVIOUS
<1>a. pc[w] = "send" => job[w].retry < MaxRetryCount
  BY DEF BudgetInv, Holding
<1>1. CASE Deliver(w)
  BY <1>1 DEF Deliver, WorkerPc
<1>2. CASE CheckCancelled(w)
  BY <1>0, <1>2 DEF CheckCancelled, WorkerPc, Msg
<1>3. CASE KeyDbProcessing(w)
  BY <1>3 DEF KeyDbProcessing, SetStatus, WorkerPc, Status
<1>4. CASE DbProcessing(w)
  BY <1>4 DEF DbProcessing, SetDbStatus, WorkerPc, Status
<1>5. CASE SendAccepted(w)
  BY <1>0, <1>5 DEF SendAccepted, WorkerPc, Msg
<1>6. CASE SendRefused(w)
  BY <1>0, <1>a, <1>6 DEF SendRefused, AfterFailure, WorkerPc, Msg
<1>7. CASE SendAmbiguous(w)
  BY <1>0, <1>a, <1>7 DEF SendAmbiguous, AfterFailure, WorkerPc, Msg
<1>8. CASE DbSent(w)
  BY <1>8 DEF DbSent, SetDbStatus, WorkerPc, Status
<1>9. CASE KeyDbSent(w)
  BY <1>9 DEF KeyDbSent, SetStatus, WorkerPc, Status
<1>10. CASE Ack(w)
  BY <1>10 DEF Ack, WorkerPc
<1>11. CASE PublishFailed(w)
  BY <1>0, <1>11 DEF PublishFailed, WorkerPc, Msg
<1>12. CASE DbFailed(w)
  BY <1>12 DEF DbFailed, SetDbStatus, WorkerPc, Status
<1>13. CASE KeyDbFailed(w)
  BY <1>13 DEF KeyDbFailed, SetStatus, WorkerPc, Status
<1>14. CASE KeyDbQueued(w)
  BY <1>14 DEF KeyDbQueued, SetStatus, WorkerPc, Status
<1>15. CASE SpawnRetry(w)
  BY <1>0, <1>15 DEF SpawnRetry, WorkerPc
<1>16. QED
  BY <1>1, <1>2, <1>3, <1>4, <1>5, <1>6, <1>7, <1>8, <1>9, <1>10, <1>11,
     <1>12, <1>13, <1>14, <1>15 DEF HandleMessage, HandleRetry

LEMMA FaultType ==
  ASSUME TypeOK, NEW w \in Workers,
         FireRetry(w) \/ LoseConnection(w) \/ CrashWorker(w)
  PROVE  TypeOK'
<1> USE PipelineAssumption DEF TypeOK
<1>1. CASE FireRetry(w)
  BY <1>1 DEF FireRetry, Msg
<1>2. CASE LoseConnection(w)
  BY <1>2, RetagType DEF LoseConnection
<1>3. CASE CrashWorker(w)
  <2>1. queue' \subseteq Msg /\ tags' \in [Mails -> Nat]
                             /\ unacked' \in [Workers -> SUBSET Msg]
    BY <1>3, RetagType DEF CrashWorker
  <2>2. dropped' \subseteq Mails
    BY <1>3 DEF CrashWorker, Msg
  <2>3. /\ pc' \in [Workers -> WorkerPc]
        /\ job' \in [Workers -> Msg \cup {NoMsg}]
        /\ \A v \in Workers : pc'[v] = "idle" <=> job'[v] = NoMsg
    BY <1>3 DEF CrashWorker, WorkerPc
  <2>4. /\ connected' \in [Workers -> BOOLEAN]
        /\ timers' \in [Workers -> SUBSET Msg]
        /\ crashes' \in 0..MaxCrashes
    BY <1>3 DEF CrashWorker
  <2>5. UNCHANGED <<handler, canceller, dbStatus, keydb, failedQueue, delivered,
                    withdrawn, lostConns>>
    BY <1>3 DEF CrashWorker
  <2>6. QED
    BY <2>1, <2>2, <2>3, <2>4, <2>5
<1>4. QED
  BY <1>1, <1>2, <1>3

LEMMA TypeStep == TypeOK /\ BudgetInv /\ [Next]_vars => TypeOK'
<1> SUFFICES ASSUME TypeOK, BudgetInv, [Next]_vars
             PROVE  TypeOK'
  OBVIOUS
<1>1. CASE Next
  BY <1>1, SubmitType, WorkerType, FaultType DEF Next
<1>2. CASE UNCHANGED vars
  BY <1>2 DEF vars, TypeOK
<1>3. QED
  BY <1>1, <1>2

LEMMA BudgetInit == Init => BudgetInv
BY DEF Init, BudgetInv, Holding

LEMMA BudgetStep == TypeOK /\ BudgetInv /\ [Next]_vars => BudgetInv'
<1> SUFFICES ASSUME TypeOK, BudgetInv, [Next]_vars
             PROVE  BudgetInv'
  OBVIOUS
<1> USE PipelineAssumption DEF BudgetInv, Holding
<1>1. ASSUME NEW m \in Mails,
             Submit(m) \/ Cancel(m) \/ CrashHandler(m) \/ ExpireStatus(m)
      PROVE  BudgetInv'
  <2>1. UNCHANGED <<timers, pc, job, unacked>>
    BY <1>1 DEF Submit, Cancel, CreateMail, PublishMail, MarkFailed, SetQueued,
       CancelRead, CancelUpdate, CancelStatus, CrashHandler,
       ExpireStatus
  <2>2. \A c \in queue' : c \in queue \/ c.retry = 0
    BY <1>1 DEF Submit, Cancel, CreateMail, PublishMail, MarkFailed, SetQueued,
       CancelRead, CancelUpdate, CancelStatus, CrashHandler,
       ExpireStatus
  <2>3. QED
    BY <2>1, <2>2
<1>2. ASSUME NEW w \in Workers, Deliver(w)
      PROVE  BudgetInv'
  BY <1>2 DEF Deliver, WorkerAt, TypeOK
<1>3. ASSUME NEW w \in Workers, HandleMessage(w)
      PROVE  BudgetInv'
  <2> USE DEF WorkerAt, TypeOK
  <2>1. /\ UNCHANGED <<queue, timers>>
        /\ \A v \in Workers : unacked'[v] \subseteq unacked[v]
    BY <1>3 DEF HandleMessage, CheckCancelled, KeyDbProcessing, DbProcessing,
       SendAccepted, SendRefused, SendAmbiguous, DbSent, KeyDbSent, Ack
  <2>2. \A v \in Workers \ {w} : pc'[v] = pc[v] /\ job'[v] = job[v]
    BY <1>3 DEF HandleMessage, CheckCancelled, KeyDbProcessing, DbProcessing,
       SendAccepted, SendRefused, SendAmbiguous, DbSent, KeyDbSent, Ack
  <2>3. pc'[w] \in Holding => job'[w].retry < MaxRetryCount
    <3>1. CASE SendRefused(w)
      BY <3>1 DEF SendRefused, AfterFailure, Msg
    <3>2. CASE SendAmbiguous(w)
      BY <3>2 DEF SendAmbiguous, AfterFailure, Msg
    <3>3. CASE CheckCancelled(w) \/ KeyDbProcessing(w) \/ DbProcessing(w)
      BY <3>3 DEF CheckCancelled, KeyDbProcessing, DbProcessing
    <3>4. CASE SendAccepted(w) \/ DbSent(w) \/ KeyDbSent(w) \/ Ack(w)
      BY <3>4 DEF SendAccepted, DbSent, KeyDbSent, Ack
    <3>5. QED
      BY <1>3, <3>1, <3>2, <3>3, <3>4 DEF HandleMessage
  <2>4. QED
    BY <2>1, <2>2, <2>3
<1>4. ASSUME NEW w \in Workers, HandleRetry(w)
      PROVE  BudgetInv'
  <2> USE DEF WorkerAt, TypeOK
  <2>1. UNCHANGED <<queue, unacked, job>>
    BY <1>4 DEF HandleRetry, PublishFailed, DbFailed, KeyDbFailed, KeyDbQueued,
       SpawnRetry
  <2>2. \A v \in Workers : pc'[v] \in Holding => pc[v] \in Holding
    BY <1>4 DEF HandleRetry, PublishFailed, DbFailed, KeyDbFailed, KeyDbQueued,
       SpawnRetry
  <2>3. \A v \in Workers : \A c \in timers'[v] :
           c \in timers[v] \/ (c = job[v] /\ pc[v] \in Holding)
    BY <1>4 DEF HandleRetry, PublishFailed, DbFailed, KeyDbFailed, KeyDbQueued,
       SpawnRetry
  <2>4. QED
    BY <2>1, <2>2, <2>3
<1>5. ASSUME NEW w \in Workers, FireRetry(w)
      PROVE  BudgetInv'
  BY <1>5 DEF FireRetry, TypeOK
<1>6. ASSUME NEW w \in Workers, LoseConnection(w) \/ CrashWorker(w)
      PROVE  BudgetInv'
  <2>1. Requeue(w)
    BY <1>6 DEF LoseConnection, CrashWorker
  <2>2. \A c \in queue' : c.retry < MaxRetryCount
    BY <2>1 DEF Requeue, TypeOK, Msg
  <2>3. \A v \in Workers : \A c \in unacked'[v] : c.retry < MaxRetryCount
    BY <2>1 DEF Requeue, TypeOK
  <2>4. \A v \in Workers : /\ timers'[v] \subseteq timers[v]
                           /\ pc'[v] \in Holding =>
                                 pc'[v] = pc[v] /\ job'[v] = job[v]
    BY <1>6 DEF LoseConnection, CrashWorker, TypeOK
  <2>5. QED
    BY <2>2, <2>3, <2>4
<1>7. ASSUME UNCHANGED vars
      PROVE  BudgetInv'
  BY <1>7 DEF vars
<1>8. QED
  BY <1>1, <1>2, <1>3, <1>4, <1>5, <1>6, <1>7 DEF Next

LEMMA TypeInvariant == Spec => [](TypeOK /\ BudgetInv)
BY TypeInit, BudgetInit, TypeStep, BudgetStep, PTL DEF Spec

\* Every reachable state is well typed, and a worker has a job exactly when it
\* is not idle.
THEOREM TypeCorrect == Spec => []TypeOK
BY TypeInvariant, PTL

\* No job that is queued, asleep or being attempted has used up its retries.
THEOREM RetriesBounded == Spec => []RetryBudget
<1>1. BudgetInv => RetryBudget
  BY DEF BudgetInv, RetryBudget, Copies, InHand, Sleeping
<1>2. QED
  BY <1>1, TypeInvariant, PTL

-----------------------------------------------------------------------------
(* Status reports.                                                         *)

\* TruthfulStatus, and what makes the writes still to come truthful: a worker
\* that is about to write "sent" has had the mail accepted, one that is about
\* to write "failed" has published it to the failed queue.
TruthInv ==
    /\ TruthfulStatus
    /\ \A w \in Workers :
          /\ pc[w] \in {"dbSent", "keydbSent"} => delivered[job[w].mail] # {}
          /\ pc[w] \in {"dbFailed", "keydbFailed"} =>
                job[w].mail \in failedQueue \cup dropped

LEMMA TruthInit == Init => TruthInv
BY DEF Init, TruthInv, TruthfulStatus

LEMMA TruthInvClient ==
  ASSUME TypeOK, TruthInv, NEW m \in Mails,
         Submit(m) \/ Cancel(m) \/ CrashHandler(m) \/ ExpireStatus(m)
  PROVE  TruthInv'
<1> USE DEF TypeOK, TruthInv, TruthfulStatus, Msg
<1>1. CASE CreateMail(m)
  BY <1>1 DEF CreateMail, HandlerAt
<1>2. CASE PublishMail(m)
  BY <1>2 DEF PublishMail, HandlerAt
<1>3. CASE MarkFailed(m)
  BY <1>3 DEF MarkFailed, HandlerAt, SetDbStatus
<1>4. CASE SetQueued(m)
  BY <1>4 DEF SetQueued, HandlerAt, SetStatus
<1>5. CASE CancelRead(m)
  BY <1>5 DEF CancelRead
<1>6. CASE CancelUpdate(m)
  BY <1>6 DEF CancelUpdate, SetDbStatus
<1>7. CASE CancelStatus(m)
  BY <1>7 DEF CancelStatus, SetStatus
<1>8. CASE CrashHandler(m)
  BY <1>8 DEF CrashHandler
<1>9. CASE ExpireStatus(m)
  BY <1>9 DEF ExpireStatus
<1>10. QED
  BY <1>1, <1>2, <1>3, <1>4, <1>5, <1>6, <1>7, <1>8, <1>9 DEF Submit, Cancel

LEMMA TruthInvWorker ==
  ASSUME TypeOK, TruthInv, NEW w \in Workers,
         \/ Deliver(w) \/ HandleMessage(w) \/ HandleRetry(w)
         \/ FireRetry(w) \/ LoseConnection(w) \/ CrashWorker(w)
  PROVE  TruthInv'
<1> USE DEF TypeOK, TruthInv, TruthfulStatus, Msg, WorkerAt
<1>1. CASE Deliver(w)
  BY <1>1 DEF Deliver
<1>2. CASE CheckCancelled(w)
  BY <1>2 DEF CheckCancelled
<1>3. CASE KeyDbProcessing(w)
  BY <1>3 DEF KeyDbProcessing, SetStatus
<1>4. CASE DbProcessing(w)
  BY <1>4 DEF DbProcessing, SetDbStatus
<1>5. CASE SendAccepted(w)
  BY <1>5 DEF SendAccepted
<1>6. CASE SendRefused(w)
  BY <1>6 DEF SendRefused, AfterFailure
<1>7. CASE SendAmbiguous(w)
  BY <1>7 DEF SendAmbiguous, AfterFailure
<1>8. CASE DbSent(w)
  BY <1>8 DEF DbSent, SetDbStatus
<1>9. CASE KeyDbSent(w)
  BY <1>9 DEF KeyDbSent, SetStatus
<1>10. CASE Ack(w)
  BY <1>10 DEF Ack
<1>11. CASE PublishFailed(w)
  BY <1>11 DEF PublishFailed
<1>12. CASE DbFailed(w)
  BY <1>12 DEF DbFailed, SetDbStatus
<1>13. CASE KeyDbFailed(w)
  BY <1>13 DEF KeyDbFailed, SetStatus
<1>14. CASE KeyDbQueued(w)
  BY <1>14 DEF KeyDbQueued, SetStatus
<1>15. CASE SpawnRetry(w)
  BY <1>15 DEF SpawnRetry
<1>16. CASE FireRetry(w)
  BY <1>16 DEF FireRetry
<1>17. CASE LoseConnection(w)
  BY <1>17 DEF LoseConnection, Requeue
<1>18. CASE CrashWorker(w)
  BY <1>18 DEF CrashWorker, Requeue
<1>19. QED
  BY <1>1, <1>2, <1>3, <1>4, <1>5, <1>6, <1>7, <1>8, <1>9, <1>10, <1>11,
     <1>12, <1>13, <1>14, <1>15, <1>16, <1>17, <1>18
     DEF HandleMessage, HandleRetry

LEMMA TruthInvStep == TypeOK /\ TruthInv /\ [Next]_vars => TruthInv'
<1> SUFFICES ASSUME TypeOK, TruthInv, [Next]_vars
             PROVE  TruthInv'
  OBVIOUS
<1>1. CASE Next
  BY <1>1, TruthInvClient, TruthInvWorker DEF Next
<1>2. CASE UNCHANGED vars
  BY <1>2 DEF vars, TypeOK, TruthInv, TruthfulStatus, Msg
<1>3. QED
  BY <1>1, <1>2

\* Reported outcomes are true, whichever of the two stores reports them.
THEOREM StatusIsTruthful == Spec => []TruthfulStatus
<1>1. TruthInv => TruthfulStatus
  BY DEF TruthInv
<1>2. QED
  BY <1>1, TypeInvariant, TruthInit, TruthInvStep, PTL DEF Spec

-----------------------------------------------------------------------------
(* No silent loss.                                                         *)

\* Accounted counts a message as accounted for while the broker holds it for a
\* worker; that helps only if it is the message of the worker's own job.
HeldIsJob ==
    \A w \in Workers : \A u \in unacked[w] :
        pc[w] # "idle" => u.mail = job[w].mail

LEMMA HeldInit == Init => HeldIsJob
BY DEF Init, HeldIsJob

LEMMA HeldStep == TypeOK /\ HeldIsJob /\ [Next]_vars => HeldIsJob'
<1> SUFFICES ASSUME TypeOK, HeldIsJob, [Next]_vars
             PROVE  HeldIsJob'
  OBVIOUS
<1> USE DEF HeldIsJob, TypeOK
<1>1. ASSUME NEW m \in Mails,
             Submit(m) \/ Cancel(m) \/ CrashHandler(m) \/ ExpireStatus(m)
      PROVE  HeldIsJob'
  BY <1>1 DEF Submit, Cancel, CreateMail, PublishMail, MarkFailed, SetQueued,
              CancelRead, CancelUpdate, CancelStatus, CrashHandler,
              ExpireStatus
<1>2. ASSUME NEW w \in Workers,
             \/ Deliver(w) \/ HandleMessage(w) \/ HandleRetry(w)
             \/ FireRetry(w) \/ LoseConnection(w) \/ CrashWorker(w)
      PROVE  HeldIsJob'
  <2> USE DEF WorkerAt, Msg
  <2>1. CASE Deliver(w) \/ CheckCancelled(w) \/ Ack(w)
    <3>1. CASE Deliver(w)
      BY <3>1 DEF Deliver
    <3>2. CASE CheckCancelled(w)
      BY <3>2 DEF CheckCancelled
    <3>3. CASE Ack(w)
      BY <3>3 DEF Ack
    <3> QED
      BY <2>1, <3>1, <3>2, <3>3
  <2>2. CASE \/ KeyDbProcessing(w) \/ DbProcessing(w) \/ DbSent(w)
             \/ KeyDbSent(w)
    BY <2>2 DEF KeyDbProcessing, DbProcessing, DbSent, KeyDbSent
  <2>3. CASE SendAccepted(w) \/ SendRefused(w) \/ SendAmbiguous(w)
    BY <2>3 DEF SendAccepted, SendRefused, SendAmbiguous
  <2>4. CASE HandleRetry(w)
    BY <2>4 DEF HandleRetry, PublishFailed, DbFailed, KeyDbFailed,
                KeyDbQueued, SpawnRetry
  <2>5. CASE FireRetry(w) \/ LoseConnection(w) \/ CrashWorker(w)
    BY <2>5 DEF FireRetry, LoseConnection, CrashWorker, Requeue
  <2>6. QED
    BY <1>2, <2>1, <2>2, <2>3, <2>4, <2>5 DEF HandleMessage
<1>3. CASE UNCHANGED vars
  BY <1>3 DEF vars
<1>4. QED
  BY <1>1, <1>2, <1>3 DEF Next

Step(m) == Accounted(m)' \/ RetryEnds(m) \/ GivesUp(m)

\* What a step has to show: no outcome is taken back, and whatever backed the
\* mail leaves an account of it, or is one of the two losses the property names.
LEMMA Accounting ==
  ASSUME NEW m \in Mails, Accounted(m),
         delivered[m] \subseteq delivered'[m],
         failedQueue \subseteq failedQueue',
         withdrawn \subseteq withdrawn',
         \A msg \in queue : msg.mail = m => Step(m),
         \A v \in Workers : \A msg \in timers[v] : msg.mail = m => Step(m),
         \A v \in Workers :
            unacked[v] # {} /\ pc[v] \in Unfinished /\ job[v].mail = m =>
                Step(m)
  PROVE  Step(m)
<1>1. CASE delivered[m] # {} \/ m \in failedQueue \cup withdrawn
  BY <1>1 DEF Accounted, Step
<1>2. CASE Backed(m)
  BY <1>2 DEF Backed
<1>3. QED
  BY <1>1, <1>2 DEF Accounted

\* Steps that move no message and finish no job leave every account as it is.
LEMMA StillAccounted ==
  ASSUME NEW m \in Mails, Accounted(m),
         UNCHANGED <<timers, unacked, delivered, failedQueue, withdrawn>>,
         queue \subseteq queue',
         \A v \in Workers :
            unacked[v] # {} /\ pc[v] \in Unfinished /\ job[v].mail = m =>
                pc'[v] \in Unfinished /\ job'[v].mail = m
  PROVE  Accounted(m)'
BY DEF Accounted, Backed

LEMMA NoLossClient ==
  ASSUME TypeOK, NEW n \in Mails,
         Submit(n) \/ Cancel(n) \/ CrashHandler(n) \/ ExpireStatus(n),
         NEW m \in Mails, Accounted(m)
  PROVE  Step(m)
<1>1. /\ UNCHANGED <<pc, job, timers, unacked, delivered, failedQueue,
                     withdrawn>>
      /\ queue \subseteq queue'
  BY DEF Submit, Cancel, CreateMail, PublishMail, MarkFailed, SetQueued,
         CancelRead, CancelUpdate, CancelStatus, CrashHandler, ExpireStatus
<1>2. QED
  BY <1>1, StillAccounted DEF Step

\* Steps of a worker that move no message.
LEMMA NoLossQuiet ==
  ASSUME TypeOK, NEW w \in Workers,
         \/ KeyDbProcessing(w) \/ DbProcessing(w) \/ SendRefused(w)
         \/ DbSent(w) \/ KeyDbSent(w) \/ DbFailed(w) \/ KeyDbFailed(w)
         \/ KeyDbQueued(w),
         NEW m \in Mails, Accounted(m)
  PROVE  Step(m)
<1> USE DEF KeyDbProcessing, DbProcessing, SendRefused, DbSent, KeyDbSent,
            DbFailed, KeyDbFailed, KeyDbQueued, WorkerAt
<1>1. UNCHANGED <<queue, timers, unacked, delivered, failedQueue, withdrawn>>
  OBVIOUS
<1>2. \A v \in Workers : /\ job[v] \in Msg => job'[v].mail = job[v].mail
                         /\ pc[v] \in Unfinished => pc'[v] \in Unfinished
  BY DEF AfterFailure, TypeOK, Msg, Unfinished, Holding
<1>3. \A v \in Workers : pc[v] \in Unfinished => job[v] \in Msg
  BY DEF TypeOK, Unfinished, Holding
<1>4. QED
  BY <1>1, <1>2, <1>3, StillAccounted DEF Step

\* Steps that move a message, finish a job or end an account's last backing.
LEMMA NoLossMoves ==
  ASSUME TypeOK, HeldIsJob, NEW w \in Workers,
         \/ Deliver(w) \/ CheckCancelled(w) \/ SendAccepted(w)
         \/ SendAmbiguous(w) \/ Ack(w) \/ PublishFailed(w) \/ SpawnRetry(w)
         \/ FireRetry(w) \/ LoseConnection(w) \/ CrashWorker(w),
         NEW m \in Mails, Accounted(m)
  PROVE  Step(m)
<1> DEFINE Held(v)   == /\ unacked[v] # {} /\ pc[v] \in Unfinished
                        /\ job[v].mail = m
           Kept(v)   == /\ unacked'[v] # {} /\ pc'[v] \in Unfinished
                        /\ job'[v].mail = m
           Closed    == \/ delivered'[m] # {}
                        \/ m \in failedQueue' \cup withdrawn'
           Asleep    == \E v \in Workers : \E c \in timers'[v] : c.mail = m
           Queued    == \E c \in queue' : c.mail = m
<1> USE DEF WorkerAt
<1>1. /\ delivered[m] \subseteq delivered'[m]
      /\ failedQueue \subseteq failedQueue'
      /\ withdrawn \subseteq withdrawn'
  BY DEF Deliver, CheckCancelled, SendAccepted, SendAmbiguous, Ack,
         PublishFailed, SpawnRetry, FireRetry, LoseConnection, CrashWorker,
         TypeOK
<1>2. \A c \in queue : c.mail = m => Queued \/ \E v \in Workers : Kept(v)
  <2>1. CASE Deliver(w)
    <3>1. PICK d \in queue : /\ queue' = queue \ {d}
                            /\ unacked'[w] = {d} /\ job'[w] = d
                            /\ pc'[w] \in Unfinished
      BY <2>1 DEF Deliver, TypeOK, Unfinished, Holding
    <3> QED
      BY <3>1
  <2>2. CASE LoseConnection(w) \/ CrashWorker(w)
    BY <2>2 DEF LoseConnection, CrashWorker, Requeue
  <2>3. CASE \/ CheckCancelled(w) \/ SendAccepted(w) \/ SendAmbiguous(w)
             \/ Ack(w) \/ PublishFailed(w) \/ SpawnRetry(w) \/ FireRetry(w)
    <3>1. queue \subseteq queue'
      BY <2>3 DEF CheckCancelled, SendAccepted, SendAmbiguous, Ack,
                  PublishFailed, SpawnRetry, FireRetry
    <3> QED
      BY <3>1
  <2> QED
    BY <2>1, <2>2, <2>3
<1>3. \A v \in Workers : \A c \in timers[v] :
         c.mail = m => Asleep \/ RetryEnds(m)
  BY DEF RetryEnds
<1>4. \A v \in Workers :
         Held(v) => Kept(v) \/ Queued \/ Asleep \/ Closed \/ GivesUp(m)
  <2> SUFFICES ASSUME NEW v \in Workers, Held(v)
               PROVE  Kept(v) \/ Queued \/ Asleep \/ Closed \/ GivesUp(m)
    OBVIOUS
  <2>1. job[v] \in Msg /\ pc[v] # "idle" /\ job[v].mail = m
    BY DEF TypeOK, Unfinished, Holding
  <2>2. CASE LoseConnection(w) \/ CrashWorker(w)
    <3>1. PICK u \in unacked[v] : u.mail = m
      BY <2>1 DEF HeldIsJob
    <3>2. CASE v = w
      <4>1. [u EXCEPT !.tag = tags[u.mail] + 1] \in queue'
        BY <2>2, <3>1, <3>2 DEF LoseConnection, CrashWorker, Requeue
      <4>2. [u EXCEPT !.tag = tags[u.mail] + 1].mail = m
        BY <3>1 DEF TypeOK, Msg
      <4>3. QED
        BY <4>1, <4>2
    <3>3. CASE v # w
      BY <2>2, <3>3 DEF LoseConnection, CrashWorker, Requeue, TypeOK
    <3>4. QED
      BY <3>2, <3>3
  <2>3. CASE Deliver(w) \/ CheckCancelled(w)
    BY <2>1, <2>3 DEF Deliver, CheckCancelled, TypeOK, Msg, Unfinished, Holding
  <2>4. CASE SendAccepted(w) \/ SendAmbiguous(w)
    <3>1. v # w => Kept(v)
      <4>1. CASE SendAccepted(w)
        BY <4>1 DEF SendAccepted, TypeOK
      <4>2. CASE SendAmbiguous(w)
        BY <4>2 DEF SendAmbiguous, TypeOK
      <4>3. QED
        BY <2>4, <4>1, <4>2
    <3>2. job[w].tag \in delivered'[job[w].mail]
      <4>1. job[w].mail \in Mails
        BY <2>4 DEF SendAccepted, SendAmbiguous, TypeOK, Msg
      <4>2. QED
        BY <2>4, <4>1 DEF SendAccepted, SendAmbiguous, TypeOK
    <3>3. QED
      BY <2>1, <3>1, <3>2
  <2>5. CASE Ack(w) \/ SpawnRetry(w) \/ FireRetry(w)
    BY <2>1, <2>5 DEF Ack, SpawnRetry, FireRetry, TypeOK, Msg, Unfinished,
                      Holding
  <2>6. CASE PublishFailed(w)
    <3>1. CASE v = w
      BY <2>1, <2>6, <3>1 DEF PublishFailed, GivesUp, TypeOK
    <3>2. CASE v # w
      BY <2>6, <3>2 DEF PublishFailed, TypeOK
    <3>3. QED
      BY <3>1, <3>2
  <2>7. QED
    BY <2>2, <2>3, <2>4, <2>5, <2>6
<1>5. Queued \/ Asleep \/ Closed \/ (\E v \in Workers : Kept(v)) => Step(m)
  BY DEF Accounted, Backed, Step
<1>6. RetryEnds(m) \/ GivesUp(m) => Step(m)
  BY DEF Step
<1> HIDE DEF Kept, Closed, Asleep, Queued
<1>7. \A msg \in queue : msg.mail = m => Step(m)
  BY <1>2, <1>5
<1>8. \A v \in Workers : \A msg \in timers[v] : msg.mail = m => Step(m)
  BY <1>3, <1>5, <1>6
<1>9. \A v \in Workers :
         unacked[v] # {} /\ pc[v] \in Unfinished /\ job[v].mail = m => Step(m)
  BY <1>4, <1>5, <1>6 DEF Held
<1>10. QED
  BY <1>1, <1>7, <1>8, <1>9, Accounting

LEMMA NoLossStep ==
  TypeOK /\ HeldIsJob /\ [Next]_vars =>
     [\A m \in Mails : Accounted(m) =>
         Accounted(m)' \/ RetryEnds(m) \/ GivesUp(m)]_vars
<1> SUFFICES ASSUME TypeOK, HeldIsJob, Next, NEW m \in Mails, Accounted(m)
             PROVE  Accounted(m)' \/ RetryEnds(m) \/ GivesUp(m)
  OBVIOUS
<1>1. Step(m)
  BY NoLossClient, NoLossQuiet, NoLossMoves
     DEF Next, HandleMessage, HandleRetry
<1>2. QED
  BY <1>1 DEF Step

\* No mail of which there is an account disappears, except with a retry that
\* ends in memory or with a lost publish to the failed queue.
THEOREM NothingSilentlyLost == Spec => NoSilentLoss
BY TypeInvariant, HeldInit, HeldStep, NoLossStep, PTL DEF Spec, NoSilentLoss

-----------------------------------------------------------------------------
(* Cancelled mails.                                                        *)

LEMMA SettledClient ==
  ASSUME TypeOK, DbMayFail = FALSE, NEW m \in Mails, CancelSettled(m),
         NEW n \in Mails,
         Submit(n) \/ Cancel(n) \/ CrashHandler(n) \/ ExpireStatus(n)
  PROVE  CancelSettled(m)' /\ delivered'[m] = delivered[m]
<1> USE DEF CancelSettled, TypeOK, HandlerAt
<1>1. UNCHANGED <<pc, job, delivered>>
  BY DEF Submit, Cancel, CreateMail, PublishMail, MarkFailed, SetQueued,
         CancelRead, CancelUpdate, CancelStatus, CrashHandler,
         ExpireStatus
<1>2. handler'[m] \in {"status", "accepted", "rejected", "crashed"}
  BY DEF Submit, Cancel, CreateMail, PublishMail, MarkFailed, SetQueued,
         CancelRead, CancelUpdate, CancelStatus, CrashHandler,
         ExpireStatus
<1>3. dbStatus'[m] = "cancelled"
  BY DEF Submit, Cancel, CreateMail, PublishMail, MarkFailed, SetQueued,
         CancelRead, CancelUpdate, CancelStatus, CrashHandler,
         ExpireStatus, SetDbStatus
<1>4. QED
  BY <1>1, <1>2, <1>3

\* The step where the cancel bites is CheckCancelled: it reads the row, so no
\* worker gets past the check with a cancelled mail.
LEMMA SettledWorker ==
  ASSUME TypeOK, DbMayFail = FALSE, NEW m \in Mails, CancelSettled(m),
         NEW w \in Workers,
         \/ Deliver(w) \/ HandleMessage(w) \/ HandleRetry(w)
         \/ FireRetry(w) \/ LoseConnection(w) \/ CrashWorker(w)
  PROVE  CancelSettled(m)' /\ delivered'[m] = delivered[m]
<1> USE DEF CancelSettled, TypeOK, WorkerAt, PastCheck
<1>1. CASE Deliver(w)
  BY <1>1 DEF Deliver
<1>2. CASE CheckCancelled(w)
  BY <1>2 DEF CheckCancelled
<1>3. CASE KeyDbProcessing(w) \/ DbProcessing(w)
  BY <1>3 DEF KeyDbProcessing, DbProcessing, SetDbStatus
<1>4. CASE SendAccepted(w)
  BY <1>4 DEF SendAccepted
<1>5. CASE SendRefused(w)
  BY <1>5 DEF SendRefused, AfterFailure, Msg
<1>6. CASE SendAmbiguous(w)
  BY <1>6 DEF SendAmbiguous, AfterFailure
<1>7. CASE DbSent(w) \/ KeyDbSent(w) \/ Ack(w)
  BY <1>7 DEF DbSent, KeyDbSent, Ack, SetDbStatus
<1>8. CASE PublishFailed(w) \/ DbFailed(w) \/ KeyDbFailed(w)
  BY <1>8 DEF PublishFailed, DbFailed, KeyDbFailed, SetDbStatus
<1>9. CASE KeyDbQueued(w) \/ SpawnRetry(w) \/ FireRetry(w)
  BY <1>9 DEF KeyDbQueued, SpawnRetry, FireRetry
<1>10. CASE LoseConnection(w) \/ CrashWorker(w)
  BY <1>10 DEF LoseConnection, CrashWorker
<1>11. QED
  BY <1>1, <1>2, <1>3, <1>4, <1>5, <1>6, <1>7, <1>8, <1>9, <1>10
     DEF HandleMessage, HandleRetry

LEMMA SettledStep ==
  ASSUME DbMayFail = FALSE
  PROVE  TypeOK /\ [Next]_vars =>
            [\A m \in Mails : CancelSettled(m) =>
                CancelSettled(m)' /\ delivered'[m] = delivered[m]]_vars
<1> SUFFICES ASSUME TypeOK, Next, NEW m \in Mails, CancelSettled(m)
             PROVE  CancelSettled(m)' /\ delivered'[m] = delivered[m]
  OBVIOUS
<1>1. QED
  BY SettledClient, SettledWorker DEF Next

\* While no database call fails, a cancel that has settled is never undone and
\* the mail is never sent after it: retries, redeliveries and restarts of the
\* workers included.
THEOREM CancelsHold ==
  ASSUME DbMayFail = FALSE
  PROVE  Spec => CancelSticks
BY SettledStep, TypeCorrect, PTL DEF Spec, CancelSticks
=============================================================================
