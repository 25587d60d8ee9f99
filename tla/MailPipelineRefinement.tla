---------------------- MODULE MailPipelineRefinement ----------------------
(***************************************************************************)
(* Proof that MailPipeline implements MailDelivery, for any mails, workers,*)
(* retry limit and fault bounds. The argument is that a copy is in one     *)
(* place at a time: in the queue, asleep, or in the hand of one worker.    *)
(***************************************************************************)
EXTENDS MailPipelineProofs, FiniteSetTheorems

USE DEF storeVars, brokerVars, workerVars, clientVars, historyVars, faultVars

SameCopy(c, d) == c.mail = d.mail /\ c.tag = d.tag

\* A copy whose mail is decided, that is not delivered, and whose tag was given.
Live(c) ==
    /\ c.mail \notin Undecided
    /\ c.tag \notin delivered[c.mail]
    /\ c.tag <= tags[c.mail]

InHandOf(w) == pc[w] \in Holding

\* Every copy is live.
LiveInv ==
    /\ \A c \in queue : Live(c)
    /\ \A w \in Workers : \A c \in timers[w] : Live(c)
    /\ \A w \in Workers : InHandOf(w) => Live(job[w])

\* No copy is in two places.
OnceInv ==
    /\ \A c, d \in queue : SameCopy(c, d) => c = d
    /\ \A v, w \in Workers : \A c \in timers[v], d \in timers[w] :
          SameCopy(c, d) => c = d /\ v = w
    /\ \A v, w \in Workers :
          InHandOf(v) /\ InHandOf(w) /\ SameCopy(job[v], job[w]) => v = w
    /\ \A c \in queue : \A w \in Workers :
          /\ \A d \in timers[w] : ~SameCopy(c, d)
          /\ InHandOf(w) => ~SameCopy(c, job[w])
    /\ \A v, w \in Workers : \A c \in timers[v] :
          InHandOf(w) => ~SameCopy(c, job[w])

\* What the broker holds for a worker is one message at most, of a mail that
\* has been decided; and the tags delivered are tags that were given.
HeldInv ==
    /\ \A w \in Workers : \A u \in unacked[w] : u.mail \notin Undecided
    /\ \A w \in Workers : \A u, v \in unacked[w] : u = v
    /\ \A m \in Mails : \A t \in delivered[m] : t <= tags[m]
    /\ \A m \in Undecided : delivered[m] = {}

CopyInv == LiveInv /\ OnceInv /\ HeldInv

LEMMA CopyInit == Init => CopyInv
BY DEF Init, CopyInv, LiveInv, OnceInv, HeldInv, InHandOf, Holding, Undecided

\* Steps that add no copy, deliver none and open no request: copies stay where
\* they are, or vanish.
LEMMA CopyFrame ==
  ASSUME TypeOK, CopyInv, TypeOK',
         queue' \subseteq queue,
         \A v \in Workers : timers'[v] \subseteq timers[v],
         \A v \in Workers : unacked'[v] \subseteq unacked[v],
         \A v \in Workers : pc'[v] \in Holding =>
            pc[v] \in Holding /\ SameCopy(job'[v], job[v]),
         Undecided' \subseteq Undecided,
         UNCHANGED <<delivered, tags>>
  PROVE  CopyInv'
<1>1. LiveInv'
  BY DEF TypeOK, CopyInv, LiveInv, Live, InHandOf, SameCopy
<1>2. OnceInv'
  BY DEF TypeOK, CopyInv, OnceInv, InHandOf, SameCopy
<1>3. HeldInv'
  BY DEF TypeOK, CopyInv, HeldInv
<1>4. QED
  BY <1>1, <1>2, <1>3 DEF CopyInv
LEMMA CopyClient ==
  ASSUME TypeOK, CopyInv, TypeOK', NEW m \in Mails,
         Submit(m) \/ Cancel(m) \/ CrashHandler(m) \/ ExpireStatus(m)
  PROVE  CopyInv'
<1>1. UNCHANGED <<timers, unacked, pc, job, delivered, tags>>
  BY DEF Submit, Cancel, CreateMail, PublishMail, MarkFailed, SetQueued,
         CancelRead, CancelUpdate, CancelStatus, CrashHandler,
         ExpireStatus
<1>2. Undecided' \subseteq Undecided
  BY DEF Submit, Cancel, CreateMail, PublishMail, MarkFailed, SetQueued,
         CancelRead, CancelUpdate, CancelStatus, CrashHandler,
         ExpireStatus, HandlerAt,
         Undecided, TypeOK
<1>3. CASE queue' = queue
  BY <1>1, <1>2, <1>3, CopyFrame DEF SameCopy
<1>4. CASE queue' # queue
  <2> DEFINE new == [mail |-> m, retry |-> 0, tag |-> 0]
  <2>1. PublishMail(m) /\ queue' = queue \cup {new}
    BY <1>4 DEF Submit, Cancel, CreateMail, PublishMail, MarkFailed, SetQueued,
       CancelRead, CancelUpdate, CancelStatus, CrashHandler,
       ExpireStatus
  <2>2. m \in Undecided /\ m \notin Undecided'
    BY <1>4, <2>1 DEF PublishMail, HandlerAt, Undecided, TypeOK
  <2>3. new.mail = m /\ new.tag = 0 /\ delivered[m] = {} /\ 0 <= tags[m]
    BY <2>2 DEF CopyInv, HeldInv, TypeOK
  <2> HIDE DEF new
  <2>4. LiveInv'
    BY <1>1, <1>2, <2>1, <2>2, <2>3 DEF CopyInv, LiveInv, Live, InHandOf
  <2>5. OnceInv'
    <3>1. /\ \A c \in queue : c.mail # m
          /\ \A w \in Workers : \A c \in timers[w] : c.mail # m
          /\ \A w \in Workers : InHandOf(w) => job[w].mail # m
      BY <2>2 DEF CopyInv, LiveInv, Live
    <3>2. QED
      BY <1>1, <2>1, <2>3, <3>1 DEF CopyInv, OnceInv, InHandOf, SameCopy
  <2>6. HeldInv'
    BY <1>1, <1>2 DEF CopyInv, HeldInv
  <2>7. QED
    BY <2>4, <2>5, <2>6 DEF CopyInv
<1>5. QED
  BY <1>3, <1>4

LEMMA CopyQuiet ==
  ASSUME TypeOK, CopyInv, TypeOK', NEW w \in Workers,
         \/ CheckCancelled(w) \/ KeyDbProcessing(w) \/ DbProcessing(w)
         \/ SendRefused(w) \/ DbSent(w) \/ KeyDbSent(w) \/ Ack(w)
         \/ PublishFailed(w) \/ DbFailed(w) \/ KeyDbFailed(w) \/ KeyDbQueued(w)
  PROVE  CopyInv'
<1> USE DEF CheckCancelled, KeyDbProcessing, DbProcessing, SendRefused, DbSent,
            KeyDbSent, Ack, PublishFailed, DbFailed, KeyDbFailed, KeyDbQueued,
            WorkerAt
<1>1. UNCHANGED <<handler, queue, timers, delivered, tags>>
  OBVIOUS
<1>2. \A v \in Workers : unacked'[v] \subseteq unacked[v]
  BY DEF TypeOK
<1>3. \A v \in Workers : pc'[v] \in Holding =>
         pc[v] \in Holding /\ SameCopy(job'[v], job[v])
  <2>1. \A v \in Workers \ {w} : pc'[v] = pc[v] /\ job'[v] = job[v]
    BY DEF TypeOK
  <2>2. pc'[w] \in Holding => pc[w] \in Holding /\ SameCopy(job'[w], job[w])
    <3>1. CASE SendRefused(w)
      BY <3>1 DEF TypeOK, SameCopy, Holding, Msg
    <3>2. CASE ~SendRefused(w)
      BY <3>2 DEF TypeOK, SameCopy, Holding
    <3>3. QED
      BY <3>1, <3>2
  <2>3. QED
    BY <2>1, <2>2 DEF SameCopy
<1>4. Undecided' \subseteq Undecided
  BY <1>1 DEF Undecided
<1>5. QED
  BY <1>1, <1>2, <1>3, <1>4, CopyFrame
LEMMA CopyDeliver ==
  ASSUME TypeOK, CopyInv, TypeOK', NEW w \in Workers, Deliver(w)
  PROVE  CopyInv'
<1> USE DEF Deliver, WorkerAt, TypeOK
<1>1. Undecided' = Undecided
  BY DEF Undecided
<1>3. LiveInv'
  BY <1>1
     DEF CopyInv, LiveInv, Live, OnceInv, HeldInv, InHandOf, SameCopy, Holding
<1>4. OnceInv'
  BY <1>1 DEF CopyInv, LiveInv, Live, OnceInv, InHandOf, SameCopy, Holding
<1>5. HeldInv'
  BY <1>1 DEF CopyInv, LiveInv, Live, HeldInv, InHandOf, Holding
<1>6. QED
  BY <1>3, <1>4, <1>5 DEF CopyInv

LEMMA CopySendAccepted ==
  ASSUME TypeOK, CopyInv, TypeOK', NEW w \in Workers, SendAccepted(w)
  PROVE  CopyInv'
<1> USE DEF SendAccepted, WorkerAt, TypeOK, Msg
<1>1. Undecided' = Undecided
  BY DEF Undecided
<1>3. LiveInv'
  BY <1>1
     DEF CopyInv, LiveInv, Live, OnceInv, HeldInv, InHandOf, SameCopy, Holding
<1>4. OnceInv'
  BY <1>1 DEF CopyInv, LiveInv, Live, OnceInv, InHandOf, SameCopy, Holding
<1>5. HeldInv'
  BY <1>1 DEF CopyInv, LiveInv, Live, HeldInv, InHandOf, Holding
<1>6. QED
  BY <1>3, <1>4, <1>5 DEF CopyInv

LEMMA CopySendAmbiguous ==
  ASSUME TypeOK, CopyInv, TypeOK', NEW w \in Workers, SendAmbiguous(w)
  PROVE  CopyInv'
<1> USE DEF SendAmbiguous, WorkerAt, TypeOK, Msg, AfterFailure
<1>1. Undecided' = Undecided
  BY DEF Undecided
<1>2. pc[w] \in Holding /\ job[w] \in Msg
  BY DEF Holding
<1>3. LiveInv'
  <2>1. \A c \in Msg : Live(c) /\ ~SameCopy(c, job[w]) => Live(c)'
    BY <1>1, <1>2 DEF Live, SameCopy
  <2>2. \A c \in queue' : Live(c)'
    BY <1>2, <2>1 DEF CopyInv, LiveInv, OnceInv, InHandOf
  <2>3. \A v \in Workers : \A c \in timers'[v] : Live(c)'
    BY <1>2, <2>1 DEF CopyInv, LiveInv, OnceInv, InHandOf
  <2>4. \A v \in Workers \ {w} : InHandOf(v)' =>
           Live(job[v])  /\ ~SameCopy(job[v], job[w]) /\ job[v] \in Msg
    BY <1>2 DEF CopyInv, LiveInv, OnceInv, InHandOf, Holding
  <2>5. \A v \in Workers \ {w} : job'[v] = job[v]
    OBVIOUS
  <2>6. /\ job[w].mail \in Mails /\ job[w].tag \in Nat
        /\ job[w].mail \notin Undecided /\ job[w].tag <= tags[job[w].mail]
        /\ \A t \in delivered[job[w].mail] : t <= tags[job[w].mail]
    BY <1>2 DEF CopyInv, LiveInv, Live, HeldInv, InHandOf
  <2>7. LET m == job[w].mail IN
        /\ job'[w].mail = m /\ job'[w].tag = tags[m] + 1
        /\ delivered'[m] = delivered[m] \cup {job[w].tag}
        /\ tags'[m] = tags[m] + 1
    BY <2>6
  <2>8. \A v \in Workers : InHandOf(v)' => Live(job[v])'
    <3>1. Live(job[w])'
      BY <1>1, <2>6, <2>7 DEF Live
    <3>2. \A v \in Workers \ {w} : InHandOf(v)' => Live(job[v])'
      BY <2>1, <2>4, <2>5 DEF Live
    <3>3. QED
      BY <3>1, <3>2
  <2>9. QED
    BY <2>2, <2>3, <2>8 DEF LiveInv
<1>4. OnceInv'
  BY <1>1 DEF CopyInv, LiveInv, Live, OnceInv, InHandOf, SameCopy, Holding
<1>5. HeldInv'
  BY <1>1 DEF CopyInv, LiveInv, Live, HeldInv, InHandOf, Holding
<1>6. QED
  BY <1>3, <1>4, <1>5 DEF CopyInv

LEMMA CopySpawnRetry ==
  ASSUME TypeOK, CopyInv, TypeOK', NEW w \in Workers, SpawnRetry(w)
  PROVE  CopyInv'
<1> USE DEF SpawnRetry, WorkerAt, TypeOK, Msg
<1>1. Undecided' = Undecided
  BY DEF Undecided
<1>3. LiveInv'
  BY <1>1
     DEF CopyInv, LiveInv, Live, OnceInv, HeldInv, InHandOf, SameCopy, Holding
<1>4. OnceInv'
  BY <1>1 DEF CopyInv, LiveInv, Live, OnceInv, InHandOf, SameCopy, Holding
<1>5. HeldInv'
  BY <1>1 DEF CopyInv, LiveInv, Live, HeldInv, InHandOf, Holding
<1>6. QED
  BY <1>3, <1>4, <1>5 DEF CopyInv

LEMMA CopyFireRetry ==
  ASSUME TypeOK, CopyInv, TypeOK', NEW w \in Workers, FireRetry(w)
  PROVE  CopyInv'
<1> USE DEF FireRetry, WorkerAt, TypeOK, Msg
<1>1. Undecided' = Undecided
  BY DEF Undecided
<1>3. LiveInv'
  BY <1>1
     DEF CopyInv, LiveInv, Live, OnceInv, HeldInv, InHandOf, SameCopy, Holding
<1>4. OnceInv'
  BY SMTT(30), <1>1 DEF CopyInv, LiveInv, Live, OnceInv, InHandOf,
                        SameCopy, Holding
<1>5. HeldInv'
  BY <1>1 DEF CopyInv, LiveInv, Live, HeldInv, InHandOf, Holding
<1>6. QED
  BY <1>3, <1>4, <1>5 DEF CopyInv
\* The broker gives the message it puts back a tag of its own.
LEMMA CopyFault ==
  ASSUME TypeOK, CopyInv, TypeOK', NEW w \in Workers,
         LoseConnection(w) \/ CrashWorker(w)
  PROVE  CopyInv'
<1>1. /\ Undecided' = Undecided /\ delivered' = delivered
      /\ Requeue(w)
      /\ \A v \in Workers : timers'[v] \subseteq timers[v]
      /\ \A v \in Workers : unacked'[v] \subseteq unacked[v]
      /\ \A v \in Workers : InHandOf(v)' => InHandOf(v) /\ job'[v] = job[v]
  BY SMTT(30) DEF LoseConnection, CrashWorker, Requeue, Undecided,
                  InHandOf, Holding, TypeOK
<1>2. \A m \in Mails : tags[m] <= tags'[m]
  BY <1>1 DEF Requeue, TypeOK
<1>3. \A c \in Msg : Live(c) => Live(c)'
  BY <1>1, <1>2 DEF Live, TypeOK, Msg
<1>4. /\ queue \subseteq Msg
      /\ \A v \in Workers : timers[v] \subseteq Msg
      /\ \A v \in Workers : InHandOf(v) => job[v] \in Msg
  BY DEF TypeOK, InHandOf, Holding
<1>5. CASE unacked[w] = {}
  <2>1. queue' = queue
    BY <1>1, <1>5 DEF Requeue
  <2>2. LiveInv'
    BY <1>1, <1>3, <1>4, <2>1 DEF CopyInv, LiveInv, Live
  <2>3. OnceInv'
    BY <1>1, <2>1 DEF CopyInv, OnceInv, InHandOf
  <2>4. HeldInv'
    BY <1>1, <1>2 DEF CopyInv, HeldInv, TypeOK, Undecided
  <2>5. QED
    BY <2>2, <2>3, <2>4 DEF CopyInv
<1>6. CASE unacked[w] # {}
  <2>1. PICK u \in unacked[w] : unacked[w] = {u}
    BY <1>6 DEF CopyInv, HeldInv
  <2>2. u \in Msg /\ u.mail \in Mails /\ u.mail \notin Undecided
    BY <2>1 DEF CopyInv, HeldInv, TypeOK, Msg
  <2>a. PICK new : new = [u EXCEPT !.tag = tags[u.mail] + 1]
    OBVIOUS
  <2>3. queue' = queue \cup {new} /\ tags'[u.mail] = tags[u.mail] + 1
    BY <1>1, <2>1, <2>2, <2>a DEF Requeue
  <2>4. new.mail = u.mail /\ new.tag = tags[u.mail] + 1
    BY <2>2, <2>a DEF Msg
  <2>5. \A t \in delivered[u.mail] : t <= tags[u.mail]
    BY <2>2 DEF CopyInv, HeldInv
  <2>6. \A c \in Msg : Live(c) => ~SameCopy(c, new) /\ ~SameCopy(new, c)
    BY <2>2, <2>4 DEF Live, SameCopy, TypeOK, Msg
  <2>7. \A c \in queue' : Live(c)'
    <3>1. \A c \in queue : Live(c)'
      BY <1>3, <1>4 DEF CopyInv, LiveInv
    <3>2. Live(new)'
      <4>1. new.mail \in Mails /\ tags[new.mail] \in Nat
        BY <2>2, <2>4 DEF TypeOK
      <4>2. new.tag \notin delivered[new.mail]
        BY <2>2, <2>4, <2>5, <4>1 DEF TypeOK
      <4>3. new.tag <= tags'[new.mail]
        BY <2>3, <2>4, <4>1
      <4>4. QED
        BY <1>1, <2>2, <2>4, <4>2, <4>3 DEF Live
    <3>3. QED
      BY <2>3, <3>1, <3>2
  <2>8. LiveInv'
    <3>1. \A v \in Workers : \A c \in timers'[v] : Live(c)'
      BY <1>1, <1>3, <1>4 DEF CopyInv, LiveInv
    <3>2. \A v \in Workers : InHandOf(v)' => Live(job[v])'
      BY <1>1, <1>3, <1>4 DEF CopyInv, LiveInv, Live
    <3>3. QED
      BY <2>7, <3>1, <3>2 DEF LiveInv
  <2>9. OnceInv'
    <3>1. \A c \in queue : ~SameCopy(c, new) /\ ~SameCopy(new, c)
      BY <1>4, <2>6 DEF CopyInv, LiveInv
    <3>2. \A v \in Workers : \A c \in timers[v] : ~SameCopy(new, c)
      BY <1>4, <2>6 DEF CopyInv, LiveInv
    <3>3. \A v \in Workers : InHandOf(v) => ~SameCopy(new, job[v])
      BY <1>4, <2>6 DEF CopyInv, LiveInv
    <3>4. QED
      BY <1>1, <2>3, <3>1, <3>2, <3>3 DEF CopyInv, OnceInv, InHandOf
  <2>10. HeldInv'
    BY <1>1, <1>2 DEF CopyInv, HeldInv, TypeOK, Undecided
  <2>11. QED
    BY <2>8, <2>9, <2>10 DEF CopyInv
<1>7. QED
  BY <1>5, <1>6

LEMMA CopyStep == TypeOK /\ CopyInv /\ [Next]_vars /\ TypeOK' => CopyInv'
<1> SUFFICES ASSUME TypeOK, CopyInv, [Next]_vars, TypeOK'
             PROVE  CopyInv'
  OBVIOUS
<1>1. CASE Next
  BY <1>1, CopyClient, CopyQuiet, CopyDeliver, CopySendAccepted,
     CopySendAmbiguous, CopySpawnRetry, CopyFireRetry, CopyFault
     DEF Next, HandleMessage, HandleRetry
<1>2. CASE UNCHANGED vars
  BY <1>2 DEF vars, CopyInv, LiveInv, Live, OnceInv, HeldInv, InHandOf,
              Undecided
<1>3. QED
  BY <1>1, <1>2

LEMMA CopyInvariant == Spec => []CopyInv
BY CopyInit, CopyStep, TypeCorrect, PTL DEF Spec

\* A copy that the provider accepted is never attempted again.
THEOREM NeverAttemptedAgain == Spec => []CopiesUndelivered
<1>1. CopyInv => CopiesUndelivered
  BY DEF CopyInv, LiveInv, Live, CopiesUndelivered, Copies, InHand, Sleeping,
         InHandOf
<1>2. QED
  BY <1>1, CopyInvariant, PTL

-----------------------------------------------------------------------------
(* One outcome for each mail that has had one message.                     *)

\* Copies of the mail that wait, and workers that have not finished with it.
Waiting(m) ==
    \/ \E c \in queue : c.mail = m
    \/ \E w \in Workers : \E c \in timers[w] : c.mail = m
Works(w, m) == pc[w] \in Unfinished /\ job[w].mail = m

\* The outcomes exclude each other and leave no work behind; a worker that is
\* about to give the mail up is the only one to have it.
OneMail(m) ==
    /\ m \in Undecided => ~HasOutcome(m) /\ \A w \in Workers : ~Works(w, m)
    /\ delivered[m] # {} => m \notin failedQueue \cup withdrawn \cup dropped
    /\ m \in failedQueue => m \notin withdrawn \cup dropped
    /\ m \in withdrawn => m \notin dropped
    /\ HasOutcome(m) => ~Waiting(m) /\ \A w \in Workers : ~Works(w, m)
    /\ \A v, w \in Workers : Works(v, m) /\ Works(w, m) => v = w
    /\ \A w \in Workers : Works(w, m) => ~Waiting(m)

OneInv == \A m \in Mails : tags[m] = 0 => OneMail(m)

LEMMA OneInit == Init => OneInv
BY DEF Init, OneInv, OneMail, HasOutcome, Waiting, Works, Undecided,
       Unfinished, Holding

\* Without a second tag, what waits of a mail is one message in one place.
LEMMA OneWaits ==
  ASSUME TypeOK, CopyInv, NEW m \in Mails, tags[m] = 0
  PROVE  /\ \A c, d \in queue : c.mail = m /\ d.mail = m => c = d
         /\ \A c \in queue : \A w \in Workers : \A d \in timers[w] :
               ~(c.mail = m /\ d.mail = m)
         /\ \A v, w \in Workers : \A c \in timers[v], d \in timers[w] :
               c.mail = m /\ d.mail = m => c = d /\ v = w
<1>1. /\ \A c \in queue : c.mail = m => c.tag = 0
      /\ \A w \in Workers : \A c \in timers[w] : c.mail = m => c.tag = 0
  BY DEF TypeOK, CopyInv, LiveInv, Live, Msg
<1> QED
  BY <1>1 DEF CopyInv, OnceInv, SameCopy

\* Steps that add no work and no outcome.
LEMMA OneFrame ==
  ASSUME OneInv,
         queue' \subseteq queue,
         \A v \in Workers : timers'[v] \subseteq timers[v],
         \A v \in Workers : pc'[v] \in Unfinished =>
            pc[v] \in Unfinished /\ job'[v].mail = job[v].mail,
         Undecided' \subseteq Undecided,
         \A m \in Mails : tags'[m] = 0 => tags[m] = 0,
         \A m \in Mails : tags'[m] = 0 => delivered'[m] = delivered[m],
         UNCHANGED <<failedQueue, withdrawn, dropped>>
  PROVE  OneInv'
<1> SUFFICES ASSUME NEW m \in Mails, OneMail(m), tags'[m] = 0,
                    delivered'[m] = delivered[m]
             PROVE  OneMail(m)'
  BY DEF OneInv
<1>1. HasOutcome(m)' <=> HasOutcome(m)
  BY DEF HasOutcome
<1>2. Waiting(m)' => Waiting(m)
  BY DEF Waiting
<1>3. \A v \in Workers : Works(v, m)' => Works(v, m)
  BY DEF Works
<1> QED
  BY <1>1, <1>2, <1>3 DEF OneMail

LEMMA OneClient ==
  ASSUME TypeOK, CopyInv, OneInv, NEW n \in Mails,
         Submit(n) \/ Cancel(n) \/ CrashHandler(n) \/ ExpireStatus(n)
  PROVE  OneInv'
<1>1. /\ UNCHANGED <<timers, unacked, pc, job, delivered, tags, failedQueue,
                     withdrawn>>
      /\ PublishMail(n) \/ UNCHANGED <<queue, dropped>>
  BY DEF Submit, Cancel, CreateMail, PublishMail, MarkFailed, SetQueued,
         CancelRead, CancelUpdate, CancelStatus, CrashHandler,
         ExpireStatus
<1>2. Undecided' \subseteq Undecided
  BY DEF Submit, Cancel, CreateMail, PublishMail, MarkFailed, SetQueued,
         CancelRead, CancelUpdate, CancelStatus, CrashHandler,
         ExpireStatus, HandlerAt, Undecided, TypeOK
<1>3. CASE UNCHANGED <<queue, dropped>>
  BY <1>1, <1>2, <1>3, OneFrame
<1>4. CASE PublishMail(n)
  <2>1. n \in Undecided /\ n \notin Undecided'
    BY <1>4 DEF PublishMail, HandlerAt, Undecided, TypeOK
  <2>2. ~Waiting(n)
    BY <2>1 DEF CopyInv, LiveInv, Live, Waiting
  <2> SUFFICES ASSUME NEW m \in Mails, tags[m] = 0, OneMail(m)
               PROVE  OneMail(m)'
    BY <1>1 DEF OneInv
  <2>3. \A w \in Workers : Works(w, m)' <=> Works(w, m)
    BY <1>1 DEF Works
  <2>4. CASE m = n
    <3>1. ~HasOutcome(m) /\ \A w \in Workers : ~Works(w, m)
      BY <2>1, <2>4 DEF OneMail
    <3>2. Waiting(m)' => UNCHANGED dropped
      BY <1>1, <1>4, <2>2, <2>4 DEF PublishMail, Waiting
    <3> QED
      BY <1>1, <2>1, <2>3, <2>4, <3>1, <3>2 DEF OneMail, HasOutcome
  <2>5. CASE m # n
    <3>1. Waiting(m)' <=> Waiting(m)
      BY <1>1, <1>4, <2>5 DEF PublishMail, Waiting
    <3>2. HasOutcome(m)' <=> HasOutcome(m)
      BY <1>1, <1>4, <2>5 DEF PublishMail, HasOutcome
    <3>3. m \in dropped' <=> m \in dropped
      BY <1>4, <2>5 DEF PublishMail
    <3> QED
      BY <1>1, <1>2, <2>3, <3>1, <3>2, <3>3 DEF OneMail
  <2> QED
    BY <2>4, <2>5
<1> QED
  BY <1>1, <1>3, <1>4

LEMMA OneQuiet ==
  ASSUME TypeOK, OneInv, NEW w \in Workers,
         \/ CheckCancelled(w) /\ withdrawn' = withdrawn
         \/ KeyDbProcessing(w) \/ DbProcessing(w) \/ SendRefused(w)
         \/ SendAmbiguous(w) \/ DbSent(w) \/ KeyDbSent(w) \/ Ack(w)
         \/ DbFailed(w) \/ KeyDbFailed(w) \/ KeyDbQueued(w)
  PROVE  OneInv'
<1> USE DEF CheckCancelled, KeyDbProcessing, DbProcessing, DbSent, KeyDbSent,
            Ack, DbFailed, KeyDbFailed, KeyDbQueued, WorkerAt
<1>1. UNCHANGED <<handler, queue, timers, failedQueue, withdrawn, dropped>>
  BY DEF SendRefused, SendAmbiguous
<1>2. \A v \in Workers : pc'[v] \in Unfinished =>
         pc[v] \in Unfinished /\ job'[v].mail = job[v].mail
  <2>1. CASE SendRefused(w)
    BY <2>1 DEF SendRefused, TypeOK, Msg, Unfinished, Holding, AfterFailure
  <2>2. CASE SendAmbiguous(w)
    BY <2>2 DEF SendAmbiguous, TypeOK, Msg, Unfinished, Holding, AfterFailure
  <2>3. CASE ~SendRefused(w) /\ ~SendAmbiguous(w)
    BY <2>3 DEF TypeOK, Unfinished, Holding
  <2> QED
    BY <2>1, <2>2, <2>3
<1>3. \A m \in Mails : tags'[m] = 0 =>
          tags[m] = 0 /\ delivered'[m] = delivered[m]
  BY DEF SendRefused, SendAmbiguous, TypeOK
<1>4. Undecided' = Undecided
  BY <1>1 DEF Undecided
<1> QED
  BY <1>1, <1>2, <1>3, <1>4, OneFrame

\* A message that changes its place was no more in two places than before.
LEMMA OneMoves ==
  ASSUME TypeOK, CopyInv, OneInv, NEW w \in Workers,
         \/ Deliver(w) \/ SpawnRetry(w)
         \/ FireRetry(w) /\ dropped' = dropped
  PROVE  OneInv'
<1> USE DEF WorkerAt
<1>1. UNCHANGED <<handler, delivered, tags, failedQueue, withdrawn, dropped>>
  BY DEF Deliver, SpawnRetry, FireRetry
<1> SUFFICES ASSUME NEW m \in Mails, tags[m] = 0, OneMail(m)
             PROVE  OneMail(m)'
  BY <1>1 DEF OneInv
<1>2. Undecided' = Undecided /\ (HasOutcome(m)' <=> HasOutcome(m))
  BY <1>1 DEF Undecided, HasOutcome
<1>3. CASE Deliver(w)
  <2>1. PICK msg \in queue : /\ queue' = queue \ {msg}
                             /\ job' = [job EXCEPT ![w] = msg]
    BY <1>3 DEF Deliver
  <2>2. /\ pc[w] = "idle" /\ pc' = [pc EXCEPT ![w] = "check"]
        /\ timers' = timers
    BY <1>3 DEF Deliver
  <2>3. CASE msg.mail = m
    <3>1. Waiting(m) /\ ~HasOutcome(m) /\ \A v \in Workers : ~Works(v, m)
      BY <2>1, <2>3 DEF Waiting, OneMail
    <3>2. ~Waiting(m)'
      BY <2>1, <2>2, <2>3, OneWaits DEF Waiting
    <3>3. \A v \in Workers : Works(v, m)' => v = w
      BY <2>1, <2>2, <3>1 DEF Works, TypeOK
    <3>4. m \notin Undecided
      BY <2>1, <2>3 DEF CopyInv, LiveInv, Live
    <3> QED
      BY <1>1, <1>2, <3>1, <3>2, <3>3, <3>4 DEF OneMail, HasOutcome
  <2>4. CASE msg.mail # m
    <3>1. Waiting(m)' <=> Waiting(m)
      BY <2>1, <2>2, <2>4 DEF Waiting
    <3>2. \A v \in Workers : Works(v, m)' <=> Works(v, m)
      BY <2>1, <2>2, <2>4 DEF Works, TypeOK, Unfinished, Holding
    <3> QED
      BY <1>1, <1>2, <3>1, <3>2 DEF OneMail
  <2> QED
    BY <2>3, <2>4
<1>4. CASE SpawnRetry(w)
  <2>1. /\ pc[w] = "spawn" /\ pc' = [pc EXCEPT ![w] = "ack"]
        /\ timers' = [timers EXCEPT ![w] = @ \cup {job[w]}]
        /\ UNCHANGED <<queue, job>>
    BY <1>4 DEF SpawnRetry
  <2>2. \A v \in Workers : Works(v, m)' <=> Works(v, m) /\ v # w
    BY <2>1 DEF Works, TypeOK, Unfinished, Holding
  <2>3. Waiting(m)' <=> Waiting(m) \/ job[w].mail = m
    BY <2>1 DEF Waiting, TypeOK
  <2>4. job[w].mail = m => Works(w, m)
    BY <2>1 DEF Works, Unfinished, Holding
  <2> QED
    BY <1>1, <1>2, <2>2, <2>3, <2>4 DEF OneMail
<1>5. CASE FireRetry(w) /\ dropped' = dropped
  <2>1. Waiting(m)' => Waiting(m)
    BY <1>5 DEF FireRetry, Waiting, TypeOK
  <2>2. \A v \in Workers : Works(v, m)' <=> Works(v, m)
    BY <1>5 DEF FireRetry, Works
  <2> QED
    BY <1>1, <1>2, <2>1, <2>2 DEF OneMail
<1> QED
  BY <1>3, <1>4, <1>5

\* A worker finishes with a mail and leaves an outcome.
LEMMA OneFinishes ==
  ASSUME TypeOK, CopyInv, OneInv, NEW w \in Workers,
         \/ CheckCancelled(w) /\ pc'[w] = "ack"
         \/ SendAccepted(w) \/ PublishFailed(w)
  PROVE  OneInv'
<1> USE DEF CheckCancelled, SendAccepted, PublishFailed, WorkerAt
<1>1. UNCHANGED <<handler, queue, timers, job, tags>>
  OBVIOUS
<1>2. pc[w] \in Unfinished /\ pc'[w] \notin Unfinished
  BY DEF TypeOK, Unfinished, Holding
<1>3. \A v \in Workers \ {w} : pc'[v] = pc[v]
  BY DEF TypeOK
<1> SUFFICES ASSUME NEW m \in Mails, tags[m] = 0, OneMail(m)
             PROVE  OneMail(m)'
  BY <1>1 DEF OneInv
<1>4. Undecided' = Undecided /\ (Waiting(m)' <=> Waiting(m))
  BY <1>1 DEF Undecided, Waiting
<1>5. \A v \in Workers : Works(v, m)' <=> Works(v, m) /\ v # w
  BY <1>1, <1>2, <1>3 DEF Works
<1>6. job[w] \in Msg
  BY DEF TypeOK
<1>7. CASE job[w].mail = m
  <2>1. Works(w, m) /\ ~Waiting(m) /\ ~HasOutcome(m) /\ m \notin Undecided
    BY <1>2, <1>7 DEF Works, OneMail
  <2>2. \A v \in Workers : ~Works(v, m)'
    BY <1>5, <2>1 DEF OneMail
  <2>3. /\ delivered'[m] # {} =>
               m \notin failedQueue' \cup withdrawn' \cup dropped'
        /\ m \in failedQueue' => m \notin withdrawn' \cup dropped'
        /\ m \in withdrawn' => m \notin dropped'
    BY <2>1 DEF HasOutcome
  <2> QED
    BY <1>4, <2>1, <2>2, <2>3 DEF OneMail
<1>8. CASE job[w].mail # m
  <2>1. /\ delivered'[m] = delivered[m]
        /\ m \in failedQueue' <=> m \in failedQueue
        /\ m \in withdrawn' <=> m \in withdrawn
        /\ m \in dropped' <=> m \in dropped
    BY <1>8 DEF TypeOK
  <2>2. HasOutcome(m)' <=> HasOutcome(m)
    BY <2>1 DEF HasOutcome
  <2> QED
    BY <1>4, <1>5, <2>1, <2>2 DEF OneMail
<1> QED
  BY <1>7, <1>8

\* A retry that cannot be published, or dies in its sleep.
LEMMA OneDrops ==
  ASSUME TypeOK, CopyInv, OneInv, NEW m \in Mails, tags[m] = 0, tags'[m] = 0,
         NEW w \in Workers, NEW c \in timers[w], c.mail = m,
         ~Waiting(m)',
         \A v \in Workers : Works(v, m)' => Works(v, m),
         m \in dropped',
         UNCHANGED <<handler, delivered, failedQueue, withdrawn>>
  PROVE  OneMail(m)'
<1>1. Waiting(m)
  BY DEF Waiting
<1>2. ~HasOutcome(m) /\ \A v \in Workers : ~Works(v, m)
  BY <1>1 DEF OneInv, OneMail
<1>3. m \notin Undecided /\ Undecided' = Undecided
  BY DEF CopyInv, LiveInv, Live, Undecided
<1> QED
  BY <1>2, <1>3 DEF OneMail, HasOutcome

LEMMA OneLosesRetry ==
  ASSUME TypeOK, CopyInv, OneInv, NEW w \in Workers,
         FireRetry(w), dropped' # dropped
  PROVE  OneInv'
<1>1. PICK c \in timers[w] : /\ timers' = [timers EXCEPT ![w] = @ \ {c}]
                             /\ dropped' = dropped \cup {c.mail}
                             /\ UNCHANGED queue
  BY DEF FireRetry
<1>2. UNCHANGED <<handler, pc, job, delivered, tags, failedQueue, withdrawn>>
  BY DEF FireRetry
<1> SUFFICES ASSUME NEW m \in Mails, tags[m] = 0, OneMail(m)
             PROVE  OneMail(m)'
  BY <1>2 DEF OneInv
<1>3. \A v \in Workers : Works(v, m)' <=> Works(v, m)
  BY <1>2 DEF Works
<1>4. CASE c.mail = m
  <2>1. ~Waiting(m)'
    BY <1>1, <1>4, OneWaits DEF Waiting, TypeOK
  <2> QED
    BY <1>1, <1>2, <1>3, <1>4, <2>1, OneDrops
<1>5. CASE c.mail # m
  <2>1. Waiting(m)' <=> Waiting(m)
    BY <1>1, <1>5 DEF Waiting, TypeOK
  <2>2. m \in dropped' <=> m \in dropped
    BY <1>1, <1>5
  <2>3. Undecided' = Undecided /\ (HasOutcome(m)' <=> HasOutcome(m))
    BY <1>2, <2>2 DEF Undecided, HasOutcome
  <2> QED
    BY <1>2, <1>3, <2>1, <2>2, <2>3 DEF OneMail
<1> QED
  BY <1>4, <1>5

\* Of what the broker puts back nothing is said; what a crash takes from the
\* timers was the last of its mail.
LEMMA OneFault ==
  ASSUME TypeOK, CopyInv, OneInv, NEW w \in Workers,
         LoseConnection(w) \/ CrashWorker(w)
  PROVE  OneInv'
<1>1. /\ Requeue(w)
      /\ UNCHANGED <<handler, delivered, failedQueue, withdrawn>>
  BY DEF LoseConnection, CrashWorker
<1>2. \A v \in Workers : pc'[v] \in Unfinished =>
         pc[v] \in Unfinished /\ job'[v].mail = job[v].mail
  BY DEF LoseConnection, CrashWorker, TypeOK, Unfinished, Holding
<1> SUFFICES ASSUME NEW m \in Mails, tags'[m] = 0
             PROVE  OneMail(m)'
  BY DEF OneInv
<1>3. tags[m] = 0 /\ OneMail(m) /\ \A u \in unacked[w] : u.mail # m
  BY <1>1 DEF Requeue, OneInv, TypeOK
<1>4. \A c \in queue' : c.mail = m => c \in queue
  BY <1>1, <1>3 DEF Requeue, TypeOK, Msg
<1>5. \A v \in Workers : Works(v, m)' => Works(v, m)
  BY <1>2 DEF Works
<1>6. Undecided' = Undecided
  BY <1>1 DEF Undecided
<1>7. CASE \E c \in timers[w] : c.mail = m /\ CrashWorker(w)
  <2>1. PICK c \in timers[w] : c.mail = m
    BY <1>7
  <2>2. timers' = [timers EXCEPT ![w] = {}] /\ m \in dropped'
    BY <1>7 DEF CrashWorker
  <2>3. ~Waiting(m)'
    BY <1>3, <1>4, <2>1, <2>2, OneWaits DEF Waiting, TypeOK
  <2> QED
    BY <1>1, <1>3, <1>5, <2>1, <2>2, <2>3, OneDrops
<1>8. CASE ~\E c \in timers[w] : c.mail = m /\ CrashWorker(w)
  <2>1. m \in dropped' <=> m \in dropped
    BY <1>8 DEF LoseConnection, CrashWorker
  <2>2. \A v \in Workers : timers'[v] \subseteq timers[v]
    BY DEF LoseConnection, CrashWorker, TypeOK
  <2>3. Waiting(m)' => Waiting(m)
    BY <1>4, <2>2 DEF Waiting
  <2>4. HasOutcome(m)' <=> HasOutcome(m)
    BY <1>1, <2>1 DEF HasOutcome
  <2> QED
    BY <1>1, <1>3, <1>5, <1>6, <2>1, <2>3, <2>4 DEF OneMail
<1> QED
  BY <1>7, <1>8

LEMMA OneStep == TypeOK /\ CopyInv /\ OneInv /\ [Next]_vars => OneInv'
<1> SUFFICES ASSUME TypeOK, CopyInv, OneInv, [Next]_vars
             PROVE  OneInv'
  OBVIOUS
<1>1. CASE \E m \in Mails :
              Submit(m) \/ Cancel(m) \/ CrashHandler(m) \/ ExpireStatus(m)
  BY <1>1, OneClient
<1>2. ASSUME NEW w \in Workers, HandleMessage(w)
      PROVE  OneInv'
  <2>1. CheckCancelled(w) => pc'[w] = "ack" \/ withdrawn' = withdrawn
    BY DEF CheckCancelled, WorkerAt, TypeOK
  <2> QED
    BY <1>2, <2>1, OneQuiet, OneFinishes DEF HandleMessage
<1>3. ASSUME NEW w \in Workers, HandleRetry(w)
      PROVE  OneInv'
  BY <1>3, OneQuiet, OneMoves, OneFinishes DEF HandleRetry
<1>4. ASSUME NEW w \in Workers,
             \/ Deliver(w) \/ FireRetry(w)
             \/ LoseConnection(w) \/ CrashWorker(w)
      PROVE  OneInv'
  BY <1>4, OneMoves, OneLosesRetry, OneFault
<1>5. CASE UNCHANGED vars
  BY <1>5, OneFrame DEF vars, Undecided
<1> QED
  BY <1>1, <1>2, <1>3, <1>4, <1>5 DEF Next

LEMMA OneInvariant == Spec => []OneInv
BY OneInit, OneStep, TypeCorrect, CopyInvariant, PTL DEF Spec

\* A mail of which nothing was redelivered and whose answers were all seen has
\* one outcome at most, and after it no copy is left.
THEOREM OutcomeIsFinal == Spec => []OneOutcome
<1>1. OneInv => OneOutcome
  <2> SUFFICES ASSUME NEW m \in Mails, OneMail(m)
               PROVE  /\ delivered[m] # {} =>
                             m \notin failedQueue \cup withdrawn \cup dropped
                      /\ m \in failedQueue => m \notin withdrawn \cup dropped
                      /\ m \in withdrawn => m \notin dropped
                      /\ HasOutcome(m) => \A c \in Copies : c.mail # m
    BY DEF OneInv, OneOutcome
  <2>1. HasOutcome(m) => \A c \in Copies : c.mail # m
    BY DEF OneMail, Copies, InHand, Sleeping, Waiting, Works, Unfinished
  <2> QED
    BY <2>1 DEF OneMail
<1> QED
  BY <1>1, OneInvariant, PTL

-----------------------------------------------------------------------------
(* The refinement.                                                         *)

\* Tag t of mail m is in one of the three places.
TagLive(m, t) ==
    \/ \E c \in queue : c.mail = m /\ c.tag = t
    \/ \E w \in Workers : \E c \in timers[w] : c.mail = m /\ c.tag = t
    \/ \E w \in Workers : InHandOf(w) /\ job[w].mail = m /\ job[w].tag = t

LEMMA LiveTagsByPlace ==
  /\ \A m \in Mails : \A t : t \in LiveTags[m] <=> TagLive(m, t)
  /\ \A m \in Mails : \A t : t \in LiveTags'[m] <=> TagLive(m, t)'
<1>1. \A m \in Mails : \A t : t \in LiveTags[m] <=> TagLive(m, t)
  BY DEF LiveTags, TagLive, Copies, InHand, Sleeping, InHandOf
<1>2. \A m \in Mails : \A t : t \in LiveTags'[m] <=> TagLive(m, t)'
  BY DEF LiveTags, TagLive, Copies, InHand, Sleeping, InHandOf
<1>3. QED
  BY <1>1, <1>2

LEMMA LiveStays ==
  ASSUME \A m \in Mails : \A t : TagLive(m, t)' <=> TagLive(m, t)
  PROVE  LiveTags' = LiveTags
<1>1. \A m \in Mails : LiveTags'[m] = LiveTags[m]
  BY LiveTagsByPlace
<1>2. QED
  BY <1>1 DEF LiveTags

LEMMA LiveLoses ==
  ASSUME NEW n \in Mails, NEW s,
         \A m \in Mails : \A t :
            TagLive(m, t)' <=> TagLive(m, t) /\ ~(m = n /\ t = s)
  PROVE  LiveTags' = [LiveTags EXCEPT ![n] = @ \ {s}]
<1>1. \A m \in Mails : LiveTags'[m] = IF m = n THEN LiveTags[m] \ {s}
                                              ELSE LiveTags[m]
  BY LiveTagsByPlace
<1>2. QED
  BY <1>1 DEF LiveTags

LEMMA LiveMoves ==
  ASSUME NEW n \in Mails, NEW s, NEW u,
         \A m \in Mails : \A t :
            TagLive(m, t)' <=> \/ TagLive(m, t) /\ ~(m = n /\ t = s)
                               \/ m = n /\ t = u
  PROVE  LiveTags' = [LiveTags EXCEPT ![n] = (@ \ {s}) \cup {u}]
<1>1. \A m \in Mails :
         LiveTags'[m] = IF m = n THEN (LiveTags[m] \ {s}) \cup {u}
                                 ELSE LiveTags[m]
  BY LiveTagsByPlace
<1>2. QED
  BY <1>1 DEF LiveTags

LEMMA RefineInit == Init => Delivery!DInit
<1> SUFFICES ASSUME Init
             PROVE  Delivery!DInit
  OBVIOUS
<1>1. LiveTags = [m \in Mails |-> {}]
  BY DEF Init, LiveTags, Copies, InHand, Sleeping, Holding
<1>2. Undecided = Mails
  BY DEF Init, Undecided
<1>3. QED
  BY <1>1, <1>2 DEF Init, Delivery!DInit

\* Nothing that MailDelivery sees of the pipeline changes.
Stutter ==
    UNCHANGED <<Undecided, LiveTags, delivered, tags, crashes + lostConns>>

\* Submission: publishing admits the mail; a request that fails before that, or
\* whose message is lost, refuses it.
LEMMA RefineClient ==
  ASSUME TypeOK, CopyInv, NEW m \in Mails,
         Submit(m) \/ Cancel(m) \/ CrashHandler(m) \/ ExpireStatus(m)
  PROVE  Delivery!DNext \/ Stutter
<1> USE DEF HandlerAt
<1>1. UNCHANGED <<timers, pc, job, delivered, tags, lostConns>>
  BY DEF Submit, Cancel, CreateMail, PublishMail, MarkFailed, SetQueued,
         CancelRead, CancelUpdate, CancelStatus, CrashHandler,
         ExpireStatus
<1>2. queue' = queue => LiveTags' = LiveTags
  BY <1>1, LiveStays DEF TagLive, InHandOf
<1>3. CASE PublishMail(m)
  <2>1. m \in Undecided /\ Undecided' = Undecided \ {m}
    BY <1>3 DEF PublishMail, Undecided, TypeOK
  <2>2. CASE queue' = queue
    BY <1>1, <1>2, <1>3, <2>1, <2>2
       DEF PublishMail, Delivery!DNext, Delivery!Refuse
  <2>3. CASE queue' = queue \cup {[mail |-> m, retry |-> 0, tag |-> 0]}
    <3>1. \A n \in Mails : \A t :
             TagLive(n, t)' <=> TagLive(n, t) \/ (n = m /\ t = 0)
      <4>1. PICK new : new = [mail |-> m, retry |-> 0, tag |-> 0]
        OBVIOUS
      <4>2. queue' = queue \cup {new} /\ new.mail = m /\ new.tag = 0
        BY <2>3, <4>1
      <4>3. QED
        BY <1>1, <4>2 DEF TagLive, InHandOf
    <3>2. \A t : ~TagLive(m, t)
      BY <2>1 DEF TagLive, CopyInv, LiveInv, Live
    <3>3. LiveTags' = [LiveTags EXCEPT ![m] = {0}]
      <4>1. \A n \in Mails : LiveTags'[n] = IF n = m THEN {0} ELSE LiveTags[n]
        BY <3>1, <3>2, LiveTagsByPlace
      <4>2. QED
        BY <4>1 DEF LiveTags
    <3>4. QED
      BY <1>1, <1>3, <2>1, <3>3
         DEF PublishMail, Delivery!DNext, Delivery!Admit
  <2>4. QED
    BY <1>3, <2>2, <2>3 DEF PublishMail
<1>4. CASE CreateMail(m)
  <2>1. CASE handler'[m] = "publish"
    BY <1>1, <1>2, <1>4, <2>1 DEF CreateMail, Undecided, TypeOK, Stutter
  <2>2. CASE handler'[m] = "rejected"
    <3>1. m \in Undecided /\ Undecided' = Undecided \ {m}
      BY <1>4, <2>2 DEF CreateMail, Undecided, TypeOK
    <3>2. QED
      BY <1>1, <1>2, <1>4, <3>1
         DEF CreateMail, Delivery!DNext, Delivery!Refuse
  <2>3. QED
    BY <1>4, <2>1, <2>2 DEF CreateMail, TypeOK
<1>5. CASE MarkFailed(m) \/ SetQueued(m)
  <2>1. Undecided' = Undecided
    BY <1>5 DEF MarkFailed, SetQueued, Undecided, TypeOK
  <2>2. QED
    BY <1>1, <1>2, <1>5, <2>1 DEF MarkFailed, SetQueued, Stutter
<1>6. CASE Cancel(m)
  BY <1>1, <1>2, <1>6
     DEF Cancel, CancelRead, CancelUpdate, CancelStatus, Undecided, Stutter
<1>7. CASE CrashHandler(m)
  <2>1. Undecided' \subseteq Undecided
    BY <1>7 DEF CrashHandler, Undecided, TypeOK
  <2>2. crashes' + lostConns' = crashes + lostConns + 1
    BY <1>7, PipelineAssumption DEF CrashHandler, TypeOK
  <2>3. LiveTags' = LiveTags /\ queue' = queue
    BY <1>2, <1>7 DEF CrashHandler
  <2>4. Delivery!Fault
    <3>1. tags' = [n \in Mails |-> IF n \in {} THEN tags[n] + 1 ELSE tags[n]]
      BY <1>1 DEF TypeOK
    <3>2. LiveTags' = [n \in Mails |-> LiveTags'[n]]
      BY DEF LiveTags
    <3>3. {} \in SUBSET (Mails \ Undecided)
      OBVIOUS
    <3>4. QED
      BY <1>1, <2>1, <2>2, <2>3, <3>1, <3>2, <3>3 DEF Delivery!Fault
  <2>5. QED
    BY <2>4 DEF Delivery!DNext
<1>8. CASE ExpireStatus(m)
  BY <1>1, <1>2, <1>8 DEF ExpireStatus, Undecided, Stutter
<1>9. QED
  BY <1>3, <1>4, <1>5, <1>6, <1>7, <1>8 DEF Submit
\* Steps that leave every copy in the hand it is in.
LEMMA RefineQuiet ==
  ASSUME TypeOK, NEW w \in Workers,
         UNCHANGED <<handler, queue, timers, delivered, tags, crashes,
                     lostConns>>,
         \A v \in Workers : InHandOf(v)' <=> InHandOf(v),
         \A v \in Workers : InHandOf(v) => SameCopy(job'[v], job[v])
  PROVE  Stutter
<1>1. LiveTags' = LiveTags
  BY LiveStays DEF TagLive, SameCopy
<1>2. QED
  BY <1>1 DEF Stutter, Undecided

\* Writes to the stores, acks, and the publish to the failed queue.
LEMMA RefineWrites ==
  ASSUME TypeOK, NEW w \in Workers,
         \/ KeyDbProcessing(w) \/ DbProcessing(w) \/ DbSent(w) \/ KeyDbSent(w)
         \/ Ack(w) \/ PublishFailed(w) \/ DbFailed(w) \/ KeyDbFailed(w)
         \/ KeyDbQueued(w)
  PROVE  Stutter
<1> USE DEF KeyDbProcessing, DbProcessing, DbSent, KeyDbSent, Ack,
            PublishFailed, DbFailed, KeyDbFailed, KeyDbQueued, WorkerAt
<1>1. UNCHANGED <<handler, queue, timers, delivered, tags, crashes, lostConns>>
  OBVIOUS
<1>2. \A v \in Workers : InHandOf(v)' <=> InHandOf(v)
  BY DEF TypeOK, InHandOf, Holding
<1>3. \A v \in Workers : InHandOf(v) => SameCopy(job'[v], job[v])
  BY DEF TypeOK, InHandOf, Holding, SameCopy
<1>4. QED
  BY <1>1, <1>2, <1>3, RefineQuiet

\* A copy that changes its place is the same copy.
LEMMA RefineMoves ==
  ASSUME TypeOK, NEW w \in Workers,
         \/ Deliver(w) \/ SpawnRetry(w)
         \/ FireRetry(w) /\ queue' # queue
  PROVE  Stutter
<1> USE DEF WorkerAt, TypeOK
<1>1. CASE Deliver(w)
  <2>1. \A m \in Mails : \A t : TagLive(m, t)' <=> TagLive(m, t)
    BY <1>1 DEF Deliver, TagLive, InHandOf, Holding
  <2>2. QED
    BY <1>1, <2>1, LiveStays DEF Deliver, Stutter, Undecided
<1>2. CASE SpawnRetry(w)
  <2>1. \A m \in Mails : \A t : TagLive(m, t)' <=> TagLive(m, t)
    BY <1>2 DEF SpawnRetry, TagLive, InHandOf, Holding
  <2>2. QED
    BY <1>2, <2>1, LiveStays DEF SpawnRetry, Stutter, Undecided
<1>3. CASE FireRetry(w) /\ queue' # queue
  <2>1. \A m \in Mails : \A t : TagLive(m, t)' <=> TagLive(m, t)
    BY <1>3 DEF FireRetry, TagLive, InHandOf, Holding
  <2>2. QED
    BY <1>3, <2>1, LiveStays DEF FireRetry, Stutter, Undecided
<1>4. QED
  BY <1>1, <1>2, <1>3
\* A worker lets go of its copy: no other place has it.
LEMMA LoseHand ==
  ASSUME TypeOK, CopyInv, NEW w \in Workers, InHandOf(w), ~InHandOf(w)',
         UNCHANGED <<queue, timers>>,
         \A v \in Workers \ {w} : pc'[v] = pc[v] /\ job'[v] = job[v]
  PROVE  /\ job[w].mail \in Mails
         /\ job[w].tag \in LiveTags[job[w].mail]
         /\ LiveTags' = [LiveTags EXCEPT ![job[w].mail] = @ \ {job[w].tag}]
<1>1. PICK c \in Msg : c = job[w]
  BY DEF TypeOK, InHandOf, Holding
<1>2. c.mail \in Mails /\ TagLive(c.mail, c.tag)
  BY <1>1 DEF TagLive, Msg
<1>3. \A m \in Mails : \A t :
         TagLive(m, t)' <=> TagLive(m, t) /\ ~(m = c.mail /\ t = c.tag)
  BY <1>1 DEF TagLive, CopyInv, OnceInv, InHandOf, SameCopy
<1>4. LiveTags' = [LiveTags EXCEPT ![c.mail] = @ \ {c.tag}]
  BY <1>2, <1>3, LiveLoses
<1>5. QED
  BY <1>1, <1>2, <1>4, LiveTagsByPlace

LEMMA RefineCheck ==
  ASSUME TypeOK, CopyInv, NEW w \in Workers, CheckCancelled(w)
  PROVE  Delivery!DNext \/ Stutter
<1> USE DEF CheckCancelled, WorkerAt, TypeOK
<1>1. InHandOf(w) /\ \A v \in Workers \ {w} : pc'[v] = pc[v] /\ job'[v] = job[v]
  BY DEF InHandOf, Holding
<1>2. CASE pc'[w] = "ack"
  BY <1>1, <1>2, LoseHand
     DEF InHandOf, Holding, Undecided, Delivery!DNext, Delivery!Abandon
<1>3. CASE pc'[w] = "keydbProcessing"
  BY <1>1, <1>3, RefineQuiet DEF InHandOf, Holding, SameCopy
<1>4. QED
  BY <1>2, <1>3

LEMMA RefineSendAccepted ==
  ASSUME TypeOK, CopyInv, NEW w \in Workers, SendAccepted(w)
  PROVE  Delivery!DNext
<1> USE DEF SendAccepted, WorkerAt, TypeOK
<1>1. InHandOf(w) /\ \A v \in Workers \ {w} : pc'[v] = pc[v] /\ job'[v] = job[v]
  BY DEF InHandOf, Holding
<1>2. ~InHandOf(w)'
  BY DEF InHandOf, Holding
<1>3. /\ job[w].mail \in Mails
      /\ job[w].tag \in LiveTags[job[w].mail]
      /\ LiveTags' = [LiveTags EXCEPT ![job[w].mail] = @ \ {job[w].tag}]
  BY <1>1, <1>2, LoseHand
<1>4. UNCHANGED <<Undecided, tags, crashes + lostConns>>
  BY DEF Undecided
<1>5. Delivery!Accept(job[w].mail)
  BY <1>3, <1>4 DEF Delivery!Accept
<1>6. QED
  BY <1>3, <1>5 DEF Delivery!DNext

LEMMA RefineSendRefused ==
  ASSUME TypeOK, CopyInv, NEW w \in Workers, SendRefused(w)
  PROVE  Delivery!DNext \/ Stutter
<1> USE DEF SendRefused, WorkerAt, TypeOK
<1>1. InHandOf(w) /\ \A v \in Workers \ {w} : pc'[v] = pc[v] /\ job'[v] = job[v]
  BY DEF InHandOf, Holding
<1>2. CASE pc'[w] = "publishFailed"
  BY <1>1, <1>2, LoseHand
     DEF InHandOf, Holding, Undecided, Delivery!DNext, Delivery!Abandon
<1>3. CASE pc'[w] = "keydbQueued"
  <2>1. SameCopy(job'[w], job[w])
    BY DEF SameCopy, Msg
  <2>2. \A v \in Workers : InHandOf(v)' <=> InHandOf(v)
    BY <1>1, <1>3 DEF InHandOf, Holding
  <2>3. QED
    BY <1>1, <2>1, <2>2, RefineQuiet DEF SameCopy
<1>4. QED
  BY <1>2, <1>3 DEF AfterFailure
LEMMA RefineSendAmbiguous ==
  ASSUME TypeOK, CopyInv, NEW w \in Workers, SendAmbiguous(w)
  PROVE  Delivery!DNext
<1> USE DEF SendAmbiguous, WorkerAt, TypeOK
<1>1. InHandOf(w) /\ \A v \in Workers \ {w} : pc'[v] = pc[v] /\ job'[v] = job[v]
  BY DEF InHandOf, Holding
<1>2. PICK c \in Msg : c = job[w]
  BY DEF Holding
<1>3. c.mail \in Mails /\ TagLive(c.mail, c.tag)
  BY <1>1, <1>2 DEF TagLive, Msg
<1>4. c.tag \in LiveTags[c.mail]
  BY <1>3, LiveTagsByPlace
<1>5. /\ delivered' = [delivered EXCEPT ![c.mail] = @ \cup {c.tag}]
      /\ tags' = [tags EXCEPT ![c.mail] = @ + 1]
      /\ UNCHANGED <<Undecided, crashes + lostConns>>
  BY <1>2 DEF Undecided
<1>6. ASSUME \/ LiveTags' = [LiveTags EXCEPT ![c.mail] =
                              (@ \ {c.tag}) \cup {tags[c.mail] + 1}]
             \/ LiveTags' = [LiveTags EXCEPT ![c.mail] = @ \ {c.tag}]
      PROVE  Delivery!DNext
  BY <1>3, <1>4, <1>5, <1>6 DEF Delivery!DNext, Delivery!AcceptUnseen
<1>7. CASE pc'[w] = "publishFailed"
  <2>1. ~InHandOf(w)'
    BY <1>7 DEF InHandOf, Holding
  <2>2. LiveTags' = [LiveTags EXCEPT ![c.mail] = @ \ {c.tag}]
    BY <1>1, <1>2, <2>1, LoseHand
  <2> QED
    BY <1>6, <2>2
<1>8. CASE pc'[w] = "keydbQueued"
  <2>1. job'[w].mail = c.mail /\ job'[w].tag = tags[c.mail] + 1 /\ InHandOf(w)'
    BY <1>2, <1>3, <1>8 DEF InHandOf, Holding
  <2>2. \A m \in Mails : \A t :
           TagLive(m, t)' <=> \/ TagLive(m, t) /\ ~(m = c.mail /\ t = c.tag)
                              \/ m = c.mail /\ t = tags[c.mail] + 1
    BY <1>1, <1>2, <2>1 DEF TagLive, CopyInv, OnceInv, InHandOf, SameCopy
  <2>4. LiveTags' = [LiveTags EXCEPT ![c.mail] =
                        (@ \ {c.tag}) \cup {tags[c.mail] + 1}]
    <3> HIDE DEF SendAmbiguous, WorkerAt, TypeOK
    <3> QED
      BY <1>3, <2>2, LiveMoves
  <2> QED
    BY <1>6, <2>4
<1>9. QED
  BY <1>7, <1>8 DEF AfterFailure

LEMMA RefineFireRetry ==
  ASSUME TypeOK, CopyInv, NEW w \in Workers, FireRetry(w)
  PROVE  Delivery!DNext \/ Stutter
<1> USE DEF FireRetry, TypeOK
<1>1. CASE queue' # queue
  BY <1>1, RefineMoves
<1>2. CASE queue' = queue
  <2>1. PICK c \in timers[w] : timers' = [timers EXCEPT ![w] = @ \ {c}]
    OBVIOUS
  <2>2. c.mail \in Mails /\ TagLive(c.mail, c.tag)
    BY <2>1 DEF TagLive, Msg
  <2>3. \A m \in Mails : \A t :
           TagLive(m, t)' <=> TagLive(m, t) /\ ~(m = c.mail /\ t = c.tag)
    BY <1>2, <2>1 DEF TagLive, CopyInv, OnceInv, InHandOf, SameCopy
  <2>4. LiveTags' = [LiveTags EXCEPT ![c.mail] = @ \ {c.tag}]
    BY <2>2, <2>3, LiveLoses
  <2>5. c.tag \in LiveTags[c.mail]
    BY <2>2, LiveTagsByPlace
  <2>6. QED
    BY <2>2, <2>4, <2>5 DEF Undecided, Delivery!DNext, Delivery!Abandon
<1>3. QED
  BY <1>1, <1>2

LEMMA RefineFault ==
  ASSUME TypeOK, CopyInv, NEW w \in Workers,
         LoseConnection(w) \/ CrashWorker(w)
  PROVE  Delivery!DNext
<1> DEFINE again == {u.mail : u \in unacked[w]}
<1>1. /\ Undecided' = Undecided /\ delivered' = delivered
      /\ Requeue(w)
      /\ \A v \in Workers : timers'[v] \subseteq timers[v]
      /\ \A v \in Workers : InHandOf(v)' => InHandOf(v) /\ job'[v] = job[v]
  BY DEF LoseConnection, CrashWorker, Requeue, Undecided, InHandOf, Holding,
         TypeOK
<1>2. crashes' + lostConns' = crashes + lostConns + 1
  BY PipelineAssumption DEF LoseConnection, CrashWorker, TypeOK
<1>3. again \subseteq Mails \ Undecided /\ \A m, n \in again : m = n
  BY DEF CopyInv, HeldInv, TypeOK, Msg
<1>4. tags' = [m \in Mails |-> IF m \in again THEN tags[m] + 1 ELSE tags[m]]
  BY <1>1 DEF Requeue
<1>5. \A c \in queue' : c \in queue \/ (c.mail \in again
                                         /\ c.tag = tags[c.mail] + 1)
  BY <1>1 DEF Requeue, TypeOK, Msg
<1>6. \A m \in again : \E c \in queue' : c.mail = m /\ c.tag = tags[m] + 1
  <2> SUFFICES ASSUME NEW u \in unacked[w]
               PROVE  \E c \in queue' : c.mail = u.mail
                                        /\ c.tag = tags[u.mail] + 1
    OBVIOUS
  <2>1. [u EXCEPT !.tag = tags[u.mail] + 1] \in queue'
    BY <1>1 DEF Requeue
  <2>2. u \in Msg
    BY DEF TypeOK
  <2>3. QED
    BY <2>1, <2>2 DEF Msg
<1> HIDE DEF again
<1>7. \A m \in Mails : \A t : TagLive(m, t)' =>
         TagLive(m, t) \/ (m \in again /\ t = tags[m] + 1)
  BY <1>1, <1>5 DEF TagLive
<1>8. \A m \in again : \A t : t = tags[m] + 1 => TagLive(m, t)'
  BY <1>6 DEF TagLive
<1>9. \A m \in Mails :
         IF m \in again
           THEN /\ tags[m] + 1 \in LiveTags'[m]
                /\ LiveTags'[m] \subseteq LiveTags[m] \cup {tags[m] + 1}
           ELSE LiveTags'[m] \subseteq LiveTags[m]
  BY <1>7, <1>8, LiveTagsByPlace
<1>10. LiveTags' = [m \in Mails |-> LiveTags'[m]]
  BY DEF LiveTags
<1>11. QED
  BY <1>1, <1>2, <1>3, <1>4, <1>9, <1>10 DEF Delivery!DNext, Delivery!Fault

LEMMA RefineStep ==
  TypeOK /\ CopyInv /\ [Next]_vars => [Delivery!DNext]_(Delivery!dVars)
<1> SUFFICES ASSUME TypeOK, CopyInv, [Next]_vars
             PROVE  Delivery!DNext \/ Stutter
  BY DEF Delivery!dVars, Stutter
<1>1. CASE Next
  BY <1>1, RefineClient, RefineWrites, RefineMoves, RefineCheck,
     RefineSendAccepted, RefineSendRefused, RefineSendAmbiguous,
     RefineFireRetry, RefineFault
     DEF Next, HandleMessage, HandleRetry
<1>2. CASE UNCHANGED vars
  BY <1>2 DEF vars, Stutter, Undecided, LiveTags, Copies, InHand, Sleeping
<1>3. QED
  BY <1>1, <1>2

\* The pipeline implements MailDelivery: in every behaviour, with any crashes
\* and lost connections, a copy is accepted at most once, and a duplicate needs
\* a redelivery or an answer that was not seen.
THEOREM PipelineImplementsDelivery == Spec => DeliverySpec
BY RefineInit, RefineStep, TypeCorrect, CopyInvariant, PTL
   DEF Spec, DeliverySpec, Delivery!DSpec

-----------------------------------------------------------------------------
(* How often a mail can be delivered.                                      *)

\* Where every answer of the provider is seen, a tag is given for a fault.
TagsInv ==
    ~SendMayBeAmbiguous => \A m \in Mails : tags[m] <= crashes + lostConns

\* Each delivery of a mail is of a tag of its own (CopiesUndelivered), so that
\* they are as many as its delivered tags: one, one more for each answer that
\* was not seen and each redelivery, and of redeliveries at most one per fault.
DeliveriesBounded ==
    \A m \in Mails :
        /\ IsFiniteSet(delivered[m])
        /\ Cardinality(delivered[m]) <= 1 + tags[m]
        /\ ~SendMayBeAmbiguous =>
               Cardinality(delivered[m]) <= 1 + crashes + lostConns

LEMMA TagsStep == TypeOK /\ TagsInv /\ [Next]_vars => TagsInv'
<1> USE DEF TypeOK, TagsInv
<1> SUFFICES ASSUME TypeOK, TagsInv, [Next]_vars, ~SendMayBeAmbiguous
             PROVE  \A m \in Mails : tags'[m] <= crashes' + lostConns'
  OBVIOUS
<1>0. crashes \in Nat /\ lostConns \in Nat /\ \A m \in Mails : tags[m] \in Nat
  BY PipelineAssumption
<1>1. ASSUME NEW w \in Workers, LoseConnection(w) \/ CrashWorker(w)
      PROVE  \A m \in Mails : tags'[m] <= crashes' + lostConns'
  <2>1. crashes' + lostConns' = crashes + lostConns + 1
    BY <1>0, <1>1 DEF LoseConnection, CrashWorker
  <2>2. \A m \in Mails : tags'[m] <= tags[m] + 1
    BY <1>0, <1>1 DEF LoseConnection, CrashWorker, Requeue
  <2> SUFFICES ASSUME NEW m \in Mails PROVE tags'[m] <= crashes' + lostConns'
    OBVIOUS
  <2>3. tags[m] <= crashes + lostConns /\ tags'[m] \in Nat
    BY <1>0, <1>1 DEF LoseConnection, CrashWorker, Requeue
  <2> QED
    BY <1>0, <2>1, <2>2, <2>3
<1>2. ASSUME NEW m \in Mails, CrashHandler(m)
      PROVE  \A n \in Mails : tags'[n] <= crashes' + lostConns'
  BY <1>0, <1>2 DEF CrashHandler
<1>3. CASE UNCHANGED <<tags, crashes, lostConns>>
  BY <1>3
<1> QED
  BY <1>1, <1>2, <1>3 DEF Next, Submit, Cancel, CreateMail, PublishMail,
     MarkFailed, SetQueued, CancelRead, CancelUpdate, CancelStatus,
     ExpireStatus, Deliver, HandleMessage, HandleRetry, CheckCancelled,
     KeyDbProcessing, DbProcessing, SendAccepted, SendRefused, SendAmbiguous,
     DbSent, KeyDbSent, Ack, PublishFailed, DbFailed, KeyDbFailed, KeyDbQueued,
     SpawnRetry, FireRetry, vars

LEMMA TagsInvariant == Spec => []TagsInv
<1>1. Init => TagsInv
  <2> SUFFICES ASSUME Init, NEW m \in Mails
               PROVE  tags[m] <= crashes + lostConns
    BY DEF TagsInv
  <2>1. tags[m] = 0 /\ crashes = 0 /\ lostConns = 0
    BY DEF Init
  <2> QED
    BY <2>1
<1> QED
  BY <1>1, TagsStep, TypeCorrect, PTL DEF Spec

\* A mail reaches the provider once, and again at most once for every crash and
\* lost connection and every answer that was not seen.
THEOREM OneDeliveryPerFault == Spec => []DeliveriesBounded
<1>1. TypeOK /\ CopyInv /\ TagsInv => DeliveriesBounded
  <2> SUFFICES ASSUME TypeOK, CopyInv, TagsInv, NEW m \in Mails
               PROVE  /\ IsFiniteSet(delivered[m])
                      /\ Cardinality(delivered[m]) <= 1 + tags[m]
                      /\ ~SendMayBeAmbiguous =>
                             Cardinality(delivered[m]) <=
                                 1 + crashes + lostConns
    BY DEF DeliveriesBounded
  <2>1. tags[m] \in Nat /\ crashes \in Nat /\ lostConns \in Nat
    BY PipelineAssumption DEF TypeOK
  <2>2. delivered[m] \subseteq 0..tags[m]
    BY <2>1 DEF TypeOK, CopyInv, HeldInv
  <2>3. /\ IsFiniteSet(0..tags[m])
        /\ Cardinality(0..tags[m]) = tags[m] + 1
    BY <2>1, FS_Interval
  <2>4. /\ IsFiniteSet(delivered[m])
        /\ Cardinality(delivered[m]) <= tags[m] + 1
    BY <2>2, <2>3, FS_Subset
  <2>5. Cardinality(delivered[m]) \in Nat
    BY <2>4, FS_CardinalityType
  <2> QED
    BY <2>1, <2>4, <2>5 DEF TagsInv
<1> QED
  BY <1>1, TypeCorrect, CopyInvariant, TagsInvariant, PTL
=============================================================================
