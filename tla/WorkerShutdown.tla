--------------------------- MODULE WorkerShutdown ---------------------------
(***************************************************************************)
(* A worker process from its start to its end: Consumer.Start, the consumer*)
(* goroutines, the count of their active jobs, the broker channel they     *)
(* share and may lose, and GracefulShutdown, which runs beside them on the *)
(* main goroutine.                                                         *)
(*                                                                         *)
(* What a job does is reduced to its outcome (see MailPipeline for the     *)
(* steps).  isShutdown is read and written without the mutex; the build    *)
(* loads it once for every message, which is what Check does.              *)
(***************************************************************************)
EXTENDS Naturals, FiniteSets

CONSTANTS
    Mails,          \* mails in the queue when the worker starts
    Routines,       \* config: WORKER_CONCURRENCY consumer goroutines
    Prefetch,       \* config: WORKER_PREFETCH, unacknowledged messages at most
    MaxAttempts,    \* config: MAX_RETRY_COUNT, attempts before giving up
    NoCopy          \* what an idle goroutine holds

\* A message: a mail and the number of the attempt it asks for.
Copy == Mails \X (1..MaxAttempts)

\* The defaults are 5 goroutines, a prefetch of 10 and 5 attempts.
ASSUME ShutdownAssumption ==
    /\ Prefetch \in Nat \ {0}
    /\ MaxAttempts \in Nat \ {0}
    /\ NoCopy \notin Copy
    /\ IsFiniteSet(Routines)

VARIABLES
    queue,       \* copies ready in the mail queue
    unacked,     \* copies the broker holds unacknowledged for this worker
    buffer,      \* those of them no goroutine has received yet
    pc,          \* next step of each goroutine
    held,        \* the copy each goroutine works on
    activeJobs,  \* Consumer.activeJobs
    isShutdown,  \* Consumer.isShutdown
    start,       \* next step of Consumer.Start, on a goroutine of its own
    channel,     \* Consumer.channel: "none", "open" or "closed"
    stop,        \* next step of the main goroutine
    timedOut,    \* did GracefulShutdown stop waiting after 30 seconds?
    asleep,      \* copies whose retry goroutine sleeps
    sent,        \* history: copies the provider accepted
    failed,      \* mails in the failed queue
    skipped,     \* history: mails acknowledged unsent because of a cancel
    lost,        \* history: copies whose retry or failure was never published
    overlooked,  \* history: copies taken but not counted when the count was 0
    cut          \* history: copies unacknowledged when the connection was lost

vars == <<queue, unacked, buffer, pc, held, activeJobs, isShutdown, start,
          channel, stop, timedOut, asleep, sent, failed, skipped, lost,
          overlooked, cut>>

brokerVars == <<queue, unacked, buffer>>
jobVars    == <<asleep, sent, failed, skipped, lost>>
stopVars   == <<isShutdown, start, channel, stop, timedOut, overlooked, cut>>

RoutinePc == {"receive", "check", "count", "attempt", "ack", "uncount",
              "ended"}

StartPc == {"connect", "consume", "done"}

StopPc == {"running", "cancel", "wait", "close", "exit", "exited"}

\* Steps between activeJobs++ and activeJobs--.
Counted == {"attempt", "ack", "uncount"}

Init ==
    /\ queue = Mails \X {1}
    /\ unacked = {}
    /\ buffer = {}
    /\ pc = [g \in Routines |-> "receive"]
    /\ held = [g \in Routines |-> NoCopy]
    /\ activeJobs = 0
    /\ isShutdown = FALSE
    /\ start = "connect"
    /\ channel = "none"
    /\ stop = "running"
    /\ timedOut = FALSE
    /\ asleep = {}
    /\ sent = {}
    /\ failed = {}
    /\ skipped = {}
    /\ lost = {}
    /\ overlooked = {}
    /\ cut = {}

-----------------------------------------------------------------------------
(* Consumer.Start.  main does not wait for it, also not before a shutdown.  *)

StartStep(from, to) ==
    /\ stop # "exited"
    /\ start = from
    /\ start' = to

\* Dial and Channel.
Connect ==
    /\ StartStep("connect", "consume")
    /\ channel' = "open"
    /\ UNCHANGED <<brokerVars, pc, held, activeJobs, jobVars, isShutdown, stop,
                   timedOut, overlooked, cut>>

\* QueueDeclare, Qos, Consume and the start of the goroutines.
Consume ==
    /\ StartStep("consume", "done")
    /\ channel = "open"
    /\ UNCHANGED <<brokerVars, pc, held, activeJobs, jobVars, isShutdown,
                   channel, stop, timedOut, overlooked, cut>>

\* An error of any of them, a channel that was closed meanwhile included:
\* log.Fatalf.  Nothing was delivered yet.
StartFails ==
    /\ start # "done"
    /\ stop # "exited"
    /\ stop' = "exited"
    /\ UNCHANGED <<brokerVars, pc, held, activeJobs, jobVars, isShutdown, start,
                   channel, timedOut, overlooked, cut>>

-----------------------------------------------------------------------------
(* The broker pushes; Cancel("") names no consumer, so it goes on pushing  *)
(* until the channel is closed.                                            *)

Push ==
    /\ stop # "exited"
    /\ start = "done"
    /\ channel = "open"
    /\ Cardinality(unacked) < Prefetch
    /\ \E c \in queue :
          /\ queue' = queue \ {c}
          /\ unacked' = unacked \cup {c}
          /\ buffer' = buffer \cup {c}
    /\ UNCHANGED <<pc, held, activeJobs, jobVars, stopVars>>

\* Whichever side closes the channel, the broker gets back what it holds
\* unacknowledged and the client drops what it has not passed on.
GiveBack ==
    /\ queue' = queue \cup unacked
    /\ unacked' = {}
    /\ buffer' = {}

\* The connection breaks or the broker closes the channel: nothing in the
\* process opens another.
LoseConnection ==
    /\ stop # "exited"
    /\ channel = "open"
    /\ channel' = "closed"
    /\ cut' = unacked
    /\ GiveBack
    /\ UNCHANGED <<pc, held, activeJobs, jobVars, isShutdown, start, stop,
                   timedOut, overlooked>>

-----------------------------------------------------------------------------
(* A consumer goroutine.                                                   *)

At(g, from, to) ==
    /\ stop # "exited"
    /\ pc[g] = from
    /\ pc' = [pc EXCEPT ![g] = to]

Receive(g) ==
    /\ At(g, "receive", "check")
    /\ \E c \in buffer :
          /\ buffer' = buffer \ {c}
          /\ held' = [held EXCEPT ![g] = c]
    /\ UNCHANGED <<queue, unacked, activeJobs, jobVars, stopVars>>

\* The closed channel ends the loop of processMessages.
RangeEnds(g) ==
    /\ At(g, "receive", "ended")
    /\ start = "done"
    /\ channel = "closed"
    /\ UNCHANGED <<brokerVars, held, activeJobs, jobVars, stopVars>>

\* Mutant: the loop does not look at isShutdown.
CheckNothing(g) ==
    /\ At(g, "check", "count")
    /\ UNCHANGED <<brokerVars, held, activeJobs, jobVars, stopVars>>

\* Mutant: Nack(false, false).
CheckDiscards(g) ==
    /\ \/ /\ ~isShutdown
          /\ At(g, "check", "count")
          /\ UNCHANGED <<brokerVars, held>>
       \/ /\ isShutdown
          /\ At(g, "check", "receive")
          /\ unacked' = unacked \ {held[g]}
          /\ held' = [held EXCEPT ![g] = NoCopy]
          /\ UNCHANGED <<queue, buffer>>
    /\ UNCHANGED <<activeJobs, jobVars, stopVars>>

\* Once the shutdown has begun the message is put back; on a closed channel
\* the broker has it back already.
Check(g) ==
    /\ \/ /\ ~isShutdown
          /\ At(g, "check", "count")
          /\ UNCHANGED <<brokerVars, held>>
       \/ /\ isShutdown
          /\ At(g, "check", "receive")
          /\ queue' = queue \cup (unacked \cap {held[g]})
          /\ unacked' = unacked \ {held[g]}
          /\ held' = [held EXCEPT ![g] = NoCopy]
          /\ UNCHANGED buffer
    /\ UNCHANGED <<activeJobs, jobVars, stopVars>>

CountJob(g) ==
    /\ At(g, "count", "attempt")
    /\ activeJobs' = activeJobs + 1
    /\ UNCHANGED <<brokerVars, held, jobVars, stopVars>>

AttemptSucceeds(g) ==
    /\ At(g, "attempt", "ack")
    /\ sent' = sent \cup {held[g]}
    /\ UNCHANGED <<brokerVars, held, activeJobs, asleep, failed, skipped, lost,
                   stopVars>>

\* The cancel check found the mail cancelled.
AttemptSkipped(g) ==
    /\ At(g, "attempt", "ack")
    /\ skipped' = skipped \cup {held[g][1]}
    /\ UNCHANGED <<brokerVars, held, activeJobs, asleep, sent, failed, lost,
                   stopVars>>

\* handleRetry: the last attempt is reported to the failed queue, any other
\* one leaves a sleeping goroutine behind.
AttemptFails(g) ==
    /\ At(g, "attempt", "ack")
    /\ \/ /\ held[g][2] < MaxAttempts
          /\ asleep' = asleep \cup {held[g]}
          /\ UNCHANGED <<failed, lost>>
       \/ /\ held[g][2] = MaxAttempts /\ channel = "open"
          /\ failed' = failed \cup {held[g][1]}
          /\ UNCHANGED <<asleep, lost>>
       \/ /\ held[g][2] = MaxAttempts /\ channel = "closed"
          /\ lost' = lost \cup {held[g]}
          /\ UNCHANGED <<asleep, failed>>
    /\ UNCHANGED <<brokerVars, held, activeJobs, sent, skipped, stopVars>>

\* Mutant: the message is not acknowledged.
AckMissing(g) ==
    /\ At(g, "ack", "uncount")
    /\ UNCHANGED <<brokerVars, held, activeJobs, jobVars, stopVars>>

\* On a closed channel this fails, and the error is ignored.
Ack(g) ==
    /\ At(g, "ack", "uncount")
    /\ unacked' = unacked \ {held[g]}
    /\ UNCHANGED <<queue, buffer, held, activeJobs, jobVars, stopVars>>

\* Mutant: the deferred decrement is missing.
UncountJobMissing(g) ==
    /\ At(g, "uncount", "receive")
    /\ held' = [held EXCEPT ![g] = NoCopy]
    /\ UNCHANGED <<brokerVars, activeJobs, jobVars, stopVars>>

UncountJob(g) ==
    /\ At(g, "uncount", "receive")
    /\ activeJobs' = activeJobs - 1
    /\ held' = [held EXCEPT ![g] = NoCopy]
    /\ UNCHANGED <<brokerVars, jobVars, stopVars>>

FireRetry ==
    /\ stop # "exited"
    /\ \E c \in asleep :
          /\ asleep' = asleep \ {c}
          /\ \/ /\ channel = "open"
                /\ queue' = queue \cup {<<c[1], c[2] + 1>>}
                /\ UNCHANGED lost
             \/ /\ channel = "closed"
                /\ lost' = lost \cup {c}
                /\ UNCHANGED queue
    /\ UNCHANGED <<unacked, buffer, pc, held, activeJobs, sent, failed,
                   skipped, stopVars>>

-----------------------------------------------------------------------------
(* GracefulShutdown.                                                       *)

Signal ==
    /\ stop = "running"
    /\ stop' = "cancel"
    /\ isShutdown' = TRUE
    /\ UNCHANGED <<brokerVars, pc, held, activeJobs, jobVars, start, channel,
                   timedOut, overlooked, cut>>

CancelConsumer ==
    /\ stop = "cancel"
    /\ stop' = "wait"
    /\ UNCHANGED <<brokerVars, pc, held, activeJobs, jobVars, isShutdown, start,
                   channel, timedOut, overlooked, cut>>

\* Mutant: a tick ends the wait whatever the count is.
DrainedEarly ==
    /\ stop = "wait"
    /\ stop' = "close"
    /\ overlooked' = {held[g] : g \in {r \in Routines : pc[r] = "count"}}
    /\ UNCHANGED <<brokerVars, pc, held, activeJobs, jobVars, isShutdown, start,
                   channel, timedOut, cut>>

\* A tick that finds no active job.
Drained ==
    /\ stop = "wait"
    /\ activeJobs = 0
    /\ stop' = "close"
    /\ overlooked' = {held[g] : g \in {r \in Routines : pc[r] = "count"}}
    /\ UNCHANGED <<brokerVars, pc, held, activeJobs, jobVars, isShutdown, start,
                   channel, timedOut, cut>>

\* Mutant: the select has no timeout case.
NoTimeout ==
    /\ FALSE
    /\ UNCHANGED vars

Timeout ==
    /\ stop = "wait"
    /\ stop' = "close"
    /\ timedOut' = TRUE
    /\ UNCHANGED <<brokerVars, pc, held, activeJobs, jobVars, isShutdown, start,
                   channel, overlooked, cut>>

\* Start may not have made the channel yet, and make it afterwards.
CloseChannel ==
    /\ stop = "close"
    /\ stop' = "exit"
    /\ \/ /\ channel = "open"
          /\ channel' = "closed"
          /\ GiveBack
       \/ /\ channel # "open"
          /\ UNCHANGED <<brokerVars, channel>>
    /\ UNCHANGED <<pc, held, activeJobs, jobVars, isShutdown, start, timedOut,
                   overlooked, cut>>

\* main returns: whatever goroutines still do ends here.
Exit ==
    /\ stop = "exit"
    /\ stop' = "exited"
    /\ GiveBack
    /\ lost' = lost \cup asleep
    /\ asleep' = {}
    /\ UNCHANGED <<pc, held, activeJobs, sent, failed, skipped, isShutdown,
                   start, channel, timedOut, overlooked, cut>>

-----------------------------------------------------------------------------
GracefulShutdown ==
    CancelConsumer \/ Drained \/ Timeout \/ CloseChannel \/ Exit

ProcessMessages(g) ==
    \/ Receive(g) \/ RangeEnds(g) \/ Check(g) \/ CountJob(g)
    \/ AttemptSucceeds(g) \/ AttemptSkipped(g) \/ AttemptFails(g)
    \/ Ack(g) \/ UncountJob(g)

Start == Connect \/ Consume \/ StartFails

Next ==
    \/ Start \/ Push \/ LoseConnection \/ FireRetry \/ Signal
    \/ GracefulShutdown
    \/ \E g \in Routines : ProcessMessages(g)

Spec == Init /\ [][Next]_vars

\* What a goroutine does besides waiting for the answer of an attempt.
Progress(g) ==
    Receive(g) \/ Check(g) \/ CountJob(g) \/ Ack(g) \/ UncountJob(g)

\* The main goroutine runs, its ticker ticks and its timeout fires; the broker
\* delivers and the goroutines run.  A job may take forever (the default HTTP
\* client of the token request has no timeout), and so may a connection.
FairSpec ==
    /\ Spec
    /\ WF_vars(GracefulShutdown)
    /\ WF_vars(Push)
    /\ \A g \in Routines : WF_vars(Progress(g))

-----------------------------------------------------------------------------
TypeOK ==
    /\ queue \subseteq Copy
    /\ unacked \subseteq Copy
    /\ buffer \subseteq unacked
    /\ pc \in [Routines -> RoutinePc]
    /\ held \in [Routines -> Copy \cup {NoCopy}]
    /\ activeJobs = Cardinality({g \in Routines : pc[g] \in Counted})
    /\ isShutdown \in BOOLEAN
    /\ stop # "exited" => isShutdown = (stop # "running")
    /\ start \in StartPc
    /\ channel \in {"none", "open", "closed"}
    /\ channel = "none" <=> start = "connect"
    /\ stop \in StopPc
    /\ timedOut \in BOOLEAN
    /\ asleep \subseteq Copy
    /\ sent \subseteq Copy
    /\ failed \subseteq Mails
    /\ skipped \subseteq Mails
    /\ lost \subseteq Copy
    /\ overlooked \subseteq Copy
    /\ cut \subseteq Copy

\* Neither a shutdown nor a lost connection makes a mail disappear: it is back
\* in the queue, was sent, failed for good, or is one of the retries that nobody
\* could publish any more -- whichever goroutine was at whichever step then.
MailsAccounted ==
    \A m \in Mails :
        \/ \E c \in queue \cup unacked \cup asleep \cup sent \cup lost :
              c[1] = m
        \/ m \in failed \cup skipped

\* What is sent twice: a message that was sent is back in the queue only if the
\* wait timed out, if a goroutine had taken the message and not yet counted
\* itself when the ticker saw no active job, or if the connection broke before
\* the message was acknowledged.
DuplicatesExplained ==
    \A c \in sent \cap queue : timedOut \/ c \in overlooked \cup cut

\* Only work in progress uses up the prefetch: of the messages that the broker
\* holds unacknowledged, those that have left the buffer are each in the hands
\* of one goroutine that has yet to acknowledge it or put it back, whatever the
\* other goroutines, lost connections and the shutdown do meanwhile.
NoMessageStranded ==
    LET holding == {g \in Routines :
                       pc[g] \in {"check", "count", "attempt", "ack"}}
    IN  \A c \in unacked \ buffer : \E g \in holding :
            held[g] = c /\ \A h \in holding : held[h] = c => h = g

\* Jobs that are waited for report their failure: the last failure of a mail
\* goes unpublished (while the row says failed and the broker delivers the mail
\* again) for the same three reasons only.  All else that is lost is retries
\* that were asleep.
FailuresReported ==
    \A c \in lost : c[2] = MaxAttempts => timedOut \/ c \in overlooked \cup cut

\* GracefulShutdown ends, also when a job hangs or Start never connects.
ShutdownEnds == stop = "cancel" ~> stop = "exited"

\* Attempts that get no answer can stop the worker only if they are as many as
\* its goroutines, or as the broker delivers without an acknowledgement.
Hanging ==
    LET attempting == {g \in Routines : pc[g] = "attempt"} IN
        attempting = Routines \/ Cardinality(attempting) >= Prefetch

\* A worker that listens takes what is in the queue, retries included: no path
\* through handleMessage leaves a message unacknowledged that would use up the
\* prefetch, and only a shutdown, a lost connection or jobs that all hang for
\* good stop the goroutines.
Listening ==
    start = "done" ~>
        queue = {} \/ []Hanging \/ channel = "closed" \/ isShutdown
=============================================================================
