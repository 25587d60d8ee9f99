------------------------ MODULE WorkerShutdownProofs ------------------------
(* Theorems about WorkerShutdown, for every set of mails, every finite set *)
(* of goroutines, every prefetch and every number of attempts.             *)
EXTENDS WorkerShutdown, FiniteSetTheorems, TLAPS

\* The steps between taking a message and knowing the outcome of the attempt,
\* and those until its acknowledgement.
Working == {"check", "count", "attempt"}
Holding == Working \cup {"ack"}

Connected == channel # "closed" /\ stop # "exited"

\* Where copies are.
PlacesInv ==
    /\ unacked # {} => Connected /\ start = "done"
    /\ \A g \in Routines : held[g] = NoCopy <=> pc[g] \in {"receive", "ended"}
    /\ \A g, h \in Routines :
          pc[g] \in Holding /\ pc[h] \in Holding /\ held[g] = held[h] => g = h
    /\ \A c \in unacked \ buffer :
          \E g \in Routines : pc[g] \in Holding /\ held[g] = c
    /\ \A c \in asleep : c[2] < MaxAttempts
    /\ Connected => /\ queue \cap unacked = {}
                    /\ \A g \in Routines :
                          pc[g] \in Holding => held[g] \in unacked \ buffer

\* No copy of the mail asks for a later attempt.
Newest(c) ==
    \A d \in queue \cup unacked \cup asleep \cup sent :
        d[1] = c[1] => d[2] <= c[2]

\* A mail has one copy that is still to be worked on, the newest.
NewestInv ==
    Connected =>
        /\ \A c \in queue \cup buffer \cup asleep : Newest(c)
        /\ \A c \in queue \cup buffer : c \notin asleep \cup sent
        /\ \A c \in asleep : c \notin sent
        /\ \A g \in Routines : pc[g] \in Working =>
              Newest(held[g]) /\ held[g] \notin asleep \cup sent

\* The mail is accounted for without the messages that wait for their ack.
Kept(m) ==
    \/ \E c \in queue \cup buffer \cup asleep \cup sent \cup lost : c[1] = m
    \/ m \in failed \cup skipped
    \/ \E g \in Routines :
          pc[g] \in Working /\ held[g] \in unacked /\ held[g][1] = m

KeptInv == \A m \in Mails : Kept(m)

\* Whom the ticker has overlooked when the wait ends without a timeout.
DrainedInv ==
    /\ stop \in {"running", "cancel", "wait"} => overlooked = {}
    /\ stop \in {"close", "exit"} /\ ~timedOut =>
           \A g \in Routines :
               pc[g] \in {"count", "attempt", "ack"} => held[g] \in overlooked

\* What the goroutines may still send once the messages were given back.
ExplainedInv ==
    ~Connected =>
        \A g \in Routines : pc[g] \in Working /\ held[g] \in queue =>
            \/ timedOut
            \/ held[g] \in overlooked \cup cut
            \/ pc[g] = "check" /\ isShutdown

Inv == /\ TypeOK /\ PlacesInv /\ NewestInv /\ KeptInv
       /\ DrainedInv /\ ExplainedInv /\ DuplicatesExplained

\* The process starts with the invariant.
LEMMA InitInv == Init => Inv
<1> USE ShutdownAssumption
<1> SUFFICES ASSUME Init PROVE Inv
  OBVIOUS
<1>1. TypeOK
  <2>1. {g \in Routines : pc[g] \in Counted} = {}
    BY DEF Init, Counted
  <2>2. activeJobs = Cardinality({g \in Routines : pc[g] \in Counted})
    BY <2>1, FS_EmptySet DEF Init
  <2>3. queue \subseteq Copy
    BY DEF Init, Copy
  <2> QED
    BY <2>2, <2>3 DEF Init, TypeOK, RoutinePc, StartPc, StopPc
<1>2. PlacesInv
  BY DEF Init, PlacesInv, Holding, Working
<1>3. NewestInv
  BY DEF Init, NewestInv, Newest, Working
<1>4. KeptInv
  <2> SUFFICES ASSUME NEW m \in Mails PROVE Kept(m)
    BY DEF KeptInv
  <2>1. <<m, 1>> \in queue
    BY DEF Init
  <2> QED
    BY <2>1 DEF Kept
<1>5. DrainedInv /\ ExplainedInv /\ DuplicatesExplained
  BY DEF Init, DrainedInv, ExplainedInv, DuplicatesExplained, Connected
<1> QED
  BY <1>1, <1>2, <1>3, <1>4, <1>5 DEF Inv

\* One goroutine goes from a step to another: the count of the active jobs.
LEMMA Counting ==
  ASSUME TypeOK, NEW g \in Routines, NEW from \in RoutinePc,
         NEW to \in RoutinePc, At(g, from, to)
  PROVE  LET jobs == {h \in Routines : pc[h] \in Counted}
             count == Cardinality(jobs')
         IN  /\ (from \in Counted <=> to \in Counted) => count = activeJobs
             /\ from \notin Counted /\ to \in Counted => count = activeJobs + 1
             /\ from \in Counted /\ to \notin Counted => count = activeJobs - 1
<1> DEFINE jobs == {h \in Routines : pc[h] \in Counted}
<1>1. pc[g] = from /\ pc'[g] = to /\ \A h \in Routines : h # g => pc'[h] = pc[h]
  BY DEF At, TypeOK
<1>2. IsFiniteSet(jobs) /\ Cardinality(jobs) = activeJobs
  BY FS_Subset, ShutdownAssumption DEF TypeOK
<1>3. Cardinality(jobs) \in Nat
  BY <1>2, FS_CardinalityType
<1>4. jobs' = {h \in Routines : pc'[h] \in Counted}
  OBVIOUS
<1>5. CASE from \in Counted <=> to \in Counted
  <2>1. jobs' = jobs
    BY <1>1, <1>4, <1>5
  <2> QED
    BY <2>1, <1>2, <1>5
<1>6. CASE from \notin Counted /\ to \in Counted
  <2>1. jobs' = jobs \cup {g} /\ g \notin jobs
    BY <1>1, <1>4, <1>6
  <2> QED
    BY <2>1, <1>2, <1>6, FS_AddElement
<1>7. CASE from \in Counted /\ to \notin Counted
  <2>1. jobs' = jobs \ {g} /\ g \in jobs
    BY <1>1, <1>4, <1>7
  <2> QED
    BY <2>1, <1>2, <1>7, FS_RemoveElement
<1> QED
  BY <1>5, <1>6, <1>7

\* The copy that a retry publishes.
LEMMA NextAttempt ==
  ASSUME NEW c \in Copy, c[2] < MaxAttempts
  PROVE  LET next == <<c[1], c[2] + 1>> IN
             next \in Copy /\ next[1] = c[1] /\ next[2] = c[2] + 1
BY ShutdownAssumption DEF Copy

\* Closing the channel, or the end of the process, gives back a message whose
\* mail was sent only if its goroutine was overlooked.
LEMMA GivenBack ==
  ASSUME TypeOK, PlacesInv, NewestInv, DrainedInv, ExplainedInv,
         DuplicatesExplained, stop \in {"close", "exit"}, ~timedOut
  PROVE  /\ \A c \in sent \cap (queue \cup unacked) : c \in overlooked \cup cut
         /\ \A g \in Routines :
               pc[g] \in Working /\ held[g] \in queue \cup unacked =>
                   \/ held[g] \in overlooked \cup cut
                   \/ pc[g] = "check" /\ isShutdown
<1>1. ASSUME NEW c \in sent \cap (queue \cup unacked)
      PROVE  c \in overlooked \cup cut
  <2>1. CASE c \in queue
    BY <1>1, <2>1 DEF DuplicatesExplained
  <2>2. CASE c \in unacked
    <3>1. Connected
      BY <2>2 DEF PlacesInv
    <3>2. c \notin buffer
      BY <1>1, <3>1 DEF NewestInv
    <3>3. PICK g \in Routines : pc[g] \in Holding /\ held[g] = c
      BY <2>2, <3>2 DEF PlacesInv
    <3>4. pc[g] \notin Working
      BY <1>1, <3>1, <3>3 DEF NewestInv
    <3> QED
      BY <3>3, <3>4 DEF Holding, DrainedInv
  <2> QED
    BY <1>1, <2>1, <2>2
<1>2. ASSUME NEW g \in Routines, pc[g] \in Working
      PROVE  \/ held[g] \in overlooked \cup cut
             \/ pc[g] = "check" /\ isShutdown
  BY <1>2 DEF Working, DrainedInv, TypeOK
<1> QED
  BY <1>1, <1>2

\* A retry is published while the channel is open.
LEMMA FireRetryStep ==
  ASSUME Inv, NEW c \in asleep, stop # "exited", channel = "open",
         asleep' = asleep \ {c},
         queue' = queue \cup {<<c[1], c[2] + 1>>},
         UNCHANGED <<unacked, buffer, pc, held, activeJobs, sent, failed,
                     skipped, lost, stopVars>>
  PROVE  Inv'
<1> USE DEF stopVars
<1>0. /\ TypeOK /\ PlacesInv /\ NewestInv /\ KeptInv
      /\ DrainedInv /\ ExplainedInv /\ DuplicatesExplained
  BY DEF Inv
<1>1. c \in Copy /\ c[2] < MaxAttempts
  BY <1>0 DEF TypeOK, PlacesInv
<1>2. PICK next \in Copy : /\ next[1] = c[1] /\ next[2] = c[2] + 1
                           /\ queue' = queue \cup {next}
  BY <1>1, NextAttempt
<1>3. Connected /\ Connected'
  BY DEF Connected
<1>4. \A d \in Copy : d[2] \in Nat
  BY DEF Copy
<1>5. Newest(c)
  BY <1>0, <1>3 DEF NewestInv
<1>6. next \notin queue \cup unacked \cup asleep \cup sent
  BY <1>1, <1>2, <1>4, <1>5 DEF Newest
<1>7. \A d \in Copy : d[1] = c[1] /\ d[2] = c[2] => d = c
  BY <1>1 DEF Copy
\* Nothing else of this mail is left to be worked on.
<1>8. \A d \in queue \cup buffer \cup (asleep \ {c}) : d[1] # c[1]
  <2> SUFFICES ASSUME NEW d \in queue \cup buffer \cup (asleep \ {c}),
                      d[1] = c[1]
               PROVE  FALSE
    OBVIOUS
  <2>1. d \in Copy /\ d \in queue \cup unacked \cup asleep \cup sent
    BY <1>0 DEF TypeOK
  <2>2. d[2] <= c[2] /\ c[2] <= d[2]
    BY <1>0, <1>3, <1>5, <2>1 DEF NewestInv, Newest
  <2>3. d = c
    BY <1>1, <1>4, <1>7, <2>1, <2>2
  <2> QED
    BY <1>0, <1>3, <2>3 DEF NewestInv
<1>9. \A g \in Routines : pc[g] \in Working => held[g][1] # c[1]
  <2> SUFFICES ASSUME NEW g \in Routines, pc[g] \in Working, held[g][1] = c[1]
               PROVE  FALSE
    OBVIOUS
  <2>1. held[g] \in unacked /\ held[g] \in Copy /\ Newest(held[g])
    BY <1>0, <1>3 DEF TypeOK, PlacesInv, NewestInv, Holding
  <2>2. held[g][2] <= c[2] /\ c[2] <= held[g][2]
    BY <1>5, <2>1 DEF Newest
  <2>3. held[g] = c
    BY <1>1, <1>4, <1>7, <2>1, <2>2
  <2> QED
    BY <1>0, <1>3, <2>3 DEF NewestInv
<1>10. TypeOK'
  BY <1>0, <1>2 DEF TypeOK
<1>11. PlacesInv'
  BY <1>0, <1>2, <1>3, <1>6 DEF PlacesInv, Connected
<1>12. NewestInv'
  <2>1. \A d \in queue \cup buffer \cup (asleep \ {c}) : Newest(d)'
    BY <1>0, <1>2, <1>3, <1>8 DEF NewestInv, Newest
  <2>2. ASSUME NEW d \in queue \cup unacked \cup asleep \cup sent \cup {next},
               d[1] = c[1]
        PROVE  d[2] <= next[2]
    BY <1>0, <1>1, <1>2, <1>4, <1>5, <2>2 DEF Newest, TypeOK
  <2>3. \A d \in queue' \cup unacked \cup asleep' \cup sent :
            d[1] = next[1] => d[2] <= next[2]
    BY <1>2, <2>2
  <2>4. \A d \in queue' \cup buffer \cup asleep' :
            \A e \in queue' \cup unacked \cup asleep' \cup sent :
                e[1] = d[1] => e[2] <= d[2]
    BY <1>2, <2>1, <2>3 DEF Newest
  <2>5. ASSUME NEW g \in Routines, pc[g] \in Working
        PROVE  \A e \in queue' \cup unacked \cup asleep' \cup sent :
                   e[1] = held[g][1] => e[2] <= held[g][2]
    BY <1>0, <1>2, <1>3, <1>9, <2>5 DEF NewestInv, Newest
  <2>6. /\ \A d \in queue' \cup buffer : d \notin asleep' \cup sent
        /\ \A d \in asleep' : d \notin sent
        /\ \A g \in Routines :
              pc[g] \in Working => held[g] \notin asleep' \cup sent
    BY <1>0, <1>2, <1>3, <1>6 DEF NewestInv
  <2> QED
    BY <2>4, <2>5, <2>6 DEF NewestInv, Newest
<1>13. KeptInv'
  BY <1>0, <1>2 DEF KeptInv, Kept
<1>14. DrainedInv' /\ ExplainedInv'
  BY <1>0, <1>3 DEF DrainedInv, ExplainedInv, Connected
<1>15. DuplicatesExplained'
  BY <1>0, <1>2, <1>3, <1>6 DEF DuplicatesExplained
<1> QED
  BY <1>10, <1>11, <1>12, <1>13, <1>14, <1>15 DEF Inv

\* Every action keeps the invariant.
LEMMA InvStep == Inv /\ [Next]_vars => Inv'
<1> USE ShutdownAssumption
<1> SUFFICES ASSUME Inv, [Next]_vars PROVE Inv'
  OBVIOUS
<1>0. /\ TypeOK /\ PlacesInv /\ NewestInv /\ KeptInv
      /\ DrainedInv /\ ExplainedInv /\ DuplicatesExplained
  BY DEF Inv
<1>1. CASE Connect
  <2> USE <1>0, <1>1 DEF Connect, StartStep, brokerVars, jobVars, stopVars
  <2>1. TypeOK'
    BY DEF TypeOK, StartPc, StopPc, Copy
  <2>2. PlacesInv'
    BY DEF PlacesInv, Connected, Holding, Working, TypeOK
  <2>3. NewestInv'
    BY DEF NewestInv, Newest, Connected, PlacesInv, TypeOK, Working, Holding
  <2>4. KeptInv'
    BY DEF KeptInv, Kept, PlacesInv, Connected, Working, Holding, TypeOK
  <2>5. DrainedInv'
    BY DEF DrainedInv, TypeOK
  <2>6. ExplainedInv'
    BY DEF ExplainedInv, Connected, PlacesInv, TypeOK, Working, Holding
  <2>7. DuplicatesExplained'
    BY DEF DuplicatesExplained, TypeOK, PlacesInv, NewestInv, ExplainedInv,
       Connected, Working, Holding
  <2> QED
    BY <2>1, <2>2, <2>3, <2>4, <2>5, <2>6, <2>7 DEF Inv
<1>2. CASE Consume
  <2> USE <1>0, <1>2 DEF Consume, StartStep, brokerVars, jobVars, stopVars
  <2>1. TypeOK'
    BY DEF TypeOK, StartPc, StopPc, Copy
  <2>2. PlacesInv'
    BY DEF PlacesInv, Connected, Holding, Working, TypeOK
  <2>3. NewestInv'
    BY DEF NewestInv, Newest, Connected, PlacesInv, TypeOK, Working, Holding
  <2>4. KeptInv'
    BY DEF KeptInv, Kept, PlacesInv, Connected, Working, Holding, TypeOK
  <2>5. DrainedInv'
    BY DEF DrainedInv, TypeOK
  <2>6. ExplainedInv'
    BY DEF ExplainedInv, Connected, PlacesInv, TypeOK, Working, Holding
  <2>7. DuplicatesExplained'
    BY DEF DuplicatesExplained, TypeOK, PlacesInv, NewestInv, ExplainedInv,
       Connected, Working, Holding
  <2> QED
    BY <2>1, <2>2, <2>3, <2>4, <2>5, <2>6, <2>7 DEF Inv
<1>3. CASE StartFails
  <2> USE <1>0, <1>3 DEF StartFails, brokerVars, jobVars, stopVars
  <2>1. TypeOK'
    BY DEF TypeOK, StartPc, StopPc, Copy
  <2>2. PlacesInv'
    BY DEF PlacesInv, Connected, Holding, Working, TypeOK
  <2>3. NewestInv'
    BY DEF NewestInv, Newest, Connected, PlacesInv, TypeOK, Working, Holding
  <2>4. KeptInv'
    BY DEF KeptInv, Kept, PlacesInv, Connected, Working, Holding, TypeOK
  <2>5. DrainedInv'
    BY DEF DrainedInv, TypeOK
  <2>6. ExplainedInv'
    BY DEF ExplainedInv, Connected, PlacesInv, TypeOK, Working, Holding
  <2>7. DuplicatesExplained'
    BY DEF DuplicatesExplained, TypeOK, PlacesInv, NewestInv, ExplainedInv,
       Connected, Working, Holding
  <2> QED
    BY <2>1, <2>2, <2>3, <2>4, <2>5, <2>6, <2>7 DEF Inv
<1>4. CASE Push
  <2> USE <1>0, <1>4 DEF Push, brokerVars, jobVars, stopVars
  <2>1. TypeOK'
    BY DEF TypeOK, StartPc, StopPc, Copy
  <2>2. PlacesInv'
    BY DEF PlacesInv, Connected, Holding, Working, TypeOK
  <2>3. NewestInv'
    BY DEF NewestInv, Newest, Connected, PlacesInv, TypeOK, Working, Holding
  <2>4. KeptInv'
    BY DEF KeptInv, Kept, PlacesInv, Connected, Working, Holding, TypeOK
  <2>5. DrainedInv'
    BY DEF DrainedInv, TypeOK
  <2>6. ExplainedInv'
    BY DEF ExplainedInv, Connected, PlacesInv, TypeOK, Working, Holding
  <2>7. DuplicatesExplained'
    BY DEF DuplicatesExplained, TypeOK, PlacesInv, NewestInv, ExplainedInv,
       Connected, Working, Holding
  <2> QED
    BY <2>1, <2>2, <2>3, <2>4, <2>5, <2>6, <2>7 DEF Inv
<1>5. CASE LoseConnection
  <2> USE <1>0, <1>5 DEF LoseConnection, GiveBack, brokerVars, jobVars, stopVars
  <2>1. TypeOK'
    BY DEF TypeOK, StartPc, StopPc, Copy
  <2>2. PlacesInv'
    BY DEF PlacesInv, Connected, Holding, Working, TypeOK
  <2>3. NewestInv'
    BY DEF NewestInv, Newest, Connected, PlacesInv, TypeOK, Working, Holding
  <2>4. KeptInv'
    BY DEF KeptInv, Kept, PlacesInv, Connected, Working, Holding, TypeOK
  <2>5. DrainedInv'
    BY DEF DrainedInv, TypeOK
  <2>6. ExplainedInv'
    BY DEF ExplainedInv, Connected, PlacesInv, TypeOK, Working, Holding
  <2>7. DuplicatesExplained'
    BY DEF DuplicatesExplained, TypeOK, PlacesInv, NewestInv, ExplainedInv,
       Connected, Working, Holding
  <2> QED
    BY <2>1, <2>2, <2>3, <2>4, <2>5, <2>6, <2>7 DEF Inv
<1>6. CASE FireRetry
  <2>1. PICK c \in asleep :
           /\ asleep' = asleep \ {c}
           /\ \/ /\ channel = "open"
                 /\ queue' = queue \cup {<<c[1], c[2] + 1>>}
                 /\ UNCHANGED lost
              \/ /\ channel = "closed"
                 /\ lost' = lost \cup {c}
                 /\ UNCHANGED queue
    BY <1>6 DEF FireRetry
  <2>2. /\ stop # "exited"
        /\ UNCHANGED <<unacked, buffer, pc, held, activeJobs, sent, failed,
                       skipped, stopVars>>
    BY <1>6 DEF FireRetry
  <2>3. CASE channel = "open"
    BY <2>1, <2>2, <2>3, FireRetryStep
  <2>4. CASE /\ channel = "closed"
             /\ lost' = lost \cup {c}
             /\ UNCHANGED queue
    <3> USE <1>0, <2>1, <2>2, <2>4 DEF stopVars
    <3>1. TypeOK' /\ PlacesInv'
      BY DEF TypeOK, PlacesInv, Connected
    <3>2. NewestInv' /\ DrainedInv' /\ ExplainedInv' /\ DuplicatesExplained'
      BY DEF NewestInv, DrainedInv, ExplainedInv, DuplicatesExplained, Connected
    <3>3. KeptInv'
      BY DEF KeptInv, Kept
    <3> QED
      BY <3>1, <3>2, <3>3 DEF Inv
  <2> QED
    BY <2>1, <2>3, <2>4
<1>7. CASE Signal
  <2> USE <1>0, <1>7 DEF Signal, brokerVars, jobVars, stopVars
  <2>1. TypeOK'
    BY DEF TypeOK, StartPc, StopPc, Copy
  <2>2. PlacesInv'
    BY DEF PlacesInv, Connected, Holding, Working, TypeOK
  <2>3. NewestInv'
    BY DEF NewestInv, Newest, Connected, PlacesInv, TypeOK, Working, Holding
  <2>4. KeptInv'
    BY DEF KeptInv, Kept, PlacesInv, Connected, Working, Holding, TypeOK
  <2>5. DrainedInv'
    BY DEF DrainedInv, TypeOK
  <2>6. ExplainedInv'
    BY DEF ExplainedInv, Connected, PlacesInv, TypeOK, Working, Holding
  <2>7. DuplicatesExplained'
    BY DEF DuplicatesExplained, TypeOK, PlacesInv, NewestInv, ExplainedInv,
       Connected, Working, Holding
  <2> QED
    BY <2>1, <2>2, <2>3, <2>4, <2>5, <2>6, <2>7 DEF Inv
<1>8. CASE CancelConsumer
  <2> USE <1>0, <1>8 DEF CancelConsumer, brokerVars, jobVars, stopVars
  <2>1. TypeOK'
    BY DEF TypeOK, StartPc, StopPc, Copy
  <2>2. PlacesInv'
    BY DEF PlacesInv, Connected, Holding, Working, TypeOK
  <2>3. NewestInv'
    BY DEF NewestInv, Newest, Connected, PlacesInv, TypeOK, Working, Holding
  <2>4. KeptInv'
    BY DEF KeptInv, Kept, PlacesInv, Connected, Working, Holding, TypeOK
  <2>5. DrainedInv'
    BY DEF DrainedInv, TypeOK
  <2>6. ExplainedInv'
    BY DEF ExplainedInv, Connected, PlacesInv, TypeOK, Working, Holding
  <2>7. DuplicatesExplained'
    BY DEF DuplicatesExplained, TypeOK, PlacesInv, NewestInv, ExplainedInv,
       Connected, Working, Holding
  <2> QED
    BY <2>1, <2>2, <2>3, <2>4, <2>5, <2>6, <2>7 DEF Inv
<1>9. CASE Drained
  <2> USE <1>0, <1>9 DEF Drained, brokerVars, jobVars, stopVars
  <2>1. TypeOK'
    BY DEF TypeOK, StopPc, PlacesInv
  <2>2. PlacesInv'
    BY DEF PlacesInv, Connected, Holding, Working, TypeOK
  <2>3. NewestInv'
    BY DEF NewestInv, Newest, Connected, PlacesInv, TypeOK, Working, Holding
  <2>4. KeptInv'
    BY DEF KeptInv, Kept, PlacesInv, Connected, Working, Holding, TypeOK
  <2>5. DrainedInv'
    <3>1. {g \in Routines : pc[g] \in Counted} = {}
      BY FS_EmptySet, FS_Subset DEF TypeOK
    <3>2. \A g \in Routines : pc[g] \notin {"attempt", "ack"}
      BY <3>1 DEF Counted
    <3> QED
      BY <3>2 DEF DrainedInv
  <2>6. ExplainedInv'
    BY DEF ExplainedInv, Connected, DrainedInv
  <2>7. DuplicatesExplained'
    BY DEF DuplicatesExplained, DrainedInv
  <2> QED
    BY <2>1, <2>2, <2>3, <2>4, <2>5, <2>6, <2>7 DEF Inv
<1>10. CASE Timeout
  <2> USE <1>0, <1>10 DEF Timeout, brokerVars, jobVars, stopVars
  <2>1. TypeOK'
    BY DEF TypeOK, StartPc, StopPc, Copy
  <2>2. PlacesInv'
    BY DEF PlacesInv, Connected, Holding, Working, TypeOK
  <2>3. NewestInv'
    BY DEF NewestInv, Newest, Connected, PlacesInv, TypeOK, Working, Holding
  <2>4. KeptInv'
    BY DEF KeptInv, Kept, PlacesInv, Connected, Working, Holding, TypeOK
  <2>5. DrainedInv'
    BY DEF DrainedInv, TypeOK
  <2>6. ExplainedInv'
    BY DEF ExplainedInv, Connected, PlacesInv, TypeOK, Working, Holding
  <2>7. DuplicatesExplained'
    BY DEF DuplicatesExplained, TypeOK, PlacesInv, NewestInv, ExplainedInv,
       Connected, Working, Holding
  <2> QED
    BY <2>1, <2>2, <2>3, <2>4, <2>5, <2>6, <2>7 DEF Inv
<1>11. CASE CloseChannel
  <2> USE <1>0, <1>11 DEF CloseChannel, GiveBack, brokerVars, jobVars, stopVars
  <2>1. TypeOK'
    BY DEF TypeOK, StartPc, StopPc, Copy
  <2>2. PlacesInv'
    BY DEF PlacesInv, Connected, Holding, Working, TypeOK
  <2>3. NewestInv'
    BY DEF NewestInv, Newest, Connected, PlacesInv, TypeOK, Working, Holding
  <2>4. KeptInv'
    BY DEF KeptInv, Kept, PlacesInv, Connected, Working, Holding, TypeOK
  <2>5. DrainedInv'
    BY DEF DrainedInv, TypeOK
  <2>6. ExplainedInv'
    BY GivenBack DEF ExplainedInv, Connected
  <2>7. DuplicatesExplained'
    BY GivenBack DEF DuplicatesExplained
  <2> QED
    BY <2>1, <2>2, <2>3, <2>4, <2>5, <2>6, <2>7 DEF Inv
<1>12. CASE Exit
  <2> USE <1>0, <1>12 DEF Exit, GiveBack, brokerVars, jobVars, stopVars
  <2>1. TypeOK'
    BY DEF TypeOK, StartPc, StopPc, Copy
  <2>2. PlacesInv'
    BY DEF PlacesInv, Connected, Holding, Working, TypeOK
  <2>3. NewestInv'
    BY DEF NewestInv, Newest, Connected, PlacesInv, TypeOK, Working, Holding
  <2>4. KeptInv'
    BY DEF KeptInv, Kept, PlacesInv, Connected, Working, Holding, TypeOK
  <2>5. DrainedInv'
    BY DEF DrainedInv, TypeOK
  <2>6. ExplainedInv'
    BY GivenBack DEF ExplainedInv, Connected
  <2>7. DuplicatesExplained'
    BY GivenBack DEF DuplicatesExplained
  <2> QED
    BY <2>1, <2>2, <2>3, <2>4, <2>5, <2>6, <2>7 DEF Inv
<1>13. ASSUME NEW g \in Routines, Receive(g) PROVE Inv'
  <2> USE <1>0, <1>13 DEF Receive, At, brokerVars, jobVars, stopVars
  <2>1. TypeOK'
    <3>1. activeJobs' = Cardinality({h \in Routines : pc'[h] \in Counted})
      BY Counting DEF Counted, RoutinePc
    <3> QED
      BY <3>1 DEF TypeOK, PlacesInv, Connected, Holding, Working, RoutinePc
  <2>2. PlacesInv'
    BY DEF PlacesInv, Connected, Holding, Working, TypeOK
  <2>3. NewestInv'
    BY DEF NewestInv, Newest, Connected, PlacesInv, TypeOK, Working, Holding
  <2>4. KeptInv'
    BY DEF KeptInv, Kept, PlacesInv, Connected, Working, Holding, TypeOK
  <2>5. DrainedInv'
    BY DEF DrainedInv, TypeOK
  <2>6. ExplainedInv'
    BY DEF ExplainedInv, Connected, PlacesInv, TypeOK, Working, Holding
  <2>7. DuplicatesExplained'
    BY DEF DuplicatesExplained, TypeOK, PlacesInv, NewestInv, ExplainedInv,
       Connected, Working, Holding
  <2> QED
    BY <2>1, <2>2, <2>3, <2>4, <2>5, <2>6, <2>7 DEF Inv
<1>14. ASSUME NEW g \in Routines, RangeEnds(g) PROVE Inv'
  <2> USE <1>0, <1>14 DEF RangeEnds, At, brokerVars, jobVars, stopVars
  <2>1. TypeOK'
    <3>1. activeJobs' = Cardinality({h \in Routines : pc'[h] \in Counted})
      BY Counting DEF Counted, RoutinePc
    <3> QED
      BY <3>1 DEF TypeOK, PlacesInv, Connected, Holding, Working, RoutinePc
  <2>2. PlacesInv'
    BY DEF PlacesInv, Connected, Holding, Working, TypeOK
  <2>3. NewestInv'
    BY DEF NewestInv, Newest, Connected, PlacesInv, TypeOK, Working, Holding
  <2>4. KeptInv'
    BY DEF KeptInv, Kept, PlacesInv, Connected, Working, Holding, TypeOK
  <2>5. DrainedInv'
    BY DEF DrainedInv, TypeOK
  <2>6. ExplainedInv'
    BY DEF ExplainedInv, Connected, PlacesInv, TypeOK, Working, Holding
  <2>7. DuplicatesExplained'
    BY DEF DuplicatesExplained, TypeOK, PlacesInv, NewestInv, ExplainedInv,
       Connected, Working, Holding
  <2> QED
    BY <2>1, <2>2, <2>3, <2>4, <2>5, <2>6, <2>7 DEF Inv
<1>15. ASSUME NEW g \in Routines, Check(g) PROVE Inv'
  <2> USE <1>0, <1>15 DEF Check, At, brokerVars, jobVars, stopVars
  <2>1. TypeOK'
    <3>1. activeJobs' = Cardinality({h \in Routines : pc'[h] \in Counted})
      BY Counting DEF Counted, RoutinePc
    <3> QED
      BY <3>1 DEF TypeOK, PlacesInv, Connected, Holding, Working, RoutinePc
  <2>2. PlacesInv'
    BY DEF PlacesInv, Connected, Holding, Working, TypeOK
  <2>3. NewestInv'
    BY DEF NewestInv, Newest, Connected, PlacesInv, TypeOK, Working, Holding
  <2>4. KeptInv'
    BY DEF KeptInv, Kept, PlacesInv, Connected, Working, Holding, TypeOK
  <2>5. DrainedInv'
    BY DEF DrainedInv, TypeOK
  <2>6. ExplainedInv'
    BY DEF ExplainedInv, Connected, PlacesInv, TypeOK, Working, Holding
  <2>7. DuplicatesExplained'
    BY DEF DuplicatesExplained, TypeOK, PlacesInv, NewestInv, ExplainedInv,
       Connected, Working, Holding
  <2> QED
    BY <2>1, <2>2, <2>3, <2>4, <2>5, <2>6, <2>7 DEF Inv
<1>16. ASSUME NEW g \in Routines, CountJob(g) PROVE Inv'
  <2> USE <1>0, <1>16 DEF CountJob, At, brokerVars, jobVars, stopVars
  <2>1. TypeOK'
    <3>1. activeJobs' = Cardinality({h \in Routines : pc'[h] \in Counted})
      BY Counting DEF Counted, RoutinePc
    <3> QED
      BY <3>1 DEF TypeOK, PlacesInv, Connected, Holding, Working, RoutinePc
  <2>2. PlacesInv'
    BY DEF PlacesInv, Connected, Holding, Working, TypeOK
  <2>3. NewestInv'
    BY DEF NewestInv, Newest, Connected, PlacesInv, TypeOK, Working, Holding
  <2>4. KeptInv'
    BY DEF KeptInv, Kept, PlacesInv, Connected, Working, Holding, TypeOK
  <2>5. DrainedInv'
    BY DEF DrainedInv, TypeOK
  <2>6. ExplainedInv'
    BY DEF ExplainedInv, Connected, PlacesInv, TypeOK, Working, Holding
  <2>7. DuplicatesExplained'
    BY DEF DuplicatesExplained, TypeOK, PlacesInv, NewestInv, ExplainedInv,
       Connected, Working, Holding
  <2> QED
    BY <2>1, <2>2, <2>3, <2>4, <2>5, <2>6, <2>7 DEF Inv
<1>17. ASSUME NEW g \in Routines, AttemptSucceeds(g) PROVE Inv'
  <2> USE <1>0, <1>17 DEF AttemptSucceeds, At, brokerVars, jobVars, stopVars
  <2>1. TypeOK'
    <3>1. activeJobs' = Cardinality({h \in Routines : pc'[h] \in Counted})
      BY Counting DEF Counted, RoutinePc
    <3> QED
      BY <3>1 DEF TypeOK, PlacesInv, Connected, Holding, Working, RoutinePc
  <2>2. PlacesInv'
    BY DEF PlacesInv, Connected, Holding, Working, TypeOK
  <2>3. NewestInv'
    BY DEF NewestInv, Newest, Connected, PlacesInv, TypeOK, Working, Holding
  <2>4. KeptInv'
    BY DEF KeptInv, Kept, PlacesInv, Connected, Working, Holding, TypeOK
  <2>5. DrainedInv'
    BY DEF DrainedInv, TypeOK
  <2>6. ExplainedInv'
    BY DEF ExplainedInv, Connected, PlacesInv, TypeOK, Working, Holding
  <2>7. DuplicatesExplained'
    BY DEF DuplicatesExplained, TypeOK, PlacesInv, NewestInv, ExplainedInv,
       Connected, Working, Holding
  <2> QED
    BY <2>1, <2>2, <2>3, <2>4, <2>5, <2>6, <2>7 DEF Inv
<1>18. ASSUME NEW g \in Routines, AttemptSkipped(g) PROVE Inv'
  <2> USE <1>0, <1>18 DEF AttemptSkipped, At, brokerVars, jobVars, stopVars
  <2>1. TypeOK'
    <3>1. activeJobs' = Cardinality({h \in Routines : pc'[h] \in Counted})
      BY Counting DEF Counted, RoutinePc
    <3>2. held[g] \in Copy
      BY DEF TypeOK, PlacesInv
    <3>3. held[g][1] \in Mails
      BY <3>2 DEF Copy
    <3> QED
      BY <3>1, <3>2, <3>3 DEF TypeOK, RoutinePc
  <2>2. PlacesInv'
    BY DEF PlacesInv, Connected, Holding, Working, TypeOK
  <2>3. NewestInv'
    BY DEF NewestInv, Newest, Connected, PlacesInv, TypeOK, Working, Holding
  <2>4. KeptInv'
    BY DEF KeptInv, Kept, PlacesInv, Connected, Working, Holding, TypeOK
  <2>5. DrainedInv'
    BY DEF DrainedInv, TypeOK
  <2>6. ExplainedInv'
    BY DEF ExplainedInv, Connected, PlacesInv, TypeOK, Working, Holding
  <2>7. DuplicatesExplained'
    BY DEF DuplicatesExplained, TypeOK, PlacesInv, NewestInv, ExplainedInv,
       Connected, Working, Holding
  <2> QED
    BY <2>1, <2>2, <2>3, <2>4, <2>5, <2>6, <2>7 DEF Inv
<1>19. ASSUME NEW g \in Routines, AttemptFails(g) PROVE Inv'
  <2> USE <1>0, <1>19 DEF AttemptFails, At, brokerVars, jobVars, stopVars
  <2>1. TypeOK'
    <3>1. activeJobs' = Cardinality({h \in Routines : pc'[h] \in Counted})
      BY Counting DEF Counted, RoutinePc
    <3>2. held[g] \in Copy
      BY DEF TypeOK, PlacesInv
    <3>3. held[g][1] \in Mails
      BY <3>2 DEF Copy
    <3> QED
      BY <3>1, <3>2, <3>3 DEF TypeOK, RoutinePc
  <2>2. PlacesInv'
    BY DEF PlacesInv, Connected, Holding, Working, TypeOK
  <2>3. NewestInv'
    BY DEF NewestInv, Newest, Connected, PlacesInv, TypeOK, Working, Holding
  <2>4. KeptInv'
    BY DEF KeptInv, Kept, PlacesInv, Connected, Working, Holding, TypeOK
  <2>5. DrainedInv'
    BY DEF DrainedInv, TypeOK
  <2>6. ExplainedInv'
    BY DEF ExplainedInv, Connected, PlacesInv, TypeOK, Working, Holding
  <2>7. DuplicatesExplained'
    BY DEF DuplicatesExplained, TypeOK, PlacesInv, NewestInv, ExplainedInv,
       Connected, Working, Holding
  <2> QED
    BY <2>1, <2>2, <2>3, <2>4, <2>5, <2>6, <2>7 DEF Inv
<1>20. ASSUME NEW g \in Routines, Ack(g) PROVE Inv'
  <2> USE <1>0, <1>20 DEF Ack, At, brokerVars, jobVars, stopVars
  <2>1. TypeOK'
    <3>1. activeJobs' = Cardinality({h \in Routines : pc'[h] \in Counted})
      BY Counting DEF Counted, RoutinePc
    <3> QED
      BY <3>1 DEF TypeOK, PlacesInv, Connected, Holding, Working, RoutinePc
  <2>2. PlacesInv'
    BY DEF PlacesInv, Connected, Holding, Working, TypeOK
  <2>3. NewestInv'
    BY DEF NewestInv, Newest, Connected, PlacesInv, TypeOK, Working, Holding
  <2>4. KeptInv'
    BY DEF KeptInv, Kept, PlacesInv, Connected, Working, Holding, TypeOK
  <2>5. DrainedInv'
    BY DEF DrainedInv, TypeOK
  <2>6. ExplainedInv'
    BY DEF ExplainedInv, Connected, PlacesInv, TypeOK, Working, Holding
  <2>7. DuplicatesExplained'
    BY DEF DuplicatesExplained, TypeOK, PlacesInv, NewestInv, ExplainedInv,
       Connected, Working, Holding
  <2> QED
    BY <2>1, <2>2, <2>3, <2>4, <2>5, <2>6, <2>7 DEF Inv
<1>21. ASSUME NEW g \in Routines, UncountJob(g) PROVE Inv'
  <2> USE <1>0, <1>21 DEF UncountJob, At, brokerVars, jobVars, stopVars
  <2>1. TypeOK'
    <3>1. activeJobs' = Cardinality({h \in Routines : pc'[h] \in Counted})
      BY Counting DEF Counted, RoutinePc
    <3> QED
      BY <3>1 DEF TypeOK, PlacesInv, Connected, Holding, Working, RoutinePc
  <2>2. PlacesInv'
    BY DEF PlacesInv, Connected, Holding, Working, TypeOK
  <2>3. NewestInv'
    BY DEF NewestInv, Newest, Connected, PlacesInv, TypeOK, Working, Holding
  <2>4. KeptInv'
    BY DEF KeptInv, Kept, PlacesInv, Connected, Working, Holding, TypeOK
  <2>5. DrainedInv'
    BY DEF DrainedInv, TypeOK
  <2>6. ExplainedInv'
    BY DEF ExplainedInv, Connected, PlacesInv, TypeOK, Working, Holding
  <2>7. DuplicatesExplained'
    BY DEF DuplicatesExplained, TypeOK, PlacesInv, NewestInv, ExplainedInv,
       Connected, Working, Holding
  <2> QED
    BY <2>1, <2>2, <2>3, <2>4, <2>5, <2>6, <2>7 DEF Inv
<1>22. CASE UNCHANGED vars
  BY <1>0, <1>22 DEF vars, Inv, TypeOK, PlacesInv, NewestInv, Newest, KeptInv,
     Kept, DrainedInv, ExplainedInv, DuplicatesExplained, Connected
<1> QED
  BY <1>1, <1>2, <1>3, <1>4, <1>5, <1>6, <1>7, <1>8, <1>9, <1>10,
     <1>11, <1>12, <1>13, <1>14, <1>15, <1>16, <1>17, <1>18, <1>19, <1>20,
     <1>21, <1>22
     DEF Next, Start, GracefulShutdown, ProcessMessages

\* The invariant holds in every reachable state.
LEMMA InvHolds == Spec => []Inv
BY InitInv, InvStep, PTL DEF Spec

\* The broker, the goroutines and the main goroutine keep to their types, and
\* activeJobs counts the goroutines that are in a job.
THEOREM TypeCorrect == Spec => []TypeOK
<1>1. Inv => TypeOK
  BY DEF Inv
<1> QED
  BY <1>1, InvHolds, PTL

\* No shutdown, lost connection or failed start makes a mail disappear.
THEOREM MailsStayAccounted == Spec => []MailsAccounted
<1>1. Inv => MailsAccounted
  <2> SUFFICES ASSUME Inv, NEW m \in Mails, Kept(m)
               PROVE  \/ \E c \in queue \cup unacked \cup asleep \cup sent
                                      \cup lost : c[1] = m
                      \/ m \in failed \cup skipped
    BY DEF Inv, KeptInv, MailsAccounted
  <2>1. buffer \subseteq unacked
    BY DEF Inv, TypeOK
  <2> QED
    BY <2>1 DEF Kept
<1> QED
  BY <1>1, InvHolds, PTL

\* A mail that was sent is delivered again only for one of three reasons.
THEOREM DuplicatesAreExplained == Spec => []DuplicatesExplained
<1>1. Inv => DuplicatesExplained
  BY DEF Inv
<1> QED
  BY <1>1, InvHolds, PTL

\* No path through a goroutine leaves a message that nobody will acknowledge or
\* put back while the channel is open.
THEOREM MessagesAreWorkedOn == Spec => []NoMessageStranded
<1>1. Inv => NoMessageStranded
  BY DEF Inv, PlacesInv, NoMessageStranded, Holding, Working
<1> QED
  BY <1>1, InvHolds, PTL

\* What goroutines still work on after the channel was closed is back in the
\* queue, and nothing is lost before.
ClosedInv ==
    /\ Connected => lost = {}
    /\ ~Connected =>
           \A g \in Routines : pc[g] \in Working => held[g] \in queue

LEMMA ClosedStep ==
    Inv /\ ClosedInv /\ FailuresReported /\ [Next]_vars
        => ClosedInv' /\ FailuresReported'
<1> SUFFICES ASSUME Inv, ClosedInv, FailuresReported, [Next]_vars
             PROVE  ClosedInv' /\ FailuresReported'
  OBVIOUS
<1> USE DEF ClosedInv, FailuresReported, Connected, Inv, brokerVars, jobVars,
            stopVars
<1>0. \A c \in asleep : c[2] # MaxAttempts
  <2> SUFFICES ASSUME NEW c \in asleep PROVE c[2] # MaxAttempts
    OBVIOUS
  <2>1. c \in Copy /\ c[2] < MaxAttempts
    BY DEF TypeOK, PlacesInv
  <2> QED
    BY <2>1, ShutdownAssumption DEF Copy
<1>1. CASE Connect
  BY <1>1 DEF Connect, StartStep, TypeOK
<1>2. CASE Consume
  BY <1>2 DEF Consume, StartStep
<1>3. CASE StartFails
  BY <1>3 DEF StartFails, TypeOK, PlacesInv, Working, Holding
<1>4. CASE Push
  BY <1>4 DEF Push
<1>5. CASE LoseConnection
  BY <1>5 DEF LoseConnection, GiveBack, PlacesInv, Working, Holding
<1>6. CASE FireRetry
  BY <1>0, <1>6 DEF FireRetry
<1>7. CASE Signal \/ CancelConsumer \/ Timeout
  BY <1>7 DEF Signal, CancelConsumer, Timeout
<1>8. CASE Drained
  BY <1>8 DEF Drained, DrainedInv
<1>9. CASE CloseChannel
  BY <1>9 DEF CloseChannel, GiveBack, PlacesInv, Working, Holding
<1>10. CASE Exit
  BY <1>0, <1>10 DEF Exit, GiveBack, PlacesInv, Working, Holding
<1>11. ASSUME NEW g \in Routines, ProcessMessages(g)
       PROVE  ClosedInv' /\ FailuresReported'
  <2>1. CASE Receive(g)
    BY <1>11, <2>1 DEF Receive, At, TypeOK, PlacesInv
  <2>2. CASE RangeEnds(g) \/ CountJob(g) \/ UncountJob(g)
    BY <1>11, <2>2 DEF RangeEnds, CountJob, UncountJob, At, TypeOK, Working
  <2>3. CASE Check(g)
    BY <1>11, <2>3 DEF Check, At, TypeOK, Working
  <2>4. CASE AttemptSucceeds(g) \/ AttemptSkipped(g) \/ Ack(g)
    BY <1>11, <2>4
       DEF AttemptSucceeds, AttemptSkipped, Ack, At, TypeOK, Working
  <2>5. CASE AttemptFails(g)
    <3>1. ClosedInv'
      BY <1>11, <2>5 DEF AttemptFails, At, TypeOK, Working
    <3>2. FailuresReported'
      BY <1>11, <2>5 DEF AttemptFails, At, ExplainedInv, Working
    <3> QED
      BY <3>1, <3>2
  <2> QED
    BY <1>11, <2>1, <2>2, <2>3, <2>4, <2>5 DEF ProcessMessages
<1>12. CASE UNCHANGED vars
  BY <1>12 DEF vars
<1> QED
  BY <1>1, <1>2, <1>3, <1>4, <1>5, <1>6, <1>7, <1>8, <1>9, <1>10, <1>11, <1>12
     DEF Next, Start, GracefulShutdown

\* A goroutine that the shutdown waits for, on a connection that lasts, gets
\* its last failure through to the failed queue.
THEOREM FailuresAreReported == Spec => []FailuresReported
<1>1. Init => ClosedInv /\ FailuresReported
  BY DEF Init, ClosedInv, FailuresReported, Connected
<1>2. Spec => [](ClosedInv /\ FailuresReported)
  BY <1>1, ClosedStep, InvHolds, PTL DEF Spec
<1> QED
  BY <1>2, PTL
=============================================================================
