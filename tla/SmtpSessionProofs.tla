------------------------- MODULE SmtpSessionProofs -------------------------
(* Theorems about SmtpSession, for every number of connections and mails   *)
(* and every set of addresses.                                             *)
EXTENDS SmtpSession, TLAPS

\* The session and go-smtp agree on the envelope of the connection.
SessionInv ==
    \A c \in Conns :
        /\ to[c] = recipients[c]
        /\ sender[c] # NoSender => from[c] = sender[c] /\ Permitted(from[c])

\* A row that belongs to what was acknowledged of its mail.
Own(r, m) ==
    /\ envelope[m] # NoMail
    /\ r.to = envelope[m].to /\ r.copies = envelope[m].copies
    /\ envelope[m].from # NullSender => r.from = envelope[m].from
    /\ domainsConfigured => r.from \in AllowedSenders

\* What Data works on, what is stored and what is published belongs to its
\* mail, and two connections never work on the same one.
MailInv ==
    /\ \A c \in Conns : current[c] # NoMail => Own(draft[c], current[c])
    /\ \A m \in Mails : rows[m] # NoMail => Own(rows[m], m)
    /\ \A m \in Mails : jobs[m] # NoMail => Own(jobs[m], m)
    /\ \A c, d \in Conns : current[c] = current[d] /\ c # d =>
           current[c] = NoMail

\* What Data has done of its mail at each step.
Progress ==
    \A c \in Conns :
        /\ current[c] # NoMail => answer[current[c]] = "none"
        /\ step[c] \in {"publish", "markFailed", "accept"} =>
               rows[current[c]] # NoMail
        /\ step[c] = "accept" => jobs[current[c]] # NoMail
        /\ step[c] \in {"create", "publish", "markFailed", "refuse"} =>
               jobs[current[c]] = NoMail

AnswerInv ==
    /\ AnswersAreTrue
    /\ \A m \in Mails : envelope[m] = NoMail => answer[m] = "none"

Inv == TypeOK /\ SessionInv /\ MailInv /\ Progress /\ AnswerInv

USE DEF connVars, dataVars, mailVars

LEMMA InvInit == Init => Inv
  BY SessionAssumption DEF Init, Inv, TypeOK, SessionInv, MailInv, Progress,
     AnswerInv, AnswersAreTrue, Sender, Step

\* What an envelope makes of a message belongs to that envelope.
LEMMA ParsedRow ==
  ASSUME NEW f \in Sender, NEW t \in SUBSET Addresses, NEW k \in Contents,
         Permitted(f), t # {}
  PROVE  /\ ParsedMail(f, t, k) \in Row
         /\ ParsedMail(f, t, k).to = t
         /\ ParsedMail(f, t, k).copies = k.copies
         /\ f # NullSender => ParsedMail(f, t, k).from = f
         /\ domainsConfigured => ParsedMail(f, t, k).from \in AllowedSenders
  BY SessionAssumption DEF ParsedMail, Row, Content, Sender, Permitted

\* Every action keeps the invariant.
LEMMA InvStep == Inv /\ [Next]_vars => Inv'
<1> SUFFICES ASSUME Inv, [Next]_vars PROVE Inv'
  OBVIOUS
<1> USE SessionAssumption
<1>0. TypeOK /\ SessionInv /\ MailInv /\ Progress /\ AnswerInv
  BY DEF Inv
<1>a. UNCHANGED domainsConfigured
  BY DEF Next, vars
<1> USE <1>a
<1>1. ASSUME NEW c \in Conns, Rset(c) PROVE Inv'
  <2>1. TypeOK'
    BY <1>0, <1>1 DEF Rset, ResetConn, Reset, TypeOK, Sender
  <2>2. SessionInv'
    BY <1>0, <1>1 DEF Rset, ResetConn, Reset, TypeOK, SessionInv, Permitted
  <2>3. MailInv' /\ Progress' /\ AnswerInv'
    BY <1>0, <1>1 DEF Rset, ResetConn, Reset, MailInv, Own, Progress,
       AnswerInv, AnswersAreTrue
  <2> QED
    BY <2>1, <2>2, <2>3 DEF Inv
<1>2. CASE Restart
  <2>1. TypeOK'
    BY <1>0, <1>2 DEF Restart, TypeOK, Sender, Step
  <2>2. SessionInv'
    BY <1>2 DEF Restart, SessionInv
  <2>3. MailInv'
    BY <1>0, <1>2 DEF Restart, MailInv, Own
  <2>4. Progress' /\ AnswerInv'
    BY <1>0, <1>2 DEF Restart, Progress, AnswerInv, AnswersAreTrue
  <2> QED
    BY <2>1, <2>2, <2>3, <2>4 DEF Inv
<1>3. ASSUME NEW c \in Conns, NEW f \in Sender, Mail(c, f) PROVE Inv'
  <2>1. TypeOK'
    BY <1>0, <1>3 DEF Mail, TypeOK
  <2>2. SessionInv'
    BY <1>0, <1>3 DEF Mail, TypeOK, SessionInv, Permitted
  <2>3. MailInv' /\ Progress' /\ AnswerInv'
    BY <1>0, <1>3 DEF Mail, MailInv, Own, Progress, AnswerInv, AnswersAreTrue
  <2> QED
    BY <2>1, <2>2, <2>3 DEF Inv
<1>4. ASSUME NEW c \in Conns, NEW t \in Addresses, Rcpt(c, t) PROVE Inv'
  <2>1. TypeOK'
    BY <1>0, <1>4 DEF Rcpt, TypeOK
  <2>2. SessionInv'
    BY <1>0, <1>4 DEF Rcpt, TypeOK, SessionInv, Permitted
  <2>3. MailInv' /\ Progress' /\ AnswerInv'
    BY <1>0, <1>4 DEF Rcpt, MailInv, Own, Progress, AnswerInv, AnswersAreTrue
  <2> QED
    BY <2>1, <2>2, <2>3 DEF Inv
<1>5. ASSUME NEW c \in Conns, Data(c) PROVE Inv'
  <2>1. PICK m \in Mails, k \in Contents :
           /\ envelope[m] = NoMail
           /\ envelope' = [envelope EXCEPT
                 ![m] = [from |-> sender[c], to |-> recipients[c],
                         copies |-> k.copies]]
           /\ current' = [current EXCEPT ![c] = m]
           /\ draft' = [draft EXCEPT ![c] = ParsedMail(from[c], to[c], k)]
    BY <1>5 DEF Data
  <2> DEFINE e == [from |-> sender[c], to |-> recipients[c],
                   copies |-> k.copies]
             r == ParsedMail(from[c], to[c], k)
  <2>2. /\ step[c] = "command" /\ step' = [step EXCEPT ![c] = "create"]
        /\ sender[c] # NoSender /\ recipients[c] # {}
        /\ UNCHANGED <<connVars, rows, jobs, answer>>
    BY <1>5 DEF Data
  <2>3. /\ sender[c] \in Sender /\ recipients[c] \in SUBSET Addresses
        /\ from[c] = sender[c] /\ to[c] = recipients[c] /\ Permitted(from[c])
    BY <1>0, <2>2 DEF TypeOK, SessionInv
  <2>4. /\ e \in Envelope
        /\ e.from = sender[c] /\ e.to = recipients[c] /\ e.copies = k.copies
    BY <2>3 DEF Envelope, Content
  <2>5. /\ r \in Row
        /\ r.to = e.to /\ r.copies = e.copies
        /\ e.from # NullSender => r.from = e.from
        /\ domainsConfigured => r.from \in AllowedSenders
    BY <2>2, <2>3, <2>4, ParsedRow
  <2> HIDE DEF e, r
  <2>6. /\ \A n \in Mails : envelope'[n] = IF n = m THEN e ELSE envelope[n]
        /\ \A d \in Conns : current'[d] = IF d = c THEN m ELSE current[d]
        /\ \A d \in Conns : draft'[d] = IF d = c THEN r ELSE draft[d]
        /\ \A d \in Conns : step'[d] = IF d = c THEN "create" ELSE step[d]
    BY <1>0, <2>1, <2>2 DEF TypeOK, e, r
  <2>7. m # NoMail /\ r # NoMail
    BY <2>5
  <2>8. /\ envelope' \in [Mails -> Envelope \cup {NoMail}]
        /\ draft' \in [Conns -> Row \cup {NoMail}]
    BY <1>0, <2>1, <2>4, <2>5 DEF TypeOK, e, r
  <2>9. TypeOK'
    BY <1>0, <2>1, <2>2, <2>6, <2>7, <2>8 DEF TypeOK, Step
  <2>10. e # NoMail
    BY <2>4
  <2>11. rows[m] = NoMail /\ jobs[m] = NoMail /\ answer[m] = "none"
    BY <1>0, <2>1 DEF MailInv, Own, AnswerInv
  <2>12. \A d \in Conns : d # c => current[d] # m
    BY <1>0, <2>1, <2>7 DEF MailInv, Own
  <2>13. SessionInv'
    BY <1>0, <2>2 DEF SessionInv, Permitted
  <2>14. MailInv'
    <3>1. \A d \in Conns : current'[d] # NoMail => Own(draft[d], current[d])'
      BY <1>0, <2>5, <2>6, <2>10, <2>12 DEF MailInv, Own, TypeOK
    <3>2. \A n \in Mails : /\ rows'[n] # NoMail => Own(rows[n], n)'
                           /\ jobs'[n] # NoMail => Own(jobs[n], n)'
      BY <1>0, <2>2, <2>6, <2>11 DEF MailInv, Own
    <3>3. \A d, g \in Conns : current'[d] = current'[g] /\ d # g =>
             current'[d] = NoMail
      BY <1>0, <2>6, <2>12 DEF MailInv
    <3> QED
      BY <3>1, <3>2, <3>3 DEF MailInv
  <2>15. Progress'
    BY <1>0, <2>2, <2>6, <2>11 DEF Progress
  <2>16. AnswerInv'
    BY <1>0, <2>2, <2>6, <2>11 DEF AnswerInv, AnswersAreTrue
  <2> QED
    BY <2>9, <2>13, <2>14, <2>15, <2>16 DEF Inv
<1>6. ASSUME NEW c \in Conns, CreateRow(c) PROVE Inv'
  <2>1. current[c] \in Mails /\ draft[c] \in Row /\ step[c] = "create"
    BY <1>0, <1>6 DEF CreateRow, StepTo, TypeOK
  <2>2. TypeOK'
    BY <1>0, <1>6, <2>1 DEF CreateRow, StepTo, TypeOK, Step
  <2>3. SessionInv'
    BY <1>0, <1>6 DEF CreateRow, SessionInv, Permitted
  <2>4. MailInv'
    BY <1>0, <1>6, <2>1 DEF CreateRow, StepTo, MailInv, Own, TypeOK
  <2>5. Progress'
    BY <1>0, <1>6, <2>1 DEF CreateRow, StepTo, MailInv, Progress, TypeOK
  <2>6. AnswerInv'
    BY <1>0, <1>6, <2>1 DEF CreateRow, StepTo, AnswerInv, AnswersAreTrue, TypeOK
  <2> QED
    BY <2>2, <2>3, <2>4, <2>5, <2>6 DEF Inv
<1>7. ASSUME NEW c \in Conns, PublishMail(c) PROVE Inv'
  <2>1. current[c] \in Mails /\ draft[c] \in Row /\ step[c] = "publish"
    BY <1>0, <1>7 DEF PublishMail, StepTo, TypeOK
  <2>2. TypeOK'
    BY <1>0, <1>7, <2>1 DEF PublishMail, StepTo, TypeOK, Step
  <2>3. SessionInv'
    BY <1>0, <1>7 DEF PublishMail, SessionInv, Permitted
  <2>4. MailInv'
    BY <1>0, <1>7, <2>1 DEF PublishMail, StepTo, MailInv, Own, TypeOK
  <2>5. Progress'
    BY <1>0, <1>7, <2>1 DEF PublishMail, StepTo, MailInv, Progress, TypeOK
  <2>6. AnswerInv'
    BY <1>0, <1>7, <2>1 DEF PublishMail, StepTo, Progress, AnswerInv,
       AnswersAreTrue, TypeOK
  <2> QED
    BY <2>2, <2>3, <2>4, <2>5, <2>6 DEF Inv
<1>8. ASSUME NEW c \in Conns, MarkFailed(c) PROVE Inv'
  <2>1. /\ current[c] \in Mails /\ step[c] = "markFailed"
        /\ rows[current[c]] \in Row /\ rows[current[c]] # NoMail
    BY <1>0, <1>8 DEF MarkFailed, StepTo, TypeOK, Progress
  <2>2. PICK r \in Row :
           /\ rows' = [rows EXCEPT ![current[c]] = r]
           /\ r.from = rows[current[c]].from /\ r.to = rows[current[c]].to
           /\ r.copies = rows[current[c]].copies
    <3>1. [rows[current[c]] EXCEPT !.status = "failed"] \in Row
      BY <2>1 DEF Row
    <3>2. rows = [rows EXCEPT ![current[c]] = rows[current[c]]]
      BY <1>0 DEF TypeOK
    <3> QED
      BY <1>8, <2>1, <3>1, <3>2 DEF MarkFailed, Row
  <2>3. TypeOK'
    BY <1>0, <1>8, <2>1, <2>2 DEF MarkFailed, StepTo, TypeOK, Step
  <2>4. SessionInv'
    BY <1>0, <1>8 DEF MarkFailed, SessionInv, Permitted
  <2>5. MailInv'
    BY <1>0, <1>8, <2>1, <2>2 DEF MarkFailed, StepTo, MailInv, Own, TypeOK
  <2>6. Progress'
    BY <1>0, <1>8, <2>1, <2>2 DEF MarkFailed, StepTo, MailInv, Progress, TypeOK
  <2>7. AnswerInv'
    BY <1>0, <1>8, <2>1, <2>2 DEF MarkFailed, StepTo, AnswerInv,
       AnswersAreTrue, TypeOK
  <2> QED
    BY <2>3, <2>4, <2>5, <2>6, <2>7 DEF Inv
<1>9. ASSUME NEW c \in Conns, Answer(c) PROVE Inv'
  <2>1. /\ current[c] \in Mails /\ step[c] \in {"accept", "refuse"}
        /\ step' = [step EXCEPT ![c] = "command"]
        /\ current' = [current EXCEPT ![c] = NoMail]
        /\ draft' = [draft EXCEPT ![c] = NoMail]
        /\ UNCHANGED <<envelope, rows, jobs>>
    BY <1>0, <1>9 DEF Answer, StepTo, TypeOK
  <2>2. TypeOK'
    BY <1>0, <1>9, <2>1 DEF Answer, StepTo, ResetConn, Reset, TypeOK, Sender,
       Step
  <2>3. SessionInv'
    BY <1>0, <1>9 DEF Answer, ResetConn, Reset, SessionInv, TypeOK, Permitted
  <2>4. MailInv'
    BY <1>0, <2>1 DEF MailInv, Own, TypeOK
  <2>5. Progress'
    BY <1>0, <1>9, <2>1 DEF Answer, MailInv, Progress, TypeOK
  <2>6. AnswerInv'
    BY <1>0, <1>9, <2>1 DEF Answer, StepTo, Progress, MailInv, Own, AnswerInv,
       AnswersAreTrue, TypeOK
  <2> QED
    BY <2>2, <2>3, <2>4, <2>5, <2>6 DEF Inv
<1>10. CASE UNCHANGED vars
  BY <1>0, <1>10 DEF vars, Inv, TypeOK, SessionInv, Permitted, MailInv, Own,
     Progress, AnswerInv, AnswersAreTrue
<1> QED
  BY <1>1, <1>2, <1>3, <1>4, <1>5, <1>6, <1>7, <1>8, <1>9, <1>10 DEF Next

LEMMA InvHolds == Spec => []Inv
<1>1. Init => Inv
  BY InvInit
<1>2. Inv /\ [Next]_vars => Inv'
  BY InvStep
<1> QED
  BY <1>1, <1>2, PTL DEF Spec

\* The variables keep their types, and a connection has a mail exactly while
\* Data runs.
THEOREM TypeCorrect == Spec => []TypeOK
<1>1. Inv => TypeOK
  BY DEF Inv
<1> QED
  BY <1>1, InvHolds, PTL

\* No recipient and no sender of one mail gets into another, be it from the
\* envelope or from a header, whichever commands a client sends and however
\* connections interleave (Mail, Rcpt, Data, Reset).
THEOREM EnvelopesAreOwn == Spec => []EnvelopeIsOwn
<1>1. Inv => EnvelopeIsOwn
  BY DEF Inv, MailInv, Own, EnvelopeIsOwn
<1> QED
  BY <1>1, InvHolds, PTL

\* With SMTP_ALLOWED_DOMAINS set, only mails of its senders are stored.
THEOREM SendersAreAllowed == Spec => []AllowedSendersOnly
<1>1. Inv => AllowedSendersOnly
  BY DEF Inv, MailInv, Own, AllowedSendersOnly
<1> QED
  BY <1>1, InvHolds, PTL

\* The answer to DATA tells whether the mail was published.
THEOREM AnswersHold == Spec => []AnswersAreTrue
<1>1. Inv => AnswersAreTrue
  BY DEF Inv, AnswerInv
<1> QED
  BY <1>1, InvHolds, PTL
=============================================================================
