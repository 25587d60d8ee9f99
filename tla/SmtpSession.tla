---------------------------- MODULE SmtpSession ----------------------------
(***************************************************************************)
(* The SMTP receiver: the sessions of concurrent connections, each of      *)
(* which can submit several mails one after the other, and what Data makes *)
(* of a message: the envelope, the row, the job and the answer.            *)
(*                                                                         *)
(* The connections are go-smtp's, which is external: it accepts RCPT and   *)
(* DATA only after a MAIL that the session accepted, DATA only after a     *)
(* RCPT, and calls Reset after RSET, EHLO and every DATA.  A step of Data  *)
(* is one call that leaves the process.  Attachments are in Attachments,   *)
(* the KeyDB status in MailPipeline.                                       *)
(***************************************************************************)
EXTENDS Naturals

CONSTANTS
    Conns,             \* connections of the server
    Addresses,         \* mail addresses, after cleanEmail
    NullSender,        \* the address of MAIL FROM:<>, and of a missing header
    AllowedSenders,    \* the addresses that end in an SMTP_ALLOWED_DOMAINS
    Contents,          \* the messages that clients send
    Mails,             \* mail ids (uuid.New() in parseMailData)
    NoSender,          \* no MAIL was accepted yet
    NoMail             \* no mail, or no row

Sender == Addresses \cup {NullSender}

\* A message as far as its recipients go: what its From and To headers say, and
\* the addresses of its Cc and Bcc headers. One whose structure cannot be read
\* counts as one without headers.
Content == [from : Sender, to : SUBSET Addresses, copies : SUBSET Addresses]

\* What a client was acknowledged and which copies its message asks for; and
\* what becomes of it.
Envelope == [from : Sender, to : SUBSET Addresses, copies : SUBSET Addresses]
Row == [from : Sender, to : SUBSET Addresses, copies : SUBSET Addresses,
        status : {"queued", "failed"}]

\* Empty domains are dropped from the configuration: NullSender ends in none.
ASSUME SessionAssumption ==
    /\ AllowedSenders \subseteq Addresses
    /\ NullSender \notin Addresses
    /\ Contents \subseteq Content
    /\ NoSender \notin Sender
    /\ NoMail \notin Mails \cup Envelope \cup Row

VARIABLES
    domainsConfigured, \* input: is SMTP_ALLOWED_DOMAINS set?
    from, to,   \* Session.from and Session.to of each connection
    sender,     \* go-smtp: the sender it has acknowledged, or NoSender
    recipients, \* go-smtp: the recipients it has acknowledged
    step,       \* where each connection is in Data
    current,    \* the mail it works on
    draft,      \* the row that parseMailData has made of it
    envelope,   \* history: the acknowledged sender and recipients of each mail,
                \* and the copies that its own message asks for
    rows,       \* the table mails
    jobs,       \* the envelopes published to the mail queue
    answer      \* what the client was told of each mail

vars == <<domainsConfigured, from, to, sender, recipients, step, current,
          draft, envelope, rows, jobs, answer>>

connVars == <<from, to, sender, recipients>>
dataVars == <<step, current, draft>>
mailVars == <<envelope, rows, jobs, answer>>

Step == {"command", "create", "publish", "markFailed", "accept", "refuse"}

Init ==
    /\ domainsConfigured \in BOOLEAN
    /\ from = [c \in Conns |-> NullSender]
    /\ to = [c \in Conns |-> {}]
    /\ sender = [c \in Conns |-> NoSender]
    /\ recipients = [c \in Conns |-> {}]
    /\ step = [c \in Conns |-> "command"]
    /\ current = [c \in Conns |-> NoMail]
    /\ draft = [c \in Conns |-> NoMail]
    /\ envelope = [m \in Mails |-> NoMail]
    /\ rows = [m \in Mails |-> NoMail]
    /\ jobs = [m \in Mails |-> NoMail]
    /\ answer = [m \in Mails |-> "none"]

-----------------------------------------------------------------------------
(* Commands.                                                               *)

\* Mutant: the recipients are kept for the next mail.
ResetKeepsTo(c) ==
    /\ from' = [from EXCEPT ![c] = NullSender]
    /\ UNCHANGED to

\* Session.Reset; a new session has the same fields.
Reset(c) ==
    /\ from' = [from EXCEPT ![c] = NullSender]
    /\ to' = [to EXCEPT ![c] = {}]

\* go-smtp forgets its envelope and resets the session.
ResetConn(c) ==
    /\ Reset(c)
    /\ sender' = [sender EXCEPT ![c] = NoSender]
    /\ recipients' = [recipients EXCEPT ![c] = {}]

\* RSET or EHLO; a DATA whose message is too large or cannot be read; or the
\* client goes and another one connects.
Rset(c) ==
    /\ step[c] = "command"
    /\ ResetConn(c)
    /\ UNCHANGED <<dataVars, mailVars>>

\* The process ends and is started again. On a signal, too, main closes the
\* connections and returns without waiting for a Data in progress.
Restart ==
    /\ from' = [c \in Conns |-> NullSender]
    /\ to' = [c \in Conns |-> {}]
    /\ sender' = [c \in Conns |-> NoSender]
    /\ recipients' = [c \in Conns |-> {}]
    /\ step' = [c \in Conns |-> "command"]
    /\ current' = [c \in Conns |-> NoMail]
    /\ draft' = [c \in Conns |-> NoMail]
    /\ UNCHANGED mailVars

Permitted(f) == domainsConfigured => f \in AllowedSenders

\* Mutant: the sender is stored before it is checked.
MailSetsFirst(c, f) ==
    /\ step[c] = "command"
    /\ from' = [from EXCEPT ![c] = f]
    /\ sender' = IF Permitted(f) THEN [sender EXCEPT ![c] = f] ELSE sender
    /\ UNCHANGED <<to, recipients, dataVars, mailVars>>

\* A refused MAIL changes nothing: a sender accepted before it stays. A second
\* MAIL replaces the sender and keeps the recipients.
Mail(c, f) ==
    /\ step[c] = "command"
    /\ Permitted(f)
    /\ from' = [from EXCEPT ![c] = f]
    /\ sender' = [sender EXCEPT ![c] = f]
    /\ UNCHANGED <<to, recipients, dataVars, mailVars>>

Rcpt(c, t) ==
    /\ step[c] = "command"
    /\ sender[c] # NoSender
    /\ to' = [to EXCEPT ![c] = @ \cup {t}]
    /\ recipients' = [recipients EXCEPT ![c] = @ \cup {t}]
    /\ UNCHANGED <<from, sender, dataVars, mailVars>>

-----------------------------------------------------------------------------
(* Data.                                                                   *)

\* The row of a message: the From and To headers only stand in for what the
\* envelope does not say, those of Cc and Bcc add recipients to it.
ParsedMail(f, t, content) ==
    [from   |-> IF f = NullSender THEN content.from ELSE f,
     to     |-> IF t = {} THEN content.to ELSE t,
     copies |-> content.copies,
     status |-> "queued"]

Data(c) ==
    /\ step[c] = "command"
    /\ sender[c] # NoSender /\ recipients[c] # {}
    /\ step' = [step EXCEPT ![c] = "create"]
    /\ \E m \in Mails, content \in Contents :
          /\ envelope[m] = NoMail
          /\ envelope' = [envelope EXCEPT
                ![m] = [from |-> sender[c], to |-> recipients[c],
                        copies |-> content.copies]]
          /\ current' = [current EXCEPT ![c] = m]
          /\ draft' = [draft EXCEPT ![c] = ParsedMail(from[c], to[c], content)]
    /\ UNCHANGED <<connVars, rows, jobs, answer>>

StepTo(c, a, b) ==
    /\ step[c] = a
    /\ step' = [step EXCEPT ![c] = b]

CreateRow(c) ==
    /\ \/ /\ StepTo(c, "create", "publish")
          /\ rows' = [rows EXCEPT ![current[c]] = draft[c]]
       \/ /\ StepTo(c, "create", "refuse")
          /\ UNCHANGED rows
    /\ UNCHANGED <<connVars, current, draft, envelope, jobs, answer>>

\* Mutant: the return after a failed publish is missing.
PublishFallsThrough(c) ==
    /\ StepTo(c, "publish", "accept")
    /\ UNCHANGED <<connVars, current, draft, mailVars>>

PublishMail(c) ==
    /\ \/ /\ StepTo(c, "publish", "accept")
          /\ jobs' = [jobs EXCEPT ![current[c]] = draft[c]]
       \/ /\ StepTo(c, "publish", "markFailed")
          /\ UNCHANGED jobs
    /\ UNCHANGED <<connVars, current, draft, envelope, rows, answer>>

\* The error of the update is ignored.
MarkFailed(c) ==
    /\ StepTo(c, "markFailed", "refuse")
    /\ \/ rows' = [rows EXCEPT ![current[c]].status = "failed"]
       \/ UNCHANGED rows
    /\ UNCHANGED <<connVars, current, draft, envelope, jobs, answer>>

\* Mutant: the connection keeps its mail.
AnswerKeepsMail(c) ==
    /\ StepTo(c, "accept", "command") \/ StepTo(c, "refuse", "command")
    /\ ResetConn(c)
    /\ UNCHANGED <<current, draft, mailVars>>

\* Data returns; go-smtp answers 250 or an error and resets the session.
Answer(c) ==
    /\ \/ /\ StepTo(c, "accept", "command")
          /\ answer' = [answer EXCEPT ![current[c]] = "accepted"]
       \/ /\ StepTo(c, "refuse", "command")
          /\ answer' = [answer EXCEPT ![current[c]] = "refused"]
    /\ current' = [current EXCEPT ![c] = NoMail]
    /\ draft' = [draft EXCEPT ![c] = NoMail]
    /\ ResetConn(c)
    /\ UNCHANGED <<envelope, rows, jobs>>

-----------------------------------------------------------------------------
Next ==
    /\ \/ \E c \in Conns :
             \/ Rset(c)
             \/ \E f \in Sender : Mail(c, f)
             \/ \E t \in Addresses : Rcpt(c, t)
             \/ Data(c) \/ CreateRow(c) \/ PublishMail(c) \/ MarkFailed(c)
             \/ Answer(c)
       \/ Restart
    /\ UNCHANGED domainsConfigured

Spec == Init /\ [][Next]_vars

-----------------------------------------------------------------------------
\* Types; a connection works on a mail exactly while it is in Data.
TypeOK ==
    /\ domainsConfigured \in BOOLEAN
    /\ from \in [Conns -> Sender]
    /\ to \in [Conns -> SUBSET Addresses]
    /\ sender \in [Conns -> Sender \cup {NoSender}]
    /\ recipients \in [Conns -> SUBSET Addresses]
    /\ step \in [Conns -> Step]
    /\ current \in [Conns -> Mails \cup {NoMail}]
    /\ \A c \in Conns : step[c] = "command" <=> current[c] = NoMail
    /\ draft \in [Conns -> Row \cup {NoMail}]
    /\ \A c \in Conns : draft[c] = NoMail <=> current[c] = NoMail
    /\ envelope \in [Mails -> Envelope \cup {NoMail}]
    /\ rows \in [Mails -> Row \cup {NoMail}]
    /\ jobs \in [Mails -> Row \cup {NoMail}]
    /\ answer \in [Mails -> {"none", "accepted", "refused"}]

\* A mail that is stored or queued goes to the recipients that its own
\* transaction named, with copies to those that the Cc and Bcc headers of its
\* own message name and to nobody else, and comes from the sender that its
\* transaction named, if it did: nothing of another mail of the session, of a
\* refused command or of another connection gets into it, and no From or To
\* header overrides what the transaction said.
EnvelopeIsOwn ==
    \A m \in Mails : \A r \in {rows[m], jobs[m]} \ {NoMail} :
        /\ r.to = envelope[m].to /\ r.copies = envelope[m].copies
        /\ envelope[m].from # NullSender => r.from = envelope[m].from

\* When SMTP_ALLOWED_DOMAINS is set, every mail that is stored has a sender in
\* one of its domains, although the check of MAIL FROM sees only the envelope
\* and the sender can be taken from a header.
AllowedSendersOnly ==
    domainsConfigured =>
        \A m \in Mails : rows[m] # NoMail => rows[m].from \in AllowedSenders

\* A client is told 250 only of a mail that has a row and was published, and an
\* error only of one that was not: it can then submit the mail again without
\* having it sent twice.
AnswersAreTrue ==
    \A m \in Mails :
        /\ answer[m] = "accepted" => rows[m] # NoMail /\ jobs[m] # NoMail
        /\ answer[m] = "refused" => jobs[m] = NoMail
=============================================================================
