---------------------------- MODULE Attachments ----------------------------
(***************************************************************************)
(* The attachments of a mail on their way from the request to the          *)
(* provider: as files on the shared volume, as rows of the table           *)
(* attachments, as entries of the job, and as contents in the request to   *)
(* the provider. Mails come over REST (Send, processSingleMail) or over    *)
(* SMTP (parseMailData); the two treat errors differently.                 *)
(*                                                                         *)
(* A file name is the location it leads to from the directory of its mail: *)
(* "a.pdf" a file a.pdf of the mail itself, "../<id>/a.pdf" one of another *)
(* mail.  Its last part is the base name.  A file without a name is named  *)
(* after the second and its type, so that two of them can have the same    *)
(* name, too.                                                              *)
(*                                                                         *)
(* Attachment i of mail m has the content <<m, i>>: a content is right     *)
(* when it names the attachment that it is sent as.                        *)
(***************************************************************************)
EXTENDS Naturals, Sequences

CONSTANTS
    Mails,          \* mail ids: every mail has a directory of its own
    RestMails,      \* those that come over REST
    Dirs,           \* directories that names lead to, those of mails among them
    Names,          \* base names of files
    MaxAttachments, \* bound: attachments of one mail
    NoPath,         \* storage_path of an attachment that was not stored: ""
    NoFile,         \* the file does not exist
    Damaged,        \* the content of a file whose writing failed
    NoList          \* no row, no job, or not sent

Slots == 1..MaxAttachments
Path == Dirs \X Names
Content == Mails \X Slots
Part == [given : Slots, content : Content \cup {Damaged}]
Entry == [given : Slots, path : Path \cup {NoPath}]

ASSUME AttachmentAssumption ==
    /\ RestMails \subseteq Mails
    /\ Mails \subseteq Dirs
    /\ MaxAttachments \in Nat
    /\ NoPath \notin Path
    /\ NoFile \notin Content \cup {Damaged}
    /\ Damaged \notin Content
    /\ NoList \notin Seq(Entry) \cup Seq(Part)

VARIABLES
    names,    \* input: where the attachments' names of each mail lead
    readable, \* input: those whose content can be decoded and is not too large
    step,     \* where the intake of each mail is
    next,     \* the attachment its loop is at
    kept,     \* the attachments it has kept, by number
    data,     \* their contents, by number, in a slice of their own
    paths,    \* their storage paths, as far as they were saved
    files,    \* the shared volume
    rows,     \* the attachment rows of each mail
    job,      \* the attachments of its job
    queue,    \* mails whose job a worker can take
    sent      \* history: the contents that the provider got with each mail

vars == <<names, readable, step, next, kept, data, paths, files, rows, job,
          queue, sent>>

input == <<names, readable>>

Steps == {"parse", "save", "create", "publish", "accepted", "refused",
          "crashed"}

All(m) == [i \in 1..Len(names[m]) |-> i]

\* Over REST the loop over the attachments decodes and saves one after the
\* other; over SMTP all are parsed before the first is saved.
Init ==
    /\ names \in [Mails -> UNION {[1..n -> Path] : n \in 0..MaxAttachments}]
    /\ readable \in [Mails -> SUBSET Slots]
    /\ \A m \in Mails : readable[m] \subseteq 1..Len(names[m])
    /\ step = [m \in Mails |-> IF m \in RestMails THEN "save" ELSE "parse"]
    /\ next = [m \in Mails |-> 1]
    /\ kept = [m \in Mails |-> IF m \in RestMails THEN All(m) ELSE <<>>]
    /\ data = kept
    /\ paths = [m \in Mails |-> <<>>]
    /\ files = [p \in Path |-> NoFile]
    /\ rows = [m \in Mails |-> NoList]
    /\ job = [m \in Mails |-> NoList]
    /\ queue = {}
    /\ sent = [m \in Mails |-> NoList]

-----------------------------------------------------------------------------
(* Intake.                                                                 *)

StepTo(m, a, b) ==
    /\ step[m] = a
    /\ step' = [step EXCEPT ![m] = b]

Advance(m) == next' = [next EXCEPT ![m] = @ + 1]

\* Mutant: the attachment is kept before its content is read.
ParsePartEarly(m) ==
    /\ StepTo(m, "parse", "parse") /\ next[m] <= Len(names[m])
    /\ Advance(m)
    /\ kept' = [kept EXCEPT ![m] = Append(@, next[m])]
    /\ data' = IF next[m] \in readable[m]
               THEN [data EXCEPT ![m] = Append(@, next[m])] ELSE data
    /\ UNCHANGED <<input, paths, files, rows, job, queue, sent>>

\* A part that cannot be read is skipped: the mail goes on without it.
ParsePart(m) ==
    /\ StepTo(m, "parse", "parse") /\ next[m] <= Len(names[m])
    /\ Advance(m)
    /\ \/ /\ next[m] \in readable[m]
          /\ kept' = [kept EXCEPT ![m] = Append(@, next[m])]
          /\ data' = [data EXCEPT ![m] = Append(@, next[m])]
       \/ /\ next[m] \notin readable[m]
          /\ UNCHANGED <<kept, data>>
    /\ UNCHANGED <<input, paths, files, rows, job, queue, sent>>

ParseEnd(m) ==
    /\ StepTo(m, "parse", "save") /\ next[m] > Len(names[m])
    /\ next' = [next EXCEPT ![m] = 1]
    /\ UNCHANGED <<input, kept, data, paths, files, rows, job, queue, sent>>

\* Mutant: the name is used as it came, over SMTP as well.
NamePath(m, i) == names[m][kept[m][i]]

\* AttachmentPath/YYYY/MM/DD/<mail id>/<name>: over REST the name is joined as
\* it came, over SMTP its base name.
StoragePath(m, i) ==
    LET name == names[m][kept[m][i]] IN
    IF m \in RestMails THEN name ELSE <<m, name[2]>>

Save(m) ==
    LET i == next[m] IN
    /\ StepTo(m, "save", "save") /\ i <= Len(kept[m])
    /\ m \in RestMails => i \in readable[m]
    /\ Advance(m)
    /\ files' = [files EXCEPT ![StoragePath(m, i)] = <<m, data[m][i]>>]
    /\ paths' = [paths EXCEPT ![m] = Append(@, StoragePath(m, i))]
    /\ UNCHANGED <<input, kept, data, rows, job, queue, sent>>

\* The directory or the file cannot be written; WriteFile may leave a part.
WriteFails(p) ==
    UNCHANGED files \/ files' = [files EXCEPT ![p] = Damaged]

\* Mutant: the path is recorded before the error is looked at.
SaveFailsWithPath(m) ==
    LET i == next[m] IN
    /\ StepTo(m, "save", "save") /\ i <= Len(kept[m])
    /\ m \notin RestMails
    /\ WriteFails(StoragePath(m, i))
    /\ Advance(m)
    /\ paths' = [paths EXCEPT ![m] = Append(@, StoragePath(m, i))]
    /\ UNCHANGED <<input, kept, data, rows, job, queue, sent>>

\* Over SMTP the attachment stays in the mail, without a path.
SaveFails(m) ==
    LET i == next[m] IN
    /\ StepTo(m, "save", "save") /\ i <= Len(kept[m])
    /\ m \notin RestMails
    /\ WriteFails(StoragePath(m, i))
    /\ Advance(m)
    /\ paths' = [paths EXCEPT ![m] = Append(@, NoPath)]
    /\ UNCHANGED <<input, kept, data, rows, job, queue, sent>>

\* Over REST the request ends; the files that were saved before it stay.
SaveRefused(m) ==
    LET i == next[m] IN
    /\ StepTo(m, "save", "refused") /\ i <= Len(kept[m])
    /\ m \in RestMails
    /\ \/ i \in readable[m] /\ WriteFails(StoragePath(m, i))
       \/ i \notin readable[m] /\ UNCHANGED files
    /\ UNCHANGED <<input, next, kept, data, paths, rows, job, queue, sent>>

SaveEnd(m) ==
    /\ StepTo(m, "save", "create") /\ next[m] > Len(kept[m])
    /\ UNCHANGED <<input, next, kept, data, paths, files, rows, job, queue,
                   sent>>

\* The attachments as the row and the job list them.
Listed(m) ==
    [i \in 1..Len(kept[m]) |-> [given |-> kept[m][i], path |-> paths[m][i]]]

CreateRow(m) ==
    /\ \/ /\ StepTo(m, "create", "publish")
          /\ rows' = [rows EXCEPT ![m] = Listed(m)]
       \/ /\ StepTo(m, "create", "refused")
          /\ UNCHANGED rows
    /\ UNCHANGED <<input, next, kept, data, paths, files, job, queue, sent>>

PublishMail(m) ==
    /\ \/ /\ StepTo(m, "publish", "accepted")
          /\ job' = [job EXCEPT ![m] = Listed(m)]
          /\ queue' = queue \cup {m}
       \/ /\ StepTo(m, "publish", "refused")
          /\ UNCHANGED <<job, queue>>
    /\ UNCHANGED <<input, next, kept, data, paths, files, rows, sent>>

Crash(m) ==
    /\ step[m] \in {"parse", "save", "create", "publish"}
    /\ step' = [step EXCEPT ![m] = "crashed"]
    /\ UNCHANGED <<input, next, kept, data, paths, files, rows, job, queue,
                   sent>>

-----------------------------------------------------------------------------
(* Worker.                                                                 *)

Found(p) == p # NoPath /\ files[p] # NoFile

\* loadAttachments reads every file and fails at the first that it cannot read.
Loads(m) == \A i \in 1..Len(job[m]) : Found(job[m][i].path)

\* The message may come again: a retry, or a redelivery by the broker.
SendMail(m) ==
    /\ m \in queue
    /\ Loads(m)
    /\ sent' = [sent EXCEPT ![m] =
           [i \in 1..Len(job[m]) |-> [given   |-> job[m][i].given,
                                      content |-> files[job[m][i].path]]]]
    /\ UNCHANGED <<input, step, next, kept, data, paths, files, rows, job,
                   queue>>

\* The worker is done with the mail, or has reached MAX_RETRY_COUNT.
Finish(m) ==
    /\ m \in queue
    /\ queue' = queue \ {m}
    /\ UNCHANGED <<input, step, next, kept, data, paths, files, rows, job,
                   sent>>

-----------------------------------------------------------------------------
Next ==
    \E m \in Mails :
        \/ ParsePart(m) \/ ParseEnd(m)
        \/ Save(m) \/ SaveFails(m) \/ SaveRefused(m) \/ SaveEnd(m)
        \/ CreateRow(m) \/ PublishMail(m) \/ Crash(m)
        \/ SendMail(m) \/ Finish(m)

Spec == Init /\ [][Next]_vars

-----------------------------------------------------------------------------
\* Types; the two slices of a mail and its paths keep step.
TypeOK ==
    /\ names \in [Mails -> Seq(Path)]
    /\ \A m \in Mails : Len(names[m]) <= MaxAttachments
    /\ readable \in [Mails -> SUBSET Slots]
    /\ \A m \in Mails : readable[m] \subseteq 1..Len(names[m])
    /\ step \in [Mails -> Steps]
    /\ next \in [Mails -> Nat \ {0}]
    /\ kept \in [Mails -> Seq(Slots)]
    /\ data \in [Mails -> Seq(Slots)]
    /\ \A m \in Mails : Len(data[m]) = Len(kept[m])
    /\ paths \in [Mails -> Seq(Path \cup {NoPath})]
    /\ \A m \in Mails : step[m] \in {"create", "publish"} =>
           Len(paths[m]) = Len(kept[m])
    /\ files \in [Path -> Content \cup {NoFile, Damaged}]
    /\ rows \in [Mails -> Seq(Entry) \cup {NoList}]
    /\ job \in [Mails -> Seq(Entry) \cup {NoList}]
    /\ queue \subseteq {m \in Mails : job[m] # NoList}
    /\ sent \in [Mails -> Seq(Part) \cup {NoList}]

\* A path that a row or a job names leads to a file: a worker can take the job
\* the moment it is published, in another process, and finds what it needs.
FilesPresent ==
    \A m \in Mails : \A list \in {rows[m], job[m]} \ {NoList} :
        \A i \in 1..Len(list) :
            list[i].path # NoPath => files[list[i].path] # NoFile

DistinctNames(m) ==
    \A i, j \in 1..Len(names[m]) : names[m][i][2] = names[m][j][2] => i = j

LeadsTo(m, d) == \E i \in 1..Len(names[m]) : names[m][i][1] = d

\* No two attachments of m have the same base name; and of the names that are
\* used as they came, those of m stay in its directory and no other mail's
\* leads into it.
Undisturbed(m) ==
    /\ DistinctNames(m)
    /\ m \in RestMails => \A d \in Dirs \ {m} : ~LeadsTo(m, d)
    /\ \A n \in RestMails \ {m} : ~LeadsTo(n, m)

\* The attachments a mail is sent with are those it was given, all of them:
\* whichever part could not be read or file not be written, a mail with an
\* attachment that was not stored is never sent (over SMTP, parts that cannot
\* be decoded are not attachments).  Each has its own content, none is mixed up
\* or damaged, if the mail is Undisturbed: the handlers of REST join a name as
\* it came, and with two equal names, or a name that leads into the directory
\* of another mail, one attachment is sent with the content of the other.
SentAsGiven ==
    \A m \in Mails : sent[m] # NoList =>
        /\ {sent[m][i].given : i \in 1..Len(sent[m])} = readable[m]
        /\ m \in RestMails => readable[m] = 1..Len(names[m])
        /\ Undisturbed(m) =>
               \A i \in 1..Len(sent[m]) :
                   sent[m][i].content = <<m, sent[m][i].given>>

=============================================================================
