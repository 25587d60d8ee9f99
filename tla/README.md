# mail-proxy: a formal specification

mail-proxy accepts mails over REST and SMTP, stores them in PostgreSQL, queues
them in RabbitMQ and sends them, from worker processes, through Microsoft Graph
or SendGrid. This directory holds TLA+ models of it, the TLC configurations that
check them, and proofs for TLAPS. `PROJECT.json` maps every definition to the
lines it models; paths below are relative to the repository's root.

- [Inventory](#inventory): the parts of the system and what makes each correct
- [Modules](#modules): which module models what, and how
- [Runs](#runs): what is checked, with which bounds
- [Fairness](#fairness)
- [Proofs](#proofs)
- [Where documents and code differ](#where-documents-and-code-differ)
- [What is not modelled](#what-is-not-modelled)
- [Plan](#plan)

To run it: `tlc -config <run>.cfg <module>` and `tlapm <module>Proofs.tla`.

## Inventory

Four processes share three stores: the API server, the SMTP receiver and any
number of workers, and the clients outside; PostgreSQL (rows), KeyDB (a cache of
statuses) and RabbitMQ (`mail-queue`, `failed-queue`, and a `retry-queue` that
nothing publishes to). Attachments lie on a shared volume. Processes interact
through the stores only, never by calls.

| Component | Source | State | Operations |
|---|---|---|---|
| Submission, REST | `internal/api/handlers/mail_handler.go` | row of the mail, cached status, job | `Send`, `SendBatch`: validate, look up the sender configuration, store attachments, create the row, publish, cache "queued" |
| Submission, SMTP | `internal/smtp/session.go` | the same, and `from`/`to` of each session | `Mail`, `Rcpt`, `Data`, `Reset` |
| Cancel, GetStatus | `mail_handler.go` | row, cached status | read the row and write "cancelled"; read the cache, else the row |
| Worker | `internal/worker/consumer.go` | job in hand, unacknowledged messages, sleeping retries, `activeJobs`, `isShutdown` | `processMessages`, `handleMessage`, `handleRetry`, `GracefulShutdown` |
| Queue | `internal/services/queue_service.go` | durable queues in RabbitMQ | `PublishMail`, `Consume`, `Close` |
| Status cache | `internal/services/keydb_service.go` | `mail:status:<id>` with an expiry | `SetStatus`, `GetStatus` |
| Providers | `smtp_service.go`, `sendgrid_service.go`, `mail_router.go` | none of their own | route by domain, load attachments, one HTTP request |
| Token cache | `pkg/microsoft/oauth.go` | a token and its expiry under a RWMutex | `GetAccessToken`, `refreshToken` |
| Sender configurations | `email_sender_config_service.go` | rows, referred to by mails | `Create`, `Update`, `Delete` |
| Attachments | handlers, session, providers | files, rows, entries of the job | decode or parse, write, list, load |
| Client tokens | `auth_handler.go`, `admin_token_service.go`, `middlewares/auth.go` | rows of `client_tokens`; the tokens themselves are with the clients | `CreateToken`, `RevokeToken`, `JWTAuth` and `RequirePermission` before every handler, `InitializeAdminToken` when a server starts |

What is hard here is what several processes do to one mail:

- **Interleaving.** The handler caches "queued" after it has published; a worker
  may have sent the mail by then. `Cancel` reads and writes in two statements.
  `Update` of a configuration reads, changes and saves a whole row.
- **Partial failure.** The outcome of an attempt is an HTTP request, two writes
  whose errors are ignored, and an ack. A request that errors may have reached
  the provider. A publish may be lost without an error (no confirms).
- **Crashes.** A worker may die between any two of these steps; its message then
  comes again. A retry sleeps in a goroutine after its message was acknowledged.
- **Shutdown.** Goroutines, the count of active jobs, a ticker and a timeout race
  for a channel that is closed in the end.
- **Time.** A token is dated when its answer is read, not when it was issued.
- **Start-up.** API servers start together and each sees to the admin's token; the
  worker connects on a goroutine that a shutdown does not wait for.
- **Reuse.** One SMTP session, and one worker, serve many mails in turn.

What makes each part correct:

| Part | Properties |
|---|---|
| Pipeline | a mail disappears only with a retry that ends in memory or a lost publish of its last failure; duplicates only from redeliveries and lost answers, at most one per fault; a mail without either has one outcome; the retry budget holds; what row and cache say of an outcome is true; a settled cancel sticks; every accepted mail settles |
| Worker process | no shutdown and no lost connection makes a mail disappear; a mail that is sent *and* back in the queue, or fails for good unreported, has one of three known causes; only work in progress fills the prefetch; the shutdown ends; a worker that listens takes what is queued |
| Token cache | a token that is handed out is valid; it is renewed only when stale; a call is atomic; goroutines never wait in a circle; every call returns |
| Configurations | a queued job finds its configuration, which is its sender's; one configuration per sender; an update that no other write overtakes changes what it was asked to, and nothing else |
| SMTP session | the envelope of a mail is its own transaction's, its copies those of its own message; senders are allowed ones; answers are true |
| Attachments | a job names only files that exist; a mail is sent with all its attachments or not at all, and unmixed unless two of them share a place |
| Client tokens | a token that was shown has its row and, without a crash, a row has a token that was shown, whichever calls fail and whatever starts together; a revoked token opens nothing; only administrators and starting servers change who comes in; a server that starts leads to an active admin row |

## Modules

### MailPipeline, MCMailPipeline, MailDelivery

`MailPipeline` is the life of a mail from the request to the provider. One action
is one call that another process can see. A mail is an id, a message of the queue
is the mail and its retry count.

| State | Code |
|---|---|
| `handler[m]`, `canceller[m]` | how far `Send`/`processSingleMail`/`Data` and `Cancel` are |
| `dbStatus`, `keydb` | `mails.status`; the cached status |
| `queue`, `failedQueue`, `unacked`, `connected` | RabbitMQ |
| `pc[w]`, `job[w]`, `timers[w]` | the worker in `handleMessage`/`handleRetry`, its job, its goroutines that sleep before they publish a retry |
| `delivered`, `tags`, `withdrawn`, `dropped` | history only |

| Actions | Code |
|---|---|
| `CreateMail`, `PublishMail`, `MarkFailed`, `SetQueued` | the four calls of a submission and their errors |
| `CancelRead`, `CancelUpdate`, `CancelStatus` | `Cancel` |
| `Deliver`, `CheckCancelled`, `KeyDbProcessing`, `DbProcessing`, `SendAccepted`, `SendRefused`, `SendAmbiguous`, `DbSent`, `KeyDbSent`, `Ack` | `processMessages`, `handleMessage` |
| `PublishFailed`, `DbFailed`, `KeyDbFailed`, `KeyDbQueued`, `SpawnRetry`, `FireRetry` | `handleRetry` |
| `ExpireStatus` | the end of a cached status: KeyDB drops the key, `GetStatus` falls back to the row |
| `LoseConnection`, `CrashWorker`, `CrashHandler` | faults, bounded by `MaxLostConns` and `MaxCrashes` |

`tag` numbers the copies of a mail, so that "this copy was delivered" can be said
at all; no guard reads it. The queue is a set: the order of messages matters to
no property. A worker has one consumer goroutine here; two workers show the same
interleavings as two goroutines, except for shutdown, which has its own module.
At most one cancel of a mail runs at a time. A cached status may expire at any
moment, also long before its 14 days. The columns `retry_count` and
`error_message` are left out. A publish that errors although the broker took the
message is not modelled.

`MailDelivery` is the promise, without queues or workers: a copy is accepted once
or abandoned, and a new copy needs an unseen answer or a fault. `MailPipeline`
implements it under the mapping `Delivery` (`open` = undecided submissions,
`live` = tags of the copies in the queue, in timers and in the hands of workers
that may still call the provider, `done` = tags delivered).

### WorkerShutdown

A worker process from start to end, on three kinds of goroutines.

| State | Code |
|---|---|
| `start`, `channel` | how far `Consumer.Start` is; `Consumer.channel` |
| `pc[g]`, `held[g]`, `activeJobs` | the goroutines of `processMessages` and what they hold; the count under `mu` |
| `stop`, `isShutdown`, `timedOut` | the main goroutine and `GracefulShutdown` |
| `queue`, `unacked`, `buffer` | the broker: ready, unacknowledged, and of these not yet received |
| `asleep` | the retries that sleep in goroutines |
| `sent`, `skipped`, `lost`, `overlooked`, `cut` | history only |

| Actions | Code |
|---|---|
| `Connect`, `Consume`, `StartFails` | `Start`: the calls to RabbitMQ, and `log.Fatalf` when one fails |
| `Receive`, `Check`, `CountJob`, `AttemptSucceeds`, `AttemptSkipped`, `AttemptFails`, `Ack`, `UncountJob`, `RangeEnds` | the steps of `processMessages` and `handleMessage` that matter here |
| `FireRetry` | the goroutine of a retry |
| `Signal`, `CancelConsumer`, `Drained`, `Timeout`, `CloseChannel`, `Exit` | `main` and `GracefulShutdown` |
| `Push`, `LoseConnection` | the broker; a connection that breaks |

`main` does not wait for `Start`, so that a signal may come before the channel
exists; `GracefulShutdown` then closes nothing, and `Start` may open a channel
meanwhile, which ends with the process. `Channel.Cancel("")` names no consumer and
has no effect, so messages keep coming until the channel is closed
(`CancelConsumer`). Nothing opens a lost channel again: `RangeEnds` takes the
goroutines out one by one, and the process goes on without them. `isShutdown` is
read without the mutex; the build loads it once for each message, so a goroutine
may see the old value, which is the interleaving of `Check` with `Signal`. What an
attempt does inside is in `MailPipeline`.

### OAuthTokenCache, TokenSource

`GetAccessToken` and `refreshToken` step by step: read lock, check, write lock,
second check, request, answer. `writer` is the goroutine that holds the mutex of
the RWMutex, `readers` those that read; `ReadersGone` is the wait of `Lock` for
the readers. `now` is a clock, `Tick` lets it pass; no answer is read later than
`MaxLatency` after the issue (the assumption that `MaxLatency <= Margin` is what
the 60 seconds are for).

`TokenSource` is the promise without the locks: a call takes the token at one
moment, or is the one that asks the provider, which it does only while the token is
stale. `OAuthTokenCache` implements it under the mapping `Source` (`waiting` =
goroutines in a call, `asking` = those that make the request or read its answer,
`underway` = the token of an answer not yet read): the read lock and the second
check are what makes "not fresh" still true when the request is made.

### SenderConfigs, MCSenderConfigs

`email_sender_configs` with its UNIQUE and REFERENCES constraints, `Create`,
`Update` as the two statements it is (`UpdateRead`, `UpdateSave`), `Delete`, and
the mails of organisation senders: `LookUp` (`Send`), `StartBatch`
(`processSingleMail`, which looks nothing up), `CreateMail`, `PublishMail`,
`SendWithConfig`, `SendWithEnvironment`. `UpdateSave` is gorm's `Save` (v1.25.5):
an UPDATE of every column, and an INSERT when that finds no row, in which
`is_active` takes its database default when it is false. `asked` is what an update
request names, `overtaken` (history) the updates in progress whose row another
Save or a Delete has written since they read it. One field stands for tenant and
client id. A Save or a lookup that the database fails is left out.

`Update` and `Delete` find their row by its id alone: the code does not look whose
configuration it is (`email_sender_config_service.go:105`), and the model has no
requester to compare. Nothing here says, therefore, who wrote the credentials of a
row; what is said is that a job leads to the row of its sender, and that the row
changes as the updates ask.

Encryption is left out but for the processes without a valid `ENCRYPTION_KEY`, which
run without the service: with `KeylessApi` a server rejects a mail of the
organisation although it is configured; with `KeylessWorker` a worker sends a job
that names a configuration with the credentials of the environment.

`MCSenderConfigs` adds the symmetry of ids, values and update requests.

### SmtpSession, MCSmtpSession

The sessions of concurrent connections. go-smtp (v0.24.0) is external: `sender`
and `recipients` are what it has acknowledged; it lets RCPT and DATA through only
after an accepted MAIL, DATA only after a recipient, and calls `Reset` after
RSET, EHLO and DATA. `from` and `to` are the session's own copies, which is what
a mail is made of (`ParsedMail`, with the From and To headers as a fallback). The
addresses of the Cc and Bcc headers are recipients of their own (`copies`): the row
stores them and the job carries them (`session.go:157`, `365`), whether or not the
transaction named them, so that an address in RCPT and in a Cc header is in both
lists, and one in a Cc header alone receives the mail, too. `Contents` is what
messages may say; `MCSmtpSession` gives it a value, and the symmetry.
`Data` begins a mail, then `CreateRow`, `PublishMail`, `MarkFailed` and `Answer`
are the calls; `Restart` ends the process, which on a signal, too, does not wait
for a `Data` in progress. Recipients are a set. The body and the limit of 50
recipients are left out; a publish that reports an error has published nothing
(RabbitMQ would allow more: see `queue_service.go:137` among the hazards); a message whose structure cannot be read counts as
one without headers. `AuthPlain` keeps no state.

### Attachments

A mail comes with a list of named attachments, some of which cannot be read
(`readable`). Over REST the loop decodes and writes one after the other and ends
the request at the first error; over SMTP all are parsed first, those that cannot
be read are skipped, and one that cannot be written stays in the mail without a
path. `kept` and `data` are the two slices of `parseMailData`; `paths` the
storage paths; `files` the volume; `rows` and `job` what is listed. A worker may
take the job as soon as it is published. Attachment *i* of mail *m* has the content
`<<m, i>>`, so that mixing, damage and loss can be told; the date in the path is
left out.

A name is where it leads to from the directory of its mail: a directory of `Dirs`
and a base name. Over SMTP the file is stored under the base name alone; over REST
the name is joined as it came (`mail_handler.go:159`, `329`), so that it may lead
into another directory, also that of another mail. `StoragePath` has both. What
follows for contents is in `Undisturbed`, stated without it: an attachment keeps
its content if the base names of its mail differ, a REST mail's names stay in its
directory, and no name of another REST mail leads into it. That no name does is
nowhere checked. Where `Undisturbed` fails the mail is sent with all its
attachments, but one of them may have the content of another, also of another
mail's.

### ClientTokens, ClientAccess

The API servers and the requests they serve, with the one table they share. A
token is its claims (`client`, a number for the random `sub`, whether it has the
permission "admin"); the claims never expire, and the table has only its hash.

| State | Code |
|---|---|
| `rows[c]` | `client_tokens`, with `client_id` UNIQUE: `token_hash`, `is_active` |
| `replica[r]`, `fresh[r]` | a server in `InitializeAdminToken`, serving or down; the token it has stored and not yet printed |
| `request[q]`, `server[q]`, `bearer[q]`, `operation[q]`, `made[q]` | a request on its way through `JWTAuth`, `RequirePermission` and the handler; `made` is the token `CreateToken` has stored and not yet answered |
| `signed[c]` | how many tokens were signed: what makes the next `sub` a new one |
| `given`, `unseen`, `late` | history only |

| Actions | Code |
|---|---|
| `StartReplica`, `ReadAdmin`, `CreateAdmin`, `RegenerateAdmin`, `PrintToken` | `main` up to the listener: the read, the insert or the save, and the log. An error is a warning, and the server serves without |
| `BeginRequest`, `JWTAuth`, `RequirePermission` | the middlewares: the signature, the row by the `client_id` of the claims, the permission |
| `ServeMail`, `CreateToken`, `AnswerToken`, `RevokeToken` | the handlers |
| `Crash` | the end of a server at any moment, with its requests |

`JWTAuth` compares no hash: a row lets in every token that names its client. For
clients this makes no difference, since each has one token (proved, as a part of
`GivenTokensAreStored`). The admin can have several: when two servers find the
admin revoked, both save a token and both print one, and both tokens open, and so
do those from before the revocation. `RevokedStayOut` therefore ends for the admin
when `RegenerateAdmin` reinstates it. `CreateToken` cannot draw "mis-admin" (its
ids begin with "client_"). Signatures are sound here: a bearer token is one that
was given.

`ClientAccess` is the promise without servers, start-up steps and claims: clients
are enrolled, those that are allowed come in with a token they were shown, and who
may come in is changed by a start, for the admin, or by a request that came in with
an administrator's token. `ClientTokens` implements it under the mapping `Access`
(`enrolled` = clients with a row, `allowed` = those whose row is active, `shown` =
`given`, `admitted[q]` = the bearer token of a request that `JWTAuth` let in and
that has not been answered).

## Runs

Every property of a passing run is also run against a changed definition of the
module (a dropped guard, a missing reset, a swapped order; the comments `Mutant:`
in the modules) and is then violated. `CHECK_DEADLOCK FALSE` is set where the
system may really stop: every mail is settled, every process has exited, or every
id is used up. The token cache never stops and is checked for deadlock.

| Run | Checks | What it shows |
|---|---|---|
| `pipeline_stores` | `TypeOK`, `RetryBudget`, `TruthfulStatus`, `NoSilentLoss`, `DeliverySpec` | with both stores failing at any write, lost publishes, a crash and a lost connection, a mail disappears only with a retry that ends in memory or a lost publish of its last failure, is not duplicated without a fault, and no status claims an outcome that did not happen |
| `pipeline_settles` | `CopiesUndelivered`, `OneOutcome`, `CancelSticks`, `DeliverySpec`, `Settles` | with cancels, unseen answers of the provider and a crash, a cancel that no worker is past holds, a copy that was delivered is not attempted again, a mail of which nothing was redelivered has one outcome and then no copy left, and every accepted mail gets a final row unless a publish or a sleeping retry of it was lost |
| `shutdown` | `TypeOK`, `MailsAccounted`, `DuplicatesExplained`, `NoMessageStranded`, `FailuresReported`, `ShutdownEnds`, `Listening` | a shutdown or a lost connection at any moment, the start included, loses no mail, and only a timed-out wait, an uncounted goroutine or a lost connection keeps a last failure from the failed queue; every unacknowledged message is in the buffer or worked on; the shutdown ends even when jobs hang or nothing connects; a worker that listens works off its queue, unless all its goroutines hang |
| `token` | `TypeOK`, `FreshIsValid`, `NotAllWait`, `SourceSpec`, `RenewedOnlyWhenStale`, `CallsReturn` | three goroutines, a clock, tokens as short as the margin and longer; the cache implements `TokenSource`; no circle of waiting, and no lock is left behind on any path |
| `configs` | `TypeOK`, `JobsFindConfig`, `OneConfigPerSender`, `UpdatesAreAtomic` | two updates, deletes and a mail race for two configurations, with and without encryption keys; an update puts old values back only when another write overtook it |
| `session` | `TypeOK`, `EnvelopeIsOwn`, `AllowedSendersOnly`, `AnswersAreTrue` | two connections and two mails, with and without headers and a list of domains: nothing of one mail's envelope or copies gets into another |
| `attachments` | `TypeOK`, `FilesPresent`, `SentAsGiven` | a REST and an SMTP mail with up to two attachments, under every choice of names; nothing is missing, and contents mix only through equal names or names that lead elsewhere |
| `tokens` | `TypeOK`, `GivenTokensAreStored`, `StoredTokensAreShown`, `RevokedStayOut`, `AccessSpec`, `AdminReturns` | two servers that start, crash and start again around two requests, on a database that answers or may fail; the servers implement `ClientAccess` |
| `doc_*` (four) | one property each | a disagreement of documents and code: see below |

Bounds, and why they suffice:

- *Pipeline.* `MaxRetryCount = 2` has a first attempt, a retry and the last
  failure; a third attempt would repeat the second. Two workers are what a race
  for one mail needs (a redelivery while the first worker goes on). Mails meet
  only in the prefetched messages of one worker and share nothing else; that a
  fault of one mail does not touch another is left to the proofs, which hold for
  any number of mails.
  Each run switches on the faults its properties are about. `pipeline_stores` has
  the mails of SMTP, which nobody cancels, and providers whose answers arrive, so
  that the failing stores are what it is about; `pipeline_settles` has the cancels
  and the unseen answers. Two of its properties *need* faults to be off. For
  `CancelSticks` the database answers: one that fails makes the worker miss the
  cancel, which the code accepts. For `Settles` it answers, too (a final write
  whose error is ignored is never repeated), and no connection is lost: a worker
  that lost its connection consumes nothing more, and with a lost connection *and*
  a crash the row of a mail that was sent may stay at "processing" for ever (the
  mail is redelivered and sent by a second worker; the first, at
  `consumer.go:174`, then writes "processing" over "sent", and crashes). Workers
  are symmetric in `pipeline_stores`; the run with liveness uses no symmetry.
- *Shutdown.* Two goroutines and two mails have one counted and one uncounted
  goroutine, with a message in the buffer or in the queue; two attempts have a
  retry asleep. `Hanging` is reachable: both goroutines may stay in an attempt.
- *Token.* Three goroutines are a reader, a writer and one that waits. Lifetimes
  are the margin, where a token is stale at once, and beyond it; the time allows
  two renewals.
- *Configurations.* A sender with two ids over time (a deleted row that comes
  back meets a new one) needs two ids and one sender; the second sender shows that
  senders do not mix. Two values tell an old from a new one. `doc_delete` has keys
  everywhere, to which its property does not matter.
- *Session.* A leak needs two mails of one connection, a mix-up two connections.
  A message without headers and, for each address, one that names it and copies to
  an address that may not send show every fallback.
  Whether domains are configured is chosen initially, so that the run has both.
- *Attachments.* Swapping needs two attachments, sharing a name too; the two mails
  are one of each origin. The directories of the two mails are enough for a name
  that stays, and one that leads to the other mail; `Init` has all names.
- *Client tokens.* Three starts (`MaxStarts`) are two servers that start together,
  then one that comes back after a crash or a revocation. Two requests are one that
  creates or revokes and one that is affected. One client id that can be drawn is
  drawn twice. Whether the database may fail is chosen initially: `AdminReturns`
  needs one that answers, the invariants hold with either.

## Fairness

- *Pipeline.* Weak fairness for the steps of a request that has begun, of a worker
  with a job, for timers and for delivery to a connected worker. It stands on the
  loop `for msg := range msgs`, on goroutines being scheduled and on the broker
  delivering to an idle consumer. That a request to a provider returns is an
  assumption about the provider: `smtp_service.go:36` makes an HTTP client without
  a timeout. None for submitting or cancelling, and none for faults.
- *Shutdown.* Weak fairness of the main goroutine in `GracefulShutdown` (its ticker
  ticks, its timeout fires, and its calls `Cancel` and `Close` to the broker return,
  which is an assumption about the broker), of the broker's deliveries, and of every step of a
  consumer goroutine that runs by itself. None for the attempt, since a token
  request has no timeout; none for `Start`, for a sleeping retry, for a signal or
  for a lost connection.
- *Client tokens.* Weak fairness of the steps of `InitializeAdminToken` of every
  server: a process that runs executes its `main`. None for starts and requests.
- *Token.* Strong fairness for the two lock calls: `sync.RWMutex` blocks new
  readers while a writer waits and lets the waiting readers in when it is done, so
  that no goroutine is passed over for ever. Weak fairness for the rest, which
  includes that a request ends. `http.Post` uses a client without a timeout; that
  the request ends is therefore an assumption about the provider.

## Proofs

Each theorem holds for all values of the constants that the `ASSUME` of the module
allows; TLC evaluates these assumptions in every run. Every proof has the same
shape: an inductive invariant, one step per action, and a temporal last step. A
refinement theorem has one lemma per action, which maps it to an action of the
abstract specification or to a stutter.

| Theorem | States | From |
|---|---|---|
| `MailPipelineProofs!TypeCorrect`, `RetriesBounded` | `TypeOK`, `RetryBudget` | `BudgetInv`: the budget also holds of messages that the broker still holds unacknowledged, since a redelivery brings them back |
| `MailPipelineProofs!StatusIsTruthful` | `TruthfulStatus` | `TruthInv`: what a worker is about to write is already true while it is between the calls |
| `MailPipelineProofs!NothingSilentlyLost` | `NoSilentLoss` | `HeldIsJob`: what the broker holds for a busy worker is the mail it works on; then each step hands the mail from one place of `Accounted` to another, or is one of the two that `NoSilentLoss` names |
| `MailPipelineProofs!CancelsHold` | `CancelSticks` | `TypeOK` alone, under `~DbMayFail`: the state "settled" is closed under every step |
| `MailPipelineRefinement!NeverAttemptedAgain` | `CopiesUndelivered` | `CopyInv`: tags of live copies are distinct over queue, timers and workers, and never among those delivered |
| `MailPipelineRefinement!PipelineImplementsDelivery` | `DeliverySpec` | the same invariant; each action maps to an action of `MailDelivery` or a stutter, a crash of a worker to `Fault` |
| `MailPipelineRefinement!OutcomeIsFinal` | `OneOutcome` | `OneInv`: while no copy of a mail was given a second tag, the outcomes exclude each other and leave no copy behind, and the copy that a worker has in hand is the only one (with `CopyInv`: none waits in the queue or in a timer), so that the worker may turn it into an outcome; a mail whose handler has not published yet has neither |
| `MailPipelineRefinement!OneDeliveryPerFault` | (a bound on `Cardinality(delivered[m])`) | `CopyInv` (delivered tags were given out) and `TagsInv` (where every answer is seen, each fault gives a mail at most one new tag) |
| `OAuthTokenCacheProofs!TypeCorrect`, `CachedTokenIsValid`, `OneRenewal` | `TypeOK`, `FreshIsValid`, `RenewedOnlyWhenStale` | `DatedInv` (`expiresAt` is at most `MaxLatency` late) and `StaleInv` (the goroutine with the write lock past its second check has seen a stale token, and time only makes it staler) |
| `OAuthTokenCacheProofs!LocksNeverClose` | `NotAllWait` | `TypeOK`, which ties `readers` and `writer` to the steps of the goroutines: whoever holds a lock is at a step that waits for none, or drains readers that do not wait |
| `OAuthTokenCacheProofs!CacheIsSource` | `SourceSpec` | `TypeOK` and `StaleInv`: the goroutine that asks is alone and the token is stale still |
| `SenderConfigsProofs!TypeCorrect`, `QueuedJobsFindConfig`, `SendersAreUnique`, `UpdatesApply` | `TypeOK`, `JobsFindConfig`, `OneConfigPerSender`, `UpdatesAreAtomic` | `MintInv`, `SenderInv` (no step changes the sender of an id, so that a stale snapshot still has the right one), `LinkInv` (the foreign key), `SnapshotInv` (the snapshot of an update that was not overtaken is the row as it is, with what was asked) |
| `WorkerShutdownProofs!TypeCorrect`, `MailsStayAccounted`, `DuplicatesAreExplained`, `MessagesAreWorkedOn`, `FailuresAreReported` | `TypeOK`, `MailsAccounted`, `DuplicatesExplained`, `NoMessageStranded`, `FailuresReported` | `PlacesInv` (while the channel is open, a message is in one place, and what the broker holds unacknowledged is in the buffer or with one goroutine), `NewestInv` (what waits or is worked on is the newest attempt of its mail and was not sent), `KeptInv` (the mail is on record without the messages that only wait for their ack), `DrainedInv` and `ExplainedInv` (what can be sent after the count was zero is `overlooked`), `ClosedInv` (what goroutines work on after the channel was closed is back in the queue, and nothing was lost before); the lemma `Counting` ties `activeJobs` to a cardinality |
| `ClientTokensProofs!TypeCorrect`, `GivenTokensWork`, `StoredTokensShown`, `RevocationHolds` | the four invariants of the run | `PendingInv` (a token in hand is stored, under its client), `BearerInv` (a bearer token was given, so that its row exists), `LateInv` (a late request's client is inactive until the request is refused) |
| `ClientTokensProofs!AccessIsGoverned` | `AccessSpec` | `AuthorityInv` (a request in or past a handler of an administrator's operation has an administrator's token, and so has a server before it prints), with the invariants of the theorems above: `PendingInv` and `GivenTokensAreStored` make the token that is shown the only one of a client that is not the admin |
| `SmtpSessionProofs!TypeCorrect`, `EnvelopesAreOwn`, `SendersAreAllowed`, `AnswersHold` | the four invariants of the runs | `SessionInv` (session and go-smtp agree on the envelope), `MailInv` (rows, jobs and drafts come from it, with the copies of their message), `Progress` (one connection works on a mail, and what it has not done is not there) |
| `AttachmentsProofs!TypeCorrect`, `FilesArePresent`, `SentIsGiven` | the three invariants of the run | `KeptInv` (the slices agree, list different attachments, and in the end all that can be read), `PathInv` (a recorded path has its file, with its own content when the mail is `Undisturbed`: then no attachment, of this mail or another, has the same place), `ListInv`, `SentInv` |

Only model-checked: everything with fairness (`Settles`, `ShutdownEnds`,
`Listening`, `CallsReturn`, `AdminReturns`), which is beyond TLAPS. Every invariant
and action property of a passing run is proved, and so are the three refinements.

## Where documents and code differ

Four have a run that TLC must find violated, and an entry under `findings`.

| Run | Document | Code |
|---|---|---|
| `doc_cancel` | only queued mails can be cancelled | the check and the write are two statements |
| `doc_queued` | the status is set to queued, then the job published | the other way round, so that "queued" overwrites "sent" |
| `doc_retry` | a retry waits in a durable queue | it sleeps in a goroutine and is lost in a crash |
| `doc_delete` | a deleted configuration is gone | a concurrent update inserts it again |

Others were seen while modelling. The models behave as the code does; no run is
spent on them:

- `.doc/API_REFERENCE.md:232`: every attachment has a `content` of its own. Two of
  the same name in one mail are stored under one path (`mail_handler.go:159`,
  `session.go:431`), so that the second content is sent twice: a case that
  `SentAsGiven` excepts.
- `session.go:427`, `430`: attachments over SMTP are stored in the directory
  structure of the API handlers. The handlers keep a name as it came, the session
  takes its base name.
- `.doc/SPEC.md:999`: "processing" means that a worker is processing the mail. The
  row stays so while the mail waits for its retry: only `retry_count` is written
  (`consumer.go:263`).
- `.doc/SPEC.md:1212`: the worker keeps listening. `processMessages` returns when
  the connection is lost (`consumer.go:128`), and nothing connects again; the
  process keeps running.
- `.doc/SPEC.md:159`: a dead-letter queue handles the failed messages. A message that
  does not parse is dead-lettered with the routing key it came with, while the failed
  queue is bound to `dlx` with the key "failed" (`queue_service.go:113`), so that no
  queue takes it. No publisher of this code writes such a message.
- `consumer.go:300`: the shutdown waits for jobs in progress. A job that was taken
  and is not yet counted (`consumer.go:129`) is not waited for.
- `.doc/API_REFERENCE.md:617`: the fields of an update are optional. Every column
  is saved, as it was read before (`email_sender_config_service.go:129`), so that
  one of two concurrent updates is undone: what `UpdatesAreAtomic` excepts.
- `.doc/API_REFERENCE.md:146`: API mails use the client's configuration. Mails of a
  batch carry none and use the environment's (`mail_handler.go:288`).
- The README (line 10) and a table of `.doc/SPEC.md` (7.2) speak of five retries.
  The code, like the diagram beside the table, gives up at the fifth failure, that
  is after four retries.
- `.doc/SPEC.md:335`: permanent failures are not retried. `handleRetry` treats all
  errors alike (`SendRefused`).

## What is not modelled

- Secret encryption: a stateless AES-GCM round trip.
- `GetHistory`, `Get` and `List` of configurations and of tokens, the health probe:
  they only read.
- Configuration, migrations, deployment, and what is left of routes and start-up
  (the order of the admin token and the listener, and the guards of the routes, are
  in `ClientTokens`, the start of the worker in `WorkerShutdown`): they wire the
  parts together once; the values that matter are CONSTANTS, and the constraints
  of the tables are part of `SenderConfigs` and `ClientTokens`.
- A database call that commits and nevertheless answers an error: a token could be
  stored unseen without a crash.
- Stealing or forging a token: signatures are taken as sound.
- Formatting of requests to the providers, and validation that ends a request
  before its first write: such requests never start.
- What go-message does after an error in a part (`session.go:245` asks again and
  ends only if the error does not repeat): external.
- The clean-up of old attachments is a cron job outside the repository.

## Plan

Done, in this order: the pipeline with its abstract specification, the worker
process, the token cache, the configurations, the SMTP session, the attachments,
the client tokens; the proofs of all of them; the abstract specifications of the
token cache and of the client tokens and the refinements. What could follow, by importance:

1. A composition of `MailPipeline` and `WorkerShutdown`: a shutdown refines the
   crash of a worker, so that `NoSilentLoss` carries over to rolling restarts.
2. **RetryBackoff** as a pure function (the delays, the shift, the last delay)
   against a reference definition, and the topology of the queues with the
   dead-lettering of messages that do not parse.
3. A contract of a consumer with its queue (lease, settle, put back), implemented by
   `WorkerShutdown` and by each worker of `MailPipeline`.
