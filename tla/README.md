# Formal model of webitel-emails

TLA+ specifications of the email service in `src/`, model-checked with TLC on
small instances and, for the core, proved with TLAPS for every instance.
`PROJECT.json` lists components, runs, mutants, the definition-to-source map,
findings, hazards and theorems. This file explains how they fit together.

## The system and its parts

Several identical instances of the service share a PostgreSQL database. Consul
elects one of them leader. The leader runs two tasks: it distributes the Email
Profiles over the healthy instances, and it relays the Outbox to RabbitMQ.
Every instance polls the mailboxes of the profiles it owns and stores what it
reads. An assignment is a pair of owner and generation; writes of a poll are
fenced with it.

| Part | Code | Module |
| --- | --- | --- |
| Outbox relay, leader terms | `internal/outbox`, `store/postgres/outbox_store.go`, `infra/leader`, `infra/pubsub` | `OutboxRelay`, abstract `Outbox`, proofs `OutboxRelayProofs` |
| Inbound processing: store, upload, match contact, finish | `internal/inbound`, `store/postgres/*_store.go`, `internal/service/email_thread.go` | `InboundPipeline`, proofs `InboundPipelineProofs` |
| Mailbox polling: dispatch, cursor, recovery, fenced result | `internal/polling`, `store/postgres/email_profile_runtime_store.go` | `MailboxSync`, proofs `MailboxSyncLemmas`, `MailboxSyncProofs` |
| Profile distribution: plan, reconciliation, assignments | `internal/distribution`, `store/postgres/email_profile_runtime_store.go`, `infra/discovery` | `Distribution`, proofs `DistributionProofs` |
| Search and fetch of one poll over one IMAP session | `internal/polling/sync.go`, `recovery.go`, `infra/mail/imap.go` | `MessageFetch`, proofs `MessageFetchProofs` |
| IMAP session pool: permits, eviction, shutdown | `internal/polling/scheduler.go`, `worker.go` | `SessionPool`, proofs `SessionPoolProofs` |
| One email from its bytes to its event | `internal/inbound/mime_parser.go`, `persistence.go`, `infra/storage/client.go`, `internal/event/inbound_message.go` | `MessageText`, `MimeParser`, `EventDocument`, composed in `InboundDocument` |
| Startup checks and defaults | `config/config.go` | `Config` |
| OAuth2 of a profile: authorization, refresh, connection state | `internal/service/email_profile*.go`, `store/postgres/email_profile_store.go` | `ProfileOAuth`, proofs `ProfileOAuthProofs` |

How they interact: a poll (`MailboxSync`) hands each email to the handler
(`InboundPipeline`) and moves its cursor past it only when the handler returned
nil. The handler writes the event of a finished Message into the Outbox in the
same transaction (`outbox` in `InboundPipeline`, `AppendEvent` in
`OutboxRelay`). The leader publishes it. Each module replaces its neighbour by
what it may do: `MailboxSync` has a handler that confirms or fails,
`InboundPipeline` has a cursor that may deliver any email again, `OutboxRelay`
has events that appear at any time. `MessageFetch` is the inside of the fetch that
`MailboxSync` takes to be in order and complete. `InboundDocument` is the data that
`InboundPipeline` leaves out: the same email, but its text, parts and files instead
of its workers.

Every module has a type invariant, `TypeOK`. It is part of the inductive invariants
that are proved, and TLC checked it for every module on the instance of one of its
runs; the runs list only what is about behaviour.

## OutboxRelay

State: the rows of `email.outbox` (state, lock owner, time left on the lease,
time until the next attempt), one term per instance (the fields of `term` and
the local variables of `cycle` and `publish`), the election key, and the set of
events the broker has routed. Time is a set of countdowns that `Tick` moves
together, so no clock has to be bounded. Every database call may succeed, fail
without effect, or take effect and lose its answer; a publish likewise. A term
may outlive its key (`LoseKey` before `EndTerm`), so two leaders overlap; a
process may die at any step.

The actions follow `cycle`: `RecoverLeases`, `DeclareTopology`, `Claim`, then
for each row `StopEarly`, `Send`/`Publish`, `MarkPublished` or `MarkFailed`,
and `Release` when the batch breaks off. `DeletePublishedBefore` is the
retention. The attempt counter, the error text and the order of the rows in a
batch are left out: no code path reads the first two, and consumers may not rely
on the third. The backlog report only reads.

`Outbox` is what the relay promises to the rest: an event is stored, delivered
any number of times but at least once before it is recorded as published, given
up only if it can never be published, and purged only after publication.

Properties:

- `LeaseCoversSend`: a row that is being sent is leased to its sender for as
  long as the publish may take, so no two instances send a row at once. A second
  leader that freed the rows of the first would break it.
- `LeasesAccounted`: a running term forgets no lease, except one whose claim
  answer was lost, which then expires.
- `ImplementsOutbox`: the relay refines `Outbox`; in particular a row marked
  published is with the broker (`PublishedWasRouted`, proved).
- `EventuallySettled`: every stored event is published or failed.

Bounds (`MCOutboxRelay.cfg`): two instances (an old and a new leader), one valid
and one invalid event in one batch, a lease of two publish durations (the
smallest the configuration allows), and one fault of any kind. The additional
`MCOutboxRelayFaults.cfg` checks safety with two faults, so a fault during the
handling of a fault, and with a retry interval that grows into its cap; it also
checks `RelayInv`, the inductive invariant of the proof. The proofs
below have no such bounds.

Fairness (of the same run): time passes; some instance takes a free key;
the loop of a term goes on; Consul frees the key of a dead process and a term
whose key is gone ends. A claim and a send are assumed strongly fair: the
process is not delayed past its own deadline in every single cycle.

## InboundPipeline

State: the assignment, the advisory lock of the profile, Message state, Thread
kind, pending parts, attempts, failure record and event count per email,
contact state and last-message time per Thread, and for each worker the step it
is at with the snapshots it took. Each transaction is two steps: the read of
the assignment (`EnsureEmailProfileAssignment`, which takes no lock) and the
rest with the commit. `markReady` is three, because its statement can wait for
the Thread row or the Message row. `Abandon` ends the handling between any two
steps: a failed call, a lost answer or the death of the process.

One fact about PostgreSQL is assumed: under READ COMMITTED an UPDATE that waited
for a row lock re-checks the newest version of that row, while the other parts
of the same statement keep reading the snapshot the statement began with.

Threads are abstracted to a regular and a service Thread per conversation; which
headers find which Thread is not decided here.

Properties: `ConfirmedDurable` (the cursor passes an email only when its outcome
is stored), `ReadyComplete`, `EventExactlyOnce`, `LastMessageExact`,
`AttemptBudget`, `OperatorWins`, `OutcomeIsFinal` (an outcome is decided once),
`EventuallyConfirmed`.

Bounds: two workers (the owner and a former owner), two attempts, two
assignments, and two or three emails of one conversation: one with an
attachment that can finish after a younger one, a plain one (regular in
`MCInboundPipeline.cfg`, automatic in `MCInboundService.cfg`), a malformed one.

Fairness: a worker goes on with the email it has, the leader assigns a profile
without an owner, the owner polls, and an email not confirmed is fetched again.
Calls fail and processes die only finitely often (`<>[][Progress]_vars`); the
storage service may fail for ever, which is what the attempt budget is for. The
database is assumed to accept every email in the end: see the remark on U+0000 below.

## MailboxSync

State: the mailbox (a sequence; the UID is the place), its UIDVALIDITY, the
runtime row (owner, generation, cursor), and for each instance the row its
scheduler listed and the poll it runs. A search gives UIDs in ascending order, so what
is found, requested and left to fetch are sets of them. `Examine` is `sync` up to the search,
including the first cursor, the recovery after a changed UIDVALIDITY and its
checkpoint; `Handle` delivers one email; `Delivered` and `Stopped` compute the
confirmed progress; `CompletePoll` stores it under the fence. The search windows
of `searchUIDs` and the commands of a fetch are in `MessageFetch`; the schedule of
checks is left out. The server is external: it adds, expunges and renumbers. The
mailbox starts with `ReadBefore` UIDs of deleted emails.

Properties: `NothingSkipped` (no unread email is behind the cursor),
`CheckpointCoversUnread` (no unread email is older than the time a recovery
would resume from) and `EventuallyRead`. Both safety properties exclude three
ways in which the code gives up on older mail, recorded in `lapses`: a cursor
re-initialised from a stale row, a cursor placed at the end for want of a
checkpoint, and, where the server reorders while it renumbers, a checkpoint
guessed from the newest stored email. The first is the finding below.

Bounds: up to three emails, one email per poll (so that every recovery takes
several polls), up to two renumberings (one inside the recovery of the other),
one expunged email, two instances in `MCMailboxOwners.cfg`.
`MCMailboxRecovery.cfg` checks safety and liveness together. With one email per poll
the confirmed progress of a poll has no gap to step over; that case is in
`MessageFetch`, and in the proof, which is for any limit per poll.

Fairness: as in the pipeline; a poll whose mailbox was renumbered ends.

## MessageFetch

State: the mailbox as a set of UIDs and UIDNEXT, which the server may not report;
the connection and `sequentialFetch`; the stored cursor, ordinary or in a recovery;
and one poll: the search (`start`, `to`, `found`), the requested UIDs, the batch
that is being answered, what is left for `fetchRawSequential`, and the errors. UIDs
are words, so the windows near the top wrap as `uint32` does.

The actions follow one poll: `Poll` reuses the session or dials; `Dial`, `StartTLS`,
`Authenticate`; `Examine`; one `Search` per window; `Recover` (dates first, emails
older than the checkpoint are skipped); `NextBatch`; one `Answer` per FETCH response
the server sends, in any order, twice, or not at all; `EndBatch`, with the fallback
to one UID at a time; `CompletePoll`. A handler may return late: the deadline of
the FETCH has then passed and the command fails after the email was handled.

Properties: `SearchExact` (the windows find every email between the cursor and the
last one requested), `InUIDOrder`, `CursorCovers` (no email that exists and was not
confirmed is behind the cursor, also when a recovery jumps to its end),
`ConnectClean`, `EventuallyHandled`.

Bounds (`MCMessageFetch.cfg`): words of three bits and windows of three, so a window
is empty, ends exactly at the top or would wrap; two mailboxes, a dense one that
takes two batches and two polls, and one at the top of the words; one arrival, one
expunged email and one fault. `ReadBefore` are the emails a recovery skips by their
date, `LongBefore` those of them the server's SINCE filter leaves out already.

Fairness: the scheduler polls again and again, and a poll goes on because every
command has a deadline. Faults are finitely many; slow handlers and answers out of
order are not faults and may happen each time.

## InboundDocument

One email is walked once: `ParseHeader`, `WalkPart` for each part, `Finalize`
(`MimeParser`), then `Persist`, `UploadFile` for each pending row and `Write`.
Characters are classes (`letter`, `quote`, `ctl`, `line`, `bad`, `u2028`, `emoji`,
`img`) with their width in bytes, as UTF-8 and as JSON writes them: enough to cut
inside a character, to grow when text is made valid or escaped, and to refer to an
image. A part has its type, disposition, size and whether reading it fails; the MIME
syntax is that of the go-message library, which is not modelled. `EventDocument` has the
limits, their validation, the construction of the document and its encoded size.

Properties:

- `LimitsExact`: the running counters of the Walk callback agree with the parts,
  counted again: a part is refused only for a limit it breaks, and kept whole.
- `BodiesCut`: a stored body is valid, within its limit, and where the first
  non-empty body starts.
- `StoredWhole`: what storage holds under a row is every byte of its part, in order.
- `NeverRejected`: the document fits `max_payload_size`, set here to exactly what
  `WorstCaseSize` computes. That this is the longest document the caps allow, to the
  byte, is the assumption `Tight`, which builds that document. The longest one an
  email leads to is 15 bytes shorter: startup counts two senders, and the parser
  keeps one.
- `FlagsExact`: a truncated flag is set exactly when a limit of the event removed
  something from what the Message holds. What the parser cut before is another matter
  (`CutsFlagged`, below).
- `AttachmentsListed`: the event lists the attachments, in order, with their files.
  Which images count as attachments is read from the disposition the parser ended
  with, so the property is about manifest, storage and event agreeing on it.
- `StrongestLast`: `ancestorMessageIDs` ends with the strongest link.

Bounds (`MCInboundDocument.cfg`): seven headers (a reply, one with every field full of
characters that double, one without a usable identifier, three automatic ones, a
broken one) and every sequence of up to three out of twenty-four parts, at, below
and above each limit. Parts have no byte up to five; up to four are accepted and a
chunk is two, so an upload is empty, less than a chunk, one chunk, a chunk and a byte,
or two chunks. As in the code, a name may be cut by the parser, which counts
characters, without reaching the cap of the event, which counts bytes.
`CHECK_DEADLOCK FALSE` because an email ends.

`Config` states the defaults and the checks of startup as operators and assumes that
the first pass the second; TLC evaluates that with this run.

## Distribution

State: status, owner and generation of each profile, the healthy instances, the
election key, and for each leader its step, what it read and the changes it has
still to make. `planDistribution` is the algorithm of `plan.go` (`Quota`, `Kept`,
`Place`); instances and profiles are numbers because it depends on their order.
`GetService`, `ListOwnership`, `Unassign` and `Assign` are separate steps, so a
former leader applies an old plan change by change while its successor applies
another. `undisturbed` and `ended` are history variables.

Properties: `ReconcileBalances` and `PlanMinimal` (the two promises of
`plan.go:21`, the second against every even distribution), `TokenNeverReused`
(an ended owner and generation is never current again), `EventuallyBalanced`.

Bounds: `MCDistributionPlan.cfg` enumerates initial tables for the algorithm;
`MCDistributionLeaders.cfg` has two leaders, two instances, two profiles, one change
and a failed call, for safety and liveness. One change is little: `TokenNeverReused`
is therefore proved, and the additional `MCDistributionTwo.cfg` checks safety, with
the inductive invariant `TokenInv`, under two changes. Liveness with two changes and a failure takes TLC twelve minutes; it was
run once, without an error.

Fairness: some instance takes a free key, a term without the key ends, and a
leader reconciles again and again, which the ticker of `Run` ensures.

## SessionPool

State: the step of the poll of each profile, the cached sessions in order of use,
the permits taken from `connSlots`, the polls blocked on it, and the connections
open or being logged out of. A Go channel serves blocked senders in order, so a
returned permit goes to the head of `queue`.

Properties: `ConnectionsBounded`, `PermitsExact`, `PollingKept`, `NoGridlock` (polls
do not all wait for permits that only idle sessions hold); `EventuallyConnected` and
the inductive invariant `PoolInv` in an additional configuration.

Bounds: six profiles with three polls and three connections; with fewer profiles
the polls cannot all meet a cache full of other profiles' sessions.

Fairness: polls and logouts end, idle sessions time out, the deadlines of `stop`
pass, and dispatch starts each profile again and again (strong fairness: a slot is
free only at times). `EventuallyConnected` is checked for one poll at a time. With
two polls and two connections it does not hold under the same fairness, for the
reason `MCSessionPoolStarved.cfg` shows.

## ProfileOAuth

State: the row of one profile (client, refresh token, connection state), mutex and
cached token of each instance, one job per worker, and the provider's tokens. A
job is a poll, a `Test` or a request; it takes the mutex of its instance, locates the
profile, reads the token, refreshes and stores in separate steps. Early returns are
actions of their own: `NotConnected`, `CredentialsFailed`, `StateRefused`,
`RefreshFailed`, `StoreFailed`, `SaveFailed`. The provider is external: it rotates a
token or does not, and refuses one that was rotated, revoked, or issued to another
client.

Requests arrive at any instance and polls at the owner. The mutex orders the jobs of
one instance; nothing orders those of two, and a token is stored by profile id alone.
Two history variables say where that matters: `overtaken` holds the jobs that read a
row another instance has changed since, `crossed` tells that such a job stored the
token.

Properties, with any number of instances: `TokenOfClient` (the stored token is of the
configured client, unless `crossed`), `RotationKept` (overlapping jobs lose no rotated
token, on whatever instances) and `RefreshReplacesOwn` (a refresh overwrites no token
but the one it rotated, unless `overtaken`). The exceptions are real: both properties
fail without them, see `MCProfileOAuthTwo.cfg` and `MCProfileOAuthUndone.cfg` below.
`RotationKept` excuses a crash or a failed write between the rotation and the store,
which does lose the authorization: the code has no recovery from it.

Bounds: three workers, two of them on the owner and one on another instance, two jobs
at a time, two clients, two tokens (an authorization, and its rotation or a second
authorization), one token revoked or lost by a fault. Three tokens take TLC eight
minutes; that was run once, without an error.

Left out: polls that reuse an open session and so ask for no token.

## Finding

`mailbox_restart`, a run that TLC ends with a counterexample: `dispatch` lists the
runtime row before it checks whether a poll is running. A row listed before the
first cursor was stored makes a second poll place the cursor at the end again; what
arrived in between is not read.

## Further observations

These configurations are kept beside the runs of `PROJECT.json` and are not part of
it. Each checks one property, which states a sentence of the code, and TLC finds it
violated (`tlc -config <cfg> <module>`).

| Configuration | Module | Property | What happens |
| --- | --- | --- | --- |
| `MCInboundStale.cfg` | `MCInboundPipeline` | `CompletedNotMistaken` | `MarkReady` reads the state back from the snapshot its UPDATE began with, so a Message completed by a concurrent delivery is reported as having pending attachments. The next delivery repairs it. |
| `MCMailboxNoCheckpoint.cfg` | `MCMailboxSync` | `NoGapWithoutCheckpoint` | Renumbering between the first cursor and the first confirmed email passes what arrived in between. |
| `MCMailboxMoved.cfg` | `MCMailboxSync` | `OlderWasRead` | A recovery passes unread emails that carry an older INTERNALDATE than the newest one read. |
| `MCSessionPoolStarved.cfg` | `MCSessionPool` | `WaitsForPolling` | `acquireConnSlot` evicts once. If another poll takes the permit that comes back, the first one waits although an idle session holds a permit. |
| `MCProfileOAuthTwo.cfg` | `MCProfileOAuth` | `TokenOfClientAnywhere` | An `Update` on another instance between a refresh and its store changes the client; the row then holds a token of the old client. |
| `MCProfileOAuthUndone.cfg` | `MCProfileOAuth` | `RefreshReplacesOwnAnywhere` | A refresh on the owner stores its rotated token after another instance disconnected the profile. |
| `MCProfileOAuthSerial.cfg` | `MCProfileOAuth` | `RefreshSerialized` | Refreshes are serialized within a process, not between a poll on the owner and a request on another instance. |
| `MCProfileOAuthIdle.cfg` | `MCProfileOAuth` | `NewAuthorizationIdle` | A poll that found no token stores `reauthorization_required` over the idle state of an authorization completed meanwhile; the profile is then not polled until it is tested. |
| `MCInboundDocumentNarrow.cfg` | `MCInboundDocument` | `NeverRejected` | With `max_field_size` below the width of a character, which startup accepts, a Message-ID that starts with a wide character is cut to nothing and the event is refused, although "oversized input is truncated, never rejected". |
| `MCInboundDocumentFlags.cfg` | `MCInboundDocument` | `CutsFlagged` | The parser cuts a display name at 255 characters, the event at 256 bytes: a longer name of one-byte characters arrives cut with `..._truncated` false, although the flag says "The list or one of its addresses or names was cut" (`docs/events.md:68`). A body that `limitBody` cut is not flagged either where what it left is within `max_body_text_size`; with the default limits (1 MiB and 64 KiB) that takes a body of control characters. |

More configurations pass: `MCSessionPoolLive.cfg` (`EventuallyConnected`),
`MCDistributionTwo.cfg`, `MCOutboxRelayFaults.cfg`, `MCMailboxThree.cfg` and
`MCMailboxLive.cfg` (`EventuallyRead` for a mailbox nobody has read, with a handover).

Three things seen in the text handling that the models do not show:

- `limitBody` may leave a replacement character where the limit splits a character.
- U+0000 stays in a body, and a PostgreSQL text column refuses it. The insert then
  fails on every delivery, the attempt budget does not count it and the email is never
  quarantined. `EventuallyConfirmed` assumes that this does not happen.
- `htmlReferencesCID` (`mime_parser.go:320-333`) searches a lower-cased copy of the
  HTML and uses the offsets in the original. Lower-casing changes the length of a few
  characters (U+023A is one), and the offsets are then not those of the original. In
  the model the reference to an image is a character of its own, without an offset.

## Proofs

`OutboxRelayProofs` proves for every set of events and instances and every
configuration that `OutboxConfig.validate` accepts:

- `RelayInvariant`: `Spec => [](TypeOK /\ RelayInv)`;
- `LeaseSafety`, `NoPhantomPublish`, `NoForgottenLease`: the three safety
  properties;
- `RelayImplementsOutbox`: the refinement of `Outbox`.

The types come first, then the steps (one lemma per action) and the refinement.

The three properties are not inductive. `RelayInv` adds that the rows a relay
works on are leased to it with at least as much time as its own deadline leaves
(the deadline is taken before the claim, so it ends first), that a publish in
progress started with enough of it left, and what the flags of the term say
about leases left behind. The proof of a step has one part per action; per action
it treats the acting instance and the others separately, because the actions of
one instance touch the rows of another only when their lease has run out.

`DistributionProofs` proves `FencingToken`: `Spec => []TokenNeverReused`, for all
sets of instances, profiles and leaders. `TokenNeverReused` is not inductive: a
profile without an owner may still carry the generation that just ended. `TokenInv`
says that this is the only case, and that every other ended assignment has an older
generation; `Assign` to an unowned profile always increments it. `TokenInvariant`
is `Spec => []TokenInv`.

`SessionPoolProofs` proves for all sets of profiles and all limits that startup
accepts:

- `PoolInvariant`: `Spec => []PoolInv`;
- `PermitsAccounted`, `OpenConnectionsBounded`, `PollingSessionKept`,
  `PollsNeverAllWait`: the four safety properties.

`PermitsExact` equates the permits taken with the cached sessions, the polls between
acquiring and connecting, and the logouts still running. It is not inductive: a
permit that is given back goes to the head of the queue, so the queue must hold each
waiting poll exactly once, and `Connect` appends a session, so the poll must not have
one. `PoolInv` adds these two facts. The lemmas about sequences (`WithoutRemoves`,
`AppendNew`, `TailRemoves`) say how a step changes the length and the range of the
cache and the queue; one lemma per action then compares both sides of the equation.

`NoGridlock` needs `GridInv`: when every poll that may run has come as far as the
queue, the last one to get there found an idle session to evict, or a permit to take.
That is a count: no cached session belongs to a waiting poll, so with all permits taken
one of them is idle. The proof uses only that there is at least one connection.

`InboundPipelineProofs` proves for any workers, emails, conversations and attempt
budget: `PipelineInvariant`; `ConfirmedIsDurable`, `ReadyIsComplete`, `BudgetHolds`,
`AnnouncedOnce`, `LastMessageFollows`, `OperatorPrevails`, the six safety properties;
and `OutcomesAreFinal`, the action property. `PipelineInv` adds to them what a worker
may rely on between its transactions: the Message it completes stays stored (`WorkInv`);
a regular Thread it has not seen settled is one it will look up, or has an answer for,
unless somebody else settles it meanwhile; and only one transaction holds the row lock
of a Thread (`ThreadInv`), so the contact it found open is open when it commits.

`ProfileOAuthProofs` proves `OAuthInvariant`, `TokenMatchesClient`, `RotationSurvives`
and `RefreshWritesOwn` for any workers, instances, clients and tokens, without a
hypothesis on which instance a request arrives at. `JobInv` says that the mutex of an
instance is held by its one job between the read and the write of the row, and that the
token a job is about to store is of the client it saw and live or excused. `SeenInv`
says that a job which is not `overtaken` would read the row again as it did; writing the
row overtakes every job of another instance that is in between, and the mutex keeps out
those of the same instance. `Unread` says that nobody else has read or holds a token
before it is stored, which is why two refreshes on two instances do not rotate each
other's token away.

`MailboxSyncProofs` proves `MailInvariant`, `NothingIsSkipped` and `CheckpointCovers` for
any instances, emails, renumberings, reassignments and limit per poll, with expunged
emails, failing handlers, stale rows and late polls of former owners. The hypothesis is
`DatesInOrder`: an email does not carry an older INTERNALDATE than one that arrived
before it. The checkpoint of a recovery is such a date, and `MCMailboxMoved.cfg` shows
what happens to emails that break the hypothesis. The server may still reorder the
mailbox when it renumbers (`Reorders`).

`NothingSkipped` is about the stored cursor and is not inductive: the cursor that will
be stored next is in a listed row or in a poll. `CoverInv` says of every such cursor
that it is `Good`: no pending email (unread or still to arrive) is behind it, or older
than the checkpoint a recovery from it would have, or, behind the range of a recovery,
older than the newest email the recovery has confirmed. A poll that delivers satisfies
`DeliverInv`: what is pending of the range up to any requested UID is among what is left
to fetch, and what it has confirmed is not newer than anything pending. `ShapeInv` holds
also after a lapse: cursors stay within the mailbox, and requests within the numbering
they were made in. The proof has three layers, the first two and the shape in
`MailboxSyncLemmas`. `AheadStep` says what any step does to
what cursors refer to: pending emails become fewer, and within one numbering nothing
moves and emails are only appended. `GoodKept` and `PollKept` derive that cursors and
polls stay good under the steps of others. One lemma for each step of a poll
(`ExamineGood`, `HandleGood`, `AdvanceGood`, `CompleteGood`) shows that its own cursor
stays good. The induction over sets of naturals it needs for the maximum of a finite set
is `SetInduction`, which follows from the pigeonhole principle of the library.

`MessageFetchProofs` proves `FetchInvariant`, `SearchIsExact`, `CursorCoversMail`,
`ConnectionIsClean` and the action property `HandedOverInOrder` for words, windows,
poll limits and batches of every size, any mailbox, and any number of arrivals,
expunged emails and faults. `CursorCovers` is about the end of a poll and is not
inductive; `FetchInv` says of every step of the poll where each email is. During the
search (`SearchInv`) the windows done so far have no gap above the cursor, and the next
one starts behind them, so the sum that wraps around ends the loop instead of repeating
it. The requested UIDs ascend and skip none the search may see (`RequestInv`). While
they are fetched (`DeliverInv`), each that still exists is handled, in the batch at work,
or left for a later one, in this order, unless a handler failed; in a batch (`BatchInv`)
an email after the last one handed over is still to be answered. So what
`advanceConfirmed` passes is handled, and a recovery that ends within its range has
handled all of it. The UIDs come from `Sorted`, which numbers the members of a set by
how many are smaller; `BoundedSetsAreRanked` derives from the library's facts about
finite sets that this numbering has no gap. That library multiplies the cost of every
proof step after it, so the lemmas before take its conclusion, `RankFacts`, as a
hypothesis, and the theorems discharge it.

Before each proof TLC checked the inductive invariant on the instances of the runs;
`MCOutboxRelayFaults.cfg`, `MCDistributionTwo.cfg`, `MCSessionPoolLive.cfg`,
`MCMailboxThree.cfg` and `MCMessageFetchInv.cfg` keep that check.

Only model-checked:

- liveness under fairness (TLAPS does not do ENABLED);
- `ReconcileBalances` and `PlanMinimal`: the plan is a fold over a sequence of
  profiles, and what a fold computes for every input takes an induction whose library
  theorems have an operator for a parameter, which the provers cannot instantiate;
- the properties of `InboundDocument`: its operators on text are folds and selections
  over sequences of characters and parts, so each needs the same kind of induction.

## Not modelled

- gRPC handlers and authorization: translation of requests without state of their own.
- The SMTP check, the contacts client and the connection pools of storage and
  contacts: network I/O whose outcomes the models choose freely.
- MIME syntax, HTML to text and JSON: libraries, modelled by the characters they
  keep and the bytes they write.
- The SQL of the Thread lookup: `InboundPipeline` decides which kind of Thread an
  email joins and `InboundDocument` the order of its ancestors; that the query finds
  the Thread of an ancestor is taken as exact.
- Loading of flags and files, logging, migrations, dependency injection.
- Polls that reuse an open session in `ProfileOAuth`; they ask for no token.

The components are checked one by one and joined by what each promises the next; one
specification of polling, pipeline and relay together is beyond TLC at sizes where
anything interesting happens.
