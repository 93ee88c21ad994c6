# A TLA+ model of the Axl daemon

Axl runs coding-agent sessions in a local daemon.  Clients (terminal, web,
SDK) send it requests over a socket; the daemon keeps each session as an
append-only log of canonical events and promises that requests can be retried,
that the log survives crashes, that one operation at a time owns a session's
branch, and that a client that reconnects is shown every event once and in order.
This directory models the part of the system that keeps those promises, checks it
with TLC and proves the central ones with TLAPS.

All paths below are relative to `src/packages/`.

## 1. The system

| Part | State it keeps | Operations | Interacts with |
|---|---|---|---|
| Command journal, `daemon/src/command-journal.ts` | `commands.jsonl`; one entry per idempotency key (acceptance, completion, running effect); a promise chain | `open`, `reconcile`, `execute` (`accept`, effect, completion), `append` | called by `executeRequest`; its effects are `dispatch` |
| Daemon, `daemon/src/daemon.ts` | lifecycle, admitted requests, connections, subscriptions, the table of cursors | `start`, `stop`, `finishShutdown`, `executeRequest`, `dispatch`, subscribe, history, acknowledge, unsubscribe | journal, session manager, sockets, data directory |
| Data-directory lock, `daemon/src/data-directory-lock.ts` | the lock record, the socket path | `acquireDataDirectoryLock`, release, removal of a stale socket | daemon start and stop, every offline command |
| Event migration, `daemon/src/event-migration.ts` | backup, blobs, pending marker, manifest and log of every migrated session | `migrateSessionEvents`; `scanLegacyEvents` at every daemon start | the lock; session manager |
| Session manager, `daemon/src/session-manager.ts` | per session: queue, queued compactions and reloads, `activeTurn`, `rebuilding`, `interruptDelivery`, `pendingInterrupts`, `queueDraining`, `queueMutationActive`, `disposing`, interactions | `send`, `enqueue`, `requeue`, `restoreQueue`, `interrupt`, `interruptAndDeliver`, `compact`, `shell`, `reload`, `configure`, `dispose`, `resume`, `interact`, `respondToInteraction`, `queueInput`, `reconcileAcceptedMutation`, … | agent sessions, event logs, blobs |
| Agent session, `kernel/src/agent-session.ts` | messages, tip, steering and follow-up queues | `open` with its repairs, `runTurn`, `runShell`, `compact`, `append`, `steer`, `followUp`, `restoreQueuedInput` | model, tools, extensions, event log |
| Session tree, `kernel/src/session-tree.ts`, `replay.ts`, `compaction.ts` | none: functions of the log | branch, lineage, integrity check, projection of the context | agent session |
| Canonical event log, `kernel/src/jsonl-event-log.ts` | one JSONL file per session, a promise chain | `open` (recover), `append` (write, sync, roll back), `read` | agent session; `SessionManager.list` opens further instances |
| Session subscription, `sdk/src/subscription.ts`, `client.ts` | the view, its cursor, pending events, the deliveries behind an acknowledgement | load, drain, apply, recover from a gap, reconnect | the daemon's subscriptions, over one connection |
| Others | blob store, artifacts, workspace and provider services, protocol, providers, sandbox, user interfaces | see section 6 and PROJECT.json | |

The daemon is one Node.js event loop.  What is hard about it is not parallelism
but what happens between two awaits: a value read before an append and used after
it, two requests around the same append, a retry while the first call is still
running, a crash between an effect and its record, a failed write, a message that
crosses another on the wire, and everything that must be started again by somebody
(the drain of the queue, a waiting delivery, a dispose, a recovery).  Two daemons,
or a daemon and an offline command, do run in parallel and meet only in the file
system.  PROJECT.json lists these hazards with their lines.

What makes the parts correct:

* journal: an effect begins at most once per key, a key has one verdict, the file
  can always be replayed, nothing indeterminate is served of the methods that
  recovery knows, every call settles;
* data directory: one process has authority over the data at a time, a running
  daemon is the one behind the socket path, and a dead owner keeps nobody out;
* migration: the manifest is the last thing written, so that whatever has one is
  complete and is never migrated over again;
* event log: acknowledged events stay, rejected ones do not come back, the chain
  never gets stuck;
* session: one owner of the branch, no missed interrupt, nothing between an
  interrupt and its replacement, the queue in memory is the queue of the events, a
  prompt runs once, a restart runs nothing by itself, the queue moves, deliveries
  and disposals end;
* turn: parents come before children, the events make one branch that a new
  process reads as the old one wrote it, the model is shown what the log says, an
  interaction has one answer, steering is neither lost nor doubled, an interrupt
  ends the turn;
* delivery: a view is a prefix of the log without gaps or repetitions, a quiet view
  is complete up to its cursor, a resumed cursor skips nothing, loading ends and a
  live view catches up.

## 2. The modules

| Module | Models |
|---|---|
| `WriteOnceVerdict` | the abstract promise of a retryable mutation: a write-once verdict per key |
| `CommandJournal` | the journal, daemon start and stop, the evidence of effects; refines `WriteOnceVerdict` |
| `CommandJournalProofs` | its inductive invariant, theorems about effects, about what calls are told and what a restart can read, and the refinement of `WriteOnceVerdict` |
| `EventLog` | one session's log file, byte-level enough for torn writes and rollbacks |
| `EventLogProofs` | its types, what survives in the file and what a rejected append leaves |
| `SessionManager` | one managed session: branch, queue, drain, interrupts, deliveries, rebuilds, disposal, recovery |
| `SessionManagerProofs` | its inductive invariant (stages, the owner of the branch, the drain, appends in flight; the queue against the log, interrupts, reservations, recorded events) and the theorems |
| `AgentTurn` | one agent session while it works: the event tree, the turn loop, appends beside it, compaction, interactions, steering, the repairs of an open |
| `AgentTurnProofs` | its types, the event tree, the one answer of an interaction, the steering, the results of calls, what an open accepts and the live history, proved |
| `Filter`, `FilterLemmas` | the selection of a sequence's elements (the array method the code filters with), and what can be proved about it in first-order terms |
| `EventFeed` | the abstract promise of a view: a growing prefix of the log, shown once and in order, possibly taken down |
| `Subscriptions` | the daemon's side of event delivery: snapshots, tails, cursors, connections |
| `SessionView` | the client's side, composed with `Subscriptions` over FIFO channels; refines `EventFeed` |
| `SessionViewInvariant` | the inductive invariant of both sides: what subscriptions owe, requests and answers in step, what the messages under way carry; the daemon's own steps |
| `SessionViewProofs` | the requests of the client, its steps, and the theorems, with the refinement of `EventFeed` |
| `DataDirectory` | lock and socket path under several daemons and offline commands |
| `EventMigration` | the offline migration of a session, composed with `DataDirectory` |
| `EventMigrationProofs` | the inductive invariants of both and their theorems |
| `MC…` | instances for TLC: symmetry sets and the kinds of the keys |

An action is the code between two awaits.  An append is therefore two actions, one
that issues it and one that continues when it is durable; the guards of the code
are evaluated where the code evaluates them, not again.  Operators marked "Mutant"
are plausible mistakes in the operator that follows them; no specification uses
them, and each shows that a property can fail.

### CommandJournal

`lines`, `torn` and `synced` are the file; `bound`, `completion` and `running` the
entries; `tail` the promise chain, whose head runs; `writing` says that the head
has written and not synced; `pc`, `key`, `hash`, `reply` are the `execute()` calls;
`evidence` is what the session logs say of a key, and `starts` counts how often its
effect began.  `Kind` gives what recovery can conclude from the evidence of a
method: `turn` (session.send: a started turn is closed as aborted), `marker` (one
event is the whole effect), `redo` (session.delete and session.interrupt,
carried out again) and `unproven` (session.compact and the extension methods, for
which `reconcileAcceptedMutation` has no branch: it answers undefined whatever is in
the log, and `ReconcileOpen` leaves the entry open).  A record that does not parse, whatever the reason, is
`Garbage`.  `Kill` keeps the page cache, `PowerLoss` drops any unsynced suffix.

`open()` replays lines that a killed process wrote without syncing and does not
sync them itself.  If the power fails later, such a line can disappear although
the daemon has acted on it; the history variable `retracted` marks these
behaviours, and AnswersAgree and EffectAtMostOnce are about the others.  Likewise
`ioFaults = 0` restricts a property to behaviours without a failed append, where
the code makes no stronger promise.  EffectAtMostOnce and OpenEntriesUnstarted are
about the methods with a branch (`Provable`): an entry of another method may be open
and have evidence, and a retry carries it out again (section 3).

### EventLog

A line is two cells, its bytes and its newline, so that a write can stop before,
between and after them; `disk` is the content at the last successful sync.  `before`
and `written` are the local variables of `appendDurably`.  Redaction, preparation,
size limits and validation are one nondeterministic `Refuse`.  `ListRead` and
`ListTruncate` are `SessionManager.list` reading a session that is not registered
yet through a second `JsonlEventLog`.

### SessionManager

`log` holds the queue's events in order, `marks` the other events, which the code
only looks up; `appends` is the log's chain (EventLog shows that it is serial and
durable, so here an append simply lands, fails or dies with the process).  The
other variables are the fields of `ManagedSession`; `drain` is the position of
`drainQueue`, `pc` that of every operation, `phase` that of the session and of
`dispose`.  `Urgent` and `DrainLoop` keep together what the code does without an
await: a `send` without a blob runs from its call to the claim, and `drainQueue`
from one await to the next.

Correspondence: `Enqueue`/`Enqueued`, `Requeue`/`Requeued`, `Restore`/`Restored`
are the two halves of the queue mutations; `Send`, `Claim`, `ClaimRefused`,
`Intercepted`, `Messaged`, `Stop`, `End` a turn; `Compact…`, `Shell…`, `Reload`,
`Rebuild`, `Rebuilt` the other owners; `Drain…` the loop; `Reserve` and `Deliver…`
interruptAndDeliver; `Dispose…` and `BeginShutdown` the end; `Crash`, `Resume`,
`Paused` a restart with `reconcileAcceptedMutation`, `AgentSession.open` and
`pauseRecoveredQueue`.

Left out on purpose: steering and follow-up input, which live inside a turn and
are in AgentTurn; what `send` and the other operations do when they find evidence of their own key
(the journal's retries, in CommandJournal); the `session.closed` event of a
dispose; failing appends during a resume; parents of events and cancelled
interactions, which are in AgentTurn.  A session that was
disposed is not opened again.

### AgentTurn

`log` holds the stored events as `[type, parent, ref]`, an event's id being its
position; `appends` is the log's promise chain with who waits for each entry.  An
append takes `tip` as its parent when it is called (`Enqueue`) and moves `tip` when
it is stored (`Stored`), as `AgentSession.append` does; what happens between the
two is what the module is about.  `messages` and `carried` are `this.messages`: the events behind its entries, and the
calls that its assistant messages hold (pairs of the event and the call).  `turn.pc` is the
position of `runTurn`, `ask` the one open interaction.  `Shown` pushes an assistant
message with every call of the answer (`ToolCalls`), before any of them is recorded.

`Lineage`, `Verified`, `Unanswered`, `Groups`, `MessagesFromLineage`, `CallsMade`,
`CallsFromLineage` and `Projectable` are the functions of session-tree.ts, replay.ts and compaction.ts,
written as functions of the log.  `Open`, `Recover` and `RecoverySettles` are
`AgentSession.open`: the integrity check, then the repairs computed from the log
as it is at the open (`Repairs`), one append after another.  `RunTurn`,
`CompactAtThreshold`, `CallModel`, `ModelAnswers`, `Reply`, `NextCall`,
`ToolReturns`, `Boundary`, `ContinueQueued`, `TurnStored` and `TurnFails` are the
loop, in its order; `Compact`, `Summarized` and `Resume` the compaction before a
request and after an overflow (once per turn; the plan is made from the lineage at
its start, the cut is nondeterministic because token sizes are).  `OtherAppends`
and `OtherSettles` are an extension's own appends.  `ToolAsks`, `AskSettles`,
`AskTimesOut`, `Respond`, `ResponseSettles`, `AskForgotten` are `interact` and
`respondToInteraction`; `Steer`, `Restore`, `RestoreSettles` `queueInput` and
`restoreQueuedInput`.

Left out: context an extension contributes to a request, tool effects, the
configuration recorded at an open, sandbox violations, the input of a call (an
extension may rewrite it before it is recorded, `agent-session.ts:1465`, and then the
live history has the original and the log the rewritten one); a session is opened
again only after the appends of its previous process have settled or are gone.
A call gets an id of its own; the code takes the id from the model's stream
unchecked (`agent-session.ts:1250`) and an open refuses a session in which a model has
used one twice (`replay.ts:27`).  A stream that completes with the stop reason
`error` or `aborted` is taken to carry no calls.  `ContinueQueued` does not look at
`stopping`, `disposing` and `interruptedForDelivery` (`session-manager.ts:2397`), so
it goes on in some cases in which the code does not.

### Subscriptions and SessionView

`log` counts the session's events; an event is its position.  `subs` are the
subscriptions in order of creation, with the frozen `base` of a snapshot, the
`tail` of events that arrive while it is paged, the next position and the sequence
number; `cursors` is the bounded table in insertion order: a new cursor
evicts the oldest insertions, acknowledged or not, as `createCursor` does; an
acknowledgement leaves a cursor where it is.  `up` and `down` are the two directions of
each connection.  A request is one action, from its dispatch to the activation
after its response, because the daemon awaits nothing but resolved promises in
between.  `SubscribeSnapshot`, `SubscribeAfter`, `History`, `Acknowledge`,
`Unsubscribe`, `SnapshotExpires`, `CursorsExpire`, `Cleanup` and `Restart` are the
handlers and timers; `AppendEvent` is what an append does to every subscription.

`this` is one `ResumableSessionSubscription` with its client; the comment above it
gives the field behind each component.  Every response has an action for each
promise that may be waiting for it (`SubscribeAnswered`, `PageAnswered`,
`BoundaryAnswered`, `DrainAnswered`, `ChainAnswered`, …), `ReceiveEvent` is the
event listener, `Establish`, `Rejected`, `Recovered`, `Drained` and `Applied` the
continuations, `LoseConnection` and `RestartDaemon` may cut in at any await.
`Rebinds` chooses between the two applications: the terminal client replaces a
client whose reconnect failed and rebinds the view (`tui/src/app.ts`, 1132–1240),
the web client keeps it (`web/src/app.tsx`, 1710–1725).

`EventFeed` has no pages, cursors or connections: the log grows, the view jumps
forward to a longer prefix or is taken down.  `ViewIsFeed` is the refinement, with
`view <- this.view`.

Left out: the projector's own check of a missing parent (the model shows that it
has nothing to catch), byte limits (folded into the limits on counts), activity
frames, views of one node, cursor stores, two loads of one subscription at once.
`applyEvent` and the loops over a page and over the pending events await the
application's `onEvent` between the view and the cursor (`subscription.ts:377`,
`sequence` is set at 360 without another look at the generation); `Applied`,
`ReducePage` and `Settled` take no other step in between.  `LoadingFailed` starts a new
generation at once, which the catch of `establish` does only with its retry
(`subscription.ts:290`); nothing else of the old one is left by then.  After a restart
the daemon answers `unknown_session` until somebody resumes the session
(`session-manager.ts:3239`); the model serves it at once.

### DataDirectory and EventMigration

A process is one life of a daemon or of `axl migrate`; its name stands for the pid
and the token of its lock record, so reuse of a pid is left out.  `pc` is the await
it stands at, `seen` the owner of the lock or of the path it last looked at,
`attempt` the round of `acquireDataDirectoryLock`.  `Probe`, `Recheck` and
`ClearPath` are `socketIsLive` and `removeStaleSocket`; `Link`, `Read`, `Reread`,
`ClearLock` one round of the lock; `Listen`, `Identify`, `Stop`, `Unbind`, `Close`,
`Release` the rest of `start` and `finishShutdown`.  That the file looked at and
the file removed may differ is the point: looking and removing are two steps.
Closing a server unlinks its path again (Node does, whoever is bound there by then).
Release and Unbind look and remove in one step each, which is justified as long as
nothing was removed unseen: an owner finds its own record there.

`EventMigration` adds the files of the migration, each `absent`, `torn` or `whole`,
and a step for every write, rename and removal of `migrateSessionEvents`; what the
converted log contains is fixed by the source, so whether a migration can be
lossless is the constant set `Blocked`; `Confirmed` are the migrations that run with
`--confirm-prefix`.  A daemon's start goes through `Scan` (`scanLegacyEvents`),
`OpenJournal` (`CommandJournal.open` and `reconcile`, whose inside is CommandJournal)
and `Listen`.  Each of the first two can reject it; what makes the second do so is
`unreadable`: the journal does not parse, or a session with an open entry cannot be
resumed.  `Spoil` lets either come about while a daemon serves, as the
counterexamples `NeverCorrupt` and `SessionReopens` show.  `Continue` is the first
event a client adds to a migrated session.  `Killed` may strike at any await,
`WriteFails` at any write, those of `reconcile` among them.

Left out: errors of the lock record's own input and output, an unreachable path
during a probe and its timeout, the chmod of the socket, power loss undoing a
directory entry, the staging directory, several blobs of one session,
`exportSessionRaw` (it only reads, under the lock).

## 3. The runs

| Run | Shows | Bounds |
|---|---|---|
| `journal` | TypeOK, AnswersAgree, EffectAtMostOnce, JournalReadable, OpenEntriesUnstarted | 3 calls, 2 keys (a turn and an unproven method), 2 hashes, 3 starts, 1 failing append |
| `journal_promise` | WriteOnce (refinement of `WriteOnceVerdict`), CallsSettle | 2 calls, 2 keys (a marker and a redone method), 2 hashes, 2 results, 3 starts, reliable storage |
| `eventlog` | TypeOK, SeenSurvives, FailedLeavesNoEvent, AppendsSettle | 3 events, 2 crashes, 1 failing rollback, 1 listing |
| `session_queue` | TypeOK, PromptOnce, QueueMatchesLog, PausedNeedsRequeue | 2 items, front and back, a re-queue, a restore, a delivery, 1 crash |
| `session_branch` | OneOwner, InterruptHonoured, DeliveryIsolated | an item, a delivery, a compaction, a shell command, a reload, an interrupt, 1 failing append |
| `session_live` | QueueMoves, DeliveriesSettle, DisposeEnds | an item, a prompt, a delivery with a blob, dispose and stop |
| `delivery` | TypeOK, TailComplete, ViewIsFeed (refinement of `EventFeed`), QuietViewComplete, ResumeSkipsNothing | 3 events, 3 subscriptions, 2 connections, 1 daemon restart, pages of one, a tail of 2, 3 cursors, terminal client |
| `delivery_live` | CatchUp, EstablishEnds | 2 events, 3 subscriptions, 2 connections, pages and a tail of one, 2 cursors, web client |
| `turn` | TypeOK, TreeWellFormed, ChainReopens, HistoryMatches, SettledBranch, AnsweredOnce | 1 message, 2 tool calls, 1 interaction (an approval), 2 clients, 2 of: crash, failed append, compaction, retry, extension state, restore |
| `turn_queue` | SteeringKept, InterruptEnds, AskSettlesEventually | 2 messages, 1 tool call, 1 interaction (an approval or a question), 1 client, 1 of the above or an extension's message |
| `directory` | Authority, ManifestIsLast, LoneProcessSucceeds | 2 daemons, 2 migrations, 1 session, 2 kills or failed writes; `CheckedSpec` |
| `turn_reopen` | a violation: SessionReopens | 1 message, 1 tool call, 2 of the above |

Three calls are the first instance in which a retry can meet a running effect, its
completion and a conflicting request at once, and three starts let a crash during
recovery be recovered from again.  A turn and an unproven method are the two kinds
whose effect lasts, and differ in what recovery does with their evidence; the two
kinds whose one event is the effect are in `journal_promise`, where two calls have
either one key or two.  Three events let an append fail between a
successful one and one that waits.  In the session, `session_queue` puts the
queue's mutations together with a crash, `session_branch` every kind of owner of
the branch but a direct prompt (a queue item claims it the same way), and
`session_live` a direct prompt with disposal and stop; each operation happens once
because a repetition is a retry.  With one item the end of the queue it is put at
makes no difference, so only `session_queue` uses both (`Fronts`).

Three events with pages of one make a snapshot of two pages and an event that
arrives while it is read; a tail of two can overflow; three subscriptions are the
first view, its recovery and the recovery of that, and three cursors are fewer than
these create, so that the table evicts.  Two tool calls are an answer
that is interrupted between its calls, or two answers with one each; with two extras
an append in flight meets the pair of a call and its result, and a crash falls into a
repair.  A question is an approval without a timeout and is in `turn_queue`, as are the
messages of extensions, which ChainReopens and HistoryMatches set aside.  (By hand,
`turn` was also run with them, 6.4 million states, with the same result.)  Two
daemons and two migrations are every pair of contenders, and a third and a fourth
who come after both have died; two faults kill one in the middle and its successor
as well.  `directory` checks `CheckedSpec`, the behaviours in which every removal took
the file its process had looked at (`~unchecked`): its invariants say nothing of the
others, and LoneProcessSucceeds is claimed for these only.  The theorems are about
`Spec` and carry `~unchecked` in their properties.

All configurations turn deadlock checking off: the operations are finitely many,
and an idle system stops.

Fairness.  `FairSpec` of each module (`Spec` and `CheckedSpec` of `EventMigration`) asserts weak
fairness of the program's own continuations only: the event loop runs what is
ready, and I/O completes, well or badly.  New requests of clients, interrupts, faults
and crashes are never assumed.  In SessionManager the model's answer is not either: an operation ends
under `WF_vars(Works /\ aborted)` because an abort reaches the model stream, the
process and the tools, and QueueMoves and DeliveriesSettle assume in their
statement that the branch becomes free again and again.  In AgentTurn fairness is of the
appends (`Settles`), of the loop, in which the model and the tools come back to
their caller (`TurnStep`), and of the timer of an interaction.  In
SessionView it is of the daemon that serves, of the client's reading and
continuing, and of a failed client hanging up.  In EventMigration `Progress` says
that some process that can move does, which is enough because every process has
finitely many steps.

### What the violation shows

`turn_reopen`: `AgentSession.append` reads the tip before it queues an event and
moves it after the event is stored.  An extension that stores state while
`tool.call` is being stored takes the same parent; whichever settles last becomes
the tip.  The result of the tool can then have a lineage in which its call is
missing, and `verifySessionIntegrity` refuses the session at every later open.
ChainReopens is the other half: as long as the log is a chain, a session reopens.

### Other counterexamples

The following definitions state what a document says and fail in the model as the
code does.  They are not runs; TLC shows each in seconds with the constants given,
everything not named being empty, zero or FALSE.

* `CommandJournal!OpenEntriesUnstarted` and `EffectAtMostOnce` without their exception
  `~Provable(k)` (an unproven key, 2 calls, 2 starts): the entry of a compaction or of an
  extension change that a crash left open stays open after the restart although its
  events are in the log (`session-manager.ts:1067`), and a retry of the key carries the
  change out again.  `docs/architecture/web-delivery.md:84` says that an accepted
  operation cannot remain permanently indeterminate, line 88 that the missing terminal
  record is appended, and line 93 that a method without its own reconciliation must not
  use the retryable contract; `RETRYABLE_MUTATION_METHODS` contains these methods
  (`protocol/src/wire.ts:1122`).
* `CommandJournal!NeverCorrupt` (one key, one hash, one result, 3 calls, 2 starts,
  1 failing append): a failed append leaves bytes that the next record joins, and
  the daemon then refuses to start.  The event log rolls such writes back, the
  journal does not.
* `EventLog!SeenStaysRecorded` (2 events, 1 listing): a listing cuts an append of a
  session that is being created (`session-manager.ts:1143`).
* `SessionManager!StartedItemsRun` (an item, a prompt): a queued prompt is dropped
  when a direct prompt takes the branch while `queue.started` is being appended.
* `SessionManager!RestoredNotRun` (an item, a restore): an item that a restore
  handed back runs as well.
* `SessionManager!CompactionsMove` (a prompt, a compaction, `FairSpec`): a queued
  compaction waits for an unrelated operation.
* `SessionManager!QueueMoves` (an item, a reload, `FairSpec`): a prompt enqueued
  during a rebuild stays in an idle queue.  In `session_live` there is no rebuild,
  and the property holds.
* `SessionView!QuietViewCurrent` (4 events, 3 subscriptions, 1 connection, pages
  and tail of 2, 3 cursors): a gap found while a recovery is running is swallowed
  (`sdk/src/subscription.ts:439`), and the view stays behind until the next event.
* `SessionView!ReconnectRestoresView` (2 events, 3 subscriptions, 2 connections,
  pages and tail of 2, 3 cursors): a view whose first load was cut off is not taken
  up by the reconnect of the same client (`sdk/src/client.ts:510`).
* `AgentTurn!HistoryMatches` with `carried = CallsFromLineage(log, tip)` (`Turn.cfg`, at
  the place `attempt`): an interrupt between the two calls of an answer, a call whose
  append failed, or calls in an answer that did not end in `tool_use` leave the live
  assistant message with a call that has neither an event nor a result, and the next
  request shows it to the model; an open rebuilds the message without it.  The comment at
  `kernel/src/agent-session.ts:1010` says that the live history is kept identical to
  `messagesFromCompactedLineage`.  HistoryMatches is the half that holds: the events are
  the same, and so are the calls that were recorded.
* `DataDirectory!SingleOwner` (3 daemons, 1 kill): two starters take over a dead
  lock; the slower one removes the lock the faster one has just created.  Authority
  and the theorems are therefore about behaviours in which a removal took the file
  that was looked at (`~unchecked`).  In the others a freshly bound socket can be
  removed in the same way.
* `EventMigration!LoneProcessRecovers` (`DataDirectory.cfg`, 1 fault): a kill or a
  full disk during the write of the pending marker leaves half of it, and
  `scanLegacyEvents` then fails at every daemon start and before every migration; a
  torn backup, blob or manifest stops every later migration of its session.
  `docs/architecture/web-delivery.md:134` says of such a target that it is removed
  on the next recovery run.  In the same way a corrupt journal, or a session that
  recovery has to resume and cannot, stops every later daemon (`daemon.ts:319`–332).
  LoneProcessSucceeds is the half that holds: where none of these is left (`Sound`) the
  next process gets through alone, unless it is killed or a write of its own fails.

Seen while reading, without a definition of their own: a `context.extension` event
between an answer and its tool call makes `projectContext` throw
(`kernel/src/compaction.ts:138`); an extension's message stored while a compaction
runs is missing from the live history (`kernel/src/agent-session.ts:901`), which is
why HistoryMatches excludes it; a restore can cross a delivery that was already
taken; `continueQueued` takes an input off its queue before the append of it has
succeeded.

## 4. The proofs

`CommandJournalProofs` proves for every value of the constants, from
`JournalAssumption` only (the kinds are total, `None` and the reply codes are not
among the other values, the bounds are naturals):

* `Invariant`: `Spec => []IInv`;
* `TypeCorrect`: `Spec => []TypeOK`;
* `AtMostOnce`: `Spec => []EffectAtMostOnce`;
* `NothingIndeterminate`: `Spec => []OpenEntriesUnstarted`.

The last two make the exception of the code for the unproven methods.

Neither EffectAtMostOnce nor OpenEntriesUnstarted is inductive.  An effect may
begin only when its key has no evidence.  To know that, one has to know that a
key without an entry has none (EvidenceInv), hence that evidence implies an
acceptance the daemon relies on, hence that replay finds every such acceptance
(FileInv, EntryInv); that recovery leaves an entry of a method it knows open only
without evidence (StartupInv, OpenInv); that a key's effect is in the hands of one call (RunningInv);
and that the call at the head of the chain is the one that waits there (ChainInv,
CallInv, FirstInv, QuietInv).  `IInv` is the conjunction of these parts.  Each
action has a lemma that it keeps `IInv`, with one step per part it can disturb; the
lemmas about the chain (ChainHead, ChainPop, ChainPush), the file
(OneLineWritten, OnRecordStays) and the replay (Replay) are shared.

On top of that invariant, from the same assumptions:

* `AnswersAgreeHolds`: `Spec => []AnswersAgree`;
* `JournalReadableHolds`: `Spec => []JournalReadable`;
* `WriteOnceHolds`: `ReliableSpec => WriteOnce`, the refinement of `WriteOnceVerdict`
  on storage that fails no append and takes no relied-on line back.

What a call was told can only be compared with what another one is told, perhaps in
a later daemon, through the file.  The invariant `AnswerInv` therefore ties four
things together: an outcome that was told is the completion of its entry, and the
entry holds what a line the daemon relies on says (`TellInv`); the line being
written is the last one and says what its call asks for (`LineInv`); a call that
runs or waits asks what its entry is bound to, and a running effect has no outcome
yet (`MemoryInv`).  An append that fails half-way can spoil a line, even one that is
relied on; then no later open gets past it, which is why `SaysIn` lets a line be
garbage.  Readability needs that a record of a key in the file is known to the
daemon or is the line being written (`ReadInv`), so that no acceptance and no
outcome is written twice.

The refinement maps the verdict of a key to the request and outcome that the
relied-on lines name (`VerdictSays`) and an answer to what a call was told.  Relied-on
lines stay (`LinesStay`), so a verdict, once there, stays; a call that was answered
stays answered (`AnswerStays`), and was told its key's verdict (`ToldVerdicts`, from
`TellInv`).  Every step of the journal is then a step of the promise.

`EventLogProofs` proves for every set of events and any number of crashes, failed
writes and listings, from `LogAssumption` (the bounds are naturals):

* `TypeCorrect`: `Spec => []TypeOK`;
* `SeenSurvivesHolds`: `Spec => []SeenSurvives`;
* `FailedLeavesNoEventHolds`: `Spec => []FailedLeavesNoEvent`.

Both properties speak of what a recovery would decode from a file of cells, so the
invariant `Store` says what the file looks like as long as nothing has disturbed the
log: whole lines, each a body and its newline, of which the last may lack its
newline (`Lines`); first the held events, in order (`Holds`); after them no more
than the head of the chain has written of its own line (`Place`); what is on the
disk is a prefix of it (`Extends`); no event twice (`Fresh`).  A rollback or a
recovery then cuts exactly where the held events end.

`AgentTurnProofs` proves for every set of messages and clients and any number of
tool calls, interactions and faults, from `TurnAssumptions` (messages are not
positions in the log, a client is none of the internal appenders, the bounds are
naturals):

* `TreeHolds`: `Spec => []TreeWellFormed`;
* `AnsweredOnceHolds`: `Spec => []AnsweredOnce`;
* `TypesHold`: `Spec => []TypeOK`;
* `SteeringHolds`: `Spec => []SteeringKept`;
* `SettledHolds`: `Spec => []SettledBranch`;
* `ChainReopensHolds`: `Spec => []ChainReopens`;
* `HistoryHolds`: `Spec => []HistoryMatches`.

An event gets the tip as its parent when the append is issued, and no parent when
there is no tip.  That only the first event lacks one needs the phases of an open
(`Rootless`, `Rooted`): nothing but the recovery of a new log appends before there
is a tip, and from then on whatever can append has one, also after a failed append.
An interaction is answered once because its entry is resolving from the call of
respondToInteraction on and its id is not used again: an answer that is stored or on
its way leaves the interaction closed (`Underways`, `Winners`), and what is closed
stays closed.

The types of an agent session are not inductive either, because what an append
leads to when it is stored is decided by where the turn is at that time.  `WriteInv`
therefore says which append of which caller can be on its way at each place of the
turn and in each mode: the turn, a recovery and a question wait for one append at a
time, what the turn waits for belongs to its place (`Fits`), and a running session
appends behind the last event.  `Inputs` adds that queued messages were accepted by
an open session.  On top of it `SteerInv` says for every accepted message in which
one place it is: queued, on its way, in the log or handed back.  A message leaves
its queue only when its append is stored, so the two places overlap for the first of
a queue while the turn delivers it (`Heading`); that the turn waits for one append
only makes the message on its way that first one.

The last three theorems are about logs in which no two appends took the same parent
(`Chain`).  `ChainLineage` shows that the lineage of the last event of such a log is
the whole log, so that replays of the lineage, which walk up the parents, become
statements about all events.  The lemmas on `Only` (`FilterLemmas`) and `LatestAppend`,
`ShowAppend`, `RebuiltAppend` then say what one more event changes in a replay.  The
invariants:

* `SettleInv`: the only call of an open session that may lack a result is the one the
  turn works on, and what a recovery still has to repair is in `repairs` or on its way;
* `CallInv` and `ResultInv`: a call has a number of its own that the turn has given
  out, a result has a call before it, no call has two, and neither a recovery nor a
  turn is about to store the second one;
* `CallsFollow`: between an answer and its calls there is neither a user's message nor
  a compaction, and there is none behind the last answer while the turn works on its
  calls;
* `PlanInv`: the last compaction, and the one a turn is carrying out, replaces a prefix
  of what was visible.  A plan is made from the groups of that time and stored several
  steps later; events beside the turn only add to the end, so it stays a prefix;
* `HistInv`: but for the messages of extensions the live history is the rebuilt one,
  and what a plan keeps is what is visible but for what it replaces (`PlanShows`).  The
  step that stores a compaction swaps one for the other (`BothReplace`).
* `CarryInv`: an assistant message of the live history carries its answer's calls, and of
  the recorded ones those that an open would give it.  A call is recorded behind the
  answer that asked for it and before the next one, and its number was not given out
  before; a compaction takes the recorded calls of the messages it keeps.

`SessionManagerProofs` proves for any sets of operations and any number of crashes
and failed appends, from `SessionAssumption` (the kinds of operations share none,
`None` is neither an operation nor an owner, "drain" and "resume" are no operations,
the bounds are naturals):

* `Invariant`: `Spec => []IInv`, and `TypesHold`: `Spec => []TypeOK`;
* `OneOwnerHolds`, `InterruptsHonoured`, `DeliveriesIsolated`: `Spec => []OneOwner`,
  `[]InterruptHonoured`, `[]DeliveryIsolated`;
* `PausedHolds`, `QueueMatches`, `PromptsOnce`: `Spec => []PausedNeedsRequeue`,
  `[]QueueMatchesLog`, `[]PromptOnce`.

None of the properties is inductive.  All of them rest on where an operation can be
(`StageInv`), on what the owner of the branch says of it and nobody else (`OwnerInv`),
on what the drain, the queues and a resume refer to (`DrainInv`, `DownInv`), and on
every append in flight having exactly one producer that waits for it and one event it
can carry (`FlightInv`): an append lands or fails long after the conditions for it
were looked at, and this is what still holds then.  On top of it

* `QueueInv` says that the log's account of an item is well formed (recorded once,
  started once, changed only in between) and agrees with the stage of the item, and
  `MatchInv` that the queue folded from the log is the queue in memory with the
  item that is being started put back;
* `InterruptInv` says that a requested interrupt has a target that has begun and
  cannot return to the queue, so that an abort cannot reach a later operation;
* `DeliveryIsolated` is kept by itself once the rest is known: a delivery's stage is
  its reservation;
* `MarkInv` says which events an operation cannot have left at its stage
  (`Missing`), so that nothing is recorded twice; an item without `started` has left
  no message, answer or error; the target of a delivery that waits for the branch
  has its message, no answer, and does not run; a failure that the drain records is
  not on record.

The queue of the log is a fold of its events.  Induction over sequences is done in
first-order terms (`AppendInduction`, from the well-foundedness of the naturals), on
sets that the fold keeps; for that reason the model writes the removal of items as
a recursive function (`Without`) and the restorable items as a comprehension.

`SessionViewInvariant` and `SessionViewProofs` prove for any number of events,
subscriptions, connections and restarts, any sizes of pages, tails and the cursor
table, and for both clients, from `SubscriptionLimits` (the bounds are naturals,
pages and the table are not empty):

* `InvariantHolds`: `Spec => []IInv`, and `TypesHold`: `Spec => []TypeOK`;
* `TailHolds`: `Spec => []TailComplete`;
* `StreamHolds`: `Spec => [](IInv /\ Stream)`;
* `FeedHolds`: `Spec => ViewIsFeed`, the refinement of `EventFeed`;
* `ResumeHolds`: `Spec => []ResumeSkipsNothing`;
* `QuietHolds`: `Spec => []QuietViewComplete`.

`SubsInv` says of a subscription what it owes its client at its state, which also
needs that a subscription that is gone belongs to no connection: an acknowledgement
of a subscription that is attached then either is refused or has a cursor in the
table.  `TableInv` says that no cursor lies beyond the log, so that a resumed
subscription starts behind an event that exists.  The types of the client are not
inductive: an answer is handed to the oldest request that waits, which exists only
because of `Balanced`: on the connection in use the requests without an answer are
exactly those whose answer is under way or that are themselves under way, whatever
events are between the answers, and with the connection all of them go.  What a
function of the subscription object keeps of this is `Same`.

None of the last three properties is inductive either, and `IInv` is not enough: that
the view is a beginning of the log depends on what is under way.  `Stream` says what
the messages carry, and TLC checked it as an invariant before it was proved:

* `Roster`, `Table`, `Requested`: of a subscription, which boundary and last
  acknowledgement go with its state; of the table, that its cursors were issued and
  that none occurs twice; of a request to resume, that its subscription existed;
* `Conversing`: each waiting promise, by its place in the queue, its request or its
  answer.  A page that is awaited starts where the view ends, and two
  acknowledgements that wait rise (`Waits`, `Matched`);
* `Streaming`: of a subscription that is loaded, every event it sent is still to be
  handled (`Begun`); of a bound view, the events collected, queued and under way go on
  where the view ends, but for one hole that the object knows of by `missed`
  (`Tracked`);
* `AckSafe`: an acknowledged cursor is shown, or the daemon does not know it any more.
  A recovery empties the view before it acknowledges anything new.  What makes that
  safe is the order of eviction (`Ordered`): behind the client's acknowledged cursor
  the table has every cursor of the subscription after the last acknowledgement the
  daemon knows of, so that when a later one is refused the older one is gone as well
  (`Lapsed`);
* `Showing`: the view is a beginning of the log.

A step of the daemon leaves the client alone and has to keep what is said of one queue
at its other end; it may add an event (`AppendStream`), evict a cursor
(`CursorsExpireKeeps`) or answer (`ServeStream`, one case for each request and each
promise it may be for).  A step of the client takes at most one message and leaves the daemon
alone: its lemma rebuilds the conversation without the head of the queues
(`ClientStream`), and gives the direction of the view (`Grew`).  The refinement
follows from `Showing` before and after and from `Grew`: two beginnings of the log of
which the second is not shorter are equal or one `Show` apart.  A restart drops all
subscriptions, cursors and messages, and the view stays (`RestartStream`).

`EventMigrationProofs` proves for every set of daemons, migrations and sessions and
any number of faults, from the assumptions of the two modules (`None` is no process,
no process is of both kinds, `Blocked` is a set of sessions and `Confirmed` one of
migrations, the bound is a natural):

* `TypeCorrect`: `Spec => []TypeInv`, the types with which process stands at which
  place;
* `OwnershipHeld`: `Spec => [](TypeInv /\ DirInv)`;
* `AuthorityHolds`: `Spec => []Authority`;
* `ManifestIsLastHolds`: `Spec => []ManifestIsLast`.

Authority is not inductive.  A starter removes a record two awaits after it read
it; to know that nobody's authority goes with it one has to know that what it saw
stays true of the process it saw (`Looked`: a process that ended stays ended, a
path that was stale stays so), and that an owner's record and a listener's path are
their own until they remove them (`Held`).  Both are guarded by `~unchecked`, the
assumption the counterexample above shows to be needed.  For ManifestIsLast the
argument goes on in the files: only the one owner writes (from `Held`), each
session's files are in one of the few combinations a migration can leave
(`SessionFiles`), a migration at a given place knows the combination it has
produced (`Known`), and a running daemon hides every session that still has a
pending marker (`Hides`).  Each action has a lemma for each part it disturbs.

Only model-checked: liveness and fairness (CallsSettle, AppendsSettle, QueueMoves,
DeliveriesSettle, DisposeEnds, CatchUp, EstablishEnds, InterruptEnds,
AskSettlesEventually, LoneProcessSucceeds), which the prover does not reach; and what
`Lineage` computes for a log with forks, which no theorem needs.  Every safety
property and every refinement of a passing run is stated by a theorem.

## 5. What is left

In this order:

1. **Blob store** (`daemon/src/blob-store.ts`): uploads against quotas, commits
   against dispose, ownership by sessions.
2. **Retries of interruptAndDeliver** against its reservation in memory: the
   composition of CommandJournal with SessionManager.
3. **Sessions as a set**: fork, clone, import, delete and listing in one registry;
   SessionManager models one session.
4. **Bounded channels**: the byte limit of a socket and the disconnection of a slow
   client, which Subscriptions folds into the limits on counts.

Abstract specifications still worth stating: the event log as an append-only
sequence of acknowledged events, and the queue as a priority list derived from it.

## 6. Not modelled

Model providers, tools, extensions and the user at a client are the environment:
their answers are nondeterministic or absent.  User interfaces, encoding and
validation of messages, redaction, formatting, generated catalogues, configuration
files, and Git and file services carry no state that these properties speak of;
they are also most of the repository's lines.  The blob store and one-shot session
artifacts are left for later (section 5).  PROJECT.json gives the reason for each
part.
