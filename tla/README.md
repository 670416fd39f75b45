# Verification of the orchestration core

TLA+ models of the server in `apps/server` — a local server that drives coding
agents (Claude, Codex, Gemini) for a web, desktop or MCP client — with the TLC
runs that check them on small instances and the TLAPS proofs of what holds for
every instance.  Paths below are relative to `src/apps/server/src` unless they
start with `packages` or `apps`.

What a user sees hangs on one mechanism.  Every change is a *command* that is
decided against an in-memory read model, stored as *events* in SQLite, projected
into tables, published to subscribers, and answered.  Reactors subscribe to the
events, drive the provider, and turn what the provider does into further
commands.  The modules follow that loop: `OrchestrationEngine` is the path from
a command to its events and its answer; `TurnQueue` the loop through the
provider for the messages of one thread; `ProviderSessions` who keeps the
agent's process and which conversation it continues; `AssistantStream` how what
the agent says becomes messages; `CheckpointReactor` what a turn leaves behind — in
the working tree, in git, in the provider's memory, in the read model and in the
tables — and how a revert takes it back; `ClientReplica` how a client gets to see it.
`TerminalSessions` is the other half of the server, the shells a user works in.

## 1. Inventory

| component | state it keeps | operations | hard behaviour | what makes it correct |
|---|---|---|---|---|
| **OrchestrationEngine** `orchestration/Layers/OrchestrationEngine.ts` | command queue, envelope states, in-memory read model, maintenance lock, `deferredProjectionDirty`, `deferredProjectionCatchUpInFlight`, event PubSub | `dispatch`, the worker's `processEnvelope`, background catch-up, `repairState`, start | a timer that interrupts the worker anywhere, retries, faults of each database call, crash between commit and the steps after it, three holders of one lock | one atomic effect per command; every answer true of the log; read model, tables and stream see every event; decisions final; everybody is answered |
| **Event store, receipts** `persistence/Layers/OrchestrationEventStore.ts`, `OrchestrationCommandReceipts.ts`, `ProjectionState.ts` | SQLite tables | append, `readFromSequence` (pages of 1000), `readAll`, upsert of receipts and cursors | paging, transactions rolled back | the log is append-only; a receipt exists iff its events do |
| **ProjectionPipeline** `orchestration/Layers/ProjectionPipeline.ts`, `projectMetadataProjection.ts` | projection tables, one cursor per projector | `projectMetadataEvent`, `projectHotEvent`, `projectDeferredEvent`, `bootstrap` | replay over tables that are partly ahead, non-idempotent projectors, cursors moved for events not applied | each table holds the events up to its cursor, once, in order |
| **Decider, command invariants** `orchestration/decider.ts`, `commandInvariants.ts` | none (reads the read model) | one decision per command type | decides on a read model other fibers are about to change | only commands whose requirements hold are accepted |
| **Projector** `orchestration/projector.ts` | the in-memory read model | `projectEvent` | deltas are appended, so applying twice shows | each event is applied once |
| **ProviderCommandReactor** `orchestration/Layers/ProviderCommandReactor.ts` | queued messages, draining marks, handled keys — all in memory | start, queue, drain, interrupt, stop, approvals, rollback, edit and resend | two fibers drain one queue; the same event twice; failures inside a drain; restart | no message lost, copied, reordered or stranded |
| **ProviderRuntimeIngestion** `orchestration/Layers/ProviderRuntimeIngestion.ts` | buffered assistant text, turn bookkeeping | turns provider events into commands | reads the session, then dispatches; late events of an old turn | the session in the read model settles where the provider is |
| **ClaudeAdapter** `provider/Layers/ClaudeAdapter.ts` | sessions, open turn | `sendTurn`, `interruptTurn`, `stopSession` | a send during a turn closes that turn | each turn ends once and is announced |
| **ProviderService, ProviderSessionDirectory** `provider/Layers/ProviderService.ts` | a row per thread with the cursor of its conversation, idle timers | start, recover, send, roll back, stop, idle stop, clear the cursor, end of the server | each call waits for the database or the provider and uses what it read before; idle timer, reactor and clients overlap; crash | one process per thread; a thread keeps its conversation; a session at rest can be stopped and resumed |
| **codexAppServerManager** `codexAppServerManager.ts` | a context per live process, pending JSON-RPC requests | start, send, roll back, stop, notifications, exit | answers, notifications, exits and timeouts in any order | no process without a session; a resumed or a new conversation, as told |
| **CheckpointReactor, CheckpointStore** `orchestration/Layers/CheckpointReactor.ts`, `checkpointing/Layers/CheckpointStore.ts` | hidden git refs, the message whose turn is about to start | baseline, capture, revert in four steps | two event sources in any order, counts read before and used after a capture, placeholders of the ingestion, a revert that stops half-way | a captured checkpoint stays and can be restored; after a revert tree, conversation, read model and tables keep the same turns |
| **OrchestrationReactor, DrainableWorker** `packages/shared/src/DrainableWorker.ts` | queue, outstanding counter | enqueue, drain | drain racing an enqueue | drain returns when nothing is outstanding |
| **Terminal manager** `terminal/Layers/Manager.ts` | sessions, thread locks, kill timers, transcripts and their writes, the file of pids | open, restart, clear, close, write, idle sweep, eviction, start and end of the server | awaits within a call; SIGKILL racing an exit; eviction in the middle of a call; writes overtaking a delete; crash | no shell outlives its session; no transcript is lost or comes back; every call returns |
| **wsServer, push bus, snapshot query** `wsServer.ts`, `wsServer/pushBus.ts`, `orchestration/Layers/ProjectionSnapshotQuery.ts` | clients and their subscriptions | welcome, subscribe, unsubscribe, publish, snapshot | subscribing while events are published; snapshots overtaken by events | with its snapshot a client gets each later event once |
| **Web client** `apps/web/src/routes/__root.tsx`, `wsTransport.ts`, `store.ts` | replica of the read model, a fence per thread, events that wait | subscribe, hear, flush, reconnect | a thread that does not exist yet, is hidden, shown, loses its connection; events throttled while a snapshot arrives | the replica converges; what was read stays |
| Other adapters, git, keybindings, attachments, telemetry, migrations, desktop shell, MCP server, contracts, marketing | — | — | mostly I/O, translation or rendering | — |

How they interact: clients call `dispatch` through `wsServer`; the engine's worker
calls decider, event store, pipeline and projector in one fiber; reactors receive
its PubSub stream and call the provider; provider events come back through
`streamEvents` to the ingestion *and*, separately, to the reactor's drain fiber;
both answer with `dispatch`.  The maintenance lock is the only lock.

## 2. Modules

| module | models | proved in |
|---|---|---|
| `ProjectionPipeline` | event log, projection tables, cursors, inline projection, bootstrap | `OrchestrationEngineProofs` |
| `OrchestrationEngine` (extends it) | dispatch, worker, timer, catch-up, `repairState`, crash, restart | `OrchestrationEngineProofs`, `EngineLedgerProofs` |
| `CommandLedger` | abstract: what the engine promises a caller | `EngineLedgerProofs` |
| `TurnQueue` | decider, reactor, provider and ingestion for one thread | `TurnQueueProofs` |
| `CheckpointReactor` | checkpoints and reverts of one thread, with both projections of its messages and checkpoints | `CheckpointProofs` |
| `AssistantStream` | the ingestion of assistant text, several turns and threads, one mode | `AssistantStreamProofs` |
| `ProviderSessions` | service, directory, manager and process of one thread | `ProviderSessionsProofs` |
| `TerminalSessions` | the terminal manager, several terminals and threads | `TerminalSessionsProofs` |
| `ClientReplica` | server, connection, event router and store, one thread of one client | `ReplicaProofs` |
| `MC...` | small instances for TLC | — |

They are composed by what they promise each other.  `TurnQueue`, `CheckpointReactor` and
`AssistantStream` take a dispatch for one step, which `LedgerRefinement` proves of the
engine; `ClientReplica` takes a committed event to be in the rows at once and the deferred
cursor to lag, which is `HotTablesStayCurrent`; `TurnQueue` takes a provider that has one
session, which `OneProcess` proves of `ProviderSessions`.

### ProjectionPipeline

`log` is `orchestration_events`, `rows[p]` the sequence numbers applied to a
projector's table, `cursor[p]` its row of `projection_state`, `boot` a bootstrap in
progress.  The code's ten projectors are treated in four ways, and one projector
stands for each: `projects`; `messages` (the other six with a snapshot cursor; the
message table is the one where a second application shows, since a streamed
message appends its text); `turns` (hot, no snapshot cursor); `shell` (deferred,
filtered by `shouldApply`).  `ProjectInTransaction` is what the command transaction
does with all events of a command — `projectMetadataEvent` for project events,
`projectHotEvent` for others, including that a project event moves the cursors of
six tables it does not touch.  `BootReplayEvent` keeps `pendingSkippedEvent`: a skipped
event moves the cursor only at the end of the page.  `ReadLimit` is the page.

### OrchestrationEngine

One action per step of `processEnvelope`, in its order:

| code | actions |
|---|---|
| `dispatch` and its `timeoutOption` | `Submit`, `DeadlinePasses`, `Abandon` |
| before the lock | `Take` (start sequence, remaining budget), `AcquireLock` |
| `runCommand` | `SkipAbandoned`, `Start`, `ReplayReceipt`, `NoReceiptYet`, `RejectCommand`, `Commit`, `RefuseEmptyCommand`, `InstallReadModel`, `ProjectNextDeferred`, `DeferredDone`, `PublishNext`, `Succeed` |
| its failures | `FailBeforeCommit`, `Interrupt`, then `Reconcile` and one of `SettleByReceipt`, `SettleRejected`, `SettleFailed` |
| `scheduleDeferredProjectionCatchUp` | `BeginCatchUp`, `Replay`, `EndCatchUp` |
| `repairState` | `RequestRepair`, `ResetProjects`, `FailRepair`, `Replay`, `RefreshReadModel`, `RestoreBackup` |
| the process | `Crash`, `Restart`, `Replay`, `FinishStart` |

The worker is a record whose `pc` says where `processEnvelope` is.  `Interrupt` may strike
in any state of `InterruptAt`: Effect interrupts a fiber between two operations.
A transaction is one action, since SQLite commits or rolls back; a fault inside it
is `FailBeforeCommit`.  `Fault(kind)` is any failure of the database call of that kind.
The decider is abstract: a command requires and excludes other commands, judged
by what the read model has seen.  `base` and the `by` of an event are history.

### CommandLedger

The ledger of events, one call after another: a call executes at most once, whole
and only where the ledger permits it; success names the command's last event;
failure is told only to calls without effect, refusal only for commands not in
the ledger.  `OrchestrationEngine` implements it with `log` as the ledger and its own
`answer`: queue, receipts, read model, lock, timers and crash are all hidden.

### TurnQueue

One thread.  `SendMessage` is the decision of `thread.turn.start`: with a running turn in
the read model the message is queued, else a start is requested.  `events` is the
domain stream to the reactor's worker; `pending`, `draining`, `handled` are its maps;
`drain[f]` is `drainQueuedTurnsForThread` as run by the worker after a failed send or by
the fiber that watches the provider for turns ending.  `runtime` and `ended` carry the
same provider events to the ingestion and to that fiber, independently.
`CloseOpenTurn` and `SendTurn` are the two halves of a send during a turn.
`IngestRuntimeEvent` and `DispatchSessionSet` are apart because the ingestion reads the
read model before it dispatches.  `ProcessSessionStopRequested` and `SetSessionStopped` are apart where the
provider is asked to stop in between; a stop that finds the thread shown as stopped goes on
to set the session without waiting, so that at most one update of the ingestion, which was
dispatched before, gets there first.  `overtaken` is history: such a stop passed over a live
session right after its turn was announced.  `EnsureSession` starts a session where there is none;
that a live one is replaced when the model or the mode changes is left out.  A dispatch is one step here, and may be: the
engine runs commands one at a time and (`ImplementsLedger`) each takes effect at one
point; what is *not* atomic about it, that an event may be published again, is the
action `Redeliver`.

### CheckpointReactor

One thread of a git workspace.  `thread` is the thread in the read model as `projector.ts`
builds it, `table` its rows in `projection_thread_messages` and `projection_turns` as
`ProjectionPipeline.ts` does; the operators `WithMessage`, `TurnRunning`, `ProjectTurnDiff` and
`ProjectReverted` are one event each, applied to both.  The tree is the set of turns
whose edits it contains, a ref what the tree was when it was captured.  `domain` and
`runtime` are the two streams the reactor merges into its worker's queue; reading them in
any order is merging them in any order.  `ingestion` is the same provider stream on
its way to the ingestion.

| code | actions |
|---|---|
| decider, pre-send capture and send in `ProviderCommandReactor` | `SendMessage`, `SendTurn`, `SendTurnFails` |
| the provider | `Edit`, `EndTurn`, `AbortTurn` |
| the client and `thread.checkpoint.revert` | `RequestRevert`: on a message whose answer and checkpoint the client has |
| `ProviderRuntimeIngestion` | `IngestTurnStarted`, `IngestTurnEnded`, `CompleteMessage`, `IngestDiff`, `DispatchPlaceholder` |
| `ensurePreTurnBaselineFrom...` | `ProcessMessageSent`, `ProcessTurnStartRequested`, `ProcessTurnStarted` |
| `captureCheckpointFromTurnCompletion` | `ProcessTurnCompleted` (reads), `CaptureCheckpoint`, `DispatchCheckpoint` |
| `handleRevertRequested` | `ProcessRevertRequested` (reads), `RestoreTree`, `RollbackConversation`, `DeleteStaleRefs`, `CompleteRevert` |
| a call in one of them fails | `FailMessageBaseline`, `FailTurnBaseline`, `FailReactor` |

`disturbed` is history: it says whether anything happened that the reactor cannot cope
with.  The code counts turns by the checkpoints there are, so a message sent before
the last turn's checkpoint is dispatched may give two turns one count (`hurried`); the
baseline of count 0 is captured when an event is processed, not when the message
is sent (`late`); an aborted turn is never captured (`missed`); a revert that fails
is not resumed (`torn`); and the tables give a turn that begins the message that waits, of
which they keep one: a message sent before the ingestion has handled the last turn's
`turn.started` becomes that turn's prompt, and a revert to that turn then keeps
the wrong message (`ahead`).  A send that fails leaves its message in the thread without a turn
(`refused`).  That alone disturbs nothing, but a revert that keeps a turn whose prompt stands behind such
a message keeps the wrong one in the read model (`astray`; section 4).
`Restorable` and `CaptureStays` hold through all of these but a torn revert.  `ConversationKept` and
`TreeKept` hold when nothing but `ahead` and `astray` happened, since the reactor asks the provider's events
and the checkpoints, not the messages or the tables; `MessagesAgree` holds when none of them happened.
A queued message appears here with its promotion: that it joined the thread's messages earlier, while
the turn before it ran, is merged with that.

### AssistantStream

`runtime` and `domain` are the worker's two sources; the order between them is free.  A
handler is the sequence `todo` of its dispatches and changes of the caches: the
worker is one fiber, so nothing of *its* state changes between two of them, but the
reactor's `SetStopped` and the provider may come between.  `mode` is
`assistantDeliveryModeRef`, `known` is `turnMessageIdsByTurnKey`, `buffer` is
`bufferedAssistantTextByMessageId`.  Pieces of a text are numbered, so that a
doubled, missing or misplaced piece shows.  An event carries the turn and the item it is about and,
in `named`, whether it says so: a provider may end a turn, or the only live item, without its
id.  The handlers read ids of named events only (`TurnOrActive`, `Resolved`); the invariant
of section 5 also speaks of the others.

| code | actions |
|---|---|
| the provider | `StartTurn`, `Speak`, `EndItem`, `SayAtOnce`, `EndTurn`, `RuntimeError`, `Exit` |
| decider and reactor | `RequestTurn` (with a mode), `SetStopped` |
| `processRuntimeEvent` | `HandleTurnStarted`, `HandleDelta`, `HandleItemCompleted`, `HandleTurnEnded`, `HandleSessionExited`, `HandleRuntimeError` |
| `processDomainEvent` | `ProcessDomainEvent` |
| their dispatches | `Step`, `FailStep` |

`disturbed` says of which turns something happened that the ingestion cannot cope with: a
dispatch failed, the reactor cleared the active turn before the exit was handled, or
another thread changed the mode.  The reactor does so when a user stops the session
and when it binds a new one to the thread after the old one ended; both are `SetStopped`.

### ProviderSessions

A call is a record that says which step it is at and what it read before: the row (`seen`),
the cursor it will write, the context it asked.  `contexts` are the
`CodexSessionContext`s, each with its process; `session` is the manager's map.  Between two
steps of a call anything may happen.

| code | actions |
|---|---|
| a call of the service begins; the idle timer fires | `Begin`, `TimerFires` |
| `getBinding` and what follows it at once | `Read` (`ReadForStart`, `ReadForRequest`, `ReadForIdle`, `ReadForStop`) |
| `startSession` of the manager | `Launch`, then `Resume`, `OpenFresh` or `OpenFails`; `Start` |
| `sendTurn`, `rollbackThread` | `Ask`, `Take`, `Answer` or `AskFails`, `Continue` |
| `upsertSessionBinding`, the row after a stop | `Bind`, `Unbind`, `AccessFails` |
| the process | `NotifyStarted`, `NotifyCompleted`, `Die`, `HearExit` |
| `reconcileRuntimeIdleTimer` | `Reconcile` |
| `runStopAll`, a crash | `EndServer` |

`Answer` and `Continue` are apart because a promise that settles resumes its caller after
the lines that were read with the answer.  `stale` is history: some call wrote the row for a
state that was past, or failed to write a new cursor — a thread whose cursor was cleared,
whose next start cannot write its row and whose process then dies begins another
conversation.

### TerminalSessions

`object` are the session objects ever made; `order` maps each of those in the manager's map to the
ones with a later `updatedAt`, which is all that the eviction's sort tells apart.  A call
holds the lock of its thread from `Submit` to `Return` and is at one of its awaits in
between.  A shell is "live", "dead" (its exit not heard yet) or "gone".  `persist` is, per terminal,
the file, the write that waits for the debounce, the writes queued, and those an eviction
has forgotten.

| code | actions |
|---|---|
| `runWithThreadLock` | `Submit`, `Return` |
| `open` | `BeginOpen`, `Create`; `Attach`; `Wake`; `Renew` |
| `restart`, `clear`, `sleepSession` | `BeginRestart`, `Clear`, `Sleep`, `Persisted` |
| `startSession` | `Spawn`, `SpawnFails` |
| `close` | `BeginClose`, `EndClose` |
| shells, escalation | `Output`, `Die`, `HearExit`, `Escalate` |
| `schedulePersist`, `enqueuePersistWrite` | `QueueWrite`, `EndWrite` |
| end and start of the server | `Crash`, `Restart` |

A close stops each of its sessions while that one is still in the map, which may evict
others (`PushedOut`) although there is room for them a moment later.
`lost` and `harmed` are histories: sessions evicted while a call worked on them, and terminals
whose writes an eviction or a crash cut off.

### ClientReplica

The server's fibers (`Publish`, `Serve`, `ReadSnapshot`, `PushSnapshot`) and the client's event
loop (`Hear`, `Flush`, `Reconcile`, `Route`) with the connection between (`Connect`, `Lose`).  The log is of one
thread: its creation, the letters and the end of a message, activities.  `Coalesced`,
`MergedText`, `Synced` are the functions of the same purpose in router and store, on
texts of letters, so that a merge that loses, doubles or guesses shows.
What the code does event by event (`Coalesced`, `AppliedFirst`) is a recursive function of the events
so far, which proofs can unfold.
`Hear` is a whole handler of the client: JavaScript does not interrupt one.
`ever` and `last` are histories of how a snapshot met the events the client had: `behind` its own contents, in `overlaps`
with accepted events not applied yet, `older` than the newest of them, `turned` before a newer
snapshot, `late` for a subscription that is over; `swallowed` is a last piece taken for a repetition.

## 3. Runs

| run | instance | checks |
|---|---|---|
| `engine_ledger` | a project, a turn in it, the turn's retry; two faults, timeouts anywhere, a crash, a repair | `TypeOK`, `OnceAndWhole`, `DecidedOnce`: commands are atomic, decisions final; `ImplementsLedger`; `PublishedAll`, `ReadModelCurrent`, `HotTablesCurrent`: nothing committed is missed by stream, read model or tables; `RepairKeepsProjects` |
| `engine_exact` | two turns whose events differ in order, two rivals for a project; two faults, a crash, timeouts before the commit only, no repair | `TablesExact`, `ReadModelExact`, `PublishedOnce`: every event exactly once |
| `engine_live` | a project, a command without events, a turn; one fault of six kinds, timeouts, a repair | `Answered`, `Recovers` |
| `turns_safety` | three messages, one steered; three stops, a refused send, a failed promotion | `TypeOK`, `InOnePlace`, `PromotedInOrder`, `SettlesWithProvider` |
| `turns_live` | three messages; a start published twice, a refused send | `StartedOnce`, `QueuedBehindTurnLeaves` |
| `checkpoints_revert` | two turns, one revert, one mishap (a failing call, a refused send, a turn that is interrupted, aborted or fails); messages sent with two events of the last turn still waiting, one of them for the reactor | `Restorable`, `CaptureStays`; `MessagesAgree`, `ConversationKept`, `TreeKept`: a revert keeps the same turns everywhere |
| `terminals` | two terminals of two threads, one with every call; three calls, two shells, one retained session, a crash | `FewRetained`, `NoStrayShell`, `TranscriptKept`, `NoOrphanAfterRestart`, `AttachTypesNothing`, `ComesToRest` |
| `assistant` | two messages of one turn, a second turn, a second thread; two pieces, a buffer of one, a lag of two, a mishap, a fault | `TextInOrder`, `EndedTurnShown`, `CompletedOnce` |
| `sessions` | three calls of the reactor, one of a client, the idle timer; three processes, two conversations, a fault or crash | `NoStrayProcess`, `ConversationKept`, `AtRestStoppable` |
| `replica` | three events of two letters, an end and an activity; connections lost, routes: two together | `NeverStranded`, `TextShown`, `ActsShown`, `NeverTakenBack` |
| `turns_stopped` | two messages, two stops | `StopStops`: refutes what a test says of a stop, below |
| `turns_stranded` | two messages | `QueuedMessageLeaves`: refutes a sentence of the code's own comments, below |

Each property of a passing run is shown to bite: an operator named in a comment
`Mutant:` is the action as a plausible slip would have it, and with it TLC finds the
property violated.

**Bounds.**  `Dispatches` = 3 or 4: one to set the scene, one to be caught halfway and one
that meets what was left behind (a retry, the next event), and a rival.  Commands
have at most two events, enough for "the first was published, the second not", "the
first is filtered, the second not" and both orders.  `MaxFaults`, `MaxCrashes`, `MaxRepairs`:
up to two faults with a crash and a repair, so that a failure hits the handling of
another.  `ReadLimit` = 10 exceeds any log here, as 1000 does for a young database.
`TurnQueue`: three messages make a queue of two behind an open turn, where order shows.
`CheckpointReactor`: two turns are one to keep and one to revert, or one to revert and one
that follows; `MaxBehind` = 2 lets a message be sent while up to two events still wait for the
ingestion, as its own start and end do when no turn begins before the message after it is sent
(`ahead`); `MaxWaiting` = 1 lets one of them wait for the reactor instead, enough to find the
next turn begun.  Two of them waiting for the reactor were checked as well (4.6 million states before sends could fail), and
three messages sent when all before them is processed, the first of them refused.
`TerminalSessions`: with a limit of one retained session every second inactive session meets
the eviction; two shells are one that is stopped and its successor; three calls are two that
overlap on a thread and one elsewhere.  `AssistantStream`: a buffer of one piece spills with the second; a lag of two
lets an end overtake nothing but leaves a delta before it unhandled.
`ProviderSessions`: three starts are a session, its successor and a recovery after both; two
conversations are one kept and one that replaces it.  `ClientReplica`: three events are what a
snapshot has, what waits and what is still to come; two turns are a
connection lost while the thread is hidden, or hidden and shown again.  Larger instances were checked by hand (two
messages in different turns, 8.7 million states; a lag of two for the sessions, 3.7 million; four
events and one turn for the replica, 7.6 million; three shells for the terminals, 0.5 million).  Deadlock is
not checked: when all calls are answered and all messages processed these systems rest.

**What narrower runs leave out.**  `engine_ledger` excludes three second failures —
of the reconciliation's read, of the outcome's read, of the restore — because
there the code has nothing left to do and four of its properties do not hold.  `engine_live`
includes the first two (a timeout and one fault; a restore is only reached by a fault before it, and
that run has one).  That commands stay atomic and decisions final under all three is
proved, for any faults.  `engine_exact` interrupts before the commit only, since an interruption
after it is what the skipped projection and the repeated publication below are about.
The properties of the last four modules name, in history variables, the behaviours in
which they do not hold; `PROJECT.json` lists the main ones as hazards, with their lines.

**Fairness.**  Weak fairness for every fiber that can run: the Effect runtime
schedules them all.  Strong fairness for taking the maintenance lock, a semaphore that
serves its waiters in turn.  None for callers, deadlines, faults, crashes or
restarts.  `TurnQueue` assumes that a turn ends, and that the provider answers.
`TerminalSessions` assumes of Node's event loop that awaited calls of the operating system
end, promises settle, timers fire and exits are announced — not that shells end
or clients call.  `ClientReplica` states what it promises eventually as an invariant of the
states where nothing is under way (`NeverStranded`, `TextShown`, `ActsShown`), which need no
fairness: every behaviour of the instance gets there, as all its counters are bounded.

## 4. Where code and comments disagree

**Stranded message** (run `turns_stranded`, `ProviderCommandReactor.ts:1777`).  The drain
hears of a turn's end before the decider does: a message queued on the old view
arrives after the last drain, and nothing promotes it until another turn ends.

**Stop that does not stop** (run `turns_stopped`, `ProviderCommandReactor.ts:1632`; found when
`SettlesWithProvider` failed on a larger instance).  The `session.exited` of a session that was
stopped and replaced may be ingested after its replacement is bound, and shows that one as stopped until the
ingestion's next update.  A second stop that is processed in this moment skips `stopSession`: when the reactor
is done with it, the provider still has the session, and its turn goes on; the test
`ProviderCommandReactor.test.ts:2852` says that the reactor "reacts to thread.session.stop by stopping
provider session".  The thread itself recovers: the stop sets the session without waiting, and the
`turn.started` that is ingested after it shows the turn again.  Only if that update is in the
engine's queue before the stop's does the thread stay stopped beside a running
turn, which takes three stops in a row (`overtaken`; drop it from `SettlesWithProvider` and `turns_safety` fails).

The following were seen with TLC while modelling; no run is kept for them, and each is easy to see again.

1. **Skipped projection** (`OrchestrationEngine.ts:521`).  A timeout during the deferred
   projection sets no dirty flag; the next event moves the cursor past the one left
   out — what the comment at `:148` says the flag prevents.  In `engine_exact`, let `InterruptAt`
   contain the states after the commit: `TablesExact` fails.
2. **Events published twice** (`:352`).  The same change breaks `PublishedOnce`: the reconciliation
   re-publishes every event since the command's start.
3. **Repair touches chats** (`:303`).  The repair resets seven cursors and keeps the chat
   rows, so the replay appends streamed text a second time; the comment says these
   rows "stay in place".  In `engine_exact`, allow a repair: `TablesExact` fails.
4. **One page** (`OrchestrationEventStore.ts:320`).  `RepairKeepsProjects` fails with `ReadLimit` = 1: a
   repair of a log longer than a page loses the later projects.
5. **Promoted early** (`ProviderCommandReactor.ts:1196`).  Any turn's end promotes, even
   when a message sent directly has opened another turn, which the promotion then
   closes; the comment at `:1189` says "only after the active provider turn settles".
   In `TurnQueue`: `CloseOpenTurn` with `reactor.promoted`.
6. **Capture clobbered** (`ProjectionPipeline.ts:1376`).  A placeholder of the ingestion that was
   decided on before a capture and dispatched after it is kept out of the read model, which
   has a guard, and replaces the capture in the table, which has none.  State `CaptureStays` of
   `table.turns`.
7. **Text lost with its session** (`ProviderRuntimeIngestion.ts:1823`).  The test "flushes
   buffered assistant text before session exit clears turn state" (`ProviderRuntimeIngestion.test.ts:1714`) leaves out
   that a user's stop sets the session to stopped, without an active turn, before the exit is
   handled: then there is no turn to flush.  Drop `SetStopped`'s `disturbed'`: `EndedTurnShown` fails.
8. **Cursor restored** (`ProviderService.ts:723`).  The idle timer's stop writes back the row it
   read; a cursor that was cleared in between ("Forget a stale provider-native resume
   cursor", `provider/Services/ProviderService.ts:116`) is there again.  State that `binding` is not 0
   where an `Unbind` of `stopRuntime` is about to write another cursor: TLC gets there.
9. **Refused message kept** (`projector.ts:95`).  A send that fails (`ProviderCommandReactor.ts:889`, caught at
   `:1156`) leaves its message in the thread.  On `thread.reverted` the read model does not know which message
   began which turn and fills up with the oldest that have none: the refused one stays, the prompt of a
   turn that stays goes.  The tables know the prompts (`ProjectionPipeline.ts:272`) and keep the right one;
   the test "prunes reverted turn messages from in-memory thread snapshot" (`projector.test.ts:660`) has the
   first turn keep its prompt.  With three turns, drop `Astray` from `RequestRevert`: `MessagesAgree` fails.
10. **Text doubled, or cut, at the client** (`ProjectionSnapshotQuery.ts:1526`, `__root.tsx:539`, `store.ts:2649`).
   The comment says the fence "cannot advance past the detail payload"; it does lag behind it, by the slowest
   projector, and events between are applied again.  So are accepted events that wait for the throttle as a
   snapshot arrives.  And a last piece that repeats the text so far is taken for the whole text.  Allow `behind`,
   `overlaps` or `swallowed` in `TextShown`.

## 5. Proofs

For any commands, dispatches, faults, repairs, page length and interruption points
(`EngineAssumption`, `ReadLimitAssumption`: the constants have their types, a page holds at
least one event), `OrchestrationEngineProofs` proves

- `TypeCorrect`: `Spec => []TypeOK`;
- `CommandsOnceAndWhole`: `Spec => []OnceAndWhole`;
- `DecisionsFinal`: `Spec => DecidedOnce`.

All follow from the inductive invariant `IInv` (`Invariance`), which adds to `TypeOK` and
`OnceAndWhole` what they need of the worker:

- `WorkerInv`: a worker that has taken an envelope works for a dispatch, and the events
  it installs are a non-empty interval (else `ProjectInMemory` would not be defined);
- `EnvelopeInv`: the envelope in execution is "in-flight" and unanswered, and any that
  waits as "queued" is unanswered.  That is why the caller's timer and the worker
  never both answer, and why an answer lost with the process is not given again by
  an envelope still marked queued — the queue is gone;
- `DecisionInv`: from the receipt's lookup to the write of a receipt the command has
  none.  That is why `Commit` appends a command for the first time, although the
  lookup was two steps before: nobody else writes receipts while the lock is held.

Each step lemma has one step per action; `OtherSteps` and `StoreSteps` first separate the
actions that touch what an invariant is about.  The values are the work: that the
cursors, tables and read models computed by `Handled`, `CHOOSE` and page arithmetic have
their types rests on the first section of `OrchestrationEngineProofs`.  `Handled` is a recursive
function; its two equations (`HandledSteps`) are proved by induction over a *set* of numbers
(`Induction`), from the well-foundedness of the naturals.

`EngineLedgerProofs` goes on from `IInv`, with one invariant per part, in the order in which
one needs the other: `LockInv` (the outcome lock is held by the worker from the start of an
envelope to its answer, by a catch-up or by a repair, never by two) → `ReplayInv`, `RepairInv`,
`HotInv` (the log does not grow during a replay, so a replay that is through has brought the
cursors it passed to the end of the log, and the rows of a repaired table are all its events) →
`ModelInv`, `PublishedInv` (`worker.start` is the end of the log when the envelope was taken; what
a failed command left behind lies between it and the end, in one page, which is what reconcile
reads) → `CallInv`, `KnownInv` (the decider sees the log itself; a dispatch that is answered
"failed" or "rejected" has no event).  It proves

- `HotTablesStayCurrent`: `HotTablesCurrent`;
- `RepairsKeepProjects`: `RepairKeepsProjects`;
- `ReadModelStaysCurrent`: `ReadModelCurrent`;
- `EveryEventPublished`: `PublishedAll`;
- `LedgerRefinement`: `ImplementsLedger` — every step of the engine is a step of `CommandLedger`
  or leaves `log` and `answer` alone, so timers, retries, faults, catch-ups, repairs and
  crashes cannot be told apart by a caller that knows the ledger.

The second half of `EngineLedgerProofs` proves that nothing is applied twice, although the code checks only cursors:

- `TablesStayExact`: `TablesExact`, from `TableIInv` — a replay and the worker both go on right
  behind the cursor, and the shell table lacks an event only while the worker still has to
  project it, the dirty flag is up, or the server has not started;
- `ReadModelStaysExact`: `ReadModelExact`, and `EachEventPublishedOnce`: `PublishedOnce`, from
  `ModelExactInv` and `AscendingInv` — if nothing fails behind a commit, the page that reconcile
  reads is empty.

These theorems have hypotheses, each a place where the code is exposed; the runs that check
the properties choose `Faults`, `InterruptAt` and `ReadLimit` accordingly:

| hypothesis | needed by | what the code does otherwise |
|---|---|---|
| `RepairsFitPage`: while a repair runs the log fits a page | all of them (of `TablesStayExact` with the next but one) | the rebuild reads one page (`OrchestrationEventStore.ts:320`) and leaves a cursor behind |
| `CommandsFitPage`: the events of one command fit a page | `ReadModelStaysCurrent`, `EveryEventPublished`, `LedgerRefinement` | reconcile reads one page (`OrchestrationEngine.ts:171`) |
| `NoRepairRuns`, `ReplayReachesShell` | `TablesStayExact` | a repair replays messages over their rows; a replay of more than a page ends early |
| `"repairRestore" \notin Faults` | `HotTablesStayCurrent` | a rebuild fails and its backup cannot be restored (`:758`) |
| `"reconcileRead" \notin Faults` | as `CommandsFitPage` | the read model stays behind the log (`:531`) |
| `"outcomeRead" \notin Faults` | `LedgerRefinement` | a committed command is reported as failed (`:133`) |
| no timeout in `install`, `deferred` | `TablesStayExact` | the deferred projection is given up without the dirty flag |
| timeouts in `receipt`, `decide` only | `ReadModelStaysExact`, `EachEventPublishedOnce` | reconcile applies and publishes again what was installed or published |

Each invariant was checked with TLC, on instances as large as those of section 4, before it was
proved.

For any number of calls, processes, conversations, events under way and faults
(`SessionsAssumption`: the bounds are numbers and `Absent` is none),
`ProviderSessionsProofs` proves

- `OneProcess`: `Spec => []NoStrayProcess`,

from `TypeOK` and `OneSession` (`Invariance`): of all contexts ever made exactly the one in the
map is not over.  `NoStrayProcess` alone is not inductive — a context that is over could have
its process back, the map could name one that is — and `OneSession` is kept because a start
closes the registered context in the step in which it registers its own; a failure, an exit
and a stop close whatever is registered *then*, not what the call had started.

It also proves

- `OneConversation`: `Spec => ConversationKept`,

the deepest of these results, since it relates turns that are any number of starts, deaths
and restarts apart.  The invariant `Kept` (`KeptAlways`) says where the conversation of the last
turn is in between: `RowKept` — in the row and in the live session, unless Codex has lost it,
or a start is about to write a newer one down — and `KeptBy` — what each call under way still
knows to be true when it resumes, although others ran: while its process is the live one
the row is as it was read, and what it comes back with is what the session has.  `Apart`
says that no two calls open a conversation in one process.  It holds until a write for a
past state (`stale`), which is the one way to lose a conversation that the code leaves open.
And it proves

- `RestIsStoppable`: `Spec => []AtRestStoppable`,

whose invariant `Rested` follows the row, the status and the timer through the calls at which they
disagree: a call that began after the timer was set leaves it alone (`Late`); between two turns a
session is ready (`Standing`); only a first start runs without a row (`Awaited`); the row has
the session's conversation, or a call is about to write it (`Written`); and the last event
heard arms the timer, or a turn is under way, or a call will replace or stop the session (`Watched`).

For any number of messages, stops, refusals, failed dispatches and redeliveries
(`TurnQueueAssumption`: the bounds are numbers, `NoMessage` is no message), `TurnQueueProofs`
shows

- `TypeCorrect`: `Spec => []TypeOK` (from `Known`: what is on its way,
  queued, in hand or delivered was sent);
- `AtMostOneStart`: `Spec => []StartedOnce` (invariant `OneStart`), if the domain stream brings
  no `thread.turn-queued` twice; starts it may repeat without bound;
- `NothingLost`: `Spec => []InOnePlace` (invariant `InPlace`), if it repeats neither;
- `FirstInFirstOut`: `Spec => []PromotedInOrder` (invariant `Ordered`), whatever it repeats;
- `ThreadSettles`: `Spec => []SettlesWithProvider` (invariant `Settling`), likewise.

The hypotheses are where the code is exposed: a queue event is looked up nowhere
(`ProviderCommandReactor.ts:1186`), and a start that waits twice is in two places.  `OneStart`,
the invariant of the second theorem, orders the places a message goes through — queue
event, queue, drain, start events, worker, provider — and says that it is at one of them
only, except that start events may stay behind, and those are known to be handled.  So the
proof uses the two facts the code relies on: a drain takes from the queue what it puts into
a start, and `handledTurnStartKeys` is filled in the step that begins a start.  `InPlace` adds
the converse, that nothing vanishes: a start event on its way has *not* been handled
(`Unhandled`: event ids grow, and no two messages share one), else the look-up would swallow
a message, and the worker's drain is over before another one starts (`WorkerDrains`), else a
refused send would overwrite the message it holds.  `Ordered` follows a queued message through
its five `Stages` and says that what is further on its way joined the queue earlier, and that
within each stage the order is that of joining.  It needs `OneDrain` — one fiber drains, and
the thread is marked while it does — which is what a stop breaks: `ProviderCommandReactor.ts:1588`
takes the mark from a drain that is running, so that the next one may overtake it.  That was
seen in the attempt to prove the property without an exception (three messages are too few to
show it); the history variable `unmarked` marks these behaviours now.

`Settling` is about the two sessions that nobody compares, the provider's and the one the decider
looks at.  `Follows` says that the events still on their way, applied in order to what the ingestion
has decided, end with the provider's turn.  The ingestion's own condition (`Believes`) does not give
that: it *drops* a `turn.started` or `turn.completed` that does not fit the turn shown, and the reactor
writes to the session too, ahead of events that are still coming.  The invariant holds because that
write always shows no turn (`Vacant`: a session that is shown as stopped or absent has none, and a
stop that asks the provider to stop leaves it without one), and believing in no turn too early is
harmless as long as the provider has none or an event about a turn is still to come.  A stop that
skips the provider finds no turn shown either, and sets the session at once: that can hide a turn only if
the ingestion's update for it was in the engine's queue already, so that the stop's is the next
one after it (`overtaken`).  `Marked`: while a thread is
marked as draining one of the two fibers is between taking the mark and clearing it, or a
promotion was lost.

For any terminals, threads, requests, limits, shells and crashes (`TerminalAssumption`: the
bounds are numbers, the limit at least one, `None` is nothing else), `TerminalSessionsProofs` proves

- `NoShellLeftAlone`: `Spec => []NoStrayShell`;
- `FewStay`: `Spec => []FewRetained`;
- `TranscriptsStay`: `Spec => []TranscriptKept`;
- `NoneSurvives`: `Spec => NoOrphanAfterRestart`;
- `NoMarkFound`: `Spec => AttachTypesNothing`.

One invariant carries them (`IInv`), for they need each other.  A shell is with a session of the map,
or one that was evicted under a call's hands (`lost`), or is being killed.  That stays so only
because whoever replaces a session's shell stopped the former one first, which a call remembers across its
awaits: `Serves` says what a call under way knows — its session is of its terminal, in the map or
evicted, and without a shell until `Spawn`; while it waits for writes its terminals have no
session.  It goes on knowing it because the others of its thread wait: `Queued` (the queue of a lock
holds each call once, and just those under way) and `Exclusive` (who works heads the queue); the
terminals of different threads are different.  `Sorted` (the sessions of the map stand in one line)
bounds what an eviction leaves: were there more than the limit, the oldest of them would have
been evicted (`EvictionSuffices`).  `Agree` says that of a
terminal that was not harmed the writes on their way end with what was seen, and `Tracked` that every
live shell is in the file of pids, which is what a restart kills by.  `Marked` (a mark stands only while its
call starts the shell, under the lock) is all that keeps the server from typing into a running
program.

For any turns, reverts, faults and number of events that a message may overtake
(`CheckpointAssumption`), `CheckpointProofs` proves

- `RestoreFindsRef`: `Spec => []Restorable`;
- `CapturedForGood`: `Spec => CaptureStays`;
- `ConversationAgrees`: `Spec => []ConversationKept`;
- `TreeAgrees`: `Spec => []TreeKept`;
- `ViewsAgree`: `Spec => []MessagesAgree`.

The first two hold in every order of things.  `Captures` says that a captured checkpoint has its ref, and
knows which refs a revert under way will delete: those above the count it goes back to.
`Uncaptured` says that what is being captured was not captured before: the reactor has decided so from the
read model two steps earlier, and only the reactor could have changed it.

The next two are about counts.  The reactor never asks which turn a count stands for: it
takes the next count from the checkpoints there are, and the number of turns to roll back from a
difference of two.  `Ordered`, the invariant of both, says that while nothing disturbs it a
count *is* a place.  `Order`: a turn enters the conversation once (`Fresh`), one turn at a time is between
its message and its checkpoint (`OneTurn`), and a revert has the thread to itself (`Alone`).
`Numbers`: a turn's checkpoint, and the placeholder the ingestion is about to dispatch for it, has the turn's
place in the provider's conversation as its count (`Numbered`, `Follows`), all turns but one in
flight have checkpoints (`Covered`), and the turns a revert will roll back are those above its
target (`Back`).  `Trees`: the ref of count n holds the edits of the first n turns and the tree those of all.
That needs each part of the order: were the next message sent before the last checkpoint, two
turns would have one count; were a baseline saved after its turn has edited, going back to
count 0 would bring that edit back.  Inside a revert the parts hold in turn — the tree is back
while the conversation is not, the conversation while the checkpoints are not — and `Trimmed` marks
the steps where checkpoints stand that have no place any more.  That the greatest count exists
(`MaxCount` is a `CHOOSE`) is proved by well-founded induction on the subsets of a finite set (`GreatestExists`).

The last is about the two projections of `thread.reverted`.  The read model does not know which prompt began
a turn: it keeps the answers of the turns that stay and fills up with the oldest prompts.  The tables keep
the prompts they know to have begun one, then fill up.  They agree if every prompt a table knows is one that the
read model would fill up with, and that is what `SameShown` adds to `Ordered` as long as nothing at all
has been disturbed: the tables' counts are those of the checkpoints and a row's prompt is that of its own
turn (`RowsAgree`), because the prompt that waits is that of the turn that begins (`Begun`: a message
sent before the last turn's beginning was ingested would be given to that turn); and the number of users'
messages up to a turn's prompt is at most the turn's place in the conversation (`Sent`), so that the
prompts of the first n turns are among the first n prompts.  The ranks leave out the messages that were refused:
they belong to no turn (`Apart`) and would be chosen by the read model's fallback when they are among the
oldest, so `Straight` says that no revert that is asked for or under way keeps a prompt
behind one (else `astray`).  That each view
then keeps the first n prompts is a matter of counting (`PromptRetained`); that what is kept are
messages there were, in their order, and none of them further back, is proved of the recursion
in `Selected` by induction on its steps (`SelectedEmbeds`, `EmbeddedRank`).

For any text, any number of events, connections lost and times the thread is hidden or shown
(`ReplicaAssumption`), `ReplicaProofs` proves

- `NobodyStranded`: `Spec => []NeverStranded`;
- `TextIsShown`: `Spec => []TextShown`;
- `ActivitiesAreShown`: `Spec => []ActsShown`;
- `ReadStays`: `Spec => NeverTakenBack`.

A client does not ask again for what it waits for, and asks only when something makes it ask.  So the
invariant has to show, of every state in which the client has no snapshot, the cause of one
(`Fenced`): a request on its way, an answer under way that is not empty (`Coming`), or, if the thread
did not exist when it was asked for, the event that creates it, still to be heard (`Unborn`).  The
last is the delicate one: the creation goes out to the shell's subscribers only, and the client
drops it while it has no rows of the shell.  It holds by the order of things: who subscribes to
the thread has asked for the shell before (`ShellSubscribes`), on one connection requests are
served in order and of what the server still has to serve the thread comes last (`Subscribes`), and
the shell's rows are read and pushed in one step, so that the creation is behind them in the line
(`Creates`).  Then the client asks for the thread, unless it has: and then the answer it awaits
(`Awaits`) was asked for by an event, after the thread was created, and is not empty (`Informed`).  What a
greeting makes void is kept apart by `Greeted`; `Wants` says that the last reconciliation in line is
for what is on screen.

The others say that what is on screen is the thread, and that it only grows.  Their hypotheses exclude
the snapshots that `ever` and `last` tell apart (section 2).  `Faithful`, on top of the invariant above,
names a place in the log for every client: `Newest`, the last event it accepted, by itself or in a
snapshot, and `Reached`, the same less the events that wait for the next flush.  Then

- the client shows the message as it was at `Reached` (`Reads`) and the activities up to it (`Lists`), provided the
  events it accepts follow one another.  What a flush applies is what the log says next, however
  router and store cut it into pieces (`Cuts`, `Spans`, `FlushShows`); that the recursion of
  `Places`, `Coalesced` and `AppliedFirst` computes this is proved by induction on its steps;
- they do follow: every event that is published is one it has, one in its buffer or one on its way
  (`Complete`).  It is so from the moment the server begins to serve the subscription, because the server then
  pushes it every event (`Tuned`) — no request to leave is behind the request for the thread of the present
  subscription (`Leaves`) — and reads the rows only afterwards;
- none of those on their way counts as one it has had: its rows are not above the fence (`Fits`);
- a snapshot that may be applied puts it further or leaves it where it is (`SyncedLater`, `SyncedEarlier`,
  `FencingReads`, `FencingLists`);
- of the log, that the thread is created first and the message ended once, after a piece of it (`Shaped`):
  on this rests when an event without text, the end, is taken for a message that is complete.

`Onward` says of each step what `Reads` says of a state: the message is shown as of one place in the log
before and of the same or a later one after, so that its text only gets longer and its end stays.

About `AssistantStream`, for any threads, turns and messages (infinitely many too) and any bounds,
`AssistantStreamProofs` proves

- `TextStaysInOrder`: `Spec => []TextInOrder`;
- `EndedTurnsAreShown`: `Spec => []EndedTurnShown`;
- `CompletedOnceOnly`: `Spec => []CompletedOnce`.

Nothing in the ingestion checks that a piece is the next one, that a message is complete or that it has not
been completed before; all of this comes from what the provider sends and from the few lines that
decide whom an event is about.  The inductive invariant `IInv` (`Typed` and `Streamed`) says in turn

- of the line of events: those of a turn go from its start to its end, the turns of a thread one after the
  other (`TurnsInLine`), the pieces of an item are numbered in the order in which they were said, and its end,
  which repeats its text, comes last (`ItemsInLine`);
- of the handler under way (`Handling`): text comes first, a flush before its completion, both before the
  message is forgotten; and of the turn: the one the read model calls active, or will once the handler is
  done, is the one whose start is handled and whose end is not (`ActiveIsCurrent`).  So an end without an id
  is given to its own turn;
- of each message of an undisturbed turn: shown, kept and in hand together are a prefix of what was said, and the
  other pieces are on their way (`Heard`); as long as it is not finished, and the handler will not finish it, its
  turn knows it (`Finished`), so that the end of the turn finds it; in streaming mode nothing is kept, but
  for what a flush is about to say;
- of the ends (`AloneAtEnd`): when an item ends without its id, or ends without having been heard of, no other
  item of the turn is live — hence the single id the turn knows is the right one;
- of each message of a turn without an error (`Single`): until its end is handled it is known, so that the end of the item
  resolves to it, completes it and forgets it in one handler; from then on nobody knows it.

A change of mode is the delicate step of `Heard`: it flushes what the active turn of its thread has kept;
any other turn that has kept text is `disturbed`.  An error completes the messages of
its turn before their time, hence `erred` in the hypothesis of `Single`.

Only model-checked: liveness (`Answered`, `Recovers`, `QueuedBehindTurnLeaves` and `ComesToRest`):
fairness and `ENABLED` are out of the prover's reach.  Every other property that a passing
run checks is stated by a theorem above.

## 6. Not modelled

Attachment files (deleted inside a transaction that may still roll back), stream
versions and legacy rows of the event store, the contents of rows, the other
command types; Codex steering, approvals, rollback, edit and resend, subagent threads; the replacement of a live session
when the model or the mode changes, forked threads;
a restart of the reactor, whose queue is lost.  Hazards that no property here covers: a replay or
catch-up of more than one page (`OrchestrationEventStore.ts:320`, `OrchestrationEngine.ts:171`), a background
replay that fails (`:180`), second failures of repair, reconciliation and outcome (`:758`, `:531`, `:133`), a
`thread.turn-queued` published twice (`ProviderCommandReactor.ts:1186`), buffered text and the queue lost with
the process.
In `CheckpointReactor`: steered messages, a queued message before its promotion, diffs, a second thread in the same working tree, the
caps on messages and checkpoints, agents that commit (count 0 falls back to HEAD).
In `AssistantStream`: proposed plans, activities, subagent threads, the choice among several
live messages for an end without an id.  In `ProviderSessions`: adapters other than Codex,
review, steering, compaction, forks, approvals, discovery sessions, imports with a cursor of
their own.  In `TerminalSessions`: input and resizing, the caps on transcripts, flow control,
hooks and polls; the orphan cleanup is that of Linux, which kills only what init has adopted.
In `ClientReplica`: other threads and messages, the rows of the shell, the legacy
stream of clients without subscriptions, a full push queue, reads that fail, a restart of the
server.
SQLite, Effect's runtime and the provider processes are taken to do what they
document.  Components without a module are listed in section 1.

## 7. Plan

Written, in this order: `ProjectionPipeline`, `OrchestrationEngine`, `CommandLedger`,
`TurnQueue`, proofs of the engine's type and safety invariant, `CheckpointReactor`,
`TerminalSessions`, `AssistantStream`, `ProviderSessions`, `ClientReplica`, proofs about
`ProviderSessions`, `TurnQueue`, `TerminalSessions`, `CheckpointReactor`, `ClientReplica` and
`AssistantStream`.  Next:

1. `TurnQueue`: restart of the reactor with its queue lost; `thread.turn.interrupt` aimed at a
   turn; the session of `ProviderSessions` in the place of `connected`.
2. `CheckpointReactor`: `thread.conversation.rollback`, edit and resend; `DrainableWorker`
   (outstanding counter, drain).
3. `ClientReplica`: two threads and a failing read; a restart of the server between two connections.
4. Proofs: exactness of the `turns` table for every fault.
