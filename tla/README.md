# TLA+ models of STRATAGEM

STRATAGEM (`src/`) is a terminal coding agent: a query loop sends a conversation to a
model, executes the tool calls of the answer, and repeats. Several such agents may work
as a *swarm*: they share a task list and mailboxes through the file system. This
directory holds TLA+ models of the parts where order and interleaving decide
correctness, the TLC runs that check them, and proofs for every instance size.

Paths below are relative to `src/src/`.

## 1. Inventory

### Parts, their state, how they interact

| part | state it keeps | operations | interacts with |
|---|---|---|---|
| Query loop (`query.ts`) | messages, the attempt's assistant messages and tool_use blocks, the abort controller | one generator: stream, fall back, abort, drain, recurse | creates one tool executor per attempt, resumes its generators |
| Streaming tool executor (`services/tools/StreamingToolExecutor.ts`) | `tools` with their status, `hasErrored`, `discarded`, a progress promise, the tool use context | `addTool`, `processQueue`, `executeTool`, `getCompletedResults`, `getRemainingResults`, `discard` | started by the loop; starts tool calls; their messages come back as callbacks |
| Tool call pipeline (`services/tools/toolExecution.ts`, `toolHooks.ts`, `toolOrchestration.ts`) | none of its own | permission, hooks, the call | asks the user; aborts the turn on a rejection |
| Swarm task list (`utils/tasks.ts`) | one JSON file per task, `.highwatermark`, the list's lock, a lock per task | create, get, update, delete, list, block, claim (plain and with busy check), reset, unassign | processes meet only in these files |
| Its clients (`hooks/useTasksV2.ts`, `hooks/useTaskListWatcher.ts`, `utils/swarm/inProcessRunner.ts`, `tools/TaskUpdateTool`) | listings, timers | hide timer, look for work and claim, update, shutdown | read first, then call the list |
| Teammate mailbox (`utils/teammateMailbox.ts`, `hooks/useInboxPoller.ts`) | one JSON inbox per agent, a lock | append, read unread, mark read (by index, by predicate, all), clear | written by any agent, polled by its owner |
| Prompt queue and query guard (`utils/QueryGuard.ts`, `queueProcessor.ts`, `messageQueueManager.ts`, `handlePromptSubmit.ts`) | status and generation of the guard; a priority queue | reserve, cancel, start, end, force end; enqueue, drain | the screen's submit and cancel handlers, background notifications |
| Scheduled prompts (`utils/cronTasksLock.ts`, `cronScheduler.ts`) | a lock file with owner and pid; tasks and their next fire | acquire, recover, release; check, fire | several sessions of one project |
| Dream consolidation (`services/autoDream`) | a lock file whose mtime is the last consolidation | acquire, roll back | sessions sharing a memory directory |
| Cockpit key pool (`cockpit/pool.ts`, `interceptor.ts`) | keys with status and cooldown, the active index | choose, rotate, mark exhausted, record usage | every model request |
| Event transports (`cli/transports`) | pending events, in-flight batch, waiters; a pending patch | enqueue, drain, flush, close; merge patches | a remote session server |
| Remote control bridge (`bridge`) | the current transport, the flush gate, credentials and their epoch | initial flush, write, refresh, recover from a 401, tear down | one transport after another; the server, which accepts one epoch |
| Background tasks (`utils/task`, `tasks`) | task records, output files | start, stop, notify once, evict | prompt queue |

The rest (terminal interface, provider adapters, permissions, compaction, session
storage, MCP, LSP, plugins, synchronisation, commands, entry points) is listed in
`PROJECT.json` with the reason it is not modelled.

### What is hard

*Inside a process* JavaScript runs one callback at a time, so what interleaves are the
stretches of code between two `await`s or two `yield`s. In the executor several
`processQueue()` calls are suspended in their loops at once; a cancelled tool is
`completed` while its call runs on; a fallback discards an executor whose calls are in
flight; a generator resumes in the middle of a list that has changed.
*Between processes* everything interleaves at file operations: listings go stale, a
file that is being written reads as empty, a process dies holding a lock.
`PROJECT.json` lists every hazard at its line with the properties that cover it.

### What makes each part correct

- executor: an unsafe tool runs alone; tools start, and context modifiers apply, in the
  order received; each tool is answered, and answered once, and no result passes an
  unfinished unsafe tool; after a cancellation nothing starts; the turn ends.
- task list: ids are never reused; no update undoes another; one claimant per task;
  references agree and do not dangle; every lock is returned on every way out; every
  operation ends, also after crashes.
- mailbox: nothing is lost or marked as read without having been delivered; whatever
  several agents do at a time, and wherever one fails, messages are only appended and never
  become unread.
- guard and queue: one query at a time; a stale `finally` ends nobody else's query;
  no queued prompt is lost, sent twice, or stalls.
- transports: events in order and without a gap whatever is retried, each once unless
  dropped by policy; a stream event before what was written after it; waiters are
  released; a worker's state at the server does not go back and catches up.
- bridge: one open transport at a time, with the newest epoch; messages in order through
  however many transports; the flush gate opens again.
- scheduler lock, dream lock: one live owner; a dead owner is replaced.
- key pool: a healthy key is used when there is one; a key is shut down for a week only
  after a real repetition.

## 2. Modules

| component | modules | abstract specification | proofs |
|---|---|---|---|
| tool execution | `StreamingToolExecutor` (executor, the part of the query loop that drives it, the calls, the user) | | `StreamingToolExecutor_proofs` |
| task list | `TaskList` (files, locks, the agents' operations) | | `TaskList_proofs` |
| prompts | `PromptQueue` (guard, queue, chains of submit and query) | `OneTurn` | `PromptQueue_proofs` |
| events to the server | `EventUploader` (the uploader's methods), `EventTransports` (composes it with the two transports) | `EventChannel` | `EventTransports_proofs` |
| state to the server | `WorkerState` (state uploader, reports, `initialize()`) | `CoalescedRegister` | `WorkerState_proofs` |
| remote control | `RemoteBridge` (bridge, flush gate, transports, epochs) | | `RemoteBridge_proofs` |
| mailboxes | `Mailbox` (inbox file, lock, senders, three kinds of owner) | `Inbox` | `Mailbox_proofs` |

`Selection` is what `filter()` selects from a sequence; `EventUploader`, `PromptQueue` and
`Mailbox` use it, and `Selection_proofs` has the lemmas about it.

Each has an `MC` module with the instances that TLC checks. Where there is an abstract
specification, the detailed one is shown to implement it: the refinement (`Turns`,
`Channel`, `Register`, `Kept`) is a property of the component's run and a theorem.
`RemoteBridge` is built on that: the uploader of each of its transports is a queue that
behaves as `EventChannel` says.

Definitions whose comment says "Mutant" are what a plausible bug would make of the
definition after them. No specification uses them: they serve to show that a property
is sensitive to that bug.

### StreamingToolExecutor

A *block* `t` is a tool_use block of the turn; `of[t]` is the attempt (and executor) it
belongs to. `status[t]` is `TrackedTool.status`; `call[t]` is the tool's generator, kept
apart because it outlives the status when the tool is cancelled. `micro` holds the
suspended scans (`processQueue()` awaiting `executeTool(t)`) and the `finally` reactions
of settled tool promises; `pc` says where the query loop stands and `pos` where
`getCompletedResults()` was left at a `yield`.

| code | model |
|---|---|
| `addTool`, stream loop of `query.ts` | `ReceiveToolUse`, `ReceiveText`, `StreamEnd` |
| `canExecuteTool`, `processQueue` | `CanExecute`, `Picks`, `ProcessQueue`, `Resume` |
| `executeTool`, `collectResults` | `ExecuteTool`, `ToolProgress`, `ToolReturn`, `ToolStopped`, `Answer`, `ToolEnds`, `CancelledLater` |
| `getAbortReason` | `Reason` |
| `getCompletedResults` | `YieldsNext`, `Sweep`, `EndStreamSweep`, `EndSweep` |
| `getRemainingResults` | `Drain`, `MustWait`, `Wake`, `EndTurn` |
| `discard` with a streaming or a model fallback, a failed request | `StreamingFallback`, `ModelFallback`, `ModelError` |
| abort by the user, a rejected permission | `UserAbort`, `ToolReject` |

`Callback` says when the event loop may run an I/O callback: no microtask is pending,
and the query loop is suspended at an await or at a `yield` (its consumer may wait
there). `Await` is the await of the model's stream: `query.ts` reaches its next part only
when the sweep after a part has been taken to its end. A tool kind is a record: is it
known, concurrency safe, the Bash tool, interruptible.

A call answers (`ToolReturn`, `ToolStopped`) before it ends (`ToolEnds`), because
`collectResults()` asks before every update whether the tool is cancelled by now. All the
updates of a call that has returned come out of one array
(`streamedCheckPermissionsAndCallTool()`, `toolExecution.ts:492`), so only microtasks run
between its result and its end: another call's result with a Bash error may come in there,
an abort or a fallback may not. A message of a streamed answer has one tool_use block; that
of a request which was retried without streaming may have several, which are added in one
go (`pc = "add"`). `ModelError` may leave the blocks without results: an error of an image's
size returns before them (`query.ts:1002`).

### TaskList

An agent runs one operation at a time; `pc[p]` is where it stands and `op[p]` which it is.
An action is one file operation: reading a directory, reading one file, truncating
(`writer[t]`: the file reads as empty), writing, unlinking, taking and releasing a lock.
`cur[p]` is the `updateTask()` (or the claim) in progress, `todo[p]` those the operation
still has to make, so `updateTask()`'s check, lock, read, write and unlock are modelled
once and shared by TaskUpdate, `blockTask`, the cascade of `deleteTask`, the claims and
`unassignTeammateTasks`.

| code | model |
|---|---|
| `createTask`, `findHighestTaskId` | `LockList`, `ScanDir`, `ScanMark` (the two reads in either order), `Made`, `Truncate`, `Fill` |
| `readHighWaterMark`, `writeHighWaterMark` | `ScanMark`, `TruncateMark`, `FillMark` |
| `resetTaskList`, `onHideTimerFired` | `HideChecked`, `ScanDir`, `ScanMark`, `Clear` |
| `listTasks`, `getTask` | `ListDir`, `ListRead`, `Readable` |
| `updateTask`, `updateTaskUnsafe` | `Check`, `LockTask`, `LockThrows`, `Read`, `Truncate`, `Fill`, `UnlockTask`, `NextUpdate` |
| `claimTask`, `tryClaimNextTask` | `WorkFound`, `ClaimRead`, `ClaimChecked` |
| `claimTaskWithBusyCheck` | `BusyChecked` |
| `blockTask`, `deleteTask`, `unassignTeammateTasks`, TaskUpdate | `BlockLooked`, `DeleteLooked`, `Unlink`, `DeleteCascade`, `UnassignListed`, `UpdateLooked` |
| a process dies; its lock becomes stale (proper-lockfile) | `Crash`, `GoStale` (external) |

The text fields of a task are left out; they are copied like the others. A `Mortal`
agent may stop at any point and does not come back.

### PromptQueue

A *chain* is one call of `executeUserInput()` (or, `direct`, of `handleIncomingPrompt()`)
and the query it leads to; `at[c]` is the await it stands at. The guard is a status and a
generation; the queue processor's effect is a step of its own that may come between any
two others, and `drawn`/`touched` say whether React has a reason to run it. `dropped` are
the commands that a drain has removed without sending them: `maybe()` swallows an attachment
that throws (`utils/attachments.ts:1006`), as one of a prompt with pasted images may, and
the query loop removes its snapshot all the same.

| code | model |
|---|---|
| `QueryGuard` | `Reserved`, `Released`, `MayStart`, `Ends` |
| `messageQueueManager` | `First`, `Batch`, `Removed`, `Notify`, `TakeBack` |
| `handlePromptSubmit`, `executeUserInput` | `Submit`, `StartInput`, `Processed`, `ProcessedLocally`, `ProcessingFails`, `Close` |
| `useQueueProcessor` | `Effect` |
| `onQuery` and its `finally`, `handleIncomingPrompt` | `OnQuery`, `QueryEnds`, `Return`, `TurnCompleted`, `Incoming`, `PutBack` |
| `onCancel` | `UserCancel` |
| the query loop between two requests | `DrainLook`, `DrainTake`, `SubagentDrains` |
| a local command with a screen of its own | `OpenUI`, `CloseUI` |

### EventUploader, EventTransports

`EventUploader` has an operator for the code between two awaits of each method of
`SerialBatchEventUploader`; `EventTransports` makes actions of them. A POST that fails may
have arrived: its batch goes to `wire` and may reach the server later (`LateArrival`),
which keeps the first copy of every event.

| code | model |
|---|---|
| `enqueue`, back pressure | `Enqueue`, `Blocks`, `Fits`, `Push`, `Await`, `Resume` |
| `drain`, `takeBatch`, the backoff | `Send`, `BatchSizes`, `Done`, `Failed`, `GiveUp`, `Requeue`, `BackoffOver`, `Leave`, `Release` |
| `flush`, `close` | `Flush`, `FlushReturns`, `Close` |
| `HybridTransport` | `WriteStream`, `HybridWrite`, `HybridFlush`, `StreamTimer`, `ShutHybrid`, `CloseHybrid` |
| `postOnce` | `PostSucceeds`, `PostRefused`, `PostFails` |
| `CCRClient`: `writeEvent`, `flush`, `close`, a 409 | `WriteStream`, `CCRWrite`, `CCRWriteOwn`, `CCRFlush`, `FlushUploader`, `CloseCCR`, `Superseded` |

### WorkerState

A patch maps the leaves it sets to the number of the report they come from, so that a merge
shows which report each leaf has. `sendWithRetry()` is `PutArrives`, `PutSucceeds`,
`PutFails`, `SleepEnds`; `coalescePatches()` is `Coalesce`; `reportState()` and
`reportMetadata()` are `MakeReport`; `initialize()` is `Initialize`, `InitArrives`,
`InitSucceeds`, `InitFails`. A PUT that failed or timed out may be lost, have arrived, or be
on its way still (`late`), to arrive whenever it likes (`LateArrives`), also after a newer
one; `setback` are the leaves that got an older value in this way and were not set since.

### RemoteBridge

Transports are numbered in the order of their creation; each has an epoch, the state of its
`CCRClient`, and its uploader's queue. `rec[r]` is where `recoverFromAuthFailure()`
(`"auth"`) and `onRefresh()` (`"refresh"`) stand. `writeBatch()` is one step: it awaits each
`writeEvent()`, but these awaits are microtasks, between which nothing closes the transport.
When a transport closes, the batch in flight, a first part of its queue, may still arrive.

| code | model |
|---|---|
| `wireTransportCallbacks`: connect, initial flush | `OnConnect`, `FlushReturns`, `FlushStale` |
| connection lost, 401 | `OnClose`, `StreamEnds`, `InitFails` |
| `recoverFromAuthFailure`, the refresh timer | `GetToken`, `RefreshTimer`, `MayRefresh`, `Fetch`, `FetchFails`, `RecoveryEnds` |
| `rebuildTransport` | `Rebuild`, `TornMeanwhile`, `Create`, `CloseCurrent` |
| `FlushGate`, `drainFlushGate` | `Gated`, `NoGate`, `Drain` |
| `writeMessages`, `teardown` | `WriteMessages`, `Teardown`, `Archived` |
| the transport of one epoch | `Enqueue`, `Close`, `Superseded`, `Restored`, `Register`, `Rejected` |
| the server | `Arrived`, `Deliver` (external) |

### Mailbox

An action is one file operation. `text` says whether the file is JSON, empty because it was
just truncated, or broken; a reader that finds no JSON takes the inbox for empty, as
`readMailbox()` does. `marking[p]` and `taken[p]` are what an owner's poll has read and is
about to mark and deliver. Up to `MaxFaults` times a lock is not got (`LockFails`), a
`writeFile()` throws before it has opened the file or after it has truncated it
(`WriteFails`), or the process of a sender dies wherever it stands (`Dies`) and leaves its
lock to become stale. `torn` counts how often a file was truncated and then not written.

| code | model |
|---|---|
| `writeToMailbox` | `Begin`, `Create`, `Lock`, `Read`, `NewEntry`, `Truncate`, `Write`, `Unlock`, `LockFails`, `WriteFails` |
| the process of a sender dies; its lock becomes stale (proper-lockfile) | `Dies`, `GoStale` (external) |
| `readMailbox`, `readUnreadMessages` | `ReadMailbox`, `Unread` |
| `markMessageAsReadByIndex`, `markMessagesAsRead` | `Changed`, `Nothing`, `RunnerMarks` |
| `waitForNextPromptOrShutdown` | `RunnerPolls`, `Pick`, `Return` |
| `useInboxPoller` (two polls may overlap) | `ScreenPolls`, `Poll` |
| the loop of print mode | `PrintPolls` |

## 3. Runs

Passing runs:

| run | instance | what it shows |
|---|---|---|
| `tool_executor` | 3 blocks, 1 attempt; exclusive, concurrent Bash and unknown tools | `TypeOK`, `ExclusiveCalls`, `StartInOrder`, `ContextInOrder`, `BarrierOrder`, `AnsweredOnce` |
| `tool_executor_attempts` | 2 blocks, 2 attempts; three kinds of known tools; fair | `ErrorHasCulprit`, `DrainComplete`, `NoCallAfterCancel`, `TurnEnds` |
| `task_list_agents` | 2 agents, one mortal; create, reset, look for work, both claims, update; 2 operations; fair | `TypeOK`, `LockDiscipline`, `NoLostUpdate`, `ClaimExclusive`, `IdsFresh`, `OperationsEnd` |
| `task_list_alone` | 1 agent; all operations but the busy claim; 3 operations | `ReferencesAgree` |
| `prompt_queue` | three sessions of three commands, 2 chains at a time, 1 cancellation, attachments that may fail; fair | `TypeOK`, `NothingLost`, `SentOnce`, `TurnsFollow` (refinement), `NoCommandStalls` |
| `event_transports` | four set-ups of transport, queue and batch size, 3 or 4 calls, 2 failed POSTs; fair | `TypeOK`, `ServerInOrder`, `FlushHonest`, `StreamBeforeWrite`, `UploaderIsChannel` (refinement), `Progress` |
| `worker_state` | two sequences of 8 reports, 3 failed PUTs, each of which may arrive late; fair | `ServerIsRegister` (refinement), `ServerCatchesUp` |
| `remote_bridge` | three sessions: 2 recoveries in a row; history and 2 messages around one; teardown at any point; fair | `TypeOK`, `OneOpen`, `NewestEpoch`, `InOrder`, `GateOpens` |
| `mailbox` | four teams of 1 or 2 senders and each kind of owner, 2 faults (lock not got, failed write, dead sender); fair | `TypeOK`, `NothingLost`, `DeliveredInOrder`, `FileIsInbox` (refinement), `EventuallyDelivered` |

Runs that show a disagreement between the code and what it says (each a shortest
counterexample; details with quotations under `findings` in `PROJECT.json`):

| run | what happens |
|---|---|
| `tool_drain_spins` | an unknown tool behind a running unsafe one makes the drain loop over microtasks for ever |
| `task_list_ids` | a creation beside a deletion gives the id of the deleted task again, which the deletion's comment says it prevents |
| `mailbox_screen` | the poller marks as read a message that arrived after it looked, which nobody delivers |

### Bounds

- `MaxBlocks`: three blocks are needed for one tool between two others (a scan that
  passes over the middle one, a barrier with something on both sides); two show
  everything that is about a pair. `MaxAttempts` 2 has one discarded executor; more
  repeat it, as executors share only the turn.
- `Initial`, `MaxOps`, `MaxId`: two tasks are enough to block one another. Two agents with
  an operation each race for every file and every combination of the two locks, and
  the one that survives a crash of the other goes on over what it left; the theorems cover
  any number of agents and operations. Alone, three operations allow a reset between two
  creations. `MaxId >= Initial + MaxOps`, so ids never run out in these runs.
- `Workloads` and `MaxChains` of `PromptQueue`: a command of every kind, each with those
  it can race with. `Chains` 2 because a guard keeps out a third as it does a second;
  `MaxCancels` 1 is enough for a cancelled chain beside its successor.
- `EventTransports`: a queue of one or two events is full with the second write, so calls
  wait for room; two failures reach `maxConsecutiveFailures` where it is set. No call is
  larger than its queue (the uploader's comment: such a call waits for ever).
- `WorkerState`: eight reports cover every transition of a turn that asks for permission;
  with three failures a patch absorbs another twice and is retried, and up to three old
  PUTs are on their way at a time.
- `RemoteBridge`: three epochs are two recoveries in a row; one message on either side of a
  recovery shows order across transports.
- `Mailbox`: two senders race with each other and with the owner; three messages of
  different kinds show the runner's priorities. Two faults are a write that fails beside a
  lock that is not got, or a second fault while the inbox recovers from the first. An inbox
  that does not exist yet has one sender (see section 5).
- Deadlock is not checked: a turn ends, agents are idle once `MaxOps` operations have
  started, and sessions end. `TurnEnds`, `OperationsEnd`, `NoCommandStalls`, `Progress`,
  `ServerCatchesUp`, `GateOpens` and `EventuallyDelivered` say what deadlock freedom would.
- The kinds of tools of an instance are those that the properties tell apart there; an
  unknown tool is left out of the fair run because it is what `tool_drain_spins` is about.

### Fairness

- Executor: microtasks and the query loop's own steps are weakly fair (the event loop runs
  them to the end). A call in flight that is allowed to call back again and again does
  return (`SF` of `ToolReturn` at a callback), and so does the model's stream: both are I/O
  that the event loop serves when it is idle. If microtasks never cease, `Callback` is
  never enabled and nothing is owed: this is how the spinning drain shows.
- Task list: weak fairness of each live agent's step and of a dead agent's locks becoming
  stale. No fairness is asked of `LockThrows` (the retries running out) nor of crashes.
  An agent that waits for a lock gets it because locks are not taken again and again
  without end (operations are bounded in number).
- Prompts: what a chain awaits ends, the queue processor's effect runs when its inputs
  changed, a screen of a local command is closed. A query that may go on to another request
  again and again (`DrainTake`) does end (`SF` of `QueryEnds`). Nothing is asked of the
  user: neither a submission, nor a cancellation, nor a taking back.
- Transports, worker state and bridge: continuations run, timers fire, and a request is
  answered or times out (every request of this code has a timeout). No request is asked to
  succeed; failures are bounded in number. No fairness for writing, closing, teardown or a
  superseded worker.
- Mailbox: the owner polls for ever (a timer, or a loop with a sleep). This is an assumption:
  the runner's loop ends with the teammate, on an abort or after an approved shutdown
  (`inProcessRunner.ts:704`, `:1048`), so "behind however many shutdown requests" in
  `EventuallyDelivered` is about a teammate that turns them down. File operations end, a dead
  sender's lock becomes stale, and a process that waits for the lock gets it or gives up.
  Sending is not fair.

## 4. Proofs

All theorems hold for every value of the constants that satisfies the `ASSUME`s. Every
invariant, action property and refinement that a run checks is also a theorem; hypotheses
beyond the `ASSUME`s are named below. `Spec` is the specification without fairness in every
case. `TypeCorrect` is proved of all modules with a `TypeOK`: it stands first in most of the
arguments, and in the task list and the prompt queue it is a result of its own (an update
taken from an old listing, merged into a newer file, is still a task).

Executor:

- `ExclusiveAccess`: `ExclusiveCalls`. `canExecuteTool()` sees statuses, not calls, so the
  property is not inductive. The invariant adds that a call in flight of a tool that is
  no longer executing was cancelled, that a cancellation is for ever (abort, error and
  discard are never undone), and hence that no call starts in its executor any more.
- `FirstComeFirstStarted`: `StartInOrder`. Two facts carry it. No suspended scan has a
  queued tool behind it: a scan passes over a queued tool only while an unsafe one
  executes, and then it starts nothing either. And an unsafe tool that has started has only
  finished tools before it.
- `ModifiersInOrder`: `ContextInOrder`, from the second fact: only unsafe tools modify the
  context, so the modifiers applied before belong to earlier tools.
- `NothingAfterCancel`: `NoCallAfterCancel`, an action property, from the executor's reason
  for a cancellation and the signal a call starts with.
- `OneResult`: `AnsweredOnce`. A result that the executor put in the conversation is that
  of a tool whose status is yielded (`SentIsYielded`), a sweep yields only completed tools,
  and yielded is for ever, also for a tool whose call runs on. What is yielded is one result,
  or an "ok" with a sibling error behind it (`Shapes`): between a call's result and its end
  no other reason for a cancellation can come up (`Answering`), since only microtasks run.
- `BarrierKept`: `BarrierOrder`. The invariant follows the suspended sweep: every unsafe tool
  it has passed was yielded, unless an unknown tool behind it was what the sweep yielded
  (`SweptPast`). It needs that the stream is read only between two sweeps (`Awaits`), that
  known tools have a run before a result (`KnownRuns`), and that what was sent was yielded
  (`SentIsYielded`).
- `CulpritKept`: `ErrorHasCulprit`. Only a completed or yielded tool, or one whose call has
  answered, has a result (`Answered`), and no step changes the result of such a tool or adds
  to it when it is an error (`AnswersStay`): a sibling's cancellation, or that of a later
  abort, finds the culprit already answered.
- `NothingUnanswered`: `DrainComplete`. The converse of `SentIsYielded`: what is yielded was
  emitted (`YieldedIsEmitted`), the conversation only grows (`EmittedGrows`), and
  `getRemainingResults()` returns when nothing of its executor is unfinished (`Drained`).

Task list:

- `LockSafety`: `LockDiscipline`. Three inductive parts: types (`TypeInv`); what an operation
  knows where it stands (`CurInv`: an update in progress has a task, `claim` belongs to a
  claim, a creation never stands in another operation's steps); and, per agent, that it
  holds exactly the locks its place calls for (`Agent`). The converse direction, a lock is
  held only by who stands in its section, is what makes the discipline inductive. A step
  leaves the other agents alone (`OthersSteps`), so most steps need one agent's argument.
- `FreshIds`: `IdsFresh`, for instances without "delete" (`NoDeletes`). No id ever issued is
  above both the mark and every file's id (`FileInv`). While a reset rewrites the mark, which
  then reads as 0, the highest file is the witness, and it unlinks files only when the mark
  covers every id (`Resets`); a creation has read a mark and a directory that together cover
  every id, and does not write over an issued one (`Creates`). Both facts are about the
  holder of the list's lock (`Keeper`), so a crash at any point keeps `FileInv`. An update
  that writes an unlinked file again writes an id that was issued (`Holder`).
- `OneClaim`: `ClaimExclusive`, for all kinds of operations. What an agent is about to claim,
  holding the task's lock, is claimable (`Claims`). Only a creation writes a file without its
  lock, and the new task it writes may be claimed (`Blank`).
- `UpdatesKept`: `NoLostUpdate`, unless tasks are deleted beside others being created
  (`Exclusive`). What an agent is about to write is the file with its own fields changed
  (`Merges`); a creation would spoil that, and by `FreshIds` the file it writes is nobody's
  (`Separate`).
- `ReferencesKept`: `ReferencesAgree` for one agent that does not crash, with every kind of
  operation. While an operation that writes several files goes on the references do not
  agree; what does hold at each of its steps is that there is a list `F` in which they agree
  and to which the updates still to be made lead, in whatever order (`Leads`, `Pending`).
  `blockTask()` chooses such an `F` when it has read both tasks (`Blocks`), `deleteTask()`
  when it unlinks the file (`Deleted`); making an update brings the list nearer
  (`OneUpdate`). That the agent is alone is used in `Place` and `Refers`: what it read is
  still so, and a file is there when it is locked.

`NoDeletes` and `Exclusive` are not assumptions the code justifies but the boundary of
what holds: `deleteTask()` moves the mark and unlinks the file without the list's lock.
With both "create" and "delete" among the kinds, TLC finds `IdsFresh` violated with two
agents and two operations (the run `task_list_ids`), and, through an id that was given
twice, `NoLostUpdate` with three agents and three. `ReferencesAgree` fails with two agents
and two `blockTask()` calls: each writes the references that it had read before it took
the lock.

Prompts:

- `OneTurnAtATime`: the prompt queue implements `OneTurn` (`TurnsFollow`). The invariant: the
  one chain whose query is live owns the guard in the state running with its generation
  (`Owned`), every other chain's generation is older or its query is over (`Outdated`), and
  generations are not shared (`Distinct`). That a reservation has no generation, so that
  two chains may process input at once, does no harm to this.
- `CommandsKept`: `NothingLost`. A command is settled, sent, queued, held by a chain, or was
  dropped with a failed attachment (`Accounted`), and a chain holds something only
  during `processUserInput()` (`Waiting`), so that a `finally` has nothing to throw away.
- `NoneTwice`: `SentOnce`, which is about sessions that were not cancelled. Until the first
  cancellation a command is in one place only (`Apart`), what a query loop has looked at but
  not taken is still queued as it was or was taken back (`Seen`), what was sent is nowhere
  else (`Gone`), and what was not submitted is nowhere (`Unknown`).

Transports, worker state, bridge:

- `UploaderImplementsChannel`: the uploader under both transports implements `EventChannel`
  (`UploaderIsChannel`). With the batch under way in front of what is pending, a step
  accepts at the end, settles at the front, or closes. The invariant is that a batch exists
  only while the loop is in a POST, so that a requeued batch returns to where it was.
- `EventsInOrder`: `ServerInOrder`. A message is accepted, buffered, in a caller's hands or
  nowhere, and in one of these only (`Located`). Batch and pending events are a piece of the
  accepted sequence, its end while the uploader is open, and the server has all before it
  (`Lined`). The server's log is the beginning of the sequence, and a POST that may still
  arrive carries a piece of it that starts within the log or just behind it (`Ordered`), so
  that dropping duplicates leaves no gap.
- `FlushIsHonest`: `FlushHonest`. Of a flush that has returned, no event that was due is among
  those waiting, which are the last that were accepted (`Flushed`): neither a requeue nor a
  later call brings one back.
- `StreamsFirst`: `StreamBeforeWrite`. A message is written once (`WrittenOnce`). As long as no
  call had to wait, a stream event is in the buffer or accepted; and before a write that
  follows it is accepted, it is (`Streamed`).
- `ServerHoldsRegister`: the state uploader implements `CoalescedRegister`
  (`ServerIsRegister`), assuming that every session awaits `initialize()`. The invariant cuts
  the reports in three (`Cuts`): the server has the first `s`; what is being sent merges
  those from some `a <= s` up to `b >= s`; what is pending merges the rest. Merging two
  adjacent parts gives a part (`PartsCoalesce`), so a retry that absorbs what is pending
  only moves `b`; and the last report that sets a leaf only grows with the part
  (`LastGrows`), so that no PUT takes the server back but a late one. A late PUT merges the
  reports from some `c <= s` on; what it sets back has the value of some shorter beginning of
  the reports (`Holds`), and the PUTs after it overwrite that or leave it marked.
- `OneTransportOpen`, `OpenIsNewest`: `OneOpen` and `NewestEpoch` of the bridge. Only the
  current transport may be open (`Single`), recoveries exclude one another and are counted
  with the epochs they register (`Counted`), and after teardown only a recovery may hold an
  open transport, which it closes (`Shut`).
- `WrittenOrder`: `InOrder`. Only the last transport may still deliver, and not even that one
  once a recovery has new credentials (`Behind`); the log, the last transport's queue and the
  gate hold, one after the other, rising message numbers (`Sorted`). So whatever a closed
  transport had queued is lost, not late (`Shrinks`). For the history: live messages wait in
  the gate until it is queued (`HistoryFirst`).

Mailboxes:

- `InboxKept`: the inbox file implements `Inbox` (`FileIsInbox`); `RunnerLosesNothing`:
  `NothingLost` for the in-process runner. Both assume that the inbox exists when the
  first message is sent, and say what is left after a write that ended between truncating
  and writing: an empty inbox, which is one again. Only the lock's holder is between
  reading and writing (`Locked`), the file is whole unless that process is just writing it
  (`Whole`), and what a process is about to write is the file with its own change
  (`Prepared`). For the runner: the message a poll holds is the one it marks (`Holds`,
  `Carries`, `MarksOne`), and an append adds its message (`Adds`).
- `InSendingOrder`: `DeliveredInOrder`, with the same assumption and as long as nothing
  fails. The messages of a sender stand in the inbox in the order of their numbers
  (`Numbered`). The runner does not take the first unread message but the first of the
  most urgent kind, so what is read is no beginning of the inbox; per kind it is
  (`ReadFirst`), and what a poll holds comes after what was delivered (`Later`).

Lemmas about the operators stand beside the theorems that need them. Those about a
selection from a sequence (`PickedFrom` of `Selection`, what `filter()` does) are in
`Selection_proofs` and serve three components. An induction over data is not available as
such (the induction theorems take an operator); where one was needed, the least element of
a set of numbers takes its place (`Least`, from the library's `WFMin`).

Only model-checked: the liveness properties `TurnEnds`, `OperationsEnd`, `NoCommandStalls`,
`Progress`, `ServerCatchesUp`, `GateOpens` and `EventuallyDelivered`, as the proof system does
not treat fairness.

## 5. Not modelled, and known divergences

### Left out of the models

- *Executor*: the content of messages, the tool use summaries, hooks that stop the
  continuation. *Query loop*: everything before the request and after the drain.
- *Task list*: text and metadata fields, the agents' status listing, directory creation, and
  file systems on which a read sees half of a write (a file reads as empty or whole).
- *Prompts*: remote mode, the external loading indicator, the input that an immediate command
  hands on, the automatic restore of a prompt that was cancelled at once.
- *Transports*: events that cannot be serialised, delays, merging of text deltas, the
  uploaders of internal and delivery events, the receiving side.
- *Bridge*: the bridge with environments (polling for work, spawning sessions), control
  requests, deduplication of echoes.
- *Mailbox*: marking by predicate, `clearMailbox()` (nobody calls it), the runner's polling
  for permission answers, the protocols inside the text.
- *Whole components*: the scheduler's, the dream's and the computer-use lock, the key pool,
  background tasks, and the rest of `PROJECT.json`'s list: mostly sequential code around
  I/O, protocol clients of servers outside the repository, or string matching.

### Known divergences

Found while modelling. The models contain this behaviour; a property either excludes it
explicitly or is not kept as a run of its own.

In the executor and the query loop:

- a discarded executor's unsafe call runs on beside one of its successor
  (`StreamingToolExecutor.ts:69`); `ExclusiveCalls` is about one executor;
- a block that arrives after the abort never gets a result (`query.ts:873`), a request that
  fails on an image's size leaves blocks without one (`query.ts:1002`), and one that fails
  otherwise answers a block that has its result already (`query.ts:1015`);
- a tool that was answered "ok" is answered again, with a synthetic error, when a sibling's
  Bash error comes between its updates (`StreamingToolExecutor.ts:335`; `thisToolErrored`
  guards errors only). `AnsweredOnce` excepts this pair, and no other;
- a sweep goes past a *queued* unsafe tool when an unknown one behind it can be yielded, and
  while it is suspended there the unsafe tool and a later one may end: the later result
  leaves first (`StreamingToolExecutor.ts:436`). `BarrierOrder` excepts it;
  `ResultsInOrder` of `MCStreamingToolExecutor` does not and fails with four blocks of
  `OrderKinds`.

In the task list:

- a creation concurrent with a deletion reuses the deleted id (`tasks.ts:403`): the run
  `task_list_ids`. The passing run checks `IdsFresh` without deletions;
- the hide timer's reset removes an open task created after its check (`useTasksV2.ts:164`);
  a shutdown puts a completed task back to pending (`tasks.ts:833`);
- a claim with busy check does not read the task again under its own lock (`tasks.ts:677`); a
  listing misses a task while it is being written (`tasks.ts:585`); of two `blockTask()`
  calls on one task one reference is lost (`tasks.ts:474`); an update brings a removed file
  back (`tasks.ts:365`).

In prompts and mailboxes:

- "no concurrent executeUserInput" (`handlePromptSubmit.ts:418`) is not so after a
  cancellation: the cancelled chain's `finally` releases the reservation of the next one. The
  properties show that it leads to neither two turns nor a lost command. After a
  cancellation a command may enter the conversation twice, which `SentOnce` excludes;
- an attachment that throws in the mid-turn drain takes all commands of the snapshot with it:
  `maybe()` returns none and `query.ts:1740` removes what it takes for "actually consumed".
  Comments at `attachments.ts:757` and `:826` know of the danger for other ways to return
  none. `NothingLost` excepts it (`dropped`), and the main loop only: of a subagent's drain,
  and with attachments disabled, where nothing swallows the error, no failure is modelled;
- a prompt that finds the guard taken is put back without its meta messages
  (`REPL.tsx:2915`);
- `writeToMailbox()` creates a missing inbox with a separate write of `[]`
  (`teammateMailbox.ts:150`): of two first senders the slower may empty the file that the
  faster has written to. With `FirstWriters` of `MCMailbox`, `NothingLost` and `FileIsInbox`
  fail;
- a lock that is not got, or a write that throws, is only logged, and the message is dropped
  (`teammateMailbox.ts:184`). A write that throws, or a sender that dies, after `writeFile()`
  has truncated the file empties the inbox (`teammateMailbox.ts:180`, `:320`); `NothingLost`,
  `FileIsInbox` and `EventuallyDelivered` except it. A message that is posted after that may
  even be marked by a poll of the runner that had read the old file, as marking goes by
  index. The death of the owner is not modelled: the inbox then has no reader;
- print mode (`cli/print.ts:2532`) marks all as read as the screen's poller does.

In transports and bridge:

- a `flush()` that waits while its uploader is closed need not return, and a call larger than
  `maxQueueSize` waits for ever (`SerialBatchEventUploader.ts:125`, `:108`);
- a PUT of the worker's state that timed out (`WorkerStateUploader.ts:71`, after the ten
  seconds of `ccrClient.ts:561`) and arrives after a newer one takes the server back in what
  both set, until it is set again. `ServerIsRegister` and `ServerCatchesUp` except those
  leaves (`setback`) and nothing else. POSTs of events do not suffer from it: the server
  keeps the first copy of an event;
- reports made before `initialize()` has ended can be lost: its PUT says 'idle' after theirs,
  and the next report of the same state is taken for a repetition. With `NotWaiting` of
  `MCWorkerState`, `ServerCatchesUp` fails;
- callbacks of a transport that was replaced are not ignored (`remoteBridgeCore.ts:450`); a
  refresh that comes to nothing leaves the flush gate closed when the initial flush ended
  meanwhile, which `GateOpens` excludes; messages written while a 401 is being recovered,
  before the gate is closed, go to a closed uploader (`remoteBridgeCore.ts:483`); and the
  queued messages do not wait in the new uploader behind `initialize()`'s PUT, as the comment
  at `remoteBridgeCore.ts:518` says: the two requests run side by side.

Hazards of components that are not modelled, besides the one listed at
`cronTasksLock.ts:165`: two sessions that reclaim a dead owner's dream lock
(`services/autoDream/consolidationLock.ts:77`), and concurrent requests that mark keys
exhausted (`cockpit/pool.ts:230`, `:251`).

## 6. Plan

1. **Proofs.** What `deleteTask()` still leaves of `IdsFresh` and `NoLostUpdate`: an instance
   whose deletions and creations exclude one another. What the abstract specifications say
   of one another: `EventChannel` as the queue of each of the bridge's transports.
2. **SchedulerLock.** Create-exclusive with recovery, next to the write-then-verify of the
   dream lock, both against one abstract owner.
3. **TaskList, abstractly.** A claim register as an abstract specification, implemented by
   the list under a refinement mapping.
4. **KeyPool.** Rotation and escalation with concurrent requests.
5. Then, as they pay: background task notification, the bridge with environments, session
   storage, the scheduler's fires.

Runs are few on purpose, one for each question: as modules are added, properties of a
component are gathered in one run with the richest instance that finishes.
