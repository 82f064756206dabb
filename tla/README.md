# TLA+ models of the agent kernel

This directory holds TLA+ models of the agent kernel in `src/`: the TypeScript
request manager and gateway under `src/agent-kernel/apps` and the Rust kernel
under `src/kernel-v2`. TLC checks the models on small instances, TLAPS proves
the theorems for every value of the constants. Paths below are relative to
`src/`; `RM` stands for `agent-kernel/apps/request-manager/src`, `K` for
`kernel-v2/src`, `GW` for `agent-kernel/apps/gateway/src`.

    tlc -config RequestManager_pool.cfg MCRequestManager.tla
    tlc -config Services.cfg MCServices.tla
    for m in DataLemmas RequestManagerProofs SettlementProofs KernelStoreProofs \
             PrimePipelineProofs GatewayProofs KernelServiceProofs SkillProofs
    do tlapm $m.tla; done

`PROJECT.json` lists every run with its properties, a mutant of the code for
each property of a passing run, the source lines each definition stands for,
the disagreements between code and documentation that the runs show, the
hazards of the code and the main theorems (section 4 has all of them).

## 1. The system

A request travels through three kinds of processes:

    platform adapters, TUI, CLI
       | HTTP, SSE, webhooks, shared storage (inbox/, outbox/)
    gateway (NestJS) ------------------ scheduler, request queue, executor
       | gRPC SubmitRequest / CancelRequest / RetryRequest / WatchStatus
    request manager (Node.js) --------- priority queue, session queues, pool
       | gRPC ProcessRequest                    | gRPC task stream
    kernel (tokio, Rust): Prime server -> IR executor -> session host
                          -> thread executors -> skills (directory locks)
                          AgentKernel service, capability tokens, LLM router

### 1.1 Request manager (`RM`)

| part | state | operations | hard behaviour | what makes it correct |
|---|---|---|---|---|
| gRPC server `grpc/request-manager.server.ts` | `requestState.requests`, `kernelWorkers` | submit, cancel, retry, watch, task stream | every handler awaits an audit append between two updates | an accepted request is never lost; a cancelled one never runs |
| priority queue `services/priority-queue.service.ts` | five arrays, `maxQueueSize` | enqueue, dequeue, remove, cancel | four callers enqueue, each treats a full queue its own way | bounded; the most urgent, oldest first |
| session affinity `services/session-affinity.service.ts` | `sessionQueues`, `processingSessions` | canProcess, startProcessing, finishProcessing, triggerNext | the decision to wait is taken at submission, the mark is set when a slot is acquired, two awaits later | one request of a session at a time; nobody waits for ever |
| worker pool `services/worker-pool.service.ts` | `activeWorkers`, `activeTasks`, `isRunning` | scheduler loop, acquireSlot, releaseSlot, gracefulShutdown | release happens on five paths (success, failure, exception, task stream, shutdown) | one release per acquire; shutdown waits for running tasks |
| retry handler `services/retry-handler.service.ts` | timers, `task.retryCount` | handleFailure, shouldRetry, scheduleRetry | timers fire into a queue that may be full, or after a cancel | never more than `maxRetries` retries |
| Prime client `grpc/prime-personality.client.ts` | a gRPC channel | executeRequest with a timeout | the timeout does not cancel the call | one execution of a session at a time, failures are reported |
| audit log `services/audit-log.service.ts`, exceptions | a file | append | the suspension points of everything else | (I/O; it is where coroutines interleave) |

### 1.2 Kernel (`K`)

| part | state | operations | hard behaviour | what makes it correct |
|---|---|---|---|---|
| directory locks `coordinator/` | SQLite tables `active_locks`, `lock_queue` | acquire, release, enqueue, cleanup | no transactions, many tasks and processes, timeouts, expiry, restarts | mutual exclusion, FIFO, no deadlock, no lock kept for ever |
| AgentKernel service `server/agent_kernel.rs` | `threads`, `executors` under two RwLocks | create, spawn, control, kill, status, shutdown | a lock dropped between check and insertion, two locks taken in two orders, handlers dropped with their client | at most one executor per thread; calls return |
| thread executor `scheduler/thread_executor.rs` | step number, message history | run, execute_step | events sent to a receiver that may be gone | at most `max_steps` steps, a result or an error event |
| IR executor, session host `executor/`, `session/` | handles of processes and threads | execute_process, collect events | a timeout followed by an untimed wait | a process always ends |
| Prime server `server/prime_personality_server.rs`, `personality/` | none between requests | process_request in three phases | failures of later phases are swallowed | a request that failed is reported as failed |
| thread manager and scheduler skill `scheduler/thread_manager.rs`, `skills/scheduler_skill.rs` (feature `control-plane`, off by default) | a concurrent map of running executors, the history file | spawn, pause, resume, cancel, list | the map is locked for one access only; a task removes whatever handle its thread has | no thread refused for an executor that is gone; lists miss nobody |
| batch, sessions, parallel actions, time budget `scheduler/` | semaphore, results, the thread's log | execute_with_budget, execute_parallel | items end in any order, the budget ends among them, a record fails half-way | answers are true and in order; the log follows the calls |
| thread storage `agent_thread/` | meta.json, the event log, artifacts | append an event, read the log, read-modify-write of meta.json by temp + rename | an event is two writes, all updates share one temporary file, a task is aborted and its write is not | what was recorded is read back; meta.json can always be read |
| processes `session/` | processes and thread summaries, in memory behind one lock and in files | create, add a thread, mark it, load at start | files written in place; a dropped handler gives back the lock while its write goes on | what is listed is what is on disk; what was answered is not lost |
| skill registry, bash and composer skills `coordinator/`, `skills/`, `providers/bash.rs` | directory locks, processes, statistics | execute_skill, execute_with_lock, validate and run a command | timeouts, panics and dropped clients between taking and releasing locks; a lock nobody releases | no command outside its allow-list runs; every call ends |
| capability tokens `auth/` | tracked tokens with atomic counters | issue, verify, check, record, revoke, clean up | check and count are separate atomics, entries are made again by verification | call limits and scopes hold |
| LLM router `llm/` | providers, pending requests | select, submit, wait | a pending entry is never removed | the best enabled provider and a model able to serve |
| block composer `block_composer/`, `skills/composer_skill.rs` | a store of blocks | upsert, remove, compose, generate | the store changes between listing and composing | order and token budget of blocks |
| prompt composer and loader `config/` | caches of compositions and prompts | compose, reload, clear | files edited and caches cleared while prompts are made | no prompt older than the last reload |
| trace log `observability/trace.rs` | index, thread state, files | record, get, statistics | a file rewritten per record, names that collide, a restart | what was recorded is kept |
| parsers, other providers, telemetry, utils | counters, files | | | |

### 1.3 Gateway (`GW`), clients, packages

| part | state | operations | hard behaviour | what makes it correct |
|---|---|---|---|---|
| gateway service and outbox `gateway/`, `core/storage.service.ts` | waiting handlers by request id, inbox and outbox files | waitForResponse, handleResponse, pollOutbox, webhooks | a response races a timeout, two waiters of one id, a restart between file and index | a response reaches whoever waits for it |
| request queue, scheduler `request-queue/`, `scheduler/` | in-memory queue, timers, cron jobs | enqueue, cancel, processQueue, executeTask | an index read before an await and used after it | what is removed is what was processed, and what waits is processed |
| executor, router, IR converter, kernel and MCP clients | sessions of users, active executions | determine a route, execute, cancel, convert | | a user's requests go to the user's sessions |
| SSE, telemetry, raw requests, adapters | subscribers, files | publish | | |
| TUI, CLI, scripts, `packages/`, `skills/local/` | | user interfaces, type definitions, thin wrappers | | |

## 2. Modules

| module | what it is | built on |
|---|---|---|
| `RequestManager` | the request manager, all its parts in one module since they share one event loop and call each other synchronously | |
| `SessionExecutor` | what it promises: an executor that is serial per session and has a retry budget | |
| `MCRequestManager` | values of the constants for TLC | `RequestManager` |
| `RequestManagerProofs` | theorems: types, bounds, slots and sessions; where a request is, retries, cancellation | `RequestManager` |
| `SettlementProofs` | theorems: no request lost, successes kept, sessions triggered, and that the pool implements `SessionExecutor` | `RequestManagerProofs` |
| `DirectoryLock` | the locks of `K/coordinator` | |
| `MCDirectoryLock` | values of the constants for TLC | `DirectoryLock` |
| `EventLog` | the event log of a thread | |
| `ThreadMeta` | the meta.json of a thread and the calls that change it | |
| `ProcessStore` | processes and thread summaries, in memory and on disk | |
| `Stores` | the four models of what the kernel keeps on disk side by side | `DirectoryLock`, `EventLog`, `ThreadMeta`, `ProcessStore` |
| `MCStores` | values of the constants for TLC | `MCDirectoryLock`, `Stores` |
| `KernelStoreProofs` | theorems about the four and about `Stores` | `Stores` |
| `PrimePipeline` | one `ProcessRequest` call through Prime server, IR executor, session host and thread executors | |
| `MCPrimePipeline` | values of the constants for TLC | `PrimePipeline` |
| `PrimePipelineProofs` | theorems | `PrimePipeline` |
| `Gateway` | a chat request through the gateway to its answer in the outbox, and the kernel's skill that posts it | |
| `GatewayQueue` | the gateway's request queue and scheduler | |
| `GatewayProofs` | theorems about both | `Gateway`, `GatewayQueue` |
| `ExecutorRegistry` | the AgentKernel service's tables of threads and executors | |
| `CapabilityTokens` | capability tokens and their call limits | |
| `ThreadManager` | the thread manager and the scheduler skill | |
| `ParallelWork` | batches, parallel sessions, parallel and sequential actions | |
| `TraceLog` | the trace collector | |
| `PromptCache` | the caches of the prompt composer and the prompt loader | |
| `Composer` | block store, composition under a budget, choice of a model | |
| `SkillCalls` | a skill call with its directory locks and its process | |
| `Services` | the ten models from `Gateway` on side by side | the ten |
| `KernelServiceProofs` | theorems about tokens, executors, threads, work, traces and prompts | the six |
| `SkillProofs` | theorems about compositions, the choice of a model and skill calls, and about `Services` | `Services`, `GatewayProofs`, `KernelServiceProofs` |
| `DataLemmas` | lemmas about sequences, loops, ranks and sets of numbers that the proofs share | |
| `MCServices` | values of the constants for TLC | `Services` |

### 2.1 RequestManager

The program is one Node.js process: a coroutine runs alone until it awaits real
I/O. The awaits that suspend are the audit appends, the Prime call and the
timers; an `await` of an already settled promise resumes in the same microtask
drain, before any other callback. One action is the code between two such
suspensions, so the interleavings of the model are those of the event loop:

| code | actions |
|---|---|
| `handleSubmitRequest` | `SubmitReceive` (audit RECEIVED), `SubmitRoute` (`canProcess`, enqueue in one of two queues), `SubmitReply` (register, answer) or `SubmitReject` |
| scheduler loop, `processTask` | `Schedule` (slot test, dequeue, `acquireSlot`), `StartProcessing` (`startProcessing`, call Prime), `PrimeAnswers`, `PrimeFails` (error, timeout, lost connection), `FinishSuccess` |
| `releaseSlot`, `finishProcessing`, `triggerNext` | `ReleaseSlot`, part of every action that releases: the block is synchronous up to the audit of the triggered enqueue, after which `ResumeReleased` goes on; `CatchOverflow` when that enqueue threw |
| `handleFailure`, `scheduleRetry` | `ScheduleRetry`, `GiveUp` after their audits; `TimerFires` |
| `handleCancelRequest`, `handleRetryRequest` | `CancelRequest`, `RetryRequest` |
| task stream | `WorkerConnects` (which takes the whole queue), `TaskComplete`, `WorkerDisconnects` |
| process | `StopRequested` (SIGTERM), `GracefulExit`, `Crash`, `Restart` with empty memory |
| executions at Prime nobody waits for | `OrphanEnds` |

`runs` are the coroutines of the pool. `timers[r]` counts pending retry timers,
`orphans[r]` counts executions at Prime whose client has timed out. Enum values
decoded by the gRPC library are modelled as it decodes them (`enums: String`
gives names, `Decoded`), because the code compares them with numbers.

### 2.2 DirectoryLock

`ExecutionCoordinator.execute_skill` locks the directories that a skill's
parameters name, one after the other, runs the skill, and releases them. A lock
is a row of `active_locks`, a wait is a row of `lock_queue` and a poll. No
statement is inside a transaction and the runtime has several threads (and
several kernels may share the database file), so one action is one SQL
statement together with the code up to the next one:

| code | actions |
|---|---|
| `extract_directories` (sort, dedup), `acquire_directory_locks` | `Missing`, `NextDirectory`, `Proceed` |
| `try_acquire`: four statements | `ReadLocks`, `ReadQueue`, `InsertLock`, `LeaveQueue` |
| `enqueue`: two statements | `ReadPosition`, `Enqueue` |
| a SELECT of the queue fails and is read as an empty one (`.ok()`, `unwrap_or(0)`) | `QueueUnread`, `PositionUnread` |
| another statement fails | `StatementFails`, `ReleaseFails`, `SweepFails` |
| wait loop | `ReadLocks` from "waiting"; `TimeOut` where the loop waits |
| the skill, `release_lock` | `ExecuteSkill`, `ReleaseLock` once per lock |
| `cleanup_expired`: a select, a delete per row | `SelectExpired`, `DeleteExpired` |
| time, cancellation, process death | `Expire`, `Abort`, `Crash` |

Calls may share an executor id (`ExecutorOf`): the actions of a composition have
a fixed one, clients that name no executor have the empty one, and the parallel
actions of a step have their thread's. They share its row in each queue, and the
upsert of one moves the row of another. A call is aborted only at a suspension point it can stay in: while it
waits or while its skill runs. `MayOutlast` lets a lock expire although its call
still runs; it is FALSE in the runs, because nothing is claimed for a skill that
holds a lock longer than the lock's 300 seconds. `MaxFaults` bounds failed
statements, aborts and restarts together. Three variables are history: `ahead`,
the calls that were queued for a directory when a call turned to it; `shared`,
the ids under which a call began while another was under way or had failed; and
`misled`, the calls that go by a failed read of the queue.

### 2.3 PrimePipeline

One call of `process_request` runs its processes one after the other. Each has
one thread, whose executor is a task of its own, and a task that collects the
executor's events. Handler, executor and collector run on different threads of
the runtime and meet in the event channel, in the process manager, in the table
of executors and in the thread's files; one action is the code between two such
meetings:

| code | actions |
|---|---|
| `process_request` (`K/server/prime_personality_server.rs`) | `Receive`, `Generate` or `GenerateFails`, `Respond`, `Send`; `Disconnect` where tonic drops the handler |
| `execute_ir`, `execute_process` (`K/executor/ir_executor.rs`) | `CreateProcess`, `CreateThread`, `SpawnExecutor`, `WaitEnds` (completion, end of the collector, timeout), `JoinCollector`, `ReadResults`; `ExecuteProcessFails` for every `?` |
| `spawn_executor_in_process_with_events` (`K/session/skills.rs`) | `SpawnExecutor`, `InsertHandle`, `MarkThread`; the end of the spawned task is `CleanUp` |
| event collector | `Collect`, `CollectorEnds` when every sender is gone (`SenderAlive`) |
| `ThreadExecutor::run`, `execute_step` | `NextStep`, `StepLimit`, then what the model's answer asks for: `ToolCalls`, `PhaseTransition`, `FinalAnswer`, or `StepFails` |
| one tool call | `CallTool` (event, then log), `ToolReturns` (the event of the result), `RecordResult` (the result on disk) |

The model keeps the events the collector acts on; the others only fill the
channel for a moment. Each session of the model has one request: what requests
of one session share in the kernel is a list that is only read for a prompt.
`MaxFaults` bounds the file accesses that fail; an operation fails with its
first access, except that a result may be recorded and the operation fail
afterwards (`RecordResult`), and likewise a new phase (`PhaseTransition`).

### 2.4 Gateway, GatewayQueue

The gateway is one Node.js process. In `Gateway` an action is the code between
two awaits of file or network I/O or of a timer:

| code | actions |
|---|---|
| `handleChatRequest` with `determineRoute`, `saveRawRequest`, `submitRequest` (`GW/gateway/gateway.service.ts`) | `ChatReceive`, `RecordRaw` or `RecordFails`, `RequestManagerAccepts`, then `SubmitReturns` or `SubmitFails` |
| chat stream, `waitForResponse`, telemetry stream (`sse.controller.ts`) | `WaitForResponse`, part of `SubmitReturns`; `StreamTelemetry`; `WaitTimesOut` after five minutes |
| `send_ir_result` of the kernel (`K/skills/gateway_skill.rs`) | `SendIrResult`, `SendFails`, `SkillTimesOut`: the kernel gives up, the webhook goes on |
| webhook, `saveResponseToOutbox` (`core/storage.service.ts`) | `FileWritten`, `IndexAndAnnounce`, `SaveFails`: file, line of the index, announcement |
| `pollOutbox`, twice a second | `PollReadsIndex`, `PollScans` (which deletes the watch), `PollReadsFile`; `PollReadFails`, whose error is swallowed |
| `getRequestStatus`, `getResponseFromOutbox` | `RequestStatus`, `Lookup`, which change nothing and stand in the properties |
| a death of the process at any point | `Restart`: memory is gone, a file or the last line of the index may be torn (`Broken`) |

A webhook comes up to `MaxSends` times for one request, as the kernel sends one
result for each process. `mixed` and `watched` say for which requests the
telemetry stream shares the handler and the poll looks for an answer.
`unreadable` is a history variable: the requests whose response the poll failed
to read, after it had deleted the watch. `MaxFaults` bounds these reads and the
failing accesses of the webhook, which may leave a torn line of the index.

In `GatewayQueue` everything but timers settles at once; the hundred
milliseconds between the start and the end of a request are what other callbacks
fall into. `work` is the index that `processQueue` holds, `busy` the request it
meant, and `shifted` notes the sessions where a cancellation removed an entry
at or before that index. The app does not load these two modules of the gateway
at this commit; they are modelled as they are.

### 2.5 The kernel's services

All of them run as tasks on several threads; an action is one critical section,
one access of a concurrent map or of a file, or the code between two awaits. A
client that goes away drops its handler at an await (`DropCall`, `DropTrace`,
`CallDropped`), which frees the guards but undoes nothing.

| module | code | actions |
|---|---|---|
| `ExecutorRegistry` | `create_thread` | `CreateThread`, `EnterThread` |
| | `spawn_executor` | `BeginSpawn`, `SpawnChecks`, `CreateFails`, `SpawnTask`, `InsertHandle`, `MarkThread`, `SpawnReturns` |
| | `control_executor`, `kill_executor` | `ControlExecutor`; `KillExecutor`, `KillMarks`, `KillReturns` |
| | `get_system_status`, `shutdown` | `ReadThreads`, `ReadExecutors`; `ShutdownExecutors` |
| `CapabilityTokens` | `issue_token`, `verify_token` | `IssueToken`, `VerifyToken`, both with `MakeEntry` |
| | `check_permission` | `CheckPermission`, then `RecordCall` |
| | `execute_bash` of the composer server | `ExecuteBash`, which asks for no permission |
| | `revoke_token`, `cleanup_expired`, the clock | `RevokeToken`, `CleanupTokens`, `TimePasses` |
| `ThreadManager` | `create_thread`, `spawn_thread` | `StoreThread`, `LogThread`; `SpawnThread`, `StartTask`, `HandOver` |
| | the spawned task | `RunEnds`, `RecordEnd`, `RunFailed`, `LeaveTable` |
| | `pause_thread`, `resume_thread`, `cancel_thread`, lists | `SetState`, `CancelThread`, `ListRunning`, `SkipThread`, `ListHistory`; refusals are `TurnAway` |
| `ParallelWork` | the item tasks of all four | `StartItem` (a permit, then the budget), `EndItem` |
| | gathering | `CollectNext` (one handle after the other), `CollectResults`; `TimeIsUp`, `BudgetExceeded` (what was collected is dropped) |
| | records of actions | `RecordStep` (call, result, artifact), `StepUnrecorded` (the access may have written), `ActionsReturn` |
| `TraceLog` | `record` | `RecordOperation`, `SaveThreadState`, `ThreadStateSaved`, `WriteTrace`, `IndexTrace`, `SaveIndex` |
| | reads, restart | `ReadIndex`, `ReadReturns`; `RestartServer`, `StrayWrite`, `StrayTrace` |
| `PromptCache` | `compose`, `compose_static` | `BeginUse`, `LookUp`, `LoadComposition`, `StoreComposition`, `ReadAssets`, `ReadFails`, `KeepPrompt` |
| | `reload`, `clear_cache`, the loader | `ForgetComposition`, `ForgetPrompt`, `ClearPrompts`, `ClearCompositions`, `ReloadLoader`, `ClearLoader`; `EditFile` |
| `Composer` | the store | `UpsertBlock`, `RemoveBlock`, `ClearAllBlocks` |
| | the skill and the server | `ListBlocks` or `ServeCompose`, `StoreGiven` once per block, `Compose`, `Generate`, `ModelAnswers` |
| | `submit_request`, `wait_for_response` | `SubmitRequest`, `AwaitResponse` |
| `SkillCalls` | `execute_with_lock`, `execute_skill` | `BeginCall`, `OuterTurn`, `NextFolder`, `TryLock`, `TakeLock`, `LockTimesOut`, `ReleaseNext`, `AnswerCall` |
| | skill registry, `BashSkill`, `BashWrapper` | `RejectParameters`, `CallRefused`, `StartCommand`, `CommandEnds`, `CommandTimesOut`, `OutputPanics`, `OrphanCommandEnds` |

Three of these modules have pure functions of the code in them, written as
operators: the choice of blocks under a budget (`Composer!ComposeBlocks`, the
stable sort included), the choice of a provider and of a model
(`SelectProviderAndModel`, `ModelForDifficulty`), and the validation of a
command (`SkillCalls!ValidCommand`). `GenerationFits` compares the first two
with what a caller relies on, stated without the algorithm.

`fs::write` empties a file before it writes, and a write that fails may have got
no further: the files of `TraceLog` are then empty.

Some properties name exceptions. They are history variables that mark what the
code does not promise: `excused` (executors that overlap, were paused or lost
their handle), `raced` (spawns of a thread that overtook each other), `shifted`,
`unreadable`, `shared` and `misled` (see above), `overtaken` (a prompt stored
after its key was forgotten, from files read before), `damaged` (a thread's file
that a failed write emptied, or that a write beside its handler's end changed,
until the next save that succeeds alone; `beside` has the saves that do not).
Section 6 lists what each of them stands for.

### 2.6 EventLog, ThreadMeta, ProcessStore

What the kernel keeps on disk. tokio's file operations run on its blocking pool:
one that was handed over is carried out even when the task that asked for it is
aborted or dropped, and only what comes after the await is not. So an action is
one file operation together with the code up to the next one, and an abort
(`AbortAppend`, `AbortUpdate`, `Desert`) removes the task but not its operation;
a crash of the kernel (`LogCrash`, `MetaCrash`, `StoreCrash`) removes both.

| module | code | actions |
|---|---|---|
| `EventLog` | `append_event` (`K/agent_thread/storage.rs`): open, text, newline, sync | `OpenLog`, `WriteText`, `WriteNewline`, `AppendReturns`; `WriteFails` at any of them |
| | `read_event_log` | `EventsRead`: the lines that hold one event and nothing else |
| `ThreadMeta` | `spawn_executor` and `kill_executor` under the lock of the table of threads, `update_phase` of an executor under no lock | `BeginUpdate`, what they set is `Changed` |
| | `read_meta`, `update_meta` | `ReadMeta`; `OpenTmp` and `WriteTmp` (`fs::write`), `Rename`; `TmpFails` |
| `ProcessStore` | `create_process`, `create_thread_in_process`, the summary of a spawned thread (`K/session/skills.rs`), each under the write lock of the process manager | `CreateProcess`, `AddThread`, `MarkThread` |
| | `Process::create`, `add_thread`, `update_thread_status` (`K/session/process.rs`) | `OpenFile`, `FirstWritten`, `SecondWritten`; `StoreFails`; `LateWritten` for a handler that is gone |
| | `ProcessManager::new`, `Process::load` at a start | `StoreCrash` with `Loaded` |

Contents are abstracted to what makes them readable. A text of the log is the
line it is on; a file called meta.json or meta.json.tmp is its text, the text's
length and the file's size, since a shorter text over a longer one leaves the
end of that one; a file of the process store holds nothing, a text, a
truncated one or a mixture (`rubble`). A file is written under the name it has
when it is written, not when it was opened: `files` has the files, `metaFile`
and `tmpFile` which of them has the name. `overlaps`, `mixed`, `clashes` and
`expected` are history variables: which calls were under way together, which had
the temporary file open together, and the changes that were renamed.

## 3. Runs

| run | instance | what it shows |
|---|---|---|
| `pool` | three requests, two sessions, one retry, two clients that may cancel, SIGTERM | the pool keeps its books (`PoolBooks`: `SlotAccounting` and `SessionMark`), runs a session serially (`SerialCalls`), loses no request, never runs a cancelled request, and implements `SessionExecutor`, which keeps the retry budget and takes no success back |
| `full` | three requests, two sessions, a queue of one entry, a manual retry, a kernel worker, crashes and restarts | every action together: the queue is bounded and no slot leaks (`PoolLimits`) |
| `live` | three requests of one session, one retry, fair event loop | every waiting request has a task that will trigger it, and every accepted request is settled for good |
| `locks` | four parts side by side, see below | locks: nobody who waits is overtaken, except by a call whose own read of the queue failed or over an executor id in use twice; waiting never closes a circle, what a dead call leaves behind is given back; log: a recorded event is read back; meta.json survives its writers; processes: what is listed is what is on disk, and what was answered is not lost |
| `prime` | one request of up to two processes, each with at most one step and one tool call, a channel of one event, a file failure, a disconnect | an executor of an earlier process works on only if its start was reported as an error (`OneProcessAtATime`); the report about a process is final and its two sources agree (`ReportIsFinal`); both writers of the process manager leave the thread's state there (`SummaryIsCurrent`); executors end, and so does a process whose executor was entered in the table while it ran |
| `services` | ten components side by side, see below | an answer reaches whoever waits for it and is found later; the queue loses nothing and starts what waits; one executor works on a thread and every call returns; tokens keep their limits; the thread table, answers, logs, traces, prompts and compositions say what happened; every skill call ends |
| `priority` | violation | a `P4_BACKGROUND` request starts while a `P0_EMERGENCY` one is queued |
| `falsesuccess` | violation | an answer FAILED of Prime makes the request COMPLETED |
| `timeout` | violation | after a client's timeout two executions of one session run at Prime |
| `stranded` | violation | cancelling the task a session waits for leaves the session's other requests queued for ever |
| `hang` | violation | an executor that fails before its handle is inserted leaves the handle behind; the event collector, and the call, wait for ever although the five minutes are over |
| `lockrace` | violation | two calls interleave the statements of `try_acquire` and both hold one directory |

**Bounds.** Three requests of two sessions are the least for which a session
has a running, a waiting and a cancelled request while another session competes
for the single slot; the hazards of the request manager need two coroutines at
most: the one that holds the slot and one that has released it and whose
audit or triggered enqueue is still being written. `MaxRetries` is 1
in `pool` and `live`, so both a retry and an exhausted budget occur. `full`
uses a queue of one entry so that all four enqueuers meet a full queue, and no
automatic retry, to make room for the task stream and manual retries. In the
lock model three calls are the least for a holder, a first and a second waiter,
and two directories the least for a circle; the third call shares the executor
id of the first, so a row of a queue can be moved by another call than its own.

In the pipeline two processes are the least that can overlap, a channel of one
event makes every second send wait, and one failure is enough to separate any
two writes; a tool call and the step limit after it, a phase change and a final
answer all occur within one step. The same properties also hold
with two tool calls per answer (`MaxTools = 2`, 365 850 states), and for one
process with two steps of two tool calls (17 695 states).

**The run `locks`** checks in the same way four modules that share no state, what
the kernel keeps on disk: `Stores` chooses at the start which of them moves.

| part | instance | why it is enough |
|---|---|---|
| `locks` | three calls under two executor ids over two directories (one names them in order, one in reverse, and one, which shares the first one's id, only the first), timeouts, one fault: a failed statement, an abort or a restart | see above |
| `log` | three appends, a failing write, a restart, any of them aborted | one broken off, one that meets it on its line, one that overlaps either |
| `meta` | a handler that spawns, one that kills, an executor, two phases, one length of a text, one failure or restart | two that hold the lock after each other and one that takes none; a text broken off before its end; that a longer text shows behind a shorter one takes two writers of one file, which the property excepts |
| `processes` | one process, two threads, four calls, two of which may lose their caller, a failing write, a restart | a thread added, marked and added beside another, each with a write that goes on when the lock is free; processes share only the lock |

**The run `services`** checks ten modules that share no state. `Services` has
the variables of all of them and a variable `part` that is chosen at the start
and says which module moves; the others stay as they began, in the instance
(`MCSpec`) in one initial state. The reachable
states are thus the disjoint union of those of the ten modules, each explored in
full, and every property holds of the union exactly if it holds of its module.
What the parts have in reach:

| part | instance | why it is enough |
|---|---|---|
| `gateway` | one request, which names no session, two results posted for it, one failing access of a webhook or of the poll, one restart | two webhooks of one request, a waiter, the poll and a restart are the actors of every hazard listed; requests share only the index, whose other lines the poll skips one by one |
| `queue` | three requests of one session, a task that fires twice | one in work, one cancelled before it, one behind |
| `registry` | three calls, three executors, one thread, one failing access | two spawns and a kill, or a spawn, a kill and a status call; threads share only the locks |
| `tokens` | two tokens of one subject (limits one and two, different scopes), two uses, two entries | two uses race for the last call; the second token replaces or twins the first; a verification revives an entry |
| `threads` | three calls, one thread, two tasks | a spawn that overtakes a task which ends, while a list is made |
| `parallel` | four items, two permits, three items with one tool | more items than permits, results in every order |
| `traces` | three records or reads, two with one file name, one failure, two runs | two writers and a reader, before and after a restart |
| `prompts` | two calls, one edit of each file | a use and a reload or a clear around an edit |
| `composer` | two blocks of three possible contents, one composition | blocks that fit, fill and exceed the budget, in every order |
| `skills` | two calls, two directories, four kinds of requests | a call that waits for itself, for the other, or for a lock nobody releases |

**Deadlock** is not checked: requests are finite, and when all of them are
settled (or all calls have ended) the system rightly stops.

**Fairness.** The event loop runs every coroutine whose I/O completed, and
fires every timer: weak fairness of the actions of submissions, coroutines and
timers. Prime answers or the client's timeout fires, so a call ends. Clients
are under no obligation to cancel, retry or stop, and no process has to crash.
In the lock model tokio polls every task, the cleanup task runs every 30
seconds for ever, and the expiry of an abandoned lock is the passing of time;
nobody has to begin, time out or abort. In the pipeline the handler, the
executors and the collectors are tokio tasks, the model and every tool answer or
fail by their own timeouts, and the five minutes pass; no client has to call or
to stay. Nothing forces an executor to end within the five minutes.
In the gateway the poll repeats every half second (`WF` of `Poll`) and file
accesses of a webhook end; nothing is assumed of clients, of the request manager
or of a waiter's five minutes, so `AnswerReaches` does not lean on the timeout.
In the queue the processing of a request ends (`FinishItem`), which the code
simulates by a timer of 100 ms; times that requests are scheduled for need not
come. In the AgentKernel service tokio polls every handler (`CallStep`, one weak
fairness for all steps of a call), no client has to call and no executor to end.
For skill calls it polls every handler and its timers: the lock's and the
command's timeouts fire, but no command has to end and no lock to expire. The
locks there and in the registry are granted in any order, so weak fairness of a
waiting call is what the fair queues of tokio at least give: a lock that stays
free is taken.

## 4. Proofs

`RequestManagerProofs` proves, for any number of requests, sessions, coroutines
and any limits:

| theorem | property | assumptions |
|---|---|---|
| `TypeCorrect` | `TypeOK` | none but those on the constants |
| `QueueBounded` | `QueueBound` | none |
| `NoLeak` | `NoSlotLeak` | none: kernel workers, crashes, restarts and rejections included |
| `LimitsKept` | `PoolLimits`, both of them | none |
| `SlotsAccounted` | `SlotAccounting` | one worker, no task stream, `NoOverflow` |
| `SessionsMarked` | `SessionMark` | the same |
| `CallsSerial` | `SerialCalls` | the same |
| `ExitDrained` | `DrainedExit` | the same |
| `ServedInArrivalOrder` | `ArrivalOrder` (in no run) | none |

*One worker* is what the code hard-codes (`MaxWorkers = 1`), *no task stream*
(`Workers = {}`) says that no kernel worker has connected, and `NoOverflow`
says that the main queue was not full when a release triggered a waiting task.
The first two are about constants; `NoOverflow` is a condition on the behaviour
and stands in the theorems as `Spec /\ []NoOverflow => []P`. Without it the
properties are false (section 6). `SettlementProofs` derives it from a queue
with room for every request.

`ServedInArrivalOrder` is what remains of the run `priority`'s promise, for every
assignment of priorities: no key of `priorityMap` is ever found, all levels are
equal (`HeadIsOldest`), and of all steps only `Schedule` makes an idle coroutine
start (`OnlyScheduleStarts`). TLC checked it with three priorities, a retry and a
manual retry (932 390 states) before it was proved.

The argument of the four theorems with assumptions is one inductive invariant, `OneHolder`: at most
one coroutine is between `acquireSlot` and `releaseSlot`, and counter, map of
active tasks and session marks are exactly what that coroutine makes of them.
None of the four properties is inductive alone: `SessionMark` needs to know that
the task being released is in `activeTasks` (else `finishProcessing` is skipped
and the mark stays), which is `SlotAccounting`; `SlotAccounting` needs that no
two coroutines hold a slot for the same request, which follows only from there
being one holder; and `SerialCalls` follows from the uniqueness of the holder,
which needs the counter to be exact for the scheduler's guard to mean anything.
`NoLeak` is inductive with `TypeOK` alone, since every path decrements at least
as often as a holder leaves.

The second part of `RequestManagerProofs` and `SettlementProofs` go on from there to
the requests themselves. A request travels through five places kept by four services: the
main queue, the queue of its session, a coroutine, a retry timer, a kernel
worker. No service knows what the others have, and the code never compares them.

| theorem | property | assumptions |
|---|---|---|
| `OnePlaceEach` | `Placement` (in no run) | no manual retries |
| `RetriesBounded` | `RetryBudget` | the same |
| `CancelledStaysGone` | `CancelledIsGone` | the same |
| `NothingIsLost` | `NothingLost` | no manual retries, no task stream, room for every request in the main queue |
| `SuccessIsFinal` | `CompletedIsFinal` | the same |
| `PoolIsSound` | `PoolBooks`, `SerialCalls`, `DrainedExit` | the same and one worker |
| `SerialUnlessOutlived` | `SerialExecution` | the same, and that no execution outlives its call (`MayOutlive = FALSE`) and nobody kills the process (`MayCrash = FALSE`) |
| `WaitersAreTriggered` | `WaitersTriggered` | the same, one worker and no cancellations |
| `PoolImplementsExecutor` | `ImplementsExecutor` | room, no manual retries, no task stream, one worker |

`RetryBudget` and `CompletedIsFinal` are in no run of their own: what they say is
part of what `ImplementsExecutor` says of the phases of a request.

`PlaceInv` says that a request is in one of the places at most and there once
(`OnePlace`, `QueuesDistinct`, `OneCoroutine`, `OneTimer`), that only a
submission brings it in (`PlacedWasSubmitted`), that a coroutine about to
schedule a retry has one left (`Budget`), and that a cancelled request is
nowhere (`CancelledNowhere`). No part is inductive without the others: that a
retry is left when the timer is set, an await after it was compared, needs that
no other coroutine or timer of the same request counts meanwhile; and that
`CancelRequest` leaves nothing behind needs that whoever is in the main queue is
in no other place. It holds with any limits, full queues, crashes, restarts and
kernel workers. Manual retries are excluded (`MaxManualRetries = 0`) because
they falsify it: one that arrives while a failed task is being audited makes a
second copy (section 6).

With one place each, a main queue as long as there are requests is never full
for one that is not in it: its entries are distinct (`RoomInQueue`, by the
pigeonhole principle). So no `releaseSlot` overflows, no timer is rejected, and
`RoomInv` is inductive: what a coroutine noted is the answer it got
(`AnswerNoted`), a completed request is nowhere but in the coroutine that
completes it (`CompletedPlace`), and an unsettled one is somewhere
(`UnsettledPlaced`). The first is needed because the coroutine of a request ends
in `handleFailure` without looking at the status it left before its awaits; the
second because every service writes the status without reading it. `Room` is an
assumption about the load: without it a full queue loses requests (section 6).
`SerialUnlessOutlived` is the other side of the run `timeout`, which refutes
`SerialExecution` with `MayOutlive = TRUE`: with a queue that has room no rejection
is unhandled, so the process is never doomed, and a graceful exit finds no call
(`Undisturbed`). What is left are the two causes that the code does nothing about.
A cancellation may leave a session's queue without anybody who triggers it,
hence `Cancellable = {}` in `WaitersAreTriggered` and the run `stranded`.

`PoolImplementsExecutor` states what of this a client can see, as one promise: every
step of the pool is at most one move of one request in `SessionExecutor`, and the
end of the process is its `Forget`. The mapping (`PhaseOf`, `AttemptsOf`) reads
the phase of a request off four services at once; `RunView` and `RestView` state
what it is in a coroutine and elsewhere. The invariant `Standing` closes the gap
between place and status: who is queued is QUEUED or RETRYING, who is at Prime is
PROCESSING, who waits for a timer is FAILED or RETRYING, and of the coroutines
that audit a failure one kind is out of retries and the other had a recoverable
error. With it the case distinction of `PhaseOf` is one of exclusive cases, a
retry that is only decided already counts as waiting, and the attempt that a
coroutine made is taken over by `retryCount` in the moment the timer fires. That
`Start` finds no other request of the session running needs the single holder
(`NobodyElseRuns`, from `OneHolder`); that it is within the budget, `Budget`.

`KernelStoreProofs` proves of the locks, for any number of calls, executors and
directories, with timeouts, aborts, crashes, restarts and skills that outlast
their locks (beyond the types of the constants, only what the table says is
assumed):

| theorem | property |
|---|---|
| `TypeCorrect` | `TypeOK` |
| `NoCircle` | `NoCircularWait` |
| `QueueIsFair` | `NoOvertaking` |
| `LocksExclude` | `MutualExclusion`, if `NoOverwrite` and `NoOutlast` always hold |
| `OnlyRacesOverwrite` | `NoOverwrite`, if `NoRace` always holds |
| `NothingOutlasts` | `NoOutlast`, if `MayOutlast = FALSE` |
| `ExclusionUnlessRaced` | `MutualExclusion`, if `NoRace` always holds and `MayOutlast = FALSE` |
| `AbandonedRowsStay` | a row that is `Abandoned` stays so |
| `AbandonedRowsBlock` | a directory that is `Blocked` stays so, if no read of its queue fails (`[][~Misread]_vars`) |
| `WaitersStarve` | who is `Starved` never runs its skill, if no such read fails |

`NoCircle` is the classical argument that resources taken in one order cannot
deadlock, here of calls whose list of directories is computed as they go. Its
invariant `OrderInv` says that what a call holds is exactly what it has still
to release (`HoldsToRelease`) and lies below its target (`InOrder`): of a group
that waits in a circle, the call with the greatest target waits for nobody in
it. The greatest exists because a finite set of numbers has one
(`GreatestNatural`, by well-founded induction on the naturals).

`NoOvertaking` speaks of the moment in which a call has inserted its lock row.
It excepts a call that went by a failed read of the queue (`misled`) and calls
under an id that was taken over from a call under way or failed (`shared`). For
the others it rests on three facts that only hold together. A waiting row belongs to
the one call of its executor that has begun and not ended well (`SoleCall`,
`RowOwned`), so nobody else can move or delete it; a row that is in the queue has
a smaller position than every row enqueued after it (`QueueOrder`), although the
position is computed in one statement and written in another; and a call that has
read the queue and found itself first stays first, since later rows get greater
positions. A row that came too early, by a failed read or under a shared id,
can disturb only calls that the property excepts (`Orderly`, `Behind`).
`QueueInv` is inductive relative to `OrderInv`.

The run `lockrace` refutes `MutualExclusion`; the next four theorems say that the
race it shows is the only cause inside the code, shared ids included. `Written`
says that from the INSERT to the release the row of a call's directory carries its
executor, `HeldOnce` that no other call goes by that row, also none of the same
id, and `Swept` that a row which the clean-up has selected is expired still and
the same row, since the clean-up deletes with a list it read earlier. They
need two conditions on the behaviour: that no INSERT found a row (`NoOverwrite`),
which holds unless two calls are at once between the SELECT that found the
directory free and their INSERTs (`FreeSeen`, under `NoRace`), and that no lock
expires while its call runs (`NoOutlast`), which is inductive unless a skill
outlasts its lock.

The last three theorems are about something that should not be. A row is changed
only by a call of its executor, and by none when all of them are over (`IsOver`), so
the row of a lost call stays for ever; only a later call under the same id takes it
over. At the head of a queue it refuses everybody: `ReadQueue` lets a call pass
only if the head is its own (`HeadRefuses`), and rows that come later get greater
positions (`BlockedHeadStays`; this is why `Blocked` excludes a call that read its
position before the row came). A failed read of the queue is the one way past it,
hence the condition of the last two. TLC finds such states in the instance of the
run `locks`.

Of the event log, for any number of appends, failing writes, aborts and restarts:

| theorem | property |
|---|---|
| `LogTypeCorrect` | `LogTypeOK` (part of `StoresTypeOK`) |
| `RecordedEventsAreRead` | `EventIsRead` |

`LogIInv` relates a call's stage to its line: one that has its newline lies on
a line before the file's last, so no later text can join it. Two that share a
line are thus a broken-off one and its successor, or two that were under way
together, which `overlaps` has for as long as either may still write.

Of a thread's meta.json, for any number of updates, phases, failures, aborts and
restarts:

| theorem | property |
|---|---|
| `MetaTypeCorrect` | `MetaTypeOK` (part of `StoresTypeOK`) |
| `MetaStaysReadable` | `MetaIsReadable` |
| `LoneUpdatesAreKept` | `UpdatesAreKept` |
| `MetaSurvival` | `MetaSurvives`, both of them |

That the renamed file can be read is not inductive by itself: a file is shared
by whoever opened it, also under an earlier name. `MetaIInv` says that a call that
has opened nothing yet has a file of its own (`FilesFresh`), that calls with an
open file clash by definition (`Overlaps`), and so, without a clash, the one that
has opened the temporary file finds it empty and leaves it whole (`TmpOwned`).
The same argument one level up, for whole updates, gives that each has read the
last renamed text (`InTurn`). That handlers meet only when one of them is gone
is the lock (`LockHeld`): an aborted task gives it back while its write goes on.

Of the processes, for any number of processes, threads and calls:

| theorem | property |
|---|---|
| `StoreTypeCorrect` | `StoreTypeOK` (part of `StoresTypeOK`) |
| `ProcessIndexTrue` | `IndexIsTrue` |
| `NothingGetsLost` | `NothingIsLost` |

`StoreIInv` has that the lock's holder is the one call at work with a caller
(`ManagerHeld`), that names are new until they are written (`NamesFresh`), and
that a known file can be read, is being written, or was disturbed by a write
that was broken off or went on alone (`FilesWhole`). `NothingIsLost` needs all
of it at a restart, when memory becomes what can be read. `IndexKept` states
`IndexIsTrue` for the time between: of a process none of whose calls was
interrupted, memory and files differ only where the holder is writing, its
number of threads counts the summaries (`Cardinality` of a set that grows by
one), and its status is that of its threads from the second write of a mark on.

`PrimePipelineProofs` proves, for any number of requests, processes, steps, tool
calls and failing file accesses and for any capacity of the event channel:

| theorem | property |
|---|---|
| `PipelineTypeCorrect` | `TypeOK` |
| `ProcessesSerial` | `OneProcessAtATime` |
| `SummariesCurrent` | `SummaryIsCurrent` |
| `ReportsFinal` | `ReportIsFinal` |

The types alone are not inductive: that an index of `execute_ir` stays within the
bound needs that there is one result for each process before the current one
(`Numbered`), and that nobody has started anything for a process whose turn has
not come (`NothingEarly`). The handler waits for an executor with a timeout, so
that no two executors of a request are at work rests on the collector, which the
handler joins without one. `ReceiveInv` says that the collector of a running
executor is receiving (`Heard`), that a completion is the last event there is
and ends the collector (`Final`), and what the handler knows after the join
(`Joined`). That a report is final needs more: `Alternate` says that in the log
and the channel, read one after the other, each start of a tool call is followed
by its result; `Counted`, that the successes in log and channel are those in the
thread's files, or one more while the executor is between the two or after it
has failed there. It holds for a process only until its result is pushed, which
takes the log away; from then on nothing writes the thread's files.

`GatewayProofs` proves, for any number of requests, users, sessions, webhook
calls, failing accesses and restarts:

| theorem | property |
|---|---|
| `GatewayTypeCorrect` | `GatewayTypeOK` (part of `TypeOK`) |
| `NobodyIsForgotten` | `NobodyForgotten` |
| `ToldAnswersAreFound` | `AnswerIsFound` |
| `QueueTypeCorrect` | `QueueTypeOK` (part of `TypeOK`) |
| `NoRequestLost` | `NoneLost` |

An id of a request is neither that of a session nor a damaged line, as
`GatewayAssumption` says of the constants. `ToldIndexed` is the order of the
webhook's steps: nobody is told before the index has a line, and a line stays
one, though a crash may damage it. `NobodyForgotten` is inductive beside the
types, once these include that the line which the poll has found is one of a
request and that its file was begun (`PollFound`, `FilesBegun`); that the poll
deletes the watch before it reads is why the response it failed to read is an
exception (`unreadable`). In the request
queue the index that `processQueue` holds across its wait is right as long as no
cancellation has shifted the session's array (`LaneWhole`); what remains after
one has, that the array has nothing twice and that what is processed is in it
(`LaneOK`), is needed because the index of *another* session must not suffer.

`KernelServiceProofs` proves of the tokens, for any tokens, subjects, scopes, limits and
uses (finitely many tokens and uses, as `TokenAssumption` says):

| theorem | property |
|---|---|
| `TokensTypeCorrect` | `TokensTypeOK` (part of `TypeOK`) |
| `TokensWithinLimit` | `CallLimit` |

The limit speaks of a token, the code counts per entry, and between the two a
use may have been given an entry of another token. The invariant `TokensInv`
bridges both gaps. `Counted`: the permitted uses of an entry are no more than
its counter and no more than its token's limit; it is inductive since the count
*before* the increment decides, so a use that is permitted found the counter
below the limit. `Shown`: a use that was verified for a token has an entry of the
same subject made in the same second as one of the token's own entries (from
`Linked`, the map gives a subject its own entries, and `Issued`, a token's own
entry exists); so if the entry is another token's, that token is a twin. Without
a twin the permitted uses of a token are therefore spread over its own entries,
each use numbered within its entry: an injection into entries times limit
(`LimitHolds`).

Of the executors, for any number of threads, executors and calls:

| theorem | property |
|---|---|
| `RegistryTypeCorrect` | `RegistryTypeOK` (part of `TypeOK`) |
| `ExecutorsUnique` | `OneActive` |
| `RunningIsReachable` | `TaskHasHandle` (in no run) |

Between the check of `spawn_executor` and its insertion no lock is held, so the
invariant `SpawnInv` speaks of the calls in between: for a thread that is not
excused one call at most spawns (`OneSpawn`), nothing works on the thread until
that call has started its task (`NothingYet`), and whatever works is in the
table where the next check sees it (`WorkIsSeen`, `OneWorks`, `TaskHasHandle`).
A thread is excused when two spawns of it did overlap, when an executor of it was
paused or cancelled, or when a dropped call took its handle along: these are the
ways in which the code does lose track (section 6), and the theorem says that
there is no other.

Of the traces, for any calls, traces, names of files, runs and
failures of writes:

| theorem | property |
|---|---|
| `TraceTypeCorrect` | `TraceTypeOK` (part of `TypeOK`) |
| `RecordsKept` | `RecordIsKept` |

A save empties the thread's file and writes it anew from memory, so with every
record the file could lose what earlier saves left. The invariant says that an
operation is in memory while its record is under way (`NotedInMemory`), and that a
call which saves holds the mutex and is going to write what memory has
(`SaverLocks`): unless the file is `damaged`, it has every saved operation
(`SavedInFile`). A write that has outlived its dropped handler is known, and the
saves beside it do not end the damage (`StrayKnown`); one that succeeds alone does,
since it brings back from memory what a failed write lost. A trace's own file is
written before the index has the trace (`WrittenIsFiled`) and not afterwards
(`IndexedLast`).

Of the prompts' caches, for any number of calls, types and edits:

| theorem | property |
|---|---|
| `CacheTypeCorrect` | `CacheTypeOK` (part of `TypeOK`) |
| `CachesFresh` | `CacheIsFresh` |

A call reads, waits and stores, and a reload empties two maps one after the
other. The invariant follows a value on its way: a cached composition is not
older than the last clear that has forgotten compositions (`CompositionFresh`),
a part that a call carries to the other map neither (`PartFresh`), nor is what is
stored there (`PromptFresh`); and while a clear is between its two maps, nobody
who read before fills the first one again without being marked (`ClearedStays`).

Of the thread manager, for any number of calls, threads and tasks:

| theorem | property |
|---|---|
| `ManagerTypeCorrect` | `ManagerTypeOK` (part of `TypeOK`) |
| `EntriesAlive` | `EntryIsAlive` |
| `ListsComplete` | `ListMissesNone` |

A task may end before its spawner has entered it, and removes whatever entry its
thread has. For a thread that nothing has raced for, `Undisturbed` says that its
entry is alive, that a spawn of it is the only one and finds no entry, and that
every task of it is in the table or in the hands of that spawn; it needs that a
task belongs to one thread and one spawner (`SpawnersOK`, `TasksOwn`). The threads
that something has raced for are those the property excepts: the theorem says that
there is no other way to a dead entry.

Of work on several items, for any number of items and permits:

| theorem | property |
|---|---|
| `WorkTypeCorrect` | `WorkTypeOK` (part of `TypeOK`) |
| `AnswersWhole` | `AnswerIsWhole` |
| `BatchesFit` | `BatchFitsPermits` (in no run of its own, part of `AnswerIsWhole`) |
| `LogsFollowCalls` | `LogFollowsCalls` |

One counter of accesses, three for each action, stands for the progress of the
records: what the log has is what it counts (`LogCounted`), what is filed under a
tool is the last action with that tool below it (`FiledLast`), and it passes no
action that has not ended (`RecordsFollow`). The tasks end in any order, but the
collector awaits their handles one after the other: `Collecting` says that every
task before the awaited one has ended and that the collector's list has all their
results, in the order asked for. It is the whole when there is no handle left, and
when the time is up first the batch drops it. `BatchServed` says that while a batch
has time no task of it ends, so that each which ever worked still has its permit:
no more of them have results than there are permits, by counting.

`SkillProofs` proves of the composer, for any blocks, any configuration of the router and any
number of compositions (a block's tokens are a number, and no provider is called
"none", as `ComposerAssumption` says):

| theorem | property |
|---|---|
| `ComposerTypeCorrect` | `ComposerTypeOK` (part of `TypeOK`) |
| `GenerationsFit` | `GenerationFits` |

The difficulty is not in the steps but in what `compose_blocks` computes, a sort and
then a loop over its result, for lists of any length. `Sorted` puts an entry where
its rank is, the number of entries that come before it. The order is a strict total
one of the places (`OrderOfPlaces`: by type, priority and place), so no two entries
have one rank (`RanksAreDistinct`, by cardinalities), each rank is some entry's (an
injection of a finite set into one of the same size), and the result has every
entry once and in order (`SortedForm`). The loop is a recursive function; that it
has a value after each round is `LoopExists`. What it has after k rounds is
`Packed`: either it has taken the first k entries whole, and what is left of the
budget is the budget without their tokens (`Whole`), or it has stopped at one of
them, with the part of it that was cut to use up the budget, or without it because
it is too large and 100 tokens or fewer are left (`Stopped`). Every round keeps this
(`PackedNext`), so it holds at the end (`UpTo`), and all that `PromptFits` says of
the made prompt is about a beginning of the sorted entries (`PackedIsBeginning`).
That the loop ends at the first entry that does not fit is essential: going on
with smaller ones would leave out a block before one that is taken. Of the choice of
a model, `ChosenFits` needs that a set of difficulties has a least element above the
one asked for, and else a greatest (`ModelForForm`).

And of skill calls, for any number of calls and directories and any requests:

| theorem | property |
|---|---|
| `SkillTypeCorrect` | `SkillTypeOK` (part of `TypeOK`) |

That a command runs only for a request that the validation lets through needs that a
running command is still its call's (`CommandsAccepted`), although a command may
outlive its call; the statistics are right because a success was recorded before
its call came back, and a call comes back once (`StatsTrue`).

The parts are proved about where the runs check them, too: side by side.

| theorem | in | what it states |
|---|---|---|
| `StoresImplementEach` | `KernelStoreProofs` | a behaviour of `Stores` is one of each store's own specification, with the fairness of the locks |
| `StoresTypeCorrect` | `KernelStoreProofs` | `StoresTypeOK` |
| `StoresKeepPromises` | `KernelStoreProofs` | the six safety properties of the run `locks` |
| `ServicesMoveAlone` | `SkillProofs` | a behaviour of `Services` starts and moves in each component as the component does alone |
| `ServicesTypeCorrect` | `SkillProofs` | `TypeOK` |
| `ServicesKeepPromises` | `SkillProofs` | the twelve safety invariants of the run `services` |

With the frame conditions of `StoresNext` and `Next` each is a composition of the
theorems above. `Services` starts in any initial state of all ten components;
the instance for TLC narrows this to one initial state of those that do not move,
which the theorems do not need.

Every safety invariant that a passing run checks is stated by a theorem.

Only model-checked: all liveness properties
(`LeakedLocksFreed`, `ExecutorsEnd`, `TrackedProcessReturns`, `AnswerReaches`,
`EventuallyProcessed`, `CallsReturn` and `SkillCallsEnd` among them), which are
out of the prover's reach.
`DrainedExit` and `ArrivalOrder` are the other way round: proved, and in no run.
Of the properties that runs refute, `MutualExclusion` and `SerialExecution` are
proved under the conditions named above. The provers cannot
instantiate the library's induction theorems; where a proof needs an induction
over numbers (the greatest target of a circle, the rounds of a loop), it takes the least number that violates the claim (`LeastNatural` of
`DataLemmas`).

## 5. Plan

1. `RequestManager`, `SessionExecutor`, `DirectoryLock`, `EventLog`, `ThreadMeta`,
   `ProcessStore`, `PrimePipeline`: done.
2. `Gateway`, `GatewayQueue`, `ExecutorRegistry`, `CapabilityTokens`,
   `ThreadManager`, `ParallelWork`, `TraceLog`, `PromptCache`, `Composer`,
   `SkillCalls` and the run `services`: done.
3. Proofs: every safety invariant of the runs, of the parts and of `Stores` and
   `Services`, the refinement of `SessionExecutor`, and what holds of the locks and
   of the sessions beside what the runs `lockrace` and `timeout` refute: done.

## 6. Observed, and not the subject of a run

* A kernel worker's `taskComplete` calls `releaseSlot` although it acquired no
  slot: the counter falls below the number of holders, a second task is started
  beside the first, and shutdown returns early. This is why `pool` and the
  theorems on slots and sessions have no task stream.
* A full queue met in `triggerNext` throws out of `releaseSlot` in the success
  path, which the surrounding `catch` treats as a failure of the task: the slot
  is released twice and a finished request becomes FAILED; the request that was
  to be triggered has left its session's queue and is in no queue any more.
* A manual retry that arrives while a failed task is being audited adds an
  execution on top of the automatic retry, beyond the "最多3次" of the README.
* A restart forgets accepted requests; the README speaks of persistence
  (`agent-kernel/apps/request-manager/README.md:12`).
* A request submitted while its session's task is between dequeue and
  `startProcessing` goes to the main queue, and can overtake those that wait.
* The row of a call that was aborted while it waited stays "waiting" at the
  head of its directory's queue; nothing removes it, so nobody gets the
  directory any more (`AbandonedRowsStay`, `AbandonedRowsBlock`, `WaitersStarve`),
  until a call under the same executor id takes the row over or a read of the
  queue fails.
* The queue is called FIFO (`K/coordinator/mod.rs:4`), and is not in two cases.
  Calls under one executor id share a row, which the upsert of the later one moves
  to the end (`K/coordinator/lock_manager.rs:338`): every composition has the id of
  `K/skills/composer_skill.rs:305`, and every client that names no executor the
  empty one (`K/server/agent_kernel.rs:771`). And a SELECT of the queue that fails
  is read as an empty queue (`lock_manager.rs:251`, `:334`), so its call passes
  those who wait.
* A call that holds one directory and waits for another may wait 300 seconds,
  after which its first lock expires although the call lives.
* Nothing sets a thread's status once it is created on this path, so a process
  is "Paused" from the start of its executor on, whatever the outcome;
  `ProcessStatus` Active, Completed and Error (`K/session/process.rs:62`) are
  never reached.
* A process whose executor's start is reported as an error (the summary could
  not be written, `K/session/skills.rs:372`) goes on working beside the next one.
* `send_ir_result` reports "completed" to the gateway even for a request none of
  whose processes succeeded; `ProcessRequest` answers COMPLETED as well.
* `ComposerSkill::execute_with_lock` never releases its lock: a comment
  (`K/skills/composer_skill.rs:272`) says that happens automatically, but there
  is no `Drop`. When the parameters name the locked directory, the skill call
  inside waits for it until its timeout. It has no caller.

Files of threads and processes:

* `append_event` says it writes to a temporary file first
  (`K/agent_thread/storage.rs:124`); it appends the text and the newline
  directly, with two writes. An event whose newline is not written takes the
  next one with it: `read_event_log` skips their common line. `append_events`,
  which writes several with one call and ends without a newline, has no caller.
* Everybody who changes meta.json shares the name meta.json.tmp. A paused
  executor and the next one, or an executor and a handler, may have it open
  together, and what is renamed is then a mixture. `update_phase` takes no lock:
  a status set meanwhile is lost.
* The files of processes and summaries are written in place, unlike meta.json:
  one that was being written when the kernel stopped is left out at the next
  start, and with a process all its threads.
* The OS interface skill has a process manager of its own, on another directory,
  and so lists nothing that the session host keeps.

Gateway:

* A chat stream and a telemetry stream of one request share one handler: the
  chat's waiter loses its answer, and its timer removes the other's handler.
* `getRequestStatus` looks a status name up in a table of numbers: without an
  answer in the outbox it says "not_found" while the request is being processed.
* The poll deletes the watch of a request before it reads the response, and
  swallows an error of that read (`core/storage.service.ts:317`): nobody tells the
  waiter, who runs into its timeout.
* A torn line of the index hides all later lines from `getResponseFromOutbox`.
* `dto.priority || 3` turns an emergency (0) into a background request (3).
* The gateway skill sends `ir.request_id` as the session's id. The service
  always executes skills at level Agent, so no client of the service reaches it.
* A request queue entry cancelled below the index that `processQueue` holds makes
  it remove the entry after the one it processed, which is lost, and leaves the
  processed one behind. A request scheduled for later waits for the next enqueue
  or completion.
* The telemetry filter lower-cases 'GatewayService' and so never matches its own
  default list.

AgentKernel service, tokens, threads:

* `get_system_status` and `kill_executor` take the two locks in opposite orders
  and can block each other for ever, and then every later call.
* Two spawns of one thread that overlap both pass the check. Pausing or
  cancelling changes only the handle, after which another executor may be
  spawned beside the first; a handle stays Running after its task has ended, and
  the thread is refused for ever. A failed write of the metadata makes spawn
  answer an error though the executor runs.
* `verify_token` makes a new entry, with a fresh count, for a token that was
  revoked or replaced. Two tokens of a subject issued in one second share an
  entry. `execute_bash` verifies its token and never calls `check_permission`,
  so its calls are not counted; the server's `revoke_token` passes the token
  where the manager expects the subject.
* A list of threads filtered by "running" is empty, because the status is
  printed "active".

Composition, prompts, traces, skills:

* `TraceCollector::save_index` locks the index and calls
  `get_thread_id_for_trace`, which locks the same mutex
  (`K/observability/trace.rs:336`, `:363`): every record waits for itself for
  ever, so no compose or execute_bash of the composer server answers; the file
  has been truncated before, so the next run starts with an empty index. Names
  of trace files have two varying characters. All files of the collector are
  written in place (`fs::write`, `trace.rs:410`, `:454`), so a write that fails
  loses what the file had; for a thread's file, until the next save.
* `ComposerSkill.compose` stores the blocks it has listed again: one removed or
  changed meanwhile comes back. Blocks of server compositions stay in the store.
* A block is cut at a byte index and a cut inside a character panics; so do the
  artifacts of the IR executor and the output of a command.
* `clear_cache` clears prompts before compositions: a compose between the two
  keeps a prompt of the old composition. `reload` leaves the static prompt.
* The router's `submit_request` leaves its entry pending for ever, and
  `wait_for_response` always fails; the chosen model is not given to the client.
* `BashSkill` sends `head` and `tail` to a mode that does not allow them. A
  command that times out runs on, after its directory lock was released.
* `execute_parallel` with `wait_for_all` off waits for all all the same, where a
  comment says that it waits for the first success
  (`K/scheduler/multi_session_orchestrator.rs:180`). A batch whose budget is over
  logs that it collects partial results and returns none
  (`K/scheduler/batch_task_executor.rs:94`).

## 7. Not modelled

The components with status `not_modelled` in `PROJECT.json`. What they have in
common is that they keep no state which several actors share, or only move text:

* parsers and templates (`K/parser`, `K/scheduler/xml_models.rs`, prompt texts,
  context assembly without a caller), configuration files, the gateway's IR
  converter: functions from text to text without a promise that another part
  relies on beyond the choices modelled in `Composer` and `PrimePipeline`;
* the HTTP clients of the model providers, MCP and search providers, the OS
  interface skill (its create and delete operations answer success and change
  nothing): external services behind one call;
* telemetry, logs, statistics and the audit log's format;
* terminal client, command line tools, scripts, type packages: user interfaces.

Of modelled components these are left out: in the gateway the inbox, the error
log, attachments and queries of history; in the AgentKernel service the calls
that only read, and IR submission, which is `PrimePipeline`'s; in the skills the
text of commands and of their output; of thread storage the snapshots, which
nothing calls; of the request manager the format of audit
entries, statistics and the log. Modules with no caller at this commit, which
are modelled because their interface is public: the request queue and the
scheduler of the gateway, `ParallelActionExecutor`, `MultiSessionOrchestrator`,
`ComposerSkill`; `ConfigManager` (`K/config/dynamic.rs`) is not.
