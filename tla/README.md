# nvent in TLA+

A verification project for `nvent` (nuxt-queue): event-driven flows whose steps
run as queue jobs. Paths are relative to `src/packages/nvent/src/runtime/` unless
they begin with `src/`.

    tlc -workers 2 -config flow_join.cfg MCFlowRun.tla     # any run of PROJECT.json
    tlapm FlowRunProofs.tla                                # the proofs: any *Proofs.tla

## 1. The system

A *flow* has an entry step and further steps, each of which declares the events
it emits and the events (or completed steps) it subscribes to. `startFlow` makes
a *run*: it enqueues the entry's job and publishes `flow.start`. From then on
everything is driven by events on an in-process bus. The *flow wiring* of each
server instance takes the events published on that instance one after the other
(a promise chain per run), appends them to the run's stream, updates the run's
entry in an index, enqueues the steps whose subscriptions are satisfied, decides
after each step whether the run is over, and then publishes `flow.completed` or
`flow.failed`. Around that core: *triggers* start flows when a webhook is called,
a cron time comes or an event is emitted; a *scheduler* keeps timers in the store;
*stores*, *queues* and *streams* are adapters for memory, files, Redis and
Postgres; a *live view* shows browsers what happens; and the *build* scans the
function files, puts the flows together and analyses them.

| Component | State it keeps | Operations | Module |
|---|---|---|---|
| Flow wiring, `events/wiring/flowWiring.ts` | chain per run, terminal-event tracker; shared: stream, index entry, counters | persistence, orchestration, statistics, one branch per event type | `FlowRun` |
| Step triggers and completion analysis, same file | none (pure) | `checkPendingStepTriggers`, `analyzeFlowCompletion` | `FlowGraph` |
| Event bus, `events/eventBus.ts` | listeners | publish | `FlowRun` (`chain`) |
| Job processor, `worker/node/runner.ts` | job in hand | step.started, emits, step.completed, step.retry, step.failed, awaitAfter | `FlowRun` (`jobs`) |
| Time and webhook awaits, `nitro/utils/awaitPatterns/`, `worker/system/awaitHandlers.ts` | scheduled jobs | register, resolve, time out | `FlowRun`, `Recovery` |
| Event and schedule awaits, same directory | subscriptions on the bus, scheduled jobs | register, announce, subscribe, resolve, time out | `Recovery` |
| Await webhook route, `nitro/routes/webhook.await.ts` | request in hand | check the index, resolve | `FlowRun` (`inflight`) |
| `useFlow` and the run routes, `nitro/utils/useFlow.ts` | none | startFlow, cancelFlow; restartFlow, clear-history | `FlowRun`, `Recovery` |
| Stall detector, `events/utils/stallDetector.ts` | a scheduled job per run | schedule, reschedule, markAsStalled; recovery at startup | `FlowRun`, `Recovery` |
| File queue, `adapters/builtin/file-queue.ts` | map of jobs, files, fastq, timers | enqueue, dispatch, retry, delay, cron, cleanup, pause, resume, close, load | `FileQueue` |
| Memory, Redis and Postgres queues | jobs in fastq, BullMQ, pg-boss | enqueue, take, finish, retry, lose a lock, remove, pause | `QueueAdapters` |
| Scheduler, `scheduler/scheduler.ts` | jobs and locks in the store, timers in memory | schedule, unschedule, executeWithLock, poll, recoverJobs, start, stop | `Scheduler` |
| Stores (memory, file, Redis, Postgres) | sorted indexes, streams, key-values | add, update, updateWithRetry, increment, delete; append, read, delete; set, delete, clear, increment; load | `IndexStore`, `StoreData` |
| State of steps and state wiring, `events/wiring/stateWiring.ts` | none of its own | `ctx.state` calls, clear at the end of a run | `StoreData` |
| Triggers, `events/wiring/triggerWiring.ts`, `nitro/utils/useTrigger.ts`, routes | registry in memory, index entry, cron job | register, update, delete, subscribe, fire | `Triggers` |
| Stream adapters, stream wiring, WebSocket peers, live pages | subscriptions, sockets, what a page shows | publish, subscribe, history, reconnect, reduce | `LiveView` |
| Registry, `src/packages/nvent/src/registry/`, `utils/` | the compiled registry | scan, build flows, analyse, refresh in development | `Registry` |
| Options, adapter modules, factory, migrations, startup | registered adapters, schema version, flow index | normalise, register, migrate, enter flows, start wiring | `Startup` |
| Queue pages' WebSocket; Postgres LISTEN gateway; Python worker; presentation | - | - | not modelled (section 6) |

What is hard here: several instances handle events of one run at once while
each is sequential only in itself; every handler reads shared state, awaits, and
acts on what it read; emits, completions and awaitAfter registrations of one
step travel separately; webhook calls race timeouts, cancellations and
completions; stalled runs come back to life; jobs are retried and their ids
forgotten; a server may stop between any two store calls, and what it held in
memory (chains, timers, subscriptions) is gone; locks expire; and four adapters of
one interface differ in what they make atomic, ordered and durable. PROJECT.json
lists each such hazard with the line where it bites and the properties aimed at it.

## 2. The modules

Definitions marked *Faulty* or ending in `Bug` are faulty variants of the definition
after them; put in its place, each must break the property PROJECT.json pairs it
with.

### A run: FlowGraph, FlowRun, FlowContract

**FlowGraph** holds a flow as two functions (`subs`, `emits`) and the two
decisions taken from it: `CanTrigger` and `AnalyzeFlowCompletion` (blocking
failures, critical layers, final failures). Names have already been matched to
emitters and are atoms: the nesting of dotted names in the index
(flowWiring.ts:1497) is abstracted away.

**FlowRun** is one run, end to end. Shared state: `stream`, `entry` (status,
emitted events, `awaitingSteps`), `stats`, `jobs` (by job id), `timers`,
`stallJob`. Per instance: `chain` (published, unhandled events), `pc` and `cur`
(where the current handler stands), `local` (what it read before its last await),
`tracker` (`publishingTerminalEvents`). A handler is cut at its awaits: an action is
what happens between two accesses to shared state.

| Code | Actions |
|---|---|
| processEventSequentially, handlePersistence, handleFlowStats | `Persist`, `OnTerminal`, `ClearTracker`, `EndHandler`, `CountEvent` |
| handleOrchestration | `OnFlowStart`, `OnFlowCancel`+`UnscheduleCanceled`, `OnStepEvent`, `OnEmit`, `OnAwaitRegistered`+`SetAwaiting`, `OnAwaitResolved`, `OnAwaitTimeout` |
| checkAndTriggerPendingSteps | `ReadIndex`, `ReadStream`, `EnqueuePending` for each step, `EndTrigger` |
| completion part of handleOrchestration | `AnalyzeStream`, `DecideStatus`, `WriteStatus` |
| createJobProcessor, ctx.flow.emit | `StartStep`, `EmitEvent`, `CompleteStep`, `FailStep`; `RemoveJob` for removeOnComplete/removeOnFail |
| awaitRegisterHandler with register*Await | `RegisterAwait`, `FinishRegister`: time awaits schedule and then announce, webhooks the other way round |
| resolveTimeAwait, the webhook's timeout | `TimerFires` |
| webhook.await.ts, resolveWebhookAwait | `CheckWebhook`, `ResolveWebhook` |
| startFlow, cancelFlow | `StartFlow`, `PublishStart`; `ReadPreviousStatus`, `PublishCancel` |
| markAsStalled | `StallTimeout`, `MarkStalled` |

Simplifications: the persisted copy of an event goes through the chain again only to be
counted, so it is counted in `Persist`; retries of `updateWithRetry` are one atomic merge
(`IndexStore` shows that updates do not overwrite each other; after three conflicts it
throws, which is left out); user hooks change nothing. The fallback that looks for an
`await.resolved` with a top-level `position` (flowWiring.ts:174) never finds one, because
the position is persisted inside `data`, and so it is absent from `IsDependencyAwaiting`.

An assumption on users' handlers: only the steps in `Silent` may return without having
emitted every event they declare. The code asks it of nobody (runner.ts:382 publishes
step.completed whenever the handler returns), and NoLimbo and RunEnds fail without it:
a step that subscribes to an event nobody emits never starts, and the analysis waits
for it. The safety properties of flow_awaits do without, in the run and in the proofs.

**FlowContract** is the abstract specification: sets of steps that began,
finished, failed, timed out; events emitted; awaits resolved; verdicts. It
promises that a step begins only when `Ready` and past its awaitBefore, that only
a begun step emits and finishes, and that a verdict is justified.
`FlowRun!Contract` instantiates it with what can be read off the stream;
`ContractSpec` is checked by flow_awaits and proved.

### Runs over restarts: Recovery

The runs of a flow of an entry and one step behind an awaitBefore, over stops of the
server. The store, the queue and the scheduler's jobs outlive a stop; the chain,
armed timers, bus subscriptions and calls under way do not. An event is persisted
in one step and orchestrated in the next, so that a stop falls between the two.

| Code | Actions |
|---|---|
| startFlow, cancelFlow, restartFlow, clear-history.delete.ts | `StartFlow`, `CancelFlow`, `RestartFlow`, `ClearHistory` |
| job processor, time/event/scheduleAwait.ts | `StartStep`, `CompleteStep`; `ScheduleWait`, `AnnounceWait`, `SubscribeWait`, `ScheduleTimeout` |
| the bus with a matching event, resolveEventAwait | `EventArrives`, `ResolveEventAwait` |
| scheduler timers, markAsStalled | `WaitFires`, `StallFires`, `MarkAsStalled`, `FinishJob`, `Elapse` |
| flow wiring | `Persist`, `OnFlowStart`, `OnFlowCancel`, `OnTerminal`, `UnscheduleStall`, `OnStarted`, `OnFinished`, `OnAwaitRegistered`, `OnAwaitResolved`, `OnAwaitTimeout` |
| scheduler recovery, runStartupRecovery, validateFlowStats | `Boot`, `ReadRuns`, `RecoverRun`, `ValidateStats` |
| the process stops | `Crash` |

A deadline has passed or not (`due`); that it passes while the server is down is what
`Boot` finds. A stop falls between the persistence of an event and its orchestration,
and between the unscheduling and the scheduling of a stall timeout (`extending`); the
other calls of one handler are one step: the enqueue, the index update and the
publication of `OnFinished`, and markAsStalled's index update and stream appends, on
whose gap no property depends. clear-history is one step; the resolve and timeout hooks
of users do nothing.

### Timers: Scheduler

One job of the scheduler on the instances that share a store: its entry, the
key-value lock (scheduler/index.ts never enables index locking), the timers and
configurations each instance holds, and calls cut at their awaits.

| Code | Actions |
|---|---|
| schedule | `Schedule`, `PersistJob`, `ArmJob` |
| executeWithLock, acquireLock, executeJob, releaseLock | `Fire`, `GetLock`, `DeleteExpired`, `SetLock`, `ExecuteJob`, `ReleaseLock` |
| unschedule | `Unschedule`, `DeleteJob`, `ReleaseUnscheduled` |
| the poll, recoverJobs, recoverJob | `ReadJobs`, `RecoverJob`, `EndOverdue` |
| start, stop, end of the process | `Start`, `Stop`, `Exit`, `Crash` |
| time | `BecomeDue`, `Expire` |

### Queues: FileQueue, QueueAdapters

**FileQueue** is one queue of the file adapter: map, files, fastq's tasks, the
dispatchers (`slots`), retry timers, delayed jobs and one cron schedule. Each file
write lags behind the map; a crash during it leaves the old file, the new one, or a
torn one (`Leftover`), and `Restart` loads what `loadJobsFromDisk` would, including
the loop that a torn file ends.

| Code | Actions |
|---|---|
| enqueue | `Enqueue`, `FinishEnqueue` |
| dispatcher, updateJobState, retries | `StartTask`, `CallHandler`, `HandlerReturns`, `HandlerAwaits`, `HandlerThrows`, `ScheduleRetry`, `RetryTimer` |
| cleanupCompletedJobs, cleanupFailedJobs | `FinishJob`, `Unlink` |
| schedule with a delay | `Delay`, `StartDelay`, `DelayEnds` |
| schedule with a cron pattern, scheduleCronJob, removeScheduledJob | `ScheduleCron`, `CronFires`, `CronGoesOn`, `RemoveScheduledJob` |
| pause, resume, startProcessingQueue | `Pause`, `Resume`, `StartProcessing` |
| close, init, loadJobsFromDisk | `Close`, `FinishClose`, `Crash`, `Restart` |

**QueueAdapters** is one queue of the memory, Redis or Postgres adapter with its
workers. What the adapters ask of BullMQ and pg-boss is modelled by what they rely
on: an id is accepted once (pg-boss: once per hour slot), a worker holds a lock that
it may lose, a failed job is tried again. Actions: `Enqueue{Memory,Redis,Postgres}`,
`Take{Memory,Redis,Postgres}`, `HandlerReturns`, `HandlerAwaits`, `HandlerThrows`,
`ExpireDead`, `ExpireAlive`, `HourPasses`, `StartProcessing` (02.workers.ts), `Pause`,
`Resume`, `Remove{Redis,Postgres}`, `CrashMemory`, `CrashWorker`, `Restart`.

### Stores: IndexStore, StoreData

**IndexStore** is one entry of a sorted index under concurrent calls, in each of the
four adapters; documents are functions from leaf paths to values, and a call is cut
where the adapter awaits its backend.

| Code | Actions |
|---|---|
| acquireIndexLock, update, increment of memory and file | `AcquireIndexLock`, `LockedChange` (`LockedUpdate`, `LockedIncrement`) |
| add and delete of memory and file, which take no lock | `MemoryAddDelete` |
| the file adapter's write of the index file | `OpenFile`, `WriteFile` |
| Redis: ZADD and HSET, HINCRBY, DEL | `RedisAdd`, `RedisIncrement`, `RedisDelete` |
| Postgres statements | `PostgresStatement` |
| update and updateWithRetry of Redis (Lua) and Postgres (version) | `ReadVersion`, `CompareAndSet`, `Retry` |
| stop of the process | `Crash` |

**StoreData** adds streams and key-values, with the state of steps and the state
wiring as callers. Index, streams and keys share the process and its files' directory
only, so a behaviour has calls of one kind or the other (`part`).

| Code | Actions |
|---|---|
| stream.append, stream.delete | `AppendEvent`, `DeleteStream` |
| ctx.state.set, delete; kv.increment | `ChangeState` |
| stateWiring's clear of `flow:<run>:*` | `CleanUp` |
| the change in memory, or the command or query | `ChangeMemory`, `RedisCommand`, `PostgresQuery`; `ScanKeys`, `DeleteKeys` for Redis' clear |
| the file adapter's files | `ChangeFile`; `Truncate`, `WriteValue`; `ListFiles`, `UnlinkNext` |
| stop, loadFromDisk | `StopData` |
| stream.read of memory, Redis, Postgres | `MemoryRead`, `RedisRead`, `PostgresRead` |

### Triggers

One trigger of one instance: the runtime's copy in memory, the entry of the trigger
index, the cron job and timer, and the handlers in flight. `eventBus.publish` waits
for nobody: every event starts its handlers (`Handlers`), and these interleave.

| Code | Actions |
|---|---|
| triggers/index.post.ts, [name].patch.ts, [name].delete.ts, useTrigger | `Post`, `Patch`, `Delete` |
| webhook.trigger.ts, scheduleTrigger.ts, emitTrigger | `WebhookCall`, `CronFires` |
| triggerWiring's handlers | `AddEntry`, `UpdateEntry`, `DeleteEntry`, `DeleteStream`; `AddSubscription`, `CountSubscription`, `RemoveSubscription`, `UncountSubscription`; `AppendFired`, `UpdateFiredAt`, `CountFired`, `ResolvePayload`, `StartFlow` |
| scheduleTrigger, unscheduleTrigger | `PersistJob`, `Unpersist`, `StopTimer` |
| a call that fails; stop; initialize and the triggers in the code | `Fails`; `Crash`; `Boot`, `RegisterDeclared` |

### The live view: LiveView

A page of one browser, its socket, the server's peers, the stream adapter's
subscriptions and the events appended and published. Page actions (useFlowWebSocket,
useTriggerWebSocket): `Subscribe*`, `Unsubscribe*`, `OnOpen*`, `OnClose*`,
`Reconnect*`, `Receive*`; server actions (ws.ts): `Handle*`, `Subscribed`,
`ReadHistory`, `SendHistory`, `ClosePeer*`; wiring: `AppendEvent`, `Publish*`; faults:
`Drop`, `Restart`. In a session that is `alone` one server has the run: its chain
appends an event when it has published the one before. In a shared session others append
and publish too, in any order. `Reduce` is useFlowState's reduction of an event, `ReduceFirst` that
of the first events of a run. `raced` records that a call on a topic met a set of
handlers whose SUBSCRIBE Redis had yet to confirm: whoever subscribes then waits for
nothing, and whoever unsubscribes or closes may take the set away from the one waiting.

### The build: Registry, Startup

**Registry**: files are records of what the loaders take from them. `BuildFlows`,
`FindEmitter`, `DependsOn`, `LevelOf`, `StallTimeout`, `TriggerDefinitions`,
`ScanOne`, `Compiled` are the pure functions of flowBuilder.ts, flowAnalyzer.ts,
triggerAnalyzer.ts, templates.ts and scan.ts; the development server is `Edit`,
`Report`, `Refresh`, `ReadFile`, `NextLayer`, `Finish` (dev.ts).

**Startup** extends it: options are completed (`Needed`, `Connections`), adapter
modules register (`QueueRedis` .. `StorePostgres`), and every server runs `Start`,
`Register`, `MigrationBegins`/`MigrationEnds`/`Migrated`, `CreateStream`/`CreatePart`,
`ReadFlows`/`EnterFlow`/`FlowsEntered`, `StartWiring`, with `Stop`, `Unreachable` and
`RunStarts` beside them.

### MC modules

`MC*.tla` instantiate the above for TLC: flows and await settings (MCFlowRun), index
documents, keys and names (MCStoreData), builds, disks and options (MCRegistry),
sessions (MCLiveView), deployments (MCScheduler).

### Proof modules

| Module | Proves about |
|---|---|
| FlowRunProofs | FlowRun, and that it implements FlowContract |
| RecoveryProofs | Recovery |
| FileQueueProofs, QueueAdaptersProofs | FileQueue, QueueAdapters |
| SchedulerProofs | Scheduler |
| StoreProofs | IndexStore, the index part of StoreData |
| TriggersProofs | Triggers |
| LiveViewProofs | LiveView |

## 3. The runs

| Run | Instance | Checks |
|---|---|---|
| flow_join | entry -> a, b -> c; a and c may throw; 1 instance | OneTerminalEvent, StepsCompleteOnce, NoLimbo, StatsSettle |
| flow_two | the same flow without faults on 2 instances | RunEnds |
| flow_awaits | entry -> a; webhooks before a and after the entry, actions continue and fail, two calls, one cancellation, an entry that outruns flow.start and may emit nothing | Backed, AwaitAfterHolds, ContractSpec, CanceledIsFinal |
| flow_stall | entry -> a; a may throw, stalls, a cancellation, finished jobs removed | RunEnds, NoStepAfterCancel |
| queue_keep | 2 jobs, 2 dispatchers, retries, a delayed job or a cron schedule of two runs, crash, close, pause | HandledOnce, AttemptsBounded, FilesAgree, JobsFinish |
| scheduler | a one-time or cron job on one instance; a one-time job on two | RunsOnceAlone, CancelHolds, JobRuns, RecurringGoesOn |
| store | 2 callers, 3 calls, one stop, the four adapters | UpdatesDontOverwrite, CountersExact, DiskCatchesUp, CallsReturn, Kept |
| triggers | 2 flows, webhook and schedule, three stores, 3 requests or fires, one failure, one restart | SettledAgrees, TimersFollow, FiresReachAllFlows |
| queues | 2 jobs, 2 workers, three adapters, one fault | HandledAlone, JobsEnd |
| live | 2 runs, 4 kinds of session, one fault | NothingMissed, ShowsTheRun, NotStranded |
| recovery | 1 run with a time or event await, two upsets (stops, calls, events) | Watched, Settles, RecoverySparesWaits |
| registry | every flow of an entry and three steps; two edits in development; seven sets of options on two servers | SettledIsCurrent, StallCoversChains, UpAsConfigured, StartsKeepCounts, EveryServerStarts |

What they show:

* *a run*: a step starts only when what it waits for has happened and no await holds
  it back (ContractSpec, AwaitAfterHolds); it completes once (StepsCompleteOnce); a
  run gets one verdict on one instance (OneTerminalEvent), is never left between
  states (NoLimbo) and ends (RunEnds); on one instance a cancellation is final and
  nothing is enqueued after it, though a job that waits already, or a retry, still starts
  (CanceledIsFinal, NoStepAfterCancel); the counters come to rest with the
  run (StatsSettle);
* *restarts*: while the server is up something will move every open run on (Watched),
  it settles (Settles), and a run that waits in time is not marked stalled by the
  recovery (RecoverySparesWaits);
* *jobs*: no job is in two hands (HandledOnce, HandledAlone), beyond its attempts
  (AttemptsBounded) or left (JobsFinish, JobsEnd); files follow the map (FilesAgree);
* *timers*: alone, an instance runs a one-time job once (RunsOnceAlone); after an
  unschedule that returned nothing begins (CancelHolds); jobs run, and a cron job
  goes on after crashes that leave its lock behind (JobRuns, RecurringGoesOn);
* *stores*: an update changes what its patch names and a null removes what is under
  it (UpdatesDontOverwrite), increments are exact, the index file catches up, calls
  return, and what was stored is what every adapter reads, after a restart as well
  (Kept);
* *triggers*: memory, index, counters, jobs and timers agree when all is handled
  (SettledAgrees, TimersFollow), and a fire reaches every flow (FiresReachAllFlows);
* *live view*: a page misses nothing it subscribed to, shows the status of a run that
  one server has once all has arrived, and is not left without a connection while it may reconnect;
* *build*: the registry at rest is that of the files (SettledIsCurrent), the stall
  timeout covers every chain of steps with their timeouts and those of their awaits, and
  delays that fit into its buffer; retries are not counted (StallCoversChains); servers
  come up with the connections given and the schema they need (UpAsConfigured,
  EveryServerStarts), and a start that overlaps no other resets no counters
  (StartsKeepCounts).

### Bounds, and why they are enough

Joins need two branches and one dependent (`JoinFlow`); races on an await or a
cancellation need one dependency (`PairFlow`). `MaxAttempts = 2` is the least with a
retry and a final failure. Two instances, dispatchers, workers or callers show every
interleaving of two; a third would repeat a role. `MaxCalls = 2` of FlowRun is the
least with a duplicated webhook call; a second cancellation finds the run canceled.
One crash, fault or failure per behaviour falls at every point of it.

* FlowRun: time awaits are met by the proofs and by Recovery, not by a run; what one
  run covers is not repeated by another, so ContractSpec is checked in flow_awaits only.
* FileQueue: one cron schedule in a process, none beside a delayed job and none after
  a crash or pause; timers that fire during close's writes, and removeOn* limits by
  number or age, are left out.
* StoreData: with two callers and three calls, an item sees two overlapping calls and
  one after. `ReadLimit` is above the three events, so the 1000-event limit is not
  reached; no query has both types and a limit; the clocks agree; names have no "_";
  Redis' increment is not called: each of these fails `Kept` and is a finding.
* LiveView: one tab; nothing is followed once a call has met a SUBSCRIBE under way
  (`CONSTRAINT Bounded`; a finding), and the page of a shared session makes one request;
  statistics in the memory sessions only.
* Triggers: no new request once calls on the same data overlapped (`muddled`): the
  properties promise nothing then; the subscription mode "manual" is left out.
* Recovery: `MaxChain = 2`: two events in a chain are the least that can overtake
  a timer; kind "schedule" is not in the run, as Watched fails with it (a finding);
  RecoverySparesWaits speaks of time awaits.
* Registry and Startup: every subset of subscriptions among three steps; times in units
  of five minutes, a time await with a delay of one; one build of two flows is deployed,
  `PageSize = 2`.

No run uses symmetry: most check liveness. Runs whose system ends or may stop say
CHECK_DEADLOCK FALSE; the file queue's run checks for deadlock.

### Fairness

* FlowRun: chains advance, workers take jobs and handlers return, scheduled jobs fire:
  `WF` on each. Nobody has to call a webhook, cancel, or stall a run. That a handler
  emits what it declares (`Silent = {}`) is assumed, not fair: RunEnds needs it.
* FileQueue: writes land, handlers end, timers fire, the plugin registers the workers,
  close finishes, and a stopped process is started again. Pauses need not end, and
  `JobsFinish` excuses a process that was stopped hard or paused (`disturbed`).
* Scheduler: deadlines and lock lives pass, calls return, instances restart; a timer and
  the poll come again and again, `SF`, as both are disabled in between.
* IndexStore, StoreData: the backend answers; `SF` on a caller's steps, as a waiter of the
  index lock may find it taken when it is resumed.
* QueueAdapters: handlers end, processes restart, a dead worker's lock expires; a job is
  fetched, `SF`, as workers are busy in between (the backends serve in order).
* Triggers: handlers in flight go on and the process boots. Recovery: the server is
  started again, workers and timers run, deadlines pass. Startup: a start goes on.
* Users, outside events, stops and faults have no fairness anywhere.

`EntryAfter` says what the entry handler cannot outrun. `startFlow` publishes
flow.start after the enqueue returns, and the index entry is written a few store
calls later. `"published"` and `"indexed"` are therefore assumptions about timing, needed
by RunEnds and NoLimbo only; flow_awaits does without, and every theorem but
NeverInLimbo.

## 4. Where the code and what it says of itself part

PROJECT.json lists the findings with their lines. Those a model decides can be seen by
changing a constant: properties that fail and are kept in the modules are

| Property | Module and setting | What happens |
|---|---|---|
| OneTerminalEvent | FlowRun, two instances | both find no verdict in the stream and publish one |
| StatusAgrees | FlowRun, a step that throws | a run announced as failed is overwritten with "completed" |
| TimeoutContinues | FlowRun, webhook before a step, action continue | the await is resolved under the wrong key, the step never runs |
| NothingForgotten | FileQueue, MayCrash | jobs that were active, or listed after a torn file, are never run |
| HandledOnce, FilesAgree | FileQueue, KeepFinished FALSE, two dispatchers; ReuseAtOnce | a cleanup or an unlink hits a job enqueued anew |
| SchedulesEnd | FileQueue, RepeatLimit > 0 | a removed cron schedule arms its timer again |
| OneInstanceRuns | Scheduler, two instances | an expired lock is deleted and taken twice |
| NoStepAfterCancel | FlowRun, two instances | one persists the cancellation after the other read the stream and before it enqueues |
| NoLimbo, RunEnds | FlowRun, a step in `Silent` | what subscribes to the event that was not emitted never starts, and the run stays "running" |
| Watched | Recovery, kind "schedule" | a stop loses the stall timeout, and the recovery takes a late-announced await for a valid one |
| ShowsTheRun | LiveView, without `alone` | two servers publish a run's events in the other order |
| StallCoversChains | Registry, delays beyond the buffer | the stall timeout leaves them out, and a waiting run is stalled |
| StartsKeepCounts | Startup, with overlapping starts | a server adds a flow that another has entered and counts |
| Kept | StoreData, a name with "_", types with a limit, ReadLimit 2, clocks apart, redis in Increments | lost or different reads |

Found in the models and described under findings: markAsStalled overwrites a
cancellation; a time await resolved before it is announced; an event await that no
recovery knows; a live page that applies the history after newer events; the Redis
gateway's unconfirmed subscription. NoLimbo and StatsSettle also fail with short time
awaits, and StatsSettle with a cancellation whose previousStatus is old. NoLimbo fails,
the run staying "running", also

* on two instances: a step.retry waits in the chain of one while the other persists the
  step.failed of the next attempt, and a failure that a retry follows in the stream does
  not count;
* where a step subscribes to `step:f` and f fails: the analysis knows dependencies by
  emitted events only, sees no step that f blocks, and waits for one that never starts;
* where a step subscribes to nothing: it is triggered by the first step that completes,
  and if the entry fails there is none;
* where the entry emits before flow.start is published (`EntryAfter` "any");
* where a step completes without having emitted an event it declares and another waits
  for (`Silent`).

Seen while reading, and left to a reader: the Postgres store drops fields without a
column, and its stream.read ignores after and before; defu concatenates arrays;
updateWithRetry throws after three conflicts; the memory store ignores ttl; a graceful
stop between lock and executeJob loses a one-time job; releaseLock checks no owner; a
crash between index.add and scheduleTrigger leaves a trigger without its job; the
trigger runtime is per process, so other instances never hear of a change;
the Postgres queue's pause and resume do nothing, and its startAfter takes milliseconds
for seconds; streamWiring does not publish flow.stalled; the Postgres gateway's
reconnect waits for itself and a NOTIFY above 8000 bytes fails; adapter-stream-redis
throws without a connection even if unused; the Postgres store ignores DATABASE_URL; the
close hooks plugins return are ignored by Nitro; the second subscriber of a queue's
console gets no initial counts.

## 5. What is proved

The theorems hold for every value of the constants their ASSUMEs allow: any flow,
number of instances, runs, jobs, workers, callers, attempts, stops and failures, none of
the runs' bounds. `P` is what a run checks on its instance, and the theorem states the
same definition.

| Theorem | P | Hypotheses beyond the module's assumption |
|---|---|---|
| TypeCorrect | TypeOK of FlowRun | none |
| AlwaysBacked | Backed | none |
| Implements | ContractSpec | none |
| CancelStops | NoStepAfterCancel | one instance |
| CompletesOnce | StepsCompleteOnce | finished jobs are kept (`~RemoveFinished`) |
| AfterHolds | AwaitAfterHolds | only the entry has an awaitAfter; no event has a step's name; one instance if the timeout of that await continues |
| CountersSettle | StatsSettle | one instance, no awaits, no cancellation |
| NeverInLimbo | NoLimbo | one instance, no awaits, finished jobs are kept, `EntryAfter` is not "any"; every step is reached from the entry, and none subscribes to `step:f` of an f that may fail (`StepsReached`); every handler emits what its step declares (`Silent = {}`) |
| OneVerdict | OneTerminalEvent | one instance |
| CanceledForGood | CanceledIsFinal | one instance, no stall timeout |
| NoRunForgotten | Watched | no await is of kind "schedule" |
| WaitsAreSpared | RecoverySparesWaits | none |
| HandledByOne | HandledOnce | finished jobs are kept, ids are not reused at once, nothing is enqueued before the workers are registered |
| AttemptsLimited | AttemptsBounded | the same |
| FilesInStep | FilesAgree | the same |
| JobsHandledAlone | HandledAlone | none |
| JobRunsOnce | RunsOnceAlone | none; P speaks of an instance that is alone |
| CancelIsFinal | CancelHolds | none; as above |
| NothingOverwritten | UpdatesDontOverwrite | none |
| IncrementsCount | CountersExact | no update writes the counter (`CounterIsFree`) |
| FileHoldsTheIndex | DiskCatchesUp | none |
| TimersAreRight | TimersFollow | none |
| RuntimeIsTheIndex | SettledAgrees | none |
| FiresGoRound | FiresReachAllFlows | none |
| NoEventIsMissed | NothingMissed | none; P speaks of behaviours that are not `raced` |
| PageShowsTheRun | ShowsTheRun | none; as above, and of a page that was sent nothing else, and of a run that one server has |
| NoPageIsStranded | NotStranded | none |

Each hypothesis is a setting that the runs have as well, and dropping it makes the
property false: section 4 says what happens then, except that a stall can take a canceled
run to "stalled" (a finding), that an update which writes the counter overwrites
increments, and that on two instances one may handle the timeout of the entry's await
before the other the entry's completion, and trigger. The exception is `~RemoveFinished`
in NeverInLimbo: TLC finds no violation without it (on one flow, in part of its states),
but the proof takes what a job has reported from its state in the queue. That no event
has a step's name is how the models tell a subscription "e" from "step:e": the code's
prefix.

### The arguments

**A run.** `TypeCorrect` carries `CurrentMatches` along: the stage of a handler is the
type of the event it handles, which the types of what `OnEmit` and the await handlers
write rest on. `Backed` is the inductive form of the refinement: the stream only grows
when an event is persisted, and by then the reason for it lies in an earlier state, so
every event in a chain, every job, timer, webhook call, the index entry, every snapshot
a handler has taken and every verdict in a local variable must rest on events that are
in the stream or, for what a job publishes, ahead of it in the same chain. As the
stream only grows, a backing stays (`BackingGrows`, `EventGrows`): stale snapshots are
harmless, on any number of instances. `Implements` follows: initial states map to
initial states; only `Persist` changes the mapped variables, and `EventBacked` at the
head of the chain is the guard of the abstract step; `MarkStalled` and all others
stutter.

`Publisher` (who can publish an event of a type) and `Enqueuer` (who can enqueue a job)
are proved once and serve the rest. `OneVerdict` rests on `VerdictGuarded`: a terminal
event in the chain is the only one, the stream has none yet and the tracker is on, and a
handler about to decide has seen a verdict that is in the stream; the tracker is in
memory, hence one instance. `CancelStops` rests on `NothingHeldBack`: a handler that read the stream
without flow.cancel and holds jobs to enqueue keeps flow.cancel from being persisted, as
the one chain has one handler; and on `CancelAfterStart`: flow.start is published before
a cancellation. With a second instance the first of these is false.
`CanceledForGood` rests on `CancelKept`: flow.start is handled once, before there is an
entry, and with one chain a handler past an await has read a status that is still not
canceled. `CompletesOnce` rests on `CompletionKept`: of a step's two possible jobs it
has one, that is done once a completion is on its way, and there is one completion in
all chains and the stream together.

`AfterHolds` rests on `AfterInv`: before the entry's completion, or the release of its
await, is in the stream, no other step has a job and no handler is about to trigger one
(`Opened`), and the awaits and callers that could bring a handler there follow that
completion in the chain. A handler that does trigger finds the entry completed, reads
`awaiting` from an index that says "resolved" only after the release, and finds the
entry as the emitter (`EmitterFound`: the first event of that name in the stream, which
exists as every set of positions has a least one), so `IsDependencyAwaiting` holds the
step back, however old the index it read. `CountersSettle` rests on `CountsKept`:
running is 1 from the persisted flow.start to the one verdict, and at rest no
flow.start is still in the chain.

`NeverInLimbo` rests on `LimboInv`, for the one instance. An event is on its way
(`OnWay`) when it is in the stream or the chain, and a step only moves it along
(`AheadMoves`). `ChainInOrder` and `StreamInOrder`: reports come after flow.start, a
completion after all its step emits, no retry after a failure. `JobsTold`: a job is done,
or failed, just when its completion, or failure, is on its way. `IndexKept` and
`HandlerKept`: the entry is there before anything is reported and has every emit of the
stream, and what the handler has read is still so. Then `StepsTriggered`: a step fed by
completed steps has its job unless the handler that triggers it is under way
(`FedIsTriggered`: no guard of `PendingSteps` can refuse it), and `RunDecided`: when the
stream tells an outcome a verdict is on its way or a handler about to publish it. At rest
(`QuietIsDecided`), take the steps that neither completed nor failed: if there are any,
one is reached from outside, was not fed, and so waits for what a failed step emits, a
blocking failure; if there are none the run is complete. Either way there is an outcome.

**Restarts.** The invariant has two stages. `RecoveryInv`, for awaits of every kind, has
`Timed` (a persisted job has a timer or a running handler unless the server is down) and
for every run what the order of events gives: flow.start is handled once and before all
else (`StartsFirst`, `Untouched`), the await is reached by one completion of the entry
(`EntryFirst`; else a late completion would read an await that timed out and give an
unfinished run a verdict), a verdict is published for finished runs only (`VerdictEnds`,
`HeadKept`), and a stall job that fired and marks nothing may be dropped
(`FiredInVain`). `Rereads` is what `WaitsAreSpared` needs: what the recovery read at its
start still says "awaiting" of whatever awaits now, since no await is announced before
the workers start.

`WatchedInv` is what `Watched` needs: the stall timeout of an active, unfinished run is
persisted, unless a handler is about to schedule it again, or a stop has come in between
and the recovery has yet to mark the run (`Covered`). That it will rests on what an
await says then: of a time await whose job is gone the deadline has passed
(`TimeWaits`), and an event await that the index has open has let no step begin, whose
events would move the stall timeout (`EventWaits`).
A schedule await's deadline is another than its job's, and for it `Watched` is false. A
step changes its own run (`Base`), so the others keep their part (`SameKeeps`); stops and
starts change all runs at once.

**Queues.** `QInv` of FileQueue relates map, files, tasks, dispatchers and timers: a job
is with its enqueue, in fastq, behind a backoff or in a dispatcher, once (`OneHolder`);
what a dispatcher is about to write is what the map holds (`SlotsAgree`); and the
attempts counted by a waiting job, or by its file, are never fewer than the handler's
calls (`AttemptsCount`), so that a restart gives none back. In QueueAdapters,
`LocksHold`: a worker that runs a job has its lock, the job is active and no other
worker has it, until a lock is lost by a worker that lives.

**Timers.** `SInv` of Scheduler: the job is scheduled by one call and cancelled after
that (`OneSchedule`); alone and outside the windows of `Exposure`, a one-time job passes
through four stages, each of which says what timer, entry, lock and calls there are
(`Stages`), and after an unschedule has returned neither a configuration is left nor a
call that would bring one back (`CancelSettles`, `Gone`).

**Stores.** `IInv` of StoreProofs: a call is only at stages of its adapter
(`StepsOfBackend`); the counter is what was returned plus the increments applied and
still to return (`Counted`); and what the index file lacks, one write that was begun or
is due will bring (`FileFollows`). `Legal` lists the moves a call can make, and what a
step changes is read off it.

**Triggers.** While nothing is `muddled`, the handlers in flight that write the same data
are one (`Apart`), and they account for every difference: of status (`StatusFollows`),
timer and job (`TimersInStep`), subscriptions (`SubscriptionsInStep`) and fires
(`FiresInStep`: counted fires and counting handlers add up).

**The live view.** `IInv` of LiveViewProofs looks ahead: `Coming` is what the page will
show when it has received all that is on its way (`AfterAll`), so that receiving a
message changes nothing. A page whose last word to the server is to subscribe (`EndsFor`)
and whose subscribe message has been handled is `Linked`, it `Sees` every published event
in `Coming` or in the hands of a handler that has yet to read or to send, and with no
handler left it is `InSync` if one server has the run: such a server publishes what it
has appended before it appends more (`LogInv`), and so in order. That an event is
published to a linked page once, and not twice or never, is `GateInv`: a topic's handles
are 0 or 1 per peer, and exactly one handler waits for an unconfirmed SUBSCRIBE until a
call meets it. That repetitions do no harm is an argument on `Reduce` by itself: the
state, taken apart into flow, step and await, keeps the last event of each part except
for a step that ended (`ReduceParts`), so two states that agree on what the events so far
decide (`Alike`) still agree after the next, and a history applied to a view that has
only events of it ends where the history alone would (`Fits`, `FitsFirst`,
`ReducedFromAnywhere`). Both run along a sequence of any length: the induction is by the
least counterexample (`LeastElement`, `Induction`), on sets instead of operators.

TLC checked each invariant on an instance of its module before it was proved.

### Only model-checked

* *Liveness* (RunEnds, Settles, JobsFinish, JobsEnd, JobRuns, RecurringGoesOn,
  CallsReturn, EveryServerStarts, NotStranded's reconnects): beyond the provers.
* *Kept and the registry's properties*: what a read or a scan gives is a fold of the
  community modules over a sequence, and the analysis of a flow a recursion over it:
  induction over data.
* *UpAsConfigured and StartsKeepCounts* of Startup rest on the registry it extends.
* *The other modules' assumptions on fairness* have no part in any theorem.

## 6. Not modelled

* *The queue pages' WebSocket* (counts sent to a console) and the *Postgres LISTEN
  gateway*: their state is like LiveView's, no run or job depends on it; what reading
  shows about them is in section 4.
* *Expiry*: ttl of keys, trimming of Redis streams, eventTTL and metadataTTL. No run
  lasts that long; the scheduler's locks, which do expire, are in Scheduler.
* *The memory store's stream subscriptions*, which nothing uses.
* *Python worker, loaders' syntax, forms, charts and layout*: no protocol with the
  server beyond what LiveView has.
* *BullMQ, pg-boss, Redis and Postgres* themselves: modelled by what the adapters use.
* *Lock renewal* in the scheduler (handlers there end long before it), *job progress*,
  *logs* and the *step-level timeout race*.
* *A full queue under FlowRun* (flowWiring.ts:344 takes the error for a duplicate): every
  liveness property would depend on the bound.

## 7. Plan

Modelled: all components of section 1 but those of section 6. Proved: the table of
section 5. What would say most next:

1. Startup: StartsKeepCounts and UpAsConfigured for any number of servers.
2. Scheduler on several instances: what holds without `Alone`.
