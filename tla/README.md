# n8n execution core: a TLA+ verification project

This project models the part of n8n (`packages/cli/src`, `packages/core/src`) that decides
*whether, when and how often a workflow execution runs*, and what its stored result is. It
contains TLA+ modules translated from the source, TLC configurations that check them on small
instances, and theorems that TLAPS proves for every value of the constants.

Paths below are relative to `packages/cli/src/` of the repository unless they start with
`packages/`.

- [1. The system](#1-the-system)
- [2. Modules and how they correspond to the code](#2-modules-and-how-they-correspond-to-the-code)
- [3. The runs](#3-the-runs)
- [4. Fairness](#4-fairness)
- [5. Assumptions and bounds](#5-assumptions-and-bounds)
- [6. What is proved](#6-what-is-proved)
- [7. Findings](#7-findings)
- [8. What the model shows and no property claims](#8-what-the-model-shows-and-no-property-claims)
- [9. What is not modelled](#9-what-is-not-modelled)
- [10. Plan](#10-plan)

## 1. The system

An n8n instance is one or several Node.js *main* processes with a database. In regular mode a
main runs its executions itself; in queue mode it hands them to workers through a Bull queue in
Redis. Several mains elect a leader through a key in Redis. The components that carry this logic:

| component | state it keeps | operations |
| --- | --- | --- |
| **Admission** `concurrency/` | `isEnabled`; the signed counter `capacity`; the `queue` of pairs (execution id, resolve) | `throttle`, `release`, `remove`, `has`, `disable`, `removeAll` |
| **Active executions** `active-executions.ts` | `activeExecutions`: id -> entry with its run data, promises and, once attached, the cancellable engine | `add`, `attachWorkflowExecution`, `remove`, `stopExecution`, `getStatus`, `shutdown` |
| **Workflow runner** `workflow-runner.ts` | the timeout timer of each run | `run`, `runMainProcess`, `processError`, `enqueueExecution` |
| **Execution rows** `databases/repositories/execution.repository.ts`, save hook in `workflow-execute-additional-data.ts` | tables `execution_entity` and `execution_data` | `createNewExecution`, `updateStatus`, `updateExistingExecution`, `markAsCrashed`, `stopBeforeRun`, `stopDuringRun`, the save hook, deletion of what is not to be kept |
| **Stop requests** `executions/execution.service.ts` | none (reads the row, then acts) | `stop`, `findAllEnqueuedExecutions` |
| **Start and shutdown** `commands/start.ts`, `commands/base-command.ts`, `shutdown/` | phase of the process | `init`, `run`, `runEnqueuedExecutions`, `stopProcess`, termination signal |
| **Crash recovery** `eventbus/`, `executions/execution-recovery.service.ts` | log files of this run and the one before | `initialize`, `recoverFromLogs`, `amend` |
| **Waiting executions** `wait-tracker.ts`, `webhooks/waiting-webhooks.ts` | `mainTimer`, `waitingExecutions`: id -> timer | poll, set timers, `startExecution`, `stopExecution`, `stopTracking`, `executeWebhook` |
| **Leader election** `services/orchestration/main/multi-main-setup.ee.ts` | `isLeader`; the leader key and its expiry in Redis | `init`, `checkLeader`, `tryBecomeLeader`, `shutdown` |
| **Scaling** `scaling/` | Bull queue, `runningJobs` of each worker, timer of queue recovery | `addJob`, `stopJob`, `processJob`, `recoverFromQueue`, `stop` |
| **Workflow engine** `packages/core/src/WorkflowExecute.ts` | node stack, waiting inputs, run data | `run`, `processRunExecutionData`, `addNodeToBeExecuted` |
| **Active workflows** `active-workflow-manager.ts`, `workflows/workflow.service.ts`, `packages/core/src/ActiveWorkflows.ts` | row of the workflow; `activeWorkflows`; `queuedActivations`; activation errors; what runs | `update`, `delete`, `add`, `remove`, activation with retries, failing triggers |
| **Pruning** `services/pruning.service.ts` | timers of soft and hard deletion | `startPruning`, `stopPruning`, `softDeleteOnPruningCycle`, `hardDeleteOnPruningCycle` |

How they interact:

```
 webhook / trigger ----> WorkflowRunner.run --- add ---> ActiveExecutions --- throttle ---> ConcurrencyControl
                             ^   ^   |                     ^   |  ^                              |
 WaitTracker (timer) --------+   |   | engine              |   |  | remove, release              |
 waiting webhook ----------------+   v                     |   |  +------------------------------+
 runEnqueuedExecutions --+-----> WorkflowExecute ----------+   |
                         |           | save hook               | createNewExecution, updateExisting...
                         |           v                         v
 findAllEnqueued --------+--- execution_entity / execution_data <---- stop request, crash recovery
```

Hard behaviours of this code:

- **Interleavings at every `await`.** JavaScript runs a handler to its next `await`; between two
  of them any other handler may run. `WorkflowRunner.run` has a dozen awaits, and a stop request,
  a timeout, a second resume or the end of the engine may come at each. Two writers of a row do
  not know of each other: the save hook, `updateStatus`, a stop request and recovery are
  unconditional `UPDATE`s.
- **A slot has three ways out**: the end of an engine, a stop and a timeout all remove the entry
  and release the slot, and each must do so exactly once.
- **Crashes and restarts.** Rows, log files and the Redis key survive; queues, entries, timers
  and promises do not. What is `new` is run again at startup, what is `running` is recovered.
- **Timers race answers**: a wait timer and a webhook resume the same pause; a check of the
  leader key starts before the one before has ended.
- **Queue mode** spreads one execution over a main, a queue and workers, each of which may end at
  any of its awaits; jobs stall and are handed out again, and messages about a job and the row of
  its execution are read at different times.
- **Data arrives in any order** at a node with several inputs, and the engine has to find out when
  what is missing cannot come any more.
- **Triggers are started and closed asynchronously**, by requests, retries, failures and restarts
  that share one entry in memory.
- **Leadership comes and goes** while queries, recovery cycles and timers of the services that
  depend on it are under way.

What makes each component correct: admission keeps its limit, loses no slot and no wake-up and is
fair; an execution runs in one engine at a time, begins once, can be stopped while it runs,
settles, and keeps the result it settled with; a pause is resumed once and a timed pause ends; at
most one main leads on one key, the holder of the key does lead, and the leader does all of its
work; what one node gives is executed once by each node it is connected to, and a merge waits for
what can still come and no longer; in queue mode no execution is left in progress unattended, the
main never waits for ever and never reports a result that is not stored; a workflow that is
inactive runs no trigger, and one that is active runs each of them once with the stored data or
shows an error.

The list of hazards, each with the line where it bites and the properties that cover it, is in
`PROJECT.json` under `hazards`.

## 2. Modules and how they correspond to the code

| module | models | extends / instantiates |
| --- | --- | --- |
| `ConcurrencyControl` | `concurrency-control.service.ts`, `concurrency-queue.ts` | |
| `AdmissionLine` | abstract specification: slots and a line in front of them | |
| `QueueLemmas` | what the removal of one place leaves of a queue | TLAPS |
| `ConcurrencyControlProofs` | theorems about admission | `ConcurrencyControl`, `QueueLemmas`, TLAPS |
| `ExecutionStore` | what each writer does to one row (operators without state) | |
| `ExecutionLifecycle` | active executions, runner, stop, shutdown, crash, restart, recovery | instantiates `ConcurrencyControl` and `ExecutionStore` |
| `ExecutionLifecycleProofs` | theorems about the life of executions, and about those that wait for, hold and release slots | `ExecutionLifecycle`, `QueueLemmas`, TLAPS |
| `WaitingExecutions` | wait tracker and waiting webhooks | extends `ExecutionLifecycle` |
| `WaitingExecutionsProofs` | theorems about executions that pause and are resumed | `WaitingExecutions`, `ExecutionLifecycleProofs` |
| `MultiMainSetup` | leader election and the Redis key | |
| `LeaderDuties` | the services that start and stop with leadership | extends `MultiMainSetup` |
| `LeadershipProofs` | theorems about leader election and about these services | `LeaderDuties`, TLAPS |
| `Scaling` | queue mode: main, queue, workers | instantiates `ExecutionStore` twice |
| `ScalingProofs` | theorems about queue mode | `Scaling`, TLAPS |
| `WorkflowExecute` | the engine, for one execution of one workflow | |
| `WorkflowExecuteProofs` | theorems about the engine | `WorkflowExecute`, `QueueLemmas`, TLAPS |
| `ActiveWorkflows` | activation of workflows on one main | |
| `ActiveWorkflowsProofs` | theorems about activation | `ActiveWorkflows`, TLAPS |
| `MC*` | constants for TLC | the module of the same name |

Operators named as mutants in their comment are not part of the specification; they are
plausible bugs that each property is shown to catch (`PROJECT.json`, `mutants`).

### ConcurrencyControl and AdmissionLine

All operations are synchronous, so each is one action. A caller is named by the promise it awaits
(`Calls`); `settled` is the set of resolved promises. `capacity` is the code's signed counter.
`inUse` is a ghost: the slots handed out and not given back. `Throttle`, `Release`,
`RemoveExecution` and `Disable` are the service's methods, on top of `Enqueue`, `Dequeue`,
`RemoveQueued` and `ResolveNext`, the queue's. `Arrive`, `Finish` and `Stop` are the callers.
`removeAll` is called only after `disable`, and then returns at once.

`AdmissionLine` is what a user is told: so many slots, one line, a slot that comes free goes to
the head of the line, somebody who gives up leaves and changes nothing else. `ConcurrencyControl`
implements it by the identity mapping (`line <- queue`, `through <- settled`), as long as nobody
is cancelled while enqueued; with cancellation it does not (section 7).

### ExecutionStore

A row is four facts: status, whether `waitTill` is set, mode, and how far its data got. Every
writer is an operator on a row; writers of a row that does not exist do nothing, and touch only
the columns they name. `Saved` is the save hook with its three branches: keep, keep because it
is waiting or was stopped, delete because the workflow's settings do not keep such results.

### ExecutionLifecycle

One member of `Calls` is one invocation of `WorkflowRunner.run`, cut at its awaits:

```
Create -> InsertData -> ThrottleNew -> [queue] -> Register ----------+
ThrottleKnown (resume, startup) -> [queue] -> BeginUpdate -> UpdateExisting -+-> RunMainProcess | PermissionDenied
RunMainProcess -> (executing) -> EngineEnds -> EngineSaves -> EngineResolves
```

- A promise continuation that is due runs before anything else: `Quiet` guards every action that
  is a new turn of the event loop, and the continuations of a resolved `throttle` promise
  (`Register`, `BeginUpdate`) are enabled only when it is false.
- The process has the phases `down`, `listening` (webhook routes open), `recovered` (event bus
  initialised), `up` (enqueued executions read) and `stopping`. `GoDown` says what a crash and an
  exit lose; rows and the event log stay.
- `active[e]` is the entry in `activeExecutions`; `workflowExecution` in it is the invocation
  whose engine is attached. `RemoveActive` is `remove` and the cleanup shared with
  `stopExecution`, including the release of the slot, which is the whole handler.
- `cancelled` holds the invocations whose `PCancelable` was cancelled; `writes` holds calls of the
  save hook that nobody awaits: the one `cancel()` triggers, and that of `processError`.
- A stop request is cut between the read of the row and the act in `stopInRegularMode`, and
  between that act and the update of the row.
- `eventLog` is what recovery reads: per execution, whether the log files of the last two runs
  hold a start, an event of a node, or an end.
- `begun` is a ghost: executions whose engine started and did not pause since.

### WaitingExecutions

`Poll`/`SetTimers` are `getWaitingExecutions` before and after its query; `FireTimer` is
`startExecution` up to the read, `Resume` the rest of it, and the call of `run()`;
`WebhookResume` is `executeWebhook`. `StopTimer` conjoins `waitTracker.stopExecution` to the stop
requests that reach it. `tracked` and `armed` are distinct because `stopTracking` clears timers
and keeps entries.

### MultiMainSetup

Commands of one main travel over one connection: `sent[m]` are commands not executed by Redis,
`replies[m]` answers not processed. `RedisStep` executes, `MainStep` is the continuation of a
check: `LeaderIsSelf`, `LeaderIsOther`, `LeadershipVacant`, `BecomeLeader`, `TakeOver`,
`StayFollower`, by the command and the answer alone. `working` is what `leader-takeover` starts
and `leader-stepdown` stops. `lapsed` is a ghost: the key a main set last was taken from it.

### LeaderDuties

Composes `MultiMainSetup` with three services that start on `leader-takeover` and stop on
`leader-stepdown`, each in its own way: `WaitTracker` (its poll, its query under way, entries with
and without timer), `PruningService` (its timers) and the queue recovery of `ScalingService` (timer
armed, cycle under way). `Election` is a step of a check with the handlers of the event it emits, in
one action, since `emit` is synchronous. `StopPruning` asks `isPruningEnabled` first, as the code
does, after `markAsFollower` has run. `Shutdown` is conjoined with the three services' own stops.
What the services do to rows is in `WaitingExecutions` and `Scaling`. Several chains of timers of
one service are one Boolean, and the moment between the start of a process and the registration of
its listeners is left out.

### Scaling

One member of `Runs` is one invocation of `WorkflowRunner.run` and its job: `<<e, 1>>` is the first
run of execution `e`, `<<e, 2>>` the one after its first pause.

```
main:    Create -> AddJob | AddJobFails -> Attach -> JobSucceeds | JobFails | EndsQuietly -> ReadResult -> DeleteResult
queue:   waiting -> active -> completed | failed | removed       Stall: active -> waiting | failed
worker:  PickUp -> ReadExecution -> MarkRunning -> StartEngine -> EngineEnds -> EngineSaves -> JobEnds
stop:    StopRequested -> StopEntry | FindJob -> CheckFoundJob -> StopFoundJob -> StopStored
```

- The queue is external, modelled from its use: a worker holds a lock on an active job; a job whose
  worker is gone is stalled, waits again, and fails after `MaxStalledCount` of that; a job that ends
  leaves the queue, and its end does not count when its worker lost the lock.
- `stopJob` is cut between the test whether the job is active and what it does about it. An abort is
  a message to all workers; only the worker with the job in `runningJobs` acts on it, and both the
  save that `cancel()` starts (`SaveAborted`) and that of the engine are modelled.
- Rows are those of `ExecutionStore`, with two instances: the save hook of a worker never deletes,
  that of the main does. `StatusRead` is the status the main computes from the row it reads.
- `processError` is cut between its read and its save (`CheckError`, `SaveError`).
- A worker's event log and the recovery at its start are `workerLog` and `Start`. In queue mode the
  recovery of the main skips what the database calls running.
- Queue recovery is cut at its two reads (`ReadStored`, `FindDangling`, `MarkDangling`).

### WorkflowExecute

`Workflows` are records with connections and the settings of nodes; an array of items is the set of
the places it came from, so that what is lost, executed twice or mixed up can be told. `TakeNode` is
the head of the loop; the outcomes of a node are actions of their own (`NodeSucceeds`, `NodeDisabled`,
`NodeReturnsNull`, `NodeWaits`, `NodeThrows`, `NodeEmitsError`, `RerunReturns`), and each ends in
`Continue` (data is passed on, waiting nodes are searched) or `Break` (the run is over with the node
back on the stack). The inputs of a node (`Inputs`) count up to the highest one that is connected,
as the code pads `connectionsByDestinationNode` for those in between: a node that is connected at its
second input only waits like a merge (`IsMerge`). Required inputs come as a set (`required`) or as a
number of inputs that must have data (`atLeast`, `EnoughData`). `Given` is the empty item that
`alwaysOutputData` adds on the first output, also when a node gave items on its error output alone.
`AddNodeToBeExecuted`, `EntryIndex`, `SourceOf`, `MayRun` and `ServeWaiting` are
the code's functions and loops of these lines. `Resume` and `Retry` are what `run` and
`ExecutionService.retry` do with the stored run. `consumed` is a ghost: what nodes executed to the
end.

The order in which successors go on the stack depends on the positions of nodes on the canvas; it is
the order of `connections`. `MaxRuns` bounds the runs in which a node passes data on, so that a loop
ends.

### ActiveWorkflows

A *task* is a request, a retry, an addition at startup or the closing of triggers, each for one
workflow, cut at its awaits: `Begin`/`Request` -> `Remove` -> `Close` | `CloseFails` -> `Save` ->
`ReadBack` -> `Add` -> `TriggerStarts`... | `ActivationFails`. `memory` is `ActiveWorkflows.activeWorkflows`, `queued` is
`queuedActivations` (with the data that the retry has captured, its `version`), `running` are
triggers that run, whether or not anything in memory still refers to them. `Handled` is what each
caller of `add` does when it fails, which may be before there is an entry in memory (`MayAdd`) or
after it. A removal closes the triggers of the entry, those included that start meanwhile, and
deletes an entry without triggers at once (`HasTriggers`). When a closing function throws
(`CloseFails`), the triggers after it run on, the entry stays, and a request fails before it has
changed the row. `TriggerFails` is `emitError`. `Restart` ends the process and
reads the active workflows.

## 3. The runs

Eleven runs pass; one finds a behaviour of the code that the documentation of a setting excludes
(section 7). State counts are TLC's distinct states.

| run | instance | what it shows |
| --- | --- | --- |
| `concurrency_control` | limit 2, 4 callers, 3 executions, stops and shutdown; 5 056 states | the counter accounts for every slot (`CapacityAccounting`), nobody waits beside a free slot (`NoIdleSlot`), is overtaken (`NoOvertaking`) or waits for ever (`NoStarvation`); after `disable` the queue is frozen (`FrozenAtShutdown`) |
| `admission_line` | limit 2, the same without stops of enqueued executions; 3 740 states | the limit is kept (`WithinLimit`) and the service implements the abstract line (`ImplementsLine`) |
| `lifecycle_restart` | 3 executions (two limited, one not), limit 1, 3 concurrent invocations, success, error and pause, rejected permissions, 2 crashes or shutdowns; 403 647 states | entries and slots agree (`SlotsMatchHolders`), one engine per execution (`OneEngine`), nothing is left `running` unattended (`NoZombies`), what waits for a slot is found again (`EnqueuedSurvive`), and nothing begins twice (`BegunOnce`) |
| `lifecycle_stop` | 2 executions, limit 1, a stop request for the first, timeouts, failed executions not kept, 1 crash or shutdown; 270 959 states | when a stop, a timeout, the end of the engine and a restart race, a stop request finds every engine (`EnginesStoppable`), what is stopped in the queue never starts (`StoppedInQueueNeverStarts`), and every stored execution settles (`Settles`) |
| `waiting` | one execution that pauses until a time, one until its webhook is called, a stop request, extensive recovery, failed executions not kept, 1 crash or shutdown; 510 280 states | a pause is resumed once (`ResumedOncePerPause`), entries have live timers (`NoDeadTimers`), a timed pause ends (`WaitsEnd`) |
| `multi_main` | 2 mains, checks that do not overlap, 3 ends of processes; 23 918 states | one leader per key (`OneLeaderPerKey`), the holder leads (`HolderLeads`), a leader that lost the key steps down (`StaleLeaderStepsDown`), and leadership is taken (`LeadershipTaken`) |
| `leader_duties` | the same with one end of a process, and one execution that pauses again and again; 1 649 138 states | the main that works as the leader polls, prunes and recovers, however stepdowns, takeovers and recovery cycles overlap (`DutiesDone`); two mains poll for waiting executions only while one of them has not noticed that it lost the key (`TrackersApart`) |
| `scaling` | 2 executions, one of which pauses, 2 workers, no stall tolerated, successful executions not kept, queue recovery, 1 end of a worker, 1 crash of the main; 483 560 states | nothing is left in progress unattended (`NoZombies`); a failure that is to be kept is kept, although what the main read may be older than what it deletes (`FailuresKept`) |
| `scaling_stop` | 1 execution, 2 workers, a stop request, a Redis that may refuse the job, 1 stall tolerated, 2 ends of workers; 231 157 states | one engine at a time (`OneEngine`); what the main reads is a result (`ResultReady`); the main does not wait for ever (`RunsEnd`); what is not stopped settles (`EnqueuedSettles`) |
| `scaling_pause_deleted` | 1 execution that pauses, successful executions not kept | violation of `PausedKept` |
| `engine` | eight workflows: a diamond with retries, error output, continue on fail and a pause; the same with a merge that requires both; a merge with two batches on each input; two chains of merges; a merge of three inputs; a merge that needs data on two of three inputs, one of them not connected; a loop; every choice of outputs by each node, a cancellation, resumes, a retry by the user; 6 176 states | nothing is lost or executed twice (`NothingLost`), sources name where data came from (`SourcesKnown`), no merge runs before data that still comes (`NoLateData`) or is left behind (`MergesServed`), and a run ends (`Ends`) |
| `active_workflows` | 2 workflows with one trigger, 3 requests, 3 failures (of activations, triggers and closing functions of requests), 2 restarts, one task of a workflow at a time; 227 248 states | what is inactive does not run and is not queued (`OnlyActiveRun`), what is active runs once with the stored data or shows an error (`ActiveServed`), and runs in the end (`Activates`) |

`CHECK_DEADLOCK FALSE` is set in all runs: the system may stop, when requests have been served
and the bound on crashes is used up.

## 4. Fairness

The event loop runs what is due, database statements return and nodes end: that is the weak
fairness of the steps of an invocation, of a stop request that is under way, of pending saves and
of the steps of startup. A process that is down is restarted: shutdown and recovery are written for
that. Nothing assumes that a request, a stop,
a timeout, a shutdown or a crash happens.

`ConcurrencyControl` alone assumes that running production executions end (`WF(Finish)`); in
`ExecutionLifecycle` this follows from the fairness of the engine's steps.

`WaitingExecutions` needs *strong* fairness for the steps of an invocation and for the shutdown.
They are guarded by `Quiet`, and an execution that pauses, has its webhook called and pauses
again, for ever, makes `Quiet` false and true again and again. The event loop's queue is first in,
first out: what is ready keeps its place while promise continuations run in between, which is what
strong fairness says. There is no fairness on `WebhookResume`: no webhook need ever be called.

`MultiMainSetup`: Redis executes commands, the interval of the check recurs, a process that shuts
down ends, and a key that no running main renews expires. No main need ever start or be slow.
`LeaderDuties` adds, for the property `DueResumed` of section 8, that queries return and timers fire.

`Scaling`: awaited calls of the main, of a worker and of a stop request return, a waiting job is
handed out to some worker that has room, Bull finds stalled jobs, a worker that shuts down exits and
one that is down is started again. Messages that abort a job need not arrive, and queue recovery
need not run.

`WorkflowExecute`: nodes end, and the loop goes on. No cancellation, resume or retry need happen;
that a retry of a node succeeds is not assumed, for tries are counted.

`ActiveWorkflows`: what is under way for a workflow goes on and the timer of a queued activation
fires. Failures are bounded, which stands for an activation that succeeds in the end; a retry has no
limit in the code.

## 5. Assumptions and bounds

| constant | value | why it is enough, or what it leaves out |
| --- | --- | --- |
| `MaxCallers` | 5 | callers holding a slot or waiting: limit 2 plus a queue of 3, so that the head, the middle and the tail of the queue differ |
| `Calls` | 4; 2 or 3 in lifecycle runs | invocations alive at one time; one holds the only slot while one waits and one does neither |
| `MaxRestarts` | 0 to 2 | two, so that a restart interrupts the recovery of another and the two-run window of the log files moves on; none where a run needs no restart |
| `MaxEnds` | 3 | both mains end, and one that came back does |
| `MaxOverlap` | 1 or 2 | commands of one main under way. With 1, Redis answers a check before the interval (3 seconds) starts the next. With 2 it need not |
| `CrashesBeforeExpiry` | FALSE | excludes a main that ends between SETNX and EXPIRE. With TRUE the key never expires and `LeadershipTaken` fails (listed as a hazard) |
| `RequestsDuringBoot` | FALSE, TRUE in `MCBootRace.cfg` | a request before the start command has read the enqueued executions |
| `MaxPauses` | 1 or 0 | a paused execution is resumed and may end in any way; the second run has a job and an entry of its own |
| `MaxStalledCount` | 0 or 1 | none, so that a job of a worker that ends fails at once; one, so that it is picked up again and may fail after that. The default of the code is 1 |
| `LocksLapse`, `EventsLost`, `QuickResumes` | FALSE | a lock that expires while its worker is at work (a blocked event loop), a failure that the main learns of only from the watchdog, a pause that is over before the main has read the row it left. Section 8 says what follows from each |
| `Concurrency` | 1 | with two workers, two jobs are processed at a time |
| `MaxRuns` | 3 | two full turns of the loop; runs 0, 1 and 2 of a node tell an index from a count |
| `MaxRequests`, `MaxFailures` | 3 | an activation, an edit or deactivation, and a request after that; a failure that is retried, fails again, and a trigger or a closing function that fails later |
| `Triggers` | 1 | with two, a workflow may be half activated (section 8) |
| `Overlaps` | FALSE | requests of one workflow come one after the other, and not while a retry or the start adds it. With TRUE `OnlyActiveRun` and `ActiveServed` fail (section 8) |
| `FailingCloses` | requests | a closing function may fail in a request. When it fails in the removal of a workflow whose trigger failed, `ActiveServed` fails (section 8) |
| `ResumesOverlap` | FALSE | a resume takes milliseconds from the read of the row to its update, unless it waits for a slot. With TRUE a second call of the webhook, or a poll while the first resume waits for a slot, finds the row still `waiting`, and `ResumedOncePerPause` fails (listed as hazards). The run `waiting` has no limit, so that no resume waits |

- *Pausing* (`WaitingExecutions`): the save of a pause and the resolution of the engine's promise
  are microtasks apart; a resume has to ask the database first, which takes longer. A timed pause
  goes to the database only when it is longer than 65 seconds (shorter ones sleep in the node).
- Time is left out: a timer or an expiry may fire whenever it is set. This includes every real
  order and some that need an event loop blocked for long.
- One `ExecutionLifecycle` action stands for a database statement together with the synchronous
  code after its `await`; statements are atomic.
- An execution in `lifecycle_restart` may pause, but nothing resumes it there; that is
  `WaitingExecutions`.

## 6. What is proved

TLAPS checks the eight proof modules (`ConcurrencyControlProofs`, `QueueLemmas`,
`ExecutionLifecycleProofs`, `WaitingExecutionsProofs`, `LeadershipProofs`, `ScalingProofs`,
`WorkflowExecuteProofs` and `ActiveWorkflowsProofs`) to the last leaf: some 17 000 obligations, no
step left open. The theorems hold for all values of the constants under the assumptions stated in
the modules: `ProductionLimit` is an integer other than 0, `Cancellable` is a set of executions,
`QueueMode` is Boolean, an execution has a mode (`ModeOf`), executions and invocations are finite
sets, a workflow has a finite set of nodes with a start node among them and connections between them, `NoData` is neither
a batch nor a source, `NoMain`, `NoCall` and `NoEntry` are none of what they stand beside, and the
bounds are natural numbers. In particular they hold for any number of executions, callers, restarts,
mains and overlapping checks.

**Admission.** The inductive invariant is `TypeOK`, `CapacityAccounting` and `NoIdleSlot`.
`CapacityAccounting` is what makes the code's test `capacity < 0` mean "no slot is free":
whether a caller is let through is decided from the counter alone, so that `NoIdleSlot` is not
inductive without it. From it follow:

- `TypeCorrect`, `CapacityAccounted`, `SlotsNeverIdle`: the three invariants.
- `PlacesKept`: `OnePlaceInLine`, by lemmas on what `RemoveAt` and `Tail` leave of a queue.
- `NobodyOvertaken`: `NoOvertaking`, also when the stop of an execution lets the next one through:
  whoever is settled by a step was the head of what was left of the queue.
- `LineFrozen`: `FrozenAtShutdown`.
- `LimitKept` and `LineImplemented`, under the assumption `Cancellable = {}`: `WithinLimit`, and
  the refinement of `AdmissionLine` step by step. The assumption cannot be dropped:
  `MCConcurrencyOverLimit.cfg` shows why.

**The life of executions** (`ExecutionLifecycleProofs`), in regular mode, assuming `OrderlyBoot`, that
is `RequestsDuringBoot = FALSE`. The inductive invariant `IInv` says that an execution has one
invocation of `run` at most (`Alone`) and that the place where the invocation is tells what its entry
in `activeExecutions` is and whether its engine was cancelled (`Placed`): without an entry before it
registers, with an entry without an engine until the runner attaches one, with its own engine after
that, and without an entry again once a stop or a timeout cancelled the engine. `Known` says what
holds of the rows in the other direction: whose entry, save or list of startup an execution is on has
a row, and what has begun is not `new`, so that no startup takes it for enqueued. From it follow:

- `TypeCorrect`; `EnginesApart` (`OneEngine`); `EnginesFound` (`EnginesStoppable`).
- `BeginsOnce` (`BegunOnce`), an action property, across any number of crashes and restarts.
  `OrderlyBoot` cannot be dropped: `MCBootRace.cfg`.
- `EveryoneAttended` (`NoZombies`), assuming `SimpleRecovery` as well, which cannot be dropped either:
  `MCRecoveryZombie.cfg`. What is `running` has an invocation or a save under way (`Cared`).

`SlotsHeld` (`SlotsMatchHolders`) joins this with admission: the slots
handed out are as many as limited invocations let through and limited entries. Its induction needs
`Line` besides: who is in the queue waits there, once, and is limited, so that the slot that a removal
or a release hands on goes to somebody who will register or fail. That `remove` of an entry releases a
slot exactly once, although a stop, a timeout and the end of the engine all call it, rests on `Placed`.

`WaitingStored` (`EnqueuedSurvive`) and `StoppedStays` (`StoppedInQueueNeverStarts`), in the same
module, follow from `QInv`: what an execution that waits, or that startup has still to run, looks like
in the database and to a stop request (`Account`, `Stands`). An execution withdrawn from the queue
leaves its invocation `Outside`: unsettled and in no queue item, so that no later release or removal
can reach it. That the withdrawal is not bypassed needs the mode a stop request read to be the mode the
invocation asked for its slot with, which is why `QInv` follows the modes of rows, writes and requests.

**Executions that pause** (`WaitingExecutionsProofs`). `EntriesHaveTimers` (`NoDeadTimers`) needs no
assumption: `Tracks` adds that a process that is down tracks nothing, so that tracking starts without
entries. The other theorems assume `ResumesApart`:

- requests wait for the end of startup (`OrderlyBoot`), and nothing is polled or called again while it
  is being resumed (`ResumesOverlap = FALSE`);
- an execution pauses until a time or for its webhook, not for both (`MCWaitingWebhook.cfg` shows why);
- where executions wait for webhooks, recovery is extensive, as it is by default; and where there is a
  limit too, the stoppable ones of them have a mode that is subject to it. Section 8 says what happens
  otherwise: a row goes on saying that it is paused when it is over.

The invariant joins `IInv` and the slots' `SInv` with `PInv`. `OneToken` says that a paused execution
is found by one resumer only: polled, armed or read. Whoever holds that token finds a row that rests
and no invocation (`Free`); a row that rests has none but the one that is putting it to rest or the
one that is about to wake it (`Asleep`); before an engine starts its row is not `running` (`Unrun`).
`Moded` and `Barred` follow the modes, through rows, writes, stops and reads, so that a stop in the
queue takes the execution out of it. `Passes` states for one execution what every step of
`ExecutionLifecycle` keeps of this, and is shown once for each action. From it follow
`PausedEnginesApart` (`OneEngine`), `PausesResumedOnce` (`ResumedOncePerPause`) and `PausedSlotsHeld`
(`SlotsMatchHolders`), for any number of polls, timers, calls of webhooks, stops, crashes and restarts.

**Leader election** (`LeadershipProofs`). The inductive invariant is `TypeOK`, `ClaimsJustified` and `OffIsSilent`. A
main *claims* the leadership when `isLeader` is set or when the answer that will set it is on its
way; whoever claims it holds the key or was deprived of it since it set it. A process that is off
has nothing under way, so that a new incarnation inherits no claim. From it follow `TypeCorrect`
and `OneLeader` (`OneLeaderPerKey`): with any overlap of checks, any expiry and any crash.

`HolderWorks` (`HolderLeads`) assumes `OneCheck`, that is `MaxOverlap = 1`: Redis answers a check
before the next one starts. `HolderLeads` speaks of a main with nothing under way, so its induction
needs `Flows`, which says for each command and answer under way what holds of the key and of
`isLeader` then: a main reads or renews the key and leads if it holds it (`Steady`), tries to set a
key it does not hold (`Tries`), or has set it and gives it its expiry (`Wins`). The assumption cannot
be dropped: `MCMultiMainOverlap.cfg` violates `HolderLeads`.

**The duties of the leader** (in the same module). `ElectsAlone`: a behaviour with the services is
one of the election alone, so that the theorems above hold of it. `LeaderWorks` (`DutiesDone`), under
`OneCheck`: a main that works and is up has started every service and stopped none. Pruning starts
only where `isLeader` is set, and `Flows` is what shows that it is set when a takeover starts it.
`OneTracker` (`TrackersApart`), under the same assumption: of two mains that poll, one was deprived of
the key. Its invariant `PollersLead` says that a main that polls has `isLeader` set, and that while it
tries for the key, or its answer that it won or lost is on the way, it does not poll yet.

**Queue mode** (`ScalingProofs`). `TypeCorrect` needs, besides the types, that the runs named by
entries, errors and stop requests are runs of that execution (`Targets`). The rest assumes
`LocksHold`, that is `LocksLapse = FALSE`:

- `JobsHeld`: whoever works on a run owns its job. The inductive invariant is `Ownership`: that, and
  that a run whose job is in the queue was enqueued and is waited for (`Awaited`), and that a run
  whose enqueueing or job failed is not in the queue any more (`ErrorsEnded`).
- `EnginesApart`: `OneEngine`, when the runs of an execution take turns (`RunsInTurn`): executions do
  not pause, or a pause outlasts the main's handling of the run that began it (`QuickResumes = FALSE`)
  and either the main does not crash or no stalled job is handed out again. Section 8 says what happens
  otherwise. In the invariant `Turns`, `InTurn` says that once a run of an execution is created those
  before it are over for the main and for every worker; `PausedIdle`, that an execution that waits is
  not run by a worker, carries this past a crash of the main.
- `EveryoneAttended`: `NoZombies`, assuming `EventsArrive` (`EventsLost = FALSE`) as well. The
  inductive invariant `ZInv` says of every execution in progress that one of its runs is *tended*:
  its job waits, or is active and its worker has not saved yet, or it failed and the main is about to
  store that. `NoZombies` alone is not inductive: a worker whose job is active may end at any point,
  and what remains must still be something that stores an end. `StoppedOnly` keeps apart what only a
  stop request brings about.
- `ResultsAreIn` (`ResultReady`) and `FailuresStay` (`FailuresKept`), assuming `LocksHold`,
  `EventsArrive` and `RunsInTurn`. The invariant `RInv` says what the row holds when the end of a job is
  on its way to the main, or is found by its watchdog: the worker has saved its result and nobody has
  written over it since. It needs `Turns`, or a later run would set the row back to `running`.

**Activation** (`ActiveWorkflowsProofs`), for any number of workflows, triggers, requests, failures
and restarts, with tasks that overlap or not, and with no assumption on the constants but that they
are numbers and sets. `TypeCorrect` (`TypeOK`) has no condition; its invariant is `TInv`. The others
are about behaviours without the steps by which the code loses hold of a trigger that runs:

- `Crosses`: a request, a retry or the closing of triggers begins while another task has the workflow;
- `FailsHalfway`: an activation fails of which some triggers run already;
- `ClosesHalfway`: a closing function throws after another trigger was closed, or as a trigger has
  failed and nobody waits for the removal.

In such behaviours hold `InactiveStays` (`OnlyActiveRun`), `ActiveRuns` (`ActiveServed`) and
`RunningHeld` (`TriggersHeld`): every trigger that runs is in the entry in memory, so that a
deactivation closes it. Each condition excludes single steps, not causes: other workflows, failures,
retries and restarts interleave with all of them. None can be dropped: `MCStaleActivation.cfg`,
`MCHalfActivated.cfg` and `MCCloseFails.cfg` reach a step of one of them each, and violate one of
these properties. In
the run `active_workflows` no step is one of them, for `Overlaps` is FALSE, a single trigger cannot be
activated or closed in part, and `FailingCloses` leaves out `close`.

The inductive invariant `IInv` says that the entry in memory is what runs (`Kept`), that the workflow
has one task at most (`OneTask`), what holds of it at each step of each kind of task (`Phase`: while
triggers start, as many run as have been started), and what holds when no task is under way
(`Served`). That a trigger that starts is a new one, on which the counts rest, is a pigeonhole
argument about `NewTrigger`.

**The engine** (`WorkflowExecuteProofs`), for every workflow, whatever its nodes return, throw and
wait for, and through cancellations, resumes and retries. The inductive invariant `IInv` is `TypeOK`
and what makes it and the others inductive. What names a source is required of all items and entries
(`Sound`), because an entry becomes an item and an item goes back on the stack. A node that is run
again after an error item has a try left (`CurrentSound`): otherwise the loop that compares `try +
1` with `maxTries` would go past it. And when the loop finds nothing on the stack, no waiting node
may run (`Drained`).
From it follow:

- `TypeCorrect`: `TypeOK`, with the agreement of the keys of `waitingExecution` with its entries.
- `SourcesNamed`: `SourcesKnown`. The argument is `AddKeeps`: a merge that still lacks data after it
  got some on two inputs has three (`ThreeInputs`), and only then does the reset of the sources lose
  any.
- `MergesRun`: `MergesServed`. An entry lacks data, so that a node that requires every input and still
  waits is one whose required input got nothing; of the others `Drained` says why they wait.

That data is passed on along any number of connections is a recursive function (`Passed`). It exists
and keeps `Sound` by induction on the number of connections: the library's induction theorems take an
operator, but `WFMin`, that a set of numbers that is not empty has a least element, does not, and
`Induct` follows from it. The graph operators take the workflow as a parameter where they are
recursive, so that a step that does not change the workflow visibly does not change them
(`SameGraph`).

What a node gives is counted: the invariant `AInv` says that what a connection was given in a run is
in exactly one place (an item on the stack, a waiting entry, the node being executed, or what nodes
have executed) when that run is recorded, and in none otherwise; and that a run that paused or failed
passed nothing on, so that its record can be dropped when it goes on. Each step takes a batch from
one place and puts it in one (`CountAdded`, `CountServed`, `Consumes`), with one exception: the index
of a new waiting entry is the number of entries (`WorkflowExecute.ts:441`), and may be that of an
entry there is.

- `NothingLostElse`: `NothingLost`, as long as that does not happen. `Overwrites` is the step in which
  it does, and the theorem is about behaviours without one, of any workflow that lists no connection
  twice. `MCWorkflowBatchLost.cfg` shows that the condition cannot be dropped.

That no data comes late rests on the entries of a node being *nested*: a later one lacks whatever an
earlier one lacks (`NestedData`). Where an item lacks data, every node before it is done, and what is
left for the node lacks that data too (`Settled`, `InTime`); what a node lacked once it lacks in all it
executes later (`LaterLacks`). Together these are `LInv`. It needs that what is before a node includes
what is before its parents (`BeforeAcyclic`), which is a count: in a finite set of nodes, the steps
of `NodesBefore` stop adding any (`NodesBeforeAre`).

- `NoLateDataElse`: `NoLateData`, in behaviours in which no new entry of a node with more than two
  inputs is put before an older one (`OutOfOrder`). This condition was found by the proof, where the
  entries of a node would not stay nested; `MCWorkflowLate.cfg` shows that data does come late without
  it, for the same cause as above.
- `NoLateDataOfTwo`: `NoLateData` with no condition on the behaviour, where nodes have at most two
  inputs, however many connections lead to each. With two inputs the entries stay nested even where
  one replaces another.
- `NothingLostOrLate`: `NothingLost` and `NoLateData` with no condition on the behaviour, in workflows
  without loops in which one connection leads to each input and none to the start (`SingleFed`): six
  of the eight that the run `engine` checks. The invariant `SInv` says that a node is on the stack,
  executed or waiting once at most, and that nothing is there that would come from a node that is not
  done; so a node has one entry, and neither `Overwrites` nor `OutOfOrder` can happen.

Only model-checked are the liveness properties: liveness under fairness is outside what TLAPS does
here. All invariants and action properties that the passing runs check are stated by a theorem, some
under the assumptions and conditions named above.

## 7. Findings

Listed with its quotation in `PROJECT.json`, and a run that ends in a counterexample:

- **A paused execution is deleted in queue mode** (`workflow-execute-additional-data.ts:1075`). The
  main reads the row of an execution whose job has ended without `waitTill`, and asks
  `determineFinalExecutionStatus` for its status. What is neither an error, canceled nor crashed
  counts as success, and a success is deleted when the workflow does not save successful executions.
  An execution that paused is deleted with all its data and never resumes.

## 8. What the model shows and no property claims

The following properties are stated in the modules and do not hold; each has a configuration that
reproduces the counterexample (`tlc -config <file> <module>`), and is not part of the runs. The runs
exclude the behaviour by the constant named.

| configuration, module | property | what happens |
| --- | --- | --- |
| `MCConcurrencyOverLimit.cfg`, `MCConcurrencyControl` | `WithinLimit` | `ConcurrencyQueue.remove` (`concurrency-queue.ts:52`) gives back the capacity that the stopped execution had taken and then calls `resolveNext()`; no slot became free, and another one runs beside the limit (`Cancellable`) |
| `MCTimeoutOverwritten.cfg`, `MCExecutionLifecycle` | `CanceledStays` | a timeout or stop deletes the entry; when the engine then resolves, `getStatus` throws (`workflow-runner.ts:324`) and `processError` saves an error over the canceled row |
| `MCBootRace.cfg`, `MCExecutionLifecycle` | `BegunOnce` | webhooks are served before the enqueued executions are read (`commands/start.ts:311`); one that is created in between is `new`, is taken for one left over from the last run, and runs twice (`RequestsDuringBoot`) |
| `MCRecoveryZombie.cfg`, `MCExecutionLifecycle` | `NoZombies` | with messages in the logs but none of a node, `amend` returns null (`execution-recovery.service.ts:68`) and the row stays `running` (`RecoveryMode`) |
| `MCWaitingWebhook.cfg`, `MCWaitingExecutions` | `ResumedOncePerPause` | the timer of a pause that its webhook ended is not removed (`wait-tracker.ts:114`), and resumes again (`TimedWaits`, `WebhookWaits`) |
| `MCMultiMainOverlap.cfg`, `MCMultiMainSetup` | `HolderLeads` | two checks of one main find the key gone; the first sets it, the second fails to and makes its own main a follower that renews the key for ever (`multi-main-setup.ee.ts:120`) (`MaxOverlap`) |
| `MCFollowerPrunes.cfg`, `MCLeaderDuties` | `FollowersIdle` | a main is marked as a follower before it emits `leader-stepdown`; `stopPruning` asks `isPruningEnabled` (`services/pruning.service.ts:86`), which says no for a follower, and leaves the timers running |
| `MCDueResumed.cfg`, `MCLeaderDuties` | `DueResumed` | `stopTracking` clears timers and keeps their entries (`wait-tracker.ts:146`); when the same main leads again, the entries keep the poll from setting timers, and an execution that is due waits until the main restarts |
| `MCRecoversDangling.cfg`, `MCScaling` | `RecoversDangling` | queue recovery reads rows and then jobs (`scaling/scaling.service.ts:382`); an execution that is stored and not enqueued yet, or enqueued between the second read and the update, is marked as crashed while its job is in the queue |
| `MCWorkflowBatchLost.cfg`, `MCWorkflowExecute` | `NothingLost` | the index of a new waiting entry is the number of entries (`packages/core/src/WorkflowExecute.ts:441`): after the first of two entries was executed, it is that of the other, whose data is replaced. A merge that is fed on inputs 1, 1, 2, 1 in that order loses a batch |
| `MCWorkflowLate.cfg`, `MCWorkflowExecute` | `NoLateData` | the same index puts a new entry before an older one: of three entries the first two were executed, the new one gets index 1, and the one that waits has index 2. When nothing else is left the search executes the new one, without data for the second input, and then the older one, which has it. A merge with three inputs that is fed on inputs 1, 1, 1, 2, 2, 2, 3, 3, 1 in that order gets there |
| `MCHalfActivated.cfg`, `MCActiveWorkflows` | `OnlyActiveRun` | when the second trigger of a workflow fails to start (`packages/core/src/ActiveWorkflows.ts:92`), the first is left running and the workflow becomes inactive (`Triggers`) |
| `MCStaleActivation.cfg`, `MCActiveWorkflows` | `OnlyActiveRun` | a deactivation that comes while the start of the process still has the workflow on its list, while a retry is in flight, or while another request adds it, leaves an inactive workflow that runs (`Overlaps`) |
| `MCCloseFails.cfg`, `MCActiveWorkflows` | `ActiveServed` | when the closing function of a trigger that failed throws as well (`packages/core/src/ActiveWorkflows.ts:228`), nobody waits for that removal (`active-workflow-manager.ts`, `emitError`), and the trigger runs on beside the queued activation. When that succeeds its entry replaces the one in memory, and the old trigger is out of reach (`FailingCloses`) |

The modules also contain these behaviours, because the code does; no property calls them right or
wrong.

*Regular mode*

- A stop request that finds an entry whose engine is not attached yet fails (`StopFails`).
- A stop request that arrives while `updateExistingExecution` or `updateStatus` is under way, or
  between the read of the enqueued executions and their start, finds neither a queue item nor an
  entry (`StopUnknown`): the row becomes `canceled`, and the execution then starts all the same.
- A crash between the two inserts of `createNewExecution` leaves a row that is `new` for ever.
- Simple recovery marks what it finds in the logs as crashed, even if its row is already
  `canceled` or `success`. A paused row that is marked as crashed keeps its data, so that its
  webhook can still resume it.
- Joining the queue and being run by `runEnqueuedExecutions` count as the end of an execution in
  the event log (`LogThrottled`, `RunEnqueued`), so that recovery does not touch what waits.
- A timer that fires for an execution deleted meanwhile throws, and the promise is not handled.
- An execution with a mode that has no limit may be resumed by a webhook, which is subject to the
  limit, and wait in the queue. A stop request calls `remove` with the mode of the row, which returns
  early (`concurrency-control.service.ts`), and stores `canceled`. The execution stays in the queue,
  is let through and runs; until it does its row looks paused, and the webhook can resume it again.

*Queue mode*

- The abort of a job that is active but not yet in `runningJobs` is lost; the execution goes on.
- `processError` of a canceled run stores `error` over `canceled`.
- After `job.remove()` the watchdog may find the job gone, read the row while it is still `new`, and
  treat it as a success.
- A worker that ends after it saved the result and before it completed the job makes another worker
  run the execution again; one that ends while the save of an abort is pending leaves the row
  `running` for recovery at its next start.
- A worker that shuts down waits for `runningJobs` only: a job whose execution is still being loaded
  is left to stall.
- When the event that a job failed is lost, the watchdog takes the run for ended and nothing stores
  the failure (`EventsLost = TRUE`).
- Queue recovery does nothing while the queue is empty.
- A run whose row is gone rejects before its entry is removed (`workflow-runner.ts:512`); the entry
  stays until the process ends.
- When a pause is over before the main has handled the end of the first run, `remove` of the first
  takes the entry of the second away (`QuickResumes = TRUE`).
- A worker saves that an execution pauses and goes away before it completes the job. When the pause is
  over, and the main has crashed meanwhile or not yet heard of the end of the job, the execution is
  resumed with a new job while the stalled one is handed out again: two workers run it
  (`OneEngine` with `MaxStalledCount = 1` and either `QuickResumes = TRUE` or a crash of the main).

*Engine*

- `didContinueOnFail` is not updated between tries: a node that returned an error as an item is run
  as often as it may be tried, and what it returns then is dropped.
- A node with three or more inputs loses the sources of all but the last one that arrived
  (`SourcesKnown` excepts it).
- A node that returns null skips the search for waiting nodes (`MergesServed` excepts it).
- A retry of an execution that was stopped goes on with what was left on the stack: the node that
  ran when it was stopped is not on it.
- Run indexes of waiting entries are sorted as strings; the model has fewer than ten.

*Leadership*

- A query of the wait tracker that is under way when its main steps down sets timers in a follower,
  which resumes what the next leader resumes as well.
- A recovery cycle under way schedules the next one after `stopQueueRecovery`; a main that leads again
  then has two chains.

*Activation*

- `retryFunction` throws a TypeError when its entry was removed while `add` was under way.
- In a multi-main setup (not modelled): `add` of a follower publishes to the leader, whose failed
  activation sets `active` to false at once, where a single main keeps on trying; the debouncing of
  received commands looks at the command only, so that of two activations within 100 ms one is
  dropped.

## 9. What is not modelled

- Manual executions, with partial execution, pinned data and run filters; execution order `v0`;
  saving progress after each node; wait nodes that sleep in memory.
- Post-execute promises and responses to webhooks: nothing in the models depends on them.
- Telemetry, logging levels, log rotation by size, event destinations, metrics of the queue.
- The flag file by which recovery skips what made it fail before.
- Database failures: a statement succeeds or the process crashes.
- Webhooks and crons of active workflows, and the commands between mains.
- Some pairs of statements that no property tells apart: `updateExistingExecution` writes
  `execution_entity` and then `execution_data` (`ExecutionStore.Resumed`), and in queue mode the two
  inserts of `createNewExecution` are one step (`Scaling.Create`; in regular mode they are two).
- In a worker: the timeout of an execution, a failed permission check, and the exception for a
  workflow that does not exist any more (`scaling/job-processor.ts:57`). The main learns
  of these as it does of a job that failed by its stalls (`JobFails`).
- The deletions of pruning: single statements, with a buffer of an hour between soft and hard
  deletion.
- The editor, REST API, credentials, nodes, LDAP/SAML, source control: around the core, without a
  protocol that it depends on. They are the bulk of the repository by size.

## 10. Plan

Done: admission, rows, lifecycle, waiting, leader election, the duties of the leader, queue mode, the
engine, activation, and the theorems of section 6. What a next step would take, most important first:

1. **Activation in a multi-main setup**: `ActiveWorkflows` with `MultiMainSetup`, where followers
   publish requests, commands are debounced, and a takeover adds what the leader before had.
   Properties: a trigger runs in one main only; what was activated runs in the leader in the end.
2. **Proofs** about the engine where a merge gets several batches per input: which workflows other
   than `SingleFed` ones never take a step `Overwrites`.
3. **Manual executions** of the engine: partial execution from a start node over stored run data,
   where it builds the stack and the waiting entries itself.
4. **Sub-workflows**: an execution that starts another one and waits for it, through admission, stop
   and timeout.
5. **Deletion**: soft deletion, hard deletion and executions that still run or wait.
