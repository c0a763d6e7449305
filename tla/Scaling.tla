-------------------------------- MODULE Scaling --------------------------------
(***************************************************************************)
(* Executions in queue mode: the main enqueues a job for each              *)
(* (WorkflowRunner.enqueueExecution, workflow-runner.ts), workers process  *)
(* jobs (scaling/job-processor.ts), ScalingService stops jobs, drains a    *)
(* worker that shuts down and marks dangling executions as crashed         *)
(* (scaling/scaling.service.ts), and ExecutionService stops executions.    *)
(* Rows are those of ExecutionStore.                                       *)
(*                                                                         *)
(* A run is one invocation of WorkflowRunner.run(); it has one job.  An    *)
(* execution has its first run when it is created and one more each time   *)
(* it is resumed after a pause.  Every handler is cut at its awaits.       *)
(*                                                                         *)
(* The queue is Bull's, in Redis.  A worker holds a lock on the job it     *)
(* processes; a job whose lock expired is stalled and waits again, or      *)
(* fails when that happened too often.  A job that ends leaves the queue   *)
(* at once (removeOnComplete, removeOnFail).                               *)
(***************************************************************************)
EXTENDS Integers, FiniteSets

CONSTANTS
    Executions,
    Workers,
    NoWorker,
    NoEntry,          \* no entry in ActiveExecutions
    Pending,          \* an entry without a run
    Concurrency,      \* jobs a worker processes at a time
    MaxStalledCount,  \* queue.bull.settings.maxStalledCount
    Outcomes,         \* how an engine that is left alone may end
    Pausing,          \* executions whose workflow has a wait node
    MaxPauses,        \* bound: pauses of an execution
    KeepSuccess, KeepError,
    Stoppables,       \* executions a user may ask to stop
    RedisFails,       \* adding a job may fail
    Watchdog,         \* queue.bull.queueRecoveryInterval > 0
    EventsLost,       \* the watchdog may look before the main learns that a job failed
    LocksLapse,       \* a lock may expire while its worker still processes the job
    QuickResumes,     \* a pause may be over before the main learns that its job ended
    QueueRecovery,    \* this main is the leader, which recovers from the queue
    MaxEnds,          \* bound: crashes and shutdowns of workers
    MaxMainCrashes    \* bound: crashes of the main

ASSUME MaxStalledCountAssumption == MaxStalledCount \in Nat
ASSUME NoWorkerAssumption == NoWorker \notin Workers
ASSUME OutcomesAssumption == Outcomes \subseteq {"success", "error", "waiting"}
ASSUME BoundsAssumption == MaxPauses \in Nat /\ MaxEnds \in Nat /\ MaxMainCrashes \in Nat

Runs == Executions \X (1..MaxPauses + 1)
Id(r) == r[1]
Attempt(r) == r[2]
ASSUME NoEntryAssumption == NoEntry \notin Runs \cup {Pending} /\ Pending \notin Runs

VARIABLES
    row,         \* [Executions -> row of the database]
    entry,       \* ActiveExecutions of the main: Pending, the run attached, or NoEntry
    main,        \* [Runs -> where the main is with the run]
    cancel,      \* [Runs -> where the handler of cancel() is]
    errors,      \* calls of processError under way
    stop,        \* [Executions -> the user's stop request]
    recovery,    \* the queue recovery cycle
    job,         \* [Runs -> the job in the queue]
    aborts,      \* abort-job messages on their way to workers
    worker,      \* [Workers -> up, stopping, down]
    work,        \* [Workers -> [Runs -> where the worker is with the job]]
    aborted,     \* engines whose PCancelable a worker cancelled
    saves,       \* saves under way that cancel() of an engine started
    workerLog,   \* [Workers -> executions its event log calls unfinished]
    ends,        \* crashes and shutdowns of workers so far
    mainCrashes  \* crashes of the main so far

mainVars == <<entry, main, cancel, errors, stop, recovery, mainCrashes>>
workerVars == <<worker, work, aborted, saves, workerLog, ends>>
queueVars == <<job, aborts>>
vars == <<row, mainVars, queueVars, workerVars>>

MainStore == INSTANCE ExecutionStore

\* The save hook of queue mode (hookFunctionsSaveWorker) never deletes.
WorkerStore == INSTANCE ExecutionStore WITH KeepSuccess <- TRUE, KeepError <- TRUE

Mode == "webhook"
Succeeded(r) == r.status = "success" /\ MainStore!Finished(r)

NoWork == [pc |-> "none", outcome |-> "none"]
NoJob == [at |-> "none", owner |-> NoWorker, stalls |-> 0]

Init ==
    /\ row = [e \in Executions |-> MainStore!NotInserted]
    /\ entry = [e \in Executions |-> NoEntry]
    /\ main = [r \in Runs |-> "none"]
    /\ cancel = [r \in Runs |-> "none"]
    /\ errors = {}
    /\ stop = [e \in Executions |-> [pc |-> "none", run |-> NoEntry]]
    /\ recovery = [pc |-> "idle", ids |-> {}]
    /\ job = [r \in Runs |-> NoJob]
    /\ aborts = {}
    /\ worker = [w \in Workers |-> "up"]
    /\ work = [w \in Workers |-> [r \in Runs |-> NoWork]]
    /\ aborted = {}
    /\ saves = {}
    /\ workerLog = [w \in Workers |-> {}]
    /\ ends = 0
    /\ mainCrashes = 0

InQueue(r) == job[r].at \in {"waiting", "active"}
Working(w, r) == work[w][r].pc # "none"

\* The jobs in JobProcessor.runningJobs.
Registered(w, r) ==
    work[w][r].pc \in {"running", "saving", "saved"} /\ <<w, r>> \notin aborted

-------------------------------------------------------------------------------
(***************************************************************************)
(* WorkflowRunner of the main: run and enqueueExecution.                   *)
(***************************************************************************)

\* A new execution is stored and gets its entry (ActiveExecutions.add).
Create(e) ==
    /\ row[e] = MainStore!NotInserted /\ main[<<e, 1>>] = "none"
    /\ row' = [row EXCEPT ![e] = MainStore!WithInsertedData(MainStore!InsertedEntity(Mode))]
    /\ entry' = [entry EXCEPT ![e] = Pending]
    /\ main' = [main EXCEPT ![<<e, 1>>] = "adding"]
    /\ UNCHANGED <<cancel, errors, stop, recovery, mainCrashes, queueVars, workerVars>>

\* A pause is over: its timer fires, or its webhook is called.
Resume(r) ==
    /\ Attempt(r) > 1
    /\ main[r] = "none"
    /\ LET before == main[<<Id(r), Attempt(r) - 1>>]
       IN  before \in (IF QuickResumes THEN {"awaiting", "done", "lost"} ELSE {"done", "lost"})
    /\ row[Id(r)].status = "waiting"
    /\ row' = [row EXCEPT ![Id(r)] = MainStore!Resumed(@)]
    /\ entry' = [entry EXCEPT ![Id(r)] = Pending]
    /\ main' = [main EXCEPT ![r] = "adding"]
    /\ UNCHANGED <<cancel, errors, stop, recovery, mainCrashes, queueVars, workerVars>>

\* processError, before the first read.
Fails(r, from) == errors' = errors \cup {[run |-> r, from |-> from, pc |-> "check"]}

\* Redis adds the job, ...
AddJob(r) ==
    /\ main[r] = "adding"
    /\ job' = [job EXCEPT ![r].at = "waiting"]
    /\ main' = [main EXCEPT ![r] = "added"]
    /\ UNCHANGED <<row, entry, cancel, errors, stop, recovery, mainCrashes, aborts, workerVars>>

\* ... or does not answer.
AddJobFails(r) ==
    /\ RedisFails
    /\ main[r] = "adding"
    /\ main' = [main EXCEPT ![r] = "rejecting"]
    /\ Fails(r, "enqueue")
    /\ UNCHANGED <<row, entry, cancel, stop, recovery, mainCrashes, queueVars, workerVars>>

\* The main waits for the job.  Attaching throws when the entry is gone; the run
\* goes on without one.
Attach(r) ==
    /\ main[r] = "added"
    /\ main' = [main EXCEPT ![r] = "awaiting"]
    /\ entry' = [entry EXCEPT ![Id(r)] = IF @ = NoEntry THEN NoEntry ELSE r]
    /\ UNCHANGED <<row, cancel, errors, stop, recovery, mainCrashes, queueVars, workerVars>>

\* Mutant of JobSucceeds: no watchdog; the main learns of completed jobs only.
JobCompletes(r) ==
    /\ main[r] = "awaiting"
    /\ job[r].at = "completed"
    /\ main' = [main EXCEPT ![r] = "reading"]
    /\ UNCHANGED <<row, entry, cancel, errors, stop, recovery, mainCrashes, queueVars,
                   workerVars>>

\* job.finished() resolves, or the watchdog finds that the job left the queue.
EndsQuietly ==
    {"completed"} \cup (IF Watchdog THEN {"removed"} ELSE {})
                  \cup (IF Watchdog /\ EventsLost THEN {"failed"} ELSE {})

JobSucceeds(r) ==
    /\ main[r] = "awaiting"
    /\ job[r].at \in EndsQuietly
    /\ main' = [main EXCEPT ![r] = "reading"]
    /\ UNCHANGED <<row, entry, cancel, errors, stop, recovery, mainCrashes, queueVars,
                   workerVars>>

\* Mutant of JobFails: what failed counts as ended.
JobFailsQuietly(r) ==
    /\ main[r] = "awaiting"
    /\ job[r].at = "failed"
    /\ main' = [main EXCEPT ![r] = "reading"]
    /\ UNCHANGED <<row, entry, cancel, errors, stop, recovery, mainCrashes, queueVars,
                   workerVars>>

JobFails(r) ==
    /\ main[r] = "awaiting"
    /\ job[r].at = "failed"
    /\ main' = [main EXCEPT ![r] = "failing"]
    /\ Fails(r, "executor")
    /\ UNCHANGED <<row, entry, cancel, stop, recovery, mainCrashes, queueVars, workerVars>>

\* Mutant of StatusRead: an error counts only when the data says so.
StatusWithoutError(status) ==
    IF status \in {"crashed", "canceled"} THEN status ELSE "success"

(***************************************************************************)
(* The status determineFinalExecutionStatus gives for what the main read.  *)
(* The main reads the status of the row, and not waitTill.                 *)
(***************************************************************************)
StatusRead(status) ==
    IF status \in {"crashed", "canceled", "error"} THEN status ELSE "success"

\* The main reads the row and removes whatever entry the execution has.  When
\* the row is gone it rejects before that.
ReadResult(r) ==
    /\ main[r] \in {"reading", "rejected"}
    /\ \/ /\ ~MainStore!Exists(row[Id(r)])
          /\ main' = [main EXCEPT ![r] = "done"]
          /\ UNCHANGED entry
       \/ /\ MainStore!Exists(row[Id(r)])
          /\ main' = [main EXCEPT ![r] =
                         IF MainStore!ShouldNotSave(StatusRead(row[Id(r)].status))
                         THEN "deleting" ELSE "done"]
          /\ entry' = [entry EXCEPT ![Id(r)] = NoEntry]
    /\ UNCHANGED <<row, cancel, errors, stop, recovery, mainCrashes, queueVars, workerVars>>

\* The hook of the main deletes what is not to be kept.
DeleteResult(r) ==
    /\ main[r] = "deleting"
    /\ main' = [main EXCEPT ![r] = "done"]
    /\ row' = [row EXCEPT ![Id(r)] = MainStore!Deleted]
    /\ UNCHANGED <<entry, cancel, errors, stop, recovery, mainCrashes, queueVars, workerVars>>

(***************************************************************************)
(* processError reads the row first: a job that Bull calls stalled may     *)
(* have succeeded.                                                         *)
(***************************************************************************)
Handled(p) ==
    \/ p.from = "enqueue" /\ main' = [main EXCEPT ![p.run] = "done"] /\ UNCHANGED cancel
    \/ p.from = "executor" /\ main' = [main EXCEPT ![p.run] = "rejected"] /\ UNCHANGED cancel
    \/ p.from = "cancel" /\ cancel' = [cancel EXCEPT ![p.run] = "done"] /\ UNCHANGED main

CheckError(p) ==
    /\ p.pc = "check"
    /\ \/ /\ Succeeded(row[Id(p.run)])
          /\ errors' = errors \ {p}
          /\ Handled(p)
          /\ UNCHANGED entry
       \/ /\ ~Succeeded(row[Id(p.run)])
          /\ errors' = (errors \ {p}) \cup {[p EXCEPT !.pc = "save"]}
          /\ entry' = [entry EXCEPT ![Id(p.run)] = NoEntry]
          /\ UNCHANGED <<main, cancel>>
    /\ UNCHANGED <<row, stop, recovery, mainCrashes, queueVars, workerVars>>

SaveError(p) ==
    /\ p.pc = "save"
    /\ errors' = errors \ {p}
    /\ Handled(p)
    /\ row' = [row EXCEPT ![Id(p.run)] = WorkerStore!Saved(@, "error", Mode)]
    /\ UNCHANGED <<entry, stop, recovery, mainCrashes, queueVars, workerVars>>

-------------------------------------------------------------------------------
(***************************************************************************)
(* Stopping.  ScalingService.stopJob asks whether the job is active, and   *)
(* then tells the workers to abort it or removes it.                       *)
(***************************************************************************)
Checked(r) == IF job[r].at = "active" THEN "active" ELSE "inactive"

\* All workers receive the message.
Broadcast(r) ==
    /\ aborts' = aborts \cup { <<w, r>> : w \in { v \in Workers : worker[v] # "down" } }
    /\ UNCHANGED job

StopJob(r, was) ==
    \/ /\ was = "inactive" /\ job[r].at = "waiting"
       /\ job' = [job EXCEPT ![r].at = "removed"]
       /\ UNCHANGED aborts
    \/ was = "active" /\ InQueue(r) /\ Broadcast(r)
    \/ was = "inactive" /\ job[r].at = "active" /\ Broadcast(r)   \* it cannot be removed
    \/ was = "inactive" /\ ~InQueue(r) /\ UNCHANGED queueVars

\* Reporting progress of a job that left the queue throws.
StopJobThrows(r, was) == was = "active" /\ ~InQueue(r) /\ UNCHANGED queueVars

\* cancel() of the run, called by a stop request.
CheckJob(r) ==
    /\ cancel[r] = "requested"
    /\ cancel' = [cancel EXCEPT ![r] = Checked(r)]
    /\ UNCHANGED <<row, entry, main, errors, stop, recovery, mainCrashes, queueVars, workerVars>>

CancelJob(r) ==
    /\ cancel[r] \in {"active", "inactive"}
    /\ \/ /\ StopJob(r, cancel[r])
          /\ cancel' = [cancel EXCEPT ![r] = "failing"]
          /\ Fails(r, "cancel")
       \/ /\ StopJobThrows(r, cancel[r])
          /\ cancel' = [cancel EXCEPT ![r] = "done"]
          /\ UNCHANGED errors
    /\ UNCHANGED <<row, entry, main, stop, recovery, mainCrashes, workerVars>>

\* ExecutionService.stop reads the row, ...
StopRequested(e) ==
    /\ e \in Stoppables
    /\ stop[e].pc = "none"
    /\ MainStore!Stoppable(row[e])
    /\ stop' = [stop EXCEPT ![e].pc = "read"]
    /\ UNCHANGED <<row, entry, main, cancel, errors, recovery, mainCrashes, queueVars, workerVars>>

\* ... stops the entry, which throws when it has no run yet, ...
StopEntry(e) ==
    /\ stop[e].pc = "read"
    /\ \/ /\ entry[e] = Pending
          /\ stop' = [stop EXCEPT ![e].pc = "failed"]
          /\ UNCHANGED <<entry, cancel>>
       \/ /\ entry[e] = NoEntry
          /\ stop' = [stop EXCEPT ![e].pc = "seeking"]
          /\ UNCHANGED <<entry, cancel>>
       \/ /\ entry[e] \in Runs
          /\ stop' = [stop EXCEPT ![e].pc = "seeking"]
          /\ entry' = [entry EXCEPT ![e] = NoEntry]
          /\ cancel' = IF main[entry[e]] \in {"awaiting", "failing", "reading"}
                       THEN [cancel EXCEPT ![entry[e]] = "requested"] ELSE cancel
    /\ UNCHANGED <<row, main, errors, recovery, mainCrashes, queueVars, workerVars>>

\* ... looks for the job, ...
FindJob(e) ==
    /\ stop[e].pc = "seeking"
    /\ \/ \E r \in Runs : Id(r) = e /\ InQueue(r) /\ stop' = [stop EXCEPT ![e] = [pc |-> "found", run |-> r]]
       \/ /\ \A r \in Runs : Id(r) = e => ~InQueue(r)
          /\ stop' = [stop EXCEPT ![e].pc = "storing"]
    /\ UNCHANGED <<row, entry, main, cancel, errors, recovery, mainCrashes, queueVars, workerVars>>

\* ... stops it, ...
CheckFoundJob(e) ==
    /\ stop[e].pc = "found"
    /\ stop' = [stop EXCEPT ![e].pc = Checked(stop[e].run)]
    /\ UNCHANGED <<row, entry, main, cancel, errors, recovery, mainCrashes, queueVars, workerVars>>

StopFoundJob(e) ==
    /\ stop[e].pc \in {"active", "inactive"}
    /\ \/ /\ StopJob(stop[e].run, stop[e].pc)
          /\ stop' = [stop EXCEPT ![e] = [pc |-> "storing", run |-> NoEntry]]
       \/ /\ StopJobThrows(stop[e].run, stop[e].pc)
          /\ stop' = [stop EXCEPT ![e] = [pc |-> "failed", run |-> NoEntry]]
    /\ UNCHANGED <<row, entry, main, cancel, errors, recovery, mainCrashes, workerVars>>

\* ... and stores the execution as canceled.
StopStored(e) ==
    /\ stop[e].pc = "storing"
    /\ row' = [row EXCEPT ![e] = MainStore!StoppedDuringRun(@)]
    /\ stop' = [stop EXCEPT ![e].pc = "done"]
    /\ UNCHANGED <<entry, main, cancel, errors, recovery, mainCrashes, queueVars, workerVars>>

-------------------------------------------------------------------------------
(***************************************************************************)
(* ScalingService.recoverFromQueue: executions in progress that have no    *)
(* job are marked as crashed.  The two reads and the write are three       *)
(* steps.                                                                  *)
(***************************************************************************)
InProgress(e) == row[e].status \in {"new", "running"}
Queued == { Id(r) : r \in { s \in Runs : InQueue(s) } }

ReadStored ==
    /\ QueueRecovery
    /\ recovery.pc = "idle"
    /\ \E e \in Executions : InProgress(e)
    /\ recovery' = [pc |-> "read", ids |-> { e \in Executions : InProgress(e) }]
    /\ UNCHANGED <<row, entry, main, cancel, errors, stop, mainCrashes, queueVars, workerVars>>

\* With an empty queue nothing is recovered.
FindDangling ==
    /\ recovery.pc = "read"
    /\ recovery' = IF Queued = {} \/ recovery.ids \subseteq Queued
                   THEN [pc |-> "idle", ids |-> {}]
                   ELSE [pc |-> "found", ids |-> recovery.ids \ Queued]
    /\ UNCHANGED <<row, entry, main, cancel, errors, stop, mainCrashes, queueVars, workerVars>>

MarkDangling ==
    /\ recovery.pc = "found"
    /\ row' = [e \in Executions |->
                  IF e \in recovery.ids THEN MainStore!WithStatus(row[e], "crashed") ELSE row[e]]
    /\ recovery' = [pc |-> "idle", ids |-> {}]
    /\ UNCHANGED <<entry, main, cancel, errors, stop, mainCrashes, queueVars, workerVars>>

-------------------------------------------------------------------------------
(***************************************************************************)
(* JobProcessor of a worker.                                               *)
(***************************************************************************)
At(w, r, pc) == work' = [work EXCEPT ![w][r].pc = pc]

Leaves(w, r, how) ==
    job' = IF job[r].at = "active" /\ job[r].owner = w
           THEN [job EXCEPT ![r].at = how, ![r].owner = NoWorker] ELSE job

\* Bull hands a waiting job to a worker that has room for it.
PickUp(w, r) ==
    /\ worker[w] = "up"
    /\ job[r].at = "waiting"
    /\ ~Working(w, r)
    /\ Cardinality({ s \in Runs : Working(w, s) }) < Concurrency
    /\ job' = [job EXCEPT ![r].at = "active", ![r].owner = w]
    /\ At(w, r, "picked")
    /\ UNCHANGED <<row, mainVars, aborts, worker, aborted, saves, workerLog, ends>>

\* processJob reads the execution; the job fails when there is none.
ReadExecution(w, r) ==
    /\ work[w][r].pc = "picked"
    /\ \/ MainStore!Exists(row[Id(r)]) /\ At(w, r, "read") /\ UNCHANGED job
       \/ ~MainStore!Exists(row[Id(r)]) /\ At(w, r, "none") /\ Leaves(w, r, "failed")
    /\ UNCHANGED <<row, mainVars, aborts, worker, aborted, saves, workerLog, ends>>

MarkRunning(w, r) ==
    /\ work[w][r].pc = "read"
    /\ row' = [row EXCEPT ![Id(r)] = MainStore!WithStatus(@, "running")]
    /\ At(w, r, "marked")
    /\ UNCHANGED <<mainVars, queueVars, worker, aborted, saves, workerLog, ends>>

\* The engine starts and is registered in runningJobs; its start is logged.
StartEngine(w, r) ==
    /\ work[w][r].pc = "marked"
    /\ At(w, r, "running")
    /\ workerLog' = [workerLog EXCEPT ![w] = @ \cup {Id(r)}]
    /\ UNCHANGED <<row, mainVars, queueVars, worker, aborted, saves, ends>>

\* The engine leaves its loop; one that was cancelled before ends as canceled.
EngineEnds(w, r) ==
    /\ work[w][r].pc = "running"
    /\ \E o \in IF <<w, r>> \in aborted THEN {"canceled", "aborted"}
                ELSE { o \in Outcomes :
                           o = "waiting" => Id(r) \in Pausing /\ Attempt(r) <= MaxPauses } :
          work' = [work EXCEPT ![w][r] = [pc |-> "saving", outcome |-> o]]
    /\ UNCHANGED <<row, mainVars, queueVars, worker, aborted, saves, workerLog, ends>>

\* Mutant of EngineSaves: the save fails, and nobody notices.
EngineSavesNothing(w, r) ==
    /\ work[w][r].pc = "saving"
    /\ At(w, r, "saved")
    /\ workerLog' = [workerLog EXCEPT ![w] = @ \ {Id(r)}]
    /\ UNCHANGED <<row, mainVars, queueVars, worker, aborted, saves, ends>>

\* Its hook saves the result and logs the end.  When a node threw the abort error
\* that is left to the save that cancel() started.
EngineSaves(w, r) ==
    /\ work[w][r].pc = "saving"
    /\ row' = IF work[w][r].outcome = "aborted" THEN row
              ELSE [row EXCEPT ![Id(r)] = WorkerStore!Saved(@, work[w][r].outcome, Mode)]
    /\ At(w, r, "saved")
    /\ workerLog' = IF work[w][r].outcome = "aborted" THEN workerLog
                    ELSE [workerLog EXCEPT ![w] = @ \ {Id(r)}]
    /\ UNCHANGED <<mainVars, queueVars, worker, aborted, saves, ends>>

\* Mutant of JobEnds: the job ends without waiting for its result to be saved.
JobEndsEarly(w, r) ==
    /\ work[w][r].pc \in {"saving", "saved"}
    /\ work' = [work EXCEPT ![w][r] = NoWork]
    /\ aborted' = aborted \ {<<w, r>>}
    /\ Leaves(w, r, "completed")
    /\ UNCHANGED <<row, mainVars, aborts, worker, saves, workerLog, ends>>

\* processJob returns; Bull completes the job if the worker still holds its lock.
JobEnds(w, r) ==
    /\ work[w][r].pc = "saved"
    /\ work' = [work EXCEPT ![w][r] = NoWork]
    /\ aborted' = aborted \ {<<w, r>>}
    /\ Leaves(w, r, "completed")
    /\ UNCHANGED <<row, mainVars, aborts, worker, saves, workerLog, ends>>

\* An abort-job message arrives.  It concerns only a job in runningJobs; there
\* cancel() runs the handler of the engine, which saves.
DeliverAbort(w, r) ==
    /\ <<w, r>> \in aborts
    /\ aborts' = aborts \ {<<w, r>>}
    /\ IF Registered(w, r)
       THEN aborted' = aborted \cup {<<w, r>>} /\ saves' = saves \cup {<<w, r>>}
       ELSE UNCHANGED <<aborted, saves>>
    /\ UNCHANGED <<row, mainVars, job, worker, work, workerLog, ends>>

SaveAborted(w, r) ==
    /\ <<w, r>> \in saves
    /\ saves' = saves \ {<<w, r>>}
    /\ row' = [row EXCEPT ![Id(r)] = WorkerStore!Saved(@, "canceled", Mode)]
    /\ workerLog' = [workerLog EXCEPT ![w] = @ \ {Id(r)}]
    /\ UNCHANGED <<mainVars, queueVars, worker, work, aborted, ends>>

(***************************************************************************)
(* A worker process.                                                       *)
(***************************************************************************)
GoesDown(w) ==
    /\ worker' = [worker EXCEPT ![w] = "down"]
    /\ work' = [work EXCEPT ![w] = [r \in Runs |-> NoWork]]
    /\ aborted' = { x \in aborted : x[1] # w }
    /\ saves' = { x \in saves : x[1] # w }
    /\ aborts' = { x \in aborts : x[1] # w }
    /\ UNCHANGED <<row, mainVars, job, workerLog>>

Crash(w) ==
    /\ worker[w] # "down"
    /\ ends < MaxEnds
    /\ ends' = ends + 1
    /\ GoesDown(w)

\* ScalingService.stop pauses the queue for this worker ...
BeginShutdown(w) ==
    /\ worker[w] = "up"
    /\ ends < MaxEnds
    /\ ends' = ends + 1
    /\ worker' = [worker EXCEPT ![w] = "stopping"]
    /\ UNCHANGED <<row, mainVars, queueVars, work, aborted, saves, workerLog>>

\* ... and waits until runningJobs is empty.
Exit(w) ==
    /\ worker[w] = "stopping"
    /\ \A r \in Runs : ~Registered(w, r)
    /\ GoesDown(w)
    /\ UNCHANGED ends

(***************************************************************************)
(* A worker that starts recovers what its own log calls unfinished.  What  *)
(* the log holds of nodes decides whether a row is amended.                *)
(***************************************************************************)
Amended(r) ==
    IF r.status = "success" \/ ~MainStore!Exists(r) THEN r
    ELSE MainStore!Saved(r, CASE r.waitTill -> "waiting"
                              [] r.status = "error" -> "error"
                              [] OTHER -> "crashed", Mode)

Start(w) ==
    /\ worker[w] = "down"
    /\ worker' = [worker EXCEPT ![w] = "up"]
    /\ \E amended \in SUBSET workerLog[w] :
          row' = [e \in Executions |-> IF e \in amended THEN Amended(row[e]) ELSE row[e]]
    /\ workerLog' = [workerLog EXCEPT ![w] = {}]
    /\ UNCHANGED <<mainVars, queueVars, work, aborted, saves, ends>>

-------------------------------------------------------------------------------
(***************************************************************************)
(* Bull's check for stalled jobs, which a worker runs.                     *)
(***************************************************************************)
\* Mutant of Stall: a lock is not renewed.
StallUnderWay(r) ==
    /\ job[r].at = "active"
    /\ \E w \in Workers : worker[w] = "up"
    /\ job[r].stalls < MaxStalledCount
    /\ job' = [job EXCEPT ![r] =
                  [at |-> "waiting", owner |-> NoWorker, stalls |-> @.stalls + 1]]
    /\ UNCHANGED <<row, mainVars, aborts, workerVars>>

Stall(r) ==
    /\ job[r].at = "active"
    /\ LocksLapse \/ ~Working(job[r].owner, r)
    /\ \E w \in Workers : worker[w] = "up"
    /\ job' = [job EXCEPT ![r] =
                  IF @.stalls < MaxStalledCount
                  THEN [at |-> "waiting", owner |-> NoWorker, stalls |-> @.stalls + 1]
                  ELSE [@ EXCEPT !.at = "failed", !.owner = NoWorker]]
    /\ UNCHANGED <<row, mainVars, aborts, workerVars>>

\* The main crashes and starts again; it forgets the runs it waits for.
MainCrash ==
    /\ mainCrashes < MaxMainCrashes
    /\ mainCrashes' = mainCrashes + 1
    /\ entry' = [e \in Executions |-> NoEntry]
    /\ main' = [r \in Runs |-> IF main[r] \in {"none", "done"} THEN main[r] ELSE "lost"]
    /\ cancel' = [r \in Runs |-> IF cancel[r] = "none" THEN "none" ELSE "done"]
    /\ errors' = {}
    /\ stop' = [e \in Executions |->
                   IF stop[e].pc \in {"none", "done"} THEN stop[e]
                   ELSE [pc |-> "failed", run |-> NoEntry]]
    /\ recovery' = [pc |-> "idle", ids |-> {}]
    /\ UNCHANGED <<row, queueVars, workerVars>>

-------------------------------------------------------------------------------
MainStep(r) ==
    \/ AddJob(r) \/ AddJobFails(r) \/ Attach(r) \/ JobSucceeds(r) \/ JobFails(r)
    \/ ReadResult(r) \/ DeleteResult(r) \/ CheckJob(r) \/ CancelJob(r)

ErrorStep(p) == CheckError(p) \/ SaveError(p)

StopStep(e) ==
    StopEntry(e) \/ FindJob(e) \/ CheckFoundJob(e) \/ StopFoundJob(e) \/ StopStored(e)

RecoveryStep == ReadStored \/ FindDangling \/ MarkDangling

WorkerStep(w, r) ==
    \/ ReadExecution(w, r) \/ MarkRunning(w, r) \/ StartEngine(w, r)
    \/ EngineEnds(w, r) \/ EngineSaves(w, r) \/ JobEnds(w, r)

Next ==
    \/ \E e \in Executions : Create(e) \/ StopRequested(e) \/ StopStep(e)
    \/ \E r \in Runs : Resume(r) \/ MainStep(r) \/ Stall(r)
    \/ \E p \in errors : ErrorStep(p)
    \/ \E w \in Workers, r \in Runs :
          PickUp(w, r) \/ WorkerStep(w, r) \/ DeliverAbort(w, r) \/ SaveAborted(w, r)
    \/ \E w \in Workers : Crash(w) \/ BeginShutdown(w) \/ Exit(w) \/ Start(w)
    \/ RecoveryStep \/ MainCrash

Spec == Init /\ [][Next]_vars

(***************************************************************************)
(* Calls return, engines end, waiting jobs are handed out, stalled jobs    *)
(* are found, a worker that shuts down exits and one that is down is       *)
(* started again.  No request, stop, resume, crash or shutdown need        *)
(* happen.                                                                 *)
(***************************************************************************)
Fairness ==
    /\ \A r \in Runs :
          /\ WF_vars(MainStep(r)) /\ WF_vars(Stall(r))
          /\ WF_vars(\E w \in Workers : PickUp(w, r))
          /\ \A w \in Workers : WF_vars(WorkerStep(w, r)) /\ WF_vars(SaveAborted(w, r))
    /\ WF_vars(\E p \in errors : ErrorStep(p))
    /\ \A e \in Executions : WF_vars(StopStep(e))
    /\ \A w \in Workers : WF_vars(Exit(w)) /\ WF_vars(Start(w))

FairSpec == Spec /\ Fairness

-------------------------------------------------------------------------------
(***************************************************************************)
(* Properties.                                                             *)
(***************************************************************************)
Mains == {"none", "adding", "added", "awaiting", "failing", "rejecting", "reading", "rejected",
          "deleting", "done", "lost"}
Cancels == {"none", "requested", "active", "inactive", "failing", "done"}
Errors == [run : Runs, from : {"enqueue", "executor", "cancel"}, pc : {"check", "save"}]
Stops == [pc : {"none", "read", "seeking", "found", "active", "inactive", "storing", "done",
                "failed"},
          run : Runs \cup {NoEntry}]
Jobs == [at : {"none", "waiting", "active", "completed", "failed", "removed"},
         owner : Workers \cup {NoWorker}, stalls : 0..MaxStalledCount]
Works == [pc : {"none", "picked", "read", "marked", "running", "saving", "saved"},
          outcome : Outcomes \cup {"none", "canceled", "aborted"}]
Settled(e) ==
    row[e] = MainStore!Deleted \/ row[e].status \in MainStore!FinalStatuses \cup {"waiting"}
LiveEngine(w, r) == work[w][r].pc \in {"running", "saving"}

\* Every variable has its type.
TypeOK ==
    /\ row \in [Executions -> MainStore!Rows({Mode})]
    /\ entry \in [Executions -> Runs \cup {Pending, NoEntry}]
    /\ main \in [Runs -> Mains]
    /\ cancel \in [Runs -> Cancels]
    /\ errors \subseteq Errors
    /\ stop \in [Executions -> Stops]
    /\ recovery \in [pc : {"idle", "read", "found"}, ids : SUBSET Executions]
    /\ job \in [Runs -> Jobs]
    /\ aborts \subseteq Workers \X Runs
    /\ worker \in [Workers -> {"up", "stopping", "down"}]
    /\ work \in [Workers -> [Runs -> Works]]
    /\ aborted \subseteq Workers \X Runs
    /\ saves \subseteq Workers \X Runs
    /\ workerLog \in [Workers -> SUBSET Executions]
    /\ ends \in 0..MaxEnds
    /\ mainCrashes \in 0..MaxMainCrashes

\* No two workers run the engine of one execution at a time, whatever crashes,
\* shutdowns, aborts and stalls come between, as long as locks do not lapse.
OneEngine ==
    \A w, v \in Workers, r, s \in Runs :
        LiveEngine(w, r) /\ LiveEngine(v, s) /\ Id(r) = Id(s) => w = v /\ r = s

\* An execution in progress that nobody stops is attended: its job is in the
\* queue or with a worker, or something under way will store its end.  Only a
\* crash of the main leaves one behind.
Attended(e) ==
    \/ \E r \in Runs :
          /\ Id(r) = e
          /\ \/ InQueue(r)
             \/ \E w \in Workers :
                   work[w][r].pc \in {"picked", "read", "marked", "running", "saving"}
             \/ main[r] \in {"adding", "lost"}
             \/ main[r] \in {"added", "awaiting"} /\ job[r].at = "failed"
    \/ \E p \in errors : Id(p.run) = e
NoZombies == \A e \in Executions : InProgress(e) /\ stop[e].pc = "none" => Attended(e)

\* What the main reads when the job of a run has ended is a result: no order of
\* worker crashes and stalls makes it report an execution that still runs.
ResultReady ==
    \A r \in Runs :
        main[r] = "reading" /\ stop[Id(r)].pc = "none" => Settled(Id(r))

\* An execution that failed by itself is not deleted when failures are to be
\* kept, although what the main reads of it may be older than what it deletes.
FailuresKept ==
    [][\A e \in Executions :
          KeepError /\ row[e].status = "error" /\ stop[e].pc = "none"
              => row'[e] # MainStore!Deleted]_vars

\* The main does not wait for ever for a job, also when it was removed, or its
\* worker ended.
RunsEnd == \A r \in Runs : (main[r] = "awaiting") ~> (main[r] \in {"done", "lost"})

\* An execution that was enqueued and that nobody stops settles, whatever
\* becomes of the workers.
EnqueuedSettles ==
    \A r \in Runs :
        (main[r] = "awaiting" /\ stop[Id(r)].pc = "none")
            ~> (Settled(Id(r)) \/ main[r] = "lost" \/ stop[Id(r)].pc # "none")

\* A paused execution is not deleted.
PausedKept ==
    [][\A e \in Executions :
          row[e].status = "waiting" => row'[e] # MainStore!Deleted]_vars

\* Queue recovery marks only executions as crashed that are absent from the queue.
RecoversDangling ==
    [][\A e \in Executions : MarkDangling /\ e \in recovery.ids => e \notin Queued]_vars
===============================================================================
