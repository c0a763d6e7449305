-------------------------- MODULE ExecutionLifecycle --------------------------
(***************************************************************************)
(* The life of an execution in one main process in regular mode, from the  *)
(* request to the stored result: ActiveExecutions (active-executions.ts),  *)
(* WorkflowRunner (workflow-runner.ts), the stop request of                *)
(* ExecutionService, shutdown, crash, and the restart that runs what was   *)
(* enqueued (commands/start.ts).  Admission is ConcurrencyControl, the     *)
(* rows are those of ExecutionStore.                                       *)
(*                                                                         *)
(* A member of Calls is one invocation of WorkflowRunner.run(): an         *)
(* asynchronous function, cut into actions at its awaits.  Between two     *)
(* awaits JavaScript is not interrupted.  The continuation of a promise    *)
(* that is already resolved runs before anything else does: Quiet says     *)
(* that no such continuation is due.  Manual executions are not modelled.  *)
(***************************************************************************)
EXTENDS Integers, Sequences, FiniteSets

CONSTANTS
    Executions,          \* 1..n, in the order of their ids
    Calls,               \* invocations of run() alive at one time (bound)
    NoCall,
    NoEntry,
    ModeOf,              \* [Executions -> modes]: how each execution is requested
    ProductionLimit,
    Outcomes,            \* how an engine left alone may end
    KeepSuccess, KeepError,
    Stoppables,          \* executions a user may ask to stop
    Timeouts,            \* executions.timeout > 0
    Denials,             \* permissionChecker.check may reject
    RequestsDuringBoot,  \* requests come before the start command has finished
    RecoveryMode,        \* eventBus.crashRecoveryMode: "simple" or "extensive"
    MaxRestarts          \* bound: crashes and shutdowns

VARIABLES
    row,         \* [Executions -> row of the database]
    phase,       \* of the process: down, listening, recovered, up, stopping
    restarts,    \* how often the process went down
    boot,        \* enqueued executions runEnqueuedExecutions has still to run
    call,        \* [Calls -> where the invocation is]
    active,      \* ActiveExecutions.activeExecutions
    cancelled,   \* invocations whose PCancelable was cancelled
    writes,      \* calls of the save hook under way that nothing waits for
    stop,        \* [Executions -> the user's stop request]
    begun,       \* executions whose engine started, and did not pause since
    eventLog,    \* [Executions -> what the readable event logs hold of it]
    isEnabled, capacity, queue, settled, inUse

CC == INSTANCE ConcurrencyControl WITH
          QueueMode <- FALSE, Cancellable <- {}, CallerModes <- {}, MaxCallers <- 0
Store == INSTANCE ExecutionStore

ccVars == <<isEnabled, capacity, queue, settled, inUse>>
processVars == <<phase, restarts, boot, eventLog>>
vars == <<row, phase, restarts, boot, call, active, cancelled, writes, stop,
          begun, eventLog, isEnabled, capacity, queue, settled, inUse>>

ASSUME ExecutionsAssumption == Executions \subseteq Nat /\ IsFiniteSet(Executions)
ASSUME CallsAssumption == IsFiniteSet(Calls)
ASSUME RecoveryModeAssumption == RecoveryMode \in {"simple", "extensive"}
ASSUME OutcomesAssumption == Outcomes \subseteq {"success", "error", "waiting"}
ASSUME ModesAssumption == ModeOf \in [Executions -> CC!Modes]
ASSUME TimeoutsAssumption == Timeouts \in BOOLEAN
ASSUME MaxRestartsAssumption == MaxRestarts \in Nat
ASSUME NoCallAssumption == NoCall \notin Calls
ASSUME NoEntryAssumption ==
    NoEntry \notin [mode : CC!Modes, workflowExecution : Calls \cup {NoCall}]
ASSUME KeepAssumption == KeepSuccess \in BOOLEAN /\ KeepError \in BOOLEAN

IdleCall == [pc |-> "idle", id |-> 0, mode |-> "none", resumed |-> FALSE,
             outcome |-> "none", timer |-> FALSE]
IdleStop == [pc |-> "idle", mode |-> "none"]

Limited(mode) == ~CC!IsUnlimited(mode)
Idle(c) == call[c].pc = "idle"

\* The promise an invocation waits for in throttle() is resolved.
LetThrough(c) == call[c].pc = "throttled" /\ c \in settled
Quiet == \A c \in Calls : ~LetThrough(c)
Alive == phase # "down"

\* The event log: which executions have no end event in the log files that
\* recovery reads, the previous run's and the one before (old).
NoEvents == [events |-> "none", old |-> FALSE]
Logged(e, events) == [eventLog EXCEPT ![e] = [events |-> events, old |-> FALSE]]
Logging == phase \in {"recovered", "up", "stopping"}
LogEvent(e, events) ==
    eventLog' = IF Logging THEN Logged(e, events) ELSE eventLog

\* An execution that joins the queue is logged as throttled, which counts as an end.
LogThrottled(e) ==
    IF queue' # queue THEN LogEvent(e, "none") ELSE UNCHANGED eventLog

Goto(c, pc) == [call EXCEPT ![c].pc = pc]

Init ==
    /\ row = [e \in Executions |-> Store!NotInserted]
    /\ phase = "up"
    /\ restarts = 0
    /\ boot = {}
    /\ call = [c \in Calls |-> IdleCall]
    /\ active = [e \in Executions |-> NoEntry]
    /\ cancelled = {}
    /\ writes = {}
    /\ stop = [e \in Executions |-> IdleStop]
    /\ begun = {}
    /\ eventLog = [e \in Executions |-> NoEvents]
    /\ CC!CCInit

-------------------------------------------------------------------------------
(***************************************************************************)
(* ActiveExecutions.add for a new execution.                               *)
(***************************************************************************)

\* A webhook or a trigger requests the next execution; its entity is inserted.
Create(c, e) ==
    /\ Alive /\ Quiet
    /\ phase \in {"listening", "recovered"} => RequestsDuringBoot
    /\ Idle(c)
    /\ row[e] = Store!NotInserted
    /\ \A f \in Executions : f < e => row[f] # Store!NotInserted
    /\ row' = [row EXCEPT ![e] = Store!InsertedEntity(ModeOf[e])]
    /\ call' = [call EXCEPT ![c] =
                   [IdleCall EXCEPT !.pc = "inserting", !.id = e, !.mode = ModeOf[e]]]
    /\ UNCHANGED <<processVars, active, cancelled, writes, stop, begun, ccVars>>

InsertData(c) ==
    /\ Quiet
    /\ call[c].pc = "inserting"
    /\ row' = [row EXCEPT ![call[c].id] = Store!WithInsertedData(@)]
    /\ call' = Goto(c, "stored")
    /\ UNCHANGED <<processVars, active, cancelled, writes, stop, begun, ccVars>>

ThrottleNew(c) ==
    /\ Quiet
    /\ call[c].pc = "stored"
    /\ CC!Throttle(c, call[c].id, call[c].mode)
    /\ LogThrottled(call[c].id)
    /\ call' = Goto(c, "throttled")
    /\ UNCHANGED <<row, phase, restarts, boot, active, cancelled, writes, stop, begun>>

\* A new entry replaces whatever entry the execution had.
Registered(c) ==
    [active EXCEPT ![call[c].id] = [mode |-> call[c].mode, workflowExecution |-> NoCall]]

Register(c) ==
    /\ LetThrough(c)
    /\ ~call[c].resumed
    /\ active' = Registered(c)
    /\ call' = Goto(c, "starting")
    /\ UNCHANGED <<row, processVars, cancelled, writes, stop, begun, ccVars>>

(***************************************************************************)
(* ActiveExecutions.add for an execution that has a row.                   *)
(***************************************************************************)

\* Mutant of ThrottleKnown: the mode is lost.
ThrottleWithoutMode(c, e, mode) ==
    /\ CC!Throttle(c, e, mode)
    /\ call' = [call EXCEPT ![c] =
                   [IdleCall EXCEPT !.pc = "throttled", !.id = e, !.resumed = TRUE]]

ThrottleKnown(c, e, mode) ==
    /\ CC!Throttle(c, e, mode)
    /\ call' = [call EXCEPT ![c] =
                   [IdleCall EXCEPT !.pc = "throttled", !.id = e, !.mode = mode,
                                    !.resumed = TRUE]]

BeginUpdate(c) ==
    /\ LetThrough(c)
    /\ call[c].resumed
    /\ call' = Goto(c, "updating")
    /\ UNCHANGED <<row, processVars, active, cancelled, writes, stop, begun, ccVars>>

UpdateExisting(c) ==
    /\ Quiet
    /\ call[c].pc = "updating"
    /\ row' = [row EXCEPT ![call[c].id] = Store!Resumed(@)]
    /\ active' = Registered(c)
    /\ call' = Goto(c, "starting")
    /\ UNCHANGED <<processVars, cancelled, writes, stop, begun, ccVars>>

-------------------------------------------------------------------------------
(***************************************************************************)
(* WorkflowRunner.                                                         *)
(***************************************************************************)

\* Mutant of RemoveActive: the slot is not released.
RemoveOnly(e) ==
    /\ active' = [active EXCEPT ![e] = NoEntry]
    /\ UNCHANGED ccVars

\* ActiveExecutions.remove and the cleanup it shares with stopExecution.
RemoveActive(e) ==
    \/ /\ active[e] = NoEntry
       /\ UNCHANGED <<active, ccVars>>
    \/ /\ active[e] # NoEntry
       /\ active' = [active EXCEPT ![e] = NoEntry]
       /\ CC!Release(active[e].mode)

\* permissionChecker.check rejects: a failed execution is saved, then removed.
PermissionDenied(c) ==
    /\ Denials
    /\ Quiet
    /\ call[c].pc = "starting"
    /\ row' = [row EXCEPT ![call[c].id] = Store!Saved(@, "error", call[c].mode)]
    /\ RemoveActive(call[c].id)
    /\ call' = [call EXCEPT ![c] = IdleCall]
    /\ UNCHANGED <<processVars, cancelled, writes, stop, begun>>

HookWrite(e, status, mode) == [id |-> e, status |-> status, mode |-> mode]

\* Mutant of RunMainProcess: the row stays as it was.
RunKeepingStatus(c) ==
    /\ Quiet
    /\ call[c].pc = "starting"
    /\ begun' = begun \cup {call[c].id}
    /\ active[call[c].id] # NoEntry
    /\ active' = [active EXCEPT ![call[c].id].workflowExecution = c]
    /\ call' = [call EXCEPT ![c].pc = "executing", ![c].timer = Timeouts]
    /\ UNCHANGED <<row, processVars, writes, cancelled, stop, ccVars>>

(***************************************************************************)
(* runMainProcess, once its awaits are over: the row is `running`, the     *)
(* engine starts, and is attached to the execution's entry.  Without an    *)
(* entry attaching throws: the engine runs on, and processError saves an   *)
(* error.  Its start is logged, or at least its first node.                *)
(***************************************************************************)
RunMainProcess(c) ==
    /\ Quiet
    /\ call[c].pc = "starting"
    /\ row' = [row EXCEPT ![call[c].id] = Store!WithStatus(@, "running")]
    /\ begun' = begun \cup {call[c].id}
    /\ \/ /\ active[call[c].id] # NoEntry
          /\ active' = [active EXCEPT ![call[c].id].workflowExecution = c]
          /\ call' = [call EXCEPT ![c].pc = "executing", ![c].timer = Timeouts]
          /\ LogEvent(call[c].id, "started")
          /\ UNCHANGED writes
       \/ /\ active[call[c].id] = NoEntry
          /\ call' = [call EXCEPT ![c].pc = "orphaned"]
          /\ writes' = writes \cup {HookWrite(call[c].id, "error", call[c].mode)}
          /\ UNCHANGED <<active, eventLog>>
    /\ UNCHANGED <<phase, restarts, boot, cancelled, stop, ccVars>>

\* The engine starts or finishes a node.
NodeLogged(c) ==
    /\ Quiet
    /\ call[c].pc \in {"executing", "orphaned"}
    /\ eventLog[call[c].id].events # "nodes"
    /\ Logging
    /\ LogEvent(call[c].id, "nodes")
    /\ UNCHANGED <<row, phase, restarts, boot, call, active, cancelled, writes, stop,
                   begun, ccVars>>

(***************************************************************************)
(* The engine leaves its loop.  One that was cancelled, or that saw the    *)
(* soft timeout, ends as canceled; when a node threw the abort error the   *)
(* engine's own save is skipped.  Pausing sets the status of the entry,    *)
(* which must exist.                                                       *)
(***************************************************************************)
EngineOutcomes(c) ==
    IF c \in cancelled THEN {"canceled", "aborted"}
    ELSE { o \in Outcomes : o = "waiting" => active[call[c].id] # NoEntry }
             \cup (IF Timeouts THEN {"canceled"} ELSE {})

EngineEnds(c) ==
    /\ Quiet
    /\ call[c].pc \in {"executing", "orphaned"}
    /\ \E o \in EngineOutcomes(c) :
          call' = [call EXCEPT ![c].outcome = o,
                               ![c].pc = IF @ = "executing" THEN "saving" ELSE "savingOrphan"]
    /\ UNCHANGED <<row, processVars, active, cancelled, writes, stop, begun, ccVars>>

\* The engine's own call of the save hook.
EngineSaves(c) ==
    /\ Quiet
    /\ call[c].pc \in {"saving", "savingOrphan"}
    /\ row' = IF call[c].outcome = "aborted" THEN row
              ELSE [row EXCEPT ![call[c].id] =
                       Store!Saved(@, call[c].outcome, call[c].mode)]
    /\ begun' = IF call[c].outcome = "waiting" THEN begun \ {call[c].id} ELSE begun
    /\ \/ /\ call[c].pc = "saving"
          /\ call' = Goto(c, "resolving")
          /\ UNCHANGED cancelled
       \/ /\ call[c].pc = "savingOrphan"
          /\ call' = [call EXCEPT ![c] = IdleCall]
          /\ cancelled' = cancelled \ {c}
    /\ UNCHANGED <<processVars, active, writes, stop, ccVars>>

(***************************************************************************)
(* The engine's promise resolves.  Its continuation asks for the status of *)
(* the entry and removes it, which logs the end.  When the entry is gone   *)
(* getStatus throws, and processError saves an error.                      *)
(***************************************************************************)
EngineResolves(c) ==
    /\ Quiet
    /\ call[c].pc = "resolving"
    /\ call' = [call EXCEPT ![c] = IdleCall]
    /\ cancelled' = cancelled \ {c}
    /\ RemoveActive(call[c].id)
    /\ \/ /\ active[call[c].id] # NoEntry
          /\ LogEvent(call[c].id, "none")
          /\ UNCHANGED writes
       \/ /\ active[call[c].id] = NoEntry
          /\ writes' = writes \cup {HookWrite(call[c].id, "error", call[c].mode)}
          /\ UNCHANGED eventLog
    /\ UNCHANGED <<row, phase, restarts, boot, stop, begun>>

HookSaves(w) ==
    /\ Quiet
    /\ w \in writes
    /\ row' = [row EXCEPT ![w.id] = Store!Saved(@, w.status, w.mode)]
    /\ writes' = writes \ {w}
    /\ UNCHANGED <<processVars, call, active, cancelled, stop, begun, ccVars>>

-------------------------------------------------------------------------------
(***************************************************************************)
(* Stopping.                                                               *)
(***************************************************************************)

\* ActiveExecutions.stopExecution of an entry that has its engine attached.
\* cancel() runs the engine's own handler, which saves too.
Attached(e) == active[e] # NoEntry /\ active[e].workflowExecution # NoCall
Engine(e) == active[e].workflowExecution
Cancellable(c) == c \notin cancelled /\ call[c].pc \in {"executing", "saving", "resolving"}

\* Mutant of StopExecution: the engine is not cancelled.
StopWithoutCancel(e) ==
    /\ RemoveActive(e)
    /\ UNCHANGED <<cancelled, writes>>

StopExecution(e) ==
    /\ RemoveActive(e)
    /\ \/ /\ Cancellable(Engine(e))
          /\ cancelled' = cancelled \cup {Engine(e)}
          /\ writes' = writes \cup {HookWrite(e, "canceled", call[Engine(e)].mode)}
       \/ /\ ~Cancellable(Engine(e))
          /\ UNCHANGED <<cancelled, writes>>

\* The timer runMainProcess sets; the continuation of the engine clears it.
TimeoutFires(c) ==
    /\ Quiet
    /\ call[c].timer
    /\ Attached(call[c].id)
    /\ StopExecution(call[c].id)
    /\ call' = [call EXCEPT ![c].timer = FALSE]
    /\ UNCHANGED <<row, processVars, stop, begun>>

\* ExecutionService.stop reads the execution ...
StopRequested(e) ==
    /\ Alive /\ Quiet
    /\ e \in Stoppables
    /\ stop[e].pc = "idle"
    /\ Store!Stoppable(row[e])
    /\ stop' = [stop EXCEPT ![e] = [pc |-> "read", mode |-> row[e].mode]]
    /\ UNCHANGED <<row, processVars, call, active, cancelled, writes, begun, ccVars>>

\* ... and stopInRegularMode acts on what it finds then.  An entry without an
\* engine makes stopExecution throw, and the request fails.
StopEnqueued(e) ==
    /\ Quiet
    /\ stop[e].pc = "read"
    /\ CC!Has(e)
    /\ CC!RemoveExecution(e, stop[e].mode)
    /\ stop' = [stop EXCEPT ![e].pc = "before"]
    /\ UNCHANGED <<row, processVars, call, active, cancelled, writes, begun>>

StopActive(e) ==
    /\ Quiet
    /\ stop[e].pc = "read"
    /\ ~CC!Has(e)
    /\ Attached(e)
    /\ StopExecution(e)
    /\ stop' = [stop EXCEPT ![e].pc = "during"]
    /\ UNCHANGED <<row, processVars, call, begun>>

StopFails(e) ==
    /\ Quiet
    /\ stop[e].pc = "read"
    /\ ~CC!Has(e)
    /\ active[e] # NoEntry
    /\ ~Attached(e)
    /\ stop' = [stop EXCEPT ![e].pc = "failed"]
    /\ UNCHANGED <<row, processVars, call, active, cancelled, writes, begun, ccVars>>

StopUnknown(e) ==
    /\ Quiet
    /\ stop[e].pc = "read"
    /\ ~CC!Has(e)
    /\ active[e] = NoEntry
    /\ stop' = [stop EXCEPT ![e].pc = "during"]
    /\ UNCHANGED <<row, processVars, call, active, cancelled, writes, begun, ccVars>>

\* stopBeforeRun or stopDuringRun; the user is told that the execution is canceled.
StopStored(e) ==
    /\ Quiet
    /\ \/ /\ stop[e].pc = "before"
          /\ row' = [row EXCEPT ![e] = Store!StoppedBeforeRun(@)]
          /\ stop' = [stop EXCEPT ![e].pc = "stoppedBefore"]
       \/ /\ stop[e].pc = "during"
          /\ row' = [row EXCEPT ![e] = Store!StoppedDuringRun(@)]
          /\ stop' = [stop EXCEPT ![e].pc = "stoppedDuring"]
    /\ UNCHANGED <<processVars, call, active, cancelled, writes, begun, ccVars>>

-------------------------------------------------------------------------------
(***************************************************************************)
(* The process.                                                            *)
(***************************************************************************)

\* stopProcess reaches ActiveExecutions.shutdown, which disables admission ...
BeginShutdown ==
    /\ Quiet
    /\ phase = "up"
    /\ restarts < MaxRestarts
    /\ phase' = "stopping"
    /\ CC!Disable
    /\ UNCHANGED <<row, restarts, boot, eventLog, call, active, cancelled, writes, stop,
                   begun>>

\* What a process that goes down loses, and what it leaves behind.
GoDown ==
    /\ phase' = "down"
    /\ restarts' = restarts + 1
    /\ boot' = {}
    /\ call' = [c \in Calls |-> IdleCall]
    /\ active' = [e \in Executions |-> NoEntry]
    /\ cancelled' = {}
    /\ writes' = {}
    /\ stop' = [e \in Executions |->
                   IF stop[e].pc \in {"read", "before", "during"} THEN IdleStop ELSE stop[e]]
    /\ isEnabled' = CC!InitiallyEnabled
    /\ capacity' = CC!Limit
    /\ queue' = <<>>
    /\ settled' = {}
    /\ inUse' = 0
    /\ UNCHANGED <<row, begun, eventLog>>

\* ... and waits until no execution is active.
Exit ==
    /\ Quiet
    /\ phase = "stopping"
    /\ \A e \in Executions : active[e] = NoEntry
    /\ GoDown

Crash ==
    /\ Alive /\ Quiet
    /\ restarts < MaxRestarts
    /\ GoDown

\* The routes of webhooks open first ...
Listen ==
    /\ phase = "down"
    /\ phase' = "listening"
    /\ UNCHANGED <<row, restarts, boot, eventLog, call, active, cancelled, writes, stop,
                   begun, ccVars>>

(***************************************************************************)
(* ... then the event bus recovers what the logs or the database call      *)
(* unfinished, and logging starts into a new file.  From the events of     *)
(* nodes the execution is amended, and saved by the hook, which takes what *)
(* has a waitTill for paused; with no events at all it is marked as        *)
(* crashed; with other events only it is left as it is.                    *)
(***************************************************************************)
\* Mutant of Unfinished: the database is not asked.
UnfinishedInLogs(e) == eventLog[e].events # "none"

Unfinished(e) == eventLog[e].events # "none" \/ row[e].status = "running"

Amended(r) ==
    IF r.status = "success" \/ r.data = "missing" THEN r
    ELSE Store!Saved(r, CASE r.waitTill -> "waiting"
                          [] r.status = "error" -> "error"
                          [] OTHER -> "crashed", r.mode)

Recovered(e) ==
    CASE RecoveryMode = "simple" -> Store!WithStatus(row[e], "crashed")
      [] OTHER ->
           CASE eventLog[e].events = "none" -> Store!Saved(row[e], "crashed", row[e].mode)
             [] eventLog[e].events = "started" -> row[e]
             [] eventLog[e].events = "nodes" -> Amended(row[e])

Recover ==
    /\ Quiet
    /\ phase = "listening"
    /\ phase' = "recovered"
    /\ row' = [e \in Executions |-> IF Unfinished(e) THEN Recovered(e) ELSE row[e]]
    /\ eventLog' = [e \in Executions |->
                       IF eventLog[e].old THEN NoEvents
                       ELSE [eventLog[e] EXCEPT !.old = eventLog[e].events # "none"]]
    /\ UNCHANGED <<restarts, boot, call, active, cancelled, writes, stop, begun, ccVars>>

\* findAllEnqueuedExecutions; rows without data are left out.
ReadEnqueued ==
    /\ Quiet
    /\ phase = "recovered"
    /\ phase' = "up"
    /\ boot' = { e \in Executions : row[e].status = "new" /\ row[e].data # "missing" }
    /\ UNCHANGED <<row, restarts, eventLog, call, active, cancelled, writes, stop, begun,
                   ccVars>>

\* Mutant of RunEnqueued: an execution is run once too often.
RunEnqueuedTwice(c) ==
    /\ Quiet
    /\ Idle(c)
    /\ \E e \in boot :
          /\ \A f \in boot : e <= f
          /\ \/ boot' = boot \ {e}
             \/ \A d \in Calls : call[d].id # e /\ UNCHANGED boot
          /\ LogEvent(e, "none")
          /\ ThrottleKnown(c, e, row[e].mode)
    /\ UNCHANGED <<row, phase, restarts, active, cancelled, writes, stop, begun>>

\* runEnqueuedExecutions starts the next one, in the order of the ids, without
\* waiting for it.
RunEnqueued(c) ==
    /\ Quiet
    /\ Idle(c)
    /\ \E e \in boot :
          /\ \A f \in boot : e <= f
          /\ boot' = boot \ {e}
          /\ LogEvent(e, "none")
          /\ ThrottleKnown(c, e, row[e].mode)
    /\ UNCHANGED <<row, phase, restarts, active, cancelled, writes, stop, begun>>

-------------------------------------------------------------------------------
CallStep(c) ==
    \/ InsertData(c) \/ ThrottleNew(c) \/ Register(c)
    \/ BeginUpdate(c) \/ UpdateExisting(c)
    \/ PermissionDenied(c) \/ RunMainProcess(c)
    \/ NodeLogged(c) \/ EngineEnds(c) \/ EngineSaves(c) \/ EngineResolves(c)

StopStep(e) ==
    \/ StopEnqueued(e) \/ StopActive(e) \/ StopFails(e) \/ StopUnknown(e)
    \/ StopStored(e)

Next ==
    \/ \E c \in Calls, e \in Executions : Create(c, e)
    \/ \E c \in Calls : CallStep(c) \/ TimeoutFires(c) \/ RunEnqueued(c)
    \/ \E w \in writes : HookSaves(w)
    \/ \E e \in Executions : StopRequested(e) \/ StopStep(e)
    \/ BeginShutdown \/ Exit \/ Crash \/ Listen \/ Recover \/ ReadEnqueued

Spec == Init /\ [][Next]_vars

(***************************************************************************)
(* The event loop gives every continuation its turn, database statements   *)
(* return, nodes end, and the process is restarted when it is down.  No    *)
(* request, stop, timeout, shutdown or crash need ever happen.             *)
(***************************************************************************)
Fairness ==
    /\ \A c \in Calls : WF_vars(CallStep(c))
    /\ WF_vars(\E c \in Calls : RunEnqueued(c))
    /\ WF_vars(\E w \in writes : HookSaves(w))
    /\ \A e \in Executions : WF_vars(StopStep(e))
    /\ WF_vars(Exit) /\ WF_vars(Listen) /\ WF_vars(Recover) /\ WF_vars(ReadEnqueued)

FairSpec == Spec /\ Fairness

-------------------------------------------------------------------------------
(***************************************************************************)
(* Properties.                                                             *)
(***************************************************************************)
CallPcs == {"idle", "inserting", "stored", "throttled", "updating", "starting",
            "executing", "saving", "resolving", "orphaned", "savingOrphan"}
StopPcs == {"idle", "read", "before", "during", "stoppedBefore", "stoppedDuring",
           "failed"}
LiveEngine(c) == call[c].pc \in {"executing", "saving", "resolving", "orphaned", "savingOrphan"}

\* An engine for the execution starts in this step.
Starts(e) == \E c \in Calls : call[c].id = e /\ call[c].pc = "starting" /\ LiveEngine(c)'

\* Every variable has its type.
TypeOK ==
    /\ row \in [Executions -> Store!Rows(CC!Modes)]
    /\ phase \in {"down", "listening", "recovered", "up", "stopping"}
    /\ restarts \in 0..MaxRestarts
    /\ boot \subseteq Executions
    /\ call \in [Calls -> [pc : CallPcs, id : Executions \cup {0}, mode : CC!Modes \cup {"none"},
                           resumed : BOOLEAN, timer : BOOLEAN,
                           outcome : Outcomes \cup {"none", "canceled", "aborted"}]]
    /\ active \in [Executions -> [mode : CC!Modes, workflowExecution : Calls \cup {NoCall}]
                                \cup {NoEntry}]
    /\ cancelled \subseteq Calls
    /\ writes \subseteq [id : Executions, status : {"error", "canceled"}, mode : CC!Modes]
    /\ stop \in [Executions -> [pc : StopPcs, mode : CC!Modes \cup {"none"}]]
    /\ begun \subseteq Executions
    /\ eventLog \in [Executions -> [events : {"none", "started", "nodes"}, old : BOOLEAN]]

\* Every slot handed out is held by exactly one execution that will give it
\* back: an invocation on its way to an entry in activeExecutions, or an entry.
\* No order of stops, timeouts and ends releases a slot twice or loses it.
Holders == { c \in Calls : (LetThrough(c) \/ call[c].pc = "updating") /\ Limited(call[c].mode) }
Entered == { e \in Executions : active[e] # NoEntry /\ Limited(active[e].mode) }
SlotsMatchHolders ==
    isEnabled => inUse = Cardinality(Holders) + Cardinality(Entered)

\* No execution is run by two engines at a time.
OneEngine ==
    \A c, d \in Calls :
        LiveEngine(c) /\ LiveEngine(d) /\ call[c].id = call[d].id => c = d

\* An engine starts at most once for an execution that does not pause, across
\* any number of crashes and restarts: what is run again at startup is only
\* what never ran (start.ts:356-392).
BegunOnce == [][\A e \in begun : ~Starts(e)]_vars

\* As long as an engine was not told to stop, the entry of its execution leads
\* to it: a stop request or a timeout finds the engine that is running, not
\* another one and not none.
EnginesStoppable ==
    \A c \in Calls :
        LiveEngine(c) /\ c \notin cancelled
            => active[call[c].id] # NoEntry /\ Engine(call[c].id) = c

\* An execution that the database calls `running` is attended: an invocation,
\* a pending save or a stop request will move it on.
Attended(e) ==
    \/ \E c \in Calls : call[c].id = e
    \/ \E w \in writes : w.id = e
    \/ stop[e].pc \in {"before", "during"}
NoZombies ==
    \A e \in Executions :
        row[e].status = "running" /\ phase \in {"recovered", "up", "stopping"} => Attended(e)

\* What waits for a slot is found again after a crash or a shutdown: its row
\* is `new` and has its data, unless the user is stopping it.
EnqueuedSurvive ==
    \A i \in DOMAIN queue :
        LET e == queue[i].executionId
        IN  \/ row[e].status = "new" /\ row[e].data = "initial"
            \/ stop[e].pc \in {"during", "stoppedDuring"}

\* An execution that was stored reaches a final status, or pauses, whatever
\* crashes and restarts come between.
Settled(e) == row[e] = Store!Deleted \/ row[e].status \in Store!FinalStatuses \cup {"waiting"}
Settles ==
    \A e \in Executions :
        (row[e].status \in {"new", "running"} /\ row[e].data # "missing") ~> Settled(e)

\* An execution that was canceled stays canceled.
CanceledStays ==
    [][\A e \in Executions :
          row[e].status = "canceled" => row'[e].status = "canceled" \/ row'[e] = Store!Deleted]_vars

\* An execution that the user stopped while it waited for a slot is not
\* started afterwards, whoever else is let through in its place.
StoppedInQueueNeverStarts ==
    [][\A e \in Executions : stop[e].pc \in {"before", "stoppedBefore"} => ~Starts(e)]_vars
===============================================================================
