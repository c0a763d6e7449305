--------------------------- MODULE ActiveWorkflows ---------------------------
(***************************************************************************)
(* Active workflows of a single main process: requests that change a       *)
(* workflow, the activation of its triggers, retries of activations that   *)
(* failed, triggers that fail, and restarts                                *)
(* (packages/cli/src/active-workflow-manager.ts, workflow.service.ts,      *)
(* packages/core/src/ActiveWorkflows.ts).                                  *)
(*                                                                         *)
(* A request, a retry, a start of the process or the closing of triggers   *)
(* is a task: it goes on after every await, and tasks interleave.          *)
(***************************************************************************)
EXTENDS Integers, FiniteSets

CONSTANTS
    Workflows,
    Triggers,      \* number of trigger nodes of a workflow
    Requesters,    \* those who may have a request under way at the same time
    Overlaps,      \* whether a task may begin while another one has the same workflow
    FailingCloses, \* kinds of tasks in which a closing function may fail
    MaxRequests,   \* bound: requests
    MaxFailures,   \* bound: activations, triggers and closing functions that fail
    MaxRestarts    \* bound: ends of the process

ASSUME ConstantsAssumption ==
    /\ Triggers \in Nat \ {0} /\ Overlaps \in BOOLEAN
    /\ Requesters \cap {"retry", "close", "start"} = {}
    /\ FailingCloses \subseteq Requesters \cup {"close"}
    /\ MaxRequests \in Nat /\ MaxFailures \in Nat /\ MaxRestarts \in Nat

VARIABLES
    stored,    \* [workflow -> its row: exists, active, version]
    errors,    \* workflows with a registered activation error
    memory,    \* ActiveWorkflows.activeWorkflows: [those with an entry -> triggers]
    queued,    \* queuedActivations: [those with an entry -> version, timer armed]
    running,   \* triggers that run, of any workflow: workflow, version, number
    task,      \* [kind, workflow -> what goes on]
    bounds     \* requests, failures and restarts so far

vars == <<stored, errors, memory, queued, running, task, bounds>>

Kinds == Requesters \cup {"retry", "close", "start"}
Tasks == Kinds \X Workflows
IsRequest(t) == t[1] \in Requesters

Idle == [at |-> "idle", wants |-> "none", version |-> -1, left |-> 0, holds |-> {}]

Running(w) == { r \in running : r.workflow = w }

NewTrigger(w, version) ==
    LET used == { r.number : r \in Running(w) \cup UNION { task[<<k, w>>].holds : k \in Kinds } }
    IN  [workflow |-> w, version |-> version,
         number |-> CHOOSE k \in 0..Cardinality(used) : k \notin used]

\* Maps from ids of workflows.
NoEntries == [w \in {} |-> {}]
With(map, w, entry) == [v \in DOMAIN map \cup {w} |-> IF v = w THEN entry ELSE map[v]]
Without(map, w) == [v \in DOMAIN map \ {w} |-> map[v]]

AtRest(w) == \A k \in Kinds : task[<<k, w>>] = Idle
MayBegin(t) == task[t] = Idle /\ (Overlaps \/ AtRest(t[2]))

HasTriggers(w) == w \in DOMAIN memory /\ memory[w] # {}

Counted(what) == bounds' = [bounds EXCEPT ![what] = @ + 1]

Init ==
    /\ \E active \in [Workflows -> BOOLEAN] :
          stored = [w \in Workflows |-> [exists |-> TRUE, active |-> active[w], version |-> 0]]
    /\ errors = {}
    /\ memory = NoEntries
    /\ queued = NoEntries
    /\ running = {}
    /\ task = [t \in Tasks |->
                  IF t[1] = "start" /\ stored[t[2]].active
                  THEN [Idle EXCEPT !.at = "listed", !.version = stored[t[2]].version]
                  ELSE Idle]
    /\ bounds = [requests |-> 0, failures |-> 0, restarts |-> 0]

-------------------------------------------------------------------------------
(***************************************************************************)
(* Requests: WorkflowService.update and delete.                            *)
(***************************************************************************)
\* Mutant of Begin: an active workflow is not removed before it is changed.
BeginUnremoved(t, wants) ==
    task' = [task EXCEPT ![t] = [Idle EXCEPT !.at = "saving", !.wants = wants]]

\* A workflow that is active is removed first, and added again later.
Begin(t, wants) ==
    task' = [task EXCEPT ![t] =
                [Idle EXCEPT !.at = IF stored[t[2]].active THEN "removing" ELSE "saving",
                             !.wants = wants]]

Request(t) ==
    /\ IsRequest(t) /\ MayBegin(t)
    /\ stored[t[2]].exists
    /\ bounds.requests < MaxRequests
    /\ \E wants \in {"activate", "deactivate", "edit", "delete"} : Begin(t, wants)
    /\ Counted("requests")
    /\ UNCHANGED <<stored, errors, memory, queued, running>>

Changed(row, wants) ==
    CASE wants = "activate"   -> [row EXCEPT !.active = TRUE]
      [] wants = "deactivate" -> [row EXCEPT !.active = FALSE]
      [] wants = "edit"       -> [row EXCEPT !.version = @ + 1]
      [] wants = "delete"     -> [row EXCEPT !.exists = FALSE, !.active = FALSE]

\* The row is written, if it is still there.
Save(t) ==
    /\ task[t].at = "saving"
    /\ LET w == t[2]
           row == IF stored[w].exists THEN Changed(stored[w], task[t].wants) ELSE stored[w]
       IN  /\ stored' = [stored EXCEPT ![w] = row]
           /\ task' = [task EXCEPT ![t] =
                          IF task[t].wants = "delete" THEN Idle ELSE [Idle EXCEPT !.at = "saved"]]
    /\ UNCHANGED <<errors, memory, queued, running, bounds>>

\* An update reads the row again, and adds the workflow when it is active by then.
ReadBack(t) ==
    /\ task[t].at = "saved"
    /\ task' = [task EXCEPT ![t] =
                   IF stored[t[2]].active THEN [Idle EXCEPT !.at = "adding"] ELSE Idle]
    /\ UNCHANGED <<stored, errors, memory, queued, running, bounds>>

-------------------------------------------------------------------------------
(***************************************************************************)
(* remove.                                                                 *)
(***************************************************************************)
AfterRemoval(t) == IF IsRequest(t) THEN [task[t] EXCEPT !.at = "saving", !.holds = {}] ELSE Idle

\* Mutant of Dequeued: the entry stays.
StillQueued(w) == queued
Dequeued(w) == Without(queued, w)

\* The error is deregistered, a queued activation is dropped, and the triggers of
\* the entry in memory begin to close.  Without triggers the entry is deleted now.
Remove(t) ==
    /\ task[t].at = "removing"
    /\ LET w == t[2]
       IN  /\ errors' = errors \ {w}
           /\ queued' = Dequeued(w)
           /\ IF HasTriggers(w)
              THEN /\ task' = [task EXCEPT ![t] = [@ EXCEPT !.at = "closing", !.holds = memory[w]]]
                   /\ UNCHANGED memory
              ELSE /\ task' = [task EXCEPT ![t] = AfterRemoval(t)]
                   /\ memory' = Without(memory, w)
    /\ UNCHANGED <<stored, running, bounds>>

\* They have closed, and the entry that is in memory now is deleted.
Close(t) ==
    /\ task[t].at = "closing"
    /\ running' = running \ task[t].holds
    /\ memory' = Without(memory, t[2])
    /\ task' = [task EXCEPT ![t] = AfterRemoval(t)]
    /\ UNCHANGED <<stored, errors, queued, bounds>>

\* A closing function throws: the triggers after it are left to run, the entry
\* stays, and a request fails before it has changed the row.
CloseFails(t) ==
    /\ task[t].at = "closing" /\ t[1] \in FailingCloses
    /\ bounds.failures < MaxFailures /\ Counted("failures")
    /\ \E closed \in SUBSET task[t].holds \ {task[t].holds} : running' = running \ closed
    /\ task' = [task EXCEPT ![t] = Idle]
    /\ UNCHANGED <<stored, errors, memory, queued>>

-------------------------------------------------------------------------------
(***************************************************************************)
(* add.                                                                    *)
(***************************************************************************)
\* The start of the process adds one workflow after the other.
MayAdd(t) ==
    /\ task[t].at \in {"adding", "listed"}
    /\ t[1] = "start" => \A v \in Workflows : task[<<"start", v>>].at # "starting"

\* A retry and a start have the workflow as it was read; a request reads it.
\* A new entry takes the place of the one in memory.
Add(t) ==
    /\ MayAdd(t)
    /\ LET w == t[2]
           version == IF IsRequest(t) THEN stored[w].version ELSE task[t].version
       IN  /\ IsRequest(t) => stored[w].exists
           /\ memory' = With(memory, w, {})
           /\ task' = [task EXCEPT ![t] =
                          [@ EXCEPT !.at = "starting", !.left = Triggers, !.version = version]]
    /\ UNCHANGED <<stored, errors, queued, running, bounds>>

\* A trigger runs, and closes with the entry if that is being removed already.
\* With the last one the workflow is active: its error and its queued activation
\* are removed.
TriggerStarts(t) ==
    /\ task[t].at = "starting"
    /\ LET w == t[2]
           trigger == NewTrigger(w, task[t].version)
           Closes(u) == u[2] = w /\ task[u].at = "closing" /\ task[u].holds = memory[w]
           after == IF task[t].left > 1 THEN [task[t] EXCEPT !.left = @ - 1] ELSE Idle
       IN  /\ w \in DOMAIN memory
           /\ running' = running \cup {trigger}
           /\ memory' = [memory EXCEPT ![w] = @ \cup {trigger}]
           /\ task' = [u \in Tasks |->
                          IF u = t THEN after
                          ELSE IF Closes(u) THEN [task[u] EXCEPT !.holds = @ \cup {trigger}]
                          ELSE task[u]]
           /\ IF task[t].left > 1 THEN UNCHANGED <<errors, queued>>
              ELSE errors' = errors \ {w} /\ queued' = Dequeued(w)
    /\ UNCHANGED <<stored, bounds>>

\* addQueuedWorkflowActivation.
Enqueued(w, version) == With(queued, w, [version |-> version, armed |-> TRUE])

\* Mutant of Handled: a retry that failed does not arm the timer again.
HandledOnce(t, refused) ==
    LET w == t[2]
    IN  /\ stored' = IF IsRequest(t) THEN [stored EXCEPT ![w].active = FALSE] ELSE stored
        /\ queued' = IF t[1] = "start" /\ ~refused THEN Enqueued(w, task[t].version) ELSE queued

\* What is done about an activation that failed.  A request makes the workflow
\* inactive.  A retry arms the timer again when it is still queued.  The start
\* of the process queues it, unless it was refused for want of authorization.
Handled(t, refused) ==
    LET w == t[2]
    IN  /\ stored' = IF IsRequest(t) THEN [stored EXCEPT ![w].active = FALSE] ELSE stored
        /\ queued' =
              CASE t[1] = "retry" /\ w \in DOMAIN queued -> [queued EXCEPT ![w].armed = TRUE]
                [] t[1] = "start" /\ ~refused -> Enqueued(w, task[t].version)
                [] OTHER -> queued

\* An activation fails: before there is an entry or before a trigger runs, as the
\* entry is gone by then, or as the workflow is.  Triggers that run already are left
\* to run.
ActivationFails(t) ==
    /\ \/ /\ MayAdd(t) \/ (task[t].at = "starting" /\ t[2] \in DOMAIN memory)
          /\ bounds.failures < MaxFailures /\ Counted("failures")
          /\ UNCHANGED running
       \/ /\ task[t].at = "starting" /\ t[2] \notin DOMAIN memory
          /\ running' = running \cup {NewTrigger(t[2], task[t].version)}
          /\ UNCHANGED bounds
       \/ /\ task[t].at = "adding" /\ IsRequest(t) /\ ~stored[t[2]].exists
          /\ UNCHANGED <<running, bounds>>
    /\ errors' = errors \cup {t[2]}
    /\ \E refused \in BOOLEAN : (refused => t[1] = "start") /\ Handled(t, refused)
    /\ task' = [task EXCEPT ![t] = Idle]
    /\ UNCHANGED memory

-------------------------------------------------------------------------------
(***************************************************************************)
(* Retries, triggers that fail, and restarts.                              *)
(***************************************************************************)
TimerFires(w) ==
    /\ MayBegin(<<"retry", w>>)
    /\ w \in DOMAIN queued /\ queued[w].armed
    /\ queued' = [queued EXCEPT ![w].armed = FALSE]
    /\ task' = [task EXCEPT ![<<"retry", w>>] =
                   [Idle EXCEPT !.at = "adding", !.version = queued[w].version]]
    /\ UNCHANGED <<stored, errors, memory, running, bounds>>

\* emitError: the workflow is removed from memory, without waiting for that, and
\* queued with the data that the trigger was started with.
TriggerFails(trigger) ==
    LET w == trigger.workflow
        t == <<"close", w>>
    IN
    /\ trigger \in running /\ MayBegin(t)
    /\ bounds.failures < MaxFailures /\ Counted("failures")
    /\ IF HasTriggers(w)
       THEN /\ task' = [task EXCEPT ![t] = [Idle EXCEPT !.at = "closing", !.holds = memory[w]]]
            /\ UNCHANGED memory
       ELSE /\ memory' = Without(memory, w)
            /\ UNCHANGED task
    /\ errors' = errors \cup {w}
    /\ queued' = Enqueued(w, trigger.version)
    /\ UNCHANGED <<stored, running>>

\* The process ends and starts again: addActiveWorkflows reads the workflows that
\* are active, and adds one after the other.
Restart ==
    /\ bounds.restarts < MaxRestarts /\ Counted("restarts")
    /\ running' = {}
    /\ memory' = NoEntries
    /\ queued' = NoEntries
    /\ errors' \in {errors, {}}
    /\ task' = [t \in Tasks |->
                   IF t[1] = "start" /\ stored[t[2]].active
                   THEN [Idle EXCEPT !.at = "listed", !.version = stored[t[2]].version]
                   ELSE Idle]
    /\ UNCHANGED stored

TaskStep(t) ==
    \/ Save(t) \/ ReadBack(t) \/ Remove(t) \/ Close(t) \/ CloseFails(t)
    \/ Add(t) \/ TriggerStarts(t) \/ ActivationFails(t)

Next ==
    \/ \E t \in Tasks : TaskStep(t)
    \/ \E w \in Workflows : TimerFires(w)
    \/ \E t \in Tasks : Request(t)
    \/ \E trigger \in running : TriggerFails(trigger)
    \/ Restart

Spec == Init /\ [][Next]_vars

\* Awaited calls return, and timers fire.  No request, failing trigger or restart
\* need happen.
FairSpec == Spec /\ \A w \in Workflows :
    WF_vars(TimerFires(w) \/ \E k \in Kinds : TaskStep(<<k, w>>))

-------------------------------------------------------------------------------
(***************************************************************************)
(* Properties.                                                             *)
(***************************************************************************)
\* Every variable has its type.  The triggers in memory are triggers of that
\* workflow, and a workflow that is deleted is inactive.
TypeOK ==
    /\ stored \in [Workflows -> [exists : BOOLEAN, active : BOOLEAN, version : Nat]]
    /\ \A w \in Workflows : stored[w].active => stored[w].exists
    /\ errors \subseteq Workflows
    /\ DOMAIN memory \subseteq Workflows
    /\ \A w \in DOMAIN memory : \A r \in memory[w] : r.workflow = w
    /\ DOMAIN queued \subseteq Workflows
    /\ \A w \in DOMAIN queued : queued[w] \in [version : Nat, armed : BOOLEAN]
    /\ \A r \in running : r.workflow \in Workflows /\ r.version \in Nat
    /\ DOMAIN task = Tasks
    /\ \A t \in Tasks :
          /\ task[t].at \in {"idle", "listed", "removing", "closing", "saving", "saved",
                         "adding", "starting"}
          /\ task[t].version \in Nat \cup {-1}
          /\ task[t].left \in 0..Triggers
    /\ bounds \in [requests : 0..MaxRequests, failures : 0..MaxFailures,
                   restarts : 0..MaxRestarts]

\* A workflow that is inactive, or deleted, runs no trigger and is not queued, once
\* nothing is under way for it: whatever was queued, retried or restarted before.
OnlyActiveRun ==
    \A w \in Workflows :
        AtRest(w) /\ ~stored[w].active => Running(w) = {} /\ w \notin DOMAIN queued

\* A workflow that is active runs each of its triggers once and with the data that
\* is stored, and has no error; or its error is registered for the user to see.
ActiveServed ==
    \A w \in Workflows :
        AtRest(w) /\ stored[w].active =>
            \/ /\ w \notin errors /\ w \notin DOMAIN queued
               /\ Cardinality(Running(w)) = Triggers
               /\ \A r \in Running(w) : r.version = stored[w].version
            \/ w \in errors /\ Running(w) = {}

\* The entry in memory holds every trigger that runs, so that remove can close it.
TriggersHeld ==
    \A r \in running : r.workflow \in DOMAIN memory /\ r \in memory[r.workflow]

\* A workflow that is active gets to run again after it failed, in the end, unless
\* it is made inactive or was refused when the process started.
Refused(w) == w \in errors /\ w \notin DOMAIN queued /\ AtRest(w)
Activates ==
    \A w \in Workflows :
        stored[w].active ~> \/ w \notin errors /\ Cardinality(Running(w)) = Triggers
                            \/ ~stored[w].active \/ Refused(w)
===============================================================================
