-------------------------- MODULE ConcurrencyControl --------------------------
(***************************************************************************)
(* The admission of production executions in one main process: the service *)
(* cli/src/concurrency/concurrency-control.service.ts and the queue it     *)
(* owns, cli/src/concurrency/concurrency-queue.ts.                         *)
(*                                                                         *)
(* A caller awaits throttle(): the promise it gets is settled at once      *)
(* while there is capacity, and otherwise pushed on the queue as a pair    *)
(* {executionId, resolve} and settled when a slot is handed over.  A       *)
(* caller is named by the promise it awaits (a member of Calls); several   *)
(* callers may wait for one execution id, because an execution can be      *)
(* resumed by two parties.  All operations are synchronous JavaScript, so  *)
(* each is one action.                                                     *)
(***************************************************************************)
EXTENDS Integers, Sequences, SequencesExt

CONSTANTS
    Executions,       \* execution ids
    Calls,            \* the promises returned by throttle()
    ProductionLimit,  \* executions.concurrency.productionLimit
    QueueMode,        \* executions.mode = "queue"
    Cancellable,      \* the executions a user stops while they are enqueued
    CallerModes,      \* the modes the executions of this instance are run in
    MaxCallers        \* bound: callers that hold a slot or wait, at any one time

ASSUME LimitAssumption == ProductionLimit \in Int \ {0}
ASSUME CancellableAssumption == Cancellable \subseteq Executions
ASSUME QueueModeAssumption == QueueMode \in BOOLEAN
ASSUME MaxCallersAssumption == MaxCallers \in Nat

VARIABLES
    isEnabled,   \* ConcurrencyControlService.isEnabled
    capacity,    \* ConcurrencyQueue.capacity, negative while callers wait
    queue,       \* ConcurrencyQueue.queue, oldest first
    settled,     \* promises that have been resolved
    inUse        \* slots handed out and not released (not in the code)

ccVars == <<isEnabled, capacity, queue, settled, inUse>>

UnlimitedModes == {"error", "integrated", "cli", "internal", "manual", "retry"}
ProductionModes == {"webhook", "trigger"}
Modes == UnlimitedModes \cup ProductionModes
ASSUME CallerModesAssumption == CallerModes \subseteq Modes

(***************************************************************************)
(* The limit the constructor keeps, and whether it enables the service.    *)
(* An enabled service therefore has a positive limit.                      *)
(***************************************************************************)
Limit == IF ProductionLimit < -1 THEN -1 ELSE ProductionLimit
InitiallyEnabled == Limit # -1 /\ ~QueueMode

Item == [executionId : Executions, resolve : Calls]

IsUnlimited(mode) ==
    \/ mode \in UnlimitedModes
    \/ mode \in ProductionModes /\ Limit = -1

\* Mutant of Bypassed: the check of isEnabled is forgotten.
BypassedIgnoringShutdown(mode) == IsUnlimited(mode)

\* The early return shared by throttle, release and remove.
Bypassed(mode) == ~isEnabled \/ IsUnlimited(mode)

\* getAll() and has(): which executions wait in the queue.
Enqueued == { queue[i].executionId : i \in DOMAIN queue }
Has(id) == isEnabled /\ id \in Enqueued

Waiters == { queue[i].resolve : i \in DOMAIN queue }

CCInit ==
    /\ isEnabled = InitiallyEnabled
    /\ capacity = Limit
    /\ queue = <<>>
    /\ settled = {}
    /\ inUse = 0

-------------------------------------------------------------------------------
(***************************************************************************)
(* ConcurrencyQueue.                                                       *)
(***************************************************************************)

\* Mutant of Enqueue: one slot too many.
EnqueueOffByOne(call, id) ==
    /\ capacity' = capacity - 1
    /\ \/ /\ capacity - 1 < -1
          /\ queue' = Append(queue, [executionId |-> id, resolve |-> call])
          /\ settled' = settled \ {call}
          /\ UNCHANGED inUse
       \/ /\ capacity - 1 >= -1
          /\ settled' = settled \cup {call}
          /\ inUse' = inUse + 1
          /\ UNCHANGED queue
    /\ UNCHANGED isEnabled

\* enqueue: take a slot, or wait behind everyone already waiting.
Enqueue(call, id) ==
    /\ capacity' = capacity - 1
    /\ \/ /\ capacity - 1 < 0
          /\ queue' = Append(queue, [executionId |-> id, resolve |-> call])
          /\ settled' = settled \ {call}
          /\ UNCHANGED inUse
       \/ /\ capacity - 1 >= 0
          /\ settled' = settled \cup {call}
          /\ inUse' = inUse + 1
          /\ UNCHANGED queue
    /\ UNCHANGED isEnabled

\* Mutant of ResolveNext: pop() instead of shift().
ResolveLast(items, slots) ==
    \/ /\ items = <<>>
       /\ queue' = <<>>
       /\ inUse' = slots
       /\ UNCHANGED settled
    \/ /\ items # <<>>
       /\ queue' = Front(items)
       /\ inUse' = slots + 1
       /\ settled' = settled \cup {Last(items).resolve}

\* resolveNext on what is left of the queue, with inUse slots handed out so far.
ResolveNext(items, slots) ==
    \/ /\ items = <<>>
       /\ queue' = <<>>
       /\ inUse' = slots
       /\ UNCHANGED settled
    \/ /\ items # <<>>
       /\ queue' = Tail(items)
       /\ inUse' = slots + 1
       /\ settled' = settled \cup {Head(items).resolve}

\* Mutant of Dequeue: the next caller is not woken.
DequeueOnly ==
    /\ capacity' = capacity + 1
    /\ inUse' = inUse - 1
    /\ UNCHANGED <<isEnabled, queue, settled>>

\* dequeue: give a slot back and hand it to the caller waiting longest.
Dequeue ==
    /\ capacity' = capacity + 1
    /\ ResolveNext(queue, inUse - 1)
    /\ UNCHANGED isEnabled

\* findIndex: i is the place of the execution's first item.
IsFirstOf(i, id) ==
    /\ queue[i].executionId = id
    /\ \A j \in 1..(i - 1) : queue[j].executionId # id

\* Mutant of RemoveQueued: the capacity taken by the caller is not given back.
RemoveKeepingCapacity(id) ==
    /\ \/ id \notin Enqueued /\ UNCHANGED <<queue, settled, inUse>>
       \/ \E i \in DOMAIN queue :
              IsFirstOf(i, id) /\ ResolveNext(RemoveAt(queue, i), inUse)
    /\ UNCHANGED <<isEnabled, capacity>>

\* remove: drop the execution's first item; the code also resolves the next one.
RemoveQueued(id) ==
    \/ /\ id \notin Enqueued
       /\ UNCHANGED ccVars
    \/ /\ \E i \in DOMAIN queue :
             /\ IsFirstOf(i, id)
             /\ ResolveNext(RemoveAt(queue, i), inUse)
       /\ capacity' = capacity + 1
       /\ UNCHANGED isEnabled

-------------------------------------------------------------------------------
(***************************************************************************)
(* ConcurrencyControlService.                                              *)
(***************************************************************************)

Throttle(call, id, mode) ==
    \/ /\ Bypassed(mode)
       /\ settled' = settled \cup {call}
       /\ UNCHANGED <<isEnabled, capacity, queue, inUse>>
    \/ /\ ~Bypassed(mode)
       /\ Enqueue(call, id)

Release(mode) ==
    \/ Bypassed(mode) /\ UNCHANGED ccVars
    \/ ~Bypassed(mode) /\ Dequeue

RemoveExecution(id, mode) ==   \* remove
    \/ Bypassed(mode) /\ UNCHANGED ccVars
    \/ ~Bypassed(mode) /\ RemoveQueued(id)

(***************************************************************************)
(* disable, at shutdown.  removeAll() is always called right after it and  *)
(* returns at once, so there is nothing else to model.                     *)
(***************************************************************************)
Disable ==
    /\ isEnabled' = FALSE
    /\ UNCHANGED <<capacity, queue, settled, inUse>>

-------------------------------------------------------------------------------
(***************************************************************************)
(* The service under its callers: an execution asks for a slot, finishes,  *)
(* or is stopped while it waits; the process shuts down.                   *)
(***************************************************************************)
Arrive(call, id, mode) ==
    /\ call \notin Waiters
    /\ inUse + Len(queue) < MaxCallers
    /\ Throttle(call, id, mode)

\* Only a caller that was handed a slot gives one back.
Finish(mode) ==
    /\ inUse > 0
    /\ Release(mode)

Stop(id, mode) ==
    /\ Has(id)
    /\ RemoveExecution(id, mode)

Next ==
    \/ \E call \in Calls, id \in Executions, mode \in CallerModes : Arrive(call, id, mode)
    \/ \E mode \in CallerModes : Finish(mode)
    \/ \E id \in Cancellable, mode \in CallerModes : Stop(id, mode)
    \/ Disable

Spec == CCInit /\ [][Next]_ccVars

(***************************************************************************)
(* Running executions finish, sooner or later: production ones give their  *)
(* slot back again and again for as long as any is handed out.             *)
(***************************************************************************)
FairSpec == Spec /\ WF_ccVars(Finish("webhook"))

-------------------------------------------------------------------------------
(***************************************************************************)
(* Properties.                                                             *)
(***************************************************************************)

\* Every variable has its type.
TypeOK ==
    /\ isEnabled \in BOOLEAN
    /\ capacity \in Int
    /\ queue \in Seq(Item)
    /\ settled \subseteq Calls
    /\ inUse \in Nat

\* The signed counter is the limit less the slots handed out and the callers
\* waiting, whatever order of enqueue, dequeue and remove led here: no slot is
\* lost by a cancelled caller and none is given back twice.
CapacityAccounting ==
    capacity = Limit - inUse - Len(queue)

\* Nobody waits while a slot is free (no lost wake-up).
NoIdleSlot ==
    queue # <<>> => inUse >= Limit

\* A caller waits behind one unsettled promise only: it is in the queue once,
\* and its promise is not settled while it is there.
OnePlaceInLine ==
    /\ \A i, j \in DOMAIN queue : queue[i].resolve = queue[j].resolve => i = j
    /\ \A i \in DOMAIN queue : queue[i].resolve \notin settled

\* A caller is let through only after everyone who was ahead of it has been
\* let through or cancelled, also when the execution at the head is stopped.
NoOvertaking ==
    [][\A i, j \in DOMAIN queue :
          (i < j /\ queue[j].resolve \in settled')
             => queue[i].resolve \notin { queue'[k].resolve : k \in DOMAIN queue' }
      ]_ccVars

\* Once the service is disabled no throttled caller proceeds, so that what is
\* enqueued at shutdown stays `new` in the database (ActiveExecutions.shutdown).
FrozenAtShutdown ==
    [][~isEnabled => /\ UNCHANGED <<queue, capacity>>
                     /\ Waiters \cap settled' = {}]_ccVars

\* A caller that waits is let through or cancelled, unless the process shuts down.
NoStarvation ==
    \A call \in Calls :
        (call \in Waiters) ~> (call \notin Waiters \/ ~isEnabled)

\* The documented limit: "Max production executions allowed to run concurrently"
\* (config/schema.ts:33).
WithinLimit ==
    isEnabled => inUse <= Limit

\* Without cancellations of enqueued executions, the service is a line in front
\* of Limit slots.
Line == INSTANCE AdmissionLine WITH
            Places <- Item,
            Slots <- Limit,
            open <- isEnabled,
            inUse <- inUse,
            line <- queue,
            through <- settled
ImplementsLine == Line!Spec
===============================================================================
