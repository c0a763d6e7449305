------------------------ MODULE ActiveWorkflowsProofs ------------------------
(***************************************************************************)
(* What ActiveWorkflows.tla promises for every number of workflows,        *)
(* triggers, requesters, requests, failures and restarts: its types        *)
(* always, and its safety properties as long as no step is one of three    *)
(* kinds that make the code lose hold of a trigger which runs.             *)
(***************************************************************************)
EXTENDS ActiveWorkflows, FiniteSetTheorems, TLAPS

At(k, w) == task[<<k, w>>]

(***************************************************************************)
(* The types.                                                              *)
(***************************************************************************)
Steps == {"idle", "listed", "removing", "closing", "saving", "saved", "adding", "starting"}
Wants == {"none", "activate", "deactivate", "edit", "delete"}

\* What a task keeps at each of its steps.
TaskOK(k, x) ==
    /\ x \in [at : Steps, wants : Wants, version : Nat \cup {-1}, left : 0..Triggers,
              holds : {x.holds}]
    /\ x.at \in {"saving", "saved"} => k \in Requesters
    /\ k \in Requesters /\ x.at \in {"removing", "closing", "saving"} => x.wants # "none"
    /\ x.at \in {"listed", "starting"} => x.version \in Nat
    /\ x.at = "adding" /\ k \notin Requesters => x.version \in Nat

Rows ==
    /\ stored \in [Workflows -> [exists : BOOLEAN, active : BOOLEAN, version : Nat]]
    /\ \A w \in Workflows : stored[w].active => stored[w].exists

Entries ==
    /\ errors \subseteq Workflows
    /\ DOMAIN memory \subseteq Workflows
    /\ \A w \in DOMAIN memory : \A r \in memory[w] : r.workflow = w
    /\ \A r \in running : r.workflow \in Workflows /\ r.version \in Nat

Queue ==
    /\ DOMAIN queued \subseteq Workflows
    /\ \A w \in DOMAIN queued : queued[w] \in [version : Nat, armed : BOOLEAN]

Bounded ==
    bounds \in [requests : 0..MaxRequests, failures : 0..MaxFailures, restarts : 0..MaxRestarts]

\* The inductive invariant behind the types.
TInv ==
    /\ Rows /\ Entries /\ Queue /\ Bounded
    /\ DOMAIN task = Tasks
    /\ \A t \in Tasks : TaskOK(t[1], task[t])

(***************************************************************************)
(* What is true of each workflow.                                          *)
(***************************************************************************)
\* It runs all its triggers with the data that is stored.
Complete(w) ==
    /\ Cardinality(Running(w)) = Triggers
    /\ \A r \in Running(w) : r.version = stored[w].version

\* Nothing is under way for w: what it should be like.
Served(w) ==
    IF stored[w].active
    THEN \/ w \notin errors /\ w \notin DOMAIN queued /\ Complete(w)
         \/ w \in errors /\ Running(w) = {}
    ELSE Running(w) = {} /\ w \notin DOMAIN queued

\* The entry in memory is what runs, whatever is under way.
Kept(w) ==
    /\ IsFiniteSet(Running(w))
    /\ IF w \in DOMAIN memory THEN memory[w] = Running(w) ELSE Running(w) = {}
    /\ w \in DOMAIN queued => queued[w].version = stored[w].version

\* What holds of w while task k of it is at one of its steps.
Phase(k, w) ==
    /\ At(k, w).at # "closing" => At(k, w).holds = {}
    /\ At(k, w).at = "removing" =>
          /\ k \in Requesters /\ stored[w].active
          /\ Complete(w) \/ Running(w) = {}
    /\ At(k, w).at = "closing" =>
          /\ stored[w].active /\ w \in DOMAIN memory /\ At(k, w).holds = Running(w)
          /\ \/ k \in Requesters /\ w \notin errors /\ w \notin DOMAIN queued /\ Complete(w)
             \/ k = "close" /\ w \in errors
    /\ At(k, w).at \in {"saving", "saved"} => Running(w) = {} /\ w \notin DOMAIN queued
    /\ At(k, w).at \in {"adding", "listed", "starting"} =>
          /\ stored[w].active /\ k # "close"
          /\ k = "retry" <=> w \in DOMAIN queued
          /\ k \notin Requesters => At(k, w).version = stored[w].version
    /\ At(k, w).at \in {"adding", "listed"} => Running(w) = {}
    /\ At(k, w).at = "starting" =>
          /\ w \in DOMAIN memory /\ At(k, w).left \in 1..Triggers
          /\ Cardinality(Running(w)) = Triggers - At(k, w).left
          /\ At(k, w).version = stored[w].version
          /\ \A r \in Running(w) : r.version = stored[w].version

OneTask(w) ==
    \A k, l \in Kinds : At(k, w) # Idle /\ At(l, w) # Idle => k = l

Proper(w) ==
    /\ Kept(w)
    /\ OneTask(w)
    /\ AtRest(w) => Served(w)
    /\ \A k \in Kinds : Phase(k, w)

\* The inductive invariant behind the safety properties.
IInv == TInv /\ \A w \in Workflows : Proper(w)

(***************************************************************************)
(* The steps by which the code loses hold of triggers that run.            *)
(***************************************************************************)
\* A task begins while another one has the same workflow.
Crosses ==
    \/ \E t \in Tasks : Request(t) /\ ~AtRest(t[2])
    \/ \E w \in Workflows : TimerFires(w) /\ ~AtRest(w)
    \/ \E trigger \in running : TriggerFails(trigger) /\ ~AtRest(trigger.workflow)

\* An activation fails of which some triggers run already.
FailsHalfway ==
    \E t \in Tasks :
        ActivationFails(t) /\ task[t].at = "starting" /\ task[t].left < Triggers

\* A closing function fails after another one has closed its trigger, or as a
\* trigger has failed and nobody waits for the removal.
ClosesHalfway ==
    \E t \in Tasks : CloseFails(t) /\ (t[1] = "close" \/ running' # running)

KeepsHold == ~Crosses /\ ~FailsHalfway /\ ~ClosesHalfway

-------------------------------------------------------------------------------
(***************************************************************************)
(* Every step keeps the types.                                             *)
(***************************************************************************)
LEMMA IdleOK == \A k : TaskOK(k, Idle)
BY ConstantsAssumption DEF TaskOK, Steps, Wants, Idle, ConstantsAssumption

LEMMA CountedOK ==
    ASSUME Bounded,
           \/ Counted("requests") /\ bounds.requests < MaxRequests
           \/ Counted("failures") /\ bounds.failures < MaxFailures
           \/ Counted("restarts") /\ bounds.restarts < MaxRestarts
    PROVE  Bounded'
BY ConstantsAssumption DEF Bounded, Counted, ConstantsAssumption

\* A step that sets one task keeps the types of the tasks.
LEMMA SetOK ==
    ASSUME TInv, NEW t \in Tasks, NEW x, TaskOK(t[1], x), task' = [task EXCEPT ![t] = x]
    PROVE  DOMAIN task' = Tasks /\ \A u \in Tasks : TaskOK(u[1], task'[u])
<1>1. DOMAIN task' = Tasks
  BY DEF TInv
<1>2. \A u \in Tasks : task'[u] = IF u = t THEN x ELSE task[u]
  BY DEF TInv
<1>3. ASSUME NEW u \in Tasks
      PROVE  TaskOK(u[1], task'[u])
  <2>1. CASE u = t
    BY <1>2, <2>1
  <2>2. CASE u # t
    BY <1>2, <2>2 DEF TInv
  <2> QED BY <2>1, <2>2
<1> QED
  BY <1>1, <1>3

LEMMA TaskKnown ==
    ASSUME TInv, NEW t \in Tasks
    PROVE  t[1] \in Kinds /\ t[2] \in Workflows /\ TaskOK(t[1], task[t])
BY DEF TInv, Tasks

LEMMA RequestTypes ==
    ASSUME TInv, NEW t \in Tasks, Request(t)
    PROVE  TInv'
<1>1. PICK wants \in {"activate", "deactivate", "edit", "delete"} : Begin(t, wants)
  BY DEF Request
<1> DEFINE at == IF stored[t[2]].active THEN "removing" ELSE "saving"
           x == [Idle EXCEPT !.at = at, !.wants = wants]
<1>2. x \in [at : {at}, wants : {wants}, version : {-1}, left : {0}, holds : {{}}]
  BY DEF Idle
<1>3. t[1] \in Requesters /\ task' = [task EXCEPT ![t] = x]
      /\ UNCHANGED <<stored, errors, memory, queued, running>>
  BY <1>1 DEF Request, Begin, IsRequest
<1>4. at \in {"removing", "saving"}
  OBVIOUS
<1> HIDE DEF x, at
<1>5. x.at = at /\ x.wants = wants
  BY <1>2
<1>6. TaskOK(t[1], x)
  BY <1>2, <1>3, <1>4, <1>5, ConstantsAssumption DEF TaskOK, Steps, Wants, ConstantsAssumption
<1>7. Bounded'
  BY CountedOK DEF Request, TInv
<1>8. DOMAIN task' = Tasks /\ \A u \in Tasks : TaskOK(u[1], task'[u])
  BY <1>3, <1>6, SetOK
<1> QED
  BY <1>3, <1>7, <1>8 DEF TInv, Rows, Entries, Queue

LEMMA SaveTypes ==
    ASSUME TInv, NEW t \in Tasks, Save(t)
    PROVE  TInv'
<1> DEFINE w == t[2]
           row == IF stored[w].exists THEN Changed(stored[w], task[t].wants) ELSE stored[w]
           x == IF task[t].wants = "delete" THEN Idle ELSE [Idle EXCEPT !.at = "saved"]
<1>1. /\ w \in Workflows /\ TaskOK(t[1], task[t]) /\ task[t].at = "saving"
      /\ stored' = [stored EXCEPT ![w] = row] /\ task' = [task EXCEPT ![t] = x]
      /\ UNCHANGED <<errors, memory, queued, running, bounds>>
  BY TaskKnown DEF Save
<1>2. t[1] \in Requesters /\ task[t].wants \in Wants \ {"none"}
  BY <1>1 DEF TaskOK
<1>3. stored[w] \in [exists : BOOLEAN, active : BOOLEAN, version : Nat]
      /\ (stored[w].active => stored[w].exists)
  BY <1>1 DEF TInv, Rows
<1>4. row \in [exists : BOOLEAN, active : BOOLEAN, version : Nat] /\ (row.active => row.exists)
  <2>1. CASE task[t].wants = "activate"
    BY <1>3, <2>1 DEF Changed
  <2>2. CASE task[t].wants = "deactivate"
    BY <1>3, <2>2 DEF Changed
  <2>3. CASE task[t].wants = "edit"
    BY <1>3, <2>3 DEF Changed
  <2>4. CASE task[t].wants = "delete"
    BY <1>3, <2>4 DEF Changed
  <2> QED BY <1>2, <2>1, <2>2, <2>3, <2>4 DEF Wants
<1> HIDE DEF row
<1>5. Rows'
  BY <1>1, <1>4 DEF TInv, Rows
<1>6. TaskOK(t[1], x)
  BY <1>2, ConstantsAssumption DEF TaskOK, Steps, Wants, Idle, ConstantsAssumption
<1>7. DOMAIN task' = Tasks /\ \A u \in Tasks : TaskOK(u[1], task'[u])
  BY <1>1, <1>6, SetOK
<1> QED
  BY <1>1, <1>5, <1>7 DEF TInv, Entries, Queue, Bounded

LEMMA ReadBackTypes ==
    ASSUME TInv, NEW t \in Tasks, ReadBack(t)
    PROVE  TInv'
<1> DEFINE x == IF stored[t[2]].active THEN [Idle EXCEPT !.at = "adding"] ELSE Idle
<1>1. /\ TaskOK(t[1], task[t]) /\ task[t].at = "saved" /\ task' = [task EXCEPT ![t] = x]
      /\ UNCHANGED <<stored, errors, memory, queued, running, bounds>>
  BY TaskKnown DEF ReadBack
<1>2. TaskOK(t[1], x)
  BY <1>1, ConstantsAssumption DEF TaskOK, Steps, Wants, Idle, ConstantsAssumption
<1>3. DOMAIN task' = Tasks /\ \A u \in Tasks : TaskOK(u[1], task'[u])
  BY <1>1, <1>2, SetOK
<1> QED
  BY <1>1, <1>3 DEF TInv, Rows, Entries, Queue, Bounded

\* A request that has removed the workflow goes on to write its row.
LEMMA AfterRemovalOK ==
    ASSUME NEW t \in Tasks, TaskOK(t[1], task[t]), task[t].at \in {"removing", "closing"}
    PROVE  /\ TaskOK(t[1], AfterRemoval(t))
           /\ t[1] \notin Requesters => AfterRemoval(t) = Idle
           /\ t[1] \in Requesters =>
                 AfterRemoval(t).at = "saving" /\ AfterRemoval(t).holds = {}
<1>1. CASE t[1] \in Requesters
  <2> DEFINE x == [task[t] EXCEPT !.at = "saving", !.holds = {}]
  <2>1. x \in [at : {"saving"}, wants : {task[t].wants}, version : {task[t].version},
               left : {task[t].left}, holds : {{}}]
    BY DEF TaskOK
  <2>2. /\ task[t].wants \in Wants \ {"none"} /\ task[t].version \in Nat \cup {-1}
        /\ task[t].left \in 0..Triggers
    BY <1>1 DEF TaskOK
  <2> HIDE DEF x
  <2>3. x.at = "saving" /\ x.holds = {} /\ x.wants = task[t].wants
    BY <2>1
  <2>4. TaskOK(t[1], x)
    BY <1>1, <2>1, <2>2, <2>3 DEF TaskOK, Steps
  <2> QED BY <1>1, <2>3, <2>4 DEF AfterRemoval, IsRequest, x
<1>2. CASE t[1] \notin Requesters
  BY <1>2, IdleOK DEF AfterRemoval, IsRequest
<1> QED
  BY <1>1, <1>2

LEMMA RemoveTypes ==
    ASSUME TInv, NEW t \in Tasks, Remove(t)
    PROVE  TInv'
<1> DEFINE w == t[2]
           y == [task[t] EXCEPT !.at = "closing", !.holds = memory[w]]
<1>1. w \in Workflows /\ TaskOK(t[1], task[t]) /\ task[t].at = "removing"
  BY TaskKnown DEF Remove
<1>2. /\ errors' = errors \ {w} /\ queued' = Without(queued, w)
      /\ UNCHANGED <<stored, running, bounds>>
  BY DEF Remove, Dequeued
<1>3. PICK x : TaskOK(t[1], x) /\ task' = [task EXCEPT ![t] = x]
               /\ (memory' = memory \/ memory' = Without(memory, w))
  <2>1. CASE HasTriggers(w)
    <3>1. y \in [at : {"closing"}, wants : {task[t].wants}, version : {task[t].version},
                 left : {task[t].left}, holds : {memory[w]}]
      BY <1>1 DEF TaskOK
    <3>2. task' = [task EXCEPT ![t] = y] /\ memory' = memory
      BY <2>1, TaskKnown DEF Remove, TInv
    <3>3. /\ task[t].wants \in Wants /\ task[t].version \in Nat \cup {-1}
          /\ task[t].left \in 0..Triggers
          /\ t[1] \in Requesters => task[t].wants # "none"
      BY <1>1 DEF TaskOK
    <3> HIDE DEF y
    <3>4. y.at = "closing" /\ y.wants = task[t].wants
      BY <3>1
    <3>5. TaskOK(t[1], y)
      BY <3>1, <3>3, <3>4 DEF TaskOK, Steps
    <3> QED BY <3>2, <3>5
  <2>2. CASE ~HasTriggers(w)
    BY <1>1, <2>2, AfterRemovalOK DEF Remove
  <2> QED BY <2>1, <2>2
<1>4. Entries'
  <2>1. /\ DOMAIN Without(memory, w) = DOMAIN memory \ {w}
        /\ \A v \in DOMAIN memory \ {w} : Without(memory, w)[v] = memory[v]
    BY DEF Without
  <2>2. CASE memory' = memory
    BY <1>2, <2>2 DEF TInv, Entries
  <2>3. CASE memory' = Without(memory, w)
    BY <1>2, <2>1, <2>3 DEF TInv, Entries
  <2> QED BY <1>3, <2>2, <2>3
<1>5. Queue'
  <2>1. /\ DOMAIN queued' = DOMAIN queued \ {w}
        /\ \A v \in DOMAIN queued \ {w} : queued'[v] = queued[v]
    BY <1>2 DEF Without
  <2> QED BY <2>1 DEF TInv, Queue
<1>6. DOMAIN task' = Tasks /\ \A u \in Tasks : TaskOK(u[1], task'[u])
  BY <1>3, SetOK
<1> QED
  BY <1>2, <1>4, <1>5, <1>6 DEF TInv, Rows, Bounded

LEMMA CloseTypes ==
    ASSUME TInv, NEW t \in Tasks, Close(t)
    PROVE  TInv'
<1>1. /\ TaskOK(t[1], task[t]) /\ task[t].at = "closing"
      /\ task' = [task EXCEPT ![t] = AfterRemoval(t)]
      /\ memory' = Without(memory, t[2]) /\ running' = running \ task[t].holds
      /\ UNCHANGED <<stored, errors, queued, bounds>>
  BY TaskKnown DEF Close
<1>2. Entries'
  <2>1. /\ DOMAIN memory' = DOMAIN memory \ {t[2]}
        /\ \A v \in DOMAIN memory \ {t[2]} : memory'[v] = memory[v]
    BY <1>1 DEF Without
  <2> QED BY <1>1, <2>1 DEF TInv, Entries
<1>3. DOMAIN task' = Tasks /\ \A u \in Tasks : TaskOK(u[1], task'[u])
  BY <1>1, AfterRemovalOK, SetOK
<1> QED
  BY <1>1, <1>2, <1>3 DEF TInv, Rows, Queue, Bounded

LEMMA CloseFailsTypes ==
    ASSUME TInv, NEW t \in Tasks, CloseFails(t)
    PROVE  TInv'
<1>1. /\ task' = [task EXCEPT ![t] = Idle] /\ running' \subseteq running
      /\ UNCHANGED <<stored, errors, memory, queued>>
  BY DEF CloseFails
<1>2. Bounded'
  BY CountedOK DEF CloseFails, TInv
<1>3. Entries'
  BY <1>1 DEF TInv, Entries
<1>4. DOMAIN task' = Tasks /\ \A u \in Tasks : TaskOK(u[1], task'[u])
  BY <1>1, IdleOK, SetOK
<1> QED
  BY <1>1, <1>2, <1>3, <1>4 DEF TInv, Rows, Queue

\* What a task is when it begins to start triggers.
Starting(t) ==
    [task[t] EXCEPT !.at = "starting", !.left = Triggers,
                    !.version = IF IsRequest(t) THEN stored[t[2]].version ELSE task[t].version]

LEMMA StartingOK ==
    ASSUME TInv, NEW t \in Tasks, MayAdd(t)
    PROVE  /\ TaskOK(t[1], Starting(t))
           /\ Starting(t).at = "starting" /\ Starting(t).left = Triggers
           /\ Starting(t).version = IF IsRequest(t) THEN stored[t[2]].version
                                    ELSE task[t].version
           /\ Starting(t).holds = task[t].holds
<1> DEFINE version == IF IsRequest(t) THEN stored[t[2]].version ELSE task[t].version
           x == Starting(t)
<1>1. t[2] \in Workflows /\ TaskOK(t[1], task[t]) /\ task[t].at \in {"adding", "listed"}
  BY TaskKnown DEF MayAdd
<1>2. version \in Nat
  BY <1>1 DEF TaskOK, IsRequest, TInv, Rows
<1>3. x \in [at : {"starting"}, wants : {task[t].wants}, version : {version},
             left : {Triggers}, holds : {task[t].holds}]
  BY <1>1 DEF TaskOK, Starting
<1>4. task[t].wants \in Wants /\ Triggers \in 0..Triggers
  BY <1>1, ConstantsAssumption DEF TaskOK, ConstantsAssumption
<1> HIDE DEF version, x
<1>5. /\ x.at = "starting" /\ x.left = Triggers /\ x.version = version
      /\ x.holds = task[t].holds
  BY <1>3
<1>6. TaskOK(t[1], x)
  BY <1>2, <1>3, <1>4, <1>5 DEF TaskOK, Steps
<1> QED
  BY <1>5, <1>6 DEF x, version

LEMMA AddTypes ==
    ASSUME TInv, NEW t \in Tasks, Add(t)
    PROVE  TInv'
<1>1. t[2] \in Workflows /\ MayAdd(t)
  BY TaskKnown DEF Add
<1>2. /\ task' = [task EXCEPT ![t] = Starting(t)] /\ memory' = With(memory, t[2], {})
      /\ UNCHANGED <<stored, errors, queued, running, bounds>>
  BY DEF Add, Starting, TInv
<1>3. Entries'
  <2>1. /\ DOMAIN memory' = DOMAIN memory \cup {t[2]} /\ memory'[t[2]] = {}
        /\ \A v \in DOMAIN memory \ {t[2]} : memory'[v] = memory[v]
    BY <1>2 DEF With
  <2> QED BY <1>1, <1>2, <2>1 DEF TInv, Entries
<1>4. DOMAIN task' = Tasks /\ \A u \in Tasks : TaskOK(u[1], task'[u])
  BY <1>1, <1>2, StartingOK, SetOK
<1> QED
  BY <1>2, <1>3, <1>4 DEF TInv, Rows, Queue, Bounded

LEMMA TriggerStartsTypes ==
    ASSUME TInv, NEW t \in Tasks, TriggerStarts(t)
    PROVE  TInv'
<1> DEFINE w == t[2]
           trigger == NewTrigger(w, task[t].version)
           Closes(u) == u[2] = w /\ task[u].at = "closing" /\ task[u].holds = memory[w]
           after == IF task[t].left > 1 THEN [task[t] EXCEPT !.left = @ - 1] ELSE Idle
<1>1. w \in Workflows /\ TaskOK(t[1], task[t]) /\ task[t].at = "starting" /\ w \in DOMAIN memory
  BY TaskKnown DEF TriggerStarts
<1>2. task[t].version \in Nat /\ task[t].left \in 0..Triggers
  BY <1>1 DEF TaskOK
<1>3. trigger.workflow = w /\ trigger.version \in Nat
  BY <1>2 DEF NewTrigger
<1>4. /\ running' = running \cup {trigger}
      /\ memory' = [memory EXCEPT ![w] = @ \cup {trigger}]
      /\ task' = [u \in Tasks |->
                     IF u = t THEN after
                     ELSE IF Closes(u) THEN [task[u] EXCEPT !.holds = @ \cup {trigger}]
                     ELSE task[u]]
      /\ errors' \subseteq errors
      /\ queued' = queued \/ queued' = Without(queued, w)
      /\ UNCHANGED <<stored, bounds>>
  BY DEF TriggerStarts, Dequeued
<1> HIDE DEF trigger
<1>5. TaskOK(t[1], after)
  <2>1. CASE task[t].left > 1
    <3> DEFINE x == [task[t] EXCEPT !.left = @ - 1]
    <3>1. x \in [at : {"starting"}, wants : {task[t].wants}, version : {task[t].version},
                 left : {task[t].left - 1}, holds : {task[t].holds}]
      BY <1>1 DEF TaskOK
    <3>2. task[t].wants \in Wants /\ task[t].left - 1 \in 0..Triggers
      BY <1>1, <1>2, <2>1, ConstantsAssumption DEF TaskOK, ConstantsAssumption
    <3> HIDE DEF x
    <3>3. x.at = "starting" /\ x.version = task[t].version
      BY <3>1
    <3>4. TaskOK(t[1], x)
      BY <1>2, <3>1, <3>2, <3>3 DEF TaskOK, Steps
    <3> QED BY <2>1, <3>4 DEF x
  <2>2. CASE ~(task[t].left > 1)
    BY <2>2, IdleOK
  <2> QED BY <2>1, <2>2
<1>6. \A u \in Tasks : TaskOK(u[1], [task[u] EXCEPT !.holds = @ \cup {trigger}])
  <2> TAKE u \in Tasks
  <2> DEFINE x == [task[u] EXCEPT !.holds = @ \cup {trigger}]
  <2>1. TaskOK(u[1], task[u])
    BY DEF TInv
  <2>2. x \in [at : {task[u].at}, wants : {task[u].wants}, version : {task[u].version},
               left : {task[u].left}, holds : {x.holds}]
    BY <2>1 DEF TaskOK
  <2> HIDE DEF x
  <2>3. /\ x.at = task[u].at /\ x.wants = task[u].wants /\ x.version = task[u].version
        /\ x.left = task[u].left
    BY <2>2
  <2>4. TaskOK(u[1], x)
    BY <2>1, <2>2, <2>3 DEF TaskOK
  <2> QED BY <2>4 DEF x
<1> HIDE DEF after
<1>7. DOMAIN task' = Tasks /\ \A u \in Tasks : TaskOK(u[1], task'[u])
  <2>1. DOMAIN task' = Tasks
    BY <1>4
  <2>2. ASSUME NEW u \in Tasks
        PROVE  TaskOK(u[1], task'[u])
    <3>1. CASE u = t
      BY <1>4, <1>5, <3>1
    <3>2. CASE u # t /\ Closes(u)
      BY <1>4, <1>6, <3>2
    <3>3. CASE u # t /\ ~Closes(u)
      BY <1>4, <3>3 DEF TInv
    <3> QED BY <3>1, <3>2, <3>3
  <2> QED BY <2>1, <2>2
<1>8. Entries'
  <2>1. /\ DOMAIN memory' = DOMAIN memory /\ memory'[w] = memory[w] \cup {trigger}
        /\ \A v \in DOMAIN memory \ {w} : memory'[v] = memory[v]
    BY <1>1, <1>4
  <2> HIDE DEF w
  <2> QED BY <1>1, <1>3, <1>4, <2>1 DEF TInv, Entries
<1>9. Queue'
  <2>1. CASE queued' = queued
    BY <2>1 DEF TInv, Queue
  <2>2. CASE queued' = Without(queued, w)
    <3>1. /\ DOMAIN queued' = DOMAIN queued \ {w}
          /\ \A v \in DOMAIN queued \ {w} : queued'[v] = queued[v]
      BY <2>2 DEF Without
    <3> QED BY <3>1 DEF TInv, Queue
  <2> QED BY <1>4, <2>1, <2>2
<1> QED
  BY <1>4, <1>7, <1>8, <1>9 DEF TInv, Rows, Bounded

\* A workflow that is queued keeps the queue well typed.
LEMMA EnqueuedOK ==
    ASSUME Queue, NEW w \in Workflows, NEW version \in Nat, queued' = Enqueued(w, version)
    PROVE  /\ Queue' /\ DOMAIN queued' = DOMAIN queued \cup {w}
           /\ queued'[w].version = version
           /\ \A v \in DOMAIN queued \ {w} : queued'[v] = queued[v]
<1> DEFINE entry == [version |-> version, armed |-> TRUE]
<1>1. entry \in [version : Nat, armed : BOOLEAN] /\ entry.version = version
  OBVIOUS
<1>2. queued' = With(queued, w, entry)
  BY DEF Enqueued
<1> HIDE DEF entry
<1>3. /\ DOMAIN queued' = DOMAIN queued \cup {w} /\ queued'[w] = entry
      /\ \A v \in DOMAIN queued \ {w} : queued'[v] = queued[v]
  BY <1>2 DEF With
<1> QED
  BY <1>1, <1>3 DEF Queue

\* What is done about an activation that failed, by kind of task.
LEMMA HandledOK ==
    ASSUME TInv, NEW t \in Tasks, task[t].at \in {"adding", "listed", "starting"},
           NEW refused \in BOOLEAN, Handled(t, refused)
    PROVE  /\ Rows' /\ Queue'
           /\ stored'[t[2]].version = stored[t[2]].version
           /\ t[1] \in Requesters => ~stored'[t[2]].active
           /\ t[1] \notin Requesters => stored' = stored
           /\ \A v \in Workflows \ {t[2]} :
                 /\ stored'[v] = stored[v]
                 /\ v \in DOMAIN queued' <=> v \in DOMAIN queued
                 /\ v \in DOMAIN queued => queued'[v] = queued[v]
           /\ \/ queued' = queued
              \/ /\ t[1] = "retry" /\ DOMAIN queued' = DOMAIN queued
                 /\ queued'[t[2]].version = queued[t[2]].version
              \/ /\ t[1] = "start" /\ DOMAIN queued' = DOMAIN queued \cup {t[2]}
                 /\ queued'[t[2]].version = task[t].version
<1> DEFINE w == t[2]
<1>1. w \in Workflows /\ TaskOK(t[1], task[t])
  BY TaskKnown
<1>2. stored' = IF t[1] \in Requesters THEN [stored EXCEPT ![w].active = FALSE] ELSE stored
  BY DEF Handled, IsRequest
<1>3. /\ Rows' /\ stored'[w].version = stored[w].version
      /\ t[1] \in Requesters => ~stored'[w].active
      /\ \A v \in Workflows \ {w} : stored'[v] = stored[v]
  BY <1>1, <1>2 DEF TInv, Rows
<1>4. CASE t[1] = "retry" /\ w \in DOMAIN queued
  <2>1. queued' = [queued EXCEPT ![w].armed = TRUE]
    BY <1>4 DEF Handled
  <2>2. queued[w] \in [version : Nat, armed : BOOLEAN]
    BY <1>4 DEF TInv, Queue
  <2>3. /\ DOMAIN queued' = DOMAIN queued /\ queued'[w].version = queued[w].version
        /\ queued'[w] \in [version : Nat, armed : BOOLEAN]
        /\ \A v \in DOMAIN queued \ {w} : queued'[v] = queued[v]
    BY <1>4, <2>1, <2>2
  <2>4. Queue'
    BY <2>3 DEF TInv, Queue
  <2> QED BY <1>2, <1>3, <1>4, <2>3, <2>4
<1>5. CASE t[1] = "start" /\ ~refused
  <2>1. task[t].version \in Nat
    BY <1>1, <1>5, ConstantsAssumption DEF TaskOK, ConstantsAssumption
  <2>2. queued' = Enqueued(w, task[t].version) /\ Queue
    BY <1>5 DEF Handled, TInv
  <2>3. /\ Queue' /\ DOMAIN queued' = DOMAIN queued \cup {w}
        /\ queued'[w].version = task[t].version
        /\ \A v \in DOMAIN queued \ {w} : queued'[v] = queued[v]
    BY <1>1, <2>1, <2>2, EnqueuedOK
  <2> QED BY <1>2, <1>3, <1>5, <2>3
<1>6. CASE ~(t[1] = "retry" /\ w \in DOMAIN queued) /\ ~(t[1] = "start" /\ ~refused)
  <2>1. queued' = queued
    BY <1>6 DEF Handled
  <2>2. Queue'
    BY <2>1 DEF TInv, Queue
  <2> QED BY <1>2, <1>3, <2>1, <2>2
<1> QED
  BY <1>4, <1>5, <1>6

LEMMA ActivationFailsTypes ==
    ASSUME TInv, NEW t \in Tasks, ActivationFails(t)
    PROVE  TInv'
<1>1. /\ t[2] \in Workflows /\ TaskOK(t[1], task[t])
      /\ task[t].at \in {"adding", "listed", "starting"}
      /\ task' = [task EXCEPT ![t] = Idle] /\ errors' = errors \cup {t[2]} /\ UNCHANGED memory
  BY TaskKnown DEF ActivationFails, MayAdd
<1>2. PICK refused \in BOOLEAN : Handled(t, refused)
  BY DEF ActivationFails
<1>3. Rows' /\ Queue'
  BY <1>1, <1>2, HandledOK
<1>4. Bounded'
  <2>1. Bounded
    BY DEF TInv
  <2>2. CASE bounds.failures < MaxFailures /\ Counted("failures")
    BY <2>1, <2>2, CountedOK
  <2>3. CASE UNCHANGED bounds
    BY <2>1, <2>3 DEF Bounded
  <2> QED BY <2>2, <2>3 DEF ActivationFails
<1>5. Entries'
  <2>1. CASE UNCHANGED running
    BY <1>1, <2>1 DEF TInv, Entries
  <2>2. CASE task[t].at = "starting"
             /\ running' = running \cup {NewTrigger(t[2], task[t].version)}
    <3> DEFINE trigger == NewTrigger(t[2], task[t].version)
    <3>1. trigger.workflow = t[2] /\ trigger.version = task[t].version
      BY DEF NewTrigger
    <3>2. task[t].version \in Nat
      BY <1>1, <2>2 DEF TaskOK
    <3> HIDE DEF trigger
    <3>3. running' = running \cup {trigger}
      BY <2>2 DEF trigger
    <3> QED BY <1>1, <3>1, <3>2, <3>3 DEF TInv, Entries
  <2> QED BY <2>1, <2>2 DEF ActivationFails
<1>6. DOMAIN task' = Tasks /\ \A u \in Tasks : TaskOK(u[1], task'[u])
  BY <1>1, IdleOK, SetOK
<1> QED
  BY <1>3, <1>4, <1>5, <1>6 DEF TInv

LEMMA TimerFiresTypes ==
    ASSUME TInv, NEW w \in Workflows, TimerFires(w)
    PROVE  TInv'
<1> DEFINE t == <<"retry", w>>
           x == [Idle EXCEPT !.at = "adding", !.version = queued[w].version]
<1>1. /\ w \in DOMAIN queued /\ queued' = [queued EXCEPT ![w].armed = FALSE]
      /\ task' = [task EXCEPT ![t] = x]
      /\ UNCHANGED <<stored, errors, memory, running, bounds>>
  BY DEF TimerFires
<1>2. queued[w] \in [version : Nat, armed : BOOLEAN]
  BY <1>1 DEF TInv, Queue
<1>3. x \in [at : {"adding"}, wants : {"none"}, version : {queued[w].version}, left : {0},
             holds : {{}}]
  BY DEF Idle
<1> HIDE DEF x
<1>4. t \in Tasks /\ t[1] = "retry" /\ "retry" \notin Requesters
  BY ConstantsAssumption DEF Tasks, Kinds, ConstantsAssumption
<1>5. x.at = "adding" /\ x.version = queued[w].version
  BY <1>3
<1>6. TaskOK(t[1], x)
  BY <1>2, <1>3, <1>4, <1>5, ConstantsAssumption DEF TaskOK, Steps, Wants, ConstantsAssumption
<1>7. DOMAIN task' = Tasks /\ \A u \in Tasks : TaskOK(u[1], task'[u])
  BY <1>1, <1>4, <1>6, SetOK
<1>8. Queue'
  <2>1. /\ DOMAIN queued' = DOMAIN queued
        /\ queued'[w] \in [version : Nat, armed : BOOLEAN]
        /\ \A v \in DOMAIN queued \ {w} : queued'[v] = queued[v]
    BY <1>1, <1>2
  <2> QED BY <2>1 DEF TInv, Queue
<1> QED
  BY <1>1, <1>7, <1>8 DEF TInv, Rows, Entries, Bounded

\* The task that removes a workflow of which a trigger has failed.
Removing(w) == [Idle EXCEPT !.at = "closing", !.holds = memory[w]]

LEMMA RemovingOK ==
    ASSUME NEW w
    PROVE  /\ TaskOK("close", Removing(w))
           /\ Removing(w).at = "closing" /\ Removing(w).holds = memory[w]
<1>1. Removing(w) \in [at : {"closing"}, wants : {"none"}, version : {-1}, left : {0},
                       holds : {memory[w]}]
  BY DEF Idle, Removing
<1> DEFINE x == Removing(w)
<1> HIDE DEF x
<1>2. x.at = "closing" /\ x.holds = memory[w]
  BY <1>1 DEF x
<1>3. "close" \notin Requesters
  BY ConstantsAssumption DEF ConstantsAssumption
<1>4. TaskOK("close", x)
  BY <1>1, <1>2, <1>3, ConstantsAssumption DEF x, TaskOK, Steps, Wants, ConstantsAssumption
<1> QED
  BY <1>2, <1>4 DEF x

LEMMA TriggerFailsTypes ==
    ASSUME TInv, NEW trigger \in running, TriggerFails(trigger)
    PROVE  TInv'
<1> DEFINE w == trigger.workflow
           t == <<"close", w>>
<1>1. w \in Workflows /\ trigger.version \in Nat /\ Queue /\ Bounded
  BY DEF TInv, Entries
<1>2. t \in Tasks /\ t[1] = "close"
  BY <1>1 DEF Tasks, Kinds
<1>3. /\ errors' = errors \cup {w} /\ queued' = Enqueued(w, trigger.version)
      /\ UNCHANGED <<stored, running>>
  BY DEF TriggerFails
<1>4. Queue'
  BY <1>1, <1>3, EnqueuedOK
<1>5. Bounded'
  BY <1>1, CountedOK DEF TriggerFails
<1>6. CASE HasTriggers(w)
  <2>1. task' = [task EXCEPT ![t] = Removing(w)] /\ UNCHANGED memory
    BY <1>6 DEF TriggerFails, Removing
  <2>2. DOMAIN task' = Tasks /\ \A u \in Tasks : TaskOK(u[1], task'[u])
    BY <1>2, <2>1, RemovingOK, SetOK
  <2>3. Entries'
    BY <1>1, <1>3, <2>1 DEF TInv, Entries
  <2> QED BY <1>3, <1>4, <1>5, <2>2, <2>3 DEF TInv, Rows
<1>7. CASE ~HasTriggers(w)
  <2>1. memory' = Without(memory, w) /\ UNCHANGED task
    BY <1>7 DEF TriggerFails
  <2>2. /\ DOMAIN memory' = DOMAIN memory \ {w}
        /\ \A v \in DOMAIN memory \ {w} : memory'[v] = memory[v]
    BY <2>1 DEF Without
  <2>3. Entries'
    BY <1>1, <1>3, <2>2 DEF TInv, Entries
  <2> QED BY <1>3, <1>4, <1>5, <2>1, <2>3 DEF TInv, Rows
<1> QED
  BY <1>6, <1>7

\* A process that has just started has no trigger, no queue, and a list of workflows.
Started ==
    /\ running = {} /\ memory = NoEntries /\ queued = NoEntries
    /\ task = [t \in Tasks |->
                  IF t[1] = "start" /\ stored[t[2]].active
                  THEN [Idle EXCEPT !.at = "listed", !.version = stored[t[2]].version]
                  ELSE Idle]

\* A workflow on that list.
Listed(w) == [Idle EXCEPT !.at = "listed", !.version = stored[w].version]

LEMMA ListedOK ==
    ASSUME Rows, NEW w \in Workflows
    PROVE  /\ TaskOK("start", Listed(w)) /\ Listed(w).at = "listed"
           /\ Listed(w).version = stored[w].version /\ Listed(w).holds = {}
<1>1. Listed(w) \in [at : {"listed"}, wants : {"none"}, version : {stored[w].version},
                     left : {0}, holds : {{}}]
  BY DEF Idle, Listed
<1> DEFINE x == Listed(w)
<1> HIDE DEF x
<1>2. x.at = "listed" /\ x.version = stored[w].version /\ x.holds = {}
  BY <1>1 DEF x
<1>3. "start" \notin Requesters /\ stored[w].version \in Nat
  BY ConstantsAssumption DEF ConstantsAssumption, Rows
<1>4. TaskOK("start", x)
  BY <1>1, <1>2, <1>3, ConstantsAssumption DEF x, TaskOK, Steps, Wants, ConstantsAssumption
<1> QED
  BY <1>2, <1>4 DEF x

LEMMA StartedTypes ==
    Started /\ Rows /\ Bounded /\ errors \subseteq Workflows => TInv
<1> SUFFICES ASSUME Started, Rows, Bounded, errors \subseteq Workflows
             PROVE  TInv
  OBVIOUS
<1>1. DOMAIN task = Tasks /\ \A t \in Tasks : TaskOK(t[1], task[t])
  <2>1. ASSUME NEW t \in Tasks
        PROVE  TaskOK(t[1], task[t])
    <3>1. t[2] \in Workflows
      BY DEF Tasks
    <3>2. task[t] = IF t[1] = "start" /\ stored[t[2]].active THEN Listed(t[2]) ELSE Idle
      BY DEF Started, Listed
    <3> QED BY <3>1, <3>2, IdleOK, ListedOK
  <2> QED BY <2>1 DEF Started
<1>2. Entries /\ Queue
  BY DEF Started, NoEntries, Entries, Queue
<1> QED
  BY <1>1, <1>2 DEF TInv

LEMMA RestartTypes ==
    ASSUME TInv, Restart
    PROVE  TInv'
<1>1. Started' /\ Rows'
  BY DEF Restart, Started, TInv, Rows
<1>2. Bounded'
  BY CountedOK DEF Restart, TInv
<1>3. errors' \subseteq Workflows
  BY DEF TInv, Entries, Restart
<1>4. (Started /\ Rows /\ Bounded /\ errors \subseteq Workflows => TInv)'
  BY StartedTypes, PTL
<1> QED
  BY <1>1, <1>2, <1>3, <1>4

LEMMA InitTypes == Init => Started /\ TInv
<1> SUFFICES ASSUME Init
             PROVE  Started /\ TInv
  OBVIOUS
<1>1. Started
  BY DEF Init, Started
<1>2. Rows
  <2>1. PICK active \in [Workflows -> BOOLEAN] :
           stored = [w \in Workflows |-> [exists |-> TRUE, active |-> active[w], version |-> 0]]
    BY DEF Init
  <2>2. \A w \in Workflows :
           [exists |-> TRUE, active |-> active[w], version |-> 0]
              \in [exists : BOOLEAN, active : BOOLEAN, version : Nat]
    OBVIOUS
  <2> QED BY <2>1, <2>2 DEF Rows
<1>3. Bounded
  <2>1. bounds = [requests |-> 0, failures |-> 0, restarts |-> 0]
    BY DEF Init
  <2>2. 0 \in 0..MaxRequests /\ 0 \in 0..MaxFailures /\ 0 \in 0..MaxRestarts
    BY ConstantsAssumption DEF ConstantsAssumption
  <2> QED BY <2>1, <2>2 DEF Bounded
<1> QED
  BY <1>1, <1>2, <1>3, StartedTypes DEF Init

LEMMA NextTypes == TInv /\ [Next]_vars => TInv'
<1> SUFFICES ASSUME TInv, [Next]_vars
             PROVE  TInv'
  OBVIOUS
<1>1. ASSUME NEW t \in Tasks, TaskStep(t)
      PROVE  TInv'
  BY <1>1, SaveTypes, ReadBackTypes, RemoveTypes, CloseTypes, CloseFailsTypes, AddTypes,
     TriggerStartsTypes, ActivationFailsTypes DEF TaskStep
<1>2. ASSUME NEW w \in Workflows, TimerFires(w)
      PROVE  TInv'
  BY <1>2, TimerFiresTypes
<1>3. ASSUME NEW t \in Tasks, Request(t)
      PROVE  TInv'
  BY <1>3, RequestTypes
<1>4. ASSUME NEW trigger \in running, TriggerFails(trigger)
      PROVE  TInv'
  BY <1>4, TriggerFailsTypes
<1>5. CASE Restart
  BY <1>5, RestartTypes
<1>6. CASE UNCHANGED vars
  BY <1>6 DEF vars, TInv, Rows, Entries, Queue, Bounded
<1> QED
  BY <1>1, <1>2, <1>3, <1>4, <1>5, <1>6 DEF Next

\* Every variable has its type, whatever interleaves and whatever fails, for any
\* number of workflows, triggers, requests, failures and restarts.
THEOREM TypeCorrect == Spec => []TypeOK
<1>1. TInv => TypeOK
  <2> SUFFICES ASSUME TInv
               PROVE  TypeOK
    OBVIOUS
  <2>1. \A t \in Tasks :
           /\ task[t].at \in Steps /\ task[t].version \in Nat \cup {-1}
           /\ task[t].left \in 0..Triggers
    BY DEF TInv, TaskOK
  <2> QED BY <2>1 DEF TypeOK, TInv, Rows, Entries, Queue, Bounded, Steps
<1>2. Init => TInv
  BY InitTypes
<1> QED
  BY <1>1, <1>2, NextTypes, PTL DEF Spec

-------------------------------------------------------------------------------
(***************************************************************************)
(* What a step leaves alone, and what has to be shown of the rest.         *)
(***************************************************************************)
Unchanged(v) ==
    /\ stored'[v] = stored[v]
    /\ v \in errors' <=> v \in errors
    /\ v \in DOMAIN memory' <=> v \in DOMAIN memory
    /\ v \in DOMAIN memory => memory'[v] = memory[v]
    /\ v \in DOMAIN queued' <=> v \in DOMAIN queued
    /\ v \in DOMAIN queued => queued'[v] = queued[v]
    /\ Running(v)' = Running(v)

\* A workflow that a step leaves alone stays as it should be.
LEMMA Frame ==
    ASSUME NEW v \in Workflows, Proper(v), Unchanged(v), \A k \in Kinds : At(k, v)' = At(k, v)
    PROVE  Proper(v)'
<1>1. AtRest(v)' = AtRest(v)
  BY DEF AtRest, At
<1>2. Complete(v)' = Complete(v)
  BY DEF Complete, Unchanged
<1>3. Served(v) => Served(v)'
  BY <1>2 DEF Served, Unchanged
<1>4. OneTask(v)'
  BY DEF OneTask, Proper
<1>5. \A k \in Kinds : Phase(k, v)'
  <2> TAKE k \in Kinds
  <2>1. Phase(k, v) /\ At(k, v)' = At(k, v)
    BY DEF Proper
  <2> QED BY <1>2, <2>1 DEF Phase, Unchanged
<1>6. Kept(v)'
  BY DEF Proper, Kept, Unchanged
<1> QED
  BY <1>1, <1>3, <1>4, <1>5, <1>6 DEF Proper

\* A step sets task k of w to x.
Sets(k, w, x) == \A u \in Tasks : task'[u] = IF u = <<k, w>> THEN x ELSE task[u]

LEMMA ExceptSets ==
    ASSUME TInv, NEW k \in Kinds, NEW w \in Workflows, NEW x,
           task' = [task EXCEPT ![<<k, w>>] = x]
    PROVE  Sets(k, w, x)
BY DEF Sets, TInv

\* Then no other task of w is under way, and the invariant is left to be shown of w.
LEMMA OneStep ==
    ASSUME IInv, TInv', NEW k \in Kinds, NEW w \in Workflows, NEW x,
           At(k, w) # Idle \/ AtRest(w), Sets(k, w, x),
           \A v \in Workflows \ {w} : Unchanged(v),
           Kept(w)', At(k, w)' = x => Phase(k, w)', x = Idle => Served(w)'
    PROVE  IInv'
<1>1. \A l \in Kinds : \A v \in Workflows : <<l, v>> \in Tasks
  BY DEF Tasks
<1>2. At(k, w)' = x
  BY <1>1 DEF At, Sets
<1>3. \A l \in Kinds \ {k} : At(l, w) = Idle
  BY DEF IInv, Proper, OneTask, AtRest, At
<1>4. \A l \in Kinds \ {k} : At(l, w)' = Idle
  BY <1>1, <1>3 DEF At, Sets
<1>5. \A v \in Workflows \ {w} : \A l \in Kinds : At(l, v)' = At(l, v)
  BY <1>1 DEF At, Sets
<1>6. \A v \in Workflows \ {w} : Proper(v)'
  BY <1>5, Frame DEF IInv
<1>7. OneTask(w)'
  BY <1>4 DEF OneTask
<1>8. AtRest(w)' => Served(w)'
  BY <1>2 DEF AtRest, At
<1>9. \A l \in Kinds : Phase(l, w)'
  <2> SUFFICES ASSUME NEW l \in Kinds \ {k}
               PROVE  Phase(l, w)'
    BY <1>2
  <2>1. At(l, w)' = Idle
    BY <1>4
  <2> QED BY <2>1 DEF Phase, Idle
<1>10. Proper(w)'
  BY <1>7, <1>8, <1>9 DEF Proper
<1> QED
  BY <1>6, <1>10 DEF IInv

\* What is known of the workflow of a task that is under way.
LEMMA UnderWay ==
    ASSUME IInv, NEW t \in Tasks
    PROVE  \E k \in Kinds, w \in Workflows :
              /\ t = <<k, w>> /\ t[1] = k /\ t[2] = w /\ task[t] = At(k, w)
              /\ TaskOK(k, At(k, w)) /\ Phase(k, w) /\ Kept(w) /\ Rows
              /\ task[t].at # "idle" => At(k, w) # Idle
BY DEF IInv, TInv, Proper, Tasks, At, Idle

-------------------------------------------------------------------------------
(***************************************************************************)
(* The steps of a task.                                                    *)
(***************************************************************************)
LEMMA RequestStep ==
    ASSUME IInv, TInv', NEW t \in Tasks, Request(t), AtRest(t[2])
    PROVE  IInv'
<1>1. PICK k \in Kinds, w \in Workflows : t = <<k, w>> /\ t[1] = k /\ t[2] = w /\ Kept(w)
  BY UnderWay
<1>2. k \in Requesters /\ AtRest(w) /\ Served(w)
  BY <1>1 DEF Request, IsRequest, IInv, Proper
<1>3. PICK wants \in {"activate", "deactivate", "edit", "delete"} : Begin(t, wants)
  BY DEF Request
<1> DEFINE at == IF stored[w].active THEN "removing" ELSE "saving"
           x == [Idle EXCEPT !.at = at, !.wants = wants]
<1>4. task' = [task EXCEPT ![<<k, w>>] = x]
  BY <1>1, <1>3 DEF Begin
<1>5. x \in [at : {at}, wants : {wants}, version : {-1}, left : {0}, holds : {{}}]
  BY DEF Idle
<1>6. at \in {"removing", "saving"} /\ (at = "removing" <=> stored[w].active)
  OBVIOUS
<1> HIDE DEF x, at
<1>7. x.at = at /\ x.holds = {} /\ x # Idle
  BY <1>5, <1>6 DEF Idle
<1>8. UNCHANGED <<stored, errors, memory, queued, running>>
  BY DEF Request
<1>9. At(k, w)' = x => Phase(k, w)'
  BY <1>2, <1>6, <1>7, <1>8 DEF Phase, Served, Running, Complete
<1>10. Kept(w)'
  BY <1>1, <1>8 DEF Kept, Running
<1>11. \A v \in Workflows : Unchanged(v)
  BY <1>8 DEF Unchanged, Running
<1>12. Sets(k, w, x)
  BY <1>4, ExceptSets DEF IInv
<1> QED
  BY <1>2, <1>7, <1>9, <1>10, <1>11, <1>12, OneStep

LEMMA SaveStep ==
    ASSUME IInv, TInv', NEW t \in Tasks, Save(t)
    PROVE  IInv'
<1>1. PICK k \in Kinds, w \in Workflows :
         /\ t = <<k, w>> /\ t[1] = k /\ t[2] = w /\ task[t] = At(k, w)
         /\ TaskOK(k, At(k, w)) /\ Phase(k, w) /\ Kept(w) /\ Rows
         /\ task[t].at # "idle" => At(k, w) # Idle
  BY UnderWay
<1>2. Running(w) = {} /\ w \notin DOMAIN queued /\ At(k, w) # Idle
  BY <1>1 DEF Save, Phase
<1> DEFINE row == IF stored[w].exists THEN Changed(stored[w], task[t].wants) ELSE stored[w]
           x == IF task[t].wants = "delete" THEN Idle ELSE [Idle EXCEPT !.at = "saved"]
<1>3. /\ stored' = [stored EXCEPT ![w] = row] /\ task' = [task EXCEPT ![<<k, w>>] = x]
      /\ UNCHANGED <<errors, memory, queued, running, bounds>>
  BY <1>1 DEF Save
<1>4. task[t].wants = "delete" => ~row.active
  <2>1. stored[w] \in [exists : BOOLEAN, active : BOOLEAN, version : Nat]
        /\ (stored[w].active => stored[w].exists)
    BY <1>1 DEF Rows
  <2> SUFFICES ASSUME task[t].wants = "delete"
               PROVE  ~row.active
    OBVIOUS
  <2>2. CASE stored[w].exists
    <3>1. row = [stored[w] EXCEPT !.exists = FALSE, !.active = FALSE]
      BY <2>2 DEF Changed
    <3> HIDE DEF row
    <3> QED BY <2>1, <3>1
  <2>3. CASE ~stored[w].exists
    BY <2>1, <2>3
  <2> QED BY <2>2, <2>3
<1> HIDE DEF row
<1>5. stored'[w] = row /\ \A v \in Workflows \ {w} : stored'[v] = stored[v]
  BY <1>1, <1>3 DEF Rows
<1>6. x.at \in {"saved", "idle"} /\ x.holds = {} /\ (x = Idle => ~row.active)
  BY <1>4 DEF Idle
<1> HIDE DEF x
<1>7. At(k, w)' = x => Phase(k, w)'
  BY <1>2, <1>3, <1>6 DEF Phase, Running
<1>8. Kept(w)'
  BY <1>1, <1>2, <1>3 DEF Kept, Running
<1>9. x = Idle => Served(w)'
  BY <1>2, <1>3, <1>5, <1>6 DEF Served, Running
<1>10. \A v \in Workflows \ {w} : Unchanged(v)
  BY <1>3, <1>5 DEF Unchanged, Running
<1>11. Sets(k, w, x)
  BY <1>3, ExceptSets DEF IInv
<1> QED
  BY <1>2, <1>7, <1>8, <1>9, <1>10, <1>11, OneStep

LEMMA ReadBackStep ==
    ASSUME IInv, TInv', NEW t \in Tasks, ReadBack(t)
    PROVE  IInv'
<1>1. PICK k \in Kinds, w \in Workflows :
         /\ t = <<k, w>> /\ t[1] = k /\ t[2] = w /\ task[t] = At(k, w)
         /\ TaskOK(k, At(k, w)) /\ Phase(k, w) /\ Kept(w) /\ Rows
         /\ task[t].at # "idle" => At(k, w) # Idle
  BY UnderWay
<1>2. /\ Running(w) = {} /\ w \notin DOMAIN queued /\ At(k, w) # Idle
      /\ k \in Requesters /\ k # "retry" /\ k # "close"
  BY <1>1, ConstantsAssumption DEF ReadBack, Phase, TaskOK, ConstantsAssumption
<1> DEFINE x == IF stored[w].active THEN [Idle EXCEPT !.at = "adding"] ELSE Idle
<1>3. /\ task' = [task EXCEPT ![<<k, w>>] = x]
      /\ UNCHANGED <<stored, errors, memory, queued, running, bounds>>
  BY <1>1 DEF ReadBack
<1>4. /\ x.at \in {"adding", "idle"} /\ x.holds = {} /\ (x = Idle => ~stored[w].active)
      /\ (x.at = "adding" => stored[w].active)
  BY DEF Idle
<1> HIDE DEF x
<1>5. At(k, w)' = x => Phase(k, w)'
  BY <1>2, <1>3, <1>4 DEF Phase, Running
<1>6. Kept(w)'
  BY <1>1, <1>3 DEF Kept, Running
<1>7. x = Idle => Served(w)'
  BY <1>2, <1>3, <1>4 DEF Served, Running
<1>8. \A v \in Workflows : Unchanged(v)
  BY <1>3 DEF Unchanged, Running
<1>9. Sets(k, w, x)
  BY <1>3, ExceptSets DEF IInv
<1> QED
  BY <1>2, <1>5, <1>6, <1>7, <1>8, <1>9, OneStep

LEMMA RemoveStep ==
    ASSUME IInv, TInv', NEW t \in Tasks, Remove(t)
    PROVE  IInv'
<1>1. PICK k \in Kinds, w \in Workflows :
         /\ t = <<k, w>> /\ t[1] = k /\ t[2] = w /\ task[t] = At(k, w)
         /\ TaskOK(k, At(k, w)) /\ Phase(k, w) /\ Kept(w) /\ Rows
         /\ task[t].at # "idle" => At(k, w) # Idle
  BY UnderWay
<1>2. /\ k \in Requesters /\ stored[w].active /\ At(k, w) # Idle /\ task[t].at = "removing"
      /\ Complete(w) \/ Running(w) = {}
  BY <1>1 DEF Remove, Phase
<1>3. UNCHANGED <<stored, running>> /\ errors' = errors \ {w} /\ queued' = Without(queued, w)
  BY <1>1 DEF Remove, Dequeued
<1>4. /\ w \notin DOMAIN queued' /\ DOMAIN queued' = DOMAIN queued \ {w}
      /\ \A v \in DOMAIN queued \ {w} : queued'[v] = queued[v]
  BY <1>3 DEF Without
<1>5. CASE HasTriggers(w)
  <2> DEFINE x == [task[t] EXCEPT !.at = "closing", !.holds = memory[w]]
  <2>1. task' = [task EXCEPT ![<<k, w>>] = x] /\ UNCHANGED memory
    BY <1>1, <1>5 DEF Remove, IInv, TInv
  <2>2. x.at = "closing" /\ x.holds = memory[w] /\ x # Idle
    BY <1>1 DEF TaskOK, Idle
  <2> HIDE DEF x
  <2>3. w \in DOMAIN memory /\ memory[w] = Running(w) /\ Complete(w)
    BY <1>1, <1>2, <1>5 DEF HasTriggers, Kept
  <2>4. At(k, w)' = x => Phase(k, w)'
    BY <1>2, <1>3, <1>4, <2>1, <2>2, <2>3 DEF Phase, Running, Complete
  <2>5. Kept(w)'
    BY <1>1, <1>3, <1>4, <2>1 DEF Kept, Running
  <2>6. \A v \in Workflows \ {w} : Unchanged(v)
    BY <1>3, <1>4, <2>1 DEF Unchanged, Running
  <2>7. Sets(k, w, x)
    BY <2>1, ExceptSets DEF IInv
  <2> QED BY <1>2, <2>2, <2>4, <2>5, <2>6, <2>7, OneStep
<1>6. CASE ~HasTriggers(w)
  <2> DEFINE x == AfterRemoval(t)
  <2>1. task' = [task EXCEPT ![<<k, w>>] = x] /\ memory' = Without(memory, w)
    BY <1>1, <1>6 DEF Remove
  <2>2. x.at = "saving" /\ x.holds = {} /\ x # Idle
    BY <1>1, <1>2, AfterRemovalOK DEF Idle
  <2> HIDE DEF x
  <2>3. /\ DOMAIN memory' = DOMAIN memory \ {w}
        /\ \A v \in DOMAIN memory \ {w} : memory'[v] = memory[v]
    BY <2>1 DEF Without
  <2>4. Running(w) = {}
    BY <1>1, <1>6 DEF HasTriggers, Kept
  <2>5. At(k, w)' = x => Phase(k, w)'
    BY <1>3, <1>4, <2>2, <2>4 DEF Phase, Running
  <2>6. Kept(w)'
    BY <1>1, <1>3, <1>4, <2>3, <2>4 DEF Kept, Running
  <2>7. \A v \in Workflows \ {w} : Unchanged(v)
    BY <1>3, <1>4, <2>3 DEF Unchanged, Running
  <2>8. Sets(k, w, x)
    BY <2>1, ExceptSets DEF IInv
  <2> QED BY <1>2, <2>2, <2>5, <2>6, <2>7, <2>8, OneStep
<1> QED
  BY <1>5, <1>6

LEMMA CloseStep ==
    ASSUME IInv, TInv', NEW t \in Tasks, Close(t)
    PROVE  IInv'
<1>1. PICK k \in Kinds, w \in Workflows :
         /\ t = <<k, w>> /\ t[1] = k /\ t[2] = w /\ task[t] = At(k, w)
         /\ TaskOK(k, At(k, w)) /\ Phase(k, w) /\ Kept(w) /\ Rows
         /\ task[t].at # "idle" => At(k, w) # Idle
  BY UnderWay
<1>2. /\ stored[w].active /\ At(k, w) # Idle /\ task[t].holds = Running(w)
      /\ task[t].at = "closing"
      /\ \/ k \in Requesters /\ w \notin DOMAIN queued
         \/ k = "close" /\ w \in errors
  BY <1>1 DEF Close, Phase
<1> DEFINE x == AfterRemoval(t)
<1>3. /\ task' = [task EXCEPT ![<<k, w>>] = x]
      /\ memory' = Without(memory, w) /\ running' = running \ Running(w)
      /\ UNCHANGED <<stored, errors, queued, bounds>>
  BY <1>1, <1>2 DEF Close
<1>4. /\ k \notin Requesters => x = Idle
      /\ k \in Requesters => x.at = "saving" /\ x.holds = {} /\ x # Idle
  <2>1. TaskOK(t[1], task[t]) /\ task[t].at = "closing"
    BY <1>1, <1>2
  <2>2. /\ k \notin Requesters => x = Idle
        /\ k \in Requesters => x.at = "saving" /\ x.holds = {}
    BY <1>1, <2>1, AfterRemovalOK
  <2> HIDE DEF x
  <2> QED BY <2>2 DEF Idle
<1> HIDE DEF x
<1>5. /\ DOMAIN memory' = DOMAIN memory \ {w}
      /\ \A v \in DOMAIN memory \ {w} : memory'[v] = memory[v]
  BY <1>3 DEF Without
<1>6. Running(w)' = {} /\ \A v \in Workflows \ {w} : Running(v)' = Running(v)
  BY <1>3 DEF Running
<1>7. At(k, w)' = x => Phase(k, w)'
  <2>1. CASE k \notin Requesters
    BY <1>4, <2>1 DEF Phase, Idle
  <2>2. CASE k \in Requesters
    BY <1>2, <1>3, <1>4, <1>6, <2>2, ConstantsAssumption DEF Phase, ConstantsAssumption
  <2> QED BY <2>1, <2>2
<1>8. Kept(w)'
  BY <1>1, <1>3, <1>5, <1>6, FS_EmptySet DEF Kept
<1>9. x = Idle => Served(w)'
  BY <1>2, <1>3, <1>4, <1>6 DEF Served
<1>10. \A v \in Workflows \ {w} : Unchanged(v)
  BY <1>3, <1>5, <1>6 DEF Unchanged
<1>11. Sets(k, w, x)
  BY <1>3, ExceptSets DEF IInv
<1> QED
  BY <1>2, <1>7, <1>8, <1>9, <1>10, <1>11, OneStep

\* A request that could close nothing leaves everything as it was.
LEMMA CloseFailsStep ==
    ASSUME IInv, TInv', NEW t \in Tasks, CloseFails(t), t[1] # "close", running' = running
    PROVE  IInv'
<1>1. PICK k \in Kinds, w \in Workflows :
         /\ t = <<k, w>> /\ t[1] = k /\ t[2] = w /\ task[t] = At(k, w)
         /\ TaskOK(k, At(k, w)) /\ Phase(k, w) /\ Kept(w) /\ Rows
         /\ task[t].at # "idle" => At(k, w) # Idle
  BY UnderWay
<1>2. /\ stored[w].active /\ At(k, w) # Idle
      /\ w \notin errors /\ w \notin DOMAIN queued /\ Complete(w)
  BY <1>1 DEF CloseFails, Phase
<1>3. /\ task' = [task EXCEPT ![<<k, w>>] = Idle]
      /\ UNCHANGED <<stored, errors, memory, queued, running>>
  BY <1>1 DEF CloseFails
<1>4. Kept(w)' /\ Served(w)'
  BY <1>1, <1>2, <1>3 DEF Kept, Served, Running, Complete
<1>5. \A v \in Workflows : Unchanged(v)
  BY <1>3 DEF Unchanged, Running
<1>6. Sets(k, w, Idle)
  BY <1>3, ExceptSets DEF IInv
<1>7. At(k, w)' = Idle => Phase(k, w)'
  BY DEF Phase, Idle
<1> QED
  BY <1>2, <1>4, <1>5, <1>6, <1>7, OneStep

LEMMA AddStep ==
    ASSUME IInv, TInv', NEW t \in Tasks, Add(t)
    PROVE  IInv'
<1>1. PICK k \in Kinds, w \in Workflows :
         /\ t = <<k, w>> /\ t[1] = k /\ t[2] = w /\ task[t] = At(k, w)
         /\ TaskOK(k, At(k, w)) /\ Phase(k, w) /\ Kept(w) /\ Rows
         /\ task[t].at # "idle" => At(k, w) # Idle
  BY UnderWay
<1>2. /\ stored[w].active /\ At(k, w) # Idle /\ Running(w) = {} /\ k # "close"
      /\ k = "retry" <=> w \in DOMAIN queued
      /\ k \notin Requesters => task[t].version = stored[w].version
      /\ task[t].holds = {}
  BY <1>1 DEF Add, MayAdd, Phase
<1> DEFINE x == Starting(t)
<1>3. task' = [task EXCEPT ![<<k, w>>] = x] /\ memory' = With(memory, w, {})
      /\ UNCHANGED <<stored, errors, queued, running, bounds>>
  BY <1>1 DEF Add, Starting, IInv, TInv
<1>4. /\ x.at = "starting" /\ x.left = Triggers /\ x.version = stored[w].version
      /\ x.holds = {}
  BY <1>1, <1>2, StartingOK DEF Add, IInv, IsRequest
<1> HIDE DEF x
<1>5. x # Idle
  BY <1>4 DEF Idle
<1>6. /\ DOMAIN memory' = DOMAIN memory \cup {w} /\ memory'[w] = {}
      /\ \A v \in DOMAIN memory \ {w} : memory'[v] = memory[v]
  BY <1>3 DEF With
<1>7. Cardinality(Running(w)) = Triggers - Triggers /\ Triggers \in 1..Triggers
  <2>1. Cardinality(Running(w)) = 0
    BY <1>2, FS_EmptySet
  <2> QED BY <2>1, ConstantsAssumption DEF ConstantsAssumption
<1>8. At(k, w)' = x => Phase(k, w)'
  BY <1>2, <1>3, <1>4, <1>6, <1>7 DEF Phase, Running
<1>9. Kept(w)'
  BY <1>1, <1>2, <1>3, <1>6 DEF Kept, Running
<1>10. \A v \in Workflows \ {w} : Unchanged(v)
  BY <1>3, <1>6 DEF Unchanged, Running
<1>11. Sets(k, w, x)
  BY <1>3, ExceptSets DEF IInv
<1> QED
  BY <1>2, <1>5, <1>8, <1>9, <1>10, <1>11, OneStep

\* A number that is not in a finite set is found among the first ones.
LEMMA Fresh ==
    ASSUME NEW S, IsFiniteSet(S)
    PROVE  (CHOOSE k \in 0..Cardinality(S) : k \notin S) \notin S
<1> DEFINE n == Cardinality(S)
<1>1. n \in Nat
  BY FS_CardinalityType
<1>2. \E k \in 0..n : k \notin S
  <2> SUFFICES ASSUME 0..n \subseteq S
               PROVE  FALSE
    OBVIOUS
  <2>1. Cardinality(0..n) <= n
    BY FS_Subset
  <2>2. Cardinality(0..n) = n - 0 + 1
    BY <1>1, FS_Interval
  <2> QED BY <1>1, <2>1, <2>2
<1> QED
  BY <1>2

\* A trigger that starts is one more, as long as no task of its workflow closes any.
LEMMA NewTriggerFresh ==
    ASSUME NEW w \in Workflows, NEW version, IsFiniteSet(Running(w)),
           \A k \in Kinds : At(k, w).holds = {}
    PROVE  /\ NewTrigger(w, version).workflow = w /\ NewTrigger(w, version).version = version
           /\ NewTrigger(w, version) \notin Running(w)
<1> DEFINE held == Running(w) \cup UNION { task[<<k, w>>].holds : k \in Kinds }
           used == { r.number : r \in held }
           f == [r \in Running(w) |-> r.number]
           n == CHOOSE k \in 0..Cardinality(used) : k \notin used
<1>1. held = Running(w)
  BY DEF At
<1>2. f \in Surjection(Running(w), used)
  BY <1>1 DEF Surjection
<1>3. IsFiniteSet(used)
  BY <1>2, FS_Surjection
<1> HIDE DEF f
<1>4. n \notin used
  BY <1>3, Fresh
<1>5. NewTrigger(w, version) = [workflow |-> w, version |-> version, number |-> n]
  BY DEF NewTrigger
<1>6. \A r \in Running(w) : r.number \in used
  BY <1>1
<1> HIDE DEF used, n
<1> QED
  BY <1>4, <1>5, <1>6

LEMMA TriggerStartsStep ==
    ASSUME IInv, TInv', NEW t \in Tasks, TriggerStarts(t)
    PROVE  IInv'
<1>1. PICK k \in Kinds, w \in Workflows :
         /\ t = <<k, w>> /\ t[1] = k /\ t[2] = w /\ task[t] = At(k, w)
         /\ TaskOK(k, At(k, w)) /\ Phase(k, w) /\ Kept(w) /\ Rows
         /\ task[t].at # "idle" => At(k, w) # Idle
  BY UnderWay
<1>2. /\ stored[w].active /\ At(k, w) # Idle /\ w \in DOMAIN memory /\ k # "close"
      /\ task[t].at = "starting" /\ task[t].left \in 1..Triggers
      /\ Cardinality(Running(w)) = Triggers - task[t].left
      /\ task[t].version = stored[w].version /\ task[t].holds = {}
      /\ \A r \in Running(w) : r.version = stored[w].version
      /\ k = "retry" <=> w \in DOMAIN queued
      /\ IsFiniteSet(Running(w)) /\ memory[w] = Running(w)
  BY <1>1 DEF TriggerStarts, Phase, Kept
\* No other task of the workflow is under way, so that none closes the trigger.
<1>3. \A l \in Kinds \ {k} : At(l, w) = Idle
  BY <1>2 DEF IInv, Proper, OneTask
<1> DEFINE trigger == NewTrigger(w, task[t].version)
           x == IF task[t].left > 1 THEN [task[t] EXCEPT !.left = @ - 1] ELSE Idle
<1>4. trigger.workflow = w /\ trigger.version = stored[w].version /\ trigger \notin Running(w)
  <2>1. \A l \in Kinds : At(l, w).holds = {}
    BY <1>1, <1>2, <1>3 DEF Idle
  <2> QED BY <1>2, <2>1, NewTriggerFresh
<1> HIDE DEF trigger
<1>5. /\ running' = running \cup {trigger}
      /\ memory' = [memory EXCEPT ![w] = @ \cup {trigger}]
      /\ IF task[t].left > 1 THEN UNCHANGED <<errors, queued>>
         ELSE errors' = errors \ {w} /\ queued' = Without(queued, w)
      /\ UNCHANGED stored
  BY <1>1 DEF TriggerStarts, Dequeued, trigger
<1>6. Sets(k, w, x)
  <2> DEFINE Closes(u) == u[2] = w /\ task[u].at = "closing" /\ task[u].holds = memory[w]
  <2>1. \A u \in Tasks :
           task'[u] = IF u = t THEN x
                      ELSE IF Closes(u) THEN [task[u] EXCEPT !.holds = @ \cup {trigger}]
                      ELSE task[u]
    BY <1>1 DEF TriggerStarts, trigger
  <2>2. ASSUME NEW u \in Tasks, u # t
        PROVE  ~Closes(u)
    <3>1. PICK l \in Kinds, v \in Workflows : u = <<l, v>> /\ u[1] = l /\ u[2] = v
      BY DEF Tasks
    <3>2. CASE v = w
      <4>1. task[u] = Idle
        BY <1>1, <1>3, <2>2, <3>1, <3>2 DEF At
      <4> QED BY <4>1 DEF Idle
    <3>3. CASE v # w
      BY <3>1, <3>3
    <3> QED BY <3>2, <3>3
  <2> HIDE DEF x
  <2> QED BY <1>1, <2>1, <2>2 DEF Sets
<1>7. /\ Running(w)' = Running(w) \cup {trigger}
      /\ \A v \in Workflows \ {w} : Running(v)' = Running(v)
  BY <1>4, <1>5 DEF Running
<1>8. /\ IsFiniteSet(Running(w)')
      /\ Cardinality(Running(w)') = Triggers - task[t].left + 1
      /\ \A r \in Running(w)' : r.version = stored'[w].version
  <2>1. /\ IsFiniteSet(Running(w) \cup {trigger})
        /\ Cardinality(Running(w) \cup {trigger}) = Cardinality(Running(w)) + 1
    BY <1>2, <1>4, FS_AddElement
  <2>2. \A r \in Running(w)' : r.version = stored'[w].version
    BY <1>2, <1>4, <1>5, <1>7
  <2> QED BY <1>2, <1>7, <2>1, <2>2
<1>9. /\ DOMAIN memory' = DOMAIN memory
      /\ memory'[w] = Running(w)'
      /\ \A v \in DOMAIN memory \ {w} : memory'[v] = memory[v]
  BY <1>2, <1>5, <1>7
<1>10. CASE task[t].left > 1
  <2>1. /\ x.at = "starting" /\ x.left = task[t].left - 1 /\ x.version = task[t].version
        /\ x.holds = {} /\ x # Idle
    BY <1>1, <1>2, <1>10 DEF TaskOK, Idle
  <2> HIDE DEF x
  <2>2. UNCHANGED <<errors, queued>>
    BY <1>5, <1>10
  <2>3. x.left \in 1..Triggers /\ Cardinality(Running(w)') = Triggers - x.left
    BY <1>2, <1>8, <1>10, <2>1, ConstantsAssumption DEF ConstantsAssumption
  <2>4. At(k, w)' = x => Phase(k, w)'
    BY <1>2, <1>5, <1>8, <1>9, <2>1, <2>2, <2>3 DEF Phase
  <2>5. Kept(w)'
    BY <1>1, <1>2, <1>5, <1>8, <1>9, <2>2 DEF Kept
  <2>6. \A v \in Workflows \ {w} : Unchanged(v)
    BY <1>5, <1>7, <1>9, <2>2 DEF Unchanged
  <2> QED BY <1>2, <1>6, <2>1, <2>4, <2>5, <2>6, OneStep
<1>11. CASE ~(task[t].left > 1)
  <2>1. x = Idle
    BY <1>11
  <2> HIDE DEF x
  <2>2. errors' = errors \ {w} /\ queued' = Without(queued, w)
    BY <1>5, <1>11
  <2>3. /\ DOMAIN queued' = DOMAIN queued \ {w} /\ w \notin DOMAIN queued'
        /\ \A v \in DOMAIN queued \ {w} : queued'[v] = queued[v]
    BY <2>2 DEF Without
  <2>4. Cardinality(Running(w)') = Triggers
    BY <1>2, <1>8, <1>11, ConstantsAssumption DEF ConstantsAssumption
  <2>5. Served(w)'
    BY <1>2, <1>5, <1>8, <2>2, <2>3, <2>4 DEF Served, Complete
  <2>6. Kept(w)'
    BY <1>8, <1>9, <2>3, <1>2 DEF Kept
  <2>7. \A v \in Workflows \ {w} : Unchanged(v)
    BY <1>5, <1>7, <1>9, <2>2, <2>3 DEF Unchanged
  <2>8. At(k, w)' = x => Phase(k, w)'
    BY <2>1 DEF Phase, Idle
  <2> QED BY <1>2, <1>6, <2>5, <2>6, <2>7, <2>8, OneStep
<1> QED
  BY <1>10, <1>11

LEMMA ActivationFailsStep ==
    ASSUME IInv, TInv', NEW t \in Tasks, ActivationFails(t),
           task[t].at = "starting" => ~(task[t].left < Triggers)
    PROVE  IInv'
<1>1. PICK k \in Kinds, w \in Workflows :
         /\ t = <<k, w>> /\ t[1] = k /\ t[2] = w /\ task[t] = At(k, w)
         /\ TaskOK(k, At(k, w)) /\ Phase(k, w) /\ Kept(w) /\ Rows
         /\ task[t].at # "idle" => At(k, w) # Idle
  BY UnderWay
<1>2. task[t].at \in {"adding", "listed", "starting"} /\ At(k, w) # Idle
  BY <1>1 DEF ActivationFails, MayAdd
\* No trigger of the workflow runs yet.
<1>3. /\ stored[w].active /\ k # "close" /\ Running(w) = {}
      /\ k = "retry" <=> w \in DOMAIN queued
      /\ k \notin Requesters => task[t].version = stored[w].version
  <2>1. CASE task[t].at = "starting"
    <3>1. /\ task[t].left \in 1..Triggers /\ Cardinality(Running(w)) = Triggers - task[t].left
          /\ IsFiniteSet(Running(w))
      BY <1>1, <2>1 DEF Phase, Kept
    <3>2. Cardinality(Running(w)) = 0
      BY <2>1, <3>1, ConstantsAssumption DEF ConstantsAssumption
    <3> QED BY <1>1, <2>1, <3>1, <3>2, FS_EmptySet DEF Phase
  <2>2. CASE task[t].at # "starting"
    BY <1>1, <1>2, <2>2 DEF Phase
  <2> QED BY <2>1, <2>2
\* The entry and the row are there: the activation fails for a reason of its own.
<1>4. UNCHANGED running
  <2>1. stored[t[2]].exists
    BY <1>1, <1>3 DEF Rows
  <2>2. task[t].at = "starting" => t[2] \in DOMAIN memory
    BY <1>1 DEF Phase
  <2> QED BY <2>1, <2>2 DEF ActivationFails
<1>5. /\ task' = [task EXCEPT ![<<k, w>>] = Idle]
      /\ errors' = errors \cup {w} /\ UNCHANGED memory
  BY <1>1 DEF ActivationFails
<1>6. /\ stored'[w].version = stored[w].version
      /\ k \in Requesters => ~stored'[w].active
      /\ k \notin Requesters => stored' = stored
      /\ \A v \in Workflows \ {w} :
            /\ stored'[v] = stored[v]
            /\ v \in DOMAIN queued' <=> v \in DOMAIN queued
            /\ v \in DOMAIN queued => queued'[v] = queued[v]
      /\ \/ queued' = queued
         \/ /\ k = "retry" /\ DOMAIN queued' = DOMAIN queued
            /\ queued'[w].version = queued[w].version
         \/ /\ k = "start" /\ DOMAIN queued' = DOMAIN queued \cup {w}
            /\ queued'[w].version = task[t].version
  <2>1. PICK refused \in BOOLEAN : Handled(t, refused)
    BY DEF ActivationFails
  <2> QED BY <1>1, <1>2, <2>1, HandledOK DEF IInv
<1>7. k \in {"retry", "start"} => k \notin Requesters
  BY ConstantsAssumption DEF ConstantsAssumption
<1>8. Kept(w)'
  BY <1>1, <1>3, <1>4, <1>5, <1>6, <1>7 DEF Kept, Running
<1>9. Served(w)'
  <2>1. Running(w)' = {}
    BY <1>3, <1>4 DEF Running
  <2>2. k \in Requesters => w \notin DOMAIN queued'
    BY <1>3, <1>6, <1>7
  <2> QED BY <1>3, <1>5, <1>6, <2>1, <2>2 DEF Served
<1>10. \A v \in Workflows \ {w} : Unchanged(v)
  BY <1>4, <1>5, <1>6 DEF Unchanged, Running
<1>11. Sets(k, w, Idle)
  BY <1>5, ExceptSets DEF IInv
<1>12. At(k, w)' = Idle => Phase(k, w)'
  BY DEF Phase, Idle
<1> QED
  BY <1>2, <1>8, <1>9, <1>10, <1>11, <1>12, OneStep

-------------------------------------------------------------------------------
(***************************************************************************)
(* Timers, triggers that fail, and restarts.                               *)
(***************************************************************************)
LEMMA TimerFiresStep ==
    ASSUME IInv, TInv', NEW w \in Workflows, TimerFires(w), AtRest(w)
    PROVE  IInv'
<1> DEFINE k == "retry"
           x == [Idle EXCEPT !.at = "adding", !.version = queued[w].version]
<1>1. k \in Kinds /\ Served(w) /\ Kept(w) /\ k \notin Requesters
  BY ConstantsAssumption DEF Kinds, IInv, Proper, ConstantsAssumption
<1>2. /\ w \in DOMAIN queued /\ queued' = [queued EXCEPT ![w].armed = FALSE]
      /\ task' = [task EXCEPT ![<<k, w>>] = x]
      /\ UNCHANGED <<stored, errors, memory, running, bounds>>
  BY DEF TimerFires
<1>3. /\ stored[w].active /\ Running(w) = {} /\ queued[w].version = stored[w].version
      /\ queued[w] \in [version : Nat, armed : BOOLEAN]
  BY <1>1, <1>2 DEF Served, Kept, IInv, TInv, Queue
<1>4. x.at = "adding" /\ x.version = stored[w].version /\ x.holds = {} /\ x # Idle
  BY <1>3 DEF Idle
<1> HIDE DEF x
<1>5. DOMAIN queued' = DOMAIN queued /\ queued'[w].version = stored[w].version
      /\ \A v \in DOMAIN queued \ {w} : queued'[v] = queued[v]
  BY <1>2, <1>3
<1>6. At(k, w)' = x => Phase(k, w)'
  BY <1>1, <1>2, <1>3, <1>4, <1>5 DEF Phase, Running
<1>7. Kept(w)'
  BY <1>1, <1>2, <1>5 DEF Kept, Running
<1>8. \A v \in Workflows \ {w} : Unchanged(v)
  BY <1>2, <1>5 DEF Unchanged, Running
<1>9. Sets(k, w, x)
  BY <1>1, <1>2, ExceptSets DEF IInv
<1> HIDE DEF k
<1> QED
  BY <1>1, <1>4, <1>6, <1>7, <1>8, <1>9, OneStep

LEMMA TriggerFailsStep ==
    ASSUME IInv, TInv', NEW trigger \in running, TriggerFails(trigger),
           AtRest(trigger.workflow)
    PROVE  IInv'
<1> DEFINE k == "close"
           w == trigger.workflow
           x == Removing(w)
<1>1. w \in Workflows /\ k \in Kinds /\ trigger \in Running(w) /\ k \notin Requesters
  BY ConstantsAssumption DEF IInv, TInv, Entries, Kinds, Running, ConstantsAssumption
<1>2. Served(w) /\ Kept(w) /\ AtRest(w)
  BY <1>1 DEF IInv, Proper
<1>3. /\ stored[w].active /\ trigger.version = stored[w].version
      /\ w \in DOMAIN memory /\ memory[w] = Running(w) /\ HasTriggers(w)
  BY <1>1, <1>2 DEF Served, Kept, Complete, HasTriggers
<1>4. /\ task' = [task EXCEPT ![<<k, w>>] = x] /\ errors' = errors \cup {w}
      /\ queued' = Enqueued(w, trigger.version) /\ UNCHANGED <<stored, memory, running>>
  BY <1>3 DEF TriggerFails, Removing
<1>5. x.at = "closing" /\ x.holds = Running(w)
  BY <1>3, RemovingOK
<1>6. x # Idle
  BY <1>5 DEF Idle
<1>7. /\ DOMAIN queued' = DOMAIN queued \cup {w} /\ queued'[w].version = stored[w].version
      /\ \A v \in DOMAIN queued \ {w} : queued'[v] = queued[v]
  <2>1. trigger.version \in Nat /\ Queue
    BY DEF IInv, TInv, Entries
  <2> QED BY <1>1, <1>3, <1>4, <2>1, EnqueuedOK
<1>8. Sets(k, w, x)
  BY <1>1, <1>4, ExceptSets DEF IInv
<1> HIDE DEF x, w, k
<1>9. At(k, w)' = x => Phase(k, w)'
  BY <1>3, <1>4, <1>5 DEF Phase, Running, k
<1>10. Kept(w)'
  BY <1>2, <1>4, <1>7 DEF Kept, Running
<1>11. \A v \in Workflows \ {w} : Unchanged(v)
  BY <1>4, <1>7 DEF Unchanged, Running
<1> QED
  BY <1>1, <1>2, <1>6, <1>8, <1>9, <1>10, <1>11, OneStep

LEMMA StartedProper == Started /\ Rows => \A w \in Workflows : Proper(w)
<1> SUFFICES ASSUME Started, Rows, NEW w \in Workflows
             PROVE  Proper(w)
  OBVIOUS
<1> DEFINE x == Listed(w)
<1>1. \A k \in Kinds : At(k, w) = IF k = "start" /\ stored[w].active THEN x ELSE Idle
  BY DEF Started, At, Tasks, Listed
<1>2. x.at = "listed" /\ x.version = stored[w].version /\ x.holds = {}
  BY ListedOK
<1> HIDE DEF x
<1>3. x # Idle
  BY <1>2 DEF Idle
<1>4. Running(w) = {} /\ w \notin DOMAIN queued /\ w \notin DOMAIN memory
  BY DEF Started, Running, NoEntries
<1>5. "start" \in Kinds /\ "start" \notin Requesters
  BY ConstantsAssumption DEF ConstantsAssumption, Kinds
<1>6. OneTask(w)
  BY <1>1 DEF OneTask
<1>7. AtRest(w) => Served(w)
  BY <1>1, <1>3, <1>4, <1>5 DEF AtRest, At, Served
<1>8. \A k \in Kinds : Phase(k, w)
  <2> TAKE k \in Kinds
  <2>1. CASE At(k, w) = Idle
    BY <2>1 DEF Phase, Idle
  <2>2. CASE At(k, w) = x /\ k = "start" /\ stored[w].active
    BY <1>2, <1>4, <1>5, <2>2 DEF Phase
  <2> QED BY <1>1, <2>1, <2>2
<1>9. Kept(w)
  BY <1>4, FS_EmptySet DEF Kept
<1> QED
  BY <1>6, <1>7, <1>8, <1>9 DEF Proper

LEMMA RestartStep ==
    ASSUME IInv, TInv', Restart
    PROVE  IInv'
<1>1. Started' /\ Rows'
  BY DEF Restart, Started, TInv
<1>2. (Started /\ Rows => \A w \in Workflows : Proper(w))'
  BY StartedProper, PTL
<1> QED
  BY <1>1, <1>2 DEF IInv

-------------------------------------------------------------------------------
(***************************************************************************)
(* The theorems.                                                           *)
(***************************************************************************)
LEMMA NextInv == IInv /\ [Next]_vars /\ [KeepsHold]_vars => IInv'
<1> SUFFICES ASSUME IInv, [Next]_vars, [KeepsHold]_vars
             PROVE  IInv'
  OBVIOUS
<1>1. TInv'
  BY NextTypes DEF IInv
<1>2. CASE UNCHANGED vars
  <2>1. \A w \in Workflows : Unchanged(w) /\ \A k \in Kinds : At(k, w)' = At(k, w)
    BY <1>2 DEF vars, Unchanged, Running, At
  <2>2. \A w \in Workflows : Proper(w)'
    BY <2>1, Frame DEF IInv
  <2> QED BY <1>1, <2>2 DEF IInv
<1>3. CASE Next /\ KeepsHold
  <2>1. ASSUME NEW t \in Tasks, Request(t)
        PROVE  IInv'
    <3>1. AtRest(t[2])
      BY <1>3, <2>1 DEF KeepsHold, Crosses
    <3> QED BY <1>1, <2>1, <3>1, RequestStep
  <2>2. ASSUME NEW w \in Workflows, TimerFires(w)
        PROVE  IInv'
    <3>1. AtRest(w)
      BY <1>3, <2>2 DEF KeepsHold, Crosses
    <3> QED BY <1>1, <2>2, <3>1, TimerFiresStep
  <2>3. ASSUME NEW trigger \in running, TriggerFails(trigger)
        PROVE  IInv'
    <3>1. AtRest(trigger.workflow)
      BY <1>3, <2>3 DEF KeepsHold, Crosses
    <3> QED BY <1>1, <2>3, <3>1, TriggerFailsStep
  <2>4. ASSUME NEW t \in Tasks, ActivationFails(t)
        PROVE  IInv'
    <3>1. task[t].at = "starting" => ~(task[t].left < Triggers)
      BY <1>3, <2>4 DEF KeepsHold, FailsHalfway
    <3> QED BY <1>1, <2>4, <3>1, ActivationFailsStep
  <2>5. ASSUME NEW t \in Tasks, CloseFails(t)
        PROVE  IInv'
    <3>1. t[1] # "close" /\ running' = running
      BY <1>3, <2>5 DEF KeepsHold, ClosesHalfway
    <3> QED BY <1>1, <2>5, <3>1, CloseFailsStep
  <2>6. ASSUME NEW t \in Tasks, TaskStep(t)
        PROVE  IInv'
    BY <1>1, <2>4, <2>5, <2>6, SaveStep, ReadBackStep, RemoveStep, CloseStep, AddStep,
       TriggerStartsStep DEF TaskStep
  <2>7. CASE Restart
    BY <1>1, <2>7, RestartStep
  <2> QED BY <1>3, <2>1, <2>2, <2>3, <2>6, <2>7 DEF Next
<1> QED
  BY <1>2, <1>3

LEMMA Invariance == Spec /\ [][KeepsHold]_vars => []IInv
<1>1. Init => IInv
  BY InitTypes, StartedProper DEF IInv, TInv
<1> QED
  BY <1>1, NextInv, PTL DEF Spec

\* As long as no step is one by which the code loses hold of triggers: a workflow
\* that is inactive or deleted, and has nothing under way, neither runs a trigger
\* nor is queued to be activated.
THEOREM InactiveStays ==
    Spec /\ [][~Crosses /\ ~FailsHalfway /\ ~ClosesHalfway]_vars => []OnlyActiveRun
<1>1. IInv => OnlyActiveRun
  BY DEF IInv, Proper, Served, OnlyActiveRun
<1> QED
  BY <1>1, Invariance, PTL DEF KeepsHold

\* As long as no step is such a one: a workflow that is active, and has nothing
\* under way, runs each of its triggers once and with the data that is stored, or
\* runs none and has an error for the user to see.
THEOREM ActiveRuns ==
    Spec /\ [][~Crosses /\ ~FailsHalfway /\ ~ClosesHalfway]_vars => []ActiveServed
<1>1. IInv => ActiveServed
  BY DEF IInv, Proper, Served, Complete, ActiveServed
<1> QED
  BY <1>1, Invariance, PTL DEF KeepsHold

\* As long as no step is such a one: the entry in memory holds every trigger that
\* runs, while anything is under way too, so that remove can close them all.
THEOREM RunningHeld ==
    Spec /\ [][~Crosses /\ ~FailsHalfway /\ ~ClosesHalfway]_vars => []TriggersHeld
<1>1. IInv => TriggersHeld
  <2> SUFFICES ASSUME IInv, NEW r \in running
               PROVE  r.workflow \in DOMAIN memory /\ r \in memory[r.workflow]
    BY DEF TriggersHeld
  <2>1. r \in Running(r.workflow) /\ r.workflow \in Workflows
    BY DEF IInv, TInv, Entries, Running
  <2> QED BY <2>1 DEF IInv, Proper, Kept
<1> QED
  BY <1>1, Invariance, PTL DEF KeepsHold
===============================================================================
