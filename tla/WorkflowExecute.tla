---------------------------- MODULE WorkflowExecute ----------------------------
(***************************************************************************)
(* One execution of a workflow: the node stack, the nodes that wait for    *)
(* data on further inputs, retries, pauses and errors                      *)
(* (packages/core/src/WorkflowExecute.ts), for workflows with the          *)
(* execution order `v1`.                                                   *)
(*                                                                         *)
(* An array of items is the set of the places it came from: {<<n, k, o>>}  *)
(* is what output o of node n gave in its run k, {} is the empty array and *)
(* NoData is null.  Inputs and outputs count from 1, runs from 0.          *)
(*                                                                         *)
(* A workflow is a record:                                                 *)
(*   nodes, start                                                          *)
(*   connections  sequence of [from, output, to, input]: those of a node   *)
(*                are listed in the order in which they are put on the     *)
(*                stack, the one to the top-left node last                 *)
(*   required     [nodes -> set of inputs without which it may not run]    *)
(*   atLeast      [nodes -> number of inputs without which it may not run] *)
(*   maxTries     [nodes -> tries of a node, 1 without retryOnFail]        *)
(*   continues    nodes that continue on fail                              *)
(*   errorOutput  [nodes -> output on which it emits an error as an item;  *)
(*                0 when it does not]                                      *)
(*   alwaysOutput nodes with alwaysOutputData                              *)
(*   waits        nodes that put the execution to wait                     *)
(*   quiet        nodes that may return null                               *)
(***************************************************************************)
EXTENDS Integers, SequencesExt

CONSTANTS
    Workflows,
    NoData,
    MaxRuns,     \* bound: runs in which a node passes data on; a loop ends at last
    MaxRetries   \* bound: retries of the failed execution by a user

ASSUME WorkflowsAssumption ==
    \A w \in Workflows :
        /\ IsFiniteSet(w.nodes) /\ w.start \in w.nodes
        /\ w.connections \in Seq([from : w.nodes, output : Nat \ {0},
                                  to : w.nodes, input : Nat \ {0}])
        /\ w.atLeast \in [w.nodes -> Nat]
        /\ w.maxTries \in [w.nodes -> Nat \ {0}]
        /\ w.errorOutput \in [w.nodes -> Nat]
ASSUME BoundsAssumption == MaxRuns \in Nat \ {0} /\ MaxRetries \in Nat

\* Where items of a workflow come from; what it starts with is from output 0.
SourcesOf(w) ==
    w.nodes \X (0..MaxRuns) \X ({0} \cup { c.output : c \in ToSet(w.connections) })
ASSUME NoDataAssumption ==
    /\ NoData # {}
    /\ \A w \in Workflows : \A s \in SourcesOf(w) : NoData \notin {s, {s}}

VARIABLES
    workflow,       \* constant
    executionData,  \* nodeExecutionStack; waitingExecution and its source; order of its keys
    runData,        \* [nodes -> sequence of runs: the outputs that were passed on]
    current,        \* the node being executed, or NoItem
    status,         \* WorkflowExecute.status
    result,         \* status of the run that is saved; "none" while it goes on
    retries,        \* retries so far
    consumed        \* ghost: what nodes executed to the end

vars == <<workflow, executionData, runData, current, status, result, retries, consumed>>

NoItem == <<>>

Nodes == workflow.nodes
Connections == ToSet(workflow.connections)
\* connectionsByDestinationNode: there is an array for every input of a node up to
\* the last that is connected, empty for one that is not.
Inputs(n) == UNION { 1..c.input : c \in { d \in Connections : d.to = n } }
Outputs(n) == { c.output : c \in { d \in Connections : d.from = n } }
IsMerge(n) == Cardinality(Inputs(n)) > 1

Parents(w, n) == { c.from : c \in { d \in ToSet(w.connections) : d.to = n } }

\* getParentNodes: all nodes before a node, and not the node itself.
NodesBefore(w, n) ==
    LET within[depth \in 0..Cardinality(w.nodes)] ==
            IF depth = 0 THEN Parents(w, n)
            ELSE within[depth - 1] \cup UNION { Parents(w, p) : p \in within[depth - 1] }
    IN  within[Cardinality(w.nodes)] \ {n}
ParentNodes(n) == NodesBefore(workflow, n)

-------------------------------------------------------------------------------
(***************************************************************************)
(* Passing data on.                                                        *)
(***************************************************************************)
Item(n, main, source) == [node |-> n, main |-> main, source |-> source, disabled |-> FALSE]
Nothing(n) == [i \in Inputs(n) |-> NoData]

Smallest(S) == CHOOSE i \in S : \A j \in S : i <= j

\* Mutant of WithEntries: the key of a node is not deleted with its last entry.
WithKeyLeft(data, n, entries) ==
    [data EXCEPT !.waiting[n] = entries,
                 !.order = IF n \in ToSet(@) THEN @ ELSE Append(@, n)]

\* The entries of a node, and the order of the nodes, after a change.
WithEntries(data, n, entries) ==
    [data EXCEPT
        !.waiting[n] = entries,
        !.order = IF DOMAIN entries = {} THEN RemoveFirst(@, n)
                  ELSE IF n \in ToSet(@) THEN @ ELSE Append(@, n)]

Without(entries, index) == [i \in DOMAIN entries \ {index} |-> entries[i]]
With(entries, index, entry) ==
    [i \in DOMAIN entries \cup {index} |-> IF i = index THEN entry ELSE entries[i]]

\* Mutant of EntryIndex: an entry counts as free for the input that it has data for.
FilledEntry(entries, input) ==
    LET filled == { i \in DOMAIN entries : entries[i].main[input] # NoData }
    IN  IF filled # {} THEN Smallest(filled) ELSE Cardinality(DOMAIN entries)

\* The entry to which data for an input is added: the first that lacks it, or a
\* new one, whose index is the number of entries there are.
EntryIndex(entries, input) ==
    LET lacking == { i \in DOMAIN entries : entries[i].main[input] = NoData }
    IN  IF lacking # {} THEN Smallest(lacking) ELSE Cardinality(DOMAIN entries)

\* Mutant of SourceOf: the source names the node and not its run.
SourceOfNode(from, run, output) == <<from, 0, output>>
SourceOf(from, run, output) == <<from, run, output>>

(***************************************************************************)
(* addNodeToBeExecuted.  A node with one input goes on the stack.  One     *)
(* with several waits until an entry has data for each.  While data is     *)
(* missing the sources of the entry are reset to that of the last input.   *)
(***************************************************************************)
AddNodeToBeExecuted(data, connection, run) ==
    LET n == connection.to
        items == {<<connection.from, run, connection.output>>}
        from == SourceOf(connection.from, run, connection.output)
        entries == data.waiting[n]
        index == EntryIndex(entries, connection.input)
        old == IF index \in DOMAIN entries /\ entries[index].main[connection.input] = NoData
               THEN entries[index] ELSE [main |-> Nothing(n), source |-> Nothing(n)]
        main == [old.main EXCEPT ![connection.input] = items]
    IN  IF ~IsMerge(n)
        THEN [data EXCEPT !.stack =
                 <<Item(n, [i \in Inputs(n) |-> items], [i \in Inputs(n) |-> from])>> \o @]
        ELSE IF \A i \in Inputs(n) : main[i] # NoData
        THEN [WithEntries(data, n, Without(entries, index)) EXCEPT !.stack =
                 <<Item(n, main, [old.source EXCEPT ![connection.input] = from])>> \o @]
        ELSE WithEntries(data, n,
                 With(entries, index,
                      [main |-> main,
                       source |-> [Nothing(n) EXCEPT ![connection.input] = from]]))

(***************************************************************************)
(* With an empty stack the first waiting node that may run without the     *)
(* data it lacks is executed with its earliest entry.  An entry always has *)
(* data for some input (TypeOK), so that the search never removes one      *)
(* without it.                                                             *)
(***************************************************************************)
Filled(n, entry) == { i \in Inputs(n) : entry.main[i] # NoData }
EnoughData(n, entry) ==
    /\ workflow.required[n] \subseteq Filled(n, entry)
    /\ Cardinality(Filled(n, entry)) >= workflow.atLeast[n]

FirstEntry(data, n) == data.waiting[n][Smallest(DOMAIN data.waiting[n])]

\* Mutants of MayRun: nodes before it are not looked at; only the node that
\* waits longest may run.
MayRunAtOnce(data, n) == EnoughData(n, FirstEntry(data, n))

MayRunInTurn(data, n) ==
    /\ n = Head(data.order)
    /\ ParentNodes(n) \cap ToSet(data.order) = {}
    /\ EnoughData(n, FirstEntry(data, n))

MayRun(data, n) ==
    /\ workflow.required[n] # Inputs(n)
    /\ ParentNodes(n) \cap ToSet(data.order) = {}
    /\ EnoughData(n, FirstEntry(data, n))

ServeWaiting(data) ==
    LET ready == { j \in DOMAIN data.order : MayRun(data, data.order[j]) }
        n == data.order[Smallest(ready)]
        index == Smallest(DOMAIN data.waiting[n])
        entry == data.waiting[n][index]
        main == [i \in Inputs(n) |-> IF entry.main[i] = NoData THEN {} ELSE entry.main[i]]
    IN  IF data.stack # <<>> \/ ready = {} THEN data
        ELSE [WithEntries(data, n, Without(data.waiting[n], index)) EXCEPT
                 !.stack = <<Item(n, main, entry.source)>>]

\* What a node gave is passed on along its connections, one after the other;
\* outputs without items are not followed.  [number of connections seen -> data]
Passed(data, n, run, outputs) ==
    LET passed[k \in 0..Len(workflow.connections)] ==
            IF k = 0 THEN data
            ELSE LET c == workflow.connections[k]
                 IN  IF c.from = n /\ c.output \in outputs
                     THEN AddNodeToBeExecuted(passed[k - 1], c, run)
                     ELSE passed[k - 1]
    IN  passed

PassOn(data, n, run, outputs) ==
    ServeWaiting(Passed(data, n, run, outputs)[Len(workflow.connections)])

-------------------------------------------------------------------------------
(***************************************************************************)
(* processRunExecutionData.                                                *)
(***************************************************************************)
Init ==
    /\ workflow \in Workflows
    /\ executionData =
           [stack |-> <<Item(workflow.start, [i \in {1} |-> {<<workflow.start, 0, 0>>}],
                             [i \in {1} |-> NoData])>>,
            waiting |-> [n \in Nodes |-> <<>>],
            order |-> <<>>]
    /\ runData = [n \in Nodes |-> <<>>]
    /\ current = NoItem
    /\ status = "running"
    /\ result = "none"
    /\ retries = 0
    /\ consumed = <<>>

Executing == result = "none" /\ current # NoItem
Node == current.item.node

\* The head of the loop.
TakeNode ==
    /\ result = "none" /\ current = NoItem
    /\ status = "running"
    /\ executionData.stack # <<>>
    /\ LET item == Head(executionData.stack)
       IN  current' = [item |-> item, run |-> Len(runData[item.node]), try |-> 1,
                       output |-> 0]
    /\ executionData' = [executionData EXCEPT !.stack = Tail(@)]
    /\ UNCHANGED <<workflow, runData, status, result, retries, consumed>>

\* The loop ends: nothing is left to execute, or the execution was canceled.
Finish ==
    /\ result = "none" /\ current = NoItem
    /\ executionData.stack = <<>> \/ status = "canceled"
    /\ result' = IF status = "canceled" THEN "canceled" ELSE "success"
    /\ UNCHANGED <<workflow, executionData, runData, current, status, retries, consumed>>

\* The node is done and its data is passed on.
Continue(given) ==
    LET outputs == IF current.run + 1 < MaxRuns THEN given ELSE {}
    IN
    /\ runData' = [runData EXCEPT ![Node] = Append(@, outputs)]
    /\ executionData' = PassOn(executionData, Node, current.run, outputs)
    /\ consumed' = Append(consumed, current.item)
    /\ current' = NoItem
    /\ UNCHANGED <<workflow, status, result, retries>>

\* The run is over with the node back on the stack; nothing was passed on.
Break(how) ==
    /\ runData' = [runData EXCEPT ![Node] = Append(@, {})]
    /\ executionData' = [executionData EXCEPT !.stack = <<current.item>> \o @]
    /\ current' = NoItem
    /\ result' = IF status = "canceled" THEN "canceled" ELSE how
    /\ UNCHANGED <<workflow, status, retries, consumed>>

\* alwaysOutputData puts an item on the first output when there is none.
Given(outputs) ==
    IF Node \in workflow.alwaysOutput THEN outputs \cup (Outputs(Node) \cap {1}) ELSE outputs

\* The first input on the first output.
PassedThrough == IF current.item.main[1] = {} THEN {} ELSE Outputs(Node) \cap {1}

\* A node returns items on some of its outputs.
NodeSucceeds ==
    /\ Executing /\ current.output = 0 /\ ~current.item.disabled
    /\ \E outputs \in SUBSET Outputs(Node) : Continue(Given(outputs))

\* A disabled node passes its first input through.
NodeDisabled ==
    /\ Executing /\ current.item.disabled
    /\ Continue(Given(PassedThrough))

\* A node returns null: what follows the loop's body is skipped.
NodeReturnsNull ==
    /\ Executing /\ current.output = 0 /\ ~current.item.disabled
    /\ Node \in workflow.quiet \ workflow.alwaysOutput
    /\ consumed' = Append(consumed, current.item)
    /\ current' = NoItem
    /\ UNCHANGED <<workflow, executionData, runData, status, result, retries>>

\* A node puts the execution to wait; its run is recorded.
NodeWaits ==
    /\ Executing /\ current.output = 0 /\ ~current.item.disabled
    /\ Node \in workflow.waits
    /\ Break("waiting")

LastTry == current.try = workflow.maxTries[Node]

\* Mutant of TriesAgain: tries are not counted.
TriesForEver ==
    /\ ~LastTry
    /\ current' = [current EXCEPT !.output = 0]
    /\ UNCHANGED <<workflow, executionData, runData, status, result, retries, consumed>>

TriesAgain ==
    /\ ~LastTry
    /\ current' = [current EXCEPT !.try = @ + 1, !.output = 0]
    /\ UNCHANGED <<workflow, executionData, runData, status, result, retries, consumed>>

\* A try throws.  After the last one the node passes its first input through when
\* it continues on fail, and ends the run otherwise.
NodeThrows ==
    /\ Executing /\ ~current.item.disabled
    /\ \/ TriesAgain
       \/ /\ LastTry
          /\ Node \in workflow.continues
          /\ Continue(PassedThrough)
       \/ /\ LastTry
          /\ Node \notin workflow.continues
          /\ Break("error")

\* A node returns an error as an item.  It is run again as often as it may be
\* tried, and what it returns then is dropped.
NodeEmitsError ==
    /\ Executing /\ current.output = 0 /\ ~current.item.disabled
    /\ workflow.errorOutput[Node] # 0
    /\ IF LastTry THEN Continue(Given({workflow.errorOutput[Node]}))
       ELSE /\ current' = [current EXCEPT !.output = workflow.errorOutput[Node]]
            /\ UNCHANGED <<workflow, executionData, runData, status, result, retries, consumed>>

RerunReturns ==
    /\ Executing /\ current.output # 0
    /\ IF current.try + 1 = workflow.maxTries[Node] THEN Continue(Given({current.output}))
       ELSE /\ current' = [current EXCEPT !.try = @ + 1]
            /\ UNCHANGED <<workflow, executionData, runData, status, result, retries, consumed>>

\* cancel(), or the time limit of the workflow.
Cancel ==
    /\ result = "none" /\ status = "running"
    /\ status' = "canceled"
    /\ UNCHANGED <<workflow, executionData, runData, current, result, retries, consumed>>

\* A pause is over: the node that waited is disabled for once.
Resume ==
    /\ result = "waiting"
    /\ LET n == Head(executionData.stack).node
       IN  runData' = [runData EXCEPT ![n] = Front(@)]
    /\ executionData' = [executionData EXCEPT !.stack[1].disabled = TRUE]
    /\ status' = "running" /\ result' = "none"
    /\ UNCHANGED <<workflow, current, retries, consumed>>

\* A user retries an execution that failed, with its own workflow:
\* ExecutionService.retry.
Retry ==
    /\ result = "error"
    /\ retries < MaxRetries
    /\ retries' = retries + 1
    /\ LET n == Head(executionData.stack).node
       IN  runData' = [runData EXCEPT ![n] = Front(@)]
    /\ status' = "running" /\ result' = "none"
    /\ UNCHANGED <<workflow, executionData, current, consumed>>

EngineStep ==
    \/ TakeNode \/ Finish
    \/ NodeSucceeds \/ NodeDisabled \/ NodeReturnsNull \/ NodeWaits
    \/ NodeThrows \/ NodeEmitsError \/ RerunReturns

Next == EngineStep \/ Cancel \/ Resume \/ Retry

Spec == Init /\ [][Next]_vars

\* Nodes end and the loop goes on.  No cancel, resume or retry need happen.
FairSpec == Spec /\ WF_vars(EngineStep)

-------------------------------------------------------------------------------
(***************************************************************************)
(* Properties.                                                             *)
(***************************************************************************)
Sources == SourcesOf(workflow)
Batches == { {s} : s \in Sources } \cup {{}}

\* What a workflow starts with has one input, connected or not.
IsItem(item) ==
    \E inputs \in {Inputs(item.node), {1}} :
        item \in [node : Nodes, main : [inputs -> Batches],
                 source : [inputs -> Sources \cup {NoData}], disabled : BOOLEAN]

AreItems(items) == items \in Seq(ToSet(items)) /\ \A item \in ToSet(items) : IsItem(item)

\* An entry lacks some data, and it has data for some input.
Entries(n) ==
    { entry \in [main : [Inputs(n) -> (Batches \ {{}}) \cup {NoData}],
                 source : [Inputs(n) -> Sources \cup {NoData}]] :
        /\ \E i \in Inputs(n) : entry.main[i] = NoData
        /\ \E i \in Inputs(n) : entry.main[i] # NoData }

\* A node is among the keys of waitingExecution, once, when it has an entry.
DataOK(data) ==
    /\ data = [stack |-> data.stack, order |-> data.order,
               waiting |-> [n \in Nodes |-> data.waiting[n]]]
    /\ AreItems(data.stack)
    /\ data.order \in Seq(Nodes) /\ IsInjective(data.order)
    /\ \A n \in Nodes :
          /\ n \in ToSet(data.order) <=> DOMAIN data.waiting[n] # {}
          /\ IsFiniteSet(DOMAIN data.waiting[n])
          /\ \A k \in DOMAIN data.waiting[n] : k \in Nat /\ data.waiting[n][k] \in Entries(n)

\* Every variable has its type; a node that is run again after an error item has a
\* try left; an execution that is over executes no node, and one that paused or
\* failed has the node on its stack at which it goes on.
TypeOK ==
    /\ workflow \in Workflows
    /\ DataOK(executionData)
    /\ runData \in [Nodes -> Seq(SUBSET Nat)]
    /\ \A n \in Nodes : \A k \in DOMAIN runData[n] :
          runData[n][k] \subseteq Outputs(n) \cup {workflow.errorOutput[n]}
    /\ current # NoItem =>
          /\ result = "none"
          /\ IsItem(current.item)
          /\ current \in [item : {current.item}, run : {Len(runData[Node])},
                          try : 1..workflow.maxTries[Node],
                          output : {0, workflow.errorOutput[Node]}]
          /\ current.output # 0 => ~LastTry
    /\ status \in {"running", "canceled"}
    /\ result \in {"none", "success", "error", "waiting", "canceled"}
    /\ result \in {"error", "waiting"} => executionData.stack # <<>>
    /\ retries \in 0..MaxRetries
    /\ AreItems(consumed)

Held == IF current = NoItem THEN <<>> ELSE <<current.item>>

\* Where what a node gave is, at an input of a node it is connected to.
Has(item, i, batch) == i \in DOMAIN item.main /\ item.main[i] = batch
InItems(items, n, i, batch) ==
    Cardinality({ j \in DOMAIN items : items[j].node = n /\ Has(items[j], i, batch) })
InEntries(entries, i, batch) ==
    Cardinality({ k \in DOMAIN entries : entries[k].main[i] = batch })
Stored(data, n, i, batch) ==
    InItems(data.stack, n, i, batch) + InEntries(data.waiting[n], i, batch)

Places(n, i, batch) ==
    Stored(executionData, n, i, batch) + InItems(Held, n, i, batch)
        + InItems(consumed, n, i, batch)

\* Whatever a node gives is executed once by each node it is connected to, or is
\* still on the stack or waits there: nothing is lost or executed twice, through
\* merges, retries, pauses, resumes and retries by a user.
NothingLost ==
    \A c \in Connections : \A k \in DOMAIN runData[c.from] :
        c.output \in runData[c.from][k] =>
            Places(c.to, c.input, {<<c.from, k - 1, c.output>>}) = 1

\* The source that an item names for an input is the one its data came from.
\* Only a node with more than two inputs may name none (the reset of
\* addNodeToBeExecuted), and expressions in it then cannot look back.
SourceKnown(n, batch, source) ==
    IF batch \in {NoData, {}, {<<workflow.start, 0, 0>>}} THEN source = NoData
    ELSE \/ batch = {source}
         \/ source = NoData /\ Cardinality(Inputs(n)) > 2

SourcesKnown ==
    /\ \A items \in {executionData.stack, Held, consumed} : \A j \in DOMAIN items :
          \A i \in DOMAIN items[j].main :
              SourceKnown(items[j].node, items[j].main[i], items[j].source[i])
    /\ \A n \in Nodes : \A k \in DOMAIN executionData.waiting[n] :
          LET entry == executionData.waiting[n][k]
          IN  \A i \in Inputs(n) : SourceKnown(n, entry.main[i], entry.source[i])

\* In a workflow without loops, a node that was executed without data for an
\* input never gets data for that input later: it was executed neither too
\* early nor in place of a run that was still to come.
Acyclic ==
    \A n \in Nodes :
        n \notin Parents(workflow, n) /\ \A m \in ParentNodes(n) : n \notin ParentNodes(m)
Lacks(item, i) == Has(item, i, {})
NoLateData ==
    Acyclic =>
        \A j \in DOMAIN consumed :
            LET n == consumed[j].node
            IN  \A i \in Inputs(n) : Lacks(consumed[j], i) =>
                    /\ \A k \in DOMAIN consumed :
                          k > j /\ consumed[k].node = n => Lacks(consumed[k], i)
                    /\ \A items \in {executionData.stack, Held} : \A k \in DOMAIN items :
                          items[k].node = n => Lacks(items[k], i)
                    /\ \A k \in DOMAIN executionData.waiting[n] :
                          executionData.waiting[n][k].main[i] = NoData

\* When an execution succeeds, a node is left waiting only if an input that it
\* requires got nothing, or too few of them got something, or if that is so of a
\* node before it.  (Where a node may return null the search for waiting nodes can
\* be skipped.)
MergesServed ==
    result = "success" /\ workflow.quiet = {} =>
        \A n \in ToSet(executionData.order) :
            \/ \E k \in DOMAIN executionData.waiting[n] :
                  LET filled == Filled(n, executionData.waiting[n][k])
                  IN  \/ \E i \in workflow.required[n] : i \notin filled
                      \/ Cardinality(filled) < workflow.atLeast[n]
            \/ ParentNodes(n) \cap ToSet(executionData.order) # {}

\* An execution that goes on ends, pauses or fails.
Ends == (result = "none") ~> (result # "none")
===============================================================================
