------------------------ MODULE ExecutionLifecycleProofs ------------------------
(***************************************************************************)
(* What ExecutionLifecycle.tla promises for every number of executions,    *)
(* invocations, stops, crashes and restarts, when no request comes before  *)
(* the start command has read the enqueued executions: first the life of   *)
(* executions, then what it promises together with admission, that slots   *)
(* are neither lost nor given back twice and what waits for one survives.  *)
(***************************************************************************)
EXTENDS ExecutionLifecycle, QueueLemmas, FiniteSetTheorems, TLAPS

OrderlyBoot == ~RequestsDuringBoot
SimpleRecovery == RecoveryMode = "simple"

-------------------------------------------------------------------------------
(***************************************************************************)
(* The inductive invariant.  An execution has one invocation at most, and  *)
(* where that is tells what its entry is and whether its engine was        *)
(* cancelled.                                                              *)
(***************************************************************************)
Busy(c) == call[c].pc # "idle"
Of(c) == call[c].id
Entry(c, engine) == [mode |-> call[c].mode, workflowExecution |-> engine]
Saving(e) == \E w \in writes : w.id = e

Tidy == \A c \in Calls :
            \/ call[c] = IdleCall /\ c \notin cancelled
            \/ Busy(c) /\ Of(c) \in Executions /\ call[c].mode \in CC!Modes

Alone == \A c, d \in Calls : Busy(c) /\ Busy(d) /\ Of(c) = Of(d) => c = d

Placed(c) ==
    \/ /\ call[c].pc \in {"inserting", "stored", "throttled", "updating"}
       /\ active[Of(c)] = NoEntry /\ c \notin cancelled
    \/ /\ call[c].pc = "starting"
       /\ active[Of(c)] = Entry(c, NoCall) /\ c \notin cancelled
    \/ /\ call[c].pc \in {"executing", "saving", "resolving"}
       /\ IF c \in cancelled THEN active[Of(c)] = NoEntry
                             ELSE active[Of(c)] = Entry(c, c)

\* An engine that was cancelled has a save under way, unless that was done.
Proper(c) ==
    Busy(c) =>
       /\ row[Of(c)] # Store!NotInserted /\ Of(c) \notin boot
       /\ Of(c) \in begun => LiveEngine(c)
       /\ call[c].pc \in {"saving", "resolving"}
             => call[c].outcome # "none" /\ (call[c].outcome = "aborted" => c \in cancelled)
       /\ c \in cancelled \/ call[c].pc = "resolving"
             => row[Of(c)].status # "running" \/ Saving(Of(c))
       /\ Placed(c)

\* With simple recovery, what the database calls `running` is attended to.
Cared(e) ==
    /\ SimpleRecovery
    /\ phase \in {"recovered", "up", "stopping"}
    /\ row[e].status = "running"
    => Saving(e) \/ \E c \in Calls : Busy(c) /\ Of(c) = e

Known(e) ==
    /\ Cared(e)
    /\ active[e] # NoEntry => \E c \in Calls : Busy(c) /\ Of(c) = e
    /\ e \in begun => row[e].status # "new" /\ row[e] # Store!NotInserted /\ e \notin boot
    /\ e \in boot => Store!Exists(row[e]) /\ ~Saving(e)

\* Before the start command has read the enqueued executions, none of them is
\* touched: what is run then has been run before.
Booting ==
    /\ phase \in {"down", "listening", "recovered"}
          => /\ boot = {}
             /\ \A c \in Calls : Busy(c) => row[Of(c)].status # "new"
             /\ \A w \in writes : row[w.id].status # "new"
    /\ phase = "stopping" => restarts < MaxRestarts

IInv ==
    /\ TypeOK /\ Tidy /\ Alone /\ Booting
    /\ \A c \in Calls : Proper(c)
    /\ \A e \in Executions : Known(e)

-------------------------------------------------------------------------------
(***************************************************************************)
(* Rows.                                                                   *)
(***************************************************************************)
AllRows == Store!Rows(CC!Modes)
Stored == [status : Store!Statuses, waitTill : BOOLEAN, data : Store!DataStages, mode : CC!Modes]
Vanished == {Store!NotInserted, Store!Deleted}

\* A row that s leaves where r was: no writer makes it new, or inserts it.
Rewrites(r, s) ==
    /\ s \in AllRows
    /\ s.status = "new" => r.status = "new"
    /\ s = Store!NotInserted => r = Store!NotInserted

LEMMA NoneIsNoMode == "none" \notin CC!Modes
BY DEF CC!Modes, CC!UnlimitedModes, CC!ProductionModes

LEMMA RowKinds ==
    /\ AllRows = Stored \cup Vanished
    /\ \A r \in AllRows : Store!Exists(r) <=> r \in Stored
    /\ \A r \in AllRows : ~Store!Exists(r) => r.status \notin Store!Statuses
    /\ \A r \in Stored : r \notin Vanished
BY DEF AllRows, Stored, Vanished, Store!Rows, Store!Exists, Store!Statuses,
       Store!NotInserted, Store!Deleted, Store!Absent

\* An existing row with a status, waitTill, data and mode of its own.
LEMMA RowOf ==
    ASSUME NEW status \in Store!Statuses, NEW waitTill \in BOOLEAN,
           NEW data \in Store!DataStages, NEW mode \in CC!Modes
    PROVE  [status |-> status, waitTill |-> waitTill, data |-> data, mode |-> mode] \in Stored
BY DEF Stored

LEMMA InsertedRow ==
    ASSUME NEW mode \in CC!Modes
    PROVE  Store!InsertedEntity(mode) \in Stored /\ Store!InsertedEntity(mode).status = "new"
BY RowOf DEF Store!InsertedEntity, Store!Statuses, Store!DataStages

LEMMA DataRow ==
    ASSUME NEW r \in AllRows
    PROVE  Rewrites(r, Store!WithInsertedData(r)) /\ Store!WithInsertedData(r).status = r.status
<1>1. CASE Store!Exists(r)
  <2>1. r \in Stored
    BY <1>1, RowKinds
  <2>2. [r EXCEPT !.data = "initial"] \in Stored
    BY <2>1 DEF Stored, Store!DataStages
  <2>3. [r EXCEPT !.data = "initial"].status = r.status
    BY <2>1 DEF Stored
  <2> QED BY <1>1, <2>2, <2>3, RowKinds DEF Store!WithInsertedData, Rewrites, Vanished
<1>2. CASE ~Store!Exists(r)
  BY <1>2 DEF Store!WithInsertedData, Rewrites
<1> QED BY <1>1, <1>2

\* A status is written into a row that exists.
LEMMA StatusRow ==
    ASSUME NEW r \in AllRows, NEW status \in Store!Statuses, status # "new"
    PROVE  /\ Rewrites(r, Store!WithStatus(r, status))
           /\ Store!Exists(Store!WithStatus(r, status)) <=> Store!Exists(r)
           /\ Store!WithStatus(r, status).status # "new"
           /\ status # "running" => Store!WithStatus(r, status).status # "running"
<1>1. CASE Store!Exists(r)
  <2>1. r \in Stored
    BY <1>1, RowKinds
  <2>2. [r EXCEPT !.status = status] \in Stored
    BY <2>1 DEF Stored
  <2>3. [r EXCEPT !.status = status].status = status
    BY <2>1 DEF Stored
  <2> QED BY <1>1, <2>2, <2>3, RowKinds DEF Store!WithStatus, Rewrites, Vanished
<1>2. CASE ~Store!Exists(r)
  BY <1>2, RowKinds DEF Store!WithStatus, Rewrites, Store!Statuses
<1> QED BY <1>1, <1>2

LEMMA ResumedRow ==
    ASSUME NEW r \in AllRows
    PROVE  Rewrites(r, Store!Resumed(r))
<1>1. CASE Store!Exists(r)
  <2>1. r \in Stored
    BY <1>1, RowKinds
  <2>2. [r EXCEPT !.status = "running", !.waitTill = FALSE] \in Stored
    BY <2>1 DEF Stored, Store!Statuses
  <2>3. [r EXCEPT !.status = "running", !.waitTill = FALSE].status = "running"
    BY <2>1 DEF Stored
  <2> QED BY <1>1, <2>2, <2>3, RowKinds DEF Store!Resumed, Rewrites, Vanished
<1>2. CASE ~Store!Exists(r)
  BY <1>2 DEF Store!Resumed, Rewrites
<1> QED BY <1>1, <1>2

LEMMA StoppedRow ==
    ASSUME NEW r \in AllRows
    PROVE  /\ Rewrites(r, Store!StoppedDuringRun(r))
           /\ Store!Exists(Store!StoppedDuringRun(r)) <=> Store!Exists(r)
           /\ Store!StoppedDuringRun(r).status \notin {"new", "running"}
<1>1. CASE Store!Exists(r)
  <2>1. r \in Stored
    BY <1>1, RowKinds
  <2>2. [r EXCEPT !.status = "canceled", !.waitTill = FALSE, !.data = "failed"] \in Stored
    BY <2>1 DEF Stored, Store!Statuses, Store!DataStages
  <2>3. [r EXCEPT !.status = "canceled", !.waitTill = FALSE, !.data = "failed"].status
           = "canceled"
    BY <2>1 DEF Stored
  <2> QED BY <1>1, <2>2, <2>3, RowKinds DEF Store!StoppedDuringRun, Rewrites, Vanished
<1>2. CASE ~Store!Exists(r)
  BY <1>2, RowKinds DEF Store!StoppedDuringRun, Rewrites, Store!Statuses
<1> QED BY <1>1, <1>2

\* The save hook.
LEMMA SavedRow ==
    ASSUME NEW r \in AllRows, NEW mode \in CC!Modes,
           NEW status \in Store!Statuses, status \notin {"new", "running"}
    PROVE  /\ Rewrites(r, Store!Saved(r, status, mode))
           /\ Store!Saved(r, status, mode).status \notin {"new", "running"}
<1>1. CASE ~Store!Exists(r)
  BY <1>1, RowKinds DEF Store!Saved, Rewrites, Store!Statuses
<1>2. CASE Store!Exists(r) /\ Store!ShouldNotSave(status)
  <2>1. Store!Deleted.status = "deleted" /\ Store!NotInserted.status = "absent"
    BY DEF Store!Deleted, Store!NotInserted, Store!Absent
  <2> QED BY <1>2, <2>1, RowKinds DEF Store!Saved, Rewrites, Vanished
<1>3. CASE Store!Exists(r) /\ ~Store!ShouldNotSave(status)
  <2>1. r.waitTill \in BOOLEAN
    BY <1>3, RowKinds DEF Stored
  <2>2. Store!DataAfter(status) \in Store!DataStages
    BY DEF Store!DataAfter, Store!DataStages
  <2>3. Store!Saved(r, status, mode) \in Stored
        /\ Store!Saved(r, status, mode).status = status
    BY <1>3, <2>1, <2>2, RowOf DEF Store!Saved
  <2> QED BY <2>3, RowKinds DEF Rewrites, Vanished
<1> QED BY <1>1, <1>2, <1>3

-------------------------------------------------------------------------------
(***************************************************************************)
(* Records.                                                                *)
(***************************************************************************)
CallRecords == [pc : CallPcs, id : Executions \cup {0}, mode : CC!Modes \cup {"none"},
                resumed : BOOLEAN, timer : BOOLEAN,
                outcome : Outcomes \cup {"none", "canceled", "aborted"}]
Entries == [mode : CC!Modes, workflowExecution : Calls \cup {NoCall}] \cup {NoEntry}
Hooks == [id : Executions, status : {"error", "canceled"}, mode : CC!Modes]

LEMMA IdleRecord == IdleCall \in CallRecords /\ IdleCall.pc = "idle" /\ IdleCall.timer = FALSE
BY DEF IdleCall, CallRecords, CallPcs

LEMMA Moved ==
    ASSUME TypeOK, NEW c \in Calls, NEW pc \in CallPcs
    PROVE  /\ Goto(c, pc) \in [Calls -> CallRecords]
           /\ Goto(c, pc)[c].pc = pc
           /\ Goto(c, pc)[c].id = call[c].id
           /\ Goto(c, pc)[c].mode = call[c].mode
           /\ Goto(c, pc)[c].outcome = call[c].outcome
           /\ \A d \in Calls : d # c => Goto(c, pc)[d] = call[d]
BY DEF TypeOK, Goto, CallRecords

LEMMA LogTypes ==
    ASSUME TypeOK, NEW e \in Executions, NEW events \in {"none", "started", "nodes"},
           LogEvent(e, events)
    PROVE  eventLog' \in [Executions -> [events : {"none", "started", "nodes"}, old : BOOLEAN]]
<1>1. [events |-> events, old |-> FALSE] \in
          [events : {"none", "started", "nodes"}, old : BOOLEAN]
  OBVIOUS
<1>2. Logged(e, events) \in [Executions -> [events : {"none", "started", "nodes"}, old : BOOLEAN]]
  BY <1>1 DEF Logged, TypeOK
<1> QED BY <1>2 DEF LogEvent, TypeOK

LEMMA EntryRecord ==
    ASSUME TypeOK, Tidy, NEW c \in Calls, Busy(c), NEW engine \in Calls \cup {NoCall}
    PROVE  Entry(c, engine) \in Entries /\ Entry(c, engine) # NoEntry
           /\ Entry(c, engine).workflowExecution = engine
BY NoEntryAssumption DEF Entry, Entries, Tidy, Busy, IdleCall

-------------------------------------------------------------------------------
(***************************************************************************)
(* A step of one invocation, that leaves every other execution alone.      *)
(***************************************************************************)
Apart(e) ==
    /\ row'[e] = row[e] /\ active'[e] = active[e]
    /\ e \in begun' <=> e \in begun
    /\ Saving(e)' <=> Saving(e)

LEMMA OthersProper ==
    ASSUME NEW d \in Calls, Proper(d), Busy(d) => Apart(Of(d)),
           call'[d] = call[d], d \in cancelled' <=> d \in cancelled, boot' \subseteq boot
    PROVE  Proper(d)'
BY DEF Proper, Busy, Apart, Of, LiveEngine, Placed, Entry

LEMMA CallMoves ==
    ASSUME IInv, NEW c \in Calls, Busy(c), TypeOK', Proper(c)', NEW x, x = Of(c),
           phase' = phase, restarts' = restarts, boot' = boot,
           \A d \in Calls : d # c =>
               call'[d] = call[d] /\ (d \in cancelled' <=> d \in cancelled),
           \A e \in Executions : e # x => Apart(e),
           Rewrites(row[x], row'[x]),
           x \in begun' => x \in begun \/ row'[x].status # "new",
           \/ Busy(c)' /\ Of(c)' = x /\ call'[c].mode = call[c].mode
           \/ /\ call'[c] = IdleCall /\ c \notin cancelled'
              /\ active'[x] = NoEntry
              /\ row'[x].status # "running" \/ Saving(x)'
    PROVE  IInv'
<1>1. x \in Executions /\ Proper(c)
  BY DEF IInv, Tidy, IdleCall, Busy
<1>2. ~(IdleCall.pc # "idle")
  BY IdleRecord
<1>3. Tidy'
  <2> SUFFICES ASSUME NEW d \in Calls
               PROVE  \/ call'[d] = IdleCall /\ d \notin cancelled'
                      \/ Busy(d)' /\ Of(d)' \in Executions /\ call'[d].mode \in CC!Modes
    BY DEF Tidy
  <2>1. CASE d # c
    BY <2>1 DEF IInv, Tidy, Busy, Of
  <2>2. CASE d = c
    <3>1. call[c].mode \in CC!Modes
      BY DEF IInv, Tidy, Busy, IdleCall
    <3> QED BY <1>1, <2>2, <3>1
  <2> QED BY <2>1, <2>2
<1>4. Alone'
  <2> SUFFICES ASSUME NEW a \in Calls, NEW b \in Calls, Busy(a)', Busy(b)', Of(a)' = Of(b)'
               PROVE  a = b
    BY DEF Alone
  <2>1. \A d \in Calls : Busy(d)' => Busy(d) /\ Of(d)' = Of(d)
    BY <1>2 DEF Busy, Of
  <2> QED BY <2>1 DEF IInv, Alone
<1>5. Booting'
  <2>1. ASSUME row[x].status # "new"
        PROVE  row'[x].status # "new"
    BY <2>1 DEF Rewrites
  <2>2. ASSUME NEW d \in Calls, Busy(d)', row[x].status # "new",
               Busy(d) => row[Of(d)].status # "new"
        PROVE  (row[Of(d)].status # "new")'
    <3>1. CASE d = c
      BY <1>2, <2>1, <2>2, <3>1 DEF Busy, Of
    <3>2. CASE d # c
      <4>1. Busy(d) /\ Of(d)' = Of(d) /\ Of(d) \in Executions /\ Of(d) # x
        BY <2>2, <3>2 DEF IInv, Alone, Tidy, Busy, Of, IdleCall
      <4> QED BY <2>2, <4>1 DEF Apart
    <3> QED BY <3>1, <3>2
  <2>3. ASSUME NEW w \in writes', row[x].status # "new",
               \A v \in writes : row[v.id].status # "new"
        PROVE  row'[w.id].status # "new"
    <3>1. w.id \in Executions
      BY DEF TypeOK
    <3>2. CASE w.id = x
      BY <2>1, <2>3, <3>2
    <3>3. CASE w.id # x
      <4>1. Saving(w.id) /\ row'[w.id] = row[w.id]
        BY <3>1, <3>3 DEF Apart, Saving
      <4> QED BY <2>3, <4>1 DEF Saving
    <3> QED BY <3>2, <3>3
  <2> QED BY <2>2, <2>3 DEF IInv, Booting
<1>6. ASSUME NEW d \in Calls
      PROVE  Proper(d)'
  <2>1. CASE d # c
    <3>1. Busy(d) => Of(d) \in Executions /\ Of(d) # x
      BY <2>1 DEF IInv, Alone, Tidy, Busy, IdleCall
    <3> QED BY <2>1, <3>1, OthersProper DEF IInv
  <2> QED BY <2>1
<1>7. ASSUME NEW e \in Executions
      PROVE  Known(e)'
  <2>1. CASE e # x
    <3>1. Known(e) /\ Apart(e)
      BY <2>1 DEF IInv
    <3>2. \A d \in Calls : Busy(d) /\ Of(d) = e => Busy(d)' /\ Of(d)' = e
      BY <2>1 DEF Busy, Of
    <3> QED BY <3>1, <3>2 DEF Known, Cared, Apart
  <2>2. CASE e = x
    <3>1. Known(e) /\ row[e] # Store!NotInserted /\ e \notin boot
      BY <1>1, <2>2 DEF IInv, Proper
    <3>2. e \in begun' => row'[e].status # "new" /\ row'[e] # Store!NotInserted
      BY <2>2, <3>1 DEF Known, Rewrites
    <3>3. (Busy(c)' /\ Of(c)' = x) \/ active'[e] = NoEntry
      BY <2>2
    <3>4. (Busy(c)' /\ Of(c)' = x) \/ row'[e].status # "running" \/ Saving(e)'
      BY <2>2
    <3>5. Cared(e)'
      BY <2>2, <3>4 DEF Cared
    <3>6. active'[e] # NoEntry => \E d \in Calls : Busy(d)' /\ Of(d)' = e
      BY <2>2, <3>3
    <3> QED BY <3>1, <3>2, <3>5, <3>6 DEF Known
  <2> QED BY <2>1, <2>2
<1> QED BY <1>3, <1>4, <1>5, <1>6, <1>7 DEF IInv

-------------------------------------------------------------------------------
(***************************************************************************)
(* The steps of an invocation.                                             *)
(***************************************************************************)
LEMMA CallFacts ==
    ASSUME IInv, NEW c \in Calls, Busy(c)
    PROVE  /\ Of(c) \in Executions /\ call[c].mode \in CC!Modes
           /\ row[Of(c)] \in AllRows /\ row[Of(c)] # Store!NotInserted
           /\ Proper(c) /\ Known(Of(c)) /\ Placed(c) /\ TypeOK /\ Tidy
BY DEF IInv, Tidy, Busy, IdleCall, TypeOK, AllRows, Proper

LEMMA InsertDataKeeps ==
    ASSUME IInv, NEW c \in Calls, InsertData(c)
    PROVE  IInv'
<1>1. Busy(c) /\ call[c].pc = "inserting"
  BY DEF InsertData, Busy
<1>2. PICK x : x = Of(c)
  OBVIOUS
<1>3. /\ call' \in [Calls -> CallRecords] /\ call'[c].pc = "stored"
      /\ Of(c)' = x /\ call'[c].mode = call[c].mode
      /\ \A d \in Calls : d # c => call'[d] = call[d]
  BY <1>1, <1>2, CallFacts, Moved DEF InsertData, CallPcs, Of
<1>4. /\ row' \in [Executions -> AllRows] /\ Rewrites(row[x], row'[x])
      /\ \A e \in Executions : e # x => row'[e] = row[e]
  BY <1>1, <1>2, CallFacts, DataRow DEF InsertData, TypeOK, Rewrites, AllRows, Of
<1>5. UNCHANGED <<processVars, active, cancelled, writes, stop, begun>>
  BY DEF InsertData
<1>6. TypeOK'
  BY <1>1, <1>3, <1>4, <1>5, CallFacts
     DEF TypeOK, CallRecords, AllRows, processVars
<1>7. Proper(c)'
  BY <1>1, <1>2, <1>3, <1>4, <1>5, CallFacts
     DEF Proper, Placed, Busy, Rewrites, LiveEngine, processVars
<1> QED
  BY <1>1, <1>2, <1>3, <1>4, <1>5, <1>6, <1>7, CallMoves
     DEF Apart, Saving, Busy, processVars, Rewrites

LEMMA ThrottleNewKeeps ==
    ASSUME IInv, NEW c \in Calls, ThrottleNew(c)
    PROVE  IInv'
<1>1. Busy(c) /\ call[c].pc = "stored"
  BY DEF ThrottleNew, Busy
<1>2. PICK x : x = Of(c)
  OBVIOUS
<1>3. /\ call' \in [Calls -> CallRecords] /\ call'[c].pc = "throttled"
      /\ Of(c)' = x /\ call'[c].mode = call[c].mode
      /\ \A d \in Calls : d # c => call'[d] = call[d]
  BY <1>1, <1>2, CallFacts, Moved DEF ThrottleNew, CallPcs, Of
<1>4. UNCHANGED <<row, phase, restarts, boot, active, cancelled, writes, stop, begun>>
  BY DEF ThrottleNew
<1>5. eventLog' \in [Executions -> [events : {"none", "started", "nodes"}, old : BOOLEAN]]
  BY <1>1, CallFacts, LogTypes DEF ThrottleNew, LogThrottled, TypeOK, Of
<1>6. TypeOK'
  BY <1>1, <1>3, <1>4, <1>5, CallFacts DEF TypeOK, CallRecords
<1>7. Proper(c)'
  BY <1>1, <1>2, <1>3, <1>4, CallFacts DEF Proper, Placed, Busy, LiveEngine
<1> QED
  BY <1>1, <1>2, <1>3, <1>4, <1>6, <1>7, CallFacts, CallMoves DEF Apart, Saving, Busy, Rewrites

LEMMA BeginUpdateKeeps ==
    ASSUME IInv, NEW c \in Calls, BeginUpdate(c)
    PROVE  IInv'
<1>1. Busy(c) /\ call[c].pc = "throttled"
  BY DEF BeginUpdate, LetThrough, Busy
<1>2. PICK x : x = Of(c)
  OBVIOUS
<1>3. /\ call' \in [Calls -> CallRecords] /\ call'[c].pc = "updating"
      /\ Of(c)' = x /\ call'[c].mode = call[c].mode
      /\ \A d \in Calls : d # c => call'[d] = call[d]
  BY <1>1, <1>2, CallFacts, Moved DEF BeginUpdate, CallPcs, Of
<1>4. UNCHANGED <<row, processVars, active, cancelled, writes, stop, begun>>
  BY DEF BeginUpdate
<1>5. TypeOK'
  BY <1>1, <1>3, <1>4, CallFacts DEF TypeOK, CallRecords, processVars
<1>6. Proper(c)'
  BY <1>1, <1>2, <1>3, <1>4, CallFacts DEF Proper, Placed, Busy, LiveEngine, processVars
<1> QED
  BY <1>1, <1>2, <1>3, <1>4, <1>5, <1>6, CallFacts, CallMoves
     DEF Apart, Saving, Busy, Rewrites, processVars

\* ActiveExecutions.add enters the execution, whose entry was removed before.
LEMMA RegisterKeeps ==
    ASSUME IInv, NEW c \in Calls, Register(c) \/ UpdateExisting(c)
    PROVE  IInv'
<1>1. Busy(c) /\ call[c].pc \in {"throttled", "updating"}
  BY DEF Register, UpdateExisting, LetThrough, Busy
<1>2. PICK x : x = Of(c)
  OBVIOUS
<1>3. /\ call' \in [Calls -> CallRecords] /\ call'[c].pc = "starting"
      /\ Of(c)' = x /\ call'[c].mode = call[c].mode
      /\ \A d \in Calls : d # c => call'[d] = call[d]
  BY <1>1, <1>2, CallFacts, Moved DEF Register, UpdateExisting, CallPcs, Of
<1>4. /\ row' \in [Executions -> AllRows] /\ Rewrites(row[x], row'[x])
      /\ \A e \in Executions : e # x => row'[e] = row[e]
  BY <1>1, <1>2, CallFacts, ResumedRow
     DEF Register, UpdateExisting, TypeOK, Rewrites, AllRows, Of
<1>5. /\ active' \in [Executions -> Entries] /\ active'[x] = Entry(c, NoCall)
      /\ \A e \in Executions : e # x => active'[e] = active[e]
  BY <1>1, <1>2, CallFacts, EntryRecord
     DEF Register, UpdateExisting, Registered, TypeOK, Entries, Entry, Of
<1>6. UNCHANGED <<processVars, cancelled, writes, stop, begun>>
  BY DEF Register, UpdateExisting
<1>7. TypeOK'
  BY <1>1, <1>3, <1>4, <1>5, <1>6, CallFacts
     DEF TypeOK, CallRecords, AllRows, Entries, processVars
<1>8. Proper(c)'
  <2>1. Proper(c) /\ Busy(c) /\ ~LiveEngine(c) /\ c \notin cancelled
    BY <1>1, CallFacts DEF Placed, LiveEngine
  <2>2. Placed(c)'
    BY <1>3, <1>5, <1>6, <2>1 DEF Placed, Entry
  <2> QED
    BY <1>2, <1>3, <1>4, <1>6, <2>1, <2>2 DEF Proper, Rewrites, processVars
<1> QED
  BY <1>1, <1>2, <1>3, <1>4, <1>5, <1>6, <1>7, <1>8, CallMoves
     DEF Apart, Saving, Busy, processVars

\* The entry of the execution is removed.
LEMMA EntryRemoved ==
    ASSUME TypeOK, NEW e \in Executions, RemoveActive(e)
    PROVE  /\ active' \in [Executions -> Entries] /\ active'[e] = NoEntry
           /\ \A f \in Executions : f # e => active'[f] = active[f]
BY DEF RemoveActive, TypeOK, Entries

LEMMA PermissionDeniedKeeps ==
    ASSUME IInv, NEW c \in Calls, PermissionDenied(c)
    PROVE  IInv'
<1>1. Busy(c) /\ call[c].pc = "starting" /\ c \notin cancelled
  BY CallFacts DEF PermissionDenied, Busy, Placed
<1>2. PICK x : x = Of(c)
  OBVIOUS
<1>3. /\ call' \in [Calls -> CallRecords] /\ call'[c] = IdleCall
      /\ \A d \in Calls : d # c => call'[d] = call[d]
  BY <1>1, CallFacts, IdleRecord DEF PermissionDenied, TypeOK, CallRecords
<1>4. /\ row' \in [Executions -> AllRows] /\ Rewrites(row[x], row'[x])
      /\ row'[x].status # "running"
      /\ \A e \in Executions : e # x => row'[e] = row[e]
  <2>1. "error" \in Store!Statuses
    BY DEF Store!Statuses
  <2> QED
    BY <1>1, <1>2, <2>1, CallFacts, SavedRow
       DEF PermissionDenied, TypeOK, Rewrites, AllRows, Of
<1>5. /\ active' \in [Executions -> Entries] /\ active'[x] = NoEntry
      /\ \A e \in Executions : e # x => active'[e] = active[e]
  BY <1>1, <1>2, CallFacts, EntryRemoved DEF PermissionDenied, Of
<1>6. UNCHANGED <<processVars, cancelled, writes, stop, begun>>
  BY DEF PermissionDenied
<1>7. TypeOK'
  BY <1>1, <1>3, <1>4, <1>5, <1>6, CallFacts
     DEF TypeOK, CallRecords, AllRows, Entries, processVars
<1>8. Proper(c)'
  BY <1>3, IdleRecord DEF Proper, Busy
<1> QED
  BY <1>1, <1>2, <1>3, <1>4, <1>5, <1>6, <1>7, <1>8, CallMoves
     DEF Apart, Saving, processVars

\* The engine starts, attached to the entry that was made for it.
LEMMA RunMainProcessKeeps ==
    ASSUME IInv, NEW c \in Calls, RunMainProcess(c)
    PROVE  IInv'
<1>1. Busy(c) /\ call[c].pc = "starting" /\ c \notin cancelled
  BY CallFacts DEF RunMainProcess, Busy, Placed
<1>2. PICK x : x = Of(c)
  OBVIOUS
<1>3. active[x] = Entry(c, NoCall) /\ active[x] # NoEntry
  BY <1>1, <1>2, CallFacts, EntryRecord DEF Placed
<1>4. /\ call' = [call EXCEPT ![c].pc = "executing", ![c].timer = Timeouts]
      /\ active' = [active EXCEPT ![x].workflowExecution = c]
      /\ LogEvent(x, "started")
      /\ UNCHANGED <<phase, restarts, boot, writes, cancelled, stop>>
  BY <1>2, <1>3 DEF RunMainProcess, Of
<1>5. /\ call' \in [Calls -> CallRecords] /\ call'[c].pc = "executing"
      /\ Of(c)' = x /\ call'[c].mode = call[c].mode
      /\ \A d \in Calls : d # c => call'[d] = call[d]
  <2> DEFINE k == [call[c] EXCEPT !.pc = "executing", !.timer = Timeouts]
  <2>1. call' = [call EXCEPT ![c] = k] /\ call \in [Calls -> CallRecords]
    BY <1>1, <1>4, CallFacts DEF TypeOK, CallRecords
  <2>2. k \in CallRecords
    BY <2>1, TimeoutsAssumption DEF CallRecords, CallPcs
  <2>3. k.pc = "executing" /\ k.id = call[c].id /\ k.mode = call[c].mode
    BY <2>1 DEF CallRecords
  <2> HIDE DEF k
  <2> QED BY <1>2, <2>1, <2>2, <2>3 DEF Of
<1>6. /\ row' \in [Executions -> AllRows] /\ Rewrites(row[x], row'[x])
      /\ row'[x].status # "new"
      /\ \A e \in Executions : e # x => row'[e] = row[e]
  <2>1. "running" \in Store!Statuses
    BY DEF Store!Statuses
  <2> QED
    BY <1>1, <1>2, <2>1, CallFacts, StatusRow
       DEF RunMainProcess, TypeOK, Rewrites, AllRows, Of
<1>7. /\ active' \in [Executions -> Entries] /\ active'[x] = Entry(c, c)
      /\ \A e \in Executions : e # x => active'[e] = active[e]
  <2>1. active'[x] = Entry(c, c)
    BY <1>1, <1>2, <1>3, <1>4, CallFacts DEF TypeOK, Entry
  <2>2. Entry(c, c) \in Entries /\ x \in Executions /\ active \in [Executions -> Entries]
    BY <1>1, <1>2, CallFacts, EntryRecord DEF TypeOK, Entries
  <2>3. active' = [active EXCEPT ![x] = Entry(c, c)]
    BY <1>3, <1>4, <2>1, <2>2
  <2> QED
    BY <2>2, <2>3
<1>8. begun' = begun \cup {x}
  BY <1>2 DEF RunMainProcess, Of
<1>9. TypeOK'
  <2>1. eventLog' \in [Executions -> [events : {"none", "started", "nodes"}, old : BOOLEAN]]
    BY <1>1, <1>2, <1>4, CallFacts, LogTypes
  <2> QED
    BY <1>1, <1>2, <1>4, <1>5, <1>6, <1>7, <1>8, <2>1, CallFacts
       DEF TypeOK, CallRecords, AllRows, Entries
<1>10. Proper(c)'
  <2>1. Placed(c)'
    BY <1>1, <1>4, <1>5, <1>7 DEF Placed, Entry
  <2>2. LiveEngine(c)' /\ c \notin cancelled'
    BY <1>1, <1>4, <1>5 DEF LiveEngine
  <2> QED
    BY <1>1, <1>2, <1>4, <1>5, <1>6, <2>1, <2>2, CallFacts DEF Proper, Rewrites
<1> QED
  BY <1>1, <1>2, <1>4, <1>5, <1>6, <1>7, <1>8, <1>9, <1>10, CallMoves
     DEF Apart, Saving, Busy

LEMMA NodeLoggedKeeps ==
    ASSUME IInv, NEW c \in Calls, NodeLogged(c)
    PROVE  IInv'
<1>1. Busy(c)
  BY DEF NodeLogged, Busy
<1>2. UNCHANGED <<row, phase, restarts, boot, call, active, cancelled, writes, stop, begun>>
  BY DEF NodeLogged
<1>3. TypeOK'
  <2>1. eventLog' \in [Executions -> [events : {"none", "started", "nodes"}, old : BOOLEAN]]
    BY <1>1, CallFacts, LogTypes DEF NodeLogged, Of
  <2> QED BY <1>2, <2>1 DEF IInv, TypeOK
<1> QED
  BY <1>2, <1>3
     DEF IInv, Tidy, Alone, Booting, Proper, Placed, Known, Cared, Saving, Busy, Of, Entry,
         LiveEngine

LEMMA EngineEndsKeeps ==
    ASSUME IInv, NEW c \in Calls, EngineEnds(c)
    PROVE  IInv'
<1>1. Busy(c) /\ call[c].pc = "executing"
  BY CallFacts DEF EngineEnds, Busy, Placed
<1>2. PICK x : x = Of(c)
  OBVIOUS
<1>3. PICK o \in EngineOutcomes(c) :
         call' = [call EXCEPT ![c].outcome = o,
                              ![c].pc = IF @ = "executing" THEN "saving" ELSE "savingOrphan"]
  BY DEF EngineEnds
<1>4. /\ o \in Outcomes \cup {"canceled", "aborted"} /\ o # "none"
      /\ o = "aborted" => c \in cancelled
  BY OutcomesAssumption DEF EngineOutcomes
<1>5. /\ call' \in [Calls -> CallRecords]
      /\ call'[c].pc = "saving" /\ call'[c].outcome = o
      /\ Of(c)' = x /\ call'[c].mode = call[c].mode
      /\ \A d \in Calls : d # c => call'[d] = call[d]
  BY <1>1, <1>2, <1>3, <1>4, CallFacts DEF TypeOK, CallRecords, CallPcs, Of
<1>6. UNCHANGED <<row, processVars, active, cancelled, writes, stop, begun>>
  BY DEF EngineEnds
<1>7. TypeOK'
  BY <1>1, <1>5, <1>6, CallFacts DEF TypeOK, CallRecords, processVars
<1>8. Proper(c)'
  <2>1. Placed(c)' /\ LiveEngine(c)'
    <3>1. Placed(c)
      BY <1>1, CallFacts
    <3>2. Placed(c)'
      BY <1>1, <1>2, <1>5, <1>6, <3>1 DEF Placed, Entry
    <3> QED BY <1>5, <3>2 DEF LiveEngine
  <2> QED
    BY <1>1, <1>2, <1>4, <1>5, <1>6, <2>1, CallFacts DEF Proper, Saving, processVars
<1>9. Rewrites(row[x], row'[x])
  BY <1>1, <1>2, <1>6, CallFacts DEF Rewrites
<1>10. /\ Busy(c)'
       /\ \A e \in Executions : e # x => Apart(e)
  BY <1>5, <1>6 DEF Apart, Saving, Busy
<1>11. /\ phase' = phase /\ restarts' = restarts /\ boot' = boot
       /\ \A d \in Calls : d \in cancelled' <=> d \in cancelled
       /\ x \in begun' => x \in begun
  BY <1>6 DEF processVars
<1> QED
  BY <1>1, <1>2, <1>5, <1>7, <1>8, <1>9, <1>10, <1>11, CallMoves

\* What the engine saves is not running any more.
LEMMA EngineSavesKeeps ==
    ASSUME IInv, NEW c \in Calls, EngineSaves(c)
    PROVE  IInv'
<1>1. Busy(c) /\ call[c].pc = "saving"
  BY CallFacts DEF EngineSaves, Busy, Placed
<1>2. PICK x : x = Of(c)
  OBVIOUS
<1>3. /\ call' \in [Calls -> CallRecords]
      /\ call'[c].pc = "resolving" /\ call'[c].outcome = call[c].outcome
      /\ Of(c)' = x /\ call'[c].mode = call[c].mode
      /\ \A d \in Calls : d # c => call'[d] = call[d]
  BY <1>1, <1>2, CallFacts, Moved DEF EngineSaves, CallPcs, Of
<1>4. UNCHANGED <<processVars, active, cancelled, writes, stop>>
  BY <1>1 DEF EngineSaves
<1>5. /\ row' \in [Executions -> AllRows] /\ Rewrites(row[x], row'[x])
      /\ row'[x].status # "running" \/ Saving(x)
      /\ \A e \in Executions : e # x => row'[e] = row[e]
  <2>1. CASE call[c].outcome = "aborted"
    <3>1. row' = row
      BY <2>1 DEF EngineSaves
    <3> QED
      BY <1>1, <1>2, <2>1, <3>1, CallFacts DEF Proper, Rewrites, TypeOK, AllRows
  <2>2. CASE call[c].outcome # "aborted"
    <3>1. row' = [row EXCEPT ![x] = Store!Saved(@, call[c].outcome, call[c].mode)]
      BY <1>2, <2>2 DEF EngineSaves, Of
    <3>2. call[c].outcome \in Store!Statuses \ {"new", "running"}
      BY <1>1, <2>2, CallFacts, OutcomesAssumption DEF Proper, TypeOK, Store!Statuses
    <3>3. x \in Executions /\ row[x] \in AllRows /\ call[c].mode \in CC!Modes
          /\ row \in [Executions -> AllRows]
      BY <1>1, <1>2, CallFacts DEF TypeOK, AllRows
    <3>4. row'[x] = Store!Saved(row[x], call[c].outcome, call[c].mode)
          /\ \A e \in Executions : e # x => row'[e] = row[e]
      BY <3>1, <3>3
    <3>5. row'[x] \in AllRows /\ row'[x].status # "running" /\ Rewrites(row[x], row'[x])
      BY <3>2, <3>3, <3>4, SavedRow DEF Rewrites
    <3>6. row' \in [Executions -> AllRows]
      BY <3>1, <3>3, <3>4, <3>5
    <3> QED
      BY <3>4, <3>5, <3>6
  <2> QED BY <2>1, <2>2
<1>6. begun' = begun \/ begun' = begun \ {x}
  BY <1>2 DEF EngineSaves, Of
<1>7. TypeOK'
  BY <1>1, <1>3, <1>4, <1>5, <1>6, CallFacts DEF TypeOK, CallRecords, AllRows, processVars
<1>8. Proper(c)'
  <2>1. Placed(c)' /\ LiveEngine(c)'
    <3>1. Placed(c)
      BY <1>1, CallFacts
    <3>2. Placed(c)'
      BY <1>1, <1>2, <1>3, <1>4, <3>1 DEF Placed, Entry
    <3> QED BY <1>3, <3>2 DEF LiveEngine
  <2> QED
    BY <1>1, <1>2, <1>3, <1>4, <1>5, <2>1, CallFacts DEF Proper, Saving, Rewrites, processVars
<1> QED
  BY <1>1, <1>2, <1>3, <1>4, <1>5, <1>6, <1>7, <1>8, CallMoves
     DEF Apart, Saving, Busy, processVars

\* The invocation ends.
LEMMA EngineResolvesKeeps ==
    ASSUME IInv, NEW c \in Calls, EngineResolves(c)
    PROVE  IInv'
<1>1. Busy(c) /\ call[c].pc = "resolving"
  BY DEF EngineResolves, Busy
<1>2. PICK x : x = Of(c)
  OBVIOUS
<1>3. /\ call' \in [Calls -> CallRecords] /\ call'[c] = IdleCall
      /\ \A d \in Calls : d # c => call'[d] = call[d]
  BY <1>1, CallFacts, IdleRecord DEF EngineResolves, TypeOK, CallRecords
<1>4. cancelled' = cancelled \ {c} /\ UNCHANGED <<row, phase, restarts, boot, stop, begun>>
  BY DEF EngineResolves
<1>5. /\ active' \in [Executions -> Entries] /\ active'[x] = NoEntry
      /\ \A e \in Executions : e # x => active'[e] = active[e]
  BY <1>1, <1>2, CallFacts, EntryRemoved DEF EngineResolves, Of
<1>6. /\ writes' \subseteq Hooks
      /\ writes' = writes \/ \E w : w.id = x /\ writes' = writes \cup {w}
  <2>1. HookWrite(x, "error", call[c].mode) \in Hooks
        /\ HookWrite(x, "error", call[c].mode).id = x
    BY <1>1, <1>2, CallFacts DEF HookWrite, Hooks
  <2> QED
    BY <1>1, <1>2, <2>1, CallFacts DEF EngineResolves, TypeOK, Hooks, Of
<1>7. TypeOK'
  <2>1. eventLog' \in [Executions -> [events : {"none", "started", "nodes"}, old : BOOLEAN]]
    BY <1>1, CallFacts, LogTypes DEF EngineResolves, Of, TypeOK
  <2> QED
    BY <1>1, <1>3, <1>4, <1>5, <1>6, <2>1, CallFacts
       DEF TypeOK, CallRecords, Entries, Hooks
<1>8. Proper(c)'
  BY <1>3, IdleRecord DEF Proper, Busy
<1>9. row'[x].status # "running" \/ Saving(x)'
  BY <1>1, <1>2, <1>4, <1>6, CallFacts DEF Proper, Saving
<1>10. \A e \in Executions : e # x => Apart(e)
  BY <1>4, <1>5, <1>6 DEF Apart, Saving
<1> QED
  BY <1>1, <1>2, <1>3, <1>4, <1>5, <1>7, <1>8, <1>9, <1>10, CallFacts, CallMoves
     DEF Rewrites

-------------------------------------------------------------------------------
(***************************************************************************)
(* An invocation begins.                                                   *)
(***************************************************************************)
LEMMA CallArrives ==
    ASSUME IInv, NEW c \in Calls, Idle(c), NEW x \in Executions, TypeOK',
           \A d \in Calls : Busy(d) => Of(d) # x,
           phase \in {"down", "listening", "recovered"} => row'[x].status # "new",
           call'[c].pc \in {"inserting", "throttled"}, Of(c)' = x, call'[c].mode \in CC!Modes,
           \A d \in Calls : d # c => call'[d] = call[d],
           \A e \in Executions : e # x => row'[e] = row[e],
           row'[x] # Store!NotInserted, row'[x].status # "running" \/ row'[x] = row[x],
           boot' \subseteq boot, x \notin boot', x \notin begun,
           UNCHANGED <<phase, restarts, active, cancelled, writes, begun>>
    PROVE  IInv'
<1>1. call[c] = IdleCall /\ c \notin cancelled /\ Busy(c)'
  BY DEF IInv, Tidy, Idle, Busy
<1>2. active[x] = NoEntry
  BY DEF IInv, Known
<1>3. Tidy' /\ Alone' /\ Booting'
  <2>1. Tidy' /\ Alone'
    BY <1>1 DEF IInv, Tidy, Alone, Busy, Of
  <2>2. ASSUME NEW d \in Calls, Busy(d)',
               phase \in {"down", "listening", "recovered"}
        PROVE  (row[Of(d)].status # "new")'
    <3>1. CASE d = c
      BY <2>2, <3>1 DEF Of
    <3>2. CASE d # c
      <4>1. Busy(d) /\ Of(d)' = Of(d) /\ Of(d) \in Executions /\ Of(d) # x
        BY <2>2, <3>2 DEF IInv, Tidy, Busy, Of, IdleCall
      <4> QED BY <2>2, <4>1 DEF IInv, Booting
    <3> QED BY <3>1, <3>2
  <2>3. ASSUME NEW w \in writes, phase \in {"down", "listening", "recovered"}
        PROVE  row'[w.id].status # "new"
    <3>1. w.id \in Executions
      BY DEF IInv, TypeOK
    <3> QED BY <2>3, <3>1 DEF IInv, Booting
  <2>4. Booting'
    BY <2>2, <2>3 DEF IInv, Booting
  <2> QED BY <2>1, <2>4
<1>4. ASSUME NEW d \in Calls
      PROVE  Proper(d)'
  <2>1. CASE d # c
    <3>1. Busy(d) => Of(d) \in Executions /\ Of(d) # x
      BY DEF IInv, Tidy, Busy, IdleCall
    <3>2. Busy(d) => Apart(Of(d))
      BY <2>1, <3>1 DEF Apart, Saving, Of
    <3> QED BY <2>1, <3>2, OthersProper DEF IInv
  <2>2. CASE d = c
    BY <1>1, <1>2, <2>2 DEF Proper, Placed
  <2> QED BY <2>1, <2>2
<1>5. ASSUME NEW e \in Executions
      PROVE  Known(e)'
  <2>1. Known(e) /\ (Saving(e)' <=> Saving(e))
    BY DEF IInv, Saving
  <2>2. \A d \in Calls : Busy(d) => d # c /\ Busy(d)' /\ Of(d)' = Of(d)
    BY <1>1 DEF Idle, Busy, Of
  <2>3. CASE e # x
    BY <2>1, <2>2, <2>3 DEF Known, Cared
  <2>4. CASE e = x
    BY <1>1, <1>2, <2>1, <2>4 DEF Known, Cared
  <2> QED BY <2>3, <2>4
<1> QED BY <1>3, <1>4, <1>5 DEF IInv

\* An execution is requested.
LEMMA CreateKeeps ==
    ASSUME OrderlyBoot, IInv, NEW c \in Calls, NEW e \in Executions, Create(c, e)
    PROVE  IInv'
<1> DEFINE k == [IdleCall EXCEPT !.pc = "inserting", !.id = e, !.mode = ModeOf[e]]
<1>1. ModeOf[e] \in CC!Modes /\ Idle(c) /\ row[e] = Store!NotInserted
  BY ModesAssumption DEF Create
<1>2. phase \notin {"down", "listening", "recovered"}
  BY DEF Create, OrderlyBoot, Alive
<1>3. k \in CallRecords /\ k.pc = "inserting" /\ k.id = e /\ k.mode = ModeOf[e]
  BY <1>1 DEF IdleCall, CallRecords, CallPcs
<1>4. call' = [call EXCEPT ![c] = k]
  BY DEF Create
<1> HIDE DEF k
<1>5. /\ call' \in [Calls -> CallRecords] /\ call'[c] = k
      /\ \A d \in Calls : d # c => call'[d] = call[d]
  BY <1>3, <1>4 DEF IInv, TypeOK, CallRecords
<1>6. /\ row' \in [Executions -> AllRows]
      /\ row'[e] # Store!NotInserted /\ row'[e].status # "running"
      /\ \A f \in Executions : f # e => row'[f] = row[f]
  BY <1>1, InsertedRow, RowKinds DEF Create, IInv, TypeOK, AllRows, Vanished
<1>7. UNCHANGED <<processVars, active, cancelled, writes, stop, begun>>
  BY DEF Create
<1>8. TypeOK'
  BY <1>5, <1>6, <1>7 DEF IInv, TypeOK, CallRecords, AllRows, processVars
<1>9. ~Store!Exists(row[e])
  BY <1>1, RowKinds DEF Vanished, IInv, TypeOK, AllRows
<1>10. e \notin boot /\ e \notin begun /\ \A d \in Calls : Busy(d) => Of(d) # e
  BY <1>1, <1>9 DEF IInv, Known, Proper
<1> QED
  BY <1>1, <1>2, <1>3, <1>5, <1>6, <1>7, <1>8, <1>10, CallArrives DEF Of, processVars

\* An enqueued execution is run after a restart.
LEMMA RunEnqueuedKeeps ==
    ASSUME IInv, NEW c \in Calls, RunEnqueued(c)
    PROVE  IInv'
<1>1. PICK e \in boot :
         /\ boot' = boot \ {e}
         /\ LogEvent(e, "none")
         /\ ThrottleKnown(c, e, row[e].mode)
  BY DEF RunEnqueued
<1> DEFINE k == [IdleCall EXCEPT !.pc = "throttled", !.id = e, !.mode = row[e].mode,
                                 !.resumed = TRUE]
<1>2. e \in Executions /\ Known(e) /\ TypeOK /\ Booting
  BY <1>1 DEF IInv, TypeOK
<1>3. phase \notin {"down", "listening", "recovered"}
  BY <1>1, <1>2 DEF Booting
<1>4. row[e] \in Stored /\ row[e] # Store!NotInserted
  BY <1>1, <1>2, RowKinds DEF Known, TypeOK, AllRows, Vanished
<1>5. row[e].mode \in CC!Modes
  BY <1>4 DEF Stored
<1>6. k \in CallRecords /\ k.pc = "throttled" /\ k.id = e /\ k.mode = row[e].mode
  BY <1>2, <1>5 DEF IdleCall, CallRecords, CallPcs
<1>7. call' = [call EXCEPT ![c] = k] /\ Idle(c)
  BY <1>1 DEF ThrottleKnown, RunEnqueued
<1> HIDE DEF k
<1>8. /\ call' \in [Calls -> CallRecords] /\ call'[c] = k
      /\ \A d \in Calls : d # c => call'[d] = call[d]
  BY <1>2, <1>6, <1>7 DEF TypeOK, CallRecords
<1>9. UNCHANGED <<row, phase, restarts, active, cancelled, writes, stop, begun>>
  BY DEF RunEnqueued
<1>10. TypeOK'
  <2>1. eventLog' \in [Executions -> [events : {"none", "started", "nodes"}, old : BOOLEAN]]
    BY <1>1, <1>2, LogTypes
  <2> QED BY <1>1, <1>2, <1>8, <1>9, <2>1 DEF TypeOK, CallRecords
<1>11. e \notin begun /\ \A d \in Calls : Busy(d) => Of(d) # e
  BY <1>1, <1>2 DEF IInv, Known, Proper
<1> QED
  BY <1>1, <1>2, <1>3, <1>4, <1>5, <1>6, <1>7, <1>8, <1>9, <1>10, <1>11, CallArrives DEF Of

-------------------------------------------------------------------------------
(***************************************************************************)
(* A row is written by a save that nothing waits for, or by a stop.        *)
(***************************************************************************)
LEMMA RowRewritten ==
    ASSUME IInv, NEW x \in Executions, TypeOK',
           Rewrites(row[x], row'[x]), row'[x].status # "running",
           x \in boot => Store!Exists(row'[x]),
           \A e \in Executions : e # x => row'[e] = row[e] /\ (Saving(e)' <=> Saving(e)),
           Saving(x)' => Saving(x),
           UNCHANGED <<phase, restarts, boot, call, active, cancelled, begun>>
    PROVE  IInv'
<1>1. Tidy' /\ Alone'
  BY DEF IInv, Tidy, Alone, Busy, Of
<1>2. ASSUME NEW d \in Calls
      PROVE  Proper(d)'
  <2>1. Proper(d) /\ (Busy(d) => Of(d) \in Executions)
    BY DEF IInv, Tidy, Busy, IdleCall
  <2>2. CASE Of(d) = x
    BY <2>1, <2>2 DEF Proper, Placed, Entry, Busy, Of, LiveEngine, Rewrites
  <2>3. CASE Of(d) # x
    <3>1. Busy(d) => Apart(Of(d))
      BY <2>1, <2>3 DEF Apart, Of
    <3> QED BY <2>1, <3>1, OthersProper
  <2> QED BY <2>2, <2>3
<1>3. ASSUME NEW e \in Executions
      PROVE  Known(e)'
  <2>1. Known(e) /\ ((\E c \in Calls : Busy(c) /\ Of(c) = e)'
                       <=> \E c \in Calls : Busy(c) /\ Of(c) = e)
    BY DEF IInv, Busy, Of
  <2> QED BY <2>1 DEF Known, Cared, Rewrites
<1>4. Booting'
  <2>1. \A e \in Executions : row[e].status # "new" => row'[e].status # "new"
    BY DEF Rewrites
  <2>2. \A d \in Calls : Busy(d)' => Busy(d) /\ Of(d)' = Of(d) /\ Of(d) \in Executions
    BY DEF IInv, Tidy, Busy, Of, IdleCall
  <2>3. ASSUME NEW w \in writes'
        PROVE  w.id \in Executions /\ Saving(w.id)
    <3>1. w.id \in Executions
      BY DEF TypeOK
    <3>2. Saving(w.id)'
      BY DEF Saving
    <3> QED BY <3>1, <3>2
  <2>4. ASSUME phase \in {"down", "listening", "recovered"}
        PROVE  /\ \A d \in Calls : (Busy(d) => row[Of(d)].status # "new")'
               /\ \A w \in writes' : row'[w.id].status # "new"
    BY <2>1, <2>2, <2>3, <2>4 DEF IInv, Booting, Saving
  <2> QED BY <2>4 DEF IInv, Booting
<1> QED BY <1>1, <1>2, <1>3, <1>4 DEF IInv

LEMMA HookSavesKeeps ==
    ASSUME IInv, NEW w \in writes, HookSaves(w)
    PROVE  IInv'
<1>1. w \in Hooks /\ TypeOK
  BY DEF IInv, TypeOK, Hooks
<1>2. PICK x \in Executions : x = w.id
  BY <1>1 DEF Hooks
<1>3. UNCHANGED <<processVars, call, active, cancelled, stop, begun>> /\ writes' = writes \ {w}
  BY DEF HookSaves
<1>4. /\ row' \in [Executions -> AllRows] /\ Rewrites(row[x], row'[x])
      /\ row'[x].status # "running"
      /\ \A e \in Executions : e # x => row'[e] = row[e]
  <2>1. w.status \in Store!Statuses \ {"new", "running"} /\ w.mode \in CC!Modes
    BY <1>1 DEF Hooks, Store!Statuses
  <2> QED
    BY <1>1, <1>2, <2>1, SavedRow DEF HookSaves, TypeOK, Rewrites, AllRows
<1>5. x \notin boot
  BY <1>2 DEF IInv, Known, Saving
<1>6. TypeOK'
  BY <1>1, <1>3, <1>4 DEF TypeOK, AllRows, processVars
<1> QED
  BY <1>2, <1>3, <1>4, <1>5, <1>6, RowRewritten DEF Saving, processVars

StopTypes == [Executions -> [pc : StopPcs, mode : CC!Modes \cup {"none"}]]

LEMMA StopStoredKeeps ==
    ASSUME IInv, NEW x \in Executions, StopStored(x)
    PROVE  IInv'
<1>1. TypeOK /\ Known(x)
  BY DEF IInv
<1>2. UNCHANGED <<processVars, call, active, cancelled, writes, begun>>
  BY DEF StopStored
<1>3. "canceled" \in Store!Statuses
  BY DEF Store!Statuses
<1>4. /\ row' \in [Executions -> AllRows] /\ Rewrites(row[x], row'[x])
      /\ row'[x].status # "running" /\ (Store!Exists(row[x]) => Store!Exists(row'[x]))
      /\ \A e \in Executions : e # x => row'[e] = row[e]
  <2>1. CASE row' = [row EXCEPT ![x] = Store!WithStatus(@, "canceled")]
    <3>1. row[x] \in AllRows /\ row'[x] = Store!WithStatus(row[x], "canceled")
      BY <1>1, <2>1 DEF TypeOK, AllRows
    <3>2. Rewrites(row[x], row'[x]) /\ row'[x].status # "running"
          /\ (Store!Exists(row[x]) => Store!Exists(row'[x]))
      BY <1>3, <3>1, StatusRow
    <3> QED BY <1>1, <2>1, <3>2 DEF TypeOK, Rewrites, AllRows
  <2>2. CASE row' = [row EXCEPT ![x] = Store!StoppedDuringRun(@)]
    <3>1. row[x] \in AllRows /\ row'[x] = Store!StoppedDuringRun(row[x])
      BY <1>1, <2>2 DEF TypeOK, AllRows
    <3>2. Rewrites(row[x], row'[x]) /\ row'[x].status # "running"
          /\ (Store!Exists(row[x]) => Store!Exists(row'[x]))
      BY <3>1, StoppedRow
    <3> QED BY <1>1, <2>2, <3>2 DEF TypeOK, Rewrites, AllRows
  <2> QED BY <2>1, <2>2 DEF StopStored, Store!StoppedBeforeRun
<1>5. stop' \in StopTypes
  BY <1>1 DEF StopStored, TypeOK, StopTypes, StopPcs
<1>6. TypeOK'
  BY <1>1, <1>2, <1>4, <1>5 DEF TypeOK, StopTypes, AllRows, processVars
<1> QED
  BY <1>1, <1>2, <1>4, <1>6, RowRewritten DEF Known, Saving, processVars

-------------------------------------------------------------------------------
(***************************************************************************)
(* Requests to stop, and timeouts.                                         *)
(***************************************************************************)

\* Most steps of a request leave alone what the invariant speaks of.
LEMMA StopOnly ==
    ASSUME IInv, stop' \in StopTypes,
           UNCHANGED <<row, processVars, call, active, cancelled, writes, begun>>
    PROVE  IInv'
BY DEF IInv, TypeOK, StopTypes, Tidy, Alone, Booting, Proper, Placed, Known, Cared, Saving,
       Busy, Of, Entry, LiveEngine, processVars

LEMMA StopRequestKeeps ==
    ASSUME IInv, NEW e \in Executions,
           StopRequested(e) \/ StopEnqueued(e) \/ StopFails(e) \/ StopUnknown(e)
    PROVE  IInv'
<1>1. UNCHANGED <<row, processVars, call, active, cancelled, writes, begun>>
  BY DEF StopRequested, StopEnqueued, StopFails, StopUnknown
<1>2. row[e] \in AllRows /\ stop \in StopTypes
  BY DEF IInv, TypeOK, AllRows, StopTypes
<1>3. CASE StopRequested(e)
  <2>1. row[e].mode \in CC!Modes \cup {"none"}
    BY <1>2, RowKinds
       DEF Stored, Vanished, Store!NotInserted, Store!Deleted, Store!Absent
  <2>2. [pc |-> "read", mode |-> row[e].mode] \in [pc : StopPcs, mode : CC!Modes \cup {"none"}]
    BY <2>1 DEF StopPcs
  <2>3. stop' \in StopTypes
    BY <1>2, <1>3, <2>2 DEF StopRequested, StopTypes
  <2> QED BY <1>1, <2>3, StopOnly
<1>4. CASE StopEnqueued(e) \/ StopFails(e) \/ StopUnknown(e)
  <2>1. stop' \in StopTypes
    BY <1>2, <1>4 DEF StopEnqueued, StopFails, StopUnknown, StopTypes, StopPcs
  <2> QED BY <1>1, <2>1, StopOnly
<1> QED BY <1>3, <1>4

\* An engine that is attached has not been cancelled, and is when it is stopped.
LEMMA EngineStopped ==
    ASSUME IInv, NEW x \in Executions, Attached(x), StopExecution(x)
    PROVE  \E c \in Calls :
              /\ Busy(c) /\ Of(c) = x /\ Engine(x) = c /\ LiveEngine(c)
              /\ active' \in [Executions -> Entries] /\ active'[x] = NoEntry
              /\ \A e \in Executions : e # x => active'[e] = active[e]
              /\ cancelled' = cancelled \cup {c}
              /\ writes' = writes \cup {HookWrite(x, "canceled", call[c].mode)}
              /\ HookWrite(x, "canceled", call[c].mode) \in Hooks
<1>1. PICK c \in Calls : Busy(c) /\ Of(c) = x
  BY DEF IInv, Known, Attached
<1>2. Placed(c) /\ active[x] # NoEntry /\ active[x].workflowExecution # NoCall
  BY <1>1, CallFacts DEF Attached
<1>3. /\ call[c].pc \in {"executing", "saving", "resolving"}
      /\ c \notin cancelled /\ active[x] = Entry(c, c)
  BY <1>1, <1>2 DEF Placed, Entry
<1>4. Engine(x) = c /\ Cancellable(c)
  BY <1>3 DEF Engine, Entry, Cancellable
<1>5. /\ cancelled' = cancelled \cup {c}
      /\ writes' = writes \cup {HookWrite(x, "canceled", call[c].mode)}
  BY <1>4 DEF StopExecution
<1>6. /\ active' \in [Executions -> Entries] /\ active'[x] = NoEntry
      /\ \A e \in Executions : e # x => active'[e] = active[e]
  BY EntryRemoved DEF IInv, StopExecution
<1>7. HookWrite(x, "canceled", call[c].mode) \in Hooks
  BY <1>1, CallFacts DEF HookWrite, Hooks
<1> QED
  BY <1>1, <1>3, <1>4, <1>5, <1>6, <1>7 DEF LiveEngine

\* A timeout changes the timer of the invocation, a request changes nothing of it.
LEMMA StopExecutionKeeps ==
    ASSUME IInv, NEW x \in Executions, Attached(x), StopExecution(x),
           call' \in [Calls -> CallRecords], stop' \in StopTypes,
           UNCHANGED <<row, processVars, begun>>,
           \A d \in Calls :
              \/ call'[d] = call[d]
              \/ /\ Busy(d) /\ call'[d].pc = call[d].pc /\ call'[d].id = call[d].id
                 /\ call'[d].mode = call[d].mode /\ call'[d].outcome = call[d].outcome
    PROVE  IInv'
<1>1. PICK c \in Calls :
         /\ Busy(c) /\ Of(c) = x /\ Engine(x) = c /\ LiveEngine(c)
         /\ active' \in [Executions -> Entries] /\ active'[x] = NoEntry
         /\ \A e \in Executions : e # x => active'[e] = active[e]
         /\ cancelled' = cancelled \cup {c}
         /\ writes' = writes \cup {HookWrite(x, "canceled", call[c].mode)}
         /\ HookWrite(x, "canceled", call[c].mode) \in Hooks
  BY EngineStopped
<1>2. TypeOK'
  BY <1>1 DEF IInv, TypeOK, CallRecords, Entries, Hooks, StopTypes, processVars
<1>3. \A d \in Calls : /\ Busy(d)' <=> Busy(d)
                       /\ Of(d)' = Of(d) /\ call'[d].mode = call[d].mode
                       /\ call'[d].pc = call[d].pc /\ call'[d].outcome = call[d].outcome
  BY DEF Busy, Of
<1>4. Tidy' /\ Alone' /\ Booting'
  <2>1. Tidy'
    <3>1. \A d \in Calls : ~Busy(d) => call'[d] = call[d] /\ d # c
      BY <1>1
    <3> SUFFICES ASSUME NEW d \in Calls
                 PROVE  \/ call'[d] = IdleCall /\ d \notin cancelled'
                        \/ Busy(d)' /\ Of(d)' \in Executions /\ call'[d].mode \in CC!Modes
      BY DEF Tidy
    <3>2. CASE Busy(d)
      BY <1>3, <3>2, CallFacts
    <3>3. CASE ~Busy(d)
      BY <1>1, <3>1, <3>3 DEF IInv, Tidy
    <3> QED BY <3>2, <3>3
  <2>2. Alone'
    BY <1>3 DEF IInv, Alone
  <2>3. Booting'
    BY <1>1, <1>3 DEF IInv, Booting, processVars, HookWrite
  <2> QED BY <2>1, <2>2, <2>3
<1>5. /\ \A e : Saving(e) => Saving(e)'
      /\ Saving(x)'
      /\ \A e : e # x => (Saving(e)' <=> Saving(e))
  BY <1>1 DEF Saving, HookWrite
<1>6. ASSUME NEW d \in Calls, Busy(d)
      PROVE  Proper(d)'
  <2>1. Proper(d) /\ Placed(d) /\ Of(d) \in Executions /\ (d # c => Of(d) # x)
    BY <1>1, <1>6, CallFacts DEF IInv, Alone
  <2>2. Placed(d)'
    <3>1. CASE d = c
      BY <1>1, <1>3, <2>1, <3>1 DEF Placed, LiveEngine
    <3>2. CASE d # c
      BY <1>1, <1>3, <2>1, <3>2 DEF Placed, Entry
    <3> QED BY <3>1, <3>2
  <2> QED
    BY <1>1, <1>3, <1>5, <1>6, <2>1, <2>2 DEF Proper, LiveEngine, processVars
<1>7. ASSUME NEW e \in Executions
      PROVE  Known(e)'
  <2>1. x \notin boot
    BY <1>1, CallFacts DEF Proper
  <2> QED
    BY <1>1, <1>3, <1>5, <2>1 DEF IInv, Known, Cared, processVars
<1> QED BY <1>2, <1>3, <1>4, <1>6, <1>7 DEF IInv, Proper

LEMMA TimeoutKeeps ==
    ASSUME IInv, NEW c \in Calls, TimeoutFires(c)
    PROVE  IInv'
<1>1. Busy(c)
  BY IdleRecord DEF TimeoutFires, IInv, Tidy
<1>2. /\ call' \in [Calls -> CallRecords]
      /\ call'[c].pc = call[c].pc /\ call'[c].id = call[c].id
      /\ call'[c].mode = call[c].mode /\ call'[c].outcome = call[c].outcome
      /\ \A d \in Calls : d # c => call'[d] = call[d]
  <2>1. call \in [Calls -> CallRecords]
    BY DEF IInv, TypeOK, CallRecords
  <2>2. call' = [call EXCEPT ![c] = [call[c] EXCEPT !.timer = FALSE]]
    BY DEF TimeoutFires
  <2>3. call[c] \in CallRecords
    BY <2>1
  <2>4. [call[c] EXCEPT !.timer = FALSE] \in CallRecords
    BY <2>3 DEF CallRecords
  <2>5. call'[c] = [call[c] EXCEPT !.timer = FALSE]
    BY <2>1, <2>2
  <2>6. call' \in [Calls -> CallRecords]
    BY <2>1, <2>2, <2>4
  <2>7. \A d \in Calls : d # c => call'[d] = call[d]
    BY <2>1, <2>2
  <2>8. /\ call'[c].pc = call[c].pc /\ call'[c].id = call[c].id
        /\ call'[c].mode = call[c].mode /\ call'[c].outcome = call[c].outcome
    BY <2>3, <2>5 DEF CallRecords
  <2> QED BY <2>6, <2>7, <2>8
<1>3. Of(c) \in Executions /\ Attached(Of(c)) /\ StopExecution(Of(c))
  BY <1>1, CallFacts DEF TimeoutFires, Of
<1>4. UNCHANGED <<row, processVars, stop, begun>> /\ stop' \in StopTypes
  BY DEF TimeoutFires, IInv, TypeOK, StopTypes
<1> QED
  BY <1>1, <1>2, <1>3, <1>4, StopExecutionKeeps

LEMMA StopActiveKeeps ==
    ASSUME IInv, NEW e \in Executions, StopActive(e)
    PROVE  IInv'
<1>1. Attached(e) /\ StopExecution(e) /\ UNCHANGED <<row, processVars, call, begun>>
  BY DEF StopActive
<1>2. stop' \in StopTypes /\ call' \in [Calls -> CallRecords]
  BY <1>1 DEF StopActive, IInv, TypeOK, StopTypes, StopPcs, CallRecords
<1> QED
  BY <1>1, <1>2, StopExecutionKeeps

-------------------------------------------------------------------------------
(***************************************************************************)
(* The process goes down and comes up again.                               *)
(***************************************************************************)
LEMMA ShutdownKeeps ==
    ASSUME IInv, BeginShutdown
    PROVE  IInv'
BY DEF BeginShutdown, IInv, TypeOK, Tidy, Alone, Booting, Proper, Placed, Known, Cared,
       Saving, Busy, Of, Entry, LiveEngine

LEMMA GoDownKeeps ==
    ASSUME IInv, Exit \/ Crash
    PROVE  IInv'
<1>1. restarts < MaxRestarts /\ GoDown
  BY DEF Exit, Crash, IInv, Booting
<1>2. \A c \in Calls : call'[c] = IdleCall /\ ~Busy(c)' /\ c \notin cancelled'
  BY <1>1, IdleRecord DEF GoDown, Busy
<1>3. TypeOK'
  <2>1. stop' \in StopTypes
    BY <1>1 DEF GoDown, IdleStop, IInv, TypeOK, StopTypes, StopPcs
  <2>2. call' \in [Calls -> CallRecords] /\ active' \in [Executions -> Entries]
    BY <1>1, IdleRecord DEF GoDown, Entries
  <2>3. restarts' \in 0..MaxRestarts
    BY <1>1, MaxRestartsAssumption DEF GoDown, IInv, TypeOK
  <2> QED
    BY <1>1, <2>1, <2>2, <2>3
       DEF GoDown, IInv, TypeOK, StopTypes, CallRecords, Entries
<1>4. Tidy' /\ Alone' /\ Booting' /\ \A c \in Calls : Proper(c)'
  BY <1>1, <1>2 DEF GoDown, Tidy, Alone, Booting, Proper, Busy
<1>5. \A e \in Executions : Known(e)'
  BY <1>1 DEF GoDown, IInv, Known, Cared
<1> QED BY <1>3, <1>4, <1>5 DEF IInv

LEMMA ListenKeeps ==
    ASSUME IInv, Listen
    PROVE  IInv'
BY DEF Listen, IInv, TypeOK, Tidy, Alone, Booting, Proper, Placed, Known, Cared,
       Saving, Busy, Of, Entry, LiveEngine

\* Recovery leaves rows that are not new, and with simple recovery not running.
LEMMA RecoveredRow ==
    ASSUME TypeOK, NEW e \in Executions
    PROVE  /\ Rewrites(row[e], Recovered(e))
           /\ Recovered(e).status = "running" => ~SimpleRecovery /\ row[e].status = "running"
<1>1. /\ row[e] \in AllRows
      /\ eventLog[e].events \in {"none", "started", "nodes"}
      /\ Rewrites(row[e], row[e])
  BY DEF TypeOK, AllRows, Rewrites
<1>2. "crashed" \in Store!Statuses /\ "waiting" \in Store!Statuses /\ "error" \in Store!Statuses
  BY DEF Store!Statuses
<1>3. CASE RecoveryMode = "simple"
  <2>1. Recovered(e) = Store!WithStatus(row[e], "crashed")
    BY <1>3 DEF Recovered
  <2> QED BY <1>1, <1>2, <2>1, StatusRow
<1>4. CASE RecoveryMode # "simple"
  <2>1. ASSUME NEW status \in {"crashed", "waiting", "error"}
        PROVE  Rewrites(row[e], Store!Saved(row[e], status, row[e].mode))
               /\ (Store!Saved(row[e], status, row[e].mode).status = "running"
                     => row[e].status = "running")
    <3>1. CASE Store!Exists(row[e])
      BY <1>1, <1>2, <3>1, SavedRow, RowKinds DEF Stored
    <3>2. CASE ~Store!Exists(row[e])
      BY <1>1, <3>2 DEF Store!Saved
    <3> QED BY <3>1, <3>2
  <2>2. /\ Rewrites(row[e], Amended(row[e]))
        /\ Amended(row[e]).status = "running" => row[e].status = "running"
    BY <1>1, <2>1 DEF Amended
  <2> QED
    BY <1>1, <1>4, <2>1, <2>2 DEF Recovered, SimpleRecovery
<1> QED BY <1>3, <1>4

LEMMA RecoverKeeps ==
    ASSUME IInv, Recover
    PROVE  IInv'
<1>1. TypeOK /\ phase = "listening"
  BY DEF IInv, Recover
<1>2. UNCHANGED <<restarts, boot, call, active, cancelled, writes, stop, begun>>
      /\ phase' = "recovered"
  BY DEF Recover
<1>3. ASSUME NEW e \in Executions
      PROVE  /\ Rewrites(row[e], row'[e])
             /\ row'[e].status = "running" => row[e].status = "running"
             /\ SimpleRecovery => row'[e].status # "running"
  <2>1. row'[e] = IF Unfinished(e) THEN Recovered(e) ELSE row[e]
    BY DEF Recover
  <2>2. Rewrites(row[e], row[e])
    BY <1>1 DEF Rewrites, TypeOK, AllRows
  <2> QED BY <1>1, <2>1, <2>2, RecoveredRow DEF Unfinished
<1>4. row' \in [Executions -> AllRows]
  BY <1>3 DEF Recover, Rewrites
<1>5. eventLog' \in [Executions -> [events : {"none", "started", "nodes"}, old : BOOLEAN]]
  BY <1>1 DEF Recover, TypeOK, NoEvents
<1>6. TypeOK'
  BY <1>1, <1>2, <1>4, <1>5 DEF TypeOK, AllRows
<1>7. Tidy' /\ Alone'
  BY <1>2 DEF IInv, Tidy, Alone, Busy, Of
<1>8. Booting'
  <2>1. \A c \in Calls : Busy(c)' => Busy(c) /\ Of(c)' = Of(c) /\ Of(c) \in Executions
    BY <1>2 DEF IInv, Tidy, Busy, Of, IdleCall
  <2>2. \A w \in writes : w.id \in Executions
    BY <1>1 DEF TypeOK
  <2> QED BY <1>1, <1>2, <1>3, <2>1, <2>2 DEF IInv, Booting, Rewrites
<1>9. ASSUME NEW c \in Calls, Busy(c)
      PROVE  Proper(c)'
  <2>1. Of(c) \in Executions /\ Proper(c)
    BY <1>9 DEF IInv, Tidy, Busy, IdleCall
  <2>2. Placed(c)' /\ (LiveEngine(c)' <=> LiveEngine(c)) /\ (Saving(Of(c))' <=> Saving(Of(c)))
    BY <1>2, <1>9, <2>1 DEF Proper, Placed, LiveEngine, Saving, Of, Entry
  <2> QED BY <1>2, <1>3, <1>9, <2>1, <2>2 DEF Proper, Rewrites, Of
<1>10. \A e \in Executions : Known(e)'
  <2>1. \A e \in Executions :
           (\E c \in Calls : Busy(c) /\ Of(c) = e)' <=> \E c \in Calls : Busy(c) /\ Of(c) = e
    BY <1>2 DEF Busy, Of
  <2>2. boot = {}
    BY <1>1 DEF IInv, Booting
  <2> QED BY <1>2, <1>3, <2>1, <2>2 DEF IInv, Known, Cared, Rewrites
<1> QED BY <1>2, <1>6, <1>7, <1>8, <1>9, <1>10 DEF IInv, Proper, Busy

LEMMA ReadEnqueuedKeeps ==
    ASSUME IInv, ReadEnqueued
    PROVE  IInv'
<1>1. /\ phase = "recovered" /\ phase' = "up"
      /\ boot' = { e \in Executions : row[e].status = "new" /\ row[e].data # "missing" }
      /\ UNCHANGED <<row, restarts, eventLog, call, active, cancelled, writes, stop, begun>>
  BY DEF ReadEnqueued
<1>2. /\ \A c \in Calls : Busy(c) => Of(c) \notin boot'
      /\ \A e \in boot' : ~Saving(e)
  BY <1>1 DEF IInv, Booting, Saving
<1>3. TypeOK' /\ Tidy' /\ Alone' /\ Booting'
  BY <1>1 DEF IInv, TypeOK, Tidy, Alone, Booting, Busy, Of
<1>4. ASSUME NEW c \in Calls
      PROVE  Proper(c)'
  <2>1. Proper(c)
    BY DEF IInv
  <2> QED BY <1>1, <1>2, <2>1 DEF Proper, Placed, Busy, Of, LiveEngine, Saving, Entry
<1>5. ASSUME NEW e \in Executions
      PROVE  Known(e)'
  <2>1. Known(e) /\ (Saving(e)' <=> Saving(e))
        /\ ((\E c \in Calls : Busy(c) /\ Of(c) = e)' <=> \E c \in Calls : Busy(c) /\ Of(c) = e)
    BY <1>1 DEF IInv, Saving, Busy, Of
  <2>2. e \in boot' => row[e].status = "new" /\ Store!Exists(row[e])
    BY <1>1 DEF Store!Exists, Store!Statuses
  <2>3. Cared(e)'
    BY <1>1, <2>1 DEF Known, Cared
  <2> QED
    BY <1>1, <1>2, <2>1, <2>2, <2>3 DEF Known
<1> QED BY <1>3, <1>4, <1>5 DEF IInv

-------------------------------------------------------------------------------
(***************************************************************************)
(* The theorems.                                                           *)
(***************************************************************************)
LEMMA InitIInv == Init => IInv
<1> SUFFICES ASSUME Init
             PROVE  IInv
  OBVIOUS
<1>1. \A c \in Calls : call[c] = IdleCall /\ ~Busy(c)
  BY IdleRecord DEF Init, Busy
<1>2. TypeOK
  <2>1. row \in [Executions -> Store!Rows(CC!Modes)]
    BY DEF Init, Store!Rows
  <2>2. call \in [Calls -> CallRecords]
    BY IdleRecord DEF Init
  <2>3. eventLog \in [Executions -> [events : {"none", "started", "nodes"}, old : BOOLEAN]]
    BY DEF Init, NoEvents
  <2>4. stop \in StopTypes
    BY DEF Init, IdleStop, StopTypes, StopPcs
  <2> QED
    BY <2>1, <2>2, <2>3, <2>4, MaxRestartsAssumption
       DEF Init, TypeOK, CallRecords, StopTypes
<1>3. ~Store!Exists(Store!NotInserted) /\ Store!NotInserted.status \notin {"running", "new"}
  BY DEF Store!Exists, Store!NotInserted, Store!Absent, Store!Statuses
<1> QED
  BY <1>1, <1>2, <1>3 DEF Init, IInv, Tidy, Alone, Booting, Proper, Known, Cared

LEMMA NextIInv ==
    ASSUME OrderlyBoot, IInv, [Next]_vars
    PROVE  IInv'
<1>1. ASSUME NEW c \in Calls, NEW e \in Executions, Create(c, e)
      PROVE  IInv'
  BY <1>1, CreateKeeps
<1>2. ASSUME NEW c \in Calls, CallStep(c)
      PROVE  IInv'
  BY <1>2, InsertDataKeeps, ThrottleNewKeeps, RegisterKeeps, BeginUpdateKeeps,
     PermissionDeniedKeeps, RunMainProcessKeeps, NodeLoggedKeeps, EngineEndsKeeps,
     EngineSavesKeeps, EngineResolvesKeeps DEF CallStep
<1>3. ASSUME NEW e \in Executions, StopRequested(e) \/ StopStep(e)
      PROVE  IInv'
  BY <1>3, StopRequestKeeps, StopActiveKeeps, StopStoredKeeps DEF StopStep
<1>4. CASE UNCHANGED vars
  BY <1>4 DEF vars, IInv, TypeOK, Tidy, Alone, Booting, Proper, Placed, Known, Cared,
              Saving, Busy, Of, Entry, LiveEngine
<1> QED
  BY <1>1, <1>2, <1>3, <1>4, TimeoutKeeps, RunEnqueuedKeeps, HookSavesKeeps, ShutdownKeeps,
     GoDownKeeps, ListenKeeps, RecoverKeeps, ReadEnqueuedKeeps DEF Next

LEMMA AlwaysIInv ==
    ASSUME OrderlyBoot
    PROVE  Spec => []IInv
BY InitIInv, NextIInv, PTL DEF Spec

\* Every variable of the life of executions keeps its type.
THEOREM TypeCorrect ==
    ASSUME OrderlyBoot
    PROVE  Spec => []TypeOK
<1>1. IInv => TypeOK
  BY DEF IInv
<1> QED BY <1>1, AlwaysIInv, PTL

\* No execution is run by two engines at a time, whatever crashes, restarts, stops
\* and timeouts come between.
THEOREM EnginesApart ==
    ASSUME OrderlyBoot
    PROVE  Spec => []OneEngine
<1>1. IInv => OneEngine
  BY DEF IInv, Alone, OneEngine, LiveEngine, Busy, Of
<1> QED BY <1>1, AlwaysIInv, PTL

\* A stop request or a timeout finds the engine that runs.
THEOREM EnginesFound ==
    ASSUME OrderlyBoot
    PROVE  Spec => []EnginesStoppable
<1>1. IInv => EnginesStoppable
  <2> SUFFICES ASSUME IInv, NEW c \in Calls, LiveEngine(c), c \notin cancelled
               PROVE  active[call[c].id] # NoEntry /\ Engine(call[c].id) = c
    BY DEF EnginesStoppable
  <2>1. Busy(c)
    BY DEF LiveEngine, Busy
  <2>2. active[Of(c)] = Entry(c, c)
    BY <2>1, CallFacts DEF Placed, LiveEngine
  <2> QED
    BY <2>1, <2>2, CallFacts, EntryRecord DEF Engine, Of
<1> QED BY <1>1, AlwaysIInv, PTL

\* An engine starts once for an execution that does not pause, across any number of
\* crashes and restarts.
THEOREM BeginsOnce ==
    ASSUME OrderlyBoot
    PROVE  Spec => BegunOnce
<1>1. IInv /\ [Next]_vars => [\A e \in begun : ~Starts(e)]_vars
  <2> SUFFICES ASSUME IInv, NEW e \in begun, Starts(e)
               PROVE  FALSE
    OBVIOUS
  <2>1. PICK c \in Calls : call[c].id = e /\ call[c].pc = "starting"
    BY DEF Starts
  <2>2. Busy(c) /\ ~LiveEngine(c) /\ Of(c) = e
    BY <2>1 DEF Busy, LiveEngine, Of
  <2> QED BY <2>2, CallFacts DEF Proper
<1> QED BY <1>1, AlwaysIInv, PTL DEF Spec, BegunOnce

\* An execution that the database calls `running` is attended to, with simple recovery.
THEOREM EveryoneAttended ==
    ASSUME OrderlyBoot, SimpleRecovery
    PROVE  Spec => []NoZombies
<1>1. IInv => NoZombies
  BY DEF IInv, Known, Cared, NoZombies, Attended, Saving, Of
<1> QED BY <1>1, AlwaysIInv, PTL

-------------------------------------------------------------------------------
(***************************************************************************)
(* The line.  Who is in the queue waits for its promise, has one place     *)
(* there, and is subject to the limit.                                     *)
(***************************************************************************)
Waiting(item) ==
    /\ call[item.resolve].pc = "throttled" /\ Of(item.resolve) = item.executionId
    /\ item.resolve \notin settled
    /\ Limited(call[item.resolve].mode)

Line(items) ==
    /\ items \in Seq(CC!Item)
    /\ \A i, j \in 1..Len(items) : items[i].resolve = items[j].resolve => i = j
    /\ \A i \in 1..Len(items) : Waiting(items[i])

SInv == Line(queue) /\ SlotsMatchHolders

\* The invocations that are in throttle(), or past it with a slot and no entry.
Standing ==
    \A c \in Calls : \/ call[c].pc \in {"throttled", "updating"}
                     \/ call'[c].pc \in {"throttled", "updating"}
                     => call'[c] = call[c]

\* A slot is handed to one that waits, or is not used.
HandsOver(slots) ==
    \/ settled' = settled /\ inUse' = slots
    \/ \E d \in Calls :
          /\ call[d].pc = "throttled" /\ d \notin settled /\ Limited(call[d].mode)
          /\ settled' = settled \cup {d} /\ inUse' = slots + 1

LEMMA NextServed ==
    ASSUME NEW items, Line(items), NEW slots, CC!ResolveNext(items, slots), Standing
    PROVE  /\ Line(queue)'
           /\ HandsOver(slots)
           /\ \A i \in 1..Len(queue') : \E j \in 1..Len(items) : queue'[i] = items[j]
<1>1. CASE items = <<>>
  <2>1. queue' = <<>> /\ inUse' = slots /\ settled' = settled
    BY <1>1 DEF CC!ResolveNext
  <2>2. queue' \in Seq(CC!Item) /\ Len(queue') = 0 /\ 1..Len(queue') = {}
    BY <2>1, EmptySeq
  <2> QED BY <2>1, <2>2 DEF Line, HandsOver
<1>2. CASE items # <<>>
  <2>1. /\ queue' = Tail(items) /\ settled' = settled \cup {Head(items).resolve}
        /\ inUse' = slots + 1
    BY <1>2 DEF CC!ResolveNext
  <2>2. /\ Tail(items) \in Seq(CC!Item)
        /\ Len(items) \in Nat /\ Len(items) >= 1
        /\ Len(Tail(items)) = Len(items) - 1
        /\ \A k \in 1..Len(Tail(items)) : Tail(items)[k] = items[k + 1]
        /\ Head(items) = items[1]
    BY <1>2, HeadTailProperties, LenProperties, EmptySeq DEF Line
  <2>3. ASSUME NEW k \in 1..Len(queue')
        PROVE  queue'[k] = items[k + 1] /\ k + 1 \in 1..Len(items) /\ k + 1 # 1
    BY <2>1, <2>2
  <2>4. 1 \in 1..Len(items)
    BY <2>2
  <2>5. \A k \in 1..Len(items) : items[k] \in CC!Item /\ Waiting(items[k])
    BY ElementOfSeq DEF Line
  <2>6. Waiting(items[1]) /\ items[1].resolve \in Calls
    BY <2>4, <2>5 DEF CC!Item
  <2>7. HandsOver(slots)
    BY <2>1, <2>2, <2>6 DEF HandsOver, Waiting
  <2>8. ASSUME NEW i \in 1..Len(queue'), NEW j \in 1..Len(queue'),
               queue'[i].resolve = queue'[j].resolve
        PROVE  i = j
    <3>1. i + 1 = j + 1
      BY <2>3, <2>8 DEF Line
    <3> QED BY <3>1, <2>1, <2>2
  <2>9. ASSUME NEW i \in 1..Len(queue')
        PROVE  Waiting(queue[i])'
    <3> DEFINE c == items[i + 1].resolve
    <3>1. Waiting(items[i + 1]) /\ c \in Calls
      BY <2>3, <2>5 DEF CC!Item
    <3>2. c # items[1].resolve
      BY <2>3, <2>4 DEF Line
    <3>3. call'[c] = call[c] /\ c \notin settled'
      BY <2>1, <2>2, <3>1, <3>2 DEF Standing, Waiting
    <3>4. queue'[i] = items[i + 1]
      BY <2>3
    <3> QED BY <3>1, <3>3, <3>4 DEF Waiting, Of
  <2>10. queue' \in Seq(CC!Item)
    BY <2>1, <2>2
  <2> QED BY <2>3, <2>7, <2>8, <2>9, <2>10 DEF Line
<1> QED BY <1>1, <1>2

LEMMA LineWithout ==
    ASSUME Line(queue), NEW i \in 1..Len(queue)
    PROVE  /\ Line(RemoveAt(queue, i))
           /\ \A k \in 1..Len(RemoveAt(queue, i)) :
                 \E j \in 1..Len(queue) : j # i /\ RemoveAt(queue, i)[k] = queue[j]
<1> DEFINE items == RemoveAt(queue, i)
<1>1. /\ items \in Seq(CC!Item) /\ Len(queue) \in Nat
      /\ Len(items) = Len(queue) - 1
      /\ \A k \in 1..(Len(queue) - 1) : items[k] = IF k < i THEN queue[k] ELSE queue[k + 1]
  BY RemoveAtProperties, LenProperties DEF Line
<1> HIDE DEF items
<1>2. ASSUME NEW k \in 1..Len(items)
      PROVE  \E j \in 1..Len(queue) : j # i /\ items[k] = queue[j] /\ (j = k \/ j = k + 1)
                                      /\ (j = k <=> k < i)
  <2>1. CASE k < i
    BY <1>1, <2>1
  <2>2. CASE ~(k < i)
    <3>1. k + 1 \in 1..Len(queue) /\ k + 1 # i /\ items[k] = queue[k + 1]
      BY <1>1, <2>2
    <3> QED BY <3>1, <2>2
  <2> QED BY <2>1, <2>2
<1>3. ASSUME NEW k \in 1..Len(items), NEW l \in 1..Len(items),
             items[k].resolve = items[l].resolve
      PROVE  k = l
  <2>1. PICK j \in 1..Len(queue) : j # i /\ items[k] = queue[j] /\ (j = k \/ j = k + 1)
                                   /\ (j = k <=> k < i)
    BY <1>2
  <2>2. PICK m \in 1..Len(queue) : m # i /\ items[l] = queue[m] /\ (m = l \/ m = l + 1)
                                   /\ (m = l <=> l < i)
    BY <1>2
  <2>3. j = m
    BY <1>3, <2>1, <2>2 DEF Line
  <2> QED BY <2>1, <2>2, <2>3, <1>1
<1>4. \A k \in 1..Len(items) : Waiting(items[k])
  BY <1>2 DEF Line
<1> QED BY <1>1, <1>2, <1>3, <1>4 DEF Line, items

-------------------------------------------------------------------------------
(***************************************************************************)
(* Slots.                                                                  *)
(***************************************************************************)
Plus(S, T) == \E x : x \notin S /\ T = S \cup {x}

LEMMA Counted ==
    /\ IsFiniteSet(Holders) /\ Cardinality(Holders) \in Nat
    /\ IsFiniteSet(Entered) /\ Cardinality(Entered) \in Nat
    /\ IsFiniteSet(Holders') /\ Cardinality(Holders') \in Nat
    /\ IsFiniteSet(Entered') /\ Cardinality(Entered') \in Nat
<1>1. Holders \subseteq Calls /\ Holders' \subseteq Calls
  BY DEF Holders
<1>2. Entered \subseteq Executions /\ Entered' \subseteq Executions
  BY DEF Entered
<1> QED
  BY <1>1, <1>2, CallsAssumption, ExecutionsAssumption, FS_Subset, FS_CardinalityType

LEMMA OneMore ==
    ASSUME NEW S, NEW T, IsFiniteSet(S), Plus(S, T)
    PROVE  Cardinality(T) = Cardinality(S) + 1
BY FS_AddElement DEF Plus

LEMMA LineItems ==
    ASSUME Line(queue), NEW i \in 1..Len(queue)
    PROVE  queue[i] \in CC!Item /\ Waiting(queue[i]) /\ queue[i].resolve \in Calls
<1>1. queue[i] \in CC!Item /\ Waiting(queue[i])
  BY ElementOfSeq DEF Line
<1> QED BY <1>1 DEF CC!Item

\* The line is not touched when nobody in it is.
LEMMA LineStands ==
    ASSUME Line(queue), queue' = queue, Standing,
           \A c \in Calls : c \in settled' \ settled => call[c].pc # "throttled"
    PROVE  Line(queue)'
<1>1. ASSUME NEW i \in 1..Len(queue)
      PROVE  Waiting(queue[i])'
  <2>1. Waiting(queue[i]) /\ queue[i].resolve \in Calls
    BY LineItems
  <2> QED BY <2>1 DEF Standing, Waiting, Of
<1> QED BY <1>1 DEF Line

LEMMA SlotsStand ==
    ASSUME SInv, Standing, UNCHANGED <<isEnabled, queue, settled, inUse>>, Entered' = Entered
    PROVE  SInv'
<1>1. Holders' = Holders
  BY DEF Holders, Standing, LetThrough
<1> QED BY <1>1, LineStands DEF SInv, SlotsMatchHolders

\* A slot that was given back goes to the one that waits longest.
LEMMA SlotHandedOver ==
    ASSUME Standing, NEW slots, HandsOver(slots)
    PROVE  \/ Holders' = Holders /\ inUse' = slots
           \/ Plus(Holders, Holders') /\ inUse' = slots + 1
<1>1. CASE settled' = settled /\ inUse' = slots
  BY <1>1 DEF Holders, Standing, LetThrough
<1>2. ASSUME NEW d \in Calls,
             call[d].pc = "throttled", d \notin settled, Limited(call[d].mode),
             settled' = settled \cup {d}, inUse' = slots + 1
      PROVE  Plus(Holders, Holders')
  <2>1. d \notin Holders /\ Holders' = Holders \cup {d}
    BY <1>2 DEF Holders, Standing, LetThrough
  <2> QED BY <2>1 DEF Plus
<1> QED BY <1>1, <1>2 DEF HandsOver

LEMMA SlotReleased ==
    ASSUME TypeOK, SInv, Standing, NEW x \in Executions, RemoveActive(x)
    PROVE  SInv'
<1>1. /\ active'[x] = NoEntry
      /\ \A e \in Executions : e # x => active'[e] = active[e]
  BY EntryRemoved
<1>2. Entered' = Entered \ {x}
  BY <1>1 DEF Entered
<1>3. CASE UNCHANGED ccVars /\ (active[x] = NoEntry \/ ~Limited(active[x].mode))
  <2>1. x \notin Entered
    BY <1>3 DEF Entered
  <2> QED BY <1>2, <1>3, <2>1, SlotsStand DEF ccVars
<1>4. CASE UNCHANGED ccVars /\ ~isEnabled
  BY <1>4, LineStands DEF SInv, SlotsMatchHolders, ccVars
<1>5. CASE active[x] # NoEntry /\ isEnabled /\ Limited(active[x].mode) /\ CC!Dequeue
  <2>1. Line(queue)' /\ HandsOver(inUse - 1) /\ isEnabled' = isEnabled
    BY <1>5, NextServed DEF SInv, CC!Dequeue
  <2>2. Plus(Entered', Entered)
    BY <1>2, <1>5 DEF Plus, Entered
  <2>3. inUse = Cardinality(Holders) + Cardinality(Entered)
    BY <1>5 DEF SInv, SlotsMatchHolders
  <2>4. Cardinality(Entered) = Cardinality(Entered') + 1
    BY <2>2, Counted, OneMore
  <2>5. inUse' = Cardinality(Holders') + Cardinality(Entered')
    <3>1. CASE Holders' = Holders /\ inUse' = inUse - 1
      BY <2>3, <2>4, <3>1, Counted
    <3>2. CASE Plus(Holders, Holders') /\ inUse' = inUse - 1 + 1
      <4>1. Cardinality(Holders') = Cardinality(Holders) + 1
        BY <3>2, Counted, OneMore
      <4> QED BY <2>3, <2>4, <3>2, <4>1, Counted
    <3> QED BY <2>1, <3>1, <3>2, SlotHandedOver
  <2> QED BY <2>1, <2>5 DEF SInv, SlotsMatchHolders
<1> QED
  BY <1>3, <1>4, <1>5 DEF RemoveActive, CC!Release, CC!Bypassed, Limited, ccVars, CC!ccVars

\* A caller that waits is stopped, and leaves the line.
LEMMA SlotOfStopped ==
    ASSUME SInv, Standing, NEW x, NEW mode, CC!RemoveExecution(x, mode), active' = active
    PROVE  SInv'
<1>1. Entered' = Entered
  BY DEF Entered
<1>2. CASE UNCHANGED ccVars
  BY <1>1, <1>2, SlotsStand DEF ccVars
<1>3. ASSUME NEW i \in DOMAIN queue, CC!ResolveNext(RemoveAt(queue, i), inUse),
             isEnabled' = isEnabled
      PROVE  SInv'
  <2>1. i \in 1..Len(queue)
    BY <1>3, LenProperties DEF SInv, Line
  <2>2. Line(queue)' /\ HandsOver(inUse)
    BY <1>3, <2>1, LineWithout, NextServed DEF SInv
  <2>3. inUse' = Cardinality(Holders') + Cardinality(Entered') \/ ~isEnabled
    <3>1. CASE Holders' = Holders /\ inUse' = inUse
      BY <1>1, <3>1 DEF SInv, SlotsMatchHolders
    <3>2. CASE Plus(Holders, Holders') /\ inUse' = inUse + 1
      <4>1. Cardinality(Holders') = Cardinality(Holders) + 1
        BY <3>2, Counted, OneMore
      <4> QED BY <1>1, <3>2, <4>1, Counted DEF SInv, SlotsMatchHolders
    <3> QED BY <2>2, <3>1, <3>2, SlotHandedOver
  <2> QED BY <1>3, <2>2, <2>3 DEF SInv, SlotsMatchHolders
<1>4. UNCHANGED ccVars \/ CC!RemoveQueued(x)
  BY DEF CC!RemoveExecution, ccVars, CC!ccVars
<1>5. CASE CC!RemoveQueued(x)
  <2>1. \/ UNCHANGED ccVars
        \/ /\ isEnabled' = isEnabled
           /\ \E i \in DOMAIN queue : CC!ResolveNext(RemoveAt(queue, i), inUse)
    BY <1>5 DEF CC!RemoveQueued, CC!RemoveAt, RemoveAt, ccVars, CC!ccVars
  <2> QED BY <1>2, <1>3, <2>1
<1> QED BY <1>2, <1>4, <1>5

\* throttle() lets the caller through, or puts it at the end of the line.
LEMMA SlotThrottled ==
    ASSUME SInv, NEW c \in Calls, NEW x \in Executions, NEW mode, CC!Throttle(c, x, mode),
           call[c].pc \notin {"throttled", "updating"},
           call'[c].pc = "throttled", Of(c)' = x, call'[c].mode = mode,
           \A d \in Calls : d # c => call'[d] = call[d],
           active' = active
    PROVE  SInv'
<1>1. Entered' = Entered
  BY DEF Entered
<1>2. \A i \in 1..Len(queue) : /\ queue[i] \in CC!Item /\ Waiting(queue[i])
                               /\ queue[i].resolve \in Calls /\ queue[i].resolve # c
  BY LineItems DEF SInv, Waiting
<1>3. CASE queue' = queue /\ isEnabled' = isEnabled /\ settled' = settled \cup {c}
  <2>1. Line(queue)'
    BY <1>2, <1>3 DEF SInv, Line, Waiting, Of
  <2>2. CASE inUse' = inUse /\ (~isEnabled \/ ~Limited(mode))
    <3>1. ~Limited(mode) => Holders' = Holders
      BY <1>3 DEF Holders, LetThrough
    <3> QED BY <1>1, <1>3, <2>1, <2>2, <3>1 DEF SInv, SlotsMatchHolders
  <2>3. CASE inUse' = inUse + 1 /\ Limited(mode)
    <3>1. c \notin Holders /\ Holders' = Holders \cup {c}
      BY <1>3, <2>3 DEF Holders, LetThrough
    <3>2. Cardinality(Holders') = Cardinality(Holders) + 1
      BY <3>1, Counted, OneMore DEF Plus
    <3> QED BY <1>1, <1>3, <2>1, <2>3, <3>2, Counted DEF SInv, SlotsMatchHolders
  <2> QED
    BY <1>3, <2>2, <2>3 DEF CC!Throttle, CC!Enqueue, CC!Bypassed, Limited
<1>4. CASE /\ queue' = Append(queue, [executionId |-> x, resolve |-> c]) /\ Limited(mode)
           /\ settled' = settled \ {c} /\ UNCHANGED <<isEnabled, inUse>>
  <2> DEFINE item == [executionId |-> x, resolve |-> c]
  <2>1. item \in CC!Item /\ item.resolve = c /\ item.executionId = x
    BY DEF CC!Item
  <2>2. queue' = Append(queue, item)
    BY <1>4
  <2> HIDE DEF item
  <2>3. /\ queue' \in Seq(CC!Item) /\ Len(queue) \in Nat
        /\ Len(queue') = Len(queue) + 1
        /\ \A i \in 1..Len(queue) : queue'[i] = queue[i]
        /\ queue'[Len(queue) + 1] = item
    BY <2>1, <2>2, AppendProperties, LenProperties DEF SInv, Line
  <2>4. \A i \in 1..Len(queue') : i \in 1..Len(queue) \/ i = Len(queue) + 1
    BY <2>3
  <2>5. ASSUME NEW i \in 1..Len(queue'), NEW j \in 1..Len(queue'),
               queue'[i].resolve = queue'[j].resolve
        PROVE  i = j
    BY <1>2, <2>1, <2>3, <2>4, <2>5 DEF SInv, Line
  <2>6. ASSUME NEW i \in 1..Len(queue')
        PROVE  Waiting(queue[i])'
    <3>1. CASE i \in 1..Len(queue)
      BY <1>2, <1>4, <2>3, <3>1 DEF Waiting, Of
    <3>2. CASE i = Len(queue) + 1
      BY <1>4, <2>1, <2>3, <3>2 DEF Waiting, Of
    <3> QED BY <2>4, <3>1, <3>2
  <2>7. Line(queue)'
    BY <2>3, <2>5, <2>6 DEF Line
  <2>8. Holders' = Holders
    BY <1>4 DEF Holders, LetThrough
  <2> QED BY <1>1, <1>4, <2>7, <2>8 DEF SInv, SlotsMatchHolders
<1> QED
  BY <1>3, <1>4 DEF CC!Throttle, CC!Enqueue, CC!Bypassed, Limited

\* The slot passes from the invocation to its entry.
LEMMA SlotEntered ==
    ASSUME SInv, NEW c \in Calls, NEW x \in Executions,
           LetThrough(c) \/ call[c].pc = "updating",
           call'[c].pc \notin {"throttled", "updating"},
           \A d \in Calls : d # c => call'[d] = call[d],
           active[x] = NoEntry, active'[x] # NoEntry, active'[x].mode = call[c].mode,
           \A e \in Executions : e # x => active'[e] = active[e],
           UNCHANGED ccVars
    PROVE  SInv'
<1>1. Line(queue)'
  <2>1. \A i \in 1..Len(queue) : /\ queue[i] \in CC!Item /\ Waiting(queue[i])
                                 /\ queue[i].resolve \in Calls /\ queue[i].resolve # c
    BY LineItems DEF SInv, Waiting, LetThrough
  <2> QED BY <2>1 DEF SInv, Line, Waiting, Of, ccVars
<1>2. CASE Limited(call[c].mode)
  <2>1. c \notin Holders' /\ Holders = Holders' \cup {c}
    BY <1>2 DEF Holders, LetThrough, ccVars
  <2>2. x \notin Entered /\ Entered' = Entered \cup {x}
    BY <1>2 DEF Entered
  <2>3. /\ Cardinality(Holders) = Cardinality(Holders') + 1
        /\ Cardinality(Entered') = Cardinality(Entered) + 1
    BY <2>1, <2>2, Counted, OneMore DEF Plus
  <2> QED
    BY <1>1, <2>3, Counted DEF SInv, SlotsMatchHolders, ccVars
<1>3. CASE ~Limited(call[c].mode)
  <2>1. Holders' = Holders
    BY <1>3 DEF Holders, LetThrough, ccVars
  <2>2. Entered' = Entered
    BY <1>3 DEF Entered
  <2> QED BY <1>1, <2>1, <2>2 DEF SInv, SlotsMatchHolders, ccVars
<1> QED BY <1>2, <1>3

-------------------------------------------------------------------------------
(***************************************************************************)
(* Every step keeps the account.                                           *)
(***************************************************************************)
\* Steps that are about something else.
LEMMA SlotsElsewhere ==
    ASSUME IInv, SInv,
           \/ \E c \in Calls :
                 \/ \E e \in Executions : Create(c, e)
                 \/ InsertData(c) \/ NodeLogged(c) \/ EngineEnds(c) \/ EngineSaves(c)
           \/ \E w \in writes : HookSaves(w)
           \/ \E e \in Executions :
                 StopRequested(e) \/ StopFails(e) \/ StopUnknown(e) \/ StopStored(e)
           \/ Listen \/ Recover \/ ReadEnqueued
    PROVE  SInv'
<1>1. UNCHANGED <<active, isEnabled, queue, settled, inUse>>
  BY DEF Create, InsertData, NodeLogged, EngineEnds, EngineSaves, HookSaves, StopRequested,
         StopFails, StopUnknown, StopStored, Listen, Recover, ReadEnqueued, ccVars
<1>2. Entered' = Entered
  BY <1>1 DEF Entered
<1>3. Standing
  <2>1. CASE call' = call
    BY <2>1 DEF Standing
  <2>2. ASSUME NEW c \in Calls, NEW e \in Executions, Create(c, e)
        PROVE  Standing
    <3>1. call[c].pc = "idle" /\ call'[c].pc = "inserting"
          /\ \A d \in Calls : d # c => call'[d] = call[d]
      BY <2>2 DEF Create, Idle, IInv, TypeOK, IdleCall
    <3> QED BY <3>1 DEF Standing
  <2>3. ASSUME NEW c \in Calls, InsertData(c) \/ EngineEnds(c) \/ EngineSaves(c)
        PROVE  Standing
    <3> DEFINE Aside == /\ call[c].pc \notin {"throttled", "updating"}
                        /\ call'[c].pc \notin {"throttled", "updating"}
                        /\ \A d \in Calls : d # c => call'[d] = call[d]
    <3>1. TypeOK /\ call \in [Calls -> CallRecords]
      BY DEF IInv, TypeOK, CallRecords
    <3>2. ASSUME InsertData(c) PROVE Aside
      BY <3>1, <3>2, Moved DEF InsertData, CallPcs
    <3>3. ASSUME EngineEnds(c) PROVE Aside
      BY <3>1, <3>3 DEF EngineEnds, CallRecords
    <3>4. ASSUME EngineSaves(c) /\ call' = Goto(c, "resolving") PROVE Aside
      BY <3>1, <3>4, Moved DEF EngineSaves, CallPcs
    <3>5. ASSUME EngineSaves(c) /\ call' = [call EXCEPT ![c] = IdleCall] PROVE Aside
      BY <3>1, <3>5, IdleRecord DEF EngineSaves
    <3>6. Aside
      BY <2>3, <3>2, <3>3, <3>4, <3>5 DEF EngineSaves
    <3> QED BY <3>6 DEF Standing
  <2> QED
    BY <2>1, <2>2, <2>3 DEF NodeLogged, HookSaves, StopRequested, StopFails, StopUnknown,
         StopStored, Listen, Recover, ReadEnqueued
<1> QED BY <1>1, <1>2, <1>3, SlotsStand

LEMMA SlotsOfNew ==
    ASSUME IInv, SInv, NEW c \in Calls, ThrottleNew(c) \/ RunEnqueued(c)
    PROVE  SInv'
<1>1. CASE ThrottleNew(c)
  <2>1. Busy(c) /\ call[c].pc = "stored" /\ CC!Throttle(c, Of(c), call[c].mode)
        /\ active' = active /\ call' = Goto(c, "throttled")
    BY <1>1 DEF ThrottleNew, Busy, Of
  <2>2. /\ call'[c].pc = "throttled" /\ call'[c].id = Of(c) /\ call'[c].mode = call[c].mode
        /\ \A d \in Calls : d # c => call'[d] = call[d]
    BY <2>1, CallFacts, Moved DEF CallPcs, Of
  <2>3. PICK x \in Executions : x = Of(c)
    BY <2>1, CallFacts
  <2>4. PICK mode : mode = call[c].mode
    OBVIOUS
  <2>5. CC!Throttle(c, x, mode) /\ Of(c)' = x /\ call'[c].mode = mode
    BY <2>1, <2>2, <2>3, <2>4 DEF Of
  <2> QED BY <2>1, <2>2, <2>5, SlotThrottled
<1>2. CASE RunEnqueued(c)
  <2>1. PICK x \in boot : ThrottleKnown(c, x, row[x].mode)
    BY <1>2 DEF RunEnqueued
  <2>2. PICK mode : mode = row[x].mode
    OBVIOUS
  <2>3. x \in Executions /\ call[c].pc = "idle" /\ CC!Throttle(c, x, mode) /\ active' = active
    BY <1>2, <2>1, <2>2 DEF RunEnqueued, ThrottleKnown, Idle, IInv, TypeOK
  <2>4. /\ call'[c].pc = "throttled" /\ Of(c)' = x /\ call'[c].mode = mode
        /\ \A d \in Calls : d # c => call'[d] = call[d]
    BY <2>1, <2>2 DEF ThrottleKnown, IdleCall, IInv, TypeOK, Of
  <2> QED BY <2>3, <2>4, SlotThrottled
<1> QED BY <1>1, <1>2

LEMMA SlotsOfEntering ==
    ASSUME IInv, SInv, NEW c \in Calls,
           Register(c) \/ BeginUpdate(c) \/ UpdateExisting(c) \/ RunMainProcess(c)
    PROVE  SInv'
<1>1. Busy(c)
  BY DEF Register, BeginUpdate, UpdateExisting, RunMainProcess, LetThrough, Busy
<1>2. PICK x \in Executions : x = Of(c)
  BY <1>1, CallFacts
<1>3. CASE Register(c) \/ UpdateExisting(c)
  <2>1. /\ call'[c].pc = "starting" /\ active[x] = NoEntry
        /\ LetThrough(c) \/ call[c].pc = "updating"
        /\ \A d \in Calls : d # c => call'[d] = call[d]
        /\ UNCHANGED ccVars
    <3>1. /\ call' = Goto(c, "starting") /\ UNCHANGED ccVars
          /\ LetThrough(c) \/ call[c].pc = "updating"
      BY <1>3 DEF Register, UpdateExisting
    <3>2. call[c].pc \in {"throttled", "updating"}
      BY <3>1 DEF LetThrough
    <3>3. active[x] = NoEntry
      BY <1>1, <1>2, <3>2, CallFacts DEF Placed
    <3>4. TypeOK /\ "starting" \in CallPcs
      BY DEF IInv, CallPcs
    <3> QED BY <3>1, <3>3, <3>4, Moved
  <2>2. active' = [active EXCEPT ![x] = Entry(c, NoCall)]
    BY <1>2, <1>3 DEF Register, UpdateExisting, Registered, Entry, Of
  <2>3. /\ active'[x] # NoEntry /\ active'[x].mode = call[c].mode
        /\ \A e \in Executions : e # x => active'[e] = active[e]
    BY <1>1, <2>2, CallFacts, EntryRecord DEF TypeOK, Entry
  <2> QED BY <2>1, <2>3, SlotEntered
<1>4. CASE BeginUpdate(c)
  <2>1. /\ LetThrough(c) /\ call'[c].pc = "updating" /\ call'[c].mode = call[c].mode
        /\ \A d \in Calls : d # c => call'[d] = call[d]
        /\ UNCHANGED <<active, ccVars>>
    BY <1>1, <1>4, CallFacts, Moved DEF BeginUpdate, CallPcs
  <2>2. \A i \in 1..Len(queue) : /\ queue[i] \in CC!Item /\ Waiting(queue[i])
                                 /\ queue[i].resolve \in Calls /\ queue[i].resolve # c
    BY <2>1, LineItems DEF SInv, Waiting, LetThrough
  <2>3. Line(queue)'
    BY <2>1, <2>2 DEF SInv, Line, Waiting, Of, ccVars
  <2>4. Holders' = Holders /\ Entered' = Entered
    BY <2>1 DEF Holders, Entered, LetThrough, ccVars
  <2> QED BY <2>1, <2>3, <2>4 DEF SInv, SlotsMatchHolders, ccVars
<1>5. CASE RunMainProcess(c)
  <2>1. call[c].pc = "starting" /\ active[x] = Entry(c, NoCall) /\ active[x] # NoEntry
    BY <1>1, <1>2, <1>5, CallFacts, EntryRecord DEF RunMainProcess, Placed
  <2>2. /\ call' = [call EXCEPT ![c].pc = "executing", ![c].timer = Timeouts]
        /\ active' = [active EXCEPT ![x].workflowExecution = c]
        /\ UNCHANGED ccVars
    BY <1>2, <1>5, <2>1 DEF RunMainProcess, Of
  <2>3. active'[x] = Entry(c, c) /\ \A e \in Executions : e # x => active'[e] = active[e]
    BY <1>1, <1>2, <2>1, <2>2, CallFacts DEF TypeOK, Entry
  <2>4. Entered' = Entered
    <3>1. active'[x] # NoEntry /\ active'[x].mode = active[x].mode
      BY <1>1, <2>1, <2>3, CallFacts, EntryRecord DEF Entry
    <3> QED BY <2>1, <2>3, <3>1 DEF Entered
  <2>5. Standing
    <3>1. call'[c].pc = "executing" /\ \A d \in Calls : d # c => call'[d] = call[d]
      BY <1>1, <2>2, CallFacts DEF TypeOK
    <3> QED BY <2>1, <3>1 DEF Standing
  <2> QED BY <2>2, <2>4, <2>5, SlotsStand DEF ccVars
<1> QED BY <1>3, <1>4, <1>5

LEMMA SlotsOfLeaving ==
    ASSUME IInv, SInv, NEW c \in Calls, PermissionDenied(c) \/ EngineResolves(c)
    PROVE  SInv'
<1>1. Busy(c) /\ call[c].pc \in {"starting", "resolving"} /\ call' = [call EXCEPT ![c] = IdleCall]
  BY DEF PermissionDenied, EngineResolves, Busy
<1>2. Of(c) \in Executions /\ RemoveActive(Of(c)) /\ TypeOK
  BY <1>1, CallFacts DEF PermissionDenied, EngineResolves, Of
<1>3. Standing
  <2>1. call'[c].pc = "idle" /\ \A d \in Calls : d # c => call'[d] = call[d]
    BY <1>1, <1>2, IdleRecord DEF TypeOK
  <2> QED BY <1>1, <2>1 DEF Standing
<1> QED BY <1>2, <1>3, SlotReleased DEF SInv

LEMMA SlotsOfStopping ==
    ASSUME IInv, SInv,
           \/ \E c \in Calls : TimeoutFires(c)
           \/ \E e \in Executions : StopEnqueued(e) \/ StopActive(e)
    PROVE  SInv'
<1>1. ASSUME NEW c \in Calls, TimeoutFires(c)
      PROVE  SInv'
  <2>1. Busy(c) /\ call[c].timer
    BY <1>1, IdleRecord DEF TimeoutFires, IInv, Tidy
  <2>2. Of(c) \in Executions /\ Attached(Of(c)) /\ StopExecution(Of(c)) /\ TypeOK
    BY <1>1, <2>1, CallFacts DEF TimeoutFires, Of
  <2>3. call[c].pc \in {"executing", "saving", "resolving"}
    <3>1. /\ active[Of(c)] # NoEntry
          /\ active[Of(c)].workflowExecution # NoCall
      BY <2>2 DEF Attached
    <3>2. TypeOK /\ Tidy /\ Placed(c)
      BY <2>1, CallFacts
    <3>3. Entry(c, NoCall).workflowExecution = NoCall
      BY DEF Entry
    <3> QED BY <3>1, <3>2, <3>3 DEF Placed
  <2>4. /\ call'[c].pc = call[c].pc
        /\ \A d \in Calls : d # c => call'[d] = call[d]
    BY <1>1, <2>2 DEF TimeoutFires, TypeOK
  <2>5. Standing
    BY <2>3, <2>4 DEF Standing
  <2> QED BY <2>2, <2>5, SlotReleased DEF StopExecution
<1>2. ASSUME NEW e \in Executions, StopEnqueued(e)
      PROVE  SInv'
  BY <1>2, SlotOfStopped DEF StopEnqueued, Standing
<1>3. ASSUME NEW e \in Executions, StopActive(e)
      PROVE  SInv'
  <2>1. Standing /\ RemoveActive(e) /\ TypeOK
    BY <1>3 DEF StopActive, StopExecution, Standing, IInv
  <2> QED BY <2>1, SlotReleased
<1> QED BY <1>1, <1>2, <1>3

LEMMA SlotsOfProcess ==
    ASSUME IInv, SInv, BeginShutdown \/ Exit \/ Crash
    PROVE  SInv'
<1>1. CASE BeginShutdown
  <2>1. ~isEnabled' /\ UNCHANGED <<queue, settled, call>>
    BY <1>1 DEF BeginShutdown, CC!Disable
  <2>2. Line(queue)'
    BY <2>1, LineStands DEF SInv, Standing
  <2> QED BY <2>1, <2>2 DEF SInv, SlotsMatchHolders
<1>2. CASE Exit \/ Crash
  <2>1. GoDown
    BY <1>2 DEF Exit, Crash
  <2>2. Holders' = {}
    <3>1. \A c \in Calls : call'[c].pc = "idle"
      BY <2>1, IdleRecord DEF GoDown
    <3> QED BY <3>1 DEF Holders, LetThrough
  <2>3. Entered' = {}
    BY <2>1 DEF GoDown, Entered
  <2>4. Line(queue)'
    <3>1. queue' = <<>> /\ queue' \in Seq(CC!Item) /\ 1..Len(queue') = {}
      BY <2>1, EmptySeq DEF GoDown
    <3> QED BY <3>1 DEF Line
  <2>5. inUse' = 0
    BY <2>1 DEF GoDown
  <2> QED BY <2>2, <2>3, <2>4, <2>5, FS_EmptySet DEF SInv, SlotsMatchHolders
<1> QED BY <1>1, <1>2

LEMMA NextSInv ==
    ASSUME IInv, SInv, [Next]_vars
    PROVE  SInv'
<1>1. CASE UNCHANGED vars
  <2>1. Standing /\ Entered' = Entered
    BY <1>1 DEF vars, Standing, Entered
  <2> QED BY <1>1, <2>1, SlotsStand DEF vars
<1>2. ASSUME NEW c \in Calls, CallStep(c) \/ RunEnqueued(c)
      PROVE  SInv'
  BY <1>2, SlotsElsewhere, SlotsOfNew, SlotsOfEntering, SlotsOfLeaving DEF CallStep
<1>3. ASSUME NEW e \in Executions, StopRequested(e) \/ StopStep(e)
      PROVE  SInv'
  BY <1>3, SlotsElsewhere, SlotsOfStopping DEF StopStep
<1> QED
  BY <1>1, <1>2, <1>3, SlotsElsewhere, SlotsOfStopping, SlotsOfProcess DEF Next

LEMMA InitSInv == Init => SInv
<1> SUFFICES ASSUME Init
             PROVE  SInv
  OBVIOUS
<1>1. Holders = {} /\ Entered = {}
  BY IdleRecord DEF Init, Holders, Entered, LetThrough
<1>2. queue = <<>> /\ inUse = 0
  BY DEF Init, CC!CCInit
<1>3. queue \in Seq(CC!Item) /\ 1..Len(queue) = {}
  BY <1>2, EmptySeq
<1> QED BY <1>1, <1>2, <1>3, FS_EmptySet DEF SInv, Line, SlotsMatchHolders

LEMMA AlwaysSInv ==
    ASSUME OrderlyBoot
    PROVE  Spec => []SInv
BY InitSInv, NextSInv, AlwaysIInv, PTL DEF Spec

\* Every slot handed out is held by exactly one execution that will give it back, in
\* whatever order executions are stopped, time out, end, crash and are run again.
THEOREM SlotsHeld ==
    ASSUME OrderlyBoot
    PROVE  Spec => []SlotsMatchHolders
<1>1. SInv => SlotsMatchHolders
  BY DEF SInv
<1> QED BY <1>1, AlwaysSInv, PTL

-------------------------------------------------------------------------------
(***************************************************************************)
(* What is stored of an execution that waits for a slot, and what becomes  *)
(* of one that is stopped while it waits.                                  *)
(***************************************************************************)
Bare(r) == r = Store!NotInserted \/ (r.status = "new" /\ r.data = "missing")
Fresh(e) == row[e].status = "new" /\ row[e].data = "initial"
Excused(e) == stop[e].pc \in {"during", "stoppedDuring"}
Withdrawn(e) == stop[e].pc \in {"before", "stoppedBefore"}

\* Nothing will ever let the invocation through.
Outside(c) == c \notin settled /\ \A i \in 1..Len(queue) : queue[i].resolve # c
Withheld(c) == call[c].pc = "throttled" /\ Outside(c)
BeforeRun == {"inserting", "stored", "throttled"}

Account(e) ==
    /\ Store!Exists(row[e]) => row[e].mode = ModeOf[e]
    /\ stop[e].pc # "idle" => stop[e].mode = ModeOf[e] /\ ~Bare(row[e])
    /\ row[e].status = "new" => row[e].data \in {"missing", "initial"}
    /\ stop[e].pc = "stoppedBefore" => row[e].status # "new"
    /\ stop[e].pc = "before" => \E c \in Calls : Busy(c) /\ Of(c) = e
    /\ e \in boot => (Fresh(e) \/ Excused(e)) /\ ~Withdrawn(e)
    /\ \A w \in writes : w.id = e => w.mode = ModeOf[e] /\ row[e] # Store!NotInserted

Stands(c) ==
    /\ call[c].mode = ModeOf[Of(c)]
    /\ call[c].pc = "inserting" => row[Of(c)].status = "new" /\ Bare(row[Of(c)])
    /\ call[c].pc = "stored" => Fresh(Of(c)) \/ Excused(Of(c))
    /\ call[c].pc = "throttled" => Fresh(Of(c)) \/ Excused(Of(c)) \/ Withdrawn(Of(c))
    /\ call[c].pc \in BeforeRun => ~Saving(Of(c))
    /\ Withdrawn(Of(c)) => Withheld(c)

QInv ==
    /\ \A e \in Executions : Account(e)
    /\ \A c \in Calls : Busy(c) => Stands(c)

\* What a writer leaves of r: of its mode, and not new unless it was.
Follows(r, s, mode) ==
    /\ Store!Exists(s) => s.mode = mode \/ (Store!Exists(r) /\ r.mode # mode)
    /\ \/ s = r
       \/ s.status = "new" /\ s.data = "initial" /\ r.status = "new"
       \/ s.status # "new" /\ (s = Store!NotInserted => r = Store!NotInserted)

LEMMA NotInsertedRow ==
    /\ Store!NotInserted.status = "absent" /\ ~Store!Exists(Store!NotInserted)
    /\ \A r : ~Store!Exists(r) => r.status # "new"
BY DEF Store!NotInserted, Store!Absent, Store!Exists, Store!Statuses

LEMMA RowFollows ==
    ASSUME NEW r \in AllRows, NEW mode \in CC!Modes
    PROVE  /\ \A status \in Store!Statuses \ {"new"} :
                 Follows(r, Store!WithStatus(r, status), mode)
           /\ Follows(r, Store!Resumed(r), mode)
           /\ Follows(r, Store!StoppedDuringRun(r), mode)
           /\ \A status \in Store!Statuses \ {"new", "running"} :
                 Follows(r, Store!Saved(r, status, mode), mode)
<1>1. CASE ~Store!Exists(r)
  BY <1>1 DEF Follows, Store!WithStatus, Store!Resumed, Store!StoppedDuringRun, Store!Saved
<1>2. CASE Store!Exists(r)
  <2>1. r \in Stored
    BY <1>2, RowKinds
  <2>2. ASSUME NEW status \in Store!Statuses \ {"new"}
        PROVE  Follows(r, Store!WithStatus(r, status), mode)
    <3>1. [r EXCEPT !.status = status].mode = r.mode
      BY <2>1 DEF Stored
    <3>2. Store!WithStatus(r, status) = [r EXCEPT !.status = status]
      BY <1>2 DEF Store!WithStatus
    <3> QED BY <3>1, <3>2, StatusRow, <1>2 DEF Follows, Rewrites
  <2>3. Follows(r, Store!Resumed(r), mode)
    <3>1. [r EXCEPT !.status = "running", !.waitTill = FALSE].mode = r.mode
          /\ [r EXCEPT !.status = "running", !.waitTill = FALSE].status = "running"
      BY <2>1 DEF Stored
    <3>2. Store!Resumed(r) = [r EXCEPT !.status = "running", !.waitTill = FALSE]
      BY <1>2 DEF Store!Resumed
    <3> QED BY <3>1, <3>2, ResumedRow, <1>2 DEF Follows, Rewrites
  <2>4. Follows(r, Store!StoppedDuringRun(r), mode)
    <3>1. [r EXCEPT !.status = "canceled", !.waitTill = FALSE, !.data = "failed"].mode = r.mode
      BY <2>1 DEF Stored
    <3>2. Store!StoppedDuringRun(r)
             = [r EXCEPT !.status = "canceled", !.waitTill = FALSE, !.data = "failed"]
      BY <1>2 DEF Store!StoppedDuringRun
    <3> QED BY <3>1, <3>2, StoppedRow, <1>2 DEF Follows, Rewrites
  <2>5. ASSUME NEW status \in Store!Statuses \ {"new", "running"}
        PROVE  Follows(r, Store!Saved(r, status, mode), mode)
    <3>1. /\ Store!Saved(r, status, mode).status # "new"
          /\ Store!Saved(r, status, mode) = Store!NotInserted => r = Store!NotInserted
      BY SavedRow DEF Rewrites
    <3>2. ~Store!Exists(Store!Deleted)
      BY DEF Store!Deleted, Store!Absent, Store!Exists, Store!Statuses
    <3>3. \/ Store!Saved(r, status, mode) = Store!Deleted
          \/ Store!Saved(r, status, mode).mode = mode
      BY <1>2 DEF Store!Saved
    <3> QED BY <3>1, <3>2, <3>3 DEF Follows
  <2> QED BY <2>2, <2>3, <2>4, <2>5
<1> QED BY <1>1, <1>2

LEMMA SameFollows ==
    ASSUME NEW r, NEW mode
    PROVE  Follows(r, r, mode)
BY DEF Follows

LEMMA AccountKept ==
    ASSUME NEW e \in Executions, Account(e), Follows(row[e], row'[e], ModeOf[e]),
           stop'[e] = stop[e],
           \A w \in writes' : w.id = e =>
               w \in writes \/ (w.mode = ModeOf[e] /\ row[e] # Store!NotInserted),
           stop[e].pc = "before" => \E c \in Calls : Busy(c)' /\ Of(c)' = e,
           e \in boot' => e \in boot /\ row'[e] = row[e]
    PROVE  Account(e)'
<1>1. /\ row'[e] = Store!NotInserted => row[e] = Store!NotInserted
      /\ row'[e].status = "new" => row[e].status = "new"
      /\ Bare(row'[e]) => Bare(row[e])
      /\ row'[e].status = "new" => row'[e].data \in {"missing", "initial"}
  BY NotInsertedRow DEF Follows, Account, Bare
<1>2. Store!Exists(row'[e]) => row'[e].mode = ModeOf[e]
  BY DEF Follows, Account
<1>3. e \in boot' => (Fresh(e)' \/ Excused(e)') /\ ~Withdrawn(e)'
  BY DEF Account, Fresh, Excused, Withdrawn
<1> QED
  BY <1>1, <1>2, <1>3 DEF Account

LEMMA StandsKept ==
    ASSUME NEW c \in Calls, Stands(c), call'[c] = call[c], stop'[Of(c)] = stop[Of(c)],
           call[c].pc \in BeforeRun
               => row'[Of(c)] = row[Of(c)] /\ (Saving(Of(c))' => Saving(Of(c))),
           Outside(c) => Outside(c)'
    PROVE  Stands(c)'
BY DEF Stands, Of, BeforeRun, Fresh, Excused, Withdrawn, Withheld

(***************************************************************************)
(* Whom admission does not let through.                                    *)
(***************************************************************************)
LEMMA ServedFrom ==
    ASSUME NEW items \in Seq(CC!Item), NEW slots, CC!ResolveNext(items, slots),
           NEW c, c \notin settled, \A i \in 1..Len(items) : items[i].resolve # c
    PROVE  Outside(c)'
<1>1. CASE items = <<>>
  <2>1. queue' = <<>> /\ settled' = settled /\ 1..Len(queue') = {}
    BY <1>1, EmptySeq DEF CC!ResolveNext
  <2> QED BY <2>1 DEF Outside
<1>2. CASE items # <<>>
  <2>1. queue' = Tail(items) /\ settled' = settled \cup {Head(items).resolve}
    BY <1>2 DEF CC!ResolveNext
  <2>2. /\ Len(items) \in Nat /\ Len(items) >= 1
        /\ Len(Tail(items)) = Len(items) - 1
        /\ \A k \in 1..Len(Tail(items)) : Tail(items)[k] = items[k + 1]
        /\ Head(items) = items[1]
    BY <1>2, HeadTailProperties, LenProperties, EmptySeq
  <2>3. 1 \in 1..Len(items)
    BY <2>2
  <2>4. ASSUME NEW k \in 1..Len(queue')
        PROVE  queue'[k].resolve # c
    <3>1. k + 1 \in 1..Len(items) /\ queue'[k] = items[k + 1]
      BY <2>1, <2>2
    <3> QED BY <3>1
  <2>5. c \notin settled'
    BY <2>1, <2>2, <2>3
  <2> QED BY <2>4, <2>5 DEF Outside
<1> QED BY <1>1, <1>2

LEMMA OutsideAfterRelease ==
    ASSUME SInv, NEW mode, CC!Release(mode), NEW c, Outside(c)
    PROVE  Outside(c)'
<1>1. CASE UNCHANGED <<queue, settled>>
  BY <1>1 DEF Outside
<1>2. CASE CC!Dequeue
  BY <1>2, ServedFrom DEF CC!Dequeue, SInv, Line, Outside
<1> QED BY <1>1, <1>2 DEF CC!Release, CC!ccVars

LEMMA OutsideAfterRemoval ==
    ASSUME SInv, NEW x, RemoveActive(x), NEW c, Outside(c)
    PROVE  Outside(c)'
<1>1. CASE UNCHANGED <<queue, settled>>
  BY <1>1 DEF Outside
<1>2. CASE CC!Release(active[x].mode)
  BY <1>2, OutsideAfterRelease
<1> QED BY <1>1, <1>2 DEF RemoveActive, ccVars

LEMMA OutsideAfterStop ==
    ASSUME SInv, NEW x, NEW mode, CC!RemoveExecution(x, mode), NEW c, Outside(c)
    PROVE  Outside(c)'
<1>1. CASE UNCHANGED <<queue, settled>>
  BY <1>1 DEF Outside
<1>2. ASSUME NEW i \in DOMAIN queue, CC!ResolveNext(RemoveAt(queue, i), inUse)
      PROVE  Outside(c)'
  <2>1. i \in 1..Len(queue)
    BY <1>2, LenProperties DEF SInv, Line
  <2>2. /\ RemoveAt(queue, i) \in Seq(CC!Item)
        /\ \A k \in 1..Len(RemoveAt(queue, i)) : RemoveAt(queue, i)[k].resolve # c
    BY <2>1, LineWithout DEF SInv, Line, Outside
  <2> QED BY <1>2, <2>2, ServedFrom DEF Outside
<1>3. UNCHANGED <<queue, settled>> \/ CC!RemoveQueued(x)
  BY DEF CC!RemoveExecution, CC!ccVars
<1>4. \/ UNCHANGED <<queue, settled>>
      \/ \E i \in DOMAIN queue : CC!ResolveNext(RemoveAt(queue, i), inUse)
  BY <1>3 DEF CC!RemoveQueued, CC!ccVars, CC!RemoveAt, RemoveAt
<1> QED BY <1>1, <1>2, <1>4

\* The execution that is stopped leaves the line.
LEMMA StoppedIsOutside ==
    ASSUME SInv, Alone, NEW c \in Calls, Busy(c), NEW mode, CC!Has(Of(c)), Limited(mode),
           CC!RemoveExecution(Of(c), mode)
    PROVE  call[c].pc = "throttled" /\ Outside(c)'
<1> PICK x : x = Of(c)
  OBVIOUS
<1>0. CC!RemoveQueued(x) /\ x \in CC!Enqueued
  BY DEF CC!RemoveExecution, CC!Has, CC!Bypassed, Limited
<1>1. PICK i \in DOMAIN queue : /\ CC!IsFirstOf(i, Of(c))
                                /\ CC!ResolveNext(RemoveAt(queue, i), inUse)
  BY <1>0 DEF CC!RemoveQueued, CC!RemoveAt, RemoveAt
<1>2. i \in 1..Len(queue)
  BY <1>1, LenProperties DEF SInv, Line
<1>3. Waiting(queue[i]) /\ queue[i].resolve \in Calls /\ queue[i].executionId = Of(c)
  BY <1>1, <1>2, LineItems DEF SInv, CC!IsFirstOf
<1>4. queue[i].resolve = c
  BY <1>3 DEF Alone, Waiting, Busy
<1>5. /\ RemoveAt(queue, i) \in Seq(CC!Item)
      /\ \A k \in 1..Len(RemoveAt(queue, i)) : RemoveAt(queue, i)[k].resolve # c
  BY <1>2, <1>4, LineWithout DEF SInv, Line
<1>6. Outside(c)'
  BY <1>1, <1>3, <1>4, <1>5, ServedFrom DEF Waiting
<1> QED BY <1>3, <1>4, <1>6 DEF Waiting

LEMMA OutsideAfterThrottle ==
    ASSUME SInv, NEW d, NEW x, NEW mode, CC!Throttle(d, x, mode), NEW c \in Calls, c # d,
           Outside(c)
    PROVE  Outside(c)'
<1>1. CASE queue' = queue
  BY <1>1 DEF CC!Throttle, CC!Enqueue, Outside
<1>2. CASE queue' # queue
  <2>1. /\ queue' = Append(queue, [executionId |-> x, resolve |-> d])
        /\ settled' = settled \ {d}
    BY <1>2 DEF CC!Throttle, CC!Enqueue
  <2>2. queue \in Seq(CC!Item) /\ Len(queue) \in Nat
    BY LenProperties DEF SInv, Line
  <2>3. ASSUME NEW k \in 1..Len(queue')
        PROVE  queue'[k].resolve # c
    <3>1. CASE k \in 1..Len(queue)
      BY <2>1, <2>2, <3>1, AppendProperties DEF Outside
    <3>2. CASE k \notin 1..Len(queue)
      BY <2>1, <2>2, <3>2, AppendProperties
    <3> QED BY <3>1, <3>2
  <2> QED BY <2>1, <2>3 DEF Outside
<1> QED BY <1>1, <1>2

(***************************************************************************)
(* Every step keeps what is stored of what waits.                          *)
(***************************************************************************)
LEMMA CallAccounts ==
    ASSUME IInv, QInv, NEW c \in Calls, Busy(c), NEW x, x = Of(c),
           \A d \in Calls : d # c => call'[d] = call[d],
           \A e \in Executions : e # x => row'[e] = row[e],
           Follows(row[x], row'[x], ModeOf[x]),
           stop' = stop, boot' = boot,
           \A w \in writes' \ writes : w.id = x /\ w.mode = call[c].mode,
           \A d \in Calls : d # c /\ Outside(d) => Outside(d)',
           (Busy(c)' /\ Of(c)' = x) \/ ~Withdrawn(x),
           Busy(c)' => Stands(c)'
    PROVE  QInv'
<1>1. /\ x \in Executions /\ row[x] # Store!NotInserted /\ x \notin boot /\ Stands(c)
      /\ call[c].mode = ModeOf[x]
  BY CallFacts DEF Proper, QInv, Stands
<1>2. ASSUME NEW e \in Executions
      PROVE  Account(e)'
  <2>1. Account(e) /\ Follows(row[e], row'[e], ModeOf[e])
    BY SameFollows DEF QInv
  <2>2. \A w \in writes' : w.id = e =>
            w \in writes \/ (w.mode = ModeOf[e] /\ row[e] # Store!NotInserted)
    BY <1>1
  <2>3. stop[e].pc = "before" => \E d \in Calls : Busy(d)' /\ Of(d)' = e
    <3>1. ASSUME stop[e].pc = "before"
          PROVE  \E d \in Calls : Busy(d)' /\ Of(d)' = e
      <4>1. PICK d \in Calls : Busy(d) /\ Of(d) = e
        BY <2>1, <3>1 DEF Account
      <4>2. CASE d = c
        BY <3>1, <4>1, <4>2 DEF Withdrawn
      <4>3. CASE d # c
        BY <4>1, <4>3 DEF Busy, Of
      <4> QED BY <4>2, <4>3
    <3> QED BY <3>1
  <2> QED BY <1>1, <2>1, <2>2, <2>3, AccountKept
<1>3. ASSUME NEW d \in Calls, d # c, Busy(d)'
      PROVE  Stands(d)'
  <2>1. Busy(d) /\ Stands(d) /\ call'[d] = call[d]
    BY <1>3 DEF Busy, QInv
  <2>2. Of(d) \in Executions /\ Of(d) # x
    BY <1>3, <2>1, CallFacts DEF IInv, Alone
  <2>3. Saving(Of(d))' => Saving(Of(d))
    BY <2>1, <2>2 DEF Saving, Of
  <2> QED BY <1>3, <2>1, <2>2, <2>3, StandsKept
<1> QED BY <1>2, <1>3 DEF QInv

\* An invocation that waits for nothing goes on, or ends.
LEMMA CallGoesOn ==
    ASSUME IInv, QInv, NEW c \in Calls, Busy(c), ~Withheld(c), NEW x, x = Of(c),
           \A d \in Calls : d # c => call'[d] = call[d],
           \A e \in Executions : e # x => row'[e] = row[e],
           Follows(row[x], row'[x], ModeOf[x]),
           stop' = stop, boot' = boot,
           \A w \in writes' \ writes : w.id = x /\ w.mode = call[c].mode,
           \A d \in Calls : d # c /\ Outside(d) => Outside(d)',
           \/ ~Busy(c)'
           \/ Of(c)' = x /\ call'[c].mode = call[c].mode /\ call'[c].pc \notin BeforeRun
    PROVE  QInv'
<1>1. Stands(c) /\ ~Withdrawn(x) /\ ~Withdrawn(x)'
  BY DEF QInv, Stands, Withdrawn
<1>2. Busy(c)' => Stands(c)'
  BY <1>1 DEF Stands, BeforeRun
<1> QED BY <1>1, <1>2, CallAccounts

LEMMA SameOutside ==
    ASSUME UNCHANGED ccVars
    PROVE  \A d \in Calls : Outside(d) => Outside(d)'
BY DEF Outside, ccVars

LEMMA InsertDataStores ==
    ASSUME IInv, SInv, QInv, NEW c \in Calls, InsertData(c)
    PROVE  QInv'
<1>1. Busy(c) /\ call[c].pc = "inserting"
  BY DEF InsertData, Busy
<1>2. PICK x \in Executions : x = Of(c)
  BY <1>1, CallFacts
<1>3. /\ call'[c].pc = "stored" /\ Of(c)' = x /\ call'[c].mode = call[c].mode
      /\ \A d \in Calls : d # c => call'[d] = call[d]
  BY <1>1, <1>2, CallFacts, Moved DEF InsertData, CallPcs, Of
<1>4. /\ UNCHANGED <<processVars, writes, stop, ccVars>>
      /\ row' = [row EXCEPT ![x] = Store!WithInsertedData(@)]
  BY <1>2 DEF InsertData, Of
<1>5. /\ row'[x] = Store!WithInsertedData(row[x]) /\ row[x] \in AllRows
      /\ \A e \in Executions : e # x => row'[e] = row[e]
  BY <1>1, <1>2, <1>4, CallFacts DEF TypeOK
<1>6. Stands(c) /\ row[x].status = "new" /\ Bare(row[x]) /\ ~Saving(x)
  BY <1>1, <1>2 DEF QInv, Stands, BeforeRun
<1>7. Store!Exists(row[x]) /\ row[x] \in Stored
  BY <1>5, <1>6, RowKinds DEF Store!Exists, Store!Statuses
<1>8. row'[x].status = "new" /\ row'[x].data = "initial" /\ row'[x].mode = row[x].mode
  <2>1. row'[x] = [row[x] EXCEPT !.data = "initial"]
    BY <1>5, <1>7 DEF Store!WithInsertedData
  <2> QED BY <1>6, <1>7, <2>1 DEF Stored
<1>9. Follows(row[x], row'[x], ModeOf[x])
  BY <1>6, <1>7, <1>8 DEF Follows
<1>10. ~Withdrawn(x)
  BY <1>6 DEF QInv, Account, Withdrawn
<1>11. Stands(c)'
  BY <1>2, <1>3, <1>4, <1>6, <1>8, <1>10
     DEF Stands, BeforeRun, Fresh, Saving, Withdrawn, processVars
<1> QED
  BY <1>1, <1>2, <1>3, <1>4, <1>5, <1>9, <1>10, <1>11, CallAccounts, SameOutside
     DEF processVars

LEMMA ThrottleNewStores ==
    ASSUME IInv, SInv, QInv, NEW c \in Calls, ThrottleNew(c)
    PROVE  QInv'
<1>1. Busy(c) /\ call[c].pc = "stored"
  BY DEF ThrottleNew, Busy
<1>2. PICK x \in Executions : x = Of(c)
  BY <1>1, CallFacts
<1>3. /\ call'[c].pc = "throttled" /\ Of(c)' = x /\ call'[c].mode = call[c].mode
      /\ \A d \in Calls : d # c => call'[d] = call[d]
  BY <1>1, <1>2, CallFacts, Moved DEF ThrottleNew, CallPcs, Of
<1>4. UNCHANGED <<row, boot, writes, stop>> /\ CC!Throttle(c, call[c].id, call[c].mode)
  BY DEF ThrottleNew
<1>5. Stands(c) /\ ~Withdrawn(x)
  BY <1>1, <1>2 DEF QInv, Stands, Withheld
<1>6. Stands(c)'
  BY <1>1, <1>2, <1>3, <1>4, <1>5
     DEF Stands, BeforeRun, Fresh, Excused, Saving, Withdrawn
<1>7. \A d \in Calls : d # c /\ Outside(d) => Outside(d)'
  BY <1>4, OutsideAfterThrottle
<1> QED
  BY <1>1, <1>2, <1>3, <1>4, <1>5, <1>6, <1>7, CallAccounts, SameFollows

LEMMA EnteringStores ==
    ASSUME IInv, SInv, QInv, NEW c \in Calls,
           \/ Register(c) \/ BeginUpdate(c) \/ UpdateExisting(c)
           \/ NodeLogged(c) \/ EngineEnds(c)
    PROVE  QInv'
<1>1. Busy(c) /\ ~Withheld(c)
  BY DEF Register, BeginUpdate, UpdateExisting, NodeLogged, EngineEnds, LetThrough, Busy,
         Withheld, Outside
<1>2. PICK x \in Executions : x = Of(c)
  BY <1>1, CallFacts
<1>3. /\ call'[c].pc \notin BeforeRun /\ Of(c)' = x /\ call'[c].mode = call[c].mode
      /\ \A d \in Calls : d # c => call'[d] = call[d]
  <2>1. TypeOK /\ call \in [Calls -> CallRecords]
    BY DEF IInv, TypeOK, CallRecords
  <2>2. CASE call' = call /\ call[c].pc \in {"executing", "orphaned"}
    BY <1>2, <2>2 DEF BeforeRun, Of
  <2>3. ASSUME NEW pc \in {"starting", "updating"}, call' = Goto(c, pc)
        PROVE  /\ call'[c].pc \notin BeforeRun /\ Of(c)' = x
               /\ call'[c].mode = call[c].mode
               /\ \A d \in Calls : d # c => call'[d] = call[d]
    BY <1>2, <2>1, <2>3, Moved DEF CallPcs, BeforeRun, Of
  <2>4. CASE EngineEnds(c)
    <3> DEFINE pc == IF call[c].pc = "executing" THEN "saving" ELSE "savingOrphan"
    <3>1. PICK o : call' = [call EXCEPT ![c].outcome = o, ![c].pc = pc]
      BY <2>4 DEF EngineEnds
    <3>9. pc \in {"saving", "savingOrphan"}
      OBVIOUS
    <3> HIDE DEF pc
    <3>2. call[c] \in CallRecords
      BY <2>1
    <3>3. /\ call'[c] = [call[c] EXCEPT !.outcome = o, !.pc = pc]
          /\ \A d \in Calls : d # c => call'[d] = call[d]
      BY ONLY <2>1, <3>1, c \in Calls
    <3>4. call'[c].pc = pc /\ Of(c)' = x /\ call'[c].mode = call[c].mode
      BY <1>2, <3>2, <3>3 DEF CallRecords, Of
    <3> QED
      BY <3>3, <3>4, <3>9 DEF BeforeRun
  <2> QED
    BY <2>2, <2>3, <2>4 DEF Register, BeginUpdate, UpdateExisting, NodeLogged
<1>4. /\ UNCHANGED <<boot, writes, stop, ccVars>>
      /\ row' = row \/ row' = [row EXCEPT ![x] = Store!Resumed(@)]
  BY <1>2 DEF Register, BeginUpdate, UpdateExisting, NodeLogged, EngineEnds, processVars, Of
<1>5. /\ Follows(row[x], row'[x], ModeOf[x])
      /\ \A e \in Executions : e # x => row'[e] = row[e]
  <2>1. row \in [Executions -> AllRows] /\ ModeOf[x] \in CC!Modes
    BY ModesAssumption DEF IInv, TypeOK, AllRows
  <2> QED BY <1>4, <2>1, RowFollows, SameFollows
<1> QED
  BY <1>1, <1>2, <1>3, <1>4, <1>5, CallGoesOn, SameOutside

LEMMA LeavingStores ==
    ASSUME IInv, SInv, QInv, NEW c \in Calls, PermissionDenied(c) \/ EngineResolves(c)
    PROVE  QInv'
<1>1. /\ Busy(c) /\ ~Withheld(c) /\ call' = [call EXCEPT ![c] = IdleCall]
      /\ RemoveActive(Of(c)) /\ UNCHANGED <<boot, stop>>
  BY DEF PermissionDenied, EngineResolves, Busy, Withheld, Of, processVars
<1>2. PICK x \in Executions : x = Of(c)
  BY <1>1, CallFacts
<1>3. ~Busy(c)' /\ \A d \in Calls : d # c => call'[d] = call[d]
  BY <1>1, IdleRecord DEF IInv, TypeOK, Busy
<1>4. /\ row' = row \/ row' = [row EXCEPT ![x] = Store!Saved(@, "error", call[c].mode)]
      /\ \A w \in writes' \ writes : w.id = x /\ w.mode = call[c].mode
  BY <1>2 DEF PermissionDenied, EngineResolves, Of, HookWrite
<1>5. /\ Follows(row[x], row'[x], ModeOf[x])
      /\ \A e \in Executions : e # x => row'[e] = row[e]
  <2>1. row \in [Executions -> AllRows] /\ ModeOf[x] \in CC!Modes /\ call[c].mode = ModeOf[x]
    BY <1>1, <1>2, ModesAssumption DEF IInv, TypeOK, AllRows, QInv, Stands
  <2>2. "error" \in Store!Statuses \ {"new", "running"}
    BY DEF Store!Statuses
  <2> QED BY <1>4, <2>1, <2>2, RowFollows, SameFollows
<1>6. \A d \in Calls : d # c /\ Outside(d) => Outside(d)'
  BY <1>1, OutsideAfterRemoval
<1> QED
  BY <1>1, <1>2, <1>3, <1>4, <1>5, <1>6, CallGoesOn

LEMMA RunningStores ==
    ASSUME IInv, SInv, QInv, NEW c \in Calls, RunMainProcess(c) \/ EngineSaves(c)
    PROVE  QInv'
<1>1. Busy(c) /\ ~Withheld(c)
  BY DEF RunMainProcess, EngineSaves, Busy, Withheld
<1>2. PICK x \in Executions : x = Of(c)
  BY <1>1, CallFacts
<1>3. row \in [Executions -> AllRows] /\ ModeOf[x] \in CC!Modes /\ call[c].mode = ModeOf[x]
  BY <1>1, <1>2, ModesAssumption DEF IInv, TypeOK, AllRows, QInv, Stands
<1>4. call \in [Calls -> CallRecords] /\ Placed(c) /\ Proper(c) /\ TypeOK /\ Tidy
  BY <1>1, CallFacts DEF TypeOK, CallRecords
<1>5. CASE RunMainProcess(c)
  <2>1. call[c].pc = "starting" /\ active[x] # NoEntry
    BY <1>1, <1>2, <1>4, <1>5, EntryRecord DEF RunMainProcess, Placed
  <2>2. /\ call' = [call EXCEPT ![c].pc = "executing", ![c].timer = Timeouts]
        /\ row' = [row EXCEPT ![x] = Store!WithStatus(@, "running")]
        /\ UNCHANGED <<boot, writes, stop, ccVars>>
    BY <1>2, <1>5, <2>1 DEF RunMainProcess, Of
  <2>3. /\ Of(c)' = x /\ call'[c].mode = call[c].mode /\ call'[c].pc \notin BeforeRun
        /\ \A d \in Calls : d # c => call'[d] = call[d]
    BY <1>2, <1>4, <2>2 DEF CallRecords, BeforeRun, Of
  <2>4. /\ Follows(row[x], row'[x], ModeOf[x])
        /\ \A e \in Executions : e # x => row'[e] = row[e]
    <3>1. "running" \in Store!Statuses \ {"new"}
      BY DEF Store!Statuses
    <3> QED BY <1>3, <2>2, <3>1, RowFollows
  <2> QED BY <1>1, <1>2, <2>2, <2>3, <2>4, CallGoesOn, SameOutside
<1>6. CASE EngineSaves(c)
  <2>1. /\ call[c].pc = "saving" /\ call' = Goto(c, "resolving")
        /\ UNCHANGED <<boot, writes, stop, ccVars>>
    BY <1>4, <1>6 DEF EngineSaves, Placed, processVars
  <2>2. /\ Of(c)' = x /\ call'[c].mode = call[c].mode /\ call'[c].pc \notin BeforeRun
        /\ \A d \in Calls : d # c => call'[d] = call[d]
    BY <1>2, <1>4, <2>1, Moved DEF CallPcs, BeforeRun, Of
  <2>3. /\ Follows(row[x], row'[x], ModeOf[x])
        /\ \A e \in Executions : e # x => row'[e] = row[e]
    <3>1. \/ row' = row
          \/ /\ call[c].outcome # "aborted"
             /\ row' = [row EXCEPT ![x] = Store!Saved(@, call[c].outcome, call[c].mode)]
      BY <1>2, <1>6 DEF EngineSaves, Of
    <3>2. call[c].outcome # "aborted" => call[c].outcome \in Store!Statuses \ {"new", "running"}
      BY <1>1, <1>4, <2>1, OutcomesAssumption DEF Proper, CallRecords, Store!Statuses
    <3> QED BY <1>3, <3>1, <3>2, RowFollows, SameFollows
  <2> QED BY <1>1, <1>2, <2>1, <2>2, <2>3, CallGoesOn, SameOutside
<1> QED BY <1>5, <1>6

\* An engine that a stop or a timeout finds is that of the one invocation.
LEMMA EngineIs ==
    ASSUME IInv, NEW c \in Calls, Busy(c), Attached(Of(c))
    PROVE  Engine(Of(c)) = c /\ call[c].pc \in {"executing", "saving", "resolving"}
<1>1. active[Of(c)] # NoEntry /\ active[Of(c)].workflowExecution # NoCall
  BY DEF Attached
<1>2. Entry(c, NoCall).workflowExecution = NoCall /\ Entry(c, c).workflowExecution = c
  BY DEF Entry
<1>3. Placed(c)
  BY CallFacts
<1> QED BY <1>1, <1>2, <1>3 DEF Placed, Engine

LEMMA TimeoutStores ==
    ASSUME IInv, SInv, QInv, NEW c \in Calls, TimeoutFires(c)
    PROVE  QInv'
<1>1. Busy(c) /\ call[c].timer
  BY IdleRecord DEF TimeoutFires, IInv, Tidy
<1>2. PICK x \in Executions : x = Of(c)
  BY <1>1, CallFacts
<1>3. Attached(Of(c)) /\ StopExecution(x) /\ UNCHANGED <<row, boot, stop>>
      /\ call' = [call EXCEPT ![c].timer = FALSE]
  BY <1>2 DEF TimeoutFires, Of, processVars
<1>4. Engine(x) = c /\ call[c].pc \in {"executing", "saving", "resolving"}
  BY <1>1, <1>2, <1>3, EngineIs
<1>5. /\ Of(c)' = x /\ call'[c].mode = call[c].mode /\ call'[c].pc \notin BeforeRun
      /\ \A d \in Calls : d # c => call'[d] = call[d]
  <2>1. call \in [Calls -> CallRecords]
    BY DEF IInv, TypeOK, CallRecords
  <2> QED BY <1>2, <1>3, <1>4, <2>1 DEF CallRecords, BeforeRun, Of
<1>6. \A w \in writes' \ writes : w.id = x /\ w.mode = call[c].mode
  BY <1>3, <1>4 DEF StopExecution, HookWrite
<1>7. \A d \in Calls : d # c /\ Outside(d) => Outside(d)'
  BY <1>3, OutsideAfterRemoval DEF StopExecution
<1>8. ~Withheld(c)
  BY <1>4 DEF Withheld
<1> QED
  BY <1>1, <1>2, <1>3, <1>5, <1>6, <1>7, <1>8, CallGoesOn, SameFollows

\* An invocation of an execution that had none.
LEMMA NewcomerStands ==
    ASSUME IInv, QInv, NEW c \in Calls, ~Busy(c), NEW x,
           \A d \in Calls : d # c => call'[d] = call[d],
           \A e \in Executions : e # x => row'[e] = row[e],
           \A d \in Calls : Busy(d) => Of(d) # x,
           stop' = stop, writes' = writes, boot' \subseteq boot,
           \A d \in Calls : d # c /\ Outside(d) => Outside(d)',
           Account(x)', Stands(c)'
    PROVE  QInv'
<1>1. ASSUME NEW e \in Executions, e # x
      PROVE  Account(e)'
  <2>1. Account(e) /\ Follows(row[e], row'[e], ModeOf[e])
    BY <1>1, SameFollows DEF QInv
  <2>2. stop[e].pc = "before" => \E d \in Calls : Busy(d)' /\ Of(d)' = e
    BY <2>1 DEF Account, Busy, Of
  <2> QED BY <1>1, <2>1, <2>2, AccountKept
<1>2. ASSUME NEW d \in Calls, d # c, Busy(d)'
      PROVE  Stands(d)'
  <2>1. Busy(d) /\ Stands(d) /\ call'[d] = call[d] /\ Of(d) # x
    BY <1>2 DEF Busy, QInv
  <2>2. Of(d) \in Executions
    BY <2>1, CallFacts
  <2>3. Saving(Of(d))' => Saving(Of(d))
    BY <2>1 DEF Saving, Of
  <2> QED BY <1>2, <2>1, <2>2, <2>3, StandsKept
<1> QED BY <1>1, <1>2 DEF QInv

LEMMA CreateStores ==
    ASSUME IInv, SInv, QInv, NEW c \in Calls, NEW x \in Executions, Create(c, x)
    PROVE  QInv'
<1>1. row[x] = Store!NotInserted /\ ~Busy(c)
  BY DEF Create, Idle, Busy
<1>2. /\ call'[c].pc = "inserting" /\ Of(c)' = x /\ call'[c].mode = ModeOf[x]
      /\ \A d \in Calls : d # c => call'[d] = call[d]
  BY DEF Create, IdleCall, IInv, TypeOK, Of
<1>3. /\ row'[x] = Store!InsertedEntity(ModeOf[x])
      /\ \A e \in Executions : e # x => row'[e] = row[e]
      /\ UNCHANGED <<boot, writes, stop, ccVars>>
  BY DEF Create, IInv, TypeOK, processVars
<1>4. row'[x].status = "new" /\ row'[x].data = "missing" /\ row'[x].mode = ModeOf[x]
  BY <1>3 DEF Store!InsertedEntity
<1>5. Account(x) /\ Known(x) /\ Bare(row[x])
  BY <1>1 DEF QInv, IInv, Bare
<1>6. stop[x].pc = "idle" /\ x \notin boot /\ \A w \in writes : w.id # x
  BY <1>1, <1>5, NotInsertedRow DEF Account, Known
<1>7. Account(x)'
  BY <1>3, <1>4, <1>6 DEF Account
<1>8. Stands(c)'
  BY <1>2, <1>3, <1>4, <1>6 DEF Stands, Bare, Saving, Withdrawn
<1>9. \A d \in Calls : Busy(d) => Of(d) # x
  BY <1>1, CallFacts
<1> QED
  BY <1>1, <1>2, <1>3, <1>7, <1>8, <1>9, SameOutside, NewcomerStands

LEMMA RunEnqueuedStores ==
    ASSUME IInv, SInv, QInv, NEW c \in Calls, RunEnqueued(c)
    PROVE  QInv'
<1>1. PICK x \in boot : boot' = boot \ {x} /\ ThrottleKnown(c, x, row[x].mode)
  BY DEF RunEnqueued
<1>2. x \in Executions /\ Known(x) /\ Account(x) /\ ~Busy(c)
  BY <1>1 DEF IInv, TypeOK, QInv, RunEnqueued, Idle, Busy
<1>3. /\ call'[c].pc = "throttled" /\ Of(c)' = x /\ call'[c].mode = row[x].mode
      /\ \A d \in Calls : d # c => call'[d] = call[d]
  BY <1>1 DEF ThrottleKnown, IdleCall, IInv, TypeOK, Of
<1>4. UNCHANGED <<row, writes, stop>>
  BY DEF RunEnqueued
<1>5. /\ row[x].mode = ModeOf[x] /\ ~Saving(x) /\ ~Withdrawn(x)
      /\ Fresh(x) \/ Excused(x)
  BY <1>1, <1>2 DEF Known, Account
<1>6. Account(x)'
  BY <1>1, <1>2, <1>4, <1>5 DEF Account, Withdrawn
<1>7. Stands(c)'
  BY <1>3, <1>4, <1>5 DEF Stands, Fresh, Excused, Saving, Withdrawn
<1>8. \A d \in Calls : Busy(d) => Of(d) # x
  BY <1>1, CallFacts DEF Proper
<1>9. \A d \in Calls : d # c /\ Outside(d) => Outside(d)'
  BY <1>1, OutsideAfterThrottle DEF ThrottleKnown
<1> QED
  BY <1>1, <1>2, <1>3, <1>4, <1>6, <1>7, <1>8, <1>9, NewcomerStands

LEMMA HookStores ==
    ASSUME IInv, SInv, QInv, NEW w \in writes, HookSaves(w)
    PROVE  QInv'
<1>1. PICK x \in Executions : x = w.id
  BY DEF IInv, TypeOK
<1>2. /\ UNCHANGED <<call, boot, stop, ccVars>> /\ writes' = writes \ {w}
      /\ row' = [row EXCEPT ![x] = Store!Saved(@, w.status, w.mode)]
  BY <1>1 DEF HookSaves, processVars
<1>3. w.mode = ModeOf[x] /\ ModeOf[x] \in CC!Modes /\ Saving(x) /\ x \notin boot
  BY <1>1, ModesAssumption DEF QInv, Account, Saving, IInv, Known
<1>4. /\ \A e \in Executions : Follows(row[e], row'[e], ModeOf[e])
      /\ \A e \in Executions : e # x => row'[e] = row[e]
  <2>1. row \in [Executions -> AllRows]
    BY DEF IInv, TypeOK, AllRows
  <2>2. w.status \in Store!Statuses \ {"new", "running"}
    BY DEF IInv, TypeOK, Store!Statuses
  <2> QED BY <1>2, <1>3, <2>1, <2>2, RowFollows, SameFollows
<1>5. ASSUME NEW e \in Executions
      PROVE  Account(e)'
  <2>1. Account(e)
    BY DEF QInv
  <2>2. stop[e].pc = "before" => \E c \in Calls : Busy(c)' /\ Of(c)' = e
    BY <1>2, <2>1 DEF Account, Busy, Of
  <2> QED BY <1>2, <1>3, <1>4, <2>1, <2>2, AccountKept
<1>6. ASSUME NEW c \in Calls, Busy(c)'
      PROVE  Stands(c)'
  <2>1. Busy(c) /\ Stands(c)
    BY <1>2, <1>6 DEF Busy, QInv
  <2>2. Of(c) \in Executions
    BY <2>1, CallFacts
  <2>3. call[c].pc \in BeforeRun => row'[Of(c)] = row[Of(c)]
    BY <1>3, <1>4, <2>1, <2>2 DEF Stands
  <2>4. Saving(Of(c))' => Saving(Of(c))
    BY <1>2 DEF Saving, Of
  <2> QED BY <1>2, <2>1, <2>3, <2>4, SameOutside, StandsKept
<1> QED BY <1>5, <1>6 DEF QInv

-------------------------------------------------------------------------------
LEMMA StopKeepsOthers ==
    ASSUME IInv, QInv, NEW x \in Executions, call' = call, boot' = boot,
           \A e \in Executions : e # x => row'[e] = row[e] /\ stop'[e] = stop[e],
           \A w \in writes' \ writes : w.id = x,
           \A d \in Calls : Outside(d) => Outside(d)',
           Account(x)',
           \A c \in Calls : Busy(c) /\ Of(c) = x => Stands(c)'
    PROVE  QInv'
<1>1. ASSUME NEW e \in Executions, e # x
      PROVE  Account(e)'
  <2>1. Account(e) /\ Follows(row[e], row'[e], ModeOf[e])
    BY <1>1, SameFollows DEF QInv
  <2>2. stop[e].pc = "before" => \E d \in Calls : Busy(d)' /\ Of(d)' = e
    BY <2>1 DEF Account, Busy, Of
  <2> QED BY <1>1, <2>1, <2>2, AccountKept
<1>2. ASSUME NEW d \in Calls, Busy(d)', Of(d) # x
      PROVE  Stands(d)'
  <2>1. Busy(d) /\ Stands(d) /\ Of(d) \in Executions
    BY <1>2, CallFacts DEF Busy, QInv
  <2>2. Saving(Of(d))' => Saving(Of(d))
    BY <1>2 DEF Saving, Of
  <2> QED BY <1>2, <2>1, <2>2, StandsKept
<1> QED BY <1>1, <1>2 DEF QInv, Busy

\* A request that does not touch the row, and finds nothing in the queue.
LEMMA StopRequestStores ==
    ASSUME IInv, SInv, QInv, NEW x \in Executions,
           StopRequested(x) \/ StopFails(x) \/ StopUnknown(x) \/ StopActive(x)
    PROVE  QInv'
<1>1. /\ UNCHANGED <<row, call, boot>> /\ Account(x) /\ TypeOK
      /\ \A e \in Executions : e # x => stop'[e] = stop[e]
  BY DEF StopRequested, StopFails, StopUnknown, StopActive, QInv, IInv, TypeOK, processVars
<1>2. /\ stop[x].pc \in {"idle", "read"}
      /\ stop'[x].pc \in {"read", "failed", "during"}
  BY <1>1 DEF StopRequested, StopFails, StopUnknown, StopActive, TypeOK
<1>3. stop'[x].mode = ModeOf[x] /\ ~Bare(row[x])
  <2>1. CASE StopRequested(x)
    <3>1. Store!Exists(row[x]) /\ row[x].data # "missing" /\ stop'[x].mode = row[x].mode
      BY <1>1, <2>1 DEF StopRequested, Store!Stoppable, Store!Exists, Store!Statuses, TypeOK
    <3> QED BY <1>1, <3>1, NotInsertedRow DEF Account, Bare
  <2>2. CASE StopFails(x) \/ StopUnknown(x) \/ StopActive(x)
    BY <1>1, <2>2 DEF StopFails, StopUnknown, StopActive, TypeOK, Account
  <2> QED BY <2>1, <2>2
<1>4. \A w \in writes' \ writes : /\ w.id = x /\ Attached(x)
                                  /\ w.mode = call[Engine(x)].mode
  BY DEF StopRequested, StopFails, StopUnknown, StopActive, StopExecution, HookWrite
<1>5. Attached(x) => \E c \in Calls : Busy(c) /\ Of(c) = x /\ Engine(x) = c /\ Stands(c)
  <2>1. ASSUME Attached(x)
        PROVE  \E c \in Calls : Busy(c) /\ Of(c) = x /\ Engine(x) = c /\ Stands(c)
    <3>1. PICK c \in Calls : Busy(c) /\ Of(c) = x
      BY <2>1 DEF Attached, IInv, Known
    <3> QED BY <2>1, <3>1, EngineIs DEF QInv
  <2> QED BY <2>1
<1>6. /\ \A w \in writes' \ writes : w.mode = ModeOf[x] /\ row[x] # Store!NotInserted
  BY <1>3, <1>4, <1>5 DEF Stands, Bare
<1>7. Account(x)'
  BY <1>1, <1>2, <1>3, <1>6 DEF Account, Fresh, Excused, Withdrawn
<1>8. \A d \in Calls : Outside(d) => Outside(d)'
  <2>1. CASE UNCHANGED ccVars
    BY <2>1, SameOutside
  <2>2. CASE RemoveActive(x)
    BY <2>2, OutsideAfterRemoval
  <2> QED
    BY <2>1, <2>2 DEF StopRequested, StopFails, StopUnknown, StopActive, StopExecution
<1>9. ASSUME NEW c \in Calls, Busy(c), Of(c) = x
      PROVE  Stands(c)'
  <2>1. Stands(c)
    BY <1>9 DEF QInv
  <2>2. call[c].pc \in BeforeRun => ~Attached(x)
    BY <1>9, EngineIs DEF BeforeRun
  <2>3. call[c].pc \in BeforeRun => ~Saving(x)'
    BY <1>4, <1>9, <2>1, <2>2 DEF Stands, Saving
  <2> QED
    BY <1>1, <1>2, <1>9, <2>1, <2>3 DEF Stands, BeforeRun, Fresh, Excused, Withdrawn, Of
<1> QED BY <1>1, <1>4, <1>7, <1>8, <1>9, StopKeepsOthers

LEMMA StopEnqueuedStores ==
    ASSUME IInv, SInv, QInv, NEW x \in Executions, StopEnqueued(x)
    PROVE  QInv'
<1>1. /\ UNCHANGED <<row, call, boot, writes>> /\ Account(x)
      /\ \A e \in Executions : e # x => stop'[e] = stop[e]
      /\ stop[x].pc = "read" /\ stop'[x].pc = "before" /\ stop'[x].mode = stop[x].mode
      /\ CC!Has(x) /\ CC!RemoveExecution(x, stop[x].mode)
  BY DEF StopEnqueued, QInv, IInv, TypeOK, processVars
<1>2. PICK c \in Calls : Waiting([executionId |-> x, resolve |-> c])
  <2>1. PICK i \in DOMAIN queue : queue[i].executionId = x
    BY <1>1 DEF CC!Has, CC!Enqueued
  <2>2. i \in 1..Len(queue)
    BY <2>1, LenProperties DEF SInv, Line
  <2> QED BY <2>1, <2>2, LineItems DEF SInv, Waiting
<1>3. Busy(c) /\ Of(c) = x /\ Limited(call[c].mode) /\ Stands(c)
  BY <1>2 DEF Waiting, Busy, QInv
<1>4. Limited(stop[x].mode)
  BY <1>1, <1>3 DEF Account, Stands
<1>5. call[c].pc = "throttled" /\ Outside(c)'
  BY <1>1, <1>3, <1>4, StoppedIsOutside DEF IInv
<1>6. x \notin boot
  BY <1>3, CallFacts DEF Proper
<1>7. Account(x)'
  BY <1>1, <1>3, <1>6 DEF Account, Busy, Of
<1>8. ASSUME NEW d \in Calls, Busy(d), Of(d) = x
      PROVE  Stands(d)'
  <2>1. d = c
    BY <1>3, <1>8 DEF IInv, Alone
  <2> QED
    BY <1>1, <1>3, <1>5, <2>1 DEF Stands, BeforeRun, Withdrawn, Withheld, Saving, Of
<1>9. \A d \in Calls : Outside(d) => Outside(d)'
  BY <1>1, OutsideAfterStop
<1> QED BY <1>1, <1>7, <1>8, <1>9, StopKeepsOthers

LEMMA StopStoredStores ==
    ASSUME IInv, SInv, QInv, NEW x \in Executions, StopStored(x)
    PROVE  QInv'
<1>1. /\ UNCHANGED <<call, boot, writes, ccVars>> /\ Account(x)
      /\ \A e \in Executions : e # x => row'[e] = row[e] /\ stop'[e] = stop[e]
  BY DEF StopStored, QInv, IInv, TypeOK, processVars
<1>2. row[x] \in AllRows /\ ModeOf[x] \in CC!Modes
  BY ModesAssumption DEF IInv, TypeOK, AllRows
<1>3. /\ Follows(row[x], row'[x], ModeOf[x]) /\ row'[x].status # "new"
      /\ \/ stop[x].pc = "before" /\ stop'[x].pc = "stoppedBefore"
         \/ stop[x].pc = "during" /\ stop'[x].pc = "stoppedDuring"
      /\ stop'[x].mode = stop[x].mode
  <2>1. CASE stop[x].pc = "before"
    <3>1. row'[x] = Store!WithStatus(row[x], "canceled") /\ "canceled" \in Store!Statuses \ {"new"}
          /\ stop'[x].pc = "stoppedBefore" /\ stop'[x].mode = stop[x].mode
      BY <2>1 DEF StopStored, Store!StoppedBeforeRun, Store!Statuses, IInv, TypeOK
    <3> QED BY <1>2, <2>1, <3>1, RowFollows, StatusRow
  <2>2. CASE stop[x].pc = "during"
    <3>1. row'[x] = Store!StoppedDuringRun(row[x])
          /\ stop'[x].pc = "stoppedDuring" /\ stop'[x].mode = stop[x].mode
      BY <2>2 DEF StopStored, IInv, TypeOK
    <3> QED BY <1>2, <2>2, <3>1, RowFollows, StoppedRow
  <2> QED BY <2>1, <2>2 DEF StopStored
<1>4. x \in boot => stop[x].pc = "during"
  BY <1>1, <1>3 DEF Account, Withdrawn
<1>5. row'[x] = Store!NotInserted => row[x] = Store!NotInserted
  BY <1>3 DEF Follows
<1>6. Account(x)'
  <2>1. Store!Exists(row'[x]) => row'[x].mode = ModeOf[x]
    BY <1>1, <1>3 DEF Follows, Account
  <2>2. stop'[x].mode = ModeOf[x] /\ ~Bare(row'[x])
    BY <1>1, <1>3, <1>5 DEF Account, Bare
  <2>3. \A w \in writes' : w.id = x => w.mode = ModeOf[x] /\ row'[x] # Store!NotInserted
    BY <1>1, <1>5 DEF Account
  <2> QED
    BY <1>1, <1>3, <1>4, <2>1, <2>2, <2>3 DEF Account, Excused, Withdrawn
<1>7. ASSUME NEW c \in Calls, Busy(c), Of(c) = x
      PROVE  Stands(c)'
  <2>1. Stands(c) /\ call[c].pc # "inserting"
    BY <1>1, <1>3, <1>7 DEF QInv, Stands, Account
  <2>2. Outside(c) => Outside(c)'
    BY <1>1, SameOutside
  <2> QED
    BY <1>1, <1>3, <1>7, <2>1, <2>2
       DEF Stands, BeforeRun, Excused, Withdrawn, Withheld, Saving, Of
<1> QED BY <1>1, <1>6, <1>7, SameOutside, StopKeepsOthers

-------------------------------------------------------------------------------
LEMMA NobodyThere ==
    ASSUME \A c \in Calls : ~Busy(c)', \A e \in Executions : Account(e)'
    PROVE  QInv'
BY DEF QInv, Busy

LEMMA DownStores ==
    ASSUME IInv, QInv, GoDown
    PROVE  QInv'
<1>1. /\ \A c \in Calls : ~Busy(c)'
      /\ row' = row /\ boot' = {} /\ writes' = {}
  BY IdleRecord DEF GoDown, Busy
<1>2. ASSUME NEW e \in Executions
      PROVE  Account(e)'
  <2>1. Account(e)
    BY DEF QInv
  <2>2. \/ stop'[e].pc = "idle"
        \/ stop'[e] = stop[e] /\ stop[e].pc # "before"
    BY DEF GoDown, IdleStop
  <2> QED BY <1>1, <2>1, <2>2 DEF Account
<1> QED BY <1>1, <1>2, NobodyThere

LEMMA RecoveredFollows ==
    ASSUME TypeOK, NEW e \in Executions, NEW mode \in CC!Modes,
           Store!Exists(row[e]) => row[e].mode = mode
    PROVE  Follows(row[e], Recovered(e), mode)
<1>1. row[e] \in AllRows /\ eventLog[e].events \in {"none", "started", "nodes"}
  BY DEF TypeOK, AllRows
<1>2. {"crashed", "waiting", "error"} \subseteq Store!Statuses \ {"new", "running"}
  BY DEF Store!Statuses
<1>3. CASE RecoveryMode = "simple"
  <2>1. Recovered(e) = Store!WithStatus(row[e], "crashed")
    BY <1>3 DEF Recovered
  <2> QED BY <1>1, <1>2, <2>1, RowFollows
<1>4. CASE RecoveryMode # "simple"
  <2>1. ASSUME NEW status \in {"crashed", "waiting", "error"}
        PROVE  Follows(row[e], Store!Saved(row[e], status, row[e].mode), mode)
    <3>1. CASE Store!Exists(row[e])
      BY <1>1, <1>2, <3>1, RowFollows
    <3>2. CASE ~Store!Exists(row[e])
      BY <3>2, SameFollows DEF Store!Saved
    <3> QED BY <3>1, <3>2
  <2>2. Follows(row[e], Amended(row[e]), mode)
    BY <2>1, SameFollows DEF Amended
  <2> QED BY <1>1, <1>4, <2>1, <2>2, SameFollows DEF Recovered
<1> QED BY <1>3, <1>4

\* When requests wait for the end of startup, nothing is under way before it.
QuietBoot ==
    phase \in {"down", "listening", "recovered"}
        => (\A c \in Calls : ~Busy(c)) /\ writes = {}

LEMMA NextQuietBoot ==
    ASSUME OrderlyBoot, IInv, QuietBoot, [Next]_vars
    PROVE  QuietBoot'
<1> DEFINE Early == phase \in {"down", "listening", "recovered"}
<1>1. ASSUME NEW c \in Calls, NEW e \in Executions, Create(c, e)
      PROVE  ~Early'
  BY <1>1 DEF Create, OrderlyBoot, Alive, processVars
<1>2. ASSUME NEW c \in Calls, CallStep(c)
      PROVE  ~Early'
  <2>1. Busy(c)
    BY <1>2 DEF CallStep, InsertData, ThrottleNew, Register, BeginUpdate, UpdateExisting,
       PermissionDenied, RunMainProcess, NodeLogged, EngineEnds, EngineSaves, EngineResolves,
       LetThrough, Busy
  <2>2. phase' = phase
    BY <1>2 DEF CallStep, InsertData, ThrottleNew, Register, BeginUpdate, UpdateExisting,
       PermissionDenied, RunMainProcess, NodeLogged, EngineEnds, EngineSaves, EngineResolves,
       processVars
  <2> QED BY <2>1, <2>2 DEF QuietBoot
<1>3. ASSUME NEW c \in Calls, TimeoutFires(c)
      PROVE  ~Early'
  <2>1. Busy(c) /\ phase' = phase
    BY <1>3, IdleRecord DEF TimeoutFires, IInv, Tidy, processVars
  <2> QED BY <2>1 DEF QuietBoot
<1>4. ASSUME NEW c \in Calls, RunEnqueued(c)
      PROVE  ~Early'
  BY <1>4 DEF RunEnqueued, IInv, Booting
<1>5. ASSUME NEW w \in writes, HookSaves(w)
      PROVE  ~Early'
  BY <1>5 DEF HookSaves, QuietBoot, processVars
<1>6. ASSUME NEW e \in Executions, StopRequested(e) \/ StopEnqueued(e) \/ StopFails(e)
                                  \/ StopUnknown(e) \/ StopStored(e)
      PROVE  UNCHANGED <<phase, call, writes>>
  BY <1>6 DEF StopRequested, StopEnqueued, StopFails, StopUnknown, StopStored, processVars
<1>7. ASSUME NEW e \in Executions, StopActive(e)
      PROVE  ~Early'
  <2>1. phase' = phase /\ \E c \in Calls : Busy(c)
    BY <1>7 DEF StopActive, Attached, IInv, Known, processVars
  <2> QED BY <2>1 DEF QuietBoot
<1>8. CASE Exit \/ Crash
  BY <1>8, IdleRecord DEF Exit, Crash, GoDown, QuietBoot, Busy
<1>9. CASE BeginShutdown \/ ReadEnqueued
  BY <1>9 DEF BeginShutdown, ReadEnqueued, QuietBoot
<1>10. CASE Listen \/ Recover \/ UNCHANGED vars
  BY <1>10 DEF Listen, Recover, QuietBoot, Busy, vars
<1> QED
  BY <1>1, <1>2, <1>3, <1>4, <1>5, <1>6, <1>7, <1>8, <1>9, <1>10
     DEF Next, StopStep, QuietBoot, Busy

LEMMA AlwaysQuietBoot ==
    ASSUME OrderlyBoot
    PROVE  Spec => []QuietBoot
<1>1. Init => QuietBoot
  BY DEF Init, QuietBoot
<1> QED BY <1>1, NextQuietBoot, AlwaysIInv, PTL DEF Spec

LEMMA ProcessStores ==
    ASSUME IInv, QuietBoot, SInv, QInv, Listen \/ BeginShutdown \/ Recover \/ ReadEnqueued
    PROVE  QInv'
<1>1. UNCHANGED <<call, writes, stop>>
  BY DEF Listen, BeginShutdown, Recover, ReadEnqueued
<1>2. CASE Listen \/ BeginShutdown
  <2>1. UNCHANGED <<row, boot, queue, settled>>
    BY <1>2 DEF Listen, BeginShutdown, CC!Disable, ccVars
  <2> QED
    BY <1>1, <2>1 DEF QInv, Account, Stands, Busy, Of, Bare, Fresh, Excused, Withdrawn,
       Withheld, Outside, Saving
<1>3. CASE Recover
  <2>1. phase = "listening" /\ boot' = boot
        /\ row' = [e \in Executions |-> IF Unfinished(e) THEN Recovered(e) ELSE row[e]]
    BY <1>3 DEF Recover
  <2>2. (\A c \in Calls : ~Busy(c) /\ ~Busy(c)') /\ writes = {} /\ boot = {} /\ TypeOK
    BY <1>1, <2>1 DEF IInv, Booting, QuietBoot, Busy
  <2>3. ASSUME NEW e \in Executions
        PROVE  Account(e)'
    <3>1. Account(e) /\ ModeOf[e] \in CC!Modes
      BY ModesAssumption DEF QInv
    <3>2. Follows(row[e], row'[e], ModeOf[e])
      BY <2>1, <2>2, <3>1, RecoveredFollows, SameFollows DEF Account
    <3>3. stop[e].pc # "before"
      BY <2>2, <3>1 DEF Account
    <3> QED BY <1>1, <2>1, <2>2, <3>1, <3>2, <3>3, AccountKept
  <2> QED BY <2>2, <2>3, NobodyThere
<1>4. CASE ReadEnqueued
  <2>1. /\ phase = "recovered" /\ row' = row
        /\ boot' = { e \in Executions : row[e].status = "new" /\ row[e].data # "missing" }
    BY <1>4 DEF ReadEnqueued
  <2>2. \A c \in Calls : ~Busy(c) /\ ~Busy(c)'
    BY <1>1, <2>1 DEF IInv, Booting, QuietBoot, Busy
  <2>3. ASSUME NEW e \in Executions
        PROVE  Account(e)'
    <3>1. Account(e)
      BY DEF QInv
    <3>2. stop[e].pc # "before"
      BY <2>2, <3>1 DEF Account
    <3>3. e \in boot' => Fresh(e)' /\ ~Withdrawn(e)'
      BY <1>1, <2>1, <3>1, <3>2 DEF Account, Fresh, Withdrawn
    <3> QED BY <1>1, <2>1, <3>1, <3>2, <3>3 DEF Account
  <2> QED BY <2>2, <2>3, NobodyThere
<1> QED BY <1>2, <1>3, <1>4

LEMMA NextQInv ==
    ASSUME IInv, QuietBoot, SInv, QInv, [Next]_vars
    PROVE  QInv'
<1>1. CASE UNCHANGED vars
  BY <1>1 DEF vars, QInv, Account, Stands, Busy, Of, Bare, Fresh, Excused, Withdrawn,
     Withheld, Outside, Saving
<1>2. ASSUME NEW c \in Calls, CallStep(c) \/ TimeoutFires(c) \/ RunEnqueued(c)
      PROVE  QInv'
  BY <1>2, InsertDataStores, ThrottleNewStores, EnteringStores, LeavingStores, RunningStores,
     TimeoutStores, RunEnqueuedStores DEF CallStep
<1>3. ASSUME NEW e \in Executions, StopRequested(e) \/ StopStep(e)
      PROVE  QInv'
  BY <1>3, StopRequestStores, StopEnqueuedStores, StopStoredStores DEF StopStep
<1>4. CASE Exit \/ Crash
  BY <1>4, DownStores DEF Exit, Crash
<1> QED
  BY <1>1, <1>2, <1>3, <1>4, CreateStores, HookStores, ProcessStores DEF Next

LEMMA InitQInv == Init => QInv
<1> SUFFICES ASSUME Init
             PROVE  QInv
  OBVIOUS
<1>1. \A c \in Calls : ~Busy(c)
  BY IdleRecord DEF Init, Busy
<1>2. ASSUME NEW e \in Executions
      PROVE  Account(e)
  <2>1. /\ row[e] = Store!NotInserted /\ stop[e].pc = "idle"
        /\ boot = {} /\ writes = {}
    BY DEF Init, IdleStop
  <2> QED BY <2>1, NotInsertedRow DEF Account
<1> QED BY <1>1, <1>2 DEF QInv

LEMMA AlwaysQInv ==
    ASSUME OrderlyBoot
    PROVE  Spec => []QInv
BY InitQInv, NextQInv, AlwaysIInv, AlwaysQuietBoot, AlwaysSInv, PTL DEF Spec

\* What waits for a slot is `new` in the database and has its data, unless a stop
\* request has changed that, so that it is run again when the process goes down.
THEOREM WaitingStored ==
    ASSUME OrderlyBoot
    PROVE  Spec => []EnqueuedSurvive
<1>1. SInv /\ QInv => EnqueuedSurvive
  <2> SUFFICES ASSUME SInv, QInv, NEW i \in DOMAIN queue
               PROVE  Fresh(queue[i].executionId) \/ Excused(queue[i].executionId)
    BY DEF EnqueuedSurvive, Fresh, Excused
  <2> DEFINE c == queue[i].resolve
  <2>1. i \in 1..Len(queue)
    BY LenProperties DEF SInv, Line
  <2>2. Waiting(queue[i]) /\ c \in Calls
    BY <2>1, LineItems DEF SInv
  <2>3. Stands(c) /\ call[c].pc = "throttled" /\ Of(c) = queue[i].executionId
    BY <2>2 DEF QInv, Waiting, Busy
  <2>4. ~Outside(c)
    BY <2>1 DEF Outside
  <2> QED BY <2>3, <2>4 DEF Stands, Withheld
<1> QED BY <1>1, AlwaysSInv, AlwaysQInv, PTL

\* An execution that was stopped while it waited for a slot is not started, whoever
\* is let through in its place.
THEOREM StoppedStays ==
    ASSUME OrderlyBoot
    PROVE  Spec => StoppedInQueueNeverStarts
<1>1. QInv /\ [Next]_vars
        => [\A e \in Executions : stop[e].pc \in {"before", "stoppedBefore"} => ~Starts(e)]_vars
  <2> SUFFICES ASSUME QInv, NEW e \in Executions, Withdrawn(e), Starts(e)
               PROVE  FALSE
    BY DEF Withdrawn
  <2>1. PICK c \in Calls : Of(c) = e /\ call[c].pc = "starting"
    BY DEF Starts, Of
  <2> QED BY <2>1 DEF QInv, Stands, Busy, Withheld
<1> QED BY <1>1, AlwaysQInv, PTL DEF Spec, StoppedInQueueNeverStarts
===============================================================================
