---------------------------- MODULE ScalingProofs ----------------------------
(***************************************************************************)
(* What Scaling.tla promises for every number of executions, workers,      *)
(* crashes and stalls, when locks do not lapse.                            *)
(***************************************************************************)
EXTENDS Scaling, TLAPS

-------------------------------------------------------------------------------
(***************************************************************************)
(* Rows.                                                                   *)
(***************************************************************************)
AllRows == MainStore!Rows({Mode})

\* What every writer leaves is a row.
LEMMA RowTypes ==
    ASSUME NEW r \in AllRows
    PROVE  /\ \A status \in MainStore!Statuses :
                 /\ WorkerStore!Saved(r, status, Mode) \in AllRows
                 /\ MainStore!Saved(r, status, Mode) \in AllRows
                 /\ MainStore!WithStatus(r, status) \in AllRows
           /\ MainStore!Resumed(r) \in AllRows
           /\ MainStore!StoppedDuringRun(r) \in AllRows
           /\ MainStore!Deleted \in AllRows /\ MainStore!NotInserted \in AllRows
           /\ MainStore!WithInsertedData(MainStore!InsertedEntity(Mode)) \in AllRows
<1> DEFINE Record == [status : MainStore!Statuses, waitTill : BOOLEAN,
                      data : MainStore!DataStages, mode : {Mode}]
<1>1. MainStore!Deleted \in AllRows /\ MainStore!NotInserted \in AllRows
      /\ Record \subseteq AllRows
  BY DEF AllRows, MainStore!Rows
<1>2. /\ MainStore!Exists(r) => r \in Record
      /\ MainStore!Exists(r) <=> WorkerStore!Exists(r)
      /\ MainStore!Deleted = WorkerStore!Deleted
  BY DEF AllRows, MainStore!Rows, MainStore!Exists, WorkerStore!Exists, MainStore!Statuses,
         WorkerStore!Statuses, MainStore!Deleted, WorkerStore!Deleted, MainStore!NotInserted,
         MainStore!Absent, WorkerStore!Absent
<1>3. \A status : MainStore!DataAfter(status) \in MainStore!DataStages
                  /\ WorkerStore!DataAfter(status) \in MainStore!DataStages
  BY DEF MainStore!DataAfter, WorkerStore!DataAfter, MainStore!DataStages
<1>4. \A status \in MainStore!Statuses : MainStore!WithStatus(r, status) \in AllRows
  BY <1>1, <1>2 DEF MainStore!WithStatus
<1>5. \A status \in MainStore!Statuses :
         /\ MainStore!Saved(r, status, Mode) \in AllRows
         /\ WorkerStore!Saved(r, status, Mode) \in AllRows
  <2> SUFFICES ASSUME NEW status \in MainStore!Statuses
               PROVE  /\ MainStore!Saved(r, status, Mode) \in AllRows
                      /\ WorkerStore!Saved(r, status, Mode) \in AllRows
    OBVIOUS
  <2>1. CASE ~MainStore!Exists(r)
    BY <1>2, <2>1 DEF MainStore!Saved, WorkerStore!Saved
  <2>2. CASE MainStore!Exists(r)
    <3>1. r.waitTill \in BOOLEAN
      BY <1>2, <2>2
    <3> QED BY <1>1, <1>2, <1>3, <2>2, <3>1 DEF MainStore!Saved, WorkerStore!Saved
  <2> QED BY <2>1, <2>2
<1>6. MainStore!Resumed(r) \in AllRows
  <2>1. CASE MainStore!Exists(r)
    <3>1. r \in Record
      BY <1>2, <2>1
    <3>2. [r EXCEPT !.status = "running", !.waitTill = FALSE] \in Record
      BY <3>1 DEF MainStore!Statuses
    <3> QED BY <1>1, <2>1, <3>2 DEF MainStore!Resumed
  <2>2. CASE ~MainStore!Exists(r)
    BY <2>2 DEF MainStore!Resumed
  <2> QED BY <2>1, <2>2
<1>7. MainStore!StoppedDuringRun(r) \in AllRows
  <2>1. CASE MainStore!Exists(r)
    <3>1. r \in Record
      BY <1>2, <2>1
    <3>2. [r EXCEPT !.status = "canceled", !.waitTill = FALSE, !.data = "failed"] \in Record
      BY <3>1 DEF MainStore!Statuses, MainStore!DataStages
    <3> QED BY <1>1, <2>1, <3>2 DEF MainStore!StoppedDuringRun
  <2>2. CASE ~MainStore!Exists(r)
    BY <2>2 DEF MainStore!StoppedDuringRun
  <2> QED BY <2>1, <2>2
<1>8. MainStore!WithInsertedData(MainStore!InsertedEntity(Mode)) \in AllRows
  BY <1>1 DEF MainStore!WithInsertedData, MainStore!InsertedEntity, MainStore!Exists,
              MainStore!Statuses, MainStore!DataStages
<1> QED BY <1>1, <1>4, <1>5, <1>6, <1>7, <1>8

-------------------------------------------------------------------------------
(***************************************************************************)
(* Types.                                                                  *)
(***************************************************************************)
\* A stop request that found a job found one of its execution.
Targets ==
    \A e \in Executions :
        stop[e].pc \in {"found", "active", "inactive"} =>
            stop[e].run \in Runs /\ Id(stop[e].run) = e

\* An engine that has left its loop ended somehow.
EndedHow ==
    \A w \in Workers, r \in Runs : work[w][r].pc = "saving" => work[w][r].outcome # "none"

Typed == TypeOK /\ Targets /\ EndedHow

LEMMA RunIds ==
    /\ \A r \in Runs : Id(r) \in Executions
    /\ \A e \in Executions : <<e, 1>> \in Runs /\ Id(<<e, 1>>) = e
BY BoundsAssumption DEF Runs, Id

LEMMA TypeInit == Init => TypeOK
<1> SUFFICES ASSUME Init
             PROVE  TypeOK
  OBVIOUS
<1>1. NoJob \in Jobs /\ NoWork \in Works
  BY MaxStalledCountAssumption DEF NoJob, Jobs, NoWork, Works
<1>2. MainStore!NotInserted \in MainStore!Rows({Mode})
  BY DEF MainStore!Rows
<1>3. [pc |-> "none", run |-> NoEntry] \in Stops
  BY DEF Stops
<1> QED
  BY <1>1, <1>2, <1>3, BoundsAssumption DEF Init, TypeOK, Mains, Cancels

LEMMA FailsType ==
    ASSUME TypeOK, NEW r \in Runs, NEW from \in {"enqueue", "executor", "cancel"}, Fails(r, from)
    PROVE  errors' \subseteq Errors
<1>1. [run |-> r, from |-> from, pc |-> "check"] \in Errors
  BY DEF Errors
<1> QED BY <1>1 DEF Fails, TypeOK

LEMMA StopJobType ==
    ASSUME TypeOK, NEW r \in Runs, NEW was, StopJob(r, was) \/ StopJobThrows(r, was)
    PROVE  job' \in [Runs -> Jobs] /\ aborts' \subseteq Workers \X Runs
<1>1. job' = job \/ job' = [job EXCEPT ![r].at = "removed"]
  BY DEF StopJob, StopJobThrows, Broadcast, queueVars
<1>2. job' \in [Runs -> Jobs]
  <2>1. [job[r] EXCEPT !.at = "removed"] \in Jobs
    <3>1. job[r] \in Jobs
      BY DEF TypeOK
    <3> QED BY <3>1 DEF Jobs
  <2> QED BY <1>1, <2>1 DEF TypeOK
<1>3. aborts' \subseteq Workers \X Runs
  BY DEF TypeOK, StopJob, StopJobThrows, Broadcast, queueVars
<1> QED BY <1>2, <1>3

\* The steps of the main.
LEMMA TypeMainStep ==
    ASSUME TypeOK, NEW r \in Runs, MainStep(r) \/ Resume(r)
    PROVE  TypeOK'
<1>0. Id(r) \in Executions /\ row[Id(r)] \in AllRows
  BY RunIds DEF TypeOK, AllRows
<1>1. CASE Resume(r)
  BY <1>0, <1>1, RowTypes
  DEF TypeOK, AllRows, Resume, Mains, mainVars, queueVars, workerVars
<1>2. CASE AddJob(r)
  <2>1. job' \in [Runs -> Jobs]
    <3>1. job[r] \in Jobs
      BY DEF TypeOK
    <3>2. [job[r] EXCEPT !.at = "waiting"] \in Jobs
      BY <3>1 DEF Jobs
    <3> QED BY <1>2, <3>2 DEF TypeOK, AddJob
  <2> QED BY <1>2, <2>1 DEF TypeOK, AddJob, Mains, workerVars
<1>3. CASE AddJobFails(r)
  BY <1>0, <1>3, FailsType DEF TypeOK, AddJobFails, Mains, queueVars, workerVars
<1>4. CASE Attach(r)
  <2>1. entry' \in [Executions -> Runs \cup {Pending, NoEntry}]
    BY <1>4 DEF TypeOK, Attach
  <2>2. main' \in [Runs -> Mains]
    BY <1>4 DEF TypeOK, Attach, Mains
  <2> QED BY <1>4, <2>1, <2>2 DEF TypeOK, Attach, queueVars, workerVars
<1>5. CASE JobSucceeds(r)
  BY <1>0, <1>5 DEF TypeOK, JobSucceeds, Mains, queueVars, workerVars
<1>6. CASE JobFails(r)
  BY <1>0, <1>6, FailsType DEF TypeOK, JobFails, Mains, queueVars, workerVars
<1>7. CASE ReadResult(r)
  BY <1>0, <1>7 DEF TypeOK, ReadResult, Mains, queueVars, workerVars
<1>8. CASE DeleteResult(r)
  BY <1>0, <1>8, RowTypes DEF TypeOK, AllRows, DeleteResult, Mains, queueVars, workerVars
<1>9. CASE CheckJob(r)
  BY <1>0, <1>9 DEF TypeOK, CheckJob, Checked, Cancels, queueVars, workerVars
<1>10. CASE CancelJob(r)
  <2>1. job' \in [Runs -> Jobs] /\ aborts' \subseteq Workers \X Runs
    BY <1>10, StopJobType DEF CancelJob
  <2>2. errors' \subseteq Errors
    BY <1>10, FailsType DEF CancelJob, TypeOK
  <2>3. cancel' \in [Runs -> Cancels]
    BY <1>10 DEF CancelJob, TypeOK, Cancels
  <2> QED
    BY <1>10, <2>1, <2>2, <2>3 DEF TypeOK, CancelJob, workerVars
<1> QED
  BY <1>1, <1>2, <1>3, <1>4, <1>5, <1>6, <1>7, <1>8, <1>9, <1>10 DEF MainStep

LEMMA TypeErrorStep ==
    ASSUME TypeOK, NEW p \in errors, ErrorStep(p)
    PROVE  TypeOK'
<1>0. p \in Errors /\ p.run \in Runs /\ Id(p.run) \in Executions /\ row[Id(p.run)] \in AllRows
  BY RunIds DEF TypeOK, AllRows, Errors
<1>1. ASSUME Handled(p)
      PROVE  main' \in [Runs -> Mains] /\ cancel' \in [Runs -> Cancels]
  BY <1>0, <1>1 DEF TypeOK, Handled, Mains, Cancels
<1>2. CASE CheckError(p)
  <2>1. [p EXCEPT !.pc = "save"] \in Errors
    BY <1>0 DEF Errors
  <2>2. errors' \subseteq Errors
    BY <1>2, <2>1 DEF TypeOK, CheckError
  <2>3. main' \in [Runs -> Mains] /\ cancel' \in [Runs -> Cancels]
    BY <1>1, <1>2 DEF TypeOK, CheckError
  <2>4. entry' \in [Executions -> Runs \cup {Pending, NoEntry}]
    BY <1>2 DEF TypeOK, CheckError
  <2> QED
    BY <1>2, <2>2, <2>3, <2>4 DEF TypeOK, CheckError, queueVars, workerVars
<1>3. CASE SaveError(p)
  <2>1. row' \in [Executions -> AllRows]
    BY <1>0, <1>3, RowTypes DEF TypeOK, AllRows, SaveError, MainStore!Statuses
  <2>2. errors' \subseteq Errors
    BY <1>3 DEF TypeOK, SaveError
  <2>3. main' \in [Runs -> Mains] /\ cancel' \in [Runs -> Cancels]
    BY <1>1, <1>3 DEF SaveError
  <2> QED
    BY <1>3, <2>1, <2>2, <2>3 DEF TypeOK, AllRows, SaveError, queueVars, workerVars
<1> QED BY <1>2, <1>3 DEF ErrorStep

LEMMA TypeStopStep ==
    ASSUME Typed, NEW e \in Executions, Create(e) \/ StopRequested(e) \/ StopStep(e)
    PROVE  TypeOK'
<1> USE DEF Typed
<1>0. row[e] \in AllRows
  BY DEF TypeOK, AllRows
<1>1. CASE Create(e)
  <2>1. row' \in [Executions -> AllRows]
    BY <1>0, <1>1, RowTypes DEF TypeOK, AllRows, Create
  <2>2. entry' \in [Executions -> Runs \cup {Pending, NoEntry}]
    BY <1>1 DEF TypeOK, Create
  <2>3. main' \in [Runs -> Mains]
    BY <1>1, RunIds DEF TypeOK, Create, Mains
  <2> QED
    BY <1>1, <2>1, <2>2, <2>3 DEF TypeOK, AllRows, Create, queueVars, workerVars
<1>2. CASE StopRequested(e)
  <2>1. stop[e] \in Stops
    BY DEF TypeOK
  <2>2. [stop[e] EXCEPT !.pc = "read"] \in Stops
    BY <2>1 DEF Stops
  <2>3. stop' \in [Executions -> Stops]
    BY <1>2, <2>2 DEF TypeOK, StopRequested
  <2> QED BY <1>2, <2>3 DEF TypeOK, StopRequested, queueVars, workerVars
<1>3. CASE StopEntry(e)
  <2>1. stop' \in [Executions -> Stops]
    <3>1. /\ [stop[e] EXCEPT !.pc = "failed"] \in Stops
          /\ [stop[e] EXCEPT !.pc = "seeking"] \in Stops
      BY DEF TypeOK, Stops
    <3> QED BY <1>3, <3>1 DEF TypeOK, StopEntry
  <2>2. cancel' \in [Runs -> Cancels] /\ entry' \in [Executions -> Runs \cup {Pending, NoEntry}]
    BY <1>3 DEF TypeOK, StopEntry, Cancels
  <2> QED BY <1>3, <2>1, <2>2 DEF TypeOK, StopEntry, queueVars, workerVars
<1>4. CASE FindJob(e)
  <2>1. \A r \in Runs : [pc |-> "found", run |-> r] \in Stops
    BY DEF Stops
  <2>2. [stop[e] EXCEPT !.pc = "storing"] \in Stops
    BY DEF TypeOK, Stops
  <2>3. stop' \in [Executions -> Stops]
    BY <1>4, <2>1, <2>2 DEF TypeOK, FindJob
  <2> QED BY <1>4, <2>3 DEF TypeOK, FindJob, queueVars, workerVars
<1>5. CASE CheckFoundJob(e)
  <2>1. stop[e] \in Stops
    BY DEF TypeOK
  <2>2. [stop[e] EXCEPT !.pc = Checked(stop[e].run)] \in Stops
    BY <2>1 DEF Stops, Checked
  <2>3. stop' \in [Executions -> Stops]
    BY <1>5, <2>2 DEF TypeOK, CheckFoundJob
  <2> QED BY <1>5, <2>3 DEF TypeOK, CheckFoundJob, queueVars, workerVars
<1>6. CASE StopFoundJob(e)
  <2>2. job' \in [Runs -> Jobs] /\ aborts' \subseteq Workers \X Runs
    BY <1>6, StopJobType DEF StopFoundJob, Targets
  <2>3. stop' \in [Executions -> Stops]
    <3>1. [pc |-> "storing", run |-> NoEntry] \in Stops /\ [pc |-> "failed", run |-> NoEntry] \in Stops
      BY DEF Stops
    <3> QED BY <1>6, <3>1 DEF TypeOK, StopFoundJob
  <2> QED BY <1>6, <2>2, <2>3 DEF TypeOK, StopFoundJob, workerVars
<1>7. CASE StopStored(e)
  <2>1. stop[e] \in Stops
    BY DEF TypeOK
  <2>2. [stop[e] EXCEPT !.pc = "done"] \in Stops
    BY <2>1 DEF Stops
  <2>3. stop' \in [Executions -> Stops]
    BY <1>7, <2>2 DEF TypeOK, StopStored
  <2>4. row' \in [Executions -> AllRows]
    BY <1>0, <1>7, RowTypes DEF TypeOK, AllRows, StopStored
  <2> QED BY <1>7, <2>3, <2>4 DEF TypeOK, AllRows, StopStored, queueVars, workerVars
<1> QED BY <1>1, <1>2, <1>3, <1>4, <1>5, <1>6, <1>7 DEF StopStep

LEMMA TargetsStop ==
    ASSUME Typed, NEW e \in Executions, Create(e) \/ StopRequested(e) \/ StopStep(e)
    PROVE  Targets'
<1>1. CASE Create(e)
  BY <1>1 DEF Create, Typed, Targets
<1>2. ASSUME NEW x, stop' = [stop EXCEPT ![e] = x],
             x.pc \in {"found", "active", "inactive"} => x.run \in Runs /\ Id(x.run) = e
      PROVE  Targets'
  BY <1>2 DEF Typed, TypeOK, Targets
<1>3. CASE StopRequested(e)
  <2>1. stop' = [stop EXCEPT ![e] = [stop[e] EXCEPT !.pc = "read"]]
    BY <1>3 DEF StopRequested
  <2> QED BY <1>2, <2>1 DEF Typed, TypeOK, Stops
<1>4. CASE StopEntry(e)
  <2>1. \/ stop' = [stop EXCEPT ![e] = [stop[e] EXCEPT !.pc = "failed"]]
        \/ stop' = [stop EXCEPT ![e] = [stop[e] EXCEPT !.pc = "seeking"]]
    BY <1>4 DEF StopEntry
  <2> QED BY <1>2, <2>1 DEF Typed, TypeOK, Stops
<1>5. CASE FindJob(e)
  <2>1. \/ \E r \in Runs : Id(r) = e /\ stop' = [stop EXCEPT ![e] = [pc |-> "found", run |-> r]]
        \/ stop' = [stop EXCEPT ![e] = [stop[e] EXCEPT !.pc = "storing"]]
    BY <1>5 DEF FindJob
  <2> QED BY <1>2, <2>1 DEF Typed, TypeOK, Stops
<1>6. CASE CheckFoundJob(e)
  <2>1. stop[e].run \in Runs /\ Id(stop[e].run) = e
    BY <1>6 DEF CheckFoundJob, Typed, Targets
  <2>2. stop' = [stop EXCEPT ![e] = [stop[e] EXCEPT !.pc = Checked(stop[e].run)]]
    BY <1>6 DEF CheckFoundJob
  <2> QED BY <1>2, <2>1, <2>2 DEF Typed, TypeOK, Stops
<1>7. CASE StopFoundJob(e)
  <2>1. \/ stop' = [stop EXCEPT ![e] = [pc |-> "storing", run |-> NoEntry]]
        \/ stop' = [stop EXCEPT ![e] = [pc |-> "failed", run |-> NoEntry]]
    BY <1>7 DEF StopFoundJob
  <2> QED BY <1>2, <2>1
<1>8. CASE StopStored(e)
  <2>1. stop' = [stop EXCEPT ![e] = [stop[e] EXCEPT !.pc = "done"]]
    BY <1>8 DEF StopStored
  <2> QED BY <1>2, <2>1 DEF Typed, TypeOK, Stops
<1> QED BY <1>1, <1>3, <1>4, <1>5, <1>6, <1>7, <1>8 DEF StopStep

\* The steps of recovery and of workers.
LEMMA TypeRecoveryStep ==
    ASSUME TypeOK, RecoveryStep
    PROVE  TypeOK'
<1>1. CASE ReadStored
  BY <1>1 DEF TypeOK, ReadStored, queueVars, workerVars
<1>2. CASE FindDangling
  <2>1. recovery' \in [pc : {"idle", "read", "found"}, ids : SUBSET Executions]
    BY <1>2 DEF TypeOK, FindDangling
  <2> QED BY <1>2, <2>1 DEF TypeOK, FindDangling, queueVars, workerVars
<1>3. CASE MarkDangling
  <2>1. recovery' \in [pc : {"idle", "read", "found"}, ids : SUBSET Executions]
    BY <1>3 DEF MarkDangling
  <2>2. \A e \in Executions : row'[e] \in AllRows
    BY <1>3, RowTypes DEF MarkDangling, TypeOK, AllRows, MainStore!Statuses
  <2> QED BY <1>3, <2>1, <2>2 DEF TypeOK, AllRows, MarkDangling, queueVars, workerVars
<1> QED BY <1>1, <1>2, <1>3 DEF RecoveryStep

LEMMA SetsWork ==
    ASSUME TypeOK, NEW w \in Workers, NEW r \in Runs, NEW x \in Works,
           work' = [work EXCEPT ![w][r] = x]
    PROVE  /\ work' \in [Workers -> [Runs -> Works]]
           /\ work'[w][r] = x
           /\ \A v \in Workers, s \in Runs : v # w \/ s # r => work'[v][s] = work[v][s]
BY DEF TypeOK

LEMMA SetsPlace ==
    ASSUME TypeOK, NEW w \in Workers, NEW r \in Runs, NEW pc, At(w, r, pc),
           pc \in {"none", "picked", "read", "marked", "running", "saving", "saved"}
    PROVE  /\ work' \in [Workers -> [Runs -> Works]]
           /\ work'[w][r].pc = pc /\ work'[w][r].outcome = work[w][r].outcome
           /\ \A v \in Workers, s \in Runs : v # w \/ s # r => work'[v][s] = work[v][s]
<1> DEFINE x == [work[w][r] EXCEPT !.pc = pc]
<1>1. x \in Works /\ x.pc = pc /\ x.outcome = work[w][r].outcome
  <2>1. work[w][r] \in Works
    BY DEF TypeOK
  <2> QED BY <2>1 DEF Works
<1>2. work' = [work EXCEPT ![w][r] = x]
  BY DEF At
<1> HIDE DEF x
<1>3. /\ work' \in [Workers -> [Runs -> Works]]
      /\ work'[w][r] = x
      /\ \A v \in Workers, s \in Runs : v # w \/ s # r => work'[v][s] = work[v][s]
  <2>1. work \in [Workers -> [Runs -> Works]]
    BY DEF TypeOK
  <2> QED BY ONLY w \in Workers, r \in Runs, <1>1, <1>2, <2>1
<1> QED BY <1>1, <1>3

LEMMA LeavesType ==
    ASSUME TypeOK, NEW w \in Workers, NEW r \in Runs, NEW how \in {"completed", "failed"},
           Leaves(w, r, how)
    PROVE  /\ job' \in [Runs -> Jobs]
           /\ \A s \in Runs \ {r} : job'[s] = job[s]
           /\ job[r].at = "active" /\ job[r].owner = w => job'[r].at = how
           /\ ~(job[r].at = "active" /\ job[r].owner = w) => job' = job
<1> DEFINE x == [job[r] EXCEPT !.at = how, !.owner = NoWorker]
<1>1. x \in Jobs /\ x.at = how
  <2>1. job[r] \in Jobs
    BY DEF TypeOK
  <2> QED BY <2>1 DEF Jobs
<1>2. job' = job \/ job' = [job EXCEPT ![r] = x]
  BY DEF Leaves
<1>3. job[r].at = "active" /\ job[r].owner = w => job' = [job EXCEPT ![r] = x]
  BY DEF Leaves
<1>4. ~(job[r].at = "active" /\ job[r].owner = w) => job' = job
  BY DEF Leaves
<1> HIDE DEF x
<1> QED BY <1>1, <1>2, <1>3, <1>4 DEF TypeOK

LEMMA TypeWorkerStep ==
    ASSUME Typed, NEW w \in Workers, NEW r \in Runs,
           PickUp(w, r) \/ WorkerStep(w, r) \/ DeliverAbort(w, r) \/ SaveAborted(w, r)
    PROVE  TypeOK' /\ EndedHow'
<1> USE DEF Typed
<1>0. Id(r) \in Executions /\ row[Id(r)] \in AllRows
  BY RunIds DEF TypeOK, AllRows
<1>1. CASE PickUp(w, r)
  <2>1. [job[r] EXCEPT !.at = "active", !.owner = w] \in Jobs
    <3>1. job[r] \in Jobs
      BY DEF TypeOK
    <3> QED BY <3>1 DEF Jobs
  <2>2. job' = [job EXCEPT ![r] = [job[r] EXCEPT !.at = "active", !.owner = w]]
    BY <1>1 DEF PickUp
  <2>3. work' \in [Workers -> [Runs -> Works]]
    BY <1>1, SetsPlace DEF PickUp
  <2>4. job' \in [Runs -> Jobs]
    BY <2>1, <2>2 DEF TypeOK
  <2>9. EndedHow'
    BY <1>1, SetsPlace DEF PickUp, EndedHow
  <2> QED BY <1>1, <2>3, <2>4, <2>9 DEF TypeOK, PickUp, mainVars
<1>2. CASE ReadExecution(w, r)
  <2>1. work' \in [Workers -> [Runs -> Works]]
    BY <1>2, SetsPlace DEF ReadExecution
  <2>2. job' \in [Runs -> Jobs]
    BY <1>2, LeavesType DEF ReadExecution, TypeOK
  <2>9. EndedHow'
    BY <1>2, SetsPlace DEF ReadExecution, EndedHow
  <2> QED BY <1>2, <2>1, <2>2, <2>9 DEF TypeOK, ReadExecution, mainVars
<1>3. CASE MarkRunning(w, r)
  <2>1. work' \in [Workers -> [Runs -> Works]]
    BY <1>3, SetsPlace DEF MarkRunning
  <2>2. row' \in [Executions -> AllRows]
    BY <1>0, <1>3, RowTypes DEF MarkRunning, TypeOK, AllRows, MainStore!Statuses
  <2>9. EndedHow'
    BY <1>3, SetsPlace DEF MarkRunning, EndedHow
  <2> QED BY <1>3, <2>1, <2>2, <2>9 DEF TypeOK, AllRows, MarkRunning, mainVars, queueVars
<1>4. CASE StartEngine(w, r)
  <2>1. work' \in [Workers -> [Runs -> Works]]
    BY <1>4, SetsPlace DEF StartEngine
  <2>2. workerLog' \in [Workers -> SUBSET Executions]
    BY <1>0, <1>4 DEF StartEngine, TypeOK
  <2>9. EndedHow'
    BY <1>4, SetsPlace DEF StartEngine, EndedHow
  <2> QED BY <1>4, <2>1, <2>2, <2>9 DEF TypeOK, StartEngine, mainVars, queueVars
<1>5. CASE EngineEnds(w, r)
  <2>1. PICK o \in Outcomes \cup {"canceled", "aborted"} :
           work' = [work EXCEPT ![w][r] = [pc |-> "saving", outcome |-> o]]
    BY <1>5 DEF EngineEnds
  <2>2. [pc |-> "saving", outcome |-> o] \in Works
    BY DEF Works
  <2>3. work' \in [Workers -> [Runs -> Works]]
    BY <2>1, <2>2, SetsWork
  <2>9. EndedHow'
    BY <2>1, <2>2, SetsWork, OutcomesAssumption DEF EndedHow
  <2> QED BY <1>5, <2>3, <2>9 DEF TypeOK, EngineEnds, mainVars, queueVars
<1>6. CASE EngineSaves(w, r)
  <2>1. work' \in [Workers -> [Runs -> Works]]
    BY <1>6, SetsPlace DEF EngineSaves
  <2>2. workerLog' \in [Workers -> SUBSET Executions]
    BY <1>6 DEF EngineSaves, TypeOK
  <2>3. row' \in [Executions -> AllRows]
    <3>1. work[w][r].pc = "saving" /\ work[w][r] \in Works
      BY <1>6 DEF EngineSaves, TypeOK
    <3>2. work[w][r].outcome # "none" /\ work[w][r].outcome # "aborted" =>
             work[w][r].outcome \in MainStore!Statuses
      BY <3>1, OutcomesAssumption DEF Works, MainStore!Statuses
    <3> QED BY <1>0, <1>6, <3>1, <3>2, RowTypes DEF EngineSaves, TypeOK, AllRows, EndedHow
  <2>9. EndedHow'
    BY <1>6, SetsPlace DEF EngineSaves, EndedHow
  <2> QED BY <1>6, <2>1, <2>2, <2>3, <2>9 DEF TypeOK, AllRows, EngineSaves, mainVars, queueVars
<1>7. CASE JobEnds(w, r)
  <2>1. NoWork \in Works
    BY DEF NoWork, Works
  <2>2. work' \in [Workers -> [Runs -> Works]]
    BY <1>7, <2>1, SetsWork DEF JobEnds
  <2>3. job' \in [Runs -> Jobs]
    BY <1>7, LeavesType DEF JobEnds
  <2>9. EndedHow'
    BY <1>7, <2>1, SetsWork DEF JobEnds, EndedHow, NoWork
  <2> QED BY <1>7, <2>2, <2>3, <2>9 DEF TypeOK, JobEnds, mainVars
<1>8. CASE DeliverAbort(w, r)
  <2>1. /\ aborts' \subseteq Workers \X Runs
        /\ aborted' \subseteq Workers \X Runs
        /\ saves' \subseteq Workers \X Runs
    BY <1>8 DEF TypeOK, DeliverAbort
  <2>2. UNCHANGED <<row, mainVars, job, worker, work, workerLog, ends>>
    BY <1>8 DEF DeliverAbort
  <2> QED BY <2>1, <2>2 DEF TypeOK, EndedHow, mainVars
<1>9. CASE SaveAborted(w, r)
  <2>1. workerLog' \in [Workers -> SUBSET Executions]
    BY <1>9 DEF SaveAborted, TypeOK
  <2>2. row' \in [Executions -> AllRows]
    BY <1>0, <1>9, RowTypes DEF SaveAborted, TypeOK, AllRows, MainStore!Statuses
  <2> QED BY <1>9, <2>1, <2>2 DEF TypeOK, EndedHow, AllRows, SaveAborted, mainVars, queueVars
<1> QED
  BY <1>1, <1>2, <1>3, <1>4, <1>5, <1>6, <1>7, <1>8, <1>9 DEF WorkerStep

LEMMA GoesDownSets ==
    ASSUME TypeOK, NEW w \in Workers, GoesDown(w)
    PROVE  /\ work' \in [Workers -> [Runs -> Works]]
           /\ \A r \in Runs : work'[w][r] = NoWork
           /\ \A v \in Workers \ {w} : work'[v] = work[v]
<1>1. NoWork \in Works
  BY DEF NoWork, Works
<1>2. work' = [work EXCEPT ![w] = [r \in Runs |-> NoWork]]
  BY DEF GoesDown
<1> QED BY <1>1, <1>2 DEF TypeOK

LEMMA TypeProcessStep ==
    ASSUME Typed, NEW w \in Workers,
           Crash(w) \/ BeginShutdown(w) \/ Exit(w) \/ Start(w)
    PROVE  TypeOK' /\ EndedHow'
<1> USE DEF Typed
<1>1. ASSUME GoesDown(w), ends' \in 0..MaxEnds
      PROVE  TypeOK' /\ EndedHow'
  <2>1. EndedHow'
    BY <1>1, GoesDownSets DEF EndedHow, NoWork
  <2> QED BY <1>1, <2>1, GoesDownSets DEF TypeOK, GoesDown, mainVars
<1>2. CASE Crash(w)
  <2>1. ends' \in 0..MaxEnds
    BY <1>2, BoundsAssumption DEF TypeOK, Crash
  <2> QED BY <1>1, <1>2, <2>1 DEF Crash
<1>3. CASE BeginShutdown(w)
  <2>1. ends' \in 0..MaxEnds
    BY <1>3, BoundsAssumption DEF TypeOK, BeginShutdown
  <2> QED BY <1>3, <2>1 DEF TypeOK, EndedHow, BeginShutdown, mainVars, queueVars
<1>4. CASE Exit(w)
  BY <1>1, <1>4 DEF Exit, TypeOK
<1>5. CASE Start(w)
  <2>1. PICK amended \in SUBSET workerLog[w] :
           row' = [e \in Executions |-> IF e \in amended THEN Amended(row[e]) ELSE row[e]]
    BY <1>5 DEF Start
  <2>2. \A e \in Executions : Amended(row[e]) \in AllRows
    BY RowTypes DEF Amended, TypeOK, AllRows, MainStore!Statuses
  <2>3. row' \in [Executions -> AllRows]
    BY <2>1, <2>2 DEF TypeOK, AllRows
  <2> QED BY <1>5, <2>3 DEF TypeOK, EndedHow, AllRows, Start, mainVars, queueVars
<1> QED BY <1>2, <1>3, <1>4, <1>5

LEMMA TypeStall ==
    ASSUME TypeOK, NEW r \in Runs, Stall(r)
    PROVE  TypeOK'
<1> DEFINE x == IF job[r].stalls < MaxStalledCount
                THEN [at |-> "waiting", owner |-> NoWorker, stalls |-> job[r].stalls + 1]
                ELSE [job[r] EXCEPT !.at = "failed", !.owner = NoWorker]
<1>1. job[r] \in Jobs /\ job' = [job EXCEPT ![r] = x]
  BY DEF TypeOK, Stall
<1>2. x \in Jobs
  <2>1. CASE job[r].stalls < MaxStalledCount
    <3>1. job[r].stalls + 1 \in 0..MaxStalledCount
      BY <1>1, <2>1, MaxStalledCountAssumption DEF Jobs
    <3> QED BY <2>1, <3>1 DEF Jobs
  <2>2. CASE ~(job[r].stalls < MaxStalledCount)
    BY <1>1, <2>2 DEF Jobs
  <2> QED BY <2>1, <2>2
<1> HIDE DEF x
<1>3. job' \in [Runs -> Jobs]
  BY <1>1, <1>2 DEF TypeOK
<1> QED BY <1>3 DEF Stall, TypeOK, mainVars, workerVars

LEMMA TypeMainCrash ==
    ASSUME Typed, MainCrash
    PROVE  TypeOK' /\ Targets'
<1> USE DEF Typed
<1>1. mainCrashes' \in 0..MaxMainCrashes
  BY BoundsAssumption DEF TypeOK, MainCrash
<1>2. \A e \in Executions : stop'[e].pc \in {"none", "done", "failed"} /\ stop'[e] \in Stops
  BY DEF TypeOK, MainCrash, Stops
<1>3. stop' \in [Executions -> Stops]
  BY <1>2 DEF MainCrash
<1>4. cancel' \in [Runs -> Cancels] /\ main' \in [Runs -> Mains]
  BY DEF TypeOK, MainCrash, Cancels, Mains
<1>5. recovery' \in [pc : {"idle", "read", "found"}, ids : SUBSET Executions]
  BY DEF MainCrash
<1>6. TypeOK'
  BY <1>1, <1>3, <1>4, <1>5 DEF TypeOK, MainCrash, queueVars, workerVars
<1> QED BY <1>2, <1>6 DEF Targets

LEMMA TypedNext == Typed /\ [Next]_vars => Typed'
<1> SUFFICES ASSUME Typed, [Next]_vars
             PROVE  Typed'
  OBVIOUS
<1>1. ASSUME NEW e \in Executions, Create(e) \/ StopRequested(e) \/ StopStep(e)
      PROVE  Typed'
  <2>1. TypeOK' /\ Targets'
    BY <1>1, TypeStopStep, TargetsStop
  <2>2. UNCHANGED work
    BY <1>1 DEF Create, StopRequested, StopStep, StopEntry, FindJob, CheckFoundJob, StopFoundJob,
                StopStored, workerVars
  <2> QED BY <2>1, <2>2 DEF Typed, EndedHow
<1>2. ASSUME NEW r \in Runs, Resume(r) \/ MainStep(r)
      PROVE  Typed'
  <2>1. TypeOK'
    BY <1>2, TypeMainStep DEF Typed
  <2>2. UNCHANGED <<stop, work>>
    BY <1>2 DEF Resume, MainStep, AddJob, AddJobFails, Attach, JobSucceeds, JobFails, ReadResult,
                DeleteResult, CheckJob, CancelJob, workerVars
  <2> QED BY <2>1, <2>2 DEF Typed, EndedHow, Targets
<1>3. ASSUME NEW r \in Runs, Stall(r)
      PROVE  Typed'
  BY <1>3, TypeStall DEF Typed, EndedHow, Targets, Stall, mainVars, workerVars
<1>4. ASSUME NEW p \in errors, ErrorStep(p)
      PROVE  Typed'
  <2>1. TypeOK'
    BY <1>4, TypeErrorStep DEF Typed
  <2>2. UNCHANGED <<stop, work>>
    BY <1>4 DEF ErrorStep, CheckError, SaveError, workerVars
  <2> QED BY <2>1, <2>2 DEF Typed, EndedHow, Targets
<1>5. ASSUME NEW w \in Workers, NEW r \in Runs,
             PickUp(w, r) \/ WorkerStep(w, r) \/ DeliverAbort(w, r) \/ SaveAborted(w, r)
      PROVE  Typed'
  <2>1. TypeOK' /\ EndedHow'
    BY <1>5, TypeWorkerStep
  <2>2. UNCHANGED stop
    BY <1>5 DEF PickUp, WorkerStep, ReadExecution, MarkRunning, StartEngine, EngineEnds,
                EngineSaves, JobEnds, DeliverAbort, SaveAborted, mainVars
  <2> QED BY <2>1, <2>2 DEF Typed, Targets
<1>6. ASSUME NEW w \in Workers, Crash(w) \/ BeginShutdown(w) \/ Exit(w) \/ Start(w)
      PROVE  Typed'
  <2>1. TypeOK' /\ EndedHow'
    BY <1>6, TypeProcessStep
  <2>2. UNCHANGED stop
    BY <1>6 DEF Crash, BeginShutdown, Exit, Start, GoesDown, mainVars
  <2> QED BY <2>1, <2>2 DEF Typed, Targets
<1>7. CASE RecoveryStep
  <2>1. TypeOK'
    BY <1>7, TypeRecoveryStep DEF Typed
  <2>2. UNCHANGED <<stop, work>>
    BY <1>7 DEF RecoveryStep, ReadStored, FindDangling, MarkDangling, workerVars
  <2> QED BY <2>1, <2>2 DEF Typed, EndedHow, Targets
<1>8. CASE MainCrash
  BY <1>8, TypeMainCrash DEF Typed, EndedHow, MainCrash, workerVars
<1>9. CASE UNCHANGED vars
  BY <1>9 DEF vars, mainVars, queueVars, workerVars, Typed, TypeOK, Targets, EndedHow
<1> QED
  BY <1>1, <1>2, <1>3, <1>4, <1>5, <1>6, <1>7, <1>8, <1>9 DEF Next

\* Every variable has its type, for any number of executions, pauses, workers,
\* crashes and stalls, and whether locks lapse and events are lost or not.
THEOREM TypeCorrect == Spec => []TypeOK
<1>1. Init => Typed
  <2> SUFFICES ASSUME Init
               PROVE  Typed
    OBVIOUS
  <2>1. TypeOK
    BY TypeInit
  <2>2. Targets /\ EndedHow
    BY DEF Init, Targets, EndedHow, NoWork
  <2> QED BY <2>1, <2>2 DEF Typed
<1>2. Typed => TypeOK
  BY DEF Typed
<1> QED
  BY <1>1, <1>2, TypedNext, PTL DEF Spec

-------------------------------------------------------------------------------
(***************************************************************************)
(* Jobs and workers.                                                       *)
(***************************************************************************)
LocksHold == ~LocksLapse
EventsArrive == ~EventsLost

\* A worker that is at work on a run owns its job: no other worker gets it.
JobsOwned ==
    \A w \in Workers, r \in Runs :
        Working(w, r) => job[r].at = "active" /\ job[r].owner = w

\* A run whose job is in the queue was enqueued, and the main waits for it.
Awaited ==
    \A r \in Runs : InQueue(r) => main[r] \in {"added", "awaiting", "lost"}

\* A run whose enqueueing or job failed is not in the queue any more.
ErrorsEnded ==
    \A p \in errors :
        p.from # "cancel" => ~InQueue(p.run) /\ main[p.run] \notin {"none", "adding"}

Ownership == Typed /\ JobsOwned /\ Awaited /\ ErrorsEnded

LEMMA OwnFrame ==
    ASSUME JobsOwned, Awaited, UNCHANGED <<job, work>>,
           \A r \in Runs : InQueue(r) /\ main[r] \in {"added", "awaiting", "lost"}
                               => main'[r] \in {"added", "awaiting", "lost"}
    PROVE  JobsOwned' /\ Awaited'
BY DEF JobsOwned, Awaited, Working, InQueue

\* A job that leaves the queue, or is waiting.
LEMMA OwnJob ==
    ASSUME JobsOwned, Awaited, Typed, NEW r \in Runs, UNCHANGED <<main, work>>,
           \A w \in Workers : ~Working(w, r),
           job' \in [Runs -> Jobs], \A s \in Runs \ {r} : job'[s] = job[s],
           InQueue(r)
    PROVE  JobsOwned' /\ Awaited'
BY DEF JobsOwned, Awaited, Working, InQueue

LEMMA StopJobKeepsOwned ==
    ASSUME JobsOwned, Awaited, Typed, NEW r \in Runs, NEW was,
           StopJob(r, was) \/ StopJobThrows(r, was), UNCHANGED <<main, work>>
    PROVE  JobsOwned' /\ Awaited'
<1>1. CASE job' = job
  BY <1>1, OwnFrame
<1>2. CASE job[r].at = "waiting" /\ job' = [job EXCEPT ![r].at = "removed"]
  <2>1. \A w \in Workers : ~Working(w, r)
    BY <1>2 DEF JobsOwned
  <2>2. job' \in [Runs -> Jobs]
    BY StopJobType DEF Typed
  <2>3. \A s \in Runs \ {r} : job'[s] = job[s]
    BY <1>2 DEF Typed, TypeOK
  <2> QED BY <1>2, <2>1, <2>2, <2>3, OwnJob DEF InQueue
<1> QED BY <1>1, <1>2 DEF StopJob, StopJobThrows, Broadcast, queueVars

LEMMA OwnMain ==
    ASSUME Ownership, NEW r \in Runs, Resume(r) \/ MainStep(r)
    PROVE  JobsOwned' /\ Awaited'
<1> USE DEF Ownership
<1>1. CASE Resume(r)
  BY <1>1, OwnFrame DEF Resume, Typed, TypeOK, queueVars, workerVars
<1>2. CASE AddJob(r)
  <2>1. ~InQueue(r) /\ \A w \in Workers : ~Working(w, r)
    BY <1>2 DEF AddJob, Awaited, JobsOwned, InQueue
  <2>2. main' = [main EXCEPT ![r] = "added"] /\ UNCHANGED work
        /\ \A s \in Runs \ {r} : job'[s] = job[s]
    BY <1>2 DEF AddJob, Typed, TypeOK, workerVars
  <2>3. JobsOwned'
    BY <2>1, <2>2 DEF JobsOwned, Working
  <2>4. Awaited'
    BY <2>2 DEF Typed, TypeOK, Awaited, InQueue
  <2> QED BY <2>3, <2>4
<1>3. CASE AddJobFails(r)
  BY <1>3, OwnFrame DEF AddJobFails, Typed, TypeOK, queueVars, workerVars
<1>4. CASE Attach(r)
  BY <1>4, OwnFrame DEF Attach, Typed, TypeOK, queueVars, workerVars
<1>5. CASE JobSucceeds(r)
  <2>1. ~InQueue(r)
    BY <1>5 DEF JobSucceeds, EndsQuietly, InQueue
  <2> QED BY <1>5, <2>1, OwnFrame DEF JobSucceeds, Typed, TypeOK, queueVars, workerVars
<1>6. CASE JobFails(r)
  <2>1. ~InQueue(r)
    BY <1>6 DEF JobFails, InQueue
  <2> QED BY <1>6, <2>1, OwnFrame DEF JobFails, Typed, TypeOK, queueVars, workerVars
<1>7. CASE ReadResult(r)
  BY <1>7, OwnFrame DEF ReadResult, Typed, TypeOK, queueVars, workerVars
<1>8. CASE DeleteResult(r)
  BY <1>8, OwnFrame DEF DeleteResult, Typed, TypeOK, queueVars, workerVars
<1>9. CASE CheckJob(r)
  BY <1>9, OwnFrame DEF CheckJob, queueVars, workerVars
<1>10. CASE CancelJob(r)
  BY <1>10, StopJobKeepsOwned DEF CancelJob, workerVars
<1> QED
  BY <1>1, <1>2, <1>3, <1>4, <1>5, <1>6, <1>7, <1>8, <1>9, <1>10 DEF MainStep

LEMMA OwnWorker ==
    ASSUME Ownership, NEW w \in Workers, NEW r \in Runs,
           PickUp(w, r) \/ WorkerStep(w, r) \/ DeliverAbort(w, r) \/ SaveAborted(w, r)
    PROVE  JobsOwned' /\ Awaited'
<1> USE DEF Ownership
<1>0. UNCHANGED main
  BY DEF PickUp, WorkerStep, ReadExecution, MarkRunning, StartEngine, EngineEnds,
         EngineSaves, JobEnds, DeliverAbort, SaveAborted, mainVars
\* A step that leaves the jobs alone and does not begin to work on another.
<1>1. ASSUME UNCHANGED job,
             \A v \in Workers, s \in Runs : Working(v, s)' => Working(v, s)
      PROVE  JobsOwned' /\ Awaited'
  BY <1>0, <1>1 DEF JobsOwned, Awaited, InQueue
\* A step with which the worker ends its work on r.
<1>2. ASSUME NEW how \in {"completed", "failed"}, Leaves(w, r, how), work[w][r].pc # "none",
             work'[w][r].pc = "none",
             \A v \in Workers, s \in Runs : v # w \/ s # r => work'[v][s] = work[v][s]
      PROVE  JobsOwned' /\ Awaited'
  <2>1. job[r].at = "active" /\ job[r].owner = w
    BY <1>2 DEF JobsOwned, Working
  <2>2. job'[r].at = how /\ \A s \in Runs \ {r} : job'[s] = job[s]
    BY <1>2, <2>1, LeavesType DEF Typed
  <2>3. \A v \in Workers : ~Working(v, r)'
    BY <1>2, <2>1 DEF JobsOwned, Working
  <2> QED BY <1>0, <1>2, <2>2, <2>3 DEF JobsOwned, Awaited, Working, InQueue
<1>3. CASE PickUp(w, r)
  <2>1. job[r].at = "waiting" /\ \A v \in Workers : ~Working(v, r)
    BY <1>3 DEF PickUp, JobsOwned
  <2>2. /\ job'[r].at = "active" /\ job'[r].owner = w
        /\ \A s \in Runs \ {r} : job'[s] = job[s]
    <3>1. job[r] \in Jobs /\ job' = [job EXCEPT ![r].at = "active", ![r].owner = w]
      BY <1>3 DEF PickUp, Typed, TypeOK
    <3> QED BY <3>1 DEF Typed, TypeOK, Jobs
  <2>3. \A v \in Workers, s \in Runs : v # w \/ s # r => work'[v][s] = work[v][s]
    BY <1>3, SetsPlace DEF PickUp, Typed
  <2> QED BY <1>0, <2>1, <2>2, <2>3 DEF JobsOwned, Awaited, Working, InQueue
<1>4. CASE ReadExecution(w, r)
  <2>1. CASE At(w, r, "read") /\ UNCHANGED job
    BY <1>1, <1>4, <2>1, SetsPlace DEF ReadExecution, Typed, Working
  <2>2. CASE At(w, r, "none") /\ Leaves(w, r, "failed")
    BY <1>2, <1>4, <2>2, SetsPlace DEF ReadExecution, Typed
  <2> QED BY <1>4, <2>1, <2>2 DEF ReadExecution
<1>5. CASE MarkRunning(w, r)
  BY <1>1, <1>5, SetsPlace DEF MarkRunning, Typed, Working, queueVars
<1>6. CASE StartEngine(w, r)
  BY <1>1, <1>6, SetsPlace DEF StartEngine, Typed, Working, queueVars
<1>7. CASE EngineEnds(w, r)
  <2>1. PICK o \in Outcomes \cup {"canceled", "aborted"} :
           work' = [work EXCEPT ![w][r] = [pc |-> "saving", outcome |-> o]]
    BY <1>7 DEF EngineEnds
  <2>2. [pc |-> "saving", outcome |-> o] \in Works
    BY DEF Works
  <2> QED BY <1>1, <1>7, <2>1, <2>2, SetsWork DEF EngineEnds, Typed, Working, queueVars
<1>8. CASE EngineSaves(w, r)
  BY <1>1, <1>8, SetsPlace DEF EngineSaves, Typed, Working, queueVars
<1>9. CASE JobEnds(w, r)
  <2>1. NoWork \in Works /\ NoWork.pc = "none"
    BY DEF NoWork, Works
  <2>2. work[w][r].pc # "none" /\ Leaves(w, r, "completed")
        /\ work' = [work EXCEPT ![w][r] = NoWork]
    BY <1>9 DEF JobEnds
  <2>3. /\ work'[w][r].pc = "none"
        /\ \A v \in Workers, s \in Runs : v # w \/ s # r => work'[v][s] = work[v][s]
    <3>1. work \in [Workers -> [Runs -> Works]]
      BY DEF Typed, TypeOK
    <3> QED BY ONLY <2>1, <2>2, <3>1, w \in Workers, r \in Runs
  <2>4. "completed" \in {"completed", "failed"}
    OBVIOUS
  <2> QED BY ONLY <1>2, <2>2, <2>3, <2>4
<1>10. CASE DeliverAbort(w, r) \/ SaveAborted(w, r)
  BY <1>1, <1>10 DEF DeliverAbort, SaveAborted, Working, queueVars
<1> QED
  BY <1>3, <1>4, <1>5, <1>6, <1>7, <1>8, <1>9, <1>10 DEF WorkerStep

\* The four facts that keep ErrorsEnded.
LEMMA EndedFrame ==
    ASSUME Ownership,
           \A r \in Runs : InQueue(r)' => InQueue(r) \/ main[r] = "adding",
           \A r \in Runs : main'[r] \in {"none", "adding"} => main[r] \in {"none", "adding"},
           \A p \in errors' :
              \/ p.from = "cancel"
              \/ \E q \in errors : q.run = p.run /\ q.from = p.from
              \/ p.run \in Runs /\ ~InQueue(p.run)' /\ main'[p.run] \notin {"none", "adding"}
    PROVE  ErrorsEnded'
BY DEF Ownership, ErrorsEnded, Typed, TypeOK, Errors

LEMMA StopJobQueues ==
    ASSUME Typed, NEW r \in Runs, NEW was, StopJob(r, was) \/ StopJobThrows(r, was)
    PROVE  \A s \in Runs : InQueue(s)' => InQueue(s)
<1>1. job' = job \/ job' = [job EXCEPT ![r].at = "removed"]
  BY DEF StopJob, StopJobThrows, Broadcast, queueVars
<1> QED BY <1>1 DEF InQueue, Typed, TypeOK, Jobs

LEMMA EndedMain ==
    ASSUME Ownership, NEW r \in Runs, Resume(r) \/ MainStep(r)
    PROVE  ErrorsEnded'
<1> USE DEF Ownership
<1>1. CASE Resume(r)
  BY <1>1, EndedFrame DEF Resume, InQueue, Typed, TypeOK, queueVars
<1>2. CASE AddJob(r)
  <2>1. \A s \in Runs \ {r} : job'[s] = job[s]
    BY <1>2 DEF AddJob, Typed, TypeOK
  <2> QED BY <1>2, <2>1, EndedFrame DEF AddJob, InQueue, Typed, TypeOK
<1>3. CASE AddJobFails(r)
  <2>1. ~InQueue(r)
    BY <1>3 DEF AddJobFails, Awaited
  <2>2. UNCHANGED job /\ main' = [main EXCEPT ![r] = "rejecting"]
        /\ errors' = errors \cup {[run |-> r, from |-> "enqueue", pc |-> "check"]}
    BY <1>3 DEF AddJobFails, Fails, queueVars
  <2>3. \A p \in errors' : p \in errors \/ p.run = r
    BY <2>2
  <2>4. main'[r] = "rejecting" /\ \A q \in Runs \ {r} : main'[q] = main[q]
    BY <2>2 DEF Typed, TypeOK
  <2>5. \A q \in Runs : InQueue(q)' = InQueue(q)
    BY <2>2 DEF InQueue
  <2> QED BY <2>1, <2>3, <2>4, <2>5, EndedFrame
<1>4. CASE Attach(r)
  BY <1>4, EndedFrame DEF Attach, InQueue, Typed, TypeOK, queueVars
<1>5. CASE JobSucceeds(r)
  BY <1>5, EndedFrame DEF JobSucceeds, InQueue, Typed, TypeOK, queueVars
<1>6. CASE JobFails(r)
  <2>1. ~InQueue(r)
    BY <1>6 DEF JobFails, InQueue
  <2>2. UNCHANGED job /\ main' = [main EXCEPT ![r] = "failing"]
        /\ errors' = errors \cup {[run |-> r, from |-> "executor", pc |-> "check"]}
    BY <1>6 DEF JobFails, Fails, queueVars
  <2>3. \A p \in errors' : p \in errors \/ p.run = r
    BY <2>2
  <2>4. main'[r] = "failing" /\ \A q \in Runs \ {r} : main'[q] = main[q]
    BY <2>2 DEF Typed, TypeOK
  <2>5. \A q \in Runs : InQueue(q)' = InQueue(q)
    BY <2>2 DEF InQueue
  <2> QED BY <2>1, <2>3, <2>4, <2>5, EndedFrame
<1>7. CASE ReadResult(r)
  BY <1>7, EndedFrame DEF ReadResult, InQueue, Typed, TypeOK, queueVars
<1>8. CASE DeleteResult(r)
  BY <1>8, EndedFrame DEF DeleteResult, InQueue, Typed, TypeOK, queueVars
<1>9. CASE CheckJob(r)
  BY <1>9, EndedFrame DEF CheckJob, InQueue, queueVars
<1>10. CASE CancelJob(r)
  <2>1. \A s \in Runs : InQueue(s)' => InQueue(s)
    BY <1>10, StopJobQueues DEF CancelJob
  <2>2. \A p \in errors' : p \in errors \/ p.from = "cancel"
    BY <1>10 DEF CancelJob, Fails
  <2> QED BY <1>10, <2>1, <2>2, EndedFrame DEF CancelJob
<1> QED
  BY <1>1, <1>2, <1>3, <1>4, <1>5, <1>6, <1>7, <1>8, <1>9, <1>10 DEF MainStep

LEMMA EndedNext ==
    ASSUME Ownership, [Next]_vars
    PROVE  ErrorsEnded'
<1> USE DEF Ownership
<1>1. ASSUME NEW e \in Executions, Create(e)
      PROVE  ErrorsEnded'
  <2>1. main[<<e, 1>>] = "none" /\ main' = [main EXCEPT ![<<e, 1>>] = "adding"]
        /\ UNCHANGED <<job, errors>>
    BY <1>1 DEF Create, queueVars
  <2> QED BY <2>1, EndedFrame DEF InQueue, Typed, TypeOK
<1>2. ASSUME NEW e \in Executions, StopRequested(e) \/ StopStep(e)
      PROVE  ErrorsEnded'
  <2>1. UNCHANGED <<main, errors>>
    BY <1>2 DEF StopRequested, StopStep, StopEntry, FindJob, CheckFoundJob, StopFoundJob, StopStored
  <2>2. \A s \in Runs : InQueue(s)' => InQueue(s)
    <3>1. CASE StopFoundJob(e)
      <4>1. stop[e].run \in Runs
        BY <3>1 DEF StopFoundJob, Typed, Targets
      <4> QED BY <3>1, <4>1, StopJobQueues DEF StopFoundJob
    <3>2. CASE ~StopFoundJob(e)
      BY <1>2, <3>2 DEF StopRequested, StopStep, StopEntry, FindJob, CheckFoundJob, StopStored,
                        queueVars, InQueue
    <3> QED BY <3>1, <3>2
  <2> QED BY <2>1, <2>2, EndedFrame
<1>3. ASSUME NEW r \in Runs, Resume(r) \/ MainStep(r)
      PROVE  ErrorsEnded'
  BY <1>3, EndedMain
<1>4. ASSUME NEW r \in Runs, Stall(r)
      PROVE  ErrorsEnded'
  <2>1. \A s \in Runs : InQueue(s)' => InQueue(s)
    BY <1>4 DEF Stall, InQueue, Typed, TypeOK
  <2> QED BY <1>4, <2>1, EndedFrame DEF Stall, mainVars
<1>5. ASSUME NEW p \in errors, ErrorStep(p)
      PROVE  ErrorsEnded'
  <2>1. \A q \in errors' : q \in errors \/ (q.run = p.run /\ q.from = p.from)
    <3> DEFINE x == [p EXCEPT !.pc = "save"]
    <3>1. p \in Errors
      BY DEF Typed, TypeOK
    <3>2. x.run = p.run /\ x.from = p.from
      BY <3>1 DEF Errors
    <3>3. errors' = errors \ {p} \/ errors' = (errors \ {p}) \cup {x}
      BY <1>5 DEF ErrorStep, CheckError, SaveError
    <3> HIDE DEF x
    <3>4. \A q \in errors' : q \in errors \/ q = x
      BY <3>3
    <3> QED BY <3>2, <3>4
  <2>2. \A r \in Runs : main'[r] \in {"none", "adding"} => main[r] \in {"none", "adding"}
    BY <1>5 DEF ErrorStep, CheckError, SaveError, Handled, Typed, TypeOK
  <2> QED
    BY <1>5, <2>1, <2>2, EndedFrame DEF ErrorStep, CheckError, SaveError, InQueue, queueVars
<1>6. ASSUME NEW w \in Workers, NEW r \in Runs,
             PickUp(w, r) \/ WorkerStep(w, r) \/ DeliverAbort(w, r) \/ SaveAborted(w, r)
      PROVE  ErrorsEnded'
  <2>1. UNCHANGED <<main, errors>>
    BY <1>6 DEF PickUp, WorkerStep, ReadExecution, MarkRunning, StartEngine, EngineEnds,
                EngineSaves, JobEnds, DeliverAbort, SaveAborted, mainVars
  <2>2. \A s \in Runs : InQueue(s)' => InQueue(s)
    <3>1. CASE PickUp(w, r)
      BY <3>1 DEF PickUp, InQueue, Typed, TypeOK
    <3>2. CASE ReadExecution(w, r) \/ JobEnds(w, r)
      BY <3>2, LeavesType DEF ReadExecution, JobEnds, InQueue, Typed
    <3>3. CASE UNCHANGED job
      BY <3>3 DEF InQueue
    <3> QED BY <1>6, <3>1, <3>2, <3>3 DEF WorkerStep, MarkRunning, StartEngine, EngineEnds,
                EngineSaves, DeliverAbort, SaveAborted, queueVars
  <2> QED BY <2>1, <2>2, EndedFrame
<1>7. ASSUME NEW w \in Workers, Crash(w) \/ BeginShutdown(w) \/ Exit(w) \/ Start(w)
      PROVE  ErrorsEnded'
  <2>1. UNCHANGED <<main, errors, job>>
    BY <1>7 DEF Crash, BeginShutdown, Exit, Start, GoesDown, mainVars, queueVars
  <2> QED BY <2>1, EndedFrame DEF InQueue
<1>8. CASE RecoveryStep
  BY <1>8, EndedFrame DEF RecoveryStep, ReadStored, FindDangling, MarkDangling, queueVars, InQueue
<1>9. CASE MainCrash
  BY <1>9, EndedFrame DEF MainCrash, queueVars, InQueue
<1>10. CASE UNCHANGED vars
  BY <1>10, EndedFrame DEF vars, mainVars, queueVars, InQueue
<1> QED
  BY <1>1, <1>2, <1>3, <1>4, <1>5, <1>6, <1>7, <1>8, <1>9, <1>10 DEF Next

LEMMA OwnNext == LocksHold /\ Ownership /\ [Next]_vars => Ownership'
<1> SUFFICES ASSUME LocksHold, Ownership, [Next]_vars
             PROVE  JobsOwned' /\ Awaited'
  BY TypedNext, EndedNext DEF Ownership
<1> USE DEF Ownership
<1>1. ASSUME NEW e \in Executions, Create(e)
      PROVE  JobsOwned' /\ Awaited'
  <2>1. main[<<e, 1>>] = "none" /\ main' = [main EXCEPT ![<<e, 1>>] = "adding"]
        /\ UNCHANGED <<job, work>>
    BY <1>1 DEF Create, queueVars, workerVars
  <2> QED BY <2>1, OwnFrame DEF Typed, TypeOK
<1>2. ASSUME NEW e \in Executions, StopRequested(e) \/ StopStep(e)
      PROVE  JobsOwned' /\ Awaited'
  <2>1. UNCHANGED <<main, work>>
    BY <1>2 DEF StopRequested, StopStep, StopEntry, FindJob, CheckFoundJob, StopFoundJob,
                StopStored, workerVars
  <2>2. CASE StopFoundJob(e)
    <3>1. stop[e].run \in Runs
      BY <2>2 DEF StopFoundJob, Typed, Targets
    <3> QED BY <2>1, <2>2, <3>1, StopJobKeepsOwned DEF StopFoundJob
  <2>3. CASE ~StopFoundJob(e)
    <3>1. UNCHANGED job
      BY <1>2, <2>3 DEF StopRequested, StopStep, StopEntry, FindJob, CheckFoundJob, StopStored,
                        queueVars
    <3> QED BY <2>1, <3>1, OwnFrame
  <2> QED BY <2>2, <2>3
<1>3. ASSUME NEW r \in Runs, Resume(r) \/ MainStep(r)
      PROVE  JobsOwned' /\ Awaited'
  BY <1>3, OwnMain
<1>4. ASSUME NEW r \in Runs, Stall(r)
      PROVE  JobsOwned' /\ Awaited'
  <2>1. \A w \in Workers : ~Working(w, r)
    BY <1>4 DEF Stall, LocksHold, JobsOwned
  <2>2. job' \in [Runs -> Jobs] /\ \A s \in Runs \ {r} : job'[s] = job[s]
    BY <1>4, TypeStall DEF Stall, Typed, TypeOK
  <2> QED BY <1>4, <2>1, <2>2, OwnJob DEF Stall, InQueue, mainVars, workerVars
<1>5. ASSUME NEW p \in errors, ErrorStep(p)
      PROVE  JobsOwned' /\ Awaited'
  <2>1. UNCHANGED <<job, work>>
    BY <1>5 DEF ErrorStep, CheckError, SaveError, queueVars, workerVars
  <2>2. p.run \in Runs /\ (p.from # "cancel" => ~InQueue(p.run))
    BY DEF Typed, TypeOK, Errors, ErrorsEnded
  <2>3. p.from = "cancel" => UNCHANGED main
    BY <1>5 DEF ErrorStep, CheckError, SaveError, Handled
  <2>4. \A r \in Runs \ {p.run} : main'[r] = main[r]
    BY <1>5 DEF ErrorStep, CheckError, SaveError, Handled, Typed, TypeOK
  <2> QED BY <2>1, <2>2, <2>3, <2>4, OwnFrame
<1>6. ASSUME NEW w \in Workers, NEW r \in Runs,
             PickUp(w, r) \/ WorkerStep(w, r) \/ DeliverAbort(w, r) \/ SaveAborted(w, r)
      PROVE  JobsOwned' /\ Awaited'
  BY <1>6, OwnWorker
<1>7. ASSUME NEW w \in Workers, Crash(w) \/ BeginShutdown(w) \/ Exit(w) \/ Start(w)
      PROVE  JobsOwned' /\ Awaited'
  <2>1. UNCHANGED <<main, job>>
    BY <1>7 DEF Crash, BeginShutdown, Exit, Start, GoesDown, mainVars, queueVars
  <2>2. \A v \in Workers, s \in Runs : Working(v, s)' => Working(v, s)
    <3>1. CASE GoesDown(w)
      BY <3>1, GoesDownSets DEF Typed, Working, NoWork
    <3>2. CASE UNCHANGED work
      BY <3>2 DEF Working
    <3> QED BY <1>7, <3>1, <3>2 DEF Crash, BeginShutdown, Exit, Start
  <2> QED BY <2>1, <2>2 DEF JobsOwned, Awaited, InQueue
<1>8. CASE RecoveryStep
  BY <1>8, OwnFrame DEF RecoveryStep, ReadStored, FindDangling, MarkDangling, queueVars, workerVars
<1>9. CASE MainCrash
  BY <1>9, OwnFrame DEF MainCrash, queueVars, workerVars
<1>10. CASE UNCHANGED vars
  BY <1>10, OwnFrame DEF vars, mainVars, queueVars, workerVars
<1> QED
  BY <1>1, <1>2, <1>3, <1>4, <1>5, <1>6, <1>7, <1>8, <1>9, <1>10 DEF Next

-------------------------------------------------------------------------------
(***************************************************************************)
(* Executions in progress.                                                 *)
(***************************************************************************)
EntriesOwn == \A e \in Executions : entry[e] \in Runs => Id(entry[e]) = e

\* What only a stop request brings about.
StoppedOnly ==
    /\ \A r \in Runs : cancel[r] # "none" => stop[Id(r)].pc # "none"
    /\ \A p \in errors : p.from = "cancel" => stop[Id(p.run)].pc # "none"
    /\ \A w \in Workers, r \in Runs :
          <<w, r>> \in aborts \/ <<w, r>> \in aborted \/ work[w][r].outcome = "aborted"
              => stop[Id(r)].pc # "none"

\* What will store the end of run r, or start it.
Tended(r) ==
    \/ main[r] \in {"adding", "lost"}
    \/ job[r].at = "waiting"
    \/ job[r].at = "active" /\ \A w \in Workers : job[r].owner = w => work[w][r].pc # "saved"
    \/ main[r] \in {"added", "awaiting"} /\ job[r].at = "failed"
    \/ \E p \in errors :
          p.run = r /\ p.from # "cancel" /\ main[r] \in {"rejecting", "failing"}

Cared(e) == \E r \in Runs : Id(r) = e /\ Tended(r)

AllCared == \A e \in Executions : InProgress(e) /\ stop[e].pc = "none" => Cared(e)

ZInv == Ownership /\ EntriesOwn /\ StoppedOnly /\ AllCared

Ongoing == {"new", "running"}

\* What stores an end leaves a row that is not in progress.
LEMMA RowEnds ==
    ASSUME NEW r \in AllRows
    PROVE  /\ \A status \in MainStore!Statuses \ Ongoing :
                 /\ WorkerStore!Saved(r, status, Mode).status \notin Ongoing
                 /\ MainStore!Saved(r, status, Mode).status \notin Ongoing
                 /\ MainStore!WithStatus(r, status).status \notin Ongoing
           /\ MainStore!StoppedDuringRun(r).status \notin Ongoing
           /\ MainStore!Deleted.status \notin Ongoing
           /\ Amended(r).status \notin Ongoing
           /\ Succeeded(r) => r.status \notin Ongoing
           /\ ~MainStore!Exists(r) => r.status \notin Ongoing
<1> DEFINE Record == [status : MainStore!Statuses, waitTill : BOOLEAN,
                      data : MainStore!DataStages, mode : {Mode}]
<1>1. /\ MainStore!Exists(r) => r \in Record
      /\ MainStore!Exists(r) <=> WorkerStore!Exists(r)
      /\ ~MainStore!Exists(r) => r.status \notin Ongoing
  BY DEF AllRows, MainStore!Rows, MainStore!Exists, WorkerStore!Exists, MainStore!Statuses,
         WorkerStore!Statuses, MainStore!Deleted, MainStore!NotInserted, MainStore!Absent, Ongoing
<1>2. MainStore!Deleted.status \notin Ongoing /\ WorkerStore!Deleted.status \notin Ongoing
  BY DEF MainStore!Deleted, WorkerStore!Deleted, MainStore!Absent, WorkerStore!Absent, Ongoing
<1>3. \A status \in MainStore!Statuses \ Ongoing :
         /\ WorkerStore!Saved(r, status, Mode).status \notin Ongoing
         /\ MainStore!Saved(r, status, Mode).status \notin Ongoing
  BY <1>1, <1>2 DEF MainStore!Saved, WorkerStore!Saved
<1>4. \A status \in MainStore!Statuses \ Ongoing :
         MainStore!WithStatus(r, status).status \notin Ongoing
  BY <1>1 DEF MainStore!WithStatus
<1>5. MainStore!StoppedDuringRun(r).status \notin Ongoing
  <2>1. CASE MainStore!Exists(r)
    <3>1. r \in Record
      BY <1>1, <2>1
    <3>2. [r EXCEPT !.status = "canceled", !.waitTill = FALSE, !.data = "failed"].status
             = "canceled"
      BY <3>1
    <3> QED BY <2>1, <3>2 DEF MainStore!StoppedDuringRun, Ongoing
  <2>2. CASE ~MainStore!Exists(r)
    BY <1>1, <2>2 DEF MainStore!StoppedDuringRun
  <2> QED BY <2>1, <2>2
<1>6. Amended(r).status \notin Ongoing
  BY <1>1, <1>3 DEF Amended, Ongoing, MainStore!Statuses
<1>7. Succeeded(r) => r.status \notin Ongoing
  BY DEF Succeeded, Ongoing
<1> QED BY <1>1, <1>2, <1>3, <1>4, <1>5, <1>6, <1>7

\* Runs that a step does not tend less than before.
LEMMA StillTended ==
    ASSUME NEW r \in Runs, Tended(r), main'[r] = main[r], job'[r] = job[r],
           \A w \in Workers : work[w][r].pc # "saved" => work'[w][r].pc # "saved",
           \A p \in errors : p.run = r => \E q \in errors' : q.run = r /\ q.from = p.from
    PROVE  Tended(r)'
BY DEF Tended

\* A step has to be looked at for the executions of which it tends a run less, or
\* which it brings in progress.
LEMMA CareFrame ==
    ASSUME AllCared,
           \A e \in Executions : stop'[e].pc = "none" => stop[e].pc = "none",
           \A e \in Executions :
              \/ \A r \in Runs : Id(r) = e /\ Tended(r) => Tended(r)'
              \/ stop'[e].pc # "none"
              \/ ~InProgress(e)'
              \/ Cared(e)',
           \A e \in Executions : InProgress(e)' /\ ~InProgress(e) => Cared(e)'
    PROVE  AllCared'
BY DEF AllCared, Cared

\* A step that stops nothing, and forgets no stop.
LEMMA CauseKept ==
    ASSUME Typed, StoppedOnly,
           \A e \in Executions : stop[e].pc # "none" => stop'[e].pc # "none",
           \A r \in Runs : cancel'[r] # "none" =>
              \/ cancel[r] # "none"
              \/ stop[Id(r)].pc # "none",
           \A p \in errors' :
              \/ p.from # "cancel"
              \/ \E q \in errors : q.run = p.run /\ q.from = p.from,
           \A w \in Workers, r \in Runs : <<w, r>> \in aborts' => <<w, r>> \in aborts,
           \A w \in Workers, r \in Runs :
              <<w, r>> \in aborted' => <<w, r>> \in aborted \/ <<w, r>> \in aborts,
           \A w \in Workers, r \in Runs :
              work'[w][r].outcome = "aborted" =>
                 work[w][r].outcome = "aborted" \/ <<w, r>> \in aborted
    PROVE  StoppedOnly'
<1>1. \A r \in Runs : Id(r) \in Executions
  BY RunIds
<1>2. \A r \in Runs : cancel'[r] # "none" => stop'[Id(r)].pc # "none"
  BY <1>1 DEF StoppedOnly
<1>3. \A p \in errors' : p.from = "cancel" => stop'[Id(p.run)].pc # "none"
  <2> SUFFICES ASSUME NEW p \in errors', p.from = "cancel"
               PROVE  stop'[Id(p.run)].pc # "none"
    OBVIOUS
  <2>1. PICK q \in errors : q.run = p.run /\ q.from = "cancel"
    OBVIOUS
  <2>2. q.run \in Runs
    BY DEF Typed, TypeOK, Errors
  <2> QED BY <1>1, <2>1, <2>2 DEF StoppedOnly
<1>4. \A w \in Workers, r \in Runs :
         <<w, r>> \in aborts' \/ <<w, r>> \in aborted' \/ work'[w][r].outcome = "aborted"
             => stop'[Id(r)].pc # "none"
  BY <1>1 DEF StoppedOnly
<1> QED BY <1>2, <1>3, <1>4 DEF StoppedOnly

\* A step that touches no row, no job and no work, stops nothing, and lets no run
\* but r go on.
LEMMA MainFrame ==
    ASSUME ZInv, NEW r \in Runs,
           UNCHANGED <<row, stop, cancel, job, aborts, aborted, work>>,
           \A s \in Runs \ {r} : main'[s] = main[s],
           \A p \in errors : p \in errors',
           \A p \in errors' : p \in errors \/ p.from # "cancel",
           Tended(r) => Tended(r)'
    PROVE  StoppedOnly' /\ AllCared'
<1>1. StoppedOnly'
  BY CauseKept DEF ZInv, Ownership
<1>2. \A s \in Runs : Tended(s) => Tended(s)'
  BY StillTended
<1>3. \A e \in Executions : InProgress(e)' = InProgress(e)
  BY DEF InProgress
<1> QED BY <1>1, <1>2, <1>3, CareFrame DEF ZInv

LEMMA NewError ==
    ASSUME NEW r \in Runs, NEW from, Fails(r, from), from # "cancel"
    PROVE  /\ \E p \in errors' : p.run = r /\ p.from # "cancel"
           /\ \A p \in errors' : p \in errors \/ p.from # "cancel"
           /\ \A p \in errors : p \in errors'
<1> DEFINE x == [run |-> r, from |-> from, pc |-> "check"]
<1>1. x.run = r /\ x.from = from /\ errors' = errors \cup {x}
  BY DEF Fails
<1> HIDE DEF x
<1> QED BY <1>1

\* What stopping a job of a stopped execution does.
LEMMA CareStopJob ==
    ASSUME ZInv, NEW r \in Runs, NEW was, StopJob(r, was) \/ StopJobThrows(r, was),
           stop[Id(r)].pc # "none", stop'[Id(r)].pc # "none",
           \A e \in Executions : (stop'[e].pc = "none") = (stop[e].pc = "none"),
           \A s \in Runs : cancel'[s] # "none" => cancel[s] # "none",
           \A p \in errors : p \in errors',
           \A p \in errors' : p \in errors \/ p.run = r,
           UNCHANGED <<row, main, aborted, work>>
    PROVE  StoppedOnly' /\ AllCared'
<1> USE DEF ZInv, Ownership
<1>1. \A w \in Workers, s \in Runs : <<w, s>> \in aborts' => <<w, s>> \in aborts \/ s = r
  BY DEF StopJob, StopJobThrows, Broadcast, queueVars
<1>2. \A s \in Runs \ {r} : job'[s] = job[s]
  BY DEF StopJob, StopJobThrows, Broadcast, queueVars, Typed, TypeOK
<1>3. StoppedOnly'
  <2>1. \A s \in Runs : stop[Id(s)].pc # "none" => stop'[Id(s)].pc # "none"
    BY RunIds
  <2>2. \A p \in errors : p.run \in Runs
    BY DEF Typed, TypeOK, Errors
  <2> QED BY <1>1, <2>1, <2>2 DEF StoppedOnly
<1>4. \A s \in Runs \ {r} : Tended(s) => Tended(s)'
  BY <1>2, StillTended
<1>5. AllCared'
  BY <1>4, CareFrame DEF InProgress
<1> QED BY <1>3, <1>5

LEMMA CareMain ==
    ASSUME EventsArrive, ZInv, NEW r \in Runs, Resume(r) \/ MainStep(r)
    PROVE  EntriesOwn' /\ StoppedOnly' /\ AllCared'
<1> USE DEF ZInv, Ownership
<1>0. Id(r) \in Executions /\ row[Id(r)] \in AllRows
  BY RunIds DEF Typed, TypeOK, AllRows
<1>1. CASE Resume(r)
  <2>1. /\ main' = [main EXCEPT ![r] = "adding"]
        /\ entry' = [entry EXCEPT ![Id(r)] = Pending]
        /\ row' = [row EXCEPT ![Id(r)] = MainStore!Resumed(row[Id(r)])]
        /\ UNCHANGED <<stop, cancel, errors, job, aborts, aborted, work>>
    BY <1>1 DEF Resume, queueVars, workerVars
  <2>2. EntriesOwn'
    BY <2>1, NoEntryAssumption DEF EntriesOwn, Typed, TypeOK
  <2>3. StoppedOnly'
    BY <2>1, CauseKept
  <2>4. Tended(r)' /\ \A s \in Runs : Tended(s) => Tended(s)'
    BY <2>1, StillTended DEF Tended, Typed, TypeOK
  <2>5. \A e \in Executions \ {Id(r)} : InProgress(e)' = InProgress(e)
    BY <2>1 DEF InProgress, Typed, TypeOK
  <2>6. AllCared'
    BY <2>1, <2>4, <2>5, CareFrame DEF Cared
  <2> QED BY <2>2, <2>3, <2>6
<1>2. CASE AddJob(r)
  <2>1. /\ job' = [job EXCEPT ![r].at = "waiting"] /\ main' = [main EXCEPT ![r] = "added"]
        /\ UNCHANGED <<row, entry, stop, cancel, errors, aborts, aborted, work>>
    BY <1>2 DEF AddJob, workerVars
  <2>2. job'[r].at = "waiting" /\ \A s \in Runs \ {r} : job'[s] = job[s] /\ main'[s] = main[s]
    BY <2>1 DEF Typed, TypeOK, Jobs
  <2>3. \A s \in Runs : Tended(s) => Tended(s)'
    BY <2>1, <2>2, StillTended DEF Tended
  <2>4. StoppedOnly'
    BY <2>1, CauseKept
  <2>5. AllCared'
    BY <2>1, <2>3, CareFrame DEF InProgress
  <2> QED BY <2>1, <2>4, <2>5 DEF EntriesOwn
<1>3. CASE AddJobFails(r)
  <2>1. /\ main' = [main EXCEPT ![r] = "rejecting"]
        /\ Fails(r, "enqueue")
        /\ UNCHANGED <<row, entry, stop, cancel, job, aborts, aborted, work>>
    BY <1>3 DEF AddJobFails, queueVars, workerVars
  <2>2. main'[r] = "rejecting" /\ \A s \in Runs \ {r} : main'[s] = main[s]
    BY <2>1 DEF Typed, TypeOK
  <2>3. /\ \E p \in errors' : p.run = r /\ p.from # "cancel"
        /\ \A p \in errors' : p \in errors \/ p.from # "cancel"
        /\ \A p \in errors : p \in errors'
    BY <2>1, NewError
  <2>4. Tended(r)'
    BY <2>2, <2>3 DEF Tended
  <2> QED BY <2>1, <2>2, <2>3, <2>4, MainFrame DEF EntriesOwn
<1>4. CASE Attach(r)
  <2>1. /\ main[r] = "added" /\ main' = [main EXCEPT ![r] = "awaiting"]
        /\ entry' = [entry EXCEPT ![Id(r)] = IF @ = NoEntry THEN NoEntry ELSE r]
        /\ UNCHANGED <<row, stop, cancel, errors, job, aborts, aborted, work>>
    BY <1>4 DEF Attach, queueVars, workerVars
  <2>2. EntriesOwn'
    BY <1>0, <2>1 DEF EntriesOwn, Typed, TypeOK
  <2>3. main'[r] = "awaiting" /\ \A s \in Runs \ {r} : main'[s] = main[s]
    BY <2>1 DEF Typed, TypeOK
  <2>4. Tended(r) => Tended(r)'
    BY <2>1, <2>3 DEF Tended
  <2> QED BY <2>1, <2>2, <2>3, <2>4, MainFrame
<1>5. CASE JobSucceeds(r)
  <2>1. /\ main[r] = "awaiting" /\ job[r].at \in {"completed", "removed"}
        /\ main' = [main EXCEPT ![r] = "reading"]
        /\ UNCHANGED <<row, entry, stop, cancel, errors, job, aborts, aborted, work>>
    BY <1>5 DEF JobSucceeds, EndsQuietly, EventsArrive, queueVars, workerVars
  <2>2. ~Tended(r)
    BY <2>1 DEF Tended
  <2> QED BY <2>1, <2>2, MainFrame DEF EntriesOwn, Typed, TypeOK
<1>6. CASE JobFails(r)
  <2>1. /\ main' = [main EXCEPT ![r] = "failing"]
        /\ Fails(r, "executor")
        /\ UNCHANGED <<row, entry, stop, cancel, job, aborts, aborted, work>>
    BY <1>6 DEF JobFails, queueVars, workerVars
  <2>2. main'[r] = "failing" /\ \A s \in Runs \ {r} : main'[s] = main[s]
    BY <2>1 DEF Typed, TypeOK
  <2>3. /\ \E p \in errors' : p.run = r /\ p.from # "cancel"
        /\ \A p \in errors' : p \in errors \/ p.from # "cancel"
        /\ \A p \in errors : p \in errors'
    BY <2>1, NewError
  <2>4. Tended(r)'
    BY <2>2, <2>3 DEF Tended
  <2> QED BY <2>1, <2>2, <2>3, <2>4, MainFrame DEF EntriesOwn
\* When the main has read the end of a run, that run is tended no more.
<1>7. ASSUME main[r] \in {"reading", "rejected", "deleting"}
      PROVE  ~Tended(r)
  BY <1>7 DEF Tended, Awaited, InQueue
<1>8. CASE ReadResult(r)
  <2>1. /\ main[r] \in {"reading", "rejected"}
        /\ UNCHANGED <<row, stop, cancel, errors, job, aborts, aborted, work>>
        /\ \A s \in Runs \ {r} : main'[s] = main[s]
        /\ entry' = entry \/ entry' = [entry EXCEPT ![Id(r)] = NoEntry]
    BY <1>8 DEF ReadResult, Typed, TypeOK, queueVars, workerVars
  <2>2. EntriesOwn'
    BY <2>1, NoEntryAssumption DEF EntriesOwn, Typed, TypeOK
  <2> QED BY <1>7, <2>1, <2>2, MainFrame
<1>9. CASE DeleteResult(r)
  <2>1. /\ main[r] = "deleting" /\ row' = [row EXCEPT ![Id(r)] = MainStore!Deleted]
        /\ UNCHANGED <<entry, stop, cancel, errors, job, aborts, aborted, work>>
        /\ \A s \in Runs \ {r} : main'[s] = main[s]
    BY <1>9 DEF DeleteResult, Typed, TypeOK, queueVars, workerVars
  <2>2. StoppedOnly'
    BY <2>1, CauseKept
  <2>3. \A s \in Runs : Tended(s) => Tended(s)'
    BY <1>7, <2>1, StillTended
  <2>4. \A e \in Executions : InProgress(e)' => InProgress(e)
    BY <1>0, <2>1, RowEnds DEF InProgress, Ongoing, Typed, TypeOK
  <2>5. AllCared'
    BY <2>1, <2>3, <2>4, CareFrame
  <2> QED BY <2>1, <2>2, <2>5 DEF EntriesOwn
<1>10. CASE CheckJob(r)
  <2>1. /\ cancel[r] # "none" /\ \A s \in Runs : cancel'[s] # "none" => cancel[s] # "none"
        /\ UNCHANGED <<row, entry, main, stop, errors, job, aborts, aborted, work>>
    BY <1>10 DEF CheckJob, Checked, Typed, TypeOK, queueVars, workerVars
  <2>2. StoppedOnly'
    BY <2>1, CauseKept
  <2>3. AllCared'
    BY <2>1, StillTended, CareFrame DEF InProgress
  <2> QED BY <2>1, <2>2, <2>3 DEF EntriesOwn
<1>11. CASE CancelJob(r)
  <2>1. /\ cancel[r] # "none" /\ \A s \in Runs : cancel'[s] # "none" => cancel[s] # "none"
        /\ StopJob(r, cancel[r]) \/ StopJobThrows(r, cancel[r])
        /\ \A p \in errors : p \in errors'
        /\ \A p \in errors' : p \in errors \/ p.run = r
        /\ UNCHANGED <<row, entry, main, stop, aborted, work>>
    BY <1>11 DEF CancelJob, Fails, Typed, TypeOK, workerVars
  <2>2. stop[Id(r)].pc # "none"
    BY <2>1 DEF StoppedOnly
  <2> QED BY <1>0, <2>1, <2>2, CareStopJob DEF EntriesOwn
<1> QED
  BY <1>1, <1>2, <1>3, <1>4, <1>5, <1>6, <1>8, <1>9, <1>10, <1>11 DEF MainStep

LEMMA CareError ==
    ASSUME ZInv, NEW p \in errors, ErrorStep(p)
    PROVE  EntriesOwn' /\ StoppedOnly' /\ AllCared'
<1> USE DEF ZInv, Ownership
<1> DEFINE r == p.run
           x == [p EXCEPT !.pc = "save"]
<1>0. r \in Runs /\ Id(r) \in Executions /\ row[Id(r)] \in AllRows /\ x.run = r /\ x.from = p.from
  <2>1. p \in Errors
    BY DEF Typed, TypeOK
  <2>2. r \in Runs /\ x.run = r /\ x.from = p.from
    BY <2>1 DEF Errors
  <2> QED BY <2>2, RunIds DEF Typed, TypeOK, AllRows
\* A run that is finished with is looked at no more, whatever its row says.
<1>1. ASSUME errors' = errors \ {p}, Handled(p), row'[Id(r)].status \notin Ongoing,
             \A e \in Executions \ {Id(r)} : row'[e] = row[e],
             UNCHANGED <<stop, job, aborts, aborted, work>>
      PROVE  StoppedOnly' /\ AllCared'
  <2>1. \A s \in Runs \ {r} : main'[s] = main[s] /\ cancel'[s] = cancel[s]
    BY <1>1 DEF Handled, Typed, TypeOK
  <2>2. cancel' = cancel \/ stop[Id(r)].pc # "none"
    BY <1>1 DEF Handled, StoppedOnly
  <2>3. \A s \in Runs : cancel'[s] # "none" => cancel[s] # "none" \/ stop[Id(s)].pc # "none"
    BY <2>1, <2>2
  <2>4. StoppedOnly'
    <3>1. \A q \in errors' : q \in errors
      BY <1>1
    <3> HIDE DEF r, x
    <3> QED BY <1>1, <2>3, <3>1, CauseKept
  <2>5. \A s \in Runs : Id(s) # Id(r) /\ Tended(s) => Tended(s)'
    <3> SUFFICES ASSUME NEW s \in Runs, Id(s) # Id(r), Tended(s)
                 PROVE  Tended(s)'
      OBVIOUS
    <3>1. \A q \in errors : q.run = s => q \in errors'
      BY <1>1
    <3> HIDE DEF r, x
    <3> QED BY <1>1, <2>1, <3>1, StillTended
  <2>6. \A e \in Executions \ {Id(r)} : InProgress(e)' = InProgress(e)
    BY <1>1 DEF InProgress
  <2>7. ~InProgress(Id(r))'
    BY <1>1 DEF InProgress, Ongoing
  <2> HIDE DEF r, x
  <2>8. AllCared'
    BY <1>1, <2>5, <2>6, <2>7, CareFrame
  <2> QED BY <2>4, <2>8
<1>2. CASE CheckError(p) /\ Succeeded(row[Id(r)])
  <2>1. /\ errors' = errors \ {p} /\ Handled(p)
        /\ UNCHANGED <<row, entry, stop, job, aborts, aborted, work>>
    BY <1>2 DEF CheckError, queueVars, workerVars
  <2>2. row'[Id(r)].status \notin Ongoing
    BY <1>0, <1>2, <2>1, RowEnds
  <2> QED BY <1>1, <2>1, <2>2 DEF EntriesOwn
<1>3. CASE CheckError(p) /\ ~Succeeded(row[Id(r)])
  <2>1. /\ errors' = (errors \ {p}) \cup {x}
        /\ entry' = [entry EXCEPT ![Id(r)] = NoEntry]
        /\ UNCHANGED <<row, main, cancel, stop, job, aborts, aborted, work>>
    BY <1>3 DEF CheckError, queueVars, workerVars
  <2>2. EntriesOwn'
    BY <1>0, <2>1, NoEntryAssumption DEF EntriesOwn, Typed, TypeOK
  <2>3. \A q \in errors' : \E o \in errors : o.run = q.run /\ o.from = q.from
    <3> HIDE DEF x
    <3> QED BY <1>0, <2>1 DEF r
  <2>4. \A q \in errors : \E o \in errors' : o.run = q.run /\ o.from = q.from
    <3> HIDE DEF x
    <3> QED BY <1>0, <2>1 DEF r
  <2> HIDE DEF r, x
  <2>5. StoppedOnly'
    BY <2>1, <2>3, CauseKept
  <2>6. \A s \in Runs : Tended(s) => Tended(s)'
    <3> SUFFICES ASSUME NEW s \in Runs, Tended(s)
                 PROVE  Tended(s)'
      OBVIOUS
    <3> QED BY <2>1, <2>4, StillTended
  <2>7. AllCared'
    BY <2>1, <2>6, CareFrame DEF InProgress
  <2> QED BY <2>2, <2>5, <2>7
<1>4. CASE SaveError(p)
  <2>1. /\ errors' = errors \ {p} /\ Handled(p)
        /\ row' = [row EXCEPT ![Id(r)] = WorkerStore!Saved(row[Id(r)], "error", Mode)]
        /\ UNCHANGED <<entry, stop, job, aborts, aborted, work>>
    BY <1>4 DEF SaveError, queueVars, workerVars
  <2>2. row'[Id(r)].status \notin Ongoing
    <3>1. "error" \in MainStore!Statuses \ Ongoing
      BY DEF MainStore!Statuses, Ongoing
    <3>2. row'[Id(r)] = WorkerStore!Saved(row[Id(r)], "error", Mode)
      BY <1>0, <2>1 DEF Typed, TypeOK
    <3> QED BY <1>0, <3>1, <3>2, RowEnds
  <2>3. \A e \in Executions \ {Id(r)} : row'[e] = row[e]
    BY <2>1 DEF Typed, TypeOK
  <2> QED BY <1>1, <2>1, <2>2, <2>3 DEF EntriesOwn
<1> QED BY <1>2, <1>3, <1>4 DEF ErrorStep, CheckError

LEMMA CareStop ==
    ASSUME ZInv, NEW e \in Executions, Create(e) \/ StopRequested(e) \/ StopStep(e)
    PROVE  EntriesOwn' /\ StoppedOnly' /\ AllCared'
<1> USE DEF ZInv, Ownership
<1>0. row[e] \in AllRows
  BY DEF Typed, TypeOK, AllRows
<1>1. CASE Create(e)
  <2>1. /\ entry' = [entry EXCEPT ![e] = Pending] /\ main' = [main EXCEPT ![<<e, 1>>] = "adding"]
        /\ \A d \in Executions \ {e} : row'[d] = row[d]
        /\ UNCHANGED <<stop, cancel, errors, job, aborts, aborted, work>>
    BY <1>1 DEF Create, Typed, TypeOK, queueVars, workerVars
  <2>2. EntriesOwn'
    BY <2>1, NoEntryAssumption DEF EntriesOwn, Typed, TypeOK
  <2>3. StoppedOnly'
    BY <2>1, CauseKept
  <2>4. Tended(<<e, 1>>)' /\ \A s \in Runs : Tended(s) => Tended(s)'
    BY <2>1, RunIds, StillTended DEF Tended, Typed, TypeOK
  <2>5. \A d \in Executions \ {e} : InProgress(d)' = InProgress(d)
    BY <2>1 DEF InProgress
  <2>6. AllCared'
    BY <2>1, <2>4, <2>5, RunIds, CareFrame DEF Cared
  <2> QED BY <2>2, <2>3, <2>6
\* A step of the stop request of e.
<1>2. ASSUME stop'[e].pc # "none", \A d \in Executions \ {e} : stop'[d] = stop[d] /\ row'[d] = row[d],
             \A r \in Runs : cancel'[r] # "none" => cancel[r] # "none" \/ stop[Id(r)].pc # "none",
             UNCHANGED <<main, errors, job, aborts, aborted, work>>
      PROVE  StoppedOnly' /\ AllCared'
  <2>1. StoppedOnly'
    BY <1>2, CauseKept
  <2>2. \A s \in Runs : Tended(s) => Tended(s)'
    BY <1>2, StillTended
  <2>3. \A d \in Executions \ {e} : InProgress(d)' = InProgress(d)
    BY <1>2 DEF InProgress
  <2>4. AllCared'
    BY <1>2, <2>2, <2>3 DEF AllCared, Cared
  <2> QED BY <2>1, <2>4
<1>3. CASE StopRequested(e) \/ FindJob(e) \/ CheckFoundJob(e) \/ StopStored(e)
  <2>1. UNCHANGED <<entry, main, cancel, errors, job, aborts, aborted, work>>
    BY <1>3 DEF StopRequested, FindJob, CheckFoundJob, StopStored, queueVars, workerVars
  <2>2. \A d \in Executions \ {e} : stop'[d] = stop[d] /\ row'[d] = row[d]
    BY <1>3 DEF StopRequested, FindJob, CheckFoundJob, StopStored, Typed, TypeOK
  <2>3. stop'[e].pc # "none"
    BY <1>3 DEF StopRequested, FindJob, CheckFoundJob, StopStored, Checked, Typed, TypeOK, Stops
  <2> QED BY <1>2, <2>1, <2>2, <2>3 DEF EntriesOwn
<1>4. CASE StopEntry(e)
  <2>1. UNCHANGED <<row, main, errors, job, aborts, aborted, work>>
    BY <1>4 DEF StopEntry, queueVars, workerVars
  <2>2. stop'[e].pc # "none" /\ \A d \in Executions \ {e} : stop'[d] = stop[d]
    BY <1>4 DEF StopEntry, Typed, TypeOK, Stops
  <2>3. entry' = entry \/ entry' = [entry EXCEPT ![e] = NoEntry]
    BY <1>4 DEF StopEntry
  <2>4. EntriesOwn'
    BY <2>3, NoEntryAssumption DEF EntriesOwn, Typed, TypeOK
  <2>5. cancel' = cancel \/ (entry[e] \in Runs /\ cancel' = [cancel EXCEPT ![entry[e]] = "requested"])
    BY <1>4 DEF StopEntry
  <2>6. stop[e].pc # "none" /\ (entry[e] \in Runs => Id(entry[e]) = e)
    BY <1>4 DEF StopEntry, EntriesOwn
  <2>7. \A r \in Runs : cancel'[r] # "none" => cancel[r] # "none" \/ stop[Id(r)].pc # "none"
    BY <2>5, <2>6 DEF Typed, TypeOK
  <2> QED BY <1>2, <2>1, <2>2, <2>4, <2>7
<1>5. CASE StopFoundJob(e)
  <2>1. UNCHANGED <<row, entry, main, cancel, errors, aborted, work>>
    BY <1>5 DEF StopFoundJob, workerVars
  <2>2. stop[e].run \in Runs /\ Id(stop[e].run) = e /\ stop[e].pc # "none"
    BY <1>5 DEF StopFoundJob, Typed, Targets
  <2>3. stop'[e].pc # "none" /\ \A d \in Executions \ {e} : stop'[d] = stop[d]
    BY <1>5 DEF StopFoundJob, Typed, TypeOK, Stops
  <2>4. StopJob(stop[e].run, stop[e].pc) \/ StopJobThrows(stop[e].run, stop[e].pc)
    BY <1>5 DEF StopFoundJob
  <2>5. \A d \in Executions : (stop'[d].pc = "none") = (stop[d].pc = "none")
    BY <2>2, <2>3
  <2>6. StoppedOnly' /\ AllCared'
    BY <2>1, <2>2, <2>3, <2>4, <2>5, CareStopJob
  <2> QED BY <2>1, <2>6 DEF EntriesOwn
<1> QED BY <1>1, <1>3, <1>4, <1>5 DEF StopStep

LEMMA CareWorker ==
    ASSUME LocksHold, ZInv, NEW w \in Workers, NEW r \in Runs,
           PickUp(w, r) \/ WorkerStep(w, r) \/ DeliverAbort(w, r) \/ SaveAborted(w, r)
    PROVE  StoppedOnly' /\ AllCared'
<1> USE DEF ZInv, Ownership
<1>0. Id(r) \in Executions /\ row[Id(r)] \in AllRows
  BY RunIds DEF Typed, TypeOK, AllRows
<1>m. UNCHANGED <<main, cancel, errors, stop>>
  BY DEF PickUp, WorkerStep, ReadExecution, MarkRunning, StartEngine, EngineEnds, EngineSaves,
         JobEnds, DeliverAbort, SaveAborted, mainVars
\* A step that moves the worker on with r, and writes no row.
<1>1. ASSUME NEW pc \in {"none", "picked", "read", "marked", "running", "saving"}, At(w, r, pc),
             UNCHANGED <<row, job, aborts, aborted>>
      PROVE  StoppedOnly' /\ AllCared'
  <2>1. /\ work'[w][r].pc = pc /\ work'[w][r].outcome = work[w][r].outcome
        /\ \A v \in Workers, s \in Runs : v # w \/ s # r => work'[v][s] = work[v][s]
    BY <1>1, SetsPlace DEF Typed
  <2>2. StoppedOnly'
    BY <1>m, <1>1, <2>1, CauseKept
  <2>3. \A s \in Runs : Tended(s) => Tended(s)'
    BY <1>m, <1>1, <2>1, StillTended
  <2>4. AllCared'
    BY <1>m, <1>1, <2>3, CareFrame DEF InProgress
  <2> QED BY <2>2, <2>4
\* A step after which the row of r is not in progress.
<1>2. ASSUME row'[Id(r)].status \notin Ongoing,
             \A e \in Executions \ {Id(r)} : row'[e] = row[e],
             \A s \in Runs \ {r} : job'[s] = job[s],
             \A v \in Workers, s \in Runs : s # r => work'[v][s] = work[v][s],
             \A v \in Workers : work'[v][r].outcome = "aborted" =>
                work[v][r].outcome = "aborted" \/ <<v, r>> \in aborted,
             UNCHANGED <<aborts, aborted>>
      PROVE  StoppedOnly' /\ AllCared'
  <2>1. StoppedOnly'
    BY <1>m, <1>2, CauseKept
  <2>2. \A s \in Runs \ {r} : Tended(s) => Tended(s)'
    BY <1>m, <1>2, StillTended
  <2>3. \A e \in Executions \ {Id(r)} : InProgress(e)' = InProgress(e)
    BY <1>2 DEF InProgress
  <2>4. ~InProgress(Id(r))'
    BY <1>2 DEF InProgress, Ongoing
  <2>5. AllCared'
    BY <1>m, <2>2, <2>3, <2>4, CareFrame
  <2> QED BY <2>1, <2>5
<1>3. CASE PickUp(w, r)
  <2>1. /\ work'[w][r].pc = "picked" /\ work'[w][r].outcome = work[w][r].outcome
        /\ \A v \in Workers, s \in Runs : v # w \/ s # r => work'[v][s] = work[v][s]
    BY <1>3, SetsPlace DEF PickUp, Typed
  <2>2. UNCHANGED <<row, aborts, aborted>>
    BY <1>3 DEF PickUp
  <2>3. job'[r].at = "active" /\ job'[r].owner = w /\ \A s \in Runs \ {r} : job'[s] = job[s]
    <3> DEFINE x == [job[r] EXCEPT !.at = "active", !.owner = w]
    <3>1. job[r] \in Jobs
      BY DEF Typed, TypeOK
    <3>2. x.at = "active" /\ x.owner = w
      BY <3>1 DEF Jobs
    <3>3. job' = [job EXCEPT ![r] = x]
      BY <1>3 DEF PickUp
    <3> HIDE DEF x
    <3> QED BY <3>2, <3>3 DEF Typed, TypeOK
  <2>4. StoppedOnly'
    BY <1>m, <2>1, <2>2, CauseKept
  <2>5. Tended(r)'
    BY <2>1, <2>3 DEF Tended
  <2>6. \A s \in Runs : Tended(s) => Tended(s)'
    BY <1>m, <2>1, <2>3, <2>5, StillTended
  <2>7. AllCared'
    BY <1>m, <2>2, <2>6, CareFrame DEF InProgress
  <2> QED BY <2>4, <2>7
<1>4. CASE ReadExecution(w, r)
  <2>1. CASE MainStore!Exists(row[Id(r)])
    BY <1>1, <1>4, <2>1 DEF ReadExecution
  <2>2. CASE ~MainStore!Exists(row[Id(r)])
    <3>1. At(w, r, "none") /\ Leaves(w, r, "failed") /\ UNCHANGED <<row, aborts, aborted>>
      BY <1>4, <2>2 DEF ReadExecution
    <3>2. /\ work'[w][r].outcome = work[w][r].outcome
          /\ \A v \in Workers, s \in Runs : v # w \/ s # r => work'[v][s] = work[v][s]
      BY <3>1, SetsPlace DEF Typed
    <3>3. \A s \in Runs \ {r} : job'[s] = job[s]
      BY <3>1, LeavesType DEF Typed
    <3>4. row[Id(r)].status \notin Ongoing
      BY <1>0, <2>2, RowEnds
    <3> QED BY <1>2, <3>1, <3>2, <3>3, <3>4
  <2> QED BY <2>1, <2>2
<1>5. CASE MarkRunning(w, r)
  <2>1. /\ work'[w][r].pc = "marked" /\ work'[w][r].outcome = work[w][r].outcome
        /\ \A v \in Workers, s \in Runs : v # w \/ s # r => work'[v][s] = work[v][s]
    BY <1>5, SetsPlace DEF MarkRunning, Typed
  <2>2. /\ UNCHANGED <<job, aborts, aborted>>
        /\ \A e \in Executions \ {Id(r)} : row'[e] = row[e]
    BY <1>5 DEF MarkRunning, Typed, TypeOK, queueVars
  <2>3. job[r].at = "active" /\ job[r].owner = w
    BY <1>5 DEF MarkRunning, JobsOwned, Working
  <2>4. StoppedOnly'
    BY <1>m, <2>1, <2>2, CauseKept
  <2>5. Tended(r)'
    BY <2>1, <2>2, <2>3 DEF Tended
  <2>6. \A s \in Runs : Tended(s) => Tended(s)'
    BY <1>m, <2>1, <2>2, StillTended
  <2>7. \A e \in Executions \ {Id(r)} : InProgress(e)' = InProgress(e)
    BY <2>2 DEF InProgress
  <2>8. AllCared'
    BY <1>m, <2>5, <2>6, <2>7, CareFrame DEF Cared
  <2> QED BY <2>4, <2>8
<1>6. CASE StartEngine(w, r)
  BY <1>1, <1>6 DEF StartEngine, queueVars
<1>7. CASE EngineEnds(w, r)
  <2>1. PICK o : /\ work' = [work EXCEPT ![w][r] = [pc |-> "saving", outcome |-> o]]
                 /\ o \in IF <<w, r>> \in aborted THEN {"canceled", "aborted"} ELSE Outcomes
    BY <1>7 DEF EngineEnds
  <2>2. UNCHANGED <<row, job, aborts, aborted>>
    BY <1>7 DEF EngineEnds, queueVars
  <2>3. o = "aborted" => <<w, r>> \in aborted
    BY <2>1, OutcomesAssumption
  <2>4. /\ work'[w][r].pc = "saving" /\ work'[w][r].outcome = o
        /\ \A v \in Workers, s \in Runs : v # w \/ s # r => work'[v][s] = work[v][s]
    BY <2>1 DEF Typed, TypeOK
  <2>5. StoppedOnly'
    BY <1>m, <2>2, <2>3, <2>4, CauseKept
  <2>6. \A s \in Runs : Tended(s) => Tended(s)'
    BY <1>m, <2>2, <2>4, StillTended
  <2>7. AllCared'
    BY <1>m, <2>2, <2>6, CareFrame DEF InProgress
  <2> QED BY <2>5, <2>7
<1>8. CASE EngineSaves(w, r)
  <2>1. /\ work'[w][r].pc = "saved" /\ work'[w][r].outcome = work[w][r].outcome
        /\ \A v \in Workers, s \in Runs : v # w \/ s # r => work'[v][s] = work[v][s]
    BY <1>8, SetsPlace DEF EngineSaves, Typed
  <2>2. UNCHANGED <<job, aborts, aborted>>
    BY <1>8 DEF EngineSaves, queueVars
  <2>3. CASE work[w][r].outcome = "aborted"
    <3>1. stop[Id(r)].pc # "none" /\ UNCHANGED row
      BY <1>8, <2>3 DEF EngineSaves, StoppedOnly
    <3>2. StoppedOnly'
      BY <1>m, <2>1, <2>2, CauseKept
    <3>3. \A s \in Runs \ {r} : Tended(s) => Tended(s)'
      BY <1>m, <2>1, <2>2, StillTended
    <3>4. AllCared'
      BY <1>m, <3>1, <3>3, CareFrame DEF InProgress
    <3> QED BY <3>2, <3>4
  <2>4. CASE work[w][r].outcome # "aborted"
    <3> DEFINE o == work[w][r].outcome
    <3>1. o \in MainStore!Statuses \ Ongoing
      <4>1. o \in Outcomes \cup {"none", "canceled", "aborted"} /\ o # "none"
        BY <1>8 DEF EngineSaves, Typed, TypeOK, EndedHow, Works
      <4> QED BY <2>4, <4>1, OutcomesAssumption DEF MainStore!Statuses, Ongoing
    <3>2. row' = [row EXCEPT ![Id(r)] = WorkerStore!Saved(row[Id(r)], o, Mode)]
      BY <1>8, <2>4 DEF EngineSaves
    <3> HIDE DEF o
    <3>3. row'[Id(r)].status \notin Ongoing /\ \A e \in Executions \ {Id(r)} : row'[e] = row[e]
      BY <1>0, <3>1, <3>2, RowEnds DEF Typed, TypeOK
    <3> QED BY <1>2, <2>1, <2>2, <3>3
  <2> QED BY <2>3, <2>4
<1>9. CASE JobEnds(w, r)
  <2>1. /\ UNCHANGED <<row, aborts>> /\ aborted' \subseteq aborted
        /\ work[w][r].pc = "saved" /\ Leaves(w, r, "completed")
        /\ work' = [work EXCEPT ![w][r] = NoWork]
    BY <1>9 DEF JobEnds
  <2>2. /\ work'[w][r].outcome = "none"
        /\ \A v \in Workers, s \in Runs : v # w \/ s # r => work'[v][s] = work[v][s]
    BY <2>1 DEF Typed, TypeOK, NoWork
  <2>3. job[r].at = "active" /\ job[r].owner = w /\ \A s \in Runs \ {r} : job'[s] = job[s]
    BY <2>1, LeavesType DEF JobsOwned, Working, Typed
  <2>4. StoppedOnly'
    BY <1>m, <2>1, <2>2, CauseKept
  <2>5. Tended(r) => Tended(r)'
    BY <1>m, <2>1, <2>3 DEF Tended
  <2>6. \A s \in Runs : Tended(s) => Tended(s)'
    BY <1>m, <2>2, <2>3, <2>5, StillTended
  <2>7. AllCared'
    BY <1>m, <2>1, <2>6, CareFrame DEF InProgress
  <2> QED BY <2>4, <2>7
<1>10. CASE DeliverAbort(w, r)
  <2>1. /\ UNCHANGED <<row, job, work>> /\ aborts' \subseteq aborts
        /\ <<w, r>> \in aborts /\ aborted' \subseteq aborted \cup {<<w, r>>}
    BY <1>10 DEF DeliverAbort
  <2>2. StoppedOnly'
    BY <1>m, <2>1, CauseKept
  <2>3. \A s \in Runs : Tended(s) => Tended(s)'
    BY <1>m, <2>1, StillTended
  <2>4. AllCared'
    BY <1>m, <2>1, <2>3, CareFrame DEF InProgress
  <2> QED BY <2>2, <2>4
<1>11. CASE SaveAborted(w, r)
  <2>1. /\ UNCHANGED <<job, work, aborts, aborted>>
        /\ row' = [row EXCEPT ![Id(r)] = WorkerStore!Saved(row[Id(r)], "canceled", Mode)]
    BY <1>11 DEF SaveAborted, queueVars
  <2>2. "canceled" \in MainStore!Statuses \ Ongoing
    BY DEF MainStore!Statuses, Ongoing
  <2>3. row'[Id(r)].status \notin Ongoing /\ \A e \in Executions \ {Id(r)} : row'[e] = row[e]
    BY <1>0, <2>1, <2>2, RowEnds DEF Typed, TypeOK
  <2> QED BY <1>2, <2>1, <2>3
<1> QED
  BY <1>3, <1>4, <1>5, <1>6, <1>7, <1>8, <1>9, <1>10, <1>11 DEF WorkerStep

LEMMA CareProcess ==
    ASSUME ZInv, NEW w \in Workers, Crash(w) \/ BeginShutdown(w) \/ Exit(w) \/ Start(w)
    PROVE  StoppedOnly' /\ AllCared'
<1> USE DEF ZInv, Ownership
<1>m. UNCHANGED <<main, cancel, errors, stop, job>>
  BY DEF Crash, BeginShutdown, Exit, Start, GoesDown, mainVars, queueVars
<1>1. CASE GoesDown(w)
  <2>1. UNCHANGED row /\ aborts' \subseteq aborts /\ aborted' \subseteq aborted
    BY <1>1 DEF GoesDown
  <2>2. /\ \A r \in Runs : work'[w][r].pc = "none" /\ work'[w][r].outcome = "none"
        /\ \A v \in Workers \ {w} : work'[v] = work[v]
    BY <1>1, GoesDownSets DEF Typed, NoWork
  <2>3. StoppedOnly'
    BY <1>m, <2>1, <2>2, CauseKept
  <2>4. \A s \in Runs : Tended(s) => Tended(s)'
    BY <1>m, <2>2, StillTended
  <2>5. AllCared'
    BY <1>m, <2>1, <2>4, CareFrame DEF InProgress
  <2> QED BY <2>3, <2>5
<1>2. CASE BeginShutdown(w) \/ Start(w)
  <2>1. UNCHANGED <<work, aborted, aborts>>
    BY <1>2 DEF BeginShutdown, Start, queueVars
  <2>2. \A e \in Executions : row'[e] = row[e] \/ row'[e] = Amended(row[e])
    BY <1>2 DEF BeginShutdown, Start
  <2>3. \A e \in Executions : InProgress(e)' => InProgress(e)
    BY <2>2, RowEnds DEF InProgress, Ongoing, Typed, TypeOK, AllRows
  <2>4. StoppedOnly'
    BY <1>m, <2>1, CauseKept
  <2>5. \A s \in Runs : Tended(s) => Tended(s)'
    BY <1>m, <2>1, StillTended
  <2>6. AllCared'
    BY <1>m, <2>3, <2>5, CareFrame
  <2> QED BY <2>4, <2>6
<1> QED BY <1>1, <1>2 DEF Crash, Exit

LEMMA CareStall ==
    ASSUME ZInv, NEW r \in Runs, Stall(r)
    PROVE  StoppedOnly' /\ AllCared'
<1> USE DEF ZInv, Ownership
<1>1. job[r].at = "active" /\ UNCHANGED <<row, main, cancel, errors, stop, work, aborts, aborted>>
  BY DEF Stall, mainVars, workerVars
<1>2. job'[r].at \in {"waiting", "failed"} /\ \A s \in Runs \ {r} : job'[s] = job[s]
  <2> DEFINE x == [at |-> "waiting", owner |-> NoWorker, stalls |-> job[r].stalls + 1]
             y == [job[r] EXCEPT !.at = "failed", !.owner = NoWorker]
  <2>1. job' = [job EXCEPT ![r] = x] \/ job' = [job EXCEPT ![r] = y]
    BY DEF Stall
  <2>2. job[r] \in Jobs
    BY DEF Typed, TypeOK
  <2>3. x.at = "waiting" /\ y.at = "failed"
    BY <2>2 DEF Jobs
  <2> HIDE DEF x, y
  <2> QED BY <2>1, <2>3 DEF Typed, TypeOK
<1>3. main[r] \in {"added", "awaiting", "lost"}
  BY <1>1 DEF Awaited, InQueue
<1>4. Tended(r)'
  BY <1>1, <1>2, <1>3 DEF Tended
<1>5. \A s \in Runs : Tended(s) => Tended(s)'
  BY <1>1, <1>2, <1>4, StillTended
<1>6. StoppedOnly'
  BY <1>1, CauseKept
<1>7. AllCared'
  BY <1>1, <1>5, CareFrame DEF InProgress
<1> QED BY <1>6, <1>7

LEMMA CareRecovery ==
    ASSUME ZInv, RecoveryStep
    PROVE  StoppedOnly' /\ AllCared'
<1> USE DEF ZInv, Ownership
<1>1. UNCHANGED <<main, cancel, errors, stop, job, work, aborts, aborted>>
  BY DEF RecoveryStep, ReadStored, FindDangling, MarkDangling, queueVars, workerVars
<1>2. \A e \in Executions : row'[e] = row[e] \/ row'[e] = MainStore!WithStatus(row[e], "crashed")
  BY DEF RecoveryStep, ReadStored, FindDangling, MarkDangling
<1>3. "crashed" \in MainStore!Statuses \ Ongoing
  BY DEF MainStore!Statuses, Ongoing
<1>4. \A e \in Executions : InProgress(e)' => InProgress(e)
  BY <1>2, <1>3, RowEnds DEF InProgress, Ongoing, Typed, TypeOK, AllRows
<1>5. StoppedOnly'
  BY <1>1, CauseKept
<1>6. \A s \in Runs : Tended(s) => Tended(s)'
  BY <1>1, StillTended
<1>7. AllCared'
  BY <1>1, <1>4, <1>6, CareFrame
<1> QED BY <1>5, <1>7

LEMMA CareMainCrash ==
    ASSUME ZInv, MainCrash
    PROVE  EntriesOwn' /\ StoppedOnly' /\ AllCared'
<1> USE DEF ZInv, Ownership
<1>1. /\ UNCHANGED <<row, job, work, aborts, aborted>> /\ errors' = {}
      /\ main' = [r \in Runs |-> IF main[r] \in {"none", "done"} THEN main[r] ELSE "lost"]
      /\ cancel' = [r \in Runs |-> IF cancel[r] = "none" THEN "none" ELSE "done"]
      /\ entry' = [e \in Executions |-> NoEntry]
  BY DEF MainCrash, queueVars, workerVars
<1>2. \A e \in Executions : (stop'[e].pc = "none") = (stop[e].pc = "none")
  BY DEF MainCrash, Typed, TypeOK, Stops
<1>3. EntriesOwn'
  BY <1>1, NoEntryAssumption DEF EntriesOwn
<1>4. StoppedOnly'
  BY <1>1, <1>2, CauseKept
<1>5. \A s \in Runs : Tended(s) => Tended(s)'
  BY <1>1 DEF Tended, Typed, TypeOK, Mains
<1>6. AllCared'
  BY <1>1, <1>2, <1>5, CareFrame DEF InProgress
<1> QED BY <1>3, <1>4, <1>6

LEMMA ZNext == LocksHold /\ EventsArrive /\ ZInv /\ [Next]_vars => ZInv'
<1> SUFFICES ASSUME LocksHold, EventsArrive, ZInv, [Next]_vars
             PROVE  EntriesOwn' /\ StoppedOnly' /\ AllCared'
  BY OwnNext DEF ZInv
<1>1. ASSUME NEW e \in Executions, Create(e) \/ StopRequested(e) \/ StopStep(e)
      PROVE  EntriesOwn' /\ StoppedOnly' /\ AllCared'
  BY <1>1, CareStop
<1>2. ASSUME NEW r \in Runs, Resume(r) \/ MainStep(r)
      PROVE  EntriesOwn' /\ StoppedOnly' /\ AllCared'
  BY <1>2, CareMain
<1>3. ASSUME NEW r \in Runs, Stall(r)
      PROVE  EntriesOwn' /\ StoppedOnly' /\ AllCared'
  BY <1>3, CareStall DEF Stall, mainVars, EntriesOwn, ZInv
<1>4. ASSUME NEW p \in errors, ErrorStep(p)
      PROVE  EntriesOwn' /\ StoppedOnly' /\ AllCared'
  BY <1>4, CareError
<1>5. ASSUME NEW w \in Workers, NEW r \in Runs,
             PickUp(w, r) \/ WorkerStep(w, r) \/ DeliverAbort(w, r) \/ SaveAborted(w, r)
      PROVE  EntriesOwn' /\ StoppedOnly' /\ AllCared'
  <2>1. UNCHANGED entry
    BY <1>5 DEF PickUp, WorkerStep, ReadExecution, MarkRunning, StartEngine, EngineEnds,
                EngineSaves, JobEnds, DeliverAbort, SaveAborted, mainVars
  <2> QED BY <1>5, <2>1, CareWorker DEF EntriesOwn, ZInv
<1>6. ASSUME NEW w \in Workers, Crash(w) \/ BeginShutdown(w) \/ Exit(w) \/ Start(w)
      PROVE  EntriesOwn' /\ StoppedOnly' /\ AllCared'
  <2>1. UNCHANGED entry
    BY <1>6 DEF Crash, BeginShutdown, Exit, Start, GoesDown, mainVars
  <2> QED BY <1>6, <2>1, CareProcess DEF EntriesOwn, ZInv
<1>7. CASE RecoveryStep
  <2>1. UNCHANGED entry
    BY <1>7 DEF RecoveryStep, ReadStored, FindDangling, MarkDangling
  <2> QED BY <1>7, <2>1, CareRecovery DEF EntriesOwn, ZInv
<1>8. CASE MainCrash
  BY <1>8, CareMainCrash
<1>9. CASE UNCHANGED vars
  <2>1. UNCHANGED <<row, entry, main, cancel, errors, stop, job, work, aborts, aborted>>
    BY <1>9 DEF vars, mainVars, queueVars, workerVars
  <2>2. StoppedOnly'
    BY <2>1, CauseKept DEF ZInv, Ownership
  <2>3. \A s \in Runs : Tended(s) => Tended(s)'
    BY <2>1, StillTended
  <2> QED BY <2>1, <2>2, <2>3, CareFrame DEF EntriesOwn, InProgress, ZInv
<1> QED
  BY <1>1, <1>2, <1>3, <1>4, <1>5, <1>6, <1>7, <1>8, <1>9 DEF Next

LEMMA ZInit == Init => ZInv
<1> SUFFICES ASSUME Init
             PROVE  ZInv
  OBVIOUS
<1>1. Typed
  BY TypeInit DEF Init, Targets, EndedHow, NoWork, Typed
<1>2. JobsOwned /\ Awaited /\ ErrorsEnded
  BY DEF Init, JobsOwned, Awaited, ErrorsEnded, Working, InQueue, NoWork, NoJob
<1>3. EntriesOwn /\ StoppedOnly
  BY NoEntryAssumption DEF Init, EntriesOwn, StoppedOnly, NoWork
<1>4. \A e \in Executions : ~InProgress(e)
  BY DEF Init, InProgress, MainStore!NotInserted, MainStore!Absent
<1> QED BY <1>1, <1>2, <1>3, <1>4 DEF ZInv, Ownership, AllCared

\* An execution in progress that nobody stopped is attended, for any number of
\* executions, pauses, workers, crashes of workers and of the main, and stalls,
\* when locks hold and the main learns of failed jobs.
THEOREM EveryoneAttended ==
    ASSUME LocksHold, EventsArrive
    PROVE  Spec => []NoZombies
<1>1. ZInv => NoZombies
  <2> SUFFICES ASSUME ZInv, NEW e \in Executions, InProgress(e), stop[e].pc = "none"
               PROVE  Attended(e)
    BY DEF NoZombies
  <2>1. PICK r \in Runs : Id(r) = e /\ Tended(r)
    BY DEF ZInv, AllCared, Cared
  <2>2. CASE \E p \in errors : p.run = r
    BY <2>1, <2>2 DEF Attended
  <2>3. CASE ~\E p \in errors : p.run = r
    BY <2>1, <2>3 DEF Attended, Tended, InQueue
  <2> QED BY <2>2, <2>3
<1> QED BY <1>1, ZInit, ZNext, PTL DEF Spec

\* As long as locks hold, a worker that works on a run owns its job, and so is the
\* only one, through every crash, shutdown, stall and resume.
THEOREM JobsHeld ==
    ASSUME LocksHold
    PROVE  Spec => []JobsOwned
<1>1. Init => Ownership
  BY ZInit DEF ZInv
<1>2. Ownership => JobsOwned
  BY DEF Ownership
<1> QED BY <1>1, <1>2, OwnNext, PTL DEF Spec

-------------------------------------------------------------------------------
(***************************************************************************)
(* What the writers do to a row that waits, has ended, or failed.          *)
(***************************************************************************)
Waits(rw) == rw.waitTill \/ rw.status = "waiting"
Ended(rw) == rw = MainStore!Deleted \/ rw.status \in MainStore!FinalStatuses \cup {"waiting"}

\* A write that does not make an execution wait, go on, or fail.
Mild(old, new) ==
    /\ Waits(new) => Waits(old)
    /\ Ended(old) => Ended(new)
    /\ new.status = "error" => old.status = "error"
    /\ old # MainStore!NotInserted => new # MainStore!NotInserted

\* A row is a record of an execution, or one of two that are not there.
LEMMA RowKinds ==
    ASSUME NEW r \in AllRows
    PROVE  /\ MainStore!Exists(r) =>
                 r \in [status : MainStore!Statuses, waitTill : BOOLEAN,
                        data : MainStore!DataStages, mode : {Mode}]
           /\ MainStore!Exists(r) <=> WorkerStore!Exists(r)
           /\ ~MainStore!Exists(r) => r = MainStore!NotInserted \/ r = MainStore!Deleted
           /\ r = MainStore!NotInserted =>
                 ~MainStore!Exists(r) /\ ~Ended(r) /\ ~Waits(r) /\ r.status # "error"
           /\ r = MainStore!Deleted =>
                 /\ ~MainStore!Exists(r) /\ Ended(r) /\ ~Waits(r) /\ r.status # "error"
                 /\ r # MainStore!NotInserted
           /\ MainStore!Deleted = WorkerStore!Deleted
BY DEF AllRows, MainStore!Rows, MainStore!Exists, WorkerStore!Exists, MainStore!Statuses,
       WorkerStore!Statuses, MainStore!Deleted, WorkerStore!Deleted, MainStore!NotInserted,
       MainStore!Absent, WorkerStore!Absent, MainStore!FinalStatuses, Ended, Waits

\* What a save leaves.
LEMMA SavedRow ==
    ASSUME NEW r \in AllRows, MainStore!Exists(r), NEW status \in MainStore!Statuses
    PROVE  /\ /\ WorkerStore!Saved(r, status, Mode).status = status
              /\ WorkerStore!Saved(r, status, Mode).waitTill = (status = "waiting" \/ r.waitTill)
           /\ \/ MainStore!Saved(r, status, Mode) = MainStore!Deleted
              \/ /\ MainStore!Saved(r, status, Mode).status = status
                 /\ MainStore!Saved(r, status, Mode).waitTill = (status = "waiting" \/ r.waitTill)
<1>1. ~WorkerStore!ShouldNotSave(status)
  BY DEF WorkerStore!ShouldNotSave
<1>2. WorkerStore!Exists(r)
  BY RowKinds
<1> QED BY <1>1, <1>2 DEF WorkerStore!Saved, MainStore!Saved

\* A row whose status is not that of no row is there.
LEMMA ThereRow ==
    /\ \A rw : rw.status \in MainStore!Statuses => rw # MainStore!NotInserted
    /\ MainStore!FinalStatuses \cup {"waiting", "running", "new"} = MainStore!Statuses
BY DEF MainStore!NotInserted, MainStore!Absent, MainStore!Statuses, MainStore!FinalStatuses

\* What the save of a worker, or of an error, makes of a row.
LEMMA EndsRow ==
    ASSUME NEW r \in AllRows, NEW status \in MainStore!Statuses \ Ongoing
    PROVE  /\ r # MainStore!NotInserted =>
                 /\ Ended(WorkerStore!Saved(r, status, Mode))
                 /\ WorkerStore!Saved(r, status, Mode) # MainStore!NotInserted
           /\ status # "waiting" /\ Waits(WorkerStore!Saved(r, status, Mode)) => Waits(r)
           /\ r = MainStore!NotInserted => WorkerStore!Saved(r, status, Mode) = r
           /\ status # "error" => Mild(r, WorkerStore!Saved(r, status, Mode)) \/ status = "waiting"
<1> DEFINE new == WorkerStore!Saved(r, status, Mode)
<1>1. CASE MainStore!Exists(r)
  <2>1. new.status = status /\ new.waitTill = (status = "waiting" \/ r.waitTill)
    BY <1>1, SavedRow
  <2>2. Ended(new) /\ new # MainStore!NotInserted
    BY <2>1, ThereRow DEF Ended, Ongoing
  <2>3. status # "waiting" /\ Waits(new) => Waits(r)
    BY <2>1 DEF Waits
  <2> HIDE DEF new
  <2>4. r # MainStore!NotInserted
    BY <1>1, RowKinds
  <2>5. status # "error" => Mild(r, new) \/ status = "waiting"
    BY <2>1, <2>2, <2>3 DEF Mild
  <2> QED BY <2>2, <2>3, <2>4, <2>5 DEF new
<1>2. CASE ~MainStore!Exists(r)
  <2>1. new = r
    BY <1>2, RowKinds DEF WorkerStore!Saved
  <2>2. r = MainStore!NotInserted \/ (r = MainStore!Deleted /\ Ended(r))
    BY <1>2, RowKinds
  <2> HIDE DEF new
  <2> QED BY <2>1, <2>2 DEF Mild, new
<1> QED BY <1>1, <1>2

\* A resume, and a worker that marks an execution as running.
LEMMA WakesUp ==
    ASSUME NEW r \in AllRows
    PROVE  /\ MainStore!Exists(r) => /\ MainStore!Resumed(r).status = "running"
                                     /\ ~MainStore!Resumed(r).waitTill
           /\ MainStore!Exists(r) => MainStore!WithStatus(r, "running").status = "running"
           /\ Waits(MainStore!WithStatus(r, "running")) => Waits(r)
           /\ MainStore!WithStatus(r, "running").status = "error" => r.status = "error"
           /\ r # MainStore!NotInserted
                 => MainStore!WithStatus(r, "running") # MainStore!NotInserted
<1>1. CASE MainStore!Exists(r)
  <2>1. r \in [status : MainStore!Statuses, waitTill : BOOLEAN,
               data : MainStore!DataStages, mode : {Mode}]
    BY <1>1, RowKinds
  <2>2. /\ MainStore!Resumed(r).status = "running" /\ MainStore!Resumed(r).waitTill = FALSE
    BY <1>1, <2>1 DEF MainStore!Resumed
  <2>3. /\ MainStore!WithStatus(r, "running").status = "running"
        /\ MainStore!WithStatus(r, "running").waitTill = r.waitTill
    BY <1>1, <2>1 DEF MainStore!WithStatus
  <2>4. MainStore!WithStatus(r, "running") # MainStore!NotInserted
    BY <2>3, ThereRow
  <2> QED BY <2>2, <2>3, <2>4 DEF Waits
<1>2. CASE ~MainStore!Exists(r)
  BY <1>2 DEF MainStore!WithStatus
<1> QED BY <1>1, <1>2

\* All other writers are mild.
LEMMA MildRows ==
    ASSUME NEW r \in AllRows
    PROVE  /\ Mild(r, r)
           /\ Mild(r, MainStore!WithStatus(r, "crashed"))
           /\ Mild(r, MainStore!StoppedDuringRun(r))
           /\ Mild(r, MainStore!Deleted)
           /\ Mild(r, WorkerStore!Saved(r, "canceled", Mode))
           /\ Mild(r, Amended(r))
<1>1. Mild(r, r)
  BY DEF Mild
<1>2. Mild(r, MainStore!Deleted)
  <2>1. MainStore!Deleted \in AllRows
    BY RowTypes
  <2>2. Ended(MainStore!Deleted) /\ ~Waits(MainStore!Deleted)
        /\ MainStore!Deleted.status # "error" /\ MainStore!Deleted # MainStore!NotInserted
    BY <2>1, RowKinds
  <2> QED BY <2>2 DEF Mild
<1>3. Mild(r, WorkerStore!Saved(r, "canceled", Mode))
  <2>1. "canceled" \in MainStore!Statuses \ Ongoing
    BY DEF MainStore!Statuses, Ongoing
  <2> QED BY <2>1, EndsRow
<1>4. CASE ~MainStore!Exists(r)
  BY <1>1, <1>2, <1>3, <1>4 DEF MainStore!WithStatus, MainStore!StoppedDuringRun, Amended
<1>5. CASE MainStore!Exists(r)
  <2>1. r \in [status : MainStore!Statuses, waitTill : BOOLEAN,
               data : MainStore!DataStages, mode : {Mode}]
    BY <1>5, RowKinds
  <2>2. ASSUME NEW new, new.status \in MainStore!FinalStatuses \ {"error"},
               new.waitTill => r.waitTill
        PROVE  Mild(r, new)
    <3>1. new.status # "waiting" /\ Ended(new) /\ new.status \in MainStore!Statuses
      BY <2>2, ThereRow DEF Ended, MainStore!FinalStatuses
    <3> QED BY <2>2, <3>1, ThereRow DEF Mild, Waits
  <2>3. Mild(r, MainStore!WithStatus(r, "crashed"))
    <3>1. /\ MainStore!WithStatus(r, "crashed").status = "crashed"
          /\ MainStore!WithStatus(r, "crashed").waitTill = r.waitTill
      BY <1>5, <2>1 DEF MainStore!WithStatus
    <3> QED BY <2>2, <3>1 DEF MainStore!FinalStatuses
  <2>4. Mild(r, MainStore!StoppedDuringRun(r))
    <3>1. /\ MainStore!StoppedDuringRun(r).status = "canceled"
          /\ MainStore!StoppedDuringRun(r).waitTill = FALSE
      BY <1>5, <2>1 DEF MainStore!StoppedDuringRun
    <3> QED BY <2>2, <3>1 DEF MainStore!FinalStatuses
  <2>5. Mild(r, Amended(r))
    <3>1. CASE r.status = "success"
      BY <1>1, <3>1 DEF Amended
    <3>2. CASE r.status # "success"
      <4> DEFINE status == CASE r.waitTill -> "waiting"
                             [] r.status = "error" -> "error"
                             [] OTHER -> "crashed"
      <4>1. Amended(r) = MainStore!Saved(r, status, Mode)
        BY <1>5, <3>2 DEF Amended
      <4>2. /\ status \in {"waiting", "error", "crashed"} /\ status \in MainStore!Statuses
            /\ status = "waiting" => r.waitTill
            /\ status = "error" => r.status = "error"
        BY DEF MainStore!Statuses
      <4> HIDE DEF status
      <4>3. CASE MainStore!Saved(r, status, Mode) = MainStore!Deleted
        BY <1>2, <4>1, <4>3
      <4>4. CASE /\ MainStore!Saved(r, status, Mode).status = status
                 /\ MainStore!Saved(r, status, Mode).waitTill = (status = "waiting" \/ r.waitTill)
        BY <4>1, <4>2, <4>4, ThereRow DEF Mild, Waits, Ended, MainStore!FinalStatuses
      <4> QED BY <1>5, <4>2, <4>3, <4>4, SavedRow
    <3> QED BY <3>1, <3>2
  <2> QED BY <1>1, <1>2, <1>3, <2>3, <2>4, <2>5
<1> QED BY <1>4, <1>5

-------------------------------------------------------------------------------
(***************************************************************************)
(* The runs of an execution take turns: when one starts, the runs before   *)
(* it are over for good.  That the main has seen the end of a run, or lost *)
(* it, is enough when a main never crashes; when it may crash, the job of  *)
(* a run it has lost must not be handed out again.                         *)
(***************************************************************************)
RunsInTurn ==
    MaxPauses = 0 \/ (~QuickResumes /\ (MaxMainCrashes = 0 \/ MaxStalledCount = 0))

Busy(w, r) == work[w][r].pc \notin {"none", "saved"}

\* Nothing will run the engine of r any more, or none does.
Over(r) ==
    /\ main[r] \in {"done", "lost"}
    /\ \A w \in Workers : ~Busy(w, r)
    /\ job[r].at # "waiting" /\ (MaxStalledCount = 0 \/ job[r].at # "active")
Idles(r) == main[r] # "adding" /\ job[r].at # "waiting" /\ \A w \in Workers : ~Busy(w, r)

InTurn ==
    \A r, s \in Runs : Id(r) = Id(s) /\ Attempt(s) < Attempt(r) /\ main[r] # "none" => Over(s)

\* An execution that waits is not run, if jobs are handed out once.
PausedIdle == MaxStalledCount = 0 => \A r \in Runs : Waits(row[Id(r)]) => Idles(r)
NoneLost == MaxMainCrashes = 0 => \A r \in Runs : main[r] # "lost"
Unqueued == \A r \in Runs : main[r] \in {"none", "adding"} => job[r].at = "none"

\* A run that fails does so once, and the main is then at it.
ErrorsOnce ==
    /\ \A p \in errors : /\ p.from = "enqueue" => main[p.run] = "rejecting"
                         /\ p.from = "executor" => main[p.run] = "failing"
    /\ \A p, q \in errors :
          p.run = q.run /\ p.from # "cancel" /\ q.from # "cancel" => p = q

Turns == Ownership /\ InTurn /\ PausedIdle /\ NoneLost /\ Unqueued /\ ErrorsOnce

(***************************************************************************)
(* What a step may do to a run, as the main sees it, in the queue and with *)
(* a worker.                                                               *)
(***************************************************************************)
Begins(r) ==
    /\ main[r] = "none" /\ main'[r] = "adding"
    /\ Attempt(r) = 1 \/ Resume(r)
    /\ row'[Id(r)].status \in Ongoing /\ ~row'[Id(r)].waitTill

MainMove(r) ==
    \/ main'[r] = main[r]
    \/ Begins(r)
    \/ main[r] = "adding" /\ main'[r] \in {"added", "rejecting"}
    \/ main[r] = "added" /\ main'[r] = "awaiting"
    \/ main[r] = "awaiting" /\ job[r].at \in EndsQuietly /\ main'[r] = "reading"
    \/ main[r] = "awaiting" /\ main'[r] = "failing"
    \/ main[r] = "rejecting" /\ main'[r] = "done"
    \/ main[r] = "failing" /\ main'[r] = "rejected"
    \/ main[r] \in {"reading", "rejected"} /\ main'[r] = "done"
    \/ /\ main[r] \in {"reading", "rejected"} /\ main'[r] = "deleting" /\ UNCHANGED row
       /\ MainStore!ShouldNotSave(StatusRead(row[Id(r)].status))
    \/ main[r] = "deleting" /\ main'[r] = "done"
    \/ main[r] \notin {"none", "done"} /\ main'[r] = "lost" /\ MaxMainCrashes # 0

JobMove(r) ==
    \/ job'[r].at = job[r].at
    \/ main[r] = "adding" /\ main'[r] = "added" /\ job'[r].at = "waiting"
    \/ job[r].at = "waiting" /\ job'[r].at = "active"
    \/ /\ job[r].at = "waiting" /\ job'[r].at = "removed"
       /\ cancel[r] # "none" \/ stop[Id(r)].pc # "none"
    \/ job[r].at = "active" /\ job'[r].at = "failed"
    \/ job[r].at = "active" /\ job'[r].at = "completed" /\ \E w \in Workers : work[w][r].pc = "saved"
    \/ job[r].at = "active" /\ job'[r].at = "waiting" /\ MaxStalledCount # 0

WorkMove(w, r) ==
    \/ work'[w][r].pc = work[w][r].pc \/ work'[w][r].pc = "none"
    \/ job[r].at = "waiting" /\ work'[w][r].pc = "picked"
    \/ Busy(w, r) /\ work'[w][r].pc \in {"read", "marked", "running", "saving"}
    \/ EngineSaves(w, r)

\* A run that nothing touches.
LEMMA StillMove ==
    ASSUME NEW r \in Runs
    PROVE  /\ UNCHANGED main => MainMove(r)
           /\ UNCHANGED job => JobMove(r)
           /\ UNCHANGED work => \A w \in Workers : WorkMove(w, r)
BY DEF MainMove, JobMove, WorkMove

\* Jobs that a stop finds.
LEMMA StopJobMove ==
    ASSUME Typed, NEW s \in Runs, NEW was, StopJob(s, was) \/ StopJobThrows(s, was),
           cancel[s] # "none" \/ stop[Id(s)].pc # "none", NEW r \in Runs
    PROVE  JobMove(r)
<1>1. CASE job' = job
  BY <1>1 DEF JobMove
<1>2. CASE job[s].at = "waiting" /\ job' = [job EXCEPT ![s].at = "removed"]
  <2>1. r # s => job'[r] = job[r]
    BY <1>2 DEF Typed, TypeOK
  <2>2. job'[s].at = "removed"
    <3>1. job[s] \in Jobs /\ s \in DOMAIN job
      BY DEF Typed, TypeOK
    <3> QED BY <1>2, <3>1 DEF Jobs
  <2> QED BY <1>2, <2>1, <2>2 DEF JobMove
<1> QED BY <1>1, <1>2 DEF StopJob, StopJobThrows, Broadcast, queueVars

\* The steps of the main.
LEMMA MovesMain ==
    ASSUME Ownership, NEW s \in Runs, Resume(s) \/ MainStep(s), NEW r \in Runs
    PROVE  MainMove(r) /\ JobMove(r) /\ \A w \in Workers : WorkMove(w, r)
<1> USE DEF Ownership
<1>w. \A w \in Workers : WorkMove(w, r)
  <2>1. UNCHANGED work
    BY DEF Resume, MainStep, AddJob, AddJobFails, Attach, JobSucceeds, JobFails, ReadResult,
           DeleteResult, CheckJob, CancelJob, workerVars
  <2> QED BY <2>1, StillMove
<1>j. JobMove(r)
  <2>1. CASE AddJob(s)
    <3>1. job' = [job EXCEPT ![s].at = "waiting"] /\ main' = [main EXCEPT ![s] = "added"]
          /\ main[s] = "adding"
      BY <2>1 DEF AddJob
    <3>2. job[s] \in Jobs /\ main'[s] = "added" /\ (r # s => job'[r] = job[r])
      BY <3>1 DEF Typed, TypeOK
    <3>3. job'[s].at = "waiting"
      BY <3>1, <3>2 DEF Typed, TypeOK, Jobs
    <3> QED BY <3>1, <3>2, <3>3 DEF JobMove
  <2>2. CASE CancelJob(s)
    <3>1. cancel[s] # "none"
      BY <2>2 DEF CancelJob
    <3> QED BY <2>2, <3>1, StopJobMove DEF CancelJob
  <2>3. CASE UNCHANGED job
    BY <2>3, StillMove
  <2> QED BY <2>1, <2>2, <2>3 DEF Resume, MainStep, AddJobFails, Attach, JobSucceeds, JobFails,
             ReadResult, DeleteResult, CheckJob, queueVars
<1>m. MainMove(r)
  <2>1. r # s => main'[r] = main[r]
    BY DEF Resume, MainStep, AddJob, AddJobFails, Attach, JobSucceeds, JobFails, ReadResult,
           DeleteResult, CheckJob, CancelJob, Typed, TypeOK
  <2>2. CASE r # s
    BY <2>1, <2>2 DEF MainMove
  <2>3. CASE r = s /\ Resume(s)
    <3>1. main[s] = "none" /\ main'[s] = "adding" /\ row[Id(s)].status = "waiting"
          /\ row' = [row EXCEPT ![Id(s)] = MainStore!Resumed(@)]
      BY <2>3 DEF Resume, Typed, TypeOK
    <3>2. row'[Id(s)] = MainStore!Resumed(row[Id(s)]) /\ row[Id(s)] \in AllRows
      BY <3>1, RunIds DEF Typed, TypeOK, AllRows
    <3>3. MainStore!Exists(row[Id(s)])
      BY <3>1 DEF MainStore!Exists, MainStore!Statuses
    <3>4. row'[Id(s)].status = "running" /\ ~row'[Id(s)].waitTill
      BY <3>2, <3>3, WakesUp
    <3> QED BY <2>3, <3>1, <3>4 DEF MainMove, Begins, Ongoing
  <2>4. CASE r = s /\ (AddJob(s) \/ AddJobFails(s) \/ Attach(s) \/ JobSucceeds(s) \/ JobFails(s))
    BY <2>4 DEF AddJob, AddJobFails, Attach, JobSucceeds, JobFails, MainMove, Typed, TypeOK
  <2>5. CASE r = s /\ ReadResult(s)
    BY <2>5 DEF ReadResult, MainMove, Typed, TypeOK
  <2>6. CASE r = s /\ (DeleteResult(s) \/ CheckJob(s) \/ CancelJob(s))
    BY <2>6 DEF DeleteResult, CheckJob, CancelJob, MainMove, Typed, TypeOK
  <2> QED BY <2>2, <2>3, <2>4, <2>5, <2>6 DEF MainStep
<1> QED BY <1>w, <1>j, <1>m

\* The steps of workers at work.
LEMMA MovesWorker ==
    ASSUME Ownership, NEW v \in Workers, NEW s \in Runs,
           PickUp(v, s) \/ WorkerStep(v, s) \/ DeliverAbort(v, s) \/ SaveAborted(v, s),
           NEW r \in Runs
    PROVE  MainMove(r) /\ JobMove(r) /\ \A w \in Workers : WorkMove(w, r)
<1> USE DEF Ownership
<1>m. MainMove(r)
  <2>1. UNCHANGED main
    BY DEF PickUp, WorkerStep, ReadExecution, MarkRunning, StartEngine, EngineEnds,
           EngineSaves, JobEnds, DeliverAbort, SaveAborted, mainVars
  <2> QED BY <2>1, StillMove
<1>j. JobMove(r)
  <2>1. CASE PickUp(v, s)
    <3>1. r # s => job'[r] = job[r]
      BY <2>1 DEF PickUp, Typed, TypeOK
    <3>2. job[s].at = "waiting" /\ job'[s].at = "active"
      <4>1. job[s] \in Jobs
        BY DEF Typed, TypeOK
      <4> QED BY <2>1, <4>1 DEF PickUp, Typed, TypeOK, Jobs
    <3> QED BY <3>1, <3>2 DEF JobMove
  <2>2. CASE ReadExecution(v, s) \/ JobEnds(v, s)
    <3>1. CASE UNCHANGED job
      BY <3>1, StillMove
    <3>2. ASSUME NEW how \in {"completed", "failed"}, Leaves(v, s, how),
                 how = "completed" => work[v][s].pc = "saved"
          PROVE  JobMove(r)
      <4>1. /\ r # s => job'[r] = job[r]
            /\ job'[s] = job[s] \/ (job[s].at = "active" /\ job'[s].at = how)
        BY <3>2, LeavesType DEF Typed
      <4> QED BY <3>2, <4>1 DEF JobMove
    <3> QED BY <2>2, <3>1, <3>2 DEF ReadExecution, JobEnds
  <2>3. CASE UNCHANGED job
    BY <2>3, StillMove
  <2> QED BY <2>1, <2>2, <2>3 DEF WorkerStep, MarkRunning, StartEngine, EngineEnds, EngineSaves,
             DeliverAbort, SaveAborted, queueVars
<1>w. ASSUME NEW w \in Workers
      PROVE  WorkMove(w, r)
  <2>0. ASSUME NEW pc \in {"none", "picked", "read", "marked", "running", "saving", "saved"},
               At(v, s, pc), r = s /\ w = v => WorkMove(w, r) \/ pc = "none"
        PROVE  WorkMove(w, r)
    <3>1. work'[v][s].pc = pc /\ (w # v \/ r # s => work'[w][r] = work[w][r])
      BY <2>0, SetsPlace DEF Typed
    <3> QED BY <2>0, <3>1 DEF WorkMove
  <2>1. CASE PickUp(v, s)
    <3>1. At(v, s, "picked") /\ job[s].at = "waiting" /\ work'[v][s].pc = "picked"
      BY <2>1, SetsPlace DEF PickUp, Typed
    <3> QED BY <2>0, <3>1 DEF WorkMove
  <2>2. CASE ReadExecution(v, s)
    <3>1. CASE At(v, s, "read")
      <4>1. work'[v][s].pc = "read" /\ Busy(v, s)
        BY <2>2, <3>1, SetsPlace DEF ReadExecution, Typed, Busy
      <4> QED BY <2>0, <3>1, <4>1 DEF WorkMove
    <3>2. CASE At(v, s, "none")
      BY <2>0, <3>2
    <3> QED BY <2>2, <3>1, <3>2 DEF ReadExecution
  <2>3. CASE MarkRunning(v, s)
    <3>1. At(v, s, "marked") /\ work'[v][s].pc = "marked" /\ Busy(v, s)
      BY <2>3, SetsPlace DEF MarkRunning, Typed, Busy
    <3> QED BY <2>0, <3>1 DEF WorkMove
  <2>4. CASE StartEngine(v, s)
    <3>1. At(v, s, "running") /\ work'[v][s].pc = "running" /\ Busy(v, s)
      BY <2>4, SetsPlace DEF StartEngine, Typed, Busy
    <3> QED BY <2>0, <3>1 DEF WorkMove
  <2>5. CASE EngineEnds(v, s)
    <3>1. PICK o \in Outcomes \cup {"canceled", "aborted"} :
             work' = [work EXCEPT ![v][s] = [pc |-> "saving", outcome |-> o]]
      BY <2>5 DEF EngineEnds
    <3>2. [pc |-> "saving", outcome |-> o] \in Works /\ Busy(v, s)
      BY <2>5 DEF Works, EngineEnds, Busy
    <3>3. work'[v][s].pc = "saving" /\ (w # v \/ r # s => work'[w][r] = work[w][r])
      <4>1. work \in [Workers -> [Runs -> Works]]
        BY DEF Typed, TypeOK
      <4> QED BY ONLY <3>1, <3>2, <4>1, v \in Workers, s \in Runs, w \in Workers, r \in Runs
    <3> QED BY <3>2, <3>3 DEF WorkMove
  <2>6. CASE EngineSaves(v, s)
    <3>1. At(v, s, "saved")
      BY <2>6 DEF EngineSaves
    <3> QED BY <2>0, <2>6, <3>1 DEF WorkMove
  <2>7. CASE JobEnds(v, s)
    <3>1. NoWork \in Works /\ NoWork.pc = "none"
      BY DEF NoWork, Works
    <3>2. work' = [work EXCEPT ![v][s] = NoWork]
      BY <2>7 DEF JobEnds
    <3>3. work'[v][s].pc = "none" /\ (w # v \/ r # s => work'[w][r] = work[w][r])
      <4>1. work \in [Workers -> [Runs -> Works]]
        BY DEF Typed, TypeOK
      <4> QED BY ONLY <3>1, <3>2, <4>1, v \in Workers, s \in Runs, w \in Workers, r \in Runs
    <3> QED BY <3>3 DEF WorkMove
  <2>8. CASE UNCHANGED work
    BY <2>8, StillMove
  <2> QED BY <2>1, <2>2, <2>3, <2>4, <2>5, <2>6, <2>7, <2>8 DEF WorkerStep, DeliverAbort,
             SaveAborted
<1> QED BY <1>m, <1>j, <1>w

\* Every step.
LEMMA Moves ==
    ASSUME LocksHold, Ownership, ErrorsOnce, [Next]_vars, NEW r \in Runs
    PROVE  MainMove(r) /\ JobMove(r) /\ \A w \in Workers : WorkMove(w, r)
<1> USE DEF Ownership
<1>1. ASSUME NEW e \in Executions, Create(e)
      PROVE  MainMove(r) /\ JobMove(r) /\ \A w \in Workers : WorkMove(w, r)
  <2>1. UNCHANGED <<job, work>>
    BY <1>1 DEF Create, queueVars, workerVars
  <2> DEFINE x == <<e, 1>>
  <2>2. main[x] = "none" /\ main' = [main EXCEPT ![x] = "adding"]
    BY <1>1 DEF Create
  <2>3. x \in Runs /\ Attempt(x) = 1 /\ Id(x) = e
    BY RunIds DEF Attempt
  <2> HIDE DEF x
  <2>4. row'[e].status = "new" /\ ~row'[e].waitTill
    BY <1>1 DEF Create, Typed, TypeOK, MainStore!WithInsertedData, MainStore!InsertedEntity,
                MainStore!Exists, MainStore!Statuses
  <2>5. r = x => MainMove(r)
    BY <2>2, <2>3, <2>4 DEF MainMove, Begins, Ongoing, Typed, TypeOK
  <2>6. r # x => MainMove(r)
    BY <2>2 DEF MainMove, Typed, TypeOK
  <2> QED BY <2>1, <2>5, <2>6, StillMove
<1>2. ASSUME NEW e \in Executions, StopRequested(e) \/ StopStep(e)
      PROVE  MainMove(r) /\ JobMove(r) /\ \A w \in Workers : WorkMove(w, r)
  <2>1. UNCHANGED <<main, work>>
    BY <1>2 DEF StopRequested, StopStep, StopEntry, FindJob, CheckFoundJob, StopFoundJob,
                StopStored, workerVars
  <2>2. CASE StopFoundJob(e)
    <3>1. stop[e].run \in Runs /\ stop[Id(stop[e].run)].pc # "none"
      BY <2>2 DEF StopFoundJob, Typed, Targets
    <3> QED BY <2>1, <2>2, <3>1, StopJobMove, StillMove DEF StopFoundJob
  <2>3. CASE ~StopFoundJob(e)
    <3>1. UNCHANGED job
      BY <1>2, <2>3 DEF StopRequested, StopStep, StopEntry, FindJob, CheckFoundJob, StopStored,
                        queueVars
    <3> QED BY <2>1, <3>1, StillMove
  <2> QED BY <2>2, <2>3
<1>3. ASSUME NEW s \in Runs, Resume(s) \/ MainStep(s)
      PROVE  MainMove(r) /\ JobMove(r) /\ \A w \in Workers : WorkMove(w, r)
  BY <1>3, MovesMain
<1>4. ASSUME NEW s \in Runs, Stall(s)
      PROVE  MainMove(r) /\ JobMove(r) /\ \A w \in Workers : WorkMove(w, r)
  <2>1. UNCHANGED <<main, work>>
    BY <1>4 DEF Stall, mainVars, workerVars
  <2>2. /\ job[s].at = "active" /\ (r # s => job'[r] = job[r])
        /\ \/ job'[s].at = "failed"
           \/ job'[s].at = "waiting" /\ MaxStalledCount # 0
    <3> DEFINE x == [at |-> "waiting", owner |-> NoWorker, stalls |-> job[s].stalls + 1]
               y == [job[s] EXCEPT !.at = "failed", !.owner = NoWorker]
    <3>1. \/ job[s].stalls < MaxStalledCount /\ job' = [job EXCEPT ![s] = x]
          \/ job' = [job EXCEPT ![s] = y]
      BY <1>4 DEF Stall
    <3>2. job[s] \in Jobs
      BY DEF Typed, TypeOK
    <3>3. x.at = "waiting" /\ y.at = "failed"
      BY <3>2 DEF Jobs
    <3>4. job[s].stalls < MaxStalledCount => MaxStalledCount # 0
      BY <3>2, MaxStalledCountAssumption DEF Jobs
    <3> HIDE DEF x, y
    <3> QED BY <1>4, <3>1, <3>3, <3>4 DEF Stall, Typed, TypeOK
  <2>3. JobMove(r)
    BY <2>2 DEF JobMove
  <2> QED BY <2>1, <2>3, StillMove
<1>5. ASSUME NEW p \in errors, ErrorStep(p)
      PROVE  MainMove(r) /\ JobMove(r) /\ \A w \in Workers : WorkMove(w, r)
  <2>1. UNCHANGED <<job, work>>
    BY <1>5 DEF ErrorStep, CheckError, SaveError, queueVars, workerVars
  <2>2. p.run \in Runs /\ (p.from = "enqueue" => main[p.run] = "rejecting")
        /\ (p.from = "executor" => main[p.run] = "failing")
    BY DEF Typed, TypeOK, Errors, ErrorsOnce
  <2>3. \/ UNCHANGED main
        \/ p.from = "enqueue" /\ main' = [main EXCEPT ![p.run] = "done"]
        \/ p.from = "executor" /\ main' = [main EXCEPT ![p.run] = "rejected"]
    BY <1>5 DEF ErrorStep, CheckError, SaveError, Handled
  <2>4. MainMove(r)
    BY <2>2, <2>3 DEF MainMove, Typed, TypeOK
  <2> QED BY <2>1, <2>4, StillMove
<1>6. ASSUME NEW v \in Workers, NEW s \in Runs,
             PickUp(v, s) \/ WorkerStep(v, s) \/ DeliverAbort(v, s) \/ SaveAborted(v, s)
      PROVE  MainMove(r) /\ JobMove(r) /\ \A w \in Workers : WorkMove(w, r)
  BY <1>6, MovesWorker
<1>7. ASSUME NEW v \in Workers, Crash(v) \/ BeginShutdown(v) \/ Exit(v) \/ Start(v)
      PROVE  MainMove(r) /\ JobMove(r) /\ \A w \in Workers : WorkMove(w, r)
  <2>1. UNCHANGED <<main, job>>
    BY <1>7 DEF Crash, BeginShutdown, Exit, Start, GoesDown, mainVars, queueVars
  <2>2. ASSUME NEW w \in Workers
        PROVE  WorkMove(w, r)
    <3>1. CASE GoesDown(v)
      BY <3>1, GoesDownSets DEF Typed, WorkMove, NoWork
    <3>2. CASE UNCHANGED work
      BY <3>2, StillMove
    <3> QED BY <1>7, <3>1, <3>2 DEF Crash, BeginShutdown, Exit, Start
  <2> QED BY <2>1, <2>2, StillMove
<1>8. CASE RecoveryStep \/ UNCHANGED vars
  <2>1. UNCHANGED <<main, job, work>>
    BY <1>8 DEF RecoveryStep, ReadStored, FindDangling, MarkDangling, queueVars, workerVars,
                vars, mainVars
  <2> QED BY <2>1, StillMove
<1>9. CASE MainCrash
  <2>1. UNCHANGED <<job, work>> /\ MaxMainCrashes # 0
    BY <1>9, BoundsAssumption DEF MainCrash, queueVars, workerVars, Typed, TypeOK
  <2>2. main'[r] = IF main[r] \in {"none", "done"} THEN main[r] ELSE "lost"
    BY <1>9 DEF MainCrash
  <2>3. MainMove(r)
    BY <2>1, <2>2 DEF MainMove
  <2> QED BY <2>1, <2>3, StillMove
<1> QED
  BY <1>1, <1>2, <1>3, <1>4, <1>5, <1>6, <1>7, <1>8, <1>9 DEF Next

\* What a step may do to the row of an execution.
RowMove(e) ==
    \/ Mild(row[e], row'[e])
    \/ Create(e)
    \/ \E r \in Runs : Id(r) = e /\ Resume(r)
    \/ \E w \in Workers, r \in Runs : Id(r) = e /\ (MarkRunning(w, r) \/ EngineSaves(w, r))
    \/ \E p \in errors : Id(p.run) = e /\ SaveError(p)

LEMMA RowMoves ==
    ASSUME Typed, [Next]_vars, NEW e \in Executions
    PROVE  RowMove(e)
<1>0. row[e] \in AllRows
  BY DEF Typed, TypeOK, AllRows
<1>1. ASSUME UNCHANGED row
      PROVE  RowMove(e)
  BY <1>0, <1>1, MildRows DEF RowMove
<1>2. ASSUME NEW x \in Executions, NEW new, row' = [row EXCEPT ![x] = new],
             Mild(row[x], new)
      PROVE  RowMove(e)
  BY <1>0, <1>2, MildRows DEF RowMove, Typed, TypeOK
<1>3. ASSUME NEW x \in Executions, NEW new, row' = [row EXCEPT ![x] = new], x # e
      PROVE  RowMove(e)
  BY <1>0, <1>3, MildRows DEF RowMove, Typed, TypeOK
<1>4. \A x \in Executions : row[x] \in AllRows
  BY DEF Typed, TypeOK, AllRows
<1>5. ASSUME NEW x \in Executions, Create(x) \/ StopRequested(x) \/ StopStep(x)
      PROVE  RowMove(e)
  <2>1. CASE Create(x)
    BY <1>3, <2>1 DEF Create, RowMove
  <2>2. CASE StopStored(x)
    <3>1. Mild(row[x], MainStore!StoppedDuringRun(row[x]))
      BY <1>4, MildRows
    <3> QED BY <1>2, <2>2, <3>1 DEF StopStored
  <2>3. CASE UNCHANGED row
    BY <1>1, <2>3
  <2> QED BY <1>5, <2>1, <2>2, <2>3 DEF StopRequested, StopStep, StopEntry, FindJob,
             CheckFoundJob, StopFoundJob
<1>6. ASSUME NEW s \in Runs, Resume(s) \/ MainStep(s)
      PROVE  RowMove(e)
  <2>0. Id(s) \in Executions
    BY RunIds
  <2>1. CASE Resume(s)
    BY <1>3, <2>0, <2>1 DEF Resume, RowMove
  <2>2. CASE DeleteResult(s)
    <3>1. Mild(row[Id(s)], MainStore!Deleted)
      BY <1>4, <2>0, MildRows
    <3> QED BY <1>2, <2>0, <2>2, <3>1 DEF DeleteResult
  <2>3. CASE UNCHANGED row
    BY <1>1, <2>3
  <2> QED BY <1>6, <2>1, <2>2, <2>3 DEF MainStep, AddJob, AddJobFails, Attach, JobSucceeds,
             JobFails, ReadResult, CheckJob, CancelJob
<1>7. ASSUME NEW p \in errors, ErrorStep(p)
      PROVE  RowMove(e)
  <2>1. Id(p.run) \in Executions
    BY RunIds DEF Typed, TypeOK, Errors
  <2>2. CASE SaveError(p)
    BY <1>3, <2>1, <2>2 DEF SaveError, RowMove
  <2> QED BY <1>1, <1>7, <2>2 DEF ErrorStep, CheckError
<1>8. ASSUME NEW w \in Workers, NEW s \in Runs,
             PickUp(w, s) \/ WorkerStep(w, s) \/ DeliverAbort(w, s) \/ SaveAborted(w, s)
      PROVE  RowMove(e)
  <2>0. Id(s) \in Executions
    BY RunIds
  <2>1. CASE MarkRunning(w, s)
    BY <1>3, <2>0, <2>1 DEF MarkRunning, RowMove
  <2>2. CASE EngineSaves(w, s)
    <3>1. CASE UNCHANGED row
      BY <1>1, <3>1
    <3>2. CASE row' = [row EXCEPT ![Id(s)] =
                          WorkerStore!Saved(row[Id(s)], work[w][s].outcome, Mode)]
      BY <1>3, <2>0, <2>2, <3>2 DEF RowMove
    <3> QED BY <2>2, <3>1, <3>2 DEF EngineSaves
  <2>3. CASE SaveAborted(w, s)
    <3>1. Mild(row[Id(s)], WorkerStore!Saved(row[Id(s)], "canceled", Mode))
      BY <1>4, <2>0, MildRows
    <3> QED BY <1>2, <2>0, <2>3, <3>1 DEF SaveAborted
  <2>4. CASE UNCHANGED row
    BY <1>1, <2>4
  <2> QED BY <1>8, <2>1, <2>2, <2>3, <2>4 DEF PickUp, WorkerStep, ReadExecution, StartEngine,
             EngineEnds, JobEnds, DeliverAbort
<1>9. ASSUME NEW w \in Workers, Crash(w) \/ BeginShutdown(w) \/ Exit(w) \/ Start(w)
      PROVE  RowMove(e)
  <2>1. row'[e] = row[e] \/ row'[e] = Amended(row[e])
    BY <1>9 DEF Crash, BeginShutdown, Exit, Start, GoesDown
  <2> QED BY <1>0, <2>1, MildRows DEF RowMove
<1>10. CASE RecoveryStep
  <2>1. row'[e] = row[e] \/ row'[e] = MainStore!WithStatus(row[e], "crashed")
    BY <1>10 DEF RecoveryStep, ReadStored, FindDangling, MarkDangling
  <2> QED BY <1>0, <2>1, MildRows DEF RowMove
<1>11. CASE MainCrash
  BY <1>1, <1>11 DEF MainCrash
<1>12. CASE UNCHANGED vars
  BY <1>1, <1>12 DEF vars
<1>13. ASSUME NEW s \in Runs, Stall(s)
       PROVE  RowMove(e)
  BY <1>1, <1>13 DEF Stall
<1> QED
  BY <1>5, <1>6, <1>7, <1>8, <1>9, <1>10, <1>11, <1>12, <1>13 DEF Next

\* What is over stays so, and what idles while its execution waits idles on.
LEMMA OverKept ==
    ASSUME NEW s \in Runs, Over(s), MainMove(s), JobMove(s), \A w \in Workers : WorkMove(w, s)
    PROVE  Over(s)'
<1>1. main'[s] \in {"done", "lost"}
  BY DEF Over, MainMove, Begins
<1>2. job'[s].at # "waiting" /\ (MaxStalledCount = 0 \/ job'[s].at # "active")
  BY DEF Over, JobMove
<1>3. ASSUME NEW w \in Workers
      PROVE  ~Busy(w, s)'
  BY DEF Over, WorkMove, Busy, EngineSaves
<1> QED BY <1>1, <1>2, <1>3 DEF Over

LEMMA IdlesKept ==
    ASSUME NEW r \in Runs, Idles(r), MainMove(r), JobMove(r), \A w \in Workers : WorkMove(w, r),
           MaxStalledCount = 0, Waits(row'[Id(r)])
    PROVE  Idles(r)'
<1>1. ~Begins(r)
  BY DEF Begins, Waits, Ongoing
<1>2. main'[r] # "adding"
  BY <1>1 DEF Idles, MainMove
<1>3. job'[r].at # "waiting"
  BY DEF Idles, JobMove
<1>4. ASSUME NEW w \in Workers
      PROVE  ~Busy(w, r)'
  BY DEF Idles, WorkMove, Busy, EngineSaves
<1> QED BY <1>2, <1>3, <1>4 DEF Idles

\* While a worker is at a run, it is alone with it, and no other run of the
\* execution has anything left to do.
LEMMA Alone ==
    ASSUME Ownership, InTurn, Unqueued, NEW w \in Workers, NEW s \in Runs, Busy(w, s),
           NEW r \in Runs, Id(r) = Id(s)
    PROVE  /\ main[s] \in {"added", "awaiting", "lost"} /\ job[s].at = "active"
           /\ r # s => main[r] = "none" \/ Over(r)
           /\ r = s => \A v \in Workers : v # w => ~Working(v, r)
<1>1. job[s].at = "active" /\ job[s].owner = w /\ main[s] \in {"added", "awaiting", "lost"}
  BY DEF Ownership, JobsOwned, Awaited, Working, InQueue, Busy
<1>2. ASSUME r # s
      PROVE  main[r] = "none" \/ Over(r)
  <2>1. Attempt(r) # Attempt(s) /\ Attempt(r) \in Int /\ Attempt(s) \in Int
    BY <1>2 DEF Runs, Id, Attempt
  <2>2. CASE Attempt(r) < Attempt(s)
    BY <1>1, <2>2 DEF InTurn
  <2>3. CASE Attempt(s) < Attempt(r)
    BY <2>3 DEF InTurn, Over
  <2> QED BY <2>1, <2>2, <2>3
<1>3. ASSUME r = s, NEW v \in Workers, v # w
      PROVE  ~Working(v, r)
  BY <1>1, <1>3 DEF Ownership, JobsOwned
<1> QED BY <1>1, <1>2, <1>3

\* Rows of new executions, and of those that go on.
LEMMA CreatedRow ==
    ASSUME Typed, NEW e \in Executions, Create(e)
    PROVE  row'[e].status = "new" /\ ~row'[e].waitTill
BY DEF Create, Typed, TypeOK, MainStore!WithInsertedData, MainStore!InsertedEntity,
       MainStore!Exists, MainStore!Statuses

LEMMA ResumedRow ==
    ASSUME Typed, NEW r \in Runs, Resume(r)
    PROVE  row'[Id(r)].status = "running" /\ ~row'[Id(r)].waitTill
<1>1. row'[Id(r)] = MainStore!Resumed(row[Id(r)]) /\ row[Id(r)] \in AllRows
  BY RunIds DEF Resume, Typed, TypeOK, AllRows
<1>2. MainStore!Exists(row[Id(r)])
  BY DEF Resume, MainStore!Exists, MainStore!Statuses
<1> QED BY <1>1, <1>2, WakesUp

\* Runs take turns ...
LEMMA InTurnNext ==
    ASSUME LocksHold, RunsInTurn, Turns, [Next]_vars
    PROVE  InTurn'
<1> USE DEF Turns
<1> SUFFICES ASSUME NEW r \in Runs, NEW s \in Runs, Id(r) = Id(s), Attempt(s) < Attempt(r),
                    main'[r] # "none"
             PROVE  Over(s)'
  BY DEF InTurn, Id, Attempt
<1>1. MainMove(r)
  BY Moves
<1>2. Over(s) => Over(s)'
  BY Moves, OverKept
<1>3. CASE main[r] # "none"
  BY <1>2, <1>3 DEF InTurn
<1>4. CASE main[r] = "none"
  <2>1. Begins(r)
    BY <1>1, <1>4 DEF MainMove
  <2>2. /\ Attempt(s) \in 1..MaxPauses + 1 /\ Attempt(r) \in 1..MaxPauses + 1
        /\ Attempt(r) \in Int /\ Attempt(s) >= 1 /\ MaxPauses # 0
    BY BoundsAssumption DEF Runs, Attempt
  <2>3. Resume(r) /\ ~QuickResumes /\ (MaxMainCrashes = 0 \/ MaxStalledCount = 0)
    BY <2>1, <2>2 DEF Begins, RunsInTurn
  <2> DEFINE b == <<Id(r), Attempt(r) - 1>>
  <2>4. main[b] \in {"done", "lost"} /\ row[Id(r)].status = "waiting"
    BY <2>3 DEF Resume
  <2>5. b \in Runs /\ Id(b) = Id(s) /\ Attempt(b) = Attempt(r) - 1
    BY <2>2, BoundsAssumption DEF Runs, Id, Attempt
  <2>6. s # b => Attempt(s) < Attempt(b)
    <3>1. Attempt(s) = Attempt(b) => s = b
      BY <2>5 DEF Runs, Id, Attempt
    <3> QED BY <2>2, <2>5, <3>1
  <2> HIDE DEF b
  <2>7. CASE s # b
    BY <1>2, <2>4, <2>5, <2>6, <2>7 DEF InTurn
  <2>8. CASE s = b /\ main[s] = "done"
    <3>1. ~InQueue(s) /\ \A w \in Workers : ~Working(w, s)
      BY <2>8 DEF Ownership, Awaited, JobsOwned, InQueue
    <3>2. Over(s)
      BY <2>8, <3>1 DEF Over, Busy, Working, InQueue
    <3> QED BY <1>2, <3>2
  <2>9. CASE s = b /\ main[s] = "lost"
    <3>1. MaxStalledCount = 0
      BY <2>3, <2>9 DEF NoneLost
    <3>2. Idles(s)
      BY <2>4, <3>1 DEF PausedIdle, Waits
    <3>3. Over(s)
      BY <2>9, <3>1, <3>2 DEF Over, Idles
    <3> QED BY <1>2, <3>3
  <2> QED BY <2>4, <2>7, <2>8, <2>9
<1> QED BY <1>3, <1>4

\* ... what waits is not run ...
LEMMA PausedNext ==
    ASSUME LocksHold, Turns, [Next]_vars
    PROVE  PausedIdle'
<1> USE DEF Turns
<1> SUFFICES ASSUME MaxStalledCount = 0, NEW r \in Runs, Waits(row'[Id(r)])
             PROVE  Idles(r)'
  BY DEF PausedIdle, Id
<1>0. Id(r) \in Executions /\ row[Id(r)] \in AllRows /\ Typed
  BY RunIds DEF Ownership, Typed, TypeOK, AllRows
<1>1. Idles(r) => Idles(r)'
  BY Moves, IdlesKept
<1>2. CASE Waits(row[Id(r)])
  BY <1>1, <1>2 DEF PausedIdle
<1>3. CASE Mild(row[Id(r)], row'[Id(r)])
  BY <1>2, <1>3 DEF Mild
<1>4. CASE Create(Id(r))
  BY <1>0, <1>4, CreatedRow DEF Waits
<1>5. ASSUME NEW s \in Runs, Id(s) = Id(r), Resume(s)
      PROVE  FALSE
  BY <1>0, <1>5, ResumedRow DEF Waits
<1>6. ASSUME NEW w \in Workers, NEW s \in Runs, Id(s) = Id(r), MarkRunning(w, s)
      PROVE  Idles(r)'
  <2>1. row'[Id(r)] = MainStore!WithStatus(row[Id(r)], "running")
    BY <1>0, <1>6 DEF MarkRunning, Typed, TypeOK
  <2> QED BY <1>0, <1>2, <2>1, WakesUp
<1>7. ASSUME NEW w \in Workers, NEW s \in Runs, Id(s) = Id(r), EngineSaves(w, s)
      PROVE  Idles(r)'
  <2>0. Busy(w, s)
    BY <1>7 DEF EngineSaves, Busy
  <2>1. CASE r # s
    <3>1. main[r] = "none" \/ Over(r)
      BY <1>7, <2>0, <2>1, Alone
    <3>2. main[r] = "none" => job[r].at = "none" /\ \A v \in Workers : ~Working(v, r)
      BY DEF Unqueued, Ownership, JobsOwned
    <3>3. Idles(r)
      BY <3>1, <3>2 DEF Idles, Over, Busy, Working
    <3> QED BY <1>1, <3>3
  <2>2. CASE r = s
    <3>1. /\ main[r] \in {"added", "awaiting", "lost"} /\ job[r].at = "active"
          /\ \A v \in Workers : v # w => ~Working(v, r)
      BY <2>0, <2>2, Alone
    <3>2. UNCHANGED <<main, job>> /\ At(w, r, "saved")
      BY <1>7, <2>2 DEF EngineSaves, mainVars, queueVars
    <3>3. work'[w][r].pc = "saved" /\ \A v \in Workers : v # w => work'[v][r] = work[v][r]
      BY <1>0, <3>2, SetsPlace DEF Typed
    <3>4. \A v \in Workers : ~Busy(v, r)'
      BY <3>1, <3>3 DEF Busy, Working
    <3> QED BY <3>1, <3>2, <3>4 DEF Idles
  <2> QED BY <2>1, <2>2
<1>8. ASSUME NEW p \in errors, Id(p.run) = Id(r), SaveError(p)
      PROVE  Idles(r)'
  <2>1. row'[Id(r)] = WorkerStore!Saved(row[Id(r)], "error", Mode)
    BY <1>0, <1>8 DEF SaveError, Typed, TypeOK
  <2>2. "error" \in MainStore!Statuses \ Ongoing
    BY DEF MainStore!Statuses, Ongoing
  <2> QED BY <1>0, <1>2, <2>1, <2>2, EndsRow
<1> QED
  <2>1. RowMove(Id(r))
    BY <1>0, RowMoves
  <2> QED BY <2>1, <1>3, <1>4, <1>5, <1>6, <1>7, <1>8 DEF RowMove

\* ... and a run that fails does so once.
LEMMA ErrorsFrame ==
    ASSUME Typed, ErrorsOnce,
           \A p \in errors' : p \in errors \/ p.from = "cancel",
           \A r \in Runs : main[r] \in {"rejecting", "failing"} => main'[r] = main[r]
    PROVE  ErrorsOnce'
BY DEF Typed, TypeOK, Errors, ErrorsOnce

LEMMA ErrorsNew ==
    ASSUME Typed, ErrorsOnce, NEW r \in Runs, NEW from, Fails(r, from),
           main[r] \notin {"rejecting", "failing"},
           \/ from = "enqueue" /\ main' = [main EXCEPT ![r] = "rejecting"]
           \/ from = "executor" /\ main' = [main EXCEPT ![r] = "failing"]
    PROVE  ErrorsOnce'
<1> DEFINE x == [run |-> r, from |-> from, pc |-> "check"]
<1>1. x.run = r /\ x.from = from /\ errors' = errors \cup {x}
  BY DEF Fails
<1> HIDE DEF x
<1>2. \A p \in errors : /\ p.run \in Runs /\ p.from \in {"enqueue", "executor", "cancel"}
                        /\ p.from # "cancel" => p.run # r
  BY DEF ErrorsOnce, Typed, TypeOK, Errors
<1>3. \A s \in Runs : s # r => main'[s] = main[s]
  BY DEF Typed, TypeOK
<1>4. \A p \in errors' : /\ p.from = "enqueue" => main'[p.run] = "rejecting"
                         /\ p.from = "executor" => main'[p.run] = "failing"
  <2>1. /\ from = "enqueue" => main'[r] = "rejecting"
        /\ from = "executor" => main'[r] = "failing"
    BY DEF Typed, TypeOK
  <2> QED BY <1>1, <1>2, <1>3, <2>1 DEF ErrorsOnce
<1>5. \A p, q \in errors' :
         p.run = q.run /\ p.from # "cancel" /\ q.from # "cancel" => p = q
  BY <1>1, <1>2 DEF ErrorsOnce
<1> QED BY <1>4, <1>5 DEF ErrorsOnce

LEMMA ErrorsStep ==
    ASSUME Typed, ErrorsOnce, NEW p \in errors, ErrorStep(p)
    PROVE  ErrorsOnce'
<1>0. /\ p \in Errors /\ p.run \in Runs /\ p.from \in {"enqueue", "executor", "cancel"}
      /\ \A q \in errors : q.run \in Runs /\ q.from \in {"enqueue", "executor", "cancel"}
  BY DEF Typed, TypeOK, Errors
<1>1. ASSUME errors' = errors \ {p}, Handled(p)
      PROVE  ErrorsOnce'
  <2>1. \A q \in errors' : q \in errors /\ (q.from # "cancel" /\ p.from # "cancel" => q.run # p.run)
    BY <1>1 DEF ErrorsOnce
  <2>2. \A s \in Runs : s # p.run \/ p.from = "cancel" => main'[s] = main[s]
    BY <1>0, <1>1 DEF Handled, Typed, TypeOK
  <2>3. \A q \in errors' : q.from # "cancel" => main'[q.run] = main[q.run]
    BY <1>0, <2>1, <2>2
  <2> QED BY <2>1, <2>3 DEF ErrorsOnce
<1>2. ASSUME errors' = (errors \ {p}) \cup {[p EXCEPT !.pc = "save"]}, UNCHANGED main
      PROVE  ErrorsOnce'
  <2> DEFINE x == [p EXCEPT !.pc = "save"]
  <2>1. x.run = p.run /\ x.from = p.from /\ errors' = (errors \ {p}) \cup {x}
    BY <1>0, <1>2 DEF Errors
  <2> HIDE DEF x
  <2>2. \A q \in errors \ {p} : q.from # "cancel" /\ p.from # "cancel" => q.run # p.run
    BY DEF ErrorsOnce
  <2>3. \A q \in errors' : /\ q.from = "enqueue" => main'[q.run] = "rejecting"
                           /\ q.from = "executor" => main'[q.run] = "failing"
    BY <1>2, <2>1 DEF ErrorsOnce
  <2>4. \A q, o \in errors' :
           q.run = o.run /\ q.from # "cancel" /\ o.from # "cancel" => q = o
    BY <2>1, <2>2 DEF ErrorsOnce
  <2> QED BY <2>3, <2>4 DEF ErrorsOnce
<1> QED BY <1>1, <1>2 DEF ErrorStep, CheckError, SaveError

LEMMA ErrorsNext ==
    ASSUME Typed, ErrorsOnce, [Next]_vars
    PROVE  ErrorsOnce'
<1>1. ASSUME NEW e \in Executions, Create(e) \/ StopRequested(e) \/ StopStep(e)
      PROVE  ErrorsOnce'
  <2>1. UNCHANGED errors
    BY <1>1 DEF Create, StopRequested, StopStep, StopEntry, FindJob, CheckFoundJob, StopFoundJob,
                StopStored
  <2>2. \/ UNCHANGED main
        \/ main[<<e, 1>>] = "none" /\ main' = [main EXCEPT ![<<e, 1>>] = "adding"]
    BY <1>1 DEF Create, StopRequested, StopStep, StopEntry, FindJob, CheckFoundJob, StopFoundJob,
                StopStored
  <2>3. \A r \in Runs : main[r] \in {"rejecting", "failing"} => main'[r] = main[r]
    BY <2>2 DEF Typed, TypeOK
  <2> QED BY <2>1, <2>3, ErrorsFrame
<1>2. ASSUME NEW r \in Runs, Resume(r) \/ MainStep(r)
      PROVE  ErrorsOnce'
  <2>1. CASE AddJobFails(r) \/ JobFails(r)
    BY <2>1, ErrorsNew DEF AddJobFails, JobFails
  <2>2. CASE CancelJob(r)
    <3>1. UNCHANGED main
      BY <2>2 DEF CancelJob
    <3>2. \A p \in errors' : p \in errors \/ p.from = "cancel"
      BY <2>2 DEF CancelJob, Fails
    <3> QED BY <3>1, <3>2, ErrorsFrame
  <2>3. CASE Resume(r) \/ AddJob(r) \/ Attach(r) \/ JobSucceeds(r) \/ ReadResult(r)
                \/ DeleteResult(r) \/ CheckJob(r)
    <3>1. UNCHANGED errors
      BY <2>3 DEF Resume, AddJob, Attach, JobSucceeds, ReadResult, DeleteResult, CheckJob
    <3>2. UNCHANGED main \/ (main[r] \notin {"rejecting", "failing"}
                                /\ \E x : main' = [main EXCEPT ![r] = x])
      BY <2>3 DEF Resume, AddJob, Attach, JobSucceeds, ReadResult, DeleteResult, CheckJob
    <3>3. \A s \in Runs : main[s] \in {"rejecting", "failing"} => main'[s] = main[s]
      BY <3>2 DEF Typed, TypeOK
    <3> QED BY <3>1, <3>3, ErrorsFrame
  <2> QED BY <1>2, <2>1, <2>2, <2>3 DEF MainStep
<1>3. ASSUME NEW p \in errors, ErrorStep(p)
      PROVE  ErrorsOnce'
  BY <1>3, ErrorsStep
<1>4. CASE MainCrash
  BY <1>4 DEF MainCrash, ErrorsOnce
<1>5. ASSUME UNCHANGED <<main, errors>>
      PROVE  ErrorsOnce'
  BY <1>5, ErrorsFrame
<1>6. ASSUME NEW r \in Runs, Stall(r)
      PROVE  ErrorsOnce'
  BY <1>5, <1>6 DEF Stall, mainVars
<1>7. ASSUME NEW w \in Workers, NEW r \in Runs,
             PickUp(w, r) \/ WorkerStep(w, r) \/ DeliverAbort(w, r) \/ SaveAborted(w, r)
      PROVE  ErrorsOnce'
  BY <1>5, <1>7 DEF PickUp, WorkerStep, ReadExecution, MarkRunning, StartEngine, EngineEnds,
                    EngineSaves, JobEnds, DeliverAbort, SaveAborted, mainVars
<1>8. ASSUME NEW w \in Workers, Crash(w) \/ BeginShutdown(w) \/ Exit(w) \/ Start(w)
      PROVE  ErrorsOnce'
  BY <1>5, <1>8 DEF Crash, BeginShutdown, Exit, Start, GoesDown, mainVars
<1>9. CASE RecoveryStep
  BY <1>5, <1>9 DEF RecoveryStep, ReadStored, FindDangling, MarkDangling
<1>10. CASE UNCHANGED vars
  BY <1>5, <1>10 DEF vars, mainVars
<1> QED
  BY <1>1, <1>2, <1>3, <1>4, <1>6, <1>7, <1>8, <1>9, <1>10 DEF Next

LEMMA TurnNext == LocksHold /\ RunsInTurn /\ Turns /\ [Next]_vars => Turns'
<1> SUFFICES ASSUME LocksHold, RunsInTurn, Turns, [Next]_vars
             PROVE  Turns'
  OBVIOUS
<1>1. Ownership'
  BY OwnNext DEF Turns
<1>2. InTurn' /\ PausedIdle' /\ ErrorsOnce'
  BY InTurnNext, PausedNext, ErrorsNext DEF Turns, Ownership
<1>3. NoneLost'
  <2> SUFFICES ASSUME MaxMainCrashes = 0, NEW r \in Runs
               PROVE  main'[r] # "lost"
    BY DEF NoneLost
  <2>1. MainMove(r) /\ main[r] # "lost"
    BY Moves DEF Turns, NoneLost
  <2> QED BY <2>1 DEF MainMove, Begins
<1>4. Unqueued'
  <2> SUFFICES ASSUME NEW r \in Runs, main'[r] \in {"none", "adding"}
               PROVE  job'[r].at = "none"
    BY DEF Unqueued
  <2>1. MainMove(r) /\ JobMove(r)
    BY Moves DEF Turns
  <2>2. main[r] \in {"none", "adding"}
    BY <2>1 DEF MainMove, Begins
  <2> QED BY <2>1, <2>2 DEF Turns, Unqueued, JobMove
<1> QED BY <1>1, <1>2, <1>3, <1>4 DEF Turns

LEMMA TurnInit == Init => Turns
<1> SUFFICES ASSUME Init
             PROVE  Turns
  OBVIOUS
<1>1. Ownership
  BY ZInit DEF ZInv
<1>2. InTurn /\ NoneLost /\ Unqueued /\ ErrorsOnce
  BY DEF Init, InTurn, NoneLost, Unqueued, ErrorsOnce, NoJob
<1>3. PausedIdle
  <2> SUFFICES ASSUME NEW r \in Runs
               PROVE  ~Waits(row[Id(r)])
    BY DEF PausedIdle
  <2>1. row[Id(r)] = MainStore!NotInserted
    BY RunIds DEF Init
  <2>2. MainStore!NotInserted \in AllRows
    BY DEF AllRows, MainStore!Rows
  <2> QED BY <2>1, <2>2, RowKinds
<1> QED BY <1>1, <1>2, <1>3 DEF Turns

-------------------------------------------------------------------------------
\* As long as locks hold and the runs of an execution take turns, no two workers
\* run the engine of one execution at a time.
THEOREM EnginesApart ==
    ASSUME LocksHold, RunsInTurn
    PROVE  Spec => []OneEngine
<1>1. Turns => OneEngine
  <2> SUFFICES ASSUME Turns, NEW w \in Workers, NEW v \in Workers, NEW r \in Runs,
                      NEW s \in Runs, LiveEngine(w, r), LiveEngine(v, s), Id(r) = Id(s)
               PROVE  w = v /\ r = s
    BY DEF OneEngine
  <2>1. Busy(w, r) /\ Busy(v, s) /\ Working(v, s)
    BY DEF LiveEngine, Busy, Working
  <2>2. main[s] # "none" /\ ~Over(s)
    BY <2>1, Alone DEF Turns, Over
  <2>3. r = s
    BY <2>1, <2>2, Alone DEF Turns
  <2> QED BY <2>1, <2>3, Alone DEF Turns
<1> QED BY <1>1, TurnInit, TurnNext, PTL DEF Spec

-------------------------------------------------------------------------------
(***************************************************************************)
(* Results.                                                                *)
(***************************************************************************)
\* A run has a row, and only a stop request removes its job.
Created == \A r \in Runs : main[r] # "none" => row[Id(r)] # MainStore!NotInserted
Removed == \A r \in Runs : job[r].at = "removed" => stop[Id(r)].pc # "none"

\* The job of r has succeeded or is about to, and the main will read the result.
Ripe(r) ==
    \/ main[r] = "reading"
    \/ /\ main[r] \in {"added", "awaiting"}
       /\ job[r].at = "completed" \/ \E w \in Workers : work[w][r].pc = "saved"

\* Then the result is there.
Results == \A r \in Runs : Ripe(r) /\ stop[Id(r)].pc = "none" => Ended(row[Id(r)])

\* What the main is about to delete did not fail.
Kept ==
    KeepError => \A r \in Runs :
        main[r] = "deleting" /\ stop[Id(r)].pc = "none" => row[Id(r)].status # "error"

RInv == ZInv /\ Turns /\ Created /\ Removed /\ Results /\ Kept

\* A stop request is not forgotten.
LEMMA StopKept ==
    ASSUME Typed, [Next]_vars, NEW e \in Executions, stop[e].pc # "none"
    PROVE  stop'[e].pc # "none"
<1>1. ASSUME UNCHANGED stop
      PROVE  stop'[e].pc # "none"
  BY <1>1
<1>2. ASSUME NEW x \in Executions, Create(x) \/ StopRequested(x) \/ StopStep(x)
      PROVE  stop'[e].pc # "none"
  <2>0. stop \in [Executions -> Stops] /\ DOMAIN stop = Executions
        /\ \A y \in Executions : DOMAIN stop[y] = {"pc", "run"}
    BY DEF Typed, TypeOK, Stops
  <2>1. CASE Create(x)
    BY <1>1, <2>1 DEF Create
  <2>2. CASE StopRequested(x)
    <3>1. x # e /\ stop' = [stop EXCEPT ![x].pc = "read"]
      BY <2>2 DEF StopRequested
    <3> QED BY <2>0, <3>1
  <2>3. ASSUME NEW pc, pc # "none", stop' = [stop EXCEPT ![x].pc = pc]
        PROVE  stop'[e].pc # "none"
    BY <2>0, <2>3
  <2>4. ASSUME NEW pc, NEW run, pc # "none", stop' = [stop EXCEPT ![x] = [pc |-> pc, run |-> run]]
        PROVE  stop'[e].pc # "none"
    BY <2>0, <2>4
  <2>5. CASE StopEntry(x)
    BY <2>3, <2>5 DEF StopEntry
  <2>6. CASE FindJob(x)
    BY <2>3, <2>4, <2>6 DEF FindJob
  <2>7. CASE CheckFoundJob(x)
    <3>1. Checked(stop[x].run) # "none"
      BY DEF Checked
    <3> QED BY <2>3, <2>7, <3>1 DEF CheckFoundJob
  <2>8. CASE StopFoundJob(x)
    BY <2>4, <2>8 DEF StopFoundJob
  <2>9. CASE StopStored(x)
    BY <2>3, <2>9 DEF StopStored
  <2> QED BY <1>2, <2>1, <2>2, <2>5, <2>6, <2>7, <2>8, <2>9 DEF StopStep
<1>3. ASSUME NEW r \in Runs, Resume(r) \/ MainStep(r) \/ Stall(r)
      PROVE  UNCHANGED stop
  BY <1>3 DEF Resume, MainStep, AddJob, AddJobFails, Attach, JobSucceeds, JobFails, ReadResult,
              DeleteResult, CheckJob, CancelJob, Stall, mainVars
<1>4. ASSUME NEW p \in errors, ErrorStep(p)
      PROVE  UNCHANGED stop
  BY <1>4 DEF ErrorStep, CheckError, SaveError
<1>5. ASSUME NEW w \in Workers, NEW r \in Runs,
             PickUp(w, r) \/ WorkerStep(w, r) \/ DeliverAbort(w, r) \/ SaveAborted(w, r)
      PROVE  UNCHANGED stop
  BY <1>5 DEF PickUp, WorkerStep, ReadExecution, MarkRunning, StartEngine, EngineEnds,
              EngineSaves, JobEnds, DeliverAbort, SaveAborted, mainVars
<1>6. ASSUME NEW w \in Workers, Crash(w) \/ BeginShutdown(w) \/ Exit(w) \/ Start(w)
      PROVE  UNCHANGED stop
  BY <1>6 DEF Crash, BeginShutdown, Exit, Start, GoesDown, mainVars
<1>7. CASE RecoveryStep
  BY <1>1, <1>7 DEF RecoveryStep, ReadStored, FindDangling, MarkDangling
<1>8. CASE MainCrash
  BY <1>8 DEF MainCrash
<1>9. CASE UNCHANGED vars
  BY <1>1, <1>9 DEF vars, mainVars
<1> QED
  BY <1>1, <1>2, <1>3, <1>4, <1>5, <1>6, <1>7, <1>8, <1>9 DEF Next

\* What an engine saves.
LEMMA EngineRow ==
    ASSUME Typed, NEW w \in Workers, NEW s \in Runs, EngineSaves(w, s)
    PROVE  \/ work[w][s].outcome = "aborted" /\ UNCHANGED row
           \/ \E status \in MainStore!Statuses \ Ongoing :
                 row'[Id(s)] = WorkerStore!Saved(row[Id(s)], status, Mode)
<1>1. work[w][s].outcome \in Outcomes \cup {"canceled", "aborted"}
  BY DEF EngineSaves, Typed, TypeOK, EndedHow, Works
<1>2. work[w][s].outcome # "aborted" => work[w][s].outcome \in MainStore!Statuses \ Ongoing
  BY <1>1, OutcomesAssumption DEF MainStore!Statuses, Ongoing
<1>3. work[w][s].outcome # "aborted" =>
         row'[Id(s)] = WorkerStore!Saved(row[Id(s)], work[w][s].outcome, Mode)
  BY RunIds DEF EngineSaves, Typed, TypeOK
<1>4. work[w][s].outcome = "aborted" => UNCHANGED row
  BY DEF EngineSaves
<1> QED BY <1>2, <1>3, <1>4

LEMMA ErrorRow ==
    ASSUME Typed, NEW p \in errors, SaveError(p)
    PROVE  /\ row'[Id(p.run)] = WorkerStore!Saved(row[Id(p.run)], "error", Mode)
           /\ "error" \in MainStore!Statuses \ Ongoing
<1>1. Id(p.run) \in Executions
  BY RunIds DEF Typed, TypeOK, Errors
<1> QED BY <1>1 DEF SaveError, Typed, TypeOK, MainStore!Statuses, Ongoing

LEMMA MarkedRow ==
    ASSUME Typed, NEW w \in Workers, NEW s \in Runs, MarkRunning(w, s)
    PROVE  row'[Id(s)] = MainStore!WithStatus(row[Id(s)], "running")
BY RunIds DEF MarkRunning, Typed, TypeOK

\* An execution that was stored is never again one that is not stored yet.
LEMMA RowStays ==
    ASSUME Typed, [Next]_vars, NEW e \in Executions, row[e] # MainStore!NotInserted
    PROVE  row'[e] # MainStore!NotInserted
<1>0. row[e] \in AllRows
  BY DEF Typed, TypeOK, AllRows
<1>1. CASE Mild(row[e], row'[e])
  BY <1>1 DEF Mild
<1>2. CASE Create(e)
  BY <1>2 DEF Create
<1>3. ASSUME NEW r \in Runs, Id(r) = e, Resume(r)
      PROVE  row'[e] # MainStore!NotInserted
  BY <1>3, ResumedRow, ThereRow
<1>4. ASSUME NEW w \in Workers, NEW r \in Runs, Id(r) = e, MarkRunning(w, r)
      PROVE  row'[e] # MainStore!NotInserted
  BY <1>0, <1>4, MarkedRow, WakesUp
<1>5. ASSUME NEW w \in Workers, NEW r \in Runs, Id(r) = e, EngineSaves(w, r)
      PROVE  row'[e] # MainStore!NotInserted
  BY <1>0, <1>5, EngineRow, EndsRow
<1>6. ASSUME NEW p \in errors, Id(p.run) = e, SaveError(p)
      PROVE  row'[e] # MainStore!NotInserted
  BY <1>0, <1>6, ErrorRow, EndsRow
<1> QED
  <2>1. RowMove(e)
    BY RowMoves
  <2> QED BY <2>1, <1>1, <1>2, <1>3, <1>4, <1>5, <1>6 DEF RowMove

\* Of two runs of an execution that have begun, one is over.
LEMMA OneOver ==
    ASSUME InTurn, NEW r \in Runs, NEW s \in Runs, Id(r) = Id(s), r # s,
           main[r] # "none", main[s] # "none"
    PROVE  Over(r) \/ Over(s)
<1>1. Attempt(r) # Attempt(s) /\ Attempt(r) \in Int /\ Attempt(s) \in Int
  BY DEF Runs, Id, Attempt
<1> QED BY <1>1 DEF InTurn

LEMMA CreatedNext ==
    ASSUME LocksHold, RInv, [Next]_vars
    PROVE  Created' /\ Removed'
<1> USE DEF RInv, Turns, Ownership
<1>1. Created'
  <2> SUFFICES ASSUME NEW r \in Runs, main'[r] # "none"
               PROVE  row'[Id(r)] # MainStore!NotInserted
    BY DEF Created, Id
  <2>0. Id(r) \in Executions
    BY RunIds
  <2>1. CASE main[r] # "none"
    BY <2>0, <2>1, RowStays DEF Created
  <2>2. CASE main[r] = "none"
    <3>1. MainMove(r)
      BY Moves
    <3>2. row'[Id(r)].status \in Ongoing
      BY <2>2, <3>1 DEF MainMove, Begins
    <3> QED BY <3>2, ThereRow DEF Ongoing
  <2> QED BY <2>1, <2>2
<1>2. Removed'
  <2> SUFFICES ASSUME NEW r \in Runs, job'[r].at = "removed"
               PROVE  stop'[Id(r)].pc # "none"
    BY DEF Removed, Id
  <2>1. JobMove(r) /\ Id(r) \in Executions
    BY Moves, RunIds
  <2>2. stop[Id(r)].pc # "none"
    BY <2>1 DEF JobMove, Removed, ZInv, StoppedOnly
  <2> QED BY <2>1, <2>2, StopKept
<1> QED BY <1>1, <1>2

\* A result that is there stays there.
LEMMA ResultStays ==
    ASSUME LocksHold, RunsInTurn, RInv, [Next]_vars, NEW r \in Runs, Ripe(r), Ended(row[Id(r)])
    PROVE  Ended(row'[Id(r)])
<1> USE DEF RInv, Turns, Ownership
<1>0. /\ Id(r) \in Executions /\ row[Id(r)] \in AllRows
      /\ main[r] \in {"reading", "added", "awaiting"} /\ ~Over(r)
      /\ row[Id(r)] # MainStore!NotInserted
  BY RunIds DEF Typed, TypeOK, AllRows, Ripe, Over, Created
<1>1. CASE Mild(row[Id(r)], row'[Id(r)])
  BY <1>1 DEF Mild
<1>2. CASE Create(Id(r))
  BY <1>0, <1>2 DEF Create
<1>3. ASSUME NEW s \in Runs, Id(s) = Id(r), Resume(s)
      PROVE  FALSE
  <2>1. main[s] = "none" /\ main'[s] = "adding" /\ (r # s => main'[r] = main[r])
    BY <1>3 DEF Resume, Typed, TypeOK
  <2>2. Attempt(r) # Attempt(s) /\ Attempt(r) \in Int /\ Attempt(s) \in Int
    BY <1>0, <1>3, <2>1 DEF Runs, Id, Attempt
  <2>3. CASE Attempt(s) < Attempt(r)
    BY <1>0, <1>3, <2>1, <2>3 DEF InTurn, Over
  <2>4. CASE Attempt(r) < Attempt(s)
    <3>1. InTurn'
      BY InTurnNext
    <3>2. main'[r] \in {"done", "lost"}
      BY <1>3, <2>1, <2>4, <3>1 DEF InTurn, Over, Id, Attempt
    <3> QED BY <1>0, <2>1, <3>2
  <2> QED BY <2>2, <2>3, <2>4
<1>4. ASSUME NEW w \in Workers, NEW s \in Runs, Id(s) = Id(r), MarkRunning(w, s)
      PROVE  FALSE
  <2>1. Busy(w, s) /\ work[w][s].pc = "read"
    BY <1>4 DEF MarkRunning, Busy
  <2>2. r = s
    BY <1>0, <1>4, <2>1, Alone
  <2>3. main[s] \in {"added", "awaiting", "lost"} /\ job[s].at = "active"
        /\ \A v \in Workers : v # w => ~Working(v, s)
    BY <2>1, <2>2, Alone
  <2> QED BY <2>1, <2>2, <2>3 DEF Ripe, Working
<1>5. ASSUME NEW w \in Workers, NEW s \in Runs, Id(s) = Id(r), EngineSaves(w, s)
      PROVE  Ended(row'[Id(r)])
  BY <1>0, <1>5, EngineRow, EndsRow
<1>6. ASSUME NEW p \in errors, Id(p.run) = Id(r), SaveError(p)
      PROVE  Ended(row'[Id(r)])
  BY <1>0, <1>6, ErrorRow, EndsRow
<1> QED
  <2>1. RowMove(Id(r))
    BY <1>0, RowMoves
  <2> QED BY <2>1, <1>1, <1>2, <1>3, <1>4, <1>5, <1>6 DEF RowMove

LEMMA ResultsNext ==
    ASSUME LocksHold, EventsArrive, RunsInTurn, RInv, [Next]_vars
    PROVE  Results'
<1> USE DEF RInv, Turns, Ownership
<1> SUFFICES ASSUME NEW r \in Runs, Ripe(r)', stop'[Id(r)].pc = "none"
             PROVE  Ended(row'[Id(r)])
  BY DEF Results, Id, Ended
<1>0. Id(r) \in Executions /\ row[Id(r)] \in AllRows
  BY RunIds DEF Typed, TypeOK, AllRows
<1>1. stop[Id(r)].pc = "none"
  BY <1>0, StopKept
<1>2. MainMove(r) /\ JobMove(r) /\ \A w \in Workers : WorkMove(w, r)
  BY Moves
<1>3. CASE Ripe(r)
  BY <1>1, <1>3, ResultStays DEF Results
<1>4. CASE ~Ripe(r) /\ main'[r] = "reading"
  <2>1. main[r] = "awaiting" /\ job[r].at \in EndsQuietly
    BY <1>2, <1>4 DEF MainMove, Begins, Ripe
  <2>2. job[r].at # "removed"
    BY <1>1 DEF Removed
  <2> QED BY <1>4, <2>1, <2>2 DEF EndsQuietly, EventsArrive, Ripe
<1>5. CASE ~Ripe(r) /\ main'[r] \in {"added", "awaiting"}
  <2>1. main[r] \in {"adding", "added", "awaiting"}
    BY <1>2, <1>5 DEF MainMove, Begins
  <2>2. main[r] = "adding" => job[r].at = "none" /\ \A w \in Workers : ~Working(w, r)
    BY DEF Unqueued, JobsOwned
  <2>3. job'[r].at # "completed"
    BY <1>2, <1>5, <2>1, <2>2 DEF JobMove, Ripe
  <2>4. PICK w \in Workers : work'[w][r].pc = "saved"
    BY <1>5, <2>3 DEF Ripe
  <2>5. work[w][r].pc # "saved"
    BY <1>5, <2>1, <2>2 DEF Ripe, Working
  <2>6. EngineSaves(w, r)
    BY <1>2, <2>4, <2>5 DEF WorkMove
  <2>7. row[Id(r)] # MainStore!NotInserted
    BY <2>1 DEF Created
  <2>8. work[w][r].outcome # "aborted"
    BY <1>1 DEF ZInv, StoppedOnly
  <2> QED BY <1>0, <2>6, <2>7, <2>8, EngineRow, EndsRow
<1> QED BY <1>3, <1>4, <1>5 DEF Ripe

LEMMA KeptNext ==
    ASSUME LocksHold, RInv, [Next]_vars
    PROVE  Kept'
<1> USE DEF RInv, Turns, Ownership
<1> SUFFICES ASSUME KeepError, NEW r \in Runs, main'[r] = "deleting", stop'[Id(r)].pc = "none",
                    row'[Id(r)].status = "error"
             PROVE  FALSE
  BY DEF Kept, Id
<1>0. Id(r) \in Executions /\ row[Id(r)] \in AllRows
  BY RunIds DEF Typed, TypeOK, AllRows
<1>1. stop[Id(r)].pc = "none"
  BY <1>0, StopKept
<1>2. CASE main[r] # "deleting"
  <2>1. UNCHANGED row /\ MainStore!ShouldNotSave(StatusRead(row[Id(r)].status))
    <3>1. MainMove(r)
      BY Moves
    <3> QED BY <1>2, <3>1 DEF MainMove, Begins
  <2> QED BY <2>1 DEF MainStore!ShouldNotSave, StatusRead
<1>3. CASE main[r] = "deleting"
  <2>0. row[Id(r)].status # "error" /\ ~Over(r)
    BY <1>1, <1>3 DEF Kept, Over
  <2>1. ~Mild(row[Id(r)], row'[Id(r)])
    BY <2>0 DEF Mild
  <2>2. ~Create(Id(r))
    BY <1>0, CreatedRow
  <2>3. ASSUME NEW s \in Runs, Id(s) = Id(r), Resume(s)
        PROVE  FALSE
    BY <2>3, ResumedRow
  <2>4. ASSUME NEW w \in Workers, NEW s \in Runs, Id(s) = Id(r), MarkRunning(w, s)
        PROVE  FALSE
    BY <1>0, <2>0, <2>4, MarkedRow, WakesUp
  <2>5. ASSUME NEW w \in Workers, NEW s \in Runs, Id(s) = Id(r), EngineSaves(w, s)
        PROVE  FALSE
    <3>1. Busy(w, s)
      BY <2>5 DEF EngineSaves, Busy
    <3> QED BY <1>3, <2>0, <2>5, <3>1, Alone
  <2>6. ASSUME NEW p \in errors, Id(p.run) = Id(r), SaveError(p)
        PROVE  FALSE
    <3>1. p.run \in Runs /\ p.from \in {"enqueue", "executor", "cancel"}
      BY DEF Typed, TypeOK, Errors
    <3>2. p.from # "cancel"
      BY <1>1, <2>6 DEF ZInv, StoppedOnly
    <3>3. main[p.run] \in {"rejecting", "failing"}
      BY <3>1, <3>2 DEF ErrorsOnce
    <3> QED BY <1>3, <2>0, <2>6, <3>1, <3>3, OneOver DEF Over
  <2>7. RowMove(Id(r))
    BY <1>0, RowMoves
  <2> QED BY <2>1, <2>2, <2>3, <2>4, <2>5, <2>6, <2>7 DEF RowMove
<1> QED BY <1>2, <1>3

LEMMA RNext == LocksHold /\ EventsArrive /\ RunsInTurn /\ RInv /\ [Next]_vars => RInv'
<1> SUFFICES ASSUME LocksHold, EventsArrive, RunsInTurn, RInv, [Next]_vars
             PROVE  RInv'
  OBVIOUS
<1>1. ZInv' /\ Turns'
  BY ZNext, TurnNext DEF RInv
<1>2. Created' /\ Removed' /\ Results' /\ Kept'
  BY CreatedNext, ResultsNext, KeptNext
<1> QED BY <1>1, <1>2 DEF RInv

LEMMA RInit == Init => RInv
<1> SUFFICES ASSUME Init
             PROVE  RInv
  OBVIOUS
<1>1. ZInv /\ Turns
  BY ZInit, TurnInit
<1>2. Created /\ Removed /\ Results /\ Kept
  BY DEF Init, Created, Removed, Results, Ripe, Kept, NoJob
<1> QED BY <1>1, <1>2 DEF RInv

\* What the main reads when a job has ended is a result, for any number of
\* executions, workers, crashes and stalls, when locks hold, the main learns of
\* failed jobs and runs take turns.
THEOREM ResultsAreIn ==
    ASSUME LocksHold, EventsArrive, RunsInTurn
    PROVE  Spec => []ResultReady
<1>1. RInv => ResultReady
  BY DEF RInv, Results, Ripe, ResultReady, Settled, Ended
<1> QED BY <1>1, RInit, RNext, PTL DEF Spec

-------------------------------------------------------------------------------
(***************************************************************************)
(* Failures.                                                               *)
(***************************************************************************)
\* When failures are kept, no writer but the hook of the main deletes a row that
\* did not succeed.
LEMMA KeepsRow ==
    ASSUME KeepError, NEW r \in AllRows, MainStore!Exists(r), r.status # "success"
    PROVE  /\ \A status \in MainStore!Statuses :
                 /\ WorkerStore!Saved(r, status, Mode) # MainStore!Deleted
                 /\ MainStore!WithStatus(r, status) # MainStore!Deleted
           /\ MainStore!Resumed(r) # MainStore!Deleted
           /\ MainStore!StoppedDuringRun(r) # MainStore!Deleted
           /\ Amended(r) # MainStore!Deleted
<1>0. /\ r \in [status : MainStore!Statuses, waitTill : BOOLEAN,
                data : MainStore!DataStages, mode : {Mode}]
      /\ \A rw : rw.status \in MainStore!Statuses => rw # MainStore!Deleted
  BY RowKinds DEF MainStore!Deleted, MainStore!Absent, MainStore!Statuses
<1>1. \A status \in MainStore!Statuses : WorkerStore!Saved(r, status, Mode) # MainStore!Deleted
  BY <1>0, SavedRow
<1>2. \A status \in MainStore!Statuses : MainStore!WithStatus(r, status).status = status
  BY <1>0 DEF MainStore!WithStatus
<1>3. MainStore!Resumed(r).status = "running"
  BY WakesUp
<1>4. MainStore!StoppedDuringRun(r).status = "canceled"
  BY <1>0 DEF MainStore!StoppedDuringRun
<1>5. Amended(r) # MainStore!Deleted
  <2> DEFINE status == CASE r.waitTill -> "waiting"
                         [] r.status = "error" -> "error"
                         [] OTHER -> "crashed"
  <2>1. Amended(r) = MainStore!Saved(r, status, Mode)
    BY DEF Amended
  <2>2. status \in {"waiting", "error", "crashed"} /\ status \in MainStore!Statuses
    BY DEF MainStore!Statuses
  <2> HIDE DEF status
  <2>3. MainStore!Saved(r, status, Mode).status = status
    BY <2>2 DEF MainStore!Saved, MainStore!ShouldNotSave
  <2> QED BY <1>0, <2>1, <2>2, <2>3
<1>6. "running" \in MainStore!Statuses /\ "canceled" \in MainStore!Statuses
  BY DEF MainStore!Statuses
<1> QED BY <1>0, <1>1, <1>2, <1>3, <1>4, <1>5, <1>6

LEMMA Deletes ==
    ASSUME KeepError, Typed, [Next]_vars, NEW e \in Executions, row[e].status = "error",
           row'[e] = MainStore!Deleted
    PROVE  \E r \in Runs : Id(r) = e /\ main[r] = "deleting"
<1>0. /\ row[e] \in AllRows /\ MainStore!Exists(row[e]) /\ row[e].status # "success"
      /\ row[e] # MainStore!NotInserted /\ row[e] # MainStore!Deleted
      /\ {"error", "running", "crashed", "canceled"} \subseteq MainStore!Statuses
      /\ DOMAIN row = Executions
  <2>1. row[e] \in AllRows /\ DOMAIN row = Executions
    BY DEF Typed, TypeOK, AllRows
  <2>2. {"error", "running", "crashed", "canceled"} \subseteq MainStore!Statuses
    BY DEF MainStore!Statuses
  <2>3. row[e] # MainStore!NotInserted /\ row[e] # MainStore!Deleted
    BY DEF MainStore!NotInserted, MainStore!Deleted, MainStore!Absent
  <2> QED BY <2>1, <2>2, <2>3, RowKinds
<1> HIDE DEF MainStore!Deleted
<1>1. ASSUME UNCHANGED row
      PROVE  FALSE
  BY <1>0, <1>1
<1>2. ASSUME NEW x \in Executions, NEW new, row' = [row EXCEPT ![x] = new],
             x = e => new # MainStore!Deleted
      PROVE  FALSE
  BY <1>0, <1>2
<1>3. ASSUME NEW x \in Executions, Create(x) \/ StopRequested(x) \/ StopStep(x)
      PROVE  FALSE
  <2>1. CASE Create(x)
    BY <1>0, <1>2, <2>1 DEF Create
  <2>2. CASE StopStored(x)
    BY <1>0, <1>2, <2>2, KeepsRow DEF StopStored
  <2> QED BY <1>1, <1>3, <2>1, <2>2 DEF StopRequested, StopStep, StopEntry, FindJob,
             CheckFoundJob, StopFoundJob
<1>4. ASSUME NEW s \in Runs, Resume(s) \/ MainStep(s)
      PROVE  Id(s) = e /\ main[s] = "deleting"
  <2>0. Id(s) \in Executions
    BY RunIds
  <2>1. CASE Resume(s)
    BY <1>0, <1>2, <2>0, <2>1, KeepsRow DEF Resume
  <2>2. CASE DeleteResult(s)
    BY <1>2, <2>0, <2>2 DEF DeleteResult
  <2> QED BY <1>1, <1>4, <2>1, <2>2 DEF MainStep, AddJob, AddJobFails, Attach, JobSucceeds,
             JobFails, ReadResult, CheckJob, CancelJob
<1>5. ASSUME NEW p \in errors, ErrorStep(p)
      PROVE  FALSE
  <2>1. Id(p.run) \in Executions
    BY RunIds DEF Typed, TypeOK, Errors
  <2>2. CASE SaveError(p)
    BY <1>0, <1>2, <2>1, <2>2, KeepsRow DEF SaveError
  <2> QED BY <1>1, <1>5, <2>2 DEF ErrorStep, CheckError
<1>6. ASSUME NEW w \in Workers, NEW s \in Runs,
             PickUp(w, s) \/ WorkerStep(w, s) \/ DeliverAbort(w, s) \/ SaveAborted(w, s)
      PROVE  FALSE
  <2>0. Id(s) \in Executions
    BY RunIds
  <2>1. CASE MarkRunning(w, s)
    BY <1>0, <1>2, <2>0, <2>1, KeepsRow DEF MarkRunning
  <2>2. CASE EngineSaves(w, s)
    <3>1. Id(s) = e => FALSE
      BY <1>0, <1>1, <2>2, EngineRow, KeepsRow
    <3>2. CASE Id(s) # e
      BY <1>1, <1>2, <2>0, <2>2, <3>2 DEF EngineSaves
    <3> QED BY <3>1, <3>2
  <2>3. CASE SaveAborted(w, s)
    BY <1>0, <1>2, <2>0, <2>3, KeepsRow DEF SaveAborted
  <2> QED BY <1>1, <1>6, <2>1, <2>2, <2>3 DEF PickUp, WorkerStep, ReadExecution, StartEngine,
             EngineEnds, JobEnds, DeliverAbort
<1>7. ASSUME NEW w \in Workers, Crash(w) \/ BeginShutdown(w) \/ Exit(w) \/ Start(w)
      PROVE  FALSE
  <2>1. row'[e] = row[e] \/ row'[e] = Amended(row[e])
    BY <1>7 DEF Crash, BeginShutdown, Exit, Start, GoesDown
  <2> QED BY <1>0, <2>1, KeepsRow
<1>8. ASSUME RecoveryStep
      PROVE  FALSE
  <2>1. row'[e] = row[e] \/ row'[e] = MainStore!WithStatus(row[e], "crashed")
    BY <1>8 DEF RecoveryStep, ReadStored, FindDangling, MarkDangling
  <2> QED BY <1>0, <2>1, KeepsRow
<1>9. ASSUME NEW s \in Runs, Stall(s)
      PROVE  FALSE
  BY <1>1, <1>9 DEF Stall
<1>10. ASSUME MainCrash
       PROVE  FALSE
  BY <1>1, <1>10 DEF MainCrash
<1>11. ASSUME UNCHANGED vars
       PROVE  FALSE
  BY <1>1, <1>11 DEF vars
<1> QED
  BY <1>3, <1>4, <1>5, <1>6, <1>7, <1>8, <1>9, <1>10, <1>11 DEF Next

\* An execution that failed by itself is not deleted when failures are kept, for
\* any number of executions, workers, crashes and stalls, when locks hold, the
\* main learns of failed jobs and runs take turns.
THEOREM FailuresStay ==
    ASSUME LocksHold, EventsArrive, RunsInTurn
    PROVE  Spec => FailuresKept
<1>1. RInv /\ [Next]_vars =>
         [\A e \in Executions :
             KeepError /\ row[e].status = "error" /\ stop[e].pc = "none"
                 => row'[e] # MainStore!Deleted]_vars
  <2> SUFFICES ASSUME RInv, [Next]_vars, NEW e \in Executions, KeepError,
                      row[e].status = "error", stop[e].pc = "none",
                      row'[e] = MainStore!Deleted
               PROVE  FALSE
    OBVIOUS
  <2>1. PICK r \in Runs : Id(r) = e /\ main[r] = "deleting"
    BY Deletes DEF RInv, Turns, Ownership
  <2> QED BY <2>1 DEF RInv, Kept
<1> QED BY <1>1, RInit, RNext, PTL DEF Spec, FailuresKept
==============================================================================
