---------------------------- MODULE ExecutionStore ----------------------------
(***************************************************************************)
(* The rows of the tables execution_entity and execution_data, and what    *)
(* each writer does to one row: databases/repositories/                    *)
(* execution.repository.ts and the save hook of                            *)
(* workflow-execute-additional-data.ts.  Writers are UPDATE statements: on *)
(* a row that does not exist they do nothing, and they touch only the      *)
(* columns they name.                                                      *)
(*                                                                         *)
(* A row keeps of the entity its status, whether waitTill is set and its   *)
(* mode, and of the data how far the execution got:                        *)
(*   "missing"   the second insert has not happened                        *)
(*   "initial"   the payload the execution was created with                *)
(*   "paused"    a stack that stops at a wait node                         *)
(*   "failed"    resultData.error is set, or the run was cut short         *)
(*   "complete"  finished = true                                           *)
(***************************************************************************)
CONSTANTS
    KeepSuccess,   \* toSaveSettings(workflow.settings).success
    KeepError      \* toSaveSettings(workflow.settings).error

Statuses == {"new", "running", "waiting", "success", "error", "canceled", "crashed"}
FinalStatuses == {"success", "error", "canceled", "crashed"}
DataStages == {"missing", "initial", "paused", "failed", "complete"}

\* No row: not inserted yet, or deleted.
Absent(why) == [status |-> why, waitTill |-> FALSE, data |-> "missing", mode |-> "none"]
NotInserted == Absent("absent")
Deleted == Absent("deleted")

Exists(row) == row.status \in Statuses
Finished(row) == row.data = "complete"

\* Mutant of InsertedEntity: the execution is stored as `running` at once.
InsertedRunning(mode) ==
    [status |-> "running", waitTill |-> FALSE, data |-> "missing", mode |-> mode]

\* createNewExecution inserts the entity first and its data second, in two
\* statements.
InsertedEntity(mode) ==
    [status |-> "new", waitTill |-> FALSE, data |-> "missing", mode |-> mode]
WithInsertedData(row) ==
    IF Exists(row) THEN [row EXCEPT !.data = "initial"] ELSE row

\* updateStatus and markAsCrashed.
WithStatus(row, status) ==
    IF Exists(row) THEN [row EXCEPT !.status = status] ELSE row

\* Mutant of Resumed: the row of the paused execution is left as it was.
ResumedInMemory(row) == row

\* updateExistingExecution as ActiveExecutions.add calls it for a known id.
Resumed(row) ==
    IF Exists(row) THEN [row EXCEPT !.status = "running", !.waitTill = FALSE] ELSE row

\* Mutant of StoppedBeforeRun: the status is set on the object, not in the row.
NotStopped(row) == row

\* stopBeforeRun and cancelMany leave waitTill and the data alone.
StoppedBeforeRun(row) == WithStatus(row, "canceled")

\* stopDuringRun writes back the whole execution it read, with an error.
StoppedDuringRun(row) ==
    IF Exists(row)
    THEN [row EXCEPT !.status = "canceled", !.waitTill = FALSE, !.data = "failed"]
    ELSE row

\* The hook workflowExecuteAfter: what a run that ended with this status stores.
\* waitTill is written only when the run pauses; an undefined column is skipped.
DataAfter(status) ==
    CASE status = "success" -> "complete"
      [] status = "waiting" -> "paused"
      [] OTHER -> "failed"

ShouldNotSave(status) ==
    \/ status = "success" /\ ~KeepSuccess
    \/ status \in {"error", "canceled", "crashed"} /\ ~KeepError

Saved(row, status, mode) ==
    IF ~Exists(row) THEN row
    ELSE IF ShouldNotSave(status) THEN Deleted
    ELSE [status |-> status,
          waitTill |-> status = "waiting" \/ row.waitTill,
          data |-> DataAfter(status),
          mode |-> mode]

\* assertStoppable; a row without data cannot be loaded at all.
Stoppable(row) ==
    /\ row.status \in {"new", "waiting", "running"}
    /\ row.data # "missing"

Rows(modes) ==
    [status : Statuses, waitTill : BOOLEAN, data : DataStages, mode : modes]
        \cup {NotInserted, Deleted}
===============================================================================
