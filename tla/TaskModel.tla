----------------------------- MODULE TaskModel -----------------------------
(***************************************************************************)
(* The task model of internal/tasks/model.go and the pure row operations   *)
(* of internal/tasks/store.go: what one statement does to one row of the   *)
(* tasks table.  The store that runs these statements, its transactions    *)
(* and its handlers are in TaskStore.                                      *)
(*                                                                         *)
(* Abstraction of a row: progress, description and details are members of  *)
(* Fields with values in Values; error and completed_at are "set or not";  *)
(* started_at and last_heartbeat_at are clock readings in Nat.             *)
(***************************************************************************)
EXTENDS Integers

Statuses == {"created", "queued", "running", "paused",
             "completed", "failed", "cancelled", "stopped"}

TerminalStatuses == {"completed", "failed", "cancelled", "stopped"}

Absent == "absent"      \* no row with this id
None   == -1            \* a NULL timestamp
Keep   == "keep"        \* a status pointer that is nil: leave the column alone

ControlActions == {"", "pause", "resume"}   \* what control_action can hold

\* The event Finish inserts for each terminal status.
FinishEvent(status) ==
    CASE status = "completed" -> "COMPLETED"
      [] status = "failed"    -> "FAILED"
      [] status = "cancelled" -> "CANCELLED"
      [] status = "stopped"   -> "STOPPED"

FinishEvents  == {"COMPLETED", "FAILED", "CANCELLED", "STOPPED"}
ControlEvents == {"CONTROL_pause", "CONTROL_resume"}
EventNames    == {"CREATED", "STARTED", "PROGRESS"} \cup FinishEvents \cup ControlEvents

\* The row Create inserts: running, started now, no heartbeat yet.
NewRow(now, data) ==
    [status |-> "running", control |-> "", error |-> FALSE, completed |-> FALSE,
     started |-> now, beat |-> None, data |-> data]

\* Lines 217-228: each field the request carries replaces the one just read.
Merge(row, req) ==
    [status |-> IF req.status = Keep THEN row.status ELSE req.status,
     data   |-> [f \in DOMAIN row.data |->
                    IF f \in DOMAIN req.data THEN req.data[f] ELSE row.data[f]]]

\* The UPDATE of Store.Update writes these columns and no other.
WriteBack(row, merged) == [row EXCEPT !.status = merged.status, !.data = merged.data]

\* Mutants of FinishRow: control_action not cleared; an empty message leaves the
\* old error.
FinishRowKeepsControl(row, status, error) ==
    [row EXCEPT !.status = status, !.error = error, !.completed = TRUE]

FinishRowKeepsError(row, status, error) ==
    [row EXCEPT !.status = status, !.error = @ \/ error, !.completed = TRUE, !.control = ""]

\* The UPDATE of Store.Finish.
FinishRow(row, status, error) ==
    [row EXCEPT !.status = status, !.error = error, !.completed = TRUE, !.control = ""]

\* Mutants of ControlRow: the action is stored as the status; resume only
\* records the request.
ControlRowStoresAction(row, action) == [row EXCEPT !.control = action, !.status = action]

ControlRowPauseOnly(row, action) ==
    [row EXCEPT !.control = action,
                !.status = IF action = "pause" THEN "paused" ELSE @]

\* The UPDATE of Store.RequestControl: pause and resume move the status too.
ControlRow(row, action) ==
    [row EXCEPT !.control = action,
                !.status = IF action = "pause" THEN "paused" ELSE "running"]

\* The instant Stuck measures from.
LastSign(row) == IF row.beat = None THEN row.started ELSE row.beat

\* What of a status a task's age matters to: Task.Stuck asks for "running".
LifecycleState(row) == CASE row.status = Absent    -> "absent"
                         [] row.status = "running" -> "running"
                         [] OTHER                  -> "idle"

\* handleGetControl: a finished task with nothing pending reports its status.
ReportedAction(row) ==
    IF row.status \in TerminalStatuses /\ row.control = "" THEN row.status ELSE row.control
=============================================================================
