----------------------------- MODULE TaskStore -----------------------------
(***************************************************************************)
(* The task store (internal/tasks/store.go) under its HTTP handlers        *)
(* (internal/server/handlers_tasks.go).  Each handler runs in a goroutine  *)
(* of its own; the store writes a row and its lifecycle event in one       *)
(* transaction, so a handler that only writes is one atomic action.        *)
(* Update is two: it reads the row BEFORE it opens its transaction, merges *)
(* the request into what it read, and writes the merged columns back, so   *)
(* any other handler may run between BeginUpdate and CommitUpdate.         *)
(*                                                                         *)
(* The clock is in ticks.  Bounds: MaxTime (clock) and MaxEvents (history  *)
(* of a task), in the guards Tick and Room.                                *)
(***************************************************************************)
EXTENDS TaskModel, Sequences

CONSTANTS
    Tasks,          \* the ids newID may hand out
    Handlers,       \* goroutines that may be inside Store.Update
    Fields,         \* the data columns: progress, description, details
    Values,         \* what a data column may hold
    UpdateStatuses, \* the statuses callers put in an update request
    Threshold,      \* n * expected_heartbeat_s, in ticks
    MaxTime, MaxEvents

ASSUME ThresholdAssumption == Threshold \in Nat
ASSUME BoundsAssumption    == MaxTime \in Nat /\ MaxEvents \in Nat
ASSUME UpdateStatusesAssumption == UpdateStatuses \subseteq Statuses

VARIABLES
    tasks,    \* the tasks table: [Tasks -> row]
    events,   \* task_events, per task in insertion order
    updates,  \* what each handler inside Store.Update holds in its locals
    now       \* the clock

vars == <<tasks, events, updates, now>>

Data == [Fields -> Values]
Patches == UNION {[F -> Values] : F \in SUBSET Fields}
Requests == [status : UpdateStatuses \cup {Keep}, data : Patches]

Rows == [status : Statuses \cup {Absent}, control : ControlActions,
         error : BOOLEAN, completed : BOOLEAN,
         started : Nat, beat : Nat \cup {None}, data : Data]

Idle == [phase |-> "idle"]
InUpdate == [phase : {"merged"}, task : Tasks, req : Requests,
             merged : [status : Statuses, data : Data]]

Exists(t) == tasks[t].status # Absent
Room(t)   == Len(events[t]) < MaxEvents
Log(t, e) == events' = [events EXCEPT ![t] = Append(@, e)]

-----------------------------------------------------------------------------
Init ==
    /\ \E d \in Data : tasks = [t \in Tasks |-> [NewRow(0, d) EXCEPT !.status = Absent]]
    /\ events = [t \in Tasks |-> <<>>]
    /\ updates = [h \in Handlers |-> Idle]
    /\ now = 0

\* Store.Create: the row and its CREATED and STARTED events, in one transaction.
Create(t) ==
    /\ ~Exists(t)
    /\ Len(events[t]) + 1 < MaxEvents
    /\ \E d \in Data : tasks' = [tasks EXCEPT ![t] = NewRow(now, d)]
    /\ events' = [events EXCEPT ![t] = Append(Append(@, "CREATED"), "STARTED")]
    /\ UNCHANGED <<updates, now>>

\* The first half of Store.Update: Get, outside the transaction, and the merge.
\* An unknown id returns ErrNotFound here, before anything is written.
BeginUpdate(h, t) ==
    /\ updates[h] = Idle
    /\ Exists(t)
    /\ \E req \in Requests :
          updates' = [updates EXCEPT ![h] =
              [phase |-> "merged", task |-> t, req |-> req, merged |-> Merge(tasks[t], req)]]
    /\ UNCHANGED <<tasks, events, now>>

\* Mutants of CommitUpdate: the row is written and its event is not; the write
\* also counts as a heartbeat.
CommitUpdateUnlogged(h) ==
    /\ updates[h] # Idle
    /\ tasks' = [tasks EXCEPT ![updates[h].task] = WriteBack(@, updates[h].merged)]
    /\ updates' = [updates EXCEPT ![h] = Idle]
    /\ UNCHANGED <<events, now>>

CommitUpdateTouches(h) ==
    /\ updates[h] # Idle
    /\ Room(updates[h].task)
    /\ LET t == updates[h].task
       IN  /\ tasks' = [tasks EXCEPT ![t] = [WriteBack(@, updates[h].merged) EXCEPT !.beat = now]]
           /\ Log(t, "PROGRESS")
    /\ updates' = [updates EXCEPT ![h] = Idle]
    /\ UNCHANGED now

\* The second half: the merged columns and a PROGRESS event, in one transaction.
CommitUpdate(h) ==
    /\ updates[h] # Idle
    /\ Room(updates[h].task)
    /\ LET t == updates[h].task
       IN  /\ tasks' = [tasks EXCEPT ![t] = WriteBack(@, updates[h].merged)]
           /\ Log(t, "PROGRESS")
    /\ updates' = [updates EXCEPT ![h] = Idle]
    /\ UNCHANGED now

\* The caller went away, the transaction failed, or the process died: the
\* deferred Rollback leaves the tables as they were.
AbortUpdate(h) ==
    /\ updates[h] # Idle
    /\ updates' = [updates EXCEPT ![h] = Idle]
    /\ UNCHANGED <<tasks, events, now>>

\* Store.Heartbeat: one statement, no event, whatever the status.
Heartbeat(t) ==
    /\ Exists(t)
    /\ tasks' = [tasks EXCEPT ![t].beat = now]
    /\ UNCHANGED <<events, updates, now>>

\* Store.Finish, which does not look at the current status.
Finish(t, status, error) ==
    /\ Exists(t)
    /\ Room(t)
    /\ tasks' = [tasks EXCEPT ![t] = FinishRow(@, status, error)]
    /\ Log(t, FinishEvent(status))
    /\ UNCHANGED <<updates, now>>

\* The handlers that finish a task: complete, fail (with or without a
\* message), cancel and stop.
Complete(t) == Finish(t, "completed", FALSE)
Fail(t)     == \E error \in BOOLEAN : Finish(t, "failed", error)
Cancel(t)   == Finish(t, "cancelled", FALSE)
Stop(t)     == Finish(t, "stopped", FALSE)

\* Store.RequestControl for pause and resume, whatever the status.  On an
\* unknown id the event violates the foreign key and the transaction rolls back.
RequestControl(t, action) ==
    /\ Exists(t)
    /\ Room(t)
    /\ tasks' = [tasks EXCEPT ![t] = ControlRow(@, action)]
    /\ Log(t, IF action = "pause" THEN "CONTROL_pause" ELSE "CONTROL_resume")
    /\ UNCHANGED <<updates, now>>

Pause(t)  == RequestControl(t, "pause")
Resume(t) == RequestControl(t, "resume")

Tick ==
    /\ now < MaxTime
    /\ now' = now + 1
    /\ UNCHANGED <<tasks, events, updates>>

Next ==
    \/ \E t \in Tasks :
          \/ Create(t) \/ Heartbeat(t)
          \/ Complete(t) \/ Fail(t) \/ Cancel(t) \/ Stop(t)
          \/ Pause(t) \/ Resume(t)
          \/ \E h \in Handlers : BeginUpdate(h, t)
    \/ \E h \in Handlers : CommitUpdate(h) \/ AbortUpdate(h)
    \/ Tick

Spec == Init /\ [][Next]_vars

-----------------------------------------------------------------------------
\* Reading a task's history.  PROGRESS is the one event of a transaction that
\* leaves control_action, error and completed_at alone.
LastBut(e, noise, S) ==
    \E i \in DOMAIN e : /\ e[i] \in S
                        /\ \A j \in DOMAIN e : j > i => e[j] \in noise

\* The status a transaction other than Update's leaves behind.
StatusAfter(event) ==
    CASE event = "STARTED"        -> "running"
      [] event = "CONTROL_resume" -> "running"
      [] event = "CONTROL_pause"  -> "paused"
      [] event = "COMPLETED"      -> "completed"
      [] event = "FAILED"         -> "failed"
      [] event = "CANCELLED"      -> "cancelled"
      [] event = "STOPPED"        -> "stopped"

\* Every variable stays within its type.
TypeOK ==
    /\ tasks \in [Tasks -> Rows]
    /\ events \in [Tasks -> Seq(EventNames)]
    /\ updates \in [Handlers -> {Idle} \cup InUpdate]
    /\ now \in Nat

\* The control a poller can read is the one the last control or finishing
\* request left: no Update, however stale, revives or erases one (it is read
\* by handleGetControl).
ControlFollowsHistory ==
    \A t \in Tasks : Exists(t) =>
        /\ tasks[t].control = "pause"  <=> LastBut(events[t], {"PROGRESS"}, {"CONTROL_pause"})
        /\ tasks[t].control = "resume" <=> LastBut(events[t], {"PROGRESS"}, {"CONTROL_resume"})

\* When callers never put a terminal status in an update (the Go SDK sends no
\* status at all, model.go:26-29), a row that reads as finished was finished
\* by Finish and carries its completed_at - also when a stale Update writes
\* the terminal status it had read back over a later resume.
FinishedIsStamped ==
    UpdateStatuses \cap TerminalStatuses = {} =>
        \A t \in Tasks : tasks[t].status \in TerminalStatuses => tasks[t].completed

\* The outcome is the history's: completed_at is set exactly when the history
\* holds a finishing event, an error message is there only while FAILED is the
\* last of those, and a row that reads as finished is stamped.
OutcomeFollowsHistory ==
    /\ \A t \in Tasks :
          /\ tasks[t].completed <=> \E i \in DOMAIN events[t] : events[t][i] \in FinishEvents
          /\ tasks[t].error => LastBut(events[t], EventNames \ FinishEvents, {"FAILED"})
    /\ FinishedIsStamped

\* Unless an Update has written since, a row's status is the one its last
\* event announces: an auditor of task_events reads the status off it.
StatusFollowsHistory ==
    \A t \in Tasks : LET e == events[t] IN
        e # <<>> => \/ e[Len(e)] = "PROGRESS"
                    \/ tasks[t].status = StatusAfter(e[Len(e)])

\* No transaction changes a task without leaving its trace: a step that
\* changes a row's status, control or outcome appends to that task's history,
\* and no history is ever rewritten.
EveryChangeIsLogged ==
    [][\A t \in Tasks :
          /\ SubSeq(events'[t], 1, Len(events[t])) = events[t]
          /\ [tasks'[t] EXCEPT !.beat = None] # [tasks[t] EXCEPT !.beat = None]
                => Len(events'[t]) > Len(events[t])]_vars

\* store.go:210-211: "Empty status/description leave the existing value
\* unchanged; nil details leave details unchanged."  A commit of Update may
\* change only the columns its request carries.
UpdateTouchesOnlyItsFields ==
    [][\A h \in Handlers :
          LET u == updates[h] IN
          CommitUpdate(h) =>
              /\ u.req.status = Keep => tasks'[u.task].status = tasks[u.task].status
              /\ \A f \in Fields \ DOMAIN u.req.data :
                    tasks'[u.task].data[f] = tasks[u.task].data[f]]_vars

-----------------------------------------------------------------------------
\* What the health monitor relies on (TaskLifecycle): whether each task is
\* running, and how long ago its last sign of life was, up to Threshold + 1.
Capped(n) == IF n > Threshold THEN Threshold + 1 ELSE n

LifecycleAge(row, time) == IF row.status = Absent THEN 0 ELSE Capped(time - LastSign(row))

Lifecycle == INSTANCE TaskLifecycle WITH
    state <- [t \in Tasks |-> LifecycleState(tasks[t])],
    age   <- [t \in Tasks |-> LifecycleAge(tasks[t], now)]

\* The store implements the lifecycle: rows are never deleted, and only a
\* heartbeat makes a task's last sign of life younger - never an Update, a
\* resume or a finish.
ImplementsLifecycle == Lifecycle!Spec
=============================================================================
