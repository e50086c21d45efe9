-------------------------- MODULE TaskStoreProofs --------------------------
(***************************************************************************)
(* Proofs about TaskStore, for every set of tasks and handlers, every      *)
(* clock and history bound.                                                *)
(***************************************************************************)
EXTENDS TaskStore, SequenceTheorems, TLAPS

-----------------------------------------------------------------------------
(* Reading a history after one more event. *)

\* The new event decides, unless it is noise.
LEMMA LastButHit ==
    ASSUME NEW e \in Seq(EventNames), NEW x \in EventNames, NEW noise, NEW S, x \in S
    PROVE  LastBut(Append(e, x), noise, S)
  <1> DEFINE a == Append(e, x)
  <1>1. DOMAIN a = 1..(Len(e) + 1) /\ a[Len(e) + 1] = x
    OBVIOUS
  <1>2. Len(e) + 1 \in DOMAIN a /\ \A j \in DOMAIN a : ~(j > Len(e) + 1)
    BY <1>1
  <1> QED BY <1>1, <1>2 DEF LastBut

\* After an event that is neither sought nor noise, it is the last.
LEMMA LastButMiss ==
    ASSUME NEW e \in Seq(EventNames), NEW x \in EventNames, NEW noise, NEW S,
           x \notin S, x \notin noise
    PROVE  ~LastBut(Append(e, x), noise, S)
  <1> DEFINE a == Append(e, x)
  <1>1. DOMAIN a = 1..(Len(e) + 1) /\ a[Len(e) + 1] = x
    OBVIOUS
  <1>2. \A i \in DOMAIN a : a[i] \in S => i < Len(e) + 1
    BY <1>1
  <1> QED BY <1>1, <1>2 DEF LastBut

\* One more event of noise changes nothing about the last.
LEMMA LastButNoise ==
    ASSUME NEW e \in Seq(EventNames), NEW x \in EventNames, NEW noise, NEW S,
           x \notin S, x \in noise
    PROVE  LastBut(Append(e, x), noise, S) <=> LastBut(e, noise, S)
  <1> DEFINE a == Append(e, x)
  <1>1. /\ DOMAIN a = 1..(Len(e) + 1)
        /\ DOMAIN e = 1..Len(e)
        /\ Len(e) \in Nat
        /\ a[Len(e) + 1] = x
        /\ \A i \in 1..Len(e) : a[i] = e[i]
    OBVIOUS
  <1>2. ASSUME NEW i \in DOMAIN e, e[i] \in S, \A j \in DOMAIN e : j > i => e[j] \in noise
        PROVE  LastBut(a, noise, S)
    <2>1. i \in DOMAIN a /\ a[i] \in S
      BY <1>1, <1>2
    <2>2. \A j \in DOMAIN a : j > i => a[j] \in noise
      BY <1>1, <1>2
    <2> QED BY <2>1, <2>2 DEF LastBut
  <1>3. ASSUME NEW i \in DOMAIN a, a[i] \in S, \A j \in DOMAIN a : j > i => a[j] \in noise
        PROVE  LastBut(e, noise, S)
    <2>1. i \in DOMAIN e /\ e[i] \in S
      BY <1>1, <1>3
    <2>2. \A j \in DOMAIN e : j > i => e[j] \in noise
      BY <1>1, <1>3
    <2> QED BY <2>1, <2>2 DEF LastBut
  <1> HIDE DEF a
  <1>4. LastBut(e, noise, S) => LastBut(a, noise, S)
    BY <1>2 DEF LastBut
  <1>5. LastBut(a, noise, S) => LastBut(e, noise, S)
    BY <1>3 DEF LastBut
  <1> QED BY <1>4, <1>5 DEF a

-----------------------------------------------------------------------------
(* Typing. *)

\* What the merge of lines 217-228 returns can be written back to the row.
LEMMA MergeType ==
    ASSUME NEW row \in Rows, row.status # Absent, NEW req \in Requests
    PROVE  Merge(row, req) \in [status : Statuses, data : Data]
  <1>1. PICK F \in SUBSET Fields : req.data \in [F -> Values]
    BY DEF Requests, Patches
  <1>2. row.data \in [Fields -> Values] /\ row.status \in Statuses
    BY DEF Rows, Data
  <1>3. Merge(row, req).data \in Data
    BY <1>1, <1>2 DEF Merge, Data
  <1>4. Merge(row, req).status \in Statuses
    BY <1>2, UpdateStatusesAssumption DEF Merge, Requests
  <1> QED BY <1>3, <1>4 DEF Merge

\* Each terminal status has its event.
LEMMA FinishEventType ==
    ASSUME NEW status \in TerminalStatuses
    PROVE  FinishEvent(status) \in FinishEvents
  BY DEF FinishEvent, FinishEvents, TerminalStatuses

\* Logging keeps histories well typed.
LEMMA LogType ==
    ASSUME TypeOK, NEW t \in Tasks, NEW x \in EventNames, Log(t, x)
    PROVE  events' \in [Tasks -> Seq(EventNames)]
  BY DEF TypeOK, Log

\* The empty tables are well typed.
LEMMA TypeInit == Init => TypeOK
  <1> SUFFICES ASSUME Init PROVE TypeOK
    OBVIOUS
  <1>1. PICK d \in Data : tasks = [t \in Tasks |-> [NewRow(0, d) EXCEPT !.status = Absent]]
    BY DEF Init
  <1>2. [NewRow(0, d) EXCEPT !.status = Absent] \in Rows
    BY DEF Rows, NewRow, ControlActions
  <1>3. events \in [Tasks -> Seq(EventNames)]
    BY DEF Init
  <1> QED BY <1>1, <1>2, <1>3 DEF Init, TypeOK

\* Every step keeps the tables and the pending updates well typed.
LEMMA TypeStep == TypeOK /\ [Next]_vars => TypeOK'
  <1> SUFFICES ASSUME TypeOK, [Next]_vars PROVE TypeOK'
    OBVIOUS
  <1> USE DEF TypeOK
  <1>1. ASSUME NEW t \in Tasks, Create(t) PROVE TypeOK'
    <2>1. PICK d \in Data : tasks' = [tasks EXCEPT ![t] = NewRow(now, d)]
      BY <1>1 DEF Create
    <2>2. NewRow(now, d) \in Rows
      BY DEF Rows, NewRow, Statuses, ControlActions
    <2>3. events' \in [Tasks -> Seq(EventNames)]
      BY <1>1 DEF Create, EventNames
    <2> QED BY <1>1, <2>1, <2>2, <2>3 DEF Create
  <1>2. ASSUME NEW t \in Tasks, Heartbeat(t) PROVE TypeOK'
    <2>1. [tasks[t] EXCEPT !.beat = now] \in Rows
      BY DEF Rows
    <2> QED BY <1>2, <2>1 DEF Heartbeat
  <1>3. ASSUME NEW t \in Tasks, NEW status \in TerminalStatuses, NEW error \in BOOLEAN,
               Finish(t, status, error)
        PROVE TypeOK'
    <2>1. FinishRow(tasks[t], status, error) \in Rows
      BY DEF Rows, FinishRow, Statuses, ControlActions, TerminalStatuses
    <2>2. FinishEvent(status) \in EventNames
      BY FinishEventType DEF EventNames
    <2> QED BY <1>3, <2>1, <2>2, LogType DEF Finish
  <1>4. ASSUME NEW t \in Tasks, NEW action \in {"pause", "resume"}, RequestControl(t, action)
        PROVE TypeOK'
    <2>1. ControlRow(tasks[t], action) \in Rows
      BY DEF Rows, ControlRow, Statuses, ControlActions
    <2> QED BY <1>4, <2>1, LogType DEF RequestControl, EventNames, ControlEvents
  <1>5. ASSUME NEW t \in Tasks, NEW h \in Handlers, BeginUpdate(h, t) PROVE TypeOK'
    <2>1. PICK req \in Requests : updates' = [updates EXCEPT ![h] =
              [phase |-> "merged", task |-> t, req |-> req, merged |-> Merge(tasks[t], req)]]
      BY <1>5 DEF BeginUpdate
    <2>2. Merge(tasks[t], req) \in [status : Statuses, data : Data]
      BY <1>5, MergeType DEF BeginUpdate, Exists
    <2> QED BY <1>5, <2>1, <2>2 DEF BeginUpdate, InUpdate
  <1>6. ASSUME NEW h \in Handlers, CommitUpdate(h) PROVE TypeOK'
    <2>1. updates[h] \in InUpdate
      BY <1>6 DEF CommitUpdate
    <2>2. updates[h].task \in Tasks /\ updates[h].merged \in [status : Statuses, data : Data]
      BY <2>1 DEF InUpdate
    <2>3. WriteBack(tasks[updates[h].task], updates[h].merged) \in Rows
      BY <2>2 DEF WriteBack, Rows
    <2> QED BY <1>6, <2>2, <2>3, LogType DEF CommitUpdate, EventNames
  <1>7. ASSUME NEW h \in Handlers, AbortUpdate(h) PROVE TypeOK'
    BY <1>7 DEF AbortUpdate
  <1>8. CASE Tick
    BY <1>8 DEF Tick
  <1>9. CASE UNCHANGED vars
    BY <1>9 DEF vars
  <1> QED
    BY <1>1, <1>2, <1>3, <1>4, <1>5, <1>6, <1>7, <1>8, <1>9
       DEF Next, Complete, Fail, Cancel, Stop, Pause, Resume, TerminalStatuses

\* Every variable keeps its type: what is merged from a stale read is still a
\* row the UPDATE can write.
THEOREM Typing == Spec => []TypeOK
  BY TypeInit, TypeStep, PTL DEF Spec

-----------------------------------------------------------------------------
(* The row and its history. *)

\* What ties one row to its own history.  It is inductive per task: every
\* transaction writes one row and appends to that row's history only.
RowInv(row, e) ==
    /\ row.status = Absent => /\ e = <<>>
                              /\ row.control = "" /\ ~row.error /\ ~row.completed
    /\ row.status # Absent =>
          /\ row.control = "pause"  <=> LastBut(e, {"PROGRESS"}, {"CONTROL_pause"})
          /\ row.control = "resume" <=> LastBut(e, {"PROGRESS"}, {"CONTROL_resume"})
    /\ row.completed <=> \E i \in DOMAIN e : e[i] \in FinishEvents
    /\ row.error => LastBut(e, EventNames \ FinishEvents, {"FAILED"})
    /\ e # <<>> => \/ e[Len(e)] = "PROGRESS"
                   \/ row.status = StatusAfter(e[Len(e)])

HistoryInv == \A t \in Tasks : RowInv(tasks[t], events[t])

\* What is true of each row and its history gives what the history tells.
LEMMA HistoryInvGives ==
    HistoryInv => ControlFollowsHistory /\ StatusFollowsHistory
  BY DEF HistoryInv, RowInv, ControlFollowsHistory, StatusFollowsHistory, Exists

\* One more event is in a history exactly when it was, or is the new one.
LEMMA FinishedAfter ==
    ASSUME NEW e \in Seq(EventNames), NEW x \in EventNames
    PROVE  /\ (\E i \in DOMAIN Append(e, x) : Append(e, x)[i] \in FinishEvents)
                <=> (x \in FinishEvents \/ \E i \in DOMAIN e : e[i] \in FinishEvents)
           /\ Append(e, x) # <<>>
           /\ Append(e, x)[Len(Append(e, x))] = x
  <1> DEFINE a == Append(e, x)
  <1>1. /\ DOMAIN a = 1..(Len(e) + 1) /\ Len(a) = Len(e) + 1
        /\ DOMAIN e = 1..Len(e) /\ Len(e) \in Nat
        /\ a[Len(e) + 1] = x
        /\ \A i \in 1..Len(e) : a[i] = e[i]
    OBVIOUS
  <1> HIDE DEF a
  <1>2. ASSUME x \in FinishEvents PROVE \E i \in DOMAIN a : a[i] \in FinishEvents
    <2>1. Len(e) + 1 \in DOMAIN a
      BY <1>1
    <2> QED BY <1>1, <1>2, <2>1
  <1>3. ASSUME NEW i \in DOMAIN e, e[i] \in FinishEvents
        PROVE  \E j \in DOMAIN a : a[j] \in FinishEvents
    <2>1. i \in DOMAIN a /\ a[i] = e[i]
      BY <1>1
    <2> QED BY <1>3, <2>1
  <1>4. ASSUME NEW i \in DOMAIN a, a[i] \in FinishEvents, x \notin FinishEvents
        PROVE  \E j \in DOMAIN e : e[j] \in FinishEvents
    <2>1. i # Len(e) + 1
      BY <1>1, <1>4
    <2>2. i \in DOMAIN e /\ a[i] = e[i]
      BY <1>1, <2>1
    <2> QED BY <1>4, <2>2
  <1>5. a # <<>>
    BY <1>1
  <1>6. a[Len(a)] = x
    BY <1>1
  <1> QED BY <1>2, <1>3, <1>4, <1>5, <1>6 DEF a

\* A row just created is what its two events say.
LEMMA RowInvNew ==
    ASSUME NEW row \in Rows, row.status = Absent, NEW e \in Seq(EventNames), RowInv(row, e),
           NEW time \in Nat, NEW d \in Data
    PROVE  RowInv(NewRow(time, d), Append(Append(e, "CREATED"), "STARTED"))
  <1> DEFINE b == Append(e, "CREATED")
             a == Append(b, "STARTED")
             new == NewRow(time, d)
  <1>1. e = <<>> /\ b \in Seq(EventNames) /\ "STARTED" \in EventNames /\ "CREATED" \in EventNames
    <2>1. e = <<>>
      BY Zenon DEF RowInv
    <2> QED BY <2>1 DEF EventNames
  <1>2. /\ new.status = "running" /\ new.control = "" /\ new.error = FALSE
        /\ new.completed = FALSE
    BY DEF NewRow
  <1>3. ~(\E i \in DOMAIN a : a[i] \in FinishEvents)
    <2>1. ~(\E i \in DOMAIN e : e[i] \in FinishEvents)
      BY <1>1
    <2>2. ~(\E i \in DOMAIN b : b[i] \in FinishEvents)
      BY <2>1, <1>1, FinishedAfter, "CREATED" \notin FinishEvents DEF FinishEvents
    <2> QED BY <2>2, <1>1, FinishedAfter, "STARTED" \notin FinishEvents DEF FinishEvents
  <1>4. a # <<>> /\ a[Len(a)] = "STARTED"
    BY <1>1, FinishedAfter
  <1>5. /\ ~LastBut(a, {"PROGRESS"}, {"CONTROL_pause"})
        /\ ~LastBut(a, {"PROGRESS"}, {"CONTROL_resume"})
    BY <1>1, LastButMiss
  <1>6. StatusAfter("STARTED") = "running"
    BY DEF StatusAfter
  <1> HIDE DEF a, b, new
  <1>7. RowInv(new, a)
    BY <1>2, <1>3, <1>4, <1>5, <1>6 DEF RowInv, Absent
  <1> QED BY <1>7 DEF a, b, new

\* A finished row is what its history and one finishing event say.
LEMMA RowInvFinish ==
    ASSUME NEW row \in Rows, NEW e \in Seq(EventNames), RowInv(row, e),
           NEW status \in TerminalStatuses, NEW error \in BOOLEAN,
           error => status = "failed"
    PROVE  RowInv(FinishRow(row, status, error), Append(e, FinishEvent(status)))
  <1> DEFINE x == FinishEvent(status)
             a == Append(e, x)
             new == FinishRow(row, status, error)
  <1>1. /\ x \in FinishEvents /\ x \in EventNames /\ StatusAfter(x) = status
        /\ x # "PROGRESS" /\ x # "CONTROL_pause" /\ x # "CONTROL_resume"
        /\ error => x = "FAILED"
    BY DEF FinishEvent, FinishEvents, EventNames, StatusAfter, TerminalStatuses
  <1>2. /\ new.status = status /\ new.control = "" /\ new.error = error
        /\ new.completed = TRUE /\ status # Absent
    BY DEF FinishRow, Rows, TerminalStatuses, Absent
  <1> HIDE DEF x, new
  <1>3. /\ \E i \in DOMAIN a : a[i] \in FinishEvents
        /\ a # <<>> /\ a[Len(a)] = x
    BY <1>1, FinishedAfter
  <1>4. /\ ~LastBut(a, {"PROGRESS"}, {"CONTROL_pause"})
        /\ ~LastBut(a, {"PROGRESS"}, {"CONTROL_resume"})
    BY <1>1, LastButMiss
  <1>5. error => LastBut(a, EventNames \ FinishEvents, {"FAILED"})
    BY <1>1, LastButHit
  <1> HIDE DEF a
  <1>6. RowInv(new, a)
    BY <1>1, <1>2, <1>3, <1>4, <1>5 DEF RowInv
  <1> QED BY <1>6 DEF a, x, new

\* A paused or resumed row is what its history and the control event say.
LEMMA RowInvControl ==
    ASSUME NEW row \in Rows, row.status # Absent, NEW e \in Seq(EventNames), RowInv(row, e),
           NEW action \in {"pause", "resume"}
    PROVE  RowInv(ControlRow(row, action),
                  Append(e, IF action = "pause" THEN "CONTROL_pause" ELSE "CONTROL_resume"))
  <1> DEFINE x == IF action = "pause" THEN "CONTROL_pause" ELSE "CONTROL_resume"
             a == Append(e, x)
             new == ControlRow(row, action)
  <1>1. /\ x \in EventNames /\ x \notin FinishEvents /\ x # "PROGRESS"
        /\ x \notin {"FAILED"} /\ x \in EventNames \ FinishEvents
        /\ x = "CONTROL_pause" <=> action = "pause"
        /\ x = "CONTROL_resume" <=> action = "resume"
    BY DEF FinishEvents, EventNames, ControlEvents
  <1>2. /\ new.status = IF action = "pause" THEN "paused" ELSE "running"
        /\ new.control = action /\ new.error = row.error
        /\ new.completed = row.completed
    BY DEF ControlRow, Rows
  <1>3. StatusAfter(x) = new.status /\ new.status # Absent
    BY <1>2 DEF StatusAfter, Absent
  <1> HIDE DEF x, new
  <1>4. /\ (\E i \in DOMAIN a : a[i] \in FinishEvents)
              <=> \E i \in DOMAIN e : e[i] \in FinishEvents
        /\ a # <<>> /\ a[Len(a)] = x
    BY <1>1, FinishedAfter
  <1>5. LastBut(a, {"PROGRESS"}, {"CONTROL_pause"}) <=> action = "pause"
    BY <1>1, LastButHit, LastButMiss
  <1>6. LastBut(a, {"PROGRESS"}, {"CONTROL_resume"}) <=> action = "resume"
    BY <1>1, LastButHit, LastButMiss
  <1>7. LastBut(a, EventNames \ FinishEvents, {"FAILED"})
            <=> LastBut(e, EventNames \ FinishEvents, {"FAILED"})
    BY <1>1, LastButNoise
  <1> HIDE DEF a
  <1>8. RowInv(new, a)
    BY <1>2, <1>3, <1>4, <1>5, <1>6, <1>7 DEF RowInv
  <1> QED BY <1>8 DEF a, x, new

\* Writing back a merge is noise: the row's control, error and stamp stay.
LEMMA RowInvProgress ==
    ASSUME NEW row \in Rows, row.status # Absent, NEW e \in Seq(EventNames), RowInv(row, e),
           NEW merged \in [status : Statuses, data : Data]
    PROVE  RowInv(WriteBack(row, merged), Append(e, "PROGRESS"))
  <1> DEFINE a == Append(e, "PROGRESS")
             new == WriteBack(row, merged)
  <1>1. /\ "PROGRESS" \in EventNames /\ "PROGRESS" \notin FinishEvents
        /\ "PROGRESS" \in EventNames \ FinishEvents /\ "PROGRESS" \notin {"FAILED"}
    BY DEF FinishEvents, EventNames
  <1>2. /\ new.status = merged.status /\ new.control = row.control
        /\ new.error = row.error /\ new.completed = row.completed
        /\ merged.status # Absent
    BY DEF WriteBack, Rows, Statuses, Absent
  <1> HIDE DEF new
  <1>3. /\ (\E i \in DOMAIN a : a[i] \in FinishEvents)
              <=> \E i \in DOMAIN e : e[i] \in FinishEvents
        /\ a # <<>> /\ a[Len(a)] = "PROGRESS"
    BY <1>1, FinishedAfter
  <1>4. /\ LastBut(a, {"PROGRESS"}, {"CONTROL_pause"})
              <=> LastBut(e, {"PROGRESS"}, {"CONTROL_pause"})
        /\ LastBut(a, {"PROGRESS"}, {"CONTROL_resume"})
              <=> LastBut(e, {"PROGRESS"}, {"CONTROL_resume"})
        /\ LastBut(a, EventNames \ FinishEvents, {"FAILED"})
              <=> LastBut(e, EventNames \ FinishEvents, {"FAILED"})
    BY <1>1, LastButNoise
  <1> HIDE DEF a
  <1>5. RowInv(new, a)
    BY <1>2, <1>3, <1>4 DEF RowInv
  <1> QED BY <1>5 DEF a, new

\* A row that does not exist has no history.
LEMMA HistoryInit == Init => HistoryInv
  <1> SUFFICES ASSUME Init, NEW t \in Tasks PROVE RowInv(tasks[t], events[t])
    BY DEF HistoryInv
  <1>1. PICK d \in Data : tasks = [u \in Tasks |-> [NewRow(0, d) EXCEPT !.status = Absent]]
    BY DEF Init
  <1>2. /\ tasks[t].status = Absent /\ tasks[t].control = ""
        /\ tasks[t].error = FALSE /\ tasks[t].completed = FALSE
    BY <1>1 DEF NewRow
  <1>3. events[t] = <<>> /\ DOMAIN events[t] = {}
    BY DEF Init
  <1> QED BY <1>2, <1>3 DEF RowInv

\* One row written, one history appended to, the others left alone.
LEMMA HistoryUpdate ==
    ASSUME TypeOK, HistoryInv, NEW t \in Tasks, NEW row, NEW e, RowInv(row, e),
           tasks' = [tasks EXCEPT ![t] = row], events' = [events EXCEPT ![t] = e]
    PROVE  HistoryInv'
  <1> SUFFICES ASSUME NEW u \in Tasks PROVE RowInv(tasks'[u], events'[u])
    BY DEF HistoryInv
  <1>1. tasks'[t] = row /\ events'[t] = e
    BY DEF TypeOK
  <1>2. u # t => tasks'[u] = tasks[u] /\ events'[u] = events[u]
    BY DEF TypeOK
  <1> QED BY <1>1, <1>2 DEF HistoryInv

\* A handler inside Store.Update has found the row it is about to write.
UpdatesInv == \A h \in Handlers : updates[h] # Idle => Exists(updates[h].task)

\* Every step keeps each row what its history says.
LEMMA HistoryStep == TypeOK /\ HistoryInv /\ UpdatesInv /\ [Next]_vars => HistoryInv'
  <1> SUFFICES ASSUME TypeOK, HistoryInv, UpdatesInv, [Next]_vars PROVE HistoryInv'
    OBVIOUS
  <1>0. \A t \in Tasks : tasks[t] \in Rows /\ events[t] \in Seq(EventNames)
                            /\ RowInv(tasks[t], events[t])
    BY DEF TypeOK, HistoryInv
  <1>1. ASSUME NEW t \in Tasks, Create(t) PROVE HistoryInv'
    <2>1. PICK d \in Data : tasks' = [tasks EXCEPT ![t] = NewRow(now, d)]
      BY <1>1 DEF Create
    <2>2. RowInv(NewRow(now, d), Append(Append(events[t], "CREATED"), "STARTED"))
      BY <1>0, <1>1, RowInvNew DEF Create, Exists, TypeOK
    <2>3. events' = [events EXCEPT ![t] = Append(Append(events[t], "CREATED"), "STARTED")]
      BY <1>1 DEF Create
    <2> QED BY <2>1, <2>2, <2>3, HistoryUpdate
  <1>2. ASSUME NEW t \in Tasks, Heartbeat(t) PROVE HistoryInv'
    <2> DEFINE row == [tasks[t] EXCEPT !.beat = now]
    <2>1. /\ row.status = tasks[t].status /\ row.control = tasks[t].control
          /\ row.error = tasks[t].error /\ row.completed = tasks[t].completed
      BY <1>0 DEF Rows
    <2>2. tasks' = [tasks EXCEPT ![t] = row] /\ events' = [events EXCEPT ![t] = events[t]]
      BY <1>2 DEF Heartbeat, TypeOK
    <2> HIDE DEF row
    <2>3. RowInv(row, events[t])
      BY <1>0, <2>1 DEF RowInv
    <2> QED BY <2>2, <2>3, HistoryUpdate
  <1>3. ASSUME NEW t \in Tasks, NEW status \in TerminalStatuses, NEW error \in BOOLEAN,
               error => status = "failed", Finish(t, status, error)
        PROVE HistoryInv'
    <2>1. RowInv(FinishRow(tasks[t], status, error), Append(events[t], FinishEvent(status)))
      BY <1>0, <1>3, RowInvFinish
    <2>2. /\ tasks' = [tasks EXCEPT ![t] = FinishRow(tasks[t], status, error)]
          /\ events' = [events EXCEPT ![t] = Append(events[t], FinishEvent(status))]
      BY <1>3 DEF Finish, Log
    <2> QED BY <2>1, <2>2, HistoryUpdate
  <1>4. ASSUME NEW t \in Tasks, NEW action \in {"pause", "resume"}, RequestControl(t, action)
        PROVE HistoryInv'
    <2> DEFINE x == IF action = "pause" THEN "CONTROL_pause" ELSE "CONTROL_resume"
    <2>1. RowInv(ControlRow(tasks[t], action), Append(events[t], x))
      BY <1>0, <1>4, RowInvControl DEF RequestControl, Exists
    <2>2. /\ tasks' = [tasks EXCEPT ![t] = ControlRow(tasks[t], action)]
          /\ events' = [events EXCEPT ![t] = Append(events[t], x)]
      BY <1>4 DEF RequestControl, Log
    <2> HIDE DEF x
    <2> QED BY <2>1, <2>2, HistoryUpdate
  <1>5. ASSUME NEW h \in Handlers, CommitUpdate(h) PROVE HistoryInv'
    <2> DEFINE t == updates[h].task
    <2>0. t \in Tasks /\ tasks[t].status # Absent
             /\ updates[h].merged \in [status : Statuses, data : Data]
      BY <1>5 DEF CommitUpdate, UpdatesInv, TypeOK, InUpdate, Exists
    <2>1. RowInv(WriteBack(tasks[t], updates[h].merged), Append(events[t], "PROGRESS"))
      BY <1>0, <2>0, RowInvProgress
    <2>2. /\ tasks' = [tasks EXCEPT ![t] = WriteBack(tasks[t], updates[h].merged)]
          /\ events' = [events EXCEPT ![t] = Append(events[t], "PROGRESS")]
      BY <1>5 DEF CommitUpdate, Log
    <2> QED BY <2>0, <2>1, <2>2, HistoryUpdate
  <1>6. ASSUME UNCHANGED <<tasks, events>> PROVE HistoryInv'
    BY <1>6 DEF HistoryInv
  <1> QED
    BY <1>1, <1>2, <1>3, <1>4, <1>5, <1>6
       DEF Next, Complete, Fail, Cancel, Stop, Pause, Resume, TerminalStatuses,
           BeginUpdate, AbortUpdate, Tick, vars

\* No step deletes a row.
LEMMA RowsStay ==
    ASSUME TypeOK, [Next]_vars, NEW t \in Tasks, Exists(t)
    PROVE  Exists(t)'
  <1>0. \A u \in Tasks : tasks[u] \in Rows
    BY DEF TypeOK
  <1> USE DEF Exists, TypeOK
  <1>1. ASSUME NEW u \in Tasks, Create(u) PROVE Exists(t)'
    BY <1>1 DEF Create
  <1>2. ASSUME NEW u \in Tasks, Heartbeat(u) PROVE Exists(t)'
    BY <1>0, <1>2 DEF Heartbeat, Rows
  <1>3. ASSUME NEW u \in Tasks, NEW status \in TerminalStatuses, NEW error \in BOOLEAN,
               Finish(u, status, error)
        PROVE Exists(t)'
    BY <1>0, <1>3 DEF Finish, FinishRow, Rows, TerminalStatuses, Absent
  <1>4. ASSUME NEW u \in Tasks, NEW action \in {"pause", "resume"}, RequestControl(u, action)
        PROVE Exists(t)'
    BY <1>0, <1>4 DEF RequestControl, ControlRow, Rows, Absent
  <1>5. ASSUME NEW h \in Handlers, CommitUpdate(h) PROVE Exists(t)'
    <2>1. updates[h].merged.status # Absent
      BY <1>5 DEF CommitUpdate, InUpdate, Statuses, Absent
    <2> QED BY <1>0, <1>5, <2>1 DEF CommitUpdate, WriteBack, Rows
  <1>6. ASSUME UNCHANGED tasks PROVE Exists(t)'
    BY <1>6
  <1> QED
    BY <1>1, <1>2, <1>3, <1>4, <1>5, <1>6
       DEF Next, Complete, Fail, Cancel, Stop, Pause, Resume, TerminalStatuses,
           BeginUpdate, AbortUpdate, Tick, vars

\* A pending update stays about a task that exists.
LEMMA UpdatesStep == TypeOK /\ UpdatesInv /\ [Next]_vars => UpdatesInv'
  <1> SUFFICES ASSUME TypeOK, UpdatesInv, [Next]_vars, NEW h \in Handlers, updates'[h] # Idle
               PROVE  tasks'[updates'[h].task].status # Absent
    BY DEF UpdatesInv, Exists
  <1>0. \A t \in Tasks : Exists(t) => tasks'[t].status # Absent
    BY RowsStay DEF Exists
  <1>1. CASE updates'[h] = updates[h]
    <2>1. updates[h].task \in Tasks /\ Exists(updates[h].task)
      BY <1>1 DEF UpdatesInv, TypeOK, InUpdate
    <2> QED BY <1>0, <1>1, <2>1
  <1>2. CASE updates'[h] # updates[h]
    <2>1. PICK t \in Tasks : BeginUpdate(h, t)
      BY <1>2 DEF Next, Create, Heartbeat, Complete, Fail, Cancel, Stop, Pause, Resume,
                  Finish, RequestControl, BeginUpdate, CommitUpdate, AbortUpdate, Tick,
                  vars, TypeOK
    <2>2. updates'[h].task = t
      BY <2>1 DEF BeginUpdate, TypeOK
    <2> QED BY <1>0, <2>1, <2>2 DEF BeginUpdate
  <1> QED BY <1>1, <1>2

Inv == TypeOK /\ HistoryInv /\ UpdatesInv

\* The empty tables satisfy the invariant.
LEMMA InvInit == Init => Inv
  <1>1. Init => UpdatesInv
    BY DEF Init, UpdatesInv
  <1> QED BY <1>1, TypeInit, HistoryInit DEF Inv

\* Every step preserves the invariant.
LEMMA InvStep == Inv /\ [Next]_vars => Inv'
  BY TypeStep, HistoryStep, UpdatesStep DEF Inv

\* Whatever handlers interleave, and however stale the reads of Update, the
\* control a poller sees is the last one requested.
THEOREM ControlIsNeverStale == Spec => []ControlFollowsHistory
  <1>1. Inv => ControlFollowsHistory
    BY HistoryInvGives DEF Inv
  <1> QED BY <1>1, InvInit, InvStep, PTL DEF Spec

\* The last event of a history tells the status, unless it is PROGRESS.
THEOREM StatusIsAuditable == Spec => []StatusFollowsHistory
  <1>1. Inv => StatusFollowsHistory
    BY HistoryInvGives DEF Inv
  <1> QED BY <1>1, InvInit, InvStep, PTL DEF Spec

-----------------------------------------------------------------------------
(* completed_at. *)

NoTerminalUpdates == UpdateStatuses \cap TerminalStatuses = {}

\* A terminal status is stamped where it stands in a row AND where a handler
\* holds it, read before, to write it back.
StampInv ==
    NoTerminalUpdates =>
        /\ \A t \in Tasks : tasks[t].status \in TerminalStatuses => tasks[t].completed
        /\ \A h \in Handlers : updates[h] # Idle =>
              (updates[h].merged.status \in TerminalStatuses
                  => tasks[updates[h].task].completed)

\* No statement unsets completed_at; Create writes a row that had none.
LEMMA CompletedStays ==
    ASSUME Inv, [Next]_vars, NEW t \in Tasks, tasks[t].completed
    PROVE  tasks'[t].completed
  <1>0. /\ \A u \in Tasks : tasks[u] \in Rows
        /\ Exists(t) /\ TypeOK
    BY DEF Inv, TypeOK, HistoryInv, RowInv, Exists
  <1>1. ASSUME NEW u \in Tasks, Create(u) PROVE tasks'[t].completed
    BY <1>0, <1>1 DEF Create, TypeOK, Exists
  <1>2. ASSUME NEW u \in Tasks, Heartbeat(u) PROVE tasks'[t].completed
    BY <1>0, <1>2 DEF Heartbeat, TypeOK, Rows
  <1>3. ASSUME NEW u \in Tasks, NEW status \in TerminalStatuses, NEW error \in BOOLEAN,
               Finish(u, status, error)
        PROVE tasks'[t].completed
    BY <1>0, <1>3 DEF Finish, FinishRow, TypeOK, Rows
  <1>4. ASSUME NEW u \in Tasks, NEW action \in {"pause", "resume"}, RequestControl(u, action)
        PROVE tasks'[t].completed
    BY <1>0, <1>4 DEF RequestControl, ControlRow, TypeOK, Rows
  <1>5. ASSUME NEW h \in Handlers, CommitUpdate(h) PROVE tasks'[t].completed
    BY <1>0, <1>5 DEF CommitUpdate, WriteBack, TypeOK, Rows
  <1>6. ASSUME UNCHANGED tasks PROVE tasks'[t].completed
    BY <1>6
  <1> QED
    BY <1>1, <1>2, <1>3, <1>4, <1>5, <1>6
       DEF Next, Complete, Fail, Cancel, Stop, Pause, Resume, TerminalStatuses,
           BeginUpdate, AbortUpdate, Tick, vars

\* Nothing is finished in the empty tables.
LEMMA StampInit == Init => StampInv
  <1> SUFFICES ASSUME Init PROVE StampInv
    OBVIOUS
  <1>1. \A t \in Tasks : tasks[t].status = Absent
    BY DEF Init, NewRow
  <1> QED BY <1>1 DEF Init, StampInv, TerminalStatuses, Absent

\* No step clears the stamp or merges a terminal status into a row without one.
LEMMA StampStep == Inv /\ StampInv /\ [Next]_vars => StampInv'
  <1> SUFFICES ASSUME Inv, StampInv, [Next]_vars, NoTerminalUpdates
               PROVE  /\ \A t \in Tasks : tasks'[t].status \in TerminalStatuses
                                            => tasks'[t].completed
                      /\ \A h \in Handlers : updates'[h] # Idle =>
                            (updates'[h].merged.status \in TerminalStatuses
                                => tasks'[updates'[h].task].completed)
    BY DEF StampInv, NoTerminalUpdates
  <1>0. /\ TypeOK /\ \A t \in Tasks : tasks[t] \in Rows
        /\ \A t \in Tasks : tasks[t].completed => tasks'[t].completed
        /\ \A t \in Tasks : tasks[t].status \in TerminalStatuses => tasks[t].completed
    BY CompletedStays DEF Inv, TypeOK, StampInv
  <1>1. ASSUME NEW t \in Tasks, tasks'[t].status \in TerminalStatuses
        PROVE  tasks'[t].completed
    <2>1. ASSUME NEW u \in Tasks, Create(u) PROVE tasks'[t].completed
      <3>0. PICK d \in Data : tasks' = [tasks EXCEPT ![u] = NewRow(now, d)]
        BY <2>1 DEF Create
      <3>1. tasks'[u] = NewRow(now, d) /\ NewRow(now, d).status = "running"
        BY <1>0, <3>0 DEF TypeOK, NewRow
      <3>2. t # u /\ tasks'[t] = tasks[t]
        BY <1>0, <1>1, <2>1, <3>1 DEF Create, TypeOK, TerminalStatuses
      <3> QED BY <1>0, <1>1, <3>2
    <2>2. ASSUME NEW u \in Tasks, Heartbeat(u) PROVE tasks'[t].completed
      BY <1>0, <1>1, <2>2 DEF Heartbeat, TypeOK, Rows
    <2>3. ASSUME NEW u \in Tasks, NEW status \in TerminalStatuses, NEW error \in BOOLEAN,
                 Finish(u, status, error)
          PROVE tasks'[t].completed
      BY <1>0, <1>1, <2>3 DEF Finish, FinishRow, TypeOK, Rows
    <2>4. ASSUME NEW u \in Tasks, NEW action \in {"pause", "resume"}, RequestControl(u, action)
          PROVE tasks'[t].completed
      BY <1>0, <1>1, <2>4 DEF RequestControl, ControlRow, TypeOK, Rows, TerminalStatuses
    <2>5. ASSUME NEW h \in Handlers, CommitUpdate(h) PROVE tasks'[t].completed
      <3>1. updates[h].task = t =>
               /\ tasks'[t].status = updates[h].merged.status
               /\ tasks'[t].completed = tasks[t].completed
        BY <1>0, <2>5 DEF CommitUpdate, WriteBack, TypeOK, Rows
      <3>2. updates[h].task # t => tasks'[t] = tasks[t]
        BY <1>0, <2>5 DEF CommitUpdate, TypeOK
      <3> QED BY <1>0, <1>1, <2>5, <3>1, <3>2 DEF CommitUpdate, StampInv
    <2>6. ASSUME UNCHANGED tasks PROVE tasks'[t].completed
      BY <1>0, <1>1, <2>6
    <2> QED
      BY <2>1, <2>2, <2>3, <2>4, <2>5, <2>6
         DEF Next, Complete, Fail, Cancel, Stop, Pause, Resume, TerminalStatuses,
             BeginUpdate, AbortUpdate, Tick, vars
  <1>2. ASSUME NEW h \in Handlers, updates'[h] # Idle,
               updates'[h].merged.status \in TerminalStatuses
        PROVE  tasks'[updates'[h].task].completed
    <2>1. CASE updates'[h] = updates[h]
      <3>1. updates[h].task \in Tasks /\ tasks[updates[h].task].completed
        BY <1>0, <1>2, <2>1 DEF StampInv, TypeOK, InUpdate
      <3> QED BY <1>0, <2>1, <3>1
    <2>2. CASE updates'[h] # updates[h]
      <3>1. PICK t \in Tasks : BeginUpdate(h, t)
        BY <1>0, <1>2, <2>2 DEF Next, Create, Heartbeat, Complete, Fail, Cancel, Stop,
               Pause, Resume, Finish, RequestControl, BeginUpdate, CommitUpdate,
               AbortUpdate, Tick, vars, TypeOK
      <3>2. PICK req \in Requests : updates'[h] =
               [phase |-> "merged", task |-> t, req |-> req, merged |-> Merge(tasks[t], req)]
        BY <1>0, <3>1 DEF BeginUpdate, TypeOK
      <3>3. updates'[h].task = t /\ updates'[h].merged.status \in UpdateStatuses \cup {tasks[t].status}
        BY <3>2 DEF Merge, Requests
      <3> QED BY <1>0, <1>2, <3>3 DEF NoTerminalUpdates
    <2> QED BY <2>1, <2>2
  <1> QED BY <1>1, <1>2

\* completed_at and error agree with the finishing events of the history, and a
\* row that reads as finished carries its completed_at, as long as callers put
\* no terminal status in an update.
THEOREM OutcomeIsRecorded == Spec => []OutcomeFollowsHistory
  <1>1. StampInv => FinishedIsStamped
    BY DEF StampInv, FinishedIsStamped, NoTerminalUpdates
  <1>2. Inv /\ StampInv => OutcomeFollowsHistory
    BY <1>1 DEF Inv, HistoryInv, RowInv, OutcomeFollowsHistory
  <1> QED BY <1>2, InvInit, InvStep, StampInit, StampStep, PTL DEF Spec

-----------------------------------------------------------------------------
(* Every change is logged. *)

\* What a step may do to one task's row and history.
Logged(row, row1, e, e1) ==
    /\ SubSeq(e1, 1, Len(e)) = e
    /\ [row1 EXCEPT !.beat = None] # [row EXCEPT !.beat = None] => Len(e1) > Len(e)

\* A row that stays the same needs no event.
LEMMA LoggedSame == ASSUME NEW row, NEW e \in Seq(EventNames) PROVE Logged(row, row, e, e)
  BY DEF Logged

\* One appended event logs any change.
LEMMA LoggedAppend ==
    ASSUME NEW row, NEW row1, NEW e \in Seq(EventNames), NEW x \in EventNames
    PROVE  Logged(row, row1, e, Append(e, x))
  BY DEF Logged

\* The two events of a creation log it.
LEMMA LoggedCreate ==
    ASSUME NEW row, NEW row1, NEW e \in Seq(EventNames)
    PROVE  Logged(row, row1, e, Append(Append(e, "CREATED"), "STARTED"))
  BY DEF Logged, EventNames

\* Every step logs what it changes in a task, its heartbeat apart.
LEMMA LoggedStep ==
    ASSUME TypeOK, [Next]_vars, NEW t \in Tasks
    PROVE  Logged(tasks[t], tasks'[t], events[t], events'[t])
  <1> DEFINE Goal == Logged(tasks[t], tasks'[t], events[t], events'[t])
  <1>0. tasks[t] \in Rows /\ events[t] \in Seq(EventNames)
    BY DEF TypeOK
  <1>1. ASSUME NEW u \in Tasks, NEW x \in EventNames, Log(u, x),
               \E row : tasks' = [tasks EXCEPT ![u] = row]
        PROVE  Goal
    <2>1. CASE u = t
      <3>1. events'[t] = Append(events[t], x)
        BY <1>1, <2>1 DEF Log, TypeOK
      <3> QED BY <1>0, <3>1, LoggedAppend
    <2>2. CASE u # t
      <3>1. events'[t] = events[t] /\ tasks'[t] = tasks[t]
        BY <1>1, <2>2 DEF Log, TypeOK
      <3> QED BY <1>0, <3>1, LoggedSame
    <2> QED BY <2>1, <2>2
  <1>2. ASSUME NEW u \in Tasks, Create(u) PROVE Goal
    <2>1. CASE u = t
      <3>1. events'[t] = Append(Append(events[t], "CREATED"), "STARTED")
        BY <1>2, <2>1 DEF Create, TypeOK
      <3> QED BY <1>0, <3>1, LoggedCreate
    <2>2. CASE u # t
      <3>1. events'[t] = events[t] /\ tasks'[t] = tasks[t]
        BY <1>2, <2>2 DEF Create, TypeOK
      <3> QED BY <1>0, <3>1, LoggedSame
    <2> QED BY <2>1, <2>2
  <1>3. ASSUME NEW u \in Tasks, Heartbeat(u) PROVE Goal
    <2>1. events'[t] = events[t]
      BY <1>3 DEF Heartbeat
    <2>2. [tasks'[t] EXCEPT !.beat = None] = [tasks[t] EXCEPT !.beat = None]
      BY <1>0, <1>3 DEF Heartbeat, TypeOK, Rows
    <2> QED BY <1>0, <2>1, <2>2 DEF Logged
  <1>4. ASSUME NEW u \in Tasks, NEW status \in TerminalStatuses, NEW error \in BOOLEAN,
               Finish(u, status, error)
        PROVE Goal
    <2>1. FinishEvent(status) \in EventNames
      BY FinishEventType DEF EventNames
    <2> QED BY <1>1, <1>4, <2>1 DEF Finish
  <1>5. ASSUME NEW u \in Tasks, NEW action \in {"pause", "resume"}, RequestControl(u, action)
        PROVE Goal
    BY <1>1, <1>5 DEF RequestControl, EventNames, ControlEvents
  <1>6. ASSUME NEW h \in Handlers, CommitUpdate(h) PROVE Goal
    <2>1. updates[h].task \in Tasks
      BY <1>6 DEF CommitUpdate, TypeOK, InUpdate
    <2> QED BY <1>1, <1>6, <2>1 DEF CommitUpdate, EventNames
  <1>7. ASSUME UNCHANGED <<tasks, events>> PROVE Goal
    BY <1>0, <1>7, LoggedSame
  <1> HIDE DEF Goal
  <1>8. Goal
    BY <1>2, <1>3, <1>4, <1>5, <1>6, <1>7
       DEF Next, Complete, Fail, Cancel, Stop, Pause, Resume, TerminalStatuses,
           BeginUpdate, AbortUpdate, Tick, vars
  <1> QED BY <1>8 DEF Goal

\* A step that changes a row (its heartbeat apart) leaves its trace in that
\* task's history, and no step rewrites a history.
THEOREM ChangesAreLogged == Spec => EveryChangeIsLogged
  <1>1. TypeOK /\ [Next]_vars =>
           [\A t \in Tasks :
               /\ SubSeq(events'[t], 1, Len(events[t])) = events[t]
               /\ [tasks'[t] EXCEPT !.beat = None] # [tasks[t] EXCEPT !.beat = None]
                     => Len(events'[t]) > Len(events[t])]_vars
    BY LoggedStep DEF Logged
  <1> QED BY <1>1, Typing, PTL DEF Spec, EveryChangeIsLogged

-----------------------------------------------------------------------------
(* The store implements the lifecycle. *)

AbsState == [t \in Tasks |-> LifecycleState(tasks[t])]
AbsAge   == [t \in Tasks |-> LifecycleAge(tasks[t], now)]

\* A statement that keeps started_at and last_heartbeat_at can only move the
\* task between running and idle.
LEMMA AbsHaltOrResume ==
    ASSUME TypeOK, NEW t \in Tasks, NEW row \in Rows,
           tasks[t].status # Absent, row.status # Absent,
           row.started = tasks[t].started, row.beat = tasks[t].beat,
           tasks' = [tasks EXCEPT ![t] = row], now' = now
    PROVE  Lifecycle!Halt(t) \/ Lifecycle!Resume(t) \/ UNCHANGED Lifecycle!vars
  <1>1. AbsAge' = AbsAge
    <2>1. \A u \in Tasks : LifecycleAge(tasks'[u], now') = LifecycleAge(tasks[u], now)
      BY DEF TypeOK, LifecycleAge, LastSign
    <2> QED BY <2>1 DEF AbsAge
  <1>2. AbsState' = [AbsState EXCEPT ![t] = LifecycleState(row)]
    BY DEF TypeOK, AbsState
  <1>3. AbsState[t] = LifecycleState(tasks[t])
    BY DEF AbsState
  <1>4. /\ LifecycleState(row) \in {"running", "idle"}
        /\ LifecycleState(tasks[t]) \in {"running", "idle"}
    BY DEF LifecycleState
  <1>5. AbsState[t] = LifecycleState(row) => AbsState' = AbsState
    BY <1>2 DEF AbsState
  <1> QED BY <1>1, <1>2, <1>3, <1>4, <1>5 DEF Lifecycle!Halt, Lifecycle!Resume, Lifecycle!vars,
             AbsAge, AbsState

\* The empty tables are the lifecycle's initial state.
LEMMA AbsInit == Init => Lifecycle!Init
  <1> SUFFICES ASSUME Init PROVE Lifecycle!Init
    OBVIOUS
  <1>1. \A t \in Tasks : tasks[t].status = Absent
    BY DEF Init, NewRow
  <1>2. \A t \in Tasks : LifecycleState(tasks[t]) = "absent" /\ LifecycleAge(tasks[t], now) = 0
    BY <1>1 DEF LifecycleState, LifecycleAge, Absent
  <1> QED BY <1>2 DEF Lifecycle!Init

\* Every step of the store is one of the lifecycle, or a stutter.
LEMMA AbsStep == TypeOK /\ UpdatesInv /\ [Next]_vars => [Lifecycle!Next]_(Lifecycle!vars)
  <1> DEFINE Goal == [Lifecycle!Next]_(Lifecycle!vars)
  <1> SUFFICES ASSUME TypeOK, UpdatesInv, [Next]_vars PROVE Goal
    OBVIOUS
  <1>0. \A t \in Tasks : tasks[t] \in Rows
    BY DEF TypeOK
  <1>1. ASSUME NEW t \in Tasks, Lifecycle!Halt(t) \/ Lifecycle!Resume(t) \/ UNCHANGED Lifecycle!vars
        PROVE  Goal
    BY <1>1 DEF Lifecycle!Next, Lifecycle!Step
  <1>2. ASSUME NEW t \in Tasks, Create(t) PROVE Goal
    <2>1. PICK d \in Data : tasks' = [tasks EXCEPT ![t] = NewRow(now, d)]
      BY <1>2 DEF Create
    <2> DEFINE row == NewRow(now, d)
    <2>2. now \in Nat /\ now' = now /\ tasks[t].status = Absent
      BY <1>2 DEF Create, Exists, TypeOK
    <2>3. /\ row.status = "running" /\ row.beat = None /\ row.started = now
      BY DEF NewRow
    <2> HIDE DEF row
    <2>4. LifecycleState(row) = "running" /\ LifecycleAge(row, now) = 0
      BY <2>2, <2>3, ThresholdAssumption
         DEF LifecycleState, LifecycleAge, LastSign, Capped, Absent
    <2>5. AbsState[t] = "absent"
      BY <2>2 DEF AbsState, LifecycleState, Absent
    <2>6. tasks' = [tasks EXCEPT ![t] = row]
      BY <2>1 DEF row
    <2>7. AbsState' = [AbsState EXCEPT ![t] = "running"] /\ AbsAge' = [AbsAge EXCEPT ![t] = 0]
      BY <2>2, <2>4, <2>6 DEF AbsState, AbsAge, TypeOK
    <2> QED BY <2>5, <2>7 DEF Lifecycle!Next, Lifecycle!Step, Lifecycle!Create, AbsState, AbsAge
  <1>3. ASSUME NEW t \in Tasks, Heartbeat(t) PROVE Goal
    <2> DEFINE row == [tasks[t] EXCEPT !.beat = now]
    <2>1. now \in Nat /\ now' = now /\ tasks[t].status # Absent
          /\ tasks' = [tasks EXCEPT ![t] = row]
      BY <1>3 DEF Heartbeat, Exists, TypeOK
    <2>2. row.status = tasks[t].status /\ row.beat = now
      BY <1>0 DEF Rows
    <2> HIDE DEF row
    <2>3. LifecycleState(row) = LifecycleState(tasks[t])
      BY <2>2 DEF LifecycleState
    <2>4. LifecycleAge(row, now) = 0
      BY <2>1, <2>2, ThresholdAssumption DEF LifecycleAge, LastSign, Capped, None
    <2>5. AbsState' = AbsState /\ AbsState[t] # "absent"
      BY <2>1, <2>3 DEF AbsState, TypeOK, LifecycleState, Absent
    <2>6. AbsAge' = [AbsAge EXCEPT ![t] = 0]
      BY <2>1, <2>4 DEF AbsAge, TypeOK
    <2> QED BY <2>5, <2>6 DEF Lifecycle!Next, Lifecycle!Step, Lifecycle!Heartbeat, AbsState, AbsAge
  <1>4. ASSUME NEW t \in Tasks, NEW status \in TerminalStatuses, NEW error \in BOOLEAN,
               Finish(t, status, error)
        PROVE Goal
    <2> DEFINE row == FinishRow(tasks[t], status, error)
    <2>1. row \in Rows /\ row.status = status /\ status # Absent
          /\ row.started = tasks[t].started /\ row.beat = tasks[t].beat
      BY <1>0 DEF Rows, FinishRow, Statuses, ControlActions, TerminalStatuses, Absent
    <2>2. tasks[t].status # Absent /\ tasks' = [tasks EXCEPT ![t] = row] /\ now' = now
      BY <1>4 DEF Finish, Exists
    <2> HIDE DEF row
    <2> QED BY <1>1, <2>1, <2>2, AbsHaltOrResume
  <1>5. ASSUME NEW t \in Tasks, NEW action \in {"pause", "resume"}, RequestControl(t, action)
        PROVE Goal
    <2> DEFINE row == ControlRow(tasks[t], action)
    <2>1. row \in Rows /\ row.status # Absent
          /\ row.started = tasks[t].started /\ row.beat = tasks[t].beat
      BY <1>0 DEF Rows, ControlRow, Statuses, ControlActions, Absent
    <2>2. tasks[t].status # Absent /\ tasks' = [tasks EXCEPT ![t] = row] /\ now' = now
      BY <1>5 DEF RequestControl, Exists
    <2> HIDE DEF row
    <2> QED BY <1>1, <2>1, <2>2, AbsHaltOrResume
  <1>6. ASSUME NEW h \in Handlers, CommitUpdate(h) PROVE Goal
    <2> DEFINE t == updates[h].task
               row == WriteBack(tasks[t], updates[h].merged)
    <2>1. t \in Tasks /\ tasks[t].status # Absent
          /\ updates[h].merged \in [status : Statuses, data : Data]
      BY <1>6 DEF CommitUpdate, UpdatesInv, TypeOK, InUpdate, Exists
    <2>2. row \in Rows /\ row.status # Absent
          /\ row.started = tasks[t].started /\ row.beat = tasks[t].beat
      BY <1>0, <2>1 DEF Rows, WriteBack, Statuses, Absent
    <2>3. tasks' = [tasks EXCEPT ![t] = row] /\ now' = now
      BY <1>6 DEF CommitUpdate
    <2> HIDE DEF row, t
    <2> QED BY <1>1, <2>1, <2>2, <2>3, AbsHaltOrResume
  <1>7. CASE Tick
    <2>1. now \in Nat /\ now' = now + 1 /\ tasks' = tasks
      BY <1>7 DEF Tick, TypeOK
    <2>2. AbsState' = AbsState
      BY <2>1 DEF AbsState
    <2>3. ASSUME NEW t \in Tasks
          PROVE  AbsAge'[t] = IF AbsState[t] = "absent" \/ AbsAge[t] > Threshold
                                THEN AbsAge[t] ELSE AbsAge[t] + 1
      <3>1. tasks[t].status = Absent <=> LifecycleState(tasks[t]) = "absent"
        BY DEF LifecycleState, Absent
      <3>2. LastSign(tasks[t]) \in Int
        BY <1>0 DEF LastSign, Rows, None
      <3>3. LifecycleAge(tasks[t], now + 1) =
               IF LifecycleState(tasks[t]) = "absent" \/ LifecycleAge(tasks[t], now) > Threshold
                 THEN LifecycleAge(tasks[t], now) ELSE LifecycleAge(tasks[t], now) + 1
        BY <2>1, <3>1, <3>2, ThresholdAssumption DEF LifecycleAge, Capped
      <3> QED BY <2>1, <3>3 DEF AbsAge, AbsState
    <2>4. Lifecycle!Tick
      BY <2>2, <2>3 DEF Lifecycle!Tick, AbsAge, AbsState
    <2> QED BY <2>4 DEF Lifecycle!Next
  <1>8. ASSUME UNCHANGED <<tasks, now>> PROVE Goal
    BY <1>8 DEF Lifecycle!vars
  <1> HIDE DEF Goal
  <1> QED
    BY <1>2, <1>3, <1>4, <1>5, <1>6, <1>7, <1>8
       DEF Next, Complete, Fail, Cancel, Stop, Pause, Resume, TerminalStatuses,
           BeginUpdate, AbortUpdate, vars

\* The store implements the lifecycle the health monitor relies on: rows are
\* never deleted and only a heartbeat makes a last sign of life younger.
THEOREM StoreImplementsLifecycle == Spec => ImplementsLifecycle
  <1>1. Inv /\ [Next]_vars => [Lifecycle!Next]_(Lifecycle!vars)
    BY AbsStep DEF Inv
  <1>2. Lifecycle!Init /\ [][Lifecycle!Next]_(Lifecycle!vars) => Lifecycle!Spec
    BY PTL DEF Lifecycle!Spec
  <1> QED BY <1>1, <1>2, InvInit, InvStep, AbsInit, PTL DEF Spec, ImplementsLifecycle
=============================================================================
