------------------------------- MODULE TaskWrap -------------------------------
(***************************************************************************)
(* scripts/task-wrap.sh: a command run as a task.  Four parties: the       *)
(* wrapper, the command it waits for, the heartbeat loop it starts in the  *)
(* background, and LocalOps with the task's row, where an operator may act *)
(* on the task too.                                                        *)
(*                                                                         *)
(* A curl is not repeated.  LocalOps serves it, at any later time, and     *)
(* answers it later still; or it is away and the curl fails; or it is      *)
(* silent, takes the connection and says nothing, for as long as it likes, *)
(* since no curl here has a timeout.  A heartbeat under way outlives the   *)
(* loop that sent it; any other call that a signal cuts off is served      *)
(* before the signal, or lost.                                             *)
(*                                                                         *)
(* Time does not wait for any of this.  A tick is a part of the loop's     *)
(* sleep (30s), which Interval of them make up; Threshold is the age in    *)
(* ticks beyond which the monitor finds a running task stuck (Health): 3   *)
(* times the 60s a task created without expected_heartbeat_s gets          *)
(* (tasks/store.go:64-66), or six sleeps.                                  *)
(*                                                                         *)
(* Signals.  Ctrl-C reaches the wrapper and the command but not the loop,  *)
(* which a shell without job control starts with SIGINT ignored; a SIGTERM *)
(* reaches the wrapper alone; the end of the session ends all three.       *)
(*                                                                         *)
(* History: excused (the ticks, up to Threshold, since the row's last sign *)
(* of life that heartbeats which were lost had slept for, and that passed  *)
(* while a call was under way), recorded (the verdict the row took),       *)
(* touched (the operator acted after it).                                  *)
(* Bounds: MaxOutages (of LocalOps, silent or away), MaxActions (of the    *)
(* operator).                                                              *)
(***************************************************************************)
EXTENDS TaskModel

CONSTANTS Threshold, Interval, OperatorActions, MaxOutages, MaxActions

ASSUME WrapAssumption ==
    /\ Threshold \in Nat \ {0} /\ Interval \in Nat \ {0}
    /\ MaxOutages \in Nat /\ MaxActions \in Nat
    /\ OperatorActions \subseteq {"cancel", "stop", "pause", "resume"}

VARIABLES
    wrapper,            \* what the wrapper is about to do, or waits for
    notify,             \* --notify was given
    command,            \* "none", "running", "zero", "nonzero" or "killed"
    loop, slept,        \* the heartbeat loop, and how much of its sleep is over
    stray,              \* a heartbeat under way whose loop is gone
    id,                 \* TASK_ID is not empty
    server, outages,    \* whether LocalOps is reachable, and answers
    row, age,           \* the task, and the ticks since its last sign of life
    actions,            \* the operator's actions so far
    notified,           \* the failure was notified
    excused, recorded, touched

script  == <<wrapper, notify, command>>
beats   == <<loop, slept, stray>>
world   == <<server, outages>>
task    == <<row, age>>
history == <<excused, recorded, touched>>
vars    == <<script, beats, id, world, task, actions, notified, history>>

NoRow == [status |-> Absent]
Data  == [f \in {} |-> 0]
Rows  == [status : Statuses, control : ControlActions, error : BOOLEAN,
          completed : BOOLEAN, started : {0}, beat : {None}, data : {Data}]

Exists == row # NoRow
Stuck  == row.status = "running" /\ age > Threshold
Ended  == {"exited", "dead"}
Alive  == {"sleep", "beat", "answer"}

Init ==
    /\ wrapper = "create" /\ notify \in BOOLEAN /\ command = "none"
    /\ loop = "none" /\ slept = 0 /\ stray = FALSE /\ id = FALSE
    /\ server \in {"up", "down"} /\ outages = 0
    /\ row = NoRow /\ age = 0 /\ actions = 0 /\ notified = FALSE
    /\ excused = 0 /\ recorded = "none" /\ touched = FALSE

-----------------------------------------------------------------------------
\* The wrapper.

\* POST /tasks, which a description with a quote makes unreadable.
Create ==
    /\ wrapper = "create" /\ server # "silent"
    /\ row' \in {NoRow} \cup (IF server = "up" THEN {NewRow(0, Data)} ELSE {})
    /\ wrapper' = "created"
    /\ UNCHANGED <<notify, command, beats, id, world, age, actions, notified, history>>

\* The answer, which may be lost.
Answered == IF Exists /\ server = "up" THEN BOOLEAN ELSE {FALSE}

\* Mutant of Begin: the loop starts whether there is an id or not.
BeginLoopsAlways ==
    /\ wrapper = "created" /\ server # "silent"
    /\ id' \in Answered
    /\ loop' = "sleep"
    /\ command' = "running" /\ wrapper' = "wait"
    /\ UNCHANGED <<notify, slept, stray, world, task, actions, notified, history>>

\* The id is there or not; then the loop, and the command.
Begin ==
    /\ wrapper = "created" /\ server # "silent"
    /\ id' \in Answered
    /\ loop' = IF id' THEN "sleep" ELSE "gone"
    /\ command' = "running" /\ wrapper' = "wait"
    /\ UNCHANGED <<notify, slept, stray, world, task, actions, notified, history>>

CommandEnds ==
    /\ command = "running"
    /\ command' \in {"zero", "nonzero"}
    /\ UNCHANGED <<wrapper, notify, beats, id, world, task, actions, notified, history>>

\* Mutant of KillLoop: a loop whose curl is under way survives.
KillLoopAsleep ==
    /\ wrapper = "wait" /\ command # "running"
    /\ loop' = IF loop = "beat" THEN "beat" ELSE "gone"
    /\ wrapper' = IF id THEN "report" ELSE "exited"
    /\ UNCHANGED <<notify, command, slept, stray, id, world, task, actions, notified, history>>

\* kill "$HB_PID" ends the subshell, not the curl it waits for.
KillLoop ==
    /\ wrapper = "wait" /\ command # "running"
    /\ loop' = "gone" /\ slept' = 0 /\ stray' = (stray \/ loop = "beat")
    /\ wrapper' = IF id THEN "report" ELSE "exited"
    /\ UNCHANGED <<notify, command, id, world, task, actions, notified, history>>

\* complete or fail, by the exit code.
Verdict == IF command = "zero" THEN "completed" ELSE "failed"

\* Whether the error arrives: handleFailTask does not look at Bind's result, and
\* a tab in the output's tail is enough to make the request unreadable.
Messages == IF command = "zero" THEN {FALSE} ELSE BOOLEAN

\* Mutant of Report: the curl is repeated until LocalOps answers.
ReportRetries ==
    /\ wrapper = "report" /\ server = "up"
    /\ \E said \in Messages : row' = FinishRow(row, Verdict, said)
    /\ recorded' = Verdict /\ touched' = FALSE
    /\ wrapper' = "reported"
    /\ UNCHANGED <<notify, command, beats, id, world, age, actions, notified, excused>>

\* The verdict is served, or lost.
Report ==
    /\ wrapper = "report" /\ server # "silent"
    /\ IF server = "up"
         THEN /\ \E said \in Messages : row' = FinishRow(row, Verdict, said)
              /\ recorded' = Verdict /\ touched' = FALSE
         ELSE UNCHANGED <<row, recorded, touched>>
    /\ wrapper' = "reported"
    /\ UNCHANGED <<notify, command, beats, id, world, age, actions, notified, excused>>

\* The curl is over, however it went.
ReportEnds ==
    /\ wrapper = "reported" /\ server # "silent"
    /\ wrapper' = IF command # "zero" /\ notify THEN "notify" ELSE "exited"
    /\ UNCHANGED <<notify, command, beats, id, world, task, actions, notified, history>>

Notify ==
    /\ wrapper = "notify" /\ server # "silent"
    /\ notified' = (server = "up")
    /\ wrapper' = "exited"
    /\ UNCHANGED <<notify, command, beats, id, world, task, actions, history>>

-----------------------------------------------------------------------------
\* Heartbeats.

\* The ticks excused, with some more.
Excused(ticks) == IF excused + ticks < Threshold THEN excused + ticks ELSE Threshold

\* Mutants of Beat: only a running task takes a heartbeat; a heartbeat says
\* that the task is running.
BeatIfRunning ==
    /\ loop = "beat" \/ stray
    /\ server = "up"
    /\ age' = (IF row.status = "running" THEN 0 ELSE age) /\ excused' = 0
    /\ loop' = (IF loop = "beat" THEN "answer" ELSE loop) /\ slept' = 0 /\ stray' = FALSE
    /\ UNCHANGED <<script, id, world, row, actions, notified, recorded, touched>>

BeatRevives ==
    /\ loop = "beat" \/ stray
    /\ server = "up"
    /\ row' = [row EXCEPT !.status = "running"] /\ age' = 0 /\ excused' = 0
    /\ loop' = (IF loop = "beat" THEN "answer" ELSE loop) /\ slept' = 0 /\ stray' = FALSE
    /\ UNCHANGED <<script, id, world, actions, notified, recorded, touched>>

\* Store.Heartbeat touches the task's last sign of life and nothing else; the
\* curl waits for the answer.
Beat ==
    /\ loop = "beat" \/ stray
    /\ server = "up"
    /\ age' = 0 /\ excused' = 0
    /\ loop' = (IF loop = "beat" THEN "answer" ELSE loop) /\ slept' = 0 /\ stray' = FALSE
    /\ UNCHANGED <<script, id, world, row, actions, notified, recorded, touched>>

\* The curl fails.
BeatLost ==
    /\ loop = "beat" \/ stray
    /\ server = "down"
    /\ excused' = Excused(slept)
    /\ loop' = (IF loop = "beat" THEN "sleep" ELSE loop) /\ slept' = 0 /\ stray' = FALSE
    /\ UNCHANGED <<script, id, world, task, actions, notified, recorded, touched>>

\* The curl is over, with its answer or without.
BeatEnds ==
    /\ loop = "answer" /\ server # "silent"
    /\ loop' = "sleep"
    /\ UNCHANGED <<script, slept, stray, id, world, task, actions, notified, history>>

\* Time passes, whoever sleeps or waits: the task ages, and the loop wakes when
\* its sleep is over.
Tick ==
    /\ age' = IF Exists /\ age <= Threshold THEN age + 1 ELSE age
    /\ IF loop = "sleep"
         THEN /\ slept' = slept + 1 /\ UNCHANGED excused
              /\ loop' = IF slept' = Interval THEN "beat" ELSE "sleep"
         ELSE /\ excused' = IF Exists /\ loop # "gone" THEN Excused(1) ELSE excused
              /\ UNCHANGED <<loop, slept>>
    /\ UNCHANGED <<script, stray, id, world, row, actions, notified, recorded, touched>>

-----------------------------------------------------------------------------
\* Signals, and what else happens.

\* Ctrl-C: a command it kills takes the wrapper with it, before the kill.
Interrupt ==
    /\ wrapper \notin Ended
    /\ wrapper' = "dead"
    /\ command' = IF command = "running" THEN "killed" ELSE command
    /\ UNCHANGED <<notify, beats, id, world, task, actions, notified, history>>

Terminate ==
    /\ wrapper \notin Ended
    /\ wrapper' = "dead"
    /\ UNCHANGED <<notify, command, beats, id, world, task, actions, notified, history>>

SessionEnds ==
    /\ wrapper \notin Ended
    /\ wrapper' = "dead"
    /\ loop' = "gone" /\ slept' = 0 /\ stray' = FALSE
    /\ command' = IF command = "running" THEN "killed" ELSE command
    /\ UNCHANGED <<notify, id, world, task, actions, notified, history>>

\* LocalOps goes away, or goes silent.
ServerGoes(how) ==
    /\ server = "up" /\ outages < MaxOutages
    /\ server' = how /\ outages' = outages + 1
    /\ UNCHANGED <<script, beats, id, task, actions, notified, history>>

\* It is back; or a silent one is gone, and its connections with it.
ServerReturns ==
    /\ \/ server # "up" /\ server' = "up"
       \/ server = "silent" /\ server' = "down"
    /\ UNCHANGED <<script, beats, id, outages, task, actions, notified, history>>

\* The wrapper polls for no control action: the command runs on.
Operator(action) ==
    /\ server = "up" /\ Exists /\ actions < MaxActions
    /\ actions' = actions + 1
    /\ row' = CASE action = "cancel" -> FinishRow(row, "cancelled", FALSE)
                [] action = "stop"   -> FinishRow(row, "stopped", FALSE)
                [] OTHER             -> ControlRow(row, action)
    /\ touched' = TRUE
    /\ UNCHANGED <<script, beats, id, world, age, notified, excused, recorded>>

Step == Create \/ Begin \/ KillLoop \/ Report \/ ReportEnds \/ Notify

Next ==
    \/ Step \/ CommandEnds
    \/ Beat \/ BeatLost \/ BeatEnds \/ Tick
    \/ Interrupt \/ Terminate \/ SessionEnds
    \/ \E how \in {"down", "silent"} : ServerGoes(how)
    \/ ServerReturns
    \/ \E action \in OperatorActions : Operator(action)

\* The wrapper runs, and time passes.  A call ends when LocalOps answers it or
\* is away, but nothing ends one on a LocalOps that is silent.  The command need
\* never end, LocalOps never return or break its silence, and of heartbeats
\* nothing is assumed.
Fairness == WF_vars(Step) /\ WF_vars(Tick)

Spec == Init /\ [][Next]_vars /\ Fairness

-----------------------------------------------------------------------------
\* Every variable stays within its type; without an id nothing is sent.
TypeOK ==
    /\ wrapper \in {"create", "created", "wait", "report", "reported", "notify"} \cup Ended
    /\ notify \in BOOLEAN /\ command \in {"none", "running", "zero", "nonzero", "killed"}
    /\ loop \in {"none", "gone"} \cup Alive /\ slept \in 0..Interval /\ stray \in BOOLEAN
    /\ loop = "sleep" => slept < Interval
    /\ id \in BOOLEAN /\ (loop \in Alive \/ stray => id /\ Exists)
    /\ server \in {"up", "down", "silent"} /\ outages \in 0..MaxOutages
    /\ row \in Rows \cup {NoRow} /\ age \in 0..(Threshold + 1)
    /\ actions \in 0..MaxActions /\ notified \in BOOLEAN
    /\ excused \in 0..Threshold
    /\ recorded \in {"none", "completed", "failed"} /\ touched \in BOOLEAN

\* A wrapped task whose loop runs is found stuck only when heartbeats that were
\* lost, and calls that took their time or hang, account for all of the threshold
\* but the one sleep between two heartbeats - however the task was paused, resumed
\* and finished meanwhile (model.go:91-99, task-wrap.sh:57-59).
BeatsKeepItAlive == Stuck /\ loop \in Alive => excused + Interval > Threshold

\* The verdict is the exit code's, and no heartbeat that comes late undoes it:
\* only an operator changes the status after it.
VerdictIsTheCommands ==
    recorded # "none" =>
        /\ recorded = Verdict /\ command \in {"zero", "nonzero"}
        /\ ~touched => row.status = recorded /\ (row.error => recorded = "failed")

\* To the monitor a wrapped task is a task like any other: it is there for good,
\* only heartbeats make it younger - no verdict, late or not, and no operator -
\* and none of them moves its status (health/monitor.go:68, model.go:85-100).
Lifecycle == INSTANCE TaskLifecycle WITH
    Tasks <- {"wrapped"},
    state <- [t \in {"wrapped"} |-> LifecycleState(row)],
    age   <- [t \in {"wrapped"} |-> age]

ImplementsLifecycle == Lifecycle!Spec

\* task-wrap.sh:20: "Never blocks or fails the wrapped command's own exit code on
\* LocalOps being unreachable": a wrapper whose command has ended ends.  The code
\* breaks it: a LocalOps that takes a connection and stays silent holds it.
NeverBlocks == command \in {"zero", "nonzero"} ~> wrapper \in Ended

\* What the code keeps of it: LocalOps may be away for ever, and any call may
\* fail, and still the wrapper ends with its command; only a silence that lasts
\* can hold it.
OnlySilenceBlocks == <>[](server # "silent") => NeverBlocks

\* A verdict that was lost leaves a task that says it is running; with the
\* loop gone, the monitor comes to find it stuck.
LostVerdictIsFound ==
    wrapper = "exited" /\ row.status = "running" ~> Stuck \/ row.status # "running"
=============================================================================
