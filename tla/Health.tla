------------------------------- MODULE Health -------------------------------
(***************************************************************************)
(* The health monitor (internal/health/monitor.go) composed with the task  *)
(* store as TaskLifecycle abstracts it.                                    *)
(*                                                                         *)
(* A ticker fires every SweepInterval; its channel holds one tick and      *)
(* drops the others.  A sweep reads the running tasks once (SweepList),    *)
(* then walks that snapshot, alerting as it goes while tasks heartbeat,    *)
(* finish and start (Visit), and clears the marks of whatever was not      *)
(* stuck in the snapshot (Clear).  The marks live in memory only.          *)
(*                                                                         *)
(* Two history variables tell the alerts of one stuck episode from those   *)
(* of the next: told, the boot that alerted while the task has been stuck  *)
(* without a break since (0: none), and fresh, the tasks not alerted since *)
(* their last heartbeat.                                                   *)
(*                                                                         *)
(* Bounds: MaxBoots starts of the server, MaxFailures failed list queries, *)
(* a sweep lasts at most MaxSweep ticks (each alert is one HTTP request    *)
(* with a 5s timeout, notify/slack.go:25).                                 *)
(***************************************************************************)
EXTENDS Integers, FiniteSets

CONSTANTS Tasks, Threshold, SweepInterval, MaxSweep, MaxFailures, MaxBoots

ASSUME HealthAssumption ==
    /\ Threshold \in Nat /\ SweepInterval \in Nat \ {0}
    /\ MaxSweep \in Nat /\ MaxFailures \in Nat /\ MaxBoots \in Nat \ {0}

VARIABLES
    state, age,    \* the task store, see TaskLifecycle
    pc,            \* the monitor goroutine: "down", "idle" or "sweep"
    timer,         \* ticks since the ticker last fired
    pending,       \* a tick waits in the ticker's channel
    elapsed,       \* ticks since this sweep began
    todo,          \* stuck tasks of the snapshot the loop has yet to visit
    stillStuck,    \* the tasks the sweep found stuck
    alerted,       \* m.alerted
    failures,      \* list queries that have failed
    boot,          \* how often the server has been started
    told,          \* history: the boot that alerted the current episode, or 0
    fresh          \* history: tasks with no alert since their last heartbeat

store   == <<state, age>>
ticker  == <<timer, pending>>
monitor == <<pc, elapsed, todo, stillStuck, alerted>>
history == <<told, fresh>>
vars    == <<store, ticker, monitor, failures, boot, history>>

Store == INSTANCE TaskLifecycle

TypeOK ==
    /\ state \in [Tasks -> {"absent", "running", "idle"}]
    /\ age \in [Tasks -> 0..(Threshold + 1)]
    /\ pc \in {"down", "idle", "sweep"}
    /\ timer \in 0..(SweepInterval - 1) /\ pending \in BOOLEAN /\ elapsed \in 0..MaxSweep
    /\ todo \subseteq stillStuck /\ stillStuck \subseteq Tasks /\ alerted \subseteq Tasks
    /\ failures \in 0..MaxFailures /\ boot \in 1..MaxBoots
    /\ told \in [Tasks -> 0..MaxBoots] /\ fresh \subseteq Tasks

Init ==
    /\ Store!Init
    /\ pc = "idle" /\ timer = 0 /\ pending = FALSE /\ elapsed = 0
    /\ todo = {} /\ stillStuck = {} /\ alerted = {}
    /\ failures = 0 /\ boot = 1
    /\ told = [t \in Tasks |-> 0] /\ fresh = Tasks

\* An unbroken episode ends when its task is no longer stuck; a heartbeat also
\* makes the task fresh.
EpisodesEnd ==
    /\ told' = [t \in Tasks |-> IF Store!Stuck(t)' THEN told[t] ELSE 0]
    /\ fresh' = fresh \cup {t \in Tasks : age'[t] = 0}

\* An alert counts for the episode it finds under way when it is sent.
Told(t) ==
    /\ told' = IF Store!Stuck(t) THEN [told EXCEPT ![t] = boot] ELSE told
    /\ fresh' = IF age[t] > Threshold THEN fresh \ {t} ELSE fresh

-----------------------------------------------------------------------------
\* A client's request, which a server that is down does not serve.
TaskStep(t) ==
    /\ pc # "down"
    /\ Store!Step(t)
    /\ EpisodesEnd
    /\ UNCHANGED <<ticker, monitor, failures, boot>>

\* The clock.  An idle monitor takes its tick before the clock moves on, and
\* a sweep is over within MaxSweep.
Tick ==
    /\ ~(pc = "idle" /\ pending)
    /\ pc = "sweep" => elapsed < MaxSweep
    /\ Store!Tick
    /\ EpisodesEnd
    /\ timer' = IF pc = "down" THEN 0 ELSE (timer + 1) % SweepInterval
    /\ pending' = (pc # "down" /\ (pending \/ timer + 1 = SweepInterval))
    /\ elapsed' = IF pc = "sweep" THEN elapsed + 1 ELSE 0
    /\ UNCHANGED <<pc, todo, stillStuck, alerted, failures, boot>>

\* Mutant of SweepList: a task counts as still stuck only when it is about to
\* be alerted, after the test of m.alerted.
SweepListSkipsMarked ==
    /\ pc = "idle" /\ pending
    /\ pending' = FALSE
    /\ pc' = "sweep"
    /\ elapsed' = 0
    /\ todo' = {t \in Tasks : Store!Stuck(t)}
    /\ stillStuck' = todo' \ alerted
    /\ UNCHANGED <<store, timer, alerted, failures, boot, history>>

\* Lines 62-69: the snapshot, and the clock it is judged by.
SweepList ==
    /\ pc = "idle" /\ pending
    /\ pending' = FALSE
    /\ pc' = "sweep"
    /\ elapsed' = 0
    /\ stillStuck' = {t \in Tasks : Store!Stuck(t)}
    /\ todo' = stillStuck'
    /\ UNCHANGED <<store, timer, alerted, failures, boot, history>>

\* Lines 63-66: the query fails, and this sweep is skipped.
SweepListFails ==
    /\ pc = "idle" /\ pending
    /\ failures < MaxFailures
    /\ failures' = failures + 1
    /\ pending' = FALSE
    /\ UNCHANGED <<store, timer, monitor, boot, history>>

Alerts(t) == pc = "sweep" /\ t \in todo /\ t \notin alerted

\* Mutant of Visit: the mark is set only where the alert is skipped.
VisitUnmarked(t) ==
    /\ pc = "sweep" /\ t \in todo
    /\ todo' = todo \ {t}
    /\ IF Alerts(t) THEN Told(t) ELSE UNCHANGED history
    /\ UNCHANGED <<store, ticker, pc, elapsed, stillStuck, alerted, failures, boot>>

\* Lines 71-94 for one stuck task: mark it, and alert if it was unmarked.
\* Whether Slack takes the message or not, nothing tries again.
Visit(t) ==
    /\ pc = "sweep" /\ t \in todo
    /\ todo' = todo \ {t}
    /\ alerted' = alerted \cup {t}
    /\ IF Alerts(t) THEN Told(t) ELSE UNCHANGED history
    /\ UNCHANGED <<store, ticker, pc, elapsed, stillStuck, failures, boot>>

\* Mutants of Clear: the marks are kept; all marks are dropped.
ClearNothing ==
    /\ pc = "sweep" /\ todo = {}
    /\ pc' = "idle" /\ stillStuck' = {}
    /\ UNCHANGED <<store, ticker, elapsed, todo, alerted, failures, boot, history>>

ClearAll ==
    /\ pc = "sweep" /\ todo = {}
    /\ pc' = "idle" /\ stillStuck' = {} /\ alerted' = {}
    /\ UNCHANGED <<store, ticker, elapsed, todo, failures, boot, history>>

\* Lines 99-105: forget whatever the snapshot did not show stuck.
Clear ==
    /\ pc = "sweep" /\ todo = {}
    /\ pc' = "idle"
    /\ alerted' = alerted \cap stillStuck
    /\ stillStuck' = {}
    /\ UNCHANGED <<store, ticker, elapsed, todo, failures, boot, history>>

\* The process dies, in the middle of a sweep or not; the rows survive.
Crash ==
    /\ pc # "down" /\ boot < MaxBoots
    /\ pc' = "down"
    /\ timer' = 0 /\ pending' = FALSE /\ elapsed' = 0
    /\ todo' = {} /\ stillStuck' = {} /\ alerted' = {}
    /\ UNCHANGED <<store, failures, boot, history>>

\* main starts a new monitor over the same database.
Start ==
    /\ pc = "down"
    /\ pc' = "idle"
    /\ boot' = boot + 1
    /\ UNCHANGED <<store, ticker, elapsed, todo, stillStuck, alerted, failures, history>>

MonitorStep == SweepList \/ Clear \/ \E t \in Tasks : Visit(t)

Next ==
    \/ \E t \in Tasks : TaskStep(t)
    \/ Tick
    \/ SweepList \/ SweepListFails \/ Clear
    \/ \E t \in Tasks : Visit(t)
    \/ Crash \/ Start

\* The goroutine runs, the clock advances, and a supervisor restarts the
\* server.  Nothing is assumed of the tasks.
Fairness == WF_vars(MonitorStep) /\ WF_vars(Tick) /\ WF_vars(Start)

Spec == Init /\ [][Next]_vars /\ Fairness

-----------------------------------------------------------------------------
\* monitor.go:18-19: one alert per stuck episode, not one per sweep tick - as
\* long as the server that sent it stays up.
OncePerEpisodeAndBoot ==
    [][\A t \in Tasks : Alerts(t) /\ Visit(t) => told[t] # boot]_vars

\* monitor.go:97-98: marks are cleared "so a future stuck episode alerts
\* again": a task that stays stuck is alerted in the episode its last heartbeat
\* began, also when it was alerted in an earlier one, a query failed in between
\* or the server restarted.
EveryEpisodeAlerts ==
    \A t \in Tasks : Store!Stuck(t) /\ t \in fresh ~> t \notin fresh \/ ~Store!Stuck(t)
=============================================================================
