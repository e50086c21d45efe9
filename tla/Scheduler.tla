------------------------------ MODULE Scheduler ------------------------------
(***************************************************************************)
(* Recurring schedules (internal/scheduler/scheduler.go): the schedules    *)
(* table, the handler that adds to it, and the runner's goroutine.         *)
(*                                                                         *)
(* A tick lists the due schedules once and takes them one by one: create   *)
(* the task in one transaction (Spawn), then set last_run_at and           *)
(* next_run_at in another (MarkRun).  Each can fail, and the process can   *)
(* die between them.                                                       *)
(*                                                                         *)
(* scan reads last_run_at, which is NULL until the first MarkRun, into a   *)
(* Go string: database/sql refuses, so a listing that meets such a row     *)
(* fails as a whole.  Seeded are the schedules the database holds from     *)
(* elsewhere (an operator's SQL), with a last_run_at.                      *)
(*                                                                         *)
(* Time is in ticks, TicksPerSecond to the second, and a tick is a         *)
(* fraction with one decimal; intervals are whole seconds.  A time is      *)
(* stored and compared as its RFC3339Nano text, which drops trailing       *)
(* zeros: "05Z" sorts after "05.5Z".                                       *)
(*                                                                         *)
(* Bounds: MaxTime (clock), MaxFailures (failed statements), MaxBoots      *)
(* (starts of the server).                                                 *)
(***************************************************************************)
EXTENDS Integers, FiniteSets

CONSTANTS Schedules, Seeded, Intervals, TicksPerSecond, MaxTime, MaxFailures, MaxBoots

ASSUME SchedulerAssumption ==
    /\ Seeded \subseteq Schedules
    /\ Intervals \subseteq Nat \ {0} /\ Intervals # {}
    /\ TicksPerSecond \in {1, 2, 5, 10}
    /\ MaxTime \in Nat /\ MaxFailures \in Nat /\ MaxBoots \in Nat \ {0}

Null == -1      \* SQL's NULL

VARIABLES
    rows,       \* the schedules table
    now,        \* the clock
    pc,         \* the runner: "idle", "loop", "mark" or "down"
    at,         \* the tick's own reading of the clock
    todo,       \* schedules the tick has listed and not taken
    current,    \* the one whose task was created and whose run is to be marked
    failures, boot,
    spawned,    \* tasks created, per schedule
    first,      \* history: when the schedule was first due
    lost        \* history: tasks created whose run was never marked

runner  == <<pc, at, todo, current>>
history == <<first, lost>>
vars    == <<rows, now, runner, failures, boot, spawned, history>>

NoRow == [interval |-> 0, last |-> Null, next |-> 0]
Rows  == [interval : Intervals, last : Nat \cup {Null}, next : Nat]

Exists(n) == rows[n] # NoRow

Second(t)   == t \div TicksPerSecond
Fraction(t) == t % TicksPerSecond

\* fmtTime: where a time stands in the order of the texts.  Within a second
\* the whole one comes last, as it has no fraction and "." < "Z".
Text(t) ==
    Second(t) * (TicksPerSecond + 1) + (IF Fraction(t) = 0 THEN TicksPerSecond ELSE Fraction(t))

\* due's WHERE; no caller ever disables a schedule.
Due(n, time) == Exists(n) /\ Text(rows[n].next) <= Text(time)

\* The rows a listing meets that scan cannot read.
Unreadable(S) == {n \in S : rows[n].last = Null}

TypeOK ==
    /\ rows \in [Schedules -> Rows \cup {NoRow}]
    /\ now \in 0..MaxTime /\ at \in 0..MaxTime
    /\ pc \in {"idle", "loop", "mark", "down"}
    /\ todo \subseteq Schedules /\ (pc = "loop" <=> todo # {} /\ current = {})
    /\ current \subseteq Schedules /\ (pc = "mark" <=> current # {})
    /\ failures \in 0..MaxFailures /\ boot \in 1..MaxBoots
    /\ spawned \in [Schedules -> Nat]
    /\ first \in [Schedules -> Nat] /\ lost \in [Schedules -> Nat]

Init ==
    /\ \E i \in Intervals, f \in 0..TicksPerSecond - 1 :
          LET next == i * TicksPerSecond + f IN
          /\ rows = [n \in Schedules |->
                       IF n \in Seeded THEN [interval |-> i, last |-> 0, next |-> next] ELSE NoRow]
          /\ first = [n \in Schedules |-> IF n \in Seeded THEN next ELSE 0]
    /\ now = 0 /\ at = 0 /\ pc = "idle" /\ todo = {} /\ current = {}
    /\ failures = 0 /\ boot = 1
    /\ spawned = [n \in Schedules |-> 0]
    /\ lost = [n \in Schedules |-> 0]

-----------------------------------------------------------------------------
After(t, interval) == t + interval * TicksPerSecond

\* POST /schedules.  The row is there although reading it back fails and the
\* caller is told so; a name that is taken changes nothing.
Create(n, interval) ==
    /\ pc # "down" /\ ~Exists(n)
    /\ rows' = [rows EXCEPT ![n] = [interval |-> interval, last |-> Null, next |-> After(now, interval)]]
    /\ first' = [first EXCEPT ![n] = After(now, interval)]
    /\ UNCHANGED <<now, runner, failures, boot, spawned, lost>>

\* Mutants of Tick: a listing that fails is walked all the same, as far as it
\* got; schedules are taken before they are due.
TickKeepsList ==
    /\ pc = "idle"
    /\ at' = now
    /\ todo' = {n \in Schedules : Due(n, now)}
    /\ pc' = IF Unreadable(todo') = {} /\ todo' # {} THEN "loop" ELSE "idle"
    /\ UNCHANGED <<rows, now, current, failures, boot, spawned, history>>

TickTakesAll ==
    /\ pc = "idle"
    /\ at' = now
    /\ todo' = {n \in Schedules : Exists(n) /\ Unreadable({n}) = {}}
    /\ pc' = IF todo' = {} THEN "idle" ELSE "loop"
    /\ UNCHANGED <<rows, now, current, failures, boot, spawned, history>>

\* The ticker fires: list what is due.  One unreadable row fails the listing,
\* and the tick is over.
Tick ==
    /\ pc = "idle"
    /\ at' = now
    /\ LET due == {n \in Schedules : Due(n, now)} IN
       IF due = {} \/ Unreadable(due) # {}
         THEN UNCHANGED <<pc, todo>>
         ELSE pc' = "loop" /\ todo' = due
    /\ UNCHANGED <<rows, now, current, failures, boot, spawned, history>>

\* Mutant of TickFails: a failed listing ends the goroutine, not the tick.
TickFailsForGood ==
    /\ pc = "idle" /\ failures < MaxFailures
    /\ pc' = "gone" /\ at' = now /\ failures' = failures + 1
    /\ UNCHANGED <<rows, now, todo, current, boot, spawned, history>>

\* The listing fails for another reason: the tick is over.
TickFails ==
    /\ pc = "idle" /\ failures < MaxFailures
    /\ at' = now /\ failures' = failures + 1
    /\ UNCHANGED <<rows, now, pc, todo, current, boot, spawned, history>>

\* tasks.Store.Create commits the task of a listed schedule.
Spawn(n) ==
    /\ pc = "loop" /\ n \in todo
    /\ spawned' = [spawned EXCEPT ![n] = @ + 1]
    /\ pc' = "mark" /\ current' = {n} /\ todo' = todo \ {n}
    /\ UNCHANGED <<rows, now, at, failures, boot, history>>

\* Back to the loop, or done with it.
NextSchedule(rest) == pc' = (IF rest = {} THEN "idle" ELSE "loop") /\ todo' = rest

\* Creating the task fails: the schedule stays due, the loop goes on.
SpawnFails(n) ==
    /\ pc = "loop" /\ n \in todo /\ failures < MaxFailures
    /\ failures' = failures + 1
    /\ NextSchedule(todo \ {n})
    /\ UNCHANGED <<rows, now, at, current, boot, spawned, history>>

\* The run is marked with the tick's clock reading, however late it is by now;
\* intervals missed while the server was down are not made up for.
MarkRun ==
    /\ pc = "mark"
    /\ rows' = [n \in Schedules |->
                   IF n \in current
                     THEN [rows[n] EXCEPT !.last = at, !.next = After(at, rows[n].interval)]
                     ELSE rows[n]]
    /\ current' = {} /\ NextSchedule(todo)
    /\ UNCHANGED <<now, at, failures, boot, spawned, history>>

Unmarked == lost' = [n \in Schedules |-> IF n \in current THEN lost[n] + 1 ELSE lost[n]]

\* Marking it fails: the task is there, and the schedule is still due.
MarkRunFails ==
    /\ pc = "mark" /\ failures < MaxFailures
    /\ failures' = failures + 1
    /\ Unmarked
    /\ current' = {} /\ NextSchedule(todo)
    /\ UNCHANGED <<rows, now, at, boot, spawned, first>>

\* The process dies; the tables survive.
Crash ==
    /\ pc # "down" /\ boot < MaxBoots
    /\ pc' = "down" /\ todo' = {} /\ current' = {} /\ at' = 0
    /\ Unmarked
    /\ UNCHANGED <<rows, now, failures, boot, spawned, first>>

Start ==
    /\ pc = "down"
    /\ pc' = "idle" /\ boot' = boot + 1
    /\ UNCHANGED <<rows, now, at, todo, current, failures, spawned, history>>

Clock ==
    /\ now < MaxTime
    /\ now' = now + 1
    /\ UNCHANGED <<rows, runner, failures, boot, spawned, history>>

Run == Tick \/ MarkRun \/ \E n \in Schedules : Spawn(n)

Next ==
    \/ \E n \in Schedules, interval \in Intervals : Create(n, interval)
    \/ Tick \/ TickFails
    \/ \E n \in Schedules : Spawn(n) \/ SpawnFails(n)
    \/ MarkRun \/ MarkRunFails
    \/ Crash \/ Start
    \/ Clock

\* The runner's goroutine runs, a supervisor restarts the server, time passes.
Fairness == WF_vars(Run) /\ WF_vars(Start) /\ WF_vars(Clock)

Spec == Init /\ [][Next]_vars /\ Fairness

-----------------------------------------------------------------------------
\* A schedule runs once per interval and no more, counted in whole seconds from
\* the one it first comes due in: every task beyond that is one whose run was
\* never marked (a crash or a failed statement between the two transactions).
\* The order of the texts (scheduler.go:108) may bring a run forward within its
\* second, and the error does not add up from run to run.
AtMostOncePerInterval ==
    \A n \in Schedules :
        spawned[n] > lost[n] =>
            Second(first[n]) + (spawned[n] - lost[n] - 1) * rows[n].interval <= Second(now)

\* A schedule whose time is a second past.
Overdue(n) == Exists(n) /\ rows[n].next + TicksPerSecond <= now

\* An overdue schedule has its run, whatever fraction its time has, unless an
\* unreadable row is due with it.
DueSchedulesRun ==
    \A n \in Schedules :
        Overdue(n) ~> ~Overdue(n) \/ Unreadable({m \in Schedules : Due(m, now)}) # {}

\* docs/DESIGN.md:614: "Each scheduled execution creates a normal tracked task";
\* scheduler.go:66-67: "due to run for the first time after intervalS seconds".
\* A schedule that comes due is run.
ScheduledMeansRun ==
    \A n \in Schedules : Due(n, now) ~> spawned[n] > 0
=============================================================================
