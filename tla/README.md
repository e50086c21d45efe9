# LocalOps in TLA+

Specifications of the LocalOps server, its Go client and its shell scripts, the
TLC configurations that check them on small instances, and proofs that TLAPS
checks for every instance. All definitions are translated from the source;
`PROJECT.json` maps each of them to the lines it stands for.

## 1. The system

LocalOps is one Go process over one SQLite file. It records tasks that other
programs run, watchers that other programs check, and schedules; it alerts on
Slack; it executes nothing itself.

| Part | Source | State | Operations | Hard behaviour |
|---|---|---|---|---|
| Task store | `internal/tasks` | tables `tasks`, `task_events` | Create, Update, Heartbeat, Finish, RequestControl | Update reads outside its transaction; no operation looks at the current status |
| Task handlers | `internal/server/handlers_tasks.go` | none | one goroutine per request | interleave freely; a request's context may end |
| Health monitor | `internal/health` | `alerted`, a map in memory | sweep on a ticker | judges a snapshot; forgets on restart; sampled episodes |
| Watchers | `internal/watchers` | tables `watchers`, `watcher_events` | Register, CheckIn | reads back after its commit; equality debounce |
| Scheduler | `internal/scheduler` | table `schedules` | Create, tick | two transactions per run; NULL columns |
| Go client | `client` | per task: context, poller, closed flag | Start, Update, UpdateDetails, Heartbeat, Complete, Fail | lost answers, late requests, cancelled contexts, a polling goroutine |
| Slack notifier | `internal/notify` | none | Send | one attempt; errors are logged |
| Notifications | `internal/notifications` | table `notifications` | Send | record, then send under the caller's context |
| Slack commands, Socket Mode | `internal/server/handlers_slack.go`, `slack_socketmode.go` | a connection | dispatch | acknowledged after execution; backoff |
| Scripts | `scripts` | shell variables | ping-watch, tunnel-watch, task-wrap | calls that are never repeated; debounce; traps between any two commands; a background heartbeat loop |
| Wiring, config, storage, system metrics, CLI | `cmd`, `internal/config`, `internal/storage`, `internal/system` | the database file | start, stop | restart over the same database |

How they interact: handlers, monitor and scheduler share the database and
nothing else. The client and the operators reach the task store through the
handlers. The monitor lists the running tasks and the scheduler creates tasks.
The watchers and the monitor send through the notifier.

What makes each part correct:

- *Task store*: a row is what its history says; no change goes unlogged; the
  last control request and the last outcome are never undone by a stale
  update; a finished task has a completion time; heartbeats alone make a task
  younger.
- *Monitor*: each stuck episode alerts, and alerts once.
- *Watchers*: the count of fails is the history's; an alert is deserved; each
  outage and each recovery is announced once.
- *Client*: the worker's first verdict is the one recorded; a remote cancel
  arrives; nothing leaks.
- *Scheduler*: a due schedule runs, once per interval.
- *Slack commands and notifications*: no answer runs ahead of the database; commands take
  effect in order and no more often than delivered; each is answered; a lost
  connection comes back; nothing is posted without its record.
- *Watcher scripts*: a lasting change is noticed and told once; an outage's
  length is its own; the task shows what the script believes.
- *Wrapper*: heartbeats that arrive keep the task alive; the verdict is the
  command's; the wrapper ends with it.

## 2. Modules

| Module | Models | Notes |
|---|---|---|
| `TaskModel` | row operations of the task store, `Task`, `Status` | pure operators, shared by `TaskStore`, `Sdk`, `SlackCommands` and `TaskWrap` |
| `TaskLifecycle` | what a task is to an observer: absent, running, idle, and an age | abstract specification |
| `TaskStore` | the task store under its handlers | implements `TaskLifecycle` |
| `Health` | the monitor, composed with `TaskLifecycle` | `Store == INSTANCE TaskLifecycle`; its `TaskStep` is any step of a task there |
| `Announcements` | what the watchers' service promises to who reads its messages: outages and recoveries, told one after the other | abstract specification |
| `Watchers` | check-ins and registrations, the alerting rule | implements `Announcements` for the watchers checked in order |
| `Sdk` | one task: worker, poller, network, server's row, operator | reuses `TaskModel` for the server's half |
| `Scheduler` | schedules and their runner | |
| `SlackCommands` | slash commands over Socket Mode and HTTP, notifications, Slack as the other side | reuses `TaskModel` for the control actions |
| `WatchScripts` | `ping-watch.sh` and `tunnel-watch.sh` with their shared calls | one module, as they share everything but the check |
| `TaskWrap` | `task-wrap.sh`: wrapper, command, heartbeat loop, signals, operator | reuses `TaskModel`; implements `TaskLifecycle`, so what is proved of the monitor is true of wrapped tasks |
| `MCTaskStore`, `MCWatchers`, `MCSlackCommands` | symmetry sets, negative constants and functions for TLC | the other modules need none |
| `TaskStoreProofs`, `HealthProofs`, `WatchersProofs`, `SdkProofs`, `SchedulerProofs`, `WatchScriptsProofs`, `SlackCommandsProofs`, `TaskWrapProofs` | proofs | |

A definition whose comment calls it a mutant is a faulty form of the one that
follows it. No specification uses it; it shows that a property can fail.

### How state and actions correspond to the code

**TaskStore.** `tasks` and `events` are the two tables. One transaction, or one
statement outside any, is one action: SQLite has a single connection here
(`storage.Open`), and a deferred `Rollback` undoes what did not commit.
`Store.Update` is the exception: its `Get` comes before `BeginTx`, so it is
`BeginUpdate` and `CommitUpdate` with the handler's locals in `updates`
between them; `AbortUpdate` is every way to leave early. Data columns are
members of `Fields`; `error` and `completed_at` are set or not; timestamps
are clock ticks.

**Health.** `timer` and `pending` are the `time.Ticker` and its channel of one.
A sweep is `SweepList` (query and clock), a `Visit` per stuck task of the
snapshot (mark, then alert if unmarked) and `Clear`; tasks move in between.
`Crash` may come anywhere; `Start` is a new process with an empty map. `told`
and `fresh` are history variables.

**Watchers.** A check-in is `Commit` (the transaction), `ReadBack` (the `Get`
after it) and `Announce` (the switch and the message); `Drop` ends it at any
point after the commit. `told` and `orderly` are history variables. The promises
about announcements hold of a watcher in `orderly`: its check-ins came one at a
time, none was cut off, none said degraded, and its threshold stood still while
it was failing; `Announcements` has lost all others (`told` there is "lost").
`OutagesAreAnnounced` asks the same of every watcher, as the
comments do, and is violated. A down message is deserved (`AlertsAreDeserved`) by
as many fails as the threshold in force; a degraded check-in is a fail to the code.
For a watcher in `orderly` the fails are down check-ins, the last there are.
`AlertsFollowDowns` asks down check-ins of every watcher, as the docs do, and the
code breaks it (finding 6).

**Sdk.** `worker` says which call the worker is in. A request in `net` may
be served, or dropped, after the client has given up on it. `CtxDone` is the
derived context. The server's update has its two halves here too. The poller's
`select` is `PollTick` and `PollExits`. `outcome`, `gaveUp` and `recorded` are
history variables: the first verdict, whether the worker ever stopped waiting for
an answer, and the verdict the server recorded last.

**Scheduler.** `Tick` lists and captures the clock; `Spawn` and `MarkRun` are
the two transactions of one run. `Unreadable` is what `scan` cannot read.
`Seeded` schedules were put into the database with a `last_run_at` by somebody
else: no code path of the program produces one, and without one the loop of
`tick` is never entered (that is finding 4). Times have fractions of a second,
and `Due` compares them as `fmtTime` writes them: `Text` is a time's place in the
order of its RFC3339Nano texts, where a whole second comes after all its
fractions.

**SlackCommands.** `conn` is where the socket goroutine is in `Run` and
`runOnce`, `link` the WebSocket, `inbox` what Slack has sent over it. `Receive`
is one turn of the read loop; the command it reads is then executed step by step
in `job["socket"]` - statement, post or read-back - until `Ack` or `AckFails`
lets the goroutine read on. A request over HTTP has a `job` of its own and a
caller who may hang up: from then on its statements fail (`Cancelled`). Slack
delivers a command again until it is acknowledged (`Deliver`), and a connection
that breaks loses what was under way. `kind`, constant in a behaviour, says what
is asked for. `applied` and `overtaken` are history variables.

**WatchScripts.** `pc` is the command the script is about to run; each of its
calls is one action, since the trap (`Interrupt`) runs between two commands.
`Report` is a curl of `task-lib.sh`: it reaches the row or is lost, and nobody
looks. `Check` is the loop's `if`, with `Counted`, `Changed` and `SinceAfter` for
the shell variables. The counts are kept up to their thresholds, which is as far
as the script compares them. `messages`, `missed` and `early` are history
variables.

**TaskWrap.** `wrapper`, `command`, `loop` and `row` are the four parties. Each
call has its parts: what LocalOps does with it, and its end for the one that
waits - `Create` and `Begin`, `Report` and `ReportEnds`, `Beat` and `BeatEnds`
(`BeatLost` when it fails). `server` may be up, down, or silent: it then takes
connections and answers none, and no call ends, since curl is given no timeout.
`KillLoop` ends the background subshell and not the curl it waits for (`stray`).
`Interrupt`, `Terminate` and `SessionEnds` differ in whom they reach. A tick is a
part of the loop's sleep of 30 s, which is `Interval` of them; time passes at any
moment, also while calls are under way. `slept` is how far the loop's sleep is,
`age` the ticks since the row's last sign of life, and `excused`, a history
variable, the ticks of it that lost heartbeats had slept for and that passed while
a call of the wrapper's start or of the loop was under way.

## 3. Runs

| Run | Configuration | Result |
|---|---|---|
| `store` | 1 task, 2 handlers in Update (symmetric), clock to 2, 5 events | six properties hold |
| `store_lost_update` | 1 task, 1 handler, 2 fields | violated: finding 1 |
| `health` | 2 tasks, threshold 4, interval 2, sweeps of at most 1 tick, 1 failed query, 2 boots | three properties hold |
| `watchers` | 2 concurrent calls (symmetric), all states, thresholds 1 and 2, `MayDrop`, 6 check-ins | five properties hold |
| `watchers_concurrent` | 2 calls | violated: finding 2 |
| `sdk` | losses, parent may end, operator cancels, pauses, resumes | four properties hold |
| `sdk_remote_cancel` | no loss, parent lives | violated: finding 3 |
| `scheduler` | 1 seeded and 1 new schedule, intervals 1 and 2 s, half seconds, clock to 4.5 s, 1 failure, 2 boots | three properties hold |
| `scheduler_new_schedule` | 1 new schedule | violated: finding 4 |
| `slack` | 2 commands, 1 delivered again, 1 HTTP request, inbox of 2, 1 failed statement, 2 boots, any number of lost connections | seven properties hold |
| `watch_scripts` | both scripts, thresholds 1 and 2, 4 changes of the target, 1 outage of LocalOps, signals anywhere | six properties hold |
| `task_wrap` | sleep of 2 ticks, threshold of 6, 2 outages or silences, 2 actions of an operator, signals anywhere | six properties hold |

Two more configurations are kept for the promises that findings 5 and 6 are about:
`tlc -config MCTaskWrapSilence.cfg TaskWrap` finds `NeverBlocks` violated, and
`tlc -config MCWatchersDegraded.cfg MCWatchers` finds `AlertsFollowDowns` violated.
The runs `task_wrap` and `watchers` check what the code keeps of the two.

`CHECK_DEADLOCK FALSE` stands where the system stops: in the client's runs, once
a worker has returned and its poller is off, and in `watch_scripts`, once a
script has exited.

### Why the bounds are enough

- *One task in `TaskStore`.* No operation on one row reads another, so a
  second task adds only products of behaviours; what interleaves is handlers
  on one row. Five events are enough for a task to be created (two events),
  finished, resumed and updated stalely. The bounds cut behaviours off at
  the horizon and change no reachable state before it. The proofs need none of
  them.
- *`Health`.* A missed episode needs one earlier alert, one heartbeat, and a
  sweep at the wrong moments; two tasks let one sweep find both. Threshold 4 is
  tight for interval 2, a sweep of up to 1 tick and a failed query: with
  threshold 3 `EveryEpisodeAlerts` fails.
- *`Watchers`.* Histories are longer than the largest threshold plus a
  recovery; two calls are what it takes to read back each other's count.
- *`Sdk`.* Only the number of reports outstanding is bounded, at one; the state
  space is finite without any other bound.
- *`Scheduler`.* Nine half seconds hold two intervals of 2 s and four of 1 s,
  with an outage in between; half a second is all it takes for a whole second to
  come after its fraction.
- *`SlackCommands`.* A command can only be overtaken by one that follows it, or
  by a request beside it: two commands and a request. `Asked` pairs control
  actions that undo each other, notifications on both ways in, and the envelopes
  that are not executed. The backoff is bounded by the model's own rule, with a
  limit of 2 in place of 30.
- *`WatchScripts`.* Four changes are a blip, an outage and its end, and one more;
  one outage of LocalOps loses a report at any place. Larger thresholds only add
  counts between.
- *`TaskWrap`.* The script's threshold is six of its sleeps (3 times 60 s). The
  run has three sleeps of two ticks: enough for heartbeats to be lost one after
  the other, for a call to take a part of a sleep, all of it or more, and for both
  to add up. Four sleeps and more only repeat this; a threshold of 12 (six sleeps)
  passes too, and `BeatsKeepItAlive` is proved for all. Two outages let LocalOps go,
  return and go again, one way or the other. Two actions of an operator are a
  pause and a resume, or a cancel and a resume.

### Fairness

Safety needs none. `Health`: the monitor's goroutine runs, time passes, and a
supervisor restarts the server (`deployments/` has a systemd unit); nothing is
assumed of tasks. `Sdk`: the server serves what reaches it, every call ends (the
HTTP client has a 5s timeout), and the poller's select takes `ctx.Done()`, the
only case ready between two ticks; the worker need never return.
`Scheduler`: the runner's goroutine runs, a supervisor restarts, time passes.
`SlackCommands`: the socket goroutine runs, every statement, post and write ends
(contexts with timeouts), a supervisor restarts, and Slack, asked again and
again, at last accepts a connection - strong fairness of `Connect`, since
`ConnectFails` may come between; nothing is assumed of the commands or of HTTP.
`WatchScripts`: the script runs and each of its calls ends, which the code alone
does not guarantee (curl has no timeout here); time passes; LocalOps need never
return. `TaskWrap` does not assume this: the wrapper takes its steps while it can,
and time passes; a call ends when LocalOps has answered it or is gone, but nothing
ends one on a LocalOps that is silent, which need never end either. Of the
wrapped command, of heartbeats and of LocalOps nothing is assumed.
`OnlySilenceBlocks` has a silence that is over as its premise, in the open.

## 4. Findings

The first four are violated runs, the last two are violated under a configuration
of their own; `PROJECT.json` quotes the line the code disagrees with.

1. An update writes stale values over fields it does not carry.
2. Two concurrent check-ins can step over the threshold together, unannounced.
3. A remote cancel or stop never cancels the worker's context.
4. A schedule that has never run cannot be read, so none ever runs.
5. A LocalOps that takes a connection and never answers blocks the wrapper for
   ever: no curl of `task-wrap.sh` has a timeout, and its line 20 says that it
   "Never blocks" (`NeverBlocks`, `MCTaskWrapSilence.cfg`).
6. One degraded check-in and one down are enough for a threshold of two
   "consecutive `down` check-ins" (`README.md:235`, `watchers/model.go:35-36`): the
   code counts any fail (`AlertsFollowDowns`, `MCWatchersDegraded.cfg`).

More disagreements show as the conditions without which a property fails:

- With a stuck threshold below the sweep interval a new episode can pass for the
  old one and never alerts (`monitor.go:97-98` says it does):
  `EveryEpisodeAlerts` needs the threshold of the `health` run.
- Recovery by way of degraded is silent (`service.go:27-28`: "never silently on
  recovery either"): `OrderlyChangesAreAnnounced` needs `orderly`.
- Complete and Fail send nothing once the parent context has ended
  (`tracker.go:159`): `VerdictIsRecorded` needs a living parent.
- A report of `ping-watch` that was lost is not repeated, and its task shows the
  old status until the next change: `RowFollowsScript` needs `~missed`, and only
  `tunnel-watch` heals (`TunnelStatusHeals`).
- With `DOWN_THRESHOLD` above 1 an earlier blip counts as the beginning of the
  outage that is reported: `OutagesAreTimed` needs `limit.down = 1`.
- A failing command whose output ends in a tab or a backslash fails its task
  without the error (`task-wrap.sh:15-16` promises it): `VerdictIsTheCommands`
  asks only the converse.

The models also show behaviour that the code means or the docs leave open, and
that a property here therefore allows: a finished task can be paused, resumed
or queued again (`RequestControl` and `Update` never look at the status); a
restart repeats the alert of an episode under way (`OncePerEpisodeAndBoot`, not
once per episode); after degraded check-ins, a first down one may find the count
past the threshold and alert nobody (`orderly` excludes them); a blip below the
threshold is told as a recovery, which `DESIGN.md:498` asks for ("a watcher
recovering `down → ok`") although no outage was told; a
heartbeat that hangs holds the loop until the task is stuck (`BeatsKeepItAlive`
excuses the time a call takes);
a command that Slack delivers again runs again, and may overwrite a later one
(`CommandsInOrder` excludes just those); "Sent." means recorded, not posted; an
error may be answered although the control action was committed; after Ctrl-C or
SIGTERM the wrapper's heartbeat loop lives on and keeps the task from ever being
stuck; a wrapped command's verdict overwrites an operator's cancel.

## 5. Proofs

For all values of the constants, from the named assumptions in the modules.

- **TaskStore** (`TaskStoreProofs`). The history properties are not inductive by
  themselves: they speak of rows and events, while a pending update carries a
  merge of an older row. `Inv` adds that a pending merge is well typed and is of
  a task that exists. The lemmas `LastButHit`, `LastButMiss` and `LastButNoise`
  say how one more event changes what a history says last; with them each action
  has one short argument per conjunct, and `CommitUpdate` appends only
  `PROGRESS`, which is noise to all three properties. They give `Typing`,
  `ControlIsNeverStale`, `OutcomeIsRecorded` and `StatusIsAuditable`. The stamp
  of a finished row (a part of `OutcomeIsRecorded`) needs that a pending merge
  holds a terminal status only if the row has its stamp by then, which stays
  true because no action clears the stamp. `ChangesAreLogged` is an action
  property from the same invariant. `StoreImplementsLifecycle` maps each action
  to one of `TaskLifecycle`'s, or to a stutter; a clock tick maps to `Tick` with
  ages capped at `Threshold + 1`.
- **Health** (`HealthProofs`). `AlertsOncePerEpisode`: an unbroken episode this
  boot has alerted is still marked, and a sweep under way has it in
  `stillStuck`, so the coming `Clear` keeps the mark.
  `TypeCorrect` adds that a server that is down has a start left.
- **Watchers** (`WatchersProofs`). The row equals a fold of its history; a call
  that has committed or read back carries a count the history has reached, which
  later check-ins cannot take away. For the orderly
  watchers `OrderInv` says what was told at rest (`ToldInRest`) and while the one
  check-in about it is on its way (`ToldDuring`): the failure that reaches the
  limit is yet to be announced, and so is the recovery. `ChangesAnnounced`
  follows, and with the counts and `NeverDegraded` (a watcher in order never said
  degraded, so its fails are down check-ins) `NoUndeservedAlert`. `WatchersAnnounce` is the
  refinement: a commit finds a watcher of which the truth was told and may begin
  or end an outage, a message tells of one that is on or over, whatever disturbs
  the order loses the watcher, and `OneWatcher` lifts a step about one watcher to
  all of them.
- **Sdk** (`SdkProofs`). `OneVerdict`: once a verdict is given, the worker is in
  that very call or its context is cancelled, so no second finishing request can
  leave, however late the first is served. `VerdictDelivered` adds `Delivered`:
  while every call has been answered, the network holds at most the request of
  the call under way, and no one but a finishing call cancels the context (the
  poller never does: an answer is never "cancel" or "stop", which is finding 3
  in a lemma). `Typing` includes that no request ever finds its row missing.

- **Scheduler** (`SchedulerProofs`). `TextOrder` is what the comparison of texts
  is worth: a time that is due by its text is due by its second. With it the
  `Ledger` of a schedule - its marked runs times its interval, from the second
  it was first due in, do not exceed the second it was last marked in - is kept by
  every step, whatever fails between a run's two transactions
  (`OncePerInterval`).
- **Slack** (`SlackCommandsProofs`). A job carries what its step has done by then:
  a job about to post has its record, one that answers with a status has its
  action among the applied. `ToldIsTrue` is that, carried over to what users saw;
  `AnswerIsOwn` needs that a job between its commit and its answer which nobody
  overtook finds the row as it left it. What was executed, and in which order, is
  a second invariant over the first (`Flow`). `NothingUnrecorded` needs `Paid`: a
  command's records, its place in hand and the envelopes that wait add up to no
  more than its deliveries; the lemmas `AppendWaiting` and `TailWaiting` count
  the envelopes when the inbox grows and when its head is read. A request's job
  is taken up once (`Once`), and a job about to post has a record without a post
  (`RecordFirst`). `AppliedInOrder` needs `QueueOrder`: on the way through inbox,
  hand and row, whatever is ahead of a command that was delivered once has a
  smaller number - a first delivery goes behind everything else because Slack
  begins its commands in order (`Begun`) and nothing is anywhere that it did not
  send (`Sent`).
- **Scripts** (`WatchScriptsProofs`). `NoRepeatedMessage`, `EveryOutageIsTimed`
  and `RowIsTheScripts` from one invariant that says, for each command the script
  may be about to run, how `seen`, `last`, `since` and the row stand. `Typing`
  says besides that a count never passes its threshold (`CountedWithin`).
- **Wrapper** (`TaskWrapProofs`). `Places` says which of wrapper, command, loop
  and stray curl can be where together, and that none of them speaks of a task
  that was not created; `Paid` says that, while the loop lives,
  every tick of age is excused or one of the sleep under way: a tick adds to one of
  the two, a heartbeat that fails turns its sleep into ticks excused, and one that is
  served clears both. `OnlyLossOrDelayMakesStuck` follows from `Paid`.
  `VerdictStands` is inductive with `Places`. `WrapImplementsLifecycle` maps the
  four parties' steps to a task's: a heartbeat that comes after the verdict makes
  the task younger and moves nothing else.

Model-checked only: liveness (`EveryEpisodeAlerts`, `PollerStops`,
`DueSchedulesRun`, `DeliveredIsAnswered`, `Reconnects`, `LastingChangeIsNoticed`,
`TunnelStatusHeals`, `OnlySilenceBlocks`, `LostVerdictIsFound`), which the prover
cannot treat under fairness, and which has no part in what is proved. Every
safety property of a run that passes is a theorem.

## 6. Not modelled, and why

Rendering and parsing (HTTP bodies, Slack texts, CLI arguments and output),
signature verification, system metrics and configuration (the server's and the
client's environment files) hold no state of interest. Graceful shutdown, the
connection pool and `busy_timeout` are abstracted by atomic transactions and
`Crash`. `CheckIn` of the client is one request without a retry, the caller of
`Watchers`' `Commit`. `Overdue` watchers are never swept: there is no code to
model. The product in `Task.Stuck` overflows only for heartbeats expected
centuries apart; its width is left out.

## 7. Plan

Done: the task store and its refinement, the monitor over the abstract store,
watchers and the announcements they implement, the client, the scheduler with the
order of its texts, Slack commands with Socket Mode and notifications, the
scripts, the wrapper as a task of the abstract store; a theorem for each safety
property of the runs.

Left:

1. Abstract specifications of the client's handle (one verdict, recorded or
   lost) and of the slash commands (asked, executed, answered) that `Sdk` and
   `SlackCommands` implement.
2. `WatchScripts` over `Health`, so that an alert about a script nobody runs any
   more is a behaviour of one system.
3. The five seconds of a graceful shutdown, in `SlackCommands`.
