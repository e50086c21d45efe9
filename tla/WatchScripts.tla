----------------------------- MODULE WatchScripts -----------------------------
(***************************************************************************)
(* The two watcher scripts, scripts/ping-watch.sh and tunnel-watch.sh, with *)
(* the calls they share (task-lib.sh, notify.sh).  A script models itself  *)
(* as one task: it creates the task, checks its target in a loop, reports  *)
(* and heartbeats, notifies when the target has changed, and stops the     *)
(* task when it is interrupted.                                            *)
(*                                                                         *)
(* Every call is one curl, never repeated: what the server does not take   *)
(* is lost, and the script goes on.  The trap runs between two commands.   *)
(*                                                                         *)
(* ping-watch reports a change once, after enough equal results in a row;  *)
(* tunnel-watch reports at every check, and takes each result as it is.    *)
(*                                                                         *)
(* History: messages (what notify.sh was called with), missed (the last    *)
(* report did not reach the row), early (down_since was set by a failure   *)
(* that a success followed, before the script took the target for down).   *)
(* Bounds: MaxChanges (of the target), MaxOutages (of LocalOps).           *)
(***************************************************************************)
EXTENDS Integers, Sequences

CONSTANTS Scripts, UpThresholds, DownThresholds, MaxChanges, MaxOutages

ASSUME WatchAssumption ==
    /\ Scripts \subseteq {"ping", "tunnel"} /\ Scripts # {}
    /\ UpThresholds \subseteq Nat \ {0} /\ UpThresholds # {}
    /\ DownThresholds \subseteq Nat \ {0} /\ DownThresholds # {}
    /\ MaxChanges \in Nat /\ MaxOutages \in Nat

VARIABLES
    script, limit,      \* which script, and its UP_ and DOWN_THRESHOLD
    target, changes,    \* the host or tunnel, and how often it has changed
    server, outages,    \* whether LocalOps is reachable
    row,                \* the script's task as LocalOps shows it
    id,                 \* TASK_ID is not empty
    pc,                 \* the command the script is about to run
    seen,               \* the result of this check
    count,              \* consecutive_ok and consecutive_down, up to the limit
    last,               \* last_status
    since,              \* down_since is set
    messages, missed, early

world   == <<target, changes, server, outages>>
shell   == <<id, pc, seen, count, last, since>>
history == <<messages, missed, early>>
vars    == <<script, limit, world, row, shell, history>>

Results == {"ok", "down"}       \* "connected" and "not connected" of a tunnel
Loop    == {"check", "update", "notify", "beat"}
Ended   == {"exited", "dead"}

NoRow == [status |-> "absent", shows |-> "nothing"]
Rows  == [status : {"absent", "running", "stopped"},
          shows : {"nothing", "title", "stopped"} \cup Results]

Init ==
    /\ script \in Scripts
    /\ limit \in [ok : UpThresholds, down : DownThresholds]
    /\ target \in Results /\ changes = 0
    /\ server \in {"up", "down"} /\ outages = 0
    /\ row = NoRow /\ id = FALSE
    /\ pc = "create" /\ seen = "ok" /\ count = [ok |-> 0, down |-> 0]
    /\ last = "none" /\ since = FALSE
    /\ messages = <<>> /\ missed = FALSE /\ early = FALSE

-----------------------------------------------------------------------------
\* The world.

TargetChanges ==
    /\ changes < MaxChanges /\ changes' = changes + 1
    /\ target' = IF target = "ok" THEN "down" ELSE "ok"
    /\ UNCHANGED <<script, limit, server, outages, row, shell, history>>

ServerGoes ==
    /\ server = "up" /\ outages < MaxOutages
    /\ server' = "down" /\ outages' = outages + 1
    /\ UNCHANGED <<script, limit, target, changes, row, shell, history>>

ServerReturns ==
    /\ server = "down" /\ server' = "up"
    /\ UNCHANGED <<script, limit, target, changes, outages, row, shell, history>>

-----------------------------------------------------------------------------
\* The script.

\* task_create.  An answer that is lost leaves a row that nobody reports to.
Create ==
    /\ pc = "create"
    /\ pc' = "check"
    /\ IF server = "up"
         THEN row' = [status |-> "running", shows |-> "title"] /\ id' \in BOOLEAN
         ELSE UNCHANGED <<row, id>>
    /\ UNCHANGED <<script, limit, world, seen, count, last, since, history>>

\* A curl of task-lib.sh: nothing without an id, nothing if LocalOps is away.
Report(new) ==
    /\ row' = IF id /\ server = "up" THEN new ELSE row
    /\ missed' = (server # "up")

Other(result) == IF result = "ok" THEN "down" ELSE "ok"

\* Mutants of Counted: the other count is not reset; a result counts once.
CountedBoth(result) ==
    [count EXCEPT ![result] = IF @ < limit[result] THEN @ + 1 ELSE @]

CountedOnce(result) == [count EXCEPT ![result] = 1, ![Other(result)] = 0]

Counted(result) ==
    [count EXCEPT ![result] = IF @ < limit[result] THEN @ + 1 ELSE @,
                  ![Other(result)] = 0]

\* Mutant of Changed: the last status is not looked at.
ChangedAgain(result, counted) == counted[result] >= limit[result]

\* What makes ping-watch take the target for changed.
Changed(result, counted) == last # result /\ counted[result] >= limit[result]

\* Mutant of SinceAfter: any successful ping clears it.
SinceAfterClears(result) == result = "down"

\* A failed ping sets down_since unless it is set.
SinceAfter(result) == since \/ result = "down"

Ping ==
    /\ count' = Counted(target)
    /\ since' = SinceAfter(target)
    /\ early' = CASE ~since' -> FALSE
                  [] since /\ target = "ok" /\ last # "down" -> TRUE
                  [] OTHER -> early
    /\ pc' = IF Changed(target, count') THEN "update" ELSE "beat"

\* Mutant of Check: the tunnel's status is reported when it has changed.
CheckReportsChanges ==
    /\ pc = "check"
    /\ seen' = target
    /\ CASE script = "ping" -> Ping
         [] script = "tunnel" ->
              /\ pc' = IF target # last THEN "update" ELSE "beat"
              /\ UNCHANGED <<count, since, early>>
    /\ UNCHANGED <<script, limit, world, row, id, last, messages, missed>>

Check ==
    /\ pc = "check"
    /\ seen' = target
    /\ CASE script = "ping" -> Ping
         [] script = "tunnel" -> pc' = "update" /\ UNCHANGED <<count, since, early>>
    /\ UNCHANGED <<script, limit, world, row, id, last, messages, missed>>

\* Mutant of Update: the first status is not reported either.
UpdateNotFirst ==
    /\ pc = "update"
    /\ IF last = "none" THEN UNCHANGED row /\ missed' = FALSE
                        ELSE Report([row EXCEPT !.shows = seen])
    /\ pc' = IF script = "ping" THEN "notify" ELSE "beat"
    /\ UNCHANGED <<script, limit, world, id, seen, count, last, since, messages, early>>

\* task_update with the status.
Update ==
    /\ pc = "update"
    /\ Report([row EXCEPT !.shows = seen])
    /\ pc' = IF script = "ping" THEN "notify" ELSE "beat"
    /\ UNCHANGED <<script, limit, world, id, seen, count, last, since, messages, early>>

\* notify.sh, except for the first status; then last_status is the new one, and
\* down_since is over with the outage.
Notify ==
    /\ pc = "notify"
    /\ messages' = IF last = "none" THEN messages ELSE Append(messages, seen)
    /\ last' = seen
    /\ since' = (since /\ seen = "down") /\ early' = (early /\ seen = "down")
    /\ pc' = IF script = "ping" THEN "beat" ELSE "check"
    /\ UNCHANGED <<script, limit, world, row, id, seen, count, missed>>

\* task_heartbeat, and the sleep of ping-watch.
Beat ==
    /\ pc = "beat"
    /\ pc' = IF script = "tunnel" /\ seen # last THEN "notify" ELSE "check"
    /\ UNCHANGED <<script, limit, world, row, id, seen, count, last, since, history>>

\* SIGINT or SIGTERM: the trap's cleanup, once the loop is entered.
Interrupt ==
    /\ pc \in Loop \cup {"create"}
    /\ pc' = IF pc = "create" THEN "dead" ELSE "cleanup"
    /\ UNCHANGED <<script, limit, world, row, id, seen, count, last, since, history>>

Cleanup ==
    /\ pc = "cleanup"
    /\ Report([row EXCEPT !.shows = "stopped"])
    /\ pc' = "stop"
    /\ UNCHANGED <<script, limit, world, id, seen, count, last, since, messages, early>>

Stop ==
    /\ pc = "stop"
    /\ Report([row EXCEPT !.status = "stopped"])
    /\ pc' = "exited"
    /\ UNCHANGED <<script, limit, world, id, seen, count, last, since, messages, early>>

\* SIGKILL, or the machine goes down: the row stays running.
Kill ==
    /\ pc \notin Ended
    /\ pc' = "dead"
    /\ UNCHANGED <<script, limit, world, row, id, seen, count, last, since, history>>

Step == Create \/ Check \/ Update \/ Notify \/ Beat \/ Cleanup \/ Stop

Next ==
    \/ TargetChanges \/ ServerGoes \/ ServerReturns
    \/ Step
    \/ Interrupt \/ Kill

\* The script runs; each curl and each ping ends.
Fairness == WF_vars(Step)

Spec == Init /\ [][Next]_vars /\ Fairness

-----------------------------------------------------------------------------
\* Every variable stays within its type; one of the two counts is zero.
TypeOK ==
    /\ script \in Scripts /\ limit \in [ok : UpThresholds, down : DownThresholds]
    /\ target \in Results /\ changes \in 0..MaxChanges
    /\ server \in {"up", "down"} /\ outages \in 0..MaxOutages
    /\ row \in Rows /\ id \in BOOLEAN
    /\ pc \in Loop \cup Ended \cup {"create", "cleanup", "stop"}
    /\ seen \in Results /\ last \in Results \cup {"none"} /\ since \in BOOLEAN
    /\ count \in [ok : 0..limit.ok, down : 0..limit.down] /\ (count.ok = 0 \/ count.down = 0)
    /\ messages \in Seq(Results) /\ missed \in BOOLEAN /\ early \in BOOLEAN

\* "Only when reachability actually changes" (ping-watch.sh:7-9,
\* tunnel-watch.sh:8-10): nobody is told the same twice in a row, and the last
\* thing told is what the script believes.
MessagesAlternate ==
    /\ \A k \in 1..(Len(messages) - 1) : messages[k] # messages[k + 1]
    /\ messages # <<>> => messages[Len(messages)] = last

\* Every outage ping-watch reports the end of has a beginning, however the
\* pings alternated since; it is its own when one failure is enough
\* (ping-watch.sh:57-59, 71).
OutagesAreTimed ==
    script = "ping" /\ last = "down" =>
        since /\ (limit.down = 1 => ~early)

\* Whenever the script waits, the task shows the status the script believes,
\* unless the last report was lost; a script that cleaned up has stopped its
\* task, unless that was.
RowFollowsScript ==
    id /\ ~missed =>
        /\ pc = "check" /\ last # "none" => row.shows = last
        /\ pc = "exited" => row.status = "stopped"

\* A change that lasts is noticed, by both scripts, for any thresholds and with
\* LocalOps away or not.
LastingChangeIsNoticed ==
    \A result \in Results :
        target = result ~> last = result \/ target # result \/ pc \notin Loop \cup {"create"}

\* tunnel-watch.sh:6-8: "reports its current connected/not-connected status ...
\* every CHECK_INTERVAL_S": whatever reports were lost, the task shows the
\* tunnel's status again once LocalOps is back.
TunnelStatusHeals ==
    \A result \in Results :
        script = "tunnel" /\ id /\ server = "up" /\ target = result
            ~> \/ row.shows = result
               \/ target # result \/ server # "up" \/ pc \notin Loop
=============================================================================
