--------------------------- MODULE TaskLifecycle ---------------------------
(***************************************************************************)
(* What the tasks package promises to whoever watches tasks: a task, once  *)
(* created, is there for ever; it runs or it idles (queued, paused or      *)
(* finished) as its callers please; and the age of its last sign of life   *)
(* grows with the clock and is reset by a heartbeat only.  Ages saturate   *)
(* at Threshold + 1: past Threshold a running task is stuck and stays so   *)
(* until a heartbeat.                                                      *)
(* TaskStore implements this specification; Health composes it with the    *)
(* monitor.                                                                *)
(***************************************************************************)
EXTENDS Integers

CONSTANTS Tasks, Threshold

VARIABLES state, age

vars == <<state, age>>

Init ==
    /\ state = [t \in Tasks |-> "absent"]
    /\ age = [t \in Tasks |-> 0]

Create(t) ==
    /\ state[t] = "absent"
    /\ state' = [state EXCEPT ![t] = "running"]
    /\ age' = [age EXCEPT ![t] = 0]

Heartbeat(t) ==
    /\ state[t] # "absent"
    /\ age' = [age EXCEPT ![t] = 0]
    /\ UNCHANGED state

\* Pause, complete, fail, cancel, stop, or an update that names a status.
Halt(t) ==
    /\ state[t] = "running"
    /\ state' = [state EXCEPT ![t] = "idle"]
    /\ UNCHANGED age

\* Resume, or an update that writes "running" back - finished tasks included.
Resume(t) ==
    /\ state[t] = "idle"
    /\ state' = [state EXCEPT ![t] = "running"]
    /\ UNCHANGED age

Tick ==
    /\ age' = [t \in Tasks |-> IF state[t] = "absent" \/ age[t] > Threshold
                                 THEN age[t] ELSE age[t] + 1]
    /\ UNCHANGED state

Step(t) == Create(t) \/ Heartbeat(t) \/ Halt(t) \/ Resume(t)

Next == Tick \/ \E t \in Tasks : Step(t)

Spec == Init /\ [][Next]_vars

\* Task.Stuck.
Stuck(t) == state[t] = "running" /\ age[t] > Threshold
=============================================================================
