--------------------------- MODULE Announcements ---------------------------
(***************************************************************************)
(* What the watchers' service promises to whoever reads the channel        *)
(* (service.go:26-28), of the watchers it can keep track of: an outage     *)
(* does not end before it was announced, the next does not begin before    *)
(* the end of the last was announced, and a message says what is so when   *)
(* it is sent.  A recovery may be announced of an outage that was too      *)
(* short to be one.  Watchers implements this specification.               *)
(***************************************************************************)
CONSTANT Names

VARIABLES
    state,  \* each watcher: "fine", or "out" once it has failed often enough
    told    \* the last message about it, or "lost" when it is not kept track of

vars == <<state, told>>

Init ==
    /\ state = [n \in Names |-> "fine"]
    /\ told = [n \in Names |-> ""]

Begin(n) ==
    /\ state[n] = "fine" /\ told[n] \in {"", "recovered"}
    /\ state' = [state EXCEPT ![n] = "out"]
    /\ UNCHANGED told

End(n) ==
    /\ state[n] = "out" /\ told[n] = "down"
    /\ state' = [state EXCEPT ![n] = "fine"]
    /\ UNCHANGED told

TellDown(n) ==
    /\ state[n] = "out" /\ told[n] \in {"", "recovered"}
    /\ told' = [told EXCEPT ![n] = "down"]
    /\ UNCHANGED state

TellRecovered(n) ==
    /\ state[n] = "fine" /\ told[n] # "lost"
    /\ told' = [told EXCEPT ![n] = "recovered"]
    /\ UNCHANGED state

Lose(n) ==
    /\ told[n] # "lost"
    /\ told' = [told EXCEPT ![n] = "lost"]
    /\ state' = [state EXCEPT ![n] = "fine"]

Step(n) == Begin(n) \/ End(n) \/ TellDown(n) \/ TellRecovered(n) \/ Lose(n)

Next == \E n \in Names : Step(n)

Spec == Init /\ [][Next]_vars
=============================================================================
