------------------------------ MODULE Watchers ------------------------------
(***************************************************************************)
(* Watchers: the store's check-in transaction (internal/watchers/store.go),*)
(* the alerting service over it (service.go) and the Slack messages that   *)
(* come out (internal/notify/slack.go).                                    *)
(*                                                                         *)
(* A check-in is a handler with three steps other handlers run between:    *)
(* it commits the row and its event in one transaction (Commit), reads the *)
(* row BACK after the commit (ReadBack), and sends a message or none,      *)
(* judging by what it read back (Announce).  Its caller may hang up, or    *)
(* the process die, after the commit (Drop).                               *)
(*                                                                         *)
(* told and orderly are history variables: the last message Slack was sent *)
(* about a watcher, and the watchers that one checker at a time has served *)
(* so far, with ok or down, never cut off, its threshold left alone while  *)
(* it fails.  Bound: MaxEvents check-ins per watcher.                      *)
(***************************************************************************)
EXTENDS Integers, Sequences

CONSTANTS
    Names,                \* watcher names
    Calls,                \* goroutines that may be inside Service.CheckIn
    CheckStates,          \* the states checkers report
    DefaultThreshold,     \* Service.FailThreshold
    RegisterThresholds,   \* fail_threshold of a registration
    CheckinThresholds,    \* fail_threshold of a check-in, Keep when it has none
    MayDrop,              \* whether callers hang up
    MaxEvents

Keep == -1

ASSUME WatchersAssumption ==
    /\ CheckStates \subseteq {"ok", "degraded", "down"}
    /\ DefaultThreshold \in Nat \ {0}
    /\ RegisterThresholds \subseteq Nat /\ CheckinThresholds \subseteq Nat \cup {Keep}
    /\ MayDrop \in BOOLEAN /\ MaxEvents \in Nat

VARIABLES
    rows,      \* the watchers table
    history,   \* watcher_events, per watcher in insertion order
    calls,     \* the locals of each handler inside Service.CheckIn
    told,      \* history: "" (nothing), "down" or "recovered"
    orderly    \* history: the watchers checked in an orderly way so far

vars == <<rows, history, calls, told, orderly>>

Rows == [state : {"absent", "unknown"} \cup CheckStates, fails : Nat, threshold : Nat]

NoRow == [state |-> "absent", fails |-> 0, threshold |-> 0]
Idle  == [phase |-> "idle"]

Committed == [phase : {"committed"}, name : Names, state : CheckStates,
              previous : {"unknown"} \cup CheckStates]
ReadCalls == [phase : {"read"}, name : Names, state : CheckStates,
              previous : {"unknown"} \cup CheckStates, fails : Nat, threshold : Nat]

TypeOK ==
    /\ rows \in [Names -> Rows]
    /\ history \in [Names -> Seq(CheckStates)]
    /\ calls \in [Calls -> {Idle} \cup Committed \cup ReadCalls]
    /\ told \in [Names -> {"", "down", "recovered"}]
    /\ orderly \subseteq Names

Init ==
    /\ rows = [n \in Names |-> NoRow]
    /\ history = [n \in Names |-> <<>>]
    /\ calls = [c \in Calls |-> Idle]
    /\ told = [n \in Names |-> ""]
    /\ orderly = Names

-----------------------------------------------------------------------------
\* No check-in about n is under way.
Quiet(n) == \A c \in Calls : calls[c] # Idle => calls[c].name # n

\* A watcher's own threshold overrides the service's once it is set.
Effective(threshold) == IF threshold > 0 THEN threshold ELSE DefaultThreshold

\* The threshold in force moves while n is failing.
Moves(n, threshold) ==
    rows[n].fails > 0 /\ Effective(threshold) # Effective(rows[n].threshold)

Disturbed(n, how) == orderly' = IF how THEN orderly \ {n} ELSE orderly

\* Store.Register: an upsert that leaves state and consecutive_fails alone.
Register(n, threshold) ==
    /\ rows' = [rows EXCEPT ![n] =
                  IF @.state = "absent"
                    THEN [state |-> "unknown", fails |-> 0, threshold |-> threshold]
                    ELSE [@ EXCEPT !.threshold = threshold]]
    /\ Disturbed(n, Moves(n, threshold))
    /\ UNCHANGED <<history, calls, told>>

\* Mutant of NextFails: only failures are counted, nothing is reset.
NextFailsNoReset(fails, state) == IF state = "ok" THEN fails ELSE fails + 1

NextFails(fails, state) == IF state = "ok" THEN 0 ELSE fails + 1

\* Mutant of CheckedRow: an absent fail_threshold is stored as it came.
CheckedRowStoresAbsent(row, state, threshold) ==
    [state |-> state, fails |-> NextFails(row.fails, state), threshold |-> threshold]

\* The row one check-in leaves; a row that is not there is inserted first.
CheckedRow(row, state, threshold) ==
    [state     |-> state,
     fails     |-> NextFails(row.fails, state),
     threshold |-> IF threshold = Keep THEN row.threshold ELSE threshold]

PreviousState(row) == IF row.state = "absent" THEN "unknown" ELSE row.state

CommitDisturbs(n, state, threshold) ==
    Disturbed(n, \/ ~Quiet(n) \/ state = "degraded"
                 \/ threshold # Keep /\ Moves(n, threshold))

\* Mutant of Commit: a check-in that repeats the state is not recorded.
CommitTransitions(c, n, state, threshold) ==
    /\ calls[c] = Idle
    /\ Len(history[n]) < MaxEvents
    /\ rows' = [rows EXCEPT ![n] = CheckedRow(@, state, threshold)]
    /\ history' = IF rows[n].state = state THEN history
                  ELSE [history EXCEPT ![n] = Append(@, state)]
    /\ calls' = [calls EXCEPT ![c] = [phase |-> "committed", name |-> n, state |-> state,
                                      previous |-> PreviousState(rows[n])]]
    /\ CommitDisturbs(n, state, threshold)
    /\ UNCHANGED told

\* Store.CheckIn up to its Commit.
Commit(c, n, state, threshold) ==
    /\ calls[c] = Idle
    /\ Len(history[n]) < MaxEvents
    /\ rows' = [rows EXCEPT ![n] = CheckedRow(@, state, threshold)]
    /\ history' = [history EXCEPT ![n] = Append(@, state)]
    /\ calls' = [calls EXCEPT ![c] = [phase |-> "committed", name |-> n, state |-> state,
                                      previous |-> PreviousState(rows[n])]]
    /\ CommitDisturbs(n, state, threshold)
    /\ UNCHANGED told

\* Store.CheckIn after it: the row is read again, outside the transaction.
ReadBack(c) ==
    /\ calls[c] # Idle /\ calls[c].phase = "committed"
    /\ LET u == calls[c] IN
       calls' = [calls EXCEPT ![c] =
          [phase |-> "read", name |-> u.name, state |-> u.state, previous |-> u.previous,
           fails |-> rows[u.name].fails, threshold |-> rows[u.name].threshold]]
    /\ UNCHANGED <<rows, history, told, orderly>>

\* Mutants of Message: every failing check past the threshold alerts; the alert
\* comes one check late.
MessageEveryFailure(u) ==
    CASE u.state = "down" /\ u.fails >= Effective(u.threshold) -> "down"
      [] u.state = "ok" /\ u.previous = "down"                 -> "recovered"
      [] OTHER                                                 -> ""

MessageAfter(u) ==
    CASE u.state = "down" /\ u.fails = Effective(u.threshold) + 1 -> "down"
      [] u.state = "ok" /\ u.previous = "down"                    -> "recovered"
      [] OTHER                                                    -> ""

\* The switch of Service.CheckIn.
Message(u) ==
    CASE u.state = "down" /\ u.fails = Effective(u.threshold) -> "down"
      [] u.state = "ok" /\ u.previous = "down"                -> "recovered"
      [] OTHER                                                -> ""

\* Lines 43-54: at most one message, then the handler answers.
Announce(c) ==
    /\ calls[c] # Idle /\ calls[c].phase = "read"
    /\ LET m == Message(calls[c])
       IN  told' = IF m = "" THEN told ELSE [told EXCEPT ![calls[c].name] = m]
    /\ calls' = [calls EXCEPT ![c] = Idle]
    /\ UNCHANGED <<rows, history, orderly>>

\* The request's context ends (its caller hung up, the server died): the read
\* or the send fails, and what was committed stays.
Drop(c) ==
    /\ MayDrop /\ calls[c] # Idle
    /\ Disturbed(calls[c].name, TRUE)
    /\ calls' = [calls EXCEPT ![c] = Idle]
    /\ UNCHANGED <<rows, history, told>>

Next ==
    \/ \E n \in Names :
          \/ \E threshold \in RegisterThresholds : Register(n, threshold)
          \/ \E c \in Calls, state \in CheckStates, threshold \in CheckinThresholds :
                Commit(c, n, state, threshold)
    \/ \E c \in Calls : ReadBack(c) \/ Announce(c) \/ Drop(c)

Spec == Init /\ [][Next]_vars

-----------------------------------------------------------------------------
\* A row is its history: the last check-in's state, and as many fails as there
\* are check-ins since the last ok one.
RowFollowsHistory ==
    \A n \in Names : LET h == history[n] IN
        /\ rows[n].fails <= Len(h)
        /\ \A i \in (Len(h) - rows[n].fails + 1)..Len(h) : h[i] # "ok"
        /\ rows[n].fails < Len(h) => h[Len(h) - rows[n].fails] = "ok"
        /\ h # <<>> => rows[n].state = h[Len(h)]
        /\ h = <<>> => rows[n].state \in {"absent", "unknown"}

\* k check-ins in a row, all in these states.
HasRun(h, k, states) ==
    \E i \in 0..(Len(h) - k) : \A j \in (i + 1)..(i + k) : h[j] \in states

\* The last k check-ins were down.
EndsDown(h, k) == k <= Len(h) /\ \A i \in (Len(h) - k + 1)..Len(h) : h[i] = "down"

\* However check-ins interleave, a down message follows as many "consecutive
\* fails" (config.go:20) as the threshold in force asks, degraded ones among them;
\* a recovery message follows a down check-in with an ok one (DESIGN.md:498), be
\* it the end of an outage or of a blip.  With check-ins in order the fails are
\* down check-ins (README.md:235, model.go:35-36), the last ones there are, and
\* the message is the outage's first (service.go:27-28, "never on every failing
\* check").
AlertsAreDeserved ==
    [][\A c \in Calls : Announce(c) =>
         LET u == calls[c]
             h == history[u.name]
             k == Effective(u.threshold)
         IN  /\ Message(u) = "down" => HasRun(h, k, {"degraded", "down"})
             /\ Message(u) = "down" /\ u.name \in orderly =>
                   EndsDown(h, k) /\ told[u.name] # "down"
             /\ Message(u) = "recovered" =>
                   \E i \in 1..(Len(h) - 1) : h[i] = "down" /\ h[i + 1] = "ok"]_vars

\* The docs' threshold, of every watcher (README.md:235, "consecutive `down`
\* check-ins before the first alert").  The code breaks it: a degraded check-in
\* counts as a fail, and the first down one after it may alert.
AlertsFollowDowns ==
    [][\A c \in Calls : Announce(c) =>
         LET u == calls[c]
         IN  Message(u) = "down" =>
                HasRun(history[u.name], Effective(u.threshold), {"down"})]_vars

\* The watcher is down and has failed often enough.
Outage(n) == rows[n].state = "down" /\ rows[n].fails >= Effective(rows[n].threshold)

\* An outage has been announced.
OutageAnnounced(n) == Quiet(n) /\ Outage(n) => told[n] = "down"

\* A watcher that is ok is not left announced as down.
RecoveryAnnounced(n) == Quiet(n) /\ rows[n].state = "ok" => told[n] # "down"

\* service.go:26-28, "exactly on the transitions that matter", "never silently on
\* recovery either": with check-ins in order, every outage is announced, with no
\* retry needed, and the end of it too.
OrderlyChangesAreAnnounced == \A n \in orderly : OutageAnnounced(n) /\ RecoveryAnnounced(n)

Announced == INSTANCE Announcements WITH
    state <- [n \in Names |-> IF n \in orderly /\ Outage(n) THEN "out" ELSE "fine"],
    told  <- [n \in Names |-> IF n \in orderly THEN told[n] ELSE "lost"]

\* With check-ins in order, the service implements the announcements it promises:
\* no outage ends, and none begins, before the last change was announced.
ImplementsAnnouncements == Announced!Spec

\* The promise as service.go:26-28 makes it, of every watcher.
OutagesAreAnnounced == \A n \in Names : OutageAnnounced(n)
=============================================================================
