--------------------------- MODULE WatchersProofs ---------------------------
(***************************************************************************)
(* Proofs about Watchers, for every set of watchers and handlers, every    *)
(* threshold and history bound, and whatever states checkers report.       *)
(***************************************************************************)
EXTENDS Watchers, TLAPS

-----------------------------------------------------------------------------
(* Typing. *)

\* A check-in turns a row into a row.
LEMMA CheckedRowType ==
    ASSUME NEW row \in Rows, NEW state \in CheckStates, NEW threshold \in CheckinThresholds
    PROVE  CheckedRow(row, state, threshold) \in Rows
  BY WatchersAssumption DEF Rows, CheckedRow, NextFails, Keep

\* The empty tables are well typed.
LEMMA TypeInit == Init => TypeOK
  <1>1. NoRow \in Rows /\ <<>> \in Seq(CheckStates)
    BY DEF NoRow, Rows
  <1> QED BY <1>1 DEF Init, TypeOK

\* Watchers only ever stop being orderly.
LEMMA DisturbedType ==
    ASSUME orderly \subseteq Names, NEW n \in Names, NEW how, Disturbed(n, how)
    PROVE  orderly' \subseteq Names
  <1>1. orderly' = orderly \/ orderly' = orderly \ {n}
    BY DEF Disturbed
  <1> QED BY <1>1

\* Every step keeps the tables and the calls well typed.
LEMMA TypeStep == TypeOK /\ [Next]_vars => TypeOK'
  <1> SUFFICES ASSUME TypeOK, [Next]_vars PROVE TypeOK'
    OBVIOUS
  <1> USE DEF TypeOK
  <1>1. ASSUME NEW n \in Names, NEW threshold \in RegisterThresholds, Register(n, threshold)
        PROVE TypeOK'
    <2>1. /\ [state |-> "unknown", fails |-> 0, threshold |-> threshold] \in Rows
          /\ [rows[n] EXCEPT !.threshold = threshold] \in Rows
      BY WatchersAssumption DEF Rows
    <2>2. orderly' \subseteq Names
      BY <1>1, DisturbedType DEF Register
    <2> QED BY <1>1, <2>1, <2>2 DEF Register
  <1>2. ASSUME NEW n \in Names, NEW c \in Calls, NEW state \in CheckStates,
               NEW threshold \in CheckinThresholds, Commit(c, n, state, threshold)
        PROVE TypeOK'
    <2>1. CheckedRow(rows[n], state, threshold) \in Rows
      BY CheckedRowType
    <2>2. PreviousState(rows[n]) \in {"unknown"} \cup CheckStates
      BY DEF PreviousState, Rows
    <2>3. [phase |-> "committed", name |-> n, state |-> state,
           previous |-> PreviousState(rows[n])] \in Committed
      BY <2>2 DEF Committed
    <2>4. Append(history[n], state) \in Seq(CheckStates)
      <3>1. history[n] \in Seq(CheckStates)
        OBVIOUS
      <3> HIDE DEF TypeOK
      <3> QED BY <3>1
    <2>5. orderly' \subseteq Names
      BY <1>2, DisturbedType DEF Commit, CommitDisturbs
    <2> QED BY <1>2, <2>1, <2>3, <2>4, <2>5 DEF Commit
  <1>3. ASSUME NEW c \in Calls, ReadBack(c) PROVE TypeOK'
    <2>1. calls[c] \in Committed
      BY <1>3 DEF ReadBack, ReadCalls
    <2>2. [phase |-> "read", name |-> calls[c].name, state |-> calls[c].state,
           previous |-> calls[c].previous, fails |-> rows[calls[c].name].fails,
           threshold |-> rows[calls[c].name].threshold] \in ReadCalls
      BY <2>1 DEF Committed, ReadCalls, Rows
    <2> QED BY <1>3, <2>2 DEF ReadBack
  <1>4. ASSUME NEW c \in Calls, Announce(c) PROVE TypeOK'
    <2>1. Message(calls[c]) \in {"", "down", "recovered"}
      BY DEF Message
    <2> QED BY <1>4, <2>1 DEF Announce
  <1>5. ASSUME NEW c \in Calls, Drop(c) PROVE TypeOK'
    <2>1. calls[c].name \in Names
      BY <1>5 DEF Drop, Committed, ReadCalls
    <2>2. orderly' \subseteq Names
      BY <1>5, <2>1, DisturbedType DEF Drop
    <2> QED BY <1>5, <2>2 DEF Drop
  <1>6. CASE UNCHANGED vars
    BY <1>6 DEF vars
  <1> QED BY <1>1, <1>2, <1>3, <1>4, <1>5, <1>6 DEF Next

\* Every variable keeps its type.
THEOREM Typing == Spec => []TypeOK
  BY TypeInit, TypeStep, PTL DEF Spec

-----------------------------------------------------------------------------
(* A row is its history. *)

RowInv(row, h) ==
    /\ row.fails <= Len(h)
    /\ \A i \in (Len(h) - row.fails + 1)..Len(h) : h[i] # "ok"
    /\ row.fails < Len(h) => h[Len(h) - row.fails] = "ok"
    /\ h # <<>> => row.state = h[Len(h)]
    /\ h = <<>> => row.state \in {"absent", "unknown"}

\* A check-in moves the row as one more entry moves the history.
LEMMA RowInvCheckIn ==
    ASSUME NEW row \in Rows, NEW h \in Seq(CheckStates), RowInv(row, h),
           NEW state \in CheckStates, NEW threshold
    PROVE  RowInv(CheckedRow(row, state, threshold), Append(h, state))
  <1> DEFINE a == Append(h, state)
             new == CheckedRow(row, state, threshold)
  <1>1. /\ Len(h) \in Nat /\ Len(a) = Len(h) + 1 /\ a # <<>>
        /\ a[Len(h) + 1] = state /\ \A i \in 1..Len(h) : a[i] = h[i]
        /\ row.fails \in Nat
    BY DEF Rows
  <1>2. new.state = state /\ new.fails = IF state = "ok" THEN 0 ELSE row.fails + 1
    BY DEF CheckedRow, NextFails
  <1> HIDE DEF a, new
  <1>3. ASSUME state = "ok" PROVE RowInv(new, a)
    BY <1>1, <1>2, <1>3 DEF RowInv
  <1>4. ASSUME state # "ok" PROVE RowInv(new, a)
    <2>1. new.fails <= Len(a)
      BY <1>1, <1>2, <1>4 DEF RowInv
    <2>2. ASSUME NEW i \in (Len(a) - new.fails + 1)..Len(a) PROVE a[i] # "ok"
      <3>1. Len(a) - new.fails = Len(h) - row.fails
        BY <1>1, <1>2, <1>4
      <3>2. i = Len(h) + 1 \/ i \in (Len(h) - row.fails + 1)..Len(h)
        BY <1>1, <1>2, <3>1
      <3>3. i \in (Len(h) - row.fails + 1)..Len(h) => i \in 1..Len(h) /\ h[i] # "ok"
        BY <1>1 DEF RowInv
      <3> QED BY <1>1, <1>4, <3>2, <3>3
    <2>3. new.fails < Len(a) => a[Len(a) - new.fails] = "ok"
      <3>1. Len(a) - new.fails = Len(h) - row.fails
        BY <1>1, <1>2, <1>4
      <3>2. row.fails < Len(h) => Len(h) - row.fails \in 1..Len(h) /\ h[Len(h) - row.fails] = "ok"
        BY <1>1 DEF RowInv
      <3> QED BY <1>1, <1>2, <1>4, <3>1, <3>2
    <2> QED BY <1>1, <1>2, <2>1, <2>2, <2>3 DEF RowInv
  <1>5. RowInv(new, a)
    BY <1>3, <1>4
  <1> QED BY <1>5 DEF a, new

RowsInv == \A n \in Names : RowInv(rows[n], history[n])

\* A watcher nobody registered has no history.
LEMMA RowsInit == Init => RowsInv
  <1> SUFFICES ASSUME Init, NEW n \in Names PROVE RowInv(rows[n], history[n])
    BY DEF RowsInv
  <1>1. rows[n].state = "absent" /\ rows[n].fails = 0 /\ history[n] = <<>> /\ Len(history[n]) = 0
    BY DEF Init, NoRow
  <1> QED BY <1>1 DEF RowInv

\* Every step keeps each row what its history says.
LEMMA RowsStep == TypeOK /\ RowsInv /\ [Next]_vars => RowsInv'
  <1> SUFFICES ASSUME TypeOK, RowsInv, [Next]_vars, NEW m \in Names
               PROVE  RowInv(rows'[m], history'[m])
    BY DEF RowsInv
  <1>0. rows[m] \in Rows /\ history[m] \in Seq(CheckStates) /\ RowInv(rows[m], history[m])
    BY DEF TypeOK, RowsInv
  <1>1. ASSUME NEW n \in Names, NEW threshold \in RegisterThresholds, Register(n, threshold)
        PROVE  RowInv(rows'[m], history'[m])
    <2>1. CASE n # m
      BY <1>0, <1>1, <2>1 DEF Register, TypeOK
    <2>2. CASE n = m /\ rows[m].state = "absent"
      <3>1. history[m] = <<>>
        <4>1. history[m] # <<>> => history[m][Len(history[m])] \in CheckStates
          BY <1>0
        <4> QED BY <1>0, <2>2, <4>1, WatchersAssumption DEF RowInv
      <3>2. rows'[m] = [state |-> "unknown", fails |-> 0, threshold |-> threshold]
            /\ history' = history
        BY <1>1, <2>2 DEF Register, TypeOK
      <3> QED BY <3>1, <3>2 DEF RowInv
    <2>3. CASE n = m /\ rows[m].state # "absent"
      <3>1. rows'[m] = [rows[m] EXCEPT !.threshold = threshold] /\ history' = history
        BY <1>1, <2>3 DEF Register, TypeOK
      <3>2. rows'[m].state = rows[m].state /\ rows'[m].fails = rows[m].fails
        BY <1>0, <3>1 DEF Rows
      <3> QED BY <1>0, <3>1, <3>2 DEF RowInv
    <2> QED BY <2>1, <2>2, <2>3
  <1>2. ASSUME NEW n \in Names, NEW c \in Calls, NEW state \in CheckStates,
               NEW threshold \in CheckinThresholds, Commit(c, n, state, threshold)
        PROVE  RowInv(rows'[m], history'[m])
    <2>1. CASE n # m
      BY <1>0, <1>2, <2>1 DEF Commit, TypeOK
    <2>2. CASE n = m
      <3>1. rows'[m] = CheckedRow(rows[m], state, threshold)
            /\ history'[m] = Append(history[m], state)
        BY <1>2, <2>2 DEF Commit, TypeOK
      <3> QED BY <1>0, <3>1, RowInvCheckIn
    <2> QED BY <2>1, <2>2
  <1>3. ASSUME UNCHANGED <<rows, history>> PROVE RowInv(rows'[m], history'[m])
    BY <1>0, <1>3
  <1> QED BY <1>1, <1>2, <1>3 DEF Next, ReadBack, Announce, Drop, vars

\* The row a checker or a dashboard reads is the history it summarises: its
\* state is the last check-in's and its fails those since the last ok.
THEOREM RowsFollowHistory == Spec => []RowFollowsHistory
  <1>1. RowsInv => RowFollowsHistory
    BY DEF RowsInv, RowInv, RowFollowsHistory
  <1> QED BY <1>1, TypeInit, TypeStep, RowsInit, RowsStep, PTL DEF Spec

-----------------------------------------------------------------------------
(* Alerts are deserved. *)

Fails == {"degraded", "down"}

Recovery(h) == \E i \in 1..(Len(h) - 1) : h[i] = "down" /\ h[i + 1] = "ok"

\* What a history has shown, a longer one still shows.
LEMMA RunsStay ==
    ASSUME NEW h \in Seq(CheckStates), NEW x \in CheckStates, NEW k \in Nat
    PROVE  /\ HasRun(h, k, Fails) => HasRun(Append(h, x), k, Fails)
           /\ Recovery(h) => Recovery(Append(h, x))
  <1> DEFINE a == Append(h, x)
  <1>1. /\ Len(h) \in Nat /\ Len(a) = Len(h) + 1
        /\ \A i \in 1..Len(h) : a[i] = h[i]
    OBVIOUS
  <1> HIDE DEF a
  <1>2. ASSUME NEW i \in 0..(Len(h) - k), \A j \in (i + 1)..(i + k) : h[j] \in Fails
        PROVE  HasRun(a, k, Fails)
    <2>1. i \in 0..(Len(a) - k)
      BY <1>1
    <2>2. \A j \in (i + 1)..(i + k) : a[j] \in Fails
      BY <1>1, <1>2
    <2> QED BY <2>1, <2>2 DEF HasRun
  <1>3. ASSUME NEW i \in 1..(Len(h) - 1), h[i] = "down", h[i + 1] = "ok"
        PROVE  Recovery(a)
    <2>1. i \in 1..(Len(a) - 1) /\ a[i] = h[i] /\ a[i + 1] = h[i + 1]
      BY <1>1
    <2> QED BY <1>3, <2>1 DEF Recovery
  <1> QED BY <1>2, <1>3 DEF HasRun, Recovery, a

\* What a handler holds was true of the history when it read it, and histories
\* only grow.
CallInv(u) ==
    /\ u.state = "ok" /\ u.previous = "down" => Recovery(history[u.name])
    /\ u.phase = "read" => HasRun(history[u.name], u.fails, Fails)

CallsInv == \A c \in Calls : calls[c] # Idle => CallInv(calls[c])

\* A call under way keeps carrying what the history has reached.
LEMMA CallsStep == TypeOK /\ RowsInv /\ CallsInv /\ [Next]_vars => CallsInv'
  <1> SUFFICES ASSUME TypeOK, RowsInv, CallsInv, [Next]_vars,
                      NEW d \in Calls, calls'[d] # Idle
               PROVE  LET u == calls'[d] h == history'[u.name] IN
                      /\ u.state = "ok" /\ u.previous = "down" => Recovery(h)
                      /\ u.phase = "read" => HasRun(h, u.fails, Fails)
    BY DEF CallsInv, CallInv
  <1> DEFINE Goal == LET u == calls'[d] h == history'[u.name] IN
                     /\ u.state = "ok" /\ u.previous = "down" => Recovery(h)
                     /\ u.phase = "read" => HasRun(h, u.fails, Fails)
  <1>0. \A n \in Names : /\ history[n] \in Seq(CheckStates) /\ rows[n] \in Rows
                         /\ RowInv(rows[n], history[n])
    BY DEF TypeOK, RowsInv
  <1>1. ASSUME calls'[d] = calls[d] PROVE Goal
    <2> DEFINE u == calls[d]
    <2>1. u \in Committed \cup ReadCalls /\ CallInv(u)
      BY <1>1 DEF CallsInv, TypeOK
    <2>2. u.name \in Names /\ (u.phase = "read" => u.fails \in Nat)
      BY <2>1 DEF Committed, ReadCalls
    <2>3. \/ history'[u.name] = history[u.name]
          \/ \E x \in CheckStates : history'[u.name] = Append(history[u.name], x)
      <3>1. ASSUME NEW n \in Names, NEW c \in Calls, NEW state \in CheckStates,
                   NEW threshold \in CheckinThresholds, Commit(c, n, state, threshold)
            PROVE  \/ history'[u.name] = history[u.name]
                   \/ history'[u.name] = Append(history[u.name], state)
        BY <2>2, <3>1 DEF Commit, TypeOK
      <3>2. ASSUME UNCHANGED history PROVE history'[u.name] = history[u.name]
        BY <3>2
      <3> QED BY <3>1, <3>2 DEF Next, Register, ReadBack, Announce, Drop, vars
    <2>4. CASE history'[u.name] = history[u.name]
      BY <1>1, <2>1, <2>4 DEF CallInv
    <2>5. ASSUME NEW x \in CheckStates, history'[u.name] = Append(history[u.name], x)
          PROVE  Goal
      BY <1>0, <1>1, <2>1, <2>2, <2>5, RunsStay DEF CallInv
    <2> QED BY <2>3, <2>4, <2>5
  <1>2. ASSUME NEW n \in Names, NEW state \in CheckStates,
               NEW threshold \in CheckinThresholds, Commit(d, n, state, threshold)
        PROVE  Goal
    <2> DEFINE h == history[n]
               a == Append(h, state)
    <2>1. /\ calls'[d] = [phase |-> "committed", name |-> n, state |-> state,
                          previous |-> PreviousState(rows[n])]
          /\ history'[n] = a
      BY <1>2 DEF Commit, TypeOK
    <2>2. ASSUME state = "ok", PreviousState(rows[n]) = "down" PROVE Recovery(a)
      <3>1. rows[n].state = "down"
        BY <2>2 DEF PreviousState
      <3>2. h # <<>> /\ h[Len(h)] = "down" /\ h \in Seq(CheckStates)
        BY <1>0, <3>1 DEF RowInv
      <3>3. /\ Len(h) \in 1..(Len(a) - 1) /\ a[Len(h)] = "down" /\ a[Len(h) + 1] = "ok"
        BY <2>2, <3>2
      <3> QED BY <3>3 DEF Recovery
    <2> HIDE DEF a
    <2> QED BY <2>1, <2>2
  <1>3. ASSUME ReadBack(d) PROVE Goal
    <2> DEFINE u == calls[d]
               n == u.name
    <2>1. u \in Committed /\ CallInv(u) /\ n \in Names
      BY <1>3 DEF ReadBack, CallsInv, TypeOK, ReadCalls, Committed
    <2>2. /\ calls'[d] = [phase |-> "read", name |-> n, state |-> u.state,
                          previous |-> u.previous, fails |-> rows[n].fails,
                          threshold |-> rows[n].threshold]
          /\ history' = history
      BY <1>3 DEF ReadBack, TypeOK
    <2>3. HasRun(history[n], rows[n].fails, Fails)
      <3>1. PICK h \in Seq(CheckStates), k \in Nat : h = history[n] /\ k = rows[n].fails
        BY <1>0, <2>1 DEF Rows
      <3>2. Len(h) \in Nat /\ k <= Len(h) /\ \A j \in (Len(h) - k + 1)..Len(h) : h[j] # "ok"
        BY <1>0, <2>1, <3>1 DEF RowInv
      <3>3. ASSUME NEW j \in ((Len(h) - k) + 1)..((Len(h) - k) + k) PROVE h[j] \in Fails
        <4>1. j \in 1..Len(h) /\ j \in (Len(h) - k + 1)..Len(h)
          BY <3>2
        <4>2. h[j] \in CheckStates
          BY <4>1
        <4>3. h[j] # "ok"
          BY <3>2, <4>1
        <4> QED BY <4>2, <4>3, WatchersAssumption DEF Fails
      <3>4. Len(h) - k \in 0..(Len(h) - k)
        BY <3>2
      <3>5. HasRun(h, k, Fails)
        BY <3>3, <3>4 DEF HasRun
      <3> QED BY <3>1, <3>5
    <2> QED BY <2>1, <2>2, <2>3 DEF CallInv
  <1>4. ASSUME Announce(d) \/ Drop(d) PROVE FALSE
    BY <1>4 DEF Announce, Drop, TypeOK
  <1>5. ASSUME NEW c \in Calls, c # d, ReadBack(c) \/ Announce(c) \/ Drop(c)
        PROVE  calls'[d] = calls[d]
    BY <1>5 DEF ReadBack, Announce, Drop, TypeOK
  <1>6. ASSUME NEW c \in Calls, c # d, NEW n \in Names, NEW state \in CheckStates,
               NEW threshold \in CheckinThresholds, Commit(c, n, state, threshold)
        PROVE  calls'[d] = calls[d]
    BY <1>6 DEF Commit, TypeOK
  <1>7. ASSUME UNCHANGED calls PROVE calls'[d] = calls[d]
    BY <1>7
  <1> HIDE DEF Goal
  <1>8. Goal
    BY <1>1, <1>2, <1>3, <1>4, <1>5, <1>6, <1>7 DEF Next, Register, vars
  <1> QED BY <1>8 DEF Goal

Inv == TypeOK /\ RowsInv /\ CallsInv

\* The empty tables satisfy the invariant.
LEMMA InvInit == Init => Inv
  <1>1. Init => CallsInv
    BY DEF Init, CallsInv
  <1> QED BY <1>1, TypeInit, RowsInit DEF Inv

\* Every step preserves the invariant.
LEMMA InvStep == Inv /\ [Next]_vars => Inv'
  BY TypeStep, RowsStep, CallsStep DEF Inv

\* However check-ins of one watcher interleave, no message is sent that its
\* history does not deserve.
LEMMA Deserved ==
    ASSUME Inv, NEW c \in Calls, Announce(c)
    PROVE  /\ Message(calls[c]) = "down" =>
                 HasRun(history[calls[c].name], Effective(calls[c].threshold), Fails)
           /\ Message(calls[c]) = "recovered" => Recovery(history[calls[c].name])
  <1>1. CallInv(calls[c]) /\ calls[c].phase = "read"
    BY DEF Inv, CallsInv, Announce
  <1>2. Message(calls[c]) = "down" => calls[c].fails = Effective(calls[c].threshold)
    BY DEF Message
  <1>3. Message(calls[c]) = "recovered" => calls[c].state = "ok" /\ calls[c].previous = "down"
    BY DEF Message
  <1> QED BY <1>1, <1>2, <1>3 DEF CallInv

-----------------------------------------------------------------------------
(* Check-ins in order. *)

\* The call c is about n.
About(c, n) == calls[c] # Idle /\ calls[c].name = n

Limit(n) == Effective(rows[n].threshold)

\* One checker at a time, and rows that were never degraded: n is failing just
\* when it is down.
Served(n) ==
    /\ \A c, d \in Calls : About(c, n) /\ About(d, n) => c = d
    /\ rows[n].state # "degraded"
    /\ rows[n].fails > 0 <=> rows[n].state = "down"

\* What was told when nobody is checking in: that it is down, just when it has
\* failed often enough.
ToldInRest(n) ==
    told[n] = "down" <=> rows[n].state = "down" /\ rows[n].fails >= Limit(n)

\* What was told while u is on its way: the failure that reaches the limit and
\* the recovery are yet to be announced.
ToldDuring(n, u) ==
    /\ u.state = rows[n].state
    /\ u.state = "down" =>
          /\ told[n] = "down" <=> rows[n].fails > Limit(n)
          /\ u.phase = "read" => u.fails = rows[n].fails /\ Effective(u.threshold) = Limit(n)
    /\ u.state # "down" => (told[n] = "down" => u.previous = "down")

OrderInv ==
    \A n \in orderly :
        /\ Served(n)
        /\ Quiet(n) => ToldInRest(n)
        /\ \A c \in Calls : About(c, n) => ToldDuring(n, calls[c])

\* The threshold in force is at least one.
LEMMA EffectiveType ==
    ASSUME NEW t \in Nat PROVE Effective(t) \in Nat \ {0}
  BY WatchersAssumption DEF Effective

\* What is no longer orderly no longer counts.
LEMMA StaysOrderly ==
    ASSUME NEW n, NEW how, Disturbed(n, how), NEW m \in orderly'
    PROVE  m \in orderly /\ (m = n => ~how)
  BY DEF Disturbed

\* Before the first check-in nobody was told anything.
LEMMA OrderInit == Init => OrderInv
  <1> SUFFICES ASSUME Init, NEW n \in Names
               PROVE  /\ Served(n) /\ ToldInRest(n)
                      /\ \A c \in Calls : ~About(c, n)
    BY DEF OrderInv, Init
  <1>1. rows[n].state = "absent" /\ rows[n].fails = 0 /\ told[n] = ""
    BY DEF Init, NoRow
  <1>2. \A c \in Calls : ~About(c, n)
    BY DEF Init, About
  <1>3. Served(n)
    <2>1. \A c, d \in Calls : About(c, n) /\ About(d, n) => c = d
      BY <1>2
    <2>2. rows[n].state # "degraded"
      BY <1>1
    <2>3. ~(rows[n].fails > 0)
      <3>1. ~(0 > 0)
        OBVIOUS
      <3> QED BY <1>1, <3>1, Zenon
    <2>4. rows[n].state # "down"
      BY <1>1
    <2> QED BY <2>1, <2>2, <2>3, <2>4 DEF Served
  <1>4. ToldInRest(n)
    BY <1>1 DEF ToldInRest
  <1> QED BY <1>2, <1>3, <1>4

\* A registration moves no threshold of a watcher that is failing.
LEMMA OrderRegister ==
    ASSUME TypeOK, OrderInv, NEW n \in Names, NEW threshold \in RegisterThresholds,
           Register(n, threshold)
    PROVE  OrderInv'
  <1> SUFFICES ASSUME NEW m \in orderly'
               PROVE  /\ Served(m)' /\ (Quiet(m)' => ToldInRest(m)')
                      /\ \A c \in Calls : About(c, m)' => ToldDuring(m, calls[c])'
    BY DEF OrderInv
  <1>1. m \in orderly /\ m \in Names /\ (m = n => ~Moves(n, threshold))
    BY StaysOrderly DEF Register, TypeOK
  <1>2. calls' = calls /\ told' = told
    BY DEF Register
  <1>3. Served(m) /\ (Quiet(m) => ToldInRest(m)) /\ (Quiet(m)' <=> Quiet(m))
        /\ \A c \in Calls : (About(c, m)' <=> About(c, m)) /\ (About(c, m) => ToldDuring(m, calls[c]))
    BY <1>1, <1>2 DEF OrderInv, Quiet, About
  <1>4. CASE m # n
    <2>1. rows'[m] = rows[m]
      BY <1>1, <1>4 DEF Register, TypeOK
    <2> QED BY <1>2, <1>3, <2>1 DEF Served, ToldInRest, ToldDuring, Limit, About
  <1>5. CASE m = n
    <2>1. rows[m] \in Rows /\ threshold \in Nat
      BY <1>1, WatchersAssumption DEF TypeOK
    <2>2. /\ rows'[m].fails = rows[m].fails /\ rows'[m].threshold = threshold
          /\ \/ rows'[m].state = rows[m].state
             \/ rows[m].state = "absent" /\ rows'[m].state = "unknown"
      <3>1. rows'[m] = IF rows[m].state = "absent"
                         THEN [state |-> "unknown", fails |-> 0, threshold |-> threshold]
                         ELSE [rows[m] EXCEPT !.threshold = threshold]
        BY <1>1, <1>5 DEF Register, TypeOK
      <3>2. rows[m].state = "absent" => rows[m].fails = 0
        BY <1>3, <2>1 DEF Served, Rows
      <3>3. CASE rows[m].state = "absent"
        BY <3>1, <3>2, <3>3
      <3>4. CASE rows[m].state # "absent"
        BY <2>1, <3>1, <3>4 DEF Rows
      <3> QED BY <3>3, <3>4
    <2>3. rows[m].state = "down" => Limit(m)' = Limit(m)
      BY <1>1, <1>3, <1>5, <2>2 DEF Moves, Served, Limit
    <2>4. Served(m)'
      BY <1>3, <2>2 DEF Served
    <2>5. ToldInRest(m) => ToldInRest(m)'
      BY <1>2, <2>2, <2>3 DEF ToldInRest
    <2>6. ASSUME NEW c \in Calls, About(c, m) PROVE ToldDuring(m, calls[c])'
      <3>1. calls[c].state # "absent"
        BY <2>6, WatchersAssumption DEF About, TypeOK, Committed, ReadCalls
      <3> QED BY <1>2, <1>3, <2>2, <2>3, <2>6, <3>1 DEF ToldDuring
    <2> QED BY <1>3, <2>4, <2>5, <2>6
  <1> QED BY <1>4, <1>5

\* A check-in that finds nobody else checking in leaves the limit where it was,
\* or begins to count anew.
LEMMA OrderCommit ==
    ASSUME TypeOK, OrderInv, NEW c \in Calls, NEW n \in Names, NEW state \in CheckStates,
           NEW threshold \in CheckinThresholds, Commit(c, n, state, threshold)
    PROVE  OrderInv'
  <1> SUFFICES ASSUME NEW m \in orderly'
               PROVE  /\ Served(m)' /\ (Quiet(m)' => ToldInRest(m)')
                      /\ \A d \in Calls : About(d, m)' => ToldDuring(m, calls[d])'
    BY DEF OrderInv
  <1>1. /\ m \in orderly /\ m \in Names
        /\ m = n => Quiet(n) /\ state # "degraded"
                    /\ (threshold # Keep => ~Moves(n, threshold))
    BY StaysOrderly DEF Commit, CommitDisturbs, TypeOK
  <1>2. /\ told' = told /\ calls[c] = Idle
        /\ calls'[c] = [phase |-> "committed", name |-> n, state |-> state,
                        previous |-> PreviousState(rows[n])]
        /\ \A d \in Calls : d # c => calls'[d] = calls[d]
    BY DEF Commit, TypeOK
  <1>3. calls'[c] # Idle /\ calls'[c].name = n
    BY <1>2 DEF Idle
  <1>4. Served(m) /\ (Quiet(m) => ToldInRest(m))
        /\ \A d \in Calls : About(d, m) => ToldDuring(m, calls[d])
    BY <1>1 DEF OrderInv
  <1>5. CASE m # n
    <2>1. rows'[m] = rows[m]
      BY <1>1, <1>5 DEF Commit, TypeOK
    <2>2. \A d \in Calls : (About(d, m)' <=> About(d, m)) /\ (About(d, m) => calls'[d] = calls[d])
      BY <1>2, <1>3, <1>5 DEF About
    <2>3. Quiet(m)' => Quiet(m)
      BY <2>2 DEF Quiet, About
    <2> QED BY <1>2, <1>4, <2>1, <2>2, <2>3 DEF Served, ToldInRest, ToldDuring, Limit
  <1>6. CASE m = n
    <2>1. \A d \in Calls : About(d, m)' <=> d = c
      BY <1>1, <1>2, <1>3, <1>6 DEF About, Quiet
    <2>2. ~Quiet(m)'
      BY <1>3, <1>6 DEF Quiet
    <2>3. rows'[m] = CheckedRow(rows[m], state, threshold) /\ rows[m] \in Rows
      BY <1>1, <1>6 DEF Commit, TypeOK
    <2>4. /\ rows'[m].state = state
          /\ rows'[m].fails = IF state = "ok" THEN 0 ELSE rows[m].fails + 1
          /\ rows'[m].threshold = IF threshold = Keep THEN rows[m].threshold ELSE threshold
      BY <2>3 DEF CheckedRow, NextFails
    <2>5. rows[m].fails \in Nat /\ rows[m].threshold \in Nat /\ rows'[m].threshold \in Nat
          /\ state \in {"ok", "down"}
      BY <1>1, <1>6, <2>3, <2>4, WatchersAssumption DEF Rows, Keep
    <2>6. Limit(m) \in Nat \ {0} /\ Limit(m)' \in Nat \ {0}
      BY <2>5, EffectiveType DEF Limit, Effective
    <2>7. rows[m].fails > 0 => Limit(m)' = Limit(m)
      BY <1>1, <1>6, <2>4 DEF Moves, Limit, Effective
    <2>8. Served(m)'
      BY <2>1, <2>4, <2>5 DEF Served
    <2>9. ToldInRest(m)
      BY <1>1, <1>4, <1>6
    <2>10. ToldDuring(m, calls[c])'
      <3>1. CASE state = "ok"
        <4>1. told[m] = "down" => PreviousState(rows[n]) = "down"
          BY <1>6, <2>9 DEF ToldInRest, PreviousState
        <4> QED BY <1>2, <2>4, <3>1, <4>1 DEF ToldDuring
      <3>2. CASE state = "down"
        <4>1. told[m] = "down" <=> rows'[m].fails > Limit(m)'
          BY <1>4, <2>4, <2>5, <2>6, <2>7, <2>9, <3>2 DEF ToldInRest, Served
        <4> QED BY <1>2, <2>4, <3>2, <4>1 DEF ToldDuring
      <3> QED BY <2>5, <3>1, <3>2
    <2> QED BY <2>1, <2>2, <2>8, <2>10
  <1> QED BY <1>5, <1>6

\* Nobody has come between the commit and the row that is read back.
LEMMA OrderReadBack ==
    ASSUME TypeOK, OrderInv, NEW c \in Calls, ReadBack(c) PROVE OrderInv'
  <1> SUFFICES ASSUME NEW m \in orderly'
               PROVE  /\ Served(m)' /\ (Quiet(m)' => ToldInRest(m)')
                      /\ \A d \in Calls : About(d, m)' => ToldDuring(m, calls[d])'
    BY DEF OrderInv
  <1>1. calls[c] # Idle /\ UNCHANGED <<rows, told>> /\ m \in orderly
        /\ \A d \in Calls : d # c => calls'[d] = calls[d]
    BY DEF ReadBack, TypeOK
  <1>2. /\ calls'[c].phase = "read" /\ calls'[c] # Idle
        /\ calls'[c].name = calls[c].name /\ calls'[c].state = calls[c].state
        /\ calls'[c].previous = calls[c].previous
        /\ calls'[c].fails = rows[calls[c].name].fails
        /\ calls'[c].threshold = rows[calls[c].name].threshold
    BY DEF ReadBack, TypeOK, Idle
  <1>3. Served(m) /\ (Quiet(m) => ToldInRest(m))
        /\ \A d \in Calls : About(d, m) => ToldDuring(m, calls[d])
    BY <1>1 DEF OrderInv
  <1>4. \A d \in Calls : About(d, m)' <=> About(d, m)
    BY <1>1, <1>2 DEF About
  <1>5. (Quiet(m)' <=> Quiet(m)) /\ Served(m)' /\ (ToldInRest(m)' <=> ToldInRest(m))
    BY <1>1, <1>3, <1>4 DEF Quiet, Served, ToldInRest, Limit, About
  <1>6. ASSUME NEW d \in Calls, About(d, m)' PROVE ToldDuring(m, calls[d])'
    <2>1. CASE d = c
      BY <1>1, <1>2, <1>3, <1>4, <1>6, <2>1 DEF ToldDuring, About, Limit
    <2>2. CASE d # c
      BY <1>1, <1>3, <1>4, <1>6, <2>2 DEF ToldDuring, Limit
    <2> QED BY <2>1, <2>2
  <1> QED BY <1>3, <1>5, <1>6

\* The message that was yet to come comes.
LEMMA OrderAnnounce ==
    ASSUME TypeOK, OrderInv, NEW c \in Calls, Announce(c) PROVE OrderInv'
  <1> SUFFICES ASSUME NEW m \in orderly'
               PROVE  /\ Served(m)' /\ (Quiet(m)' => ToldInRest(m)')
                      /\ \A d \in Calls : About(d, m)' => ToldDuring(m, calls[d])'
    BY DEF OrderInv
  <1>1. /\ calls[c] # Idle /\ calls[c].phase = "read" /\ rows' = rows
        /\ m \in orderly /\ m \in Names /\ calls'[c] = Idle
        /\ \A d \in Calls : d # c => calls'[d] = calls[d]
    BY DEF Announce, TypeOK
  <1>2. calls[c] \in ReadCalls
    BY <1>1 DEF TypeOK, Committed
  <1>3. Served(m) /\ (Quiet(m) => ToldInRest(m))
        /\ \A d \in Calls : About(d, m) => ToldDuring(m, calls[d])
    BY <1>1 DEF OrderInv
  <1>4. \A d \in Calls : About(d, m)' <=> About(d, m) /\ d # c
    BY <1>1 DEF About
  <1>5. Served(m)'
    BY <1>1, <1>3, <1>4 DEF Served
  <1>6. CASE calls[c].name # m
    <2>1. told'[m] = told[m]
      BY <1>1, <1>6 DEF Announce, TypeOK
    <2>2. Quiet(m)' => Quiet(m)
      BY <1>1, <1>6 DEF Quiet
    <2> QED BY <1>1, <1>3, <1>4, <1>5, <2>1, <2>2 DEF ToldInRest, ToldDuring, Limit, About
  <1>7. CASE calls[c].name = m
    <2>1. \A d \in Calls : ~About(d, m)'
      BY <1>1, <1>3, <1>4, <1>7 DEF About, Served
    <2>2. ToldDuring(m, calls[c])
      BY <1>1, <1>3, <1>7 DEF About
    <2>3. told'[m] = IF Message(calls[c]) = "" THEN told[m] ELSE Message(calls[c])
      BY <1>1, <1>7 DEF Announce, TypeOK
    <2>4. rows[m] \in Rows /\ Limit(m) \in Nat /\ rows[m].fails \in Nat
      BY <1>1, EffectiveType DEF TypeOK, Rows, Limit
    <2>5. ToldInRest(m)'
      <3>1. CASE calls[c].state = "down"
        <4>1. Message(calls[c]) = IF rows[m].fails = Limit(m) THEN "down" ELSE ""
          BY <1>1, <2>2, <3>1 DEF Message, ToldDuring
        <4>2. rows[m].state = "down" /\ (told[m] = "down" <=> rows[m].fails > Limit(m))
          BY <2>2, <3>1 DEF ToldDuring
        <4>3. CASE rows[m].fails = Limit(m)
          <5>1. told'[m] = "down" /\ rows[m].fails >= Limit(m)
            BY <2>3, <2>4, <4>1, <4>3
          <5> QED BY <1>1, <4>2, <5>1 DEF ToldInRest, Limit
        <4>4. CASE rows[m].fails # Limit(m)
          <5>1. told'[m] = told[m]
            BY <2>3, <4>1, <4>4
          <5>2. rows[m].fails > Limit(m) <=> rows[m].fails >= Limit(m)
            BY <2>4, <4>4
          <5> QED BY <1>1, <4>2, <5>1, <5>2 DEF ToldInRest, Limit
        <4> QED BY <4>3, <4>4
      <3>2. CASE calls[c].state # "down"
        <4>1. calls[c].state = "ok"
          BY <1>2, <1>3, <2>2, <3>2, WatchersAssumption DEF ReadCalls, Served, ToldDuring
        <4>2. Message(calls[c]) = IF calls[c].previous = "down" THEN "recovered" ELSE ""
          BY <4>1 DEF Message
        <4> QED BY <1>1, <2>2, <2>3, <4>1, <4>2 DEF ToldDuring, ToldInRest
      <3> QED BY <3>1, <3>2
    <2> QED BY <1>5, <2>1, <2>5
  <1> QED BY <1>6, <1>7

\* A dropped caller's watcher is out of order; the others are not concerned.
LEMMA OrderDrop ==
    ASSUME TypeOK, OrderInv, NEW c \in Calls, Drop(c) PROVE OrderInv'
  <1> SUFFICES ASSUME NEW m \in orderly'
               PROVE  /\ Served(m)' /\ (Quiet(m)' => ToldInRest(m)')
                      /\ \A d \in Calls : About(d, m)' => ToldDuring(m, calls[d])'
    BY DEF OrderInv
  <1>1. m \in orderly /\ calls[c].name # m
    BY StaysOrderly DEF Drop
  <1>2. calls'[c] = Idle /\ UNCHANGED <<rows, told>> /\ calls[c] # Idle
        /\ \A d \in Calls : d # c => calls'[d] = calls[d]
    BY DEF Drop, TypeOK
  <1>3. \A d \in Calls : (About(d, m)' <=> About(d, m)) /\ (About(d, m) => calls'[d] = calls[d])
    BY <1>1, <1>2 DEF About
  <1>4. Quiet(m)' => Quiet(m)
    BY <1>3 DEF Quiet, About
  <1> QED BY <1>1, <1>2, <1>3, <1>4
             DEF OrderInv, Served, ToldInRest, ToldDuring, Limit

\* Every step preserves the order invariant.
LEMMA OrderStep == TypeOK /\ OrderInv /\ [Next]_vars => OrderInv'
  <1> SUFFICES ASSUME TypeOK, OrderInv, [Next]_vars PROVE OrderInv'
    OBVIOUS
  <1>1. CASE UNCHANGED vars
    BY <1>1 DEF vars, OrderInv, Served, Quiet, ToldInRest, ToldDuring, Limit, About
  <1> QED BY <1>1, OrderRegister, OrderCommit, OrderReadBack, OrderAnnounce, OrderDrop DEF Next

\* The order invariant holds in every behaviour.
LEMMA OrderInvariance == Spec => [](TypeOK /\ OrderInv)
  BY TypeInit, TypeStep, OrderInit, OrderStep, PTL DEF Spec

\* A watcher checked in order never said degraded.
NeverDegraded == \A n \in orderly : \A i \in 1..Len(history[n]) : history[n][i] # "degraded"

\* There is nothing it has said at first, and what disturbs the order is lost.
LEMMA NeverDegradedInv ==
    /\ Init => NeverDegraded
    /\ TypeOK /\ NeverDegraded /\ [Next]_vars => NeverDegraded'
  <1>1. ASSUME Init PROVE NeverDegraded
    <2>1. \A n \in orderly : history[n] = <<>>
      BY <1>1 DEF Init
    <2> QED BY <2>1 DEF NeverDegraded
  <1>2. ASSUME TypeOK, NeverDegraded, [Next]_vars PROVE NeverDegraded'
    <2>1. ASSUME UNCHANGED history, \A m : m \in orderly' => m \in orderly PROVE NeverDegraded'
      BY <1>2, <2>1 DEF NeverDegraded
    <2>2. ASSUME NEW n \in Names, NEW how, Disturbed(n, how), UNCHANGED history
          PROVE  NeverDegraded'
      BY <2>1, <2>2, StaysOrderly
    <2>3. ASSUME NEW n \in Names, NEW threshold \in RegisterThresholds, Register(n, threshold)
          PROVE  NeverDegraded'
      BY <2>2, <2>3 DEF Register
    <2>4. ASSUME NEW c \in Calls, NEW n \in Names, NEW state \in CheckStates,
                 NEW threshold \in CheckinThresholds, Commit(c, n, state, threshold)
          PROVE  NeverDegraded'
      <3>1. SUFFICES ASSUME NEW m \in orderly', NEW i \in 1..Len(history'[m])
                     PROVE  history'[m][i] # "degraded"
        BY DEF NeverDegraded
      <3>2. m \in orderly /\ m \in Names /\ (m = n => state # "degraded")
        BY <1>2, <2>4, StaysOrderly DEF Commit, CommitDisturbs, TypeOK
      <3>3. history[m] \in Seq(CheckStates)
            /\ \A k \in 1..Len(history[m]) : history[m][k] # "degraded"
        BY <1>2, <3>2 DEF TypeOK, NeverDegraded
      <3>4. history'[m] = IF m = n THEN Append(history[m], state) ELSE history[m]
        BY <1>2, <2>4, <3>2 DEF Commit, TypeOK
      <3> QED BY <3>1, <3>2, <3>3, <3>4
    <2>5. ASSUME NEW c \in Calls, ReadBack(c) \/ Announce(c) PROVE NeverDegraded'
      BY <2>1, <2>5 DEF ReadBack, Announce
    <2>6. ASSUME NEW c \in Calls, Drop(c) PROVE NeverDegraded'
      <3>1. calls[c].name \in Names
        BY <1>2, <2>6 DEF Drop, TypeOK, Committed, ReadCalls
      <3> QED BY <2>2, <2>6, <3>1 DEF Drop
    <2>7. CASE UNCHANGED vars
      BY <2>1, <2>7 DEF vars
    <2> QED BY <1>2, <2>3, <2>4, <2>5, <2>6, <2>7 DEF Next
  <1> QED BY <1>1, <1>2

\* With check-ins in order, no outage goes unannounced, and no watcher that
\* recovered is left announced as down.
THEOREM ChangesAnnounced == Spec => []OrderlyChangesAreAnnounced
  <1>1. ASSUME OrderInv, NEW n \in orderly PROVE OutageAnnounced(n)
    BY <1>1 DEF OrderInv, ToldInRest, Limit, OutageAnnounced, Outage
  <1>2. ASSUME OrderInv, NEW n \in orderly PROVE RecoveryAnnounced(n)
    BY <1>2 DEF OrderInv, ToldInRest, RecoveryAnnounced
  <1>3. OrderInv => OrderlyChangesAreAnnounced
    BY <1>1, <1>2 DEF OrderlyChangesAreAnnounced
  <1> QED BY <1>3, OrderInvariance, PTL

\* With check-ins in order, an outage is announced once, by the down check-in
\* that makes the last ones as many as the threshold asks.
LEMMA OncePerOutage ==
    ASSUME TypeOK, OrderInv, NEW c \in Calls, Announce(c),
           Message(calls[c]) = "down", calls[c].name \in orderly
    PROVE  /\ told[calls[c].name] # "down" /\ Outage(calls[c].name)
           /\ rows[calls[c].name].fails = Effective(calls[c].threshold)
  <1> DEFINE n == calls[c].name
  <1>1. calls[c] # Idle /\ calls[c].phase = "read"
    BY DEF Announce
  <1>2. ToldDuring(n, calls[c])
    BY <1>1 DEF OrderInv, About
  <1>3. calls[c].state = "down" /\ calls[c].fails = Effective(calls[c].threshold)
    BY DEF Message
  <1>4. rows[n].fails = Limit(n) /\ rows[n].fails \in Nat /\ Effective(calls[c].threshold) = Limit(n)
    BY <1>1, <1>2, <1>3 DEF ToldDuring, TypeOK, Rows
  <1>5. ~(rows[n].fails > Limit(n)) /\ rows[n].fails >= Limit(n)
    BY <1>4
  <1> QED BY <1>2, <1>3, <1>4, <1>5 DEF ToldDuring, Outage, Limit

\* The fails of a watcher checked in order are down check-ins, its last ones.
LEMMA LastOnesDown ==
    ASSUME TypeOK, RowsInv, NeverDegraded, NEW n \in orderly
    PROVE  EndsDown(history[n], rows[n].fails)
  <1>1. /\ n \in Names /\ rows[n] \in Rows /\ history[n] \in Seq(CheckStates)
        /\ RowInv(rows[n], history[n])
        /\ \A i \in 1..Len(history[n]) : history[n][i] # "degraded"
    BY DEF TypeOK, RowsInv, NeverDegraded
  <1>2. PICK h \in Seq(CheckStates), k \in Nat : h = history[n] /\ k = rows[n].fails
    BY <1>1 DEF Rows
  <1>3. /\ k <= Len(h) /\ \A i \in (Len(h) - k + 1)..Len(h) : h[i] # "ok"
        /\ \A i \in 1..Len(h) : h[i] # "degraded" /\ h[i] \in CheckStates
    BY <1>1, <1>2 DEF RowInv
  <1>4. ASSUME NEW i \in (Len(h) - k + 1)..Len(h) PROVE h[i] = "down"
    <2>1. i \in 1..Len(h)
      BY <1>3
    <2> QED BY <1>3, <2>1, WatchersAssumption
  <1> QED BY <1>2, <1>3, <1>4 DEF EndsDown

\* No message is sent that the watcher's history does not deserve, however
\* check-ins interleave; and with check-ins in order, a down message follows as
\* many down check-ins as the threshold asks, once per outage.
THEOREM NoUndeservedAlert == Spec => AlertsAreDeserved
  <1>1. Inv /\ OrderInv /\ NeverDegraded /\ [Next]_vars =>
          [\A c \in Calls : Announce(c) =>
             LET u == calls[c]
                 h == history[u.name]
                 k == Effective(u.threshold)
             IN  /\ Message(u) = "down" => HasRun(h, k, {"degraded", "down"})
                 /\ Message(u) = "down" /\ u.name \in orderly =>
                       EndsDown(h, k) /\ told[u.name] # "down"
                 /\ Message(u) = "recovered" =>
                       \E i \in 1..(Len(h) - 1) : h[i] = "down" /\ h[i + 1] = "ok"]_vars
    <2> SUFFICES ASSUME Inv, OrderInv, NeverDegraded, NEW c \in Calls, Announce(c)
                 PROVE  LET u == calls[c]
                            h == history[u.name]
                            k == Effective(u.threshold)
                        IN  /\ Message(u) = "down" => HasRun(h, k, {"degraded", "down"})
                            /\ Message(u) = "down" /\ u.name \in orderly =>
                                  EndsDown(h, k) /\ told[u.name] # "down"
                            /\ Message(u) = "recovered" => Recovery(h)
      BY DEF Recovery
    <2>1. Message(calls[c]) = "down" /\ calls[c].name \in orderly =>
             /\ EndsDown(history[calls[c].name], Effective(calls[c].threshold))
             /\ told[calls[c].name] # "down"
      BY OncePerOutage, LastOnesDown DEF Inv
    <2> QED BY <2>1, Deserved DEF Fails
  <1>2. Spec => []NeverDegraded
    <2>1. Spec => []TypeOK
      BY Typing
    <2> QED BY <2>1, NeverDegradedInv, PTL DEF Spec
  <1> QED BY <1>1, <1>2, InvInit, InvStep, OrderInvariance, PTL DEF Spec, AlertsAreDeserved

-----------------------------------------------------------------------------
(* The announcements that are promised (Announcements). *)

\* What a watcher is there.
StateOf(n) == IF n \in orderly /\ Outage(n) THEN "out" ELSE "fine"
ToldOf(n)  == IF n \in orderly THEN told[n] ELSE "lost"

\* A step that concerns one watcher is one of that watcher's there, or none.
LEMMA OneWatcher ==
    ASSUME NEW n \in Names,
           \A m \in Names : m # n => StateOf(m)' = StateOf(m) /\ ToldOf(m)' = ToldOf(m),
           \/ StateOf(n)' = StateOf(n) /\ ToldOf(n)' = ToldOf(n)
           \/ /\ StateOf(n) = "fine" /\ ToldOf(n) \in {"", "recovered"}
              /\ StateOf(n)' = "out" /\ ToldOf(n)' = ToldOf(n)
           \/ /\ StateOf(n) = "out" /\ ToldOf(n) = "down"
              /\ StateOf(n)' = "fine" /\ ToldOf(n)' = ToldOf(n)
           \/ /\ StateOf(n) = "out" /\ ToldOf(n) \in {"", "recovered"}
              /\ StateOf(n)' = "out" /\ ToldOf(n)' = "down"
           \/ /\ StateOf(n) = "fine" /\ ToldOf(n) # "lost"
              /\ StateOf(n)' = "fine" /\ ToldOf(n)' = "recovered"
           \/ /\ ToldOf(n) # "lost"
              /\ StateOf(n)' = "fine" /\ ToldOf(n)' = "lost"
    PROVE  [Announced!Next]_(Announced!vars)
  <1> DEFINE s == [m \in Names |-> StateOf(m)]
             t == [m \in Names |-> ToldOf(m)]
  <1>1. /\ s' = [s EXCEPT ![n] = StateOf(n)'] /\ t' = [t EXCEPT ![n] = ToldOf(n)']
        /\ s[n] = StateOf(n) /\ t[n] = ToldOf(n)
        /\ StateOf(n)' = s[n] => s' = s
        /\ ToldOf(n)' = t[n] => t' = t
    OBVIOUS
  <1>2. /\ s = [m \in Names |-> IF m \in orderly /\ Outage(m) THEN "out" ELSE "fine"]
        /\ t = [m \in Names |-> IF m \in orderly THEN told[m] ELSE "lost"]
        /\ s' = [m \in Names |-> IF m \in orderly /\ Outage(m) THEN "out" ELSE "fine"]'
        /\ t' = [m \in Names |-> IF m \in orderly THEN told[m] ELSE "lost"]'
    BY DEF StateOf, ToldOf
  <1> HIDE DEF s, t
  <1> QED BY <1>1, <1>2 DEF Announced!Next, Announced!Step, Announced!Begin, Announced!End,
                            Announced!TellDown, Announced!TellRecovered, Announced!Lose, Announced!vars

\* A watcher whose row and messages stay, and that is no less orderly, stays.
LEMMA Unconcerned ==
    ASSUME NEW m, rows'[m] = rows[m], told'[m] = told[m], m \in orderly' <=> m \in orderly
    PROVE  StateOf(m)' = StateOf(m) /\ ToldOf(m)' = ToldOf(m)
  BY DEF StateOf, ToldOf, Outage

\* A watcher that was orderly and is not any more is lost; one that was not stays lost.
LEMMA LostOne ==
    ASSUME TypeOK, NEW n \in Names, n \notin orderly'
    PROVE  /\ n \notin orderly => StateOf(n)' = StateOf(n) /\ ToldOf(n)' = ToldOf(n)
           /\ n \in orderly => /\ ToldOf(n) # "lost"
                              /\ StateOf(n)' = "fine" /\ ToldOf(n)' = "lost"
  <1>1. told[n] \in {"", "down", "recovered"}
    BY DEF TypeOK
  <1> QED BY <1>1 DEF StateOf, ToldOf

\* Only the watcher a step is about leaves the orderly ones, and none joins them.
LEMMA DisturbedOne ==
    ASSUME NEW n, NEW how, Disturbed(n, how)
    PROVE  /\ \A m : m # n => (m \in orderly' <=> m \in orderly)
           /\ n \in orderly' => n \in orderly /\ ~how
  BY DEF Disturbed

\* A registration of an orderly watcher begins and ends no outage.
LEMMA RegisterAnnounced ==
    ASSUME TypeOK, OrderInv, NEW n \in Names, NEW threshold \in RegisterThresholds,
           Register(n, threshold)
    PROVE  [Announced!Next]_(Announced!vars)
  <1>1. /\ told' = told /\ Disturbed(n, Moves(n, threshold))
        /\ \A m \in Names : m # n => rows'[m] = rows[m]
        /\ rows'[n] = IF rows[n].state = "absent"
                        THEN [state |-> "unknown", fails |-> 0, threshold |-> threshold]
                        ELSE [rows[n] EXCEPT !.threshold = threshold]
    BY DEF Register, TypeOK
  <1>2. \A m \in Names : m # n => StateOf(m)' = StateOf(m) /\ ToldOf(m)' = ToldOf(m)
    BY <1>1, DisturbedOne, Unconcerned
  <1>3. CASE n \notin orderly'
    BY <1>2, <1>3, LostOne, OneWatcher
  <1>4. CASE n \in orderly'
    <2>1. n \in orderly /\ ~Moves(n, threshold)
      BY <1>1, <1>4, DisturbedOne
    <2>2. rows[n] \in Rows /\ Served(n)
      BY <2>1 DEF TypeOK, OrderInv
    <2>3. CASE rows[n].state = "absent"
      <3>1. ~Outage(n) /\ ~Outage(n)'
        BY <1>1, <2>3 DEF Outage
      <3>2. StateOf(n)' = StateOf(n) /\ ToldOf(n)' = ToldOf(n)
        BY <1>1, <1>4, <2>1, <3>1 DEF StateOf, ToldOf
      <3> QED BY <1>2, <3>2, OneWatcher
    <2>4. CASE rows[n].state # "absent"
      <3>1. rows'[n].state = rows[n].state /\ rows'[n].fails = rows[n].fails
            /\ rows'[n].threshold = threshold
        BY <1>1, <2>2, <2>4 DEF Rows
      <3>2. rows[n].state = "down" => Effective(threshold) = Effective(rows[n].threshold)
        BY <2>1, <2>2 DEF Moves, Served
      <3>3. Outage(n)' <=> Outage(n)
        BY <3>1, <3>2 DEF Outage
      <3>4. StateOf(n)' = StateOf(n) /\ ToldOf(n)' = ToldOf(n)
        BY <1>1, <1>4, <2>1, <3>3 DEF StateOf, ToldOf
      <3> QED BY <1>2, <3>4, OneWatcher
    <2> QED BY <2>3, <2>4
  <1> QED BY <1>3, <1>4

\* A check-in in order comes when what was told is what is: it may begin an
\* outage or end one.
LEMMA CommitAnnounced ==
    ASSUME TypeOK, OrderInv, NEW c \in Calls, NEW n \in Names, NEW state \in CheckStates,
           NEW threshold \in CheckinThresholds, Commit(c, n, state, threshold)
    PROVE  [Announced!Next]_(Announced!vars)
  <1>1. /\ told' = told
        /\ Disturbed(n, \/ ~Quiet(n) \/ state = "degraded"
                        \/ threshold # Keep /\ Moves(n, threshold))
        /\ \A m \in Names : m # n => rows'[m] = rows[m]
    BY DEF Commit, CommitDisturbs, TypeOK
  <1>2. \A m \in Names : m # n => StateOf(m)' = StateOf(m) /\ ToldOf(m)' = ToldOf(m)
    BY <1>1, DisturbedOne, Unconcerned
  <1>3. CASE n \notin orderly'
    BY <1>2, <1>3, LostOne, OneWatcher
  <1>4. CASE n \in orderly'
    <2>1. n \in orderly /\ Quiet(n)
      BY <1>1, <1>4, DisturbedOne
    <2>2. told[n] = "down" <=> Outage(n)
      BY <2>1 DEF OrderInv, ToldInRest, Outage, Limit
    <2>3. told[n] \in {"", "down", "recovered"}
      BY DEF TypeOK
    <2>4. /\ ToldOf(n) = told[n] /\ ToldOf(n)' = told[n]
          /\ StateOf(n) = IF Outage(n) THEN "out" ELSE "fine"
          /\ StateOf(n)' = IF Outage(n)' THEN "out" ELSE "fine"
      BY <1>1, <1>4, <2>1 DEF StateOf, ToldOf
    <2> QED BY <1>2, <2>2, <2>3, <2>4, OneWatcher
  <1> QED BY <1>3, <1>4

\* A message in order says what is so: that an outage is on that has not been
\* announced, or that there is none.
LEMMA AnnounceAnnounced ==
    ASSUME TypeOK, OrderInv, NEW c \in Calls, Announce(c)
    PROVE  [Announced!Next]_(Announced!vars)
  <1> DEFINE u == calls[c]
  <1>0. PICK n \in Names : u.name = n
    BY DEF Announce, TypeOK, Committed, ReadCalls
  <1>1. /\ u # Idle /\ u.phase = "read" /\ UNCHANGED <<rows, orderly>>
        /\ told' = IF Message(u) = "" THEN told ELSE [told EXCEPT ![n] = Message(u)]
    BY <1>0 DEF Announce
  <1>2. u \in ReadCalls /\ told[n] \in {"", "down", "recovered"}
    BY <1>1 DEF TypeOK, Committed, ReadCalls
  <1>3. /\ \A m \in Names : m # n => told'[m] = told[m]
        /\ told'[n] = IF Message(u) = "" THEN told[n] ELSE Message(u)
    BY <1>1, <1>2 DEF TypeOK
  <1>4. \A m \in Names : m # n => StateOf(m)' = StateOf(m) /\ ToldOf(m)' = ToldOf(m)
    BY <1>1, <1>3, Unconcerned
  <1>5. CASE n \notin orderly
    BY <1>1, <1>2, <1>4, <1>5, LostOne, OneWatcher
  <1>6. CASE n \in orderly
    <2>1. ToldDuring(n, u) /\ Served(n)
      BY <1>0, <1>1, <1>2, <1>6 DEF OrderInv, About
    <2>2. /\ ToldOf(n) = told[n] /\ ToldOf(n)' = told'[n]
          /\ StateOf(n) = IF Outage(n) THEN "out" ELSE "fine"
          /\ StateOf(n)' = StateOf(n)
      BY <1>1, <1>6 DEF StateOf, ToldOf, Outage
    <2>3. CASE Message(u) = "down"
      <3>1. told[n] # "down" /\ Outage(n)
        BY <1>0, <1>6, <2>3, OncePerOutage
      <3>2. told[n] \in {"", "recovered"} /\ told'[n] = "down"
        BY <1>2, <1>3, <2>3, <3>1
      <3> HIDE DEF u
      <3> QED BY <1>2, <1>4, <2>2, <3>1, <3>2, OneWatcher
    <2>4. CASE Message(u) = "recovered"
      <3>1. u.state = "ok"
        BY <2>4 DEF Message
      <3>2. ~Outage(n) /\ told'[n] = "recovered" /\ told[n] # "lost"
        BY <1>2, <1>3, <2>1, <2>4, <3>1 DEF ToldDuring, Outage
      <3> HIDE DEF u
      <3> QED BY <1>2, <1>4, <2>2, <3>2, OneWatcher
    <2>5. CASE Message(u) = ""
      <3>1. told'[n] = told[n]
        BY <1>3, <2>5
      <3> HIDE DEF u
      <3> QED BY <1>2, <1>4, <2>2, <3>1, OneWatcher
    <2> QED BY <2>3, <2>4, <2>5 DEF Message
  <1> QED BY <1>5, <1>6

\* A watcher whose check-in is cut off is lost.
LEMMA DropAnnounced ==
    ASSUME TypeOK, NEW c \in Calls, Drop(c)
    PROVE  [Announced!Next]_(Announced!vars)
  <1>0. PICK n \in Names : calls[c].name = n
    BY DEF Drop, TypeOK, Committed, ReadCalls
  <1>1. UNCHANGED <<rows, told>> /\ Disturbed(n, TRUE)
    BY <1>0 DEF Drop
  <1>2. n \notin orderly'
    BY <1>1, DisturbedOne
  <1>3. \A m \in Names : m # n => StateOf(m)' = StateOf(m) /\ ToldOf(m)' = ToldOf(m)
    BY <1>1, DisturbedOne, Unconcerned
  <1> QED BY <1>1, <1>2, <1>3, LostOne, OneWatcher

\* Before the first check-in there is no outage.
LEMMA AnnouncedInit == Init => Announced!Init
  <1> SUFFICES ASSUME Init PROVE Announced!Init
    OBVIOUS
  <1>1. \A n \in Names : ~Outage(n) /\ told[n] = "" /\ n \in orderly
    BY DEF Init, Outage, NoRow
  <1> QED BY <1>1 DEF Announced!Init

\* Checked in order, the watchers implement the announcements their service
\* promises: no outage ends, and none begins, before the last change was announced.
THEOREM WatchersAnnounce == Spec => ImplementsAnnouncements
  <1>1. ASSUME TypeOK, OrderInv, [Next]_vars PROVE [Announced!Next]_(Announced!vars)
    <2>1. ASSUME UNCHANGED <<rows, told, orderly>> PROVE UNCHANGED Announced!vars
      BY <2>1 DEF Announced!vars, Outage
    <2>2. ASSUME NEW c \in Calls, ReadBack(c) PROVE UNCHANGED <<rows, told, orderly>>
      BY <2>2 DEF ReadBack
    <2> QED BY <1>1, <2>1, <2>2, RegisterAnnounced, CommitAnnounced, AnnounceAnnounced,
               DropAnnounced DEF Next, vars
  <1>2. Spec => Announced!Spec
    BY <1>1, AnnouncedInit, OrderInvariance, PTL DEF Spec, Announced!Spec
  <1> QED BY <1>2 DEF ImplementsAnnouncements
=============================================================================
