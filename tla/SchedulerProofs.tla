--------------------------- MODULE SchedulerProofs ---------------------------
(***************************************************************************)
(* Proofs about Scheduler, for every set of schedules and intervals, every *)
(* bound and every tick of one decimal.  That a schedule runs once per     *)
(* interval needs what every schedule has earned so far (Ledger): its next *)
(* time lies as many intervals after its first as runs were marked, and    *)
(* what a tick has listed was due by the tick's own clock.                 *)
(***************************************************************************)
EXTENDS Scheduler, TLAPS

\* The runs of n that were marked or may still be.
Marked(n) == spawned[n] - lost[n] - (IF n \in current THEN 1 ELSE 0)

\* The second n's k-th run is due in, counted from its first.
Earned(n, k) == Second(first[n]) + k * rows[n].interval

Ledger(n) ==
    /\ Marked(n) >= 0
    /\ Exists(n) => /\ Earned(n, Marked(n)) <= Second(rows[n].next)
                    /\ Marked(n) >= 1 => Earned(n, Marked(n) - 1) <= Second(now)
    /\ ~Exists(n) => spawned[n] = 0 /\ lost[n] = 0
    /\ n \in todo \cup current => Exists(n) /\ Second(rows[n].next) <= Second(at)

IInv ==
    /\ TypeOK
    /\ pc = "down" => boot < MaxBoots
    /\ at <= now
    /\ todo \cap current = {}
    /\ \A n \in Schedules : Ledger(n)

-----------------------------------------------------------------------------
\* The seconds of a time are a natural number.
LEMMA SecondType == \A t \in Nat : Second(t) \in Nat
BY SchedulerAssumption, SMT DEF Second

\* A whole number of seconds later, the second is that many later.
LEMMA SecondAfter ==
    \A t \in Nat, i \in Nat : After(t, i) \in Nat /\ Second(After(t, i)) = Second(t) + i
BY SchedulerAssumption, SMT DEF Second, After

\* A time whose text is not later than another's is in no later second: what
\* due's comparison of strings is worth (scheduler.go:108).
LEMMA TextOrder ==
    \A t \in Nat, u \in Nat : Text(t) <= Text(u) => Second(t) <= Second(u)
BY SchedulerAssumption, SMT DEF Second, Text, Fraction

\* A later time is in no earlier second.
LEMMA SecondMonotone ==
    \A t \in Nat, u \in Nat : t <= u => Second(t) <= Second(u)
BY SchedulerAssumption, SMT DEF Second

\* What the type invariant says of one schedule's row.
LEMMA RowFacts ==
    ASSUME TypeOK, NEW n \in Schedules
    PROVE  /\ rows[n].interval \in Nat /\ rows[n].next \in Nat
           /\ Exists(n) => rows[n] \in Rows
           /\ first[n] \in Nat /\ spawned[n] \in Nat /\ lost[n] \in Nat
<1>1. rows[n] \in Rows \cup {NoRow}
  BY DEF TypeOK
<1>2. rows[n] # NoRow => rows[n] \in Rows
  BY <1>1
<1>3. rows[n].interval \in Nat /\ rows[n].next \in Nat
  <2>1. CASE rows[n] = NoRow
    BY <2>1 DEF NoRow
  <2>2. CASE rows[n] \in Rows
    <3>1. rows[n].interval \in Intervals /\ rows[n].next \in Nat
      BY <2>2 DEF Rows
    <3>. QED
      BY <3>1, SchedulerAssumption
  <2>. QED
    BY <1>1, <2>1, <2>2
<1>. QED
  BY <1>2, <1>3 DEF TypeOK, Exists

-----------------------------------------------------------------------------
\* The state a server first opens satisfies the invariant.
LEMMA InitIInv == Init => IInv
<1>. SUFFICES ASSUME Init PROVE IInv
  OBVIOUS
<1>1. PICK i \in Intervals, f \in 0..TicksPerSecond - 1 :
        LET next == i * TicksPerSecond + f IN
        /\ rows = [n \in Schedules |->
                     IF n \in Seeded THEN [interval |-> i, last |-> 0, next |-> next] ELSE NoRow]
        /\ first = [n \in Schedules |-> IF n \in Seeded THEN next ELSE 0]
  BY DEF Init
<1>2. i \in Nat /\ i * TicksPerSecond + f \in Nat
  BY SchedulerAssumption
<1>3. TypeOK
  BY <1>1, <1>2, SchedulerAssumption DEF Init, TypeOK, Rows, Null
<1>4. ASSUME NEW n \in Schedules PROVE Ledger(n)
  <2>1. Marked(n) = 0 /\ spawned[n] = 0 /\ lost[n] = 0 /\ n \notin todo \cup current
    BY DEF Init, Marked
  <2>2. Exists(n) => first[n] = rows[n].next
    BY <1>1 DEF Exists, NoRow
  <2>3. Exists(n) => Earned(n, 0) = Second(rows[n].next)
    BY <1>3, <2>2, RowFacts, SecondType DEF Earned
  <2>4. Exists(n) => Earned(n, 0) <= Second(rows[n].next)
    BY <1>3, <2>3, RowFacts, SecondType
  <2>. QED
    BY <2>1, <2>4 DEF Ledger
<1>. QED
  BY <1>3, <1>4 DEF IInv, Init

\* A step that leaves a schedule's row and count alone, and lists nothing new,
\* leaves its ledger right.
LEMMA LedgerFrame ==
    ASSUME IInv, TypeOK', NEW n \in Schedules,
           rows'[n] = rows[n], first'[n] = first[n],
           Marked(n)' = Marked(n), now <= now',
           ~Exists(n) => spawned'[n] = spawned[n] /\ lost'[n] = lost[n],
           (n \in todo \cup current)' => n \in todo \cup current /\ at' = at
    PROVE  Ledger(n)'
<1>1. Ledger(n) /\ TypeOK
  BY DEF IInv
<1>2. Marked(n) \in Int
  BY <1>1, RowFacts DEF Marked
<1>3. \A k \in Int : Earned(n, k)' = Earned(n, k)
  BY DEF Earned, Second
<1>4. Second(now) <= Second(now')
  BY <1>1, SecondMonotone DEF TypeOK
<1>5. \A k \in Int : Earned(n, k) \in Int
  BY <1>1, RowFacts, SecondType DEF Earned
<1>6. Second(now) \in Int /\ Second(now') \in Int
  BY <1>1, SecondType DEF TypeOK
<1>7. Exists(n)' <=> Exists(n)
  BY DEF Exists
<1>8. Marked(n)' >= 0
  BY <1>1 DEF Ledger
<1>9. ASSUME Exists(n)
      PROVE  /\ Earned(n, Marked(n))' <= Second(rows'[n].next)
             /\ Marked(n)' >= 1 => (Earned(n, Marked(n) - 1))' <= Second(now')
  <2>1. Earned(n, Marked(n)) <= Second(rows[n].next)
    BY <1>1, <1>9 DEF Ledger
  <2>2. Marked(n) >= 1 => Earned(n, Marked(n) - 1) <= Second(now)
    BY <1>1, <1>9 DEF Ledger
  <2>3. Earned(n, Marked(n))' = Earned(n, Marked(n))
    BY DEF Earned, Second
  <2>4. (Earned(n, Marked(n) - 1))' = Earned(n, Marked(n) - 1)
    BY DEF Earned, Second
  <2>. QED
    BY <1>2, <1>4, <1>5, <1>6, <2>1, <2>2, <2>3, <2>4
<1>10. ~Exists(n) => spawned'[n] = 0 /\ lost'[n] = 0
  BY <1>1 DEF Ledger
<1>11. (n \in todo \cup current)' => Exists(n) /\ Second(rows'[n].next) <= Second(at')
  BY <1>1 DEF Ledger
<1>. QED
  BY <1>7, <1>8, <1>9, <1>10, <1>11 DEF Ledger, Second

-----------------------------------------------------------------------------
\* A new schedule's first time is its next.
LEMMA CreateIInv ==
    ASSUME IInv, NEW n \in Schedules, NEW interval \in Intervals, Create(n, interval)
    PROVE  IInv'
<1>1. TypeOK /\ interval \in Nat
  BY SchedulerAssumption DEF IInv
<1>2. After(now, interval) \in Nat
  BY <1>1, SecondAfter DEF TypeOK
<1>3. TypeOK'
  BY <1>1, <1>2 DEF Create, TypeOK, Rows, runner
<1>4. now' = now /\ at' = at /\ todo' = todo /\ current' = current
      /\ spawned' = spawned /\ lost' = lost
  BY DEF Create, runner
<1>5. n \notin todo \cup current /\ spawned[n] = 0 /\ lost[n] = 0
  BY DEF Create, IInv, Ledger
<1>6. ASSUME NEW m \in Schedules PROVE Ledger(m)'
  <2>1. CASE m = n
    <3>1. rows'[m].next = After(now, interval) /\ first'[m] = After(now, interval)
      BY <1>1, <2>1 DEF Create, TypeOK
    <3>2. Marked(m)' = 0
      BY <1>4, <1>5, <2>1 DEF Marked
    <3>3. rows'[m].interval = interval
      BY <1>1, <2>1 DEF Create, TypeOK
    <3>4. Second(After(now, interval)) \in Nat
      BY <1>2, SecondType
    <3>5. Earned(m, Marked(m))' = Second(After(now, interval)) + 0 * interval
      BY <3>1, <3>2, <3>3 DEF Earned, Second
    <3>6. Earned(m, Marked(m))' <= Second(rows'[m].next)
      BY <1>1, <3>1, <3>4, <3>5
    <3>7. Exists(m)'
      BY <3>3, SchedulerAssumption DEF Exists, NoRow
    <3>. QED
      BY <1>4, <1>5, <2>1, <3>2, <3>6, <3>7 DEF Ledger, Second
  <2>2. CASE m # n
    <3>1. rows'[m] = rows[m] /\ first'[m] = first[m]
      BY <1>1, <2>2 DEF Create, TypeOK
    <3>2. Marked(m)' = Marked(m) /\ now <= now'
      BY <1>1, <1>4 DEF Marked, TypeOK
    <3>. QED
      BY <1>3, <1>4, <3>1, <3>2, LedgerFrame
  <2>. QED
    BY <2>1, <2>2
<1>. QED
  BY <1>3, <1>4, <1>6 DEF IInv, Create, runner

\* A tick lists what is due by its own reading of the clock.
LEMMA TickIInv ==
    ASSUME IInv, Tick PROVE IInv'
<1>1. TypeOK
  BY DEF IInv
<1>2. rows' = rows /\ now' = now /\ current' = current /\ spawned' = spawned
      /\ first' = first /\ lost' = lost /\ at' = now /\ current = {} /\ todo = {}
  BY <1>1 DEF Tick, history, TypeOK
<1>3. todo' \subseteq {n \in Schedules : Due(n, now)}
  BY <1>2 DEF Tick
<1>4. TypeOK'
  BY <1>1, <1>2 DEF Tick, TypeOK
<1>5. ASSUME NEW n \in Schedules PROVE Ledger(n)'
  <2>1. Ledger(n) /\ rows[n].next \in Nat
    BY <1>1, RowFacts DEF IInv
  <2>2. n \in todo' => Exists(n) /\ Second(rows[n].next) <= Second(now)
    BY <1>1, <1>3, <2>1, TextOrder DEF Due, TypeOK
  <2>. QED
    BY <1>2, <2>1, <2>2 DEF Ledger, Marked, Earned, Exists, Second
<1>. QED
  BY <1>1, <1>2, <1>4, <1>5 DEF IInv, TypeOK, Tick

\* A listing that fails only reads the clock.
LEMMA TickFailsIInv ==
    ASSUME IInv, TickFails PROVE IInv'
<1>1. TypeOK
  BY DEF IInv
<1>2. rows' = rows /\ now' = now /\ current' = current /\ spawned' = spawned
      /\ first' = first /\ lost' = lost /\ at' = now /\ current = {} /\ todo = {}
      /\ todo' = todo
  BY <1>1 DEF TickFails, history, TypeOK
<1>3. TypeOK'
  BY <1>1, <1>2, SchedulerAssumption DEF TickFails, TypeOK
<1>4. ASSUME NEW n \in Schedules PROVE Ledger(n)'
  BY <1>2 DEF IInv, Ledger, Marked, Earned, Exists, Second
<1>. QED
  BY <1>1, <1>2, <1>3, <1>4 DEF IInv, TypeOK, TickFails

\* A task is created and not yet marked: what is marked stays the same.
LEMMA SpawnIInv ==
    ASSUME IInv, NEW n \in Schedules, Spawn(n) PROVE IInv'
<1>1. TypeOK
  BY DEF IInv
<1>2. rows' = rows /\ now' = now /\ at' = at /\ first' = first /\ lost' = lost
      /\ todo' = todo \ {n} /\ current' = {n} /\ n \in todo
  BY DEF Spawn, history
<1>3. current = {}
  BY <1>1 DEF Spawn, TypeOK
<1>4. spawned' = [spawned EXCEPT ![n] = @ + 1]
  BY DEF Spawn
<1>5. TypeOK'
  <2>1. spawned' \in [Schedules -> Nat]
    BY <1>1, <1>4 DEF TypeOK
  <2>. QED
    BY <1>1, <1>2, <2>1 DEF Spawn, TypeOK
<1>6. ASSUME NEW m \in Schedules PROVE Ledger(m)'
  <2>1. Marked(m)' = Marked(m)
    BY <1>1, <1>2, <1>3, <1>4, RowFacts DEF Marked, TypeOK
  <2>2. ~Exists(m) => m # n
    BY <1>2 DEF IInv, Ledger
  <2>3. m # n => spawned'[m] = spawned[m]
    BY <1>1, <1>4 DEF TypeOK
  <2>4. (m \in todo \cup current)' => m \in todo \cup current
    BY <1>2
  <2>. QED
    BY <1>1, <1>2, <1>5, <2>1, <2>2, <2>3, <2>4, LedgerFrame DEF TypeOK
<1>. QED
  BY <1>2, <1>5, <1>6 DEF IInv, Spawn

\* A schedule whose task could not be created is only taken off the list.
LEMMA SpawnFailsIInv ==
    ASSUME IInv, NEW n \in Schedules, SpawnFails(n) PROVE IInv'
<1>1. TypeOK
  BY DEF IInv
<1>2. rows' = rows /\ now' = now /\ at' = at /\ first' = first /\ lost' = lost
      /\ spawned' = spawned /\ current' = current /\ todo' = todo \ {n}
  BY DEF SpawnFails, history, NextSchedule
<1>3. current = {}
  BY <1>1 DEF SpawnFails, TypeOK
<1>4. TypeOK'
  BY <1>1, <1>2, <1>3, SchedulerAssumption DEF SpawnFails, NextSchedule, TypeOK
<1>5. ASSUME NEW m \in Schedules PROVE Ledger(m)'
  BY <1>1, <1>2, <1>4, LedgerFrame DEF Marked, TypeOK
<1>. QED
  BY <1>2, <1>4, <1>5 DEF IInv, SpawnFails, NextSchedule

\* The marked schedule's next time moves an interval on from a time that was
\* not before the old one.
LEMMA MarkRunIInv ==
    ASSUME IInv, MarkRun PROVE IInv'
<1>1. TypeOK
  BY DEF IInv
<1>2. now' = now /\ at' = at /\ first' = first /\ lost' = lost
      /\ spawned' = spawned /\ current' = {} /\ todo' = todo
  BY DEF MarkRun, history, NextSchedule
<1>3. ASSUME NEW n \in current
      PROVE  /\ n \in Schedules /\ rows[n] \in Rows /\ rows[n].interval \in Intervals
             /\ rows'[n] = [rows[n] EXCEPT !.last = at,
                                           !.next = After(at, rows[n].interval)]
             /\ rows'[n] \in Rows
  <2>1. n \in Schedules /\ Exists(n)
    BY <1>1 DEF IInv, Ledger, TypeOK
  <2>2. rows[n] \in Rows
    BY <1>1, <2>1, RowFacts
  <2>3. rows[n].interval \in Intervals
    BY <2>2 DEF Rows
  <2>4. rows'[n] = [rows[n] EXCEPT !.last = at, !.next = After(at, rows[n].interval)]
    BY <2>1 DEF MarkRun
  <2>5. at \in Nat /\ After(at, rows[n].interval) \in Nat
    <3>1. at \in Nat
      BY <1>1, SchedulerAssumption DEF TypeOK
    <3>2. rows[n].interval \in Nat
      BY <2>3, SchedulerAssumption
    <3>. QED
      BY <3>1, <3>2, SecondAfter
  <2>. QED
    BY <2>1, <2>2, <2>3, <2>4, <2>5 DEF Rows
<1>4. ASSUME NEW n \in Schedules, n \notin current PROVE rows'[n] = rows[n]
  BY <1>4 DEF MarkRun
<1>5. TypeOK'
  <2>1. rows' \in [Schedules -> Rows \cup {NoRow}]
    <3>. DEFINE row(n) == IF n \in current
                            THEN [rows[n] EXCEPT !.last = at, !.next = After(at, rows[n].interval)]
                            ELSE rows[n]
    <3>1. rows' = [n \in Schedules |-> row(n)]
      BY DEF MarkRun
    <3>2. ASSUME NEW n \in Schedules PROVE row(n) \in Rows \cup {NoRow}
      BY <1>1, <1>3 DEF TypeOK
    <3>. HIDE DEF row
    <3>. QED
      BY <3>1, <3>2
  <2>. QED
    BY <1>1, <1>2, <2>1 DEF MarkRun, NextSchedule, TypeOK
<1>6. ASSUME NEW n \in Schedules PROVE Ledger(n)'
  <2>1. CASE n \in current
    <3>1. PICK i \in Nat : i = rows[n].interval
      BY <1>3, <2>1, SchedulerAssumption
    <3>2. PICK k \in Int : k = Marked(n)
      BY <1>1, RowFacts DEF Marked
    <3>3. Marked(n)' = k + 1 /\ k >= 0
      BY <1>1, <1>2, <2>1, <3>2, RowFacts DEF Marked, IInv, Ledger
    <3>4. rows'[n].interval = i /\ rows'[n].next = After(at, i)
      BY <1>3, <2>1, <3>1 DEF Rows
    <3>. DEFINE a == Second(first[n])
                b == Second(rows[n].next)
                c == Second(at)
                d == Second(now)
    <3>5. a \in Nat /\ b \in Nat /\ c \in Nat /\ d \in Nat
      BY <1>1, RowFacts, SecondType DEF TypeOK
    <3>6. c <= d
      BY <1>1, SecondMonotone DEF IInv, TypeOK
    <3>7. a + k * i <= b /\ b <= c
      BY <2>1, <3>1, <3>2 DEF IInv, Ledger, Earned
    <3>8. Second(After(at, i)) = c + i
      BY <1>1, SecondAfter DEF TypeOK
    <3>9. a + (k + 1) * i <= c + i /\ a + k * i <= d
      <4>. HIDE DEF a, b, c, d
      <4>1. (k + 1) * i = k * i + i
        OBVIOUS
      <4>2. k * i \in Int
        OBVIOUS
      <4>. QED
        BY <3>5, <3>6, <3>7, <4>1, <4>2
    <3>10. Earned(n, Marked(n))' = a + (k + 1) * i
      BY <1>2, <3>3, <3>4 DEF Earned, Second
    <3>11. (Earned(n, Marked(n) - 1))' = a + k * i
      BY <1>2, <3>3, <3>4 DEF Earned, Second
    <3>12. Second(rows'[n].next) = c + i
      BY <3>4, <3>8
    <3>13. Exists(n)'
      <4>1. rows'[n].interval # 0
        BY <1>3, <2>1, <3>1, <3>4, SchedulerAssumption
      <4>. QED
        BY <4>1 DEF Exists, NoRow
    <3>14. n \notin todo' \cup current'
      BY <1>2, <2>1 DEF IInv
    <3>. QED
      BY <1>2, <3>3, <3>9, <3>10, <3>11, <3>12, <3>13, <3>14 DEF Ledger, Second
  <2>2. CASE n \notin current
    BY <1>1, <1>2, <1>4, <1>5, <2>2, LedgerFrame DEF Marked, TypeOK
  <2>. QED
    BY <2>1, <2>2
<1>. QED
  BY <1>2, <1>5, <1>6 DEF IInv, MarkRun, NextSchedule

\* A run that is never marked leaves the count of marked runs alone, whether
\* marking it failed or the process died before it.
LEMMA UnmarkedIInv ==
    ASSUME IInv, TypeOK', Unmarked,
           rows' = rows, now' = now, first' = first, spawned' = spawned, current' = {},
           todo' \subseteq todo, todo' # {} => at' = at, at' <= now,
           pc' = "down" => boot' < MaxBoots
    PROVE  IInv'
<1>1. TypeOK
  BY DEF IInv
<1>2. ASSUME NEW n \in Schedules PROVE Ledger(n)'
  <2>1. Marked(n)' = Marked(n)
    BY <1>1, RowFacts DEF Marked, Unmarked
  <2>2. ~Exists(n) => lost'[n] = lost[n]
    BY DEF Unmarked, IInv, Ledger
  <2>3. (n \in todo \cup current)' => n \in todo \cup current /\ at' = at
    OBVIOUS
  <2>. QED
    BY <1>1, <2>1, <2>2, <2>3, LedgerFrame DEF TypeOK
<1>. QED
  BY <1>2 DEF IInv

\* Marking fails: nothing but the history learns of the run.
LEMMA MarkRunFailsIInv ==
    ASSUME IInv, MarkRunFails PROVE IInv'
<1>1. TypeOK
  BY DEF IInv
<1>2. lost' \in [Schedules -> Nat]
  BY <1>1 DEF MarkRunFails, Unmarked, TypeOK
<1>3. TypeOK'
  <2>1. pc' = (IF todo = {} THEN "idle" ELSE "loop") /\ todo' = todo /\ current' = {}
    BY DEF MarkRunFails, NextSchedule
  <2>2. failures' \in 0..MaxFailures
    BY <1>1, SchedulerAssumption DEF MarkRunFails, TypeOK
  <2>3. rows' = rows /\ now' = now /\ at' = at /\ boot' = boot
        /\ spawned' = spawned /\ first' = first
    BY DEF MarkRunFails
  <2>4. pc' \in {"idle", "loop", "mark", "down"} /\ (pc' = "mark" <=> current' # {})
        /\ (pc' = "loop" <=> todo' # {} /\ current' = {})
    BY <2>1
  <2>5. todo' \subseteq Schedules /\ current' \subseteq Schedules
    BY <1>1, <2>1 DEF TypeOK
  <2>. QED
    BY <1>1, <1>2, <2>2, <2>3, <2>4, <2>5 DEF TypeOK
<1>. QED
  BY <1>1, <1>3, UnmarkedIInv DEF MarkRunFails, NextSchedule, IInv

\* The process dies: what it had listed is forgotten.
LEMMA CrashIInv ==
    ASSUME IInv, Crash PROVE IInv'
<1>1. TypeOK
  BY DEF IInv
<1>2. lost' \in [Schedules -> Nat]
  BY <1>1 DEF Crash, Unmarked, TypeOK
<1>3. TypeOK'
  BY <1>1, <1>2, SchedulerAssumption DEF Crash, TypeOK
<1>. QED
  BY <1>1, <1>3, UnmarkedIInv DEF Crash, TypeOK

\* A new process starts with nothing listed.
LEMMA StartIInv ==
    ASSUME IInv, Start PROVE IInv'
<1>1. TypeOK
  BY DEF IInv
<1>2. TypeOK'
  <2>1. boot' \in 1..MaxBoots
    BY <1>1, SchedulerAssumption DEF Start, IInv, TypeOK
  <2>. QED
    BY <1>1, <2>1 DEF Start, history, TypeOK
<1>. QED
  BY <1>2 DEF Start, history, IInv, Ledger, Marked, Earned, Exists, Second

\* Time passing takes nothing back.
LEMMA ClockIInv ==
    ASSUME IInv, Clock PROVE IInv'
<1>1. TypeOK
  BY DEF IInv
<1>2. now' = now + 1 /\ now \in Nat /\ at \in Nat
  BY <1>1, SchedulerAssumption DEF Clock, TypeOK
<1>3. rows' = rows /\ pc' = pc /\ at' = at /\ todo' = todo /\ current' = current
      /\ failures' = failures /\ boot' = boot /\ spawned' = spawned
      /\ first' = first /\ lost' = lost
  BY DEF Clock, runner, history
<1>4. now' \in 0..MaxTime
  BY <1>1, SchedulerAssumption DEF Clock, TypeOK
<1>5. TypeOK'
  BY <1>1, <1>3, <1>4 DEF TypeOK
<1>6. ASSUME NEW n \in Schedules PROVE Ledger(n)'
  BY <1>1, <1>2, <1>3, <1>5, LedgerFrame DEF Marked
<1>. QED
  BY <1>2, <1>3, <1>5, <1>6 DEF IInv, Clock, runner

\* Every step preserves the invariant.
LEMMA NextIInv == IInv /\ [Next]_vars => IInv'
<1>. SUFFICES ASSUME IInv, [Next]_vars PROVE IInv'
  OBVIOUS
<1>1. CASE Next
  BY <1>1, CreateIInv, TickIInv, TickFailsIInv, SpawnIInv, SpawnFailsIInv, MarkRunIInv,
     MarkRunFailsIInv, CrashIInv, StartIInv, ClockIInv DEF Next
<1>2. CASE UNCHANGED vars
  BY <1>2 DEF vars, runner, history, IInv, TypeOK, Ledger, Marked, Earned, Exists, Second
<1>. QED
  BY <1>1, <1>2

\* The invariant holds in every behaviour of the scheduler.
LEMMA Invariance == Spec => []IInv
BY InitIInv, NextIInv, PTL DEF Spec

\* The schedules table and the runner keep their types: what a tick has listed
\* exists, and marking it never writes a row no schedule owns.
THEOREM TypeCorrect == Spec => []TypeOK
<1>1. IInv => TypeOK
  BY DEF IInv
<1>. QED
  BY <1>1, Invariance, PTL

\* A schedule is run once per interval and no more, in whole seconds, for every
\* fraction the times have and whatever fails or dies between the two writes.
THEOREM OncePerInterval == Spec => []AtMostOncePerInterval
<1>1. ASSUME IInv, NEW n \in Schedules, spawned[n] > lost[n]
      PROVE  Earned(n, spawned[n] - lost[n] - 1) <= Second(now)
  <2>1. TypeOK /\ Ledger(n)
    BY <1>1 DEF IInv
  <2>2. spawned[n] \in Nat /\ lost[n] \in Nat
    BY <2>1, RowFacts
  <2>3. Exists(n)
    BY <1>1, <2>1, <2>2 DEF Ledger
  <2>4. CASE n \in current
    <3>1. Marked(n) = spawned[n] - lost[n] - 1
      BY <2>4 DEF Marked
    <3>2. Earned(n, Marked(n)) <= Second(rows[n].next) /\ Second(rows[n].next) <= Second(at)
      BY <2>1, <2>3, <2>4 DEF Ledger
    <3>3. Second(at) <= Second(now)
      BY <1>1, <2>1, SecondMonotone DEF IInv, TypeOK
    <3>4. Earned(n, Marked(n)) \in Int
      BY <2>1, <2>2, <3>1, RowFacts, SecondType DEF Earned
    <3>5. Second(rows[n].next) \in Nat /\ Second(at) \in Nat /\ Second(now) \in Nat
      BY <2>1, RowFacts, SecondType DEF TypeOK
    <3>. QED
      BY <3>1, <3>2, <3>3, <3>4, <3>5
  <2>5. CASE n \notin current
    BY <1>1, <2>1, <2>2, <2>3, <2>5 DEF Ledger, Marked
  <2>. QED
    BY <2>4, <2>5
<1>2. IInv => AtMostOncePerInterval
  BY <1>1 DEF AtMostOncePerInterval, Earned
<1>. QED
  BY <1>2, Invariance, PTL
=============================================================================
