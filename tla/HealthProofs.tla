---------------------------- MODULE HealthProofs ----------------------------
(***************************************************************************)
(* Proofs about Health, for every set of tasks, threshold, sweep interval  *)
(* and bound.                                                              *)
(***************************************************************************)
EXTENDS Health, TLAPS

\* What the history variables and the marks need of their types.
Types ==
    /\ told \in [Tasks -> Nat] /\ boot \in Nat \ {0}
    /\ todo \subseteq stillStuck
    /\ pc \in {"down", "idle", "sweep"}

\* An unbroken episode that this boot has alerted is still marked, and a sweep
\* under way has found it stuck: the mark survives the Clear to come.
MarkInv ==
    \A t \in Tasks :
        /\ told[t] # 0 => Store!Stuck(t) /\ told[t] <= boot
        /\ told[t] = boot /\ pc # "down" =>
              t \in alerted /\ (pc = "sweep" => t \in stillStuck)

Inv == Types /\ MarkInv

\* A server that has just started has alerted nobody.
LEMMA InvInit == Init => Inv
  BY HealthAssumption DEF Init, Inv, Types, MarkInv

\* Every step keeps the types the argument needs.
LEMMA TypesStep == Types /\ [Next]_vars => Types'
  <1> SUFFICES ASSUME Types, [Next]_vars PROVE Types'
    OBVIOUS
  <1> USE DEF Types
  <1>1. ASSUME NEW t \in Tasks, TaskStep(t) PROVE Types'
    BY <1>1 DEF TaskStep, EpisodesEnd, monitor
  <1>2. CASE Tick
    BY <1>2 DEF Tick, EpisodesEnd
  <1>3. CASE SweepList \/ SweepListFails \/ Clear \/ Crash \/ Start
    BY <1>3 DEF SweepList, SweepListFails, Clear, Crash, Start, history, monitor
  <1>4. ASSUME NEW t \in Tasks, Visit(t) PROVE Types'
    BY <1>4 DEF Visit, Told, history
  <1>5. CASE UNCHANGED vars
    BY <1>5 DEF vars, history, monitor
  <1> QED BY <1>1, <1>2, <1>3, <1>4, <1>5 DEF Next

\* No step takes the mark from an unbroken episode that this boot has alerted.
LEMMA MarkStep == Inv /\ [Next]_vars => MarkInv'
  <1> SUFFICES ASSUME Types, MarkInv, [Next]_vars PROVE MarkInv'
    BY DEF Inv
  <1> USE DEF Types
  <1>1. ASSUME NEW u \in Tasks, TaskStep(u) PROVE MarkInv'
    <2>1. /\ \A t \in Tasks : told'[t] # 0 => Store!Stuck(t)' /\ told'[t] = told[t]
          /\ UNCHANGED <<monitor, boot>>
      BY <1>1 DEF TaskStep, EpisodesEnd
    <2> QED BY <2>1 DEF MarkInv, monitor
  <1>2. CASE Tick
    <2>1. /\ \A t \in Tasks : told'[t] # 0 => Store!Stuck(t)' /\ told'[t] = told[t]
          /\ UNCHANGED <<pc, todo, stillStuck, alerted, boot>>
      BY <1>2 DEF Tick, EpisodesEnd
    <2> QED BY <2>1 DEF MarkInv
  <1>3. CASE SweepList
    BY <1>3 DEF SweepList, MarkInv, Store!Stuck, store, history
  <1>4. CASE SweepListFails
    BY <1>4 DEF SweepListFails, MarkInv, Store!Stuck, store, history, monitor
  <1>5. ASSUME NEW u \in Tasks, Visit(u) PROVE MarkInv'
    <2>1. UNCHANGED <<state, age, pc, stillStuck, boot>> /\ alerted' = alerted \cup {u}
          /\ u \in stillStuck
      BY <1>5 DEF Visit, store
    <2>2. \/ told' = told
          \/ Store!Stuck(u) /\ told' = [told EXCEPT ![u] = boot]
      BY <1>5 DEF Visit, Told, history
    <2> QED BY <2>1, <2>2 DEF MarkInv, Store!Stuck
  <1>6. CASE Clear
    BY <1>6 DEF Clear, MarkInv, Store!Stuck, store, history
  <1>7. CASE Crash
    BY <1>7 DEF Crash, MarkInv, Store!Stuck, store, history
  <1>8. CASE Start
    BY <1>8 DEF Start, MarkInv, Store!Stuck, store, history
  <1>9. CASE UNCHANGED vars
    BY <1>9 DEF vars, MarkInv, Store!Stuck, store, history, monitor
  <1> QED BY <1>1, <1>2, <1>3, <1>4, <1>5, <1>6, <1>7, <1>8, <1>9 DEF Next

\* Every step preserves the invariant.
LEMMA InvStep == Inv /\ [Next]_vars => Inv'
  BY TypesStep, MarkStep DEF Inv

\* As long as the server stays up, the monitor alerts an unbroken stuck episode
\* at most once, however its sweeps interleave with the tasks, fail or overrun
\* the ticker.
THEOREM AlertsOncePerEpisode == Spec => OncePerEpisodeAndBoot
  <1>1. Inv /\ [Next]_vars =>
           [\A t \in Tasks : Alerts(t) /\ Visit(t) => told[t] # boot]_vars
    <2> SUFFICES ASSUME Inv, NEW t \in Tasks, Alerts(t) PROVE told[t] # boot
      OBVIOUS
    <2> QED BY DEF Inv, Types, MarkInv, Alerts
  <1> QED BY <1>1, InvInit, InvStep, PTL DEF Spec, OncePerEpisodeAndBoot

-----------------------------------------------------------------------------
\* A server that is down has a start left.
TypeInv == TypeOK /\ (pc = "down" => boot < MaxBoots)

\* Counting modulo the sweep interval stays within it.
LEMMA TimerWraps ==
    \A n \in 0..(SweepInterval - 1) : (n + 1) % SweepInterval \in 0..(SweepInterval - 1)
  BY HealthAssumption

\* The first boot is well typed.
LEMMA TypeInit == Init => TypeInv
  <1> SUFFICES ASSUME Init PROVE TypeInv
    OBVIOUS
  <1>1. state \in [Tasks -> {"absent", "running", "idle"}] /\ age \in [Tasks -> 0..(Threshold + 1)]
    BY HealthAssumption DEF Init, Store!Init
  <1>2. timer \in 0..(SweepInterval - 1) /\ elapsed \in 0..MaxSweep
    BY HealthAssumption DEF Init
  <1>3. failures \in 0..MaxFailures /\ boot \in 1..MaxBoots
    BY HealthAssumption DEF Init
  <1>4. pending \in BOOLEAN /\ pc = "idle" /\ todo = {} /\ stillStuck = {} /\ alerted = {}
    BY DEF Init
  <1>5. told \in [Tasks -> 0..MaxBoots] /\ fresh \subseteq Tasks
    BY HealthAssumption DEF Init
  <1> QED BY <1>1, <1>2, <1>3, <1>4, <1>5 DEF TypeInv, TypeOK

\* A step of the store keeps the store's types.
LEMMA StoreTypes ==
    ASSUME TypeOK, Store!Next
    PROVE  /\ state' \in [Tasks -> {"absent", "running", "idle"}]
           /\ age' \in [Tasks -> 0..(Threshold + 1)]
  <1>1. ASSUME NEW t \in Tasks, Store!Step(t)
        PROVE  /\ state' \in [Tasks -> {"absent", "running", "idle"}]
               /\ age' \in [Tasks -> 0..(Threshold + 1)]
    BY <1>1, HealthAssumption
       DEF TypeOK, Store!Step, Store!Create, Store!Heartbeat, Store!Halt, Store!Resume
  <1>2. CASE Store!Tick
    BY <1>2, HealthAssumption DEF TypeOK, Store!Tick
  <1> QED BY <1>1, <1>2 DEF Store!Next

\* The end of the episodes keeps the types of the history.
LEMMA EpisodesTypes ==
    ASSUME TypeOK, EpisodesEnd
    PROVE  told' \in [Tasks -> 0..MaxBoots] /\ fresh' \subseteq Tasks
  BY HealthAssumption DEF TypeOK, EpisodesEnd

\* Every step keeps every variable in its type.
LEMMA TypeStep == TypeInv /\ [Next]_vars => TypeInv'
  <1> SUFFICES ASSUME TypeOK, pc = "down" => boot < MaxBoots, [Next]_vars PROVE TypeInv'
    BY DEF TypeInv
  <1>1. ASSUME NEW t \in Tasks, TaskStep(t) PROVE TypeInv'
    <2>1. EpisodesEnd /\ Store!Next /\ UNCHANGED <<ticker, monitor, failures, boot>>
      BY <1>1 DEF TaskStep, Store!Next
    <2> QED BY <2>1, StoreTypes, EpisodesTypes DEF TypeInv, TypeOK, ticker, monitor
  <1>2. CASE Tick
    <2>1. EpisodesEnd /\ Store!Next
          /\ UNCHANGED <<pc, todo, stillStuck, alerted, failures, boot>>
      BY <1>2 DEF Tick, Store!Next
    <2>2. timer' \in 0..(SweepInterval - 1)
      BY <1>2, TimerWraps, HealthAssumption DEF Tick, TypeOK
    <2>3. elapsed' \in 0..MaxSweep
      BY <1>2, HealthAssumption DEF Tick, TypeOK
    <2>4. pending' \in BOOLEAN
      BY <1>2 DEF Tick
    <2> QED BY <2>1, <2>2, <2>3, <2>4, StoreTypes, EpisodesTypes DEF TypeInv, TypeOK
  <1>3. CASE SweepList
    <2>1. UNCHANGED <<state, age, timer, alerted, failures, boot, told, fresh>>
      BY <1>3 DEF SweepList, store, history
    <2>2. elapsed' \in 0..MaxSweep /\ pc' = "sweep"
      BY <1>3, HealthAssumption DEF SweepList
    <2>4. pending' \in BOOLEAN
      BY <1>3 DEF SweepList
    <2>3. todo' \subseteq stillStuck' /\ stillStuck' \subseteq Tasks
      BY <1>3 DEF SweepList
    <2> QED BY <2>1, <2>2, <2>3, <2>4 DEF TypeInv, TypeOK
  <1>4. CASE SweepListFails
    <2>1. UNCHANGED <<state, age, timer, pc, elapsed, todo, stillStuck, alerted, boot, told, fresh>>
      BY <1>4 DEF SweepListFails, store, history, monitor
    <2>2. failures' \in 0..MaxFailures
      BY <1>4, HealthAssumption DEF SweepListFails, TypeOK
    <2>3. pending' \in BOOLEAN
      BY <1>4 DEF SweepListFails
    <2> QED BY <2>1, <2>2, <2>3 DEF TypeInv, TypeOK
  <1>5. ASSUME NEW u \in Tasks, Visit(u) PROVE TypeInv'
    <2>1. told' \in [Tasks -> 0..MaxBoots] /\ fresh' \subseteq Tasks
      BY <1>5, HealthAssumption DEF Visit, Told, history, TypeOK
    <2>2. todo' \subseteq stillStuck /\ alerted' \subseteq Tasks
      BY <1>5 DEF Visit, TypeOK
    <2>3. UNCHANGED <<store, ticker, pc, elapsed, stillStuck, failures, boot>>
      BY <1>5 DEF Visit
    <2> QED BY <2>1, <2>2, <2>3 DEF TypeInv, TypeOK, store, ticker
  <1>6. CASE Clear
    BY <1>6 DEF Clear, TypeInv, TypeOK, store, ticker, history
  <1>7. CASE Crash
    <2>1. UNCHANGED <<state, age, failures, boot, told, fresh>> /\ boot < MaxBoots
      BY <1>7 DEF Crash, store, history
    <2>2. timer' \in 0..(SweepInterval - 1) /\ elapsed' \in 0..MaxSweep
      BY <1>7, HealthAssumption DEF Crash
    <2>4. pending' \in BOOLEAN
      BY <1>7 DEF Crash
    <2>3. pc' = "down" /\ todo' = {} /\ stillStuck' = {} /\ alerted' = {}
      BY <1>7 DEF Crash
    <2> QED BY <2>1, <2>2, <2>3, <2>4 DEF TypeInv, TypeOK
  <1>8. CASE Start
    <2>1. boot' \in 1..MaxBoots
      BY <1>8, HealthAssumption DEF Start, TypeOK
    <2> QED BY <1>8, <2>1 DEF Start, TypeInv, TypeOK, store, ticker, history
  <1>9. CASE UNCHANGED vars
    BY <1>9 DEF vars, TypeInv, TypeOK, store, ticker, monitor, history
  <1> QED BY <1>1, <1>2, <1>3, <1>4, <1>5, <1>6, <1>7, <1>8, <1>9 DEF Next

\* The monitor keeps its types: what it has still to visit is part of what the
\* sweep found stuck, no sweep outlasts its bound and no mark is of a task that
\* does not exist.
THEOREM TypeCorrect == Spec => []TypeOK
  <1>1. TypeInv => TypeOK
    BY DEF TypeInv
  <1> QED BY <1>1, TypeInit, TypeStep, PTL DEF Spec
=============================================================================
