-------------------------- MODULE WatchScriptsProofs --------------------------
(***************************************************************************)
(* Proofs about WatchScripts, for every threshold and any number of        *)
(* changes and outages.  The invariant says what each command leaves to    *)
(* the next one: where the script goes to notify it has seen a change, and *)
(* where it goes on to heartbeat it has reported it.                       *)
(***************************************************************************)
EXTENDS WatchScripts, TLAPS

\* What the proofs need of the types.
Types ==
    /\ script \in {"ping", "tunnel"}
    /\ target \in Results /\ seen \in Results /\ last \in Results \cup {"none"}
    /\ since \in BOOLEAN
    /\ count \in [Results -> Nat] /\ limit \in [Results -> Nat \ {0}]
    /\ messages \in Seq(Results)
    /\ row \in Rows

\* The script notifies of changes only, and so never of the same twice.
Told ==
    /\ MessagesAlternate
    /\ pc = "notify" \/ (script = "ping" /\ pc = "update") => seen # last

\* An outage that is about to be believed has its beginning; when one failure
\* is enough, the failure that sets it is believed at once.
Timed ==
    script = "ping" =>
        /\ last = "down" \/ (pc \in {"update", "notify"} /\ seen = "down") => since
        /\ limit["down"] = 1 =>
              /\ ~early
              /\ since => last = "down" \/ (pc \in {"update", "notify"} /\ seen = "down")
                          \/ pc \notin Loop

\* What the row shows when nothing was lost, command by command.
Shown ==
    id /\ ~missed =>
        /\ pc = "notify" => row.shows = seen
        /\ script = "tunnel" /\ pc = "beat" => row.shows = seen
        /\ script = "ping" /\ pc = "beat" /\ last # "none" => row.shows = last
        /\ pc = "check" /\ last # "none" => row.shows = last
        /\ pc = "exited" => row.status = "stopped"

\* Before the task is created nothing is believed.
Fresh == pc = "create" => last = "none" /\ ~since /\ ~missed

Inv == Types /\ Told /\ Timed /\ Shown /\ Fresh

-----------------------------------------------------------------------------
\* A count is the count before, or zero, or one more.
LEMMA CountedType ==
    ASSUME count \in [Results -> Nat], limit \in [Results -> Nat \ {0}],
           NEW result \in Results
    PROVE  /\ Counted(result) \in [Results -> Nat]
           /\ limit[result] = 1 => Counted(result)[result] >= 1
BY DEF Counted, Other, Results

\* One more message, unlike the last, keeps them alternating.
LEMMA AppendAlternates ==
    ASSUME NEW m \in Seq(Results), NEW r \in Results,
           \A k \in 1..(Len(m) - 1) : m[k] # m[k + 1],
           m # <<>> => m[Len(m)] # r
    PROVE  /\ Append(m, r) \in Seq(Results)
           /\ \A k \in 1..(Len(Append(m, r)) - 1) : Append(m, r)[k] # Append(m, r)[k + 1]
           /\ Append(m, r) # <<>> /\ Append(m, r)[Len(Append(m, r))] = r
<1>. DEFINE n == Append(m, r)
<1>1. n \in Seq(Results) /\ Len(n) = Len(m) + 1 /\ Len(m) \in Nat /\ n[Len(m) + 1] = r
  OBVIOUS
<1>2. \A k \in 1..Len(m) : n[k] = m[k]
  OBVIOUS
<1>3. ASSUME NEW k \in 1..(Len(n) - 1) PROVE n[k] # n[k + 1]
  <2>1. CASE k = Len(m)
    <3>1. m # <<>>
      BY <1>1, <2>1
    <3>. QED
      BY <1>1, <1>2, <2>1, <3>1
  <2>2. CASE k # Len(m)
    <3>1. k \in 1..(Len(m) - 1) /\ k \in 1..Len(m) /\ k + 1 \in 1..Len(m)
      BY <1>1, <2>2
    <3>. QED
      BY <1>2, <3>1
  <2>. QED
    BY <2>1, <2>2
<1>4. n # <<>>
  BY <1>1
<1>. QED
  BY <1>1, <1>3, <1>4

\* A script that has not begun has told nothing.
LEMMA InitInv == Init => Inv
<1>. SUFFICES ASSUME Init PROVE Inv
  OBVIOUS
<1>1. count \in [Results -> Nat]
  BY DEF Init, Results
<1>2. limit \in [Results -> Nat \ {0}]
  BY WatchAssumption DEF Init, Results
<1>3. Types
  <2>1. script \in {"ping", "tunnel"}
    BY WatchAssumption DEF Init
  <2>2. target \in Results /\ seen \in Results /\ last = "none"
    BY DEF Init, Results
  <2>3. messages \in Seq(Results)
    BY DEF Init
  <2>4. since \in BOOLEAN
    BY DEF Init
  <2>5. row \in Rows
    BY DEF Init, NoRow, Rows
  <2>. QED
    BY <1>1, <1>2, <2>1, <2>2, <2>3, <2>4, <2>5 DEF Types
<1>4. Told /\ Timed /\ Shown
  BY DEF Init, Told, Timed, Shown, MessagesAlternate, Loop
<1>. QED
  BY <1>3, <1>4 DEF Inv, Fresh, Init

-----------------------------------------------------------------------------
\* Reporting changes what it reports, if anything.
LEMMA ReportFacts ==
    ASSUME NEW new \in Rows, row \in Rows, Report(new)
    PROVE  row' \in Rows /\ (id /\ ~missed' => row' = new)
BY DEF Report

\* The world changes, or the script dies: nothing the script knows does.
LEMMA OutsideInv ==
    ASSUME Inv, target' \in Results,
           UNCHANGED <<script, limit, row, id, seen, count, last, since, history>>,
           pc' = pc \/ pc' \in {"dead", "cleanup"}
    PROVE  Inv'
<1>1. Types'
  BY DEF Inv, Types, history
<1>2. Told'
  BY DEF Inv, Told, MessagesAlternate, history
<1>3. Timed'
  BY DEF Inv, Timed, history, Loop
<1>4. Shown'
  BY DEF Inv, Shown, history
<1>. QED
  BY <1>1, <1>2, <1>3, <1>4 DEF Inv, Fresh, history

\* The task is created, before anything is believed.
LEMMA CreateInv ==
    ASSUME Inv, Create PROVE Inv'
<1>1. UNCHANGED <<script, limit, target, seen, count, last, since, messages, missed, early>>
      /\ pc' = "check"
  BY DEF Create, world, history
<1>2. row' \in Rows
  BY DEF Create, Inv, Types, Rows
<1>3. Types'
  BY <1>1, <1>2 DEF Inv, Types
<1>4. last = "none" /\ ~since /\ ~missed /\ pc = "create"
  BY DEF Create, Inv, Fresh
<1>5. Told' /\ Timed' /\ Shown'
  BY <1>1, <1>4 DEF Inv, Types, Told, Timed, Shown, MessagesAlternate, Loop
<1>. QED
  BY <1>1, <1>3, <1>5 DEF Inv, Fresh

\* A check of ping-watch goes on to the report when it has seen a change.
LEMMA PingInv ==
    ASSUME Inv, script = "ping", Check PROVE Inv'
<1>1. /\ Ping /\ seen' = target /\ pc = "check"
      /\ UNCHANGED <<script, limit, target, row, id, last, messages, missed>>
  BY DEF Check, world
<1>2. Types /\ Told /\ Timed /\ Shown
  BY DEF Inv
<1>3. count' \in [Results -> Nat] /\ (limit[target] = 1 => count'[target] >= 1)
  BY <1>1, <1>2, CountedType DEF Ping, Types
<1>4. since' = (since \/ target = "down")
  BY <1>1 DEF Ping, SinceAfter
<1>5. Types'
  <2>1. since' \in BOOLEAN
    BY <1>4
  <2>. QED
    BY <1>1, <1>2, <1>3, <2>1 DEF Types
<1>6. pc' = IF last # target /\ count'[target] >= limit[target] THEN "update" ELSE "beat"
  BY <1>1 DEF Ping, Changed
<1>7. Told'
  BY <1>1, <1>2, <1>6 DEF Told, MessagesAlternate
<1>8. Timed'
  <2>1. last = "down" \/ (pc' \in {"update", "notify"} /\ seen' = "down") => since'
    BY <1>1, <1>2, <1>4 DEF Timed
  <2>2. ASSUME limit["down"] = 1
        PROVE  ~early' /\ (since' => last = "down" \/ (pc' \in {"update", "notify"} /\ seen' = "down"))
    <3>1. since => last = "down"
      BY <1>1, <1>2, <2>2 DEF Timed, Loop
    <3>2. ~early'
      BY <1>1, <1>2, <2>2, <3>1 DEF Ping, Timed
    <3>3. target = "down" /\ last # "down" => pc' = "update"
      BY <1>3, <1>6, <2>2
    <3>. QED
      BY <1>1, <1>4, <3>1, <3>2, <3>3
  <2>. QED
    BY <1>1, <2>1, <2>2 DEF Timed
<1>9. Shown'
  BY <1>1, <1>2, <1>6 DEF Shown
<1>. QED
  BY <1>1, <1>5, <1>7, <1>8, <1>9 DEF Inv, Fresh, Ping

\* A check of tunnel-watch is reported whatever it saw.
LEMMA TunnelInv ==
    ASSUME Inv, script = "tunnel", Check PROVE Inv'
<1>1. /\ pc' = "update" /\ seen' = target
      /\ UNCHANGED <<script, limit, target, row, id, last, messages, missed, count, since, early>>
  BY DEF Check, world
<1>2. Types'
  BY <1>1 DEF Inv, Types
<1>3. Told' /\ Timed' /\ Shown'
  BY <1>1 DEF Inv, Told, Timed, Shown, MessagesAlternate
<1>. QED
  BY <1>1, <1>2, <1>3 DEF Inv, Fresh

\* What was seen is what the row shows, unless the report was lost.
LEMMA UpdateInv ==
    ASSUME Inv, Update PROVE Inv'
<1>1. /\ Report([row EXCEPT !.shows = seen]) /\ pc = "update"
      /\ pc' = IF script = "ping" THEN "notify" ELSE "beat"
      /\ UNCHANGED <<script, limit, target, id, seen, count, last, since, messages, early>>
  BY DEF Update, world
<1>2. Types /\ Told /\ Timed
  BY DEF Inv
<1>3. [row EXCEPT !.shows = seen] \in Rows
  BY <1>2 DEF Types, Rows
<1>4. row' \in Rows /\ (id /\ ~missed' => row'.shows = seen)
  <2>1. row \in Rows
    BY <1>2 DEF Types
  <2>2. row' \in Rows /\ (id /\ ~missed' => row' = [row EXCEPT !.shows = seen])
    BY <1>1, <1>3, <2>1, ReportFacts
  <2>. QED
    BY <2>1, <2>2 DEF Rows
<1>5. Types'
  BY <1>1, <1>2, <1>4 DEF Types
<1>6. Told' /\ Timed'
  BY <1>1, <1>2 DEF Told, Timed, MessagesAlternate, Types, Loop
<1>7. Shown'
  BY <1>1, <1>2, <1>4 DEF Shown, Types
<1>. QED
  BY <1>1, <1>5, <1>6, <1>7 DEF Inv, Fresh

\* A change is told, and believed from then on.
LEMMA NotifyInv ==
    ASSUME Inv, Notify PROVE Inv'
<1>1. /\ pc = "notify" /\ last' = seen
      /\ pc' = IF script = "ping" THEN "beat" ELSE "check"
      /\ since' = (since /\ seen = "down") /\ early' = (early /\ seen = "down")
      /\ messages' = IF last = "none" THEN messages ELSE Append(messages, seen)
      /\ UNCHANGED <<script, limit, target, row, id, seen, count, missed>>
  BY DEF Notify, world
<1>2. Types /\ Told /\ Timed /\ Shown
  BY DEF Inv
<1>3. seen # last
  BY <1>1, <1>2 DEF Told
<1>4. messages' \in Seq(Results) /\ MessagesAlternate'
  <2>1. CASE last = "none"
    <3>1. messages = <<>>
      BY <1>2, <2>1 DEF Told, MessagesAlternate, Types, Results
    <3>. QED
      BY <1>1, <1>2, <2>1, <3>1 DEF MessagesAlternate, Types
  <2>2. CASE last # "none"
    <3>1. messages \in Seq(Results) /\ seen \in Results
          /\ (\A k \in 1..(Len(messages) - 1) : messages[k] # messages[k + 1])
          /\ (messages # <<>> => messages[Len(messages)] # seen)
      BY <1>2, <1>3 DEF Told, MessagesAlternate, Types
    <3>. QED
      BY <1>1, <2>2, <3>1, AppendAlternates DEF MessagesAlternate
  <2>. QED
    BY <2>1, <2>2
<1>5. Types'
  <2>1. since' \in BOOLEAN
    BY <1>1
  <2>. QED
    BY <1>1, <1>2, <1>4, <2>1 DEF Types
<1>6. Told'
  BY <1>1, <1>4 DEF Told
<1>7. Timed'
  BY <1>1, <1>2 DEF Timed
<1>8. Shown'
  BY <1>1, <1>2 DEF Shown, Types, Results
<1>. QED
  BY <1>1, <1>5, <1>6, <1>7, <1>8 DEF Inv, Fresh

\* tunnel-watch notifies after its heartbeat, if what it saw is new.
LEMMA BeatInv ==
    ASSUME Inv, Beat PROVE Inv'
<1>1. /\ pc = "beat" /\ pc' = IF script = "tunnel" /\ seen # last THEN "notify" ELSE "check"
      /\ UNCHANGED <<script, limit, target, row, id, seen, count, last, since, messages, missed, early>>
  BY DEF Beat, world, history
<1>2. Types'
  BY <1>1 DEF Inv, Types
<1>3. Told'
  BY <1>1 DEF Inv, Told, MessagesAlternate
<1>4. Timed'
  BY <1>1 DEF Inv, Timed, Loop
<1>5. Shown'
  BY <1>1 DEF Inv, Shown, Types
<1>. QED
  BY <1>1, <1>2, <1>3, <1>4, <1>5 DEF Inv, Fresh

\* The trap's two calls: what the row showed no longer matters.
LEMMA CleanupInv ==
    ASSUME Inv, Cleanup \/ Stop PROVE Inv'
<1>1. row \in Rows
  BY DEF Inv, Types
<1>2. pc' \in {"stop", "exited"}
      /\ UNCHANGED <<script, limit, target, id, seen, count, last, since, messages, early>>
  BY DEF Cleanup, Stop, world
<1>3. row' \in Rows /\ (pc' = "exited" /\ id /\ ~missed' => row'.status = "stopped")
  <2>1. CASE Cleanup
    <3>1. [row EXCEPT !.shows = "stopped"] \in Rows
      BY <1>1 DEF Rows
    <3>. QED
      BY <1>1, <2>1, <3>1, ReportFacts DEF Cleanup
  <2>2. CASE Stop
    <3>1. [row EXCEPT !.status = "stopped"] \in Rows
      BY <1>1 DEF Rows
    <3>2. [row EXCEPT !.status = "stopped"].status = "stopped"
      BY <1>1 DEF Rows
    <3>. QED
      BY <1>1, <2>2, <3>1, <3>2, ReportFacts DEF Stop
  <2>. QED
    BY <2>1, <2>2
<1>4. Types'
  BY <1>2, <1>3 DEF Inv, Types
<1>5. Told' /\ Timed'
  BY <1>2 DEF Inv, Told, Timed, MessagesAlternate, Loop
<1>6. Shown'
  BY <1>2, <1>3 DEF Shown
<1>. QED
  BY <1>2, <1>4, <1>5, <1>6 DEF Inv, Fresh

\* Every step preserves the invariant.
LEMMA NextInv == Inv /\ [Next]_vars => Inv'
<1>. SUFFICES ASSUME Inv, [Next]_vars PROVE Inv'
  OBVIOUS
<1>1. script \in {"ping", "tunnel"} /\ target \in Results
  BY DEF Inv, Types
<1>2. CASE TargetChanges
  <2>1. target' \in Results
    BY <1>2 DEF TargetChanges, Results
  <2>. QED
    BY <1>2, <2>1, OutsideInv DEF TargetChanges, shell
<1>3. CASE ServerGoes \/ ServerReturns
  BY <1>1, <1>3, OutsideInv DEF ServerGoes, ServerReturns, shell
<1>4. CASE Interrupt \/ Kill
  BY <1>1, <1>4, OutsideInv DEF Interrupt, Kill, world
<1>5. CASE UNCHANGED vars
  BY <1>1, <1>5, OutsideInv DEF vars, shell, world
<1>6. CASE Step
  BY <1>1, <1>6, CreateInv, PingInv, TunnelInv, UpdateInv, NotifyInv, BeatInv, CleanupInv DEF Step
<1>. QED
  BY <1>2, <1>3, <1>4, <1>5, <1>6 DEF Next

\* The invariant holds in every behaviour of the scripts.
LEMMA Invariance == Spec => []Inv
BY InitInv, NextInv, PTL DEF Spec

\* Nobody is told of the same status twice in a row, whatever the target and
\* LocalOps do and for any thresholds.
THEOREM NoRepeatedMessage == Spec => []MessagesAlternate
<1>1. Inv => MessagesAlternate
  BY DEF Inv, Told
<1>. QED
  BY <1>1, Invariance, PTL

\* Every outage ping-watch will report the end of has a beginning.
THEOREM EveryOutageIsTimed == Spec => []OutagesAreTimed
<1>1. Inv => OutagesAreTimed
  BY DEF Inv, Timed, OutagesAreTimed
<1>. QED
  BY <1>1, Invariance, PTL

\* The task shows what the script believes, unless the last report was lost.
THEOREM RowIsTheScripts == Spec => []RowFollowsScript
<1>1. Inv => RowFollowsScript
  BY DEF Inv, Shown, RowFollowsScript
<1>. QED
  BY <1>1, Invariance, PTL

-----------------------------------------------------------------------------
(* Types, in full. *)

\* A count stays within its threshold, and counting one result ends the other's
\* count.
LEMMA CountedWithin ==
    ASSUME limit \in [ok : UpThresholds, down : DownThresholds],
           count \in [ok : 0..limit.ok, down : 0..limit.down],
           NEW result \in Results
    PROVE  /\ Counted(result) \in [ok : 0..limit.ok, down : 0..limit.down]
           /\ Counted(result).ok = 0 \/ Counted(result).down = 0
<1>1. limit.ok \in Nat /\ limit.down \in Nat
  BY WatchAssumption
<1>2. CASE result = "ok"
  BY <1>1, <1>2 DEF Counted, Other
<1>3. CASE result = "down"
  BY <1>1, <1>3 DEF Counted, Other
<1>. QED
  BY <1>2, <1>3 DEF Results

\* A script that has not begun is well typed.
LEMMA TypeInit == Init => TypeOK
<1>. SUFFICES ASSUME Init PROVE TypeOK
  OBVIOUS
<1>1. limit.ok \in Nat /\ limit.down \in Nat
  BY WatchAssumption DEF Init
<1>2. count \in [ok : 0..limit.ok, down : 0..limit.down] /\ count.ok = 0
  BY <1>1 DEF Init
<1>3. row \in Rows /\ messages \in Seq(Results)
  BY DEF Init, NoRow, Rows
<1>4. changes \in 0..MaxChanges /\ outages \in 0..MaxOutages
  BY WatchAssumption DEF Init
<1>5. id \in BOOLEAN /\ since \in BOOLEAN /\ missed \in BOOLEAN /\ early \in BOOLEAN
  BY DEF Init
<1>. QED
  BY <1>2, <1>3, <1>4, <1>5 DEF Init, TypeOK, Results

\* Every command, and whatever happens between two, keeps the types.
LEMMA TypeStep == TypeOK /\ [Next]_vars => TypeOK'
<1>. SUFFICES ASSUME TypeOK, [Next]_vars PROVE TypeOK'
  OBVIOUS
<1>. USE DEF TypeOK
<1>1. CASE TargetChanges \/ ServerGoes \/ ServerReturns
  <2>1. target' \in Results /\ changes' \in 0..MaxChanges
        /\ server' \in {"up", "down"} /\ outages' \in 0..MaxOutages
    BY <1>1, WatchAssumption DEF TargetChanges, ServerGoes, ServerReturns, Results
  <2>2. UNCHANGED <<script, limit, row, id, pc, seen, count, last, since, messages, missed, early>>
    BY <1>1 DEF TargetChanges, ServerGoes, ServerReturns, shell, history
  <2>. QED
    BY <2>1, <2>2
<1>2. CASE Create
  <2>1. row' \in Rows /\ id' \in BOOLEAN /\ pc' = "check"
    BY <1>2 DEF Create, Rows
  <2>2. UNCHANGED <<script, limit, target, changes, server, outages, seen, count, last, since,
                    messages, missed, early>>
    BY <1>2 DEF Create, world, history
  <2>. QED
    BY <2>1, <2>2 DEF Loop
<1>3. CASE Check
  <2>1. seen' \in Results
        /\ UNCHANGED <<script, limit, target, changes, server, outages, row, id, last, messages, missed>>
    BY <1>3 DEF Check, world
  <2>2. CASE script = "ping"
    <3>1. count' = Counted(target) /\ since' = SinceAfter(target) /\ pc' \in {"update", "beat"}
      BY <1>3, <2>2 DEF Check, Ping
    <3>2. since' \in BOOLEAN
      BY <3>1 DEF SinceAfter
    <3>3. early' \in BOOLEAN
      BY <1>3, <2>2 DEF Check, Ping
    <3>. QED
      BY <2>1, <3>1, <3>2, <3>3, CountedWithin DEF Loop
  <2>3. CASE script = "tunnel"
    <3>1. pc' = "update" /\ UNCHANGED <<count, since, early>>
      BY <1>3, <2>3 DEF Check
    <3>. QED
      BY <2>1, <3>1 DEF Loop
  <2>. QED
    BY <2>2, <2>3, WatchAssumption
<1>4. CASE Update \/ Cleanup \/ Stop
  <2>1. UNCHANGED <<script, limit, target, changes, server, outages, id, seen, count, last, since,
                    messages, early>>
    BY <1>4 DEF Update, Cleanup, Stop, world
  <2>2. /\ [row EXCEPT !.shows = seen] \in Rows /\ [row EXCEPT !.shows = "stopped"] \in Rows
        /\ [row EXCEPT !.status = "stopped"] \in Rows
    BY DEF Rows
  <2>3. row' \in Rows /\ missed' \in BOOLEAN
    BY <1>4, <2>2 DEF Update, Cleanup, Stop, Report
  <2>4. pc' \in {"notify", "beat", "stop", "exited"}
    BY <1>4 DEF Update, Cleanup, Stop
  <2>. QED
    BY <2>1, <2>3, <2>4 DEF Loop, Ended
<1>5. CASE Notify
  <2>1. UNCHANGED <<script, limit, target, changes, server, outages, row, id, seen, count, missed>>
        /\ last' = seen /\ pc' \in {"beat", "check"}
    BY <1>5 DEF Notify, world
  <2>2. messages' \in Seq(Results)
    <3>1. messages \in Seq(Results) /\ seen \in Results
      OBVIOUS
    <3>2. messages' = messages \/ messages' = Append(messages, seen)
      BY <1>5 DEF Notify
    <3>. HIDE DEF TypeOK
    <3>. QED
      BY <3>1, <3>2
  <2>3. since' \in BOOLEAN /\ early' \in BOOLEAN
    BY <1>5 DEF Notify
  <2>. QED
    BY <2>1, <2>2, <2>3 DEF Loop
<1>6. CASE Beat \/ Interrupt \/ Kill
  <2>1. UNCHANGED <<script, limit, target, changes, server, outages, row, id, seen, count, last,
                    since, messages, missed, early>>
    BY <1>6 DEF Beat, Interrupt, Kill, world, history
  <2>2. pc' \in Loop \cup Ended \cup {"create", "cleanup", "stop"}
    BY <1>6 DEF Beat, Interrupt, Kill, Loop, Ended
  <2>. QED
    BY <2>1, <2>2
<1>7. CASE UNCHANGED vars
  BY <1>7 DEF vars, world, shell, history
<1>. QED
  BY <1>1, <1>2, <1>3, <1>4, <1>5, <1>6, <1>7 DEF Next, Step

\* Every variable stays within its type; a script never counts successes and
\* failures at once, nor beyond its thresholds.
THEOREM Typing == Spec => []TypeOK
BY TypeInit, TypeStep, PTL DEF Spec
=============================================================================
