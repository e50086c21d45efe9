---------------------------- MODULE TaskWrapProofs ----------------------------
(***************************************************************************)
(* Proofs about TaskWrap, for any threshold, any number of outages and of  *)
(* an operator's actions.  The wrapper's place tells what there is so far  *)
(* (Places); while the loop lives, the age of the row is paid for by the   *)
(* ticks excused and the sleep under way (Paid); what the row took is what *)
(* the command said (VerdictIsTheCommands, which is inductive once Places  *)
(* says that only a command that has ended is reported).                   *)
(***************************************************************************)
EXTENDS TaskWrap, TLAPS

\* What there is, by the wrapper's place.  A loop that is gone does not return,
\* a stray heartbeat has no loop, and a heartbeat that was served owes nothing.
Places ==
    /\ wrapper = "create" => row = NoRow
    /\ wrapper \in {"create", "created"} =>
          /\ ~id /\ loop = "none" /\ slept = 0 /\ ~stray
          /\ command = "none" /\ recorded = "none"
    /\ wrapper = "wait"    => command \in {"running", "zero", "nonzero"}
    /\ wrapper = "report"  => id
    /\ wrapper \in {"report", "reported", "notify"} => command \in {"zero", "nonzero"}
    /\ id => Exists
    /\ row = NoRow => age = 0 /\ recorded = "none"
    /\ stray => loop = "gone"
    /\ loop = "answer" => slept = 0

\* While the loop lives, every tick of the row's age is excused, or one of the
\* sleep that the next heartbeat ends.
Paid ==
    \/ loop = "gone"
    \/ excused >= Threshold
    \/ age <= excused + slept

Inv == TypeOK /\ Places /\ Paid /\ VerdictIsTheCommands

-----------------------------------------------------------------------------
\* What the calls make of a row that exists.
LEMMA RowsType ==
    /\ NewRow(0, Data) \in Rows /\ NewRow(0, Data) # NoRow
    /\ \A r \in Rows : r # NoRow
    /\ \A r \in Rows, status \in TerminalStatuses, said \in BOOLEAN :
          /\ FinishRow(r, status, said) \in Rows
          /\ FinishRow(r, status, said).status = status
          /\ FinishRow(r, status, said).error = said
    /\ \A r \in Rows, action \in {"pause", "resume"} : ControlRow(r, action) \in Rows
<1>1. NewRow(0, Data) \in Rows
  BY DEF NewRow, Rows, Statuses, ControlActions
<1>2. \A r \in Rows : r # NoRow
  BY DEF Rows, NoRow, Statuses, Absent
<1>3. ASSUME NEW r \in Rows, NEW status \in TerminalStatuses, NEW said \in BOOLEAN
      PROVE  /\ FinishRow(r, status, said) \in Rows
             /\ FinishRow(r, status, said).status = status
             /\ FinishRow(r, status, said).error = said
  BY DEF FinishRow, Rows, Statuses, TerminalStatuses, ControlActions
<1>4. ASSUME NEW r \in Rows, NEW action \in {"pause", "resume"}
      PROVE  ControlRow(r, action) \in Rows
  BY DEF ControlRow, Rows, Statuses, ControlActions
<1>. QED
  BY <1>1, <1>2, <1>3, <1>4

\* The wrapper has created nothing yet.
LEMMA InitInv == Init => Inv
<1>. SUFFICES ASSUME Init PROVE Inv
  OBVIOUS
<1>. USE DEF Init
<1>1. TypeOK
  <2>1. ~(loop \in Alive \/ stray) /\ loop = "none"
    BY DEF Alive
  <2>2. stray \in BOOLEAN /\ id \in BOOLEAN /\ notified \in BOOLEAN /\ touched \in BOOLEAN
    OBVIOUS
  <2>3. outages \in 0..MaxOutages /\ actions \in 0..MaxActions
        /\ age \in 0..(Threshold + 1) /\ excused \in 0..Threshold /\ slept \in 0..Interval
    BY WrapAssumption
  <2>4. /\ wrapper \in {"create", "created", "wait", "report", "reported", "notify"} \cup Ended
        /\ command \in {"none", "running", "zero", "nonzero", "killed"}
        /\ loop \in {"none", "gone"} \cup Alive
        /\ recorded \in {"none", "completed", "failed"}
    OBVIOUS
  <2>. QED
    BY <2>1, <2>2, <2>3, <2>4 DEF TypeOK
<1>2. Places
  BY DEF Places, Exists
<1>3. Paid /\ VerdictIsTheCommands
  BY DEF Paid, VerdictIsTheCommands
<1>. QED
  BY <1>1, <1>2, <1>3 DEF Inv

\* The task is created, or not.
LEMMA CreateInv == ASSUME Inv, Create PROVE Inv'
<1>. USE DEF Inv, TypeOK
<1>1. /\ wrapper = "create" /\ wrapper' = "created"
      /\ UNCHANGED <<notify, command, loop, slept, stray, id, server, outages, age, actions,
                     notified, excused, recorded, touched>>
  BY DEF Create, beats, world, history
<1>2. /\ row = NoRow /\ ~id /\ loop = "none" /\ slept = 0 /\ ~stray
      /\ command = "none" /\ recorded = "none" /\ age = 0
  BY <1>1 DEF Places
<1>3. row' \in Rows \cup {NoRow}
  BY RowsType DEF Create
<1>4. TypeOK'
  BY <1>1, <1>2, <1>3 DEF Exists, Alive
<1>5. Places'
  BY <1>1, <1>2 DEF Places, Exists
<1>6. Paid' /\ VerdictIsTheCommands'
  BY <1>1, <1>2 DEF Paid, VerdictIsTheCommands
<1>. QED
  BY <1>4, <1>5, <1>6

\* An id is the id of a row that exists; only then does the loop start.
LEMMA BeginInv == ASSUME Inv, Begin PROVE Inv'
<1>. USE DEF Inv, TypeOK
<1>1. /\ wrapper = "created" /\ wrapper' = "wait" /\ command' = "running"
      /\ id' \in Answered /\ loop' = IF id' THEN "sleep" ELSE "gone"
      /\ UNCHANGED <<notify, slept, stray, server, outages, row, age, actions, notified,
                     excused, recorded, touched>>
  BY DEF Begin, world, task, history
<1>2. loop = "none" /\ slept = 0 /\ ~stray /\ recorded = "none"
  BY <1>1 DEF Places
<1>3. id' \in BOOLEAN /\ (id' => Exists)
  BY <1>1 DEF Answered
<1>4. (loop' \in Alive => id' /\ Exists) /\ (loop' = "sleep" => slept < Interval)
      /\ loop' \in {"none", "gone"} \cup Alive /\ loop' # "answer"
  BY <1>1, <1>2, <1>3, WrapAssumption DEF Alive
<1>5. TypeOK'
  BY <1>1, <1>2, <1>3, <1>4 DEF Exists
<1>6. Places'
  BY <1>1, <1>2, <1>3, <1>4 DEF Places, Exists
<1>7. Paid'
  BY <1>1, <1>2 DEF Paid
<1>8. VerdictIsTheCommands'
  BY <1>1, <1>2 DEF VerdictIsTheCommands
<1>. QED
  BY <1>5, <1>6, <1>7, <1>8

\* The command ends, the loop is killed: the row is not touched.
LEMMA CommandInv == ASSUME Inv, CommandEnds \/ KillLoop PROVE Inv'
<1>. USE DEF Inv, TypeOK
<1>1. UNCHANGED <<notify, id, server, outages, row, age, actions, notified, excused,
                 recorded, touched>>
  BY DEF CommandEnds, KillLoop, world, task, history
<1>2. CASE CommandEnds
  <2>1. /\ command = "running" /\ command' \in {"zero", "nonzero"}
        /\ UNCHANGED <<wrapper, loop, slept, stray>>
    BY <1>2 DEF CommandEnds, beats
  <2>2. recorded = "none" /\ wrapper \notin {"create", "created", "report", "reported", "notify"}
    BY <2>1 DEF Places, VerdictIsTheCommands
  <2>3. TypeOK'
    BY <1>1, <2>1 DEF Exists
  <2>4. Places' /\ Paid' /\ VerdictIsTheCommands'
    BY <1>1, <2>1, <2>2 DEF Places, Paid, VerdictIsTheCommands, Exists
  <2>. QED
    BY <2>3, <2>4
<1>3. CASE KillLoop
  <2>1. /\ wrapper = "wait" /\ command # "running" /\ command' = command
        /\ loop' = "gone" /\ slept' = 0 /\ stray' = (stray \/ loop = "beat")
        /\ wrapper' = IF id THEN "report" ELSE "exited"
    BY <1>3 DEF KillLoop
  <2>2. stray' \in BOOLEAN /\ (stray' => id /\ Exists)
    BY <2>1 DEF Alive
  <2>3. loop' \in {"none", "gone"} \cup Alive /\ loop' \notin Alive /\ loop' # "sleep"
    BY <2>1 DEF Alive
  <2>4. slept' \in 0..Interval /\ wrapper' \in {"report"} \cup Ended
    BY <2>1, WrapAssumption DEF Ended
  <2>5. TypeOK'
    BY <1>1, <2>1, <2>2, <2>3, <2>4 DEF Exists
  <2>6. Places' /\ Paid' /\ VerdictIsTheCommands'
    BY <1>1, <2>1, <2>2 DEF Places, Paid, VerdictIsTheCommands, Verdict, Exists, Ended
  <2>. QED
    BY <2>5, <2>6
<1>. QED
  BY <1>2, <1>3

\* The verdict reaches the row, or is lost.
LEMMA ReportInv == ASSUME Inv, Report PROVE Inv'
<1>. USE DEF Inv, TypeOK
<1>1. /\ wrapper = "report" /\ wrapper' = "reported"
      /\ UNCHANGED <<notify, command, loop, slept, stray, id, server, outages, age, actions,
                     notified, excused>>
  BY DEF Report, beats, world
<1>2. row \in Rows /\ id /\ command \in {"zero", "nonzero"}
  BY <1>1 DEF Places, Exists
<1>3. Verdict \in {"completed", "failed"} /\ Verdict \in TerminalStatuses /\ Verdict' = Verdict
      /\ Messages \subseteq BOOLEAN /\ (Verdict = "completed" => Messages = {FALSE})
  BY <1>1 DEF Verdict, Messages, TerminalStatuses
<1>4. CASE server = "up"
  <2>1. PICK said \in Messages : row' = FinishRow(row, Verdict, said)
    BY <1>4 DEF Report
  <2>2. recorded' = Verdict /\ touched' = FALSE
    BY <1>4 DEF Report
  <2>3. row' \in Rows /\ row' # NoRow /\ row'.status = Verdict /\ row'.error = said
    BY <1>2, <1>3, <2>1, RowsType
  <2>4. TypeOK'
    BY <1>1, <1>3, <2>2, <2>3 DEF Exists, Ended
  <2>5. Places' /\ Paid' /\ VerdictIsTheCommands'
    BY <1>1, <1>2, <1>3, <2>2, <2>3 DEF Places, Paid, VerdictIsTheCommands, Exists
  <2>. QED
    BY <2>4, <2>5
<1>5. CASE server # "up"
  <2>1. UNCHANGED <<row, recorded, touched>>
    BY <1>5 DEF Report
  <2>2. TypeOK'
    BY <1>1, <2>1 DEF Exists, Ended
  <2>3. Places' /\ Paid' /\ VerdictIsTheCommands'
    BY <1>1, <1>2, <1>3, <2>1 DEF Places, Paid, VerdictIsTheCommands, Exists
  <2>. QED
    BY <2>2, <2>3
<1>. QED
  BY <1>4, <1>5

-----------------------------------------------------------------------------
\* Ticks that are excused add up, unless the threshold is reached.
LEMMA ExcusedWithin ==
    ASSUME NEW ticks \in Nat, excused \in 0..Threshold
    PROVE  /\ Excused(ticks) \in 0..Threshold
           /\ Excused(ticks) >= Threshold \/ Excused(ticks) = excused + ticks
BY WrapAssumption DEF Excused

\* A heartbeat pays, is lost and excused, or is answered.
LEMMA BeatInv == ASSUME Inv, Beat \/ BeatLost \/ BeatEnds PROVE Inv'
<1>. USE DEF Inv, TypeOK
<1>1. UNCHANGED <<wrapper, notify, command, id, server, outages, row, actions, notified,
                  recorded, touched>>
  BY DEF Beat, BeatLost, BeatEnds, script, world, task, history
<1>2. /\ \/ loop' = loop /\ loop \notin Alive
         \/ loop \in {"beat", "answer"} /\ loop' \in {"sleep", "answer"}
      /\ slept' = 0
  <2>1. CASE loop \in Alive
    BY <2>1 DEF Beat, BeatLost, BeatEnds, Places, Alive
  <2>2. CASE loop \notin Alive
    BY <2>2 DEF Beat, BeatLost, BeatEnds, Places, Alive
  <2>. QED
    BY <2>1, <2>2
<1>3. stray' \in BOOLEAN /\ (stray' => stray) /\ (stray' => loop' = "gone")
  <2>1. CASE BeatEnds
    <3>1. loop = "answer" /\ ~stray /\ stray' = stray
      BY <2>1 DEF BeatEnds, Places
    <3>. QED
      BY <3>1
  <2>2. CASE Beat \/ BeatLost
    BY <2>2 DEF Beat, BeatLost
  <2>. QED
    BY <2>1, <2>2
<1>4. \/ age' = 0 /\ excused' = 0
      \/ age' = age /\ excused' = Excused(slept)
      \/ age' = age /\ excused' = excused /\ slept = 0
  BY DEF Beat, BeatLost, BeatEnds, Places, task, history
<1>5. id /\ Exists /\ wrapper \notin {"create", "created"}
  BY DEF Beat, BeatLost, BeatEnds, Places, Alive
<1>6. age' \in 0..(Threshold + 1) /\ excused' \in 0..Threshold
  BY <1>4, ExcusedWithin, WrapAssumption
<1>7. TypeOK'
  <2>1. loop' \in {"none", "gone"} \cup Alive /\ (loop' = "sleep" => slept' < Interval)
        /\ slept' \in 0..Interval
    BY <1>2, WrapAssumption DEF Alive
  <2>. QED
    BY <1>1, <1>3, <1>5, <1>6, <2>1 DEF Exists
<1>8. Paid'
  <2>1. loop = "gone" \/ excused >= Threshold \/ age <= excused + slept
    BY DEF Paid
  <2>2. CASE loop = "gone"
    BY <1>2, <2>2 DEF Paid, Alive
  <2>3. CASE excused >= Threshold
    BY <1>2, <1>4, <2>3, ExcusedWithin, WrapAssumption DEF Paid
  <2>4. CASE age <= excused + slept
    BY <1>2, <1>4, <2>4, ExcusedWithin, WrapAssumption DEF Paid
  <2>. QED
    BY <2>1, <2>2, <2>3, <2>4
<1>9. Places'
  BY <1>1, <1>2, <1>3, <1>5 DEF Places, Exists
<1>10. VerdictIsTheCommands'
  BY <1>1 DEF VerdictIsTheCommands, Verdict
<1>. QED
  BY <1>7, <1>8, <1>9, <1>10

\* A tick ages the row, and with it goes a tick of sleep or one that is excused.
LEMMA TickInv == ASSUME Inv, Tick PROVE Inv'
<1>. USE DEF Inv, TypeOK
<1>1. /\ age' = IF Exists /\ age <= Threshold THEN age + 1 ELSE age
      /\ UNCHANGED <<wrapper, notify, command, stray, id, server, outages, row, actions, notified,
                     recorded, touched>>
  BY DEF Tick, script, world
<1>2. age' \in 0..(Threshold + 1)
  BY <1>1, WrapAssumption
<1>3. CASE loop = "sleep"
  <2>1. /\ slept' = slept + 1 /\ excused' = excused
        /\ loop' = IF slept' = Interval THEN "beat" ELSE "sleep"
    BY <1>3 DEF Tick
  <2>2. /\ id /\ Exists /\ slept < Interval
        /\ wrapper \notin {"create", "created"} /\ ~stray
    BY <1>3 DEF Alive, Places
  <2>3. slept' \in 0..Interval /\ (loop' = "sleep" => slept' < Interval)
        /\ loop' \in Alive /\ loop' # "answer"
    BY <2>1, <2>2, WrapAssumption DEF Alive
  <2>4. TypeOK'
    BY <1>1, <1>2, <2>1, <2>2, <2>3 DEF Exists
  <2>5. Paid'
    BY <1>1, <1>3, <2>1, WrapAssumption DEF Paid
  <2>6. Places'
    BY <1>1, <2>2, <2>3 DEF Places, Exists
  <2>. QED
    BY <1>1, <2>4, <2>5, <2>6 DEF VerdictIsTheCommands, Verdict
<1>4. CASE loop # "sleep"
  <2>1. /\ UNCHANGED <<loop, slept>>
        /\ excused' = IF Exists /\ loop # "gone" THEN Excused(1) ELSE excused
    BY <1>4 DEF Tick
  <2>2. excused' \in 0..Threshold
    BY <2>1, ExcusedWithin
  <2>3. TypeOK'
    BY <1>1, <1>2, <2>1, <2>2 DEF Exists, Alive
  <2>4. Paid'
    <3>1. CASE Exists /\ loop # "gone"
      <4>1. excused' = Excused(1)
        BY <2>1, <3>1
      <4>. QED
        BY <1>1, <2>1, <4>1, ExcusedWithin, WrapAssumption DEF Paid
    <3>2. CASE ~(Exists /\ loop # "gone")
      <4>1. (age' = age /\ excused' = excused) \/ loop' = "gone"
        BY <1>1, <2>1, <3>2
      <4>. QED
        BY <2>1, <4>1 DEF Paid
    <3>. QED
      BY <3>1, <3>2
  <2>5. Places'
    BY <1>1, <2>1 DEF Places, Exists
  <2>. QED
    BY <1>1, <2>3, <2>4, <2>5 DEF VerdictIsTheCommands, Verdict
<1>. QED
  BY <1>3, <1>4

\* A signal ends the wrapper, and a command it reaches before it has ended.
LEMMA SignalInv == ASSUME Inv, Interrupt \/ Terminate \/ SessionEnds PROVE Inv'
<1>. USE DEF Inv, TypeOK
<1>1. /\ wrapper' = "dead"
      /\ \/ command' = command
         \/ command = "running" /\ command' = "killed"
      /\ \/ UNCHANGED <<loop, slept, stray>>
         \/ loop' = "gone" /\ slept' = 0 /\ stray' = FALSE
      /\ UNCHANGED <<notify, id, server, outages, row, age, actions, notified,
                     excused, recorded, touched>>
  <2>1. CASE Interrupt
    BY <2>1 DEF Interrupt, beats, world, task, history
  <2>2. CASE Terminate
    BY <2>2 DEF Terminate, beats, world, task, history
  <2>3. CASE SessionEnds
    BY <2>3 DEF SessionEnds, world, task, history
  <2>. QED
    BY <2>1, <2>2, <2>3
<1>2. TypeOK'
  <2>1. /\ stray' \in BOOLEAN /\ (loop' \in Alive \/ stray' => id' /\ Exists')
        /\ loop' \in {"none", "gone"} \cup Alive /\ slept' \in 0..Interval
        /\ loop' = "sleep" => slept' < Interval
    <3>1. CASE UNCHANGED <<loop, slept, stray>>
      BY <1>1, <3>1 DEF Exists
    <3>2. CASE loop' = "gone" /\ slept' = 0 /\ stray' = FALSE
      <4>1. loop' \notin Alive /\ loop' # "sleep" /\ loop' \in {"none", "gone"} \cup Alive
        BY <3>2 DEF Alive
      <4>2. stray' \in BOOLEAN /\ ~stray'
        BY <3>2
      <4>3. slept' \in 0..Interval
        BY <3>2, WrapAssumption
      <4>. QED
        BY <4>1, <4>2, <4>3
    <3>. QED
      BY <1>1, <3>1, <3>2
  <2>. QED
    BY <1>1, <2>1 DEF Ended
<1>3. Places' /\ Paid' /\ VerdictIsTheCommands'
  BY <1>1 DEF Places, Paid, VerdictIsTheCommands, Verdict, Exists
<1>. QED
  BY <1>2, <1>3

\* LocalOps goes and returns; the report is over, the wrapper notifies.
LEMMA WorldInv ==
    ASSUME Inv, (\E how \in {"down", "silent"} : ServerGoes(how)) \/ ServerReturns \/ ReportEnds \/ Notify
    PROVE  Inv'
<1>. USE DEF Inv, TypeOK
<1>1. /\ server' \in {"up", "down", "silent"} /\ outages' \in 0..MaxOutages /\ notified' \in BOOLEAN
      /\ \/ wrapper' = wrapper
         \/ wrapper = "reported" /\ wrapper' \in {"notify", "exited"}
         \/ wrapper = "notify" /\ wrapper' = "exited"
      /\ UNCHANGED <<notify, command, loop, slept, stray, id, row, age, actions,
                     excused, recorded, touched>>
  <2>1. CASE \E how \in {"down", "silent"} : ServerGoes(how)
    BY <2>1, WrapAssumption DEF ServerGoes, script, beats, task, history
  <2>2. CASE ServerReturns
    BY <2>2 DEF ServerReturns, script, beats, task, history
  <2>4. CASE ReportEnds
    BY <2>4 DEF ReportEnds, beats, world, task, history
  <2>3. CASE Notify
    <3>1. notified' \in BOOLEAN
      BY <2>3 DEF Notify
    <3>. QED
      BY <2>3, <3>1 DEF Notify, beats, world, task, history
  <2>. QED
    BY <2>1, <2>2, <2>3, <2>4
<1>2. TypeOK'
  BY <1>1 DEF Exists, Ended
<1>3. Places' /\ Paid' /\ VerdictIsTheCommands'
  BY <1>1 DEF Places, Paid, VerdictIsTheCommands, Verdict, Exists
<1>. QED
  BY <1>2, <1>3

\* An operator's action makes a row of a row, and the verdict is no longer the
\* last word.
LEMMA OperatorInv == ASSUME Inv, NEW action \in OperatorActions, Operator(action) PROVE Inv'
<1>. USE DEF Inv, TypeOK
<1>1. /\ Exists /\ actions < MaxActions /\ actions' = actions + 1 /\ touched' = TRUE
      /\ UNCHANGED <<wrapper, notify, command, loop, slept, stray, id, server, outages, age, notified,
                     excused, recorded>>
  BY DEF Operator, script, beats, world
<1>2. row \in Rows
  BY <1>1 DEF Exists
<1>3. row' \in Rows /\ row' # NoRow
  <2>1. action \in {"cancel", "stop", "pause", "resume"}
    BY WrapAssumption
  <2>2. "cancelled" \in TerminalStatuses /\ "stopped" \in TerminalStatuses
    BY DEF TerminalStatuses
  <2>. QED
    BY <1>2, <2>1, <2>2, RowsType DEF Operator
<1>4. TypeOK'
  BY <1>1, <1>3, WrapAssumption DEF Exists
<1>5. Places' /\ Paid' /\ VerdictIsTheCommands'
  BY <1>1, <1>3 DEF Places, Paid, VerdictIsTheCommands, Verdict, Exists
<1>. QED
  BY <1>4, <1>5

-----------------------------------------------------------------------------
\* Every step preserves the invariant.
LEMMA NextInv == Inv /\ [Next]_vars => Inv'
<1>. SUFFICES ASSUME Inv, [Next]_vars PROVE Inv'
  OBVIOUS
<1>1. CASE Next
  BY <1>1, CreateInv, BeginInv, CommandInv, ReportInv, BeatInv, TickInv, SignalInv, WorldInv, OperatorInv
     DEF Next, Step
<1>2. CASE UNCHANGED vars
  <2>1. UNCHANGED <<wrapper, notify, command, loop, slept, stray, id, server, outages, row, age,
                    actions, notified, excused, recorded, touched>>
    BY <1>2 DEF vars, script, beats, world, task, history
  <2>. QED
    BY <2>1 DEF Inv, TypeOK, Places, Paid, VerdictIsTheCommands, Verdict, Exists
<1>. QED
  BY <1>1, <1>2

\* The invariant holds in every behaviour of the wrapper.
LEMMA Invariance == Spec => []Inv
BY InitInv, NextInv, PTL DEF Spec

\* Every variable stays within its type; without an id no heartbeat is sent.
THEOREM Typing == Spec => []TypeOK
<1>1. Inv => TypeOK
  BY DEF Inv
<1>. QED
  BY <1>1, Invariance, PTL

\* A wrapped task whose loop runs is found stuck only when lost heartbeats and
\* calls that took their time account for all of the threshold but one sleep,
\* whatever the threshold and the sleep are.
THEOREM OnlyLossOrDelayMakesStuck == Spec => []BeatsKeepItAlive
<1>1. Inv => BeatsKeepItAlive
  BY WrapAssumption DEF Inv, TypeOK, Paid, BeatsKeepItAlive, Stuck, Alive
<1>. QED
  BY <1>1, Invariance, PTL

\* The row takes the exit code's verdict and no late heartbeat undoes it.
THEOREM VerdictStands == Spec => []VerdictIsTheCommands
<1>1. Inv => VerdictIsTheCommands
  BY DEF Inv
<1>. QED
  BY <1>1, Invariance, PTL

-----------------------------------------------------------------------------
(* To the monitor a wrapped task is a task like any other. *)

State == [t \in {"wrapped"} |-> LifecycleState(row)]
Age   == [t \in {"wrapped"} |-> age]

\* A row that becomes another, of the same age, ran or idled and runs or idles.
LEMMA RowMoves ==
    ASSUME row \in Rows, row' \in Rows, UNCHANGED age
    PROVE  [Lifecycle!Next]_(Lifecycle!vars)
<1>1. LifecycleState(row) \in {"running", "idle"} /\ LifecycleState(row') \in {"running", "idle"}
  BY DEF LifecycleState, Rows, Statuses, Absent
<1>2. Age' = Age /\ State["wrapped"] = LifecycleState(row)
      /\ State' = [State EXCEPT !["wrapped"] = LifecycleState(row')]
  BY DEF Age, State
<1>3. CASE LifecycleState(row') = LifecycleState(row)
  BY <1>2, <1>3 DEF Lifecycle!vars, Age, State
<1>4. CASE LifecycleState(row) = "running" /\ LifecycleState(row') = "idle"
  <2>1. Lifecycle!Halt("wrapped")
    BY <1>2, <1>4 DEF Lifecycle!Halt, Age, State
  <2>. QED
    BY <2>1 DEF Lifecycle!Next, Lifecycle!Step
<1>5. CASE LifecycleState(row) = "idle" /\ LifecycleState(row') = "running"
  <2>1. Lifecycle!Resume("wrapped")
    BY <1>2, <1>5 DEF Lifecycle!Resume, Age, State
  <2>. QED
    BY <2>1 DEF Lifecycle!Next, Lifecycle!Step
<1>. QED
  BY <1>1, <1>3, <1>4, <1>5

\* There is no task before the wrapper creates it.
LEMMA LifecycleInit == Init => Lifecycle!Init
<1>1. LifecycleState(NoRow) = "absent"
  BY DEF LifecycleState, NoRow, Absent
<1>2. Init => row = NoRow /\ age = 0
  BY DEF Init
<1>. QED
  BY <1>1, <1>2 DEF Lifecycle!Init

\* Every step is one of the lifecycle, or moves neither status nor age.
LEMMA LifecycleStep == Inv /\ [Next]_vars => [Lifecycle!Next]_(Lifecycle!vars)
<1>. DEFINE Goal == [Lifecycle!Next]_(Lifecycle!vars)
<1>. SUFFICES ASSUME Inv, [Next]_vars PROVE Goal
  OBVIOUS
<1>1. ASSUME UNCHANGED <<row, age>> PROVE Goal
  BY <1>1 DEF Lifecycle!vars
<1>2. ASSUME row \in Rows, row' \in Rows, UNCHANGED age PROVE Goal
  BY <1>2, RowMoves
<1>3. row \in Rows \cup {NoRow} /\ row' \in Rows \cup {NoRow}
  BY NextInv DEF Inv, TypeOK
<1>4. CASE Create
  <2>1. row = NoRow /\ age = 0 /\ UNCHANGED age
    BY <1>4 DEF Create, Inv, Places
  <2>2. CASE row' = row
    BY <1>1, <2>1, <2>2
  <2>3. CASE row' = NewRow(0, Data)
    <3>1. LifecycleState(row) = "absent" /\ LifecycleState(row') = "running"
      BY <2>1, <2>3 DEF LifecycleState, NoRow, NewRow, Absent
    <3>2. State["wrapped"] = "absent" /\ State' = [State EXCEPT !["wrapped"] = "running"]
          /\ Age' = [Age EXCEPT !["wrapped"] = 0]
      BY <2>1, <3>1 DEF State, Age
    <3>3. Lifecycle!Create("wrapped")
      BY <3>2 DEF Lifecycle!Create, State, Age
    <3>. QED
      BY <3>3 DEF Lifecycle!Next, Lifecycle!Step
  <2>. QED
    BY <1>4, <2>1, <2>2, <2>3 DEF Create
<1>5. CASE Report
  <2>1. row \in Rows /\ Verdict \in TerminalStatuses /\ Messages \subseteq BOOLEAN /\ UNCHANGED age
    BY <1>3, <1>5 DEF Report, Inv, Places, Exists, Verdict, Messages, TerminalStatuses
  <2>2. CASE row' = row
    BY <1>1, <2>1, <2>2
  <2>3. CASE \E said \in Messages : row' = FinishRow(row, Verdict, said)
    <3>1. row' \in Rows
      BY <2>1, <2>3, RowsType
    <3>. QED
      BY <1>2, <2>1, <3>1
  <2>. QED
    BY <1>5, <2>2, <2>3 DEF Report
<1>6. CASE Beat
  <2>1. row \in Rows /\ row' = row
    BY <1>3, <1>6 DEF Beat, Inv, Places, TypeOK, Exists, Alive
  <2>2. age' = 0
    BY <1>6 DEF Beat
  <2>3. State["wrapped"] # "absent" /\ State' = State /\ Age' = [Age EXCEPT !["wrapped"] = 0]
    BY <2>1, <2>2 DEF State, Age, LifecycleState, Rows, Statuses, Absent
  <2>4. Lifecycle!Heartbeat("wrapped")
    BY <2>3 DEF Lifecycle!Heartbeat, State, Age
  <2>. QED
    BY <2>4 DEF Lifecycle!Next, Lifecycle!Step
<1>7. CASE Tick
  <2>1. row' = row /\ age' = IF Exists /\ age <= Threshold THEN age + 1 ELSE age
    BY <1>7 DEF Tick
  <2>2. Exists <=> LifecycleState(row) # "absent"
    BY <1>3 DEF Exists, LifecycleState, NoRow, Rows, Statuses, Absent
  <2>3. age \in Nat /\ Threshold \in Nat
    BY WrapAssumption DEF Inv, TypeOK
  <2>4. State' = State
        /\ Age' = [t \in {"wrapped"} |-> IF State[t] = "absent" \/ Age[t] > Threshold
                                           THEN Age[t] ELSE Age[t] + 1]
    BY <2>1, <2>2, <2>3 DEF State, Age
  <2>5. Lifecycle!Tick
    BY <2>4 DEF Lifecycle!Tick, State, Age
  <2>. QED
    BY <2>5 DEF Lifecycle!Next
<1>8. ASSUME NEW action \in OperatorActions, Operator(action) PROVE Goal
  <2>1. row \in Rows /\ UNCHANGED age
    BY <1>3, <1>8 DEF Operator, Exists
  <2>2. action \in {"cancel", "stop", "pause", "resume"}
        /\ "cancelled" \in TerminalStatuses /\ "stopped" \in TerminalStatuses
    BY WrapAssumption DEF TerminalStatuses
  <2>3. row' \in Rows
    BY <1>8, <2>1, <2>2, RowsType DEF Operator
  <2>. QED
    BY <1>2, <2>1, <2>3
<1>9. CASE Begin \/ KillLoop \/ ReportEnds \/ Notify \/ CommandEnds \/ BeatLost \/ BeatEnds
  <2>1. UNCHANGED <<row, age>>
    BY <1>9 DEF Begin, KillLoop, ReportEnds, Notify, CommandEnds, BeatLost, BeatEnds, task
  <2>. QED
    BY <1>1, <2>1
<1>10. CASE \/ Interrupt \/ Terminate \/ SessionEnds
            \/ \E how \in {"down", "silent"} : ServerGoes(how)
            \/ ServerReturns \/ UNCHANGED vars
  <2>1. UNCHANGED <<row, age>>
    BY <1>10 DEF Interrupt, Terminate, SessionEnds, ServerGoes, ServerReturns, task, vars
  <2>. QED
    BY <1>1, <2>1
<1>. HIDE DEF Goal
<1>. QED
  BY <1>4, <1>5, <1>6, <1>7, <1>8, <1>9, <1>10 DEF Next, Step

\* What the monitor's alerts are proved from (HealthProofs) holds of a wrapped
\* task, whatever its wrapper, its operator and LocalOps go through.
THEOREM WrapImplementsLifecycle == Spec => ImplementsLifecycle
<1>1. Lifecycle!Init /\ [][Lifecycle!Next]_(Lifecycle!vars) => Lifecycle!Spec
  BY PTL DEF Lifecycle!Spec
<1>. QED
  BY <1>1, LifecycleInit, LifecycleStep, InitInv, NextInv, PTL DEF Spec, ImplementsLifecycle
=============================================================================
