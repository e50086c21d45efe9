------------------------------ MODULE SdkProofs ------------------------------
(***************************************************************************)
(* Proofs about Sdk, for every choice of losses, parent context and        *)
(* operator.                                                               *)
(***************************************************************************)
EXTENDS Sdk, TLAPS

-----------------------------------------------------------------------------
(* The row operations stay within Rows. *)

\* Store.Create makes a row.
LEMMA NewRowTyped == NewRow(0, NoData) \in Rows
  BY DEF NewRow, Rows, Statuses, ControlActions

\* Store.Finish turns a row into a row.
LEMMA FinishRowTyped ==
    ASSUME NEW r \in Rows, NEW s \in Statuses, NEW e \in BOOLEAN
    PROVE  FinishRow(r, s, e) \in Rows
  BY DEF FinishRow, Rows, ControlActions

\* Store.RequestControl turns a row into a row.
LEMMA ControlRowTyped ==
    ASSUME NEW r \in Rows, NEW a \in {"pause", "resume"}
    PROVE  ControlRow(r, a) \in Rows
  BY DEF ControlRow, Rows, ControlActions, Statuses

\* A report without a status turns a row into a row.
LEMMA WriteBackTyped ==
    ASSUME NEW r \in Rows, NEW old \in Rows
    PROVE  WriteBack(r, Merge(old, [status |-> Keep, data |-> NoData])) \in Rows
  <1> DEFINE m == Merge(old, [status |-> Keep, data |-> NoData])
  <1>1. m.status = old.status
    BY DEF Merge
  <1>2. m.data = NoData
    <2>1. old.data = NoData /\ DOMAIN NoData = {}
      BY DEF Rows, NoData
    <2> QED BY <2>1 DEF Merge, NoData
  <1> HIDE DEF m
  <1>3. WriteBack(r, m) \in Rows
    BY <1>1, <1>2 DEF WriteBack, Rows
  <1> QED BY <1>3 DEF m

\* A poll is answered with a control action or a final status.
LEMMA ReportedActionTyped ==
    ASSUME NEW r \in Rows PROVE ReportedAction(r) \in ControlActions \cup TerminalStatuses
  BY DEF ReportedAction, Rows

\* No row is taken for a missing one.
LEMMA RowsAreNotNoRow == NoRow \notin Rows
  BY DEF NoRow, Rows, Statuses, Absent

-----------------------------------------------------------------------------
(* Every request but the first is about a row that exists. *)

RowExists ==
    /\ handle = "live" \/ reply => row # NoRow
    /\ net \cap {"update", "complete", "fail"} # {} => row # NoRow
    /\ poller # "off" => row # NoRow
    /\ read # NoRow => row # NoRow

TypeInv == TypeOK /\ RowExists

\* A handle that was not started is well typed.
LEMMA TypeInvInit == Init => TypeInv
  BY DEF Init, TypeInv, TypeOK, RowExists, ControlActions

\* Complete, Fail and the deferred Complete keep the types.
LEMMA FinishTyped ==
    ASSUME TypeInv, NEW k \in {"complete", "fail"}, NEW during \in Calls,
           NEW after \in {"working", "done"}, Finish(k, during, after)
    PROVE  TypeInv'
  <1>1. TypeOK'
    <2>1. UNCHANGED <<handle, parentDone, poller, polled, reply, read, row, recorded, gaveUp>>
      BY DEF Finish, polling, server
    <2>2. /\ worker' \in {during, after} /\ outcome' \in {k, outcome}
          /\ net' \in {net, net \cup {k}}
      BY DEF Finish
    <2>3. closed' \in {closed, TRUE} /\ cancelled' \in {cancelled, TRUE}
      BY DEF Finish, Stop
    <2>4. closed' \in BOOLEAN /\ cancelled' \in BOOLEAN
      BY <2>3 DEF TypeInv, TypeOK
    <2> QED BY <2>1, <2>2, <2>4 DEF TypeInv, TypeOK, Requests
  <1>2. RowExists'
    <2>1. /\ UNCHANGED <<handle, reply, poller, read, row>>
          /\ net' = net \/ handle = "live"
      BY DEF Finish, polling, server
    <2> QED BY <2>1 DEF TypeInv, RowExists
  <1> QED BY <1>1, <1>2 DEF TypeInv

\* The server keeps the types, and finds the row of every request but the first.
LEMMA ServeTyped == ASSUME TypeInv, Serve PROVE TypeInv'
  <1> USE DEF TypeInv, TypeOK, RowExists
  <1>1. CASE ServeCreate
    BY <1>1, NewRowTyped, RowsAreNotNoRow DEF ServeCreate, Answer, client, polling
  <1>2. CASE ServeUpdateReads
    BY <1>2, RowsAreNotNoRow DEF ServeUpdateReads, client, polling
  <1>3. CASE ServeUpdateWrites
    <2>1. read \in Rows /\ row \in Rows
      BY <1>3 DEF ServeUpdateWrites
    <2>2. row' \in Rows
      BY <1>3, <2>1, WriteBackTyped DEF ServeUpdateWrites
    <2> QED BY <1>3, <2>2, RowsAreNotNoRow DEF ServeUpdateWrites, Answer, client, polling
  <1>4. ASSUME NEW k \in {"complete", "fail"}, ServeFinish(k) PROVE TypeInv'
    <2>1. row \in Rows
      BY <1>4 DEF ServeFinish
    <2>2. Verdict(k) \in Statuses /\ recorded' \in {"none", "completed", "failed"}
      BY <1>4 DEF Verdict, Statuses, ServeFinish
    <2>3. row' \in Rows
      BY <1>4, <2>1, <2>2, FinishRowTyped DEF ServeFinish
    <2> QED BY <1>4, <2>2, <2>3, RowsAreNotNoRow DEF ServeFinish, Answer, client, polling
  <1> QED BY <1>1, <1>2, <1>3, <1>4 DEF Serve

\* An operator's action keeps the types.
LEMMA OperatorTyped ==
    ASSUME TypeInv, NEW a \in OperatorActions, Operator(a) PROVE TypeInv'
  <1> USE DEF TypeInv, TypeOK, RowExists
  <1>1. row \in Rows
    BY DEF Operator
  <1>2. row' \in Rows
    <2>1. FinishRow(row, "cancelled", FALSE) \in Rows /\ FinishRow(row, "stopped", FALSE) \in Rows
      BY <1>1, FinishRowTyped DEF Statuses
    <2>2. a \in {"pause", "resume"} => ControlRow(row, a) \in Rows
      BY <1>1, ControlRowTyped
    <2> QED BY <2>1, <2>2, SdkAssumption DEF Operator
  <1>3. UNCHANGED <<worker, handle, cancelled, closed, outcome, gaveUp, parentDone, poller,
                    polled, net, reply, read, recorded>>
    BY DEF Operator, client, polling
  <1> QED BY <1>2, <1>3, RowsAreNotNoRow

\* Every step keeps the types.
LEMMA TypeInvStep == TypeInv /\ [Next]_vars => TypeInv'
  <1> SUFFICES ASSUME TypeInv, [Next]_vars PROVE TypeInv'
    OBVIOUS
  <1>1. CASE StartNoop \/ Start \/ Started \/ StartFails
    <2>1. TypeOK'
      <3>1. UNCHANGED <<outcome, gaveUp, parentDone, cancelled, closed, polled, read, row, recorded>>
        BY <1>1 DEF StartNoop, Start, Started, StartFails, polling, server
      <3>2. /\ worker' \in {"working", "create"} /\ handle' \in {handle, "live", "noop"}
            /\ poller' \in {poller, "waiting"} /\ net' \in {net, net \cup {"create"}}
        BY <1>1 DEF StartNoop, Start, Started, StartFails, polling, server
      <3>3. reply' \in BOOLEAN
        BY <1>1 DEF StartNoop, Start, Started, StartFails, TypeInv, TypeOK
      <3>4. net' \subseteq Requests /\ worker' \in {"working"} \cup Calls
        BY <3>2 DEF TypeInv, TypeOK, Requests, Calls
      <3> QED BY <3>1, <3>2, <3>3, <3>4 DEF TypeInv, TypeOK
    <2>2. RowExists'
      BY <1>1 DEF StartNoop, Start, Started, StartFails, TypeInv, RowExists, polling, server
    <2> QED BY <2>1, <2>2 DEF TypeInv
  <1>2. CASE Report \/ Reported
    <2>1. TypeOK'
      <3>1. UNCHANGED <<handle, outcome, parentDone, cancelled, closed, poller, polled, read, row,
                        recorded>>
        BY <1>2 DEF Report, Reported, polling, server
      <3>2. /\ worker' \in {"working", "update"} /\ net' \in {net, net \cup {"update"}}
        BY <1>2 DEF Report, Reported, polling, server
      <3>3. reply' \in BOOLEAN /\ gaveUp' \in BOOLEAN
        BY <1>2 DEF Report, Reported, TypeInv, TypeOK
      <3>4. net' \subseteq Requests /\ worker' \in {"working"} \cup Calls
        BY <3>2 DEF TypeInv, TypeOK, Requests, Calls
      <3> QED BY <3>1, <3>3, <3>4 DEF TypeInv, TypeOK
    <2>2. RowExists'
      BY <1>2 DEF Report, Reported, TypeInv, RowExists, polling, server
    <2> QED BY <2>1, <2>2 DEF TypeInv
  <1>3. CASE Fail \/ Complete \/ Return
    BY <1>3, FinishTyped DEF Fail, Complete, Return, Calls, Requests
  <1>4. CASE Finished
    BY <1>4 DEF Finished, Stop, TypeInv, TypeOK, RowExists, polling, server
  <1>5. CASE Serve
    BY <1>5, ServeTyped
  <1>6. CASE Drop
    BY <1>6 DEF Drop, TypeInv, TypeOK, RowExists, client, polling
  <1>7. CASE \E a \in OperatorActions : Operator(a)
    BY <1>7, OperatorTyped
  <1>8. CASE ParentEnds
    BY <1>8 DEF ParentEnds, TypeInv, TypeOK, RowExists, client, polling, server
  <1>9. CASE PollServed
    <2>1. row \in Rows
      BY <1>9 DEF PollServed, TypeInv, TypeOK, RowExists
    <2> QED BY <1>9, <2>1, ReportedActionTyped
            DEF PollServed, TypeInv, TypeOK, RowExists, client, server
  <1>10. CASE PollTick \/ PollFails \/ PollAnswered \/ PollExits
    BY <1>10 DEF PollTick, PollFails, PollAnswered, PollExits, TypeInv, TypeOK, RowExists,
                 client, server
  <1>11. CASE UNCHANGED vars
    BY <1>11 DEF vars, client, polling, server, TypeInv, TypeOK, RowExists
  <1> QED BY <1>1, <1>2, <1>3, <1>4, <1>5, <1>6, <1>7, <1>8, <1>9, <1>10, <1>11 DEF Next

\* The client and the server stay in the states the code gives them; no request
\* ever reaches a row that does not exist.
THEOREM Typing == Spec => []TypeOK
  <1>1. TypeInv => TypeOK
    BY DEF TypeInv
  <1> QED BY <1>1, TypeInvInit, TypeInvStep, PTL DEF Spec

-----------------------------------------------------------------------------
(* One verdict. *)

\* Once the worker has given its verdict it is in that very call or its context
\* is cancelled, so no other finishing request can leave.
Settled ==
    /\ FirstVerdictStands
    /\ outcome # "none" => cancelled \/ worker \in {"fail", "complete", "return"}

\* A finishing call gives a first verdict, or sends nothing.
LEMMA FinishSettles ==
    ASSUME Settled, NEW k \in {"complete", "fail"}, NEW during \in {"fail", "complete", "return"},
           NEW after \in {"working", "done"}, Finish(k, during, after)
    PROVE  Settled'
  <1> USE DEF Settled, FirstVerdictStands
  <1>1. CASE outcome # "none"
    <2>1. cancelled /\ CtxDone /\ outcome' = outcome
      BY <1>1 DEF Finish, CtxDone
    <2> QED BY <2>1 DEF Finish, Stop, server
  <1>2. CASE outcome = "none"
    <2>1. outcome' = k /\ recorded' = "none"
      BY <1>2 DEF Finish, server
    <2>2. net' \cap {"complete", "fail"} \subseteq {k}
      BY <1>2 DEF Finish
    <2> QED BY <2>1, <2>2 DEF Finish, Stop
  <1> QED BY <1>1, <1>2

\* The server records no verdict but the one that was given.
LEMMA ServeSettles == ASSUME Settled, Serve PROVE Settled'
  <1> USE DEF Settled, FirstVerdictStands
  <1>1. CASE ServeCreate \/ ServeUpdateReads \/ ServeUpdateWrites
    BY <1>1 DEF ServeCreate, ServeUpdateReads, ServeUpdateWrites, client
  <1>2. ASSUME NEW k \in {"complete", "fail"}, ServeFinish(k) PROVE Settled'
    <2>1. k = outcome /\ recorded' = Verdict(outcome)
      BY <1>2 DEF ServeFinish
    <2> QED BY <1>2, <2>1 DEF ServeFinish, client
  <1> QED BY <1>1, <1>2 DEF Serve

\* Every step keeps the verdict settled.
LEMMA SettledStep == Settled /\ [Next]_vars => Settled'
  <1> SUFFICES ASSUME Settled, [Next]_vars PROVE Settled'
    OBVIOUS
  <1>1. CASE StartNoop \/ Start \/ Started \/ StartFails \/ Report \/ Reported
    BY <1>1 DEF StartNoop, Start, Started, StartFails, Report, Reported, CtxDone,
                Settled, FirstVerdictStands, server
  <1>2. CASE Fail \/ Complete \/ Return
    BY <1>2, FinishSettles DEF Fail, Complete, Return
  <1>3. CASE Finished
    BY <1>3 DEF Finished, Stop, Settled, FirstVerdictStands, server
  <1>4. CASE Serve
    BY <1>4, ServeSettles
  <1>5. CASE Drop
    BY <1>5 DEF Drop, Settled, FirstVerdictStands, client
  <1>6. CASE ParentEnds \/ \E a \in OperatorActions : Operator(a)
    BY <1>6 DEF ParentEnds, Operator, Settled, FirstVerdictStands, client, server
  <1>7. CASE PollTick \/ PollServed \/ PollFails \/ PollAnswered \/ PollExits
    BY <1>7 DEF PollTick, PollServed, PollFails, PollAnswered, PollExits,
                Settled, FirstVerdictStands, client, server
  <1>8. CASE UNCHANGED vars
    BY <1>8 DEF vars, Settled, FirstVerdictStands, client, server
  <1> QED BY <1>1, <1>2, <1>3, <1>4, <1>5, <1>6, <1>7, <1>8 DEF Next

\* Whatever is lost, late or cancelled, the server hears at most one verdict of
\* a worker, the first: a deferred Complete never overwrites a Fail.
THEOREM OneVerdict == Spec => []FirstVerdictStands
  <1>1. Init => Settled
    BY DEF Init, Settled, FirstVerdictStands
  <1>2. Settled => FirstVerdictStands
    BY DEF Settled
  <1> QED BY <1>1, <1>2, SettledStep, PTL DEF Spec

-----------------------------------------------------------------------------
(* The verdict is recorded. *)

Finishing == {"fail", "complete", "return"}

\* The worker and its verdict: h.cancel is called by a finishing call only, for
\* the words the poller waits for are never the answer.
Concluded ==
    /\ worker \notin Calls => ~reply
    /\ cancelled \/ worker \in Finishing \cup {"done"} => outcome # "none"
    /\ worker = "update" => outcome = "none"
    /\ worker \in Finishing => outcome = RequestOf(worker)

\* Nothing is sent before Start, which waits for its one request.
Opening ==
    /\ worker \in {"init", "create"} => outcome = "none"
    /\ worker = "init" => handle = "none" /\ net = {} /\ read = NoRow
    /\ worker = "create" =>
          handle = "none" /\ net \subseteq {"create"} /\ read = NoRow /\ (reply => net = {})

\* While every call has had its answer, the network holds the request of the
\* call under way, if any, and what was answered has been recorded.
Answered ==
    handle = "live" /\ ~gaveUp =>
        /\ worker \in {"working", "done"} =>
              /\ net = {} /\ read = NoRow
              /\ outcome # "none" /\ ~parentDone => recorded = Verdict(outcome)
        /\ worker = "update" =>
              /\ net \subseteq {"update"} /\ (read # NoRow => net = {})
              /\ reply => net = {} /\ read = NoRow
        /\ worker \in Finishing =>
              /\ net \subseteq {outcome} /\ read = NoRow
              /\ reply => net = {} /\ recorded = Verdict(outcome)

Delivered == Concluded /\ Opening /\ Answered

Strong == TypeInv /\ Settled /\ Delivered

\* Starting leaves nothing behind on the network.
LEMMA StartDelivers ==
    ASSUME Strong, StartNoop \/ Start \/ Started \/ StartFails PROVE Delivered'
  <1> USE DEF Strong, TypeInv, TypeOK, Delivered, Concluded, Opening, Answered, Finishing, Calls,
              Requests, RequestOf
  <1>1. CASE StartNoop
    BY <1>1 DEF StartNoop, server
  <1>2. CASE Start
    BY <1>2 DEF Start, server
  <1>3. CASE Started
    <2>1. /\ worker = "create" /\ reply /\ worker' = "working" /\ handle' = "live"
          /\ ~reply' /\ net' = {} /\ read' = NoRow
          /\ UNCHANGED <<cancelled, outcome, gaveUp, parentDone, recorded>>
      BY <1>3 DEF Started, server
    <2>2. cancelled' => outcome' # "none"
      BY <2>1
    <2>3. handle = "none" /\ ~cancelled /\ outcome = "none"
      BY <2>1
    <2> QED BY <2>1, <2>3
  <1>4. CASE StartFails
    BY <1>4 DEF StartFails, server
  <1> QED BY <1>1, <1>2, <1>3, <1>4

\* An answered report leaves nothing behind on the network.
LEMMA ReportDelivers == ASSUME Strong, Report \/ Reported PROVE Delivered'
  <1> USE DEF Strong, TypeInv, TypeOK, Delivered, Concluded, Opening, Answered, Finishing, Calls,
              Requests, RequestOf, Settled
  <1>1. CASE Report
    BY <1>1 DEF Report, server, CtxDone
  <1>2. CASE Reported
    BY <1>2 DEF Reported, server
  <1> QED BY <1>1, <1>2

\* A finishing call under a living parent sends its verdict.
LEMMA FinishDelivers ==
    ASSUME Strong, NEW k \in {"complete", "fail"}, NEW during \in Finishing,
           RequestOf(during) = k, NEW after \in {"working", "done"}, Finish(k, during, after)
    PROVE  Delivered'
  <1> USE DEF Strong, TypeInv, TypeOK, Delivered, Concluded, Opening, Answered, Finishing, Calls,
              Requests, RequestOf, Settled
  <1>0. UNCHANGED <<handle, parentDone, reply, gaveUp, read, recorded>> /\ worker = "working"
    BY DEF Finish, server
  <1>1. outcome' = IF outcome = "none" THEN k ELSE outcome
    BY DEF Finish
  <1>2. CASE handle = "noop" \/ CtxDone
    <2>1. worker' = after /\ net' = net
      BY <1>2 DEF Finish
    <2> QED BY <1>0, <1>1, <1>2, <2>1 DEF CtxDone
  <1>3. CASE handle = "live" /\ ~CtxDone
    <2>1. worker' = during /\ net' = net \cup {k} /\ cancelled' = cancelled
      BY <1>3 DEF Finish
    <2>2. outcome = "none" /\ outcome' = k
      BY <1>0, <1>1, <1>3 DEF CtxDone
    <2> QED BY <1>0, <2>1, <2>2
  <1> QED BY <1>2, <1>3 DEF Finish

\* A finishing call that was answered has had its verdict recorded.
LEMMA FinishedDelivers == ASSUME Strong, Finished PROVE Delivered'
  <1>1. /\ worker \in Finishing /\ worker' \in {"working", "done"} /\ ~reply'
        /\ gaveUp' = (gaveUp \/ ~reply)
        /\ UNCHANGED <<handle, parentDone, net, read, recorded, outcome>>
    BY DEF Finished, Finishing, server
  <1>2. outcome # "none"
    BY <1>1 DEF Strong, Delivered, Concluded
  <1>3. Concluded'
    BY <1>1, <1>2 DEF Concluded, Finishing, Calls, Requests
  <1>4. Opening'
    BY <1>1 DEF Opening
  <1>5. Answered'
    <2> SUFFICES ASSUME handle = "live", ~gaveUp, reply
                 PROVE  net = {} /\ read = NoRow /\ recorded = Verdict(outcome)
      BY <1>1 DEF Answered, Finishing
    <2> QED BY <1>1 DEF Strong, Delivered, Answered
  <1> QED BY <1>3, <1>4, <1>5 DEF Delivered

\* What the server serves is the request of the call under way.
LEMMA ServeDelivers == ASSUME Strong, Serve PROVE Delivered'
  <1> USE DEF Strong, TypeInv, TypeOK, Delivered, Concluded, Opening, Answered, Finishing, Calls,
              Requests, RequestOf
  <1>1. CASE ServeCreate
    BY <1>1 DEF ServeCreate, Answer, client
  <1>2. CASE ServeUpdateReads
    BY <1>2 DEF ServeUpdateReads, client
  <1>3. CASE ServeUpdateWrites
    BY <1>3 DEF ServeUpdateWrites, Answer, client
  <1>4. ASSUME NEW k \in {"complete", "fail"}, ServeFinish(k) PROVE Delivered'
    <2>1. k = outcome /\ recorded' = Verdict(outcome) /\ k \in net
      BY <1>4 DEF ServeFinish, Settled, FirstVerdictStands
    <2>2. /\ net' = net \ {k} /\ (reply' <=> reply \/ RequestOf(worker) = k)
          /\ UNCHANGED <<worker, handle, cancelled, outcome, gaveUp, parentDone, read>>
      BY <1>4 DEF ServeFinish, Answer, client
    <2>3. Concluded'
      BY <2>2
    <2>4. Opening'
      BY <2>1, <2>2
    <2>5. Answered'
      BY <2>1, <2>2
    <2> QED BY <2>3, <2>4, <2>5
  <1> QED BY <1>1, <1>2, <1>3, <1>4 DEF Serve

\* A request that is dropped leaves less on the network.
LEMMA DropDelivers == ASSUME Strong, Drop PROVE Delivered'
  <1>1. /\ net' \subseteq net /\ (read' = read \/ read' = NoRow)
        /\ UNCHANGED <<worker, handle, cancelled, outcome, gaveUp, parentDone, reply, recorded>>
    BY DEF Drop, client
  <1>2. Delivered
    BY DEF Strong
  <1>3. Concluded'
    BY <1>1, <1>2 DEF Delivered, Concluded
  <1>4. Opening'
    BY <1>1, <1>2 DEF Delivered, Opening
  <1>5. Answered'
    BY <1>1, <1>2 DEF Delivered, Answered
  <1> QED BY <1>3, <1>4, <1>5 DEF Delivered

\* The poller never cancels the worker's context.
LEMMA PollDelivers ==
    ASSUME Strong, PollTick \/ PollServed \/ PollFails \/ PollAnswered \/ PollExits
    PROVE  Delivered'
  <1>1. polled \notin {"cancel", "stop"}
    BY DEF Strong, TypeInv, TypeOK, ControlActions, TerminalStatuses
  <1>2. UNCHANGED <<client, parentDone, net, reply, server>>
    BY <1>1 DEF PollTick, PollServed, PollFails, PollAnswered, PollExits, client
  <1> QED BY <1>2 DEF Strong, Delivered, Concluded, Opening, Answered, client, server

\* Every step keeps what was delivered.
LEMMA DeliveredStep == Strong /\ [Next]_vars => Delivered'
  <1> SUFFICES ASSUME Strong, [Next]_vars PROVE Delivered'
    OBVIOUS
  <1>1. CASE Fail \/ Complete \/ Return
    BY <1>1, FinishDelivers DEF Fail, Complete, Return, Finishing, RequestOf
  <1>2. CASE ParentEnds \/ \E a \in OperatorActions : Operator(a)
    <2>1. /\ UNCHANGED <<client, net, reply, read, recorded>>
          /\ parentDone' = parentDone \/ parentDone' = TRUE
      BY <1>2 DEF ParentEnds, Operator, server
    <2> QED BY <2>1 DEF Strong, Delivered, Concluded, Opening, Answered, client
  <1>3. CASE UNCHANGED vars
    BY <1>3 DEF vars, Strong, Delivered, Concluded, Opening, Answered, client, server
  <1> QED BY <1>1, <1>2, <1>3, StartDelivers, ReportDelivers, FinishedDelivers, ServeDelivers,
             DropDelivers, PollDelivers DEF Next

\* A worker that returns under a living parent, all its calls answered, has had
\* its verdict recorded, and no late request of its own can undo it.
THEOREM VerdictDelivered == Spec => []VerdictIsRecorded
  <1>1. Init => Strong
    <2>1. Init => Settled /\ Delivered
      BY DEF Init, Settled, FirstVerdictStands, Delivered, Concluded, Opening, Answered, Finishing,
             Calls, Requests
    <2> QED BY <2>1, TypeInvInit DEF Strong
  <1>2. Strong /\ [Next]_vars => Strong'
    BY TypeInvStep, SettledStep, DeliveredStep DEF Strong
  <1>3. Strong => VerdictIsRecorded
    BY DEF Strong, Delivered, Concluded, Answered, VerdictIsRecorded
  <1> QED BY <1>1, <1>2, <1>3, PTL DEF Spec
=============================================================================
