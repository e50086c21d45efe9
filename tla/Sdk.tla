--------------------------------- MODULE Sdk ---------------------------------
(***************************************************************************)
(* One tracked task seen from the Go client (client/tracker.go, client.go) *)
(* and the row the server keeps of it: the worker that calls Start,        *)
(* reports, Fail or Complete, with a deferred Complete when it returns;    *)
(* the goroutine that polls the control action; the requests on their way; *)
(* the operator at the API, CLI or Slack; the parent context.              *)
(*                                                                         *)
(* A request leaves only while its context is alive.  The worker waits for *)
(* the answer, but gives up when the context ends or, if Lossy, after the  *)
(* client's 5s timeout; a request it gave up on may still be served later. *)
(* If Lossy, requests and answers may also be lost, or fail at the server. *)
(*                                                                         *)
(* Bound: one report of the worker is outstanding at a time.               *)
(***************************************************************************)
EXTENDS TaskModel

CONSTANTS Lossy, ParentMayEnd, OperatorActions

ASSUME SdkAssumption ==
    /\ Lossy \in BOOLEAN /\ ParentMayEnd \in BOOLEAN
    /\ OperatorActions \subseteq {"cancel", "stop", "pause", "resume"}

VARIABLES
    worker,      \* the worker: "init", "working", "done", or the call it is in
    handle,      \* "none", "live" or "noop" (Handle.active is false)
    parentDone,  \* the context given to Start has ended
    cancelled,   \* h.cancel has been called
    closed,      \* h.closed
    poller,      \* the polling goroutine: "off", "waiting", "asking", "answered"
    polled,      \* the action in the answer to its last poll
    net,         \* requests sent and not yet served
    reply,       \* the server has answered the call the worker is in
    read,        \* the row Store.Update has read and not yet written back
    row,         \* the task's row
    outcome,     \* history: the finishing call the worker made first, or "none"
    gaveUp,      \* history: the worker has stopped waiting for an answer
    recorded     \* history: what a finishing call of the worker last recorded

client  == <<worker, handle, cancelled, closed, outcome, gaveUp>>
polling == <<poller, polled>>
server  == <<read, row, recorded>>
vars    == <<client, parentDone, polling, net, reply, server>>

Requests == {"create", "update", "complete", "fail"}
Calls    == Requests \cup {"return"}        \* "return": the deferred Complete

\* The request of the call the worker is in, and the status a finish records.
RequestOf(w) == IF w = "return" THEN "complete" ELSE w
Verdict(k)   == IF k = "fail" THEN "failed" ELSE "completed"

\* h.ctx derives from the parent's.
CtxDone == parentDone \/ cancelled

NoData == [f \in {} |-> 0]
NoRow  == [status |-> Absent]

Rows == [status : Statuses, control : ControlActions, error : BOOLEAN,
         completed : BOOLEAN, started : {0}, beat : {None}, data : {NoData}]

TypeOK ==
    /\ worker \in {"init", "working", "done"} \cup Calls
    /\ handle \in {"none", "live", "noop"}
    /\ parentDone \in BOOLEAN /\ cancelled \in BOOLEAN /\ closed \in BOOLEAN
    /\ poller \in {"off", "waiting", "asking", "answered"}
    /\ polled \in ControlActions \cup TerminalStatuses
    /\ net \subseteq Requests /\ reply \in BOOLEAN
    /\ read \in Rows \cup {NoRow} /\ row \in Rows \cup {NoRow}
    /\ outcome \in {"none", "complete", "fail"} /\ gaveUp \in BOOLEAN
    /\ recorded \in {"none", "completed", "failed"}

Init ==
    /\ worker = "init" /\ handle = "none"
    /\ parentDone = FALSE /\ cancelled = FALSE /\ closed = FALSE
    /\ poller = "off" /\ polled = ""
    /\ net = {} /\ reply = FALSE
    /\ read = NoRow /\ row = NoRow
    /\ outcome = "none" /\ gaveUp = FALSE /\ recorded = "none"

-----------------------------------------------------------------------------
\* The worker.

\* Start without a client, or under a context that has ended: no request, a
\* handle that does nothing.
StartNoop ==
    /\ worker = "init"
    /\ worker' = "working" /\ handle' = "noop"
    /\ UNCHANGED <<parentDone, cancelled, closed, polling, net, reply, server, outcome, gaveUp>>

Start ==
    /\ worker = "init" /\ ~parentDone
    /\ worker' = "create" /\ net' = net \cup {"create"}
    /\ UNCHANGED <<handle, parentDone, cancelled, closed, polling, reply, server, outcome, gaveUp>>

\* createTask returns an id: the handle is live and its poller starts.
Started ==
    /\ worker = "create" /\ reply
    /\ worker' = "working" /\ handle' = "live" /\ poller' = "waiting" /\ reply' = FALSE
    /\ UNCHANGED <<parentDone, cancelled, closed, polled, net, server, outcome, gaveUp>>

\* createTask fails, also when the server did create the row.
StartFails ==
    /\ worker = "create" /\ (Lossy \/ parentDone)
    /\ worker' = "working" /\ handle' = "noop" /\ reply' = FALSE
    /\ UNCHANGED <<parentDone, cancelled, closed, polling, net, server, outcome, gaveUp>>

\* Update, UpdateDetails or Heartbeat.
Report ==
    /\ worker = "working" /\ handle = "live" /\ ~CtxDone
    /\ "update" \notin net /\ read = NoRow
    /\ worker' = "update" /\ net' = net \cup {"update"}
    /\ UNCHANGED <<handle, parentDone, cancelled, closed, polling, reply, server, outcome, gaveUp>>

Reported ==
    /\ worker = "update" /\ (reply \/ Lossy \/ CtxDone)
    /\ worker' = "working" /\ reply' = FALSE /\ gaveUp' = (gaveUp \/ ~reply)
    /\ UNCHANGED <<handle, parentDone, cancelled, closed, polling, net, server, outcome>>

\* Mutants of Stop: the handle is closed but its context lives on; nothing
\* happens.
StopNoCancel == closed' = TRUE /\ UNCHANGED cancelled

StopNothing == UNCHANGED <<closed, cancelled>>

\* Handle.stop: the first call cancels the handle's context.
Stop == closed' = TRUE /\ cancelled' = TRUE

\* Mutant of Finish: stop() comes before the request.
FinishStopsFirst(k, during, after) ==
    /\ worker = "working"
    /\ outcome' = IF outcome = "none" THEN k ELSE outcome
    /\ worker' = after /\ Stop
    /\ UNCHANGED <<handle, parentDone, polling, net, reply, server, gaveUp>>

\* Complete or Fail: a noop handle only cancels its context; a live one whose
\* context has ended sends nothing and stops.
Finish(k, during, after) ==
    /\ worker = "working"
    /\ outcome' = IF outcome = "none" THEN k ELSE outcome
    /\ \/ /\ handle = "noop"
          /\ worker' = after /\ cancelled' = TRUE
          /\ UNCHANGED <<closed, net>>
       \/ /\ handle = "live" /\ CtxDone
          /\ worker' = after /\ Stop
          /\ UNCHANGED net
       \/ /\ handle = "live" /\ ~CtxDone
          /\ worker' = during /\ net' = net \cup {k}
          /\ UNCHANGED <<closed, cancelled>>
    /\ UNCHANGED <<handle, parentDone, polling, reply, server, gaveUp>>

Fail     == Finish("fail", "fail", "working")
Complete == Finish("complete", "complete", "working")
Return   == Finish("complete", "return", "done")     \* defer task.Complete()

\* completeTask or failTask is over, one way or the other; then stop().
Finished ==
    /\ worker \in {"fail", "complete", "return"} /\ (reply \/ Lossy \/ CtxDone)
    /\ worker' = IF worker = "return" THEN "done" ELSE "working"
    /\ reply' = FALSE /\ gaveUp' = (gaveUp \/ ~reply)
    /\ Stop
    /\ UNCHANGED <<handle, parentDone, polling, net, server, outcome>>

-----------------------------------------------------------------------------
\* The server.

\* The answer reaches a worker that still waits for it.
Answer(k) == reply' = (reply \/ RequestOf(worker) = k)

ServeCreate ==
    /\ "create" \in net
    /\ row' = NewRow(0, NoData)
    /\ net' = net \ {"create"} /\ Answer("create")
    /\ UNCHANGED <<client, parentDone, polling, read, recorded>>

\* Store.Update reads the row, and later writes back all it read.
ServeUpdateReads ==
    /\ "update" \in net
    /\ read' = row /\ net' = net \ {"update"}
    /\ UNCHANGED <<client, parentDone, polling, reply, row, recorded>>

ServeUpdateWrites ==
    /\ read # NoRow
    /\ row' = WriteBack(row, Merge(read, [status |-> Keep, data |-> NoData]))
    /\ read' = NoRow /\ Answer("update")
    /\ UNCHANGED <<client, parentDone, polling, net, recorded>>

ServeFinish(k) ==
    /\ k \in net
    /\ row' = FinishRow(row, Verdict(k), k = "fail")
    /\ recorded' = Verdict(k)
    /\ net' = net \ {k} /\ Answer(k)
    /\ UNCHANGED <<client, parentDone, polling, read>>

\* A request is lost or fails; without loss, only one whose client has hung up.
Drop ==
    \/ \E k \in net :
          /\ Lossy \/ RequestOf(worker) # k
          /\ net' = net \ {k} /\ UNCHANGED read
          /\ UNCHANGED <<client, parentDone, polling, reply, row, recorded>>
    \/ /\ read # NoRow
       /\ Lossy \/ worker # "update"
       /\ read' = NoRow /\ UNCHANGED net
       /\ UNCHANGED <<client, parentDone, polling, reply, row, recorded>>

\* An operator's control action, as handleControl applies it.
Operator(a) ==
    /\ row # NoRow
    /\ row' = CASE a = "cancel" -> FinishRow(row, "cancelled", FALSE)
                [] a = "stop"   -> FinishRow(row, "stopped", FALSE)
                [] OTHER        -> ControlRow(row, a)
    /\ UNCHANGED <<client, parentDone, polling, net, reply, read, recorded>>

ParentEnds ==
    /\ ParentMayEnd /\ ~parentDone
    /\ parentDone' = TRUE
    /\ UNCHANGED <<client, polling, net, reply, server>>

-----------------------------------------------------------------------------
\* The polling goroutine.

\* A tick finds the handle open: ask.  Under a context that has ended the
\* request is not sent, and the goroutine waits on.
PollTick ==
    /\ poller = "waiting"
    /\ poller' = IF closed THEN "off" ELSE IF CtxDone THEN "waiting" ELSE "asking"
    /\ UNCHANGED <<client, parentDone, polled, net, reply, server>>

PollServed ==
    /\ poller = "asking"
    /\ poller' = "answered" /\ polled' = ReportedAction(row)
    /\ UNCHANGED <<client, parentDone, net, reply, server>>

PollFails ==
    /\ poller \in {"asking", "answered"} /\ (Lossy \/ CtxDone)
    /\ poller' = "waiting"
    /\ UNCHANGED <<client, parentDone, polled, net, reply, server>>

\* pollControl's switch: two actions cancel the handle's context.
PollAnswered ==
    /\ poller = "answered"
    /\ IF polled \in {"cancel", "stop"}
       THEN poller' = "off" /\ cancelled' = TRUE
       ELSE poller' = "waiting" /\ UNCHANGED cancelled
    /\ UNCHANGED <<worker, handle, closed, outcome, gaveUp, parentDone, polled,
                   net, reply, server>>

\* case <-h.ctx.Done()
PollExits ==
    /\ poller = "waiting" /\ CtxDone
    /\ poller' = "off"
    /\ UNCHANGED <<client, parentDone, polled, net, reply, server>>

-----------------------------------------------------------------------------
Serve == ServeCreate \/ ServeUpdateReads \/ ServeUpdateWrites
         \/ ServeFinish("complete") \/ ServeFinish("fail")

Next ==
    \/ StartNoop \/ Start \/ Started \/ StartFails
    \/ Report \/ Reported
    \/ Fail \/ Complete \/ Return \/ Finished
    \/ Serve \/ Drop
    \/ \E a \in OperatorActions : Operator(a)
    \/ ParentEnds
    \/ PollTick \/ PollServed \/ PollFails \/ PollAnswered \/ PollExits

\* The server serves what reaches it and every call ends; between two ticks of
\* the poller's ticker only ctx.Done() can be ready, so the select takes it.
\* The worker may work for ever.
Fairness ==
    /\ WF_vars(Serve)
    /\ WF_vars(Started \/ StartFails) /\ WF_vars(Reported) /\ WF_vars(Finished)
    /\ WF_vars(PollTick /\ ~CtxDone) /\ WF_vars(PollServed)
    /\ WF_vars(PollAnswered \/ PollFails) /\ WF_vars(PollExits)

Spec == Init /\ [][Next]_vars /\ Fairness

-----------------------------------------------------------------------------
\* client/README.md:74-77, `task.Fail(err); return` under a deferred Complete:
\* the worker's first verdict is the only one the server is ever given, now or
\* by a request still on its way.
FirstVerdictStands ==
    /\ recorded # "none" => outcome # "none" /\ recorded = Verdict(outcome)
    /\ net \cap {"complete", "fail"} \subseteq {outcome}

\* tracker.go:159-162: when a worker has returned under a living parent context,
\* and never gave up on an answer, the server has recorded its verdict, and none
\* of its requests is left that could still write to the row.
VerdictIsRecorded ==
    worker = "done" /\ handle = "live" /\ ~parentDone /\ ~gaveUp =>
        /\ recorded = Verdict(outcome)
        /\ net = {} /\ read = NoRow

\* tracker.go:191-194: the poller "exits as soon as the handle is stopped
\* (Complete/Fail) or its context is done for any other reason".
PollerStops == worker = "done" \/ CtxDone ~> poller = "off"

\* tracker.go:123-125: the context is cancelled when "LocalOps records an
\* external cancel/stop request for this task".
RemoteCancelReachesWorker ==
    handle = "live" /\ row.status \in {"cancelled", "stopped"} ~> CtxDone
=============================================================================
