---------------------------- MODULE SlackCommands ----------------------------
(***************************************************************************)
(* Slack's slash commands and their two ways in: envelopes over Socket     *)
(* Mode (internal/server/slack_socketmode.go) and HTTP requests            *)
(* (handleSlackCommand, handleNotify).  Both execute the same way: a       *)
(* notification is recorded and then posted (internal/notifications), a    *)
(* control action is committed and the row then read again for the answer, *)
(* anything else reads only.                                               *)
(*                                                                         *)
(* Socket Mode is one goroutine: it reads an envelope, executes it under   *)
(* the process's context, acknowledges it with the answer, and reads on.   *)
(* HTTP requests run side by side, each under its caller's context.        *)
(*                                                                         *)
(* Slack delivers the commands 1, 2, ... in order, and delivers again what *)
(* it has no acknowledgement of ("ack so Slack doesn't retry",             *)
(* slack_socketmode.go:84).                                                *)
(*                                                                         *)
(* Bounds: MaxAgain (deliveries beyond each command's first), MaxInbox     *)
(* (messages under way), MaxFailures (failed statements), MaxBoots (starts *)
(* of the server).  Lost connections are not bounded.                      *)
(***************************************************************************)
EXTENDS TaskModel, Sequences

CONSTANTS
    LastCommand,    \* slash commands are numbered 1..LastCommand
    Requests,       \* HTTP requests
    Asked,          \* what they may ask for: functions from both to Kinds
    MaxBackoff,     \* Run's limit, in seconds: 30
    MaxAgain, MaxInbox, MaxFailures, MaxBoots

Controls == {"cancel", "stop", "pause", "resume"}
Acting   == Controls \cup {"notify"}
Silent   == {"interactive", "malformed"}    \* acknowledged, not executed
Kinds    == Acting \cup Silent \cup {"query", "garbled"}

Commands == 1..LastCommand
Items    == Commands \cup Requests

ASSUME SlackAssumption ==
    /\ Asked \subseteq [Items -> Kinds] /\ Asked # {}
    /\ \A k \in Asked, r \in Requests : k[r] \in Acting \cup {"query"}
    /\ MaxBackoff \in Nat \ {0}
    /\ LastCommand \in Nat /\ MaxAgain \in Nat /\ MaxInbox \in Nat \ {0}
    /\ MaxFailures \in Nat /\ MaxBoots \in Nat \ {0}
    /\ Requests \cap Commands = {} /\ "socket" \notin Requests

Workers  == {"socket"} \cup Requests

VARIABLES
    kind,       \* what each command and each request asks for
    conn,       \* the socket goroutine: "down", "dial", "open" or "wait"
    link,       \* the WebSocket: "none", "up" or "broken"
    backoff,    \* Run's backoff, in seconds
    inbox,      \* messages Slack has sent over the link and nobody has read
    job,        \* what each worker is executing
    caller,     \* each request's caller: "none", "waiting", "gone", "answered"
    row,        \* the task the control actions are about
    recorded,   \* rows of the notifications table, per command or request
    posted,     \* messages the webhook took, per command or request
    delivered,  \* how often Slack delivered each command
    again,      \* deliveries of a command delivered before
    acked,      \* commands Slack has an acknowledgement of
    told,       \* the last answer each user saw
    failures, boot,
    applied     \* history: whose control action the row took, in order

socket  == <<conn, link, backoff, inbox>>
slack   == <<delivered, again, acked, told>>
store   == <<row, recorded, posted, applied>>
process == <<failures, boot>>
vars    == <<kind, socket, job, caller, store, slack, process>>

Hello       == [type |-> "hello"]
Disconnect  == [type |-> "disconnect"]
Envelope(c) == [type |-> "command", command |-> c]
Messages    == {Hello, Disconnect} \cup {Envelope(c) : c \in Commands}

Idle    == [step |-> "idle"]
Answers == {"none", "error", "sent", "text"} \cup Statuses
Steps   == {"dispatch", "post", "readback", "reply"}
Job(i, step, answer) == [step |-> step, item |-> i, answer |-> answer, overtaken |-> FALSE]
Jobs    == [step : Steps, item : Items, answer : Answers, overtaken : BOOLEAN]

Data == [f \in {} |-> 0]
Rows == [status : Statuses, control : ControlActions, error : BOOLEAN,
         completed : BOOLEAN, started : {0}, beat : {None}, data : {Data}]

Init ==
    /\ kind \in Asked
    /\ conn = "dial" /\ link = "none" /\ backoff = 1 /\ inbox = <<>>
    /\ job = [w \in Workers |-> Idle]
    /\ caller = [r \in Requests |-> "none"]
    /\ row = NewRow(0, Data)
    /\ recorded = [i \in Items |-> 0] /\ posted = [i \in Items |-> 0]
    /\ delivered = [c \in Commands |-> 0] /\ again = 0 /\ acked = {}
    /\ told = [i \in Items |-> "none"]
    /\ failures = 0 /\ boot = 1 /\ applied = <<>>

-----------------------------------------------------------------------------
\* Slack and the network.

Deliver(c) ==
    /\ link = "up" /\ Len(inbox) < MaxInbox
    /\ c \notin acked /\ (c > 1 => delivered[c - 1] > 0)
    /\ IF delivered[c] = 0
         THEN UNCHANGED again
         ELSE again < MaxAgain /\ again' = again + 1
    /\ delivered' = [delivered EXCEPT ![c] = @ + 1]
    /\ inbox' = Append(inbox, Envelope(c))
    /\ UNCHANGED <<kind, conn, link, backoff, job, caller, store, acked, told, process>>

AskDisconnect ==
    /\ link = "up" /\ Len(inbox) < MaxInbox
    /\ inbox' = Append(inbox, Disconnect)
    /\ UNCHANGED <<kind, conn, link, backoff, job, caller, store, slack, process>>

\* The connection is lost, with what was on its way.
Break ==
    /\ link = "up"
    /\ link' = "broken" /\ inbox' = <<>>
    /\ UNCHANGED <<kind, conn, backoff, job, caller, store, slack, process>>

-----------------------------------------------------------------------------
\* The socket goroutine.

Connect ==
    /\ conn = "dial"
    /\ conn' = "open" /\ link' = "up" /\ inbox' = <<Hello>>
    /\ UNCHANGED <<kind, backoff, job, caller, store, slack, process>>

\* apps.connections.open or the dial fails.
ConnectFails ==
    /\ conn = "dial"
    /\ conn' = "wait"
    /\ UNCHANGED <<kind, link, backoff, inbox, job, caller, store, slack, process>>

\* Mutant of Wake: the backoff is compared after it is doubled.
WakeTooLong ==
    /\ conn = "wait"
    /\ conn' = "dial"
    /\ backoff' = IF backoff <= MaxBackoff THEN 2 * backoff ELSE backoff
    /\ UNCHANGED <<kind, link, inbox, job, caller, store, slack, process>>

\* The end of Run's loop.  Nothing ever resets the backoff.
Wake ==
    /\ conn = "wait"
    /\ conn' = "dial"
    /\ backoff' = IF backoff < MaxBackoff THEN 2 * backoff ELSE backoff
    /\ UNCHANGED <<kind, link, inbox, job, caller, store, slack, process>>

\* runOnce returns: the deferred CloseNow, then Run's wait.
Return == conn' = "wait" /\ link' = "none" /\ inbox' = <<>>

Reading == conn = "open" /\ job["socket"] = Idle

\* Mutant of ReadFails: the loop logs the error and reads on.
ReadFailsReadsOn ==
    /\ Reading /\ link = "broken"
    /\ inbox' = <<>>
    /\ UNCHANGED <<kind, conn, link, backoff, job, caller, store, slack, process>>

ReadFails ==
    /\ Reading /\ link = "broken"
    /\ Return
    /\ UNCHANGED <<kind, backoff, job, caller, store, slack, process>>

\* Mutant of Handle: an envelope it does not act on is not acknowledged.
HandleUnacknowledged(message) ==
    IF message.type # "command" \/ kind[message.command] \in Silent \cup {"garbled"}
      THEN UNCHANGED job
      ELSE job' = [job EXCEPT !["socket"] = Job(message.command, "dispatch", "none")]

\* What the loop does with one message: a command is executed, an envelope it
\* does not act on is acknowledged, and an unreadable one is passed over.
Handle(message) ==
    IF message.type # "command"
      THEN UNCHANGED job
      ELSE LET c == message.command IN
           job' = [job EXCEPT !["socket"] =
               CASE kind[c] = "garbled" -> Idle
                 [] kind[c] \in Silent  -> Job(c, "reply", "none")
                 [] OTHER               -> Job(c, "dispatch", "none")]

\* Mutant of Receive: each command is handled in a goroutine of its own, which
\* may overtake the one before.
ReceiveAnyOrder ==
    /\ Reading /\ link = "up"
    /\ \E k \in DOMAIN inbox :
          IF inbox[k] = Disconnect
            THEN Return /\ UNCHANGED job
            ELSE /\ Handle(inbox[k])
                 /\ inbox' = SubSeq(inbox, 1, k - 1) \o SubSeq(inbox, k + 1, Len(inbox))
                 /\ UNCHANGED <<conn, link>>
    /\ UNCHANGED <<kind, backoff, caller, store, slack, process>>

Receive ==
    /\ Reading /\ link = "up" /\ inbox # <<>>
    /\ IF Head(inbox) = Disconnect
         THEN Return /\ UNCHANGED job
         ELSE Handle(Head(inbox)) /\ inbox' = Tail(inbox) /\ UNCHANGED <<conn, link>>
    /\ UNCHANGED <<kind, backoff, caller, store, slack, process>>

Answering(w) == job[w].step = "reply"
Done(w)      == job' = [job EXCEPT ![w] = Idle]

\* The answer travels with the acknowledgement.
Ack ==
    /\ Answering("socket") /\ link = "up"
    /\ LET j == job["socket"] IN
          /\ acked' = acked \cup {j.item}
          /\ told' = [told EXCEPT ![j.item] = j.answer]
    /\ Done("socket")
    /\ UNCHANGED <<kind, socket, caller, store, delivered, again, process>>

\* A failed write is logged; the next read fails too.
AckFails ==
    /\ Answering("socket") /\ link # "none"
    /\ link' = "broken" /\ inbox' = <<>>
    /\ Done("socket")
    /\ UNCHANGED <<kind, conn, backoff, caller, store, slack, process>>

-----------------------------------------------------------------------------
\* HTTP: POST /slack/commands and POST /notify.

Request(r) ==
    /\ conn # "down" /\ caller[r] = "none"
    /\ caller' = [caller EXCEPT ![r] = "waiting"]
    /\ job' = [job EXCEPT ![r] = Job(r, "dispatch", "none")]
    /\ UNCHANGED <<kind, socket, store, slack, process>>

\* Slack waits three seconds, a script as long as it likes.
HangUp(r) ==
    /\ caller[r] = "waiting"
    /\ caller' = [caller EXCEPT ![r] = "gone"]
    /\ UNCHANGED <<kind, socket, job, store, slack, process>>

Respond(r) ==
    /\ Answering(r)
    /\ IF caller[r] = "waiting"
         THEN /\ told' = [told EXCEPT ![r] = job[r].answer]
              /\ caller' = [caller EXCEPT ![r] = "answered"]
         ELSE UNCHANGED <<told, caller>>
    /\ Done(r)
    /\ UNCHANGED <<kind, socket, store, delivered, again, acked, process>>

-----------------------------------------------------------------------------
\* dispatchSlackCommand, in the socket goroutine or in a request's.

\* The worker's context has ended: its statements and its requests fail.
Cancelled(w) == w \in Requests /\ caller[w] = "gone"
Kind(w)      == kind[job[w].item]

Advance(w, step, answer) ==
    job' = [job EXCEPT ![w].step = step, ![w].answer = answer]

\* Mutant of Fails: a notification that could not be recorded counts as sent.
FailsSilently(w) ==
    /\ \/ job[w].step = "dispatch" \/ job[w].step = "readback"
    /\ \/ Cancelled(w) /\ UNCHANGED failures
       \/ failures < MaxFailures /\ failures' = failures + 1
    /\ Advance(w, "reply", IF Kind(w) = "notify" THEN "sent" ELSE "error")
    /\ UNCHANGED <<kind, socket, caller, store, slack, boot>>

\* The statement a worker is about to run fails, and the error is its answer.
\* A control action that is committed is not undone by that.
Fails(w) ==
    /\ \/ job[w].step = "dispatch" \/ job[w].step = "readback"
    /\ \/ Cancelled(w) /\ UNCHANGED failures
       \/ failures < MaxFailures /\ failures' = failures + 1
    /\ Advance(w, "reply", "error")
    /\ UNCHANGED <<kind, socket, caller, store, slack, boot>>

Query(w) ==
    /\ job[w].step = "dispatch" /\ Kind(w) = "query"
    /\ Advance(w, "reply", "text")
    /\ UNCHANGED <<kind, socket, caller, store, slack, process>>

\* notifications.Store.Send: the insert, then one attempt to post, whose
\* outcome nobody sees.
Record(w) ==
    /\ job[w].step = "dispatch" /\ Kind(w) = "notify" /\ ~Cancelled(w)
    /\ recorded' = [recorded EXCEPT ![job[w].item] = @ + 1]
    /\ Advance(w, "post", "none")
    /\ UNCHANGED <<kind, socket, caller, row, posted, applied, slack, process>>

\* Mutant of Post: one more attempt when the first seems to have failed.
PostTwice(w) ==
    /\ job[w].step = "post" /\ ~Cancelled(w)
    /\ \E n \in 1..2 : posted' = [posted EXCEPT ![job[w].item] = @ + n]
    /\ Advance(w, "reply", "sent")
    /\ UNCHANGED <<kind, socket, caller, row, recorded, applied, slack, process>>

Post(w) ==
    /\ job[w].step = "post" /\ ~Cancelled(w)
    /\ posted' = [posted EXCEPT ![job[w].item] = @ + 1]
    /\ Advance(w, "reply", "sent")
    /\ UNCHANGED <<kind, socket, caller, row, recorded, applied, slack, process>>

PostFails(w) ==
    /\ job[w].step = "post"
    /\ Advance(w, "reply", "sent")
    /\ UNCHANGED <<kind, socket, caller, store, slack, process>>

\* slackTaskControl: cancel and stop finish the task, pause and resume move it.
Controlled(action) ==
    CASE action = "cancel" -> FinishRow(row, "cancelled", FALSE)
      [] action = "stop"   -> FinishRow(row, "stopped", FALSE)
      [] OTHER             -> ControlRow(row, action)

\* Mutant of Commit: the row is read before the transaction.
CommitAfterReading(w) ==
    /\ job[w].step = "dispatch" /\ Kind(w) \in Controls /\ ~Cancelled(w)
    /\ row' = Controlled(Kind(w))
    /\ applied' = Append(applied, job[w].item)
    /\ Advance(w, "reply", row.status)
    /\ UNCHANGED <<kind, socket, caller, recorded, posted, slack, process>>

\* The transaction.  Whoever is between his own and his answer is overtaken.
Commit(w) ==
    /\ job[w].step = "dispatch" /\ Kind(w) \in Controls /\ ~Cancelled(w)
    /\ row' = Controlled(Kind(w))
    /\ applied' = Append(applied, job[w].item)
    /\ job' = [v \in Workers |->
                  CASE v = w -> [job[w] EXCEPT !.step = "readback"]
                    [] v # w /\ job[v].step = "readback" -> [job[v] EXCEPT !.overtaken = TRUE]
                    [] OTHER -> job[v]]
    /\ UNCHANGED <<kind, socket, caller, recorded, posted, slack, process>>

\* Store.Get after the commit: the answer shows the row as it is by now.
ReadBack(w) ==
    /\ job[w].step = "readback" /\ ~Cancelled(w)
    /\ Advance(w, "reply", row.status)
    /\ UNCHANGED <<kind, socket, caller, store, slack, process>>

Work(w) ==
    \/ Query(w) \/ Record(w) \/ Post(w) \/ PostFails(w)
    \/ Commit(w) \/ ReadBack(w)

-----------------------------------------------------------------------------
\* The process dies, or is shut down; the database survives.
Crash ==
    /\ conn # "down" /\ boot < MaxBoots
    /\ conn' = "down" /\ link' = "none" /\ inbox' = <<>> /\ backoff' = 1
    /\ job' = [w \in Workers |-> Idle]
    /\ caller' = [r \in Requests |-> IF caller[r] = "waiting" THEN "gone" ELSE caller[r]]
    /\ UNCHANGED <<kind, store, slack, failures, boot>>

Start ==
    /\ conn = "down"
    /\ conn' = "dial" /\ boot' = boot + 1
    /\ UNCHANGED <<kind, link, backoff, inbox, job, caller, store, slack, failures>>

Next ==
    \/ \E c \in Commands : Deliver(c)
    \/ AskDisconnect \/ Break
    \/ Connect \/ ConnectFails \/ Wake \/ ReadFails \/ Receive
    \/ Ack \/ AckFails
    \/ \E r \in Requests : Request(r) \/ HangUp(r) \/ Respond(r)
    \/ \E w \in Workers : Fails(w) \/ Work(w)
    \/ Crash \/ Start

\* The goroutine runs, a supervisor restarts the server, and Slack, asked
\* again and again, accepts a connection.  Nothing is assumed of the commands.
Fairness ==
    /\ WF_vars(Wake) /\ WF_vars(ReadFails) /\ WF_vars(Receive) /\ SF_vars(Connect)
    /\ WF_vars(Work("socket")) /\ WF_vars(Ack \/ AckFails)
    /\ WF_vars(Start)

Spec == Init /\ [][Next]_vars /\ Fairness

-----------------------------------------------------------------------------
\* Every variable stays within its type; the backoff ends below twice
\* its limit.
TypeOK ==
    /\ kind \in [Items -> Kinds]
    /\ conn \in {"down", "dial", "open", "wait"}
    /\ link \in {"none", "up", "broken"} /\ (conn = "open" <=> link # "none")
    /\ backoff \in 1..(2 * MaxBackoff - 1)
    /\ inbox \in Seq(Messages)
    /\ job \in [Workers -> {Idle} \cup Jobs]
    /\ caller \in [Requests -> {"none", "waiting", "gone", "answered"}]
    /\ row \in Rows
    /\ recorded \in [Items -> Nat] /\ posted \in [Items -> Nat]
    /\ delivered \in [Commands -> Nat] /\ again \in 0..MaxAgain
    /\ acked \subseteq Commands /\ told \in [Items -> Answers]
    /\ failures \in 0..MaxFailures /\ boot \in 1..MaxBoots
    /\ applied \in Seq(Items)

AppliedItems == {applied[k] : k \in DOMAIN applied}

\* No answer runs ahead of the database: a command that acts is acknowledged only
\* with its answer, "Sent." is told of recorded notifications only (posted or not,
\* handlers_slack.go:438), and a status of actions the row took - whatever was
\* lost, retried or cut off.
ConfirmedIsDone ==
    /\ \A c \in acked : kind[c] \in Acting => told[c] # "none"
    /\ \A i \in Items :
          /\ told[i] = "sent" => recorded[i] > 0
          /\ told[i] \in Statuses => i \in AppliedItems

\* The notifications table is an audit of what went out (notifications.go:6):
\* nothing is posted without its record, and no command is executed more often
\* than Slack delivered it.
PostedIsRecorded ==
    \A i \in Items :
        /\ posted[i] <= recorded[i]
        /\ recorded[i] <= IF i \in Requests THEN 1 ELSE delivered[i]

\* Over the socket, control actions reach the row in the order they were asked
\* for: only a command Slack delivered again can come after a later one.
CommandsInOrder ==
    \A k, l \in DOMAIN applied :
        /\ k < l /\ applied[k] \in Commands /\ applied[l] \in Commands
        /\ delivered[applied[l]] = 1
        => applied[k] < applied[l]

\* The row is read again after the commit (store.go:304, 336): the answer is
\* the action's own status unless another action was committed in between.
AnswerIsOwnUnlessOvertaken ==
    \A w \in Workers :
        (/\ job[w].step = "reply" /\ job[w].answer \in Statuses
         /\ ~job[w].overtaken)
            => job[w].answer = Controlled(Kind(w)).status

\* A command in the inbox of a connection that lasts is acknowledged, executed
\* or not - unless it could not be read.
DeliveredIsAnswered ==
    \A c \in Commands :
        (\E k \in DOMAIN inbox : inbox[k] = Envelope(c)) ~>
            c \in acked \/ kind[c] = "garbled" \/ link # "up"

\* A lost connection is replaced, however often connecting fails.
Reconnects == link # "up" ~> link = "up"

=============================================================================
