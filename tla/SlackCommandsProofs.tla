------------------------- MODULE SlackCommandsProofs -------------------------
(***************************************************************************)
(* Proofs about SlackCommands, for any number of commands and requests and *)
(* whatever they ask for.  What a user is told is settled step by step     *)
(* while a worker executes, so the invariant is about the jobs (JobOK):    *)
(* what each step has achieved, and what it entitles the answer to say.    *)
(***************************************************************************)
EXTENDS SlackCommands, FiniteSetTheorems, TLAPS

\* A server that is down has a start left.
Types == TypeOK /\ (conn = "down" => boot < MaxBoots)

\* The status a control action leaves the row in.
StatusOf(action) ==
    CASE action = "cancel" -> "cancelled"
      [] action = "stop"   -> "stopped"
      [] action = "pause"  -> "paused"
      [] OTHER             -> "running"

JobOK(w) ==
    LET j == job[w] IN
    /\ j.step # "idle" => IF w = "socket" THEN j.item \in Commands ELSE j.item = w
    /\ j.step = "post" => recorded[j.item] > 0
    /\ j.step = "readback" =>
          /\ j.item \in AppliedItems /\ kind[j.item] \in Controls
          /\ ~j.overtaken => row.status = StatusOf(kind[j.item])
    /\ j.step = "reply" =>
          /\ j.answer = "none" => kind[j.item] \notin Acting
          /\ j.answer = "sent" => recorded[j.item] > 0
          /\ j.answer \in Statuses =>
                /\ j.item \in AppliedItems /\ kind[j.item] \in Controls
                /\ ~j.overtaken => j.answer = StatusOf(kind[j.item])

Inv == Types /\ ConfirmedIsDone /\ \A w \in Workers : JobOK(w)

-----------------------------------------------------------------------------
\* What the actions need of the types of one worker's job.
LEMMA JobTypes ==
    ASSUME TypeOK, NEW w \in Workers
    PROVE  /\ job[w] \in {Idle} \cup Jobs
           /\ job[w].step # "idle" => job[w] \in Jobs
           /\ job[w] \in Jobs => /\ job[w].item \in Items /\ job[w].answer \in Answers
                                 /\ job[w].step \in Steps /\ job[w].overtaken \in BOOLEAN
BY DEF TypeOK, Jobs, Idle

\* A new job, and a job that advances, are jobs.
LEMMA NewJobType ==
    \A i \in Items, s \in Steps, a \in Answers :
        /\ Job(i, s, a) \in Jobs
        /\ Job(i, s, a).step = s /\ Job(i, s, a).item = i /\ Job(i, s, a).answer = a
BY DEF Job, Jobs

\* Advancing a job changes its step and its answer, and no other job.
LEMMA AdvanceTypes ==
    ASSUME TypeOK, NEW w \in Workers, job[w] \in Jobs,
           NEW s \in Steps, NEW a \in Answers, Advance(w, s, a)
    PROVE  /\ job' \in [Workers -> {Idle} \cup Jobs]
           /\ job'[w] = [job[w] EXCEPT !.step = s, !.answer = a]
           /\ job'[w].step = s /\ job'[w].answer = a
           /\ job'[w].item = job[w].item /\ job'[w].overtaken = job[w].overtaken
           /\ \A v \in Workers : v # w => job'[v] = job[v]
<1>1. job \in [Workers -> {Idle} \cup Jobs]
  BY DEF TypeOK
<1>2. job'[w] = [job[w] EXCEPT !.step = s, !.answer = a]
      /\ \A v \in Workers : v # w => job'[v] = job[v]
  BY <1>1 DEF Advance
<1>3. [job[w] EXCEPT !.step = s, !.answer = a] \in Jobs
  BY DEF Jobs
<1>4. job' \in [Workers -> {Idle} \cup Jobs]
  BY <1>1, <1>3 DEF Advance
<1>5. job'[w].step = s /\ job'[w].answer = a
      /\ job'[w].item = job[w].item /\ job'[w].overtaken = job[w].overtaken
  BY <1>2 DEF Jobs
<1>. QED
  BY <1>2, <1>4, <1>5

\* What a control action makes of the row.
LEMMA ControlledRow ==
    ASSUME row \in Rows, NEW a \in Controls
    PROVE  /\ Controlled(a) \in Rows /\ Controlled(a).status = StatusOf(a)
           /\ StatusOf(a) \in Statuses
BY DEF Controlled, StatusOf, Controls, Rows, FinishRow, ControlRow, Statuses, ControlActions

-----------------------------------------------------------------------------
\* The types, where the workers' state is left alone: the link, Slack and the
\* process.
LEMMA LinkTypes ==
    ASSUME Types,
           \/ \E c \in Commands : Deliver(c)
           \/ AskDisconnect \/ Break
           \/ Connect \/ ConnectFails \/ Wake \/ ReadFails
           \/ Crash \/ Start \/ \E r \in Requests : HangUp(r)
    PROVE  Types'
<1>. USE SlackAssumption DEF Types, TypeOK
<1>1. ASSUME NEW c \in Commands, Deliver(c) PROVE Types'
  <2>1. inbox' \in Seq(Messages)
    BY <1>1 DEF Deliver, Messages
  <2>2. delivered' \in [Commands -> Nat] /\ again' \in 0..MaxAgain
    BY <1>1 DEF Deliver
  <2>. QED
    BY <1>1, <2>1, <2>2 DEF Deliver, store, process
<1>2. CASE AskDisconnect
  <2>1. inbox' \in Seq(Messages)
    BY <1>2 DEF AskDisconnect, Messages
  <2>. QED
    BY <1>2, <2>1 DEF AskDisconnect, store, process, slack
<1>3. CASE Break
  BY <1>3 DEF Break, store, process, slack
<1>4. CASE Connect
  <2>1. inbox' \in Seq(Messages)
    BY <1>4 DEF Connect, Messages
  <2>. QED
    BY <1>4, <2>1 DEF Connect, store, process, slack
<1>5. CASE ConnectFails
  BY <1>5 DEF ConnectFails, store, process, slack
<1>6. CASE Wake
  BY <1>6 DEF Wake, store, process, slack
<1>7. CASE ReadFails
  BY <1>7 DEF ReadFails, Reading, Return, store, process, slack
<1>8. CASE Crash
  <2>1. backoff' \in 1..(2 * MaxBackoff - 1)
    BY <1>8 DEF Crash
  <2>2. job' \in [Workers -> {Idle} \cup Jobs]
    BY <1>8 DEF Crash
  <2>3. caller' \in [Requests -> {"none", "waiting", "gone", "answered"}]
    BY <1>8 DEF Crash
  <2>. QED
    BY <1>8, <2>1, <2>2, <2>3 DEF Crash, store, slack
<1>9. CASE Start
  <2>1. boot' \in 1..MaxBoots
    BY <1>9 DEF Start
  <2>. QED
    BY <1>9, <2>1 DEF Start, store, slack
<1>10. ASSUME NEW r \in Requests, HangUp(r) PROVE Types'
  BY <1>10 DEF HangUp, socket, store, process, slack
<1>. QED
  BY <1>1, <1>2, <1>3, <1>4, <1>5, <1>6, <1>7, <1>8, <1>9, <1>10

-----------------------------------------------------------------------------
\* A step that executes nothing: a job it changes is right by itself, and what
\* users were told stays what it was.
LEMMA QuietInv ==
    ASSUME Inv, Types', UNCHANGED <<kind, row, recorded, applied, told, acked>>,
           \A w \in Workers : job'[w] = job[w] \/ JobOK(w)'
    PROVE  Inv'
<1>1. ConfirmedIsDone'
  BY DEF Inv, ConfirmedIsDone, AppliedItems
<1>2. ASSUME NEW w \in Workers, job'[w] = job[w] PROVE JobOK(w)'
  BY <1>2 DEF Inv, JobOK, AppliedItems
<1>. QED
  BY <1>1, <1>2 DEF Inv

\* Slack and the link never touch a job; a crash ends them all.
LEMMA LinkInv ==
    ASSUME Inv,
           \/ \E c \in Commands : Deliver(c)
           \/ AskDisconnect \/ Break
           \/ Connect \/ ConnectFails \/ Wake \/ ReadFails
           \/ Crash \/ Start \/ \E r \in Requests : HangUp(r)
    PROVE  Inv'
<1>1. Types'
  BY LinkTypes DEF Inv
<1>2. UNCHANGED <<kind, row, recorded, applied, told, acked>>
  BY DEF Deliver, AskDisconnect, Break, Connect, ConnectFails, Wake, ReadFails, Crash, Start,
         HangUp, socket, store, slack
<1>3. job' = job \/ job' = [w \in Workers |-> Idle]
  BY DEF Deliver, AskDisconnect, Break, Connect, ConnectFails, Wake, ReadFails, Crash, Start,
         HangUp
<1>4. ASSUME NEW w \in Workers, job' = [v \in Workers |-> Idle] PROVE JobOK(w)'
  BY <1>4 DEF JobOK, Idle
<1>. QED
  BY <1>1, <1>2, <1>3, <1>4, QuietInv

\* A new job, of a command that is to be executed or of an envelope that is
\* only acknowledged, has nothing to answer for.
LEMMA NewJobOK ==
    ASSUME NEW w \in Workers, kind' = kind,
           NEW i \in Items, IF w = "socket" THEN i \in Commands ELSE i = w,
           \/ job'[w] = Idle
           \/ job'[w] = Job(i, "dispatch", "none")
           \/ job'[w] = Job(i, "reply", "none") /\ kind[i] \notin Acting
    PROVE  JobOK(w)'
BY DEF JobOK, Idle, Job, Statuses

\* The loop takes the next message.
LEMMA ReceiveInv == ASSUME Inv, Receive PROVE Inv'
<1>. USE DEF Inv, Types, TypeOK
<1>1. inbox # <<>> /\ inbox \in Seq(Messages) /\ kind' = kind
  BY DEF Receive
<1>2. Head(inbox) \in Messages /\ Tail(inbox) \in Seq(Messages)
  BY <1>1
<1>3. UNCHANGED <<kind, row, recorded, posted, applied, delivered, again, told, acked, backoff, caller,
                  failures, boot>>
  BY DEF Receive, store, slack, process
<1>4. \/ job' = job
      \/ \E c \in Commands :
         \E j \in {Idle, Job(c, "reply", "none"), Job(c, "dispatch", "none")} :
            /\ job' = [job EXCEPT !["socket"] = j]
            /\ j = Job(c, "reply", "none") => kind[c] \notin Acting
  <2>1. CASE Head(inbox) = Disconnect
    BY <2>1 DEF Receive
  <2>2. CASE Head(inbox) # Disconnect /\ Head(inbox).type # "command"
    BY <2>2 DEF Receive, Handle
  <2>3. CASE Head(inbox) # Disconnect /\ Head(inbox).type = "command"
    <3>1. PICK c \in Commands : Head(inbox) = Envelope(c)
      BY <1>2, <2>3 DEF Messages, Hello, Disconnect
    <3>2. Head(inbox).command = c
      BY <3>1 DEF Envelope
    <3>3. job' = [job EXCEPT !["socket"] =
               CASE kind[c] = "garbled" -> Idle
                 [] kind[c] \in Silent  -> Job(c, "reply", "none")
                 [] OTHER               -> Job(c, "dispatch", "none")]
      BY <2>3, <3>2 DEF Receive, Handle
    <3>4. Job(c, "reply", "none") # Job(c, "dispatch", "none") /\ Job(c, "reply", "none") # Idle
      BY DEF Job, Idle
    <3>5. kind[c] \in Silent => kind[c] \notin Acting
      BY DEF Silent, Acting, Controls
    <3>. DEFINE j == CASE kind[c] = "garbled" -> Idle
                       [] kind[c] \in Silent  -> Job(c, "reply", "none")
                       [] OTHER               -> Job(c, "dispatch", "none")
    <3>6. "garbled" \notin Silent
      BY DEF Silent
    <3>7. j \in {Idle, Job(c, "reply", "none"), Job(c, "dispatch", "none")}
          /\ (j = Job(c, "reply", "none") => kind[c] \notin Acting)
      BY <3>4, <3>5, <3>6
    <3>8. job' = [job EXCEPT !["socket"] = j]
      BY <3>3
    <3>. HIDE DEF j
    <3>. QED
      BY <3>7, <3>8
  <2>. QED
    BY <2>1, <2>2, <2>3
<1>5. job' \in [Workers -> {Idle} \cup Jobs]
  <2>1. ASSUME NEW c \in Commands PROVE Job(c, "reply", "none") \in Jobs /\ Job(c, "dispatch", "none") \in Jobs
    BY NewJobType DEF Items, Steps, Answers
  <2>2. job \in [Workers -> {Idle} \cup Jobs]
    OBVIOUS
  <2>. HIDE DEF Inv, Types, TypeOK
  <2>. QED
    BY <1>4, <2>1, <2>2
<1>6. ASSUME NEW w \in Workers PROVE job'[w] = job[w] \/ JobOK(w)'
  <2>1. CASE job' = job
    BY <2>1
  <2>2. ASSUME NEW c \in Commands,
               NEW j \in {Idle, Job(c, "reply", "none"), Job(c, "dispatch", "none")},
               job' = [job EXCEPT !["socket"] = j],
               j = Job(c, "reply", "none") => kind[c] \notin Acting
        PROVE  job'[w] = job[w] \/ JobOK(w)'
    <3>1. job'[w] = job[w] \/ (job'[w] = j /\ w = "socket")
      BY <2>2
    <3>2. c \in Items
      BY DEF Items
    <3>. QED
      BY <1>1, <2>2, <3>1, <3>2, NewJobOK
  <2>. QED
    BY <1>4, <2>1, <2>2
<1>7. \/ UNCHANGED <<conn, link>> /\ inbox' = Tail(inbox)
      \/ conn' = "wait" /\ link' = "none" /\ inbox' = <<>>
  BY DEF Receive, Return
<1>8. Types'
  <2>1. inbox' \in Seq(Messages)
    <3>1. <<>> \in Seq(Messages)
      OBVIOUS
    <3>. HIDE DEF Inv, Types, TypeOK
    <3>. QED
      BY <1>2, <1>7, <3>1
  <2>2. conn' \in {"down", "dial", "open", "wait"} /\ link' \in {"none", "up", "broken"}
        /\ (conn' = "open" <=> link' # "none") /\ conn' # "down"
    BY <1>7 DEF Receive, Reading
  <2>. QED
    BY <1>3, <1>5, <2>1, <2>2
<1>. QED
  BY <1>3, <1>6, <1>8, QuietInv

\* A request comes in.
LEMMA RequestInv == ASSUME Inv, NEW r \in Requests, Request(r) PROVE Inv'
<1>. USE DEF Inv, Types, TypeOK
<1>1. UNCHANGED <<kind, conn, link, backoff, inbox, row, recorded, posted, applied,
                  delivered, again, told, acked, failures, boot>>
  BY DEF Request, socket, store, slack, process
<1>2. job' = [job EXCEPT ![r] = Job(r, "dispatch", "none")]
      /\ caller' = [caller EXCEPT ![r] = "waiting"]
  BY DEF Request
<1>3. r \in Items /\ r \in Workers
  BY DEF Items, Workers
<1>4. job' \in [Workers -> {Idle} \cup Jobs]
  BY <1>2, <1>3, NewJobType DEF Steps, Answers
<1>5. Types'
  BY <1>1, <1>2, <1>4
<1>6. ASSUME NEW w \in Workers PROVE job'[w] = job[w] \/ JobOK(w)'
  <2>1. job'[w] = job[w] \/ (job'[w] = Job(r, "dispatch", "none") /\ w = r)
    BY <1>2
  <2>2. r # "socket"
    BY SlackAssumption
  <2>. QED
    BY <1>1, <1>3, <2>1, <2>2, NewJobOK
<1>. QED
  BY <1>1, <1>5, <1>6, QuietInv

-----------------------------------------------------------------------------
\* An answer that nobody gets ends the job.
LEMMA AckFailsInv == ASSUME Inv, AckFails PROVE Inv'
<1>. USE DEF Inv, Types, TypeOK
<1>1. UNCHANGED <<kind, conn, backoff, caller, row, recorded, posted, applied,
                  delivered, again, told, acked, failures, boot>>
  BY DEF AckFails, store, slack, process
<1>2. job' = [job EXCEPT !["socket"] = Idle] /\ link # "none" /\ link' = "broken" /\ inbox' = <<>>
  BY DEF AckFails, Done
<1>3. job' \in [Workers -> {Idle} \cup Jobs]
  <2>1. job \in [Workers -> {Idle} \cup Jobs]
    OBVIOUS
  <2>. HIDE DEF Inv, Types, TypeOK
  <2>. QED
    BY <1>2, <2>1
<1>6. inbox' \in Seq(Messages)
  BY <1>2
<1>4. Types'
  BY <1>1, <1>2, <1>3, <1>6
<1>5. ASSUME NEW w \in Workers PROVE job'[w] = job[w] \/ JobOK(w)'
  BY <1>2 DEF JobOK, Idle
<1>. QED
  BY <1>1, <1>4, <1>5, QuietInv

\* Somebody is told the answer of a job, and the job is over.
LEMMA ToldInv ==
    ASSUME Inv, NEW w \in Workers, Types',
           job[w].step = "reply", Done(w),
           UNCHANGED <<kind, row, recorded, applied>>,
           told' = told \/ told' = [told EXCEPT ![job[w].item] = job[w].answer],
           acked' = acked \/ (/\ acked' = acked \cup {job[w].item}
                             /\ told' = [told EXCEPT ![job[w].item] = job[w].answer])
    PROVE  Inv'
<1>. USE DEF Inv, Types
<1>1. job[w] \in Jobs /\ job[w].item \in Items
  BY JobTypes
<1>2. ASSUME NEW v \in Workers PROVE JobOK(v)'
  <2>1. job'[v] = job[v] \/ job'[v] = Idle
    BY DEF Done, TypeOK
  <2>. QED
    BY <2>1 DEF JobOK, Idle, AppliedItems
<1>3. told \in [Items -> Answers]
  BY DEF TypeOK
<1>4. ASSUME NEW c \in acked', kind'[c] \in Acting PROVE told'[c] # "none"
  <2>1. CASE c = job[w].item /\ told'[c] = job[w].answer
    BY <1>4, <2>1 DEF JobOK
  <2>2. CASE c \in acked /\ told'[c] = told[c]
    BY <1>4, <2>2 DEF ConfirmedIsDone
  <2>3. c \in Items
    BY <1>1 DEF TypeOK, Items
  <2>. QED
    BY <1>1, <1>3, <2>1, <2>2, <2>3
<1>5. ASSUME NEW i \in Items
      PROVE  /\ told'[i] = "sent" => recorded'[i] > 0
             /\ told'[i] \in Statuses => i \in AppliedItems'
  <2>1. told'[i] = told[i] \/ (i = job[w].item /\ told'[i] = job[w].answer)
    BY <1>1, <1>3
  <2>2. CASE told'[i] = told[i]
    BY <2>2 DEF ConfirmedIsDone, AppliedItems
  <2>3. CASE i = job[w].item /\ told'[i] = job[w].answer
    BY <2>3 DEF JobOK, AppliedItems
  <2>. QED
    BY <2>1, <2>2, <2>3
<1>. QED
  BY <1>2, <1>4, <1>5 DEF ConfirmedIsDone

\* The acknowledgement carries the answer to Slack.
LEMMA AckInv == ASSUME Inv, Ack PROVE Inv'
<1>. USE DEF Inv, Types
<1>1. /\ job["socket"].step = "reply" /\ Done("socket")
      /\ acked' = acked \cup {job["socket"].item}
      /\ told' = [told EXCEPT ![job["socket"].item] = job["socket"].answer]
      /\ UNCHANGED <<kind, conn, link, backoff, inbox, caller, row, recorded, posted, applied,
                    delivered, again, failures, boot>>
  BY DEF Ack, Answering, socket, store, process
<1>2. "socket" \in Workers /\ job["socket"] \in Jobs
  BY <1>1, JobTypes DEF Workers
<1>3. Types'
  <2>1. job' \in [Workers -> {Idle} \cup Jobs]
    BY <1>1 DEF Done, TypeOK
  <2>2. told' \in [Items -> Answers]
    BY <1>1, <1>2, JobTypes DEF TypeOK
  <2>3. acked' \subseteq Commands
    BY <1>1, <1>2 DEF JobOK, TypeOK
  <2>. QED
    BY <1>1, <2>1, <2>2, <2>3 DEF TypeOK
<1>. QED
  BY <1>1, <1>2, <1>3, ToldInv

\* A request's caller gets the answer, if he waits for it.
LEMMA RespondInv == ASSUME Inv, NEW r \in Requests, Respond(r) PROVE Inv'
<1>. USE DEF Inv, Types
<1>1. /\ job[r].step = "reply" /\ Done(r)
      /\ UNCHANGED <<kind, conn, link, backoff, inbox, row, recorded, posted, applied,
                    delivered, again, acked, failures, boot>>
  BY DEF Respond, Answering, socket, store, process
<1>2. r \in Workers /\ job[r] \in Jobs /\ job[r].item = r
  <2>1. r \in Workers /\ r # "socket"
    BY SlackAssumption DEF Workers
  <2>. QED
    BY <1>1, <2>1, JobTypes DEF JobOK
<1>3. told' = told \/ told' = [told EXCEPT ![job[r].item] = job[r].answer]
  BY <1>2 DEF Respond
<1>4. Types'
  <2>1. job' \in [Workers -> {Idle} \cup Jobs]
    BY <1>1 DEF Done, TypeOK
  <2>2. told' \in [Items -> Answers]
    BY <1>2, <1>3, JobTypes DEF TypeOK
  <2>3. caller' \in [Requests -> {"none", "waiting", "gone", "answered"}]
    BY DEF Respond, TypeOK
  <2>. QED
    BY <1>1, <2>1, <2>2, <2>3 DEF TypeOK
<1>. QED
  BY <1>1, <1>2, <1>3, <1>4, ToldInv

-----------------------------------------------------------------------------
\* A worker advances without touching the row: the records grow at most, and
\* its own job is right by itself.
LEMMA AdvanceInv ==
    ASSUME Inv, NEW w \in Workers, job[w] \in Jobs,
           NEW s \in Steps, NEW a \in Answers, Advance(w, s, a),
           UNCHANGED <<kind, socket, caller, row, applied, slack, boot>>,
           recorded' \in [Items -> Nat], posted' \in [Items -> Nat], failures' \in 0..MaxFailures,
           \A i \in Items : recorded'[i] >= recorded[i],
           JobOK(w)'
    PROVE  Inv'
<1>. USE DEF Inv, Types
<1>1. UNCHANGED <<conn, link, backoff, inbox, delivered, again, acked, told>>
  BY DEF socket, slack
<1>2. Types'
  BY <1>1, AdvanceTypes DEF TypeOK
<1>3. ASSUME NEW v \in Workers, v # w PROVE JobOK(v)'
  <2>1. job'[v] = job[v]
    BY <1>3, AdvanceTypes
  <2>2. job[v].step # "idle" => job[v].item \in Items
    BY JobTypes
  <2>3. job[v].step # "idle" /\ recorded[job[v].item] > 0 => recorded'[job[v].item] > 0
    BY <2>2 DEF TypeOK
  <2>. QED
    BY <2>1, <2>2, <2>3 DEF JobOK, AppliedItems
<1>4. ConfirmedIsDone'
  <2>1. ASSUME NEW i \in Items, recorded[i] > 0 PROVE recorded'[i] > 0
    BY <2>1 DEF TypeOK
  <2>. QED
    BY <1>1, <2>1 DEF ConfirmedIsDone, AppliedItems
<1>. QED
  BY <1>2, <1>3, <1>4

\* What each step of a worker that leaves the row alone makes of its own job.
LEMMA FailsInv == ASSUME Inv, NEW w \in Workers, Fails(w) PROVE Inv'
<1>0. TypeOK /\ JobOK(w)
  BY DEF Inv, Types
<1>1. Advance(w, "reply", "error") /\ "reply" \in Steps /\ "error" \in Answers
      /\ UNCHANGED <<kind, socket, caller, row, recorded, posted, applied, slack, boot>>
  BY DEF Fails, store, Steps, Answers
<1>2. job[w] \in Jobs
  BY <1>0, JobTypes DEF Fails
<1>3. failures' \in 0..MaxFailures
  BY <1>0, SlackAssumption DEF Fails, TypeOK
<1>4. JobOK(w)'
  <2>1. job'[w].step = "reply" /\ job'[w].answer = "error" /\ job'[w].item = job[w].item
    <3>1. TypeOK /\ job[w] \in Jobs /\ "reply" \in Steps /\ "error" \in Answers
      BY <1>0, <1>1, <1>2
    <3>2. Advance(w, "reply", "error")
      BY <1>1
    <3>3. job'[w] = [job[w] EXCEPT !.step = "reply", !.answer = "error"]
      BY <3>1, <3>2, AdvanceTypes
    <3>. QED
      BY <3>1, <3>3 DEF Jobs
  <2>. QED
    BY <1>0, <2>1 DEF JobOK, Statuses, Fails
<1>9. recorded' \in [Items -> Nat] /\ posted' \in [Items -> Nat] /\ failures' \in 0..MaxFailures
      /\ \A i \in Items : recorded'[i] >= recorded[i]
  BY <1>0, <1>1, <1>3 DEF TypeOK
<1>. QED
  BY <1>1, <1>2, <1>4, <1>9, AdvanceInv

\* A query changes nothing but its own job.
LEMMA QueryInv == ASSUME Inv, NEW w \in Workers, Query(w) PROVE Inv'
<1>0. TypeOK /\ JobOK(w)
  BY DEF Inv, Types
<1>1. Advance(w, "reply", "text") /\ "reply" \in Steps /\ "text" \in Answers
      /\ UNCHANGED <<kind, socket, caller, row, recorded, posted, applied, slack, boot, failures>>
      /\ recorded' = recorded /\ posted' = posted
  BY DEF Query, store, process, Steps, Answers
<1>2. job[w] \in Jobs
  BY <1>0, JobTypes DEF Query
<1>3. JobOK(w)'
  <2>1. job'[w].step = "reply" /\ job'[w].answer = "text" /\ job'[w].item = job[w].item
    <3>1. TypeOK /\ job[w] \in Jobs /\ "reply" \in Steps /\ "text" \in Answers
      BY <1>0, <1>1, <1>2
    <3>2. Advance(w, "reply", "text")
      BY <1>1
    <3>3. job'[w] = [job[w] EXCEPT !.step = "reply", !.answer = "text"]
      BY <3>1, <3>2, AdvanceTypes
    <3>. QED
      BY <3>1, <3>3 DEF Jobs
  <2>. QED
    BY <1>0, <2>1 DEF JobOK, Statuses, Query
<1>9. recorded' \in [Items -> Nat] /\ posted' \in [Items -> Nat] /\ failures' \in 0..MaxFailures
      /\ \A i \in Items : recorded'[i] >= recorded[i]
  BY <1>0, <1>1 DEF TypeOK
<1>. QED
  BY <1>1, <1>2, <1>3, <1>9, AdvanceInv

\* The record is there before the post is tried.
LEMMA RecordInv == ASSUME Inv, NEW w \in Workers, Record(w) PROVE Inv'
<1>0. TypeOK /\ JobOK(w)
  BY DEF Inv, Types
<1>1. Advance(w, "post", "none") /\ "post" \in Steps /\ "none" \in Answers
      /\ UNCHANGED <<kind, socket, caller, row, posted, applied, slack, boot, failures>>
      /\ recorded' = [recorded EXCEPT ![job[w].item] = @ + 1]
  BY DEF Record, process, Steps, Answers
<1>2. job[w] \in Jobs /\ job[w].item \in Items
  BY <1>0, JobTypes DEF Record
<1>3. recorded' \in [Items -> Nat] /\ (\A i \in Items : recorded'[i] >= recorded[i])
      /\ recorded'[job[w].item] > 0
  BY <1>0, <1>1, <1>2 DEF TypeOK
<1>4. JobOK(w)'
  <2>1. job'[w].step = "post" /\ job'[w].item = job[w].item
    BY <1>0, <1>1, <1>2, AdvanceTypes
  <2>. QED
    BY <1>0, <2>1, <1>2, <1>3 DEF JobOK, Record
<1>9. recorded' \in [Items -> Nat] /\ posted' \in [Items -> Nat] /\ failures' \in 0..MaxFailures
      /\ \A i \in Items : recorded'[i] >= recorded[i]
  BY <1>0, <1>1, <1>3 DEF TypeOK
<1>. QED
  BY <1>1, <1>2, <1>4, <1>9, AdvanceInv

\* Posting follows a record, and does not depend on its outcome.
LEMMA PostInv == ASSUME Inv, NEW w \in Workers, Post(w) \/ PostFails(w) PROVE Inv'
<1>0. TypeOK /\ JobOK(w)
  BY DEF Inv, Types
<1>1. Advance(w, "reply", "sent") /\ "reply" \in Steps /\ "sent" \in Answers
      /\ UNCHANGED <<kind, socket, caller, row, recorded, applied, slack, boot, failures>>
      /\ job[w].step = "post"
  BY DEF Post, PostFails, store, process, Steps, Answers
<1>2. job[w] \in Jobs /\ job[w].item \in Items
  BY <1>0, <1>1, JobTypes
<1>3. posted' \in [Items -> Nat]
  <2>1. posted' = posted \/ posted' = [posted EXCEPT ![job[w].item] = @ + 1]
    BY DEF Post, PostFails, store
  <2>. QED
    <3>1. posted \in [Items -> Nat]
      BY <1>0 DEF TypeOK
    <3>. QED
      BY <1>2, <2>1, <3>1
<1>4. JobOK(w)'
  <2>1. job'[w].step = "reply" /\ job'[w].answer = "sent" /\ job'[w].item = job[w].item
    BY <1>0, <1>1, <1>2, AdvanceTypes
  <2>. QED
    BY <1>0, <2>1, <1>1 DEF JobOK, Statuses
<1>9. recorded' \in [Items -> Nat] /\ posted' \in [Items -> Nat] /\ failures' \in 0..MaxFailures
      /\ \A i \in Items : recorded'[i] >= recorded[i]
  BY <1>0, <1>1, <1>3 DEF TypeOK
<1>. QED
  BY <1>1, <1>2, <1>4, <1>9, AdvanceInv

\* The row that is read back is the action's own, or the job is overtaken.
LEMMA ReadBackInv == ASSUME Inv, NEW w \in Workers, ReadBack(w) PROVE Inv'
<1>0. TypeOK /\ JobOK(w)
  BY DEF Inv, Types
<1>1. row.status \in Statuses /\ row.status \in Answers
  BY <1>0 DEF TypeOK, Rows, Answers
<1>2. Advance(w, "reply", row.status) /\ "reply" \in Steps
      /\ UNCHANGED <<kind, socket, caller, row, recorded, posted, applied, slack, boot, failures>>
      /\ job[w].step = "readback"
  BY DEF ReadBack, store, process, Steps
<1>3. job[w] \in Jobs
  BY <1>0, <1>2, JobTypes
<1>4. JobOK(w)'
  <2>1. job'[w].step = "reply" /\ job'[w].answer = row.status /\ job'[w].item = job[w].item
        /\ job'[w].overtaken = job[w].overtaken
    BY <1>0, <1>1, <1>2, <1>3, AdvanceTypes
  <2>2. row.status # "none" /\ row.status # "sent"
    BY <1>1 DEF Statuses
  <2>. QED
    BY <1>0, <2>1, <2>2, <1>2 DEF JobOK, AppliedItems
<1>9. recorded' \in [Items -> Nat] /\ posted' \in [Items -> Nat] /\ failures' \in 0..MaxFailures
      /\ \A i \in Items : recorded'[i] >= recorded[i]
  BY <1>0, <1>2 DEF TypeOK
<1>. QED
  BY <1>1, <1>2, <1>3, <1>4, <1>9, AdvanceInv

\* A commit overtakes whoever has committed and not read back.
LEMMA CommitInv == ASSUME Inv, NEW w \in Workers, Commit(w) PROVE Inv'
<1>. USE DEF Inv, Types
<1>1. /\ job[w].step = "dispatch" /\ Kind(w) \in Controls
      /\ row' = Controlled(Kind(w)) /\ applied' = Append(applied, job[w].item)
      /\ UNCHANGED <<kind, conn, link, backoff, inbox, caller, recorded, posted,
                    delivered, again, acked, told, failures, boot>>
  BY DEF Commit, socket, slack, process
<1>2. job[w] \in Jobs /\ job[w].item \in Items
  BY <1>1, JobTypes
<1>3. /\ job'[w] = [job[w] EXCEPT !.step = "readback"]
      /\ \A v \in Workers : v # w => job'[v] =
             IF job[v].step = "readback" THEN [job[v] EXCEPT !.overtaken = TRUE] ELSE job[v]
  BY DEF Commit
<1>4. row' \in Rows /\ row'.status = StatusOf(Kind(w))
  BY <1>1, ControlledRow DEF TypeOK
<1>5. applied' \in Seq(Items) /\ AppliedItems' = AppliedItems \cup {job[w].item}
  <2>1. applied \in Seq(Items)
    BY DEF TypeOK
  <2>2. applied' \in Seq(Items) /\ Len(applied') = Len(applied) + 1 /\ Len(applied) \in Nat
        /\ applied'[Len(applied) + 1] = job[w].item
        /\ \A k \in 1..Len(applied) : applied'[k] = applied[k]
    BY <1>1, <1>2, <2>1
  <2>3. DOMAIN applied = 1..Len(applied) /\ DOMAIN applied' = 1..(Len(applied) + 1)
    BY <2>1, <2>2
  <2>. QED
    BY <2>2, <2>3 DEF AppliedItems
<1>6. ASSUME NEW v \in Workers
      PROVE  job'[v] \in {Idle} \cup Jobs /\ JobOK(v)'
  <2>1. CASE v = w
    <3>1. job'[w] \in Jobs /\ job'[w].step = "readback" /\ job'[w].item = job[w].item
      BY <1>2, <1>3 DEF Jobs, Steps
    <3>. QED
      BY <2>1, <3>1, <1>1, <1>4, <1>5 DEF JobOK, Kind
  <2>2. CASE v # w /\ job[v].step = "readback"
    <3>1. job[v] \in Jobs
      BY <2>2, JobTypes
    <3>2. job'[v] \in Jobs /\ job'[v].step = "readback" /\ job'[v].item = job[v].item
          /\ job'[v].overtaken
      BY <1>3, <2>2, <3>1 DEF Jobs
    <3>. QED
      BY <2>2, <3>2, <1>1, <1>5 DEF JobOK
  <2>3. CASE v # w /\ job[v].step # "readback"
    <3>1. job'[v] = job[v]
      BY <1>3, <2>3
    <3>. QED
      BY <2>3, <3>1, <1>1, <1>5, JobTypes DEF JobOK
  <2>. QED
    BY <2>1, <2>2, <2>3
<1>7. job' \in [Workers -> {Idle} \cup Jobs]
  <2>1. \E f : job' = [v \in Workers |-> f[v]]
    BY DEF Commit
  <2>. QED
    BY <1>6, <2>1
<1>8. Types'
  BY <1>1, <1>4, <1>5, <1>7 DEF TypeOK
<1>9. ConfirmedIsDone'
  BY <1>1, <1>5 DEF ConfirmedIsDone
<1>. QED
  BY <1>6, <1>8, <1>9

-----------------------------------------------------------------------------
\* Before the first command nothing is told, posted or applied.
LEMMA InitInv == Init => Inv
<1>. SUFFICES ASSUME Init PROVE Inv
  OBVIOUS
<1>. USE SlackAssumption DEF Init
<1>1. kind \in [Items -> Kinds]
  OBVIOUS
<1>2. row \in Rows
  BY DEF NewRow, Rows, Statuses, ControlActions, Data
<1>3. job \in [Workers -> {Idle} \cup Jobs] /\ told \in [Items -> Answers]
  BY DEF Answers
<1>4. inbox \in Seq(Messages) /\ applied \in Seq(Items)
  OBVIOUS
<1>5. backoff \in 1..(2 * MaxBackoff - 1) /\ failures \in 0..MaxFailures /\ boot \in 1..MaxBoots
      /\ again \in 0..MaxAgain
  OBVIOUS
<1>6. TypeOK
  BY <1>1, <1>2, <1>3, <1>4, <1>5 DEF TypeOK
<1>7. ASSUME NEW w \in Workers PROVE JobOK(w)
  BY DEF JobOK, Idle
<1>8. ConfirmedIsDone
  BY DEF ConfirmedIsDone, Statuses
<1>. QED
  BY <1>6, <1>7, <1>8 DEF Inv, Types

\* Every step preserves the invariant.
LEMMA NextInv == Inv /\ [Next]_vars => Inv'
<1>. SUFFICES ASSUME Inv, [Next]_vars PROVE Inv'
  OBVIOUS
<1>1. CASE Next
  BY <1>1, LinkInv, ReceiveInv, AckInv, AckFailsInv, RequestInv, RespondInv, FailsInv, QueryInv,
     RecordInv, PostInv, CommitInv, ReadBackInv DEF Next, Work
<1>2. CASE UNCHANGED vars
  <2>1. UNCHANGED <<kind, row, recorded, applied, told, acked, job>>
    BY <1>2 DEF vars, store, slack
  <2>2. Types'
    BY <1>2 DEF Inv, Types, TypeOK, vars, socket, store, slack, process
  <2>. QED
    BY <2>1, <2>2, QuietInv
<1>. QED
  BY <1>1, <1>2

\* The invariant holds in every behaviour.
LEMMA Invariance == Spec => []Inv
BY InitInv, NextInv, PTL DEF Spec

\* The types hold; the backoff never reaches twice its limit.
THEOREM TypeCorrect == Spec => []TypeOK
<1>1. Inv => TypeOK
  BY DEF Inv, Types
<1>. QED
  BY <1>1, Invariance, PTL

\* No answer runs ahead of the database, however connections, callers, statements
\* and the server fail.
THEOREM ToldIsTrue == Spec => []ConfirmedIsDone
<1>1. Inv => ConfirmedIsDone
  BY DEF Inv
<1>. QED
  BY <1>1, Invariance, PTL

\* An answer shows its own action's status unless another action was committed
\* between the commit and the read.
THEOREM AnswerIsOwn == Spec => []AnswerIsOwnUnlessOvertaken
<1>1. ASSUME Inv, NEW w \in Workers,
             job[w].step = "reply", job[w].answer \in Statuses, ~job[w].overtaken
      PROVE  job[w].answer = Controlled(Kind(w)).status
  <2>1. Kind(w) \in Controls /\ job[w].answer = StatusOf(Kind(w))
    BY <1>1 DEF Inv, JobOK, Kind
  <2>2. row \in Rows
    BY <1>1 DEF Inv, Types, TypeOK
  <2>. QED
    BY <2>1, <2>2, ControlledRow
<1>2. Inv => AnswerIsOwnUnlessOvertaken
  BY <1>1 DEF AnswerIsOwnUnlessOvertaken
<1>. QED
  BY <1>2, Invariance, PTL

-----------------------------------------------------------------------------
(***************************************************************************)
(* What was executed, and in which order.  A command's executions are paid *)
(* for by its deliveries: one delivery is a record already, or in hand, or *)
(* a message still waiting (Paid).  A command delivered once is at one     *)
(* place only on its way through the inbox, the socket's job and the row,  *)
(* and whatever is further along was asked for before it (QueueOrder).     *)
(***************************************************************************)

\* The socket has read the command and not executed it; where it waits.
InHand(c)  == job["socket"].step = "dispatch" /\ job["socket"].item = c
Waiting(c) == {k \in DOMAIN inbox : inbox[k] = Envelope(c)}
Owed(c)    == Cardinality(Waiting(c)) + (IF InHand(c) THEN 1 ELSE 0)

Paid == \A c \in Commands : recorded[c] + Owed(c) <= delivered[c]

\* A request is executed once.
Once ==
    \A r \in Requests :
        /\ caller[r] = "none" => job[r] = Idle /\ recorded[r] = 0
        /\ job[r].step = "dispatch" => recorded[r] = 0
        /\ recorded[r] <= 1

\* A record precedes every post, and the post about to be made has its own.
RecordFirst ==
    /\ \A i \in Items : posted[i] <= recorded[i]
    /\ \A w \in Workers : job[w].step = "post" => posted[job[w].item] < recorded[job[w].item]

Executed == Paid /\ Once /\ RecordFirst

\* Slack begins the commands in order; nothing is anywhere that it did not send.
Begun == \A a, b \in Commands : a <= b /\ delivered[b] > 0 => delivered[a] > 0
Sent  == \A c \in Commands : c \in AppliedItems \/ InHand(c) \/ Waiting(c) # {} => delivered[c] > 0

QueueOrder ==
    \A a, c \in Commands : delivered[c] = 1 =>
        /\ a \in AppliedItems /\ InHand(c) => a < c
        /\ a \in AppliedItems /\ Waiting(c) # {} => a < c
        /\ InHand(a) /\ Waiting(c) # {} => a < c
        /\ \A k \in Waiting(a), l \in Waiting(c) : k < l => a < c

Order == Begun /\ Sent /\ QueueOrder /\ CommandsInOrder
Flow  == Executed /\ Order

\* Envelopes of different commands differ, and differ from the other messages.
LEMMA Envelopes ==
    ASSUME NEW a, NEW c
    PROVE  /\ Envelope(a) = Envelope(c) <=> a = c
           /\ Envelope(c) # Hello /\ Envelope(c) # Disconnect
           /\ Envelope(c).type = "command" /\ Envelope(c).command = c
<1>1. Envelope(a).command = a /\ Envelope(c).command = c /\ Envelope(c).type = "command"
  BY DEF Envelope
<1>2. Hello.type = "hello" /\ Disconnect.type = "disconnect"
  BY DEF Hello, Disconnect
<1>. QED
  BY <1>1, <1>2

\* The places where a command waits can be counted.
LEMMA WaitingFinite ==
    ASSUME inbox \in Seq(Messages), NEW c
    PROVE  IsFiniteSet(Waiting(c)) /\ Cardinality(Waiting(c)) \in Nat
<1>1. Len(inbox) \in Nat /\ DOMAIN inbox = 1..Len(inbox)
  OBVIOUS
<1>2. IsFiniteSet(1..Len(inbox))
  BY <1>1, FS_Interval
<1>3. Waiting(c) \in SUBSET (1..Len(inbox))
  BY <1>1 DEF Waiting
<1>4. IsFiniteSet(Waiting(c))
  BY <1>2, <1>3, FS_Subset
<1>. QED
  BY <1>4, FS_CardinalityType

\* A message that arrives waits behind all others.
LEMMA AppendWaiting ==
    ASSUME inbox \in Seq(Messages), NEW m \in Messages, inbox' = Append(inbox, m), NEW c
    PROVE  /\ m # Envelope(c) => Waiting(c)' = Waiting(c)
           /\ m = Envelope(c) =>
                 /\ Waiting(c)' = Waiting(c) \cup {Len(inbox) + 1}
                 /\ Cardinality(Waiting(c)') = Cardinality(Waiting(c)) + 1
           /\ \A k \in Waiting(c) : k \in Nat /\ k < Len(inbox) + 1
<1>1. Len(inbox) \in Nat /\ DOMAIN inbox = 1..Len(inbox)
      /\ inbox' \in Seq(Messages) /\ DOMAIN inbox' = 1..(Len(inbox) + 1)
  OBVIOUS
<1>2. inbox'[Len(inbox) + 1] = m /\ \A k \in 1..Len(inbox) : inbox'[k] = inbox[k]
  OBVIOUS
<1>3. m # Envelope(c) => Waiting(c)' = Waiting(c)
  BY <1>1, <1>2 DEF Waiting, Envelope
<1>4. m = Envelope(c) => Waiting(c)' = Waiting(c) \cup {Len(inbox) + 1}
  BY <1>1, <1>2 DEF Waiting, Envelope
<1>5. \A k \in Waiting(c) : k \in Nat /\ k < Len(inbox) + 1
  BY <1>1 DEF Waiting
<1>6. Len(inbox) + 1 \notin Waiting(c)
  BY <1>1, <1>5
<1>. QED
  BY <1>3, <1>4, <1>5, <1>6, WaitingFinite, FS_AddElement

\* When the first message is read, the others move up.
LEMMA TailWaiting ==
    ASSUME inbox \in Seq(Messages), inbox # <<>>, inbox' = Tail(inbox), NEW c
    PROVE  /\ \A k \in Waiting(c)' : k \in Nat /\ k + 1 \in Waiting(c) /\ 1 < k + 1
           /\ Head(inbox) = Envelope(c) =>
                 /\ 1 \in Waiting(c)
                 /\ Cardinality(Waiting(c)') + 1 = Cardinality(Waiting(c))
           /\ Head(inbox) # Envelope(c) => Cardinality(Waiting(c)') = Cardinality(Waiting(c))
<1>1. /\ Len(inbox) \in Nat /\ Len(inbox) >= 1 /\ DOMAIN inbox = 1..Len(inbox)
      /\ inbox' \in Seq(Messages) /\ DOMAIN inbox' = 1..(Len(inbox) - 1)
  OBVIOUS
<1>2. Head(inbox) = inbox[1] /\ \A k \in 1..(Len(inbox) - 1) : inbox'[k] = inbox[k + 1]
  OBVIOUS
<1>. DEFINE Rest == Waiting(c) \ {1}
            up   == [k \in Waiting(c)' |-> k + 1]
<1>3. ASSUME NEW k \in Waiting(c)' PROVE k \in Nat /\ k + 1 \in Waiting(c) /\ 1 < k + 1
  <2>1. k \in 1..(Len(inbox) - 1) /\ inbox'[k] = Envelope(c)
    BY <1>1 DEF Waiting, Envelope
  <2>. QED
    BY <1>1, <1>2, <2>1 DEF Waiting
<1>4. ASSUME NEW l \in Rest PROVE l - 1 \in Waiting(c)' /\ l \in Nat
  <2>1. l \in 2..Len(inbox) /\ inbox[l] = Envelope(c)
    BY <1>1 DEF Waiting
  <2>2. l - 1 \in 1..(Len(inbox) - 1) /\ inbox'[l - 1] = inbox[l]
    BY <1>1, <1>2, <2>1
  <2>. QED
    BY <1>1, <2>1, <2>2 DEF Waiting, Envelope
<1>5. up \in [Waiting(c)' -> Rest]
  BY <1>3
<1>6. \A k, l \in Waiting(c)' : up[k] = up[l] => k = l
  BY <1>3
<1>7. \A l \in Rest : \E k \in Waiting(c)' : up[k] = l
  <2>. SUFFICES ASSUME NEW l \in Rest PROVE \E k \in Waiting(c)' : up[k] = l
    OBVIOUS
  <2>. HIDE DEF Rest
  <2>. QED
    BY <1>4
<1>8. up \in Bijection(Waiting(c)', Rest)
  <2>. HIDE DEF up, Rest
  <2>. QED
    BY <1>5, <1>6, <1>7 DEF Bijection, Injection, Surjection, IsInjective
<1>9. IsFiniteSet(Waiting(c)') /\ Cardinality(Rest) = Cardinality(Waiting(c)')
  <2>1. IsFiniteSet(Waiting(c)')
    <3>1. Waiting(c)' \in SUBSET (1..(Len(inbox) - 1))
      BY <1>1 DEF Waiting
    <3>2. IsFiniteSet(1..(Len(inbox) - 1))
      BY <1>1, FS_Interval
    <3>. QED
      BY <3>1, <3>2, FS_Subset
  <2>2. ExistsBijection(Waiting(c)', Rest)
    BY <1>8 DEF ExistsBijection
  <2>. HIDE DEF Rest
  <2>. QED
    BY <2>1, <2>2, FS_Bijection
<1>10. IsFiniteSet(Waiting(c)) /\ Cardinality(Waiting(c)) \in Nat
  BY WaitingFinite
<1>11. 1 \in Waiting(c) <=> Head(inbox) = Envelope(c)
  BY <1>1, <1>2 DEF Waiting
<1>12. Cardinality(Rest) = IF 1 \in Waiting(c) THEN Cardinality(Waiting(c)) - 1 ELSE Cardinality(Waiting(c))
  BY <1>10, FS_RemoveElement
<1>. QED
  BY <1>3, <1>9, <1>10, <1>11, <1>12

\* Fewer places to wait are fewer envelopes.
LEMMA FewerWaiting ==
    ASSUME inbox \in Seq(Messages), NEW c, Waiting(c)' \subseteq Waiting(c)
    PROVE  Cardinality(Waiting(c)') \in Nat /\ Cardinality(Waiting(c)') <= Cardinality(Waiting(c))
<1>1. IsFiniteSet(Waiting(c)) /\ Waiting(c)' \in SUBSET Waiting(c)
  BY WaitingFinite
<1>2. IsFiniteSet(Waiting(c)') /\ Cardinality(Waiting(c)') <= Cardinality(Waiting(c))
  BY <1>1, FS_Subset
<1>. QED
  BY <1>2, FS_CardinalityType

\* Two workers never have the same item in hand.
LEMMA ItemsApart ==
    ASSUME Inv, NEW v \in Workers, NEW w \in Workers, v # w,
           job[v].step # "idle", job[w].step # "idle"
    PROVE  job[v].item # job[w].item
BY SlackAssumption DEF Inv, JobOK, Workers

-----------------------------------------------------------------------------
\* A step that records nothing and takes nothing up may lose what waits, and
\* end what is in hand.
LEMMA PaidKept ==
    ASSUME Inv, Paid, UNCHANGED <<recorded, delivered>>,
           \A c \in Commands : Waiting(c)' \subseteq Waiting(c) /\ (InHand(c)' => InHand(c))
    PROVE  Paid'
<1>1. inbox \in Seq(Messages) /\ recorded \in [Items -> Nat] /\ delivered \in [Commands -> Nat]
      /\ Commands \subseteq Items
  BY DEF Inv, Types, TypeOK, Items
<1>2. ASSUME NEW c \in Commands PROVE recorded'[c] + Owed(c)' <= delivered'[c]
  <2>1. recorded[c] \in Nat /\ delivered[c] \in Nat /\ recorded'[c] = recorded[c]
        /\ delivered'[c] = delivered[c]
    BY <1>1
  <2>2. Cardinality(Waiting(c)') \in Nat /\ Cardinality(Waiting(c)) \in Nat
        /\ Cardinality(Waiting(c)') <= Cardinality(Waiting(c))
    BY <1>1, FewerWaiting, WaitingFinite
  <2>3. InHand(c)' => InHand(c)
    OBVIOUS
  <2>4. recorded[c] + Owed(c) <= delivered[c]
    BY DEF Paid
  <2>. QED
    BY <2>1, <2>2, <2>3, <2>4 DEF Owed
<1>. QED
  BY <1>2 DEF Paid

\* A step that neither records nor posts may end posts.
LEMMA RecordFirstKept ==
    ASSUME RecordFirst, UNCHANGED <<recorded, posted>>,
           \A w \in Workers : job'[w].step = "post" => job'[w] = job[w]
    PROVE  RecordFirst'
BY DEF RecordFirst

\* A step that delivers, takes up and applies nothing keeps the order.
LEMMA OrderKept ==
    ASSUME Order, UNCHANGED <<applied, delivered>>,
           \A c \in Commands : Waiting(c)' \subseteq Waiting(c) /\ (InHand(c)' => InHand(c))
    PROVE  Order'
<1>1. AppliedItems' = AppliedItems /\ CommandsInOrder' /\ Begun'
  BY DEF AppliedItems, Order, CommandsInOrder, Begun
<1>2. Sent'
  BY <1>1 DEF Order, Sent
<1>3. ASSUME NEW a \in Commands, NEW c \in Commands, delivered'[c] = 1
      PROVE  /\ a \in AppliedItems' /\ InHand(c)' => a < c
             /\ a \in AppliedItems' /\ Waiting(c)' # {} => a < c
             /\ InHand(a)' /\ Waiting(c)' # {} => a < c
             /\ \A k \in Waiting(a)', l \in Waiting(c)' : k < l => a < c
  <2>1. delivered[c] = 1 /\ Waiting(c)' \subseteq Waiting(c) /\ Waiting(a)' \subseteq Waiting(a)
        /\ (InHand(c)' => InHand(c)) /\ (InHand(a)' => InHand(a))
    BY <1>3
  <2>. QED
    BY <1>1, <2>1 DEF Order, QueueOrder
<1>4. QueueOrder'
  BY <1>3 DEF QueueOrder
<1>. QED
  BY <1>1, <1>2, <1>4 DEF Order

\* Slack sends a command: behind everything else if it is its first delivery.
LEMMA DeliverFlow ==
    ASSUME Inv, Paid, RecordFirst, Order, NEW d \in Commands, Deliver(d)
    PROVE  Paid' /\ RecordFirst' /\ Order'
<1>1. inbox \in Seq(Messages) /\ recorded \in [Items -> Nat] /\ delivered \in [Commands -> Nat]
      /\ Commands \subseteq Items /\ Envelope(d) \in Messages /\ Len(inbox) \in Nat
  BY DEF Inv, Types, TypeOK, Items, Messages
<1>2. /\ UNCHANGED <<job, recorded, posted, applied>>
      /\ inbox' = Append(inbox, Envelope(d))
      /\ delivered' = [delivered EXCEPT ![d] = @ + 1]
      /\ d > 1 => delivered[d - 1] > 0
  BY DEF Deliver, store
<1>3. /\ \A c \in Commands : InHand(c)' <=> InHand(c)
      /\ AppliedItems' = AppliedItems
  BY <1>2 DEF InHand, AppliedItems
<1>4. /\ delivered'[d] = delivered[d] + 1 /\ delivered[d] \in Nat
      /\ \A c \in Commands : c # d => delivered'[c] = delivered[c]
  BY <1>1, <1>2
<1>5. /\ \A c \in Commands : c # d => Waiting(c)' = Waiting(c)
      /\ Waiting(d)' = Waiting(d) \cup {Len(inbox) + 1}
      /\ Cardinality(Waiting(d)') = Cardinality(Waiting(d)) + 1
      /\ \A c \in Commands : \A k \in Waiting(c) : k \in Nat /\ k < Len(inbox) + 1
  BY <1>1, <1>2, AppendWaiting, Envelopes
<1>6. ASSUME NEW c \in Commands PROVE recorded'[c] + Owed(c)' <= delivered'[c]
  <2>1. recorded[c] \in Nat /\ delivered[c] \in Nat /\ recorded'[c] = recorded[c]
    BY <1>1, <1>2
  <2>2. Cardinality(Waiting(c)) \in Nat
    BY <1>1, WaitingFinite
  <2>3. recorded[c] + Owed(c) <= delivered[c]
    BY DEF Paid
  <2>4. CASE c = d
    <3>1. Owed(d)' = Owed(d) + 1 /\ Owed(d) \in Nat
      BY <1>3, <1>5, <2>2, <2>4 DEF Owed
    <3>. QED
      BY <1>4, <2>1, <2>3, <2>4, <3>1
  <2>5. CASE c # d
    <3>1. Owed(c)' = Owed(c)
      BY <1>3, <1>5, <2>5 DEF Owed
    <3>. QED
      BY <1>4, <2>1, <2>3, <2>5, <3>1
  <2>. QED
    BY <2>4, <2>5
<1>7. Paid'
  BY <1>6 DEF Paid
<1>8. RecordFirst'
  BY <1>2 DEF RecordFirst
<1>9. Begun'
  <2>. SUFFICES ASSUME NEW a \in Commands, NEW b \in Commands, a <= b, delivered'[b] > 0
                PROVE  delivered'[a] > 0
    BY DEF Begun
  <2>0. a \in Nat /\ b \in Nat /\ a >= 1 /\ LastCommand \in Nat /\ b <= LastCommand
    BY SlackAssumption DEF Commands
  <2>1. delivered[a] \in Nat /\ delivered[b] \in Nat
    BY <1>1
  <2>2. CASE delivered[b] > 0
    <3>1. delivered[a] > 0
      BY <2>2 DEF Order, Begun
    <3>. QED
      BY <1>4, <2>1, <3>1
  <2>3. CASE a = d
    BY <1>4, <2>3
  <2>4. CASE b = d /\ a # d
    <3>1. b - 1 \in Commands /\ a <= b - 1 /\ b > 1
      BY <2>0, <2>4 DEF Commands
    <3>2. delivered[a] > 0
      BY <1>2, <2>4, <3>1 DEF Order, Begun
    <3>. QED
      BY <1>4, <2>4, <3>2
  <2>. QED
    BY <1>4, <2>1, <2>2, <2>3, <2>4
<1>10. Sent'
  BY <1>1, <1>3, <1>4, <1>5 DEF Order, Sent
\* What was sent before a first delivery was asked for before it.
<1>11. ASSUME delivered[d] = 0, NEW a \in Commands,
              a \in AppliedItems \/ InHand(a) \/ Waiting(a) # {}
       PROVE  a < d
  <2>1. delivered[a] > 0
    BY <1>11 DEF Order, Sent
  <2>2. ~(d <= a)
    BY <1>11, <2>1 DEF Order, Begun
  <2>. QED
    BY <2>2, SlackAssumption DEF Commands
<1>12. ASSUME NEW a \in Commands, NEW c \in Commands, delivered'[c] = 1
       PROVE  /\ a \in AppliedItems' /\ InHand(c)' => a < c
              /\ a \in AppliedItems' /\ Waiting(c)' # {} => a < c
              /\ InHand(a)' /\ Waiting(c)' # {} => a < c
              /\ \A k \in Waiting(a)', l \in Waiting(c)' : k < l => a < c
  <2>1. CASE c = d
    <3>1. delivered[d] = 0
      BY <1>4, <1>12, <2>1
    <3>2. ~InHand(d) /\ Waiting(d) = {}
      BY <3>1, <1>4 DEF Order, Sent
    <3>3. ASSUME NEW k \in Waiting(a)', NEW l \in Waiting(c)', k < l PROVE a < c
      <4>1. l = Len(inbox) + 1
        BY <1>5, <2>1, <3>2
      <4>2. k \in Waiting(a)
        BY <1>1, <1>5, <3>2, <3>3, <4>1
      <4>. QED
        BY <1>11, <2>1, <3>1, <4>2
    <3>. QED
      BY <1>3, <1>11, <2>1, <3>1, <3>2, <3>3
  <2>2. CASE c # d
    <3>1. delivered[c] = 1 /\ Waiting(c)' = Waiting(c)
      BY <1>4, <1>5, <1>12, <2>2
    <3>2. ASSUME NEW k \in Waiting(a)', NEW l \in Waiting(c)', k < l PROVE a < c
      <4>1. l \in Waiting(c) /\ l \in Nat /\ l < Len(inbox) + 1
        BY <1>5, <3>1
      <4>2. k \in Waiting(a)
        BY <1>1, <1>5, <3>2, <4>1
      <4>. QED
        BY <3>1, <3>2, <4>1, <4>2 DEF Order, QueueOrder
    <3>. QED
      BY <1>3, <3>1, <3>2 DEF Order, QueueOrder
  <2>. QED
    BY <2>1, <2>2
<1>13. QueueOrder'
  BY <1>12 DEF QueueOrder
<1>14. CommandsInOrder'
  <2>1. delivered' \in [Commands -> Nat] /\ applied' = applied
    BY <1>1, <1>2
  <2>2. \A c \in Commands : c \in AppliedItems /\ delivered'[c] = 1 => delivered[c] = 1
    BY <1>4 DEF Order, Sent
  <2>. QED
    BY <2>1, <2>2 DEF Order, CommandsInOrder, AppliedItems
<1>. QED
  BY <1>7, <1>8, <1>9, <1>10, <1>13, <1>14 DEF Order

\* The socket takes the first message up: what was at the head is in hand.
LEMMA ReceiveFlow ==
    ASSUME Inv, Paid, RecordFirst, Order, Receive
    PROVE  Paid' /\ RecordFirst' /\ Order'
<1>1. inbox \in Seq(Messages) /\ inbox # <<>> /\ Head(inbox) \in Messages
      /\ recorded \in [Items -> Nat] /\ delivered \in [Commands -> Nat]
      /\ Commands \subseteq Items /\ job \in [Workers -> {Idle} \cup Jobs] /\ "socket" \in Workers
  <2>1. inbox \in Seq(Messages) /\ inbox # <<>>
    BY DEF Inv, Types, TypeOK, Receive
  <2>. QED
    BY <2>1 DEF Inv, Types, TypeOK, Items, Workers
<1>2. UNCHANGED <<recorded, posted, applied, delivered>> /\ job["socket"] = Idle
  BY DEF Receive, Reading, store, slack
<1>3. /\ \A c \in Commands : ~InHand(c)
      /\ AppliedItems' = AppliedItems
  BY <1>2 DEF InHand, Idle, AppliedItems
<1>4. CASE Head(inbox) = Disconnect
  <2>1. job' = job /\ inbox' = <<>>
    BY <1>4 DEF Receive, Return
  <2>2. \A c \in Commands : Waiting(c)' \subseteq Waiting(c) /\ (InHand(c)' => InHand(c))
    BY <2>1 DEF Waiting, InHand
  <2>. QED
    BY <1>2, <2>1, <2>2, PaidKept, RecordFirstKept, OrderKept
<1>5. CASE Head(inbox) # Disconnect
  <2>1. inbox' = Tail(inbox) /\ Handle(Head(inbox))
    BY <1>5 DEF Receive
  <2>2. /\ \A w \in Workers : job'[w].step = "post" => job'[w] = job[w]
        /\ \A c \in Commands : InHand(c)' => Head(inbox) = Envelope(c)
    <3>1. CASE Head(inbox).type # "command"
      <4>1. job' = job
        BY <2>1, <3>1 DEF Handle
      <4>. QED
        BY <1>3, <4>1 DEF InHand
    <3>2. CASE Head(inbox).type = "command"
      <4>1. PICK d \in Commands : Head(inbox) = Envelope(d)
        BY <1>1, <3>2 DEF Messages, Hello, Disconnect
      <4>2. Head(inbox).command = d
        BY <4>1, Envelopes
      <4>3. job' = [job EXCEPT !["socket"] =
               CASE kind[d] = "garbled" -> Idle
                 [] kind[d] \in Silent  -> Job(d, "reply", "none")
                 [] OTHER               -> Job(d, "dispatch", "none")]
        BY <2>1, <3>2, <4>2 DEF Handle
      <4>4. /\ \A w \in Workers : w # "socket" => job'[w] = job[w]
            /\ \/ job'["socket"] = Idle
               \/ job'["socket"] = Job(d, "reply", "none")
               \/ job'["socket"] = Job(d, "dispatch", "none")
        BY <1>1, <4>3
      <4>5. /\ Job(d, "reply", "none").step = "reply"
            /\ Job(d, "dispatch", "none").step = "dispatch" /\ Job(d, "dispatch", "none").item = d
            /\ Idle.step = "idle"
        BY DEF Job, Idle
      <4>. QED
        BY <4>1, <4>4, <4>5 DEF InHand
    <3>. QED
      BY <3>1, <3>2
  <2>3. ASSUME NEW c \in Commands
        PROVE  /\ \A k \in Waiting(c)' : k \in Nat /\ k + 1 \in Waiting(c) /\ 1 < k + 1
               /\ InHand(c)' => 1 \in Waiting(c)
               /\ Owed(c)' <= Owed(c) /\ Owed(c)' \in Nat /\ Owed(c) \in Nat
    <3>1. /\ \A k \in Waiting(c)' : k \in Nat /\ k + 1 \in Waiting(c) /\ 1 < k + 1
          /\ Head(inbox) = Envelope(c) =>
                1 \in Waiting(c) /\ Cardinality(Waiting(c)') + 1 = Cardinality(Waiting(c))
          /\ Head(inbox) # Envelope(c) => Cardinality(Waiting(c)') = Cardinality(Waiting(c))
      BY <1>1, <2>1, TailWaiting
    <3>2. Cardinality(Waiting(c)) \in Nat
      BY <1>1, WaitingFinite
    <3>3. Cardinality(Waiting(c)') \in Nat
      <4>1. inbox' \in Seq(Messages)
        BY <1>1, <2>1
      <4>2. Len(inbox') \in Nat /\ Waiting(c)' \in SUBSET (1..Len(inbox'))
        BY <4>1 DEF Waiting
      <4>3. IsFiniteSet(1..Len(inbox'))
        BY <4>2, FS_Interval
      <4>4. IsFiniteSet(Waiting(c)')
        BY <4>2, <4>3, FS_Subset
      <4>. QED
        BY <4>4, FS_CardinalityType
    <3>. QED
      BY <1>3, <2>2, <3>1, <3>2, <3>3 DEF Owed
  <2>4. Paid'
    <3>1. ASSUME NEW c \in Commands PROVE recorded'[c] + Owed(c)' <= delivered'[c]
      <4>1. recorded[c] \in Nat /\ delivered[c] \in Nat
        BY <1>1
      <4>2. recorded[c] + Owed(c) <= delivered[c]
        BY DEF Paid
      <4>. QED
        BY <1>2, <2>3, <4>1, <4>2
    <3>. QED
      BY <3>1 DEF Paid
  <2>5. RecordFirst'
    BY <1>2, <2>2, RecordFirstKept
  <2>6. Begun' /\ CommandsInOrder'
    BY <1>2 DEF Order, Begun, CommandsInOrder
  <2>7. Sent'
    BY <1>2, <1>3, <2>3 DEF Order, Sent
  <2>8. ASSUME NEW a \in Commands, NEW c \in Commands, delivered'[c] = 1
        PROVE  /\ a \in AppliedItems' /\ InHand(c)' => a < c
               /\ a \in AppliedItems' /\ Waiting(c)' # {} => a < c
               /\ InHand(a)' /\ Waiting(c)' # {} => a < c
               /\ \A k \in Waiting(a)', l \in Waiting(c)' : k < l => a < c
    <3>1. delivered[c] = 1
      BY <1>2, <2>8
    <3>2. \A k \in Waiting(a), l \in Waiting(c) : k < l => a < c
      BY <3>1 DEF Order, QueueOrder
    <3>3. a \in AppliedItems /\ Waiting(c) # {} => a < c
      BY <3>1 DEF Order, QueueOrder
    <3>4. InHand(a)' /\ Waiting(c)' # {} => a < c
      BY <2>3, <3>2
    <3>5. ASSUME NEW k \in Waiting(a)', NEW l \in Waiting(c)', k < l PROVE a < c
      <4>1. k + 1 \in Waiting(a) /\ l + 1 \in Waiting(c) /\ k + 1 < l + 1
        BY <2>3, <3>5
      <4>. QED
        BY <3>2, <4>1
    <3>. QED
      BY <1>3, <2>3, <3>3, <3>4, <3>5
  <2>9. QueueOrder'
    BY <2>8 DEF QueueOrder
  <2>. QED
    BY <2>4, <2>5, <2>6, <2>7, <2>9 DEF Order
<1>. QED
  BY <1>4, <1>5

\* A worker that advances takes nothing up.
LEMMA AdvanceFlow ==
    ASSUME Inv, NEW w \in Workers, job[w] \in Jobs,
           NEW s \in Steps \ {"dispatch"}, NEW a \in Answers, Advance(w, s, a),
           inbox' = inbox
    PROVE  /\ \A c \in Commands : Waiting(c)' \subseteq Waiting(c) /\ (InHand(c)' => InHand(c))
           /\ w = "socket" => \A c \in Commands : ~InHand(c)'
           /\ \A v \in Workers : v # w => job'[v] = job[v]
           /\ job'[w].step = s /\ job'[w].item = job[w].item
<1>1. /\ \A v \in Workers : v # w => job'[v] = job[v]
      /\ job'[w].step = s /\ job'[w].item = job[w].item
  BY AdvanceTypes DEF Inv, Types
<1>2. "socket" \in Workers
  BY DEF Workers
<1>. QED
  BY <1>1, <1>2 DEF Waiting, InHand

\* The steps of a worker that neither record, post nor apply.
LEMMA AnswerFlow ==
    ASSUME Inv, Paid, RecordFirst, Order, NEW w \in Workers,
           Fails(w) \/ Query(w) \/ PostFails(w) \/ ReadBack(w)
    PROVE  Paid' /\ RecordFirst' /\ Order'
<1>1. UNCHANGED <<recorded, posted, applied, delivered, inbox>> /\ job[w].step # "idle"
  BY DEF Fails, Query, PostFails, ReadBack, socket, store, slack
<1>2. PICK a \in Answers : Advance(w, "reply", a)
  <2>1. row.status \in Answers
    BY DEF Inv, Types, TypeOK, Rows, Answers
  <2>. QED
    BY <2>1 DEF Fails, Query, PostFails, ReadBack, Answers
<1>3. TypeOK
  BY DEF Inv, Types
<1>4. job[w] \in Jobs /\ "reply" \in Steps \ {"dispatch"}
  BY <1>1, <1>3, JobTypes DEF Steps
<1>5. /\ \A c \in Commands : Waiting(c)' \subseteq Waiting(c) /\ (InHand(c)' => InHand(c))
      /\ \A v \in Workers : v # w => job'[v] = job[v]
      /\ job'[w].step = "reply"
  BY <1>1, <1>2, <1>4, AdvanceFlow
<1>. QED
  BY <1>1, <1>5, PaidKept, RecordFirstKept, OrderKept

\* Recording turns what is in hand into a record, with its post to come.
LEMMA RecordFlow ==
    ASSUME Inv, Paid, RecordFirst, Order, NEW w \in Workers, Record(w)
    PROVE  Paid' /\ RecordFirst' /\ Order'
<1>. DEFINE i == job[w].item
<1>0. TypeOK /\ JobOK(w)
  BY DEF Inv, Types
<1>1. /\ UNCHANGED <<posted, applied, delivered, inbox>>
      /\ job[w].step = "dispatch" /\ Advance(w, "post", "none")
      /\ recorded' = [recorded EXCEPT ![i] = @ + 1]
  BY DEF Record, socket, slack
<1>2. job[w] \in Jobs /\ i \in Items /\ "post" \in Steps \ {"dispatch"} /\ "none" \in Answers
  BY <1>0, <1>1, JobTypes DEF Steps, Answers
<1>3. /\ \A c \in Commands : Waiting(c)' \subseteq Waiting(c) /\ (InHand(c)' => InHand(c))
      /\ w = "socket" => \A c \in Commands : ~InHand(c)'
      /\ \A v \in Workers : v # w => job'[v] = job[v]
      /\ job'[w].step = "post" /\ job'[w].item = i
  BY <1>1, <1>2, AdvanceFlow
<1>4. Order'
  BY <1>1, <1>3, OrderKept
<1>5. /\ recorded \in [Items -> Nat] /\ delivered \in [Commands -> Nat] /\ inbox \in Seq(Messages)
      /\ posted \in [Items -> Nat] /\ Commands \subseteq Items
  BY <1>0 DEF TypeOK, Items
<1>6. recorded'[i] = recorded[i] + 1 /\ \A j \in Items : j # i => recorded'[j] = recorded[j]
  BY <1>1, <1>2, <1>5
<1>7. ASSUME NEW c \in Commands PROVE recorded'[c] + Owed(c)' <= delivered'[c]
  <2>1. recorded[c] \in Nat /\ delivered[c] \in Nat /\ delivered'[c] = delivered[c]
    BY <1>1, <1>5
  <2>2. Cardinality(Waiting(c)') \in Nat /\ Cardinality(Waiting(c)) \in Nat
        /\ Cardinality(Waiting(c)') <= Cardinality(Waiting(c))
    BY <1>3, <1>5, FewerWaiting, WaitingFinite
  <2>3. recorded[c] + Owed(c) <= delivered[c]
    BY DEF Paid
  <2>4. CASE c = i
    <3>1. w = "socket" /\ InHand(c)
      BY <1>0, <1>1, <2>4, SlackAssumption DEF JobOK, Workers, InHand
    <3>2. ~InHand(c)'
      BY <1>3, <3>1
    <3>. QED
      BY <1>2, <1>5, <1>6, <2>1, <2>2, <2>3, <2>4, <3>1, <3>2 DEF Owed
  <2>5. CASE c # i
    <3>1. recorded'[c] = recorded[c] /\ (InHand(c)' => InHand(c))
      BY <1>3, <1>5, <1>6, <2>5
    <3>. QED
      BY <2>1, <2>2, <2>3, <3>1 DEF Owed
  <2>. QED
    BY <2>4, <2>5
<1>8. Paid'
  BY <1>7 DEF Paid
<1>9. ASSUME NEW j \in Items PROVE posted'[j] <= recorded'[j] /\ (j = i => posted'[j] < recorded'[j])
  <2>1. posted[j] \in Nat /\ recorded[j] \in Nat /\ posted'[j] = posted[j] /\ posted[j] <= recorded[j]
    BY <1>1, <1>5 DEF RecordFirst
  <2>. QED
    BY <1>6, <2>1
<1>10. ASSUME NEW v \in Workers, job'[v].step = "post" PROVE posted'[job'[v].item] < recorded'[job'[v].item]
  <2>1. CASE v = w
    BY <1>2, <1>3, <1>9, <2>1
  <2>2. CASE v # w
    <3>1. job'[v] = job[v] /\ job[v].step = "post"
      BY <1>3, <1>10, <2>2
    <3>2. job[v].item \in Items /\ job[v].item # i
      BY <1>0, <1>1, <2>2, <3>1, JobTypes, ItemsApart
    <3>. QED
      BY <1>1, <1>6, <3>1, <3>2 DEF RecordFirst
  <2>. QED
    BY <2>1, <2>2
<1>11. RecordFirst'
  BY <1>9, <1>10 DEF RecordFirst
<1>. QED
  BY <1>4, <1>8, <1>11

\* The post that is made is the one its record entitles to.
LEMMA PostFlow ==
    ASSUME Inv, Paid, RecordFirst, Order, NEW w \in Workers, Post(w)
    PROVE  Paid' /\ RecordFirst' /\ Order'
<1>. DEFINE i == job[w].item
<1>0. TypeOK /\ JobOK(w)
  BY DEF Inv, Types
<1>1. /\ UNCHANGED <<recorded, applied, delivered, inbox>>
      /\ job[w].step = "post" /\ Advance(w, "reply", "sent")
      /\ posted' = [posted EXCEPT ![i] = @ + 1]
  BY DEF Post, socket, slack
<1>2. job[w] \in Jobs /\ i \in Items /\ "reply" \in Steps \ {"dispatch"} /\ "sent" \in Answers
  BY <1>0, <1>1, JobTypes DEF Steps, Answers
<1>3. /\ \A c \in Commands : Waiting(c)' \subseteq Waiting(c) /\ (InHand(c)' => InHand(c))
      /\ \A v \in Workers : v # w => job'[v] = job[v]
      /\ job'[w].step = "reply"
  BY <1>1, <1>2, AdvanceFlow
<1>4. Order' /\ Paid'
  BY <1>1, <1>3, OrderKept, PaidKept
<1>5. recorded \in [Items -> Nat] /\ posted \in [Items -> Nat]
  BY <1>0 DEF TypeOK
<1>6. posted'[i] = posted[i] + 1 /\ \A j \in Items : j # i => posted'[j] = posted[j]
  BY <1>1, <1>2, <1>5
<1>7. ASSUME NEW j \in Items PROVE posted'[j] <= recorded'[j]
  <2>1. posted[j] \in Nat /\ recorded[j] \in Nat /\ recorded'[j] = recorded[j]
    BY <1>1, <1>5
  <2>2. posted[j] <= recorded[j] /\ posted[i] < recorded[i]
    BY <1>1 DEF RecordFirst
  <2>. QED
    BY <1>6, <2>1, <2>2
<1>8. ASSUME NEW v \in Workers, job'[v].step = "post" PROVE posted'[job'[v].item] < recorded'[job'[v].item]
  <2>1. v # w /\ job'[v] = job[v] /\ job[v].step = "post"
    BY <1>3, <1>8
  <2>2. job[v].item \in Items /\ job[v].item # i
    BY <1>0, <1>1, <2>1, JobTypes, ItemsApart
  <2>. QED
    BY <1>1, <1>6, <2>1, <2>2 DEF RecordFirst
<1>9. RecordFirst'
  BY <1>7, <1>8 DEF RecordFirst
<1>. QED
  BY <1>4, <1>9

\* A command that is applied was in hand: ahead of all that wait, behind all
\* that were applied.
LEMMA CommitFlow ==
    ASSUME Inv, Paid, RecordFirst, Order, NEW w \in Workers, Commit(w)
    PROVE  Paid' /\ RecordFirst' /\ Order'
<1>. DEFINE i == job[w].item
<1>0. TypeOK /\ JobOK(w)
  BY DEF Inv, Types
<1>1. /\ UNCHANGED <<recorded, posted, delivered, inbox>>
      /\ job[w].step = "dispatch" /\ applied' = Append(applied, i)
  BY DEF Commit, socket, slack
<1>2. job[w] \in Jobs /\ i \in Items /\ "socket" \in Workers
  BY <1>0, <1>1, JobTypes DEF Workers
<1>3. /\ job'[w] = [job[w] EXCEPT !.step = "readback"]
      /\ \A v \in Workers : v # w => job'[v] =
             IF job[v].step = "readback" THEN [job[v] EXCEPT !.overtaken = TRUE] ELSE job[v]
  BY DEF Commit
<1>4. /\ job'[w].step = "readback"
      /\ \A v \in Workers : job[v].step = "readback" => job'[v].step = "readback"
  BY <1>0, <1>2, <1>3, JobTypes DEF Jobs, Steps
<1>5. /\ \A v \in Workers : job'[v].step = "post" => job'[v] = job[v]
      /\ \A c \in Commands : InHand(c)' => InHand(c) /\ w # "socket"
      /\ \A c \in Commands : Waiting(c)' = Waiting(c)
  BY <1>1, <1>2, <1>3, <1>4 DEF InHand, Waiting
<1>6. Paid' /\ RecordFirst'
  BY <1>1, <1>5, PaidKept, RecordFirstKept
<1>7. /\ Len(applied) \in Nat /\ DOMAIN applied = 1..Len(applied)
      /\ DOMAIN applied' = 1..(Len(applied) + 1) /\ applied'[Len(applied) + 1] = i
      /\ \A k \in 1..Len(applied) : applied'[k] = applied[k]
  <2>1. applied \in Seq(Items)
    BY <1>0 DEF TypeOK
  <2>. HIDE DEF i
  <2>. QED
    BY <1>1, <1>2, <2>1
<1>8. AppliedItems' = AppliedItems \cup {i}
  BY <1>7 DEF AppliedItems
<1>9. i \in Commands => w = "socket" /\ InHand(i)
  BY <1>0, <1>1, SlackAssumption DEF JobOK, Workers, InHand
<1>10. Sent'
  BY <1>1, <1>5, <1>8, <1>9 DEF Order, Sent
<1>11. ASSUME NEW a \in Commands, NEW c \in Commands, delivered'[c] = 1
       PROVE  /\ a \in AppliedItems' /\ InHand(c)' => a < c
              /\ a \in AppliedItems' /\ Waiting(c)' # {} => a < c
              /\ InHand(a)' /\ Waiting(c)' # {} => a < c
              /\ \A k \in Waiting(a)', l \in Waiting(c)' : k < l => a < c
  <2>1. delivered[c] = 1
    BY <1>1, <1>11
  <2>. HIDE DEF i
  <2>. QED
    BY <1>5, <1>8, <1>9, <2>1 DEF Order, QueueOrder
<1>12. QueueOrder'
  BY <1>11 DEF QueueOrder
<1>13. ASSUME NEW k \in DOMAIN applied', NEW l \in DOMAIN applied', k < l,
              applied'[k] \in Commands, applied'[l] \in Commands, delivered'[applied'[l]] = 1
       PROVE  applied'[k] < applied'[l]
  <2>1. k \in DOMAIN applied /\ applied'[k] = applied[k] /\ applied[k] \in AppliedItems
    BY <1>7, <1>13 DEF AppliedItems
  <2>2. CASE l = Len(applied) + 1
    BY <1>1, <1>7, <1>9, <1>13, <2>1, <2>2 DEF Order, QueueOrder
  <2>3. CASE l # Len(applied) + 1
    BY <1>1, <1>7, <1>13, <2>1, <2>3 DEF Order, CommandsInOrder
  <2>. QED
    BY <2>2, <2>3
<1>14. CommandsInOrder'
  BY <1>13 DEF CommandsInOrder
<1>15. Begun'
  BY <1>1 DEF Order, Begun
<1>. QED
  BY <1>6, <1>10, <1>12, <1>14, <1>15 DEF Order

\* The link, Slack's other messages, the callers and the answers: nothing is
\* taken up; what waits may be lost.
LEMMA LinkFlow ==
    ASSUME Inv, Paid, RecordFirst, Order,
           \/ AskDisconnect \/ Break
           \/ Connect \/ ConnectFails \/ Wake \/ ReadFails
           \/ Ack \/ AckFails \/ Crash \/ Start
           \/ \E r \in Requests : Request(r) \/ HangUp(r) \/ Respond(r)
    PROVE  Paid' /\ RecordFirst' /\ Order'
<1>1. UNCHANGED <<recorded, posted, applied, delivered>>
  BY DEF AskDisconnect, Break, Connect, ConnectFails, Wake, ReadFails, Ack, AckFails, Crash, Start,
         Request, HangUp, Respond, store, slack
<1>2. ASSUME NEW c \in Commands PROVE Waiting(c)' \subseteq Waiting(c)
  <2>1. inbox \in Seq(Messages)
    BY DEF Inv, Types, TypeOK
  <2>2. CASE AskDisconnect
    BY <2>1, <2>2, AppendWaiting, Envelopes DEF AskDisconnect, Messages
  <2>3. CASE Connect
    BY <2>3, Envelopes DEF Connect, Waiting, Envelope
  <2>4. CASE inbox' = inbox \/ inbox' = <<>>
    BY <2>4 DEF Waiting, Envelope
  <2>5. AskDisconnect \/ Connect \/ inbox' = inbox \/ inbox' = <<>>
    BY DEF Break, ConnectFails, Wake, ReadFails, Return, Ack, AckFails, Crash, Start,
           Request, HangUp, Respond, socket
  <2>. QED
    BY <2>2, <2>3, <2>4, <2>5
<1>3. /\ \A w \in Workers : job'[w].step = "post" => job'[w] = job[w]
      /\ \A c \in Commands : InHand(c)' => InHand(c)
  <2>1. job \in [Workers -> {Idle} \cup Jobs] /\ "socket" \in Workers /\ Idle.step = "idle"
    BY DEF Inv, Types, TypeOK, Workers, Idle
  <2>2. ASSUME NEW r \in Requests, Request(r)
        PROVE  /\ \A w \in Workers : job'[w].step = "post" => job'[w] = job[w]
               /\ \A c \in Commands : InHand(c)' => InHand(c)
    <3>1. /\ \A w \in Workers : w # r => job'[w] = job[w]
          /\ job'[r] = Job(r, "dispatch", "none") /\ Job(r, "dispatch", "none").step = "dispatch"
      BY <2>1, <2>2 DEF Request, Job, Workers
    <3>2. r # "socket"
      BY SlackAssumption
    <3>. QED
      BY <2>1, <3>1, <3>2 DEF InHand
  <2>3. CASE \A w \in Workers : job'[w] = job[w] \/ job'[w] = Idle
    BY <2>1, <2>3 DEF InHand
  <2>4. \/ \A w \in Workers : job'[w] = job[w] \/ job'[w] = Idle
        \/ \E r \in Requests : Request(r)
    BY <2>1 DEF AskDisconnect, Break, Connect, ConnectFails, Wake, ReadFails, Ack, AckFails,
           Crash, Start, HangUp, Respond, Done
  <2>. QED
    BY <2>2, <2>3, <2>4
<1>. QED
  BY <1>1, <1>2, <1>3, PaidKept, RecordFirstKept, OrderKept

\* A request's job is taken up once, by its caller, and executed at most once.
LEMMA OnceNext == ASSUME Inv, Once, Next PROVE Once'
<1>. SUFFICES ASSUME NEW r \in Requests
              PROVE  /\ caller'[r] = "none" => job'[r] = Idle /\ recorded'[r] = 0
                     /\ job'[r].step = "dispatch" => recorded'[r] = 0
                     /\ recorded'[r] <= 1
  BY DEF Once
<1>1. /\ TypeOK /\ r \in Workers /\ r # "socket" /\ r \in Items /\ r \notin Commands
      /\ "socket" \in Workers /\ JobOK(r) /\ JobOK("socket")
  BY SlackAssumption DEF Inv, Types, Workers, Items
<1>2. /\ job \in [Workers -> {Idle} \cup Jobs] /\ caller \in [Requests -> {"none", "waiting", "gone", "answered"}]
      /\ recorded \in [Items -> Nat] /\ Idle.step = "idle"
  BY <1>1 DEF TypeOK, Idle
<1>3. /\ caller[r] = "none" => job[r] = Idle /\ recorded[r] = 0
      /\ job[r].step = "dispatch" => recorded[r] = 0
      /\ recorded[r] <= 1
  BY DEF Once
<1>4. CASE job'[r] = job[r] /\ caller'[r] = caller[r] /\ recorded'[r] = recorded[r]
  BY <1>3, <1>4
<1>5. CASE job'[r] = Idle /\ (caller'[r] = "none" => caller[r] = "none") /\ recorded' = recorded
  BY <1>2, <1>3, <1>5
<1>6. CASE job' = job /\ caller'[r] = "gone" /\ recorded' = recorded
  BY <1>3, <1>6
<1>7. CASE \/ \E c \in Commands : Deliver(c)
           \/ AskDisconnect \/ Break \/ Connect \/ ConnectFails \/ Wake \/ ReadFails
           \/ Receive \/ Ack \/ AckFails \/ Start
  <2>1. /\ UNCHANGED <<caller, recorded>>
        /\ job' = job \/ \E j : job' = [job EXCEPT !["socket"] = j]
    BY <1>7 DEF Deliver, AskDisconnect, Break, Connect, ConnectFails, Wake, ReadFails, Receive,
                Handle, Ack, AckFails, Done, Start, store
  <2>. QED
    BY <1>1, <1>2, <1>4, <2>1
<1>8. CASE Crash
  BY <1>1, <1>5, <1>8 DEF Crash, store
<1>9. ASSUME NEW q \in Requests, Request(q) \/ HangUp(q) \/ Respond(q)
      PROVE  /\ caller'[r] = "none" => job'[r] = Idle /\ recorded'[r] = 0
             /\ job'[r].step = "dispatch" => recorded'[r] = 0
             /\ recorded'[r] <= 1
  <2>1. recorded' = recorded
    BY <1>9 DEF Request, HangUp, Respond, store
  <2>2. CASE q # r
    <3>1. job'[r] = job[r] /\ caller'[r] = caller[r]
      BY <1>1, <1>2, <1>9, <2>2 DEF Request, HangUp, Respond, Done
    <3>. QED
      BY <1>4, <2>1, <3>1
  <2>3. CASE q = r /\ Request(q)
    <3>1. caller[r] = "none" /\ caller'[r] = "waiting" /\ recorded[r] = 0
      BY <1>2, <1>3, <2>3 DEF Request
    <3>. QED
      BY <2>1, <3>1
  <2>4. CASE q = r /\ HangUp(q)
    BY <1>2, <1>6, <2>1, <2>4 DEF HangUp
  <2>5. CASE q = r /\ Respond(q)
    <3>1. job'[r] = Idle /\ (caller'[r] = "none" => caller[r] = "none")
      BY <1>1, <1>2, <2>5 DEF Respond, Done
    <3>. QED
      BY <1>5, <2>1, <3>1
  <2>. QED
    BY <1>9, <2>2, <2>3, <2>4, <2>5
<1>10. ASSUME NEW w \in Workers, Fails(w) \/ Work(w)
       PROVE  /\ caller'[r] = "none" => job'[r] = Idle /\ recorded'[r] = 0
              /\ job'[r].step = "dispatch" => recorded'[r] = 0
              /\ recorded'[r] <= 1
  <2>1. caller' = caller /\ job[w].step # "idle"
    BY <1>10 DEF Fails, Work, Query, Record, Post, PostFails, Commit, ReadBack
  <2>2. job[w] \in Jobs /\ job[w].item \in Items /\ JobOK(w)
    BY <1>1, <2>1, JobTypes DEF Inv
  <2>3. CASE w # r
    <3>1. job[w].item # r
      BY <1>1, <2>1, <2>2, <2>3 DEF JobOK
    <3>2. recorded'[r] = recorded[r]
      BY <1>1, <1>2, <1>10, <2>2, <3>1 DEF Fails, Work, Query, Record, Post, PostFails, Commit, ReadBack, store
    <3>3. CASE ~Commit(w)
      <4>1. job'[r] = job[r]
        BY <1>1, <1>2, <1>10, <2>3, <3>3 DEF Fails, Work, Query, Record, Post, PostFails, ReadBack, Advance
      <4>. QED
        BY <1>4, <2>1, <3>2, <4>1
    <3>4. CASE Commit(w)
      <4>1. \/ job'[r] = job[r]
            \/ job[r].step = "readback" /\ job'[r] = [job[r] EXCEPT !.overtaken = TRUE]
        BY <1>1, <2>3, <3>4 DEF Commit
      <4>2. CASE job[r].step = "readback" /\ job'[r] = [job[r] EXCEPT !.overtaken = TRUE]
        <5>1. job[r] \in Jobs
          BY <1>1, <1>2, <4>2, JobTypes
        <5>2. job'[r].step = "readback" /\ caller[r] # "none"
          BY <1>2, <1>3, <4>2, <5>1 DEF Jobs
        <5>. QED
          BY <1>3, <2>1, <3>2, <5>2
      <4>. QED
        BY <1>4, <2>1, <3>2, <4>1, <4>2
    <3>. QED
      BY <3>3, <3>4
  <2>4. CASE w = r
    <3>1. job[r].item = r /\ caller[r] # "none" /\ recorded[r] \in Nat
      BY <1>1, <1>2, <1>3, <2>1, <2>2, <2>4 DEF JobOK
    <3>2. job'[r].step # "dispatch"
      BY <1>1, <1>2, <1>10, <2>2, <2>4 DEF Fails, Work, Query, Record, Post, PostFails, Commit, ReadBack, Advance, Jobs, Steps
    <3>3. recorded'[r] <= 1
      <4>1. CASE Record(w)
        BY <1>1, <1>2, <1>3, <2>4, <3>1, <4>1 DEF Record
      <4>2. CASE ~Record(w)
        BY <1>3, <1>10, <4>2 DEF Fails, Work, Query, Post, PostFails, Commit, ReadBack, store
      <4>. QED
        BY <4>1, <4>2
    <3>. QED
      BY <2>1, <3>1, <3>2, <3>3
  <2>. QED
    BY <2>3, <2>4
<1>. QED
  BY <1>7, <1>8, <1>9, <1>10 DEF Next

-----------------------------------------------------------------------------
\* Before the first command nothing waits, is in hand, recorded or applied.
LEMMA FlowInit == Init => Flow
<1>. SUFFICES ASSUME Init PROVE Flow
  OBVIOUS
<1>1. /\ Inv /\ inbox = <<>> /\ applied = <<>> /\ \A w \in Workers : job[w] = Idle
      /\ recorded = [i \in Items |-> 0] /\ posted = [i \in Items |-> 0]
      /\ delivered = [c \in Commands |-> 0]
  BY InitInv DEF Init
<1>2. /\ Commands \subseteq Items /\ Requests \subseteq Items /\ Requests \subseteq Workers
      /\ "socket" \in Workers /\ Idle.step = "idle"
  BY DEF Items, Workers, Idle
<1>3. /\ \A c \in Commands : ~InHand(c)
      /\ \A c \in Commands : Waiting(c) = {}
      /\ AppliedItems = {}
  BY <1>1, <1>2 DEF InHand, Waiting, AppliedItems
<1>4. Paid
  <2>1. \A c \in Commands : Owed(c) = 0
    BY <1>3, FS_EmptySet DEF Owed
  <2>. QED
    BY <1>1, <1>2, <2>1 DEF Paid
<1>5. Once /\ RecordFirst
  BY <1>1, <1>2 DEF Once, RecordFirst
<1>6. Begun /\ Sent /\ QueueOrder
  BY <1>1, <1>3 DEF Begun, Sent, QueueOrder
<1>7. CommandsInOrder
  BY <1>1 DEF CommandsInOrder
<1>. QED
  BY <1>4, <1>5, <1>6, <1>7 DEF Flow, Executed, Order

\* Every step keeps what was executed paid for, and in order.
LEMMA FlowNext == Inv /\ Flow /\ [Next]_vars => Flow'
<1>. SUFFICES ASSUME Inv, Flow, [Next]_vars PROVE Flow'
  OBVIOUS
<1>1. Paid /\ Once /\ RecordFirst /\ Order
  BY DEF Flow, Executed
<1>2. CASE Next
  <2>1. Paid' /\ RecordFirst' /\ Order'
    BY <1>1, <1>2, DeliverFlow, ReceiveFlow, LinkFlow, AnswerFlow, RecordFlow, PostFlow, CommitFlow
       DEF Next, Work
  <2>2. Once'
    BY <1>1, <1>2, OnceNext
  <2>. QED
    BY <2>1, <2>2 DEF Flow, Executed
<1>3. CASE UNCHANGED vars
  <2>1. UNCHANGED <<recorded, posted, applied, delivered, inbox, job, caller>>
    BY <1>3 DEF vars, socket, store, slack
  <2>2. \A c \in Commands : Waiting(c)' \subseteq Waiting(c) /\ (InHand(c)' => InHand(c))
    BY <2>1 DEF Waiting, InHand
  <2>3. Once'
    BY <1>1, <2>1 DEF Once
  <2>. QED
    BY <1>1, <2>1, <2>2, <2>3, PaidKept, RecordFirstKept, OrderKept DEF Flow, Executed
<1>. QED
  BY <1>2, <1>3

LEMMA FlowInvariance == Spec => []Flow
BY Invariance, FlowInit, FlowNext, PTL DEF Spec

\* Nothing is posted without its record, a request is executed once, and a
\* command no more often than Slack delivered it - whatever is lost or fails.
THEOREM NothingUnrecorded == Spec => []PostedIsRecorded
<1>1. ASSUME Inv, Flow PROVE PostedIsRecorded
  <2>. SUFFICES ASSUME NEW i \in Items
                PROVE  /\ posted[i] <= recorded[i]
                       /\ recorded[i] <= IF i \in Requests THEN 1 ELSE delivered[i]
    BY DEF PostedIsRecorded
  <2>1. posted[i] <= recorded[i] /\ recorded[i] \in Nat
    BY <1>1 DEF Flow, Executed, RecordFirst, Inv, Types, TypeOK
  <2>2. CASE i \in Requests
    BY <1>1, <2>1, <2>2 DEF Flow, Executed, Once
  <2>3. CASE i \notin Requests
    <3>1. i \in Commands
      BY <2>3 DEF Items
    <3>2. recorded[i] + Owed(i) <= delivered[i] /\ delivered[i] \in Nat
      BY <1>1, <3>1 DEF Flow, Executed, Paid, Inv, Types, TypeOK
    <3>3. Cardinality(Waiting(i)) \in Nat
      BY <1>1, WaitingFinite DEF Inv, Types, TypeOK
    <3>4. Owed(i) \in Nat
      BY <3>3 DEF Owed
    <3>. QED
      BY <2>1, <2>3, <3>2, <3>4
  <2>. QED
    BY <2>2, <2>3
<1>. QED
  BY <1>1, Invariance, FlowInvariance, PTL

\* Control actions that were delivered once reach the row in the order in which
\* they were asked for.
THEOREM AppliedInOrder == Spec => []CommandsInOrder
<1>1. Flow => CommandsInOrder
  BY DEF Flow, Order
<1>. QED
  BY <1>1, FlowInvariance, PTL
=============================================================================
