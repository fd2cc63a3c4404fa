------------------------- MODULE CoordinatorProofs -------------------------
(***************************************************************************)
(* Proofs about Coordinator, for any jobs, workers, number of concurrent   *)
(* requests and of coordinators, and any timeouts.                         *)
(***************************************************************************)
EXTENDS Coordinator, AgesProofs, SequenceTheorems, TLAPS

USE StoreAssumption, CoordinatorAssumption

-----------------------------------------------------------------------------
(* The operations of the repository yield rows, and what they do to the    *)
(* columns the invariants are about.                                       *)

LEMMA HorizonType ==
  UpdateHorizon \in Nat /\ SeenHorizon \in Nat /\ UpdateHorizon > 0 /\ SeenHorizon > 0
  BY DEF UpdateHorizon, SeenHorizon

LEMMA AbsentRowType == AbsentRow \in Row
  BY HorizonType, FreshType DEF AbsentRow, Row, Statuses, Absent

LEMMA CreateJobType ==
  ASSUME NEW mon \in BOOLEAN
  PROVE  /\ CreateJob(mon) \in Row
         /\ CreateJob(mon).status = "pending"
         /\ CreateJob(mon).worker = NoWorker
<1> DEFINE seen == IF mon THEN 0 ELSE Never
<1>1. seen \in AgesTo(SeenHorizon)
  BY HorizonType, FreshType
<1>2. "pending" \in Statuses /\ 0 \in 0 .. UpdateHorizon
  BY HorizonType DEF Statuses, Active
<1>3. CreateJob(mon) = [ status |-> "pending", worker |-> NoWorker, lastUpdate |-> 0,
                         workerSeen |-> Never, clientSeen |-> seen, monitor |-> mon ]
  BY DEF CreateJob
<1>4. QED
  <2> HIDE DEF seen
  <2> QED BY <1>1, <1>2, <1>3, HorizonType, FreshType DEF Row

LEMMA UpdateStatusType ==
  ASSUME NEW row \in Row, NEW status \in Statuses, NEW w \in Workers \cup {NoWorker}
  PROVE  /\ UpdateStatus(row, status, w) \in Row
         /\ UpdateStatus(row, status, w).status = status
         /\ UpdateStatus(row, status, w).worker = IF w = NoWorker THEN row.worker ELSE w
         /\ UpdateStatus(row, status, w).workerSeen = IF w = NoWorker THEN row.workerSeen ELSE 0
<1> DEFINE r1 == [row EXCEPT !.status = status]
           r2 == [r1 EXCEPT !.lastUpdate = 0]
           r3 == [r2 EXCEPT !.worker = w]
           r4 == [r3 EXCEPT !.workerSeen = 0]
<1>1. r1 \in Row /\ r1.status = status /\ r1.worker = row.worker /\ r1.workerSeen = row.workerSeen
  BY DEF Row, AgesTo
<1>2. r2 \in Row /\ r2.status = status /\ r2.worker = row.worker /\ r2.workerSeen = row.workerSeen
  <2> HIDE DEF r1
  <2> QED BY <1>1, HorizonType DEF Row, AgesTo
<1>3. r3 \in Row /\ r3.status = status /\ r3.worker = w /\ r3.workerSeen = row.workerSeen
  <2> HIDE DEF r2
  <2> QED BY <1>2 DEF Row, AgesTo
<1>4. r4 \in Row /\ r4.status = status /\ r4.worker = w /\ r4.workerSeen = 0
  <2> HIDE DEF r3
  <2> QED BY <1>3, HorizonType DEF Row, AgesTo
<1>5. UpdateStatus(row, status, w) = IF w = NoWorker THEN r2 ELSE r4
  BY Zenon DEF UpdateStatus
<1>6. QED
  <2> HIDE DEF r2, r4
  <2> QED BY <1>2, <1>4, <1>5

LEMMA WorkerHeartbeatType ==
  ASSUME NEW row \in Row
  PROVE  /\ UpdateWorkerHeartbeat(row) \in Row
         /\ UpdateWorkerHeartbeat(row).status = row.status
         /\ UpdateWorkerHeartbeat(row).worker = row.worker
         /\ UpdateWorkerHeartbeat(row).workerSeen = 0
  BY HorizonType DEF UpdateWorkerHeartbeat, Row, AgesTo

LEMMA ClientHeartbeatType ==
  ASSUME NEW row \in Row, NEW mon
  PROVE  /\ UpdateClientHeartbeat(row, mon) \in Row
         /\ UpdateClientHeartbeat(row, mon).status = row.status
         /\ UpdateClientHeartbeat(row, mon).worker = row.worker
         /\ UpdateClientHeartbeat(row, mon).workerSeen = row.workerSeen
<1> DEFINE flag == CASE mon = "on" -> TRUE [] mon = "off" -> FALSE [] OTHER -> row.monitor
           r1 == [row EXCEPT !.clientSeen = 0]
<1>1. row.monitor \in BOOLEAN
  BY DEF Row, AgesTo
<1>2. flag \in BOOLEAN
  BY <1>1, Zenon
<1>3. UpdateClientHeartbeat(row, mon) = [r1 EXCEPT !.monitor = flag]
  BY Zenon DEF UpdateClientHeartbeat
<1>4. r1 \in Row /\ r1.status = row.status /\ r1.worker = row.worker /\ r1.workerSeen = row.workerSeen
  BY HorizonType DEF Row, AgesTo
<1>5. QED
  <2> HIDE DEF r1, flag
  <2> QED BY <1>2, <1>3, <1>4 DEF Row, AgesTo

LEMMA OlderType ==
  ASSUME NEW row \in Row
  PROVE  /\ Older(row) \in Row
         /\ Older(row).status = row.status
         /\ Older(row).worker = row.worker
         /\ Older(row).workerSeen = Never <=> row.workerSeen = Never
<1> DEFINE update == Aged(row.lastUpdate, UpdateHorizon)
           wseen  == Aged(row.workerSeen, SeenHorizon)
           cseen  == Aged(row.clientSeen, SeenHorizon)
           r1 == [row EXCEPT !.lastUpdate = update]
           r2 == [r1 EXCEPT !.workerSeen = wseen]
           r3 == [r2 EXCEPT !.clientSeen = cseen]
<1>1. /\ update \in 0 .. UpdateHorizon
      /\ wseen \in AgesTo(SeenHorizon)
      /\ wseen = Never <=> row.workerSeen = Never
      /\ cseen \in AgesTo(SeenHorizon)
  BY HorizonType, AgedType DEF Row, AgesTo
<1>2. Older(row) = IF Exists(row) THEN r3 ELSE row
  BY Zenon DEF Older
<1> HIDE DEF update, wseen, cseen
<1>3. /\ r1 \in Row /\ r1.status = row.status /\ r1.worker = row.worker
      /\ r1.workerSeen = row.workerSeen /\ r1.clientSeen = row.clientSeen
  BY <1>1 DEF Row, AgesTo
<1>4. /\ r2 \in Row /\ r2.status = row.status /\ r2.worker = row.worker
      /\ r2.workerSeen = wseen /\ r2.clientSeen = row.clientSeen
  <2> HIDE DEF r1
  <2> QED BY <1>1, <1>3 DEF Row, AgesTo
<1>5. r3 \in Row /\ r3.status = row.status /\ r3.worker = row.worker /\ r3.workerSeen = wseen
  <2> HIDE DEF r2
  <2> QED BY <1>1, <1>4 DEF Row, AgesTo
<1>6. QED
  <2> HIDE DEF r3
  <2> QED BY <1>1, <1>2, <1>5
-----------------------------------------------------------------------------
(* Tasks and messages.                                                     *)

LEMMA WritesAre ==
  /\ Writes = {"assign", "accept", "reject", "report", "cancel",
               "worker_heartbeat", "client_heartbeat"}
  /\ \A w \in Writes : Carries[w] \subseteq Terminal \cup Active
  BY DEF Writes, Carries, Terminal, Active

LEMMA MsgType ==
  ASSUME NEW to \in Workers \cup {Client}, NEW j \in Jobs, NEW body \in Bodies
  PROVE  Msg(to, j, body) \in Message
  BY DEF Msg, Message

LEMMA SendingType ==
  ASSUME NEW todo \in Seq(Message)
  PROVE  Sending(todo) \in Task
  BY DEF Sending, Task

(* What a slot that is about to write may hold.                            *)
LEMMA WriteTaskHolds ==
  ASSUME TypeOK, NEW s \in Slots, task[s].pc \in Writes
  PROVE  /\ task[s].job \in Jobs
         /\ task[s].worker \in Workers \cup {NoWorker}
         /\ task[s].status \in Carries[task[s].pc]
         /\ task[s].worker = NoWorker => task[s].pc \in {"cancel", "client_heartbeat"}
<1>1. task[s] \in Task
  BY DEF TypeOK
<1>2. task[s] \in WriteTask
  BY <1>1, WritesAre DEF Task, Idle
<1>3. QED BY <1>2 DEF WriteTask

(* And one that is in an assignment, or sends.                             *)
LEMMA OtherTaskHolds ==
  ASSUME TypeOK, NEW s \in Slots
  PROVE  /\ task[s].pc = "scheduled" => task[s].job \in Jobs
         /\ task[s].pc = "select" => task[s].job \in Jobs
         /\ task[s].pc = "send" => task[s].todo \in Seq(Message) /\ task[s].todo # <<>>
<1>1. task[s] \in Task
  BY DEF TypeOK
<1>2. task[s] \in WriteTask => task[s].pc \notin {"scheduled", "select", "send"}
  BY WritesAre DEF WriteTask
<1>3. QED BY <1>1, <1>2 DEF Task, Idle

LEMMA WritingType ==
  ASSUME NEW w \in Writes, NEW j \in Jobs, NEW worker \in Workers \cup {NoWorker},
         NEW status \in Carries[w],
         worker = NoWorker => w \in {"cancel", "client_heartbeat"}
  PROVE  Writing(w, j, worker, status) \in Task
<1>1. status \in Statuses
  BY WritesAre DEF Statuses
<1>2. Writing(w, j, worker, status) \in WriteTask
  BY <1>1 DEF Writing, WriteTask
<1>3. QED BY <1>2 DEF Task
-----------------------------------------------------------------------------
(* The inductive invariant.  RunningIsReapable alone is not inductive: a   *)
(* write without a worker leaves the columns as they are, so what they     *)
(* hold in a pending or canceling row matters too.  The worker columns are *)
(* only ever written together, whence OwnerSeen in every status.           *)

OwnerSeen(row) ==
  /\ row.worker # NoWorker => row.workerSeen # Never
  /\ row.status \in {"assigned", "running"} => row.worker # NoWorker

IInv == TypeOK /\ \A j \in Jobs : OwnerSeen(jobs[j])

LEMMA UpdateStatusOwner ==
  ASSUME NEW row \in Row, OwnerSeen(row),
         NEW status \in Statuses, NEW w \in Workers \cup {NoWorker},
         w = NoWorker => status \notin {"assigned", "running"}
  PROVE  UpdateStatus(row, status, w) \in Row /\ OwnerSeen(UpdateStatus(row, status, w))
  BY UpdateStatusType DEF OwnerSeen, Never

(* The three shapes a step has: a write, a change of task only, a janitor's *)
(* row.                                                                    *)
LEMMA WriteRowStep ==
  ASSUME IInv, NEW s \in Slots, NEW j \in Jobs,
         NEW row \in Row, OwnerSeen(row), NEW todo \in Seq(Message),
         WriteRow(s, j, row, todo)
  PROVE  IInv'
<1>1. jobs' \in [Jobs -> Row] /\ \A i \in Jobs : OwnerSeen(jobs'[i])
  BY DEF IInv, TypeOK, WriteRow
<1>2. task' \in [Slots -> Task]
  BY SendingType DEF IInv, TypeOK, WriteRow, Become
<1>3. QED BY <1>1, <1>2 DEF IInv, TypeOK, WriteRow

LEMMA ReadOnlyStep ==
  ASSUME IInv, NEW s \in Slots, NEW t \in Task, Become(s, t), ReadOnly
  PROVE  IInv'
<1>1. task' \in [Slots -> Task]
  BY DEF IInv, TypeOK, Become
<1>2. QED BY <1>1 DEF IInv, TypeOK, ReadOnly

LEMMA JanitorRowStep ==
  ASSUME IInv, NEW c \in Janitors, NEW r \in batch[c],
         batch' = [batch EXCEPT ![c] = @ \ {r}],
         NEW t \in Task, task' = task \/ Become(c, t),
         NEW row \in Row, OwnerSeen(row),
         jobs' = jobs \/ jobs' = [jobs EXCEPT ![r.job] = row],
         UNCHANGED <<phase, told, faults>>
  PROVE  IInv'
<1>1. r.job \in Jobs /\ batch' \in [Janitors -> SUBSET [job : Jobs, worker : Workers \cup {NoWorker}]]
  BY DEF IInv, TypeOK
<1>2. jobs' \in [Jobs -> Row] /\ \A i \in Jobs : OwnerSeen(jobs'[i])
  BY <1>1 DEF IInv, TypeOK
<1>3. task' \in [Slots -> Task]
  BY DEF IInv, TypeOK, Become, Slots
<1>4. QED BY <1>1, <1>2, <1>3 DEF IInv, TypeOK

(* What the janitor sends are messages.                                    *)
LEMMA JanitorMessages ==
  ASSUME TypeOK, NEW c \in Janitors, NEW r \in batch[c],
         NEW body \in {"failed", "canceled", "canceling"}
  PROVE  /\ r.job \in Jobs
         /\ ToWorker(r, body) \in Seq(Message)
         /\ << Msg(Client, r.job, body) >> \in Seq(Message)
         /\ << Msg(Client, r.job, body) >> \o ToWorker(r, body) \in Seq(Message)
<1>1. r.job \in Jobs /\ r.worker \in Workers \cup {NoWorker}
  BY DEF TypeOK
<1>2. body \in Bodies
  BY DEF Bodies, Terminal, Active
<1>3. /\ Msg(Client, r.job, body) \in Message
      /\ r.worker # NoWorker => Msg(r.worker, r.job, body) \in Message
  BY <1>1, <1>2, MsgType
<1>4. ToWorker(r, body) \in Seq(Message)
  BY <1>3 DEF ToWorker
<1>5. QED BY <1>1, <1>3, <1>4

LEMMA ReapRowStep ==
  ASSUME IInv, NEW c \in Janitors, NEW r \in batch[c], NEW expected,
         NEW verdict \in {"failed", "pending"}, NEW todo \in Seq(Message),
         ReapRow(c, r, expected, verdict, todo)
  PROVE  IInv'
<1>1. r.job \in Jobs
  BY JanitorMessages DEF IInv
<1>2. jobs[r.job] \in Row /\ OwnerSeen(jobs[r.job]) /\ jobs \in [Jobs -> Row]
  BY <1>1 DEF IInv, TypeOK
<1> DEFINE row == UpdateStatus(jobs[r.job], verdict, NoWorker)
<1>3. row \in Row /\ OwnerSeen(row)
  BY <1>2, UpdateStatusOwner DEF Statuses, Terminal, Active
<1>4. jobs' = jobs \/ jobs' = [jobs EXCEPT ![r.job] = row]
  BY <1>1, <1>2 DEF ReapRow
<1>5. QED
  <2> HIDE DEF row
  <2> QED BY <1>3, <1>4, SendingType, JanitorRowStep DEF ReapRow

LEMMA TickStep == IInv /\ Tick => IInv'
<1> SUFFICES ASSUME IInv, Tick PROVE IInv'
  OBVIOUS
<1>1. jobs' \in [Jobs -> Row] /\ \A i \in Jobs : OwnerSeen(jobs'[i])
  BY OlderType DEF IInv, TypeOK, Tick, OwnerSeen
<1>2. QED BY <1>1 DEF IInv, TypeOK, Tick
-----------------------------------------------------------------------------
(* One lemma for each group of actions.                                    *)

LEMMA RequestStep ==
  ASSUME IInv, NEW h \in Handlers, NEW j \in Jobs,
         WorkerRequest(h, j) \/ ClientRequest(h, j)
  PROVE  IInv'
<1>1. h \in Slots /\ jobs[j] \in Row /\ jobs[j].worker \in Workers \cup {NoWorker}
      /\ jobs[j].status \in Statuses
  BY DEF IInv, TypeOK, Slots, Row
<1>2. ASSUME NEW w \in Workers, NEW pc \in Writes, NEW status \in Carries[pc],
             OwnerRead(h, j, w, pc, status)
      PROVE  IInv'
  BY <1>1, <1>2, WritingType, ReadOnlyStep DEF OwnerRead
<1>3. CASE WorkerRequest(h, j)
  <2> PICK w \in Workers :
        \/ AcceptRead(h, j, w)
        \/ RejectRead(h, j, w)
        \/ \E status \in Terminal : ReportRead(h, j, w, status)
        \/ WorkerHeartbeatRead(h, j, w)
    BY <1>3 DEF WorkerRequest
  <2>1. CASE AcceptRead(h, j, w)
    BY <2>1, <1>2, WritesAre DEF AcceptRead, Carries
  <2>2. CASE RejectRead(h, j, w)
    BY <2>2, <1>2, WritesAre DEF RejectRead, Carries
  <2>3. CASE \E status \in Terminal : ReportRead(h, j, w, status)
    BY <2>3, <1>2, WritesAre DEF ReportRead, Carries
  <2>4. CASE WorkerHeartbeatRead(h, j, w)
    BY <2>4, <1>2, WritesAre DEF WorkerHeartbeatRead, Carries
  <2>5. QED BY <2>1, <2>2, <2>3, <2>4
<1>4. ASSUME NEW mon \in BOOLEAN, Submit(h, j, mon)
      PROVE  IInv'
  <2>1. CreateJob(mon) \in Row /\ OwnerSeen(CreateJob(mon))
    BY CreateJobType DEF OwnerSeen
  <2>2. jobs' \in [Jobs -> Row] /\ \A i \in Jobs : OwnerSeen(jobs'[i])
    BY <1>4, <2>1 DEF IInv, TypeOK, Submit
  <2>3. task' \in [Slots -> Task]
    BY <1>1, <1>4 DEF IInv, TypeOK, Submit, Become, Scheduled, Task
  <2>4. QED BY <1>4, <2>2, <2>3 DEF IInv, TypeOK, Submit
<1>5. CASE CancelRead(h, j)
  <2> DEFINE w == jobs[j].worker
             status == IF w # NoWorker THEN "canceling" ELSE "canceled"
  <2>1. Writing("cancel", j, w, status) \in Task
    BY <1>1, WritesAre, WritingType DEF Carries
  <2>2. QED BY <1>1, <1>5, <2>1, ReadOnlyStep DEF CancelRead
<1>6. CASE ClientHeartbeatRead(h, j)
  <2>1. jobs[j].status \in Carries["client_heartbeat"]
    BY <1>1, <1>6 DEF ClientHeartbeatRead, Exists, Statuses, Carries
  <2>2. Writing("client_heartbeat", j, jobs[j].worker, jobs[j].status) \in Task
    BY <1>1, <2>1, WritesAre, WritingType
  <2>3. QED BY <1>1, <1>6, <2>2, ReadOnlyStep DEF ClientHeartbeatRead
<1>7. QED BY <1>3, <1>4, <1>5, <1>6 DEF ClientRequest

LEMMA AssignmentStep ==
  ASSUME IInv, NEW s \in Slots, Assignment(s)
  PROVE  IInv'
<1>1. CASE AssignRead(s)
  <2> DEFINE j == task[s].job
  <2>1. j \in Jobs /\ jobs[j].worker \in Workers \cup {NoWorker}
    BY <1>1, OtherTaskHolds DEF AssignRead, IInv, TypeOK, Row
  <2>2. Selecting(j, jobs[j].worker) \in Task /\ Idle \in Task
    BY <2>1 DEF Selecting, Task
  <2>3. QED BY <1>1, <2>2, ReadOnlyStep DEF AssignRead
<1>2. ASSUME NEW online \in SUBSET Workers, AssignSelect(s, online)
      PROVE  IInv'
  <2>1. task[s].job \in Jobs
    BY <1>2, OtherTaskHolds DEF AssignSelect, IInv
  <2>2. ASSUME NEW w \in LeastLoaded(Candidates(online, task[s].worker))
        PROVE  Writing("assign", task[s].job, w, "assigned") \in Task
    <3>1. w \in Workers
      BY DEF LeastLoaded, Candidates
    <3>2. QED BY <2>1, <3>1, WritesAre, WritingType DEF Carries
  <2>3. Idle \in Task
    BY DEF Task
  <2>4. QED BY <1>2, <2>2, <2>3, ReadOnlyStep DEF AssignSelect
<1>3. CASE AssignWrite(s)
  <2> DEFINE j == task[s].job
             w == task[s].worker
             row == UpdateStatus(jobs[j], "assigned", w)
             todo == << Msg(w, j, "request"), Msg(Client, j, "assigned") >>
  <2>1. j \in Jobs /\ w \in Workers
    BY <1>3, WritesAre, WriteTaskHolds DEF AssignWrite, IInv
  <2>2. row \in Row /\ OwnerSeen(row)
    BY <2>1, UpdateStatusOwner DEF IInv, TypeOK, Statuses, Active
  <2>3. todo \in Seq(Message)
    BY <2>1, MsgType DEF Bodies, Active
  <2>4. WriteRow(s, j, row, todo)
    BY <1>3 DEF AssignWrite
  <2>5. QED
    <3> HIDE DEF j, w, row, todo
    <3> QED BY <2>1, <2>2, <2>3, <2>4, WriteRowStep
<1>4. QED BY <1>1, <1>2, <1>3 DEF Assignment

LEMMA SendStep ==
  ASSUME IInv, NEW s \in Slots, Send(s)
  PROVE  IInv'
<1> DEFINE m == Head(task[s].todo)
<1>1. task[s].todo \in Seq(Message) /\ task[s].todo # <<>>
  BY OtherTaskHolds DEF Send, IInv
<1>2. m \in Message /\ Tail(task[s].todo) \in Seq(Message)
  BY <1>1
<1>3. task' \in [Slots -> Task]
  BY <1>2, SendingType DEF IInv, TypeOK, Send, Become
<1>4. told' \in [Jobs -> SUBSET Terminal]
  BY <1>2 DEF IInv, TypeOK, Send, Message
<1>5. QED BY <1>3, <1>4 DEF IInv, TypeOK, Send

(* The writes of a request, with what makes their rows sound: accept and   *)
(* report name their worker, reject and cancel write another status.       *)
LEMMA HandlerStepStep ==
  ASSUME IInv, NEW h \in Handlers, HandlerStep(h)
  PROVE  IInv'
<1> DEFINE j == task[h].job
           w == task[h].worker
           status == task[h].status
<1>1. h \in Slots /\ TypeOK
  BY DEF Slots, IInv
<1>2. task[h].pc \in Writes =>
        /\ j \in Jobs /\ jobs[j] \in Row /\ OwnerSeen(jobs[j])
        /\ w \in Workers \cup {NoWorker}
        /\ status \in Carries[task[h].pc]
        /\ status \in Statuses /\ status \in Bodies
        /\ w = NoWorker => task[h].pc \in {"cancel", "client_heartbeat"}
  BY <1>1, WriteTaskHolds, WritesAre DEF IInv, TypeOK, Statuses, Bodies
<1>3. ASSUME task[h].pc \in Writes
      PROVE  /\ << Msg(Client, j, status) >> \in Seq(Message)
             /\ w # NoWorker =>
                  << Msg(Client, j, status), Msg(w, j, "canceling") >> \in Seq(Message)
             /\ w # NoWorker => << Msg(w, j, status) >> \in Seq(Message)
             /\ <<>> \in Seq(Message)
  <2>1. Msg(Client, j, status) \in Message
    BY <1>2, <1>3, MsgType
  <2>2. w # NoWorker => Msg(w, j, status) \in Message /\ Msg(w, j, "canceling") \in Message
    BY <1>2, <1>3, MsgType DEF Bodies, Active
  <2>3. QED
    <3> HIDE DEF j, w, status
    <3> QED BY <2>1, <2>2
<1>4. CASE AcceptWrite(h)
  <2>1. task[h].pc \in Writes /\ status = "running" /\ w # NoWorker
    BY <1>2, <1>4, WritesAre DEF AcceptWrite, Carries
  <2>2. QED BY <1>1, <1>2, <1>3, <1>4, <2>1, UpdateStatusOwner, WriteRowStep DEF AcceptWrite
<1>5. CASE RejectWrite(h)
  <2>1. task[h].pc \in Writes /\ status = "pending"
    BY <1>2, <1>5, WritesAre DEF RejectWrite, Carries
  <2>2. QED BY <1>1, <1>2, <1>3, <1>5, <2>1, UpdateStatusOwner, WriteRowStep DEF RejectWrite
<1>6. CASE ReportWrite(h)
  <2>1. task[h].pc \in Writes /\ w # NoWorker
    BY <1>2, <1>6, WritesAre DEF ReportWrite
  <2>2. QED BY <1>1, <1>2, <1>3, <1>6, <2>1, UpdateStatusOwner, WriteRowStep DEF ReportWrite
<1>7. CASE WorkerHeartbeatWrite(h)
  <2> DEFINE row == UpdateWorkerHeartbeat(jobs[j])
  <2>1. task[h].pc \in Writes /\ w # NoWorker
    BY <1>2, <1>7, WritesAre DEF WorkerHeartbeatWrite
  <2>2. row \in Row /\ OwnerSeen(row)
    BY <1>2, <2>1, WorkerHeartbeatType DEF OwnerSeen, Never
  <2>3. QED BY <1>1, <1>2, <1>3, <1>7, <2>1, <2>2, WriteRowStep DEF WorkerHeartbeatWrite
<1>8. CASE CancelWrite(h)
  <2>1. task[h].pc \in Writes /\ status \notin {"assigned", "running"}
    BY <1>2, <1>8, WritesAre DEF CancelWrite, Carries
  <2>2. QED BY <1>1, <1>2, <1>3, <1>8, <2>1, UpdateStatusOwner, WriteRowStep DEF CancelWrite
<1>9. ASSUME NEW mon, ClientHeartbeatWrite(h, mon)
      PROVE  IInv'
  <2> DEFINE row == UpdateClientHeartbeat(jobs[j], mon)
  <2>1. task[h].pc \in Writes
    BY <1>9, WritesAre DEF ClientHeartbeatWrite
  <2>2. row \in Row /\ OwnerSeen(row)
    BY <1>2, <2>1, ClientHeartbeatType DEF OwnerSeen
  <2>3. QED BY <1>1, <1>2, <1>3, <1>9, <2>1, <2>2, WriteRowStep DEF ClientHeartbeatWrite
<1>10. CASE Assignment(h)
  BY <1>1, <1>10, AssignmentStep
<1>11. CASE Send(h)
  BY <1>1, <1>11, SendStep
<1>12. QED BY <1>4, <1>5, <1>6, <1>7, <1>8, <1>9, <1>10, <1>11 DEF HandlerStep
LEMMA JanitorStepStep ==
  ASSUME IInv, NEW c \in Janitors, JanitorStep(c)
  PROVE  IInv'
<1>1. c \in Slots /\ TypeOK /\ Idle \in Task
  BY DEF Slots, IInv, Task
<1>2. CASE NextPhase(c)
  <2>1. \A j \in Jobs : jobs[j].worker \in Workers \cup {NoWorker}
    BY <1>1 DEF TypeOK, Row
  <2>2. phase' \in [Janitors -> Phases]
    BY <1>1, <1>2 DEF NextPhase, TypeOK, Phases, Following
  <2>3. batch' \in [Janitors -> SUBSET [job : Jobs, worker : Workers \cup {NoWorker}]]
    BY <1>1, <1>2, <2>1 DEF NextPhase, TypeOK
  <2>4. QED BY <1>2, <2>2, <2>3 DEF NextPhase, IInv, TypeOK
<1>3. ASSUME NEW r \in batch[c], ReapRunning(c, r)
      PROVE  IInv'
  BY <1>1, <1>3, JanitorMessages, ReapRowStep DEF ReapRunning, ToWorker
<1>4. ASSUME NEW r \in batch[c], ReapAssigned(c, r)
      PROVE  IInv'
  BY <1>1, <1>4, JanitorMessages, ReapRowStep DEF ReapAssigned
<1>5. ASSUME NEW r \in batch[c], ReapPending(c, r)
      PROVE  IInv'
  BY <1>1, <1>5, JanitorMessages, ReapRowStep DEF ReapPending
<1>6. ASSUME NEW r \in batch[c], RetryAssignment(c, r)
      PROVE  IInv'
  <2>1. r.job \in Jobs /\ Scheduled(r.job) \in Task
    BY <1>1, JanitorMessages DEF Scheduled, Task
  <2>2. jobs[r.job] \in Row /\ OwnerSeen(jobs[r.job])
    BY <2>1 DEF IInv, TypeOK
  <2>3. QED BY <1>6, <2>1, <2>2, JanitorRowStep DEF RetryAssignment
<1>7. ASSUME NEW r \in batch[c], ReapAbandoned(c, r)
      PROVE  IInv'
  <2> DEFINE row == UpdateStatus(jobs[r.job], "canceling", NoWorker)
             todo == << Msg(Client, r.job, "canceling") >> \o ToWorker(r, "canceling")
  <2>1. r.job \in Jobs /\ Sending(todo) \in Task
    BY <1>1, JanitorMessages, SendingType
  <2>2. row \in Row /\ OwnerSeen(row)
    BY <2>1, UpdateStatusOwner DEF IInv, TypeOK, Statuses, Active
  <2>3. jobs' = [jobs EXCEPT ![r.job] = row]
    BY <1>7, <2>1 DEF ReapAbandoned, IInv, TypeOK
  <2>4. QED
    <3> HIDE DEF row
    <3> QED BY <1>7, <2>1, <2>2, <2>3, JanitorRowStep DEF ReapAbandoned
<1>8. CASE Assignment(c)
  BY <1>1, <1>8, AssignmentStep
<1>9. CASE Send(c)
  BY <1>1, <1>9, SendStep
<1>10. QED BY <1>2, <1>3, <1>4, <1>5, <1>6, <1>7, <1>8, <1>9 DEF JanitorStep, Reap

LEMMA FaultStep ==
  ASSUME IInv, \/ \E s \in Slots : Fault(s)
               \/ \E c \in Janitors : AbortPass(c)
  PROVE  IInv'
<1>1. Idle \in Task /\ "asleep" \in Phases
  BY DEF Task, Phases
<1>2. /\ task' \in [Slots -> Task]
      /\ phase' \in [Janitors -> Phases]
      /\ batch' \in [Janitors -> SUBSET [job : Jobs, worker : Workers \cup {NoWorker}]]
      /\ faults' \in 0 .. MaxFaults
      /\ UNCHANGED <<jobs, told>>
  BY <1>1 DEF IInv, TypeOK, Fault, AbortPass, Become, Slots
<1>3. QED BY <1>2 DEF IInv, TypeOK

LEMMA IInvInit == Init => IInv
<1> SUFFICES ASSUME Init PROVE IInv
  OBVIOUS
<1>1. jobs \in [Jobs -> Row] /\ \A j \in Jobs : OwnerSeen(jobs[j])
  BY AbsentRowType DEF Init, OwnerSeen, AbsentRow, Absent
<1>2. QED BY <1>1 DEF Init, IInv, TypeOK, Task, Phases

LEMMA IInvNext == IInv /\ [Next]_vars => IInv'
<1> SUFFICES ASSUME IInv, [Next]_vars PROVE IInv'
  OBVIOUS
<1>1. ASSUME NEW h \in Handlers, NEW j \in Jobs, WorkerRequest(h, j) \/ ClientRequest(h, j)
      PROVE  IInv'
  BY <1>1, RequestStep
<1>2. ASSUME NEW h \in Handlers, HandlerStep(h)
      PROVE  IInv'
  BY <1>2, HandlerStepStep
<1>3. ASSUME NEW c \in Janitors, JanitorStep(c)
      PROVE  IInv'
  BY <1>3, JanitorStepStep
<1>4. CASE (\E s \in Slots : Fault(s)) \/ (\E c \in Janitors : AbortPass(c))
  BY <1>4, FaultStep
<1>5. CASE Tick
  BY <1>5, TickStep
<1>6. CASE UNCHANGED vars
  BY <1>6 DEF vars, IInv, TypeOK
<1>7. QED BY <1>1, <1>2, <1>3, <1>4, <1>5, <1>6 DEF Next

LEMMA SpecIInv == Spec => []IInv
  BY IInvInit, IInvNext, PTL DEF Spec

(* Every row, task and message is one the program can hold: in particular  *)
(* a report carries a terminal status and names its worker at its write.   *)
THEOREM TypeCorrect == Spec => []TypeOK
<1>1. IInv => TypeOK
  BY DEF IInv
<1>2. QED BY <1>1, SpecIInv, PTL

(* No race of requests and timeouts leaves an assigned or running job      *)
(* without the worker and the heartbeat stamp that the janitor times out.  *)
THEOREM Reapable == Spec => []RunningIsReapable
<1>1. IInv => RunningIsReapable
  BY DEF IInv, OwnerSeen, RunningIsReapable
<1>2. QED BY <1>1, SpecIInv, PTL
-----------------------------------------------------------------------------
(* The client is told: every write of a terminal status carries its        *)
(* message, and a message stays in its slot's task until it is sent.       *)

LEMMA AnnouncesSending ==
  ASSUME NEW todo \in Seq(Message), NEW j \in Jobs, NEW status,
         Len(todo) > 0, todo[1] = Msg(Client, j, status)
  PROVE  Announces(Sending(todo), j, status)
<1>1. todo # <<>>
  OBVIOUS
<1>2. Sending(todo).pc = "send" /\ Sending(todo).todo = todo
  BY <1>1 DEF Sending
<1>3. 1 \in 1 .. Len(todo)
  OBVIOUS
<1>4. QED BY <1>2, <1>3 DEF Announces

(* A step keeps the property if the jobs it finishes are announced, no     *)
(* announcement is dropped and nothing told is forgotten.                  *)
LEMMA ToldKept ==
  ASSUME ClientToldOutcome, faults' = 0 => faults = 0,
         \A j \in Jobs : \/ jobs'[j].status = jobs[j].status
                        \/ ~Finished(jobs'[j])
                        \/ \E s \in Slots : Announces(task'[s], j, jobs'[j].status),
         \A j \in Jobs : told[j] \subseteq told'[j],
         \A s \in Slots, j \in Jobs, status \in Terminal :
           Announces(task[s], j, status) =>
             Announces(task'[s], j, status) \/ status \in told'[j]
  PROVE  ClientToldOutcome'
<1> SUFFICES ASSUME faults' = 0, NEW j \in Jobs, Finished(jobs'[j])
             PROVE  \/ jobs'[j].status \in told'[j]
                    \/ \E s \in Slots : Announces(task'[s], j, jobs'[j].status)
  BY DEF ClientToldOutcome, Announces, Finished
<1>1. CASE jobs'[j].status = jobs[j].status
  <2>1. jobs[j].status \in Terminal
    BY <1>1 DEF Finished
  <2>2. \/ jobs[j].status \in told[j]
        \/ \E s \in Slots : Announces(task[s], j, jobs[j].status)
    BY <2>1 DEF ClientToldOutcome, Finished
  <2>3. QED BY <1>1, <2>1, <2>2
<1>2. QED BY <1>1

(* A slot that is not sending has nothing to announce.                     *)
LEMMA NotSendingKeeps ==
  ASSUME TypeOK, NEW s \in Slots, task[s].pc # "send", NEW t, Become(s, t)
  PROVE  \A r \in Slots, j \in Jobs, status \in Terminal :
           Announces(task[r], j, status) => Announces(task'[r], j, status)
  BY DEF TypeOK, Become, Announces

LEMMA WriteRowTells ==
  ASSUME TypeOK, ClientToldOutcome, NEW s \in Slots, task[s].pc # "send",
         NEW j \in Jobs, NEW row, NEW todo \in Seq(Message),
         WriteRow(s, j, row, todo),
         \/ row.status = jobs[j].status
         \/ ~Finished(row)
         \/ Len(todo) > 0 /\ todo[1] = Msg(Client, j, row.status)
  PROVE  ClientToldOutcome'
<1>1. jobs' = [jobs EXCEPT ![j] = row] /\ jobs \in [Jobs -> Row]
  BY DEF WriteRow, TypeOK
<1>2. task'[s] = Sending(todo) /\ Become(s, Sending(todo))
  BY DEF WriteRow, TypeOK, Become
<1>3. Len(todo) > 0 /\ todo[1] = Msg(Client, j, row.status) =>
        Announces(task'[s], j, row.status)
  BY <1>2, AnnouncesSending
<1>4. \A i \in Jobs : \/ jobs'[i].status = jobs[i].status
                     \/ ~Finished(jobs'[i])
                     \/ \E r \in Slots : Announces(task'[r], i, jobs'[i].status)
  <2> SUFFICES ASSUME NEW i \in Jobs
               PROVE  \/ jobs'[i].status = jobs[i].status
                      \/ ~Finished(jobs'[i])
                      \/ \E r \in Slots : Announces(task'[r], i, jobs'[i].status)
    OBVIOUS
  <2>1. CASE i # j
    BY <1>1, <2>1
  <2>2. CASE i = j
    <3>1. jobs'[j] = row
      BY <1>1
    <3>2. QED BY <2>2, <3>1, <1>3 DEF Finished
  <2>3. QED BY <2>1, <2>2
<1>5. \A r \in Slots, i \in Jobs, status \in Terminal :
        Announces(task[r], i, status) => Announces(task'[r], i, status)
  BY <1>2, NotSendingKeeps
<1>6. told' = told /\ faults' = faults
  BY DEF WriteRow
<1>7. QED BY <1>4, <1>5, <1>6, ToldKept

LEMMA ReadOnlyTells ==
  ASSUME TypeOK, ClientToldOutcome, NEW s \in Slots, task[s].pc # "send",
         NEW t, Become(s, t), UNCHANGED <<jobs, told, faults>>
  PROVE  ClientToldOutcome'
<1>1. \A r \in Slots, i \in Jobs, status \in Terminal :
        Announces(task[r], i, status) => Announces(task'[r], i, status)
  BY NotSendingKeeps
<1>2. QED BY <1>1, ToldKept

LEMMA ReapRowTells ==
  ASSUME TypeOK, ClientToldOutcome, NEW c \in Janitors, NEW r \in batch[c],
         NEW expected, NEW verdict \in Statuses, NEW todo \in Seq(Message),
         ReapRow(c, r, expected, verdict, todo),
         \/ verdict \notin Terminal
         \/ Len(todo) > 0 /\ todo[1] = Msg(Client, r.job, verdict)
  PROVE  ClientToldOutcome'
<1>1. r.job \in Jobs /\ jobs \in [Jobs -> Row] /\ c \in Slots
  BY JanitorMessages DEF TypeOK, Slots
<1>2. CASE Matches(jobs[r.job], expected)
  <2> DEFINE row == UpdateStatus(jobs[r.job], verdict, NoWorker)
  <2>1. row.status = verdict
    BY <1>1, UpdateStatusType
  <2>2. task[c].pc # "send"
    BY DEF ReapRow, Idle
  <2>3. /\ jobs' = [jobs EXCEPT ![r.job] = row]
        /\ Become(c, Sending(todo)) /\ told' = told /\ faults' = faults
    BY <1>1, <1>2 DEF ReapRow
  <2>4. task'[c] = Sending(todo)
    BY <1>1, <2>3 DEF TypeOK, Become
  <2>5. Finished(row) => Announces(task'[c], r.job, row.status)
    BY <1>1, <2>1, <2>4, AnnouncesSending DEF Finished
  <2>6. \A i \in Jobs : \/ jobs'[i].status = jobs[i].status
                       \/ ~Finished(jobs'[i])
                       \/ \E s \in Slots : Announces(task'[s], i, jobs'[i].status)
    <3> HIDE DEF row
    <3> QED BY <1>1, <2>3, <2>5
  <2>7. \A s \in Slots, i \in Jobs, status \in Terminal :
          Announces(task[s], i, status) => Announces(task'[s], i, status)
    BY <1>1, <2>2, <2>3, NotSendingKeeps
  <2>8. QED BY <2>3, <2>6, <2>7, ToldKept
<1>3. CASE ~Matches(jobs[r.job], expected)
  <2>1. UNCHANGED <<jobs, task, told, faults>>
    BY <1>3 DEF ReapRow
  <2>2. QED BY <2>1, ToldKept
<1>4. QED BY <1>2, <1>3
LEMMA SendTells ==
  ASSUME TypeOK, ClientToldOutcome, NEW s \in Slots, Send(s)
  PROVE  ClientToldOutcome'
<1> DEFINE todo == task[s].todo
           m == Head(todo)
<1>1. task[s].pc = "send" /\ todo \in Seq(Message) /\ todo # <<>>
  BY OtherTaskHolds DEF Send
<1>2. m = todo[1] /\ m \in Message /\ Tail(todo) \in Seq(Message)
      /\ Len(Tail(todo)) = Len(todo) - 1 /\ Len(todo) \in Nat
      /\ \A i \in 1 .. Len(todo) - 1 : Tail(todo)[i] = todo[i + 1]
  BY <1>1
<1>3. task' = [task EXCEPT ![s] = Sending(Tail(todo))] /\ task \in [Slots -> Task]
  BY DEF Send, Become, TypeOK
<1>4. UNCHANGED <<jobs, faults>>
  BY DEF Send
<1>5. \A j \in Jobs : told[j] \subseteq told'[j]
  BY <1>2 DEF Send, TypeOK, Message
<1>6. ASSUME NEW r \in Slots, NEW j \in Jobs, NEW status \in Terminal,
             Announces(task[r], j, status)
      PROVE  Announces(task'[r], j, status) \/ status \in told'[j]
  <2>1. CASE r # s
    BY <1>3, <1>6, <2>1
  <2>2. CASE r = s
    <3> PICK i \in 1 .. Len(todo) : todo[i] = Msg(Client, j, status)
      BY <1>6, <2>2 DEF Announces
    <3>1. CASE i = 1
      <4>1. m = Msg(Client, j, status)
        BY <3>1, <1>2
      <4>2. m.to = Client /\ m.job = j /\ m.body = status
        BY <4>1 DEF Msg
      <4>3. told' = [told EXCEPT ![j] = @ \cup {status}]
        BY <4>2 DEF Send
      <4>4. QED BY <4>3 DEF TypeOK
    <3>2. CASE i # 1
      <4>1. i - 1 \in 1 .. Len(Tail(todo)) /\ Tail(todo)[i - 1] = Msg(Client, j, status)
        <5>1. i - 1 \in 1 .. Len(todo) - 1 /\ (i - 1) + 1 = i
          BY <3>2, <1>2
        <5> DEFINE k == i - 1
        <5>2. Tail(todo)[k] = todo[k + 1]
          BY <5>1, <1>2
        <5>3. QED BY <5>1, <5>2, <1>2
      <4>2. Tail(todo) # <<>>
        <5>1. Len(Tail(todo)) > 0
          BY <3>2, <1>2
        <5> DEFINE rest == Tail(todo)
        <5>2. Len(rest) > 0
          BY <5>1
        <5> HIDE DEF rest
        <5>3. rest # <<>>
          BY <5>2
        <5>4. QED BY <5>3 DEF rest
      <4>3. task'[s] = [pc |-> "send", todo |-> Tail(todo)]
        BY <1>3, <4>2 DEF Sending
      <4>4. QED BY <2>2, <4>1, <4>3 DEF Announces
    <3>3. QED BY <3>1, <3>2
  <2>3. QED BY <2>1, <2>2
<1>7. QED BY <1>4, <1>5, <1>6, ToldKept

LEMMA RequestTells ==
  ASSUME TypeOK, ClientToldOutcome, NEW h \in Handlers, NEW j \in Jobs,
         WorkerRequest(h, j) \/ ClientRequest(h, j)
  PROVE  ClientToldOutcome'
<1>1. h \in Slots /\ Idle.pc # "send"
  BY DEF Slots, Idle
<1>2. CASE \E mon \in BOOLEAN : Submit(h, j, mon)
  <2> PICK mon \in BOOLEAN : Submit(h, j, mon)
    BY <1>2
  <2>1. task[h].pc # "send" /\ Become(h, Scheduled(j)) /\ UNCHANGED <<told, faults>>
    BY <1>1 DEF Submit
  <2>2. \A i \in Jobs : jobs'[i].status = jobs[i].status \/ ~Finished(jobs'[i])
    BY CreateJobType DEF Submit, TypeOK, Finished, Terminal
  <2>3. \A r \in Slots, i \in Jobs, status \in Terminal :
          Announces(task[r], i, status) => Announces(task'[r], i, status)
    BY <1>1, <2>1, NotSendingKeeps
  <2>4. faults' = faults /\ \A i \in Jobs : told[i] \subseteq told'[i]
    BY <2>1
  <2>5. QED BY <2>2, <2>3, <2>4, ToldKept
<1>3. CASE CancelRead(h, j)
  BY <1>1, <1>3, ReadOnlyTells DEF CancelRead, ReadOnly
<1>4. CASE ClientHeartbeatRead(h, j)
  BY <1>1, <1>4, ReadOnlyTells DEF ClientHeartbeatRead, ReadOnly
<1>5. ASSUME NEW w \in Workers, NEW pc, NEW status, OwnerRead(h, j, w, pc, status)
      PROVE  ClientToldOutcome'
  BY <1>1, <1>5, ReadOnlyTells DEF OwnerRead, ReadOnly
<1>6. CASE WorkerRequest(h, j)
  BY <1>5, <1>6 DEF WorkerRequest, AcceptRead, RejectRead, ReportRead, WorkerHeartbeatRead
<1>7. QED BY <1>2, <1>3, <1>4, <1>6 DEF ClientRequest

LEMMA AssignmentTells ==
  ASSUME TypeOK, ClientToldOutcome, NEW s \in Slots, Assignment(s)
  PROVE  ClientToldOutcome'
<1>1. CASE AssignRead(s)
  BY <1>1, ReadOnlyTells DEF AssignRead, ReadOnly
<1>2. CASE \E online \in SUBSET Workers : AssignSelect(s, online)
  BY <1>2, ReadOnlyTells DEF AssignSelect, ReadOnly
<1>3. CASE AssignWrite(s)
  <2> DEFINE j == task[s].job
             w == task[s].worker
             row == UpdateStatus(jobs[j], "assigned", w)
             todo == << Msg(w, j, "request"), Msg(Client, j, "assigned") >>
  <2>1. j \in Jobs /\ w \in Workers /\ jobs[j] \in Row
    BY <1>3, WritesAre, WriteTaskHolds DEF AssignWrite, TypeOK
  <2>2. ~Finished(row)
    <3>1. "assigned" \in Statuses
      BY DEF Statuses, Active
    <3>2. row.status = "assigned"
      BY <2>1, <3>1, UpdateStatusType
    <3>3. QED BY <3>2 DEF Finished, Terminal
  <2>3. todo \in Seq(Message)
    BY <2>1, MsgType DEF Bodies, Active
  <2>4. WriteRow(s, j, row, todo) /\ task[s].pc # "send"
    BY <1>3 DEF AssignWrite
  <2>5. QED
    <3> HIDE DEF j, w, row, todo
    <3> QED BY <2>1, <2>2, <2>3, <2>4, WriteRowTells
<1>4. QED BY <1>1, <1>2, <1>3 DEF Assignment

LEMMA HandlerStepTells ==
  ASSUME TypeOK, ClientToldOutcome, NEW h \in Handlers, HandlerStep(h)
  PROVE  ClientToldOutcome'
<1> DEFINE j == task[h].job
           w == task[h].worker
           status == task[h].status
           reported == << Msg(Client, j, status) >>
           both == << Msg(Client, j, status), Msg(w, j, "canceling") >>
<1>1. h \in Slots
  BY DEF Slots
<1>2. task[h].pc \in Writes =>
        /\ j \in Jobs /\ jobs[j] \in Row
        /\ w \in Workers \cup {NoWorker}
        /\ status \in Statuses /\ status \in Bodies
        /\ w = NoWorker => task[h].pc \in {"cancel", "client_heartbeat"}
  BY <1>1, WriteTaskHolds, WritesAre DEF TypeOK, Statuses, Bodies
<1>3. ASSUME task[h].pc \in Writes
      PROVE  /\ reported \in Seq(Message) /\ Len(reported) > 0
             /\ reported[1] = Msg(Client, j, status)
             /\ w # NoWorker => both \in Seq(Message)
             /\ Len(both) > 0 /\ both[1] = Msg(Client, j, status)
             /\ w # NoWorker => << Msg(w, j, status) >> \in Seq(Message)
             /\ <<>> \in Seq(Message)
  <2>1. Msg(Client, j, status) \in Message
    BY <1>2, <1>3, MsgType
  <2>2. w # NoWorker => Msg(w, j, status) \in Message /\ Msg(w, j, "canceling") \in Message
    BY <1>2, <1>3, MsgType DEF Bodies, Active
  <2>3. QED
    <3> HIDE DEF j, w, status
    <3> QED BY <2>1, <2>2
<1> HIDE DEF reported, both
<1>4. ASSUME task[h].pc \in Writes, NEW v \in Workers \cup {NoWorker},
             NEW todo \in {reported, both}, todo = both => w # NoWorker,
             WriteRow(h, j, UpdateStatus(jobs[j], status, v), todo)
      PROVE  ClientToldOutcome'
  <2>1. UpdateStatus(jobs[j], status, v).status = status
    BY <1>2, <1>4, UpdateStatusType
  <2>2. todo \in Seq(Message) /\ Len(todo) > 0 /\ todo[1] = Msg(Client, j, status)
    BY <1>3, <1>4
  <2>3. task[h].pc # "send"
    BY <1>4, WritesAre
  <2>4. QED BY <1>1, <1>2, <1>4, <2>1, <2>2, <2>3, WriteRowTells
<1>5. CASE AcceptWrite(h)
  <2>1. /\ task[h].pc \in Writes /\ status = "running" /\ w # NoWorker
        /\ WriteRow(h, j, UpdateStatus(jobs[j], status, w), reported)
    BY <1>1, <1>2, <1>5, WritesAre, WriteTaskHolds DEF AcceptWrite, Carries, reported
  <2>2. QED BY <1>2, <1>3, <1>4, <2>1
<1>6. CASE RejectWrite(h)
  <2>1. /\ task[h].pc \in Writes /\ status = "pending" /\ w # NoWorker
        /\ WriteRow(h, j, UpdateStatus(jobs[j], status, NoWorker), reported)
    BY <1>1, <1>2, <1>6, WritesAre, WriteTaskHolds DEF RejectWrite, Carries, reported
  <2>2. QED BY <1>2, <1>3, <1>4, <2>1
<1>7. CASE ReportWrite(h)
  <2>1. /\ task[h].pc \in Writes /\ w # NoWorker
        /\ WriteRow(h, j, UpdateStatus(jobs[j], status, w), reported)
    BY <1>2, <1>7, WritesAre DEF ReportWrite, reported
  <2>2. QED BY <1>2, <1>3, <1>4, <2>1
<1>8. CASE CancelWrite(h)
  <2>1. /\ task[h].pc \in Writes
        /\ WriteRow(h, j, UpdateStatus(jobs[j], status, w),
                    IF w # NoWorker THEN both ELSE reported)
    BY <1>8, WritesAre DEF CancelWrite, reported, both
  <2>2. Len(reported) = 1 /\ Len(both) = 2
    BY DEF reported, both
  <2>3. reported # both
    BY <2>2
  <2>4. QED BY <1>2, <1>4, <2>1, <2>3
<1>9. CASE WorkerHeartbeatWrite(h)
  <2>1. task[h].pc \in Writes /\ task[h].pc # "send" /\ w # NoWorker
    BY <1>2, <1>9, WritesAre DEF WorkerHeartbeatWrite
  <2>2. UpdateWorkerHeartbeat(jobs[j]).status = jobs[j].status
    BY <1>2, <2>1, WorkerHeartbeatType
  <2>3. \/ WriteRow(h, j, UpdateWorkerHeartbeat(jobs[j]), reported)
        \/ WriteRow(h, j, UpdateWorkerHeartbeat(jobs[j]), << Msg(w, j, status) >>)
    BY <1>9 DEF WorkerHeartbeatWrite, reported
  <2>4. QED BY <1>1, <1>2, <1>3, <2>1, <2>2, <2>3, WriteRowTells
<1>10. ASSUME NEW mon, ClientHeartbeatWrite(h, mon)
       PROVE  ClientToldOutcome'
  <2>1. task[h].pc \in Writes /\ task[h].pc # "send"
    BY <1>10, WritesAre DEF ClientHeartbeatWrite
  <2>2. UpdateClientHeartbeat(jobs[j], mon).status = jobs[j].status
    BY <1>2, <2>1, ClientHeartbeatType
  <2>3. \/ WriteRow(h, j, UpdateClientHeartbeat(jobs[j], mon), reported)
        \/ WriteRow(h, j, UpdateClientHeartbeat(jobs[j], mon), <<>>)
    BY <1>10 DEF ClientHeartbeatWrite, reported
  <2>4. QED BY <1>1, <1>2, <1>3, <2>1, <2>2, <2>3, WriteRowTells
<1>11. CASE Assignment(h)
  BY <1>1, <1>11, AssignmentTells
<1>12. CASE Send(h)
  BY <1>1, <1>12, SendTells
<1>13. QED BY <1>5, <1>6, <1>7, <1>8, <1>9, <1>10, <1>11, <1>12 DEF HandlerStep
LEMMA JanitorStepTells ==
  ASSUME TypeOK, ClientToldOutcome, NEW c \in Janitors, JanitorStep(c)
  PROVE  ClientToldOutcome'
<1>1. c \in Slots /\ Idle.pc # "send"
  BY DEF Slots, Idle
<1>2. CASE NextPhase(c)
  BY <1>2, ToldKept DEF NextPhase
<1>3. ASSUME NEW r \in batch[c], ReapRunning(c, r)
      PROVE  ClientToldOutcome'
  <2> DEFINE todo == << Msg(Client, r.job, "failed") >> \o ToWorker(r, "failed")
  <2>1. todo \in Seq(Message) /\ "failed" \in Statuses
    BY JanitorMessages DEF Statuses, Terminal
  <2>2. Len(todo) > 0 /\ todo[1] = Msg(Client, r.job, "failed")
    <3>1. << Msg(Client, r.job, "failed") >> \in Seq(Message) /\ ToWorker(r, "failed") \in Seq(Message)
      BY JanitorMessages
    <3>2. QED BY <3>1
  <2>3. QED
    <3>1. ReapRow(c, r, "running", "failed", todo)
      BY <1>3 DEF ReapRunning
    <3> HIDE DEF todo
    <3>2. QED BY <2>1, <2>2, <3>1, ReapRowTells
<1>4. ASSUME NEW r \in batch[c], ReapAssigned(c, r)
      PROVE  ClientToldOutcome'
  <2>1. ToWorker(r, "canceled") \in Seq(Message)
    BY JanitorMessages
  <2>2. "pending" \in Statuses /\ "pending" \notin Terminal
    BY DEF Statuses, Active, Terminal
  <2>3. QED BY <1>4, <2>1, <2>2, ReapRowTells DEF ReapAssigned
<1>5. ASSUME NEW r \in batch[c], ReapPending(c, r)
      PROVE  ClientToldOutcome'
  <2> DEFINE todo == << Msg(Client, r.job, "failed") >>
  <2>1. todo \in Seq(Message) /\ "failed" \in Statuses
    BY JanitorMessages DEF Statuses, Terminal
  <2>2. Len(todo) > 0 /\ todo[1] = Msg(Client, r.job, "failed")
    OBVIOUS
  <2>3. ReapRow(c, r, "pending", "failed", todo)
    BY <1>5 DEF ReapPending
  <2>4. QED
    <3> HIDE DEF todo
    <3> QED BY <2>1, <2>2, <2>3, ReapRowTells
<1>6. ASSUME NEW r \in batch[c], RetryAssignment(c, r)
      PROVE  ClientToldOutcome'
  BY <1>1, <1>6, ReadOnlyTells DEF RetryAssignment
<1>7. ASSUME NEW r \in batch[c], ReapAbandoned(c, r)
      PROVE  ClientToldOutcome'
  <2> DEFINE row == UpdateStatus(jobs[r.job], "canceling", NoWorker)
             t == Sending(<< Msg(Client, r.job, "canceling") >> \o ToWorker(r, "canceling"))
  <2>1. r.job \in Jobs /\ jobs \in [Jobs -> Row]
    BY JanitorMessages DEF TypeOK
  <2>2. row.status = "canceling"
    BY <2>1, UpdateStatusType DEF Statuses, Active
  <2>3. /\ jobs' = [jobs EXCEPT ![r.job] = row]
        /\ Become(c, t) /\ task[c].pc # "send"
        /\ told' = told /\ faults' = faults
    BY <1>1, <1>7, <2>1 DEF ReapAbandoned
  <2>4. \A i \in Jobs : jobs'[i].status = jobs[i].status \/ ~Finished(jobs'[i])
    <3>1. ~Finished(row)
      BY <2>2 DEF Finished, Terminal
    <3> HIDE DEF row
    <3>2. QED BY <2>1, <2>3, <3>1
  <2>5. \A s \in Slots, i \in Jobs, status \in Terminal :
          Announces(task[s], i, status) => Announces(task'[s], i, status)
    BY <1>1, <2>3, NotSendingKeeps
  <2>6. QED BY <2>3, <2>4, <2>5, ToldKept
<1>8. CASE Assignment(c)
  BY <1>1, <1>8, AssignmentTells
<1>9. CASE Send(c)
  BY <1>1, <1>9, SendTells
<1>10. QED BY <1>2, <1>3, <1>4, <1>5, <1>6, <1>7, <1>8, <1>9 DEF JanitorStep, Reap

(* As long as no handler fails or crashes, whoever finishes a job, and     *)
(* whatever status that overwrites, the client has been or will be sent    *)
(* the status that the table holds.                                        *)
THEOREM Told == Spec => []ClientToldOutcome
<1>1. Init => ClientToldOutcome
  BY DEF Init, ClientToldOutcome, Finished, AbsentRow, Absent, Terminal
<1>2. TypeOK /\ ClientToldOutcome /\ [Next]_vars => ClientToldOutcome'
  <2> SUFFICES ASSUME TypeOK, ClientToldOutcome, [Next]_vars PROVE ClientToldOutcome'
    OBVIOUS
  <2>1. ASSUME NEW h \in Handlers, NEW j \in Jobs, WorkerRequest(h, j) \/ ClientRequest(h, j)
        PROVE  ClientToldOutcome'
    BY <2>1, RequestTells
  <2>2. ASSUME NEW h \in Handlers, HandlerStep(h)
        PROVE  ClientToldOutcome'
    BY <2>2, HandlerStepTells
  <2>3. ASSUME NEW c \in Janitors, JanitorStep(c)
        PROVE  ClientToldOutcome'
    BY <2>3, JanitorStepTells
  <2>4. CASE (\E s \in Slots : Fault(s)) \/ (\E c \in Janitors : AbortPass(c))
    <3>1. faults \in Nat /\ faults' = faults + 1
      BY <2>4 DEF TypeOK, Fault, AbortPass
    <3>2. faults' # 0
      BY <3>1
    <3>3. QED BY <3>2 DEF ClientToldOutcome
  <2>5. CASE Tick
    <3>1. \A j \in Jobs : jobs'[j].status = jobs[j].status
      BY <2>5, OlderType DEF Tick, TypeOK
    <3>2. UNCHANGED <<task, told, faults>>
      BY <2>5 DEF Tick
    <3>3. QED BY <3>1, <3>2, ToldKept
  <2>6. CASE UNCHANGED vars
    <3>1. UNCHANGED <<jobs, task, told, faults>>
      BY <2>6 DEF vars
    <3>2. QED BY <3>1, ToldKept
  <2>7. QED BY <2>1, <2>2, <2>3, <2>4, <2>5, <2>6 DEF Next
<1>3. QED BY <1>1, <1>2, TypeCorrect, PTL DEF Spec
-----------------------------------------------------------------------------
(* Action properties.                                                      *)

(* Only a janitor's own step changes its batch.                            *)
LEMMA BatchChanges ==
  ASSUME TypeOK, Next, NEW c \in Janitors, batch'[c] # batch[c]
  PROVE  NextPhase(c) \/ AbortPass(c) \/ \E r \in batch[c] : Reap(c, r)
<1>1. CASE \E h \in Handlers, j \in Jobs : WorkerRequest(h, j) \/ ClientRequest(h, j)
  BY <1>1 DEF WorkerRequest, AcceptRead, RejectRead, ReportRead, WorkerHeartbeatRead, OwnerRead,
              ClientRequest, Submit, CancelRead, ClientHeartbeatRead, ReadOnly
<1>2. \A s : Assignment(s) => batch' = batch
  BY DEF Assignment, AssignRead, AssignSelect, AssignWrite, ReadOnly, WriteRow
<1>3. CASE \E h \in Handlers : HandlerStep(h)
  BY <1>2, <1>3 DEF HandlerStep, AcceptWrite, RejectWrite, ReportWrite, WorkerHeartbeatWrite,
                    CancelWrite, ClientHeartbeatWrite, Send, WriteRow
<1>4. ASSUME NEW d \in Janitors, JanitorStep(d)
      PROVE  NextPhase(c) \/ \E r \in batch[c] : Reap(c, r)
  <2>1. CASE NextPhase(d)
    BY <2>1 DEF NextPhase, TypeOK
  <2>2. ASSUME NEW r \in batch[d], Reap(d, r)
        PROVE  \E q \in batch[c] : Reap(c, q)
    <3>1. batch' = [batch EXCEPT ![d] = @ \ {r}]
      BY <2>2 DEF Reap, ReapRunning, ReapAssigned, RetryAssignment, ReapPending, ReapAbandoned, ReapRow
    <3>2. d = c
      BY <3>1 DEF TypeOK
    <3>3. QED BY <2>2, <3>2
  <2>3. CASE Assignment(d) \/ Send(d)
    BY <1>2, <2>3 DEF Send
  <2>4. QED BY <1>4, <2>1, <2>2, <2>3 DEF JanitorStep
<1>5. CASE \E s \in Slots : Fault(s)
  BY <1>5 DEF Fault
<1>6. CASE \E d \in Janitors : AbortPass(d)
  BY <1>6 DEF AbortPass, TypeOK
<1>7. CASE Tick
  BY <1>7 DEF Tick
<1>8. QED BY <1>1, <1>3, <1>4, <1>5, <1>6, <1>7 DEF Next

(* A timeout that comes up late in its batch leaves a job alone that has   *)
(* another status by then.                                                 *)
THEOREM TimeoutsAreGuarded == Spec => TimeoutsNeverClobber
<1> DEFINE Guarded ==
      \A c \in Janitors, j \in Jobs :
        (/\ phase[c] \in DOMAIN TimedOut
         /\ phase'[c] = phase[c]
         /\ batch'[c] # batch[c]
         /\ jobs'[j] # jobs[j])
        => jobs[j].status = TimedOut[phase[c]]
<1>1. TypeOK /\ [Next]_vars => [Guarded]_vars
  <2> SUFFICES ASSUME TypeOK, Next, NEW c \in Janitors, NEW j \in Jobs,
                      phase[c] \in DOMAIN TimedOut,
                      phase'[c] = phase[c], batch'[c] # batch[c], jobs'[j] # jobs[j]
               PROVE  jobs[j].status = TimedOut[phase[c]]
    OBVIOUS
  <2>1. phase[c] \in {"running", "assigned", "timeout"}
    BY DEF TimedOut
  <2>2. ~NextPhase(c)
    BY <2>1 DEF NextPhase, Following, TypeOK
  <2>3. ~AbortPass(c)
    BY <2>1 DEF AbortPass, TypeOK
  <2> PICK r \in batch[c] : Reap(c, r)
    BY <2>2, <2>3, BatchChanges
  <2>4. ASSUME NEW expected, NEW verdict, NEW todo, ReapRow(c, r, expected, verdict, todo)
        PROVE  jobs[j].status = expected
    BY <2>4 DEF ReapRow, Matches, TypeOK
  <2>5. CASE ReapRunning(c, r)
    BY <2>4, <2>5 DEF ReapRunning, TimedOut
  <2>6. CASE ReapAssigned(c, r)
    BY <2>4, <2>6 DEF ReapAssigned, TimedOut
  <2>7. CASE ReapPending(c, r)
    BY <2>4, <2>7 DEF ReapPending, TimedOut
  <2>8. CASE RetryAssignment(c, r) \/ ReapAbandoned(c, r)
    BY <2>1, <2>8 DEF RetryAssignment, ReapAbandoned
  <2>9. QED BY <2>5, <2>6, <2>7, <2>8 DEF Reap
<1>2. QED BY <1>1, TypeCorrect, PTL DEF Spec, TimeoutsNeverClobber

(* A write of a status, as OutcomeIsAttributed sees it.                    *)
LEMMA CompletedByWrite ==
  ASSUME TypeOK,
         NEW j \in Jobs, jobs[j].status # "completed", jobs'[j].status = "completed"
  PROVE  \A i \in Jobs, status \in Statuses, w \in Workers \cup {NoWorker} :
           jobs' = [jobs EXCEPT ![i] = UpdateStatus(jobs[i], status, w)] =>
             j = i /\ status = "completed" /\ (w # NoWorker => jobs'[j].worker = w)
<1> TAKE i \in Jobs, status \in Statuses, w \in Workers \cup {NoWorker}
<1> HAVE jobs' = [jobs EXCEPT ![i] = UpdateStatus(jobs[i], status, w)]
<1> DEFINE row == UpdateStatus(jobs[i], status, w)
<1>1. row.status = status /\ (w # NoWorker => row.worker = w)
  BY UpdateStatusType DEF TypeOK
<1>2. jobs \in [Jobs -> Row]
  BY DEF TypeOK
<1>3. jobs' = [jobs EXCEPT ![i] = row]
  OBVIOUS
<1> HIDE DEF row
<1>4. QED BY <1>1, <1>2, <1>3

(* However its handlers interleave, a job completes only by a report, and  *)
(* the row then names the worker that made it.                             *)
THEOREM OutcomesAreReported == Spec => OutcomeIsAttributed
<1> DEFINE Attributed ==
      \A j \in Jobs :
        (jobs[j].status # "completed" /\ jobs'[j].status = "completed") =>
          \E h \in Handlers : /\ task[h].pc = "report"
                              /\ task[h].job = j
                              /\ jobs'[j].worker = task[h].worker
<1>1. TypeOK /\ [Next]_vars => [Attributed]_vars
  <2> SUFFICES ASSUME TypeOK, Next, NEW j \in Jobs,
                      jobs[j].status # "completed", jobs'[j].status = "completed"
               PROVE  \E h \in Handlers : /\ task[h].pc = "report"
                                          /\ task[h].job = j
                                          /\ jobs'[j].worker = task[h].worker
    OBVIOUS
  <2> jobs' # jobs
    OBVIOUS
  <2>1. \A i \in Jobs, status \in Statuses, w \in Workers \cup {NoWorker} :
          jobs' = [jobs EXCEPT ![i] = UpdateStatus(jobs[i], status, w)] =>
            j = i /\ status = "completed" /\ (w # NoWorker => jobs'[j].worker = w)
    BY CompletedByWrite
  <2>2. ASSUME NEW h \in Handlers, NEW i \in Jobs, WorkerRequest(h, i) \/ ClientRequest(h, i)
        PROVE  FALSE
    <3> PICK mon \in BOOLEAN : Submit(h, i, mon)
      BY <2>2 DEF WorkerRequest, AcceptRead, RejectRead, ReportRead, WorkerHeartbeatRead,
                        OwnerRead, ClientRequest, CancelRead, ClientHeartbeatRead, ReadOnly
    <3>1. QED BY CreateJobType DEF Submit, TypeOK
  <2>3. ASSUME NEW s \in Slots, Assignment(s)
        PROVE  FALSE
    <3>1. AssignWrite(s)
      BY <2>3 DEF Assignment, AssignRead, AssignSelect, ReadOnly
    <3>2. task[s].job \in Jobs /\ task[s].worker \in Workers /\ "assigned" \in Statuses
      BY <3>1, WritesAre, WriteTaskHolds DEF AssignWrite, Statuses, Active
    <3>3. jobs' = [jobs EXCEPT ![task[s].job] =
                     UpdateStatus(jobs[task[s].job], "assigned", task[s].worker)]
      BY <3>1 DEF AssignWrite, WriteRow
    <3>4. "assigned" = "completed"
      BY <2>1, <3>2, <3>3, Zenon
    <3>5. QED BY <3>4
  <2>4. ASSUME NEW h \in Handlers, HandlerStep(h)
        PROVE  task[h].pc = "report" /\ task[h].job = j /\ jobs'[j].worker = task[h].worker
    <3>1. h \in Slots
      BY DEF Slots
    <3>2. task[h].pc \in Writes =>
            /\ task[h].job \in Jobs /\ jobs[task[h].job] \in Row
            /\ task[h].worker \in Workers \cup {NoWorker}
            /\ task[h].status \in Carries[task[h].pc] /\ task[h].status \in Statuses
            /\ task[h].worker = NoWorker => task[h].pc \in {"cancel", "client_heartbeat"}
      BY <3>1, WriteTaskHolds, WritesAre DEF TypeOK, Statuses
    <3>3. CASE AcceptWrite(h) \/ RejectWrite(h) \/ CancelWrite(h)
      <4>1. task[h].pc \in Writes /\ task[h].status # "completed"
        BY <3>2, <3>3, WritesAre DEF AcceptWrite, RejectWrite, CancelWrite, Carries
      <4>2. PICK w \in Workers \cup {NoWorker}, status \in Statuses :
              /\ status # "completed"
              /\ jobs' = [jobs EXCEPT ![task[h].job] = UpdateStatus(jobs[task[h].job], status, w)]
        <5>1. CASE AcceptWrite(h)
          BY <3>2, <4>1, <5>1 DEF AcceptWrite, WriteRow, Statuses, Active
        <5>2. CASE RejectWrite(h)
          BY <3>2, <4>1, <5>2 DEF RejectWrite, WriteRow, Statuses, Active
        <5>3. CASE CancelWrite(h)
          BY <3>2, <4>1, <5>3 DEF CancelWrite, WriteRow
        <5>4. QED BY <3>3, <5>1, <5>2, <5>3
      <4>3. task[h].job \in Jobs
        BY <3>2, <4>1
      <4>4. status = "completed"
        BY <2>1, <4>2, <4>3, Zenon
      <4>5. QED BY <4>2, <4>4
    <3>4. CASE ReportWrite(h)
      <4>1. task[h].pc = "report" /\ task[h].pc \in Writes /\ task[h].worker # NoWorker
        BY <3>2, <3>4, WritesAre DEF ReportWrite
      <4>2. jobs' = [jobs EXCEPT ![task[h].job] =
                       UpdateStatus(jobs[task[h].job], task[h].status, task[h].worker)]
        BY <3>4 DEF ReportWrite, WriteRow
      <4>3. /\ task[h].job \in Jobs /\ task[h].worker \in Workers \cup {NoWorker}
            /\ task[h].status \in Statuses
        BY <3>2, <4>1
      <4>4. j = task[h].job /\ (task[h].worker # NoWorker => jobs'[j].worker = task[h].worker)
        BY <2>1, <4>2, <4>3, Zenon
      <4>5. QED BY <4>1, <4>4
    <3>5. CASE WorkerHeartbeatWrite(h)
      <4>1. task[h].pc \in Writes
        BY <3>5, WritesAre DEF WorkerHeartbeatWrite
      <4>2. QED BY <3>2, <3>5, <4>1, WorkerHeartbeatType DEF WorkerHeartbeatWrite, WriteRow, TypeOK
    <3>6. ASSUME NEW mon, ClientHeartbeatWrite(h, mon)
          PROVE  FALSE
      <4>1. task[h].pc \in Writes
        BY <3>6, WritesAre DEF ClientHeartbeatWrite
      <4>2. QED BY <3>2, <3>6, <4>1, ClientHeartbeatType DEF ClientHeartbeatWrite, WriteRow, TypeOK
    <3>7. ~Send(h) /\ ~Assignment(h)
      BY <2>3, <3>1 DEF Send
    <3>8. QED BY <2>4, <3>3, <3>4, <3>5, <3>6, <3>7 DEF HandlerStep
  <2>5. ASSUME NEW c \in Janitors, JanitorStep(c)
        PROVE  FALSE
    <3>1. ~NextPhase(c) /\ ~Assignment(c) /\ ~Send(c)
      BY <2>3 DEF NextPhase, Send, Slots
    <3> PICK r \in batch[c] : Reap(c, r)
      BY <2>5, <3>1 DEF JanitorStep
    <3>2. r.job \in Jobs
      BY JanitorMessages
    <3>3. \E verdict \in {"failed", "pending", "canceling"} :
            jobs' = [jobs EXCEPT ![r.job] = UpdateStatus(jobs[r.job], verdict, NoWorker)]
      BY <3>2 DEF Reap, ReapRunning, ReapAssigned, RetryAssignment, ReapPending,
                        ReapAbandoned, ReapRow, TypeOK
    <3>4. QED BY <2>1, <3>2, <3>3 DEF Statuses, Terminal, Active
  <2>6. ~Tick
    BY OlderType DEF Tick, TypeOK
  <2>7. ~(\E s \in Slots : Fault(s)) /\ ~(\E c \in Janitors : AbortPass(c))
    BY DEF Fault, AbortPass
  <2>8. QED BY <2>2, <2>4, <2>5, <2>6, <2>7 DEF Next
<1>2. QED BY <1>1, TypeCorrect, PTL DEF Spec, OutcomeIsAttributed
=============================================================================
