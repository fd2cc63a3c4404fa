--------------------------- MODULE SessionProofs ---------------------------
(***************************************************************************)
(* Theorems about Session, for any jobs, workers, overlapping requests and *)
(* sessions.  What its coordinator does to rows and slots is not proved    *)
(* again: it is what CoordinatorProofs says of the same handlers.          *)
(***************************************************************************)
EXTENDS Session, TLAPS

USE SessionAssumption

Base == INSTANCE CoordinatorProofs WITH
          told <- inbox, Janitors <- {}, phase <- <<>>, batch <- <<>>,
          faults <- 0, MaxFaults <- 0,
          RetryDelay <- 0, AssignTimeout <- 0, PendingTimeout <- 0, HeartbeatTimeout <- 0

-----------------------------------------------------------------------------
(* The two instances of the coordinator are the same.                      *)

LEMMA SameValues ==
  /\ Coord!Idle = Base!Idle
  /\ Coord!Terminal = Base!Terminal
  /\ Coord!Active = Base!Active
  /\ Coord!AbsentRow = Base!AbsentRow
  BY Zenon
  DEF Coord!Idle, Coord!Terminal, Coord!Active, Coord!AbsentRow, Coord!Absent,
      Coord!Never, Base!Idle, Base!Terminal, Base!Active, Base!AbsentRow,
      Base!Absent, Base!Never

LEMMA SameTypes == Coord!TypeOK <=> Base!TypeOK
  BY Zenon
  DEF Coord!TypeOK, Coord!Row, Coord!Statuses, Coord!Terminal, Coord!Active,
      Coord!Absent, Coord!UpdateHorizon, Coord!SeenHorizon, Coord!AgesTo,
      Coord!Never, Coord!Slots, Coord!Task, Coord!WriteTask, Coord!Writes,
      Coord!Carries, Coord!Idle, Coord!Message, Coord!Bodies, Coord!Phases,
      Base!TypeOK, Base!Row, Base!Statuses, Base!Terminal, Base!Active, Base!Absent,
      Base!UpdateHorizon, Base!SeenHorizon, Base!AgesTo, Base!Never, Base!Slots,
      Base!Task, Base!WriteTask, Base!Writes, Base!Carries, Base!Idle, Base!Message,
      Base!Bodies, Base!Phases

LEMMA SameRequests ==
  ASSUME NEW h, NEW j
  PROVE  /\ Coord!WorkerRequest(h, j) => Base!WorkerRequest(h, j)
         /\ \A mon : Coord!Submit(h, j, mon) => Base!Submit(h, j, mon)
         /\ Coord!CancelRead(h, j) => Base!CancelRead(h, j)
         /\ Coord!ClientHeartbeatRead(h, j) => Base!ClientHeartbeatRead(h, j)
  BY Zenon
  DEF Coord!WorkerRequest, Coord!AcceptRead, Coord!RejectRead, Coord!ReportRead,
      Coord!WorkerHeartbeatRead, Coord!OwnerRead, Coord!Exists, Coord!Absent,
      Coord!Finished, Coord!Terminal, Coord!Active, Coord!Become, Coord!Writing,
      Coord!ReadOnly, Coord!Idle, Coord!Submit, Coord!CreateJob, Coord!Never,
      Coord!Scheduled, Coord!CancelRead, Coord!ClientHeartbeatRead,
      Base!WorkerRequest, Base!AcceptRead, Base!RejectRead, Base!ReportRead,
      Base!WorkerHeartbeatRead, Base!OwnerRead, Base!Exists, Base!Absent,
      Base!Finished, Base!Terminal, Base!Active, Base!Become, Base!Writing,
      Base!ReadOnly, Base!Idle, Base!Submit, Base!CreateJob, Base!Never,
      Base!Scheduled, Base!CancelRead, Base!ClientHeartbeatRead

LEMMA SameServing ==
  ASSUME NEW h
  PROVE  /\ Coord!AssignRead(h) => Base!AssignRead(h)
         /\ Coord!AssignWrite(h) => Base!AssignWrite(h)
         /\ Coord!AcceptWrite(h) => Base!AcceptWrite(h)
         /\ Coord!RejectWrite(h) => Base!RejectWrite(h)
         /\ Coord!ReportWrite(h) => Base!ReportWrite(h)
         /\ Coord!WorkerHeartbeatWrite(h) => Base!WorkerHeartbeatWrite(h)
         /\ Coord!CancelWrite(h) => Base!CancelWrite(h)
         /\ \A mon : Coord!ClientHeartbeatWrite(h, mon) => Base!ClientHeartbeatWrite(h, mon)
         /\ Coord!Send(h) => Base!Send(h)
  BY Zenon
  DEF Coord!AssignRead, Coord!AssignWrite, Coord!AcceptWrite, Coord!RejectWrite,
      Coord!ReportWrite, Coord!WorkerHeartbeatWrite, Coord!CancelWrite,
      Coord!ClientHeartbeatWrite, Coord!Send, Coord!UpdateClientHeartbeat,
      Coord!UpdateWorkerHeartbeat, Coord!Terminal, Coord!Become, Coord!Selecting,
      Coord!ReadOnly, Coord!WriteRow, Coord!UpdateStatus, Coord!Msg, Coord!Sending,
      Coord!Idle, Base!AssignRead, Base!AssignWrite, Base!AcceptWrite,
      Base!RejectWrite, Base!ReportWrite, Base!WorkerHeartbeatWrite,
      Base!CancelWrite, Base!ClientHeartbeatWrite, Base!Send,
      Base!UpdateClientHeartbeat, Base!UpdateWorkerHeartbeat, Base!Terminal,
      Base!Become, Base!Selecting, Base!ReadOnly, Base!WriteRow, Base!UpdateStatus,
      Base!Msg, Base!Sending, Base!Idle

(* A worker is selected among those online, whatever their loads.          *)
LEMMA SameSelection ==
  ASSUME NEW h, NEW online \in SUBSET Workers, Coord!AssignSelect(h, online)
  PROVE  /\ task[h].pc = "select"
         /\ Base!ReadOnly
         /\ \/ Base!Become(h, Base!Idle)
            \/ \E w \in Workers : Base!Become(h, Base!Writing("assign", task[h].job, w, "assigned"))
  BY DEF Coord!AssignSelect, Coord!LeastLoaded, Coord!Candidates, Coord!Become, Coord!Idle,
         Coord!Writing, Coord!ReadOnly, Base!Become, Base!Idle, Base!Writing, Base!ReadOnly

-----------------------------------------------------------------------------
(* The inductive invariant.                                                *)

Following == {"submitted", "monitoring", "attached", "streaming", "canceling"}

(* What a session `r` may rely on: it has a job once it has begun, and one  *)
(* that it follows exists and is monitored, or its own request to monitor   *)
(* it has still to be written.                                             *)
Sound(r, rows, slots, marked) ==
  /\ r.pc # "new" => r.job \in Jobs
  /\ r.pc \in Following =>
       /\ Base!Exists(rows[r.job])
       /\ \/ rows[r.job].monitor
          \/ /\ r.pc = "monitoring" /\ r.on \in Handlers \cap marked
             /\ slots[r.on].pc = "client_heartbeat" /\ slots[r.on].job = r.job

Shaped(r) ==
  /\ r \in SessionState
  /\ r.beats => r.pc \in {"attached", "streaming", "canceling"}
  /\ r.on # NoSlot => r.pc \in {"monitoring", "canceling"}

IInv ==
  /\ Base!IInv
  /\ session \in [Sessions -> SessionState]
  /\ \A s \in Sessions : Shaped(session[s]) /\ Sound(session[s], jobs, task, switching)
  /\ switching \subseteq Handlers

LEMMA Typed ==
  IInv => TypeOK
  BY SameTypes DEF IInv, TypeOK, Shaped, Base!IInv

LEMMA IInvInit == Init => IInv
<1> SUFFICES ASSUME Init PROVE IInv
  OBVIOUS
<1>1. Base!Init
  BY SameValues DEF Init, Base!Init, Base!Slots
<1>2. Base!IInv
  BY <1>1, Base!IInvInit
<1>3. Shaped(New) /\ Sound(New, jobs, task, switching)
  BY DEF New, Shaped, Sound, SessionState, Codes, Following
<1>4. session \in [Sessions -> SessionState] /\ \A s \in Sessions : session[s] = New
  BY <1>3 DEF Init, Shaped
<1> QED
  BY <1>2, <1>3, <1>4 DEF Init, IInv

-----------------------------------------------------------------------------
(* Rows: no write takes a row away or turns its monitoring off.            *)

Keeps(old, new) == Base!Exists(old) => Base!Exists(new) /\ (old.monitor => new.monitor)

LEMMA UpdateStatusKeeps ==
  ASSUME NEW row \in Base!Row, NEW status \in Base!Terminal \cup Base!Active,
         NEW w \in Workers \cup {NoWorker}
  PROVE  Keeps(row, Base!UpdateStatus(row, status, w))
<1> DEFINE r1 == [row EXCEPT !.status = status]
           r2 == [r1 EXCEPT !.lastUpdate = 0]
           r3 == [r2 EXCEPT !.worker = w]
           r4 == [r3 EXCEPT !.workerSeen = 0]
<1>1. r1.monitor = row.monitor
  BY DEF Base!Row
<1>2. r2.monitor = r1.monitor
  BY DEF Base!Row
<1>3. r3.monitor = r2.monitor
  BY DEF Base!Row
<1>4. r4.monitor = r3.monitor
  BY DEF Base!Row
<1>5. Base!UpdateStatus(row, status, w) = IF w = NoWorker THEN r2 ELSE r4
  BY Zenon DEF Base!UpdateStatus
<1>6. status \in Base!Statuses
  BY DEF Base!Statuses
<1>7. Base!UpdateStatus(row, status, w).status = status
  BY <1>6, Base!UpdateStatusType
<1>8. status # Base!Absent
  BY DEF Base!Terminal, Base!Active, Base!Absent
<1> HIDE DEF r1, r2, r3, r4
<1>9. Base!UpdateStatus(row, status, w).monitor = row.monitor
  BY <1>1, <1>2, <1>3, <1>4, <1>5
<1> QED
  BY <1>7, <1>8, <1>9 DEF Keeps, Base!Exists

LEMMA WorkerHeartbeatKeeps ==
  ASSUME NEW row \in Base!Row
  PROVE  Keeps(row, Base!UpdateWorkerHeartbeat(row))
<1>1. Base!UpdateWorkerHeartbeat(row).status = row.status
  BY Base!WorkerHeartbeatType
<1>2. Base!UpdateWorkerHeartbeat(row).monitor = row.monitor
  BY DEF Base!UpdateWorkerHeartbeat, Base!Row
<1> QED
  BY <1>1, <1>2 DEF Keeps, Base!Exists

LEMMA ClientHeartbeatKeeps ==
  ASSUME NEW row \in Base!Row, NEW mon \in {"on", "keep"}
  PROVE  /\ Keeps(row, Base!UpdateClientHeartbeat(row, mon))
         /\ mon = "on" => Base!UpdateClientHeartbeat(row, mon).monitor
<1> DEFINE flag == CASE mon = "on" -> TRUE [] mon = "off" -> FALSE [] OTHER -> row.monitor
           r1 == [row EXCEPT !.clientSeen = 0]
<1>1. (mon = "on" => flag) /\ (mon = "keep" => flag = row.monitor)
  OBVIOUS
<1>2. Base!UpdateClientHeartbeat(row, mon) = [r1 EXCEPT !.monitor = flag]
  BY Zenon DEF Base!UpdateClientHeartbeat
<1>3. "monitor" \in DOMAIN r1 /\ r1.monitor = row.monitor
  BY DEF Base!Row
<1> HIDE DEF flag, r1
<1>4. Base!UpdateClientHeartbeat(row, mon).monitor = flag
  BY <1>2, <1>3
<1>5. Base!UpdateClientHeartbeat(row, mon).status = row.status
  BY Base!ClientHeartbeatType
<1> QED
  BY <1>1, <1>4, <1>5 DEF Keeps, Base!Exists

-----------------------------------------------------------------------------
(* Steps of the coordinator, for slot h.                                   *)

Served(h) ==
  /\ \A j \in Jobs : Keeps(jobs[j], jobs'[j])
  /\ \A g \in Handlers \ {h} : task'[g] = task[g]

LEMMA SlotType == ASSUME NEW h \in Handlers PROVE h \in Base!Slots
  BY DEF Base!Slots

LEMMA ReadServes ==
  ASSUME Base!IInv, NEW h \in Handlers, NEW t, Base!Become(h, t), UNCHANGED jobs
  PROVE  Served(h)
  BY SlotType DEF Served, Keeps, Base!Become, Base!IInv, Base!TypeOK

LEMMA WriteServes ==
  ASSUME Base!IInv, NEW h \in Handlers, NEW j \in Jobs, NEW row, NEW todo,
         Keeps(jobs[j], row), Base!WriteRow(h, j, row, todo)
  PROVE  Served(h) /\ jobs'[j] = row
<1>1. jobs' = [jobs EXCEPT ![j] = row] /\ jobs \in [Jobs -> Base!Row]
  BY DEF Base!WriteRow, Base!IInv, Base!TypeOK
<1>2. \A g \in Handlers \ {h} : task'[g] = task[g]
  BY SlotType DEF Base!WriteRow, Base!Become, Base!IInv, Base!TypeOK
<1> QED
  BY <1>1, <1>2 DEF Served, Keeps

(* A request is let in: a slot that was free takes it.                     *)
LEMMA SubmitServes ==
  ASSUME Base!IInv, NEW h \in Handlers, NEW j \in Jobs, NEW mon \in BOOLEAN, Coord!Submit(h, j, mon)
  PROVE  /\ Base!IInv' /\ Served(h) /\ UNCHANGED inbox
         /\ Base!Exists(jobs'[j]) /\ (mon => jobs'[j].monitor)
<1>1. Base!Submit(h, j, mon)
  BY SameRequests
<1>2. Base!IInv'
  BY <1>1, Base!RequestStep DEF Base!ClientRequest
<1>3. Base!CreateJob(mon).status = "pending" /\ Base!CreateJob(mon).monitor = mon
  BY DEF Base!CreateJob
<1>4. jobs' = [jobs EXCEPT ![j] = Base!CreateJob(mon)] /\ jobs \in [Jobs -> Base!Row]
  BY <1>1 DEF Base!Submit, Base!IInv, Base!TypeOK
<1>5. \A i \in Jobs : Keeps(jobs[i], jobs'[i])
  BY <1>1, <1>4 DEF Keeps, Base!Submit
<1>6. \A g \in Handlers \ {h} : task'[g] = task[g]
  BY <1>1, SlotType DEF Base!Submit, Base!Become, Base!IInv, Base!TypeOK
<1> QED
  BY <1>1, <1>2, <1>3, <1>4, <1>5, <1>6 DEF Served, Base!Submit, Base!Exists, Base!Absent

LEMMA HeartbeatServes ==
  ASSUME Base!IInv, NEW h \in Handlers, NEW j \in Jobs, Coord!ClientHeartbeatRead(h, j)
  PROVE  /\ Base!IInv' /\ Served(h) /\ UNCHANGED <<jobs, inbox>>
         /\ Base!Exists(jobs[j])
         /\ task'[h].pc = "client_heartbeat" /\ task'[h].job = j
<1>1. Base!ClientHeartbeatRead(h, j)
  BY SameRequests
<1>2. Base!IInv'
  BY <1>1, Base!RequestStep DEF Base!ClientRequest
<1>3. task' = [task EXCEPT ![h] = Base!Writing("client_heartbeat", j, jobs[j].worker, jobs[j].status)]
  BY <1>1 DEF Base!ClientHeartbeatRead, Base!Become
<1>4. task'[h] = Base!Writing("client_heartbeat", j, jobs[j].worker, jobs[j].status)
  BY <1>3, SlotType DEF Base!IInv, Base!TypeOK
<1>5. Served(h)
  BY <1>1, ReadServes DEF Base!ClientHeartbeatRead, Base!ReadOnly
<1> QED
  BY <1>1, <1>2, <1>4, <1>5 DEF Base!ClientHeartbeatRead, Base!ReadOnly, Base!Writing

LEMMA CancelServes ==
  ASSUME Base!IInv, NEW h \in Handlers, NEW j \in Jobs, Coord!CancelRead(h, j)
  PROVE  Base!IInv' /\ Served(h) /\ UNCHANGED <<jobs, inbox>>
<1>1. Base!CancelRead(h, j)
  BY SameRequests
<1>2. Base!IInv'
  BY <1>1, Base!RequestStep DEF Base!ClientRequest
<1> QED
  BY <1>1, <1>2, ReadServes DEF Base!CancelRead, Base!ReadOnly

LEMMA WorkerServes ==
  ASSUME Base!IInv, NEW h \in Handlers, NEW j \in Jobs, Coord!WorkerRequest(h, j)
  PROVE  Base!IInv' /\ Served(h)
<1>1. Base!WorkerRequest(h, j)
  BY SameRequests
<1>2. Base!IInv'
  BY <1>1, Base!RequestStep
<1>3. Served(h)
  BY <1>1, ReadServes DEF Base!WorkerRequest, Base!AcceptRead, Base!RejectRead, Base!ReportRead,
                          Base!WorkerHeartbeatRead, Base!OwnerRead, Base!ReadOnly
<1> QED
  BY <1>2, <1>3

(* A slot goes on: it keeps the rows, and a heartbeat that turns monitoring *)
(* on does.                                                                *)
LEMMA AssignmentServes ==
  ASSUME Base!IInv, NEW h \in Handlers, Coord!Assignment(h)
  PROVE  Base!IInv' /\ Served(h) /\ task[h].pc # "client_heartbeat"
<1>1. CASE Coord!AssignRead(h)
  <2>1. Base!AssignRead(h)
    BY <1>1, SameServing
  <2>2. Base!IInv'
    BY <2>1, SlotType, Base!AssignmentStep DEF Base!Assignment
  <2> QED
    BY <2>1, <2>2, ReadServes DEF Base!AssignRead, Base!ReadOnly
<1>2. ASSUME NEW online \in SUBSET Workers, Coord!AssignSelect(h, online)
      PROVE  Base!IInv' /\ Served(h) /\ task[h].pc # "client_heartbeat"
  <2>1. task[h].job \in Jobs
    BY <1>2, SameSelection, SlotType, Base!OtherTaskHolds DEF Base!IInv
  <2>2. Base!Idle \in Base!Task
    BY DEF Base!Task
  <2>3. ASSUME NEW w \in Workers
        PROVE  Base!Writing("assign", task[h].job, w, "assigned") \in Base!Task
    BY <2>1, Base!WritesAre, Base!WritingType DEF Base!Carries
  <2>4. PICK t \in Base!Task : Base!Become(h, t)
    BY <1>2, <2>2, <2>3, SameSelection
  <2>5. Base!IInv'
    BY <1>2, <2>4, SameSelection, SlotType, Base!ReadOnlyStep
  <2> QED
    BY <1>2, <2>4, <2>5, SameSelection, ReadServes DEF Base!ReadOnly
<1>3. CASE Coord!AssignWrite(h)
  <2> DEFINE j == task[h].job
             w == task[h].worker
             row == Base!UpdateStatus(jobs[j], "assigned", w)
  <2>1. Base!AssignWrite(h)
    BY <1>3, SameServing
  <2>2. Base!IInv'
    BY <2>1, SlotType, Base!AssignmentStep DEF Base!Assignment
  <2>3. j \in Jobs /\ w \in Workers \cup {NoWorker}
    BY <2>1, SlotType, Base!WritesAre, Base!WriteTaskHolds DEF Base!AssignWrite, Base!IInv
  <2>4. Keeps(jobs[j], row)
    BY <2>3, UpdateStatusKeeps DEF Base!IInv, Base!TypeOK, Base!Active
  <2> QED
    BY <2>1, <2>2, <2>3, <2>4, WriteServes DEF Base!AssignWrite
<1> QED
  BY <1>1, <1>2, <1>3 DEF Coord!Assignment

LEMMA WritesServe ==
  ASSUME Base!IInv, NEW h \in Handlers,
         \/ Coord!AcceptWrite(h) \/ Coord!RejectWrite(h) \/ Coord!ReportWrite(h)
         \/ Coord!WorkerHeartbeatWrite(h) \/ Coord!CancelWrite(h)
  PROVE  Base!IInv' /\ Served(h) /\ task[h].pc # "client_heartbeat"
<1> DEFINE j == task[h].job
           w == task[h].worker
           status == task[h].status
<1>1. \/ Base!AcceptWrite(h) \/ Base!RejectWrite(h) \/ Base!ReportWrite(h)
      \/ Base!WorkerHeartbeatWrite(h) \/ Base!CancelWrite(h)
  BY SameServing
<1>2. Base!IInv'
  BY <1>1, Base!HandlerStepStep DEF Base!HandlerStep
<1>3. task[h].pc \in {"accept", "reject", "report", "worker_heartbeat", "cancel"}
  BY <1>1 DEF Base!AcceptWrite, Base!RejectWrite, Base!ReportWrite, Base!WorkerHeartbeatWrite,
              Base!CancelWrite
<1>4. /\ j \in Jobs /\ w \in Workers \cup {NoWorker}
      /\ status \in Base!Terminal \cup Base!Active
      /\ jobs[j] \in Base!Row
  BY <1>3, SlotType, Base!WritesAre, Base!WriteTaskHolds DEF Base!IInv, Base!TypeOK
<1>5. /\ Keeps(jobs[j], Base!UpdateStatus(jobs[j], status, w))
      /\ Keeps(jobs[j], Base!UpdateStatus(jobs[j], "running", w))
      /\ Keeps(jobs[j], Base!UpdateStatus(jobs[j], "pending", NoWorker))
      /\ Keeps(jobs[j], Base!UpdateWorkerHeartbeat(jobs[j]))
  BY <1>4, UpdateStatusKeeps, WorkerHeartbeatKeeps DEF Base!Active
<1>6. PICK row, todo : Keeps(jobs[j], row) /\ Base!WriteRow(h, j, row, todo)
  BY <1>1, <1>5 DEF Base!AcceptWrite, Base!RejectWrite, Base!ReportWrite,
                    Base!WorkerHeartbeatWrite, Base!CancelWrite
<1> QED
  BY <1>2, <1>3, <1>4, <1>6, WriteServes

LEMMA AnswerServes ==
  ASSUME Base!IInv, NEW h \in Handlers, AnswerHeartbeat(h)
  PROVE  /\ Base!IInv' /\ Served(h)
         /\ h \in switching => jobs'[task[h].job].monitor
<1> DEFINE j == task[h].job
           mon == IF h \in switching THEN "on" ELSE "keep"
           row == Base!UpdateClientHeartbeat(jobs[j], mon)
<1>1. Base!ClientHeartbeatWrite(h, mon) /\ mon \in {"on", "keep"}
  BY SameServing DEF AnswerHeartbeat
<1>2. Base!IInv'
  BY <1>1, Base!HandlerStepStep DEF Base!HandlerStep
<1>3. j \in Jobs /\ jobs[j] \in Base!Row
  BY <1>1, SlotType, Base!WritesAre, Base!WriteTaskHolds
     DEF Base!ClientHeartbeatWrite, Base!IInv, Base!TypeOK
<1> HIDE DEF mon
<1>4. Keeps(jobs[j], row) /\ (mon = "on" => row.monitor)
  BY <1>1, <1>3, ClientHeartbeatKeeps
<1>5. Served(h) /\ jobs'[j] = row
  <2> HIDE DEF row
  <2>1. PICK todo : Base!WriteRow(h, j, row, todo)
    BY <1>1 DEF Base!ClientHeartbeatWrite, row
  <2> QED
    BY <1>3, <1>4, <2>1, WriteServes
<1> QED
  BY <1>2, <1>4, <1>5 DEF mon

LEMMA SendServes ==
  ASSUME Base!IInv, NEW h \in Handlers, Coord!Send(h)
  PROVE  Base!IInv' /\ Served(h) /\ task[h].pc # "client_heartbeat"
<1>1. Base!Send(h)
  BY SameServing
<1>2. Base!IInv'
  BY <1>1, SlotType, Base!SendStep
<1> QED
  BY <1>1, <1>2, ReadServes DEF Base!Send

LEMMA ServingServes ==
  ASSUME Base!IInv, NEW h \in Handlers, ServeStep(h)
  PROVE  /\ Base!IInv' /\ Served(h) /\ UNCHANGED <<session, switching>>
         /\ task[h].pc = "client_heartbeat" /\ h \in switching => jobs'[task[h].job].monitor
  BY AssignmentServes, WritesServe, AnswerServes, SendServes DEF ServeStep

(* The transport of a job: no row or slot sees what is received or lost.   *)
LEMMA InboxStep ==
  ASSUME Base!IInv, UNCHANGED <<jobs, task>>,
         inbox' = inbox \/ \E j, left : inbox' = [inbox EXCEPT ![j] = left]
                                      /\ (j \in Jobs => left \subseteq inbox[j])
  PROVE  Base!IInv'
<1>1. inbox' \in [Jobs -> SUBSET Base!Terminal]
  BY DEF Base!IInv, Base!TypeOK
<1> QED
  BY <1>1 DEF Base!IInv, Base!TypeOK

-----------------------------------------------------------------------------
(* Sessions.                                                               *)

(* Session s becomes `r`, and no other changes.                            *)
Becomes(s, r) ==
  /\ session' \in [Sessions -> SessionState]
  /\ session'[s] = r
  /\ \A o \in Sessions \ {s} : session'[o] = session[o]

(* What the updates make of a session.                                     *)
LEMMA FinishBecomes ==
  ASSUME session \in [Sessions -> SessionState], NEW s \in Sessions, NEW code \in Codes, Finish(s, code)
  PROVE  Becomes(s, [ pc |-> "done", job |-> session[s].job, beats |-> FALSE,
                     on |-> NoSlot, code |-> code ])
  BY DEF Becomes, SessionState, Finish

LEMMA GotoBecomes ==
  ASSUME session \in [Sessions -> SessionState], NEW s \in Sessions,
         NEW pc \in {"streaming", "canceling"}, Goto(s, pc)
  PROVE  Becomes(s, [ pc |-> pc, job |-> session[s].job, beats |-> session[s].beats,
                     on |-> NoSlot, code |-> session[s].code ])
  BY DEF Becomes, SessionState, Goto

LEMMA SubmitBecomes ==
  ASSUME session \in [Sessions -> SessionState], NEW s \in Sessions, NEW h, NEW j \in Jobs,
         NEW mon \in BOOLEAN, SubmitJob(s, h, j, mon)
  PROVE  Becomes(s, [ pc |-> IF mon THEN "submitted" ELSE "detaching", job |-> j, beats |-> session[s].beats,
                     on |-> session[s].on, code |-> session[s].code ])
  BY DEF Becomes, SessionState, SubmitJob

LEMMA StartBecomes ==
  ASSUME session \in [Sessions -> SessionState], NEW s \in Sessions, NEW h \in Handlers, NEW j \in Jobs,
         StartMonitoring(s, h, j)
  PROVE  Becomes(s, [ pc |-> "monitoring", job |-> j, beats |-> session[s].beats,
                     on |-> h, code |-> session[s].code ])
  BY DEF Becomes, SessionState, StartMonitoring

LEMMA MonitoringBecomes ==
  ASSUME session \in [Sessions -> SessionState], NEW s \in Sessions, Monitoring(s)
  PROVE  Becomes(s, [ pc |-> "attached", job |-> session[s].job, beats |-> TRUE,
                     on |-> NoSlot, code |-> session[s].code ])
  BY DEF Becomes, SessionState, Monitoring

(* A session on its own: no row and no slot changes.                       *)
LEMMA OwnStep ==
  ASSUME IInv, Base!IInv', UNCHANGED <<jobs, task, switching>>,
         NEW s \in Sessions, NEW r, Becomes(s, r), Shaped(r), Sound(r, jobs, task, switching)
  PROVE  IInv'
<1>1. \A o \in Sessions : Shaped(session'[o]) /\ Sound(session'[o], jobs', task', switching')
  <2> TAKE o \in Sessions
  <2>1. CASE o = s
    BY <2>1 DEF Becomes
  <2>2. CASE o # s
    BY <2>2 DEF Becomes, IInv
  <2> QED
    BY <2>1, <2>2
<1> QED
  BY <1>1 DEF IInv, Becomes

(* A session that another's step, or the coordinator's, leaves alone stays  *)
(* sound: its row is kept, and its request is neither lost nor taken over. *)
LEMMA SoundStays ==
  ASSUME IInv, NEW s \in Sessions, NEW h \in Handlers, Served(h),
         switching' \subseteq Handlers, switching \ {h} \subseteq switching',
         session[s].on = h => Sound(session[s], jobs, task', switching')
                              \/ jobs'[session[s].job].monitor
  PROVE  Sound(session[s], jobs', task', switching')
<1> DEFINE r == session[s]
<1>1. Sound(r, jobs, task, switching)
  BY DEF IInv
<1>2. r.pc \in Following => r.job \in Jobs /\ Keeps(jobs[r.job], jobs'[r.job])
  BY <1>1 DEF Sound, Served, Following
<1>3. CASE r.pc \notin Following
  BY <1>1, <1>3 DEF Sound
<1>4. CASE r.pc \in Following /\ (jobs[r.job].monitor \/ jobs'[r.job].monitor)
  BY <1>1, <1>2, <1>4 DEF Sound, Keeps
<1>5. CASE r.pc \in Following /\ ~jobs[r.job].monitor /\ ~jobs'[r.job].monitor
  <2>1. CASE r.on = h
    BY <1>1, <1>2, <1>5, <2>1 DEF Sound, Keeps
  <2>2. CASE r.on # h
    BY <1>1, <1>2, <1>5, <2>2 DEF Sound, Keeps, Served
  <2> QED
    BY <2>1, <2>2
<1> QED
  BY <1>3, <1>4, <1>5

(* A request that a session or a worker makes takes a slot nobody waits     *)
(* for, so the sessions that are not its own stay sound.                   *)
LEMMA CallStep ==
  ASSUME IInv, NEW h \in Handlers, Free(h), Base!IInv', Served(h),
         switching' \subseteq Handlers, switching \ {h} \subseteq switching',
         \/ session' = session
         \/ \E s \in Sessions : /\ Becomes(s, session'[s]) /\ Shaped(session'[s])
                                /\ Sound(session'[s], jobs', task', switching')
  PROVE  IInv'
<1>1. \A s \in Sessions : Shaped(session[s]) /\ Sound(session[s], jobs', task', switching')
  BY SoundStays DEF Free, IInv
<1>2. CASE session' = session
  BY <1>1, <1>2 DEF IInv
<1>3. ASSUME NEW s \in Sessions, Becomes(s, session'[s]), Shaped(session'[s]),
             Sound(session'[s], jobs', task', switching')
      PROVE  IInv'
  <2>1. \A o \in Sessions : Shaped(session'[o]) /\ Sound(session'[o], jobs', task', switching')
    BY <1>1, <1>3 DEF Becomes
  <2> QED
    BY <1>3, <2>1 DEF IInv, Becomes
<1> QED
  BY <1>2, <1>3

-----------------------------------------------------------------------------
(* The steps.                                                              *)

LEMMA FinishStep ==
  ASSUME IInv, Base!IInv', UNCHANGED <<jobs, task, switching>>,
         NEW s \in Sessions, NEW code \in Codes, session[s].pc # "new", Finish(s, code)
  PROVE  IInv'
<1> DEFINE r == [ pc |-> "done", job |-> session[s].job, beats |-> FALSE,
                  on |-> NoSlot, code |-> code ]
<1>1. Becomes(s, r)
  BY FinishBecomes DEF IInv
<1>2. session[s] \in SessionState /\ Sound(session[s], jobs, task, switching)
  BY DEF IInv
<1>3. Shaped(r)
  BY <1>2 DEF Shaped, SessionState
<1>4. Sound(r, jobs, task, switching)
  BY <1>2 DEF Sound, Following
<1> HIDE DEF r
<1> QED
  BY <1>1, <1>3, <1>4, OwnStep

(* A session that follows its job and waits for no slot goes on to another  *)
(* place where it follows it.                                              *)
LEMMA GotoStep ==
  ASSUME IInv, Base!IInv', UNCHANGED <<jobs, task, switching>>,
         NEW s \in Sessions, session[s].pc \in {"attached", "streaming"},
         NEW pc \in {"streaming", "canceling"}, Goto(s, pc)
  PROVE  IInv'
<1> DEFINE r == [ pc |-> pc, job |-> session[s].job, beats |-> session[s].beats,
                  on |-> NoSlot, code |-> session[s].code ]
<1>1. Becomes(s, r)
  BY GotoBecomes DEF IInv
<1>2. session[s] \in SessionState /\ Sound(session[s], jobs, task, switching)
  BY DEF IInv
<1>3. Shaped(r)
  BY <1>2 DEF Shaped, SessionState
<1>4. Sound(r, jobs, task, switching)
  BY <1>2 DEF Sound, Following
<1> HIDE DEF r
<1> QED
  BY <1>1, <1>3, <1>4, OwnStep

LEMMA SessionStepStep ==
  ASSUME IInv, NEW s \in Sessions, SessionStep(s)
  PROVE  IInv'
<1>1. UNCHANGED <<jobs, task, inbox, switching>>
  BY DEF SessionStep, Submitted, Monitoring, Attached, Canceled, Idling
<1>2. Base!IInv'
  BY <1>1, InboxStep DEF IInv
<1>3. /\ session[s] \in SessionState /\ Shaped(session[s])
      /\ Sound(session[s], jobs, task, switching)
      /\ "zero" \in Codes /\ "interrupted" \in Codes
  BY DEF IInv, Codes
<1>4. CASE session[s].pc = "submitted" /\ Submitted(s)
  <2> DEFINE r == [ pc |-> "streaming", job |-> session[s].job, beats |-> TRUE,
                    on |-> session[s].on, code |-> session[s].code ]
  <2>1. session' = [session EXCEPT ![s].pc = "streaming", ![s].beats = TRUE]
    BY <1>4 DEF Submitted
  <2>2. Becomes(s, r)
    BY <2>1 DEF Becomes, IInv, SessionState
  <2>3. Shaped(r)
    BY <1>3, <1>4 DEF Shaped, SessionState
  <2>4. Sound(r, jobs, task, switching)
    BY <1>3, <1>4 DEF Sound, Following
  <2> HIDE DEF r
  <2> QED
    BY <1>1, <1>2, <2>2, <2>3, <2>4, OwnStep
<1>5. CASE session[s].pc = "detaching" /\ Submitted(s)
  BY <1>1, <1>2, <1>3, <1>5, FinishStep DEF Submitted
<1>6. CASE Monitoring(s)
  <2> DEFINE r == [ pc |-> "attached", job |-> session[s].job, beats |-> TRUE,
                    on |-> NoSlot, code |-> session[s].code ]
  <2>1. Becomes(s, r)
    BY <1>6, MonitoringBecomes DEF IInv
  <2>2. Shaped(r)
    BY <1>3 DEF Shaped, SessionState
  <2>3. task[session[s].on].pc # "client_heartbeat"
    BY <1>6 DEF Monitoring, Coord!Idle
  <2>4. Sound(r, jobs, task, switching)
    BY <1>3, <1>6, <2>3 DEF Sound, Following, Monitoring
  <2> HIDE DEF r
  <2> QED
    BY <1>1, <1>2, <2>1, <2>2, <2>4, OwnStep
<1>7. CASE Attached(s)
  BY <1>1, <1>2, <1>3, <1>7, FinishStep, GotoStep DEF Attached
<1>8. CASE Canceled(s)
  BY <1>1, <1>2, <1>3, <1>8, FinishStep DEF Canceled
<1> QED
  BY <1>4, <1>5, <1>6, <1>7, <1>8 DEF SessionStep, Submitted

LEMMA ReceiveStep ==
  ASSUME IInv, NEW s \in Sessions, NEW status \in Terminal, ReceiveStatus(s, status)
  PROVE  IInv'
<1> DEFINE code == CASE status = "completed" -> "zero" [] status = "failed" -> "nonzero"
                     [] OTHER -> "interrupted"
<1>1. code \in Codes
  BY DEF Codes
<1>2. Finish(s, code) /\ session[s].pc # "new" /\ UNCHANGED <<jobs, task, switching>>
  BY DEF ReceiveStatus
<1>3. Base!IInv'
  BY InboxStep DEF ReceiveStatus, IInv
<1> HIDE DEF code
<1> QED
  BY <1>1, <1>2, <1>3, FinishStep

LEMMA LeaveStep ==
  ASSUME IInv, NEW s \in Sessions, Interrupt(s) \/ Leave(s) \/ AnswerLost(s)
  PROVE  IInv'
<1>1. "interrupted" \in Codes /\ "nonzero" \in Codes
  BY DEF Codes
<1>2. CASE Interrupt(s)
  <2>1. Base!IInv'
    BY <1>2, InboxStep DEF Interrupt, Idling, IInv
  <2> QED
    BY <1>2, <2>1, GotoStep DEF Interrupt, Idling
<1>3. CASE Leave(s)
  <2>1. Base!IInv'
    BY <1>3, InboxStep DEF Leave, IInv
  <2> QED
    BY <1>1, <1>3, <2>1, FinishStep DEF Leave
<1>4. CASE AnswerLost(s)
  <2>1. Base!IInv'
    BY <1>4, InboxStep DEF AnswerLost, Idling, IInv
  <2> QED
    BY <1>1, <1>4, <2>1, FinishStep DEF AnswerLost, Idling
<1> QED
  BY <1>2, <1>3, <1>4

LEMMA SubmitStep ==
  ASSUME IInv, NEW s \in Sessions, NEW h \in Handlers, NEW j \in Jobs, NEW mon \in BOOLEAN,
         SubmitJob(s, h, j, mon)
  PROVE  IInv'
<1> DEFINE r == [ pc |-> IF mon THEN "submitted" ELSE "detaching", job |-> j,
                  beats |-> session[s].beats, on |-> session[s].on, code |-> session[s].code ]
<1>1. Becomes(s, r)
  BY SubmitBecomes DEF IInv
<1>2. /\ Base!IInv' /\ Served(h)
      /\ Base!Exists(jobs'[j]) /\ (mon => jobs'[j].monitor)
  BY SubmitServes DEF SubmitJob, IInv
<1>3. Shaped(session[s])
  BY DEF IInv
<1>4. Shaped(r)
  BY <1>3 DEF Shaped, SessionState, SubmitJob
<1>5. Sound(r, jobs', task', switching')
  BY <1>2 DEF Sound, Following
<1>6. session'[s] = r
  BY <1>1 DEF Becomes
<1> HIDE DEF r
<1> QED
  BY <1>1, <1>2, <1>4, <1>5, <1>6, CallStep DEF SubmitJob, IInv

LEMMA StartStep ==
  ASSUME IInv, NEW s \in Sessions, NEW h \in Handlers, NEW j \in Jobs, StartMonitoring(s, h, j)
  PROVE  IInv'
<1> DEFINE r == [ pc |-> "monitoring", job |-> j, beats |-> session[s].beats,
                  on |-> h, code |-> session[s].code ]
<1>1. Becomes(s, r)
  BY StartBecomes DEF IInv
<1>2. /\ Base!IInv' /\ Served(h) /\ jobs' = jobs
      /\ Base!Exists(jobs[j])
      /\ task'[h].pc = "client_heartbeat" /\ task'[h].job = j
  BY HeartbeatServes DEF StartMonitoring, IInv
<1>3. Shaped(session[s])
  BY DEF IInv
<1>4. Shaped(r)
  BY <1>3 DEF Shaped, SessionState, StartMonitoring
<1>5. switching' = switching \cup {h}
  BY DEF StartMonitoring
<1>6. Sound(r, jobs', task', switching')
  BY <1>2, <1>5 DEF Sound, Following
<1>7. session'[s] = r
  BY <1>1 DEF Becomes
<1> HIDE DEF r
<1> QED
  BY <1>1, <1>2, <1>4, <1>5, <1>6, <1>7, CallStep DEF StartMonitoring, IInv

LEMMA HeartbeatStep ==
  ASSUME IInv, NEW s \in Sessions, NEW h \in Handlers, Heartbeat(s, h)
  PROVE  IInv'
<1>1. session[s].job \in Jobs
  BY DEF Heartbeat, IInv, Shaped, Sound
<1>2. Base!IInv' /\ Served(h)
  BY <1>1, HeartbeatServes DEF Heartbeat, IInv
<1> QED
  BY <1>2, CallStep DEF Heartbeat, IInv

LEMMA CancelStep ==
  ASSUME IInv, NEW s \in Sessions, NEW h \in Handlers, CancelJob(s, h)
  PROVE  IInv'
<1> DEFINE j == session[s].job
<1>1. /\ session[s] \in SessionState /\ Shaped(session[s])
      /\ Sound(session[s], jobs, task, switching)
  BY DEF IInv
<1>2. j \in Jobs /\ "interrupted" \in Codes
  BY <1>1 DEF CancelJob, Sound, Codes
<1>3. CASE jobs[j].status \in Coord!Active
  <2> DEFINE r == [ pc |-> session[s].pc, job |-> j, beats |-> session[s].beats,
                    on |-> h, code |-> session[s].code ]
  <2>1. session' = [session EXCEPT ![s].on = h]
    BY <1>3 DEF CancelJob
  <2>2. Becomes(s, r)
    BY <2>1 DEF Becomes, IInv, SessionState
  <2>3. Base!IInv' /\ Served(h) /\ jobs' = jobs
    BY <1>2, <1>3, CancelServes DEF CancelJob, IInv
  <2>4. Shaped(r)
    BY <1>1 DEF Shaped, SessionState, CancelJob
  <2>5. Sound(r, jobs', task', switching')
    BY <1>1, <2>3 DEF Sound, Following, CancelJob
  <2>6. session'[s] = r
    BY <2>2 DEF Becomes
  <2> HIDE DEF r
  <2> QED
    BY <2>2, <2>3, <2>4, <2>5, <2>6, CallStep DEF CancelJob, IInv
<1>4. CASE jobs[j].status \notin Coord!Active
  <2>1. UNCHANGED <<jobs, task, inbox, switching>> /\ Finish(s, "interrupted")
    BY <1>4 DEF CancelJob
  <2>2. Base!IInv'
    BY <2>1, InboxStep DEF IInv
  <2> QED
    BY <1>2, <2>1, <2>2, FinishStep DEF CancelJob
<1> QED
  BY <1>3, <1>4

LEMMA WorkerStep ==
  ASSUME IInv, NEW h \in Handlers, NEW j \in Jobs, WorkerCalls(h, j)
  PROVE  IInv'
<1>1. Base!IInv' /\ Served(h)
  BY WorkerServes DEF WorkerCalls, IInv
<1> QED
  BY <1>1, CallStep DEF WorkerCalls, IInv

(* The one slot a session may wait for is the one that goes on: what it     *)
(* writes is the session's own request.                                    *)
LEMMA ServeStepStep ==
  ASSUME IInv, NEW h \in Handlers, ServeStep(h)
  PROVE  IInv'
<1>1. /\ Base!IInv' /\ Served(h) /\ UNCHANGED <<session, switching>>
      /\ task[h].pc = "client_heartbeat" /\ h \in switching => jobs'[task[h].job].monitor
  BY ServingServes DEF IInv
<1>2. ASSUME NEW s \in Sessions
      PROVE  Sound(session[s], jobs', task', switching')
  <2>1. CASE session[s].on = h
    <3>1. Sound(session[s], jobs, task, switching)
      BY DEF IInv
    <3>2. Sound(session[s], jobs, task', switching') \/ jobs'[session[s].job].monitor
      BY <1>1, <2>1, <3>1 DEF Sound
    <3> QED
      BY <1>1, <3>2, SoundStays DEF IInv
  <2>2. CASE session[s].on # h
    BY <1>1, <2>2, SoundStays DEF IInv
  <2> QED
    BY <2>1, <2>2
<1> QED
  BY <1>1, <1>2 DEF IInv

LEMMA IInvNext == IInv /\ [Next]_vars => IInv'
<1> SUFFICES ASSUME IInv, [Next]_vars PROVE IInv'
  OBVIOUS
<1>1. ASSUME NEW s \in Sessions,
             SessionStep(s) \/ Receive(s) \/ Interrupt(s) \/ Leave(s) \/ AnswerLost(s)
      PROVE  IInv'
  BY <1>1, SessionStepStep, ReceiveStep, LeaveStep DEF Receive
<1>2. ASSUME NEW s \in Sessions, NEW h \in Handlers,
             \/ Heartbeat(s, h) \/ CancelJob(s, h)
             \/ \E j \in Jobs : StartMonitoring(s, h, j)
                                \/ \E mon \in BOOLEAN : SubmitJob(s, h, j, mon)
      PROVE  IInv'
  BY <1>2, HeartbeatStep, CancelStep, StartStep, SubmitStep
<1>3. ASSUME NEW h \in Handlers, ServeStep(h) \/ \E j \in Jobs : WorkerCalls(h, j)
      PROVE  IInv'
  BY <1>3, ServeStepStep, WorkerStep
<1>4. ASSUME NEW j \in Jobs, MessageLost(j)
      PROVE  IInv'
  <2> DEFINE left == {}
  <2>1. inbox' = [inbox EXCEPT ![j] = left] /\ left \subseteq inbox[j]
    BY <1>4 DEF MessageLost
  <2> HIDE DEF left
  <2>2. Base!IInv'
    BY <1>4, <2>1, InboxStep DEF MessageLost, IInv
  <2> QED
    BY <1>4, <2>2 DEF MessageLost, IInv
<1>5. CASE UNCHANGED vars
  <2>1. Base!IInv'
    BY <1>5, InboxStep DEF vars, IInv
  <2> QED
    BY <1>5, <2>1 DEF vars, IInv
<1> QED
  BY <1>1, <1>2, <1>3, <1>4, <1>5 DEF Next

LEMMA Invariance == Spec => []IInv
  BY IInvInit, IInvNext, PTL DEF Spec

(* Jobs, slots, transports and sessions keep their types, and a session     *)
(* only beats or waits for a slot where its code does.                     *)
THEOREM TypeCorrect == Spec => []TypeOK
  BY Invariance, Typed, PTL

(* A job that a session follows is monitored, however many sessions and     *)
(* requests overlap.                                                       *)
THEOREM FollowedMonitored == Spec => []FollowedIsMonitored
<1>1. IInv => FollowedIsMonitored
  BY DEF IInv, Sound, Following, FollowedIsMonitored
<1> QED
  BY <1>1, Invariance, PTL

(* What the coordinator promises of assigned and running jobs survives its  *)
(* clients: whatever sessions do, such a job has the worker and the stamp   *)
(* that get_stale_assigned_jobs and get_stale_running_jobs go by.           *)
THEOREM Reapable == Spec => []Coord!RunningIsReapable
<1>1. IInv => Coord!RunningIsReapable
  BY DEF IInv, Base!IInv, Base!OwnerSeen, Base!Never,
         Coord!RunningIsReapable, Coord!Never
<1> QED
  BY <1>1, Invariance, PTL
=============================================================================
