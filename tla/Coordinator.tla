---------------------------- MODULE Coordinator ----------------------------
(***************************************************************************)
(* The coordinator's handling of jobs: the request handlers of             *)
(* api/routes/job.py, the scheduler (process_job_assignment) and the job   *)
(* phases of the janitor, over the table of JobStore.                      *)
(*                                                                         *)
(* Every handler is a coroutine: it awaits the row, checks what it read,   *)
(* awaits a write and awaits one send_message after another.  Any other    *)
(* coroutine, of this coordinator or of a second one on the same database, *)
(* runs at each await.  So a handler occupies a slot, and takes one step   *)
(* per database statement or message:                                      *)
(*                                                                         *)
(*   Handlers  each runs one request, or one background assignment, at a   *)
(*             time (as many slots as requests that overlap);              *)
(*   Janitors  one per coordinator process; runs its phases in order, and  *)
(*             in each phase the rows its query returned, one by one.      *)
(*                                                                         *)
(* A handler that returns at its first check has changed nothing and is    *)
(* not a step.  Who calls, and when, is left open: any worker may call any *)
(* endpoint at any time.  What the agents really do is a matter of the     *)
(* modules that model them.                                                *)
(***************************************************************************)
EXTENDS JobStore, FiniteSets, Sequences

CONSTANTS
  Jobs,        \* job ids
  Handlers,    \* slots of concurrent requests and background assignments
  Janitors,    \* one janitor per coordinator process
  Client,      \* the requester of the jobs, as a recipient of messages
  MaxFaults    \* bound on exceptions and crashes in a behaviour

ASSUME CoordinatorAssumption ==
  /\ Client \notin Workers
  /\ Handlers \cap Janitors = {}
  /\ MaxFaults \in Nat

VARIABLES
  jobs,      \* the jobs table: a row for every job id
  task,      \* what each slot is doing
  phase,     \* the janitors' phase of the pass
  batch,     \* the rows a janitor's query returned and it has not handled yet
  told,      \* history: the terminal statuses sent to the client, by job
  faults     \* number of faults so far

vars == <<jobs, task, phase, batch, told, faults>>

Slots == Handlers \cup Janitors

-----------------------------------------------------------------------------
(* Messages and tasks.                                                     *)

Bodies  == {"request"} \cup Active \cup Terminal
Message == [to : Workers \cup {Client}, job : Jobs, body : Bodies]

Msg(to, j, body) == [to |-> to, job |-> j, body |-> body]

(* The writes a handler makes after its read, each with the statuses its    *)
(* task may carry: the status a report brings, the one a heartbeat is       *)
(* answered with, the one the others write.                                 *)
Carries == [ assign           |-> {"assigned"},
             accept           |-> {"running"},
             reject           |-> {"pending"},
             report           |-> Terminal,
             cancel           |-> {"canceled", "canceling"},
             worker_heartbeat |-> {"canceled", "running"},
             client_heartbeat |-> Terminal \cup Active ]

Writes == DOMAIN Carries

(* `worker` is the caller, the worker selected, or the worker_id read        *)
(* before, which may have been NULL.                                        *)
WriteTask ==
  {t \in [pc : Writes, job : Jobs, worker : Workers \cup {NoWorker},
          status : Statuses] :
     /\ t.status \in Carries[t.pc]
     /\ t.worker = NoWorker => t.pc \in {"cancel", "client_heartbeat"}}

Idle == [pc |-> "idle"]
Scheduled(j) == [pc |-> "scheduled", job |-> j]
Selecting(j, previous) == [pc |-> "select", job |-> j, worker |-> previous]
Writing(w, j, worker, status) ==
  [pc |-> w, job |-> j, worker |-> worker, status |-> status]
Sending(todo) == IF todo = <<>> THEN Idle ELSE [pc |-> "send", todo |-> todo]

Task == {Idle}
        \cup [pc : {"scheduled"}, job : Jobs]
        \cup [pc : {"select"}, job : Jobs, worker : Workers \cup {NoWorker}]
        \cup WriteTask
        \cup [pc : {"send"}, todo : Seq(Message) \ {<<>>}]

Become(s, t) == task' = [task EXCEPT ![s] = t]

(* The write of slot s: the row of its job becomes `row`, and then the      *)
(* messages of `todo` are to be sent.                                       *)
WriteRow(s, j, row, todo) ==
  /\ jobs' = [jobs EXCEPT ![j] = row]
  /\ Become(s, Sending(todo))
  /\ UNCHANGED <<phase, batch, told, faults>>

ReadOnly == UNCHANGED <<jobs, phase, batch, told, faults>>

-----------------------------------------------------------------------------
(* Submission and assignment.                                              *)

(* job_submit inserts the row and leaves the assignment to a background    *)
(* task, which starts after the response.                                  *)
Submit(h, j, mon) ==
  /\ task[h] = Idle
  /\ ~Exists(jobs[j])
  /\ jobs' = [jobs EXCEPT ![j] = CreateJob(mon)]
  /\ Become(h, Scheduled(j))
  /\ UNCHANGED <<phase, batch, told, faults>>

(* process_job_assignment: reads the job ...                               *)
AssignRead(s) ==
  /\ task[s].pc = "scheduled"
  /\ LET j == task[s].job
     IN  Become(s, IF jobs[j].status = "pending"
                   THEN Selecting(j, jobs[j].worker)
                   ELSE Idle)
  /\ ReadOnly

(* ... then the online workers and their load.  `online` is what the       *)
(* registry answers, cut down to the workers with the binary and the paths *)
(* of the job; among the least loaded the order is that of last_seen,      *)
(* which is not modelled here, and then random.                            *)
Load(w) == Cardinality({j \in Jobs : Loads(jobs[j], w)})

Candidates(online, previous) ==
  IF previous # NoWorker /\ Cardinality(online) > 1
  THEN online \ {previous}
  ELSE online

LeastLoaded(ws) == {w \in ws : \A v \in ws : Load(w) <= Load(v)}

AssignSelect(s, online) ==
  /\ task[s].pc = "select"
  /\ \/ /\ online = {}
        /\ Become(s, Idle)
     \/ \E w \in LeastLoaded(Candidates(online, task[s].worker)) :
          Become(s, Writing("assign", task[s].job, w, "assigned"))
  /\ ReadOnly

(* ... and writes "assigned", whatever the row holds by now.               *)
AssignWrite(s) ==
  /\ task[s].pc = "assign"
  /\ LET j == task[s].job
         w == task[s].worker
     IN  WriteRow(s, j, UpdateStatus(jobs[j], "assigned", w),
                  << Msg(w, j, "request"), Msg(Client, j, "assigned") >>)

-----------------------------------------------------------------------------
(* Requests of workers.  Each is refused (403) unless the row read names   *)
(* the caller; none looks at the status.                                   *)

OwnerRead(h, j, w, pc, status) ==
  /\ task[h] = Idle
  /\ Exists(jobs[j])
  /\ jobs[j].worker = w
  /\ Become(h, Writing(pc, j, w, status))
  /\ ReadOnly

AcceptRead(h, j, w) == OwnerRead(h, j, w, "accept", "running")
RejectRead(h, j, w) == OwnerRead(h, j, w, "reject", "pending")

AcceptWrite(h) ==
  /\ task[h].pc = "accept"
  /\ LET j == task[h].job
     IN  WriteRow(h, j, UpdateStatus(jobs[j], "running", task[h].worker),
                  << Msg(Client, j, "running") >>)

RejectWrite(h) ==
  /\ task[h].pc = "reject"
  /\ LET j == task[h].job
     IN  WriteRow(h, j, UpdateStatus(jobs[j], "pending", NoWorker),
                  << Msg(Client, j, "pending") >>)

(* Mutants: the report names no worker, or is not passed on. *)
ReportWriteAnonymous(h) ==
  /\ task[h].pc = "report"
  /\ LET j == task[h].job
     IN  WriteRow(h, j, UpdateStatus(jobs[j], task[h].status, NoWorker),
                  << Msg(Client, j, task[h].status) >>)

ReportWriteUntold(h) ==
  /\ task[h].pc = "report"
  /\ LET j == task[h].job
     IN  WriteRow(h, j, UpdateStatus(jobs[j], task[h].status, task[h].worker), <<>>)

(* job_status_update: JobStatusUpdate admits the terminal statuses only.   *)
ReportRead(h, j, w, status) ==
  status \in Terminal /\ OwnerRead(h, j, w, "report", status)

ReportWrite(h) ==
  /\ task[h].pc = "report"
  /\ LET j == task[h].job
     IN  WriteRow(h, j, UpdateStatus(jobs[j], task[h].status, task[h].worker),
                  << Msg(Client, j, task[h].status) >>)

(* job_worker_heartbeat: the row is stamped in any status.  A worker whose *)
(* job was over when it was read is told so, otherwise the client is told  *)
(* that the job runs.                                                      *)
WorkerHeartbeatRead(h, j, w) ==
  OwnerRead(h, j, w, "worker_heartbeat",
            IF Finished(jobs[j]) THEN "canceled" ELSE "running")

WorkerHeartbeatWrite(h) ==
  /\ task[h].pc = "worker_heartbeat"
  /\ LET j == task[h].job
         answer == IF task[h].status = "canceled" THEN task[h].worker ELSE Client
     IN  WriteRow(h, j, UpdateWorkerHeartbeat(jobs[j]),
                  << Msg(answer, j, task[h].status) >>)

-----------------------------------------------------------------------------
(* Requests of the client.                                                 *)

(* job_cancel keeps, of the row it read, whether a worker is involved.     *)
CancelRead(h, j) ==
  /\ task[h] = Idle
  /\ jobs[j].status \in Active
  /\ LET w == jobs[j].worker
     IN  Become(h, Writing("cancel", j, w,
                           IF w # NoWorker THEN "canceling" ELSE "canceled"))
  /\ ReadOnly

CancelWrite(h) ==
  /\ task[h].pc = "cancel"
  /\ LET j == task[h].job
         w == task[h].worker
         status == task[h].status
     IN  WriteRow(h, j, UpdateStatus(jobs[j], status, w),
                  IF w # NoWorker
                  THEN << Msg(Client, j, status), Msg(w, j, "canceling") >>
                  ELSE << Msg(Client, j, status) >>)

(* job_client_heartbeat sends the terminal status again if it read one.    *)
ClientHeartbeatRead(h, j) ==
  /\ task[h] = Idle
  /\ Exists(jobs[j])
  /\ Become(h, Writing("client_heartbeat", j, jobs[j].worker, jobs[j].status))
  /\ ReadOnly

(* Mutant: a heartbeat is only stored. *)
ClientHeartbeatUnanswered(h, mon) ==
  /\ task[h].pc = "client_heartbeat"
  /\ LET j == task[h].job
     IN  WriteRow(h, j, UpdateClientHeartbeat(jobs[j], mon), <<>>)

ClientHeartbeatWrite(h, mon) ==
  /\ task[h].pc = "client_heartbeat"
  /\ LET j == task[h].job
     IN  WriteRow(h, j, UpdateClientHeartbeat(jobs[j], mon),
                  IF task[h].status \in Terminal
                  THEN << Msg(Client, j, task[h].status) >> ELSE <<>>)

-----------------------------------------------------------------------------
(* Messages leave in the order the handler awaits them.  One that is sent  *)
(* is in the messages table, or with the broker; delivery is the           *)
(* transports' business.                                                   *)
Send(s) ==
  /\ task[s].pc = "send"
  /\ LET m == Head(task[s].todo)
     IN  /\ Become(s, Sending(Tail(task[s].todo)))
         /\ told' = IF m.to = Client /\ m.body \in Terminal
                    THEN [told EXCEPT ![m.job] = @ \cup {m.body}]
                    ELSE told
  /\ UNCHANGED <<jobs, phase, batch, faults>>

-----------------------------------------------------------------------------
(* The janitor.  A pass runs the phases in this order and then sleeps;     *)
(* reap_workers, its first phase, works on another table and is modelled   *)
(* with it.                                                                *)

Phases == {"asleep", "running", "assigned", "retry", "timeout", "abandoned"}

Following == [ asleep    |-> "running",
               running   |-> "assigned",
               assigned  |-> "retry",
               retry     |-> "timeout",
               timeout   |-> "abandoned",
               abandoned |-> "asleep" ]

Selected(row, ph) ==
  CASE ph = "running"   -> StaleRunning(row)
    [] ph = "assigned"  -> StaleAssigned(row)
    [] ph = "retry"     -> RetryPending(row)
    [] ph = "timeout"   -> StalePending(row)
    [] ph = "abandoned" -> StaleMonitored(row)
    [] OTHER            -> FALSE

(* One query: the rows of the next phase, as they are now.                 *)
NextPhase(c) ==
  /\ task[c] = Idle
  /\ batch[c] = {}
  /\ phase' = [phase EXCEPT ![c] = Following[@]]
  /\ batch' = [batch EXCEPT ![c] =
                 {[job |-> j, worker |-> jobs[j].worker] :
                    j \in {i \in Jobs : Selected(jobs[i], phase'[c])}}]
  /\ UNCHANGED <<jobs, task, told, faults>>

(* The next row of the batch leaves it.  `expected` is the previous_status *)
(* the phase passes to update_status: if the row holds another status by   *)
(* now, nothing is written or sent.                                        *)
ReapRow(c, r, expected, verdict, todo) ==
  /\ task[c] = Idle
  /\ r \in batch[c]
  /\ batch' = [batch EXCEPT ![c] = @ \ {r}]
  /\ IF Matches(jobs[r.job], expected)
     THEN /\ jobs' = [jobs EXCEPT ![r.job] = UpdateStatus(@, verdict, NoWorker)]
          /\ Become(c, Sending(todo))
     ELSE UNCHANGED <<jobs, task>>
  /\ UNCHANGED <<phase, told, faults>>

(* A message to the worker the query returned, if it returned one.         *)
ToWorker(r, body) ==
  IF r.worker # NoWorker THEN << Msg(r.worker, r.job, body) >> ELSE <<>>

ReapRunning(c, r) ==
  /\ phase[c] = "running"
  /\ ReapRow(c, r, "running", "failed",
             << Msg(Client, r.job, "failed") >> \o ToWorker(r, "failed"))

ReapAssigned(c, r) ==
  /\ phase[c] = "assigned"
  /\ ReapRow(c, r, "assigned", "pending", ToWorker(r, "canceled"))

RetryAssignment(c, r) ==
  /\ phase[c] = "retry"
  /\ task[c] = Idle
  /\ r \in batch[c]
  /\ batch' = [batch EXCEPT ![c] = @ \ {r}]
  /\ Become(c, Scheduled(r.job))
  /\ UNCHANGED <<jobs, phase, told, faults>>

(* Mutant: the pending timeout is logged only. *)
ReapPendingUntold(c, r) ==
  phase[c] = "timeout" /\ ReapRow(c, r, "pending", "failed", <<>>)

ReapPending(c, r) ==
  /\ phase[c] = "timeout"
  /\ ReapRow(c, r, "pending", "failed", << Msg(Client, r.job, "failed") >>)

(* reap_abandoned_monitored_jobs passes no previous_status: it writes      *)
(* "canceling" over whatever the row holds by now.                         *)
ReapAbandoned(c, r) ==
  /\ phase[c] = "abandoned"
  /\ task[c] = Idle
  /\ r \in batch[c]
  /\ batch' = [batch EXCEPT ![c] = @ \ {r}]
  /\ jobs' = [jobs EXCEPT ![r.job] = UpdateStatus(@, "canceling", NoWorker)]
  /\ Become(c, Sending(<< Msg(Client, r.job, "canceling") >> \o ToWorker(r, "canceling")))
  /\ UNCHANGED <<phase, told, faults>>

-----------------------------------------------------------------------------
(* Faults.  An exception ends a request, or is swallowed at the end of an  *)
(* assignment; one anywhere else in a janitor's pass ends the pass.  A     *)
(* coordinator that crashes loses all its slots: a fault for each.         *)

Fault(s) ==
  /\ faults < MaxFaults
  /\ task[s] # Idle
  /\ faults' = faults + 1
  /\ Become(s, Idle)
  /\ UNCHANGED <<jobs, phase, batch, told>>

AbortPass(c) ==
  /\ faults < MaxFaults
  /\ faults' = faults + 1
  /\ Become(c, Idle)
  /\ phase' = [phase EXCEPT ![c] = "asleep"]
  /\ batch' = [batch EXCEPT ![c] = {}]
  /\ UNCHANGED <<jobs, told>>

(* Time passes for all rows at once.                                       *)
Tick ==
  /\ jobs' = [j \in Jobs |-> Older(jobs[j])]
  /\ UNCHANGED <<task, phase, batch, told, faults>>

-----------------------------------------------------------------------------
Init ==
  /\ jobs   = [j \in Jobs |-> AbsentRow]
  /\ task   = [s \in Slots |-> Idle]
  /\ phase  = [c \in Janitors |-> "asleep"]
  /\ batch  = [c \in Janitors |-> {}]
  /\ told   = [j \in Jobs |-> {}]
  /\ faults = 0

WorkerRequest(h, j) ==
  \E w \in Workers :
    \/ AcceptRead(h, j, w)
    \/ RejectRead(h, j, w)
    \/ \E status \in Terminal : ReportRead(h, j, w, status)
    \/ WorkerHeartbeatRead(h, j, w)

ClientRequest(h, j) ==
  \/ \E mon \in BOOLEAN : Submit(h, j, mon)
  \/ CancelRead(h, j)
  \/ ClientHeartbeatRead(h, j)

Assignment(s) ==
  \/ AssignRead(s)
  \/ \E online \in SUBSET Workers : AssignSelect(s, online)
  \/ AssignWrite(s)

(* What a request that was let in still does.                              *)
HandlerStep(h) ==
  \/ Assignment(h)
  \/ AcceptWrite(h)
  \/ RejectWrite(h)
  \/ ReportWrite(h)
  \/ WorkerHeartbeatWrite(h)
  \/ CancelWrite(h)
  \/ \E mon \in {"keep", "on", "off"} : ClientHeartbeatWrite(h, mon)
  \/ Send(h)

Reap(c, r) ==
  \/ ReapRunning(c, r)
  \/ ReapAssigned(c, r)
  \/ RetryAssignment(c, r)
  \/ ReapPending(c, r)
  \/ ReapAbandoned(c, r)

JanitorStep(c) ==
  \/ NextPhase(c)
  \/ \E r \in batch[c] : Reap(c, r)
  \/ Assignment(c)
  \/ Send(c)

Next ==
  \/ \E h \in Handlers, j \in Jobs : WorkerRequest(h, j) \/ ClientRequest(h, j)
  \/ \E h \in Handlers : HandlerStep(h)
  \/ \E c \in Janitors : JanitorStep(c)
  \/ \E s \in Slots : Fault(s)
  \/ \E c \in Janitors : AbortPass(c)
  \/ Tick

Spec == Init /\ [][Next]_vars

(* Coroutines that are not blocked run on, the janitor reschedules itself  *)
(* after every pass, and time passes.  Nobody has to call.                 *)
Fairness ==
  /\ \A h \in Handlers : WF_vars(HandlerStep(h))
  /\ \A c \in Janitors : WF_vars(JanitorStep(c))
  /\ WF_vars(Tick)

FairSpec == Spec /\ Fairness

-----------------------------------------------------------------------------
(* Safety.                                                                 *)

TypeOK ==
  /\ jobs   \in [Jobs -> Row]
  /\ task   \in [Slots -> Task]
  /\ phase  \in [Janitors -> Phases]
  /\ batch  \in [Janitors -> SUBSET [job : Jobs, worker : Workers \cup {NoWorker}]]
  /\ told   \in [Jobs -> SUBSET Terminal]
  /\ faults \in 0 .. MaxFaults

(* A job that is assigned or running names its worker and when that worker *)
(* was last seen.  Otherwise the janitor could never time it out: its      *)
(* query compares worker_last_seen, and a NULL is never older.             *)
RunningIsReapable ==
  \A j \in Jobs :
    jobs[j].status \in {"assigned", "running"} =>
      jobs[j].worker # NoWorker /\ jobs[j].workerSeen # Never

Announces(t, j, status) ==
  t.pc = "send" /\ \E i \in 1 .. Len(t.todo) : t.todo[i] = Msg(Client, j, status)

(* While nothing fails, the client of a finished job has been sent the     *)
(* status the table holds, or a handler still holds the message: whoever   *)
(* wrote the status, and whatever it overwrote.                            *)
ClientToldOutcome ==
  faults = 0 =>
    \A j \in Jobs : Finished(jobs[j]) =>
      \/ jobs[j].status \in told[j]
      \/ \E s \in Slots : Announces(task[s], j, jobs[j].status)

(* A job becomes completed only by the report of a worker, and that worker *)
(* is then the one on record, even if the job was assigned to another      *)
(* between the check of the report and its write.                          *)
OutcomeIsAttributed ==
  [][\A j \in Jobs :
       (jobs[j].status # "completed" /\ jobs'[j].status = "completed") =>
         \E h \in Handlers : /\ task[h].pc = "report"
                             /\ task[h].job = j
                             /\ jobs'[j].worker = task[h].worker]_vars

(* The three timeouts act on the status their query asked for, though the  *)
(* batch may be old when its rows come up: a job that was accepted,        *)
(* canceled or finished meanwhile keeps its status.                        *)
TimedOut == [running |-> "running", assigned |-> "assigned", timeout |-> "pending"]

TimeoutsNeverClobber ==
  [][\A c \in Janitors, j \in Jobs :
       (/\ phase[c] \in DOMAIN TimedOut
        /\ phase'[c] = phase[c]
        /\ batch'[c] # batch[c]
        /\ jobs'[j] # jobs[j])
       => jobs[j].status = TimedOut[phase[c]]]_vars

(* docs/architecture.md draws canceled as final: in particular, a canceled *)
(* job is not handed to a worker.                                          *)
CanceledIsNotAssigned ==
  [][\A j \in Jobs :
       jobs[j].status = "canceled" => jobs'[j].status # "assigned"]_vars

-----------------------------------------------------------------------------
(* Liveness.                                                               *)

(* A pending job is assigned or given up, with or without workers online,  *)
(* unless its last worker goes on rejecting it: a rejection restarts the   *)
(* clock, whether the job is assigned or not.  (A worker rejects once for  *)
(* each request it was sent.)                                              *)
PendingIsResolved ==
  \A j \in Jobs :
    <>[](\A h \in Handlers : task[h].pc # "reject") =>
      (jobs[j].status = "pending" ~> jobs[j].status # "pending")

(* An assignment nobody answers is taken back.                             *)
UnansweredIsRequeued ==
  \A j \in Jobs : jobs[j].status = "assigned" ~> jobs[j].status # "assigned"

(* If the worker of a job falls silent for good, the job stops running.    *)
SilentWorkerIsReaped ==
  \A j \in Jobs :
    <>[](jobs[j].workerSeen # 0) =>
      (jobs[j].status = "running" ~> jobs[j].status # "running")

(* If the client of a monitored job falls silent for good, the job is      *)
(* stopped, or at least on its way.                                        *)
AbandonedIsStopped ==
  \A j \in Jobs :
    <>[](jobs[j].monitor /\ jobs[j].clientSeen # 0) =>
      (jobs[j].status \in Active ~> jobs[j].status \in Terminal \cup {"canceling"})

(* The diagram's edge from canceling to canceled: "Worker Confirms /       *)
(* Forced".                                                                *)
CancelingIsForced ==
  \A j \in Jobs : jobs[j].status = "canceling" ~> jobs[j].status # "canceling"
=============================================================================
