------------------------------ MODULE JobStore ------------------------------
(***************************************************************************)
(* The row the coordinator keeps for a job, and the operations of the job  *)
(* repository on it (dffmpeg.coordinator.db.jobs).  The module is          *)
(* stateless: an operation is an operator from the old row to the new one, *)
(* and each is one SQL statement, so atomic.                               *)
(*                                                                         *)
(* Timestamp columns hold ages (module Ages), which saturate one unit above *)
(* the largest threshold they are compared with.                           *)
(***************************************************************************)
EXTENDS Ages

CONSTANTS
  Workers,           \* worker identities
  NoWorker,          \* the NULL of the worker_id column
  RetryDelay,        \* janitor.job_pending_retry_delay
  AssignTimeout,     \* janitor.job_assignment_timeout
  PendingTimeout,    \* janitor.job_pending_timeout
  HeartbeatTimeout   \* heartbeat_interval * job_heartbeat_threshold_factor

ASSUME StoreAssumption ==
  /\ NoWorker \notin Workers
  /\ RetryDelay \in Nat
  /\ AssignTimeout \in Nat
  /\ PendingTimeout \in Nat
  /\ HeartbeatTimeout \in Nat

-----------------------------------------------------------------------------
(* Rows.                                                                   *)

Terminal == {"completed", "failed", "canceled"}
Active   == {"pending", "assigned", "running", "canceling"}
Absent   == "absent"       \* no row with this job_id has been inserted yet
Statuses == Terminal \cup Active \cup {Absent}

UpdateHorizon == 1 + (IF AssignTimeout > PendingTimeout
                      THEN AssignTimeout ELSE PendingTimeout)
SeenHorizon   == 1 + HeartbeatTimeout

Row == [ status     : Statuses,
         worker     : Workers \cup {NoWorker},
         lastUpdate : 0 .. UpdateHorizon,
         workerSeen : AgesTo(SeenHorizon),
         clientSeen : AgesTo(SeenHorizon),
         monitor    : BOOLEAN ]

AbsentRow == [ status     |-> Absent,
               worker     |-> NoWorker,
               lastUpdate |-> 0,
               workerSeen |-> Never,
               clientSeen |-> Never,
               monitor    |-> FALSE ]

Exists(row)   == row.status # Absent
Finished(row) == row.status \in Terminal

-----------------------------------------------------------------------------
(* Writes.                                                                 *)

(* Mutant: last_update is left to the first write. *)
CreateJobUndated(mon) == [ status     |-> "pending",
                           worker     |-> NoWorker,
                           lastUpdate |-> Never,
                           workerSeen |-> Never,
                           clientSeen |-> IF mon THEN 0 ELSE Never,
                           monitor    |-> mon ]

(* create_job, of the record job_submit builds. *)
CreateJob(mon) == [ status     |-> "pending",
                    worker     |-> NoWorker,
                    lastUpdate |-> 0,
                    workerSeen |-> Never,
                    clientSeen |-> IF mon THEN 0 ELSE Never,
                    monitor    |-> mon ]

(* Mutant: worker_last_seen is left to the first heartbeat. *)
UpdateStatusUnseen(row, status, worker) ==
  [row EXCEPT !.status = status, !.lastUpdate = 0,
              !.worker = IF worker = NoWorker THEN @ ELSE worker]

(* update_status without previous_status: `if worker_id:` guards the worker *)
(* columns, so a NULL argument leaves them as they are.                     *)
UpdateStatus(row, status, worker) ==
  LET stamped == [row EXCEPT !.status = status, !.lastUpdate = 0]
  IN  IF worker = NoWorker
      THEN stamped
      ELSE [stamped EXCEPT !.worker = worker, !.workerSeen = 0]

(* Mutant: the WHERE clause names the job only. *)
MatchesAnything(row, previous) == TRUE

(* The WHERE clause of update_status with previous_status. *)
Matches(row, previous) == row.status = previous

UpdateWorkerHeartbeat(row) == [row EXCEPT !.workerSeen = 0]

(* update_client_heartbeat; `mon` is the request's monitor argument, which  *)
(* may be absent ("keep").                                                  *)
UpdateClientHeartbeat(row, mon) ==
  [row EXCEPT !.clientSeen = 0,
              !.monitor    = CASE mon = "on"   -> TRUE
                               [] mon = "off"  -> FALSE
                               [] OTHER        -> @]

-----------------------------------------------------------------------------
(* The queries of the janitor.                                              *)

(* Mutants: the clause of another query, the heartbeat taken for an answer, *)
(* a comparison the wrong way round, a status left out of the list.         *)
StaleRunningByClient(row) == row.status = "running" /\ OlderThan(row.clientSeen, HeartbeatTimeout)
StaleAssignedBySeen(row)  == row.status = "assigned" /\ OlderThan(row.workerSeen, HeartbeatTimeout)
YoungPending(row)         == row.status = "pending" /\ row.lastUpdate < PendingTimeout
StaleMonitoredRunning(row) == /\ row.status = "running"
                              /\ row.monitor
                              /\ OlderThan(row.clientSeen, HeartbeatTimeout)

StaleRunning(row)  == row.status = "running"  /\ OlderThan(row.workerSeen, HeartbeatTimeout)
StaleAssigned(row) == row.status = "assigned" /\ OlderThan(row.lastUpdate, AssignTimeout)
RetryPending(row)  == /\ row.status = "pending"
                      /\ OlderThan(row.lastUpdate, RetryDelay)
                      /\ row.lastUpdate < PendingTimeout
StalePending(row)  == row.status = "pending"  /\ OlderThan(row.lastUpdate, PendingTimeout)
StaleMonitored(row) == /\ row.status \in Active
                       /\ row.monitor
                       /\ OlderThan(row.clientSeen, HeartbeatTimeout)

(* get_worker_load counts the rows with these. *)
Loads(row, w) == row.status \in {"assigned", "running", "canceling"} /\ row.worker = w

-----------------------------------------------------------------------------
(* One unit of time passes for a row. *)

Older(row) ==
  IF Exists(row)
  THEN [row EXCEPT !.lastUpdate = Aged(@, UpdateHorizon),
                   !.workerSeen = Aged(@, SeenHorizon),
                   !.clientSeen = Aged(@, SeenHorizon)]
  ELSE row
=============================================================================
