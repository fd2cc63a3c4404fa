----------------------------- MODULE WorkerAgent -----------------------------
(***************************************************************************)
(* The worker process (worker.py, transport.py, main.py): the registration *)
(* loop, the verification timeout, the listener of the transport, draining *)
(* and stopping, all tasks of one event loop.                              *)
(*                                                                         *)
(* A task runs until it waits; an action is what a task does from one wait *)
(* to the next.  Three kinds of task stop the transport (_stop_transport): *)
(* a registration that was answered with another transport, a timeout, and *)
(* stop().  It waits twice, for the listener and for the transport, so two *)
(* of them can be in it at once, and a new transport can be connected in   *)
(* between.  A cancel thrown at the first wait only cancels the listener   *)
(* again and is lost; one thrown at the second may be lost or not.         *)
(*                                                                         *)
(* The coordinator is the environment: it answers registrations with the   *)
(* transport of its row, sends a verify message, and messages about jobs.  *)
(* A verify message of a registration that was replaced changes nothing    *)
(* and is forgotten.  A message about a job has its id before send_message *)
(* begins to wait for the table, the row and the broker, so messages may   *)
(* arrive in any order; those of a transport are fetched as they arrived.  *)
(* (What an HTTP poll finds in the table although the row names another    *)
(* transport is Polling's and WorkerRegistry's, not modelled here.)        *)
(* Runners are those of JobRunner: an active job ends by itself, or when   *)
(* it is canceled or aborted.                                              *)
(***************************************************************************)
EXTENDS Naturals, FiniteSets

CONSTANTS
  Transports,    \* transports the worker and the coordinator share
  NoTransport,   \* None
  Jobs,          \* job ids
  Listeners,     \* slots of listener tasks, naturals from 1
  Timers,        \* slots of verification timeout tasks
  MaxMessages,   \* bound on messages about jobs
  MaxFaults,     \* bound on losses, switches and untimely steps
  LongInterval,  \* registration_interval is longer than the timeout's 15 s
  MayDrain       \* enable_job_draining

ASSUME AgentAssumption ==
  /\ NoTransport \notin Transports
  /\ Listeners \subseteq Nat \ {0}
  /\ MaxMessages \in Nat
  /\ MaxFaults \in Nat
  /\ {LongInterval, MayDrain} \subseteq BOOLEAN

VARIABLES
  main,       \* run_worker: where it is, and what it was told
  tasks,      \* registration loops, verification timeouts, and stop()
  timer,      \* the task _verification_timeout_task names, or NoTask
  listeners,  \* listener tasks
  handle,     \* the listener _transport_task names, or 0
  current,    \* _current_transport of the transport manager
  open,       \* transports whose client polls or consumes
  verified,   \* _verified_event
  queue,      \* _message_queue of each transport, kept across connections
  jobs,       \* _active_jobs
  mail,       \* sent by the coordinator on a transport, not fetched yet
  posts,      \* registrations on their way: the status they carry
  row,        \* transport of the worker's row at the coordinator
  heard,      \* the status the coordinator was last told
  sending,    \* messages about jobs that send_message is busy with
  sent,       \* number of messages about jobs so far, the last id drawn
  arrived,    \* number of those that a transport took over
  faults      \* number of faults so far

vars == <<main, tasks, timer, listeners, handle, current, open, verified, queue,
          jobs, mail, posts, row, heard, sending, sent, arrived, faults>>

-----------------------------------------------------------------------------
RegTasks == {"start", "drain"}   \* a registration loop, by who created it
Stopper  == "stop"               \* main, while it is in stop()
Tasks    == RegTasks \cup Timers \cup {Stopper}
NoTask   == "none"
Nothing  == "nothing"            \* no registration on its way

ASSUME TimerAssumption == Timers \cap (RegTasks \cup {Stopper, NoTask}) = {}

(* Where a task waits; the last two are the waits of _stop_transport, `of`  *)
(* the transport being disconnected and `to` the one to connect afterwards. *)
Absent           == [pc |-> "absent"]
Beginning        == [pc |-> "begin"]   \* first registration, or a retry
Sleeping         == [pc |-> "sleep"]
Posting          == [pc |-> "post"]
Answered(t)      == [pc |-> "answered", to |-> t]
Joining(t)       == [pc |-> "join", to |-> t]
Closing(t, of)   == [pc |-> "close", to |-> t, of |-> of, thrown |-> FALSE]

Task == {Absent, Beginning, Sleeping, Posting}
        \cup [pc : {"answered"}, to : Transports]
        \cup [pc : {"join"}, to : Transports \cup {NoTransport}]
        \cup [pc : {"close"}, to : Transports \cup {NoTransport},
              of : Transports, thrown : BOOLEAN]

Stopping(p) == tasks[p].pc \in {"join", "close"}

(* Messages about a job carry an id that grows, and here the place in which *)
(* they arrived; "over" stands for canceled and failed.  One that is being  *)
(* sent goes to a transport the row has named since: send_message reads the *)
(* row at some time, and publishes the message at another.                  *)
Verification == [kind |-> "verify", id |-> 0]
Kinds        == {"request", "canceling", "over"}
JobMessage   == [kind : Kinds, job : Jobs, id : 1 .. MaxMessages, at : 1 .. MaxMessages]
Draft        == [kind : Kinds, job : Jobs, id : 1 .. MaxMessages,
                 to : SUBSET Transports]
Message      == {Verification} \cup JobMessage

(* A listener is about to start, waits for a message of transport `on`, for *)
(* the debounce after the first one, in the retry delay, or, with the rest  *)
(* of its batch, for an answer.                                             *)
Free           == [pc |-> "free"]
Starting       == [pc |-> "start"]
Retrying       == [pc |-> "retry"]
Receiving(t)   == [pc |-> "receive", on |-> t]
Debouncing(m)  == [pc |-> "debounce", first |-> m]
Handling(b)    == [pc |-> "handle", batch |-> b]
Echoing(b)     == [pc |-> "echo", batch |-> b]
Reporting(b)   == [pc |-> "report", batch |-> b]

Listener == {Free, Starting, Retrying}
            \cup [pc : {"receive"}, on : Transports]
            \cup [pc : {"debounce"}, first : Message]
            \cup [pc : {"handle", "echo", "report"}, batch : SUBSET Message]

(* Verify messages of a registration that was replaced are forgotten.       *)
Forget(S) == S \ {Verification}
Outdated(l) ==
  CASE l.pc = "debounce" /\ l.first = Verification -> Handling({})
    [] l.pc = "echo"                               -> Reporting(Forget(l.batch))
    [] l.pc \in {"handle", "report"}               -> [l EXCEPT !.batch = Forget(@)]
    [] OTHER                                       -> l

Active   == {j \in Jobs : jobs[j] # "none"}
Running  == main.pc \in {"up", "settle", "wait"}
Draining == MayDrain /\ main.pc # "up"

(* task.cancel(): at the first wait of _stop_transport it reaches only the  *)
(* listener that is being waited for.                                       *)
Canceled(t) ==
  CASE t.pc = "join"  -> t
    [] t.pc = "close" -> [t EXCEPT !.thrown = TRUE]
    [] OTHER          -> Absent

-----------------------------------------------------------------------------
(* Stopping the transport.  A step that gets here may have done something   *)
(* before: `now` is what main, tasks and faults are by then.                *)
Now == [main |-> main, tasks |-> tasks, faults |-> faults]

(* _action after the answer, and after the transport is there: clear the    *)
(* event, replace the timeout; the loop goes round unless it was stopped.   *)
Registered(r) ==
  /\ \E x \in Timers : tasks[x] = Absent
  /\ LET new == CHOOSE x \in Timers : tasks[x] = Absent
     IN  /\ timer' = new
         /\ tasks' = [p \in Tasks |->
                        CASE p = new   -> Sleeping
                          [] p = r     -> IF Running THEN Sleeping ELSE Absent
                          [] p = timer -> Canceled(tasks[p])
                          [] OTHER     -> tasks[p]]
  /\ verified' = FALSE

(* _update_transport once the old transport is stopped.  If connect raises  *)
(* the registration counts all the same.                                    *)
ConnectTo(r, t, h, op) ==
  /\ Registered(r)
  /\ \/ /\ \E l \in Listeners :
             /\ listeners[l] = Free
             /\ \A k \in Listeners : k < l => listeners[k] # Free
             /\ listeners' = [listeners EXCEPT ![l] = Starting]
             /\ handle' = l
        /\ current' = t
        /\ open' = op \cup {t}
        /\ UNCHANGED faults
     \/ /\ faults < MaxFaults
        /\ faults' = faults + 1
        /\ handle' = h
        /\ current' = NoTransport
        /\ open' = op
        /\ UNCHANGED listeners
  /\ UNCHANGED <<main, jobs>>

(* Mutant: disconnect keeps the name of the transport. *)
EndTaskKeepsName(p, h, op, now) ==
  /\ tasks' = [now.tasks EXCEPT ![p] = Absent]
  /\ IF p = Stopper
     THEN /\ main' = [now.main EXCEPT !.pc = "kill", !.waits = Active]
          /\ jobs' = [j \in Jobs |-> IF jobs[j] = "active" THEN "stopping" ELSE jobs[j]]
     ELSE main' = now.main /\ jobs' = jobs
  /\ faults' = now.faults
  /\ handle' = h
  /\ open' = op
  /\ UNCHANGED <<timer, listeners, verified, current>>

(* Mutant: stop() waits for the runners without canceling them. *)
EndTaskSparesJobs(p, h, op, now) ==
  /\ tasks' = [now.tasks EXCEPT ![p] = Absent]
  /\ main' = IF p = Stopper THEN [now.main EXCEPT !.pc = "kill", !.waits = Active] ELSE now.main
  /\ faults' = now.faults
  /\ handle' = h
  /\ current' = NoTransport
  /\ open' = op
  /\ UNCHANGED <<timer, listeners, verified, jobs>>

(* The rest of _verification_timeout, of a task that was canceled, or of    *)
(* stop(), which cancels every runner there is and waits for them.          *)
EndTask(p, h, op, now) ==
  /\ tasks' = [now.tasks EXCEPT ![p] = Absent]
  /\ IF p = Stopper
     THEN /\ main' = [now.main EXCEPT !.pc = "kill", !.waits = Active]
          /\ jobs' = [j \in Jobs |-> IF jobs[j] = "active" THEN "stopping" ELSE jobs[j]]
     ELSE main' = now.main /\ jobs' = jobs
  /\ faults' = now.faults
  /\ handle' = h
  /\ current' = NoTransport
  /\ open' = op
  /\ UNCHANGED <<timer, listeners, verified>>

(* What follows _stop_transport in task p, in the same step: no wait lies   *)
(* between.  h and op are the handle and the open transports by then.       *)
AfterStop(p, t, h, op, now) ==
  IF p \in RegTasks THEN ConnectTo(p, t, h, op) ELSE EndTask(p, h, op, now)

Suspend(now, p, wait) ==
  /\ main' = now.main
  /\ tasks' = [now.tasks EXCEPT ![p] = wait]
  /\ faults' = now.faults
  /\ UNCHANGED <<timer, current, open, verified, jobs>>

(* Mutant: disconnect does not look whether there is a transport. *)
StopTransportBlind(p, t, now) ==
  IF handle # 0
  THEN /\ listeners' = [listeners EXCEPT ![handle] = Free]
       /\ Suspend(now, p, Joining(t))
       /\ UNCHANGED handle
  ELSE Suspend(now, p, Closing(t, current)) /\ UNCHANGED <<listeners, handle>>

(* _stop_transport up to its first wait.  The listener ends wherever it     *)
(* waits, and forgets the batch it holds.                                   *)
StopTransport(p, t, now) ==
  IF handle # 0
  THEN /\ listeners' = [listeners EXCEPT ![handle] = Free]
       /\ Suspend(now, p, Joining(t))
       /\ UNCHANGED handle
  ELSE IF current # NoTransport
  THEN /\ Suspend(now, p, Closing(t, current))
       /\ UNCHANGED <<listeners, handle>>
  ELSE AfterStop(p, t, 0, open, now)

(* The listener has ended.                                                  *)
Join(p) ==
  /\ tasks[p].pc = "join"
  /\ IF current # NoTransport
     THEN /\ Suspend(Now, p, Closing(tasks[p].to, current))
          /\ handle' = 0
          /\ UNCHANGED listeners
     ELSE AfterStop(p, tasks[p].to, 0, open, Now)
  /\ UNCHANGED <<queue, mail, posts, row, heard, sending, sent, arrived>>

(* The transport has disconnected: whatever is connected by then is         *)
(* forgotten.  A cancel is thrown at the client's own wait, which catches   *)
(* it, or after that.                                                       *)
Close(p) ==
  /\ tasks[p].pc = "close"
  /\ LET left == open \ {tasks[p].of}
     IN  \/ AfterStop(p, tasks[p].to, handle, left, Now)
         \/ tasks[p].thrown /\ EndTask(p, handle, left, Now)
  /\ UNCHANGED <<queue, mail, posts, row, heard, sending, sent, arrived>>

-----------------------------------------------------------------------------
(* The registration loop and the verification timeout.                     *)

(* Some listener takes in what arrives on t. *)
Hears(t) ==
  \E l \in Listeners : \/ listeners[l] = Receiving(t)
                       \/ listeners[l].pc \notin {"free", "receive"} /\ current = t

HandshakeUnderWay ==
  \/ \E t \in Transports :
       Hears(t) /\ (Verification \in queue[t] \/ (t \in open /\ Verification \in mail[t]))
  \/ \E l \in Listeners : \/ listeners[l].pc = "debounce" /\ listeners[l].first = Verification
                          \/ listeners[l].pc \in {"handle", "report"}
                             /\ Verification \in listeners[l].batch
                          \/ listeners[l].pc = "echo"

TimeoutPending == timer # NoTask /\ tasks[timer] = Sleeping /\ ~verified

(* The interval and the timeout are longer than a handshake that nothing    *)
(* holds up, and the interval may be longer than the timeout: a step that   *)
(* comes before that counts as a fault.                                     *)
Cost(untimely) == IF untimely THEN 1 ELSE 0

(* The mounts are refreshed, and the request is sent; heartbeat_loop looks  *)
(* at is_running before it sleeps for the interval, not after.              *)
Post(r) ==
  /\ tasks[r] \in {Beginning, Sleeping}
  /\ posts[r] = Nothing
  /\ posts' = [posts EXCEPT ![r] = IF Draining THEN "draining" ELSE "online"]
  /\ tasks' = [tasks EXCEPT ![r] = Posting]
  /\ LET early == HandshakeUnderWay \/ (LongInterval /\ TimeoutPending)
     IN  faults' = faults + Cost(tasks[r] = Sleeping /\ early)
  /\ faults' <= MaxFaults
  /\ UNCHANGED <<main, timer, listeners, handle, current, open, verified, queue, jobs,
                 mail, row, heard, sending, sent, arrived>>

(* The answer names the transport that is current, or another one.          *)
Update(r) ==
  /\ tasks[r].pc = "answered"
  /\ IF tasks[r].to = current
     THEN /\ Registered(r)
          /\ UNCHANGED <<main, listeners, handle, current, open, jobs, faults>>
     ELSE StopTransport(r, tasks[r].to, Now)
  /\ UNCHANGED <<queue, mail, posts, row, heard, sending, sent, arrived>>

(* Request or answer lost, or refused: async_retry sleeps and tries again.  *)
PostFails(r) ==
  /\ faults < MaxFaults
  /\ tasks[r].pc \in {"post", "answered"}
  /\ faults' = faults + 1
  /\ tasks' = [tasks EXCEPT ![r] = Beginning]
  /\ posts' = [posts EXCEPT ![r] = Nothing]
  /\ UNCHANGED <<main, timer, listeners, handle, current, open, verified, queue, jobs,
                 mail, row, heard, sending, sent, arrived>>

TimerEnds(x) ==
  /\ tasks[x] = Sleeping
  /\ verified
  /\ tasks' = [tasks EXCEPT ![x] = Absent]
  /\ UNCHANGED <<main, timer, listeners, handle, current, open, verified, queue, jobs,
                 mail, posts, row, heard, sending, sent, arrived, faults>>

(* A timeout that finds another task stopping the transport is rare enough  *)
(* to be counted, too.                                                      *)
TimerFires(x) ==
  /\ tasks[x] = Sleeping
  /\ ~verified
  /\ LET cost == Cost(HandshakeUnderWay \/ \E p \in Tasks : Stopping(p))
     IN  /\ faults + cost <= MaxFaults
         /\ StopTransport(x, NoTransport, [Now EXCEPT !.faults = faults + cost])
  /\ UNCHANGED <<queue, mail, posts, row, heard, sending, sent, arrived>>

-----------------------------------------------------------------------------
(* The listener.                                                           *)

(* Mutant: the oldest message of a job is kept. *)
CollapseToOldest(batch) ==
  {m \in batch : m = Verification \/
     \A n \in batch \ {Verification} : n.job = m.job => n.id >= m.id}

(* collapse_batch: the newest message of each job, by id.                   *)
Collapse(batch) ==
  {m \in batch : m = Verification \/
     \A n \in batch \ {Verification} : n.job = m.job => n.id <= m.id}

Become(l, r) == listeners' = [listeners EXCEPT ![l] = r]

(* The client's loop puts what it is sent in the queue.                     *)
Fetch(t) ==
  /\ t \in open
  /\ mail[t] # {}
  /\ queue' = [queue EXCEPT ![t] = @ \cup mail[t]]
  /\ mail' = [mail EXCEPT ![t] = {}]
  /\ UNCHANGED <<main, tasks, timer, listeners, handle, current, open, verified, jobs,
                 posts, row, heard, sending, sent, arrived, faults>>

(* From listen_batch's first look at the transport, or from the end of a    *)
(* batch or of the retry delay, to receive(): that of None raises, and      *)
(* listen_batch sleeps.                                                     *)
Receive(l) ==
  /\ \/ listeners[l] \in {Starting, Retrying}
     \/ listeners[l] = Handling({})
  /\ Become(l, IF current # NoTransport THEN Receiving(current)
               ELSE IF listeners[l] = Starting THEN Free ELSE Retrying)
  /\ UNCHANGED <<main, tasks, timer, handle, current, open, verified, queue, jobs,
                 mail, posts, row, heard, sending, sent, arrived, faults>>

TakeFirst(l) ==
  /\ listeners[l].pc = "receive"
  /\ \E m \in queue[listeners[l].on] :
       /\ queue' = [queue EXCEPT ![listeners[l].on] = @ \ {m}]
       /\ Become(l, Debouncing(m))
  /\ UNCHANGED <<main, tasks, timer, handle, current, open, verified, jobs,
                 mail, posts, row, heard, sending, sent, arrived, faults>>

(* The rest of the batch is taken from the transport that is current after  *)
(* the delay; if there is none the first message is lost with the batch.    *)
TakeRest(l) ==
  /\ listeners[l].pc = "debounce"
  /\ IF current = NoTransport
     THEN Become(l, Retrying) /\ UNCHANGED queue
     ELSE /\ Become(l, Handling(Collapse({listeners[l].first} \cup queue[current])))
          /\ queue' = [queue EXCEPT ![current] = {}]
  /\ UNCHANGED <<main, tasks, timer, handle, current, open, verified, jobs,
                 mail, posts, row, heard, sending, sent, arrived, faults>>

(* The handlers, in the order of the ids.                                   *)
HandleVerify(l, m, rest) ==
  /\ m = Verification
  /\ Become(l, Echoing(rest))
  /\ UNCHANGED jobs

(* Mutant: a draining worker takes what it is assigned. *)
HandleRequestWhileDraining(l, m, rest) ==
  /\ m.kind = "request"
  /\ IF jobs[m.job] # "none" THEN Become(l, Handling(rest)) /\ UNCHANGED jobs
     ELSE \/ Become(l, Reporting(rest)) /\ UNCHANGED jobs
          \/ /\ jobs' = [jobs EXCEPT ![m.job] = "active"]
             /\ Become(l, Handling(rest))

(* A request that does not fit the configuration is reported as failed.     *)
HandleRequest(l, m, rest) ==
  /\ m.kind = "request"
  /\ IF jobs[m.job] # "none" THEN Become(l, Handling(rest)) /\ UNCHANGED jobs
     ELSE IF Draining THEN Become(l, Reporting(rest)) /\ UNCHANGED jobs
     ELSE \/ Become(l, Reporting(rest)) /\ UNCHANGED jobs
          \/ /\ jobs' = [jobs EXCEPT ![m.job] = "active"]
             /\ Become(l, Handling(rest))

(* A cancel of a job that is not there is reported as canceled.             *)
HandleStatus(l, m, rest) ==
  /\ m.kind \in {"canceling", "over"}
  /\ IF jobs[m.job] # "none"
     THEN jobs' = [jobs EXCEPT ![m.job] = "stopping"] /\ Become(l, Handling(rest))
     ELSE /\ UNCHANGED jobs
          /\ Become(l, IF m.kind = "canceling" THEN Reporting(rest) ELSE Handling(rest))

Handle(l) ==
  /\ listeners[l].pc = "handle"
  /\ \E m \in listeners[l].batch :
       /\ \A n \in listeners[l].batch : m.id <= n.id
       /\ LET rest == listeners[l].batch \ {m}
          IN  HandleVerify(l, m, rest) \/ HandleRequest(l, m, rest) \/ HandleStatus(l, m, rest)
  /\ UNCHANGED <<main, tasks, timer, handle, current, open, verified, queue,
                 mail, posts, row, heard, sending, sent, arrived, faults>>

(* The echo was accepted, and the event is set.  The verify message is sent *)
(* after the answer to the registration; to overtake it, all the way to     *)
(* this step, is untimely.                                                  *)
Echoed(l) ==
  /\ listeners[l].pc = "echo"
  /\ faults' = faults + Cost(\E r \in RegTasks : tasks[r].pc = "answered")
  /\ faults' <= MaxFaults
  /\ verified' = TRUE
  /\ Become(l, Handling(listeners[l].batch))
  /\ UNCHANGED <<main, tasks, timer, handle, current, open, queue, jobs,
                 mail, posts, row, heard, sending, sent, arrived>>

(* A report was answered; an echo was not accepted, or failed.              *)
Reported(l) ==
  /\ \/ listeners[l].pc = "report" /\ UNCHANGED faults
     \/ listeners[l].pc = "echo" /\ faults < MaxFaults /\ faults' = faults + 1
  /\ Become(l, Handling(listeners[l].batch))
  /\ UNCHANGED <<main, tasks, timer, handle, current, open, verified, queue, jobs,
                 mail, posts, row, heard, sending, sent, arrived>>

ListenerStep(l) ==
  \/ Receive(l) \/ TakeFirst(l) \/ TakeRest(l)
  \/ Handle(l) \/ Echoed(l) \/ Reported(l)

-----------------------------------------------------------------------------
(* main.py: the first signal drains, the second one stops.                 *)

SameWorld == UNCHANGED <<mail, posts, row, heard, sending, sent, arrived>>

(* stop() up to its first wait. *)
Stop(forced) ==
  /\ LET loop == IF MayDrain THEN "drain" ELSE "start"
     IN  StopTransport(Stopper, NoTransport,
           [Now EXCEPT !.main = [pc |-> "stop", forced |-> forced, waits |-> {}],
                       !.tasks[loop] = Canceled(@)])
  /\ SameWorld
  /\ UNCHANGED queue

(* Mutant: drain() does not start another registration loop. *)
SignalEndsLoop ==
  /\ main.pc = "up"
  /\ MayDrain
  /\ main' = [main EXCEPT !.pc = "settle"]
  /\ tasks' = [tasks EXCEPT !["start"] = Canceled(@)]
  /\ SameWorld
  /\ UNCHANGED <<timer, listeners, handle, current, open, verified, queue, jobs, faults>>

(* drain() cancels the registration loop and starts another; if draining is *)
(* disabled it returns at once.                                             *)
Signal ==
  /\ main.pc = "up"
  /\ IF MayDrain
     THEN /\ main' = [main EXCEPT !.pc = "settle"]
          /\ tasks' = [tasks EXCEPT !["start"] = Canceled(@), !["drain"] = Beginning]
          /\ SameWorld
          /\ UNCHANGED <<timer, listeners, handle, current, open, verified, queue, jobs, faults>>
     ELSE Stop(FALSE)

(* After the minimum drain time, drain() waits for the jobs there are.      *)
Settled ==
  /\ main.pc = "settle"
  /\ IF Active = {} THEN Stop(FALSE)
     ELSE /\ main' = [main EXCEPT !.pc = "wait", !.waits = Active]
          /\ SameWorld
          /\ UNCHANGED <<tasks, timer, listeners, handle, current, open, verified, queue,
                         jobs, faults>>

Drained == main.pc = "wait" /\ main.waits = {} /\ Stop(FALSE)
SecondSignal == main.pc \in {"settle", "wait"} /\ Stop(TRUE)

(* The runners have ended: deregister, close the client, and the process    *)
(* ends with every task that is left.                                       *)
Deregister ==
  /\ main.pc = "kill"
  /\ main.waits = {}
  /\ main' = [main EXCEPT !.pc = "exit"]
  /\ \/ heard' = "offline" /\ row' = NoTransport /\ UNCHANGED faults
     \/ faults < MaxFaults /\ faults' = faults + 1 /\ UNCHANGED <<heard, row>>
  /\ UNCHANGED <<tasks, timer, listeners, handle, current, open, verified, queue, jobs,
                 mail, posts, sending, sent, arrived>>

MainStep == Settled \/ Drained \/ Deregister

(* _cleanup_job: the runner's main task ends.                               *)
RunnerEnds(j) ==
  /\ jobs[j] # "none"
  /\ jobs' = [jobs EXCEPT ![j] = "none"]
  /\ main' = [main EXCEPT !.waits = @ \ {j}]
  /\ SameWorld
  /\ UNCHANGED <<tasks, timer, listeners, handle, current, open, verified, queue, faults>>

-----------------------------------------------------------------------------
(* The coordinator, and the network.                                       *)

(* A registration arrives: the row names a transport, the answer too, and a *)
(* verify message is sent on it, which makes earlier ones worthless.        *)
Register(r, t) ==
  /\ posts[r] # Nothing
  /\ faults' = faults + Cost(t # row /\ row # NoTransport)
  /\ faults' <= MaxFaults
  /\ posts' = [posts EXCEPT ![r] = Nothing]
  /\ heard' = posts[r]
  /\ row' = t
  /\ tasks' = [tasks EXCEPT ![r] = IF @ = Posting THEN Answered(t) ELSE @]
  /\ mail' = [u \in Transports |-> IF u = t THEN mail[u] \cup {Verification} ELSE Forget(mail[u])]
  /\ queue' = [u \in Transports |-> Forget(queue[u])]
  /\ listeners' = [l \in Listeners |-> Outdated(listeners[l])]
  /\ sending' = {[d EXCEPT !.to = @ \cup {t}] : d \in sending}
  /\ UNCHANGED <<main, timer, handle, current, open, verified, jobs, sent, arrived>>

(* A handler builds a message, which draws its id, and calls send_message.  *)
(* A job is assigned to a worker that is online, and there is nothing to    *)
(* cancel before.                                                           *)
Compose(kind, j) ==
  /\ sent < MaxMessages
  /\ IF kind = "request" THEN row # NoTransport ELSE sent > 0
  /\ sent' = sent + 1
  /\ sending' = sending \cup {[kind |-> kind, job |-> j, id |-> sent + 1,
                               to |-> {row} \ {NoTransport}]}
  /\ UNCHANGED <<main, tasks, timer, listeners, handle, current, open, verified, queue, jobs,
                 mail, posts, row, heard, arrived, faults>>

(* send_message waited for the table, read the worker's row, and waited for *)
(* the transport that the row named then, which takes the message over.  If *)
(* the row named none, or the transport fails, this step is never taken.    *)
Publish(d, t) ==
  /\ arrived < MaxMessages
  /\ arrived' = arrived + 1
  /\ sending' = sending \ {d}
  /\ mail' = [mail EXCEPT ![t] = @ \cup
               {[kind |-> d.kind, job |-> d.job, id |-> d.id, at |-> arrived + 1]}]
  /\ UNCHANGED <<main, tasks, timer, listeners, handle, current, open, verified, queue, jobs,
                 posts, row, heard, sent, faults>>

(* A client loses its connection for good without noticing.                 *)
Break(t) ==
  /\ faults < MaxFaults
  /\ t \in open
  /\ faults' = faults + 1
  /\ open' = open \ {t}
  /\ UNCHANGED <<main, tasks, timer, listeners, handle, current, verified, queue, jobs,
                 mail, posts, row, heard, sending, sent, arrived>>

-----------------------------------------------------------------------------
Init ==
  /\ main = [pc |-> "up", forced |-> FALSE, waits |-> {}]
  /\ tasks = [p \in Tasks |-> IF p = "start" THEN Beginning ELSE Absent]
  /\ timer = NoTask
  /\ listeners = [l \in Listeners |-> Free]
  /\ handle = 0
  /\ current = NoTransport
  /\ open = {}
  /\ verified = FALSE
  /\ queue = [t \in Transports |-> {}]
  /\ jobs = [j \in Jobs |-> "none"]
  /\ mail = [t \in Transports |-> {}]
  /\ posts = [r \in RegTasks |-> Nothing]
  /\ row = NoTransport
  /\ heard = "offline"
  /\ sending = {}
  /\ sent = 0
  /\ arrived = 0
  /\ faults = 0

TaskStep(p) ==
  \/ Join(p) \/ Close(p)
  \/ p \in RegTasks /\ (Post(p) \/ Update(p))
  \/ p \in Timers /\ (TimerEnds(p) \/ TimerFires(p))

Next ==
  /\ main.pc # "exit"
  /\ \/ \E p \in Tasks : TaskStep(p)
     \/ \E r \in RegTasks : PostFails(r) \/ \E t \in Transports : Register(r, t)
     \/ \E l \in Listeners : ListenerStep(l)
     \/ \E t \in Transports : Fetch(t) \/ Break(t)
     \/ Signal \/ SecondSignal \/ MainStep
     \/ \E j \in Jobs : \/ RunnerEnds(j)
                        \/ \E kind \in Kinds : Compose(kind, j)
     \/ \E d \in sending : \E t \in d.to : Publish(d, t)

Spec == Init /\ [][Next]_vars

(* The event loop runs every task, timers expire, the coordinator answers,  *)
(* and a runner that was canceled ends.                                     *)
Fairness ==
  /\ \A p \in Tasks : WF_vars(TaskStep(p))
  /\ \A r \in RegTasks : WF_vars(\E t \in Transports : Register(r, t))
  /\ \A l \in Listeners : WF_vars(ListenerStep(l))
  /\ \A t \in Transports : WF_vars(Fetch(t))
  /\ WF_vars(MainStep)
  /\ \A j \in Jobs : WF_vars(jobs[j] = "stopping" /\ RunnerEnds(j))

FairSpec == Spec /\ Fairness

-----------------------------------------------------------------------------
(* Safety.                                                                 *)

TypeOK ==
  /\ main \in [pc : {"up", "settle", "wait", "stop", "kill", "exit"},
               forced : BOOLEAN, waits : SUBSET Jobs]
  /\ tasks \in [Tasks -> Task]
  /\ timer \in Timers \cup {NoTask}
  /\ listeners \in [Listeners -> Listener]
  /\ handle \in Listeners \cup {0}
  /\ current \in Transports \cup {NoTransport}
  /\ open \subseteq Transports
  /\ verified \in BOOLEAN
  /\ queue \in [Transports -> SUBSET Message]
  /\ jobs \in [Jobs -> {"none", "active", "stopping"}]
  /\ mail \in [Transports -> SUBSET Message]
  /\ posts \in [RegTasks -> {Nothing, "online", "draining"}]
  /\ row \in Transports \cup {NoTransport}
  /\ heard \in {"offline", "online", "draining"}
  /\ sending \subseteq Draft
  /\ sent \in 0 .. MaxMessages
  /\ arrived \in 0 .. MaxMessages
  /\ faults \in 0 .. MaxFaults

(* CHANGELOG.md: the first signal drains existing jobs, the second tears    *)
(* down.  A worker that was drained and not forced has no job left to kill  *)
(* when it stops, whatever requests were on their way to it.                *)
GracefulDrainKillsNothing ==
  MayDrain /\ ~main.forced /\ main.pc \in {"stop", "kill"} => Active = {}

(* What has arrived about a job and no handler has dealt with. *)
InHand(l) == CASE listeners[l].pc = "debounce"                    -> {listeners[l].first}
               [] listeners[l].pc \in {"handle", "echo", "report"} -> listeners[l].batch
               [] OTHER                                           -> {}

Unread(j) == {m \in UNION ({mail[t] \cup queue[t] : t \in Transports}
                           \cup {InHand(l) : l \in Listeners}) : m # Verification /\ m.job = j}

(* A cancel, or the news that a job is over, is done with in one of three    *)
(* ways.  Its handler ran: then the job does not run, the listener that took *)
(* the cancel has no older request in its hands, and if it is the listener   *)
(* of the transport that is current, no request that arrived there before    *)
(* the cancel is left.  Or a newer message of the job took its place in the  *)
(* batch.  Or its listener ended, or found no transport, and the whole batch *)
(* is lost.  (A request that arrives after the cancel may be the older one,  *)
(* and starts the job.  A listener left over from a transport before may     *)
(* hold a request itself, and may handle a cancel while one is on the        *)
(* transport that is current.)                                               *)
CancelIsActedOn ==
  [][\A j \in Jobs : \A m \in Unread(j) \ Unread(j)' :
       m.kind # "request" =>
         \/ /\ jobs'[j] # "active"
            /\ \A l \in Listeners, r \in Unread(j)' :
                 r.kind = "request" /\ listeners'[l] # listeners[l] =>
                   /\ r \in InHand(l)' => r.id >= m.id
                   /\ l = handle => \A t \in Transports \cap {current'} :
                                      r \in mail'[t] \cup queue'[t] => r.at > m.at
         \/ \E l \in Listeners, n \in Unread(j)' : n \in InHand(l)' /\ n.id > m.id
         \/ \E l \in Listeners : m \in InHand(l) /\ listeners'[l] \in {Free, Retrying}]_vars

-----------------------------------------------------------------------------
(* Liveness.                                                               *)

(* The transport the coordinator sends to is one the worker reads from. *)
Reachable == row # NoTransport /\ row = current /\ row \in open /\ Hears(row)

(* If registration_interval is longer than the verification timeout (so the *)
(* condition LongInterval; its default is not, and then the property fails: *)
(* each registration replaces a timeout that has not fired), the worker, as *)
(* long as it is not stopped, becomes reachable again and again, and proves *)
(* it to the coordinator, whichever timeouts, registrations and broken      *)
(* connections met.                                                         *)
RecoversTransport == <>[](main.pc = "up") => []<>(Reachable /\ verified)

(* A worker that goes on draining is known to drain, from some time on,     *)
(* also when a registration canceled by drain() arrives after a later one.  *)
DrainIsAnnounced == <>[](main.pc \in {"settle", "wait"} ) => <>[](heard = "draining")

(* A second signal ends the process, whatever its tasks were waiting for.   *)
(* (A stop that is forced stays forced, and a process that ended has ended: *)
(* this says the same as main.forced ~> main.pc = "exit".)                  *)
ForcedStopEnds == <>[]main.forced => <>[](main.pc = "exit")

=============================================================================
