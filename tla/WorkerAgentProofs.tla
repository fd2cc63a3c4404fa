-------------------------- MODULE WorkerAgentProofs --------------------------
(* Theorems about WorkerAgent, for any number of transports, jobs, listener *)
(* and timeout slots, messages and faults.                                 *)
EXTENDS WorkerAgent, TLAPS, FiniteSetTheorems, WellFoundedInduction

-----------------------------------------------------------------------------
(* The inductive invariant.                                                *)

Phases == [pc : {"up", "settle", "wait", "stop", "kill", "exit"},
           forced : BOOLEAN, waits : SUBSET Jobs]

(* A registration that stops a transport has another one to connect.        *)
HasTarget(ts) ==
  \A r \in RegTasks : ts[r].pc \in {"join", "close"} => ts[r].to \in Transports

(* Only in stop() is the main task waiting for the transport.               *)
StopperStops(m, ts) == ts[Stopper].pc \in {"join", "close"} => m.pc = "stop"

(* A worker that drains starts no job: those it waits for are all it has,   *)
(* and when it stops unforced there is none.                               *)
DrainsDry(m) ==
  MayDrain =>
    /\ m.pc = "wait" => Active \subseteq m.waits
    /\ m.pc \in {"stop", "kill"} /\ ~m.forced => Active = {}

IInv ==
  /\ TypeOK
  /\ HasTarget(tasks)
  /\ StopperStops(main, tasks)
  /\ DrainsDry(main)

(* The process: what the tasks of the event loop share.                     *)
ProcessOK ==
  /\ main \in Phases
  /\ tasks \in [Tasks -> Task]
  /\ timer \in Timers \cup {NoTask}
  /\ listeners \in [Listeners -> Listener]
  /\ handle \in Listeners \cup {0}
  /\ current \in Transports \cup {NoTransport}
  /\ open \subseteq Transports
  /\ verified \in BOOLEAN
  /\ jobs \in [Jobs -> {"none", "active", "stopping"}]
  /\ faults \in 0 .. MaxFaults
  /\ HasTarget(tasks)
  /\ StopperStops(main, tasks)
  /\ DrainsDry(main)

(* Its surroundings: queues, mail and what the coordinator knows.           *)
WorldOK ==
  /\ queue \in [Transports -> SUBSET Message]
  /\ mail \in [Transports -> SUBSET Message]
  /\ posts \in [RegTasks -> {Nothing, "online", "draining"}]
  /\ row \in Transports \cup {NoTransport}
  /\ heard \in {"offline", "online", "draining"}
  /\ sending \subseteq Draft
  /\ sent \in 0 .. MaxMessages
  /\ arrived \in 0 .. MaxMessages

LEMMA Parts == IInv <=> ProcessOK /\ WorldOK
  BY DEF IInv, TypeOK, ProcessOK, WorldOK, Phases

LEMMA PartsNext == IInv' <=> ProcessOK' /\ WorldOK'
  BY DEF IInv, TypeOK, ProcessOK, WorldOK, Phases

-----------------------------------------------------------------------------
(* Tasks.                                                                  *)

LEMMA TaskNames ==
  /\ Stopper \in Tasks /\ RegTasks \subseteq Tasks /\ Timers \subseteq Tasks
  /\ Stopper \notin RegTasks /\ Stopper \notin Timers
  /\ \A x \in Timers : x \notin RegTasks
  /\ "start" \in RegTasks /\ "drain" \in RegTasks
  BY TimerAssumption DEF Tasks, RegTasks, Stopper

LEMMA Waits ==
  /\ Absent \in Task /\ Beginning \in Task /\ Sleeping \in Task /\ Posting \in Task
  /\ Absent.pc = "absent" /\ Beginning.pc = "begin" /\ Sleeping.pc = "sleep" /\ Posting.pc = "post"
  /\ \A t \in Transports : Answered(t) \in Task /\ Answered(t).pc = "answered"
  /\ \A t \in Transports \cup {NoTransport} :
       /\ Joining(t) \in Task /\ Joining(t).pc = "join" /\ Joining(t).to = t
       /\ \A of \in Transports :
            /\ Closing(t, of) \in Task /\ Closing(t, of).pc = "close" /\ Closing(t, of).to = t
  BY DEF Task, Absent, Beginning, Sleeping, Posting, Answered, Joining, Closing

LEMMA WaitType ==
  ASSUME NEW t \in Task
  PROVE  /\ t.pc = "answered" => t.to \in Transports
         /\ t.pc = "join" => t.to \in Transports \cup {NoTransport}
         /\ t.pc = "close" => t.to \in Transports \cup {NoTransport} /\ t.of \in Transports
  BY DEF Task, Absent, Beginning, Sleeping, Posting

(* A canceled task is gone, or waits for what it waited for.                *)
LEMMA CanceledType ==
  ASSUME NEW t \in Task
  PROVE  /\ Canceled(t) \in Task
         /\ Canceled(t) = Absent \/ (Canceled(t).pc = t.pc /\ Canceled(t).to = t.to)
<1>1. CASE t.pc = "join"
  BY <1>1 DEF Canceled
<1>2. CASE t.pc = "close"
  <2>1. t \in [pc : {"close"}, to : Transports \cup {NoTransport}, of : Transports,
               thrown : BOOLEAN]
    BY <1>2 DEF Task, Absent, Beginning, Sleeping, Posting
  <2>2. Canceled(t) = [t EXCEPT !.thrown = TRUE]
    BY <1>2 DEF Canceled
  <2>3. /\ Canceled(t) \in [pc : {"close"}, to : Transports \cup {NoTransport}, of : Transports,
                            thrown : BOOLEAN]
        /\ Canceled(t).pc = t.pc /\ Canceled(t).to = t.to
    BY <2>1, <2>2
  <2> QED
    BY <2>3 DEF Task
<1>3. CASE t.pc \notin {"join", "close"}
  <2>1. Canceled(t) = Absent
    BY <1>3 DEF Canceled
  <2> QED
    BY <2>1, Waits
<1> QED
  BY <1>1, <1>2, <1>3

-----------------------------------------------------------------------------
(* Stopping the transport.                                                 *)

(* What a step has made of main, tasks and faults before it gets there.     *)
NowOK(p, now) ==
  /\ now.main \in Phases
  /\ now.tasks \in [Tasks -> Task]
  /\ now.faults \in 0 .. MaxFaults
  /\ HasTarget(now.tasks)
  /\ StopperStops(now.main, now.tasks)
  /\ DrainsDry(now.main)
  /\ p = Stopper => now.main.pc = "stop"

LEMMA EndTaskStep ==
  ASSUME ProcessOK, NEW p \in Tasks, NEW h \in Listeners \cup {0}, NEW op \in SUBSET Transports,
         NEW now, NowOK(p, now), EndTask(p, h, op, now)
  PROVE  ProcessOK'
<1>1. /\ UNCHANGED <<timer, listeners, verified>>
      /\ handle' = h /\ open' = op /\ current' = NoTransport /\ faults' = now.faults
      /\ tasks' = [now.tasks EXCEPT ![p] = Absent]
  BY DEF EndTask
<1>2. tasks' \in [Tasks -> Task] /\ HasTarget(tasks')
  BY <1>1, Waits, TaskNames DEF NowOK, HasTarget
<1>3. CASE p = Stopper
  <2>1. /\ main' = [now.main EXCEPT !.pc = "kill", !.waits = Active]
        /\ jobs' = [j \in Jobs |-> IF jobs[j] = "active" THEN "stopping" ELSE jobs[j]]
    BY <1>3 DEF EndTask
  <2>2. jobs' \in [Jobs -> {"none", "active", "stopping"}] /\ Active' = Active
    BY <2>1 DEF ProcessOK, Active
  <2>3. /\ main' \in Phases /\ main'.pc = "kill" /\ main'.forced = now.main.forced
    BY <2>1 DEF NowOK, Phases, Active
  <2>4. StopperStops(main', tasks')
    BY <1>1, <1>3, Waits, TaskNames DEF NowOK, StopperStops
  <2>5. DrainsDry(main)'
    BY <1>3, <2>2, <2>3 DEF NowOK, DrainsDry
  <2> QED
    BY <1>1, <1>2, <2>2, <2>3, <2>4, <2>5 DEF ProcessOK, NowOK
<1>4. CASE p # Stopper
  <2>1. main' = now.main /\ jobs' = jobs
    BY <1>4 DEF EndTask
  <2>2. StopperStops(main', tasks')
    BY <1>1, <1>4, <2>1, TaskNames DEF NowOK, StopperStops
  <2>3. DrainsDry(main)'
    BY <2>1 DEF NowOK, DrainsDry, Active
  <2> QED
    BY <1>1, <1>2, <2>1, <2>2, <2>3 DEF ProcessOK, NowOK
<1> QED
  BY <1>3, <1>4

(* The answer is dealt with, and the timeout replaced.                      *)
LEMMA RegisteredStep ==
  ASSUME ProcessOK, NEW r \in RegTasks, Registered(r), UNCHANGED main
  PROVE  /\ tasks' \in [Tasks -> Task] /\ HasTarget(tasks')
         /\ StopperStops(main', tasks')
         /\ timer' \in Timers /\ verified' \in BOOLEAN
<1>1. PICK new \in Timers :
        /\ timer' = new
        /\ tasks' = [p \in Tasks |->
                       CASE p = new   -> Sleeping
                         [] p = r     -> IF Running THEN Sleeping ELSE Absent
                         [] p = timer -> Canceled(tasks[p])
                         [] OTHER     -> tasks[p]]
  <2> DEFINE c == CHOOSE x \in Timers : tasks[x] = Absent
  <2>1. c \in Timers
    BY DEF Registered
  <2>2. /\ timer' = c
        /\ tasks' = [p \in Tasks |->
                       CASE p = c     -> Sleeping
                         [] p = r     -> IF Running THEN Sleeping ELSE Absent
                         [] p = timer -> Canceled(tasks[p])
                         [] OTHER     -> tasks[p]]
    BY DEF Registered
  <2> HIDE DEF c
  <2> QED
    BY <2>1, <2>2
<1>2. \A p \in Tasks :
        /\ tasks'[p] \in Task
        /\ tasks'[p].pc \in {"join", "close"} =>
             tasks[p].pc = tasks'[p].pc /\ tasks[p].to = tasks'[p].to
  <2> SUFFICES ASSUME NEW p \in Tasks
               PROVE  /\ tasks'[p] \in Task
                      /\ tasks'[p].pc \in {"join", "close"} =>
                           tasks[p].pc = tasks'[p].pc /\ tasks[p].to = tasks'[p].to
    OBVIOUS
  <2>1. tasks[p] \in Task
    BY DEF ProcessOK
  <2>2. tasks'[p] \in {Sleeping, Absent, Canceled(tasks[p]), tasks[p]}
    BY <1>1
  <2> QED
    BY <2>1, <2>2, Waits, CanceledType
<1>3. tasks' \in [Tasks -> Task]
  BY <1>1, <1>2
<1>4. HasTarget(tasks')
  BY <1>2, TaskNames DEF ProcessOK, HasTarget
<1>5. StopperStops(main', tasks')
  BY <1>2, TaskNames DEF ProcessOK, StopperStops
<1> QED
  BY <1>1, <1>3, <1>4, <1>5 DEF Registered

LEMMA ConnectStep ==
  ASSUME ProcessOK, NEW r \in RegTasks, NEW t \in Transports, NEW h \in Listeners \cup {0},
         NEW op \in SUBSET Transports, ConnectTo(r, t, h, op)
  PROVE  ProcessOK'
<1>1. Registered(r) /\ UNCHANGED <<main, jobs>>
  BY DEF ConnectTo
<1>2. /\ tasks' \in [Tasks -> Task] /\ HasTarget(tasks') /\ StopperStops(main', tasks')
      /\ timer' \in Timers /\ verified' \in BOOLEAN
  BY <1>1, RegisteredStep
<1>3. /\ listeners' \in [Listeners -> Listener] /\ handle' \in Listeners \cup {0}
      /\ current' \in Transports \cup {NoTransport} /\ open' \subseteq Transports
      /\ faults' \in 0 .. MaxFaults
  BY AgentAssumption DEF ConnectTo, ProcessOK, Listener
<1>4. DrainsDry(main)'
  BY <1>1 DEF ProcessOK, DrainsDry, Active
<1> QED
  BY <1>1, <1>2, <1>3, <1>4 DEF ProcessOK

LEMMA AfterStopStep ==
  ASSUME ProcessOK, NEW p \in Tasks, NEW t, p \in RegTasks => t \in Transports,
         NEW h \in Listeners \cup {0}, NEW op \in SUBSET Transports,
         NEW now, NowOK(p, now), AfterStop(p, t, h, op, now)
  PROVE  ProcessOK'
<1>1. CASE p \in RegTasks
  BY <1>1, ConnectStep DEF AfterStop
<1>2. CASE p \notin RegTasks
  BY <1>2, EndTaskStep DEF AfterStop
<1> QED
  BY <1>1, <1>2

LEMMA SuspendStep ==
  ASSUME ProcessOK, NEW p \in Tasks, NEW now, NowOK(p, now), NEW wait \in Task,
         p \in RegTasks => wait.to \in Transports,
         Suspend(now, p, wait),
         listeners' \in [Listeners -> Listener], handle' \in Listeners \cup {0}
  PROVE  ProcessOK'
<1>1. /\ UNCHANGED <<timer, current, open, verified, jobs>>
      /\ main' = now.main /\ faults' = now.faults
      /\ tasks' = [now.tasks EXCEPT ![p] = wait]
  BY DEF Suspend
<1>2. tasks' \in [Tasks -> Task] /\ HasTarget(tasks')
  BY <1>1, TaskNames DEF NowOK, HasTarget
<1>3. StopperStops(main', tasks')
  BY <1>1, TaskNames DEF NowOK, StopperStops
<1>4. DrainsDry(main)'
  BY <1>1 DEF NowOK, DrainsDry, Active
<1> QED
  BY <1>1, <1>2, <1>3, <1>4 DEF ProcessOK, NowOK

LEMMA StopTransportStep ==
  ASSUME ProcessOK, NEW p \in Tasks, NEW t \in Transports \cup {NoTransport},
         p \in RegTasks => t \in Transports,
         NEW now, NowOK(p, now), StopTransport(p, t, now)
  PROVE  ProcessOK'
<1>1. CASE handle # 0
  <2>1. Joining(t) \in Task /\ Joining(t).to = t
    BY Waits
  <2>2. /\ Suspend(now, p, Joining(t)) /\ handle' = handle
        /\ listeners' = [listeners EXCEPT ![handle] = Free]
    BY <1>1 DEF StopTransport
  <2>3. listeners' \in [Listeners -> Listener] /\ handle' \in Listeners \cup {0}
    BY <2>2 DEF ProcessOK, Listener
  <2> QED
    BY <2>1, <2>2, <2>3, SuspendStep
<1>2. CASE handle = 0 /\ current # NoTransport
  <2>1. current \in Transports
    BY <1>2 DEF ProcessOK
  <2>2. Closing(t, current) \in Task /\ Closing(t, current).to = t
    BY <2>1, Waits
  <2>3. Suspend(now, p, Closing(t, current)) /\ UNCHANGED <<listeners, handle>>
    BY <1>2 DEF StopTransport
  <2> QED
    BY <2>2, <2>3, SuspendStep DEF ProcessOK
<1>3. CASE handle = 0 /\ current = NoTransport
  <2>1. AfterStop(p, t, 0, open, now)
    BY <1>3 DEF StopTransport
  <2>2. open \in SUBSET Transports
    BY DEF ProcessOK
  <2> QED
    BY <2>1, <2>2, AfterStopStep
<1> QED
  BY <1>1, <1>2, <1>3

LEMMA NowIsOK ==
  ASSUME ProcessOK, NEW p \in Tasks, tasks[p].pc \in {"join", "close"} \/ p # Stopper
  PROVE  NowOK(p, Now)
  BY DEF ProcessOK, NowOK, Now, StopperStops

LEMMA JoinStep ==
  ASSUME IInv, NEW p \in Tasks, Join(p)
  PROVE  IInv'
<1>1. /\ ProcessOK /\ WorldOK /\ tasks[p].pc = "join" /\ tasks[p] \in Task
      /\ UNCHANGED <<queue, mail, posts, row, heard, sending, sent, arrived>>
  BY Parts DEF Join, ProcessOK
<1>2. NowOK(p, Now)
  BY <1>1, NowIsOK
<1>3. /\ tasks[p].to \in Transports \cup {NoTransport}
      /\ p \in RegTasks => tasks[p].to \in Transports
  BY <1>1, WaitType DEF ProcessOK, HasTarget
<1>4. CASE current # NoTransport
  <2>1. current \in Transports
    BY <1>1, <1>4 DEF ProcessOK
  <2>2. Closing(tasks[p].to, current) \in Task /\ Closing(tasks[p].to, current).to = tasks[p].to
    BY <1>3, <2>1, Waits
  <2>3. Suspend(Now, p, Closing(tasks[p].to, current)) /\ handle' = 0 /\ UNCHANGED listeners
    BY <1>4 DEF Join
  <2>4. ProcessOK'
    BY <1>1, <1>2, <1>3, <2>2, <2>3, SuspendStep DEF ProcessOK
  <2> QED
    BY <1>1, <2>4, PartsNext DEF WorldOK
<1>5. CASE current = NoTransport
  <2>1. AfterStop(p, tasks[p].to, 0, open, Now) /\ open \in SUBSET Transports
    BY <1>1, <1>5 DEF Join, ProcessOK
  <2>2. ProcessOK'
    BY <1>1, <1>2, <1>3, <2>1, AfterStopStep
  <2> QED
    BY <1>1, <2>2, PartsNext DEF WorldOK
<1> QED
  BY <1>4, <1>5

LEMMA CloseStep ==
  ASSUME IInv, NEW p \in Tasks, Close(p)
  PROVE  IInv'
<1> DEFINE left == open \ {tasks[p].of}
<1>1. /\ ProcessOK /\ WorldOK /\ tasks[p].pc = "close"
      /\ UNCHANGED <<queue, mail, posts, row, heard, sending, sent, arrived>>
      /\ AfterStop(p, tasks[p].to, handle, left, Now) \/ EndTask(p, handle, left, Now)
  BY Parts DEF Close
<1>2. NowOK(p, Now) /\ left \in SUBSET Transports /\ handle \in Listeners \cup {0}
  BY <1>1, NowIsOK DEF ProcessOK
<1>3. p \in RegTasks => tasks[p].to \in Transports
  BY <1>1 DEF ProcessOK, HasTarget
<1> HIDE DEF left
<1>4. ProcessOK'
  BY <1>1, <1>2, <1>3, AfterStopStep, EndTaskStep
<1> QED
  BY <1>1, <1>4, PartsNext DEF WorldOK

-----------------------------------------------------------------------------
(* Steps that leave main, jobs and the transport alone, or change little.   *)

LEMMA QuietStep ==
  ASSUME ProcessOK,
         UNCHANGED <<main, timer, handle, current, verified, jobs>>,
         tasks' \in [Tasks -> Task],
         \A p \in Tasks : tasks'[p] = tasks[p] \/ tasks'[p].pc \notin {"join", "close"},
         listeners' \in [Listeners -> Listener],
         open' \subseteq Transports, faults' \in 0 .. MaxFaults
  PROVE  ProcessOK'
<1>1. HasTarget(tasks')
  BY TaskNames DEF ProcessOK, HasTarget
<1>2. StopperStops(main', tasks')
  BY TaskNames DEF ProcessOK, StopperStops
<1>3. DrainsDry(main)'
  BY DEF ProcessOK, DrainsDry, Active
<1> QED
  BY <1>1, <1>2, <1>3 DEF ProcessOK

LEMMA FaultCount ==
  ASSUME faults \in 0 .. MaxFaults, NEW b \in BOOLEAN, faults + Cost(b) <= MaxFaults
  PROVE  faults + Cost(b) \in 0 .. MaxFaults
  BY AgentAssumption DEF Cost

LEMMA PostStep ==
  ASSUME IInv, NEW r \in RegTasks, Post(r)
  PROVE  IInv'
<1>1. /\ ProcessOK /\ WorldOK
      /\ UNCHANGED <<main, timer, listeners, handle, current, open, verified, queue, jobs,
                     mail, row, heard, sending, sent, arrived>>
      /\ tasks' = [tasks EXCEPT ![r] = Posting]
      /\ posts' = [posts EXCEPT ![r] = IF Draining THEN "draining" ELSE "online"]
  BY Parts DEF Post
<1>2. faults' \in 0 .. MaxFaults
  BY <1>1, AgentAssumption DEF Post, Cost, ProcessOK
<1>3. tasks' \in [Tasks -> Task] /\ \A p \in Tasks : tasks'[p] = tasks[p] \/ tasks'[p].pc = "post"
  BY <1>1, Waits, TaskNames DEF ProcessOK
<1>4. ProcessOK'
  BY <1>1, <1>2, <1>3, QuietStep DEF ProcessOK
<1>5. WorldOK'
  BY <1>1 DEF WorldOK
<1> QED
  BY <1>4, <1>5, PartsNext

LEMMA UpdateStep ==
  ASSUME IInv, NEW r \in RegTasks, Update(r)
  PROVE  IInv'
<1>1. /\ ProcessOK /\ WorldOK /\ tasks[r].pc = "answered" /\ tasks[r] \in Task /\ r \in Tasks
      /\ UNCHANGED <<queue, mail, posts, row, heard, sending, sent, arrived>>
  BY Parts, TaskNames DEF Update, ProcessOK
<1>2. tasks[r].to \in Transports
  BY <1>1, WaitType
<1>3. CASE tasks[r].to = current
  <2>1. Registered(r) /\ UNCHANGED <<main, listeners, handle, current, open, jobs, faults>>
    BY <1>3 DEF Update
  <2>2. /\ tasks' \in [Tasks -> Task] /\ HasTarget(tasks') /\ StopperStops(main', tasks')
        /\ timer' \in Timers /\ verified' \in BOOLEAN
    BY <1>1, <2>1, RegisteredStep
  <2>3. DrainsDry(main)'
    BY <1>1, <2>1 DEF ProcessOK, DrainsDry, Active
  <2>4. ProcessOK'
    BY <1>1, <2>1, <2>2, <2>3 DEF ProcessOK
  <2> QED
    BY <1>1, <2>4, PartsNext DEF WorldOK
<1>4. CASE tasks[r].to # current
  <2>1. StopTransport(r, tasks[r].to, Now)
    BY <1>4 DEF Update
  <2>2. NowOK(r, Now)
    BY <1>1, NowIsOK, TaskNames
  <2>3. ProcessOK'
    BY <1>1, <1>2, <2>1, <2>2, StopTransportStep
  <2> QED
    BY <1>1, <2>3, PartsNext DEF WorldOK
<1> QED
  BY <1>3, <1>4

LEMMA PostFailsStep ==
  ASSUME IInv, NEW r \in RegTasks, PostFails(r)
  PROVE  IInv'
<1>1. /\ ProcessOK /\ WorldOK
      /\ UNCHANGED <<main, timer, listeners, handle, current, open, verified, queue, jobs,
                     mail, row, heard, sending, sent, arrived>>
      /\ tasks' = [tasks EXCEPT ![r] = Beginning]
      /\ posts' = [posts EXCEPT ![r] = Nothing]
      /\ faults' \in 0 .. MaxFaults
  BY Parts, AgentAssumption DEF PostFails, ProcessOK
<1>2. tasks' \in [Tasks -> Task] /\ \A p \in Tasks : tasks'[p] = tasks[p] \/ tasks'[p].pc = "begin"
  BY <1>1, Waits, TaskNames DEF ProcessOK
<1>3. ProcessOK'
  BY <1>1, <1>2, QuietStep DEF ProcessOK
<1>4. WorldOK'
  BY <1>1 DEF WorldOK
<1> QED
  BY <1>3, <1>4, PartsNext

LEMMA TimerEndsStep ==
  ASSUME IInv, NEW x \in Timers, TimerEnds(x)
  PROVE  IInv'
<1>1. /\ ProcessOK /\ WorldOK
      /\ UNCHANGED <<main, timer, listeners, handle, current, open, verified, queue, jobs,
                     mail, posts, row, heard, sending, sent, arrived, faults>>
      /\ tasks' = [tasks EXCEPT ![x] = Absent]
  BY Parts DEF TimerEnds
<1>2. tasks' \in [Tasks -> Task] /\ \A p \in Tasks : tasks'[p] = tasks[p] \/ tasks'[p].pc = "absent"
  BY <1>1, Waits, TaskNames DEF ProcessOK
<1>3. ProcessOK'
  BY <1>1, <1>2, QuietStep DEF ProcessOK
<1> QED
  BY <1>1, <1>3, PartsNext DEF WorldOK

LEMMA TimerFiresStep ==
  ASSUME IInv, NEW x \in Timers, TimerFires(x)
  PROVE  IInv'
<1> DEFINE cost == Cost(HandshakeUnderWay \/ \E p \in Tasks : Stopping(p))
           now == [Now EXCEPT !.faults = faults + cost]
<1>1. /\ ProcessOK /\ WorldOK /\ x \in Tasks /\ x # Stopper /\ x \notin RegTasks
      /\ UNCHANGED <<queue, mail, posts, row, heard, sending, sent, arrived>>
      /\ StopTransport(x, NoTransport, now)
      /\ faults + cost <= MaxFaults
  BY Parts, TaskNames DEF TimerFires
<1>2. faults + cost \in 0 .. MaxFaults
  BY <1>1, AgentAssumption DEF ProcessOK, Cost
<1> HIDE DEF cost
<1>3. now.main = main /\ now.tasks = tasks /\ now.faults = faults + cost
  BY DEF Now
<1>4. NowOK(x, now)
  BY <1>1, <1>2, <1>3 DEF NowOK, ProcessOK
<1> HIDE DEF now
<1>5. ProcessOK'
  BY <1>1, <1>4, StopTransportStep
<1> QED
  BY <1>1, <1>5, PartsNext DEF WorldOK

-----------------------------------------------------------------------------
(* The listener.                                                           *)

LEMMA ListenerStates ==
  /\ Free \in Listener /\ Starting \in Listener /\ Retrying \in Listener
  /\ \A t \in Transports : Receiving(t) \in Listener
  /\ \A m \in Message : Debouncing(m) \in Listener
  /\ \A b \in SUBSET Message :
       Handling(b) \in Listener /\ Echoing(b) \in Listener /\ Reporting(b) \in Listener
  BY DEF Listener, Free, Starting, Retrying, Receiving, Debouncing, Handling, Echoing, Reporting

LEMMA ListenerType ==
  ASSUME NEW l \in Listener
  PROVE  /\ l.pc = "receive" => l.on \in Transports
         /\ l.pc = "debounce" => l.first \in Message
         /\ l.pc \in {"handle", "echo", "report"} => l.batch \in SUBSET Message
  BY DEF Listener, Free, Starting, Retrying

(* A step of a listener: what it starts, it starts before the worker drains. *)
LEMMA ListenerMoves ==
  ASSUME ProcessOK, NEW l \in Listeners, NEW r \in Listener, Become(l, r),
         UNCHANGED <<main, tasks, timer, handle, current, open>>,
         verified' \in BOOLEAN, faults' \in 0 .. MaxFaults,
         jobs' \in [Jobs -> {"none", "active", "stopping"}],
         Draining => Active' \subseteq Active
  PROVE  ProcessOK'
<1>1. listeners' \in [Listeners -> Listener]
  BY DEF Become, ProcessOK
<1>2. DrainsDry(main)'
  BY DEF ProcessOK, DrainsDry, Draining
<1> QED
  BY <1>1, <1>2 DEF ProcessOK

LEMMA ReceiveStep ==
  ASSUME IInv, NEW l \in Listeners, Receive(l)
  PROVE  IInv'
<1>1. /\ ProcessOK /\ WorldOK
      /\ UNCHANGED <<main, tasks, timer, handle, current, open, verified, queue, jobs,
                     mail, posts, row, heard, sending, sent, arrived, faults>>
  BY Parts DEF Receive
<1>2. PICK r \in Listener : Become(l, r)
  BY <1>1, ListenerStates DEF Receive, ProcessOK
<1>3. ProcessOK'
  BY <1>1, <1>2, ListenerMoves DEF ProcessOK, Active
<1> QED
  BY <1>1, <1>3, PartsNext DEF WorldOK

LEMMA TakeFirstStep ==
  ASSUME IInv, NEW l \in Listeners, TakeFirst(l)
  PROVE  IInv'
<1>1. /\ ProcessOK /\ WorldOK /\ listeners[l] \in Listener /\ listeners[l].pc = "receive"
      /\ UNCHANGED <<main, tasks, timer, handle, current, open, verified, jobs,
                     mail, posts, row, heard, sending, sent, arrived, faults>>
  BY Parts DEF TakeFirst, ProcessOK
<1> DEFINE t == listeners[l].on
<1>2. t \in Transports
  BY <1>1, ListenerType
<1>3. PICK m \in queue[t] : /\ queue' = [queue EXCEPT ![t] = @ \ {m}]
                            /\ Become(l, Debouncing(m))
  BY DEF TakeFirst
<1> HIDE DEF t
<1>4. m \in Message /\ queue' \in [Transports -> SUBSET Message]
  BY <1>1, <1>2, <1>3 DEF WorldOK
<1>5. Debouncing(m) \in Listener
  BY <1>4, ListenerStates
<1>6. ProcessOK'
  BY <1>1, <1>3, <1>5, ListenerMoves DEF ProcessOK, Active
<1> QED
  BY <1>1, <1>4, <1>6, PartsNext DEF WorldOK

LEMMA TakeRestStep ==
  ASSUME IInv, NEW l \in Listeners, TakeRest(l)
  PROVE  IInv'
<1>1. /\ ProcessOK /\ WorldOK /\ listeners[l] \in Listener /\ listeners[l].pc = "debounce"
      /\ UNCHANGED <<main, tasks, timer, handle, current, open, verified, jobs,
                     mail, posts, row, heard, sending, sent, arrived, faults>>
  BY Parts DEF TakeRest, ProcessOK
<1>2. listeners[l].first \in Message
  BY <1>1, ListenerType
<1>3. \E r \in Listener : Become(l, r)
  <2>1. CASE current = NoTransport
    BY <2>1, ListenerStates DEF TakeRest
  <2>2. CASE current # NoTransport
    <3> DEFINE b == Collapse({listeners[l].first} \cup queue[current])
    <3>1. b \in SUBSET Message
      BY <1>1, <1>2, <2>2 DEF Collapse, WorldOK, ProcessOK
    <3>2. Become(l, Handling(b))
      BY <2>2 DEF TakeRest
    <3> HIDE DEF b
    <3> QED
      BY <3>1, <3>2, ListenerStates
  <2> QED
    BY <2>1, <2>2
<1>4. queue' \in [Transports -> SUBSET Message]
  BY <1>1 DEF TakeRest, WorldOK
<1>5. ProcessOK'
  BY <1>1, <1>3, ListenerMoves DEF ProcessOK, Active
<1> QED
  BY <1>1, <1>4, <1>5, PartsNext DEF WorldOK

LEMMA HandleStep ==
  ASSUME IInv, NEW l \in Listeners, Handle(l)
  PROVE  IInv'
<1>1. /\ ProcessOK /\ WorldOK /\ listeners[l] \in Listener /\ listeners[l].pc = "handle"
      /\ UNCHANGED <<main, tasks, timer, handle, current, open, verified, queue,
                     mail, posts, row, heard, sending, sent, arrived, faults>>
  BY Parts DEF Handle, ProcessOK
<1>2. listeners[l].batch \in SUBSET Message
  BY <1>1, ListenerType
<1>3. PICK m \in listeners[l].batch :
        LET rest == listeners[l].batch \ {m}
        IN  HandleVerify(l, m, rest) \/ HandleRequest(l, m, rest) \/ HandleStatus(l, m, rest)
  BY DEF Handle
<1> DEFINE rest == listeners[l].batch \ {m}
<1>4. /\ Handling(rest) \in Listener /\ Echoing(rest) \in Listener /\ Reporting(rest) \in Listener
  <2>1. rest \in SUBSET Message
    BY <1>2
  <2> HIDE DEF rest
  <2> QED
    BY <2>1, ListenerStates
<1>5. HandleVerify(l, m, rest) \/ HandleRequest(l, m, rest) \/ HandleStatus(l, m, rest)
  BY <1>3
<1> HIDE DEF rest
<1> SUFFICES ProcessOK'
  BY <1>1, PartsNext DEF WorldOK
<1>6. CASE HandleVerify(l, m, rest)
  BY <1>1, <1>4, <1>6, ListenerMoves DEF HandleVerify, ProcessOK, Active
<1>7. CASE HandleRequest(l, m, rest)
  <2>1. CASE UNCHANGED jobs
    BY <1>1, <1>4, <1>7, <2>1, ListenerMoves DEF HandleRequest, ProcessOK, Active
  <2>2. CASE jobs' = [jobs EXCEPT ![m.job] = "active"] /\ ~Draining /\ Become(l, Handling(rest))
    <3>1. jobs' \in [Jobs -> {"none", "active", "stopping"}]
      BY <1>1, <2>2 DEF ProcessOK
    <3> QED
      BY <1>1, <1>4, <2>2, <3>1, ListenerMoves DEF ProcessOK
  <2> QED
    BY <1>7, <2>1, <2>2 DEF HandleRequest
<1>8. CASE HandleStatus(l, m, rest)
  <2>1. CASE UNCHANGED jobs
    BY <1>1, <1>4, <1>8, <2>1, ListenerMoves DEF HandleStatus, ProcessOK, Active
  <2>2. CASE /\ jobs[m.job] # "none" /\ jobs' = [jobs EXCEPT ![m.job] = "stopping"]
             /\ Become(l, Handling(rest))
    <3>1. /\ jobs' \in [Jobs -> {"none", "active", "stopping"}]
          /\ Active' \subseteq Active
      BY <1>1, <2>2 DEF ProcessOK, Active
    <3> QED
      BY <1>1, <1>4, <2>2, <3>1, ListenerMoves DEF ProcessOK
  <2> QED
    BY <1>8, <2>1, <2>2 DEF HandleStatus
<1> QED
  BY <1>5, <1>6, <1>7, <1>8

LEMMA AnsweredStep ==
  ASSUME IInv, NEW l \in Listeners, Echoed(l) \/ Reported(l)
  PROVE  IInv'
<1>1. /\ ProcessOK /\ WorldOK /\ listeners[l] \in Listener /\ listeners[l].pc \in {"echo", "report"}
      /\ UNCHANGED <<main, tasks, timer, handle, current, open, queue, jobs,
                     mail, posts, row, heard, sending, sent, arrived>>
      /\ Become(l, Handling(listeners[l].batch))
      /\ verified' \in BOOLEAN
  BY Parts DEF Echoed, Reported, ProcessOK
<1>2. faults' \in 0 .. MaxFaults
  BY <1>1, AgentAssumption DEF Echoed, Reported, Cost, ProcessOK
<1>3. Handling(listeners[l].batch) \in Listener
  BY <1>1, ListenerType, ListenerStates
<1>4. ProcessOK'
  BY <1>1, <1>2, <1>3, ListenerMoves DEF ProcessOK, Active
<1> QED
  BY <1>1, <1>4, PartsNext DEF WorldOK

-----------------------------------------------------------------------------
(* The main task, and the runners.                                         *)

LEMMA StopStep ==
  ASSUME IInv, NEW forced \in BOOLEAN, Stop(forced), ~forced /\ MayDrain => Active = {}
  PROVE  IInv'
<1> DEFINE loop == IF MayDrain THEN "drain" ELSE "start"
           m == [pc |-> "stop", forced |-> forced, waits |-> {}]
           now == [Now EXCEPT !.main = m, !.tasks[loop] = Canceled(@)]
<1>1. /\ ProcessOK /\ WorldOK /\ loop \in RegTasks /\ loop \in Tasks
      /\ UNCHANGED <<queue, mail, posts, row, heard, sending, sent, arrived>>
  BY Parts, TaskNames DEF Stop, SameWorld
<1>2. StopTransport(Stopper, NoTransport, now)
  BY DEF Stop
<1> HIDE DEF loop
<1>3. /\ now.main = m /\ now.faults = faults
      /\ now.tasks = [tasks EXCEPT ![loop] = Canceled(@)]
  BY DEF Now
<1> HIDE DEF now
<1>4. tasks[loop] \in Task
  BY <1>1 DEF ProcessOK
<1>5. now.tasks \in [Tasks -> Task]
  BY <1>1, <1>3, <1>4, CanceledType DEF ProcessOK
<1>6. HasTarget(now.tasks)
  BY <1>1, <1>3, <1>4, CanceledType, TaskNames, Waits DEF ProcessOK, HasTarget
<1>7. m \in Phases /\ m.pc = "stop" /\ m.forced = forced
  BY DEF Phases
<1> HIDE DEF m
<1>8. StopperStops(now.main, now.tasks) /\ DrainsDry(now.main)
  BY <1>3, <1>7 DEF StopperStops, DrainsDry
<1>9. NowOK(Stopper, now)
  BY <1>1, <1>3, <1>5, <1>6, <1>7, <1>8 DEF NowOK, ProcessOK
<1>10. ProcessOK'
  BY <1>1, <1>2, <1>9, StopTransportStep, TaskNames
<1> QED
  BY <1>1, <1>10, PartsNext DEF WorldOK

LEMMA SignalStep ==
  ASSUME IInv, Signal
  PROVE  IInv'
<1>1. CASE ~MayDrain
  BY <1>1, StopStep DEF Signal
<1>2. CASE MayDrain
  <2>1. /\ ProcessOK /\ WorldOK /\ main.pc = "up"
        /\ main' = [main EXCEPT !.pc = "settle"]
        /\ tasks' = [tasks EXCEPT !["start"] = Canceled(@), !["drain"] = Beginning]
        /\ UNCHANGED <<timer, listeners, handle, current, open, verified, queue, jobs, faults,
                       mail, posts, row, heard, sending, sent, arrived>>
    BY <1>2, Parts DEF Signal, SameWorld
  <2>2. main' \in Phases /\ main'.pc = "settle" /\ main'.forced = main.forced
    BY <2>1 DEF ProcessOK, Phases
  <2>3. \A p \in Tasks : /\ tasks'[p] \in Task
                         /\ tasks'[p].pc \in {"join", "close"} =>
                              tasks'[p].pc = tasks[p].pc /\ tasks'[p].to = tasks[p].to
    <3> SUFFICES ASSUME NEW p \in Tasks
                 PROVE  /\ tasks'[p] \in Task
                        /\ tasks'[p].pc \in {"join", "close"} =>
                             tasks'[p].pc = tasks[p].pc /\ tasks'[p].to = tasks[p].to
      OBVIOUS
    <3>1. tasks[p] \in Task /\ tasks'[p] \in {tasks[p], Canceled(tasks[p]), Beginning}
      BY <2>1 DEF ProcessOK
    <3> QED
      BY <3>1, CanceledType, Waits
  <2>4. tasks' \in [Tasks -> Task] /\ HasTarget(tasks')
    BY <2>1, <2>3, TaskNames DEF ProcessOK, HasTarget
  <2>5. StopperStops(main', tasks')
    BY <2>1, <2>3, TaskNames DEF ProcessOK, StopperStops
  <2>6. DrainsDry(main)'
    BY <2>2 DEF DrainsDry
  <2>7. ProcessOK'
    BY <2>1, <2>2, <2>4, <2>5, <2>6 DEF ProcessOK
  <2> QED
    BY <2>1, <2>7, PartsNext DEF WorldOK
<1> QED
  BY <1>1, <1>2

(* The main task goes on waiting for runners, or exits.                     *)
LEMMA MainWaits ==
  ASSUME ProcessOK, main' \in Phases, main'.pc \in {"wait", "exit"} \/ main'.pc = main.pc,
         main'.forced = main.forced,
         main.pc # "stop" \/ main'.pc = "stop",
         main'.pc = "wait" => Active' \subseteq main'.waits,
         Active' \subseteq Active,
         jobs' \in [Jobs -> {"none", "active", "stopping"}],
         UNCHANGED <<tasks, timer, listeners, handle, current, open, verified>>,
         faults' \in 0 .. MaxFaults
  PROVE  ProcessOK'
<1>1. StopperStops(main', tasks')
  BY DEF ProcessOK, StopperStops
<1>2. DrainsDry(main)'
  BY DEF ProcessOK, DrainsDry
<1> QED
  BY <1>1, <1>2 DEF ProcessOK

LEMMA SettledStep ==
  ASSUME IInv, Settled
  PROVE  IInv'
<1>1. CASE Active = {}
  BY <1>1, StopStep DEF Settled
<1>2. CASE Active # {}
  <2>1. /\ ProcessOK /\ WorldOK /\ main.pc = "settle"
        /\ main' = [main EXCEPT !.pc = "wait", !.waits = Active]
        /\ UNCHANGED <<tasks, timer, listeners, handle, current, open, verified, queue,
                       jobs, faults, mail, posts, row, heard, sending, sent, arrived>>
    BY <1>2, Parts DEF Settled, SameWorld
  <2>2. /\ main' \in Phases /\ main'.pc = "wait" /\ main'.forced = main.forced
        /\ main'.waits = Active /\ Active' = Active
    BY <2>1 DEF ProcessOK, Phases, Active
  <2>3. ProcessOK'
    BY <2>1, <2>2, MainWaits DEF ProcessOK
  <2> QED
    BY <2>1, <2>3, PartsNext DEF WorldOK
<1> QED
  BY <1>1, <1>2

LEMMA DrainedStep ==
  ASSUME IInv, Drained
  PROVE  IInv'
<1>1. MayDrain => Active = {}
  BY Parts DEF Drained, ProcessOK, DrainsDry
<1> QED
  BY <1>1, StopStep DEF Drained

LEMMA DeregisterStep ==
  ASSUME IInv, Deregister
  PROVE  IInv'
<1>1. /\ ProcessOK /\ WorldOK /\ main.pc = "kill"
      /\ main' = [main EXCEPT !.pc = "exit"]
      /\ UNCHANGED <<tasks, timer, listeners, handle, current, open, verified, queue, jobs,
                     mail, posts, sending, sent, arrived>>
  BY Parts DEF Deregister
<1>2. faults' \in 0 .. MaxFaults
  BY <1>1, AgentAssumption DEF Deregister, ProcessOK
<1>3. main' \in Phases /\ main'.pc = "exit" /\ main'.forced = main.forced /\ Active' = Active
  BY <1>1 DEF ProcessOK, Phases, Active
<1>4. ProcessOK'
  BY <1>1, <1>2, <1>3, MainWaits DEF ProcessOK
<1>5. WorldOK'
  BY <1>1 DEF WorldOK, Deregister
<1> QED
  BY <1>4, <1>5, PartsNext

LEMMA RunnerEndsStep ==
  ASSUME IInv, NEW j \in Jobs, RunnerEnds(j)
  PROVE  IInv'
<1>1. /\ ProcessOK /\ WorldOK
      /\ main' = [main EXCEPT !.waits = @ \ {j}]
      /\ jobs' = [jobs EXCEPT ![j] = "none"]
      /\ UNCHANGED <<tasks, timer, listeners, handle, current, open, verified, queue, faults,
                     mail, posts, row, heard, sending, sent, arrived>>
  BY Parts DEF RunnerEnds, SameWorld
<1>2. jobs' \in [Jobs -> {"none", "active", "stopping"}] /\ Active' = Active \ {j}
  BY <1>1 DEF ProcessOK, Active
<1>3. /\ main' \in Phases /\ main'.pc = main.pc /\ main'.forced = main.forced
      /\ main'.waits = main.waits \ {j}
  BY <1>1 DEF ProcessOK, Phases
<1>4. StopperStops(main', tasks')
  BY <1>1, <1>3 DEF ProcessOK, StopperStops
<1>5. DrainsDry(main)'
  BY <1>1, <1>2, <1>3 DEF ProcessOK, DrainsDry
<1>6. ProcessOK'
  BY <1>1, <1>2, <1>3, <1>4, <1>5 DEF ProcessOK
<1> QED
  BY <1>1, <1>6, PartsNext DEF WorldOK

-----------------------------------------------------------------------------
(* The coordinator and the network.                                        *)

LEMMA OutdatedType ==
  ASSUME NEW l \in Listener
  PROVE  Outdated(l) \in Listener
<1> DEFINE b == Forget(l.batch)
<1>1. CASE l.pc = "debounce"
  <2>1. Handling({}) \in Listener
    BY ListenerStates
  <2> QED
    BY <1>1, <2>1 DEF Outdated
<1>2. CASE l.pc = "echo"
  <2>1. b \in SUBSET Message
    BY <1>2, ListenerType DEF Forget
  <2>2. Outdated(l) = Reporting(b)
    BY <1>2 DEF Outdated
  <2> HIDE DEF b
  <2> QED
    BY <2>1, <2>2, ListenerStates
<1>3. CASE l.pc \in {"handle", "report"}
  <2>1. b \in SUBSET Message
    BY <1>3, ListenerType DEF Forget
  <2>2. Outdated(l) = [l EXCEPT !.batch = b]
    BY <1>3 DEF Outdated
  <2>3. l \in [pc : {"handle", "echo", "report"}, batch : SUBSET Message]
    BY <1>3 DEF Listener, Free, Starting, Retrying
  <2> HIDE DEF b
  <2>4. [l EXCEPT !.batch = b] \in [pc : {"handle", "echo", "report"}, batch : SUBSET Message]
    BY <2>1, <2>3
  <2> QED
    BY <2>2, <2>4 DEF Listener
<1>4. CASE l.pc \notin {"debounce", "echo", "handle", "report"}
  BY <1>4 DEF Outdated
<1> QED
  BY <1>1, <1>2, <1>3, <1>4

LEMMA RegisterStep ==
  ASSUME IInv, NEW r \in RegTasks, NEW t \in Transports, Register(r, t)
  PROVE  IInv'
<1>1. /\ ProcessOK /\ WorldOK /\ r \in Tasks
      /\ UNCHANGED <<main, timer, handle, current, open, verified, jobs, sent, arrived>>
      /\ sending' = {[d EXCEPT !.to = @ \cup {t}] : d \in sending}
      /\ tasks' = [tasks EXCEPT ![r] = IF @ = Posting THEN Answered(t) ELSE @]
      /\ listeners' = [l \in Listeners |-> Outdated(listeners[l])]
      /\ posts' = [posts EXCEPT ![r] = Nothing]
      /\ posts[r] # Nothing /\ heard' = posts[r] /\ row' = t
      /\ mail' = [u \in Transports |-> IF u = t THEN mail[u] \cup {Verification} ELSE Forget(mail[u])]
      /\ queue' = [u \in Transports |-> Forget(queue[u])]
  BY Parts, TaskNames DEF Register
<1>2. faults' \in 0 .. MaxFaults
  BY <1>1, AgentAssumption DEF Register, Cost, ProcessOK
<1>3. /\ tasks' \in [Tasks -> Task]
      /\ \A p \in Tasks : tasks'[p] = tasks[p] \/ tasks'[p].pc = "answered"
  BY <1>1, Waits DEF ProcessOK
<1>4. listeners' \in [Listeners -> Listener]
  BY <1>1, OutdatedType DEF ProcessOK
<1>5. ProcessOK'
  BY <1>1, <1>2, <1>3, <1>4, QuietStep DEF ProcessOK
<1>6. WorldOK'
  <2>1. mail' \in [Transports -> SUBSET Message] /\ queue' \in [Transports -> SUBSET Message]
    BY <1>1 DEF WorldOK, Forget, Message
  <2>2. /\ posts' \in [RegTasks -> {Nothing, "online", "draining"}]
        /\ row' \in Transports \cup {NoTransport}
        /\ heard' \in {"offline", "online", "draining"}
        /\ sent' \in 0 .. MaxMessages /\ arrived' \in 0 .. MaxMessages
    BY <1>1 DEF WorldOK
  <2>3. sending' \subseteq Draft
    BY <1>1 DEF WorldOK, Draft
  <2> QED
    BY <2>1, <2>2, <2>3 DEF WorldOK
<1> QED
  BY <1>5, <1>6, PartsNext

LEMMA NetworkStep ==
  ASSUME IInv,
         \/ \E t \in Transports : Fetch(t) \/ Break(t)
         \/ \E kind \in Kinds, j \in Jobs : Compose(kind, j)
         \/ \E d \in sending : \E t \in d.to : Publish(d, t)
  PROVE  IInv'
<1>1. ProcessOK /\ WorldOK
  BY Parts
<1>2. ASSUME NEW t \in Transports, Fetch(t) PROVE IInv'
  <2>1. UNCHANGED <<main, tasks, timer, listeners, handle, current, open, verified, jobs,
                    posts, row, heard, sending, sent, arrived, faults>>
    BY <1>2 DEF Fetch
  <2>2. WorldOK'
    BY <1>1, <1>2 DEF Fetch, WorldOK
  <2>3. ProcessOK'
    BY <1>1, <2>1, QuietStep DEF ProcessOK
  <2> QED
    BY <2>2, <2>3, PartsNext
<1>3. ASSUME NEW t \in Transports, Break(t) PROVE IInv'
  <2>1. /\ UNCHANGED <<main, tasks, timer, listeners, handle, current, verified, queue, jobs,
                       mail, posts, row, heard, sending, sent, arrived>>
        /\ open' \subseteq Transports /\ faults' \in 0 .. MaxFaults
    BY <1>1, <1>3, AgentAssumption DEF Break, ProcessOK
  <2>2. ProcessOK'
    BY <1>1, <2>1, QuietStep DEF ProcessOK
  <2> QED
    BY <1>1, <2>1, <2>2, PartsNext DEF WorldOK
<1>4. ASSUME NEW kind \in Kinds, NEW j \in Jobs, Compose(kind, j)
      PROVE  IInv'
  <2> DEFINE d == [kind |-> kind, job |-> j, id |-> sent + 1, to |-> {row} \ {NoTransport}]
  <2>1. /\ UNCHANGED <<main, tasks, timer, listeners, handle, current, open, verified, queue,
                       jobs, mail, posts, row, heard, arrived, faults>>
        /\ sent' = sent + 1 /\ sent < MaxMessages
        /\ sending' = sending \cup {d}
    BY <1>4 DEF Compose
  <2>2. sent' \in 0 .. MaxMessages /\ sent' \in 1 .. MaxMessages
    BY <1>1, <2>1, AgentAssumption DEF WorldOK
  <2>3. d \in Draft
    BY <1>1, <2>1, <2>2 DEF Draft, WorldOK
  <2> HIDE DEF d
  <2>4. sending' \subseteq Draft
    BY <1>1, <2>1, <2>3 DEF WorldOK
  <2>5. ProcessOK'
    BY <1>1, <2>1, QuietStep DEF ProcessOK
  <2> QED
    BY <1>1, <2>1, <2>2, <2>4, <2>5, PartsNext DEF WorldOK
<1>5. ASSUME NEW d \in sending, NEW t \in d.to, Publish(d, t)
      PROVE  IInv'
  <2> DEFINE m == [kind |-> d.kind, job |-> d.job, id |-> d.id, at |-> arrived + 1]
  <2>1. /\ UNCHANGED <<main, tasks, timer, listeners, handle, current, open, verified, queue,
                       jobs, posts, row, heard, sent, faults>>
        /\ arrived' = arrived + 1 /\ arrived < MaxMessages
        /\ sending' \subseteq sending
        /\ mail' = [mail EXCEPT ![t] = @ \cup {m}]
    BY <1>5 DEF Publish
  <2>2. arrived' \in 0 .. MaxMessages /\ arrived' \in 1 .. MaxMessages
    BY <1>1, <2>1, AgentAssumption DEF WorldOK
  <2>3. d \in Draft
    BY <1>1 DEF WorldOK
  <2>4. m \in Message /\ t \in Transports
    BY <2>1, <2>2, <2>3 DEF Message, JobMessage, Draft
  <2> HIDE DEF m
  <2>5. mail' \in [Transports -> SUBSET Message]
    BY <1>1, <2>1, <2>4 DEF WorldOK
  <2>6. ProcessOK'
    BY <1>1, <2>1, QuietStep DEF ProcessOK
  <2>7. sending' \subseteq Draft
    BY <1>1, <2>1 DEF WorldOK
  <2> QED
    BY <1>1, <2>1, <2>2, <2>5, <2>6, <2>7, PartsNext DEF WorldOK
<1> QED
  BY <1>2, <1>3, <1>4, <1>5

-----------------------------------------------------------------------------
(* The invariant.                                                          *)

LEMMA InitIInv == Init => IInv
<1> SUFFICES ASSUME Init PROVE IInv
  OBVIOUS
<1>1. main \in Phases /\ main.pc = "up"
  BY DEF Init, Phases
<1>2. /\ tasks \in [Tasks -> Task]
      /\ \A p \in Tasks : tasks[p].pc \in {"begin", "absent"}
  BY Waits DEF Init
<1>3. HasTarget(tasks) /\ StopperStops(main, tasks) /\ DrainsDry(main)
  BY <1>1, <1>2, TaskNames DEF HasTarget, StopperStops, DrainsDry
<1>4. ProcessOK
  <2>1. listeners \in [Listeners -> Listener] /\ jobs \in [Jobs -> {"none", "active", "stopping"}]
    BY ListenerStates DEF Init
  <2>2. /\ handle \in Listeners \cup {0} /\ current \in Transports \cup {NoTransport}
        /\ open \subseteq Transports /\ timer \in Timers \cup {NoTask}
    BY DEF Init
  <2>3. verified \in BOOLEAN
    BY Zenon DEF Init
  <2>4. faults = 0
    BY DEF Init
  <2>5. faults \in 0 .. MaxFaults
    BY <2>4, AgentAssumption
  <2> QED
    BY <1>1, <1>2, <1>3, <2>1, <2>2, <2>3, <2>5 DEF ProcessOK
<1>5. WorldOK
  BY AgentAssumption DEF Init, WorldOK
<1> QED
  BY <1>4, <1>5, Parts

LEMMA NextIInv == IInv /\ [Next]_vars => IInv'
<1> SUFFICES ASSUME IInv, [Next]_vars PROVE IInv'
  OBVIOUS
<1>1. ASSUME NEW p \in Tasks, TaskStep(p) PROVE IInv'
  BY <1>1, JoinStep, CloseStep, PostStep, UpdateStep, TimerEndsStep, TimerFiresStep DEF TaskStep
<1>2. ASSUME NEW r \in RegTasks, PostFails(r) \/ \E t \in Transports : Register(r, t) PROVE IInv'
  BY <1>2, PostFailsStep, RegisterStep
<1>3. ASSUME NEW l \in Listeners, ListenerStep(l) PROVE IInv'
  BY <1>3, ReceiveStep, TakeFirstStep, TakeRestStep, HandleStep, AnsweredStep DEF ListenerStep
<1>4. CASE \/ \E t \in Transports : Fetch(t) \/ Break(t)
           \/ \E kind \in Kinds, j \in Jobs : Compose(kind, j)
         \/ \E d \in sending : \E t \in d.to : Publish(d, t)
  BY <1>4, NetworkStep
<1>5. CASE SecondSignal
  <2>1. Stop(TRUE)
    BY <1>5 DEF SecondSignal
  <2> QED
    BY <2>1, StopStep
<1>6. CASE Signal \/ MainStep
  BY <1>6, SignalStep, SettledStep, DrainedStep, DeregisterStep DEF MainStep
<1>7. ASSUME NEW j \in Jobs, RunnerEnds(j) PROVE IInv'
  BY <1>7, RunnerEndsStep
<1>8. CASE UNCHANGED vars
  <2>1. /\ ProcessOK /\ WorldOK
        /\ UNCHANGED <<main, tasks, timer, listeners, handle, current, open, verified, queue,
                       jobs, mail, posts, row, heard, sending, sent, arrived, faults>>
    BY <1>8, Parts DEF vars
  <2>2. ProcessOK'
    BY <2>1, QuietStep DEF ProcessOK
  <2> QED
    BY <2>1, <2>2, PartsNext DEF WorldOK
<1> QED
  BY <1>1, <1>2, <1>3, <1>4, <1>5, <1>6, <1>7, <1>8 DEF Next

-----------------------------------------------------------------------------
(* The order of messages.                                                  *)

(* Every message about a job in A arrived before every one in B.            *)
Before(A, B) == \A m \in A \ {Verification}, n \in B \ {Verification} : m.at < n.at

(* What a listener in state x has in its hands. *)
Hand(x) == CASE x.pc = "debounce"                     -> {x.first}
             [] x.pc \in {"handle", "echo", "report"} -> x.batch
             [] OTHER                                 -> {}

(* Of messages on a transport those that were fetched arrived first.        *)
FetchedFirst(q, m) == \A t \in Transports : Before(q[t], m[t])

(* No message anywhere arrived after the last one that arrived.             *)
Numbered(ls, q, m, last) ==
  /\ \A t \in Transports : \A n \in (q[t] \cup m[t]) \ {Verification} : n.at <= last
  /\ \A l \in Listeners : \A n \in Hand(ls[l]) \ {Verification} : n.at <= last

(* A listener in state x that is the transport's own reads that transport c, *)
(* and what it has in its hands arrived before all it can still take, or, as *)
(* long as it waits for the rest of a batch, before what is not fetched yet. *)
Reads(x, c, q, m) ==
  /\ x.pc = "receive" => x.on = c
  /\ x.pc = "debounce" => Before({x.first}, m[c])
  /\ x.pc \in {"handle", "echo", "report"} => Before(x.batch, q[c] \cup m[c])

ReadsItsOwn(ls, h, c, q, m) == h # 0 /\ c # NoTransport => Reads(ls[h], c, q, m)

OrderOK ==
  /\ FetchedFirst(queue, mail)
  /\ Numbered(listeners, queue, mail, arrived)
  /\ ReadsItsOwn(listeners, handle, current, queue, mail)

LEMMA InHandIs ==
  /\ \A l \in Listeners : InHand(l) = Hand(listeners[l])
  /\ \A l \in Listeners : InHand(l)' = Hand(listeners'[l])
  BY DEF InHand, Hand

LEMMA UnreadIs ==
  ASSUME NEW j \in Jobs, NEW m
  PROVE  /\ m \in Unread(j) <=>
              /\ m # Verification /\ m.job = j
              /\ \/ \E t \in Transports : m \in mail[t] \cup queue[t]
                 \/ \E l \in Listeners : m \in Hand(listeners[l])
         /\ m \in Unread(j)' <=>
              /\ m # Verification /\ m.job = j
              /\ \/ \E t \in Transports : m \in mail'[t] \cup queue'[t]
                 \/ \E l \in Listeners : m \in Hand(listeners'[l])
  BY InHandIs DEF Unread

LEMMA Hands ==
  /\ Hand(Free) = {} /\ Hand(Starting) = {} /\ Hand(Retrying) = {}
  /\ \A c : Hand(Receiving(c)) = {}
  /\ \A m : Hand(Debouncing(m)) = {m}
  /\ \A b : Hand(Handling(b)) = b /\ Hand(Echoing(b)) = b /\ Hand(Reporting(b)) = b
  BY DEF Hand, Free, Starting, Retrying, Receiving, Debouncing, Handling, Echoing, Reporting

LEMMA HandType ==
  ASSUME NEW x \in Listener
  PROVE  Hand(x) \subseteq Message
  BY ListenerType DEF Hand

LEMMA Ids ==
  ASSUME NEW m \in Message, m # Verification
  PROVE  m.id \in Nat /\ m.id \in 1 .. MaxMessages /\ m.at \in Nat
  BY AgentAssumption DEF Message, JobMessage

(* A nonempty bounded set of numbers has a greatest one: the sets of those  *)
(* above a member are finite, and strict inclusion of finite sets is well   *)
(* founded.                                                                *)
LEMMA Greatest ==
  ASSUME NEW k \in Nat, NEW S \in SUBSET Nat, S # {}, \A n \in S : n <= k
  PROVE  \E n \in S : \A i \in S : i <= n
<1> DEFINE above == [n \in S |-> {i \in S : i > n}]
           family == {above[n] : n \in S}
<1>1. \A n \in S : above[n] \in FiniteSubsetsOf(S)
  <2> SUFFICES ASSUME NEW n \in S PROVE above[n] \in FiniteSubsetsOf(S)
    OBVIOUS
  <2>1. above[n] \in SUBSET Nat /\ above[n] \subseteq S /\ \A i \in above[n] : i <= k
    OBVIOUS
  <2>2. IsFiniteSet(above[n])
    BY <2>1, FS_BoundedSetOfNaturals
  <2> QED
    BY <2>1, <2>2 DEF FiniteSubsetsOf
<1>2. family \subseteq FiniteSubsetsOf(S) /\ family # {}
  BY <1>1
<1> HIDE DEF family
<1>3. PICK A \in family : \A B \in family : <<B, A>> \notin StrictSubsetOrdering(S)
  BY <1>2, WFMin, FS_StrictSubsetOrderingWellFounded
<1>4. PICK n \in S : A = above[n]
  BY DEF family
<1>5. ASSUME NEW i \in S, ~(i <= n) PROVE FALSE
  <2> i \in Nat /\ n \in Nat /\ i > n
    BY <1>5
  <2>1. i \in above[n] /\ i \notin above[i]
    OBVIOUS
  <2>2. \A x \in Nat : x > i => x > n
    OBVIOUS
  <2>3. above[i] \subseteq above[n]
    BY <2>2
  <2>4. above[i] \in family
    BY DEF family
  <2>5. <<above[i], above[n]>> \in StrictSubsetOrdering(S)
    BY <2>1, <2>3 DEF StrictSubsetOrdering
  <2> QED
    BY <1>3, <1>4, <2>4, <2>5
<1> QED
  BY <1>5

(* What collapsing drops, a newer message of the same job is kept for.      *)
LEMMA Newest ==
  ASSUME NEW B \in SUBSET Message, NEW x \in B, x # Verification, x \notin Collapse(B)
  PROVE  \E n \in Collapse(B) : n # Verification /\ n.job = x.job /\ n.id > x.id
<1> DEFINE ids == {n.id : n \in {y \in B \ {Verification} : y.job = x.job}}
<1>1. \A y \in B \ {Verification} : y.id \in Nat /\ y.id <= MaxMessages
  BY Ids, AgentAssumption
<1>2. ids \in SUBSET Nat /\ ids # {} /\ \A i \in ids : i <= MaxMessages
  BY <1>1
<1> HIDE DEF ids
<1>3. PICK top \in ids : \A i \in ids : i <= top
  BY <1>2, Greatest, AgentAssumption
<1>4. PICK n \in B \ {Verification} : n.job = x.job /\ n.id = top
  BY DEF ids
<1>5. \A y \in B \ {Verification} : y.job = x.job => y.id <= n.id
  BY <1>3, <1>4 DEF ids
<1>6. n \in Collapse(B)
  BY <1>4, <1>5 DEF Collapse
<1>7. PICK y \in B \ {Verification} : y.job = x.job /\ ~(y.id <= x.id)
  BY DEF Collapse
<1>8. n.id > x.id
  BY <1>1, <1>4, <1>5, <1>7
<1> QED
  BY <1>4, <1>6, <1>8

-----------------------------------------------------------------------------
(* Steps that move no message: listeners end and start, one that has nothing *)
(* in its hands may wait elsewhere, and whatever is the transport's own      *)
(* listener afterwards is what it was, has nothing, or reads that transport. *)
TransportMoves ==
  /\ UNCHANGED <<queue, mail, arrived>>
  /\ \A l \in Listeners : \/ listeners'[l] \in {listeners[l], Free}
                          \/ Hand(listeners[l]) = {} /\ Hand(listeners'[l]) = {}
  /\ \/ current' = NoTransport \/ handle' = 0
     \/ listeners'[handle'] \in {Starting, Free, Retrying, Receiving(current')}
     \/ UNCHANGED <<current, handle>> /\ listeners'[handle] = listeners[handle]

LEMMA IdleReads ==
  ASSUME NEW c, NEW q, NEW m, NEW x \in {Starting, Free, Retrying, Receiving(c)}
  PROVE  Reads(x, c, q, m)
  BY DEF Reads, Starting, Free, Retrying, Receiving

LEMMA MovesKeepOrder ==
  ASSUME IInv, OrderOK, TransportMoves
  PROVE  OrderOK'
<1>1. UNCHANGED <<queue, mail, arrived>>
  BY DEF TransportMoves
<1>2. FetchedFirst(queue', mail')
  BY <1>1 DEF OrderOK
<1>3. \A l \in Listeners : Hand(listeners'[l]) \subseteq Hand(listeners[l])
  BY Hands DEF TransportMoves
<1>4. Numbered(listeners', queue', mail', arrived')
  BY <1>1, <1>3 DEF OrderOK, Numbered
<1>5. ReadsItsOwn(listeners', handle', current', queue', mail')
  <2>1. CASE current' = NoTransport \/ handle' = 0
    BY <2>1 DEF ReadsItsOwn
  <2>2. CASE listeners'[handle'] \in {Starting, Free, Retrying, Receiving(current')}
    BY <2>2, IdleReads DEF ReadsItsOwn
  <2>3. CASE UNCHANGED <<current, handle>> /\ listeners'[handle] = listeners[handle]
    BY <1>1, <2>3 DEF OrderOK, ReadsItsOwn
  <2> QED
    BY <2>1, <2>2, <2>3 DEF TransportMoves
<1> QED
  BY <1>2, <1>4, <1>5 DEF OrderOK

LEMMA AfterStopMoves ==
  ASSUME IInv, NEW p \in Tasks, NEW t, NEW h, NEW op, NEW now,
         AfterStop(p, t, h, op, now) \/ EndTask(p, h, op, now), UNCHANGED <<queue, mail, arrived>>
  PROVE  TransportMoves
<1>1. CASE EndTask(p, h, op, now)
  BY <1>1 DEF EndTask, TransportMoves
<1>2. CASE ConnectTo(p, t, h, op)
  <2>1. CASE UNCHANGED listeners /\ current' = NoTransport
    BY <2>1 DEF TransportMoves
  <2>2. CASE \E l \in Listeners :
               /\ listeners[l] = Free
               /\ listeners' = [listeners EXCEPT ![l] = Starting]
               /\ handle' = l
    <3>1. PICK l \in Listeners : /\ listeners[l] = Free
                                 /\ listeners' = [listeners EXCEPT ![l] = Starting]
                                 /\ handle' = l
      BY <2>2
    <3>2. listeners'[l] = Starting /\ \A k \in Listeners : k # l => listeners'[k] = listeners[k]
      BY <3>1, Parts DEF ProcessOK
    <3> QED
      BY <3>1, <3>2, Hands DEF TransportMoves
  <2> QED
    BY <1>2, <2>1, <2>2 DEF ConnectTo
<1> QED
  BY <1>1, <1>2 DEF AfterStop

LEMMA StopTransportMoves ==
  ASSUME IInv, NEW p \in Tasks, NEW t, NEW now,
         StopTransport(p, t, now), UNCHANGED <<queue, mail, arrived>>
  PROVE  TransportMoves
<1>1. CASE handle # 0
  <2>1. /\ listeners' = [listeners EXCEPT ![handle] = Free]
        /\ UNCHANGED <<handle, current>>
    BY <1>1 DEF StopTransport, Suspend
  <2>2. /\ listeners'[handle] = Free
        /\ \A k \in Listeners : k # handle => listeners'[k] = listeners[k]
    BY <1>1, <2>1, Parts DEF ProcessOK
  <2> QED
    BY <2>1, <2>2 DEF TransportMoves
<1>2. CASE handle = 0 /\ current # NoTransport
  BY <1>2 DEF StopTransport, Suspend, TransportMoves
<1>3. CASE handle = 0 /\ current = NoTransport
  BY <1>3, AfterStopMoves DEF StopTransport
<1> QED
  BY <1>1, <1>2, <1>3

(* A step that leaves listeners and transport alone. *)
LEMMA StillMoves ==
  ASSUME UNCHANGED <<queue, mail, arrived, listeners, current, handle>>
  PROVE  TransportMoves
  BY DEF TransportMoves

LEMMA TaskMoves ==
  ASSUME IInv, NEW p \in Tasks, TaskStep(p)
  PROVE  TransportMoves
<1>1. CASE Join(p)
  <2>1. CASE current # NoTransport
    BY <1>1, <2>1 DEF Join, Suspend, TransportMoves
  <2>2. CASE current = NoTransport
    BY <1>1, <2>2, AfterStopMoves DEF Join
  <2> QED
    BY <2>1, <2>2
<1>2. CASE Close(p)
  BY <1>2, AfterStopMoves DEF Close
<1>3. CASE Post(p)
  BY <1>3, StillMoves DEF Post
<1>4. CASE Update(p)
  <2>1. CASE tasks[p].to = current
    BY <1>4, <2>1, StillMoves DEF Update
  <2>2. CASE tasks[p].to # current
    BY <1>4, <2>2, StopTransportMoves DEF Update
  <2> QED
    BY <2>1, <2>2
<1>5. CASE TimerEnds(p)
  BY <1>5, StillMoves DEF TimerEnds
<1>6. CASE TimerFires(p)
  <2>1. PICK now : StopTransport(p, NoTransport, now)
    BY <1>6 DEF TimerFires
  <2> QED
    BY <1>6, <2>1, StopTransportMoves DEF TimerFires
<1> QED
  BY <1>1, <1>2, <1>3, <1>4, <1>5, <1>6 DEF TaskStep

LEMMA StopMoves ==
  ASSUME IInv, NEW forced, Stop(forced)
  PROVE  TransportMoves
<1>1. PICK now : StopTransport(Stopper, NoTransport, now)
  BY DEF Stop
<1>2. UNCHANGED <<queue, mail, arrived>>
  BY DEF Stop, SameWorld
<1> QED
  BY <1>1, <1>2, StopTransportMoves, TaskNames

LEMMA MainMoves ==
  ASSUME IInv, Signal \/ SecondSignal \/ MainStep
  PROVE  TransportMoves
<1>1. CASE Signal
  BY <1>1, StopMoves, StillMoves DEF Signal, SameWorld
<1>2. CASE SecondSignal
  BY <1>2, StopMoves DEF SecondSignal
<1>3. CASE Settled
  BY <1>3, StopMoves, StillMoves DEF Settled, SameWorld
<1>4. CASE Drained
  BY <1>4, StopMoves DEF Drained
<1>5. CASE Deregister
  BY <1>5, StillMoves DEF Deregister
<1> QED
  BY <1>1, <1>2, <1>3, <1>4, <1>5 DEF MainStep

LEMMA ReceiveMoves ==
  ASSUME IInv, NEW l \in Listeners, Receive(l)
  PROVE  TransportMoves
<1>1. Hand(listeners[l]) = {}
  BY Hands DEF Receive
<1>2. PICK r \in {Free, Retrying, Receiving(current)} : Become(l, r)
  BY DEF Receive
<1>3. listeners'[l] = r /\ \A k \in Listeners : k # l => listeners'[k] = listeners[k]
  BY <1>2, Parts DEF Become, ProcessOK
<1>4. UNCHANGED <<queue, mail, arrived, current, handle>> /\ handle \in Listeners \cup {0}
  BY Parts DEF Receive, ProcessOK
<1> QED
  BY <1>1, <1>2, <1>3, <1>4, Hands DEF TransportMoves

-----------------------------------------------------------------------------
(* Steps that move messages.                                               *)

(* What the parts of the order say of subsets. *)
LEMMA BeforeParts ==
  ASSUME NEW A, NEW B, Before(A, B), NEW C, NEW D, C \ {Verification} \subseteq A,
         D \ {Verification} \subseteq B
  PROVE  Before(C, D)
  BY DEF Before

LEMMA Types ==
  ASSUME IInv
  PROVE  /\ listeners \in [Listeners -> Listener] /\ handle \in Listeners \cup {0}
         /\ current \in Transports \cup {NoTransport}
         /\ queue \in [Transports -> SUBSET Message] /\ mail \in [Transports -> SUBSET Message]
         /\ jobs \in [Jobs -> {"none", "active", "stopping"}] /\ arrived \in Nat
         /\ row \in Transports \cup {NoTransport}
  BY Parts, AgentAssumption DEF ProcessOK, WorldOK

LEMMA FetchOrder ==
  ASSUME IInv, OrderOK, NEW t \in Transports, Fetch(t)
  PROVE  OrderOK'
<1>1. /\ queue' = [queue EXCEPT ![t] = @ \cup mail[t]]
      /\ mail' = [mail EXCEPT ![t] = {}]
      /\ UNCHANGED <<listeners, handle, current, arrived>>
  BY DEF Fetch
<1>2. /\ queue'[t] = queue[t] \cup mail[t] /\ mail'[t] = {}
      /\ \A u \in Transports : u # t => queue'[u] = queue[u] /\ mail'[u] = mail[u]
  BY <1>1, Types
<1>3. FetchedFirst(queue', mail')
  BY <1>2 DEF OrderOK, FetchedFirst, Before
<1>4. \A u \in Transports : queue'[u] \cup mail'[u] = queue[u] \cup mail[u]
  BY <1>2
<1>5. Numbered(listeners', queue', mail', arrived')
  BY <1>1, <1>4 DEF OrderOK, Numbered
<1>6. ReadsItsOwn(listeners', handle', current', queue', mail')
  <2> SUFFICES ASSUME handle # 0, current # NoTransport
               PROVE  Reads(listeners[handle], current, queue', mail')
    BY <1>1 DEF ReadsItsOwn
  <2>1. Reads(listeners[handle], current, queue, mail) /\ current \in Transports
    BY Types DEF OrderOK, ReadsItsOwn
  <2>2. mail'[current] \subseteq mail[current]
    BY <1>2, <2>1
  <2> QED
    BY <1>4, <2>1, <2>2, BeforeParts DEF Reads
<1> QED
  BY <1>3, <1>5, <1>6 DEF OrderOK

LEMMA PublishOrder ==
  ASSUME IInv, OrderOK, NEW d \in sending, NEW v \in d.to, Publish(d, v)
  PROVE  OrderOK'
<1> DEFINE n == [kind |-> d.kind, job |-> d.job, id |-> d.id, at |-> arrived + 1]
<1>1. /\ mail' = [mail EXCEPT ![v] = @ \cup {n}]
      /\ arrived' = arrived + 1 /\ arrived \in Nat
      /\ UNCHANGED <<listeners, handle, current, queue>>
  BY Types DEF Publish
<1>2. n.at = arrived + 1
  OBVIOUS
<1> HIDE DEF n
<1>3. \A u \in Transports : mail'[u] \subseteq mail[u] \cup {n}
  BY <1>1, Types
<1>4. /\ \A u \in Transports : \A x \in (queue[u] \cup mail[u]) \ {Verification} :
           x.at \in Nat /\ x.at <= arrived
      /\ \A l \in Listeners : \A x \in Hand(listeners[l]) \ {Verification} :
           x.at \in Nat /\ x.at <= arrived
  BY Types, Ids, HandType DEF OrderOK, Numbered
<1>5. Numbered(listeners', queue', mail', arrived')
  <2>1. \A x : x = n => x.at <= arrived + 1
    BY <1>1, <1>2
  <2> QED
    BY <1>1, <1>3, <1>4, <2>1 DEF Numbered
<1>6. FetchedFirst(queue', mail')
  <2> SUFFICES ASSUME NEW u \in Transports, NEW x \in queue[u] \ {Verification},
                      NEW y \in mail'[u] \ {Verification}
               PROVE  x.at < y.at
    BY <1>1 DEF FetchedFirst, Before
  <2>1. CASE y = n
    BY <1>1, <1>2, <1>4, <2>1
  <2>2. CASE y \in mail[u]
    BY <2>2 DEF OrderOK, FetchedFirst, Before
  <2> QED
    BY <1>3, <2>1, <2>2
<1>7. ReadsItsOwn(listeners', handle', current', queue', mail')
  <2> SUFFICES ASSUME handle # 0, current # NoTransport
               PROVE  Reads(listeners[handle], current, queue, mail')
    BY <1>1 DEF ReadsItsOwn
  <2>1. /\ Reads(listeners[handle], current, queue, mail) /\ current \in Transports
        /\ handle \in Listeners
    BY Types DEF OrderOK, ReadsItsOwn
  <2>2. \A x \in Hand(listeners[handle]) \ {Verification} : x.at < n.at
    BY <1>1, <1>2, <1>4, <2>1
  <2>3. ASSUME NEW A, NEW B, Before(A, B), A \subseteq Hand(listeners[handle])
        PROVE  Before(A, B \cup {n})
    BY <2>2, <2>3 DEF Before
  <2>4. CASE listeners[handle].pc = "debounce"
    <3>1. Before({listeners[handle].first}, mail[current] \cup {n})
      BY <2>1, <2>3, <2>4 DEF Reads, Hand
    <3> QED
      BY <1>3, <2>1, <2>4, <3>1, BeforeParts DEF Reads
  <2>5. CASE listeners[handle].pc \in {"handle", "echo", "report"}
    <3>1. Before(listeners[handle].batch, (queue[current] \cup mail[current]) \cup {n})
      BY <2>1, <2>3, <2>5 DEF Reads, Hand
    <3>2. queue[current] \cup mail'[current] \subseteq (queue[current] \cup mail[current]) \cup {n}
      BY <1>3, <2>1
    <3> QED
      BY <2>1, <2>5, <3>1, <3>2, BeforeParts DEF Reads
  <2>6. CASE listeners[handle].pc \notin {"debounce", "handle", "echo", "report"}
    BY <2>1, <2>6 DEF Reads
  <2> QED
    BY <2>4, <2>5, <2>6
<1> QED
  BY <1>5, <1>6, <1>7 DEF OrderOK

(* A step of listener l that becomes r, and may take messages from queues.  *)
LEMMA ListenerOrder ==
  ASSUME IInv, OrderOK, NEW l \in Listeners, NEW r, Become(l, r),
         UNCHANGED <<handle, current, mail, arrived>>,
         \A t \in Transports : queue'[t] \subseteq queue[t],
         \A n \in Hand(r) \ {Verification} : n.at <= arrived,
         l = handle /\ current # NoTransport => Reads(r, current, queue', mail)
  PROVE  OrderOK'
<1>1. listeners'[l] = r /\ \A k \in Listeners : k # l => listeners'[k] = listeners[k]
  BY Types DEF Become
<1>2. FetchedFirst(queue', mail')
  BY DEF OrderOK, FetchedFirst, Before
<1>3. Numbered(listeners', queue', mail', arrived')
  BY <1>1 DEF OrderOK, Numbered
<1>4. ReadsItsOwn(listeners', handle', current', queue', mail')
  <2> SUFFICES ASSUME handle # 0, current # NoTransport
               PROVE  Reads(listeners'[handle], current, queue', mail)
    BY DEF ReadsItsOwn
  <2>1. CASE l = handle
    BY <1>1, <2>1
  <2>2. CASE l # handle
    <3>1. /\ Reads(listeners[handle], current, queue, mail) /\ current \in Transports
          /\ handle \in Listeners
      BY Types DEF OrderOK, ReadsItsOwn
    <3>2. listeners'[handle] = listeners[handle]
      BY <1>1, <2>2, <3>1
    <3>3. queue'[current] \cup mail[current] \subseteq queue[current] \cup mail[current]
      BY <3>1
    <3> QED
      BY <3>1, <3>2, <3>3, BeforeParts DEF Reads
  <2> QED
    BY <2>1, <2>2
<1> QED
  BY <1>2, <1>3, <1>4 DEF OrderOK

LEMMA TakeFirstOrder ==
  ASSUME IInv, OrderOK, NEW l \in Listeners, TakeFirst(l)
  PROVE  OrderOK'
<1> DEFINE t == listeners[l].on
<1>1. /\ listeners[l].pc = "receive" /\ listeners[l] \in Listener
      /\ UNCHANGED <<handle, current, mail, arrived>>
  BY Types DEF TakeFirst
<1>2. t \in Transports
  BY <1>1, ListenerType
<1>3. PICK m \in queue[t] : queue' = [queue EXCEPT ![t] = @ \ {m}] /\ Become(l, Debouncing(m))
  BY DEF TakeFirst
<1>4. \A u \in Transports : queue'[u] \subseteq queue[u]
  BY <1>3, Types
<1>5. \A n \in Hand(Debouncing(m)) \ {Verification} : n.at <= arrived
  BY <1>2, <1>3, Hands DEF OrderOK, Numbered
<1>6. ASSUME l = handle, current # NoTransport PROVE Reads(Debouncing(m), current, queue', mail)
  <2>1. l # 0
    BY AgentAssumption
  <2>2. t = current
    BY <1>1, <1>6, <2>1 DEF OrderOK, ReadsItsOwn, Reads
  <2>3. Before({m}, mail[current])
    BY <1>2, <1>3, <2>2 DEF OrderOK, FetchedFirst, Before
  <2> QED
    BY <2>3 DEF Reads, Debouncing
<1> QED
  BY <1>1, <1>3, <1>4, <1>5, <1>6, ListenerOrder

LEMMA TakeRestOrder ==
  ASSUME IInv, OrderOK, NEW l \in Listeners, TakeRest(l)
  PROVE  OrderOK'
<1>1. /\ listeners[l].pc = "debounce" /\ listeners[l] \in Listener
      /\ UNCHANGED <<handle, current, mail, arrived>>
  BY Types DEF TakeRest
<1>2. CASE current = NoTransport
  <2>1. Become(l, Retrying) /\ UNCHANGED queue
    BY <1>2 DEF TakeRest
  <2> QED
    BY <1>1, <1>2, <2>1, Hands, ListenerOrder
<1>3. CASE current # NoTransport
  <2> DEFINE b == Collapse({listeners[l].first} \cup queue[current])
  <2>1. /\ Become(l, Handling(b)) /\ queue' = [queue EXCEPT ![current] = {}]
        /\ current \in Transports
    BY <1>3, Types DEF TakeRest
  <2>2. b \subseteq Hand(listeners[l]) \cup queue[current]
    BY <1>1 DEF Collapse, Hand
  <2> HIDE DEF b
  <2>3. (\A u \in Transports : queue'[u] \subseteq queue[u]) /\ queue'[current] = {}
    BY <2>1, Types
  <2>4. \A n \in Hand(Handling(b)) \ {Verification} : n.at <= arrived
    BY <2>1, <2>2, Hands DEF OrderOK, Numbered
  <2>5. ASSUME l = handle PROVE Reads(Handling(b), current, queue', mail)
    <3>1. l # 0
      BY AgentAssumption
    <3>2. Before({listeners[l].first}, mail[current])
      BY <1>1, <1>3, <2>5, <3>1 DEF OrderOK, ReadsItsOwn, Reads
    <3>3. Before(queue[current], mail[current])
      BY <2>1 DEF OrderOK, FetchedFirst
    <3>4. Before(b, mail[current])
      BY <1>1, <2>2, <3>2, <3>3 DEF Before, Hand
    <3> QED
      BY <2>3, <3>4 DEF Reads, Handling, Before
  <2> QED
    BY <1>1, <2>1, <2>3, <2>4, <2>5, ListenerOrder
<1> QED
  BY <1>2, <1>3

(* A listener goes on with its batch, or with part of it.                   *)
LEMMA BatchOrder ==
  ASSUME IInv, OrderOK, NEW l \in Listeners, listeners[l].pc \in {"handle", "echo", "report"},
         NEW b \in SUBSET listeners[l].batch,
         NEW r \in {Handling(b), Echoing(b), Reporting(b)}, Become(l, r),
         UNCHANGED <<handle, current, queue, mail, arrived>>
  PROVE  OrderOK'
<1>1. Hand(r) = b /\ Hand(listeners[l]) = listeners[l].batch
  BY Hands DEF Hand
<1>2. \A n \in Hand(r) \ {Verification} : n.at <= arrived
  BY <1>1 DEF OrderOK, Numbered
<1>3. ASSUME l = handle, current # NoTransport PROVE Reads(r, current, queue, mail)
  <2>1. l # 0
    BY AgentAssumption
  <2>2. Before(listeners[l].batch, queue[current] \cup mail[current])
    BY <1>3, <2>1 DEF OrderOK, ReadsItsOwn, Reads
  <2>3. Before(b, queue[current] \cup mail[current])
    BY <2>2, BeforeParts
  <2> QED
    BY <2>3 DEF Reads, Handling, Echoing, Reporting
<1> QED
  BY <1>2, <1>3, ListenerOrder

LEMMA HandleOrder ==
  ASSUME IInv, OrderOK, NEW l \in Listeners, Handle(l)
  PROVE  OrderOK'
<1>1. /\ listeners[l].pc = "handle"
      /\ UNCHANGED <<handle, current, queue, mail, arrived>>
  BY DEF Handle
<1>2. PICK m \in listeners[l].batch :
        LET rest == listeners[l].batch \ {m}
        IN  HandleVerify(l, m, rest) \/ HandleRequest(l, m, rest) \/ HandleStatus(l, m, rest)
  BY DEF Handle
<1> DEFINE rest == listeners[l].batch \ {m}
<1>3. \E r \in {Handling(rest), Echoing(rest), Reporting(rest)} : Become(l, r)
  BY <1>2 DEF HandleVerify, HandleRequest, HandleStatus
<1>4. rest \in SUBSET listeners[l].batch
  OBVIOUS
<1> HIDE DEF rest
<1> QED
  BY <1>1, <1>3, <1>4, BatchOrder

LEMMA AnsweredOrder ==
  ASSUME IInv, OrderOK, NEW l \in Listeners, Echoed(l) \/ Reported(l)
  PROVE  OrderOK'
<1>1. /\ listeners[l].pc \in {"handle", "echo", "report"}
      /\ Become(l, Handling(listeners[l].batch))
      /\ UNCHANGED <<handle, current, queue, mail, arrived>>
  BY DEF Echoed, Reported
<1> QED
  BY <1>1, BatchOrder

LEMMA OutdatedHand ==
  ASSUME NEW x \in Listener, NEW c, NEW q, NEW m
  PROVE  /\ Hand(x) \ {Verification} = Hand(Outdated(x)) \ {Verification}
         /\ Reads(x, c, q, m) => Reads(Outdated(x), c, q, m)
<1>1. CASE x.pc = "debounce" /\ x.first = Verification
  BY <1>1 DEF Outdated, Hand, Handling, Reads, Before
<1>2. CASE x.pc = "echo"
  <2>1. Outdated(x) = Reporting(Forget(x.batch))
    BY <1>2 DEF Outdated
  <2>2. Hand(Outdated(x)) = Forget(x.batch) /\ Hand(x) = x.batch
    BY <1>2, <2>1, Hands DEF Hand
  <2>3. Before(x.batch, q[c] \cup m[c]) => Before(Forget(x.batch), q[c] \cup m[c])
    BY DEF Forget, Before
  <2> QED
    BY <1>2, <2>1, <2>2, <2>3 DEF Forget, Reads, Reporting
<1>3. CASE x.pc \in {"handle", "report"}
  <2>1. x \in [pc : {"handle", "echo", "report"}, batch : SUBSET Message]
    BY <1>3 DEF Listener, Free, Starting, Retrying
  <2>2. /\ Outdated(x).pc = x.pc /\ Outdated(x).batch = Forget(x.batch)
    BY <1>3, <2>1 DEF Outdated
  <2>3. Hand(Outdated(x)) = Forget(x.batch) /\ Hand(x) = x.batch
    BY <1>3, <2>2 DEF Hand
  <2>4. Before(x.batch, q[c] \cup m[c]) => Before(Forget(x.batch), q[c] \cup m[c])
    BY DEF Forget, Before
  <2> QED
    BY <1>3, <2>2, <2>3, <2>4 DEF Forget, Reads
<1>4. CASE ~(x.pc = "debounce" /\ x.first = Verification) /\ x.pc \notin {"echo", "handle", "report"}
  BY <1>4 DEF Outdated
<1> QED
  BY <1>1, <1>2, <1>3, <1>4

LEMMA RegisterOrder ==
  ASSUME IInv, OrderOK, NEW r \in RegTasks, NEW t \in Transports, Register(r, t)
  PROVE  OrderOK'
<1>1. /\ UNCHANGED <<handle, current, arrived>>
      /\ \A l \in Listeners : listeners[l] \in Listener /\ listeners'[l] = Outdated(listeners[l])
      /\ \A u \in Transports : /\ mail'[u] \ {Verification} = mail[u] \ {Verification}
                               /\ queue'[u] \ {Verification} = queue[u] \ {Verification}
  BY Types DEF Register, Forget
<1>2. FetchedFirst(queue', mail')
  BY <1>1 DEF OrderOK, FetchedFirst, Before
<1>3. \A l \in Listeners : Hand(listeners'[l]) \ {Verification} = Hand(listeners[l]) \ {Verification}
  BY <1>1, OutdatedHand
<1>4. Numbered(listeners', queue', mail', arrived')
  BY <1>1, <1>3 DEF OrderOK, Numbered
<1>5. ReadsItsOwn(listeners', handle', current', queue', mail')
  <2> SUFFICES ASSUME handle # 0, current # NoTransport
               PROVE  Reads(listeners'[handle], current, queue', mail')
    BY <1>1 DEF ReadsItsOwn
  <2>1. /\ Reads(listeners[handle], current, queue, mail) /\ current \in Transports
        /\ handle \in Listeners
    BY Types DEF OrderOK, ReadsItsOwn
  <2>2. Reads(listeners'[handle], current, queue, mail)
    BY <1>1, <2>1, OutdatedHand
  <2>3. \A A : /\ Before(A, mail[current]) => Before(A, mail'[current])
               /\ Before(A, queue[current] \cup mail[current])
                    => Before(A, queue'[current] \cup mail'[current])
    BY <1>1, <2>1 DEF Before
  <2> QED
    BY <2>2, <2>3 DEF Reads
<1> QED
  BY <1>2, <1>4, <1>5 DEF OrderOK

LEMMA InitOrder == Init => OrderOK
<1> SUFFICES ASSUME Init PROVE OrderOK
  OBVIOUS
<1>1. /\ \A t \in Transports : queue[t] = {} /\ mail[t] = {}
      /\ \A l \in Listeners : listeners[l] = Free
      /\ handle = 0
  BY DEF Init
<1> QED
  BY <1>1, Hands DEF OrderOK, FetchedFirst, Numbered, ReadsItsOwn, Before

(* Every step is one that moves no message, or one of these.                *)
LEMMA StepKinds ==
  ASSUME IInv, [Next]_vars
  PROVE  \/ TransportMoves
         \/ \E t \in Transports : Fetch(t)
         \/ \E d \in sending : \E t \in d.to : Publish(d, t)
         \/ \E l \in Listeners : TakeFirst(l) \/ TakeRest(l) \/ Handle(l) \/ Echoed(l) \/ Reported(l)
         \/ \E r \in RegTasks, t \in Transports : Register(r, t)
<1>1. ASSUME NEW p \in Tasks, TaskStep(p) PROVE TransportMoves
  BY <1>1, TaskMoves
<1>2. ASSUME NEW r \in RegTasks, PostFails(r) PROVE TransportMoves
  BY <1>2, StillMoves DEF PostFails
<1>3. ASSUME NEW t \in Transports, Break(t) PROVE TransportMoves
  BY <1>3, StillMoves DEF Break
<1>4. ASSUME Signal \/ SecondSignal \/ MainStep PROVE TransportMoves
  BY <1>4, MainMoves
<1>5. ASSUME NEW j \in Jobs, RunnerEnds(j) PROVE TransportMoves
  BY <1>5, StillMoves DEF RunnerEnds, SameWorld
<1>6. ASSUME NEW l \in Listeners, Receive(l) PROVE TransportMoves
  BY <1>6, ReceiveMoves
<1>7. ASSUME UNCHANGED vars PROVE TransportMoves
  BY <1>7, StillMoves DEF vars
<1>8. ASSUME NEW kind \in Kinds, NEW j \in Jobs, Compose(kind, j) PROVE TransportMoves
  BY <1>8, StillMoves DEF Compose
<1> QED
  BY <1>1, <1>2, <1>3, <1>4, <1>5, <1>6, <1>7, <1>8 DEF Next, ListenerStep

LEMMA NextOrder == IInv /\ OrderOK /\ [Next]_vars => OrderOK'
  BY StepKinds, MovesKeepOrder, FetchOrder, PublishOrder, TakeFirstOrder, TakeRestOrder, HandleOrder,
     AnsweredOrder, RegisterOrder

-----------------------------------------------------------------------------
(* How a message ceases to be unread.                                      *)

(* What CancelIsActedOn says of job j and message m. *)
DoneWith(j, m) ==
  \/ /\ jobs'[j] # "active"
     /\ \A l \in Listeners, r \in Unread(j)' :
          r.kind = "request" /\ listeners'[l] # listeners[l] =>
            /\ r \in InHand(l)' => r.id >= m.id
            /\ l = handle => \A t \in Transports \cap {current'} :
                               r \in mail'[t] \cup queue'[t] => r.at > m.at
  \/ \E l \in Listeners, n \in Unread(j)' : n \in InHand(l)' /\ n.id > m.id
  \/ \E l \in Listeners : m \in InHand(l) /\ listeners'[l] \in {Free, Retrying}

LEMMA MovesLeave ==
  ASSUME IInv, TransportMoves, NEW j \in Jobs, NEW m \in Unread(j), m \notin Unread(j)'
  PROVE  DoneWith(j, m)
<1>1. UNCHANGED <<queue, mail>>
  BY DEF TransportMoves
<1>2. PICK l \in Listeners : m \in Hand(listeners[l]) /\ m \notin Hand(listeners'[l])
  BY <1>1, UnreadIs
<1>3. listeners'[l] = Free
  BY <1>2 DEF TransportMoves
<1> QED
  BY <1>2, <1>3, InHandIs DEF DoneWith

(* Fetching, publishing, taking the first message, an answer and a registration *)
(* leave every message about a job where it is, or with the listener.        *)
LEMMA OthersLeaveNothing ==
  ASSUME IInv, NEW j \in Jobs, NEW m \in Unread(j),
         \/ \E t \in Transports : Fetch(t)
         \/ \E d \in sending : \E t \in d.to : Publish(d, t)
         \/ \E l \in Listeners : TakeFirst(l) \/ Echoed(l) \/ Reported(l)
         \/ \E r \in RegTasks, t \in Transports : Register(r, t)
  PROVE  m \in Unread(j)'
<1>1. ASSUME NEW t \in Transports, Fetch(t) PROVE m \in Unread(j)'
  <2>1. /\ \A u \in Transports : queue'[u] \cup mail'[u] = queue[u] \cup mail[u]
        /\ UNCHANGED listeners
    BY <1>1, Types DEF Fetch
  <2> QED
    BY <2>1, UnreadIs
<1>2. ASSUME NEW d \in sending, NEW t \in d.to, Publish(d, t) PROVE m \in Unread(j)'
  <2>1. (\A u \in Transports : mail[u] \subseteq mail'[u]) /\ UNCHANGED <<queue, listeners>>
    BY <1>2, Types DEF Publish
  <2> QED
    BY <2>1, UnreadIs
<1>3. ASSUME NEW l \in Listeners, TakeFirst(l) PROVE m \in Unread(j)'
  <2>1. PICK x \in queue[listeners[l].on] :
          /\ queue' = [queue EXCEPT ![listeners[l].on] = @ \ {x}]
          /\ listeners' = [listeners EXCEPT ![l] = Debouncing(x)]
    BY <1>3 DEF TakeFirst, Become
  <2>2. /\ \A u \in Transports : queue[u] \subseteq queue'[u] \cup {x}
        /\ Hand(listeners'[l]) = {x}
        /\ \A k \in Listeners : k # l => listeners'[k] = listeners[k]
    BY <2>1, Hands, Types
  <2>3. Hand(listeners[l]) = {} /\ UNCHANGED mail
    BY <1>3 DEF TakeFirst, Hand
  <2> QED
    BY <2>2, <2>3, UnreadIs
<1>4. ASSUME NEW l \in Listeners, Echoed(l) \/ Reported(l) PROVE m \in Unread(j)'
  <2>1. /\ listeners[l].pc \in {"echo", "report"}
        /\ listeners' = [listeners EXCEPT ![l] = Handling(listeners[l].batch)]
        /\ UNCHANGED <<queue, mail>>
    BY <1>4 DEF Echoed, Reported, Become
  <2>2. Hand(listeners[l]) = listeners[l].batch
    BY <2>1 DEF Hand
  <2>3. \A k \in Listeners : Hand(listeners'[k]) = Hand(listeners[k])
    BY <2>1, <2>2, Hands, Types
  <2> QED
    BY <2>1, <2>3, UnreadIs
<1>5. ASSUME NEW r \in RegTasks, NEW t \in Transports, Register(r, t) PROVE m \in Unread(j)'
  <2>1. /\ \A l \in Listeners : listeners[l] \in Listener /\ listeners'[l] = Outdated(listeners[l])
        /\ \A u \in Transports : /\ mail'[u] \ {Verification} = mail[u] \ {Verification}
                                 /\ queue'[u] \ {Verification} = queue[u] \ {Verification}
    BY <1>5, Types DEF Register, Forget
  <2>2. \A l \in Listeners : Hand(listeners'[l]) \ {Verification} = Hand(listeners[l]) \ {Verification}
    BY <2>1, OutdatedHand
  <2> QED
    BY <2>1, <2>2, UnreadIs
<1> QED
  BY <1>1, <1>2, <1>3, <1>4, <1>5

(* The rest of a batch: what collapsing drops has a newer one, and if there  *)
(* is no transport the listener forgets the first.                           *)
LEMMA TakeRestLeaves ==
  ASSUME IInv, NEW l \in Listeners, TakeRest(l),
         NEW j \in Jobs, NEW m \in Unread(j), m \notin Unread(j)'
  PROVE  DoneWith(j, m)
<1>1. /\ listeners[l].pc = "debounce" /\ listeners[l] \in Listener /\ UNCHANGED mail
      /\ Hand(listeners[l]) = {listeners[l].first} /\ listeners[l].first \in Message
  BY Types, ListenerType DEF TakeRest, Hand
<1>2. m # Verification /\ m.job = j
  BY UnreadIs
<1>3. CASE current = NoTransport
  <2>1. /\ UNCHANGED queue /\ listeners'[l] = Retrying
        /\ \A k \in Listeners : k # l => listeners'[k] = listeners[k]
    BY <1>3, Types DEF TakeRest, Become
  <2>2. m \in Hand(listeners[l])
    BY <1>1, <2>1, UnreadIs
  <2> QED
    BY <2>1, <2>2, InHandIs DEF DoneWith
<1>4. CASE current # NoTransport
  <2> DEFINE B == {listeners[l].first} \cup queue[current]
  <2>1. /\ current \in Transports /\ B \in SUBSET Message
        /\ queue' = [queue EXCEPT ![current] = {}]
        /\ listeners' = [listeners EXCEPT ![l] = Handling(Collapse(B))]
    BY <1>1, <1>4, Types DEF TakeRest, Become
  <2>2. /\ Hand(listeners'[l]) = Collapse(B)
        /\ \A k \in Listeners : k # l => listeners'[k] = listeners[k]
        /\ \A u \in Transports : u # current => queue'[u] = queue[u]
    BY <2>1, Hands, Types
  <2>3. m \in B /\ m \notin Collapse(B)
    BY <1>1, <2>2, UnreadIs
  <2> HIDE DEF B
  <2>4. PICK n \in Collapse(B) : n # Verification /\ n.job = m.job /\ n.id > m.id
    BY <1>2, <2>1, <2>3, Newest
  <2>5. n \in Unread(j)' /\ n \in InHand(l)'
    BY <1>2, <2>2, <2>4, UnreadIs, InHandIs
  <2> QED
    BY <2>4, <2>5 DEF DoneWith
<1> QED
  BY <1>3, <1>4

(* The handlers: the message is the oldest of its batch, and the batch of    *)
(* the transport's own listener arrived before what the transport still has. *)
LEMMA HandleLeaves ==
  ASSUME IInv, OrderOK, NEW l \in Listeners, Handle(l),
         NEW j \in Jobs, NEW m \in Unread(j), m \notin Unread(j)', m.kind # "request"
  PROVE  DoneWith(j, m)
<1> DEFINE batch == listeners[l].batch
<1>1. /\ listeners[l].pc = "handle" /\ listeners[l] \in Listener
      /\ UNCHANGED <<handle, current, queue, mail>>
      /\ Hand(listeners[l]) = batch /\ batch \in SUBSET Message
  BY Types, ListenerType DEF Handle, Hand
<1>2. PICK x \in batch :
        /\ \A n \in batch : x.id <= n.id
        /\ \/ HandleVerify(l, x, batch \ {x})
           \/ HandleRequest(l, x, batch \ {x})
           \/ HandleStatus(l, x, batch \ {x})
  BY DEF Handle
<1>3. PICK r \in {Handling(batch \ {x}), Echoing(batch \ {x}), Reporting(batch \ {x})} : Become(l, r)
  BY <1>2 DEF HandleVerify, HandleRequest, HandleStatus
<1>4. /\ Hand(listeners'[l]) = batch \ {x}
      /\ \A k \in Listeners : k # l => listeners'[k] = listeners[k]
  BY <1>3, Hands, Types DEF Become
<1>5. m = x /\ m # Verification /\ m.job = j /\ m \in Message
  BY <1>1, <1>4, UnreadIs
<1>6. HandleStatus(l, m, batch \ {m})
  BY <1>2, <1>5 DEF HandleVerify, HandleRequest
<1>7. jobs'[j] # "active"
  BY <1>5, <1>6, Types DEF HandleStatus
<1>8. ASSUME NEW k \in Listeners, NEW n \in Unread(j)', listeners'[k] # listeners[k]
      PROVE  /\ n \in InHand(k)' => n.id >= m.id
             /\ k = handle => \A t \in Transports \cap {current'} :
                                n \in mail'[t] \cup queue'[t] => n.at > m.at
  <2>1. k = l /\ n # Verification
    BY <1>4, <1>8, UnreadIs
  <2>2. ASSUME n \in InHand(k)' PROVE n.id >= m.id
    <3>1. n \in batch
      BY <1>4, <2>1, <2>2, InHandIs
    <3>2. m.id <= n.id /\ m.id \in Nat /\ n.id \in Nat
      BY <1>1, <1>2, <1>5, <2>1, <3>1, Ids
    <3> QED
      BY <3>2
  <2>3. ASSUME k = handle, NEW t \in Transports \cap {current'}, n \in mail'[t] \cup queue'[t]
        PROVE  n.at > m.at
    <3>1. l # 0 /\ current \in Transports /\ current # NoTransport /\ t = current
      BY <1>1, <2>3, AgentAssumption
    <3>2. Before(batch, queue[current] \cup mail[current])
      BY <1>1, <2>1, <2>3, <3>1 DEF OrderOK, ReadsItsOwn, Reads
    <3>3. m.at < n.at
      BY <1>1, <1>5, <2>1, <2>3, <3>1, <3>2 DEF Before
    <3>4. n \in Message
      BY <1>1, <2>3, <3>1, Types
    <3>5. m.at \in Nat /\ n.at \in Nat
      BY <1>5, <2>1, <3>4, Ids
    <3> QED
      BY <3>3, <3>5
  <2> QED
    BY <2>2, <2>3
<1> QED
  BY <1>7, <1>8 DEF DoneWith

LEMMA StepsAreDone ==
  ASSUME IInv, OrderOK, [Next]_vars, NEW j \in Jobs, NEW m \in Unread(j) \ Unread(j)',
         m.kind # "request"
  PROVE  DoneWith(j, m)
<1>1. m \in Unread(j) /\ m \notin Unread(j)'
  OBVIOUS
<1> QED
  BY <1>1, StepKinds, MovesLeave, OthersLeaveNothing, TakeRestLeaves, HandleLeaves

-----------------------------------------------------------------------------
THEOREM Invariance == Spec => []IInv
  BY InitIInv, NextIInv, PTL DEF Spec

(* Whatever the order of their ids, messages are fetched from a transport in *)
(* the order in which they arrived there, and a listener's batch arrived     *)
(* before all that its transport still has.                                  *)
LEMMA ArrivalOrder == Spec => []OrderOK
  BY InitOrder, NextOrder, Invariance, PTL DEF Spec

(* The tasks, the listeners and the transport keep their types, whichever   *)
(* of them stop the transport at once: a task that waits for a transport to *)
(* disconnect waits for one that there is.                                 *)
THEOREM TypeCorrect == Spec => []TypeOK
<1>1. IInv => TypeOK
  BY DEF IInv
<1> QED
  BY <1>1, Invariance, PTL

(* A worker that was drained and not forced has no job when it stops: once  *)
(* a signal came no request becomes a job, in whose hands ever it was, and  *)
(* the jobs that drain() waits for are all there are.                       *)
THEOREM DrainKillsNothing == Spec => []GracefulDrainKillsNothing
<1>1. IInv => GracefulDrainKillsNothing
  BY DEF IInv, DrainsDry, GracefulDrainKillsNothing
<1> QED
  BY <1>1, Invariance, PTL

(* A cancel, or the news that a job is over, is done with only when the job  *)
(* does not run, no older request came with it, and none that arrived before *)
(* it is left on the transport; when a newer message of its batch replaced   *)
(* it; or when its listener ends or finds no transport.  Messages may arrive *)
(* in any order of their ids.                                                *)
THEOREM CancelsAreActedOn == Spec => CancelIsActedOn
<1>1. IInv /\ OrderOK /\ [Next]_vars =>
        [\A j \in Jobs : \A m \in Unread(j) \ Unread(j)' :
           m.kind # "request" =>
             \/ /\ jobs'[j] # "active"
                /\ \A l \in Listeners, r \in Unread(j)' :
                     r.kind = "request" /\ listeners'[l] # listeners[l] =>
                       /\ r \in InHand(l)' => r.id >= m.id
                       /\ l = handle => \A t \in Transports \cap {current'} :
                                          r \in mail'[t] \cup queue'[t] => r.at > m.at
             \/ \E l \in Listeners, n \in Unread(j)' : n \in InHand(l)' /\ n.id > m.id
             \/ \E l \in Listeners : m \in InHand(l) /\ listeners'[l] \in {Free, Retrying}]_vars
  BY StepsAreDone DEF DoneWith
<1> QED
  BY <1>1, Invariance, ArrivalOrder, PTL DEF Spec, CancelIsActedOn
=============================================================================
