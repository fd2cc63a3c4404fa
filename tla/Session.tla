------------------------------ MODULE Session ------------------------------
(***************************************************************************)
(* The client library and command line (api.py, cli.py) over the           *)
(* coordinator's job routes: sessions that submit a job, or attach to one,  *)
(* send heartbeats, wait on the job's transport for a terminal status and  *)
(* return an exit code; a session can be interrupted or killed anywhere.   *)
(*                                                                         *)
(* The coordinator is that of module Coordinator, where a client may call  *)
(* anything at any time; here only sessions call, and what its handlers    *)
(* tell the client is what the sessions' transport has in store.  Workers  *)
(* still call what they like.  Its janitor and its exceptions are left     *)
(* out: to a session they are jobs that end, and messages and answers that *)
(* are lost.                                                               *)
(***************************************************************************)
EXTENDS Naturals

CONSTANTS
  Jobs, Workers, NoWorker, Handlers, Client,   \* as in Coordinator
  Sessions,  \* runs of the command line
  NoJob,     \* no job yet
  NoSlot     \* no request is waited for

ASSUME SessionAssumption ==
  /\ NoJob \notin Jobs
  /\ NoSlot \notin Handlers
  /\ NoWorker \notin Workers     \* as the coordinator assumes
  /\ Client \notin Workers

VARIABLES
  jobs,      \* the jobs table
  task,      \* what each slot is doing
  inbox,     \* terminal statuses sent on a job's transport, not received yet
  session,   \* where each session is
  switching  \* slots whose heartbeat carries monitor=True

vars == <<jobs, task, inbox, session, switching>>

Coord == INSTANCE Coordinator WITH
           told <- inbox, Janitors <- {}, phase <- <<>>, batch <- <<>>,
           faults <- 0, MaxFaults <- 0,
           RetryDelay <- 0, AssignTimeout <- 0, PendingTimeout <- 0, HeartbeatTimeout <- 0

Terminal == Coord!Terminal
Finished(j) == jobs[j].status \in Terminal

-----------------------------------------------------------------------------
Codes == {"none", "zero", "nonzero", "interrupted"}

SessionState ==
  [ pc    : {"new", "submitted", "detaching", "monitoring", "attached", "streaming", "canceling", "done"},
    job   : Jobs \cup {NoJob},
    beats : BOOLEAN,               \* the heartbeat loop runs
    on    : Handlers \cup {NoSlot},
    code  : Codes ]

New == [pc |-> "new", job |-> NoJob, beats |-> FALSE, on |-> NoSlot, code |-> "none"]

Ended(s) == session[s].pc = "done"

(* A slot takes a request when it has answered the one before. *)
Free(h) == task[h] = Coord!Idle /\ \A s \in Sessions : session[s].on # h

Goto(s, pc) == session' = [session EXCEPT ![s].pc = pc, ![s].on = NoSlot]

(* Mutant: close() leaves the heartbeat loop running. *)
FinishBeating(s, code) ==
  session' = [session EXCEPT ![s].pc = "done", ![s].on = NoSlot, ![s].code = code]

(* close() stops the heartbeat loop. *)
Finish(s, code) ==
  session' = [session EXCEPT ![s].pc = "done", ![s].on = NoSlot,
                             ![s].beats = FALSE, ![s].code = code]

Idling == UNCHANGED <<jobs, task, inbox, switching>>

-----------------------------------------------------------------------------
(* Submitting.                                                             *)

(* job_submit: the job is monitored unless --detach is given.              *)
SubmitJob(s, h, j, monitor) ==
  /\ session[s].pc = "new"
  /\ Free(h)
  /\ Coord!Submit(h, j, monitor)
  /\ session' = [session EXCEPT ![s].pc = IF monitor THEN "submitted" ELSE "detaching",
                                ![s].job = j]
  /\ UNCHANGED switching

(* The answer.                                                             *)
Submitted(s) ==
  /\ \/ /\ session[s].pc = "submitted"
        /\ session' = [session EXCEPT ![s].pc = "streaming", ![s].beats = TRUE]
     \/ session[s].pc = "detaching" /\ Finish(s, "zero")
  /\ Idling

-----------------------------------------------------------------------------
(* Attaching.                                                              *)

(* start_monitoring: a heartbeat that turns monitoring on ...              *)
StartMonitoring(s, h, j) ==
  /\ session[s].pc = "new"
  /\ Free(h)
  /\ Coord!ClientHeartbeatRead(h, j)
  /\ switching' = switching \cup {h}
  /\ session' = [session EXCEPT ![s].pc = "monitoring", ![s].job = j, ![s].on = h]
  /\ UNCHANGED inbox

(* ... and, once it is answered, the loop.                                 *)
Monitoring(s) ==
  /\ session[s].pc = "monitoring"
  /\ task[session[s].on] = Coord!Idle
  /\ session' = [session EXCEPT ![s].pc = "attached", ![s].on = NoSlot, ![s].beats = TRUE]
  /\ Idling

(* job_attach looks at the status once, and then listens.                  *)
Attached(s) ==
  /\ session[s].pc = "attached"
  /\ IF Finished(session[s].job) THEN Finish(s, "zero") ELSE Goto(s, "streaming")
  /\ Idling

-----------------------------------------------------------------------------
(* Streaming.                                                              *)

(* The heartbeat loop posts; nothing in the session waits for it.          *)
Heartbeat(s, h) ==
  /\ session[s].beats
  /\ Free(h)
  /\ Coord!ClientHeartbeatRead(h, session[s].job)
  /\ switching' = switching \ {h}
  /\ UNCHANGED <<session, inbox>>

(* stream_and_wait ends with the first terminal status.  Another session    *)
(* that reads from the same transport may get the message, too, or not.     *)
ReceiveStatus(s, status) ==
  /\ session[s].pc = "streaming"
  /\ LET j == session[s].job
     IN  /\ status \in inbox[j]
         /\ \E left \in {inbox[j], inbox[j] \ {status}} : inbox' = [inbox EXCEPT ![j] = left]
  /\ Finish(s, CASE status = "completed" -> "zero"
                 [] status = "failed"    -> "nonzero"
                 [] OTHER                -> "interrupted")
  /\ UNCHANGED <<jobs, task, switching>>

(* Ctrl-C while it streams: the job is to be canceled, and the heartbeats  *)
(* go on until that is answered.                                           *)
Interrupt(s) ==
  /\ session[s].pc = "streaming"
  /\ Goto(s, "canceling")
  /\ Idling

(* A job that is over by then is not canceled: the refusal is printed.     *)
CancelJob(s, h) ==
  /\ session[s].pc = "canceling"
  /\ session[s].on = NoSlot
  /\ Free(h)
  /\ LET j == session[s].job
     IN  IF jobs[j].status \in Coord!Active
         THEN /\ Coord!CancelRead(h, j)
              /\ session' = [session EXCEPT ![s].on = h]
         ELSE Finish(s, "interrupted") /\ UNCHANGED <<jobs, task>>
  /\ UNCHANGED <<switching, inbox>>

Canceled(s) ==
  /\ session[s].pc = "canceling"
  /\ session[s].on # NoSlot
  /\ task[session[s].on] = Coord!Idle
  /\ Finish(s, "interrupted")
  /\ Idling

(* Ctrl-C anywhere else, or the process is killed.  What its transport had  *)
(* taken in for it is lost.                                                 *)
Leave(s) ==
  /\ session[s].pc \notin {"new", "done"}
  /\ Finish(s, "interrupted")
  /\ LET j == session[s].job
     IN  \E left \in {inbox[j], {}} : inbox' = [inbox EXCEPT ![j] = left]
  /\ UNCHANGED <<jobs, task, switching>>

(* An answer is lost, or a message is.                                      *)
AnswerLost(s) ==
  /\ session[s].pc \in {"submitted", "detaching", "monitoring", "attached"}
  /\ Finish(s, "nonzero")
  /\ Idling

MessageLost(j) ==
  /\ inbox[j] # {}
  /\ inbox' = [inbox EXCEPT ![j] = {}]
  /\ UNCHANGED <<jobs, task, session, switching>>

-----------------------------------------------------------------------------
(* The coordinator.                                                        *)

(* Mutants: a heartbeat turns monitoring off unless it says otherwise; it is *)
(* only stored.                                                             *)
AnswerHeartbeatOff(h)    == Coord!ClientHeartbeatWrite(h, IF h \in switching THEN "on" ELSE "off")
AnswerHeartbeatUntold(h) == Coord!ClientHeartbeatUnanswered(h, IF h \in switching THEN "on" ELSE "keep")

AnswerHeartbeat(h) == Coord!ClientHeartbeatWrite(h, IF h \in switching THEN "on" ELSE "keep")

ServeStep(h) ==
  /\ \/ Coord!Assignment(h)
     \/ Coord!AcceptWrite(h) \/ Coord!RejectWrite(h) \/ Coord!ReportWrite(h)
     \/ Coord!WorkerHeartbeatWrite(h) \/ Coord!CancelWrite(h) \/ AnswerHeartbeat(h)
     \/ Coord!Send(h)
  /\ UNCHANGED <<session, switching>>

WorkerCalls(h, j) ==
  /\ Free(h)
  /\ Coord!WorkerRequest(h, j)
  /\ UNCHANGED <<session, switching>>

-----------------------------------------------------------------------------
Init ==
  /\ jobs      = [j \in Jobs |-> Coord!AbsentRow]
  /\ task      = [h \in Handlers |-> Coord!Idle]
  /\ inbox     = [j \in Jobs |-> {}]
  /\ session   = [s \in Sessions |-> New]
  /\ switching = {}

(* What a session does by itself once it has begun. *)
SessionStep(s) == Submitted(s) \/ Monitoring(s) \/ Attached(s) \/ Canceled(s)

Receive(s) == \E status \in Terminal : ReceiveStatus(s, status)

Next ==
  \/ \E s \in Sessions :
       SessionStep(s) \/ Receive(s) \/ Interrupt(s) \/ Leave(s) \/ AnswerLost(s)
  \/ \E s \in Sessions, h \in Handlers :
       \/ Heartbeat(s, h) \/ CancelJob(s, h)
       \/ \E j \in Jobs : StartMonitoring(s, h, j)
                          \/ \E monitor \in BOOLEAN : SubmitJob(s, h, j, monitor)
  \/ \E h \in Handlers : ServeStep(h) \/ \E j \in Jobs : WorkerCalls(h, j)
  \/ \E j \in Jobs : MessageLost(j)

Spec == Init /\ [][Next]_vars

(* Coroutines run on.  The coordinator serves requests side by side, so a   *)
(* heartbeat is not starved by others; and of messages that are sent again  *)
(* and again, some arrive.                                                  *)
Fairness ==
  /\ \A h \in Handlers : WF_vars(ServeStep(h))
  /\ \A s \in Sessions : /\ WF_vars(SessionStep(s))
                         /\ SF_vars(Receive(s))
                         /\ SF_vars(\E h \in Handlers : Heartbeat(s, h))
                         /\ SF_vars(\E h \in Handlers : CancelJob(s, h))

FairSpec == Spec /\ Fairness

-----------------------------------------------------------------------------
TypeOK ==
  /\ Coord!TypeOK
  /\ session \in [Sessions -> SessionState]
  /\ \A s \in Sessions :
       /\ session[s].beats => session[s].pc \in {"attached", "streaming", "canceling"}
       /\ session[s].on # NoSlot => session[s].pc \in {"monitoring", "canceling"}
  /\ switching \subseteq Handlers

(* A job that a session follows is monitored, whoever submitted it and      *)
(* whichever heartbeats overlap: if the session vanishes, the janitor can    *)
(* tell.                                                                    *)
FollowedIsMonitored ==
  \A s \in Sessions :
    session[s].pc \in {"attached", "streaming", "canceling"} => jobs[session[s].job].monitor

(* A session that has begun ends once its job is over, whoever took the     *)
(* message that said so, and whether or not it was lost: its own heartbeats *)
(* make the coordinator say it again.                                       *)
SessionEnds ==
  \A s \in Sessions, j \in Jobs :
    (session[s].job = j /\ Finished(j)) ~> (Ended(s) \/ ~Finished(j))
=============================================================================
