----------------------------- MODULE JobRunner -----------------------------
(***************************************************************************)
(* The worker's runner of one job (dffmpeg.worker.job.JobRunner) with its  *)
(* subprocess (executor.py): the main task, the task that flushes the log, *)
(* the heartbeat task, and the calls of cancel and abort that the worker   *)
(* makes from tasks of its own.                                            *)
(*                                                                         *)
(* A task is suspended at an await, and a step takes it to the next.  To    *)
(* cancel a task is to have CancelledError thrown at the await it is at:   *)
(* it is not thrown at once, two calls throw it once, and a task that       *)
(* awaits another passes it on.  A request that is abandoned so may have    *)
(* arrived, may still arrive, or be lost.                                  *)
(***************************************************************************)
EXTENDS Integers, FiniteSets

CONSTANTS
  MaxAttempts,   \* attempts at a report; one in a fast shutdown
  BatchSize,     \* log_batch_size
  MaxLogs,       \* bound on the lines of output that are read or may be
  MaxSignals,    \* bound on calls of cancel and abort
  MaxFailures    \* bound on requests that fail or are refused

ASSUME RunnerAssumption ==
  /\ MaxAttempts \in Nat \ {0}
  /\ BatchSize \in Nat
  /\ MaxLogs \in Nat
  /\ MaxSignals \in Nat
  /\ MaxFailures \in Nat

VARIABLES
  main,        \* _main_task: its await, the branch of _run it is in, the
               \*   attempts it has left, its flush, a throw that is due
  flusher,     \* _log_flusher_task
  heartbeat,   \* _heartbeat_task
  process,     \* the subprocess
  log,         \* lines unread in the pipes of stdout and stderr, and their
               \*   readers; lines read, queued, in the buffer, stored (twice)
  net,         \* reports that arrived, those under way without a sender
  ctl          \* the flags of cancel and abort; history: the calls so far, and
               \*   whether abort was among them

vars == <<main, flusher, heartbeat, process, log, net, ctl>>

Outcomes == {"completed", "failed", "canceled"}
Lines    == 1 .. MaxLogs
Flushing == {"no", "lock", "post"}

MainTask == [ pc     : {"accept", "execute", "kill", "flush", "report", "backoff", "final",
                        "heartbeat", "flusher", "done"},
              mode   : {"normal", "canceled", "error"},
              left   : 1 .. MaxAttempts,
              flush  : Flushing,
              thrown : BOOLEAN ]

FlusherTask == [ pc     : {"wait", "collect", "flush", "last", "ended"},
                 flush  : Flushing,
                 thrown : BOOLEAN ]

Log == { l \in [ readers : 0 .. 2, unread : 0 .. MaxLogs, read : 0 .. MaxLogs,
                 queue : SUBSET Lines, buffer : SUBSET Lines, stored : SUBSET Lines,
                 twice : SUBSET Lines, event : BOOLEAN ] : l.read + l.unread <= MaxLogs }

-----------------------------------------------------------------------------
(* Flushing the log, by either task: the lock, then one request with all    *)
(* that is queued or was left over.                                        *)

Locked == main.flush = "post" \/ flusher.flush = "post"

Drained(l) == [l EXCEPT !.buffer = @ \cup l.queue, !.queue = {}]

(* The request arrives: insertion does not look for duplicates.            *)
Stored(l) == [l EXCEPT !.twice = @ \cup (l.buffer \cap l.stored), !.stored = @ \cup l.buffer]

Cleared(l) == [l EXCEPT !.buffer = {}]

(* After an exception the buffer is kept, but for its oldest entries.      *)
Cut(l) == [l EXCEPT !.buffer =
             {e \in @ : Cardinality({f \in l.buffer : f > e}) < BatchSize}]

(* Mutant: the buffer is not cleared. *)
AnsweredUncleared(l) == Stored(l)

(* What a flush leaves when its request was answered, or failed: an error   *)
(* status is not looked at.                                                *)
Answered(l) == Cleared(Stored(l))
FlushFailures(l) == {Cut(l), Cut(Stored(l)), Cleared(l)}

(* ... and when it was abandoned.                                          *)
FlushAbandoned(l, flush) == IF flush = "post" THEN {l, Stored(l)} ELSE {l}

Failed == net.failures < MaxFailures
Failure(n) == [n EXCEPT !.failures = @ + 1]

-----------------------------------------------------------------------------
(* Reports.                                                                *)

Verdict == CASE main.mode = "canceled" -> "canceled"
             [] main.mode = "error"    -> "failed"
             [] OTHER -> IF process = "zero" THEN "completed" ELSE "failed"

Arrived(n, s)  == [n EXCEPT !.arrived = @ \cup {s}]
Underway(n, s) == [n EXCEPT !.wire = @ \cup {s}]

Deliver(s) ==
  /\ s \in net.wire
  /\ net' = [Arrived(net, s) EXCEPT !.wire = @ \ {s}]
  /\ UNCHANGED <<main, flusher, heartbeat, process, log, ctl>>

-----------------------------------------------------------------------------
(* The main task, _run.                                                    *)

At(pc) == main.pc = pc /\ ~main.thrown

Going(pc, mode, left) ==
  [ pc |-> pc, mode |-> mode, left |-> left,
    flush |-> IF pc = "flush" THEN "lock" ELSE "no", thrown |-> FALSE ]

Goto(pc, mode) == Going(pc, mode, main.left)

(* A report starts with all of its attempts.                               *)
Reporting(mode, attempts) == Going("report", mode, attempts)

(* 1. accept: the answer is not looked at, an exception is.                *)
Accept ==
  /\ At("accept")
  /\ main' = Goto("execute", "normal")
  /\ heartbeat' = "on"
  /\ UNCHANGED <<flusher, process, log, net, ctl>>

AcceptFails ==
  /\ At("accept") /\ Failed
  /\ main' = Reporting("error", MaxAttempts)
  /\ net' = Failure(net)
  /\ UNCHANGED <<flusher, heartbeat, process, log, ctl>>

(* 2. execute: the subprocess is spawned, with a reader for each of its two *)
(* streams; it writes lines and exits.                                     *)
Spawn ==
  /\ At("execute") /\ process = "none"
  /\ process' = "running"
  /\ log' = [log EXCEPT !.readers = 2]
  /\ UNCHANGED <<main, flusher, heartbeat, net, ctl>>

SpawnFails ==
  /\ At("execute") /\ process = "none"
  /\ main' = Reporting("error", MaxAttempts)
  /\ UNCHANGED <<flusher, heartbeat, process, log, net, ctl>>

(* The process writes a line to a stream that is read.                     *)
Write ==
  /\ At("execute") /\ process = "running"
  /\ log.readers > 0
  /\ log.read + log.unread < MaxLogs
  /\ log' = [log EXCEPT !.unread = @ + 1]
  /\ UNCHANGED <<main, flusher, heartbeat, process, net, ctl>>

(* Mutant: the flusher is not told. *)
ReadUnannounced ==
  /\ At("execute") /\ process = "running" /\ log.unread > 0
  /\ log' = [log EXCEPT !.unread = @ - 1, !.read = @ + 1, !.queue = @ \cup {log.read + 1}]
  /\ UNCHANGED <<main, flusher, heartbeat, process, net, ctl>>

(* A reader takes a line, queues it for the flusher and tells it.  Lines    *)
(* are numbered in the order in which they are read.                       *)
Read ==
  /\ At("execute") /\ process = "running" /\ log.unread > 0
  /\ log' = [log EXCEPT !.unread = @ - 1, !.read = @ + 1, !.queue = @ \cup {log.read + 1},
                        !.event = TRUE]
  /\ UNCHANGED <<main, flusher, heartbeat, process, net, ctl>>

(* A line cannot be decoded or is too long: its reader ends, the process    *)
(* goes on.  With that line, all that was or will be written to the stream  *)
(* is lost, but not what the other stream has.                             *)
ReaderBreaks ==
  /\ At("execute") /\ process = "running" /\ log.readers > 0 /\ log.unread > 0
  /\ \E others \in 0 .. log.unread - 1 :
       /\ log.readers = 1 => others = 0
       /\ log' = [log EXCEPT !.readers = @ - 1, !.unread = others]
  /\ UNCHANGED <<main, flusher, heartbeat, process, net, ctl>>

(* The executor is left: what is unread now is lost.                       *)
Unread(l) == [l EXCEPT !.readers = 0, !.unread = 0]

(* The readers that are left have come to the end of their streams, and     *)
(* the process has exited.                                                 *)
Exit(code) ==
  /\ At("execute") /\ process = "running"
  /\ log.unread = 0
  /\ process' = code
  /\ main' = Goto("flush", "normal")
  /\ log' = Unread(log)
  /\ UNCHANGED <<flusher, heartbeat, net, ctl>>

(* Mutant: the process is not killed after the timeout. *)
TerminatedPerhaps ==
  /\ At("kill")
  /\ process' \in {"nonzero", "terminating"}
  /\ main' = Goto("flush", "canceled")
  /\ UNCHANGED <<flusher, heartbeat, log, net, ctl>>

(* The executor's finally: terminate was called; the process exits, or is   *)
(* killed after a timeout.                                                 *)
Terminated ==
  /\ At("kill")
  /\ process' = "nonzero"
  /\ main' = Goto("flush", "canceled")
  /\ UNCHANGED <<flusher, heartbeat, log, net, ctl>>

(* Mutant: a canceled run reports, silent or not. *)
FlushedReporting ==
  IF main.pc = "final" THEN Goto("heartbeat", main.mode)
  ELSE IF main.mode # "canceled" THEN Reporting("normal", MaxAttempts)
  ELSE Reporting("canceled", IF ctl.fast THEN 1 ELSE MaxAttempts)

(* 3. The log is flushed, then the outcome reported; a run that was aborted  *)
(* reports nothing.                                                        *)
Flushed ==
  IF main.pc = "final" THEN Goto("heartbeat", main.mode)
  ELSE IF main.mode # "canceled" THEN Reporting("normal", MaxAttempts)
  ELSE IF ctl.silent THEN Goto("final", "canceled")
  ELSE Reporting("canceled", IF ctl.fast THEN 1 ELSE MaxAttempts)

Report ==
  /\ At("report")
  /\ net' = Arrived(net, Verdict)
  /\ main' = Goto("final", main.mode)
  /\ UNCHANGED <<flusher, heartbeat, process, log, ctl>>

(* Mutants: one attempt too many; the exception leaves _report_status. *)
ReportFailsOnce ==
  /\ At("report") /\ Failed
  /\ net' \in {Failure(net), Failure(Arrived(net, Verdict)), Failure(Underway(net, Verdict))}
  /\ main' = Going("backoff", main.mode, main.left - 1)
  /\ UNCHANGED <<flusher, heartbeat, process, log, ctl>>

ReportFailsOut ==
  /\ At("report") /\ Failed
  /\ net' \in {Failure(net), Failure(Arrived(net, Verdict)), Failure(Underway(net, Verdict))}
  /\ main' = IF main.mode = "normal" THEN Reporting("error", MaxAttempts)
             ELSE Goto("final", main.mode)
  /\ UNCHANGED <<flusher, heartbeat, process, log, ctl>>

ReportFails ==
  /\ At("report") /\ Failed
  /\ net' \in {Failure(net), Failure(Arrived(net, Verdict)), Failure(Underway(net, Verdict))}
  /\ main' = IF main.left = 1 THEN Goto("final", main.mode)
             ELSE Going("backoff", main.mode, main.left - 1)
  /\ UNCHANGED <<flusher, heartbeat, process, log, ctl>>

Retry ==
  /\ At("backoff")
  /\ main' = Goto("report", main.mode)
  /\ UNCHANGED <<flusher, heartbeat, process, log, net, ctl>>

(* Mutant: the flusher is not stopped. *)
FinallyHeartbeatOnly ==
  /\ At("final") /\ main.flush = "no"
  /\ heartbeat' = IF heartbeat = "on" THEN "canceled" ELSE heartbeat
  /\ main' = [main EXCEPT !.flush = "lock"]
  /\ UNCHANGED <<flusher, process, log, net, ctl>>

(* 4. finally: the other tasks are canceled, the log is flushed once more,  *)
(* and then they are awaited.                                              *)
Finally ==
  /\ main.pc = "final" /\ main.flush = "no"
  /\ heartbeat' = IF heartbeat = "on" THEN "canceled" ELSE heartbeat
  /\ flusher' = [flusher EXCEPT !.thrown = flusher.pc # "ended"]
  /\ main' = [main EXCEPT !.flush = "lock"]
  /\ UNCHANGED <<process, log, net, ctl>>

JoinHeartbeat ==
  /\ main.pc = "heartbeat"
  /\ heartbeat \in {"off", "ended"}
  /\ main' = Goto("flusher", main.mode)
  /\ UNCHANGED <<flusher, heartbeat, process, log, net, ctl>>

JoinFlusher ==
  /\ main.pc = "flusher"
  /\ flusher.pc = "ended"
  /\ main' = Goto("done", main.mode)
  /\ UNCHANGED <<flusher, heartbeat, process, log, net, ctl>>

-----------------------------------------------------------------------------
(* CancelledError is thrown into the main task.                            *)

(* From the try it leads to the handler, whose first await is a flush; the  *)
(* executor drops its readers and terminates the process on the way.  From  *)
(* a handler it leads to the finally, and from the flush there, which       *)
(* swallows it, onwards.                                                   *)
Unwound ==
  CASE main.pc = "final" -> Goto("heartbeat", main.mode)
    [] main.pc # "final" /\ main.mode # "normal" -> Goto("final", main.mode)
    [] main.pc # "final" /\ main.mode = "normal" ->
         IF main.pc = "execute" /\ process = "running"
         THEN Goto("kill", "normal") ELSE Goto("flush", "canceled")

Throw ==
  /\ main.thrown
  /\ main.pc = "final" => main.flush # "no"
  /\ main' = Unwound
  /\ process' = IF main.pc = "execute" /\ process = "running" THEN "terminating" ELSE process
  /\ log' \in FlushAbandoned(IF main.pc = "execute" THEN Unread(log) ELSE log, main.flush)
  /\ net' \in IF main.pc = "report"
              THEN {net, Arrived(net, Verdict), Underway(net, Verdict)} ELSE {net}
  /\ UNCHANGED <<flusher, heartbeat, ctl>>

(* Only a task that is suspended is found at its await: a free lock does not *)
(* suspend.                                                                *)
Suspended ==
  /\ main.pc # "done"
  /\ main.pc = "final" => main.flush # "no"
  /\ main.flush = "lock" => Locked
  /\ main.pc = "flusher" /\ flusher.flush = "lock" => Locked

(* The worker calls cancel, cancel with fast_shutdown, or abort.  A main    *)
(* task that awaits the flusher passes the throw on; one that awaits the    *)
(* heartbeat task does, too, but that has been canceled already.           *)
Signal(kind) ==
  /\ Suspended
  /\ ctl.signals < MaxSignals
  /\ ctl' = [silent  |-> kind = "abort",
             fast    |-> IF kind = "abort" THEN ctl.fast ELSE kind = "fast",
             aborted |-> ctl.aborted \/ kind = "abort",
             signals |-> ctl.signals + 1]
  /\ main' = IF main.pc \in {"heartbeat", "flusher"} THEN main
             ELSE [main EXCEPT !.thrown = TRUE]
  /\ flusher' = IF main.pc = "flusher" /\ flusher.pc # "ended"
                THEN [flusher EXCEPT !.thrown = TRUE] ELSE flusher
  /\ UNCHANGED <<heartbeat, process, log, net>>

-----------------------------------------------------------------------------
(* The flush of the main task, step by step.                               *)

MainLock ==
  /\ main.flush = "lock" /\ ~main.thrown
  /\ ~Locked
  /\ log' = Drained(log)
  /\ main' = IF log'.buffer = {} THEN Flushed ELSE [main EXCEPT !.flush = "post"]
  /\ UNCHANGED <<flusher, heartbeat, process, net, ctl>>

MainPosted ==
  /\ main.flush = "post" /\ ~main.thrown
  /\ \/ log' = Answered(log) /\ UNCHANGED net
     \/ Failed /\ log' \in FlushFailures(log) /\ net' = Failure(net)
  /\ main' = Flushed
  /\ UNCHANGED <<flusher, heartbeat, process, ctl>>

-----------------------------------------------------------------------------
(* The flusher: waits for a line, collects more for a while, flushes; when   *)
(* it is canceled it flushes once more.                                    *)

Flusher(pc) ==
  [pc |-> pc, flush |-> IF pc \in {"flush", "last"} THEN "lock" ELSE "no", thrown |-> FALSE]

FlusherAt(pc) == flusher.pc = pc /\ ~flusher.thrown

FlusherWake ==
  /\ FlusherAt("wait") /\ log.event
  /\ log' = [log EXCEPT !.event = FALSE]
  /\ flusher' = Flusher("collect")
  /\ UNCHANGED <<main, heartbeat, process, net, ctl>>

(* Lines that came in while it collected may have left the event set.      *)
FlusherCollected ==
  /\ FlusherAt("collect")
  /\ \E event \in {log.event, FALSE} : log' = [log EXCEPT !.event = event]
  /\ flusher' = Flusher("flush")
  /\ UNCHANGED <<main, heartbeat, process, net, ctl>>

FlusherNext == Flusher(IF flusher.pc = "last" THEN "ended" ELSE "wait")

FlusherLock ==
  /\ flusher.flush = "lock" /\ ~flusher.thrown
  /\ ~Locked
  /\ log' = Drained(log)
  /\ flusher' = IF log'.buffer = {} THEN FlusherNext ELSE [flusher EXCEPT !.flush = "post"]
  /\ UNCHANGED <<main, heartbeat, process, net, ctl>>

FlusherPosted ==
  /\ flusher.flush = "post" /\ ~flusher.thrown
  /\ \/ log' = Answered(log) /\ UNCHANGED net
     \/ Failed /\ log' \in FlushFailures(log) /\ net' = Failure(net)
  /\ flusher' = FlusherNext
  /\ UNCHANGED <<main, heartbeat, process, ctl>>

(* Mutant: a canceled flusher just ends. *)
FlusherThrowEnds ==
  /\ flusher.thrown
  /\ log' \in FlushAbandoned(log, flusher.flush)
  /\ flusher' = Flusher("ended")
  /\ UNCHANGED <<main, heartbeat, process, net, ctl>>

FlusherThrow ==
  /\ flusher.thrown
  /\ log' \in FlushAbandoned(log, flusher.flush)
  /\ flusher' = Flusher(IF flusher.pc = "last" THEN "ended" ELSE "last")
  /\ UNCHANGED <<main, heartbeat, process, net, ctl>>

HeartbeatEnds ==
  /\ heartbeat = "canceled"
  /\ heartbeat' = "ended"
  /\ UNCHANGED <<main, flusher, process, log, net, ctl>>

-----------------------------------------------------------------------------
Init ==
  /\ main = [pc |-> "accept", mode |-> "normal", left |-> MaxAttempts,
             flush |-> "no", thrown |-> FALSE]
  /\ flusher = Flusher("wait")
  /\ heartbeat = "off"
  /\ process = "none"
  /\ log = [readers |-> 0, unread |-> 0, read |-> 0, queue |-> {}, buffer |-> {},
            stored |-> {}, twice |-> {}, event |-> FALSE]
  /\ net = [arrived |-> {}, wire |-> {}, failures |-> 0]
  /\ ctl = [silent |-> FALSE, fast |-> FALSE, aborted |-> FALSE, signals |-> 0]

MainStep ==
  \/ Accept
  \/ AcceptFails
  \/ Spawn
  \/ SpawnFails
  \/ Terminated
  \/ MainLock
  \/ MainPosted
  \/ Report
  \/ ReportFails
  \/ Retry
  \/ Finally
  \/ JoinHeartbeat
  \/ JoinFlusher
  \/ Throw

FlusherStep ==
  \/ FlusherWake
  \/ FlusherCollected
  \/ FlusherLock
  \/ FlusherPosted
  \/ FlusherThrow

Next ==
  \/ MainStep
  \/ Write
  \/ Read
  \/ ReaderBreaks
  \/ \E code \in {"zero", "nonzero"} : Exit(code)
  \/ FlusherStep
  \/ HeartbeatEnds
  \/ \E kind \in {"cancel", "fast", "abort"} : Signal(kind)
  \/ \E s \in Outcomes : Deliver(s)

Spec == Init /\ [][Next]_vars

(* Tasks that can run do; requests are answered or fail, and a process that *)
(* was told to exit does, or is killed.  Otherwise it may run for ever.     *)
Fairness == WF_vars(MainStep) /\ WF_vars(FlusherStep) /\ WF_vars(HeartbeatEnds)

FairSpec == Spec /\ Fairness

-----------------------------------------------------------------------------
TypeOK ==
  /\ main \in MainTask
  /\ flusher \in FlusherTask
  /\ heartbeat \in {"off", "on", "canceled", "ended"}
  /\ process \in {"none", "running", "terminating", "zero", "nonzero"}
  /\ log \in Log
  /\ net \in [arrived : SUBSET Outcomes, wire : SUBSET Outcomes, failures : 0 .. MaxFailures]
  /\ ctl \in [silent : BOOLEAN, fast : BOOLEAN, aborted : BOOLEAN,
              signals : 0 .. MaxSignals]

(* A runner that is done has no process left.  A second call can interrupt  *)
(* the wait for a terminated one, before it is killed: then it may live on. *)
ProcessIsStopped ==
  main.pc = "done" /\ ctl.signals <= 1 => process \in {"none", "zero", "nonzero"}

(* Unless a request failed, all lines that were read are stored when the    *)
(* runner is done, though either task may have been canceled in the middle  *)
(* of a flush: the flush of the handler, of the finally and of the flusher  *)
(* would all have to be interrupted.  Lines of a reader that broke, and     *)
(* those unread when the executor was canceled, have never been read.       *)
LogIsComplete ==
  main.pc = "done" /\ ctl.signals <= 3 /\ net.failures = 0 => log.stored = 1 .. log.read

(* The runner as the worker that keeps it sees it.  A report that is to be  *)
(* tried again is still being told; one that nobody waits for any more may  *)
(* still arrive.                                                           *)
Stage == CASE main.pc = "done"                     -> "none"
           [] main.pc # "done" /\ ctl.signals > 0 -> "stopping"
           [] main.pc # "done" /\ ctl.signals = 0 -> "active"

Alive  == IF process = "terminating" THEN "running" ELSE process
Saying == IF main.pc \in {"report", "backoff"} THEN Verdict ELSE "nothing"
Sent   == net.arrived \cup net.wire

Contract == INSTANCE Runner WITH
  job <- Stage, silent <- ctl.silent, again <- ctl.signals > 1, process <- Alive,
  saying <- Saying, said <- Sent, failed <- net.failures > 0

(* Whenever and however often it is told to stop, whatever is tried again   *)
(* and whatever arrives late: the runner spawns its process once, reports   *)
(* one outcome of it, the true one, before it is asked to stop, and after   *)
(* that only that it was canceled; and it goes when that is done.           *)
IsRunner == Contract!Spec

(* A line is stored twice only if a request was abandoned or failed.       *)
DuplicatesAreExplained ==
  ctl.signals = 0 /\ net.failures = 0 => log.twice = {}

(* While the last call was an abort, no report is begun.                   *)
AbortIsSilent ==
  [][ctl.silent /\ main'.pc = "report" => main.pc = "report"]_vars

(* A runner that was asked to stop is done some time.                      *)
StopsWhenAsked == ctl.signals > 0 ~> main.pc = "done"

(* Lines are not left in the queue: a flush takes all of them, though no    *)
(* later line wakes the flusher, and whatever is canceled meanwhile.       *)
LinesAreFlushed == log.queue # {} ~> log.queue = {}

(* job.py:83: "let the _run loop handle cleanup [...] if main task is        *)
(* cancelled, _run's finally block or exception handler should catch it":   *)
(* a run that was canceled, and never aborted, has reported so.             *)
CancelIsReported ==
  main.pc = "done" /\ main.mode = "canceled" /\ ~ctl.aborted /\ net.failures = 0 =>
    "canceled" \in Sent
=============================================================================
