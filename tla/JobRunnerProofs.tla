-------------------------- MODULE JobRunnerProofs --------------------------
(* Theorems about JobRunner, for any number of attempts, lines, calls of    *)
(* cancel and abort, and failures.                                         *)
EXTENDS JobRunner, FiniteSetTheorems, TLAPS

USE RunnerAssumption

Net == [arrived : SUBSET Outcomes, wire : SUBSET Outcomes, failures : 0 .. MaxFailures]

-----------------------------------------------------------------------------
(* The inductive invariant.                                                *)

(* The main task flushes where its code does; the lock is held by one task; *)
(* the flusher only sends what is there.                                   *)
FlushesInPlace ==
  /\ main.flush # "no" => main.pc \in {"flush", "final"}
  /\ flusher.flush = "post" => main.flush # "post" /\ log.buffer # {}

(* A run that was aborted, and not canceled since, is on its way out.       *)
AbortedIsUnwinding ==
  ctl.silent => \/ main.thrown
                \/ main.pc \in {"kill", "final", "heartbeat", "flusher", "done"}
                \/ main.pc = "flush" /\ main.mode = "canceled"

(* A run that nobody interrupted has tried nothing but its verdict.        *)
CalmIsPlain ==
  ctl.signals = 0 =>
    /\ ~main.thrown /\ main.mode # "canceled" /\ main.pc # "kill"
    /\ main.pc \in {"accept", "execute", "flush"} => main.mode = "normal" /\ Sent = {}
    /\ main.pc \in {"report", "backoff"} => Sent \subseteq {Verdict}
    /\ \E s \in Outcomes : Sent \subseteq {s}

(* A process is left only where the executor waits for it.                 *)
ProcessIsWatched ==
  /\ main.pc \in {"accept", "execute"} => main.mode = "normal"
  /\ ctl.signals <= 1 =>
       /\ process = "running" => main.pc = "execute"
       /\ process = "terminating" => main.pc = "kill" /\ ~main.thrown /\ ctl.signals = 1

(* A line is in one place, and in none but the table when the main task     *)
(* has flushed the log.                                                    *)
LinesAreApart ==
  /\ process = "none" => log.read = 0
  /\ log.queue \cup log.buffer \cup log.stored \subseteq 1 .. log.read
  /\ ctl.signals = 0 /\ net.failures = 0 =>
       /\ log.twice = {}
       /\ log.queue \cap log.buffer = {}
       /\ log.stored \cap (log.queue \cup log.buffer) = {}
       /\ main.flush = "post" => log.queue = {}
       /\ main.pc \in {"report", "backoff", "final", "heartbeat", "flusher", "done"} =>
            log.queue = {} /\ log.buffer = {}
       /\ flusher.thrown => main.pc \in {"final", "heartbeat", "flusher", "done"}

IInv ==
  /\ TypeOK
  /\ FlushesInPlace
  /\ AbortedIsUnwinding
  /\ CalmIsPlain
  /\ ProcessIsWatched
  /\ LinesAreApart

-----------------------------------------------------------------------------
(* The log.                                                                *)

LEMMA DrainedType ==
  ASSUME NEW l \in Log
  PROVE  /\ Drained(l) \in Log
         /\ Drained(l).buffer = l.buffer \cup l.queue
         /\ Drained(l).queue = {}
         /\ Drained(l).stored = l.stored
         /\ Drained(l).twice = l.twice
         /\ Drained(l).read = l.read
<1> DEFINE l1 == [l EXCEPT !.buffer = @ \cup l.queue]
           l2 == [l1 EXCEPT !.queue = {}]
<1>1. Drained(l) = l2
  BY Zenon DEF Drained
<1>2. /\ l1 \in Log /\ l1.buffer = l.buffer \cup l.queue
      /\ l1.stored = l.stored /\ l1.twice = l.twice /\ l1.read = l.read
  BY DEF Log
<1> HIDE DEF l1
<1>3. /\ l2 \in Log /\ l2.buffer = l1.buffer /\ l2.queue = {}
      /\ l2.stored = l1.stored /\ l2.twice = l1.twice /\ l2.read = l1.read
  BY <1>2 DEF Log
<1> HIDE DEF l2
<1> QED
  BY <1>1, <1>2, <1>3

LEMMA StoredType ==
  ASSUME NEW l \in Log
  PROVE  /\ Stored(l) \in Log
         /\ Stored(l).buffer = l.buffer
         /\ Stored(l).queue = l.queue
         /\ Stored(l).stored = l.stored \cup l.buffer
         /\ Stored(l).twice = l.twice \cup (l.buffer \cap l.stored)
         /\ Stored(l).read = l.read
<1> DEFINE l1 == [l EXCEPT !.twice = @ \cup (l.buffer \cap l.stored)]
           l2 == [l1 EXCEPT !.stored = @ \cup l.buffer]
<1>1. Stored(l) = l2
  BY Zenon DEF Stored
<1>2. /\ l1 \in Log /\ l1.twice = l.twice \cup (l.buffer \cap l.stored)
      /\ l1.stored = l.stored /\ l1.buffer = l.buffer /\ l1.queue = l.queue
      /\ l1.read = l.read
  BY DEF Log
<1> HIDE DEF l1
<1>3. /\ l2 \in Log /\ l2.buffer = l1.buffer /\ l2.queue = l1.queue
      /\ l2.stored = l1.stored \cup l.buffer /\ l2.twice = l1.twice /\ l2.read = l1.read
  BY <1>2 DEF Log
<1> HIDE DEF l2
<1> QED
  BY <1>1, <1>2, <1>3

LEMMA ClearedType ==
  ASSUME NEW l \in Log
  PROVE  /\ Cleared(l) \in Log
         /\ Cleared(l).buffer = {}
         /\ Cleared(l).queue = l.queue
         /\ Cleared(l).stored = l.stored
         /\ Cleared(l).twice = l.twice
         /\ Cleared(l).read = l.read
  BY DEF Cleared, Log

LEMMA CutType ==
  ASSUME NEW l \in Log
  PROVE  /\ Cut(l) \in Log
         /\ Cut(l).buffer \subseteq l.buffer
         /\ Cut(l).queue = l.queue
         /\ Cut(l).stored = l.stored
         /\ Cut(l).read = l.read
<1> DEFINE kept == {e \in l.buffer : Cardinality({f \in l.buffer : f > e}) < BatchSize}
<1>1. kept \subseteq l.buffer
  OBVIOUS
<1>2. Cut(l) = [l EXCEPT !.buffer = kept]
  BY Zenon DEF Cut
<1> HIDE DEF kept
<1> QED
  BY <1>1, <1>2 DEF Log

LEMMA AnsweredType ==
  ASSUME NEW l \in Log
  PROVE  /\ Answered(l) \in Log
         /\ Answered(l).buffer = {}
         /\ Answered(l).queue = l.queue
         /\ Answered(l).stored = l.stored \cup l.buffer
         /\ Answered(l).twice = l.twice \cup (l.buffer \cap l.stored)
         /\ Answered(l).read = l.read
<1> DEFINE s == Stored(l)
<1>1. s \in Log /\ Answered(l) = Cleared(s)
  BY StoredType DEF Answered
<1>2. /\ s.queue = l.queue /\ s.stored = l.stored \cup l.buffer
      /\ s.twice = l.twice \cup (l.buffer \cap l.stored) /\ s.read = l.read
  BY StoredType
<1> HIDE DEF s
<1> QED
  BY <1>1, <1>2, ClearedType

LEMMA FlushType ==
  ASSUME NEW l \in Log, NEW flush
  PROVE  /\ FlushFailures(l) \subseteq Log /\ FlushAbandoned(l, flush) \subseteq Log
         /\ \A k \in FlushFailures(l) \cup FlushAbandoned(l, flush) :
              /\ k.queue = l.queue /\ k.read = l.read
              /\ k.buffer \subseteq l.buffer
              /\ k.stored \subseteq l.stored \cup l.buffer
  BY StoredType, ClearedType, CutType DEF FlushFailures, FlushAbandoned

-----------------------------------------------------------------------------
(* The main task and its reports.                                          *)

LEMMA GoingType ==
  ASSUME NEW pc, NEW mode, NEW left
  PROVE  /\ Going(pc, mode, left).pc = pc
         /\ Going(pc, mode, left).mode = mode
         /\ Going(pc, mode, left).left = left
         /\ Going(pc, mode, left).flush = IF pc = "flush" THEN "lock" ELSE "no"
         /\ ~Going(pc, mode, left).thrown
         /\ /\ pc \in {"accept", "execute", "kill", "flush", "report", "backoff", "final",
                       "heartbeat", "flusher", "done"}
            /\ mode \in {"normal", "canceled", "error"}
            /\ left \in 1 .. MaxAttempts
            => Going(pc, mode, left) \in MainTask
  BY DEF Going, MainTask, Flushing

LEMMA FlusherType ==
  ASSUME NEW pc
  PROVE  /\ Flusher(pc).pc = pc
         /\ Flusher(pc).flush = IF pc \in {"flush", "last"} THEN "lock" ELSE "no"
         /\ ~Flusher(pc).thrown
         /\ pc \in {"wait", "collect", "flush", "last", "ended"} => Flusher(pc) \in FlusherTask
  BY DEF Flusher, FlusherTask, Flushing

LEMMA ArrivedType ==
  ASSUME NEW n \in Net, NEW s \in Outcomes
  PROVE  /\ Arrived(n, s) \in Net /\ Arrived(n, s).arrived = n.arrived \cup {s}
         /\ Arrived(n, s).wire = n.wire /\ Arrived(n, s).failures = n.failures
         /\ Underway(n, s) \in Net /\ Underway(n, s).wire = n.wire \cup {s}
         /\ Underway(n, s).arrived = n.arrived /\ Underway(n, s).failures = n.failures
  BY DEF Arrived, Underway, Net

LEMMA FailureType ==
  ASSUME NEW n \in Net, n.failures < MaxFailures
  PROVE  /\ Failure(n) \in Net /\ Failure(n).failures = n.failures + 1
         /\ Failure(n).arrived = n.arrived /\ Failure(n).wire = n.wire
  BY DEF Failure, Net

LEMMA VerdictType == Verdict \in Outcomes
  BY DEF Verdict, Outcomes

-----------------------------------------------------------------------------
(* Types.                                                                  *)

LEMMA Typed ==
  ASSUME TypeOK
  PROVE  /\ main \in MainTask /\ flusher \in FlusherTask /\ log \in Log /\ net \in Net
         /\ main.mode \in {"normal", "canceled", "error"}
         /\ main.left \in 1 .. MaxAttempts
         /\ net.failures \in 0 .. MaxFailures
  BY DEF TypeOK, MainTask, Net

LEMMA ReportingType ==
  ASSUME TypeOK, NEW mode \in {"normal", "canceled", "error"}
  PROVE  /\ Reporting(mode, MaxAttempts) \in MainTask /\ Reporting(mode, 1) \in MainTask
         /\ main.left # 1 => Going("backoff", mode, main.left - 1) \in MainTask
<1>1. MaxAttempts \in 1 .. MaxAttempts /\ 1 \in 1 .. MaxAttempts
  OBVIOUS
<1>2. main.left # 1 => main.left - 1 \in 1 .. MaxAttempts
  BY Typed
<1>3. /\ Going("report", mode, MaxAttempts) \in MainTask
      /\ Going("report", mode, 1) \in MainTask
  BY <1>1, GoingType
<1>4. ASSUME main.left # 1 PROVE Going("backoff", mode, main.left - 1) \in MainTask
  <2> DEFINE left == main.left - 1
  <2>1. left \in 1 .. MaxAttempts
    BY <1>2, <1>4
  <2> HIDE DEF left
  <2>2. Going("backoff", mode, left) \in MainTask
    BY <2>1, GoingType
  <2> QED
    BY <2>2 DEF left
<1> QED
  BY <1>3, <1>4 DEF Reporting

LEMMA UnwoundType ==
  ASSUME TypeOK
  PROVE  Unwound \in MainTask
<1>1. /\ Goto("heartbeat", main.mode) \in MainTask
      /\ Goto("final", main.mode) \in MainTask
      /\ Goto("kill", "normal") \in MainTask
      /\ Goto("flush", "canceled") \in MainTask
  BY Typed, GoingType DEF Goto
<1> QED
  BY <1>1 DEF Unwound

LEMMA ReadType ==
  ASSUME TypeOK, Read
  PROVE  /\ log' \in Log
         /\ log'.read = log.read + 1
         /\ log'.queue = log.queue \cup {log.read + 1}
         /\ log'.buffer = log.buffer /\ log'.stored = log.stored /\ log'.twice = log.twice
<1> DEFINE line == log.read + 1
           l0 == [log EXCEPT !.unread = @ - 1]
           l1 == [l0 EXCEPT !.read = line]
           l2 == [l1 EXCEPT !.queue = @ \cup {line}]
           l3 == [l2 EXCEPT !.event = TRUE]
<1>1. /\ log \in Log /\ log.unread > 0
      /\ line \in Lines /\ line \in 0 .. MaxLogs /\ line + (log.unread - 1) <= MaxLogs
  BY Typed DEF Read, Log, Lines
<1>2. log' = l3
  BY Zenon DEF Read
<1>3. /\ l0 \in Log /\ l0.unread = log.unread - 1 /\ l0.read = log.read
      /\ l0.queue = log.queue /\ l0.buffer = log.buffer /\ l0.stored = log.stored
      /\ l0.twice = log.twice
  BY <1>1 DEF Log
<1> HIDE DEF line, l0
<1>4. /\ l1 \in Log /\ l1.read = line /\ l1.queue = log.queue
      /\ l1.buffer = log.buffer /\ l1.stored = log.stored /\ l1.twice = log.twice
  BY <1>1, <1>3 DEF Log
<1> HIDE DEF l1
<1>5. /\ l2 \in Log /\ l2.read = line /\ l2.queue = log.queue \cup {line}
      /\ l2.buffer = log.buffer /\ l2.stored = log.stored /\ l2.twice = log.twice
  BY <1>1, <1>4 DEF Log
<1> HIDE DEF l2
<1>6. /\ l3 \in Log /\ l3.read = line /\ l3.queue = log.queue \cup {line}
      /\ l3.buffer = log.buffer /\ l3.stored = log.stored /\ l3.twice = log.twice
  BY <1>5 DEF Log
<1> HIDE DEF l3
<1> QED
  BY <1>2, <1>6 DEF line

(* Readers that come, break or are dropped touch no line that has been      *)
(* read.                                                                   *)
SameLines(l, k) ==
  /\ k \in Log
  /\ k.read = l.read /\ k.queue = l.queue /\ k.buffer = l.buffer
  /\ k.stored = l.stored /\ k.twice = l.twice

LEMMA UnreadType ==
  ASSUME NEW l \in Log
  PROVE  SameLines(l, Unread(l)) /\ SameLines(l, [l EXCEPT !.readers = 2])
<1> DEFINE l1 == [l EXCEPT !.readers = 0]
           l2 == [l1 EXCEPT !.unread = 0]
<1>1. Unread(l) = l2
  BY Zenon DEF Unread
<1>2. SameLines(l, l1) /\ SameLines(l, [l EXCEPT !.readers = 2])
  BY DEF Log, SameLines
<1> HIDE DEF l1
<1>3. SameLines(l1, l2)
  BY <1>2 DEF Log, SameLines
<1> QED
  BY <1>1, <1>2, <1>3 DEF SameLines

LEMMA EventType ==
  ASSUME TypeOK, FlusherWake \/ FlusherCollected
  PROVE  log' \in Log /\ log'.queue = log.queue /\ log'.buffer = log.buffer
<1>1. PICK event \in BOOLEAN : log' = [log EXCEPT !.event = event]
  <2>1. log.event \in BOOLEAN
    BY Typed DEF Log
  <2> QED
    BY <2>1 DEF FlusherWake, FlusherCollected
<1> QED
  BY <1>1, Typed DEF Log

LEMMA ReadersKeep ==
  ASSUME TypeOK,
         Spawn \/ Write \/ ReaderBreaks \/ \E code \in {"zero", "nonzero"} : Exit(code)
  PROVE  /\ log' \in Log
         /\ log'.read = log.read /\ log'.queue = log.queue /\ log'.buffer = log.buffer
         /\ log'.stored = log.stored /\ log'.twice = log.twice
<1>1. CASE Spawn \/ \E code \in {"zero", "nonzero"} : Exit(code)
  BY <1>1, Typed, UnreadType DEF Spawn, Exit, SameLines
<1>2. CASE Write
  <2>1. log \in Log /\ log.read + log.unread < MaxLogs /\ log' = [log EXCEPT !.unread = @ + 1]
    BY <1>2, Typed DEF Write
  <2> QED
    BY <2>1 DEF Log
<1>3. CASE ReaderBreaks
  <2>1. PICK others \in 0 .. log.unread - 1 :
          log' = [log EXCEPT !.readers = @ - 1, !.unread = others]
    BY <1>3 DEF ReaderBreaks
  <2> DEFINE l1 == [log EXCEPT !.readers = @ - 1]
             l2 == [l1 EXCEPT !.unread = others]
  <2>2. log' = l2
    BY <2>1, Zenon
  <2>3. log \in Log /\ log.readers > 0
    BY <1>3, Typed DEF ReaderBreaks
  <2>4. SameLines(log, l1) /\ l1.unread = log.unread
    BY <2>3 DEF Log, SameLines
  <2> HIDE DEF l1
  <2>5. SameLines(l1, l2)
    BY <2>4 DEF Log, SameLines
  <2> QED
    BY <2>2, <2>4, <2>5 DEF SameLines
<1> QED
  BY <1>1, <1>2, <1>3

LEMMA ThrowType ==
  ASSUME TypeOK, Throw
  PROVE  /\ log' \in Log
         /\ log'.read = log.read /\ log'.queue = log.queue /\ log'.buffer = log.buffer
         /\ log'.stored \in {log.stored, log.stored \cup log.buffer}
<1> DEFINE l == IF main.pc = "execute" THEN Unread(log) ELSE log
<1>1. SameLines(log, l)
  BY Typed, UnreadType DEF SameLines
<1>2. log' \in FlushAbandoned(l, main.flush)
  BY DEF Throw
<1> HIDE DEF l
<1>3. log' \in {l, Stored(l)}
  BY <1>2 DEF FlushAbandoned
<1> QED
  BY <1>1, <1>3, StoredType DEF SameLines

LEMMA FlushedType ==
  ASSUME TypeOK
  PROVE  Flushed \in MainTask
<1>1. Goto("heartbeat", main.mode) \in MainTask /\ Goto("final", "canceled") \in MainTask
  BY Typed, GoingType DEF Goto
<1> QED
  BY <1>1, ReportingType DEF Flushed

LEMMA TypeStep ==
  ASSUME TypeOK, [Next]_vars
  PROVE  TypeOK'
<1>1. CASE Accept
  BY <1>1, Typed, GoingType DEF TypeOK, Accept, Goto
<1>2. CASE AcceptFails
  BY <1>2, Typed, ReportingType, FailureType DEF TypeOK, Net, AcceptFails, Failed
<1>3. CASE Spawn
  BY <1>3, ReadersKeep DEF TypeOK, Spawn
<1>4. CASE SpawnFails
  BY <1>4, ReportingType DEF TypeOK, SpawnFails
<1>5. CASE Terminated
  BY <1>5, Typed, GoingType DEF TypeOK, Terminated, Goto
<1>6. CASE MainLock
  BY <1>6, Typed, FlushedType, DrainedType DEF TypeOK, MainLock, MainTask, Flushing
<1>7. CASE MainPosted
  BY <1>7, Typed, FlushedType, AnsweredType, FlushType, FailureType DEF TypeOK, Net, MainPosted, Failed
<1>8. CASE Report
  BY <1>8, Typed, GoingType, VerdictType, ArrivedType DEF TypeOK, Net, Report, Goto
<1>9. CASE ReportFails
  <2>1. Arrived(net, Verdict) \in Net /\ Arrived(net, Verdict).failures = net.failures
    BY Typed, VerdictType, ArrivedType
  <2>2. Underway(net, Verdict) \in Net /\ Underway(net, Verdict).failures = net.failures
    BY Typed, VerdictType, ArrivedType
  <2>3. net' \in Net
    BY <1>9, <2>1, <2>2, Typed, FailureType DEF ReportFails, Failed
  <2>4. main' \in MainTask
    BY <1>9, Typed, ReportingType, GoingType DEF ReportFails, Goto
  <2> QED
    BY <1>9, <2>3, <2>4 DEF TypeOK, Net, ReportFails
<1>10. CASE Retry
  BY <1>10, Typed, GoingType DEF TypeOK, Retry, Goto
<1>11. CASE Finally
  BY <1>11 DEF TypeOK, Finally, MainTask, FlusherTask, Flushing
<1>12. CASE JoinHeartbeat
  BY <1>12, Typed, GoingType DEF TypeOK, JoinHeartbeat, Goto
<1>13. CASE JoinFlusher
  BY <1>13, Typed, GoingType DEF TypeOK, JoinFlusher, Goto
<1>14. CASE Throw
  <2>1. main' \in MainTask
    BY <1>14, UnwoundType DEF Throw
  <2>2. net' \in Net
    BY <1>14, Typed, VerdictType, ArrivedType DEF Throw
  <2>3. log' \in Log
    BY <1>14, ThrowType
  <2> QED
    BY <1>14, <2>1, <2>2, <2>3 DEF TypeOK, Net, Throw
<1>15. CASE Write \/ ReaderBreaks
  BY <1>15, ReadersKeep DEF TypeOK, Write, ReaderBreaks
<1>26. CASE Read
  BY <1>26, ReadType DEF TypeOK, Read
<1>16. CASE FlusherWake
  BY <1>16, FlusherType, EventType DEF TypeOK, FlusherWake
<1>17. CASE FlusherCollected
  BY <1>17, FlusherType, EventType DEF TypeOK, FlusherCollected
<1>18. CASE FlusherLock
  BY <1>18, Typed, FlusherType, DrainedType DEF TypeOK, FlusherLock, FlusherNext, FlusherTask, Flushing
<1>19. CASE FlusherPosted
  <2>1. flusher' \in FlusherTask
    BY <1>19, Typed, FlusherType DEF FlusherPosted, FlusherNext
  <2>2. log' \in Log /\ net' \in Net
    BY <1>19, Typed, AnsweredType, FlushType, FailureType DEF FlusherPosted, Failed
  <2> QED
    BY <1>19, <2>1, <2>2 DEF TypeOK, Net, FlusherPosted
<1>20. CASE FlusherThrow
  BY <1>20, Typed, FlusherType, FlushType DEF TypeOK, FlusherThrow
<1>21. CASE HeartbeatEnds
  BY <1>21 DEF TypeOK, HeartbeatEnds
<1>22. ASSUME NEW code \in {"zero", "nonzero"}, Exit(code) PROVE TypeOK'
  BY <1>22, ReadersKeep, Typed, GoingType DEF TypeOK, Exit, Goto
<1>23. ASSUME NEW kind \in {"cancel", "fast", "abort"}, Signal(kind) PROVE TypeOK'
  <2>1. main' \in MainTask /\ flusher' \in FlusherTask
    BY <1>23 DEF TypeOK, Signal, MainTask, FlusherTask
  <2>2. ctl.fast \in BOOLEAN /\ ctl.aborted \in BOOLEAN /\ ctl.signals + 1 \in 0 .. MaxSignals
    BY <1>23 DEF TypeOK, Signal
  <2>3. (kind = "abort") \in BOOLEAN /\ (kind = "fast") \in BOOLEAN
    OBVIOUS
  <2>4. /\ (IF kind = "abort" THEN ctl.fast ELSE kind = "fast") \in BOOLEAN
        /\ (ctl.aborted \/ kind = "abort") \in BOOLEAN
    BY <2>2, Zenon
  <2>5. ctl' \in [silent : BOOLEAN, fast : BOOLEAN, aborted : BOOLEAN, signals : 0 .. MaxSignals]
    BY <1>23, <2>2, <2>3, <2>4, Zenon DEF Signal
  <2> QED
    BY <1>23, <2>1, <2>5 DEF TypeOK, Signal
<1>24. ASSUME NEW s \in Outcomes, Deliver(s) PROVE TypeOK'
  BY <1>24, Typed, ArrivedType DEF TypeOK, Net, Deliver
<1>25. CASE UNCHANGED vars
  BY <1>25 DEF vars, TypeOK
<1> QED
  BY <1>1, <1>2, <1>3, <1>4, <1>5, <1>6, <1>7, <1>8, <1>9, <1>10, <1>11, <1>12, <1>13,
     <1>14, <1>15, <1>16, <1>17, <1>18, <1>19, <1>20, <1>21, <1>22, <1>23, <1>24, <1>25, <1>26
     DEF Next, MainStep, FlusherStep

-----------------------------------------------------------------------------
(* Where the main task goes.                                               *)

LEMMA ResumedFields ==
  ASSUME NEW pc, NEW mode, NEW attempts
  PROVE  /\ Goto(pc, mode).pc = pc /\ Goto(pc, mode).mode = mode /\ ~Goto(pc, mode).thrown
         /\ Goto(pc, mode).flush = IF pc = "flush" THEN "lock" ELSE "no"
         /\ Reporting(mode, attempts).pc = "report" /\ Reporting(mode, attempts).mode = mode
         /\ ~Reporting(mode, attempts).thrown /\ Reporting(mode, attempts).flush = "no"
         /\ Going("backoff", mode, attempts).pc = "backoff"
         /\ Going("backoff", mode, attempts).mode = mode
         /\ ~Going("backoff", mode, attempts).thrown
         /\ Going("backoff", mode, attempts).flush = "no"
<1>1. /\ Goto(pc, mode) = Going(pc, mode, main.left)
      /\ Reporting(mode, attempts) = Going("report", mode, attempts)
  BY DEF Goto, Reporting
<1>2. /\ Goto(pc, mode).pc = pc /\ Goto(pc, mode).mode = mode /\ ~Goto(pc, mode).thrown
      /\ Goto(pc, mode).flush = IF pc = "flush" THEN "lock" ELSE "no"
  BY <1>1, GoingType
<1>3. /\ Reporting(mode, attempts).pc = "report" /\ Reporting(mode, attempts).mode = mode
      /\ ~Reporting(mode, attempts).thrown /\ Reporting(mode, attempts).flush = "no"
  BY <1>1, GoingType
<1> QED
  BY <1>2, <1>3, GoingType

LEMMA FlushedFields ==
  /\ Flushed.flush = "no" /\ ~Flushed.thrown
  /\ main.pc = "final" => Flushed.pc = "heartbeat" /\ Flushed.mode = main.mode
  /\ main.pc # "final" /\ main.mode = "canceled" =>
       /\ Flushed.mode = "canceled"
       /\ Flushed.pc = IF ctl.silent THEN "final" ELSE "report"
  /\ main.pc # "final" /\ main.mode # "canceled" =>
       Flushed.mode = "normal" /\ Flushed.pc = "report"
<1>1. CASE main.pc = "final"
  BY <1>1, ResumedFields DEF Flushed
<1>2. CASE main.pc # "final" /\ main.mode = "canceled" /\ ctl.silent
  BY <1>2, ResumedFields DEF Flushed
<1>3. CASE main.pc # "final" /\ main.mode = "canceled" /\ ~ctl.silent
  <2> DEFINE attempts == IF ctl.fast THEN 1 ELSE MaxAttempts
  <2>1. Flushed = Reporting("canceled", attempts)
    BY <1>3 DEF Flushed
  <2> HIDE DEF attempts
  <2> QED
    BY <1>3, <2>1, ResumedFields
<1>4. CASE main.pc # "final" /\ main.mode # "canceled"
  BY <1>4, ResumedFields DEF Flushed
<1> QED
  BY <1>1, <1>2, <1>3, <1>4

LEMMA UnwoundFields ==
  /\ ~Unwound.thrown /\ Unwound.flush # "post"
  /\ Unwound.flush # "no" => Unwound.pc = "flush"
  /\ Unwound.pc \in {"heartbeat", "final", "kill", "flush"}
  /\ Unwound.pc = "flush" => Unwound.mode = "canceled"
  /\ main.pc = "execute" /\ main.mode = "normal" /\ process = "running" => Unwound.pc = "kill"
  BY ResumedFields DEF Unwound

LEMMA FlushesStep ==
  ASSUME IInv, [Next]_vars
  PROVE  FlushesInPlace'
<1>1. CASE Accept
  BY <1>1, ResumedFields DEF IInv, FlushesInPlace, Accept, At
<1>2. CASE AcceptFails
  BY <1>2, ResumedFields DEF IInv, FlushesInPlace, AcceptFails, At
<1>3. CASE Spawn
  BY <1>3, ReadersKeep DEF IInv, FlushesInPlace, Spawn, At
<1>4. CASE SpawnFails
  BY <1>4, ResumedFields DEF IInv, FlushesInPlace, SpawnFails, At
<1>5. CASE Terminated
  BY <1>5, ResumedFields DEF IInv, FlushesInPlace, Terminated, At
<1>6. CASE MainLock
  BY <1>6, FlushedFields, Typed DEF IInv, FlushesInPlace, MainLock, Locked, MainTask, TypeOK
<1>7. CASE MainPosted
  BY <1>7, FlushedFields, Typed DEF IInv, FlushesInPlace, MainPosted
<1>8. CASE Report
  BY <1>8, ResumedFields DEF IInv, FlushesInPlace, Report, At
<1>9. CASE ReportFails
  BY <1>9, ResumedFields DEF IInv, FlushesInPlace, ReportFails, At
<1>10. CASE Retry
  BY <1>10, ResumedFields DEF IInv, FlushesInPlace, Retry, At
<1>11. CASE Finally
  BY <1>11 DEF IInv, FlushesInPlace, Finally, TypeOK, MainTask, FlusherTask
<1>12. CASE JoinHeartbeat
  BY <1>12, ResumedFields DEF IInv, FlushesInPlace, JoinHeartbeat
<1>13. CASE JoinFlusher
  BY <1>13, ResumedFields DEF IInv, FlushesInPlace, JoinFlusher
<1>14. CASE Throw
  BY <1>14, UnwoundFields, ThrowType DEF IInv, FlushesInPlace, Throw
<1>15. CASE Write \/ ReaderBreaks
  BY <1>15, ReadersKeep DEF IInv, FlushesInPlace, Write, ReaderBreaks, At, TypeOK, Log
<1>26. CASE Read
  BY <1>26, ReadType DEF IInv, FlushesInPlace, Read, At, TypeOK, Log
<1>16. CASE FlusherWake
  BY <1>16, EventType, FlusherType DEF IInv, FlushesInPlace, FlusherWake
<1>17. CASE FlusherCollected
  BY <1>17, EventType, FlusherType DEF IInv, FlushesInPlace, FlusherCollected
<1>18. CASE FlusherLock
  BY <1>18, Typed, FlusherType DEF IInv, FlushesInPlace, FlusherLock, Locked, FlusherNext, TypeOK, FlusherTask
<1>19. CASE FlusherPosted
  BY <1>19, Typed, FlusherType DEF IInv, FlushesInPlace, FlusherPosted, FlusherNext
<1>20. CASE FlusherThrow
  BY <1>20, Typed, FlusherType DEF IInv, FlushesInPlace, FlusherThrow
<1>21. CASE HeartbeatEnds
  BY <1>21 DEF IInv, FlushesInPlace, HeartbeatEnds
<1>22. ASSUME NEW code \in {"zero", "nonzero"}, Exit(code) PROVE FlushesInPlace'
  BY <1>22, ReadersKeep, ResumedFields DEF IInv, FlushesInPlace, Exit, At
<1>23. ASSUME NEW kind \in {"cancel", "fast", "abort"}, Signal(kind) PROVE FlushesInPlace'
  BY <1>23 DEF IInv, FlushesInPlace, Signal, TypeOK, MainTask, FlusherTask
<1>24. ASSUME NEW s \in Outcomes, Deliver(s) PROVE FlushesInPlace'
  BY <1>24 DEF IInv, FlushesInPlace, Deliver
<1>25. CASE UNCHANGED vars
  BY <1>25 DEF vars, IInv, FlushesInPlace
<1> QED
  BY <1>1, <1>2, <1>3, <1>4, <1>5, <1>6, <1>7, <1>8, <1>9, <1>10, <1>11, <1>12, <1>13,
     <1>14, <1>15, <1>16, <1>17, <1>18, <1>19, <1>20, <1>21, <1>22, <1>23, <1>24, <1>25, <1>26
     DEF Next, MainStep, FlusherStep

LEMMA AbortedStep ==
  ASSUME IInv, [Next]_vars
  PROVE  AbortedIsUnwinding'
<1>1. CASE Accept
  BY <1>1, ResumedFields DEF IInv, AbortedIsUnwinding, Accept, At
<1>2. CASE AcceptFails
  BY <1>2, ResumedFields DEF IInv, AbortedIsUnwinding, AcceptFails, At
<1>3. CASE Spawn
  BY <1>3, ReadersKeep DEF IInv, AbortedIsUnwinding, Spawn, At
<1>4. CASE SpawnFails
  BY <1>4, ResumedFields DEF IInv, AbortedIsUnwinding, SpawnFails, At
<1>5. CASE Terminated
  BY <1>5, ResumedFields DEF IInv, AbortedIsUnwinding, Terminated, At
<1>6. CASE MainLock
  BY <1>6, FlushedFields DEF IInv, AbortedIsUnwinding, MainLock, FlushesInPlace, TypeOK, MainTask
<1>7. CASE MainPosted
  BY <1>7, FlushedFields DEF IInv, AbortedIsUnwinding, MainPosted, FlushesInPlace
<1>8. CASE Report
  BY <1>8, ResumedFields DEF IInv, AbortedIsUnwinding, Report, At
<1>9. CASE ReportFails
  BY <1>9, ResumedFields DEF IInv, AbortedIsUnwinding, ReportFails, At
<1>10. CASE Retry
  BY <1>10, ResumedFields DEF IInv, AbortedIsUnwinding, Retry, At
<1>11. CASE Finally
  BY <1>11 DEF IInv, AbortedIsUnwinding, Finally, TypeOK, MainTask
<1>12. CASE JoinHeartbeat
  BY <1>12, ResumedFields DEF IInv, AbortedIsUnwinding, JoinHeartbeat
<1>13. CASE JoinFlusher
  BY <1>13, ResumedFields DEF IInv, AbortedIsUnwinding, JoinFlusher
<1>14. CASE Throw
  BY <1>14, UnwoundFields DEF IInv, AbortedIsUnwinding, Throw
<1>15. CASE Write \/ ReaderBreaks
  BY <1>15, ReadersKeep DEF IInv, AbortedIsUnwinding, Write, ReaderBreaks, At
<1>26. CASE Read
  BY <1>26, ReadType DEF IInv, AbortedIsUnwinding, Read, At
<1>16. CASE FlusherWake
  BY <1>16 DEF IInv, AbortedIsUnwinding, FlusherWake
<1>17. CASE FlusherCollected
  BY <1>17 DEF IInv, AbortedIsUnwinding, FlusherCollected
<1>18. CASE FlusherLock
  BY <1>18 DEF IInv, AbortedIsUnwinding, FlusherLock
<1>19. CASE FlusherPosted
  BY <1>19 DEF IInv, AbortedIsUnwinding, FlusherPosted
<1>20. CASE FlusherThrow
  BY <1>20 DEF IInv, AbortedIsUnwinding, FlusherThrow
<1>21. CASE HeartbeatEnds
  BY <1>21 DEF IInv, AbortedIsUnwinding, HeartbeatEnds
<1>22. ASSUME NEW code \in {"zero", "nonzero"}, Exit(code) PROVE AbortedIsUnwinding'
  BY <1>22, ReadersKeep, ResumedFields DEF IInv, AbortedIsUnwinding, Exit, At
<1>23. ASSUME NEW kind \in {"cancel", "fast", "abort"}, Signal(kind) PROVE AbortedIsUnwinding'
  BY <1>23 DEF IInv, AbortedIsUnwinding, Signal, TypeOK, MainTask
<1>24. ASSUME NEW s \in Outcomes, Deliver(s) PROVE AbortedIsUnwinding'
  BY <1>24 DEF IInv, AbortedIsUnwinding, Deliver
<1>25. CASE UNCHANGED vars
  BY <1>25 DEF vars, IInv, AbortedIsUnwinding
<1> QED
  BY <1>1, <1>2, <1>3, <1>4, <1>5, <1>6, <1>7, <1>8, <1>9, <1>10, <1>11, <1>12, <1>13,
     <1>14, <1>15, <1>16, <1>17, <1>18, <1>19, <1>20, <1>21, <1>22, <1>23, <1>24, <1>25, <1>26
     DEF Next, MainStep, FlusherStep

LEMMA WatchedStep ==
  ASSUME IInv, [Next]_vars
  PROVE  ProcessIsWatched'
<1>1. CASE Accept
  BY <1>1, ResumedFields DEF IInv, ProcessIsWatched, CalmIsPlain, Accept, At
<1>2. CASE AcceptFails
  BY <1>2, ResumedFields DEF IInv, ProcessIsWatched, CalmIsPlain, AcceptFails, At
<1>3. CASE Spawn
  BY <1>3, ReadersKeep DEF IInv, ProcessIsWatched, CalmIsPlain, Spawn, At
<1>4. CASE SpawnFails
  BY <1>4, ResumedFields DEF IInv, ProcessIsWatched, CalmIsPlain, SpawnFails, At
<1>5. CASE Terminated
  BY <1>5, ResumedFields DEF IInv, ProcessIsWatched, CalmIsPlain, Terminated, At
<1>6. CASE MainLock
  BY <1>6, FlushedFields DEF IInv, ProcessIsWatched, CalmIsPlain, MainLock, FlushesInPlace, TypeOK, MainTask
<1>7. CASE MainPosted
  BY <1>7, FlushedFields DEF IInv, ProcessIsWatched, CalmIsPlain, MainPosted, FlushesInPlace
<1>8. CASE Report
  BY <1>8, ResumedFields DEF IInv, ProcessIsWatched, CalmIsPlain, Report, At
<1>9. CASE ReportFails
  BY <1>9, ResumedFields DEF IInv, ProcessIsWatched, CalmIsPlain, ReportFails, At
<1>10. CASE Retry
  BY <1>10, ResumedFields DEF IInv, ProcessIsWatched, CalmIsPlain, Retry, At
<1>11. CASE Finally
  BY <1>11 DEF IInv, ProcessIsWatched, CalmIsPlain, Finally, TypeOK, MainTask
<1>12. CASE JoinHeartbeat
  BY <1>12, ResumedFields DEF IInv, ProcessIsWatched, CalmIsPlain, JoinHeartbeat
<1>13. CASE JoinFlusher
  BY <1>13, ResumedFields DEF IInv, ProcessIsWatched, CalmIsPlain, JoinFlusher
<1>14. CASE Throw
  BY <1>14, UnwoundFields DEF IInv, ProcessIsWatched, CalmIsPlain, Throw, TypeOK
<1>15. CASE Write \/ ReaderBreaks
  BY <1>15, ReadersKeep DEF IInv, ProcessIsWatched, CalmIsPlain, Write, ReaderBreaks, At
<1>26. CASE Read
  BY <1>26, ReadType DEF IInv, ProcessIsWatched, CalmIsPlain, Read, At
<1>16. CASE FlusherWake
  BY <1>16 DEF IInv, ProcessIsWatched, CalmIsPlain, FlusherWake
<1>17. CASE FlusherCollected
  BY <1>17 DEF IInv, ProcessIsWatched, CalmIsPlain, FlusherCollected
<1>18. CASE FlusherLock
  BY <1>18 DEF IInv, ProcessIsWatched, CalmIsPlain, FlusherLock
<1>19. CASE FlusherPosted
  BY <1>19 DEF IInv, ProcessIsWatched, CalmIsPlain, FlusherPosted
<1>20. CASE FlusherThrow
  BY <1>20 DEF IInv, ProcessIsWatched, CalmIsPlain, FlusherThrow
<1>21. CASE HeartbeatEnds
  BY <1>21 DEF IInv, ProcessIsWatched, CalmIsPlain, HeartbeatEnds
<1>22. ASSUME NEW code \in {"zero", "nonzero"}, Exit(code) PROVE ProcessIsWatched'
  BY <1>22, ReadersKeep, ResumedFields DEF IInv, ProcessIsWatched, CalmIsPlain, Exit, At
<1>23. ASSUME NEW kind \in {"cancel", "fast", "abort"}, Signal(kind) PROVE ProcessIsWatched'
  BY <1>23 DEF IInv, ProcessIsWatched, CalmIsPlain, Signal, TypeOK, MainTask
<1>24. ASSUME NEW s \in Outcomes, Deliver(s) PROVE ProcessIsWatched'
  BY <1>24 DEF IInv, ProcessIsWatched, CalmIsPlain, Deliver
<1>25. CASE UNCHANGED vars
  BY <1>25 DEF vars, IInv, ProcessIsWatched, CalmIsPlain
<1> QED
  BY <1>1, <1>2, <1>3, <1>4, <1>5, <1>6, <1>7, <1>8, <1>9, <1>10, <1>11, <1>12, <1>13,
     <1>14, <1>15, <1>16, <1>17, <1>18, <1>19, <1>20, <1>21, <1>22, <1>23, <1>24, <1>25, <1>26
     DEF Next, MainStep, FlusherStep

LEMMA CalmStep ==
  ASSUME IInv, [Next]_vars
  PROVE  CalmIsPlain'
<1>1. CASE Accept
  BY <1>1, ResumedFields DEF IInv, CalmIsPlain, Sent, Accept, At
<1>2. CASE AcceptFails
  BY <1>2, ResumedFields, Typed, FailureType DEF IInv, CalmIsPlain, Sent, AcceptFails, At, Failed, Outcomes
<1>3. CASE Spawn
  BY <1>3, ReadersKeep DEF IInv, CalmIsPlain, Sent, Spawn, At
<1>4. CASE SpawnFails
  BY <1>4, ResumedFields DEF IInv, CalmIsPlain, Sent, SpawnFails, At, Outcomes
<1>5. CASE Terminated
  BY <1>5, ResumedFields DEF IInv, CalmIsPlain, Sent, Terminated, At
<1>6. CASE MainLock
  BY <1>6, FlushedFields DEF IInv, CalmIsPlain, Sent, MainLock, FlushesInPlace, TypeOK, MainTask, Outcomes
<1>7. CASE MainPosted
  BY <1>7, FlushedFields, Typed, FailureType DEF IInv, CalmIsPlain, Sent, MainPosted, FlushesInPlace, Failed, Outcomes
<1>8. CASE Report
  <2>1. Sent' \subseteq Sent \cup {Verdict}
    BY <1>8, Typed, VerdictType, ArrivedType DEF IInv, Report, Sent
  <2>2. main'.pc = "final" /\ main'.mode = main.mode /\ ~main'.thrown
    BY <1>8, ResumedFields DEF Report
  <2> QED
    BY <1>8, <2>1, <2>2, VerdictType DEF IInv, CalmIsPlain, Report, At
<1>9. CASE ReportFails
  <2>1. Sent' \subseteq Sent \cup {Verdict}
    <3>1. /\ Arrived(net, Verdict) \in Net /\ Underway(net, Verdict) \in Net
          /\ Arrived(net, Verdict).failures = net.failures
          /\ Underway(net, Verdict).failures = net.failures
          /\ net.failures < MaxFailures
      BY <1>9, Typed, VerdictType, ArrivedType DEF IInv, ReportFails, Failed
    <3>2. \A n \in {Arrived(net, Verdict), Underway(net, Verdict), net} :
             n.arrived \cup n.wire \subseteq Sent \cup {Verdict}
      BY Typed, VerdictType, ArrivedType DEF IInv, Sent
    <3> QED
      BY <1>9, <3>1, <3>2, Typed, FailureType DEF IInv, ReportFails, Sent
  <2>2. /\ main'.pc \in {"backoff", "final"} /\ main'.mode = main.mode /\ ~main'.thrown
        /\ process' = process /\ ctl' = ctl
    BY <1>9, ResumedFields DEF ReportFails
  <2>3. Verdict' = Verdict
    BY <2>2 DEF Verdict
  <2> QED
    BY <1>9, <2>1, <2>2, <2>3, VerdictType DEF IInv, CalmIsPlain, ReportFails, At
<1>10. CASE Retry
  BY <1>10, ResumedFields DEF IInv, CalmIsPlain, Sent, Retry, At, Verdict
<1>11. CASE Finally
  BY <1>11 DEF IInv, CalmIsPlain, Sent, Finally, TypeOK, MainTask
<1>12. CASE JoinHeartbeat
  BY <1>12, ResumedFields DEF IInv, CalmIsPlain, Sent, JoinHeartbeat
<1>13. CASE JoinFlusher
  BY <1>13, ResumedFields DEF IInv, CalmIsPlain, Sent, JoinFlusher
<1>14. CASE Throw
  BY <1>14, UnwoundFields DEF IInv, CalmIsPlain, Sent, Throw
<1>15. CASE Write \/ ReaderBreaks
  BY <1>15, ReadersKeep DEF IInv, CalmIsPlain, Sent, Write, ReaderBreaks, At
<1>26. CASE Read
  BY <1>26, ReadType DEF IInv, CalmIsPlain, Sent, Read, At
<1>16. CASE FlusherWake
  BY <1>16 DEF IInv, CalmIsPlain, Sent, FlusherWake, Verdict
<1>17. CASE FlusherCollected
  BY <1>17 DEF IInv, CalmIsPlain, Sent, FlusherCollected, Verdict
<1>18. CASE FlusherLock
  BY <1>18 DEF IInv, CalmIsPlain, Sent, FlusherLock, Verdict
<1>19. CASE FlusherPosted
  BY <1>19, Typed, FailureType DEF IInv, CalmIsPlain, Sent, FlusherPosted, Failed, Verdict
<1>20. CASE FlusherThrow
  BY <1>20 DEF IInv, CalmIsPlain, Sent, FlusherThrow, Verdict
<1>21. CASE HeartbeatEnds
  BY <1>21 DEF IInv, CalmIsPlain, Sent, HeartbeatEnds, Verdict
<1>22. ASSUME NEW code \in {"zero", "nonzero"}, Exit(code) PROVE CalmIsPlain'
  BY <1>22, ReadersKeep, ResumedFields DEF IInv, CalmIsPlain, Sent, Exit, At
<1>23. ASSUME NEW kind \in {"cancel", "fast", "abort"}, Signal(kind) PROVE CalmIsPlain'
  BY <1>23 DEF IInv, CalmIsPlain, Sent, Signal, TypeOK
<1>24. ASSUME NEW s \in Outcomes, Deliver(s) PROVE CalmIsPlain'
  BY <1>24, Typed, ArrivedType DEF IInv, CalmIsPlain, Sent, Deliver, Verdict, TypeOK
<1>25. CASE UNCHANGED vars
  BY <1>25 DEF vars, IInv, CalmIsPlain, Sent, Verdict
<1> QED
  BY <1>1, <1>2, <1>3, <1>4, <1>5, <1>6, <1>7, <1>8, <1>9, <1>10, <1>11, <1>12, <1>13,
     <1>14, <1>15, <1>16, <1>17, <1>18, <1>19, <1>20, <1>21, <1>22, <1>23, <1>24, <1>25, <1>26
     DEF Next, MainStep, FlusherStep

LEMMA LinesStep ==
  ASSUME IInv, [Next]_vars
  PROVE  LinesAreApart'
<1>1. CASE Accept
  BY <1>1, ResumedFields DEF IInv, LinesAreApart, Accept, At
<1>2. CASE AcceptFails
  BY <1>2, ResumedFields, Typed, FailureType DEF IInv, LinesAreApart, AcceptFails, At, Failed
<1>3. CASE Spawn
  BY <1>3, ReadersKeep DEF IInv, LinesAreApart, Spawn, At
<1>4. CASE SpawnFails
  BY <1>4, ResumedFields DEF IInv, LinesAreApart, SpawnFails, At
<1>5. CASE Terminated
  BY <1>5, ResumedFields DEF IInv, LinesAreApart, Terminated, At
<1>6. CASE MainLock
  BY <1>6, FlushedFields, Typed, DrainedType DEF IInv, LinesAreApart, MainLock, FlushesInPlace, Locked, TypeOK, MainTask
<1>7. CASE MainPosted
  BY <1>7, FlushedFields, Typed, AnsweredType, FlushType, FailureType DEF IInv, LinesAreApart, MainPosted, FlushesInPlace, Failed
<1>8. CASE Report
  BY <1>8, ResumedFields, Typed, VerdictType, ArrivedType DEF IInv, LinesAreApart, Report, At
<1>9. CASE ReportFails
  BY <1>9, ResumedFields, Typed, FailureType, VerdictType, ArrivedType DEF IInv, LinesAreApart, ReportFails, At, Failed
<1>10. CASE Retry
  BY <1>10, ResumedFields DEF IInv, LinesAreApart, Retry, At
<1>11. CASE Finally
  BY <1>11 DEF IInv, LinesAreApart, Finally
<1>12. CASE JoinHeartbeat
  BY <1>12, ResumedFields DEF IInv, LinesAreApart, JoinHeartbeat
<1>13. CASE JoinFlusher
  BY <1>13, ResumedFields DEF IInv, LinesAreApart, JoinFlusher
<1>14. CASE Throw
  BY <1>14, UnwoundFields, Typed, ThrowType DEF IInv, LinesAreApart, Throw, CalmIsPlain
<1>15. CASE Write \/ ReaderBreaks
  BY <1>15, ReadersKeep DEF IInv, LinesAreApart, Write, ReaderBreaks
<1>26. CASE Read
  BY <1>26, ReadType, Typed DEF IInv, LinesAreApart, Read, At, Log, ProcessIsWatched, FlushesInPlace
<1>16. CASE FlusherWake
  BY <1>16, FlusherType DEF IInv, LinesAreApart, FlusherWake
<1>17. CASE FlusherCollected
  BY <1>17, FlusherType DEF IInv, LinesAreApart, FlusherCollected
<1>18. CASE FlusherLock
  BY <1>18, Typed, DrainedType, FlusherType DEF IInv, LinesAreApart, FlusherLock, FlushesInPlace, Locked, FlusherNext, TypeOK, FlusherTask
<1>19. CASE FlusherPosted
  BY <1>19, Typed, AnsweredType, FlushType, FailureType, FlusherType DEF IInv, LinesAreApart, FlusherPosted, FlushesInPlace, FlusherNext, Failed
<1>20. CASE FlusherThrow
  BY <1>20, Typed, FlushType, FlusherType DEF IInv, LinesAreApart, FlusherThrow, FlushesInPlace, FlushAbandoned
<1>21. CASE HeartbeatEnds
  BY <1>21 DEF IInv, LinesAreApart, HeartbeatEnds
<1>22. ASSUME NEW code \in {"zero", "nonzero"}, Exit(code) PROVE LinesAreApart'
  BY <1>22, ReadersKeep, ResumedFields DEF IInv, LinesAreApart, Exit, At
<1>23. ASSUME NEW kind \in {"cancel", "fast", "abort"}, Signal(kind) PROVE LinesAreApart'
  BY <1>23 DEF IInv, LinesAreApart, Signal, TypeOK
<1>24. ASSUME NEW s \in Outcomes, Deliver(s) PROVE LinesAreApart'
  BY <1>24, Typed, ArrivedType DEF IInv, LinesAreApart, Deliver, Net, TypeOK
<1>25. CASE UNCHANGED vars
  BY <1>25 DEF vars, IInv, LinesAreApart
<1> QED
  BY <1>1, <1>2, <1>3, <1>4, <1>5, <1>6, <1>7, <1>8, <1>9, <1>10, <1>11, <1>12, <1>13,
     <1>14, <1>15, <1>16, <1>17, <1>18, <1>19, <1>20, <1>21, <1>22, <1>23, <1>24, <1>25, <1>26
     DEF Next, MainStep, FlusherStep

-----------------------------------------------------------------------------
(* The invariant.                                                          *)

LEMMA InitIInv == Init => IInv
<1> SUFFICES ASSUME Init PROVE IInv
  OBVIOUS
<1>1. flusher.pc = "wait" /\ flusher.flush = "no" /\ ~flusher.thrown /\ flusher \in FlusherTask
  BY FlusherType DEF Init
<1>2. TypeOK
  BY <1>1 DEF Init, TypeOK, MainTask, Flushing, Log, Lines
<1> QED
  BY <1>1, <1>2 DEF Init, IInv, FlushesInPlace, AbortedIsUnwinding, CalmIsPlain, ProcessIsWatched,
                    LinesAreApart, Sent, Outcomes

LEMMA NextIInv == IInv /\ [Next]_vars => IInv'
<1> SUFFICES ASSUME IInv, [Next]_vars PROVE IInv'
  OBVIOUS
<1>1. TypeOK'
  BY TypeStep DEF IInv
<1> QED
  BY <1>1, FlushesStep, AbortedStep, CalmStep, WatchedStep, LinesStep DEF IInv

THEOREM Invariance == Spec => []IInv
  BY InitIInv, NextIInv, PTL DEF Spec

(* The runner's tasks, its log and its reports keep their types.           *)
THEOREM TypeCorrect == Spec => []TypeOK
<1>1. IInv => TypeOK
  BY DEF IInv
<1> QED
  BY <1>1, Invariance, PTL

(* A runner that is done has no process left, unless it was called twice.   *)
THEOREM ProcessStopped == Spec => []ProcessIsStopped
<1>1. IInv => ProcessIsStopped
  BY DEF IInv, TypeOK, ProcessIsWatched, ProcessIsStopped
<1> QED
  BY <1>1, Invariance, PTL

(* Nothing is stored twice but what an abandoned or failed request may have *)
(* stored before.                                                          *)
THEOREM DuplicatesExplained == Spec => []DuplicatesAreExplained
<1>1. IInv => DuplicatesAreExplained
  BY DEF IInv, LinesAreApart, DuplicatesAreExplained
<1> QED
  BY <1>1, Invariance, PTL

(* No report is begun after an abort, wherever the runner was.             *)
THEOREM SilentAfterAbort == Spec => AbortIsSilent
<1> DEFINE Body == ctl.silent /\ main'.pc = "report" => main.pc = "report"
<1>1. IInv /\ [Next]_vars => [Body]_vars
  <2> SUFFICES ASSUME IInv, [Next]_vars, ctl.silent, main'.pc = "report" PROVE main.pc = "report"
    OBVIOUS
  <2> USE DEF IInv, AbortedIsUnwinding
  <2>1. CASE Accept \/ AcceptFails \/ Spawn \/ SpawnFails \/ Terminated
    BY <2>1, ResumedFields DEF Accept, AcceptFails, Spawn, SpawnFails, Terminated, At
  <2>2. CASE MainLock
    BY <2>2, FlushedFields DEF MainLock, FlushesInPlace, TypeOK, MainTask
  <2>3. CASE MainPosted
    BY <2>3, FlushedFields DEF MainPosted, FlushesInPlace
  <2>4. CASE Report \/ ReportFails \/ Retry
    BY <2>4, ResumedFields DEF Report, ReportFails, Retry, At
  <2>5. CASE Finally
    BY <2>5 DEF Finally, TypeOK, MainTask
  <2>6. CASE JoinHeartbeat \/ JoinFlusher
    BY <2>6, ResumedFields DEF JoinHeartbeat, JoinFlusher
  <2>7. CASE Throw
    BY <2>7, UnwoundFields DEF Throw
  <2>8. CASE Write \/ Read \/ ReaderBreaks \/ FlusherStep \/ HeartbeatEnds
    BY <2>8 DEF Write, Read, ReaderBreaks, FlusherStep, FlusherWake, FlusherCollected, FlusherLock,
                FlusherPosted,
                FlusherThrow, HeartbeatEnds
  <2>9. ASSUME NEW code \in {"zero", "nonzero"}, Exit(code) PROVE main.pc = "report"
    BY <2>9, ResumedFields DEF Exit
  <2>10. ASSUME NEW kind \in {"cancel", "fast", "abort"}, Signal(kind) PROVE main.pc = "report"
    BY <2>10 DEF Signal, TypeOK, MainTask
  <2>11. ASSUME NEW s \in Outcomes, Deliver(s) PROVE main.pc = "report"
    BY <2>11 DEF Deliver
  <2>12. CASE UNCHANGED vars
    BY <2>12 DEF vars
  <2> QED
    BY <2>1, <2>2, <2>3, <2>4, <2>5, <2>6, <2>7, <2>8, <2>9, <2>10, <2>11, <2>12
       DEF Next, MainStep
<1> QED
  BY <1>1, Invariance, PTL DEF Spec, AbortIsSilent

-----------------------------------------------------------------------------
(* The log is complete.  Lines are left over only as long as each flush     *)
(* that could have taken them was interrupted, and an interruption costs a  *)
(* call of cancel or abort: one for the flush of the handler, one for the   *)
(* finally to begin, one for its flush, one for the last of the flusher.    *)

Unwinding == \/ main.pc = "final" /\ main.flush # "no"
             \/ main.pc \in {"heartbeat", "flusher", "done"}

(* The flusher is stopped by the finally, and has ended before the runner.  *)
FlusherOutlived ==
  /\ main.thrown => main.pc \notin {"heartbeat", "flusher", "done"}
  /\ flusher.flush # "no" => flusher.pc \in {"flush", "last"}
  /\ flusher.pc \in {"last", "ended"} \/ flusher.thrown => Unwinding
  /\ flusher.pc = "ended" => ~flusher.thrown
  /\ main.pc = "done" => flusher.pc = "ended"

(* No line is lost between queue, buffer and table.                         *)
NothingDropped ==
  net.failures = 0 => log.queue \cup log.buffer \cup log.stored = 1 .. log.read

Left == log.queue \cup log.buffer # {}

(* Calls it took to get where the main task is with lines left.             *)
Cuts ==
  CASE main.pc = "kill"                             -> 1
    [] main.pc = "flush" /\ main.mode # "normal"    -> 1
    [] main.pc = "final"                            -> 2
    [] main.pc \in {"heartbeat", "flusher", "done"} -> 3
    [] OTHER                                        -> 0

Due == IF main.thrown THEN 1 ELSE 0

(* The last conjuncts: the flusher's last flush is about to be, or was,      *)
(* interrupted with lines left.                                            *)
CutsAreCounted ==
  net.failures = 0 =>
    /\ main.flush = "post" \/ (flusher.pc = "last" /\ flusher.flush = "post") => log.queue = {}
    /\ Left => /\ main.pc \notin {"report", "backoff"}
               /\ ctl.signals >= Cuts + Due
               /\ flusher.pc = "last" /\ flusher.thrown => ctl.signals >= 4
               /\ flusher.pc = "ended" => ctl.signals >= 4

FlushInv == FlusherOutlived /\ NothingDropped /\ CutsAreCounted

LEMMA Counted ==
  ASSUME IInv
  PROVE  ctl.signals \in Nat
  BY DEF IInv, TypeOK

(* Where a throw leads.                                                    *)
LEMMA UnwoundTo ==
  /\ main.pc = "final" => Unwound.pc = "heartbeat"
  /\ main.pc # "final" /\ main.mode # "normal" => Unwound.pc = "final"
  /\ main.pc # "final" /\ main.mode = "normal" => Unwound.pc \in {"kill", "flush"}
  BY ResumedFields DEF Unwound

(* The count by the await of the main task, and after a step by its next.   *)
LEMMA CutsOf ==
  /\ main.pc \in {"accept", "execute", "report", "backoff"} => Cuts = 0
  /\ main.pc = "flush" /\ main.mode = "normal" => Cuts = 0
  /\ main.pc = "flush" /\ main.mode # "normal" => Cuts = 1
  /\ main.pc = "kill" => Cuts = 1
  /\ main.pc = "final" => Cuts = 2
  /\ main.pc \in {"heartbeat", "flusher", "done"} => Cuts = 3
  /\ Due \in {0, 1} /\ (main.thrown => Due = 1) /\ (~main.thrown => Due = 0)
  BY DEF Cuts, Due

LEMMA CutsOfNext ==
  /\ main'.pc \in {"accept", "execute", "report", "backoff"} => Cuts' = 0
  /\ main'.pc = "flush" /\ main'.mode = "normal" => Cuts' = 0
  /\ main'.pc = "flush" /\ main'.mode # "normal" => Cuts' = 1
  /\ main'.pc = "kill" => Cuts' = 1
  /\ main'.pc = "final" => Cuts' = 2
  /\ main'.pc \in {"heartbeat", "flusher", "done"} => Cuts' = 3
  /\ Due' \in {0, 1} /\ (main'.thrown => Due' = 1) /\ (~main'.thrown => Due' = 0)
  BY DEF Cuts, Due

LEMMA CutsStay ==
  ASSUME UNCHANGED main
  PROVE  Cuts' = Cuts /\ Due' = Due
  BY DEF Cuts, Due

(* What a step that leaves the main task where it is has to keep up.       *)
LEMMA CutsKept ==
  ASSUME IInv, CutsAreCounted, UNCHANGED <<main, ctl>>,
         net'.failures = 0 => net.failures = 0,
         Left' => Left,
         net'.failures = 0 =>
           /\ main.flush = "post" \/ (flusher'.pc = "last" /\ flusher'.flush = "post")
                => log'.queue = {}
           /\ Left' => /\ flusher'.pc = "last" /\ flusher'.thrown => ctl.signals >= 4
                       /\ flusher'.pc = "ended" => ctl.signals >= 4
  PROVE  CutsAreCounted'
<1>1. Cuts' = Cuts /\ Due' = Due
  BY CutsStay
<1> HIDE DEF Cuts, Due, Left
<1> QED
  BY <1>1 DEF CutsAreCounted

LEMMA OutlivedStep ==
  ASSUME IInv, FlushInv, [Next]_vars
  PROVE  FlusherOutlived'
<1>1. CASE Accept
  BY <1>1, ResumedFields DEF Accept, FlushInv, FlusherOutlived, Unwinding, At
<1>2. CASE AcceptFails
  BY <1>2, ResumedFields DEF AcceptFails, FlushInv, FlusherOutlived, Unwinding, At
<1>3. CASE Spawn
  BY <1>3, ReadersKeep DEF Spawn, FlushInv, FlusherOutlived, Unwinding, At
<1>4. CASE SpawnFails
  BY <1>4, ResumedFields DEF SpawnFails, FlushInv, FlusherOutlived, Unwinding, At
<1>5. CASE Terminated
  BY <1>5, ResumedFields DEF Terminated, FlushInv, FlusherOutlived, Unwinding, At
<1>6. CASE MainLock
  BY <1>6, FlushedFields DEF MainLock, FlushInv, FlusherOutlived, Unwinding, IInv, FlushesInPlace, TypeOK, MainTask
<1>7. CASE MainPosted
  BY <1>7, FlushedFields DEF MainPosted, FlushInv, FlusherOutlived, Unwinding, IInv, FlushesInPlace, TypeOK, MainTask
<1>8. CASE Report
  BY <1>8, ResumedFields DEF Report, FlushInv, FlusherOutlived, Unwinding, At
<1>9. CASE ReportFails
  BY <1>9, ResumedFields DEF ReportFails, FlushInv, FlusherOutlived, Unwinding, At
<1>10. CASE Retry
  BY <1>10, ResumedFields DEF Retry, FlushInv, FlusherOutlived, Unwinding, At
<1>11. CASE Finally
  BY <1>11 DEF Finally, FlushInv, FlusherOutlived, Unwinding, IInv, TypeOK, MainTask, FlusherTask
<1>12. CASE JoinHeartbeat
  BY <1>12, ResumedFields DEF JoinHeartbeat, FlushInv, FlusherOutlived, Unwinding
<1>13. CASE JoinFlusher
  BY <1>13, ResumedFields DEF JoinFlusher, FlushInv, FlusherOutlived, Unwinding
<1>14. CASE Throw
  BY <1>14, UnwoundFields, UnwoundTo DEF Throw, FlushInv, FlusherOutlived, Unwinding
<1>15. CASE Write \/ ReaderBreaks
  BY <1>15, ReadersKeep DEF Write, ReaderBreaks, FlushInv, FlusherOutlived, Unwinding, At
<1>26. CASE Read
  BY <1>26, ReadType DEF Read, FlushInv, FlusherOutlived, Unwinding, At
<1>16. CASE FlusherWake
  BY <1>16, FlusherType DEF FlusherWake, FlushInv, FlusherOutlived, Unwinding, IInv, TypeOK, FlusherTask, FlusherAt
<1>17. CASE FlusherCollected
  BY <1>17, FlusherType DEF FlusherCollected, FlushInv, FlusherOutlived, Unwinding, IInv, TypeOK, FlusherTask, FlusherAt
<1>18. CASE FlusherLock
  BY <1>18, FlusherType DEF FlusherLock, FlushInv, FlusherOutlived, Unwinding, IInv, TypeOK, FlusherTask, FlusherNext
<1>19. CASE FlusherPosted
  BY <1>19, FlusherType DEF FlusherPosted, FlushInv, FlusherOutlived, Unwinding, IInv, TypeOK, FlusherTask, FlusherNext
<1>20. CASE FlusherThrow
  BY <1>20, FlusherType DEF FlusherThrow, FlushInv, FlusherOutlived, Unwinding, IInv, TypeOK, FlusherTask
<1>21. CASE HeartbeatEnds
  BY <1>21 DEF HeartbeatEnds, FlushInv, FlusherOutlived, Unwinding
<1>22. ASSUME NEW code \in {"zero", "nonzero"}, Exit(code) PROVE FlusherOutlived'
  BY <1>22, ReadersKeep, ResumedFields DEF Exit, FlushInv, FlusherOutlived, Unwinding, At
<1>23. ASSUME NEW kind \in {"cancel", "fast", "abort"}, Signal(kind) PROVE FlusherOutlived'
  BY <1>23 DEF Signal, FlushInv, FlusherOutlived, Unwinding, IInv, TypeOK, MainTask, FlusherTask, Suspended
<1>24. ASSUME NEW s \in Outcomes, Deliver(s) PROVE FlusherOutlived'
  BY <1>24 DEF Deliver, FlushInv, FlusherOutlived, Unwinding
<1>25. CASE UNCHANGED vars
  BY <1>25 DEF vars, FlushInv, FlusherOutlived, Unwinding
<1> QED
  BY <1>1, <1>2, <1>3, <1>4, <1>5, <1>6, <1>7, <1>8, <1>9, <1>10, <1>11, <1>12, <1>13,
     <1>14, <1>15, <1>16, <1>17, <1>18, <1>19, <1>20, <1>21, <1>22, <1>23, <1>24, <1>25, <1>26
     DEF Next, MainStep, FlusherStep

LEMMA DroppedStep ==
  ASSUME IInv, FlushInv, [Next]_vars
  PROVE  NothingDropped'
<1>1. CASE Accept
  BY <1>1 DEF Accept, FlushInv, NothingDropped
<1>2. CASE AcceptFails
  BY <1>2, Typed, FailureType DEF AcceptFails, FlushInv, NothingDropped, IInv, Failed
<1>3. CASE Spawn
  BY <1>3, ReadersKeep DEF Spawn, FlushInv, NothingDropped, IInv
<1>4. CASE SpawnFails
  BY <1>4 DEF SpawnFails, FlushInv, NothingDropped
<1>5. CASE Terminated
  BY <1>5 DEF Terminated, FlushInv, NothingDropped
<1>6. CASE MainLock
  BY <1>6, Typed, DrainedType DEF MainLock, FlushInv, NothingDropped, IInv
<1>7. CASE MainPosted
  BY <1>7, Typed, FailureType, AnsweredType DEF MainPosted, FlushInv, NothingDropped, IInv, Failed
<1>8. CASE Report
  BY <1>8, VerdictType, ArrivedType, Typed DEF Report, FlushInv, NothingDropped, IInv
<1>9. CASE ReportFails
  BY <1>9, Typed, FailureType, VerdictType, ArrivedType DEF ReportFails, FlushInv, NothingDropped, IInv, Failed
<1>10. CASE Retry
  BY <1>10 DEF Retry, FlushInv, NothingDropped
<1>11. CASE Finally
  BY <1>11 DEF Finally, FlushInv, NothingDropped
<1>12. CASE JoinHeartbeat
  BY <1>12 DEF JoinHeartbeat, FlushInv, NothingDropped
<1>13. CASE JoinFlusher
  BY <1>13 DEF JoinFlusher, FlushInv, NothingDropped
<1>14. CASE Throw
  BY <1>14, VerdictType, ArrivedType, Typed, ThrowType DEF Throw, FlushInv, NothingDropped, IInv
<1>15. CASE Write \/ ReaderBreaks
  BY <1>15, ReadersKeep, Typed DEF Write, ReaderBreaks, FlushInv, NothingDropped, IInv, Log
<1>26. CASE Read
  BY <1>26, ReadType, Typed DEF Read, FlushInv, NothingDropped, IInv, Log
<1>16. CASE FlusherWake
  BY <1>16 DEF FlusherWake, FlushInv, NothingDropped
<1>17. CASE FlusherCollected
  BY <1>17 DEF FlusherCollected, FlushInv, NothingDropped
<1>18. CASE FlusherLock
  BY <1>18, Typed, DrainedType DEF FlusherLock, FlushInv, NothingDropped, IInv
<1>19. CASE FlusherPosted
  BY <1>19, Typed, FailureType, AnsweredType DEF FlusherPosted, FlushInv, NothingDropped, IInv, Failed
<1>20. CASE FlusherThrow
  BY <1>20, Typed, StoredType DEF FlusherThrow, FlushInv, NothingDropped, IInv, FlushAbandoned
<1>21. CASE HeartbeatEnds
  BY <1>21 DEF HeartbeatEnds, FlushInv, NothingDropped
<1>22. ASSUME NEW code \in {"zero", "nonzero"}, Exit(code) PROVE NothingDropped'
  BY <1>22, ReadersKeep DEF Exit, FlushInv, NothingDropped, IInv
<1>23. ASSUME NEW kind \in {"cancel", "fast", "abort"}, Signal(kind) PROVE NothingDropped'
  BY <1>23 DEF Signal, FlushInv, NothingDropped
<1>24. ASSUME NEW s \in Outcomes, Deliver(s) PROVE NothingDropped'
  BY <1>24, Typed, ArrivedType DEF Deliver, FlushInv, NothingDropped, IInv, Net, TypeOK
<1>25. CASE UNCHANGED vars
  BY <1>25 DEF vars, FlushInv, NothingDropped
<1> QED
  BY <1>1, <1>2, <1>3, <1>4, <1>5, <1>6, <1>7, <1>8, <1>9, <1>10, <1>11, <1>12, <1>13,
     <1>14, <1>15, <1>16, <1>17, <1>18, <1>19, <1>20, <1>21, <1>22, <1>23, <1>24, <1>25, <1>26
     DEF Next, MainStep, FlusherStep

LEMMA CutsStep ==
  ASSUME IInv, FlushInv, [Next]_vars
  PROVE  CutsAreCounted'
<1>1. CASE Accept
  BY <1>1, CutsOf, CutsOfNext, Counted, Typed, ResumedFields DEF Accept, FlushInv, CutsAreCounted, Left, IInv, At
<1>2. CASE AcceptFails
  BY <1>2, CutsOf, CutsOfNext, Counted, Typed, ResumedFields, FailureType DEF AcceptFails, FlushInv, CutsAreCounted, Left, IInv, At, Failed
<1>3. CASE Spawn
  BY <1>3, ReadersKeep, CutsOf, CutsOfNext, Counted, Typed DEF Spawn, FlushInv, CutsAreCounted, Left, IInv, At
<1>4. CASE SpawnFails
  BY <1>4, CutsOf, CutsOfNext, Counted, Typed, ResumedFields DEF SpawnFails, FlushInv, CutsAreCounted, Left, IInv, At, LinesAreApart
<1>5. CASE Terminated
  BY <1>5, CutsOf, CutsOfNext, Counted, Typed, ResumedFields DEF Terminated, FlushInv, CutsAreCounted, Left, IInv, At
<1>6. CASE MainLock
  BY <1>6, CutsOf, CutsOfNext, Counted, Typed, FlushedFields, DrainedType DEF MainLock, FlushInv, CutsAreCounted, Left, IInv, FlushesInPlace, Locked
<1>7. CASE MainPosted
  BY <1>7, CutsOf, CutsOfNext, Counted, Typed, FailureType, FlushedFields, AnsweredType DEF MainPosted, FlushInv, CutsAreCounted, Left, IInv, Failed, FlushesInPlace
<1>8. CASE Report
  BY <1>8, CutsOf, CutsOfNext, Counted, Typed, ResumedFields, VerdictType, ArrivedType DEF Report, FlushInv, CutsAreCounted, Left, IInv, At
<1>9. CASE ReportFails
  BY <1>9, CutsOf, CutsOfNext, Counted, Typed, ResumedFields, FailureType, VerdictType, ArrivedType DEF ReportFails, FlushInv, CutsAreCounted, Left, IInv, At, Failed
<1>10. CASE Retry
  BY <1>10, CutsOf, CutsOfNext, Counted, Typed, ResumedFields DEF Retry, FlushInv, CutsAreCounted, Left, IInv, At
<1>11. CASE Finally
  BY <1>11, CutsOf, CutsOfNext, Counted, Typed DEF Finally, FlushInv, CutsAreCounted, Left, IInv, FlusherOutlived, Unwinding, TypeOK, MainTask, FlusherTask
<1>12. CASE JoinHeartbeat
  BY <1>12, CutsOf, CutsOfNext, Counted, Typed, ResumedFields DEF JoinHeartbeat, FlushInv, CutsAreCounted, Left, IInv
<1>13. CASE JoinFlusher
  BY <1>13, CutsOf, CutsOfNext, Counted, Typed, ResumedFields DEF JoinFlusher, FlushInv, CutsAreCounted, Left, IInv, FlusherOutlived, Unwinding, TypeOK, MainTask, FlusherTask
<1>14. CASE Throw
  <2> SUFFICES ASSUME net'.failures = 0 PROVE CutsAreCounted'
    BY DEF CutsAreCounted
  <2>1. net.failures = 0
    BY <1>14, Typed, VerdictType, ArrivedType DEF Throw, IInv
  <2>2. log'.queue = log.queue /\ log'.buffer = log.buffer
    BY <1>14, ThrowType DEF IInv
  <2>3. Left' = Left
    BY <2>2 DEF Left
  <2>4. main'.flush # "post" /\ main'.pc \notin {"report", "backoff"} /\ Due' = 0
    BY <1>14, UnwoundFields, CutsOfNext DEF Throw
  <2>5. ASSUME Left PROVE ctl.signals >= Cuts'
    <3>1. ctl.signals \in Nat /\ ctl.signals >= Cuts + 1
      BY <1>14, <2>1, <2>5, Counted, CutsOf DEF Throw, FlushInv, CutsAreCounted
    <3>2. CASE main.pc = "final"
      BY <1>14, <3>1, <3>2, UnwoundTo, CutsOf, CutsOfNext DEF Throw
    <3>3. CASE main.pc # "final" /\ main.mode # "normal"
      <4>1. main.pc \in {"flush", "kill"}
        BY <1>14, <2>1, <2>5, <3>3 DEF Throw, IInv, TypeOK, MainTask, ProcessIsWatched, FlushInv,
                                  FlusherOutlived, CutsAreCounted
      <4> QED
        BY <1>14, <3>1, <3>3, <4>1, UnwoundTo, CutsOf, CutsOfNext DEF Throw
    <3>4. CASE main.pc # "final" /\ main.mode = "normal"
      <4>1. Cuts >= 0 /\ Cuts \in Nat
        BY DEF Cuts
      <4>2. Cuts' = 1
        BY <1>14, <3>4, UnwoundTo, UnwoundFields, CutsOfNext DEF Throw
      <4> QED
        BY <3>1, <4>1, <4>2
    <3> QED
      BY <3>2, <3>3, <3>4
  <2>6. Cuts' \in Nat
    BY DEF Cuts
  <2> HIDE DEF Cuts, Due, Left
  <2> QED
    BY <1>14, <2>1, <2>2, <2>3, <2>4, <2>5, <2>6, Counted DEF Throw, FlushInv, CutsAreCounted
<1>15. CASE Write \/ ReaderBreaks
  BY <1>15, ReadersKeep, CutsOf, CutsOfNext, Counted, Typed DEF Write, ReaderBreaks, FlushInv, CutsAreCounted, Left, IInv, At, FlusherOutlived, Unwinding, FlushesInPlace
<1>26. CASE Read
  BY <1>26, ReadType, CutsOf, CutsOfNext, Counted, Typed DEF Read, FlushInv, CutsAreCounted, Left, IInv, At, FlusherOutlived, Unwinding, FlushesInPlace
<1>16. CASE FlusherWake
  <2>1. log'.queue = log.queue /\ log'.buffer = log.buffer
    BY <1>16, EventType DEF IInv
  <2> QED
    BY <1>16, <2>1, FlusherType, CutsKept DEF FlusherWake, FlushInv, CutsAreCounted, Left
<1>17. CASE FlusherCollected
  <2>1. log'.queue = log.queue /\ log'.buffer = log.buffer
    BY <1>17, EventType DEF IInv
  <2> QED
    BY <1>17, <2>1, FlusherType, CutsKept DEF FlusherCollected, FlushInv, CutsAreCounted, Left
<1>18. CASE FlusherLock
  <2>1. log'.queue = {} /\ (Left' => Left)
    BY <1>18, Typed, DrainedType DEF FlusherLock, IInv, Left
  <2>2. flusher'.pc = "ended" => ~Left'
    BY <1>18, <2>1, FlusherType DEF FlusherLock, FlusherNext, FlushInv, FlusherOutlived, Left,
                                    IInv, TypeOK, FlusherTask
  <2>3. ~flusher'.thrown
    BY <1>18, FlusherType DEF FlusherLock, FlusherNext, IInv, TypeOK, FlusherTask
  <2> QED
    BY <1>18, <2>1, <2>2, <2>3, CutsKept DEF FlusherLock, FlushInv
<1>19. CASE FlusherPosted
  <2> SUFFICES ASSUME net'.failures = 0 PROVE CutsAreCounted'
    BY DEF CutsAreCounted
  <2>1. net' = net /\ log' = Answered(log)
    BY <1>19, Typed, FailureType DEF FlusherPosted, IInv, Failed, Net
  <2>2. log'.queue = log.queue /\ log'.buffer = {}
    BY <2>1, Typed, AnsweredType DEF IInv
  <2>3. flusher'.pc = "ended" => ~Left'
    BY <1>19, <2>1, <2>2, FlusherType DEF FlusherPosted, FlusherNext, FlushInv, CutsAreCounted, Left
  <2>4. ~flusher'.thrown /\ flusher'.flush # "post"
    BY <1>19, FlusherType DEF FlusherPosted, FlusherNext
  <2>5. Left' => Left
    BY <2>2 DEF Left
  <2>6. main.flush = "post" => log'.queue = {}
    BY <2>1, <2>2 DEF FlushInv, CutsAreCounted
  <2> QED
    BY <1>19, <2>1, <2>3, <2>4, <2>5, <2>6, CutsKept DEF FlusherPosted, FlushInv
<1>20. CASE FlusherThrow
  <2>1. log'.queue = log.queue /\ log'.buffer = log.buffer
    BY <1>20, Typed, StoredType DEF FlusherThrow, IInv, FlushAbandoned
  <2>2. ~flusher'.thrown /\ flusher'.flush # "post"
    BY <1>20, FlusherType DEF FlusherThrow
  <2>3. flusher'.pc = "ended" => flusher.pc = "last"
    BY <1>20, FlusherType DEF FlusherThrow
  <2> QED
    BY <1>20, <2>1, <2>2, <2>3, CutsKept DEF FlusherThrow, FlushInv, CutsAreCounted, Left
<1>21. CASE HeartbeatEnds
  BY <1>21, CutsKept DEF HeartbeatEnds, FlushInv, CutsAreCounted, Left
<1>22. ASSUME NEW code \in {"zero", "nonzero"}, Exit(code) PROVE CutsAreCounted'
  BY <1>22, ReadersKeep, CutsOf, CutsOfNext, Counted, Typed, ResumedFields DEF Exit, FlushInv, CutsAreCounted, Left, IInv, At
<1>23. ASSUME NEW kind \in {"cancel", "fast", "abort"}, Signal(kind) PROVE CutsAreCounted'
  BY <1>23, CutsOf, CutsOfNext, Counted, Typed DEF Signal, FlushInv, CutsAreCounted, Left, IInv, TypeOK, MainTask, FlusherTask, Suspended, FlusherOutlived, Unwinding
<1>24. ASSUME NEW s \in Outcomes, Deliver(s) PROVE CutsAreCounted'
  <2>1. net'.failures = net.failures
    BY <1>24, Typed, ArrivedType DEF Deliver, IInv, Net
  <2> QED
    BY <1>24, <2>1, CutsKept DEF Deliver, FlushInv, CutsAreCounted, Left
<1>25. CASE UNCHANGED vars
  BY <1>25 DEF vars, FlushInv, CutsAreCounted, Left, Cuts, Due
<1> QED
  BY <1>1, <1>2, <1>3, <1>4, <1>5, <1>6, <1>7, <1>8, <1>9, <1>10, <1>11, <1>12, <1>13,
     <1>14, <1>15, <1>16, <1>17, <1>18, <1>19, <1>20, <1>21, <1>22, <1>23, <1>24, <1>25, <1>26
     DEF Next, MainStep, FlusherStep

LEMMA FlushInvariance == Spec => []FlushInv
<1>1. Init => FlushInv
  <2> SUFFICES ASSUME Init PROVE FlushInv
    OBVIOUS
  <2>1. flusher.pc = "wait" /\ flusher.flush = "no" /\ ~flusher.thrown
    BY FlusherType DEF Init
  <2> QED
    BY <2>1 DEF Init, FlushInv, FlusherOutlived, Unwinding, NothingDropped, CutsAreCounted, Left
<1>2. IInv /\ FlushInv /\ [Next]_vars => FlushInv'
  BY OutlivedStep, DroppedStep, CutsStep DEF FlushInv
<1> QED
  BY <1>1, <1>2, Invariance, PTL DEF Spec

(* Unless a request failed, or a fourth call interrupted the last flush,     *)
(* whatever was read of the job's output is stored when the runner is done, *)
(* wherever the three calls before hit it.                                 *)
THEOREM LogStored == Spec => []LogIsComplete
<1>1. IInv /\ FlushInv => LogIsComplete
  <2> SUFFICES ASSUME IInv, FlushInv, main.pc = "done", ctl.signals <= 3, net.failures = 0
               PROVE  log.stored = 1 .. log.read
    BY DEF LogIsComplete
  <2>1. ctl.signals \in Nat
    BY DEF IInv, TypeOK
  <2>2. ~Left
    BY <2>1 DEF FlushInv, FlusherOutlived, CutsAreCounted
  <2> QED
    BY <2>2 DEF FlushInv, NothingDropped, Left
<1> QED
  BY <1>1, Invariance, FlushInvariance, PTL

-----------------------------------------------------------------------------
(* The runner keeps its contract (Runner).                                 *)

(* What the main task has to be in once the runner was asked to stop.       *)
AskedIsLeaving ==
  ctl.signals > 0 =>
    \/ main.thrown
    \/ main.mode = "canceled"
    \/ main.pc \in {"kill", "final", "heartbeat", "flusher", "done"}

(* The verdict is about a process that has exited, or that never was, and   *)
(* the executor waits for one that it told to exit.                        *)
VerdictIsTrue ==
  /\ main.pc = "kill" => process = "terminating"
  /\ main.pc = "accept" \/ main.mode = "error" => process = "none"
  /\ main.pc = "flush" => main.mode # "error"
  /\ main.mode = "normal" /\ main.pc \in {"flush", "report", "backoff"} =>
       process \in {"zero", "nonzero"}

(* The main task does not get to its finally without having said something. *)
SomethingIsSaid ==
  ctl.signals = 0 /\ net.failures = 0
    /\ main.pc \in {"final", "heartbeat", "flusher", "done"} => Sent # {}

KeepsContract == AskedIsLeaving /\ VerdictIsTrue /\ SomethingIsSaid

LEMMA ContractHolds ==
  ASSUME IInv, KeepsContract, [Next]_vars
  PROVE  KeepsContract'
<1> USE DEF IInv, KeepsContract, AskedIsLeaving, VerdictIsTrue, SomethingIsSaid, Sent,
            FlushesInPlace, CalmIsPlain, ProcessIsWatched
<1>1. CASE Accept
  BY <1>1, ResumedFields DEF Accept, At
<1>2. CASE AcceptFails
  BY <1>2, ResumedFields, Typed, FailureType DEF AcceptFails, At, Failed
<1>3. CASE Spawn
  BY <1>3, ReadersKeep DEF Spawn, At
<1>4. CASE SpawnFails
  BY <1>4, ResumedFields DEF SpawnFails, At
<1>5. CASE Terminated
  BY <1>5, ResumedFields DEF Terminated, At
<1>6. CASE MainLock
  BY <1>6, FlushedFields DEF MainLock, TypeOK, MainTask
<1>7. CASE MainPosted
  BY <1>7, FlushedFields, Typed, FailureType DEF MainPosted, Failed
<1>8. CASE Report
  <2>1. main'.pc = "final" /\ main'.mode = main.mode
    BY <1>8, ResumedFields DEF Report
  <2>2. Verdict \in Sent'
    BY <1>8, Typed, VerdictType, ArrivedType DEF Report
  <2> QED
    BY <1>8, <2>1, <2>2 DEF Report, At
<1>9. CASE ReportFails
  <2>1. main'.pc \in {"backoff", "final"} /\ main'.mode = main.mode
    BY <1>9, ResumedFields DEF ReportFails
  <2>2. \A n \in {net, Arrived(net, Verdict), Underway(net, Verdict)} :
          n \in Net /\ n.failures = net.failures
    BY Typed, VerdictType, ArrivedType
  <2>3. net'.failures # 0
    BY <1>9, <2>2, Typed, FailureType DEF ReportFails, Failed
  <2> QED
    BY <1>9, <2>1, <2>3 DEF ReportFails, At
<1>10. CASE Retry
  BY <1>10, ResumedFields DEF Retry, At
<1>11. CASE Finally
  BY <1>11 DEF Finally, TypeOK, MainTask
<1>12. CASE JoinHeartbeat
  BY <1>12, ResumedFields DEF JoinHeartbeat
<1>13. CASE JoinFlusher
  BY <1>13, ResumedFields DEF JoinFlusher
<1>14. CASE Throw
  <2>1. /\ Unwound.mode = "error" => main.mode = "error"
        /\ Unwound.pc = "kill" => main.pc = "execute" /\ process = "running"
    BY ResumedFields DEF Unwound
  <2> QED
    BY <1>14, <2>1, UnwoundFields DEF Throw
<1>15. CASE Write \/ ReaderBreaks
  BY <1>15, ReadersKeep DEF Write, ReaderBreaks, At
<1>26. CASE Read
  BY <1>26, ReadType DEF Read, At
<1>16. CASE FlusherWake
  BY <1>16 DEF FlusherWake
<1>17. CASE FlusherCollected
  BY <1>17 DEF FlusherCollected
<1>18. CASE FlusherLock
  BY <1>18 DEF FlusherLock
<1>19. CASE FlusherPosted
  BY <1>19, Typed, FailureType DEF FlusherPosted, Failed
<1>20. CASE FlusherThrow
  BY <1>20 DEF FlusherThrow
<1>21. CASE HeartbeatEnds
  BY <1>21 DEF HeartbeatEnds
<1>22. ASSUME NEW code \in {"zero", "nonzero"}, Exit(code) PROVE KeepsContract'
  BY <1>22, ReadersKeep, ResumedFields DEF Exit, At
<1>23. ASSUME NEW kind \in {"cancel", "fast", "abort"}, Signal(kind) PROVE KeepsContract'
  BY <1>23 DEF Signal, TypeOK, MainTask
<1>24. ASSUME NEW s \in Outcomes, Deliver(s) PROVE KeepsContract'
  BY <1>24, Typed, ArrivedType DEF Deliver, TypeOK
<1>25. CASE UNCHANGED vars
  BY <1>25 DEF vars
<1> QED
  BY <1>1, <1>2, <1>3, <1>4, <1>5, <1>6, <1>7, <1>8, <1>9, <1>10, <1>11, <1>12, <1>13,
     <1>14, <1>15, <1>16, <1>17, <1>18, <1>19, <1>20, <1>21, <1>22, <1>23, <1>24, <1>25, <1>26
     DEF Next, MainStep, FlusherStep

LEMMA ContractInvariance == Spec => []KeepsContract
<1>1. Init => KeepsContract
  BY DEF Init, KeepsContract, AskedIsLeaving, VerdictIsTrue, SomethingIsSaid
<1>2. IInv /\ KeepsContract /\ [Next]_vars => KeepsContract'
  BY ContractHolds
<1> QED
  BY <1>1, <1>2, Invariance, PTL DEF Spec

LEMMA StageIs ==
  ASSUME TypeOK
  PROVE  /\ Stage = "none"     <=> main.pc = "done"
         /\ Stage = "stopping" <=> main.pc # "done" /\ ctl.signals > 0
         /\ Stage = "active"   <=> main.pc # "done" /\ ctl.signals = 0
  BY DEF Stage, TypeOK

LEMMA StageStays ==
  ASSUME (main.pc = "done") <=> (main'.pc = "done"), ctl'.signals = ctl.signals
  PROVE  Stage' = Stage
  BY DEF Stage

(* A step that changes nothing the contract is about.                      *)
LEMMA Unnoticed ==
  ASSUME Stage' = Stage, Alive' = Alive, Saying' = Saying, Sent' = Sent,
         ctl' = ctl, net'.failures = net.failures
  PROVE  UNCHANGED Contract!vars
  BY DEF Contract!vars

LEMMA Idle ==
  ASSUME main'.pc = main.pc, main'.mode = main.mode, UNCHANGED <<process, net, ctl>>
  PROVE  UNCHANGED Contract!vars
<1>1. Stage' = Stage /\ Alive' = Alive /\ Sent' = Sent
  BY DEF Stage, Alive, Sent
<1>2. Saying' = Saying
  BY DEF Saying, Verdict
<1> QED
  BY <1>1, <1>2, Unnoticed

(* The runner begins to report.                                            *)
LEMMA Begins ==
  ASSUME IInv, IInv', KeepsContract, NEW outcome \in Outcomes,
         main.pc \notin {"report", "backoff", "done"}, main'.pc = "report",
         UNCHANGED <<process, ctl>>, Sent' = Sent,
         net'.failures # net.failures => net'.failures > 0,
         Verdict' = outcome, Contract!MayBe(outcome)
  PROVE  Contract!Next
<1>1. Stage' = Stage
  BY StageStays
<1>2. Saying = "nothing" /\ Saying' = outcome /\ Alive' = Alive
  BY DEF Saying, Alive
<1>3. (net'.failures > 0) \in {net.failures > 0, TRUE}
  BY DEF IInv, TypeOK
<1>4. Contract!Begin(outcome)
  BY <1>1, <1>2, <1>3 DEF Contract!Begin, Contract!Nothing
<1> QED
  BY <1>4 DEF Contract!Next, Contract!Outcomes, Outcomes

(* A request failed that was not a report.                                 *)
LEMMA Fails ==
  ASSUME IInv, net.failures < MaxFailures, net' = Failure(net),
         Stage' = Stage, Alive' = Alive, Saying' = Saying, ctl' = ctl
  PROVE  Contract!Next
<1>1. net'.failures > 0 /\ Sent' = Sent
  BY Typed, FailureType DEF IInv, Sent
<1>2. Contract!Fail
  BY <1>1 DEF Contract!Fail
<1> QED
  BY <1>2 DEF Contract!Next

LEMMA ContractInit == Init => Contract!Init
<1> SUFFICES ASSUME Init PROVE Contract!Init
  OBVIOUS
<1>1. Stage = "active" /\ Alive = "none" /\ Saying = "nothing" /\ Sent = {}
  BY DEF Init, Stage, Alive, Saying, Sent
<1> QED
  BY <1>1 DEF Init, Contract!Init, Contract!Nothing

(* A flush of the main task is done.                                       *)
LEMMA FlushedMeets ==
  ASSUME IInv, IInv', KeepsContract, main.flush # "no", ~main.thrown, main' = Flushed,
         UNCHANGED <<process, ctl>>,
         net' = net \/ (net.failures < MaxFailures /\ net' = Failure(net))
  PROVE  [Contract!Next]_(Contract!vars)
<1>1. /\ Sent' = Sent
      /\ net'.failures # net.failures => net'.failures > 0
      /\ net' # net => net.failures < MaxFailures /\ net' = Failure(net)
  BY Typed, FailureType DEF IInv, Sent
<1>2. main.pc \in {"flush", "final"}
  BY DEF IInv, FlushesInPlace
<1>3. Alive' = Alive
  BY DEF Alive
<1>4. CASE Flushed.pc # "report"
  <2>1. main'.pc \in {"heartbeat", "final"}
    BY <1>2, <1>4, FlushedFields
  <2>2. Stage' = Stage /\ Saying' = Saying
    BY <1>2, <2>1, StageStays DEF Saying
  <2> QED
    BY <1>1, <1>3, <2>2, Unnoticed, Fails
<1>5. CASE Flushed.pc = "report" /\ main.mode = "canceled"
  <2>1. ctl.signals > 0 /\ ~ctl.silent /\ main.pc = "flush" /\ main'.mode = "canceled"
    BY <1>2, <1>5, FlushedFields DEF IInv, CalmIsPlain, TypeOK
  <2>2. Stage = "stopping" /\ Verdict' = "canceled"
    BY <2>1, StageIs DEF IInv, Verdict
  <2>3. Alive = "running" => ctl.signals > 1
    BY <2>1 DEF IInv, TypeOK, ProcessIsWatched, Alive
  <2>4. Contract!MayBe("canceled")
    BY <2>1, <2>2, <2>3 DEF Contract!MayBe
  <2>5. Contract!Next
    BY <1>1, <1>5, <2>1, <2>2, <2>4, Begins DEF Outcomes
  <2> QED
    BY <2>5
<1>6. CASE Flushed.pc = "report" /\ main.mode # "canceled"
  <2>1. main.pc = "flush" /\ main.mode = "normal" /\ main'.mode = "normal"
    BY <1>2, <1>6, FlushedFields, Typed DEF IInv, KeepsContract, VerdictIsTrue
  <2>2. ctl.signals = 0 /\ process \in {"zero", "nonzero"} /\ Sent = {}
    BY <2>1 DEF IInv, TypeOK, KeepsContract, AskedIsLeaving, VerdictIsTrue, CalmIsPlain
  <2>3. Stage = "active" /\ Alive = process
    BY <2>1, <2>2, StageIs DEF IInv, Alive
  <2>4. Verdict' = IF process = "zero" THEN "completed" ELSE "failed"
    BY <2>1 DEF Verdict
  <2>5. Contract!MayBe(Verdict')
    BY <2>2, <2>3, <2>4 DEF Contract!MayBe
  <2>6. Contract!Next
    BY <1>1, <1>6, <2>1, <2>4, <2>5, Begins DEF Outcomes
  <2> QED
    BY <2>6
<1> QED
  BY <1>4, <1>5, <1>6

(* The main task could not begin, or could not spawn the process.          *)
LEMMA ErrorMeets ==
  ASSUME IInv, IInv', KeepsContract, AcceptFails \/ SpawnFails
  PROVE  Contract!Next
<1>1. /\ main.pc \in {"accept", "execute"} /\ ~main.thrown
      /\ main' = Reporting("error", MaxAttempts)
      /\ net' = net \/ (net.failures < MaxFailures /\ net' = Failure(net))
      /\ UNCHANGED <<process, ctl>>
      /\ main.pc = "execute" => process = "none"
  BY DEF AcceptFails, SpawnFails, At, Failed
<1>2. main'.pc = "report" /\ main'.mode = "error"
  BY <1>1, ResumedFields
<1>3. Sent' = Sent /\ (net'.failures # net.failures => net'.failures > 0)
  BY <1>1, Typed, FailureType DEF IInv, Sent
<1>4. ctl.signals = 0 /\ process = "none" /\ Sent = {}
  BY <1>1 DEF IInv, TypeOK, ProcessIsWatched, CalmIsPlain, KeepsContract, AskedIsLeaving,
              VerdictIsTrue
<1>5. Stage = "active" /\ Alive = "none" /\ Verdict' = "failed"
  BY <1>1, <1>2, <1>4, StageIs DEF IInv, Alive, Verdict
<1>6. Contract!MayBe("failed")
  BY <1>4, <1>5 DEF Contract!MayBe
<1> QED
  BY <1>1, <1>2, <1>3, <1>5, <1>6, Begins DEF Outcomes

(* The attempts at a report.                                               *)
LEMMA ReportMeets ==
  ASSUME IInv, Report
  PROVE  Contract!Next
<1>1. /\ main.pc = "report" /\ main'.pc = "final"
      /\ net' = Arrived(net, Verdict) /\ UNCHANGED <<process, ctl>>
  BY ResumedFields DEF Report, At
<1>2. Sent' = Sent \cup {Verdict} /\ net'.failures = net.failures
  BY <1>1, Typed, VerdictType, ArrivedType DEF IInv, Sent
<1>3. Saying = Verdict /\ Saying' = "nothing" /\ Verdict # "nothing"
  BY <1>1, VerdictType DEF Saying, Outcomes
<1>4. Stage' = Stage /\ Alive' = Alive
  BY <1>1, StageStays DEF Alive
<1>5. Contract!Tell
  BY <1>1, <1>2, <1>3, <1>4 DEF Contract!Tell, Contract!Nothing
<1> QED
  BY <1>5 DEF Contract!Next

LEMMA ReportFailsMeets ==
  ASSUME IInv, ReportFails
  PROVE  Contract!Next
<1>1. /\ main.pc = "report" /\ main'.pc \in {"final", "backoff"} /\ main'.mode = main.mode
      /\ UNCHANGED <<process, ctl>>
  BY ResumedFields DEF ReportFails, At
<1>2. PICK n \in {net, Arrived(net, Verdict), Underway(net, Verdict)} : net' = Failure(n)
  BY DEF ReportFails
<1>3. /\ n \in Net /\ n.failures = net.failures
      /\ n.arrived \cup n.wire \in {Sent, Sent \cup {Verdict}}
  BY Typed, VerdictType, ArrivedType DEF IInv, Sent
<1>4. Sent' \in {Sent, Sent \cup {Verdict}} /\ net'.failures > 0
  BY <1>2, <1>3, Typed, FailureType DEF IInv, ReportFails, Failed, Sent
<1>5. Verdict' = Verdict /\ Verdict # "nothing"
  BY <1>1, VerdictType DEF Verdict, Outcomes
<1>6. Saying = Verdict /\ Saying' \in {Saying, "nothing"}
  BY <1>1, <1>5 DEF Saying
<1>7. Stage' = Stage /\ Alive' = Alive
  BY <1>1, StageStays DEF Alive
<1>8. Contract!TellFails
  BY <1>1, <1>4, <1>5, <1>6, <1>7 DEF Contract!TellFails, Contract!Nothing
<1> QED
  BY <1>8 DEF Contract!Next

(* CancelledError ends a report, wherever it is, and nothing else.          *)
LEMMA ThrowMeets ==
  ASSUME IInv, FlusherOutlived, Throw
  PROVE  [Contract!Next]_(Contract!vars)
<1>1. /\ main.thrown /\ main.pc \notin {"heartbeat", "flusher", "done"}
      /\ main'.pc \in {"heartbeat", "final", "kill", "flush"} /\ ctl' = ctl
  BY UnwoundFields DEF Throw, FlusherOutlived
<1>2. ctl.signals > 0
  BY <1>1 DEF IInv, CalmIsPlain, TypeOK
<1>3. Stage = "stopping" /\ Stage' = Stage
  BY <1>1, <1>2, StageIs, StageStays DEF IInv
<1>4. Alive' = Alive
  BY DEF Throw, Alive
<1>5. /\ Sent' \in {Sent, Sent \cup {Verdict}} /\ net'.failures = net.failures
      /\ main.pc # "report" => Sent' = Sent
  <2>1. \A n \in {net, Arrived(net, Verdict), Underway(net, Verdict)} :
          n.arrived \cup n.wire \in {Sent, Sent \cup {Verdict}} /\ n.failures = net.failures
    BY Typed, VerdictType, ArrivedType DEF IInv, Sent
  <2> QED
    BY <2>1 DEF Throw, Sent
<1>6. Saying' = "nothing"
  BY <1>1 DEF Saying
<1>7. CASE main.pc \in {"report", "backoff"}
  <2>1. Saying = Verdict /\ Verdict # "nothing"
    BY <1>7, VerdictType DEF Saying, Outcomes
  <2>2. Contract!TellIsCut
    BY <1>1, <1>3, <1>4, <1>5, <1>6, <2>1 DEF Contract!TellIsCut, Contract!Nothing
  <2> QED
    BY <2>2 DEF Contract!Next
<1>8. CASE main.pc \notin {"report", "backoff"}
  BY <1>1, <1>3, <1>4, <1>5, <1>6, <1>8, Unnoticed DEF Saying
<1> QED
  BY <1>7, <1>8

(* The process.                                                            *)
LEMMA ProcessMeets ==
  ASSUME IInv, KeepsContract,
         Spawn \/ Terminated \/ \E code \in {"zero", "nonzero"} : Exit(code)
  PROVE  Contract!Next
<1>1. /\ main.pc \in {"execute", "kill"} /\ ~main.thrown
      /\ main'.pc \in {"execute", "flush"} /\ UNCHANGED <<net, ctl>>
  BY ResumedFields DEF Spawn, Terminated, Exit, At
<1>2. Saying = "nothing" /\ Saying' = "nothing" /\ Stage' = Stage /\ Sent' = Sent
  BY <1>1, StageStays DEF Saying, Sent
<1>3. main.pc = "execute" => ctl.signals = 0 /\ Sent = {} /\ Stage = "active"
  BY <1>1, StageIs DEF IInv, TypeOK, ProcessIsWatched, CalmIsPlain, KeepsContract, AskedIsLeaving
<1>4. CASE Spawn
  <2>1. Contract!Start
    BY <1>1, <1>2, <1>3, <1>4 DEF Spawn, At, Alive, Contract!Start, Contract!Nothing
  <2> QED
    BY <2>1 DEF Contract!Next
<1>5. CASE Terminated
  <2>1. Contract!Exit("nonzero")
    BY <1>1, <1>2, <1>5 DEF Terminated, At, Alive, KeepsContract, VerdictIsTrue, Contract!Exit
  <2> QED
    BY <2>1 DEF Contract!Next
<1>6. ASSUME NEW code \in {"zero", "nonzero"}, Exit(code) PROVE Contract!Next
  <2>1. Contract!Exit(code)
    BY <1>1, <1>2, <1>3, <1>6 DEF Exit, At, Alive, Contract!Exit
  <2> QED
    BY <2>1 DEF Contract!Next
<1> QED
  BY <1>4, <1>5, <1>6

LEMMA SignalMeets ==
  ASSUME IInv, NEW kind, Signal(kind)
  PROVE  Contract!Next
<1>1. /\ main.pc # "done" /\ main'.pc = main.pc /\ main'.mode = main.mode
      /\ UNCHANGED <<process, net>>
  BY DEF IInv, TypeOK, MainTask, Signal, Suspended
<1>2. ctl'.silent = (kind = "abort") /\ ctl'.signals = ctl.signals + 1 /\ ctl.signals \in Nat
  BY DEF IInv, TypeOK, Signal
<1>3. Alive' = Alive /\ Sent' = Sent /\ Saying' = Saying
  BY <1>1 DEF Alive, Sent, Saying, Verdict
<1>4. Stage # "none" /\ Stage' = "stopping" /\ ((ctl'.signals > 1) <=> (Stage = "stopping"))
  BY <1>1, <1>2 DEF Stage
<1>5. Contract!Stop(kind = "abort")
  BY <1>1, <1>2, <1>3, <1>4 DEF Contract!Stop
<1> QED
  BY <1>5 DEF Contract!Next

LEMMA JoinFlusherMeets ==
  ASSUME IInv, KeepsContract, JoinFlusher
  PROVE  Contract!Next
<1>1. main.pc = "flusher" /\ main'.pc = "done" /\ UNCHANGED <<process, net, ctl>>
  BY ResumedFields DEF JoinFlusher
<1>2. Saying = "nothing" /\ Saying' = "nothing" /\ Alive' = Alive /\ Sent' = Sent
  BY <1>1 DEF Saying, Alive, Sent
<1>3. Stage # "none" /\ Stage' = "none" /\ (Stage = "active" => ctl.signals = 0)
  BY <1>1, StageIs DEF IInv, Stage
<1>4. Alive = "running" => ctl.signals > 1
  BY <1>1 DEF IInv, TypeOK, ProcessIsWatched, Alive
<1>5. Stage = "active" => Sent # {} \/ net.failures > 0
  BY <1>1, <1>3 DEF IInv, TypeOK, KeepsContract, SomethingIsSaid
<1>6. Contract!End
  BY <1>1, <1>2, <1>3, <1>4, <1>5 DEF Contract!End, Contract!Nothing
<1> QED
  BY <1>6 DEF Contract!Next

LEMMA ContractNext ==
  ASSUME IInv, IInv', FlusherOutlived, KeepsContract, [Next]_vars
  PROVE  [Contract!Next]_(Contract!vars)
<1>1. CASE Accept \/ Retry \/ JoinHeartbeat
  <2>1. /\ \/ main.pc = "accept" /\ main'.pc = "execute"
           \/ main.pc = "backoff" /\ main'.pc = "report"
           \/ main.pc = "heartbeat" /\ main'.pc = "flusher"
        /\ main'.mode = main.mode \/ main.pc = "accept"
        /\ UNCHANGED <<process, net, ctl>>
    BY <1>1, ResumedFields DEF Accept, Retry, JoinHeartbeat, At
  <2>2. Stage' = Stage /\ Alive' = Alive /\ Sent' = Sent
    BY <2>1, StageStays DEF Alive, Sent
  <2>3. Saying' = Saying
    BY <2>1 DEF Saying, Verdict
  <2> QED
    BY <2>1, <2>2, <2>3, Unnoticed
<1>2. CASE AcceptFails \/ SpawnFails
  BY <1>2, ErrorMeets
<1>3. CASE Spawn \/ Terminated \/ \E code \in {"zero", "nonzero"} : Exit(code)
  BY <1>3, ProcessMeets
<1>4. CASE MainLock
  <2>1. CASE log'.buffer = {}
    BY <1>4, <2>1, FlushedMeets DEF MainLock
  <2>2. CASE log'.buffer # {}
    BY <1>4, <2>2, Idle DEF MainLock, IInv, TypeOK, MainTask
  <2> QED
    BY <2>1, <2>2
<1>5. CASE MainPosted
  BY <1>5, FlushedMeets DEF MainPosted, Failed
<1>6. CASE Report \/ ReportFails
  BY <1>6, ReportMeets, ReportFailsMeets
<1>7. CASE Finally
  BY <1>7, Idle DEF Finally, IInv, TypeOK, MainTask
<1>8. CASE JoinFlusher
  BY <1>8, JoinFlusherMeets
<1>9. CASE Throw
  BY <1>9, ThrowMeets
<1>10. CASE Write \/ Read \/ ReaderBreaks \/ FlusherWake \/ FlusherCollected \/ FlusherLock
            \/ FlusherThrow \/ HeartbeatEnds \/ UNCHANGED vars
  <2>1. UNCHANGED <<main, process, net, ctl>>
    BY <1>10 DEF Write, Read, ReaderBreaks, FlusherWake, FlusherCollected, FlusherLock,
                 FlusherThrow, HeartbeatEnds, vars
  <2> QED
    BY <2>1, Idle
<1>11. CASE FlusherPosted
  <2>1. CASE net' = net
    BY <1>11, <2>1, Idle DEF FlusherPosted
  <2>2. CASE net' # net
    <3>1. /\ net.failures < MaxFailures /\ net' = Failure(net)
          /\ UNCHANGED <<main, process, ctl>>
      BY <1>11, <2>2 DEF FlusherPosted, Failed
    <3>2. Stage' = Stage /\ Alive' = Alive /\ Saying' = Saying
      BY <3>1 DEF Stage, Alive, Saying, Verdict
    <3> QED
      BY <3>1, <3>2, Fails
  <2> QED
    BY <2>1, <2>2
<1>12. ASSUME NEW kind \in {"cancel", "fast", "abort"}, Signal(kind) PROVE Contract!Next
  BY <1>12, SignalMeets
<1>13. ASSUME NEW s \in Outcomes, Deliver(s) PROVE UNCHANGED Contract!vars
  <2>1. Sent' = Sent /\ net'.failures = net.failures /\ UNCHANGED <<main, process, ctl>>
    BY <1>13, Typed, ArrivedType DEF IInv, Deliver, Sent, Net
  <2>2. Stage' = Stage /\ Alive' = Alive /\ Saying' = Saying
    BY <2>1 DEF Stage, Alive, Saying, Verdict
  <2> QED
    BY <2>1, <2>2, Unnoticed
<1> QED
  BY <1>1, <1>2, <1>3, <1>4, <1>5, <1>6, <1>7, <1>8, <1>9, <1>10, <1>11, <1>12, <1>13
     DEF Next, MainStep, FlusherStep

(* The runner does what the worker that keeps it relies on, whenever and    *)
(* however often it is called, whatever fails and whatever arrives late.    *)
THEOREM ImplementsRunner == Spec => IsRunner
<1>1. FlushInv => FlusherOutlived
  BY DEF FlushInv
<1> QED
  BY <1>1, ContractInit, ContractNext, Invariance, FlushInvariance, ContractInvariance, PTL
     DEF Spec, IsRunner, Contract!Spec
=============================================================================
