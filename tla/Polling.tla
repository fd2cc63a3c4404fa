------------------------------ MODULE Polling ------------------------------
(***************************************************************************)
(* HTTP polling and streaming: the transport of the coordinator            *)
(* (transports/http_polling.py, without a backend_transport), the messages *)
(* table under it, and the client's polling loop.                          *)
(*                                                                         *)
(* One mailbox: the messages for one recipient (and, on a job's path, one   *)
(* job).  A message is stored first and announced afterwards, by the       *)
(* process that sends it and to its own pollers only.  A poller is a        *)
(* request at one of the processes; the recipient has one at a time, but a  *)
(* request whose connection broke goes on until the server notices.        *)
(*                                                                         *)
(* Message ids are ULIDs, drawn when the message object is made; they need  *)
(* not be inserted in their order.                                         *)
(***************************************************************************)
EXTENDS Integers

CONSTANTS
  MaxId,        \* bound on the number of messages
  Processes,    \* coordinator processes
  Pollers,      \* slots of polling requests
  NoPoller,     \* the recipient is not connected
  MaxFaults     \* bound on broken connections and restarts of the recipient

ASSUME PollingAssumption ==
  /\ MaxId \in Nat
  /\ NoPoller \notin Pollers \cup Processes
  /\ MaxFaults \in Nat

VARIABLES
  table,      \* the messages in the messages table
  sent,       \* those with a sent_at
  origin,     \* the process that sends a message
  news,       \* messages that were stored and are still to be announced
  poller,     \* what each polling request is doing
  draining,   \* the processes that were told to drain
  client,     \* the recipient: its connection, and the last id it received
  received,   \* history: the messages the recipient has got
  late,       \* history: messages stored after one with a larger id was read
  missed,     \* history: messages marked sent that did not arrive, and
              \*   that the recipient's cursor does not ask for again
  faults      \* number of faults so far

vars == <<table, sent, origin, news, poller, draining, client,
          received, late, missed, faults>>

Ids  == 1 .. MaxId
None == 0              \* last_message_id is None
Nowhere == NoPoller    \* the origin of a message that nobody announces

-----------------------------------------------------------------------------
(* A request has a cursor of its own, the rows it has read and not handed   *)
(* over, and an asyncio.Event among the waiters of its process.            *)

Idle == [pc |-> "idle"]

Request == [ pc     : {"query", "read", "reply", "wait"},
             at     : Processes,
             stream : BOOLEAN,
             last   : Ids \cup {None},
             batch  : SUBSET Ids,
             woken  : BOOLEAN ]

Active(p) == poller[p].pc # "idle"

Held == UNION {poller[p].batch : p \in {q \in Pollers : Active(q)}}

(* Mutant: the next id after the cursor is left out. *)
VisibleFrom(last) == {m \in table : IF last = None THEN m \notin sent ELSE m > last + 1}

(* get_messages: what is unsent, or with a cursor what is newer.           *)
Visible(last) == {m \in table : IF last = None THEN m \notin sent ELSE m > last}

Become(p, r) == poller' = [poller EXCEPT ![p] = r]

-----------------------------------------------------------------------------
(* Sending.                                                                *)

(* add_message.                                                            *)
Post(m, q) ==
  /\ m \notin table
  /\ table'  = table \cup {m}
  /\ origin' = [origin EXCEPT ![m] = q]
  /\ news'   = news \cup {m}
  /\ late'   = IF \E k \in sent \cup Held : k > m THEN late \cup {m} ELSE late
  /\ UNCHANGED <<sent, poller, draining, client, received, missed, faults>>

(* Mutant: only a request that already waits has an event. *)
AnnounceToWaiting(m) ==
  /\ m \in news
  /\ news' = news \ {m}
  /\ poller' = [p \in Pollers |->
                  IF poller[p].pc = "wait" /\ poller[p].at = origin[m]
                  THEN [poller[p] EXCEPT !.woken = TRUE] ELSE poller[p]]
  /\ UNCHANGED <<table, sent, origin, draining, client, received, late, missed, faults>>

(* send_message sets the events of this process's waiters.                 *)
Announce(m) ==
  /\ m \in news
  /\ news' = news \ {m}
  /\ poller' = [p \in Pollers |->
                  IF Active(p) /\ poller[p].at = origin[m]
                  THEN [poller[p] EXCEPT !.woken = TRUE] ELSE poller[p]]
  /\ UNCHANGED <<table, sent, origin, draining, client, received, late, missed, faults>>

(* drain: the flag, and the events of all waiters.                         *)
Drain(q) ==
  /\ q \notin draining
  /\ draining' = draining \cup {q}
  /\ poller' = [p \in Pollers |->
                  IF Active(p) /\ poller[p].at = q
                  THEN [poller[p] EXCEPT !.woken = TRUE] ELSE poller[p]]
  /\ UNCHANGED <<table, sent, origin, news, client, received, late, missed, faults>>

-----------------------------------------------------------------------------
(* The request.                                                            *)

(* Of rows that are given up, those that are marked sent and that the       *)
(* recipient's cursor does not cover will not be read for it again.        *)
Gone(ms) == {m \in (ms \cap sent) \ received : client.cursor = None \/ m <= client.cursor}

(* The recipient opens a connection to some process, with its cursor.      *)
Connect(p, q, stream) ==
  /\ client.conn = NoPoller
  /\ ~Active(p)
  /\ client' = [client EXCEPT !.conn = p]
  /\ Become(p, [pc |-> "query", at |-> q, stream |-> stream, last |-> client.cursor,
                batch |-> {}, woken |-> FALSE])
  /\ UNCHANGED <<table, sent, origin, news, draining, received, late, missed, faults>>

(* retrieve_messages reads the rows; what is stored before the request      *)
(* runs on is not among them.                                              *)
Read(p) ==
  /\ poller[p].pc = "query"
  /\ Become(p, [poller[p] EXCEPT !.pc = "read", !.batch = Visible(poller[p].last)])
  /\ UNCHANGED <<table, sent, origin, news, draining, client, received, late, missed, faults>>

(* Mutant: the rows are handed over unmarked. *)
MarkNothing(p) ==
  /\ poller[p].pc = "read"
  /\ poller[p].batch # {}
  /\ Become(p, [poller[p] EXCEPT !.pc = "reply"])
  /\ UNCHANGED <<table, sent, origin, news, draining, client, received, late, missed, faults>>

(* It marks what it read before anything is written to the connection.     *)
Mark(p) ==
  /\ poller[p].pc = "read"
  /\ poller[p].batch # {}
  /\ sent' = sent \cup poller[p].batch
  /\ Become(p, [poller[p] EXCEPT !.pc = "reply"])
  /\ UNCHANGED <<table, origin, news, draining, client, received, late, missed, faults>>

(* If there was nothing, a poll returns when its time is over; either kind   *)
(* ends when the process drains, and otherwise waits.                      *)
ReturnEmpty(p) ==
  /\ poller[p].pc = "read"
  /\ poller[p].batch = {}
  /\ poller[p].stream => poller[p].at \in draining
  /\ Become(p, Idle)
  /\ client' = IF client.conn = p THEN [client EXCEPT !.conn = NoPoller] ELSE client
  /\ UNCHANGED <<table, sent, origin, news, draining, received, late, missed, faults>>

(* Mutant: the drain flag is not looked at. *)
AwaitThroughDrain(p) ==
  /\ poller[p].pc = "read"
  /\ poller[p].batch = {}
  /\ Become(p, [poller[p] EXCEPT !.pc = "wait"])
  /\ UNCHANGED <<table, sent, origin, news, draining, client, received, late, missed, faults>>

Await(p) ==
  /\ poller[p].pc = "read"
  /\ poller[p].batch = {}
  /\ poller[p].at \notin draining
  /\ Become(p, [poller[p] EXCEPT !.pc = "wait"])
  /\ UNCHANGED <<table, sent, origin, news, draining, client, received, late, missed, faults>>

(* The rows are written to the connection.  A poll returns with them; a     *)
(* stream moves its cursor, as does the client, to the last of them (any:   *)
(* the query has no ORDER BY), and goes on unless the process drains.      *)
Reply(p, last) ==
  LET r == poller[p]
      open == r.stream /\ r.at \notin draining
  IN  /\ r.pc = "reply"
      /\ last \in r.batch
      /\ Become(p, IF open
                   THEN [r EXCEPT !.pc = "wait", !.last = last, !.batch = {}]
                   ELSE Idle)
      /\ IF client.conn = p
         THEN /\ client'   = [conn |-> IF open THEN p ELSE NoPoller, cursor |-> last]
              /\ received' = received \cup r.batch
              /\ UNCHANGED missed
         ELSE /\ missed' = missed \cup Gone(r.batch)
              /\ UNCHANGED <<client, received>>
      /\ UNCHANGED <<table, sent, origin, news, draining, late, faults>>

(* The event, or the interval after which a poller looks for itself (for     *)
(* messages that another process has stored, too).                         *)
Wake(p) ==
  /\ poller[p].pc = "wait"
  /\ poller[p].woken
  /\ Become(p, [poller[p] EXCEPT !.pc = "query", !.woken = FALSE])
  /\ UNCHANGED <<table, sent, origin, news, draining, client, received, late, missed, faults>>

(* Mutant: there is no interval. *)
NoInterval(p) == FALSE /\ UNCHANGED vars

Interval(p) ==
  /\ poller[p].pc = "wait"
  /\ Become(p, [poller[p] EXCEPT !.pc = "query"])
  /\ UNCHANGED <<table, sent, origin, news, draining, client, received, late, missed, faults>>

(* _monitor_disconnect: the request of a broken connection is cancelled.   *)
Cancel(p) ==
  /\ Active(p)
  /\ client.conn # p
  /\ Become(p, Idle)
  /\ missed' = missed \cup Gone(poller[p].batch)
  /\ UNCHANGED <<table, sent, origin, news, draining, client, received, late, faults>>

-----------------------------------------------------------------------------
(* Failures.                                                               *)

(* Nobody announces a message: its sender failed, or found that another      *)
(* transport is on record.                                                 *)
Forget(m) ==
  /\ m \in news
  /\ news' = news \ {m}
  /\ origin' = [origin EXCEPT ![m] = Nowhere]
  /\ UNCHANGED <<table, sent, poller, draining, client, received, late, missed, faults>>

Break ==
  /\ faults < MaxFaults
  /\ client.conn # NoPoller
  /\ client' = [client EXCEPT !.conn = NoPoller]
  /\ faults' = faults + 1
  /\ UNCHANGED <<table, sent, origin, news, poller, draining, received, late, missed>>

(* A recipient that starts anew has no cursor.                             *)
Restart ==
  /\ faults < MaxFaults
  /\ client' = [conn |-> NoPoller, cursor |-> None]
  /\ faults' = faults + 1
  /\ missed' = missed \cup ((sent \cup Held) \ received)
  /\ UNCHANGED <<table, sent, origin, news, poller, draining, received, late>>

-----------------------------------------------------------------------------
Init ==
  /\ table = {} /\ sent = {} /\ news = {}
  /\ origin = [m \in Ids |-> Nowhere]
  /\ poller = [p \in Pollers |-> Idle]
  /\ draining = {}
  /\ client = [conn |-> NoPoller, cursor |-> None]
  /\ received = {} /\ late = {} /\ missed = {}
  /\ faults = 0

PollerStep(p) ==
  \/ Read(p)
  \/ Mark(p)
  \/ ReturnEmpty(p)
  \/ Await(p)
  \/ \E last \in Ids : Reply(p, last)
  \/ Wake(p)
  \/ Interval(p)

Reconnect == \E p \in Pollers, q \in Processes, stream \in BOOLEAN : Connect(p, q, stream)

Next ==
  \/ \E m \in Ids, q \in Processes : Post(m, q)
  \/ \E m \in Ids : Announce(m) \/ Forget(m)
  \/ \E q \in Processes : Drain(q)
  \/ Reconnect
  \/ \E p \in Pollers : PollerStep(p) \/ Cancel(p)
  \/ Break
  \/ Restart

Spec == Init /\ [][Next]_vars

(* Requests run on, broken ones are noticed, and the client's loop opens    *)
(* the next connection.                                                    *)
Fairness ==
  /\ \A p \in Pollers : WF_vars(PollerStep(p)) /\ WF_vars(Cancel(p))
  /\ WF_vars(Reconnect)

FairSpec == Spec /\ Fairness

-----------------------------------------------------------------------------
TypeOK ==
  /\ table \subseteq Ids /\ sent \subseteq table /\ news \subseteq table
  /\ origin \in [Ids -> Processes \cup {Nowhere}]
  /\ poller \in [Pollers -> Request \cup {Idle}]
  /\ draining \subseteq Processes
  /\ client \in [conn : Pollers \cup {NoPoller}, cursor : Ids \cup {None}]
  /\ received \subseteq sent /\ late \subseteq table /\ missed \subseteq table
  /\ faults \in 0 .. MaxFaults

(* No poller sleeps while a message waits for it that nobody has fetched    *)
(* and that its own process has announced: not if the message was stored    *)
(* between the poller's query and its wait, and not if an earlier one woke   *)
(* it and the event was cleared.                                           *)
NothingIsSleptThrough ==
  \A p \in Pollers :
    poller[p].pc = "wait" /\ ~poller[p].woken =>
      \A m \in Visible(poller[p].last) \ sent :
        origin[m] = poller[p].at => m \in news

(* Draining reaches every request, also one that was about to wait.        *)
DrainIsHeard ==
  \A p \in Pollers :
    poller[p].pc = "wait" /\ poller[p].at \in draining => poller[p].woken

(* Only two things lose a message: it was stored after a larger id had been  *)
(* read, or it was marked sent for a connection that broke (or a recipient  *)
(* that restarted) while the recipient had no cursor that covers it.  Every  *)
(* other message is still in some request's hands, or visible to the next.  *)
LossIsExplained ==
  table \ (received \cup late \cup missed) \subseteq Visible(client.cursor) \cup Held

(* What a recipient may rely on.                                           *)
Mail == INSTANCE Mailbox WITH posted <- table, atRisk <- late \cup missed

IsMailbox == Mail!Spec
=============================================================================
