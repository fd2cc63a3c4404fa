------------------------------- MODULE Relay -------------------------------
(***************************************************************************)
(* HTTP polling over a message broker: http_polling.py with a               *)
(* backend_transport, and the RabbitMQ transport under it (rabbitmq.py),   *)
(* whose single queue per coordinator process serves all recipients.       *)
(*                                                                         *)
(* One recipient, as in module Polling.  A message is stored first and     *)
(* published afterwards.  A request reads the table once; if there is       *)
(* nothing for a poll to return, and for a stream in any case, it then      *)
(* registers under the recipient's queue name, and from there on takes what *)
(* the process's queue receives.  The name is bound to one request: a       *)
(* second request takes it over, and whichever of them ends first gives it  *)
(* up for both.                                                             *)
(*                                                                         *)
(* Calls on a channel are served in order; registering and unregistering   *)
(* are the steps at which the broker has served bind and unbind.  A request *)
(* that takes a message from its memory, marks it sent and, if it is a      *)
(* poll, unregisters does nothing in between that others could tell apart,  *)
(* and does so in one step.                                                *)
(***************************************************************************)
EXTENDS Integers, Sequences, FiniteSets

CONSTANTS
  MaxId,        \* bound on the number of messages
  Processes,    \* coordinator processes
  Pollers,      \* slots of polling requests
  Nobody,       \* no request, or no process
  MaxFaults     \* bound on broken connections, restarts of the recipient
                \*   and failures of a process that is connected

ASSUME RelayAssumption ==
  /\ MaxId \in Nat
  /\ Nobody \notin Pollers \cup Processes
  /\ MaxFaults \in Nat

VARIABLES
  table,      \* the messages in the messages table
  sent,       \* those with a sent_at
  sender,     \* the process that is about to publish a message
  ready,      \* the processes whose connection task has declared the queue
  bound,      \* the processes whose queue is bound to the recipient's key
  reader,     \* _multiplex_clients: the request registered at each process
  transit,    \* what the broker has in each process's queue
  poller,     \* what each polling request is doing
  draining,   \* the processes that were told to drain
  client,     \* the recipient: its connection, its cursor, streaming or not
  received,   \* history: the messages the recipient has got
  late,       \* history: messages stored or published after one with a larger id
  unheard,    \* history: messages the recipient's request was not there to hear
  missed,     \* history: messages marked sent that did not arrive
  faults      \* number of faults so far

broker == <<ready, bound, reader, transit>>
risks  == <<late, unheard, missed>>
vars   == <<table, sent, sender, broker, poller, draining, client, received, risks, faults>>

Ids  == 1 .. MaxId
None == 0              \* last_message_id is None

News == {m \in Ids : sender[m] # Nobody}

-----------------------------------------------------------------------------
Idle == [pc |-> "idle"]

Request == [ pc   : {"query", "read", "history", "connect", "wait", "reply"},
             at   : Processes,
             last : Ids \cup {None},      \* current_last_message_id
             hand : SUBSET Ids,           \* rows or message to be handed over
             mem  : Seq(Ids) ]            \* its _message_queue

Active(p)     == poller[p].pc # "idle"
Registered(p) == poller[p].pc = "wait" \/ (poller[p].pc = "reply" /\ client.streaming)
Held          == UNION {poller[p].hand : p \in {q \in Pollers : Active(q)}}
Become(p, r)  == poller' = [poller EXCEPT ![p] = r]
Newest(ms)    == {m \in ms : \A k \in ms : k <= m}

(* get_messages: what is unsent, or with a cursor what is newer.           *)
Visible(last) == {m \in table : IF last = None THEN m \notin sent ELSE m > last}

(* What a request gives up although it is marked sent.                     *)
Gone(ms) == (ms \cap sent) \ received

(* The recipient has a request that has read the table and does not hear   *)
(* what its process receives: it has not registered yet, another request    *)
(* has taken its name over or given it up, or the queue was not there.     *)
Deaf ==
  LET p == client.conn
  IN  /\ p # Nobody
      /\ poller[p].pc # "query"
      /\ ~(reader[poller[p].at] = p /\ poller[p].at \in bound)

-----------------------------------------------------------------------------
(* Sending.                                                                *)

Post(m, q) ==
  /\ m \notin table
  /\ table'  = table \cup {m}
  /\ sender' = [sender EXCEPT ![m] = q]
  /\ late'   = IF \E k \in sent \cup Held \cup (table \ News) : k > m THEN late \cup {m} ELSE late
  /\ UNCHANGED <<sent, broker, poller, draining, client, received, unheard, missed, faults>>

(* send_message hands the message to the broker, which puts it into every  *)
(* queue that is bound; it is not marked sent.                             *)
Publish(m) ==
  /\ m \in News
  /\ sender[m] \in ready
  /\ transit' = [q \in Processes |->
                   IF q \in bound THEN Append(transit[q], m) ELSE transit[q]]
  /\ sender' = [sender EXCEPT ![m] = Nobody]
  /\ late' = late \cup ({k \in News : k < m} \ received)
                  \cup {k \in {m} \ received : \E l \in table \ News : l > m}
  /\ unheard' = IF Deaf THEN unheard \cup ({m} \ received) ELSE unheard
  /\ UNCHANGED <<table, sent, ready, bound, reader, poller, draining, client,
                 received, missed, faults>>

(* The process is not connected, or publishing fails.                      *)
PublishFails(m) ==
  /\ m \in News
  /\ \/ sender[m] \notin ready /\ UNCHANGED faults
     \/ faults < MaxFaults /\ faults' = faults + 1
  /\ sender' = [sender EXCEPT ![m] = Nobody]
  /\ unheard' = unheard \cup ({m} \ received)
  /\ UNCHANGED <<table, sent, broker, poller, draining, client, received, late, missed>>

(* _connection_task has connected, and declared the process's queue.       *)
Connected(q) ==
  /\ q \notin ready
  /\ ready' = ready \cup {q}
  /\ UNCHANGED <<table, sent, sender, bound, reader, transit, poller, draining, client,
                 received, risks, faults>>

(* _on_coordinator_message: to the request registered under the name, or    *)
(* to nobody.                                                              *)
Dispatch(q) ==
  /\ transit[q] # <<>>
  /\ LET m == Head(transit[q])
         p == reader[q]
     IN  /\ transit' = [transit EXCEPT ![q] = Tail(@)]
         /\ poller' = IF p = Nobody THEN poller
                      ELSE [poller EXCEPT ![p].mem = Append(@, m)]
         /\ unheard' = IF Deaf /\ poller[client.conn].at = q
                       THEN unheard \cup ({m} \ received) ELSE unheard
  /\ UNCHANGED <<table, sent, sender, ready, bound, reader, draining, client,
                 received, late, missed, faults>>

Drain(q) ==
  /\ q \notin draining
  /\ draining' = draining \cup {q}
  /\ UNCHANGED <<table, sent, sender, broker, poller, client, received, risks, faults>>

-----------------------------------------------------------------------------
(* The request.                                                            *)

Connect(p, q) ==
  /\ client.conn = Nobody
  /\ ~Active(p)
  /\ client' = [client EXCEPT !.conn = p]
  /\ Become(p, [pc |-> "query", at |-> q, last |-> client.cursor, hand |-> {}, mem |-> <<>>])
  /\ UNCHANGED <<table, sent, sender, broker, draining, received, risks, faults>>

(* Mutant: only a stream looks into the table first. *)
ReadForStream(p) ==
  /\ poller[p].pc = "query"
  /\ LET rows == IF client.streaming THEN Visible(poller[p].last) ELSE {}
     IN  Become(p, [poller[p] EXCEPT !.pc = IF rows = {} THEN "connect" ELSE "read",
                                     !.hand = rows])
  /\ UNCHANGED <<table, sent, sender, broker, draining, client, received, risks, faults>>

(* _drain_db_history: the rows are read ...                                *)
Read(p) ==
  /\ poller[p].pc = "query"
  /\ LET rows == Visible(poller[p].last)
     IN  Become(p, [poller[p] EXCEPT !.pc = IF rows = {} THEN "connect" ELSE "read",
                                     !.hand = rows])
  /\ UNCHANGED <<table, sent, sender, broker, draining, client, received, risks, faults>>

(* ... and marked sent.                                                    *)
Mark(p) ==
  /\ poller[p].pc = "read"
  /\ sent' = sent \cup poller[p].hand
  /\ Become(p, [poller[p] EXCEPT !.pc = "history"])
  /\ UNCHANGED <<table, sender, broker, draining, client, received, risks, faults>>

(* _backend_client: another read, of the recipient's row, lies between the  *)
(* history and the registration.  Without a queue nothing is bound.        *)
Register(p) ==
  /\ poller[p].pc = "connect"
  /\ LET q == poller[p].at
     IN  /\ reader' = [reader EXCEPT ![q] = p]
         /\ bound'  = IF q \in ready THEN bound \cup {q} ELSE bound
  /\ Become(p, [poller[p] EXCEPT !.pc = "wait"])
  /\ UNCHANGED <<table, sent, sender, ready, transit, draining, client, received, risks, faults>>

(* unregister_multiplex_client, whoever is registered by now.              *)
Unregister(q) ==
  /\ reader' = [reader EXCEPT ![q] = Nobody]
  /\ bound'  = IF q \in ready THEN bound \ {q} ELSE bound
  /\ UNCHANGED <<ready, transit>>

End(p) ==
  /\ Become(p, Idle)
  /\ client' = IF client.conn = p THEN [client EXCEPT !.conn = Nobody] ELSE client

(* Mutant: the message after the cursor is taken for a duplicate, too. *)
TakeSkipsNext(p) ==
  LET r == poller[p]
      m == Head(r.mem)
      rest == [r EXCEPT !.mem = Tail(@)]
      duplicate == r.last # None /\ m <= r.last + 1
  IN  /\ r.pc = "wait"
      /\ r.mem # <<>>
      /\ r.at \notin draining
      /\ \/ duplicate /\ client.streaming /\ Become(p, rest) /\ UNCHANGED <<sent, client, broker>>
         \/ duplicate /\ ~client.streaming /\ End(p) /\ Unregister(r.at) /\ UNCHANGED sent
         \/ /\ ~duplicate
            /\ sent' = sent \cup {m}
            /\ Become(p, [rest EXCEPT !.pc = "reply", !.hand = {m}])
            /\ IF client.streaming THEN UNCHANGED broker ELSE Unregister(r.at)
            /\ UNCHANGED client
      /\ UNCHANGED <<table, sender, draining, received, risks, faults>>

(* _process_and_mark_sent.  A message that is not newer than the last one is *)
(* dropped unmarked: a stream goes on, a poll ends without it.             *)
Take(p) ==
  LET r == poller[p]
      m == Head(r.mem)
      rest == [r EXCEPT !.mem = Tail(@)]
      duplicate == r.last # None /\ m <= r.last
  IN  /\ r.pc = "wait"
      /\ r.mem # <<>>
      /\ r.at \notin draining
      /\ \/ duplicate /\ client.streaming /\ Become(p, rest) /\ UNCHANGED <<sent, client, broker>>
         \/ duplicate /\ ~client.streaming /\ End(p) /\ Unregister(r.at) /\ UNCHANGED sent
         \/ /\ ~duplicate
            /\ sent' = sent \cup {m}
            /\ Become(p, [rest EXCEPT !.pc = "reply", !.hand = {m}])
            /\ IF client.streaming THEN UNCHANGED broker ELSE Unregister(r.at)
            /\ UNCHANGED client
      /\ UNCHANGED <<table, sender, draining, received, risks, faults>>

(* A poll's time is over, or the process drains.  What is in its memory by  *)
(* then is dropped with it.                                                *)
Quit(p) ==
  /\ poller[p].pc = "wait"
  /\ client.streaming => poller[p].at \in draining
  /\ End(p)
  /\ Unregister(poller[p].at)
  /\ UNCHANGED <<table, sent, sender, draining, received, risks, faults>>

(* What is in hand is written to the connection.  The rows of the table     *)
(* come in any order, and the recipient's cursor is the last of them.      *)
Reply(p, last) ==
  LET r == poller[p]
  IN  /\ r.pc \in {"history", "reply"}
      /\ last \in r.hand
      /\ \E newest \in Newest(r.hand) :
           Become(p, IF ~client.streaming THEN Idle
                     ELSE [r EXCEPT !.pc = IF @ = "history" THEN "connect" ELSE "wait",
                                    !.last = newest, !.hand = {}])
      /\ IF client.conn = p
         THEN /\ client'   = [client EXCEPT !.conn = IF client.streaming THEN p ELSE Nobody,
                                            !.cursor = last]
              /\ received' = received \cup r.hand
              /\ UNCHANGED missed
         ELSE /\ missed' = missed \cup Gone(r.hand)
              /\ UNCHANGED <<client, received>>
      /\ UNCHANGED <<table, sent, sender, broker, draining, late, unheard, faults>>

(* Mutant: a request that is cancelled does not unregister. *)
CancelAtOnce(p) ==
  /\ Active(p)
  /\ client.conn # p
  /\ Become(p, Idle)
  /\ missed' = missed \cup Gone(poller[p].hand)
  /\ UNCHANGED <<table, sent, sender, broker, draining, client, received, late, unheard, faults>>

(* The request of a broken connection is cancelled some time later; if it    *)
(* has registered, it unregisters (asyncio.shield).                        *)
Cancel(p) ==
  /\ Active(p)
  /\ client.conn # p
  /\ Become(p, Idle)
  /\ IF Registered(p) THEN Unregister(poller[p].at) ELSE UNCHANGED broker
  /\ missed' = missed \cup Gone(poller[p].hand)
  /\ UNCHANGED <<table, sent, sender, draining, client, received, late, unheard, faults>>

-----------------------------------------------------------------------------
(* Failures.                                                               *)

Break ==
  /\ faults < MaxFaults
  /\ client.conn # Nobody
  /\ client' = [client EXCEPT !.conn = Nobody]
  /\ faults' = faults + 1
  /\ UNCHANGED <<table, sent, sender, broker, poller, draining, received, risks>>

(* A recipient that starts anew has no cursor.                             *)
Restart ==
  /\ faults < MaxFaults
  /\ client' = [client EXCEPT !.conn = Nobody, !.cursor = None]
  /\ faults' = faults + 1
  /\ missed' = missed \cup ((sent \cup Held) \ received)
  /\ UNCHANGED <<table, sent, sender, broker, poller, draining, received, late, unheard>>

-----------------------------------------------------------------------------
Init ==
  /\ table = {} /\ sent = {}
  /\ sender = [m \in Ids |-> Nobody]
  /\ ready = {} /\ bound = {}
  /\ reader  = [q \in Processes |-> Nobody]
  /\ transit = [q \in Processes |-> <<>>]
  /\ poller  = [p \in Pollers |-> Idle]
  /\ draining = {}
  /\ client \in [conn : {Nobody}, cursor : {None}, streaming : BOOLEAN]
  /\ received = {} /\ late = {} /\ unheard = {} /\ missed = {}
  /\ faults = 0

PollerStep(p) ==
  \/ Read(p)
  \/ Mark(p)
  \/ Register(p)
  \/ Take(p)
  \/ Quit(p)
  \/ \E last \in Ids : Reply(p, last)

Reconnect == \E p \in Pollers, q \in Processes : Connect(p, q)

Sending(m) == Publish(m) \/ PublishFails(m)

Next ==
  \/ \E m \in Ids : Sending(m) \/ \E q \in Processes : Post(m, q)
  \/ \E q \in Processes : Connected(q) \/ Dispatch(q) \/ Drain(q)
  \/ Reconnect
  \/ \E p \in Pollers : PollerStep(p) \/ Cancel(p)
  \/ Break
  \/ Restart

Spec == Init /\ [][Next]_vars

(* Coroutines and the broker go on, and the client's loop opens the next    *)
(* connection.                                                             *)
Fairness ==
  /\ \A p \in Pollers : WF_vars(PollerStep(p)) /\ WF_vars(Cancel(p))
  /\ \A m \in Ids : WF_vars(Sending(m))
  /\ \A q \in Processes : WF_vars(Connected(q)) /\ WF_vars(Dispatch(q))
  /\ WF_vars(Reconnect)

FairSpec == Spec /\ Fairness

-----------------------------------------------------------------------------
(* Among others: only a request that is there is registered, so nothing     *)
(* that the broker delivers is put into the memory of one that has ended.   *)
TypeOK ==
  /\ table \subseteq Ids /\ sent \subseteq table
  /\ sender \in [Ids -> Processes \cup {Nobody}]
  /\ bound \subseteq ready /\ ready \subseteq Processes
  /\ reader \in [Processes -> Pollers \cup {Nobody}]
  /\ transit \in [Processes -> Seq(Ids)]
  /\ poller \in [Pollers -> Request \cup {Idle}]
  /\ \A q \in Processes :
       reader[q] # Nobody => Registered(reader[q]) /\ poller[reader[q]].at = q
  /\ draining \subseteq Processes
  /\ client \in [conn : Pollers \cup {Nobody}, cursor : Ids \cup {None}, streaming : BOOLEAN]
  /\ received \subseteq sent
  /\ late \cup unheard \cup missed \subseteq table
  /\ faults \in 0 .. MaxFaults

(* What a recipient may rely on: it receives every message, but for those    *)
(* that were overtaken by a larger id, that its request was not there to    *)
(* hear, or that were marked sent for a connection that broke.             *)
Mail == INSTANCE Mailbox WITH posted <- table, atRisk <- late \cup unheard \cup missed

IsMailbox == Mail!Spec

(* A recipient that polls finds a message in the table, however its         *)
(* publication went, or the message is behind its cursor or marked sent.   *)
PollsFindIt ==
  \A m \in Ids :
    (m \in table /\ ~client.streaming) ~>
      (m \in received \/ m \notin Visible(client.cursor) \cup Held)

(* docs/transports.md, on streams over a broker: messages are yielded live   *)
(* as they arrive.  A stream yields every message that a connected process  *)
(* publishes, unless it was overtaken, or marked sent for a connection that *)
(* broke.                                                                  *)
StreamYieldsAll ==
  \A m \in Ids :
    (m \in News /\ sender[m] \in ready /\ client.streaming)
      ~> m \in received \cup late \cup missed
=============================================================================
