--------------------------- MODULE PollingProofs ---------------------------
(* Theorems about Polling, for any number of messages, processes, requests  *)
(* and faults.                                                             *)
EXTENDS Polling, TLAPS

-----------------------------------------------------------------------------
(* The inductive invariant.                                                *)

(* What a request holds: nothing while it queries or waits; rows of the     *)
(* table, newer than its cursor; marked ones once it replies.              *)
BatchesAreRows ==
  \A p \in Pollers : Active(p) =>
    /\ poller[p].batch \subseteq table
    /\ poller[p].pc \in {"query", "wait"} => poller[p].batch = {}
    /\ poller[p].pc = "reply" => poller[p].batch \subseteq sent
    /\ poller[p].last # None => \A m \in poller[p].batch : m > poller[p].last

(* A cursor is the id of a message that arrived.                           *)
CursorsAreRows ==
  /\ client.cursor # None => client.cursor \in received
  /\ \A p \in Pollers : Active(p) /\ poller[p].last # None => poller[p].last \in sent

(* The request the recipient listens to is under way, and at its cursor.   *)
ConnectedIsActive ==
  \A p \in Pollers :
    client.conn = p => Active(p) /\ poller[p].last = client.cursor

(* A request that is past its query and was not woken has read all that its *)
(* process announced.                                                      *)
ReadOrToldOf ==
  \A p \in Pollers :
    poller[p].pc \in {"read", "reply", "wait"} /\ ~poller[p].woken =>
      \A m \in (Visible(poller[p].last) \ sent) \ poller[p].batch :
        origin[m] = poller[p].at => m \in news

(* What a request could have read and did not was stored later, so it is    *)
(* late for every larger id that was read.                                 *)
UnreadIsLate ==
  \A p \in Pollers : Active(p) =>
    \A m \in Visible(poller[p].last) \ poller[p].batch :
      \A k \in poller[p].batch : k > m => m \in late

(* A row that is behind a marked one is marked or late.                    *)
OvertakenIsLate ==
  \A m \in table \ sent : \A k \in sent : k > m => m \in late

IInv ==
  /\ TypeOK
  /\ BatchesAreRows
  /\ CursorsAreRows
  /\ ConnectedIsActive
  /\ ReadOrToldOf
  /\ DrainIsHeard
  /\ UnreadIsLate
  /\ OvertakenIsLate
  /\ LossIsExplained

-----------------------------------------------------------------------------
(* Requests.                                                               *)

LEMMA RequestType ==
  ASSUME TypeOK, NEW p \in Pollers
  PROVE  /\ Active(p) => poller[p] \in Request
         /\ ~Active(p) => poller[p] = Idle
         /\ Active(p) <=> poller[p].pc \in {"query", "read", "reply", "wait"}
  BY DEF TypeOK, Active, Request, Idle

LEMMA HeldMember ==
  \A m : m \in Held <=> \E p \in Pollers : Active(p) /\ m \in poller[p].batch
  BY DEF Held

(* A row that is given up is visible to the recipient's next request, was   *)
(* stored too late, or is gone.                                            *)
LEMMA GivenUp ==
  ASSUME IInv, NEW ms, NEW m \in ms, m \in table, m \notin received, m \notin late,
         m \notin Visible(client.cursor)
  PROVE  m \in Gone(ms)
<1>1. CASE client.cursor = None
  BY <1>1 DEF Visible, Gone
<1>2. CASE client.cursor # None
  <2>1. client.cursor \in sent /\ client.cursor \in Int /\ m \in Int
    BY <1>2 DEF IInv, TypeOK, CursorsAreRows, Ids
  <2>2. m <= client.cursor
    BY <1>2, <2>1 DEF Visible
  <2>3. m \in sent
    BY <2>1, <2>2 DEF IInv, OvertakenIsLate
  <2> QED
    BY <2>2, <2>3 DEF Gone
<1> QED
  BY <1>1, <1>2

LEMMA ReadStep ==
  ASSUME IInv, NEW p \in Pollers, Read(p)
  PROVE  IInv'
<1> DEFINE r == poller[p]
           s == poller'[p]
<1>1. /\ r \in Request /\ r.pc = "query" /\ r.batch = {}
      /\ Visible(r.last) \subseteq Ids
  BY RequestType DEF IInv, TypeOK, Read, Active, BatchesAreRows, Visible
<1>2. /\ s \in Request
      /\ s.pc = "read" /\ s.batch = Visible(r.last)
      /\ s.at = r.at /\ s.last = r.last /\ s.woken = r.woken
  BY <1>1 DEF IInv, TypeOK, Read, Become, Request
<1>3. /\ poller' \in [Pollers -> Request \cup {Idle}]
      /\ \A q \in Pollers \ {p} : poller'[q] = poller[q]
  BY <1>2 DEF IInv, TypeOK, Read, Become
<1>4. UNCHANGED <<table, sent, origin, news, draining, client, received, late, missed, faults>>
  BY DEF Read
<1>5. Held \subseteq Held'
  BY <1>1, <1>2, <1>3, HeldMember DEF Held, Active
<1> HIDE DEF r, s
<1>6. TypeOK'
  BY <1>3, <1>4 DEF IInv, TypeOK
<1>7. BatchesAreRows'
  BY <1>1, <1>2, <1>3, <1>4 DEF IInv, BatchesAreRows, Active, Visible, r, s
<1>8. CursorsAreRows'
  BY <1>1, <1>2, <1>3, <1>4 DEF IInv, CursorsAreRows, Active, r, s
<1>9. ConnectedIsActive'
  BY <1>1, <1>2, <1>3, <1>4 DEF IInv, ConnectedIsActive, Active, r, s
<1>10. ReadOrToldOf'
  BY <1>1, <1>2, <1>3, <1>4 DEF IInv, ReadOrToldOf, Visible, r, s
<1>11. DrainIsHeard'
  BY <1>1, <1>2, <1>3, <1>4 DEF IInv, DrainIsHeard, r, s
<1>12. UnreadIsLate'
  BY <1>1, <1>2, <1>3, <1>4 DEF IInv, UnreadIsLate, Active, Visible, r, s
<1>13. OvertakenIsLate'
  BY <1>4 DEF IInv, OvertakenIsLate
<1>14. LossIsExplained'
  BY <1>4, <1>5 DEF IInv, LossIsExplained, Visible
<1> QED
  BY <1>6, <1>7, <1>8, <1>9, <1>10, <1>11, <1>12, <1>13, <1>14 DEF IInv

LEMMA MarkStep ==
  ASSUME IInv, NEW p \in Pollers, Mark(p)
  PROVE  IInv'
<1> DEFINE r == poller[p]
           s == poller'[p]
<1>1. /\ r \in Request /\ r.pc = "read" /\ r.batch \subseteq table
  BY RequestType DEF IInv, TypeOK, Mark, Active, BatchesAreRows
<1>2. /\ s \in Request
      /\ s.pc = "reply" /\ s.batch = r.batch
      /\ s.at = r.at /\ s.last = r.last /\ s.woken = r.woken
  BY <1>1 DEF IInv, TypeOK, Mark, Become, Request, Idle
<1>3. /\ poller' \in [Pollers -> Request \cup {Idle}]
      /\ \A q \in Pollers \ {p} : poller'[q] = poller[q]
  BY <1>2 DEF IInv, TypeOK, Mark, Become, Idle
<1>4. /\ UNCHANGED <<table, origin, news, draining, client, received, late, missed, faults>>
      /\ sent' = sent \cup r.batch
  BY DEF Mark
<1>5. Held = Held' /\ r.batch \subseteq Held
  BY <1>1, <1>2, <1>3, HeldMember DEF Held, Active
<1> HIDE DEF r, s
<1>6. TypeOK'
  BY <1>1, <1>2, <1>3, <1>4 DEF IInv, TypeOK, r, s
<1>7. BatchesAreRows'
  BY <1>1, <1>2, <1>3, <1>4 DEF IInv, BatchesAreRows, Active, r, s
<1>8. CursorsAreRows'
  BY <1>1, <1>2, <1>3, <1>4 DEF IInv, CursorsAreRows, Active, r, s
<1>9. ConnectedIsActive'
  BY <1>1, <1>2, <1>3, <1>4 DEF IInv, ConnectedIsActive, Active, r, s
<1>10. ReadOrToldOf'
  BY <1>1, <1>2, <1>3, <1>4 DEF IInv, ReadOrToldOf, Visible, r, s
<1>11. DrainIsHeard'
  BY <1>1, <1>2, <1>3, <1>4 DEF IInv, DrainIsHeard, r, s
<1>12. UnreadIsLate'
  BY <1>1, <1>2, <1>3, <1>4 DEF IInv, UnreadIsLate, Active, Visible, r, s
<1>13. OvertakenIsLate'
  BY <1>1, <1>2, <1>3, <1>4 DEF IInv, OvertakenIsLate, UnreadIsLate, CursorsAreRows, Active, Visible, TypeOK, Ids, None, Request, r, s
<1>14. LossIsExplained'
  BY <1>1, <1>2, <1>3, <1>4, <1>5 DEF IInv, LossIsExplained, Visible, Gone, r, s
<1> QED
  BY <1>6, <1>7, <1>8, <1>9, <1>10, <1>11, <1>12, <1>13, <1>14 DEF IInv

LEMMA AwaitStep ==
  ASSUME IInv, NEW p \in Pollers, Await(p)
  PROVE  IInv'
<1> DEFINE r == poller[p]
           s == poller'[p]
<1>1. /\ r \in Request /\ r.pc = "read" /\ r.batch = {} /\ r.at \notin draining
  BY RequestType DEF IInv, TypeOK, Await, Active, BatchesAreRows
<1>2. /\ s \in Request
      /\ s.pc = "wait" /\ s.batch = {}
      /\ s.at = r.at /\ s.last = r.last /\ s.woken = r.woken
  BY <1>1 DEF IInv, TypeOK, Await, Become, Request, Idle
<1>3. /\ poller' \in [Pollers -> Request \cup {Idle}]
      /\ \A q \in Pollers \ {p} : poller'[q] = poller[q]
  BY <1>2 DEF IInv, TypeOK, Await, Become, Idle
<1>4. UNCHANGED <<table, sent, origin, news, draining, client, received, late, missed, faults>>
  BY DEF Await
<1>5. Held = Held'
  BY <1>1, <1>2, <1>3, HeldMember DEF Held, Active
<1> HIDE DEF r, s
<1>6. TypeOK'
  BY <1>1, <1>2, <1>3, <1>4 DEF IInv, TypeOK, r, s
<1>7. BatchesAreRows'
  BY <1>1, <1>2, <1>3, <1>4 DEF IInv, BatchesAreRows, Active, r, s
<1>8. CursorsAreRows'
  BY <1>1, <1>2, <1>3, <1>4 DEF IInv, CursorsAreRows, Active, r, s
<1>9. ConnectedIsActive'
  BY <1>1, <1>2, <1>3, <1>4 DEF IInv, ConnectedIsActive, Active, r, s
<1>10. ReadOrToldOf'
  BY <1>1, <1>2, <1>3, <1>4 DEF IInv, ReadOrToldOf, Visible, r, s
<1>11. DrainIsHeard'
  BY <1>1, <1>2, <1>3, <1>4 DEF IInv, DrainIsHeard, r, s
<1>12. UnreadIsLate'
  BY <1>1, <1>2, <1>3, <1>4 DEF IInv, UnreadIsLate, Active, Visible, r, s
<1>13. OvertakenIsLate'
  BY <1>1, <1>2, <1>3, <1>4 DEF IInv, OvertakenIsLate, r, s
<1>14. LossIsExplained'
  BY <1>1, <1>2, <1>3, <1>4, <1>5 DEF IInv, LossIsExplained, Visible, Gone, r, s
<1> QED
  BY <1>6, <1>7, <1>8, <1>9, <1>10, <1>11, <1>12, <1>13, <1>14 DEF IInv

LEMMA WakeStep ==
  ASSUME IInv, NEW p \in Pollers, Wake(p)
  PROVE  IInv'
<1> DEFINE r == poller[p]
           s == poller'[p]
<1>1. /\ r \in Request /\ r.pc = "wait" /\ r.batch = {}
  BY RequestType DEF IInv, TypeOK, Wake, Active, BatchesAreRows
<1>2. /\ s \in Request
      /\ s.pc = "query" /\ s.batch = {}
      /\ s.at = r.at /\ s.last = r.last
  BY <1>1 DEF IInv, TypeOK, Wake, Become, Request, Idle
<1>3. /\ poller' \in [Pollers -> Request \cup {Idle}]
      /\ \A q \in Pollers \ {p} : poller'[q] = poller[q]
  BY <1>2 DEF IInv, TypeOK, Wake, Become, Idle
<1>4. UNCHANGED <<table, sent, origin, news, draining, client, received, late, missed, faults>>
  BY DEF Wake
<1>5. Held = Held'
  BY <1>1, <1>2, <1>3, HeldMember DEF Held, Active
<1> HIDE DEF r, s
<1>6. TypeOK'
  BY <1>1, <1>2, <1>3, <1>4 DEF IInv, TypeOK, r, s
<1>7. BatchesAreRows'
  BY <1>1, <1>2, <1>3, <1>4 DEF IInv, BatchesAreRows, Active, r, s
<1>8. CursorsAreRows'
  BY <1>1, <1>2, <1>3, <1>4 DEF IInv, CursorsAreRows, Active, r, s
<1>9. ConnectedIsActive'
  BY <1>1, <1>2, <1>3, <1>4 DEF IInv, ConnectedIsActive, Active, r, s
<1>10. ReadOrToldOf'
  BY <1>1, <1>2, <1>3, <1>4 DEF IInv, ReadOrToldOf, Visible, r, s
<1>11. DrainIsHeard'
  BY <1>1, <1>2, <1>3, <1>4 DEF IInv, DrainIsHeard, r, s
<1>12. UnreadIsLate'
  BY <1>1, <1>2, <1>3, <1>4 DEF IInv, UnreadIsLate, Active, Visible, r, s
<1>13. OvertakenIsLate'
  BY <1>1, <1>2, <1>3, <1>4 DEF IInv, OvertakenIsLate, r, s
<1>14. LossIsExplained'
  BY <1>1, <1>2, <1>3, <1>4, <1>5 DEF IInv, LossIsExplained, Visible, Gone, r, s
<1> QED
  BY <1>6, <1>7, <1>8, <1>9, <1>10, <1>11, <1>12, <1>13, <1>14 DEF IInv

LEMMA IntervalStep ==
  ASSUME IInv, NEW p \in Pollers, Interval(p)
  PROVE  IInv'
<1> DEFINE r == poller[p]
           s == poller'[p]
<1>1. /\ r \in Request /\ r.pc = "wait" /\ r.batch = {}
  BY RequestType DEF IInv, TypeOK, Interval, Active, BatchesAreRows
<1>2. /\ s \in Request
      /\ s.pc = "query" /\ s.batch = {}
      /\ s.at = r.at /\ s.last = r.last
  BY <1>1 DEF IInv, TypeOK, Interval, Become, Request, Idle
<1>3. /\ poller' \in [Pollers -> Request \cup {Idle}]
      /\ \A q \in Pollers \ {p} : poller'[q] = poller[q]
  BY <1>2 DEF IInv, TypeOK, Interval, Become, Idle
<1>4. UNCHANGED <<table, sent, origin, news, draining, client, received, late, missed, faults>>
  BY DEF Interval
<1>5. Held = Held'
  BY <1>1, <1>2, <1>3, HeldMember DEF Held, Active
<1> HIDE DEF r, s
<1>6. TypeOK'
  BY <1>1, <1>2, <1>3, <1>4 DEF IInv, TypeOK, r, s
<1>7. BatchesAreRows'
  BY <1>1, <1>2, <1>3, <1>4 DEF IInv, BatchesAreRows, Active, r, s
<1>8. CursorsAreRows'
  BY <1>1, <1>2, <1>3, <1>4 DEF IInv, CursorsAreRows, Active, r, s
<1>9. ConnectedIsActive'
  BY <1>1, <1>2, <1>3, <1>4 DEF IInv, ConnectedIsActive, Active, r, s
<1>10. ReadOrToldOf'
  BY <1>1, <1>2, <1>3, <1>4 DEF IInv, ReadOrToldOf, Visible, r, s
<1>11. DrainIsHeard'
  BY <1>1, <1>2, <1>3, <1>4 DEF IInv, DrainIsHeard, r, s
<1>12. UnreadIsLate'
  BY <1>1, <1>2, <1>3, <1>4 DEF IInv, UnreadIsLate, Active, Visible, r, s
<1>13. OvertakenIsLate'
  BY <1>1, <1>2, <1>3, <1>4 DEF IInv, OvertakenIsLate, r, s
<1>14. LossIsExplained'
  BY <1>1, <1>2, <1>3, <1>4, <1>5 DEF IInv, LossIsExplained, Visible, Gone, r, s
<1> QED
  BY <1>6, <1>7, <1>8, <1>9, <1>10, <1>11, <1>12, <1>13, <1>14 DEF IInv

LEMMA ReturnEmptyStep ==
  ASSUME IInv, NEW p \in Pollers, ReturnEmpty(p)
  PROVE  IInv'
<1> DEFINE r == poller[p]
           s == poller'[p]
<1>1. /\ r \in Request /\ r.pc = "read" /\ r.batch = {}
  BY RequestType DEF IInv, TypeOK, ReturnEmpty, Active, BatchesAreRows
<1>2. /\ s = Idle /\ s.pc = "idle"
  BY <1>1 DEF IInv, TypeOK, ReturnEmpty, Become, Request, Idle
<1>3. /\ poller' \in [Pollers -> Request \cup {Idle}]
      /\ \A q \in Pollers \ {p} : poller'[q] = poller[q]
  BY <1>2 DEF IInv, TypeOK, ReturnEmpty, Become, Idle
<1>4. /\ UNCHANGED <<table, sent, origin, news, draining, received, late, missed, faults>>
      /\ client' \in [conn : Pollers \cup {NoPoller}, cursor : Ids \cup {None}]
      /\ client'.cursor = client.cursor /\ client'.conn \in {client.conn, NoPoller} \ {p}
  BY PollingAssumption DEF ReturnEmpty, IInv, TypeOK
<1>5. Held = Held'
  BY <1>1, <1>2, <1>3, HeldMember DEF Held, Active
<1> HIDE DEF r, s
<1>6. TypeOK'
  BY <1>1, <1>2, <1>3, <1>4 DEF IInv, TypeOK, r, s
<1>7. BatchesAreRows'
  BY <1>1, <1>2, <1>3, <1>4 DEF IInv, BatchesAreRows, Active, r, s
<1>8. CursorsAreRows'
  BY <1>1, <1>2, <1>3, <1>4 DEF IInv, CursorsAreRows, Active, r, s
<1>9. ConnectedIsActive'
  BY <1>1, <1>2, <1>3, <1>4, PollingAssumption DEF IInv, ConnectedIsActive, Active, TypeOK, r, s
<1>10. ReadOrToldOf'
  BY <1>1, <1>2, <1>3, <1>4 DEF IInv, ReadOrToldOf, Visible, r, s
<1>11. DrainIsHeard'
  BY <1>1, <1>2, <1>3, <1>4 DEF IInv, DrainIsHeard, r, s
<1>12. UnreadIsLate'
  BY <1>1, <1>2, <1>3, <1>4 DEF IInv, UnreadIsLate, Active, Visible, r, s
<1>13. OvertakenIsLate'
  BY <1>1, <1>2, <1>3, <1>4 DEF IInv, OvertakenIsLate, r, s
<1>14. LossIsExplained'
  BY <1>1, <1>2, <1>3, <1>4, <1>5 DEF IInv, LossIsExplained, Visible, Gone, r, s
<1> QED
  BY <1>6, <1>7, <1>8, <1>9, <1>10, <1>11, <1>12, <1>13, <1>14 DEF IInv

LEMMA CancelStep ==
  ASSUME IInv, NEW p \in Pollers, Cancel(p)
  PROVE  IInv'
<1> DEFINE r == poller[p]
           s == poller'[p]
<1>1. /\ r \in Request /\ client.conn # p /\ r.batch \subseteq table
  BY RequestType DEF IInv, TypeOK, Cancel, Active, BatchesAreRows
<1>2. /\ s = Idle /\ s.pc = "idle"
  BY <1>1 DEF IInv, TypeOK, Cancel, Become, Request, Idle
<1>3. /\ poller' \in [Pollers -> Request \cup {Idle}]
      /\ \A q \in Pollers \ {p} : poller'[q] = poller[q]
  BY <1>2 DEF IInv, TypeOK, Cancel, Become, Idle
<1>4. /\ UNCHANGED <<table, sent, origin, news, draining, client, received, late, faults>>
      /\ missed' = missed \cup Gone(r.batch)
  BY DEF Cancel
<1>5. Held \subseteq Held' \cup r.batch
  BY <1>1, <1>2, <1>3, HeldMember DEF Held, Active
<1> HIDE DEF r, s
<1>6. TypeOK'
  BY <1>1, <1>2, <1>3, <1>4 DEF IInv, TypeOK, Gone, r, s
<1>7. BatchesAreRows'
  BY <1>1, <1>2, <1>3, <1>4 DEF IInv, BatchesAreRows, Active, r, s
<1>8. CursorsAreRows'
  BY <1>1, <1>2, <1>3, <1>4 DEF IInv, CursorsAreRows, Active, r, s
<1>9. ConnectedIsActive'
  BY <1>1, <1>2, <1>3, <1>4 DEF IInv, ConnectedIsActive, Active, r, s
<1>10. ReadOrToldOf'
  BY <1>1, <1>2, <1>3, <1>4 DEF IInv, ReadOrToldOf, Visible, r, s
<1>11. DrainIsHeard'
  BY <1>1, <1>2, <1>3, <1>4 DEF IInv, DrainIsHeard, r, s
<1>12. UnreadIsLate'
  BY <1>1, <1>2, <1>3, <1>4 DEF IInv, UnreadIsLate, Active, Visible, r, s
<1>13. OvertakenIsLate'
  BY <1>1, <1>2, <1>3, <1>4 DEF IInv, OvertakenIsLate, r, s
<1>14. LossIsExplained'
  <2> SUFFICES ASSUME NEW m \in table, m \notin received, m \notin late, m \in Held,
                      m \notin Held', m \notin Visible(client.cursor)
               PROVE  m \in Gone(r.batch)
    BY <1>4 DEF IInv, LossIsExplained, Visible
  <2>1. m \in r.batch
    BY <1>5
  <2> QED
    BY <2>1, GivenUp
<1> QED
  BY <1>6, <1>7, <1>8, <1>9, <1>10, <1>11, <1>12, <1>13, <1>14 DEF IInv

LEMMA ConnectStep ==
  ASSUME IInv, NEW p \in Pollers, NEW d \in Processes, NEW stream \in BOOLEAN, Connect(p, d, stream)
  PROVE  IInv'
<1> DEFINE r == poller[p]
           s == poller'[p]
<1>1. /\ r = Idle /\ r.pc = "idle" /\ client.conn = NoPoller
      /\ client.cursor \in Ids \cup {None}
  BY RequestType DEF IInv, TypeOK, Connect, Active, BatchesAreRows
<1>2. /\ s \in Request
      /\ s.pc = "query" /\ s.batch = {}
      /\ s.last = client.cursor
  BY <1>1 DEF IInv, TypeOK, Connect, Become, Request, Idle
<1>3. /\ poller' \in [Pollers -> Request \cup {Idle}]
      /\ \A q \in Pollers \ {p} : poller'[q] = poller[q]
  BY <1>2 DEF IInv, TypeOK, Connect, Become, Idle
<1>4. /\ UNCHANGED <<table, sent, origin, news, draining, received, late, missed, faults>>
      /\ client' \in [conn : Pollers \cup {NoPoller}, cursor : Ids \cup {None}]
      /\ client'.cursor = client.cursor /\ client'.conn = p
  BY DEF Connect, IInv, TypeOK
<1>5. Held = Held'
  BY <1>1, <1>2, <1>3, HeldMember DEF Held, Active
<1> HIDE DEF r, s
<1>6. TypeOK'
  BY <1>1, <1>2, <1>3, <1>4 DEF IInv, TypeOK, r, s
<1>7. BatchesAreRows'
  BY <1>1, <1>2, <1>3, <1>4 DEF IInv, BatchesAreRows, Active, r, s
<1>8. CursorsAreRows'
  BY <1>1, <1>2, <1>3, <1>4 DEF IInv, CursorsAreRows, Active, TypeOK, r, s
<1>9. ConnectedIsActive'
  BY <1>1, <1>2, <1>3, <1>4 DEF IInv, ConnectedIsActive, Active, r, s
<1>10. ReadOrToldOf'
  BY <1>1, <1>2, <1>3, <1>4 DEF IInv, ReadOrToldOf, Visible, r, s
<1>11. DrainIsHeard'
  BY <1>1, <1>2, <1>3, <1>4 DEF IInv, DrainIsHeard, r, s
<1>12. UnreadIsLate'
  BY <1>1, <1>2, <1>3, <1>4 DEF IInv, UnreadIsLate, Active, Visible, r, s
<1>13. OvertakenIsLate'
  BY <1>1, <1>2, <1>3, <1>4 DEF IInv, OvertakenIsLate, r, s
<1>14. LossIsExplained'
  BY <1>1, <1>2, <1>3, <1>4, <1>5 DEF IInv, LossIsExplained, Visible, Gone, r, s
<1> QED
  BY <1>6, <1>7, <1>8, <1>9, <1>10, <1>11, <1>12, <1>13, <1>14 DEF IInv

LEMMA ReplyStep ==
  ASSUME IInv, NEW p \in Pollers, NEW last \in Ids, Reply(p, last)
  PROVE  IInv'
<1> DEFINE r == poller[p]
           s == poller'[p]
           open == r.stream /\ r.at \notin draining
<1>1. /\ r \in Request /\ r.pc = "reply" /\ last \in r.batch
      /\ r.batch \subseteq sent /\ sent \subseteq table /\ table \subseteq Ids
      /\ \A m \in r.batch : r.last # None => m > r.last
  BY RequestType DEF IInv, TypeOK, Reply, Active, BatchesAreRows
<1>2. /\ open => /\ s \in Request /\ s.pc = "wait" /\ s.batch = {}
                 /\ s.at = r.at /\ s.last = last /\ s.woken = r.woken
      /\ ~open => s = Idle /\ s.pc = "idle"
  BY <1>1 DEF IInv, TypeOK, Reply, Become, Request, Idle
<1>3. /\ poller' \in [Pollers -> Request \cup {Idle}]
      /\ \A q \in Pollers \ {p} : poller'[q] = poller[q]
  BY <1>2 DEF IInv, TypeOK, Reply, Become
<1>4. /\ UNCHANGED <<table, sent, origin, news, draining, late, faults>>
      /\ client.conn = p => /\ client' = [conn |-> IF open THEN p ELSE NoPoller, cursor |-> last]
                            /\ received' = received \cup r.batch
                            /\ missed' = missed
      /\ client.conn # p => /\ missed' = missed \cup Gone(r.batch)
                            /\ client' = client
                            /\ received' = received
  BY DEF Reply
<1>5. Held \subseteq Held' \cup r.batch
  BY <1>1, <1>2, <1>3, HeldMember DEF Held, Active
<1>6. TypeOK'
  BY <1>1, <1>3, <1>4 DEF IInv, TypeOK, Gone
<1> HIDE DEF r, s, open
<1>7. BatchesAreRows'
  BY <1>1, <1>2, <1>3, <1>4 DEF IInv, BatchesAreRows, Active, r, s
<1>8. CursorsAreRows'
  BY <1>1, <1>2, <1>3, <1>4 DEF IInv, CursorsAreRows, Active, r, s
<1>9. ConnectedIsActive'
  BY <1>1, <1>2, <1>3, <1>4, PollingAssumption DEF IInv, TypeOK, ConnectedIsActive, Active, r, s
<1>10. ReadOrToldOf'
  BY <1>1, <1>2, <1>3, <1>4 DEF IInv, TypeOK, Request, ReadOrToldOf, Visible, Ids, None, r, s
<1>11. DrainIsHeard'
  BY <1>1, <1>2, <1>3, <1>4 DEF IInv, DrainIsHeard, r, s, open
<1>12. UnreadIsLate'
  BY <1>1, <1>2, <1>3, <1>4 DEF IInv, UnreadIsLate, Active, Visible, r, s
<1>13. OvertakenIsLate'
  BY <1>4 DEF IInv, OvertakenIsLate
<1>14. LossIsExplained'
  <2> SUFFICES ASSUME NEW m \in table, m \notin received', m \notin late, m \notin missed',
                      m \notin Held'
               PROVE  m \in Visible(client.cursor)'
    BY <1>4 DEF LossIsExplained
  <2>1. m \in Visible(client.cursor) \/ m \in r.batch
    BY <1>4, <1>5 DEF IInv, LossIsExplained
  <2>2. CASE client.conn = p
    <3>1. m \notin r.batch /\ client'.cursor = last
      BY <1>4, <2>2
    <3>2. Visible(client.cursor) = Visible(r.last) /\ Active(p)
      BY <2>2 DEF IInv, ConnectedIsActive, r
    <3>3. ~(last > m)
      BY <1>1, <2>1, <3>1, <3>2 DEF IInv, UnreadIsLate, r
    <3>4. m > last /\ last # None
      BY <1>1, <3>1, <3>3 DEF Ids, None
    <3> QED
      BY <1>4, <3>1, <3>4 DEF Visible
  <2>3. CASE client.conn # p
    <3>1. m \notin Gone(r.batch) /\ m \notin received /\ client' = client
      BY <1>4, <2>3
    <3>2. m \in Visible(client.cursor)
      BY <2>1, <3>1, GivenUp
    <3> QED
      BY <1>4, <3>1, <3>2 DEF Visible
  <2> QED
    BY <2>2, <2>3
<1> QED
  BY <1>6, <1>7, <1>8, <1>9, <1>10, <1>11, <1>12, <1>13, <1>14 DEF IInv

LEMMA AnnounceStep ==
  ASSUME IInv, NEW m \in Ids, Announce(m)
  PROVE  IInv'
<1>1. \A p \in Pollers : Active(p) => poller[p] \in Request
  BY RequestType DEF IInv
<1>2. \A p \in Pollers :
        /\ poller'[p].pc = poller[p].pc
        /\ Active(p) => /\ poller'[p] \in Request
                        /\ poller'[p].at = poller[p].at
                        /\ poller'[p].last = poller[p].last
                        /\ poller'[p].batch = poller[p].batch
                        /\ IF poller[p].at = origin[m] THEN poller'[p].woken
                           ELSE poller'[p].woken = poller[p].woken
  BY <1>1 DEF Announce, Active, Request
<1>3. poller' \in [Pollers -> Request \cup {Idle}]
  BY <1>1 DEF IInv, TypeOK, Announce, Active, Request
<1>4. /\ UNCHANGED <<table, sent, origin, draining, client, received, late, missed, faults>>
      /\ news' = news \ {m}
  BY DEF Announce
<1>5. Held' = Held
  BY <1>2, HeldMember DEF Held, Active
<1>6. TypeOK'
  BY <1>3, <1>4 DEF IInv, TypeOK
<1>7. BatchesAreRows'
  BY <1>2, <1>3, <1>4 DEF IInv, BatchesAreRows, Active
<1>8. CursorsAreRows'
  BY <1>2, <1>3, <1>4 DEF IInv, CursorsAreRows, Active
<1>9. ConnectedIsActive'
  BY <1>2, <1>3, <1>4 DEF IInv, ConnectedIsActive, Active
<1>10. ReadOrToldOf'
  BY <1>2, <1>3, <1>4 DEF IInv, ReadOrToldOf, Visible, Active
<1>11. DrainIsHeard'
  BY <1>2, <1>3, <1>4 DEF IInv, DrainIsHeard, Active
<1>12. UnreadIsLate'
  BY <1>2, <1>3, <1>4 DEF IInv, UnreadIsLate, Active, Visible
<1>13. OvertakenIsLate'
  BY <1>4 DEF IInv, OvertakenIsLate
<1>14. LossIsExplained'
  BY <1>4, <1>5 DEF IInv, LossIsExplained, Visible
<1> QED
  BY <1>6, <1>7, <1>8, <1>9, <1>10, <1>11, <1>12, <1>13, <1>14 DEF IInv

LEMMA DrainStep ==
  ASSUME IInv, NEW d \in Processes, Drain(d)
  PROVE  IInv'
<1>1. \A p \in Pollers : Active(p) => poller[p] \in Request
  BY RequestType DEF IInv
<1>2. \A p \in Pollers :
        /\ poller'[p].pc = poller[p].pc
        /\ Active(p) => /\ poller'[p] \in Request
                        /\ poller'[p].at = poller[p].at
                        /\ poller'[p].last = poller[p].last
                        /\ poller'[p].batch = poller[p].batch
                        /\ IF poller[p].at = d THEN poller'[p].woken
                           ELSE poller'[p].woken = poller[p].woken
  BY <1>1 DEF Drain, Active, Request
<1>3. poller' \in [Pollers -> Request \cup {Idle}]
  BY <1>1 DEF IInv, TypeOK, Drain, Active, Request
<1>4. /\ UNCHANGED <<table, sent, origin, news, client, received, late, missed, faults>>
      /\ draining' = draining \cup {d}
  BY DEF Drain
<1>5. Held' = Held
  BY <1>2, HeldMember DEF Held, Active
<1>6. TypeOK'
  BY <1>3, <1>4 DEF IInv, TypeOK
<1>7. BatchesAreRows'
  BY <1>2, <1>3, <1>4 DEF IInv, BatchesAreRows, Active
<1>8. CursorsAreRows'
  BY <1>2, <1>3, <1>4 DEF IInv, CursorsAreRows, Active
<1>9. ConnectedIsActive'
  BY <1>2, <1>3, <1>4 DEF IInv, ConnectedIsActive, Active
<1>10. ReadOrToldOf'
  BY <1>2, <1>3, <1>4 DEF IInv, ReadOrToldOf, Visible, Active
<1>11. DrainIsHeard'
  BY <1>2, <1>3, <1>4 DEF IInv, DrainIsHeard, Active
<1>12. UnreadIsLate'
  BY <1>2, <1>3, <1>4 DEF IInv, UnreadIsLate, Active, Visible
<1>13. OvertakenIsLate'
  BY <1>4 DEF IInv, OvertakenIsLate
<1>14. LossIsExplained'
  BY <1>4, <1>5 DEF IInv, LossIsExplained, Visible
<1> QED
  BY <1>6, <1>7, <1>8, <1>9, <1>10, <1>11, <1>12, <1>13, <1>14 DEF IInv

LEMMA PostStep ==
  ASSUME IInv, NEW m \in Ids, NEW d \in Processes, Post(m, d)
  PROVE  IInv'
<1>1. /\ UNCHANGED <<sent, poller, draining, client, received, missed, faults>>
      /\ m \notin table /\ table' = table \cup {m} /\ news' = news \cup {m}
      /\ origin' \in [Ids -> Processes \cup {Nowhere}]
      /\ \A k \in Ids \ {m} : origin'[k] = origin[k]
      /\ late' \in {late, late \cup {m}}
      /\ (\E k \in sent \cup Held : k > m) => m \in late'
  BY DEF IInv, TypeOK, Post
<1>2. Held' = Held
  BY <1>1 DEF Held, Active
<1>3. TypeOK'
  BY <1>1 DEF IInv, TypeOK
<1>4. BatchesAreRows'
  BY <1>1 DEF IInv, BatchesAreRows, Active
<1>5. CursorsAreRows'
  BY <1>1 DEF IInv, CursorsAreRows, Active
<1>6. ConnectedIsActive'
  BY <1>1 DEF IInv, ConnectedIsActive, Active
<1>7. ReadOrToldOf'
  BY <1>1 DEF IInv, ReadOrToldOf, TypeOK, Visible
<1>8. DrainIsHeard'
  BY <1>1 DEF IInv, DrainIsHeard
<1>9. UnreadIsLate'
  BY <1>1 DEF IInv, UnreadIsLate, Active, Visible, Held
<1>10. OvertakenIsLate'
  BY <1>1 DEF IInv, OvertakenIsLate
<1>11. LossIsExplained'
  BY <1>1, <1>2 DEF IInv, LossIsExplained, TypeOK, CursorsAreRows, Ids, None, Visible
<1> QED
  BY <1>3, <1>4, <1>5, <1>6, <1>7, <1>8, <1>9, <1>10, <1>11 DEF IInv

LEMMA ForgetStep ==
  ASSUME IInv, NEW m \in Ids, Forget(m)
  PROVE  IInv'
<1>1. /\ UNCHANGED <<table, sent, poller, draining, client, received, late, missed, faults>>
      /\ news' = news \ {m}
      /\ origin' \in [Ids -> Processes \cup {Nowhere}]
      /\ origin'[m] = Nowhere
      /\ \A k \in Ids \ {m} : origin'[k] = origin[k]
  BY DEF IInv, TypeOK, Forget
<1>2. Held' = Held
  BY <1>1 DEF Held, Active
<1>3. TypeOK'
  BY <1>1 DEF IInv, TypeOK
<1>4. BatchesAreRows'
  BY <1>1 DEF IInv, BatchesAreRows, Active
<1>5. CursorsAreRows'
  BY <1>1 DEF IInv, CursorsAreRows, Active
<1>6. ConnectedIsActive'
  BY <1>1 DEF IInv, ConnectedIsActive, Active
<1>7. ReadOrToldOf'
  BY <1>1, PollingAssumption DEF IInv, ReadOrToldOf, TypeOK, Visible, Nowhere, Request, Idle
<1>8. DrainIsHeard'
  BY <1>1 DEF IInv, DrainIsHeard
<1>9. UnreadIsLate'
  BY <1>1 DEF IInv, UnreadIsLate, Active, Visible
<1>10. OvertakenIsLate'
  BY <1>1 DEF IInv, OvertakenIsLate
<1>11. LossIsExplained'
  BY <1>1, <1>2 DEF IInv, LossIsExplained, Visible
<1> QED
  BY <1>3, <1>4, <1>5, <1>6, <1>7, <1>8, <1>9, <1>10, <1>11 DEF IInv

LEMMA BreakStep ==
  ASSUME IInv, Break
  PROVE  IInv'
<1>1. /\ UNCHANGED <<table, sent, origin, news, poller, draining, received, late, missed>>
      /\ client' \in [conn : Pollers \cup {NoPoller}, cursor : Ids \cup {None}]
      /\ client'.conn = NoPoller /\ client'.cursor = client.cursor
      /\ faults' \in 0 .. MaxFaults
  BY PollingAssumption DEF IInv, TypeOK, Break
<1>2. Held' = Held
  BY <1>1 DEF Held, Active
<1>3. TypeOK'
  BY <1>1 DEF IInv, TypeOK
<1>4. BatchesAreRows'
  BY <1>1 DEF IInv, BatchesAreRows, Active
<1>5. CursorsAreRows'
  BY <1>1 DEF IInv, CursorsAreRows, Active
<1>6. ConnectedIsActive'
  BY <1>1, PollingAssumption DEF IInv, ConnectedIsActive
<1>7. ReadOrToldOf'
  BY <1>1 DEF IInv, ReadOrToldOf, Visible
<1>8. DrainIsHeard'
  BY <1>1 DEF IInv, DrainIsHeard
<1>9. UnreadIsLate'
  BY <1>1 DEF IInv, UnreadIsLate, Active, Visible
<1>10. OvertakenIsLate'
  BY <1>1 DEF IInv, OvertakenIsLate
<1>11. LossIsExplained'
  BY <1>1, <1>2 DEF IInv, LossIsExplained, Visible
<1> QED
  BY <1>3, <1>4, <1>5, <1>6, <1>7, <1>8, <1>9, <1>10, <1>11 DEF IInv

LEMMA RestartStep ==
  ASSUME IInv, Restart
  PROVE  IInv'
<1>1. /\ UNCHANGED <<table, sent, origin, news, poller, draining, received, late>>
      /\ client' = [conn |-> NoPoller, cursor |-> None]
      /\ missed' = missed \cup ((sent \cup Held) \ received)
      /\ faults' \in 0 .. MaxFaults
  BY PollingAssumption DEF IInv, TypeOK, Restart
<1>2. Held' = Held
  BY <1>1 DEF Held, Active
<1>3. TypeOK'
  BY <1>1 DEF IInv, TypeOK, BatchesAreRows, Held
<1>4. BatchesAreRows'
  BY <1>1 DEF IInv, BatchesAreRows, Active
<1>5. CursorsAreRows'
  BY <1>1 DEF IInv, CursorsAreRows, Active
<1>6. ConnectedIsActive'
  BY <1>1, PollingAssumption DEF IInv, ConnectedIsActive
<1>7. ReadOrToldOf'
  BY <1>1 DEF IInv, ReadOrToldOf, Visible
<1>8. DrainIsHeard'
  BY <1>1 DEF IInv, DrainIsHeard
<1>9. UnreadIsLate'
  BY <1>1 DEF IInv, UnreadIsLate, Active, Visible
<1>10. OvertakenIsLate'
  BY <1>1 DEF IInv, OvertakenIsLate
<1>11. LossIsExplained'
  BY <1>1, <1>2 DEF IInv, LossIsExplained, Visible
<1> QED
  BY <1>3, <1>4, <1>5, <1>6, <1>7, <1>8, <1>9, <1>10, <1>11 DEF IInv

-----------------------------------------------------------------------------
(* The invariant.                                                          *)

LEMMA InitIInv == Init => IInv
<1> SUFFICES ASSUME Init PROVE IInv
  OBVIOUS
<1>1. TypeOK
  BY PollingAssumption DEF Init, TypeOK, Idle, None
<1>2. \A p \in Pollers : ~Active(p) /\ poller[p].pc = "idle" /\ client.conn # p
  BY PollingAssumption DEF Init, Active, Idle
<1> QED
  BY <1>1, <1>2 DEF Init, IInv, BatchesAreRows, CursorsAreRows, ConnectedIsActive, ReadOrToldOf,
                    DrainIsHeard, UnreadIsLate, OvertakenIsLate, LossIsExplained, None

LEMMA NextIInv == IInv /\ [Next]_vars => IInv'
<1> SUFFICES ASSUME IInv, [Next]_vars PROVE IInv'
  OBVIOUS
<1>1. ASSUME NEW m \in Ids, NEW q \in Processes, Post(m, q) PROVE IInv'
  BY <1>1, PostStep
<1>2. ASSUME NEW m \in Ids, Announce(m) \/ Forget(m) PROVE IInv'
  BY <1>2, AnnounceStep, ForgetStep
<1>3. ASSUME NEW q \in Processes, Drain(q) PROVE IInv'
  BY <1>3, DrainStep
<1>4. CASE Reconnect
  BY <1>4, ConnectStep DEF Reconnect
<1>5. ASSUME NEW p \in Pollers, PollerStep(p) \/ Cancel(p) PROVE IInv'
  <2>1. ASSUME NEW last \in Ids, Reply(p, last) PROVE IInv'
    BY <2>1, ReplyStep
  <2> QED
    BY <1>5, <2>1, ReadStep, MarkStep, ReturnEmptyStep, AwaitStep, WakeStep, IntervalStep,
       CancelStep DEF PollerStep
<1>6. CASE Break
  BY <1>6, BreakStep
<1>7. CASE Restart
  BY <1>7, RestartStep
<1>8. CASE UNCHANGED vars
  BY <1>8 DEF vars, IInv, TypeOK, BatchesAreRows, CursorsAreRows, ConnectedIsActive, ReadOrToldOf,
              DrainIsHeard, UnreadIsLate, OvertakenIsLate, LossIsExplained, Active, Visible, Held
<1> QED
  BY <1>1, <1>2, <1>3, <1>4, <1>5, <1>6, <1>7, <1>8 DEF Next

THEOREM Invariance == Spec => []IInv
  BY InitIInv, NextIInv, PTL DEF Spec

(* The mailbox, its requests and the recipient keep their types; what was   *)
(* received had been marked sent.                                          *)
THEOREM TypeCorrect == Spec => []TypeOK
<1>1. IInv => TypeOK
  BY DEF IInv
<1> QED
  BY <1>1, Invariance, PTL

(* A request that waits has been told of whatever its own process announced *)
(* since it looked: send_message and _poll_loop never miss each other.     *)
THEOREM NeverSleptThrough == Spec => []NothingIsSleptThrough
<1>1. IInv => NothingIsSleptThrough
  <2> SUFFICES ASSUME IInv, NEW p \in Pollers, poller[p].pc = "wait", ~poller[p].woken,
                      NEW m \in Visible(poller[p].last) \ sent, origin[m] = poller[p].at
               PROVE  m \in news
    BY DEF NothingIsSleptThrough
  <2>1. poller[p].batch = {}
    BY DEF IInv, BatchesAreRows, Active
  <2> QED
    BY <2>1 DEF IInv, ReadOrToldOf
<1> QED
  BY <1>1, Invariance, PTL

(* drain() reaches every request that waits, also one that looked at the    *)
(* flag before it was set.                                                 *)
THEOREM DrainHeard == Spec => []DrainIsHeard
<1>1. IInv => DrainIsHeard
  BY DEF IInv
<1> QED
  BY <1>1, Invariance, PTL

(* A message that is neither received, nor late, nor was marked for a       *)
(* connection that broke is on its way, or is read by the next request.    *)
THEOREM LossExplained == Spec => []LossIsExplained
<1>1. IInv => LossIsExplained
  BY DEF IInv
<1> QED
  BY <1>1, Invariance, PTL

-----------------------------------------------------------------------------
(* The mailbox.                                                            *)

(* A step that stores a message posts it; a step that hands rows over       *)
(* receives them, or puts them at risk; and no other step is seen.         *)
LEMMA StepOfMail == IInv /\ [Next]_vars => [Mail!Next]_(Mail!vars)
<1> SUFFICES ASSUME IInv, [Next]_vars PROVE [Mail!Next]_(Mail!vars)
  OBVIOUS
<1> USE DEF Mail!Next, Mail!vars
<1>1. ASSUME NEW m \in Ids, NEW q \in Processes, Post(m, q) PROVE Mail!Next
  <2>1. Mail!Post(m)
    BY <1>1 DEF Post, Mail!Post
  <2> QED
    BY <2>1
<1>2. ASSUME NEW ms \in SUBSET Ids, ms \subseteq table \ received, UNCHANGED <<table, received, late>>,
             missed' = missed \cup ms
      PROVE  Mail!Next
  <2>1. Mail!Risk(ms)
    BY <1>2 DEF Mail!Risk
  <2> QED
    BY <2>1
<1>3. ASSUME NEW p \in Pollers, NEW last \in Ids, Reply(p, last) PROVE Mail!Next
  <2>1. poller[p].batch \in SUBSET Ids /\ poller[p].batch \subseteq table
    BY <1>3, RequestType DEF IInv, TypeOK, Reply, Active, BatchesAreRows
  <2>2. CASE client.conn = p
    <3>1. Mail!Receive(poller[p].batch)
      BY <1>3, <2>1, <2>2 DEF Reply, Mail!Receive
    <3> QED
      BY <2>1, <3>1
  <2>3. CASE client.conn # p
    <3>1. Gone(poller[p].batch) \in SUBSET Ids /\ Gone(poller[p].batch) \subseteq table \ received
      BY <2>1 DEF Gone
    <3> QED
      BY <1>2, <1>3, <2>3, <3>1 DEF Reply
  <2> QED
    BY <2>2, <2>3
<1>4. ASSUME NEW p \in Pollers, Cancel(p) PROVE Mail!Next
  <2>1. Gone(poller[p].batch) \in SUBSET Ids /\ Gone(poller[p].batch) \subseteq table \ received
    BY RequestType, <1>4 DEF Gone, IInv, TypeOK, Cancel, BatchesAreRows
  <2> QED
    BY <1>2, <1>4, <2>1 DEF Cancel
<1>5. CASE Restart
  <2> DEFINE ms == (sent \cup Held) \ received
  <2>1. ms \in SUBSET Ids /\ ms \subseteq table \ received
    BY DEF IInv, TypeOK, BatchesAreRows, Held
  <2> QED
    BY <1>2, <1>5, <2>1 DEF Restart
<1>6. ASSUME UNCHANGED <<table, received, late, missed>> PROVE UNCHANGED Mail!vars
  BY <1>6
<1>7. ASSUME NEW p \in Pollers, PollerStep(p) PROVE [Mail!Next]_(Mail!vars)
  BY <1>3, <1>6, <1>7 DEF PollerStep, Read, Mark, ReturnEmpty, Await, Wake, Interval
<1> QED
  BY <1>1, <1>4, <1>5, <1>6, <1>7 DEF Next, Reconnect, Announce, Forget, Drain, Connect, Break, vars

(* The table, the transport and the client implement the mailbox (its       *)
(* safety: delivery is a matter of fairness).                              *)
THEOREM ImplementsMailbox == Spec => Mail!Safe
<1>1. Init => Mail!Init
  BY DEF Init, Mail!Init
<1> QED
  BY <1>1, StepOfMail, Invariance, PTL DEF Spec, Mail!Safe
=============================================================================
