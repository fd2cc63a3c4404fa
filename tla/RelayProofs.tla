---------------------------- MODULE RelayProofs ----------------------------
(* Theorems about Relay, for any number of messages, processes, requests    *)
(* and faults.                                                             *)
EXTENDS Relay, TLAPS

-----------------------------------------------------------------------------
(* The inductive invariant.                                                *)

(* What a request is about to hand over are rows, and marked ones once it   *)
(* writes them.                                                            *)
HandsAreRows ==
  \A p \in Pollers : Active(p) =>
    /\ poller[p].hand \subseteq table
    /\ poller[p].pc \in {"history", "reply"} => poller[p].hand \subseteq sent

(* Only rows are published, delivered and kept in memory.                  *)
QueuedAreRows ==
  /\ News \subseteq table
  /\ \A q \in Processes : transit[q] \in Seq(table)
  /\ \A p \in Pollers : Active(p) => poller[p].mem \in Seq(table)

IInv == TypeOK /\ HandsAreRows /\ QueuedAreRows

(* The part of TypeOK about the requests that are registered.               *)
ReadersWait ==
  \A q \in Processes :
    reader[q] # Nobody => Registered(reader[q]) /\ poller[reader[q]].at = q

-----------------------------------------------------------------------------
(* Requests.                                                               *)

LEMMA RequestType ==
  ASSUME TypeOK, NEW p \in Pollers
  PROVE  /\ Active(p) => poller[p] \in Request
         /\ ~Active(p) => poller[p] = Idle
         /\ Active(p) <=> poller[p].pc \in {"query", "read", "history", "connect", "wait", "reply"}
  BY DEF TypeOK, Active, Request, Idle

LEMMA SeqOfMore ==
  ASSUME NEW S, NEW T, S \subseteq T, NEW s \in Seq(S)
  PROVE  s \in Seq(T)
  OBVIOUS

(* A request that does not wait is not registered.                         *)
LEMMA NotReader ==
  ASSUME TypeOK, NEW p \in Pollers, ~Registered(p)
  PROVE  \A q \in Processes : reader[q] # p
<1> SUFFICES ASSUME NEW q \in Processes, reader[q] = p PROVE FALSE
  OBVIOUS
<1>1. p # Nobody
  BY RelayAssumption
<1> QED
  BY <1>1 DEF TypeOK

(* A step of one request leaves the registrations of others alone.          *)
LEMMA ReadersStay ==
  ASSUME TypeOK, NEW p \in Pollers,
         \A q \in Pollers \ {p} : poller'[q] = poller[q],
         client'.streaming = client.streaming,
         \A q \in Processes :
           \/ reader'[q] \in {reader[q], Nobody} /\ reader'[q] # p
           \/ reader'[q] = p /\ poller'[p].pc = "wait" /\ poller'[p].at = q
  PROVE  ReadersWait'
<1> SUFFICES ASSUME NEW q \in Processes, reader'[q] # Nobody
             PROVE  /\ \/ poller'[reader'[q]].pc = "wait"
                       \/ poller'[reader'[q]].pc = "reply" /\ client'.streaming
                    /\ poller'[reader'[q]].at = q
  BY Zenon DEF ReadersWait, Registered
<1>1. CASE reader'[q] = p /\ poller'[p].pc = "wait" /\ poller'[p].at = q
  BY <1>1
<1>2. CASE reader'[q] = reader[q] /\ reader'[q] # p
  <2>1. reader[q] \in Pollers \ {p}
    BY <1>2 DEF TypeOK
  <2>2. Registered(reader[q]) /\ poller[reader[q]].at = q
    BY <2>1, RelayAssumption DEF TypeOK
  <2>3. poller'[reader[q]] = poller[reader[q]]
    BY <2>1
  <2> QED
    BY <1>2, <2>2, <2>3 DEF Registered
<1> QED
  BY <1>1, <1>2

LEMMA ReadStep ==
  ASSUME IInv, NEW p \in Pollers, Read(p)
  PROVE  IInv'
<1> DEFINE r == poller[p]
           s == poller'[p]
<1>1. r \in Request /\ r.pc = "query" /\ Visible(r.last) \subseteq table /\ table \subseteq Ids
  BY RequestType DEF IInv, TypeOK, Read, Active, Visible
<1>2. /\ s \in Request /\ s.pc \in {"connect", "read"} /\ s.hand \subseteq table
      /\ s.at = r.at /\ s.mem = r.mem
  BY <1>1 DEF IInv, TypeOK, Read, Become, Request
<1>3. /\ poller' \in [Pollers -> Request \cup {Idle}]
      /\ \A q \in Pollers \ {p} : poller'[q] = poller[q]
  BY <1>2 DEF IInv, TypeOK, Read, Become
<1>4. UNCHANGED <<table, sent, sender, ready, bound, reader, transit, draining, client,
                  received, late, unheard, missed, faults>>
  BY DEF Read, broker, risks
<1> HIDE DEF r, s
<1>5. TypeOK'
  <2>1. ReadersWait'
    BY <1>1, <1>3, <1>4 DEF IInv, TypeOK, ReadersWait, Registered, r
  <2> QED
    BY <1>3, <1>4, <2>1 DEF IInv, TypeOK, ReadersWait
<1>6. HandsAreRows'
  BY <1>1, <1>2, <1>3, <1>4 DEF IInv, HandsAreRows, Active, r, s
<1>7. QueuedAreRows'
  BY <1>1, <1>2, <1>3, <1>4 DEF IInv, QueuedAreRows, Active, News, r, s
<1> QED
  BY <1>5, <1>6, <1>7 DEF IInv

LEMMA MarkStep ==
  ASSUME IInv, NEW p \in Pollers, Mark(p)
  PROVE  IInv'
<1> DEFINE r == poller[p]
           s == poller'[p]
<1>1. r \in Request /\ r.pc = "read" /\ r.hand \subseteq table /\ Active(p)
  BY RequestType DEF IInv, TypeOK, Mark, Active, HandsAreRows
<1>2. /\ s \in Request /\ s.pc = "history" /\ s.hand = r.hand
      /\ s.at = r.at /\ s.mem = r.mem
  BY <1>1 DEF IInv, TypeOK, Mark, Become, Request
<1>3. /\ poller' \in [Pollers -> Request \cup {Idle}]
      /\ \A q \in Pollers \ {p} : poller'[q] = poller[q]
  BY <1>2 DEF IInv, TypeOK, Mark, Become
<1>4. /\ UNCHANGED <<table, sender, ready, bound, reader, transit, draining, client,
                     received, late, unheard, missed, faults>>
      /\ sent' = sent \cup r.hand
  BY DEF Mark, broker, risks
<1> HIDE DEF r, s
<1>5. TypeOK'
  <2>1. ReadersWait'
    BY <1>1, <1>3, <1>4 DEF IInv, TypeOK, ReadersWait, Registered, r
  <2> QED
    BY <1>1, <1>3, <1>4, <2>1 DEF IInv, TypeOK, ReadersWait, r
<1>6. HandsAreRows'
  BY <1>1, <1>2, <1>3, <1>4 DEF IInv, HandsAreRows, Active, r, s
<1>7. QueuedAreRows'
  BY <1>1, <1>2, <1>3, <1>4 DEF IInv, QueuedAreRows, Active, News, r, s
<1> QED
  BY <1>5, <1>6, <1>7 DEF IInv

LEMMA RegisterStep ==
  ASSUME IInv, NEW p \in Pollers, Register(p)
  PROVE  IInv'
<1> DEFINE r == poller[p]
           s == poller'[p]
<1>1. /\ r \in Request /\ r.pc = "connect" /\ r.at \in Processes /\ Active(p)
      /\ r.hand \subseteq table
  BY RequestType DEF IInv, TypeOK, Register, Active, HandsAreRows, Request
<1>2. /\ s \in Request /\ s.pc = "wait" /\ s.hand = r.hand
      /\ s.at = r.at /\ s.mem = r.mem
  BY <1>1 DEF IInv, TypeOK, Register, Become, Request
<1>3. /\ poller' \in [Pollers -> Request \cup {Idle}]
      /\ \A q \in Pollers \ {p} : poller'[q] = poller[q]
  BY <1>2 DEF IInv, TypeOK, Register, Become
<1>4. /\ UNCHANGED <<table, sent, sender, ready, transit, draining, client,
                     received, late, unheard, missed, faults>>
      /\ bound' \subseteq ready
      /\ reader' = [reader EXCEPT ![r.at] = p]
  BY DEF Register, risks, IInv, TypeOK
<1> HIDE DEF r, s
<1>5. TypeOK'
  <2>1. ReadersWait'
    <3>1. \A q \in Processes : reader'[q] = IF q = r.at THEN p ELSE reader[q]
      BY <1>4 DEF IInv, TypeOK
    <3>2. \A q \in Processes : reader[q] # p
      BY <1>1, NotReader DEF IInv, Registered, r
    <3>3. poller'[p].pc = "wait" /\ poller'[p].at = r.at /\ client' = client
      BY <1>2, <1>4 DEF s
    <3> QED
      BY <1>3, <3>1, <3>2, <3>3, ReadersStay DEF IInv
  <2> QED
    BY <1>1, <1>3, <1>4, <2>1 DEF IInv, TypeOK, ReadersWait, r
<1>6. HandsAreRows'
  BY <1>1, <1>2, <1>3, <1>4 DEF IInv, HandsAreRows, Active, r, s
<1>7. QueuedAreRows'
  BY <1>1, <1>2, <1>3, <1>4 DEF IInv, QueuedAreRows, Active, News, r, s
<1> QED
  BY <1>5, <1>6, <1>7 DEF IInv

(* A request that ends, and gives up the queue of its process if it held it. *)
LEMMA EndStep ==
  ASSUME IInv, NEW p \in Pollers, Active(p), Become(p, Idle),
         \/ Unregister(poller[p].at)
         \/ ~Registered(p) /\ UNCHANGED <<ready, bound, reader, transit>>,
         client' \in [conn : Pollers \cup {Nobody}, cursor : Ids \cup {None},
                      streaming : {client.streaming}],
         UNCHANGED <<table, sent, sender, draining>>,
         received' \subseteq sent, faults' \in 0 .. MaxFaults,
         late' \cup unheard' \cup missed' \subseteq table
  PROVE  IInv'
<1> DEFINE r == poller[p]
<1>1. r \in Request /\ r.at \in Processes /\ poller' = [poller EXCEPT ![p] = Idle]
  BY RequestType DEF IInv, Request, Become
<1>2. /\ poller' \in [Pollers -> Request \cup {Idle}]
      /\ poller'[p] = Idle /\ Idle.pc = "idle"
      /\ \A q \in Pollers \ {p} : poller'[q] = poller[q]
  BY <1>1 DEF IInv, TypeOK, Idle
<1>3. /\ ready' = ready /\ transit' = transit /\ bound' \subseteq bound
      /\ reader' \in [Processes -> Pollers \cup {Nobody}]
      /\ \A q \in Processes : reader'[q] \in {reader[q], Nobody} \ {p}
  <2>1. CASE Unregister(r.at)
    BY <1>1, <2>1, RelayAssumption DEF Unregister, IInv, TypeOK
  <2>2. CASE ~Registered(p) /\ UNCHANGED <<ready, bound, reader, transit>>
    BY <2>2, RelayAssumption DEF IInv, TypeOK
  <2> QED
    BY <2>1, <2>2
<1>4. client.streaming \in BOOLEAN /\ client'.streaming = client.streaming
  BY DEF IInv, TypeOK
<1>5. TypeOK'
  <2>1. ReadersWait'
    BY <1>2, <1>3, <1>4, ReadersStay DEF IInv
  <2> QED
    BY <1>2, <1>3, <1>4, <2>1 DEF IInv, TypeOK, ReadersWait
<1>6. HandsAreRows'
  <2> SUFFICES ASSUME NEW q \in Pollers, Active(q)'
               PROVE  /\ poller'[q].hand \subseteq table
                      /\ poller'[q].pc \in {"history", "reply"} => poller'[q].hand \subseteq sent
    BY DEF HandsAreRows
  <2>1. poller'[q] = poller[q] /\ Active(q)
    BY <1>2 DEF Active
  <2> QED
    BY <2>1 DEF IInv, HandsAreRows
<1>7. QueuedAreRows'
  <2>1. \A q \in Pollers : Active(q)' => poller'[q] = poller[q] /\ Active(q)
    BY <1>2 DEF Active
  <2> QED
    BY <1>3, <2>1 DEF IInv, QueuedAreRows, News
<1> QED
  BY <1>5, <1>6, <1>7 DEF IInv

LEMMA QuitStep ==
  ASSUME IInv, NEW p \in Pollers, Quit(p)
  PROVE  IInv'
<1>1. /\ Active(p) /\ Become(p, Idle) /\ Unregister(poller[p].at)
      /\ UNCHANGED <<table, sent, sender, draining, received, late, unheard, missed, faults>>
      /\ client' = IF client.conn = p THEN [client EXCEPT !.conn = Nobody] ELSE client
  BY DEF Quit, End, Active, risks
<1>2. client' \in [conn : Pollers \cup {Nobody}, cursor : Ids \cup {None},
                   streaming : {client.streaming}]
  BY <1>1 DEF IInv, TypeOK
<1> QED
  BY <1>1, <1>2, EndStep DEF IInv, TypeOK

LEMMA CancelStep ==
  ASSUME IInv, NEW p \in Pollers, Cancel(p)
  PROVE  IInv'
<1>1. /\ Active(p) /\ Become(p, Idle)
      /\ UNCHANGED <<table, sent, sender, draining, client, received, late, unheard, faults>>
      /\ missed' = missed \cup Gone(poller[p].hand)
      /\ \/ Unregister(poller[p].at)
         \/ ~Registered(p) /\ UNCHANGED <<ready, bound, reader, transit>>
  BY DEF Cancel, broker
<1>2. client' \in [conn : Pollers \cup {Nobody}, cursor : Ids \cup {None},
                   streaming : {client.streaming}]
  BY <1>1 DEF IInv, TypeOK
<1>3. late' \cup unheard' \cup missed' \subseteq table
  BY <1>1 DEF IInv, TypeOK, Gone
<1> QED
  BY <1>1, <1>2, <1>3, EndStep DEF IInv, TypeOK

LEMMA TakeStep ==
  ASSUME IInv, NEW p \in Pollers, Take(p)
  PROVE  IInv'
<1> DEFINE r == poller[p]
           m == Head(r.mem)
           s == poller'[p]
<1>1. /\ r \in Request /\ r.pc = "wait" /\ Active(p) /\ Registered(p)
      /\ r.mem \in Seq(table) /\ r.mem # <<>> /\ r.at \in Processes
  BY RequestType DEF IInv, TypeOK, Take, Active, Registered, QueuedAreRows, Request
<1>2. /\ m \in table /\ m \in Ids /\ Tail(r.mem) \in Seq(table)
      /\ table \subseteq Ids /\ Tail(r.mem) \in Seq(Ids)
  BY <1>1, SeqOfMore DEF IInv, TypeOK
<1>3. CASE ~client.streaming /\ End(p) /\ Unregister(r.at) /\ UNCHANGED sent
  <2>1. /\ Become(p, Idle)
        /\ UNCHANGED <<table, sent, sender, draining, received, late, unheard, missed, faults>>
        /\ client' = IF client.conn = p THEN [client EXCEPT !.conn = Nobody] ELSE client
    BY <1>3 DEF Take, End, risks
  <2>2. client' \in [conn : Pollers \cup {Nobody}, cursor : Ids \cup {None},
                     streaming : {client.streaming}]
    BY <2>1 DEF IInv, TypeOK
  <2> QED
    BY <1>1, <1>3, <2>1, <2>2, EndStep DEF IInv, TypeOK
<1>4. CASE /\ UNCHANGED <<client, broker>>
           /\ \/ Become(p, [r EXCEPT !.mem = Tail(@)]) /\ UNCHANGED sent
              \/ /\ Become(p, [r EXCEPT !.mem = Tail(@), !.pc = "reply", !.hand = {m}])
                 /\ sent' = sent \cup {m}
                 /\ client.streaming
  <2>1. /\ s \in Request /\ s.at = r.at /\ s.mem = Tail(r.mem)
        /\ s.pc = "wait" \/ (s.pc = "reply" /\ client.streaming)
        /\ s.hand \in {r.hand, {m}} /\ (s.pc = "reply" => s.hand = {m} /\ m \in sent')
        /\ poller' \in [Pollers -> Request \cup {Idle}]
        /\ \A q \in Pollers \ {p} : poller'[q] = poller[q]
    <3>1. CASE Become(p, [r EXCEPT !.mem = Tail(@)])
      <4>1. s = [r EXCEPT !.mem = Tail(@)] /\ s \in Request
        BY <1>1, <1>2, <3>1 DEF IInv, TypeOK, Become, Request
      <4> QED
        BY <1>1, <3>1, <4>1 DEF IInv, TypeOK, Become, Request
    <3>2. CASE /\ Become(p, [r EXCEPT !.mem = Tail(@), !.pc = "reply", !.hand = {m}])
               /\ sent' = sent \cup {m} /\ client.streaming
      <4>1. /\ s = [r EXCEPT !.mem = Tail(@), !.pc = "reply", !.hand = {m}]
            /\ s \in Request
        BY <1>1, <1>2, <3>2 DEF IInv, TypeOK, Become, Request
      <4> QED
        BY <1>1, <3>2, <4>1 DEF IInv, TypeOK, Become, Request
    <3> QED
      BY <1>4, <3>1, <3>2
  <2>2. /\ UNCHANGED <<table, sender, ready, bound, reader, transit, draining, client,
                       received, late, unheard, missed, faults>>
        /\ sent' \in {sent, sent \cup {m}}
    BY <1>4 DEF Take, broker, risks
  <2> HIDE DEF r, s, m
  <2>3. TypeOK'
    <3>1. ReadersWait'
      <4>1. \A q \in Pollers : /\ Registered(q) => Registered(q)'
                               /\ poller'[q].at = poller[q].at
        BY <1>1, <2>1, <2>2 DEF Registered, r, s
      <4> QED
        BY <2>2, <4>1 DEF IInv, TypeOK, ReadersWait, Registered
    <3> QED
      BY <1>2, <2>1, <2>2, <3>1 DEF IInv, TypeOK, ReadersWait
  <2>4. HandsAreRows'
    BY <1>1, <1>2, <2>1, <2>2 DEF IInv, HandsAreRows, Active, r, s
  <2>5. QueuedAreRows'
    BY <1>1, <1>2, <2>1, <2>2 DEF IInv, QueuedAreRows, Active, News, r, s
  <2> QED
    BY <2>3, <2>4, <2>5 DEF IInv
<1>5. CASE /\ Become(p, [r EXCEPT !.mem = Tail(@), !.pc = "reply", !.hand = {m}])
           /\ sent' = sent \cup {m}
           /\ Unregister(r.at)
           /\ UNCHANGED client
  <2>1. /\ s \in Request /\ s.mem = Tail(r.mem) /\ s.hand = {m}
        /\ poller' \in [Pollers -> Request \cup {Idle}]
        /\ \A q \in Pollers \ {p} : poller'[q] = poller[q]
    BY <1>1, <1>2, <1>5 DEF IInv, TypeOK, Become, Request
  <2>2. /\ UNCHANGED <<table, sender, ready, transit, draining, client,
                       received, late, unheard, missed, faults>>
        /\ sent' = sent \cup {m} /\ bound' \subseteq bound
        /\ reader' \in [Processes -> Pollers \cup {Nobody}]
        /\ \A q \in Processes : reader'[q] \in {reader[q], Nobody} \ {p}
    BY <1>1, <1>5, RelayAssumption DEF Take, Unregister, risks, IInv, TypeOK
  <2> HIDE DEF r, s, m
  <2>3. TypeOK'
    <3>1. ReadersWait'
      BY <2>1, <2>2, ReadersStay DEF IInv
    <3> QED
      BY <1>2, <2>1, <2>2, <3>1 DEF IInv, TypeOK, ReadersWait
  <2>4. HandsAreRows'
    BY <1>1, <1>2, <2>1, <2>2 DEF IInv, HandsAreRows, Active, r, s
  <2>5. QueuedAreRows'
    BY <1>1, <1>2, <2>1, <2>2 DEF IInv, QueuedAreRows, Active, News, r, s
  <2> QED
    BY <2>3, <2>4, <2>5 DEF IInv
<1> QED
  BY <1>3, <1>4, <1>5 DEF Take

LEMMA ConnectStep ==
  ASSUME IInv, NEW p \in Pollers, NEW d \in Processes, Connect(p, d)
  PROVE  IInv'
<1> DEFINE s == poller'[p]
<1>1. /\ poller[p].pc = "idle" /\ client.cursor \in Ids \cup {None}
  BY DEF IInv, TypeOK, Connect, Active
<1>2. /\ s \in Request /\ s.pc = "query" /\ s.hand = {} /\ s.mem = <<>> /\ s.mem \in Seq(table)
      /\ poller' \in [Pollers -> Request \cup {Idle}]
      /\ \A q \in Pollers \ {p} : poller'[q] = poller[q]
  BY <1>1 DEF IInv, TypeOK, Connect, Become, Request
<1>3. /\ UNCHANGED <<table, sent, sender, ready, bound, reader, transit, draining,
                     received, late, unheard, missed, faults>>
      /\ client' \in [conn : Pollers \cup {Nobody}, cursor : Ids \cup {None}, streaming : BOOLEAN]
      /\ client'.streaming = client.streaming
  BY DEF Connect, broker, risks, IInv, TypeOK
<1> HIDE DEF s
<1>4. TypeOK'
  <2>1. ReadersWait'
    <3>1. \A q \in Processes : reader[q] # p
      BY <1>1, NotReader DEF IInv, Registered
    <3> QED
      BY <1>2, <1>3, <3>1, ReadersStay DEF IInv
  <2> QED
    BY <1>2, <1>3, <2>1 DEF IInv, TypeOK, ReadersWait
<1>5. HandsAreRows'
  BY <1>2, <1>3 DEF IInv, HandsAreRows, Active, s
<1>6. QueuedAreRows'
  BY <1>2, <1>3 DEF IInv, QueuedAreRows, Active, News, s
<1> QED
  BY <1>4, <1>5, <1>6 DEF IInv

LEMMA ReplyStep ==
  ASSUME IInv, NEW p \in Pollers, NEW last \in Ids, Reply(p, last)
  PROVE  IInv'
<1> DEFINE r == poller[p]
           s == poller'[p]
<1>1. /\ r \in Request /\ r.pc \in {"history", "reply"} /\ Active(p)
      /\ r.hand \subseteq sent /\ sent \subseteq table /\ table \subseteq Ids
      /\ r.mem \in Seq(table)
  BY RequestType DEF IInv, TypeOK, Reply, Active, HandsAreRows, QueuedAreRows
<1>2. PICK newest \in Newest(r.hand) :
        Become(p, IF ~client.streaming THEN Idle
                  ELSE [r EXCEPT !.pc = IF @ = "history" THEN "connect" ELSE "wait",
                                 !.last = newest, !.hand = {}])
  BY DEF Reply
<1>3. /\ client.streaming => /\ s \in Request /\ s.hand = {}
                             /\ s.pc = IF r.pc = "history" THEN "connect" ELSE "wait"
                             /\ s.at = r.at /\ s.mem = r.mem
      /\ ~client.streaming => s = Idle /\ s.pc = "idle"
  <2>1. newest \in Ids
    BY <1>1 DEF Newest
  <2> QED
    BY <1>1, <1>2, <2>1 DEF IInv, TypeOK, Become, Request, Idle
<1>4. /\ poller' \in [Pollers -> Request \cup {Idle}]
      /\ \A q \in Pollers \ {p} : poller'[q] = poller[q]
  BY <1>2, <1>3 DEF IInv, TypeOK, Become
<1>5. /\ UNCHANGED <<table, sent, sender, ready, bound, reader, transit, draining,
                     late, unheard, faults>>
      /\ received' \subseteq sent
      /\ missed' \subseteq table
      /\ client' \in [conn : Pollers \cup {Nobody}, cursor : Ids \cup {None}, streaming : BOOLEAN]
      /\ client'.streaming = client.streaming
  BY <1>1 DEF Reply, broker, Gone, IInv, TypeOK
<1> HIDE DEF r, s
<1>6. TypeOK'
  <2>1. \A q \in Pollers : Registered(q) => /\ Registered(q)'
                                            /\ poller'[q].at = poller[q].at
    BY <1>1, <1>3, <1>4, <1>5 DEF Registered, r, s
  <2>2. ReadersWait'
    BY <1>5, <2>1 DEF IInv, TypeOK, ReadersWait, Registered
  <2> QED
    BY <1>4, <1>5, <2>2 DEF IInv, TypeOK, ReadersWait
<1>7. HandsAreRows'
  BY <1>3, <1>4, <1>5 DEF IInv, HandsAreRows, Active, r, s
<1>8. QueuedAreRows'
  BY <1>1, <1>3, <1>4, <1>5 DEF IInv, QueuedAreRows, Active, News, r, s
<1> QED
  BY <1>6, <1>7, <1>8 DEF IInv

-----------------------------------------------------------------------------
(* Senders, the broker and failures.                                       *)

LEMMA PostStep ==
  ASSUME IInv, NEW m \in Ids, NEW d \in Processes, Post(m, d)
  PROVE  IInv'
<1>1. /\ UNCHANGED <<sent, ready, bound, reader, transit, poller, draining, client,
                     received, unheard, missed, faults>>
      /\ table' = table \cup {m} /\ late' \in {late, late \cup {m}}
      /\ sender' = [sender EXCEPT ![m] = d]
  BY DEF Post, broker
<1>2. TypeOK'
  <2>1. ReadersWait'
    BY <1>1 DEF IInv, TypeOK, ReadersWait, Registered
  <2> QED
    BY <1>1, <2>1 DEF IInv, TypeOK, ReadersWait
<1>3. HandsAreRows'
  BY <1>1 DEF IInv, HandsAreRows, Active
<1>4. QueuedAreRows'
  <2>1. News' \subseteq table'
    BY <1>1 DEF IInv, TypeOK, QueuedAreRows, News
  <2>2. Seq(table) \subseteq Seq(table')
    BY <1>1, SeqOfMore
  <2> QED
    BY <1>1, <2>1, <2>2 DEF IInv, QueuedAreRows, Active
<1> QED
  BY <1>2, <1>3, <1>4 DEF IInv

LEMMA PublishStep ==
  ASSUME IInv, NEW m \in Ids, Publish(m)
  PROVE  IInv'
<1>1. /\ UNCHANGED <<table, sent, ready, bound, reader, poller, draining, client,
                     received, missed, faults>>
      /\ m \in table /\ News \subseteq table
      /\ sender' = [sender EXCEPT ![m] = Nobody]
      /\ transit' = [q \in Processes |-> IF q \in bound THEN Append(transit[q], m)
                                         ELSE transit[q]]
  BY DEF Publish, IInv, QueuedAreRows
<1>2. \A q \in Processes : transit'[q] \in Seq(table)
  BY <1>1 DEF IInv, QueuedAreRows
<1>3. late' \cup unheard' \subseteq table
  BY <1>1 DEF Publish, IInv, TypeOK
<1>4. TypeOK'
  <2>1. ReadersWait'
    BY <1>1 DEF IInv, TypeOK, ReadersWait, Registered
  <2>2. transit' \in [Processes -> Seq(Ids)]
    BY <1>1, <1>2, SeqOfMore DEF IInv, TypeOK
  <2> QED
    BY <1>1, <1>3, <2>1, <2>2 DEF IInv, TypeOK, ReadersWait
<1>5. HandsAreRows'
  BY <1>1 DEF IInv, HandsAreRows, Active
<1>6. QueuedAreRows'
  BY <1>1, <1>2 DEF IInv, TypeOK, QueuedAreRows, Active, News
<1> QED
  BY <1>4, <1>5, <1>6 DEF IInv

LEMMA PublishFailsStep ==
  ASSUME IInv, NEW m \in Ids, PublishFails(m)
  PROVE  IInv'
<1>1. /\ UNCHANGED <<table, sent, ready, bound, reader, transit, poller, draining, client,
                     received, late, missed>>
      /\ m \in table
      /\ sender' = [sender EXCEPT ![m] = Nobody]
      /\ unheard' = unheard \cup ({m} \ received)
      /\ faults' \in 0 .. MaxFaults
  BY RelayAssumption DEF PublishFails, broker, IInv, TypeOK, QueuedAreRows
<1>2. TypeOK'
  <2>1. ReadersWait'
    BY <1>1 DEF IInv, TypeOK, ReadersWait, Registered
  <2> QED
    BY <1>1, <2>1 DEF IInv, TypeOK, ReadersWait
<1>3. HandsAreRows'
  BY <1>1 DEF IInv, HandsAreRows, Active
<1>4. QueuedAreRows'
  BY <1>1 DEF IInv, TypeOK, QueuedAreRows, Active, News
<1> QED
  BY <1>2, <1>3, <1>4 DEF IInv

LEMMA DispatchStep ==
  ASSUME IInv, NEW q \in Processes, Dispatch(q)
  PROVE  IInv'
<1> DEFINE m == Head(transit[q])
           p == reader[q]
<1>1. /\ UNCHANGED <<table, sent, sender, ready, bound, reader, draining, client,
                     received, late, missed, faults>>
      /\ m \in table /\ transit[q] \in Seq(table) /\ transit[q] # <<>>
      /\ Tail(transit[q]) \in Seq(table)
      /\ transit' = [transit EXCEPT ![q] = Tail(@)]
      /\ unheard' \subseteq unheard \cup {m}
      /\ p \in Pollers \cup {Nobody}
      /\ table \subseteq Ids
  BY DEF Dispatch, IInv, TypeOK, QueuedAreRows
<1>2. /\ poller' \in [Pollers -> Request \cup {Idle}]
      /\ \A k \in Pollers : /\ poller'[k].pc = poller[k].pc
                            /\ poller'[k].at = poller[k].at
                            /\ Active(k) => /\ poller'[k].hand = poller[k].hand
                                            /\ poller'[k].mem \in Seq(table)
  <2>1. CASE p = Nobody
    BY <1>1, <2>1 DEF Dispatch, IInv, TypeOK, QueuedAreRows
  <2>2. CASE p \in Pollers /\ p # Nobody
    <3>1. /\ Active(p) /\ poller[p] \in Request /\ poller[p].mem \in Seq(table)
      BY <2>2, RequestType DEF IInv, TypeOK, Registered, Active, QueuedAreRows
    <3>2. Append(poller[p].mem, m) \in Seq(table) /\ Append(poller[p].mem, m) \in Seq(Ids)
      BY <1>1, <3>1, SeqOfMore
    <3>3. poller' = [poller EXCEPT ![p].mem = Append(@, m)]
      BY <2>2 DEF Dispatch
    <3>4. /\ poller'[p] = [poller[p] EXCEPT !.mem = Append(@, m)] /\ poller'[p] \in Request
          /\ \A k \in Pollers \ {p} : poller'[k] = poller[k]
      BY <2>2, <3>1, <3>2, <3>3 DEF IInv, TypeOK, Request
    <3>5. /\ poller'[p].pc = poller[p].pc /\ poller'[p].at = poller[p].at
          /\ poller'[p].hand = poller[p].hand
          /\ poller'[p].mem \in Seq(table)
      BY <3>1, <3>2, <3>4 DEF Request
    <3>6. poller' \in [Pollers -> Request \cup {Idle}]
      BY <3>3, <3>4 DEF IInv, TypeOK
    <3> HIDE DEF p, m
    <3> QED
      BY <3>4, <3>5, <3>6 DEF IInv, QueuedAreRows
  <2> QED
    BY <1>1, <2>1, <2>2
<1> HIDE DEF m, p
<1>3. TypeOK'
  <2>1. ReadersWait'
    BY <1>1, <1>2 DEF IInv, TypeOK, ReadersWait, Registered
  <2>2. transit' \in [Processes -> Seq(Ids)]
    BY <1>1, SeqOfMore DEF IInv, TypeOK
  <2> QED
    BY <1>1, <1>2, <2>1, <2>2 DEF IInv, TypeOK, ReadersWait
<1>4. HandsAreRows'
  BY <1>1, <1>2 DEF IInv, HandsAreRows, Active
<1>5. QueuedAreRows'
  BY <1>1, <1>2 DEF IInv, TypeOK, QueuedAreRows, Active, News
<1> QED
  BY <1>3, <1>4, <1>5 DEF IInv

(* Steps that change a process or the recipient, and no message.            *)
LEMMA OtherStep ==
  ASSUME IInv,
         UNCHANGED <<table, sent, sender, bound, reader, transit, poller, received, late, unheard>>,
         ready \subseteq ready', ready' \subseteq Processes, draining' \subseteq Processes,
         client' \in [conn : Pollers \cup {Nobody}, cursor : Ids \cup {None}, streaming : BOOLEAN],
         client'.streaming = client.streaming,
         missed' \subseteq table, faults' \in 0 .. MaxFaults
  PROVE  IInv'
<1>1. TypeOK'
  <2>1. ReadersWait'
    BY DEF IInv, TypeOK, ReadersWait, Registered
  <2> QED
    BY <2>1 DEF IInv, TypeOK, ReadersWait
<1>2. HandsAreRows'
  BY DEF IInv, HandsAreRows, Active
<1>3. QueuedAreRows'
  BY DEF IInv, QueuedAreRows, Active, News
<1> QED
  BY <1>1, <1>2, <1>3 DEF IInv

LEMMA BrokerStep ==
  ASSUME IInv, NEW q \in Processes, Connected(q) \/ Drain(q)
  PROVE  IInv'
<1>1. /\ UNCHANGED <<table, sent, sender, bound, reader, transit, poller, client,
                     received, late, unheard, missed, faults>>
      /\ ready \subseteq ready' /\ ready' \subseteq Processes /\ draining' \subseteq Processes
  BY DEF Connected, Drain, broker, risks, IInv, TypeOK
<1> QED
  BY <1>1, OtherStep DEF IInv, TypeOK

LEMMA FaultStep ==
  ASSUME IInv, Break \/ Restart
  PROVE  IInv'
<1>1. /\ UNCHANGED <<table, sent, sender, ready, bound, reader, transit, poller, draining,
                     received, late, unheard>>
      /\ missed' \in {missed, missed \cup ((sent \cup Held) \ received)}
      /\ faults' \in 0 .. MaxFaults
  BY RelayAssumption DEF Break, Restart, broker, risks, IInv, TypeOK
<1>2. Held \subseteq table
  BY DEF Held, IInv, HandsAreRows
<1>3. missed' \subseteq table
  BY <1>1, <1>2 DEF IInv, TypeOK
<1>4. client' \in [conn : {Nobody}, cursor : Ids \cup {None}, streaming : {client.streaming}]
  BY DEF Break, Restart, IInv, TypeOK
<1>5. /\ client' \in [conn : Pollers \cup {Nobody}, cursor : Ids \cup {None}, streaming : BOOLEAN]
      /\ client'.streaming = client.streaming
  BY <1>4 DEF IInv, TypeOK
<1> QED
  BY <1>1, <1>3, <1>5, OtherStep DEF IInv, TypeOK

-----------------------------------------------------------------------------
(* The invariant.                                                          *)

LEMMA InitIInv == Init => IInv
<1> SUFFICES ASSUME Init PROVE IInv
  OBVIOUS
<1>1. TypeOK
  BY RelayAssumption DEF Init, TypeOK, Idle, None
<1>2. \A p \in Pollers : ~Active(p)
  BY DEF Init, Active, Idle
<1>3. News = {} /\ \A q \in Processes : transit[q] \in Seq(table)
  BY DEF Init, News
<1> QED
  BY <1>1, <1>2, <1>3 DEF IInv, HandsAreRows, QueuedAreRows

LEMMA NextIInv == IInv /\ [Next]_vars => IInv'
<1> SUFFICES ASSUME IInv, [Next]_vars PROVE IInv'
  OBVIOUS
<1>1. ASSUME NEW m \in Ids, Sending(m) PROVE IInv'
  BY <1>1, PublishStep, PublishFailsStep DEF Sending
<1>2. ASSUME NEW m \in Ids, NEW q \in Processes, Post(m, q) PROVE IInv'
  BY <1>2, PostStep
<1>3. ASSUME NEW q \in Processes, Connected(q) \/ Dispatch(q) \/ Drain(q) PROVE IInv'
  BY <1>3, BrokerStep, DispatchStep
<1>4. CASE Reconnect
  BY <1>4, ConnectStep DEF Reconnect
<1>5. ASSUME NEW p \in Pollers, PollerStep(p) \/ Cancel(p) PROVE IInv'
  <2>1. ASSUME NEW last \in Ids, Reply(p, last) PROVE IInv'
    BY <2>1, ReplyStep
  <2> QED
    BY <1>5, <2>1, ReadStep, MarkStep, RegisterStep, TakeStep, QuitStep, CancelStep DEF PollerStep
<1>6. CASE Break \/ Restart
  BY <1>6, FaultStep
<1>7. CASE UNCHANGED vars
  <2>1. /\ UNCHANGED <<table, sent, sender, ready, bound, reader, transit, poller, draining,
                       client, received, late, unheard, missed, faults>>
    BY <1>7 DEF vars, broker, risks
  <2> QED
    BY <2>1, OtherStep DEF IInv, TypeOK
<1> QED
  BY <1>1, <1>2, <1>3, <1>4, <1>5, <1>6, <1>7 DEF Next

THEOREM Invariance == Spec => []IInv
  BY InitIInv, NextIInv, PTL DEF Spec

(* Only a request that is there is registered for its process's queue,      *)
(* however requests take the name over, end or are cancelled: nothing is   *)
(* delivered into the memory of one that is gone.                          *)
THEOREM TypeCorrect == Spec => []TypeOK
<1>1. IInv => TypeOK
  BY DEF IInv
<1> QED
  BY <1>1, Invariance, PTL

-----------------------------------------------------------------------------
(* The mailbox.                                                            *)

(* What puts rows at risk that are not received.                           *)
LEMMA RiskOfMail ==
  ASSUME IInv, UNCHANGED <<table, received>>,
         NEW ms, ms \subseteq table \ received,
         late' \cup unheard' \cup missed' = (late \cup unheard \cup missed) \cup ms
  PROVE  Mail!Next
<1>1. ms \in SUBSET Ids
  BY DEF IInv, TypeOK
<1>2. Mail!Risk(ms)
  BY DEF Mail!Risk
<1> QED
  BY <1>1, <1>2 DEF Mail!Next

LEMMA PostOfMail ==
  ASSUME NEW m \in Ids, NEW q \in Processes, Post(m, q)
  PROVE  Mail!Next
<1>1. Mail!Post(m)
  BY DEF Post, Mail!Post
<1> QED
  BY <1>1 DEF Mail!Next

LEMMA SendingOfMail ==
  ASSUME IInv, NEW m \in Ids, Sending(m)
  PROVE  Mail!Next
<1>1. m \in table /\ News \subseteq table
  BY DEF Sending, Publish, PublishFails, News, IInv, QueuedAreRows
<1> DEFINE overtaken == {k \in News : k < m} \ received
           overtakes == {k \in {m} \ received : \E l \in table \ News : l > m}
           unheardOf == {m} \ received
<1>2. CASE Publish(m)
  <2>1. CASE Deaf
    <3> DEFINE ms == overtaken \cup overtakes \cup unheardOf
    <3>1. /\ UNCHANGED <<table, received>> /\ ms \subseteq table \ received
          /\ late' \cup unheard' \cup missed' = (late \cup unheard \cup missed) \cup ms
      BY <1>1, <1>2, <2>1 DEF Publish
    <3> QED
      BY <3>1, RiskOfMail
  <2>2. CASE ~Deaf
    <3> DEFINE ms == overtaken \cup overtakes
    <3>1. /\ UNCHANGED <<table, received>> /\ ms \subseteq table \ received
          /\ late' \cup unheard' \cup missed' = (late \cup unheard \cup missed) \cup ms
      BY <1>1, <1>2, <2>2 DEF Publish
    <3> QED
      BY <3>1, RiskOfMail
  <2> QED
    BY <2>1, <2>2
<1>3. CASE PublishFails(m)
  <2>1. /\ UNCHANGED <<table, received>> /\ unheardOf \subseteq table \ received
        /\ late' \cup unheard' \cup missed' = (late \cup unheard \cup missed) \cup unheardOf
    BY <1>1, <1>3 DEF PublishFails
  <2> QED
    BY <2>1, RiskOfMail
<1> QED
  BY <1>2, <1>3 DEF Sending

LEMMA DispatchOfMail ==
  ASSUME IInv, NEW q \in Processes, Dispatch(q)
  PROVE  Mail!Next
<1> DEFINE m == Head(transit[q])
           ms == IF Deaf /\ poller[client.conn].at = q THEN {m} \ received ELSE {}
<1>1. m \in table
  BY DEF Dispatch, IInv, QueuedAreRows
<1>2. /\ UNCHANGED <<table, received, late, missed>>
      /\ unheard' = unheard \cup ms
  BY DEF Dispatch
<1> HIDE DEF m
<1>3. /\ ms \subseteq table \ received
      /\ late' \cup unheard' \cup missed' = (late \cup unheard \cup missed) \cup ms
  BY <1>1, <1>2
<1> HIDE DEF ms
<1> QED
  BY <1>2, <1>3, RiskOfMail

LEMMA ReplyOfMail ==
  ASSUME IInv, NEW p \in Pollers, NEW last \in Ids, Reply(p, last)
  PROVE  Mail!Next
<1>1. /\ poller[p].hand \subseteq table /\ poller[p].hand \in SUBSET Ids
      /\ UNCHANGED <<table, late, unheard>>
  BY RequestType DEF IInv, TypeOK, Reply, Active, HandsAreRows
<1>2. CASE client.conn = p
  <2>1. Mail!Receive(poller[p].hand)
    BY <1>1, <1>2 DEF Reply, Mail!Receive
  <2> QED
    BY <1>1, <2>1 DEF Mail!Next
<1>3. CASE client.conn # p
  <2>1. /\ UNCHANGED <<table, received>> /\ Gone(poller[p].hand) \subseteq table \ received
        /\ late' \cup unheard' \cup missed' = (late \cup unheard \cup missed) \cup Gone(poller[p].hand)
    BY <1>1, <1>3 DEF Reply, Gone
  <2> QED
    BY <2>1, RiskOfMail
<1> QED
  BY <1>2, <1>3

LEMMA CancelOfMail ==
  ASSUME IInv, NEW p \in Pollers, Cancel(p)
  PROVE  Mail!Next
<1>1. /\ UNCHANGED <<table, received>> /\ Gone(poller[p].hand) \subseteq table \ received
      /\ late' \cup unheard' \cup missed' = (late \cup unheard \cup missed) \cup Gone(poller[p].hand)
  BY DEF Cancel, Gone, IInv, TypeOK
<1> QED
  BY <1>1, RiskOfMail

LEMMA RestartOfMail ==
  ASSUME IInv, Restart
  PROVE  Mail!Next
<1> DEFINE ms == (sent \cup Held) \ received
<1>1. /\ UNCHANGED <<table, received>> /\ ms \subseteq table \ received
      /\ late' \cup unheard' \cup missed' = (late \cup unheard \cup missed) \cup ms
  BY DEF Restart, Held, IInv, TypeOK, HandsAreRows
<1> QED
  BY <1>1, RiskOfMail

LEMMA StepOfMail == IInv /\ [Next]_vars => [Mail!Next]_(Mail!vars)
<1> SUFFICES ASSUME IInv, [Next]_vars PROVE [Mail!Next]_(Mail!vars)
  OBVIOUS
<1>1. ASSUME UNCHANGED <<table, received, late, unheard, missed>> PROVE UNCHANGED Mail!vars
  BY <1>1 DEF Mail!vars
<1>2. ASSUME NEW m \in Ids, NEW q \in Processes, Post(m, q) PROVE Mail!Next
  BY <1>2, PostOfMail
<1>3. ASSUME NEW m \in Ids, Sending(m) PROVE Mail!Next
  BY <1>3, SendingOfMail
<1>4. ASSUME NEW q \in Processes, Connected(q) \/ Dispatch(q) \/ Drain(q)
      PROVE  [Mail!Next]_(Mail!vars)
  BY <1>1, <1>4, DispatchOfMail DEF Connected, Drain, risks
<1>5. ASSUME NEW p \in Pollers, PollerStep(p) \/ Cancel(p) PROVE [Mail!Next]_(Mail!vars)
  <2>1. ASSUME NEW last \in Ids, Reply(p, last) PROVE Mail!Next
    BY <2>1, ReplyOfMail
  <2>2. ASSUME \/ Read(p) \/ Mark(p) \/ Register(p) \/ Take(p) \/ Quit(p)
        PROVE  UNCHANGED <<table, received, late, unheard, missed>>
    BY <2>2 DEF Read, Mark, Register, Take, Quit, risks
  <2> QED
    BY <1>1, <1>5, <2>1, <2>2, CancelOfMail DEF PollerStep
<1>6. CASE Restart
  BY <1>6, RestartOfMail
<1>7. CASE Reconnect \/ Break \/ UNCHANGED vars
  BY <1>1, <1>7 DEF Reconnect, Connect, Break, vars, risks
<1> QED
  BY <1>2, <1>3, <1>4, <1>5, <1>6, <1>7 DEF Next

(* The table, the broker and the recipient implement the mailbox (its       *)
(* safety: delivery is a matter of fairness).                              *)
THEOREM ImplementsMailbox == Spec => Mail!Safe
<1>1. Init => Mail!Init
  BY DEF Init, Mail!Init
<1> QED
  BY <1>1, StepOfMail, Invariance, PTL DEF Spec, Mail!Safe
=============================================================================
