------------------------ MODULE WorkerRegistryProofs ------------------------
(***************************************************************************)
(* Proofs about WorkerRegistry, for any workers, number of concurrent      *)
(* requests and of coordinators, transports, tokens and threshold.         *)
(***************************************************************************)
EXTENDS WorkerRegistry, AgesProofs, TLAPS

USE RegistryAssumption

-----------------------------------------------------------------------------
(* The inductive invariant.                                                *)

(* What RowsAreWhole and RegisteringIsReapable say of one row.             *)
Good(row) ==
  /\ row.status \in Up => row.transport # NoTransport
  /\ row.status \notin Up => row.transport = NoTransport /\ row.token = NoToken
  /\ row.status = "registering" => row.lastAttempt # Never

(* A record about to be written is good, too, and of a worker that is up;   *)
(* a registration's has a token, an echo's has none.                        *)
GoodTask(t) ==
  t.pc = "write" => /\ Good(t.row)
                    /\ t.row.status \in Up
                    /\ t.ping <=> t.row.token # NoToken

(* h is about to write a token, and nobody else has seen it yet.           *)
Unseen(h) ==
  /\ \A w \in Workers : workers[w].token # task[h].row.token
  /\ \A p \in pings : p.token # task[h].row.token
  /\ \A g \in Handlers \ {h} :
       /\ task[g].pc = "write" => task[g].row.token # task[h].row.token
       /\ task[g].pc \in {"ping", "route"} => task[g].token # task[h].row.token

RowsGood     == \A w \in Workers : Good(workers[w])
TasksGood    == \A h \in Handlers : GoodTask(task[h])
TokensUnseen == \A h \in Handlers :
                  task[h].pc = "write" /\ task[h].row.token # NoToken => Unseen(h)

IInv == /\ TypeOK
        /\ RowsGood
        /\ TasksGood
        /\ TokensUnseen
        /\ TokensTravelAsNamed

-----------------------------------------------------------------------------
(* Rows.                                                                   *)

LEMMA HorizonType == Horizon \in Nat
  BY DEF Horizon

LEMMA OfflineRowType ==
  ASSUME NEW seen \in 0 .. Horizon, NEW attempt \in AgesTo(Horizon)
  PROVE  /\ OfflineRow(seen, attempt) \in Row
         /\ Good(OfflineRow(seen, attempt))
         /\ OfflineRow(seen, attempt).token = NoToken
  BY DEF OfflineRow, Row, Good, Up, Statuses

LEMMA RegistrationType ==
  ASSUME NEW existing \in Row, NEW desired \in {"online", "draining"},
         NEW transport \in Transports, NEW token \in Tokens
  PROVE  /\ Registration(existing, desired, transport, token) \in Row
         /\ Good(Registration(existing, desired, transport, token))
         /\ Registration(existing, desired, transport, token).status \in Up
         /\ Registration(existing, desired, transport, token).token = token
<1> DEFINE status == NewStatus(existing, desired)
           seen   == IF Exists(existing) THEN existing.lastSeen ELSE 0
<1>1. status \in Up
  BY DEF NewStatus, Up
<1>2. seen \in 0 .. Horizon
  BY HorizonType, FreshType DEF Row
<1>3. Registration(existing, desired, transport, token) =
        [ status |-> status, transport |-> transport, token |-> token,
          lastSeen |-> seen, lastAttempt |-> 0 ]
  BY DEF Registration
<1>4. QED
  <2> HIDE DEF status, seen
  <2> QED BY <1>1, <1>2, <1>3, HorizonType, FreshType DEF Row, Good, Statuses, Up

LEMMA OlderType ==
  ASSUME NEW row \in Row
  PROVE  /\ Older(row) \in Row
         /\ Older(row).status = row.status
         /\ Older(row).transport = row.transport
         /\ Older(row).token = row.token
         /\ Good(row) => Good(Older(row))
<1> DEFINE seen    == Aged(row.lastSeen, Horizon)
           attempt == Aged(row.lastAttempt, Horizon)
           r1 == [row EXCEPT !.lastSeen = seen]
           r2 == [r1 EXCEPT !.lastAttempt = attempt]
<1>1. /\ seen \in 0 .. Horizon
      /\ attempt \in AgesTo(Horizon)
      /\ attempt = Never <=> row.lastAttempt = Never
  BY HorizonType, AgedType DEF Row, AgesTo
<1>2. Older(row) = r2
  BY Zenon DEF Older
<1> HIDE DEF seen, attempt
<1>3. /\ r1 \in Row /\ r1.status = row.status /\ r1.transport = row.transport
      /\ r1.token = row.token /\ r1.lastAttempt = row.lastAttempt
  BY <1>1 DEF Row
<1>4. /\ r2 \in Row /\ r2.status = row.status /\ r2.transport = row.transport
      /\ r2.token = row.token /\ r2.lastAttempt = attempt
  <2> HIDE DEF r1
  <2> QED BY <1>1, <1>3 DEF Row
<1>5. QED
  <2> HIDE DEF r2
  <2> QED BY <1>1, <1>2, <1>4 DEF Good

(* What worker_verify writes, of a worker that has a token.                *)
LEMMA VerifiedType ==
  ASSUME NEW row \in Row, Good(row), row.token # NoToken,
         NEW new, new = [row EXCEPT !.status   = IF @ = "registering" THEN "online" ELSE @,
                                    !.lastSeen = 0,
                                    !.token    = NoToken]
  PROVE  new \in Row /\ Good(new) /\ new.status \in Up /\ new.token = NoToken
<1> DEFINE status == IF row.status = "registering" THEN "online" ELSE row.status
           r1 == [row EXCEPT !.status = status]
           r2 == [r1 EXCEPT !.lastSeen = 0]
           r3 == [r2 EXCEPT !.token = NoToken]
<1>1. row.status \in Up /\ row.transport # NoTransport
  BY DEF Good
<1>2. status \in Up /\ status # "registering"
  BY <1>1 DEF Up
<1>3. new = r3
  BY Zenon
<1> HIDE DEF status
<1>4. r1 \in Row /\ r1.status = status /\ r1.transport = row.transport
  BY <1>2 DEF Row, Statuses
<1>5. r2 \in Row /\ r2.status = status /\ r2.transport = row.transport
  <2> HIDE DEF r1
  <2> QED BY <1>4, HorizonType, FreshType DEF Row
<1>6. r3 \in Row /\ r3.status = status /\ r3.transport = row.transport /\ r3.token = NoToken
  <2> HIDE DEF r2
  <2> QED BY <1>5 DEF Row
<1>7. QED
  <2> HIDE DEF r3
  <2> QED BY <1>1, <1>2, <1>3, <1>6 DEF Good

-----------------------------------------------------------------------------
(* Tasks.                                                                  *)

LEMMA TaskIsTyped ==
  ASSUME NEW t \in Task
  PROVE  /\ t.pc = "write" => t = Writing(t.worker, t.row, t.ping)
                              /\ t.worker \in Workers /\ t.row \in Row /\ t.ping \in BOOLEAN
         /\ t.pc = "ping" => t = Pinging(t.worker, t.token)
                             /\ t.worker \in Workers /\ t.token \in Tokens
         /\ t.pc = "route" => t = Routing(t.worker, t.token)
                              /\ t.worker \in Workers /\ t.token \in Tokens
         /\ t.pc \notin {"write", "ping", "route"} => t = Idle
  BY DEF Task, Idle, Writing, Pinging, Routing

LEMMA NewTasks ==
  /\ Idle \in Task /\ Idle.pc = "idle" /\ GoodTask(Idle)
  /\ \A w \in Workers, token \in Tokens :
       /\ Pinging(w, token) \in Task
       /\ Pinging(w, token).pc = "ping"
       /\ Pinging(w, token).token = token
       /\ GoodTask(Pinging(w, token))
       /\ Routing(w, token) \in Task
       /\ Routing(w, token).pc = "route"
       /\ Routing(w, token).token = token
       /\ GoodTask(Routing(w, token))
  BY DEF Task, Idle, Writing, Pinging, Routing, GoodTask

LEMMA WritingType ==
  ASSUME NEW w \in Workers, NEW row \in Row, NEW ping \in BOOLEAN
  PROVE  /\ Writing(w, row, ping) \in Task
         /\ Writing(w, row, ping).pc = "write"
         /\ Writing(w, row, ping).row = row
         /\ Writing(w, row, ping).ping = ping
<1>1. Writing(w, row, ping) \in [pc : {"write"}, worker : Workers, row : Row, ping : BOOLEAN]
  BY DEF Writing
<1>2. Writing(w, row, ping) \in Task
  BY <1>1, Zenon DEF Task
<1>3. QED
  BY <1>2 DEF Writing

LEMMA GoodWriting ==
  ASSUME NEW w \in Workers, NEW row \in Row, Good(row), row.status \in Up
  PROVE  /\ row.token # NoToken => GoodTask(Writing(w, row, TRUE))
         /\ row.token = NoToken => GoodTask(Writing(w, row, FALSE))
  BY DEF GoodTask, Writing

LEMMA OlderTask ==
  ASSUME NEW t \in Task, t.pc = "write"
  PROVE  [t EXCEPT !.row = Older(@)] = Writing(t.worker, Older(t.row), t.ping)
<1>1. t = Writing(t.worker, t.row, t.ping)
  BY TaskIsTyped
<1>2. \A older : [t EXCEPT !.row = older] = Writing(t.worker, older, t.ping)
  BY <1>1 DEF Writing
<1>3. QED
  BY <1>2, Zenon

(* A slot that takes up a task leaves the others as they were; if what it   *)
(* holds now is good and its token unseen, and the tables and messages are  *)
(* the same, the invariant is kept.                                         *)
LEMMA TaskStep ==
  ASSUME IInv, NEW h \in Handlers, NEW t \in Task, GoodTask(t), Become(h, t),
         UNCHANGED <<workers, batch, pings>>, faults' \in 0 .. MaxFaults,
         t.pc = "write" /\ t.row.token # NoToken => ~Held(t.row.token),
         t.pc \notin {"ping", "route"}
  PROVE  IInv'
<1>1. task' = [task EXCEPT ![h] = t] /\ task \in [Handlers -> Task]
  BY DEF Become, IInv, TypeOK
<1>2. /\ task'[h] = t
      /\ \A g \in Handlers : g # h => task'[g] = task[g]
      /\ task' \in [Handlers -> Task]
  BY <1>1
<1>3. TypeOK'
  BY <1>2 DEF IInv, TypeOK
<1>4. RowsGood' /\ TokensTravelAsNamed'
  BY DEF IInv, RowsGood, TokensTravelAsNamed
<1>5. TasksGood'
  BY <1>2 DEF IInv, TasksGood
<1>6. TokensUnseen'
  <2> SUFFICES ASSUME NEW g \in Handlers, task'[g].pc = "write",
                      task'[g].row.token # NoToken
               PROVE  Unseen(g)'
    BY DEF TokensUnseen
  <2>1. CASE g = h
    <3>1. ~Held(t.row.token)
      BY <1>2, <2>1
    <3>2. QED
      BY <1>2, <2>1, <3>1 DEF Held, Unseen
  <2>2. CASE g # h
    <3>1. Unseen(g)
      BY <1>2, <2>2 DEF IInv, TokensUnseen
    <3>2. t.pc = "write" => t.row.token # task[g].row.token
      BY <1>2, <2>2 DEF Held
    <3>3. QED
      BY <1>2, <2>2, <3>1, <3>2 DEF Unseen
  <2>3. QED
    BY <2>1, <2>2
<1>7. QED
  BY <1>3, <1>4, <1>5, <1>6 DEF IInv

(* Nothing but a well-typed batch changes, or messages that are lost.      *)
LEMMA Frame ==
  ASSUME IInv, TypeOK', UNCHANGED <<workers, task>>, pings' \subseteq pings
  PROVE  IInv'
<1>1. RowsGood' /\ TasksGood'
  BY DEF IInv, RowsGood, TasksGood
<1>2. TokensUnseen'
  BY DEF IInv, TokensUnseen, Unseen
<1>3. TokensTravelAsNamed'
  BY DEF IInv, TokensTravelAsNamed
<1>4. QED
  BY <1>1, <1>2, <1>3 DEF IInv

(* A good record without a token is written over a row.                    *)
LEMMA OfflineStep ==
  ASSUME IInv, NEW w \in Workers, NEW row \in Row, Good(row), row.token = NoToken,
         workers' = [workers EXCEPT ![w] = row],
         batch' \in [Janitors -> SUBSET [worker : Workers, row : Row]],
         UNCHANGED <<task, pings, faults>>
  PROVE  IInv'
<1>1. /\ workers'[w] = row
      /\ \A v \in Workers : v # w => workers'[v] = workers[v]
      /\ workers' \in [Workers -> Row]
  BY DEF IInv, TypeOK
<1>2. TypeOK'
  BY <1>1 DEF IInv, TypeOK
<1>3. RowsGood' /\ TasksGood'
  BY <1>1 DEF IInv, RowsGood, TasksGood
<1>4. TokensUnseen'
  BY <1>1 DEF IInv, TokensUnseen, Unseen
<1>5. TokensTravelAsNamed'
  <2> SUFFICES ASSUME NEW p \in pings, workers'[p.worker].token = p.token
               PROVE  p.via \in {Table, workers'[p.worker].transport}
    BY DEF TokensTravelAsNamed
  <2>1. p.worker \in Workers /\ p.token \in Tokens
    BY DEF IInv, TypeOK, Ping
  <2>2. QED
    BY <1>1, <2>1 DEF IInv, TokensTravelAsNamed
<1>6. QED
  BY <1>2, <1>3, <1>4, <1>5 DEF IInv

-----------------------------------------------------------------------------
(* One step per action.                                                    *)

LEMMA RegisterStep ==
  ASSUME IInv, NEW h \in Handlers, NEW w \in Workers,
         NEW desired \in {"online", "draining"},
         NEW transport \in Transports, NEW token \in Tokens,
         Register(h, w, desired, transport, token)
  PROVE  IInv'
<1> DEFINE row == Registration(workers[w], desired, transport, token)
           t   == Writing(w, row, TRUE)
<1>1. workers[w] \in Row
  BY DEF IInv, TypeOK
<1>2. row \in Row /\ Good(row) /\ row.status \in Up /\ row.token = token
  BY <1>1, RegistrationType
<1>3. ~Held(token) /\ Become(h, t) /\ UNCHANGED <<workers, batch, pings, faults>>
  BY DEF Register
<1>4. faults' \in 0 .. MaxFaults
  BY <1>3 DEF IInv, TypeOK
<1> HIDE DEF row
<1>5. t \in Task /\ t.pc = "write" /\ t.row = row
  BY <1>2, WritingType
<1>6. GoodTask(t)
  BY <1>2, GoodWriting
<1>7. QED
  <2> HIDE DEF t
  <2> QED BY <1>2, <1>3, <1>4, <1>5, <1>6, TaskStep

LEMMA VerifyStep ==
  ASSUME IInv, NEW h \in Handlers, NEW p \in pings, Verify(h, p)
  PROVE  IInv'
<1> DEFINE worker == workers[p.worker]
           row == [worker EXCEPT !.status   = IF @ = "registering" THEN "online" ELSE @,
                                 !.lastSeen = 0,
                                 !.token    = NoToken]
           t == Writing(p.worker, row, FALSE)
<1>1. p.worker \in Workers /\ p.token \in Tokens
  BY DEF IInv, TypeOK, Ping
<1>2. worker \in Row /\ Good(worker)
  BY <1>1 DEF IInv, TypeOK, RowsGood
<1>3. worker.token # NoToken /\ Become(h, t) /\ UNCHANGED <<workers, batch, pings, faults>>
  BY <1>1 DEF Verify
<1>4. row \in Row /\ Good(row) /\ row.status \in Up /\ row.token = NoToken
  <2> HIDE DEF worker
  <2> QED BY <1>2, <1>3, VerifiedType
<1>5. faults' \in 0 .. MaxFaults
  BY <1>3 DEF IInv, TypeOK
<1> HIDE DEF row
<1>6. t \in Task /\ t.pc = "write" /\ t.row = row
  BY <1>1, <1>4, WritingType
<1>7. GoodTask(t)
  BY <1>1, <1>4, GoodWriting
<1>8. QED
  <2> HIDE DEF t
  <2> QED BY <1>3, <1>4, <1>5, <1>6, <1>7, TaskStep

LEMMA UpsertStep ==
  ASSUME IInv, NEW h \in Handlers, Upsert(h)
  PROVE  IInv'
<1> DEFINE w   == task[h].worker
           row == task[h].row
           t   == IF task[h].ping THEN Pinging(w, row.token) ELSE Idle
<1>1. task[h].pc = "write" /\ task[h] \in Task
  BY DEF Upsert, IInv, TypeOK
<1>2. w \in Workers /\ row \in Row /\ task[h].ping \in BOOLEAN
  BY <1>1, TaskIsTyped
<1>3. Good(row) /\ row.status \in Up /\ (task[h].ping <=> row.token # NoToken)
  BY <1>1 DEF IInv, TasksGood, GoodTask
<1>4. workers' = [workers EXCEPT ![w] = row] /\ Become(h, t) /\ UNCHANGED <<batch, pings, faults>>
  BY DEF Upsert
<1>5. /\ workers'[w] = row
      /\ \A v \in Workers : v # w => workers'[v] = workers[v]
      /\ workers' \in [Workers -> Row]
  BY <1>2, <1>4 DEF IInv, TypeOK
<1>6. row.token # NoToken => Unseen(h)
  BY <1>1 DEF IInv, TokensUnseen
<1>7. t \in Task /\ t.pc # "write" /\ (t.pc \in {"ping", "route"} => t.token = row.token)
  <2>1. row.token \in Tokens \cup {NoToken}
    BY <1>2 DEF Row
  <2>2. CASE task[h].ping
    BY <1>2, <1>3, <2>1, <2>2, NewTasks
  <2>3. CASE ~task[h].ping
    BY <2>3, NewTasks
  <2>4. QED
    BY <1>2, <2>1, <2>2, <2>3
<1> HIDE DEF t
<1>8. /\ task'[h] = t
      /\ \A g \in Handlers : g # h => task'[g] = task[g]
      /\ task' \in [Handlers -> Task]
  BY <1>4, <1>7 DEF Become, IInv, TypeOK
<1>9. TypeOK'
  BY <1>4, <1>5, <1>8 DEF IInv, TypeOK
<1>10. RowsGood'
  BY <1>3, <1>5 DEF IInv, RowsGood
<1>11. TasksGood'
  BY <1>7, <1>8 DEF IInv, TasksGood, GoodTask
<1>12. TokensUnseen'
  <2> SUFFICES ASSUME NEW g \in Handlers, task'[g].pc = "write", task'[g].row.token # NoToken
               PROVE  Unseen(g)'
    BY DEF TokensUnseen
  <2>1. g # h /\ task'[g] = task[g]
    BY <1>7, <1>8
  <2>2. Unseen(g)
    BY <2>1 DEF IInv, TokensUnseen
  <2>3. row.token # task[g].row.token
    BY <1>1, <2>1, <2>2 DEF Unseen
  <2>4. \A v \in Workers : workers'[v].token # task'[g].row.token
    BY <1>5, <2>1, <2>2, <2>3 DEF Unseen
  <2>5. \A f \in Handlers \ {g} : /\ task'[f].pc = "write" => task'[f].row.token # task'[g].row.token
                                  /\ task'[f].pc \in {"ping", "route"} =>
                                       task'[f].token # task'[g].row.token
    BY <1>7, <1>8, <2>1, <2>2, <2>3 DEF Unseen
  <2>6. QED
    BY <1>4, <2>1, <2>2, <2>4, <2>5 DEF Unseen
<1>13. TokensTravelAsNamed'
  <2> SUFFICES ASSUME NEW p \in pings, workers'[p.worker].token = p.token
               PROVE  p.via \in {Table, workers'[p.worker].transport}
    BY <1>4 DEF TokensTravelAsNamed
  <2>1. p.worker \in Workers /\ p.token \in Tokens
    BY DEF IInv, TypeOK, Ping
  <2>2. CASE p.worker = w
    BY <1>5, <1>6, <2>1, <2>2 DEF Unseen
  <2>3. CASE p.worker # w
    BY <1>5, <2>1, <2>3 DEF IInv, TokensTravelAsNamed
  <2>4. QED
    BY <2>2, <2>3
<1>14. QED
  BY <1>9, <1>10, <1>11, <1>12, <1>13 DEF IInv

(* A handler puts its token in flight, where the row says or in the table,  *)
(* or does not, and goes on or ends.                                        *)
LEMMA TokenStep ==
  ASSUME IInv, NEW h \in Handlers, task[h].pc \in {"ping", "route"},
         NEW p \in Ping, p.worker = task[h].worker, p.token = task[h].token,
         p.via \in {Table, workers[p.worker].transport},
         pings' \in {pings, pings \cup {p}},
         NEW t \in {Idle, Routing(p.worker, p.token)}, Become(h, t),
         UNCHANGED <<workers, batch, faults>>
  PROVE  IInv'
<1>1. p.worker \in Workers /\ p.token \in Tokens
  BY DEF Ping
<1>2. t \in Task /\ t.pc # "write" /\ GoodTask(t) /\ (t.pc \in {"ping", "route"} => t.token = p.token)
  BY <1>1, NewTasks
<1>3. /\ task'[h] = t
      /\ \A g \in Handlers : g # h => task'[g] = task[g]
      /\ task' \in [Handlers -> Task]
  BY <1>2 DEF Become, IInv, TypeOK
<1>4. \A q \in pings' : q \in pings \/ q = p
  OBVIOUS
<1>5. TypeOK'
  BY <1>3, <1>4 DEF IInv, TypeOK
<1>6. RowsGood' /\ TasksGood'
  BY <1>2, <1>3 DEF IInv, RowsGood, TasksGood
<1>7. TokensUnseen'
  <2> SUFFICES ASSUME NEW g \in Handlers, task'[g].pc = "write", task'[g].row.token # NoToken
               PROVE  Unseen(g)'
    BY DEF TokensUnseen
  <2>1. g # h /\ task'[g] = task[g]
    BY <1>2, <1>3
  <2>2. Unseen(g)
    BY <2>1 DEF IInv, TokensUnseen
  <2>3. p.token # task[g].row.token
    BY <2>1, <2>2 DEF Unseen
  <2>4. \A q \in pings' : q.token # task'[g].row.token
    BY <1>4, <2>1, <2>2, <2>3 DEF Unseen
  <2>5. \A f \in Handlers \ {g} : /\ task'[f].pc = "write" => task'[f].row.token # task'[g].row.token
                                  /\ task'[f].pc \in {"ping", "route"} =>
                                       task'[f].token # task'[g].row.token
    BY <1>2, <1>3, <2>1, <2>2, <2>3 DEF Unseen
  <2>6. QED
    BY <2>1, <2>2, <2>4, <2>5 DEF Unseen
<1>8. TokensTravelAsNamed'
  BY <1>4 DEF IInv, TokensTravelAsNamed
<1>9. QED
  BY <1>5, <1>6, <1>7, <1>8 DEF IInv

LEMMA StorePingStep ==
  ASSUME IInv, NEW h \in Handlers, StorePing(h)
  PROVE  IInv'
<1> DEFINE p == [worker |-> task[h].worker, token |-> task[h].token, via |-> Table]
<1>1. task[h].pc = "ping" /\ task[h] \in Task
  BY DEF StorePing, IInv, TypeOK
<1>2. p \in Ping
  BY <1>1, TaskIsTyped DEF Ping
<1>3. /\ p.worker = task[h].worker /\ p.token = task[h].token /\ p.via = Table
      /\ pings' = pings \cup {p}
      /\ Become(h, Routing(p.worker, p.token))
      /\ UNCHANGED <<workers, batch, faults>>
  BY DEF StorePing
<1> HIDE DEF p
<1>4. QED
  BY <1>1, <1>2, <1>3, TokenStep

LEMMA SendPingStep ==
  ASSUME IInv, NEW h \in Handlers, SendPing(h)
  PROVE  IInv'
<1> DEFINE w   == task[h].worker
           via == workers[w].transport
<1>1. task[h].pc = "route" /\ task[h] \in Task
  BY DEF SendPing, IInv, TypeOK
<1>2. w \in Workers /\ task[h].token \in Tokens
  BY <1>1, TaskIsTyped
<1>3. via \in Transports \cup {NoTransport}
  BY <1>2 DEF IInv, TypeOK, Row
<1>4. /\ pings' = IF via = NoTransport THEN pings
                  ELSE pings \cup {[worker |-> w, token |-> task[h].token, via |-> via]}
      /\ Become(h, Idle)
      /\ UNCHANGED <<workers, batch, faults>>
  BY DEF SendPing
<1>5. PICK q \in Ping : /\ q.worker = w /\ q.token = task[h].token
                       /\ q.via \in {Table, via}
                       /\ pings' \in {pings, pings \cup {q}}
  <2>1. CASE via = NoTransport
    <3>1. [worker |-> w, token |-> task[h].token, via |-> Table] \in Ping
      BY <1>2 DEF Ping
    <3> QED
      BY <1>4, <2>1, <3>1
  <2>2. CASE via # NoTransport
    <3>1. [worker |-> w, token |-> task[h].token, via |-> via] \in Ping
      BY <1>2, <1>3, <2>2 DEF Ping
    <3> QED
      BY <1>4, <2>2, <3>1
  <2>3. QED
    BY <2>1, <2>2
<1>6. QED
  BY <1>1, <1>4, <1>5, TokenStep

LEMMA DeregisterStep ==
  ASSUME IInv, NEW h \in Handlers, NEW w \in Workers, Deregister(h, w)
  PROVE  IInv'
<1> DEFINE row == OfflineRow(0, Never)
<1>1. row \in Row /\ Good(row) /\ row.token = NoToken
  BY HorizonType, FreshType, OfflineRowType
<1>2. workers' = [workers EXCEPT ![w] = row] /\ UNCHANGED <<task, batch, pings, faults>>
  BY DEF Deregister
<1> HIDE DEF row
<1>3. batch' \in [Janitors -> SUBSET [worker : Workers, row : Row]]
  BY <1>2 DEF IInv, TypeOK
<1>4. QED
  BY <1>1, <1>2, <1>3, OfflineStep

LEMMA FindStaleStep ==
  ASSUME IInv, NEW c \in Janitors, FindStale(c)
  PROVE  IInv'
<1> DEFINE found == {[worker |-> w, row |-> workers[w]] : w \in {v \in Workers : Stale(workers[v])}}
<1>1. found \subseteq [worker : Workers, row : Row]
  BY DEF IInv, TypeOK
<1>2. batch' = [batch EXCEPT ![c] = found] /\ UNCHANGED <<workers, task, pings, faults>>
  BY DEF FindStale
<1> HIDE DEF found
<1>3. TypeOK'
  BY <1>1, <1>2 DEF IInv, TypeOK
<1>4. QED
  BY <1>2, <1>3, Frame

LEMMA ReapWorkerStep ==
  ASSUME IInv, NEW c \in Janitors, NEW r \in batch[c], ReapWorker(c, r)
  PROVE  IInv'
<1> DEFINE row == OfflineRow(r.row.lastSeen, r.row.lastAttempt)
<1>1. r.worker \in Workers /\ r.row \in Row
  BY DEF IInv, TypeOK
<1>2. row \in Row /\ Good(row) /\ row.token = NoToken
  <2>1. r.row.lastSeen \in 0 .. Horizon /\ r.row.lastAttempt \in AgesTo(Horizon)
    BY <1>1 DEF Row
  <2>2. QED
    BY <2>1, OfflineRowType
<1>3. /\ workers' = [workers EXCEPT ![r.worker] = row]
      /\ batch' = [batch EXCEPT ![c] = @ \ {r}]
      /\ UNCHANGED <<task, pings, faults>>
  BY DEF ReapWorker
<1> HIDE DEF row
<1>4. batch' \in [Janitors -> SUBSET [worker : Workers, row : Row]]
  BY <1>3 DEF IInv, TypeOK
<1>5. QED
  BY <1>1, <1>2, <1>3, <1>4, OfflineStep

LEMMA DropStep ==
  ASSUME IInv, NEW p \in pings, Drop(p)
  PROVE  IInv'
<1>1. pings' \subseteq pings /\ UNCHANGED <<workers, task, batch, faults>>
  BY DEF Drop
<1>2. TypeOK'
  BY <1>1 DEF IInv, TypeOK
<1>3. QED
  BY <1>1, <1>2, Frame

LEMMA FaultStep ==
  ASSUME IInv, NEW h \in Handlers, Fault(h)
  PROVE  IInv'
<1>1. Become(h, Idle) /\ UNCHANGED <<workers, batch, pings>>
  BY DEF Fault
<1>2. faults' \in 0 .. MaxFaults
  BY DEF Fault, IInv, TypeOK
<1>3. QED
  BY <1>1, <1>2, NewTasks, TaskStep

LEMMA AbortPassStep ==
  ASSUME IInv, NEW c \in Janitors, AbortPass(c)
  PROVE  IInv'
<1>1. batch' = [batch EXCEPT ![c] = {}] /\ UNCHANGED <<workers, task, pings>>
  BY DEF AbortPass
<1>2. faults' \in 0 .. MaxFaults
  BY DEF AbortPass, IInv, TypeOK
<1>3. TypeOK'
  BY <1>1, <1>2 DEF IInv, TypeOK
<1>4. QED
  BY <1>1, <1>3, Frame

LEMMA TickStep ==
  ASSUME IInv, Tick
  PROVE  IInv'
<1>1. \A w \in Workers :
        /\ workers'[w] \in Row /\ Good(workers'[w])
        /\ workers'[w].transport = workers[w].transport
        /\ workers'[w].token = workers[w].token
  <2> TAKE w \in Workers
  <2>1. workers[w] \in Row /\ Good(workers[w])
    BY DEF IInv, TypeOK, RowsGood
  <2>2. workers'[w] = IF Exists(workers[w]) THEN Older(workers[w]) ELSE workers[w]
    BY DEF Tick
  <2>3. QED
    BY <2>1, <2>2, OlderType
<1>2. \A h \in Handlers :
        IF task[h].pc = "write"
        THEN task'[h] = Writing(task[h].worker, Older(task[h].row), task[h].ping)
        ELSE task'[h] = task[h]
  <2> TAKE h \in Handlers
  <2>1. task[h] \in Task
    BY DEF IInv, TypeOK
  <2>2. task'[h] = IF task[h].pc = "write" THEN [task[h] EXCEPT !.row = Older(@)] ELSE task[h]
    BY DEF Tick
  <2>3. task[h].pc = "write" =>
          [task[h] EXCEPT !.row = Older(@)] =
            Writing(task[h].worker, Older(task[h].row), task[h].ping)
    BY <2>1, OlderTask, Zenon
  <2>4. QED
    BY <2>2, <2>3, Zenon
<1>3. \A h \in Handlers :
        /\ task'[h] \in Task /\ task'[h].pc = task[h].pc /\ GoodTask(task'[h])
        /\ task[h].pc = "write" => task'[h].row.token = task[h].row.token
        /\ task[h].pc # "write" => task'[h] = task[h]
  <2> TAKE h \in Handlers
  <2>1. task[h] \in Task /\ GoodTask(task[h])
    BY DEF IInv, TypeOK, TasksGood
  <2>2. CASE task[h].pc = "write"
    <3> DEFINE older == Older(task[h].row)
    <3>1. task[h].worker \in Workers /\ task[h].row \in Row /\ task[h].ping \in BOOLEAN
      BY <2>1, <2>2, TaskIsTyped
    <3>2. /\ older \in Row /\ Good(older) /\ older.status = task[h].row.status
          /\ older.token = task[h].row.token
      BY <2>1, <2>2, <3>1, OlderType DEF GoodTask
    <3> HIDE DEF older
    <3>3. task'[h] = Writing(task[h].worker, older, task[h].ping)
      BY <1>2, <2>2 DEF older
    <3>4. /\ task'[h] \in Task /\ task'[h].pc = "write"
          /\ task'[h].row = older /\ task'[h].ping = task[h].ping
      <4> DEFINE w == task[h].worker
                 ping == task[h].ping
      <4> HIDE DEF w, ping
      <4>1. w \in Workers /\ ping \in BOOLEAN /\ task'[h] = Writing(w, older, ping)
        BY <3>1, <3>3, Zenon DEF w, ping
      <4>2. /\ Writing(w, older, ping) \in Task
            /\ Writing(w, older, ping).pc = "write"
            /\ Writing(w, older, ping).row = older
            /\ Writing(w, older, ping).ping = ping
        BY <3>2, <4>1, WritingType
      <4>3. QED
        BY <4>1, <4>2, Zenon DEF ping
    <3>5. GoodTask(task'[h])
      BY <2>1, <2>2, <3>2, <3>4 DEF GoodTask
    <3>6. QED
      BY <2>2, <3>2, <3>4, <3>5
  <2>3. CASE task[h].pc # "write"
    BY <1>2, <2>1, <2>3
  <2>4. QED
    BY <2>2, <2>3
<1>4. batch' \in [Janitors -> SUBSET [worker : Workers, row : Row]]
  <2> SUFFICES ASSUME NEW c \in Janitors, NEW r \in batch[c]
               PROVE  [r EXCEPT !.row = Older(@)] \in [worker : Workers, row : Row]
    BY DEF Tick
  <2>1. r \in [worker : Workers, row : Row]
    BY DEF IInv, TypeOK
  <2>2. Older(r.row) \in Row
    BY <2>1, OlderType
  <2>3. QED
    BY <2>1, <2>2
<1>5. UNCHANGED <<pings, faults>> /\ workers' \in [Workers -> Row] /\ task' \in [Handlers -> Task]
  BY <1>1, <1>3 DEF Tick
<1>6. TypeOK'
  BY <1>4, <1>5 DEF IInv, TypeOK
<1>7. RowsGood' /\ TasksGood'
  BY <1>1, <1>3 DEF RowsGood, TasksGood
<1>8. TokensUnseen'
  <2> SUFFICES ASSUME NEW g \in Handlers, task'[g].pc = "write", task'[g].row.token # NoToken
               PROVE  Unseen(g)'
    BY DEF TokensUnseen
  <2>1. task[g].pc = "write" /\ task'[g].row.token = task[g].row.token
    BY <1>3
  <2>2. Unseen(g)
    BY <2>1 DEF IInv, TokensUnseen
  <2>3. QED
    BY <1>1, <1>3, <1>5, <2>1, <2>2 DEF Unseen
<1>9. TokensTravelAsNamed'
  <2> SUFFICES ASSUME NEW p \in pings, workers'[p.worker].token = p.token
               PROVE  p.via \in {Table, workers'[p.worker].transport}
    BY <1>5 DEF TokensTravelAsNamed
  <2>1. p.worker \in Workers
    BY DEF IInv, TypeOK, Ping
  <2>2. QED
    BY <1>1, <2>1 DEF IInv, TokensTravelAsNamed
<1>10. QED
  BY <1>6, <1>7, <1>8, <1>9 DEF IInv

-----------------------------------------------------------------------------
(* The invariant, and what follows from it.                                *)

LEMMA InitHolds == Init => IInv
<1> SUFFICES ASSUME Init
             PROVE  IInv
  OBVIOUS
<1> DEFINE row == [OfflineRow(0, Never) EXCEPT !.status = Absent]
<1>1. row \in Row /\ Good(row)
  BY HorizonType, FreshType DEF OfflineRow, Row, Good, Up, Statuses, Absent
<1>2. \A w \in Workers : workers[w] = row
  BY DEF Init
<1>3. workers \in [Workers -> Row]
  <2> HIDE DEF row
  <2>1. workers = [w \in Workers |-> row]
    BY Zenon DEF Init, row
  <2>2. QED
    BY <1>1, <2>1
<1> HIDE DEF row
<1>4. \A h \in Handlers : task[h] = Idle
  BY DEF Init
<1>5. TypeOK
  BY <1>3, NewTasks DEF Init, TypeOK
<1>6. RowsGood /\ TasksGood
  BY <1>1, <1>2, <1>4, NewTasks DEF RowsGood, TasksGood
<1>7. TokensUnseen /\ TokensTravelAsNamed
  BY <1>4, NewTasks DEF Init, TokensUnseen, TokensTravelAsNamed
<1>8. QED
  BY <1>5, <1>6, <1>7 DEF IInv

LEMMA NextKeeps == IInv /\ [Next]_vars => IInv'
<1> SUFFICES ASSUME IInv, [Next]_vars
             PROVE  IInv'
  OBVIOUS
<1>1. ASSUME NEW h \in Handlers, Request(h)
      PROVE  IInv'
  BY <1>1, RegisterStep, VerifyStep, DeregisterStep DEF Request
<1>2. ASSUME NEW h \in Handlers, HandlerStep(h)
      PROVE  IInv'
  BY <1>2, UpsertStep, StorePingStep, SendPingStep DEF HandlerStep
<1>3. ASSUME NEW h \in Handlers, Fault(h)
      PROVE  IInv'
  BY <1>3, FaultStep
<1>4. ASSUME NEW c \in Janitors, JanitorStep(c)
      PROVE  IInv'
  BY <1>4, FindStaleStep, ReapWorkerStep DEF JanitorStep
<1>5. ASSUME NEW c \in Janitors, AbortPass(c)
      PROVE  IInv'
  BY <1>5, AbortPassStep
<1>6. ASSUME NEW p \in pings, Drop(p)
      PROVE  IInv'
  BY <1>6, DropStep
<1>7. CASE Tick
  BY <1>7, TickStep
<1>8. CASE UNCHANGED vars
  <2>1. TypeOK'
    BY <1>8 DEF vars, IInv, TypeOK
  <2>2. QED
    BY <1>8, <2>1, Frame DEF vars
<1>9. QED
  BY <1>1, <1>2, <1>3, <1>4, <1>5, <1>6, <1>7, <1>8 DEF Next

LEMMA Invariance == Spec => []IInv
  BY InitHolds, NextKeeps, PTL DEF Spec

(* The tables, tasks and messages of the registry stay well formed.        *)
THEOREM TypeCorrect == Spec => []TypeOK
<1>1. IInv => TypeOK
  BY DEF IInv
<1>2. QED
  BY <1>1, Invariance, PTL

(* Whatever updates of a row are lost, what is left of it is one record     *)
(* that a registration, an echo, a deregistration or the janitor meant.     *)
THEOREM RowsStayWhole == Spec => []RowsAreWhole
<1>1. IInv => RowsAreWhole
  BY DEF IInv, RowsGood, Good, RowsAreWhole
<1>2. QED
  BY <1>1, Invariance, PTL

(* No worker can be registering for ever unnoticed by get_stale_workers.   *)
THEOREM HandshakesTimeOut == Spec => []RegisteringIsReapable
<1>1. IInv => RegisteringIsReapable
  BY DEF IInv, RowsGood, Good, RegisteringIsReapable
<1>2. QED
  BY <1>1, Invariance, PTL

(* However registrations overlap, a token the row still expects is in no     *)
(* other transport than the one the row names: only a poll of the table can  *)
(* make a worker echo it that does not read that transport.                  *)
THEOREM EchoPaths == Spec => []TokensTravelAsNamed
<1>1. IInv => TokensTravelAsNamed
  BY DEF IInv
<1>2. QED
  BY <1>1, Invariance, PTL

(* No write of a stale record revives a token.                             *)
THEOREM TokensAreNotRevived == Spec => TokensComeFromRegistrations
<1> DEFINE Fresh(w) == workers'[w].token \notin {NoToken, workers[w].token} =>
                         \E h \in Handlers : /\ task[h].pc = "write"
                                             /\ task[h].ping
                                             /\ task[h].worker = w
                                             /\ task[h].row.token = workers'[w].token
           Body == \A w \in Workers : Fresh(w)
<1>1. IInv /\ [Next]_vars => [Body]_vars
  <2> SUFFICES ASSUME IInv, Next, NEW w \in Workers,
                      workers'[w].token \notin {NoToken, workers[w].token}
               PROVE  \E h \in Handlers : /\ task[h].pc = "write"
                                          /\ task[h].ping
                                          /\ task[h].worker = w
                                          /\ task[h].row.token = workers'[w].token
    OBVIOUS
  <2>1. workers \in [Workers -> Row]
    BY DEF IInv, TypeOK
  <2>2. ASSUME NEW h \in Handlers, Upsert(h)
        PROVE  /\ task[h].pc = "write" /\ task[h].ping /\ task[h].worker = w
               /\ task[h].row.token = workers'[w].token
    <3>1. task[h].pc = "write" /\ workers' = [workers EXCEPT ![task[h].worker] = task[h].row]
      BY <2>2 DEF Upsert
    <3>2. task[h].worker = w /\ workers'[w] = task[h].row
      BY <2>1, <3>1
    <3>3. GoodTask(task[h])
      BY DEF IInv, TasksGood
    <3>4. QED
      BY <3>1, <3>2, <3>3 DEF GoodTask
  <2>3. ASSUME NEW h \in Handlers, NEW v \in Workers, Deregister(h, v)
        PROVE  FALSE
    BY <2>1, <2>3 DEF Deregister, OfflineRow
  <2>4. ASSUME NEW c \in Janitors, NEW r \in batch[c], ReapWorker(c, r)
        PROVE  FALSE
    BY <2>1, <2>4 DEF ReapWorker, OfflineRow
  <2>5. CASE Tick
    <3>1. workers'[w] = IF Exists(workers[w]) THEN Older(workers[w]) ELSE workers[w]
      BY <2>5 DEF Tick
    <3>2. QED
      BY <2>1, <3>1, OlderType
  <2>6. CASE UNCHANGED workers
    BY <2>6
  <2>7. ASSUME NEW h \in Handlers, Request(h) \/ HandlerStep(h) \/ Fault(h)
        PROVE  UNCHANGED workers \/ Upsert(h) \/ \E v \in Workers : Deregister(h, v)
    BY <2>7 DEF Request, Register, Verify, HandlerStep, StorePing, SendPing, Fault
  <2>8. ASSUME NEW c \in Janitors, JanitorStep(c) \/ AbortPass(c)
        PROVE  UNCHANGED workers \/ \E r \in batch[c] : ReapWorker(c, r)
    BY <2>8 DEF JanitorStep, FindStale, AbortPass
  <2>9. ASSUME NEW p \in pings, Drop(p)
        PROVE  UNCHANGED workers
    BY <2>9 DEF Drop
  <2>10. QED
    BY <2>2, <2>3, <2>4, <2>5, <2>6, <2>7, <2>8, <2>9 DEF Next
<1>2. QED
  BY <1>1, Invariance, PTL DEF Spec, TokensComeFromRegistrations
=============================================================================
