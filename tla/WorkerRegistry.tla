--------------------------- MODULE WorkerRegistry ---------------------------
(***************************************************************************)
(* The coordinator's table of workers: registration with its handshake     *)
(* (worker_register, worker_verify, worker_deregister of                   *)
(* api/routes/worker.py) and the janitor's reap_workers.                   *)
(*                                                                         *)
(* A registration is answered at once; the worker is believed reachable    *)
(* only when it echoes, over the API, a token it was sent.  The message     *)
(* with the token is in the messages table before it is sent over the       *)
(* transport, and whoever polls that table finds it, whatever transport the *)
(* row names: an echo need not have used that one.  Every write of a row is an upsert of all its columns, from  *)
(* a record built on what was read an await earlier: whatever another      *)
(* handler, or the janitor, wrote in between is lost.                      *)
(*                                                                         *)
(* The columns binaries, paths, capabilities and registration_interval are *)
(* set and cleared together with transport, which stands for them.  Who    *)
(* calls, and when, is left open, but a worker only echoes tokens that it  *)
(* was sent.                                                               *)
(***************************************************************************)
EXTENDS Ages, FiniteSets

CONSTANTS
  Workers,       \* worker identities
  Handlers,      \* slots of concurrent requests
  Janitors,      \* one janitor per coordinator process
  Transports,    \* transports of the coordinator
  NoTransport,   \* the transport "none" of a worker that is offline
  Table,         \* the messages table, which HTTP polls read
  Tokens,        \* verification tokens
  NoToken,       \* the NULL of the registration_token column
  StaleAfter,    \* registration_interval * worker_threshold_factor
  MaxFaults      \* bound on exceptions and crashes in a behaviour

ASSUME RegistryAssumption ==
  /\ {NoTransport, Table} \cap Transports = {}
  /\ NoToken \notin Tokens
  /\ StaleAfter \in Nat
  /\ MaxFaults \in Nat

VARIABLES
  workers,   \* the workers table: a row for every worker id
  task,      \* what each slot is doing
  batch,     \* the stale rows a janitor has read and not handled yet
  pings,     \* verify messages that were sent and are not consumed or lost
  faults     \* number of faults so far

vars == <<workers, task, batch, pings, faults>>

-----------------------------------------------------------------------------
Absent   == "absent"       \* no row with this worker_id yet
Up       == {"registering", "online", "draining"}
Statuses == Up \cup {"offline", Absent}
Horizon  == StaleAfter + 1

Row == [ status      : Statuses,
         transport   : Transports \cup {NoTransport},
         token       : Tokens \cup {NoToken},
         lastSeen    : 0 .. Horizon,
         lastAttempt : AgesTo(Horizon) ]

OfflineRow(lastSeen, lastAttempt) ==
  [ status |-> "offline", transport |-> NoTransport, token |-> NoToken,
    lastSeen |-> lastSeen, lastAttempt |-> lastAttempt ]

Exists(row) == row.status # Absent

(* A handler about to upsert `row`; a registration then has its token to    *)
(* store, and to send over the transport of the row.                        *)
Idle == [pc |-> "idle"]
Writing(w, row, ping) == [pc |-> "write", worker |-> w, row |-> row, ping |-> ping]
Pinging(w, token)     == [pc |-> "ping", worker |-> w, token |-> token]
Routing(w, token)     == [pc |-> "route", worker |-> w, token |-> token]

Task == {Idle}
        \cup [pc : {"write"}, worker : Workers, row : Row, ping : BOOLEAN]
        \cup [pc : {"ping", "route"}, worker : Workers, token : Tokens]

Ping == [worker : Workers, token : Tokens, via : Transports \cup {Table}]

Become(h, t) == task' = [task EXCEPT ![h] = t]

-----------------------------------------------------------------------------
(* Registration.                                                           *)

(* Freshness of token_urlsafe(32): not a token anybody still holds.        *)
Held(token) ==
  \/ \E w \in Workers : workers[w].token = token
  \/ \E h \in Handlers : \/ task[h].pc = "write" /\ task[h].row.token = token
                         \/ task[h].pc \in {"ping", "route"} /\ task[h].token = token
  \/ \E c \in Janitors : \E r \in batch[c] : r.row.token = token
  \/ \E p \in pings : p.token = token

NewStatus(existing, desired) ==
  IF desired = "draining" THEN "draining"
  ELSE IF existing.status \in {"online", "draining"} THEN "online"
  ELSE "registering"

(* Mutants: registering counts as being seen; the attempt is not timed. *)
RegistrationSeen(existing, desired, transport, token) ==
  [ status |-> NewStatus(existing, desired), transport |-> transport,
    token |-> token, lastSeen |-> 0, lastAttempt |-> 0 ]

RegistrationUntimed(existing, desired, transport, token) ==
  [ status |-> NewStatus(existing, desired), transport |-> transport,
    token |-> token, lastSeen |-> existing.lastSeen, lastAttempt |-> existing.lastAttempt ]

(* The record worker_register builds. *)
Registration(existing, desired, transport, token) ==
  [ status      |-> NewStatus(existing, desired),
    transport   |-> transport,
    token       |-> token,
    lastSeen    |-> IF Exists(existing) THEN existing.lastSeen ELSE 0,
    lastAttempt |-> 0 ]

(* worker_register up to its write.  Negotiation may choose any transport, *)
(* depending on what the worker supports and what is healthy.              *)
Register(h, w, desired, transport, token) ==
  /\ task[h] = Idle
  /\ ~Held(token)
  /\ Become(h, Writing(w, Registration(workers[w], desired, transport, token), TRUE))
  /\ UNCHANGED <<workers, batch, pings, faults>>

(* Mutant: the token is not cleared. *)
VerifyKeepsToken(h, p) ==
  /\ task[h] = Idle
  /\ LET worker == workers[p.worker]
         row == [worker EXCEPT !.status = IF @ = "registering" THEN "online" ELSE @,
                               !.lastSeen = 0]
     IN  /\ Exists(worker)
         /\ worker.token = p.token
         /\ Become(h, Writing(p.worker, row, FALSE))
  /\ UNCHANGED <<workers, batch, pings, faults>>

(* worker_verify up to its write: `p` brought the worker the token.         *)
Verify(h, p) ==
  /\ task[h] = Idle
  /\ LET worker == workers[p.worker]
         row == [worker EXCEPT !.status   = IF @ = "registering" THEN "online" ELSE @,
                               !.lastSeen = 0,
                               !.token    = NoToken]
     IN  /\ Exists(worker)
         /\ worker.token = p.token
         /\ Become(h, Writing(p.worker, row, FALSE))
  /\ UNCHANGED <<workers, batch, pings, faults>>

(* add_or_update, of either.                                                *)
Upsert(h) ==
  /\ task[h].pc = "write"
  /\ workers' = [workers EXCEPT ![task[h].worker] = task[h].row]
  /\ Become(h, IF task[h].ping THEN Pinging(task[h].worker, task[h].row.token) ELSE Idle)
  /\ UNCHANGED <<batch, pings, faults>>

(* _send_verify_ping runs after the response, now or after the handshake    *)
(* delay.  send_message stores the message first.                           *)
StorePing(h) ==
  /\ task[h].pc = "ping"
  /\ LET w == task[h].worker
         k == task[h].token
     IN  /\ pings' = pings \cup {[worker |-> w, token |-> k, via |-> Table]}
         /\ Become(h, Routing(w, k))
  /\ UNCHANGED <<workers, batch, faults>>

(* Mutant: "none" is taken for a transport. *)
SendPingBlind(h) ==
  /\ task[h].pc = "route"
  /\ LET w == task[h].worker
     IN  pings' = pings \cup {[worker |-> w, token |-> task[h].token,
                               via |-> workers[w].transport]}
  /\ Become(h, Idle)
  /\ UNCHANGED <<workers, batch, faults>>

(* Then it takes the transport the row names by then; if that is none, it   *)
(* fails and the task ends.                                                 *)
SendPing(h) ==
  /\ task[h].pc = "route"
  /\ LET w   == task[h].worker
         via == workers[w].transport
     IN  pings' = IF via = NoTransport THEN pings
                  ELSE pings \cup {[worker |-> w, token |-> task[h].token, via |-> via]}
  /\ Become(h, Idle)
  /\ UNCHANGED <<workers, batch, faults>>

(* worker_deregister reads nothing: the record it writes is all defaults.   *)
Deregister(h, w) ==
  /\ task[h] = Idle
  /\ workers' = [workers EXCEPT ![w] = OfflineRow(0, Never)]
  /\ UNCHANGED <<task, batch, pings, faults>>

-----------------------------------------------------------------------------
(* The janitor.                                                            *)

(* Mutant: a draining worker is left alone. *)
StaleUnlessDraining(row) ==
  \/ row.status = "online" /\ OlderThan(row.lastSeen, StaleAfter)
  \/ row.status = "registering" /\ OlderThan(row.lastAttempt, StaleAfter)

Stale(row) ==
  \/ row.status \in {"online", "draining"} /\ OlderThan(row.lastSeen, StaleAfter)
  \/ row.status = "registering" /\ OlderThan(row.lastAttempt, StaleAfter)

(* get_stale_workers.                                                       *)
FindStale(c) ==
  /\ batch[c] = {}
  /\ batch' = [batch EXCEPT ![c] =
                 {[worker |-> w, row |-> workers[w]] :
                    w \in {v \in Workers : Stale(workers[v])}}]
  /\ batch' # batch
  /\ UNCHANGED <<workers, task, pings, faults>>

(* Mutant: only the status changes. *)
ReapStatusOnly(c, r) ==
  /\ r \in batch[c]
  /\ batch' = [batch EXCEPT ![c] = @ \ {r}]
  /\ workers' = [workers EXCEPT ![r.worker] = [r.row EXCEPT !.status = "offline"]]
  /\ UNCHANGED <<task, pings, faults>>

(* The record written is the one that was read, with what deregistration    *)
(* clears cleared.                                                          *)
ReapWorker(c, r) ==
  /\ r \in batch[c]
  /\ batch' = [batch EXCEPT ![c] = @ \ {r}]
  /\ workers' = [workers EXCEPT ![r.worker] = OfflineRow(r.row.lastSeen, r.row.lastAttempt)]
  /\ UNCHANGED <<task, pings, faults>>

-----------------------------------------------------------------------------
(* The environment.                                                        *)

(* A message is consumed, or lost.                                         *)
Drop(p) ==
  /\ pings' = pings \ {p}
  /\ UNCHANGED <<workers, task, batch, faults>>

Fault(h) ==
  /\ faults < MaxFaults
  /\ task[h] # Idle
  /\ faults' = faults + 1
  /\ Become(h, Idle)
  /\ UNCHANGED <<workers, batch, pings>>

AbortPass(c) ==
  /\ faults < MaxFaults
  /\ batch[c] # {}
  /\ faults' = faults + 1
  /\ batch' = [batch EXCEPT ![c] = {}]
  /\ UNCHANGED <<workers, task, pings>>

(* Time passes for the rows, and for the records read from them.           *)
Older(row) == [row EXCEPT !.lastSeen    = Aged(@, Horizon),
                          !.lastAttempt = Aged(@, Horizon)]

Tick ==
  /\ workers' = [w \in Workers |-> IF Exists(workers[w]) THEN Older(workers[w]) ELSE workers[w]]
  /\ task' = [h \in Handlers |-> IF task[h].pc = "write"
                                 THEN [task[h] EXCEPT !.row = Older(@)] ELSE task[h]]
  /\ batch' = [c \in Janitors |-> {[r EXCEPT !.row = Older(@)] : r \in batch[c]}]
  /\ UNCHANGED <<pings, faults>>

-----------------------------------------------------------------------------
Init ==
  /\ workers = [w \in Workers |-> [OfflineRow(0, Never) EXCEPT !.status = Absent]]
  /\ task    = [h \in Handlers |-> Idle]
  /\ batch   = [c \in Janitors |-> {}]
  /\ pings   = {}
  /\ faults  = 0

Request(h) ==
  \/ \E w \in Workers, desired \in {"online", "draining"}, t \in Transports, k \in Tokens :
       Register(h, w, desired, t, k)
  \/ \E p \in pings : Verify(h, p)
  \/ \E w \in Workers : Deregister(h, w)

HandlerStep(h) == Upsert(h) \/ StorePing(h) \/ SendPing(h)

JanitorStep(c) == FindStale(c) \/ \E r \in batch[c] : ReapWorker(c, r)

Next ==
  \/ \E h \in Handlers : Request(h) \/ HandlerStep(h) \/ Fault(h)
  \/ \E c \in Janitors : JanitorStep(c) \/ AbortPass(c)
  \/ \E p \in pings : Drop(p)
  \/ Tick

Spec == Init /\ [][Next]_vars

(* Handlers run on, the janitor reschedules itself, and time passes.       *)
Fairness ==
  /\ \A h \in Handlers : WF_vars(HandlerStep(h))
  /\ \A c \in Janitors : WF_vars(JanitorStep(c))
  /\ WF_vars(Tick)

FairSpec == Spec /\ Fairness

-----------------------------------------------------------------------------
(* Safety.                                                                 *)

TypeOK ==
  /\ workers \in [Workers -> Row]
  /\ task    \in [Handlers -> Task]
  /\ batch   \in [Janitors -> SUBSET [worker : Workers, row : Row]]
  /\ pings   \subseteq Ping
  /\ faults  \in 0 .. MaxFaults

(* Lost updates lose whole records, never parts: a worker that is up has a  *)
(* transport to send it messages on, and one that is not has neither        *)
(* transport nor a token that would let a late echo bring it back.          *)
RowsAreWhole ==
  \A w \in Workers :
    LET row == workers[w]
    IN  /\ row.status \in Up => row.transport # NoTransport
        /\ row.status \notin Up => row.transport = NoTransport /\ row.token = NoToken

(* A worker that is registering has a time the handshake times out from.   *)
RegisteringIsReapable ==
  \A w \in Workers : workers[w].status = "registering" => workers[w].lastAttempt # Never

(* A token the row still expects is in the table, or travels on the         *)
(* transport the row names, and on no other, however many registrations, on *)
(* other transports too, overlapped.  So an echo shows that the worker      *)
(* reads that transport, unless it polled the table.                        *)
TokensTravelAsNamed ==
  \A p \in pings :
    workers[p.worker].token = p.token => p.via \in {Table, workers[p.worker].transport}

(* A token gets into the row only with the registration it was generated    *)
(* for: no stale record brings back one that was used or replaced.          *)
TokensComeFromRegistrations ==
  [][\A w \in Workers :
       workers'[w].token \notin {NoToken, workers[w].token} =>
         \E h \in Handlers : /\ task[h].pc = "write"
                             /\ task[h].ping
                             /\ task[h].worker = w
                             /\ task[h].row.token = workers'[w].token]_vars

-----------------------------------------------------------------------------
(* Liveness.                                                               *)

(* A worker that stops calling is taken offline, whatever its state and     *)
(* whichever of its requests were still being handled.                      *)
SilentGoesOffline ==
  \A w \in Workers :
    <>[](\A h \in Handlers : task[h].pc # "write" \/ task[h].worker # w) =>
      (workers[w].status \in Up ~> workers[w].status \notin Up)

(* So is one that goes on registering but never echoes: registration does   *)
(* not count as a sign of life.                                             *)
UnreachableGoesOffline ==
  \A w \in Workers :
    <>[](\A h \in Handlers :
           task[h].pc = "write" /\ task[h].worker = w => task[h].ping) =>
      (workers[w].status \in {"online", "draining"} ~>
         workers[w].status \notin {"online", "draining"})
=============================================================================
