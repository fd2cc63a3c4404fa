# dffmpeg in TLA+

dffmpeg runs ffmpeg jobs on a pool of machines. Clients submit jobs to a
coordinator (one or several processes over one database); the coordinator
assigns them to workers; a worker runs the program and reports back. Commands
travel from the coordinator over a *transport* (HTTP polling, RabbitMQ, MQTT),
answers travel to it as API requests. Almost everything is a coroutine that
reads a row, awaits, and writes a row that somebody else may have written
meanwhile; and almost everything has a timeout. That is what these modules are
about.

Contents: [parts of the system](#parts-of-the-system), [modules](#modules),
[runs](#runs), [findings](#what-the-violations-show), [proofs](#proofs),
[limits](#what-is-only-model-checked-and-what-is-not-modelled), [plan](#plan).

In what follows `coordinator/`, `worker/`, `common/` and `client/` stand for
`src/packages/dffmpeg-<name>/src/dffmpeg/<name>/`.

## Parts of the system

**Jobs table** (`coordinator/db/jobs/`). State: a row per job: status
(`pending, assigned, running, canceling` and the terminal `completed, failed,
canceled`), `worker_id`, `last_update`, `worker_last_seen`, `client_last_seen`,
`monitor`. Operations: `create_job`, `update_status` with or without the guard
`previous_status`, the two heartbeats, and the queries for stale, retriable and
abandoned rows. Each is one statement that commits on its own. Hard: a NULL
timestamp is never older than anything; `last_update` moves with every status.
Correct when each status that is left by a timeout has the timestamp its
timeout reads.

**Job routes** (`coordinator/api/routes/job.py`). No state of their own.
Submission, accept, reject, status report, cancel, worker and client heartbeat:
await a read, check, await a write, await one `send_message` after another. The
check does not guard the write. Correct when the outcome that stands is the one
the client was told, a completed job names who completed it, and no
overlap of requests makes a row that nothing will ever time out.

**Scheduler** (`coordinator/scheduler.py`). Runs as a background task after a
submission and from the janitor: reads the job, the online workers, their load,
then writes `assigned` unconditionally, three awaits after its check.

**Janitor** (`coordinator/janitor.py`). One per coordinator process; a pass is
`reap_workers, reap_running, reap_assigned, reap_pending (retry, then timeout),
reap_abandoned`; each queries rows and then handles them one by one with awaits
between. An exception ends the pass. Correct when nothing stays in a
non-terminal status for ever and when a timeout never hits a job that has moved
on.

**Workers table and worker routes** (`coordinator/db/workers/`,
`coordinator/api/routes/worker.py`). A row per worker: status (`registering,
online, draining, offline`), transport and capabilities, `last_seen`,
`last_registration_attempt`, the expected `registration_token`. `worker_register`
upserts a row and then, in the background, sends the token over the transport;
the worker echoes it to `worker_verify`; `worker_deregister` and the janitor
write the worker offline. Hard: every write is an upsert of *all* columns, built
on a record read before an await.

**Messages and transports, coordinator side** (`coordinator/db/messages/`,
`coordinator/transports/`). A message is inserted in the messages table and then
handed to a transport. HTTP polling: a request looks for unsent (or newer than
its cursor) rows, marks them sent, writes them to the connection; if there were
none it waits on an `asyncio.Event` that `send_message` and `drain` set, or for
an interval. Hard: the message that is stored between the query and the wait;
rows marked before they were written; ids drawn before the insert; a request
that goes on after its connection broke. Over a broker (`backend_transport`) a
request reads the table once and then registers for its recipient's queue name
with the one queue its process has (`rabbitmq.py`). Hard: what is published
between the read and the bind; two requests of one recipient under one name;
unbinding and registering while deliveries are dispatched. MQTT hands over to
a library.

**Transports, recipient side** (`common/transports/`). A polling or streaming
loop with a cursor, reconnecting after an error; subscriptions to a broker.

**Worker agent** (`worker/worker.py`, `worker/transport.py`). Registration loop,
a timeout for the verification of the transport, the listener that dispatches
job requests, status messages and verify messages, draining and stopping on a
signal. Hard: the timeout tears the transport down while the loop may be
starting it; draining cancels a registration that is already under way; a batch
of messages is collapsed to the newest of each job. Correct when it becomes
reachable again after every disturbance, says that it drains, ends when told
twice, and never runs a job that it was told to cancel.

**Job runner** (`worker/job.py`, `worker/executor.py`). Per job a main task
(accept, run, flush, report), a task that flushes the log in batches, a
heartbeat task, and calls of `cancel`/`abort` from the dispatcher at any moment.
Hard: `CancelledError` is thrown at whatever await a task is at, the `finally`
included. Correct when it ends, leaves no process behind, loses no output
without cause, and reports one outcome.

**Client** (`client/api.py`, `client/cli.py`). A session submits or attaches,
keeps a heartbeat, waits on the job's transport for a terminal status, cancels on
interrupt. Hard: several sessions read one transport; the message that ends a
session may have been taken by another or be lost. Correct when a job that is
followed is monitored, and a session ends with its job.

**Around these**: mount manager (`worker/mounts.py`), path mapping
(`common/paths.py`), authentication, encryption of keys, dashboards and metrics,
admin commands, engines and migrations, configuration.

How they interact: *routes, scheduler and janitor* share the two tables and meet
only there; they call the *transport manager*, which reads a recipient's row to
choose the transport. The *agent* hears of its jobs only by messages and answers
only by requests; a runner is created per job and called back by the agent. The
janitor and the agents never talk: silence is what a timestamp has not been
written for.

`PROJECT.json` lists all parts with what is modelled of each.

## Modules

| module | models | is used by |
| --- | --- | --- |
| `Ages` | timestamps as ages, NULL included | `JobStore`, `WorkerRegistry` |
| `JobStore` | a job row, the statements that write it, the janitor's queries | `Coordinator` |
| `Coordinator` | job routes, scheduler, janitor phases, faults | `MCCoordinator`, `CoordinatorProofs` |
| `WorkerRegistry` | worker routes with the handshake, `reap_workers` | `MCWorkerRegistry`, `WorkerRegistryProofs` |
| `Polling` | messages table, HTTP polling and streaming, its client | `MCPolling`, `PollingProofs` |
| `Relay` | HTTP polling over RabbitMQ: table, broker, the queue a process shares among its requests | `MCRelay`, `RelayProofs` |
| `Mailbox` | abstract: what a recipient may rely on | refined by `Polling` and by `Relay` |
| `Runner` | abstract: what a worker may rely on when it keeps a job | implemented by `JobRunner` |
| `JobRunner` | runner, log flusher, heartbeat task, subprocess | `MCJobRunner`, `JobRunnerProofs` |
| `WorkerAgent` | the worker process: registrations, timeouts, listeners, draining, stopping | `MCWorkerAgent`, `WorkerAgentProofs` |
| `Session` | sessions of the client composed with `Coordinator`'s job routes | `MCSession`, `SessionProofs` |
| `*Proofs` | theorems | |
| `MC*` | symmetry for TLC | |

### Time

A column with a timestamp is modelled by its age (`Ages`). One `Tick` makes all
rows older; an age saturates one above the largest threshold it is compared with,
so the state space is finite and nothing is lost: no comparison can tell two
larger ages apart. `Never` is NULL, and `OlderThan(Never, n)` is false, as in
SQL. Thresholds are constants, any natural number in the proofs.

### Coordinator

`jobs` is the table; `task[s]` is what the coroutine in slot `s` is suspended
before, with exactly the data it carries over that await (`Writing(pc, job,
worker, status)`, `Selecting`, `Sending(todo)`); `phase` and `batch` are a
janitor's place in its pass and the rows its query returned; `told` is history.
A handler is two or more actions: `AcceptRead` (the row and the 403 check) and
`AcceptWrite` (the statement), then one `Send` per message in the order in which
the code awaits them. `WriteRow` is a write followed by messages. A refused
request changes nothing and is no step. The scheduler is `AssignRead`,
`AssignSelect` (the registry's answer is any set of workers; ties are broken
any way), `AssignWrite`, and runs in a handler's or a janitor's slot, because
`reap_pending` awaits it. `ReapRow` is the guarded statement: if the row left
the expected status, neither write nor message. `Fault` is an exception in a
handler or a crash, between any two statements; `AbortPass` ends a pass.

Any caller may call anything at any time, subject to the checks in the code.
This makes the agents' behaviour a special case: what is shown holds whatever
workers and clients do.

### WorkerRegistry

`workers` is the table, `task[h]` a handler that is about to upsert the record it
built (`Writing(w, row, ping)`) or to send the verify message, `batch` the
records a janitor has read, `pings` the verify messages under way with the way
they took: `send_message` stores one (`StorePing`: way `Table`, where any HTTP poll
of the worker finds it) before it reads the row to choose the transport
(`SendPing`), so an echo may come over either. `transport` stands for the columns that are set and cleared
together with it. Tokens are fresh when drawn (`Held`), as `token_urlsafe(32)`
is; a worker can echo only what it was sent.

### Polling and Mailbox

One mailbox (one recipient; for a job's path, one job). `Post` is the insert,
`Announce` what `send_message` does afterwards in its own process; `Forget` is a
sender that failed, or a message for which another transport was chosen. A
request goes `query -> read -> reply` or `-> wait`: the query reads, `Mark` sets
`sent_at`, `Reply` writes to the connection; `woken` is its event. A request whose
connection broke lives on until `Cancel`. `client` is the recipient's connection
and cursor. `received`, `late` and `missed` are history: `late` is a message that
was inserted after one with a larger id had been read, `missed` one marked sent
that did not arrive and that the cursor does not ask for again.

`Mailbox` says what remains for a recipient: what is posted is received some
time, unless it fell among those at risk. `Mail == INSTANCE Mailbox WITH posted <-
table, atRisk <- late \cup missed` is the refinement mapping.

### Relay

The same mailbox over a broker. `Post` is the insert, `Publish` what
`send_message` hands to RabbitMQ, once the connection task has declared the
process's queue (`ready`, `Connected`). A request goes `query -> read`, and then
either to `reply`, or, if a poll found nothing and for a stream in any case,
`history -> connect -> wait`: it is registered under the recipient's queue name
when the broker has served `bind`, and from then on takes what `Dispatch` puts
into its memory. `reader` holds one request per process: a second one of the same
recipient takes the name over, and whichever ends first gives it up for both
(`bound`). Channel calls are served in order, so registering and unregistering
are the steps at which the broker has served them. `late` and `missed` are as in
`Polling`; `unheard` collects what was published or dispatched while the
recipient's request had read the table and heard nothing (`Deaf`), or was never
published because that failed. The refinement mapping puts all
three at risk; `PollsFindIt` then says what a poll, which reads the table anew
each time, gets back of them.

### JobRunner

`main` holds the await `_run` is at, the branch it is in (`mode`: the `try`, the
`CancelledError` handler, the `Exception` handler), the attempts its report has
left, its own flush, and whether a throw is due. `flusher`, `heartbeat` and
`process` are the others; `log` is what the process has written to its two
pipes and nobody has read, which readers are left, what was read, what is queued,
what is in the buffer and what the coordinator has stored; `net` the reports that arrived or
are under way without a sender. `Signal` is a call of `cancel`, `cancel` with
`fast_shutdown`, or `abort`: it marks the task that is suspended (a main task
that awaits another passes the cancellation on), and `Throw`/`FlusherThrow`
deliver it later; two calls before that throw once. A request abandoned by a throw
may have arrived, may arrive later, or be lost. A line goes from the process to a
pipe (`Write`), to the queue (`Read`), to the table. A line that cannot be decoded
or is too long ends its reader (`ReaderBreaks`): all else of that stream is lost,
and the process goes on. Leaving the executor drops what is unread (`Unread`):
nothing, when the readers came to their end (`Exit`), perhaps something when a
throw ended them. The two streams are told apart as far as one can lose its
reader without the other; unread lines of a stream that nobody reads are
forgotten. That a process whose pipe is full and unread may hang is covered by
`Exit` not being fair.

`Runner` is what the worker that keeps the job relies on, with the stages that
`WorkerAgent` has in `jobs` (active, stopping, none): the process is spawned once,
before anybody asked the runner to stop; of completed and failed it tells one, the
true one, and begins to tell it only before it was asked; after that it begins
only canceled, unless told to be silent; nothing is told of a process that still
runs, and none is left behind, unless it was asked twice; and it does not go
unasked without having told something, unless a request failed. `Contract` maps
`JobRunner` to it: a report waiting for its next attempt is still being told
(`Saying`), one that nobody waits for is told as soon as it may arrive (`Sent`),
a process that was told to exit is alive until it has (`Alive`).

### WorkerAgent

One event loop. A task runs until it waits, so an action is what a task does from
one wait to the next. `tasks` holds the registration loops (the one of `start` and
the one `drain` replaces it by), the verification timeouts and `stop()`; `timer`,
`handle` and `current` are the attributes `_verification_timeout_task`,
`_transport_task` and `_current_transport`, which may name a task or transport
that others are about to stop. `_stop_transport` waits twice, for the listener
(`Joining`) and for the transport (`Closing`), and has three callers; two of them
can be in it at once, and a new transport can be connected in between. A cancel
that reaches a task at the first wait cancels the listener again and is lost.
`listeners` are the listener tasks, left-over ones included: waiting for a first
message, debouncing, handling a batch (`Collapse`), echoing a token, reporting.
The coordinator is the environment: `posts` are registrations under way, `row` and
`heard` what it believes, `mail` what it has sent. A message about a job has its id
(`Compose`) before `send_message` awaits the table, the row and the broker; until
it arrives (`Publish`) it is in `sending`, with the transports the row has named
since, any of which it may take. So messages may overtake one another, between
transports and on one; `at` numbers those that arrived. Its steps that come at an
unlucky time (it switches the transport, a connect fails, a message is lost)
count as faults. What a runner does is `JobRunner`; here a job ends by itself or
when it is stopped.

### Session

`Coord == INSTANCE Coordinator WITH told <- inbox` with no janitor and no faults:
what the coordinator's handlers tell the client is what the sessions' transport
has in store. Sessions call where `Coordinator` lets anybody call anything; workers
still call what they like. A session goes from `new` to `submitted` (or
`detaching`) or to `monitoring` and `attached`, then `streaming`, and `done`;
`beats` is its heartbeat loop, which posts without being waited for; `on` the slot
whose answer it waits for. A message may be taken by another session, by nobody,
or by both (`ReceiveStatus`, `MessageLost`); `Leave` is an interrupt or the end
of the process anywhere. To a session, a janitor or an exception is a job that
ends, an answer or a message that is lost.

## Runs

Every run explores its instance completely. Deadlock is checked except for the
runner, which ends.

| run | instance | question |
| --- | --- | --- |
| `coordinator_janitor` | 1 job, 2 workers, 1 request or background assignment at a time, 1 janitor, 1 fault | Does an interleaving of a request with a janitor pass leave a row that cannot be reaped, an outcome the client was not told, a completion without its worker, or a timeout that hits a job that moved on? |
| `coordinator_liveness` | 1 job, 1 worker, 1 request, 1 janitor | Does a job stay pending, unanswered, with a silent worker or without its client for ever? |
| `coordinator_forced`, `coordinator_final` | as `coordinator_liveness` | two statements of the documentation that the code does not keep |
| `registry` | 1 worker, 2 overlapping requests, 1 janitor, 1 transport, 2 tokens, 1 fault | Do lost updates of whole records ever break a record, leave a handshake that cannot time out, or revive a token? Is a silent or unreachable worker always taken offline? |
| `polling` | 2 messages, 1 process, 2 requests (one may be a zombie), 1 fault | Is anything slept through, does draining reach everyone, and what exactly can be lost? Is it a mailbox? |
| `relay` | 2 messages, 1 process, 2 requests that share a queue name, 1 fault | The same over a broker: is it a mailbox, and does a recipient that polls find what it did not hear? |
| `relay_stream` | 1 message, 1 request, no fault | a statement of the documentation about streams |
| `job_runner` | 2 lines, batches of 1, 2 attempts, 3 signals, 1 failed request | Does the runner end, what has it reported, stored and left running then, and is it a `Runner`? |
| `job_runner_cancel` | 1 line, 2 signals | a statement of a comment |
| `agent` | 1 transport, 1 job, 2 listeners, 2 timeouts, 2 messages, 1 fault | Whichever registrations, timeouts, broken connections and signals overlap: is the worker reachable again, does it say that it drains, does it end when forced, does it act on a cancel, and does draining kill nothing? |
| `session` | 1 job, 1 worker, 1 request, 2 sessions | Does everyone who follows a job end with it, also when messages are lost or taken by another, and is the job monitored meanwhile? |

### The bounds, and why they are enough

* *Jobs and workers.* Handlers and janitors touch one job at a time, and no
  statement reads two rows but the load query, whose answer is only a choice among
  workers. Two workers are needed for a rejection, a reassignment and a late
  request of the former owner. The theorems have no bound.
* *Requests at a time.* One request against the janitor suffices for every
  overlap of two writers of one row; overlaps of two requests are covered by the
  theorems on the same properties, which hold for any number of slots and of
  coordinators. In the registry two requests overlap in TLC, too.
* *Thresholds* are 0 (older than 0 units) or 2 (room for the retries between
  0 and the limit): each query is false, then true, as time passes, and a row can
  be touched on either side of a threshold.
* *Tokens.* One that a row expects and one that is drawn meanwhile: at least a
  third thing that holds a token is then stale. `TokensComeFromRegistrations` and
  its theorem have no bound. One transport suffices for the properties of the run
  (310,950 states), which do not compare transports; `TokensTravelAsNamed` does,
  and was checked with two (379,922 states) before it was proved.
* *Messages.* Two ids are enough for the order of ids to differ from the order of
  insertion, and for one to be in a batch while the other arrives. Two
  processes add nothing that `Forget` does not (a message that is not announced
  here); the inductive invariant of `PollingProofs` was checked with two. `Relay`
  was checked with 2 processes and 1 message in full (198,000 states), and with 2
  processes and 2 messages for its type invariant (8.8 million states).
* *The agent.* Two listener and two timeout slots are what its tasks can use at a
  time: an orphan and its successor. Two messages are a request and the cancel
  that overtakes it, is overtaken by it, or is collapsed with it; one transport
  is connected, disconnected and connected again, with 513,206 states. Beyond the
  run, 2 transports with 1 message and a fault were checked for safety (1.34
  million states), 2 transports with no message and a fault for all liveness
  (140,874). A batch of more than 100 messages, which the listener splits, does
  not occur.
  `LongInterval` is true: with the default interval the statement
  `RecoversTransport` fails (see [observations](#what-the-violations-show)).
* *Sessions.* Two, one that takes the other's message. Two overlapping requests
  were checked for safety (2.9 million states); one at a time suffices for the
  sessions' own steps, which come between any read and write of a handler.
* *Lines.* Two: with batches of 1, one that is cut from the buffer and one that is
  kept, and one that is read while another is flushed; 556,932 states. The
  theorems have no bound.
* *Signals.* Three. `LogIsComplete` is about at most three and fails with a
  fourth (a first cancel, and then the flush of the handler, of the `finally` and
  of the flusher each interrupted); `ProcessIsStopped` is about at most one and
  fails with a second, which interrupts the wait before the kill. Their bounds
  are the exact ones.
* *Faults.* Each names a failure at any point; the properties that speak of
  `faults = 0` need none, the others hold with one at every point.

### Fairness, and why the code justifies it

* A coroutine that is not waiting for anything runs on: weak fairness of
  `HandlerStep`, `JanitorStep`, `PollerStep`, `MainStep`, `FlusherStep`. The
  janitor reschedules itself after every pass, failed or not
  (`janitor.py:125-140`); `Tick` is time.
* Nobody has to call: requests have no fairness. Where a property needs callers,
  or needs them to stop, it says so: `PendingIsResolved` assumes that rejections
  end, `SilentWorkerIsReaped` that heartbeats do.
* `Reconnect` is fair because the client's loop opens the next request in an
  endless loop, and `Cancel` because `_monitor_disconnect` polls the connection.
  `Announce` and `Drain` are *not* fair: a message must be delivered also if
  nobody announces it, by the interval.
* In `Relay` the coroutines, the broker's dispatch, the connection task and a send
  that has begun are fair, and so is the recipient's `Reconnect`; posting,
  draining and breaking are not.
* In `WorkerAgent` every task of the event loop, every listener and a runner that
  was told to stop go on (`StopsWhenAsked` shows this of `JobRunner`), the
  coordinator answers registrations, and what it has sent is fetched. Signals, faults, messages about jobs, and the end of a job that
  was not stopped are not fair.
* In `Session` handlers and sessions go on. `Heartbeat`, `CancelJob` and `Receive`
  are strongly fair: the coordinator serves requests side by side, while the model
  has a few slots that others may take; and of messages that are sent again and
  again some arrive. That is a requirement on the transport; without it a session
  whose every message is lost streams for ever.
* The subprocess may run for ever (`Exit`, `Write` and the readers' steps are not
  fair). Requests of
  the runner are answered or fail, since they have timeouts, and a process that
  was terminated exits or is killed.

### The properties

Rows and outcomes: `RunningIsReapable`, `ClientToldOutcome` (whichever write
overwrote which, the client of a job that is over has been sent the status the row
has, or a handler is about to send it; in which order it gets that and others is
not recorded, and of a row that is not terminal nothing is said),
`OutcomeIsAttributed`,
`TimeoutsNeverClobber`, `PendingIsResolved`, `UnansweredIsRequeued`,
`SilentWorkerIsReaped`, `AbandonedIsStopped`.
Registry: `RowsAreWhole`, `RegisteringIsReapable`,
`TokensComeFromRegistrations`, `SilentGoesOffline`, `UnreachableGoesOffline`.
Polling: `NothingIsSleptThrough`, `DrainIsHeard`, `LossIsExplained`, `IsMailbox`.
Relay: `IsMailbox`, `PollsFindIt`, and in `TypeOK` that only a request that is
there is registered, so that nothing is delivered to one that has ended.
Runner: `ProcessIsStopped`, `LogIsComplete` (of the lines that were read),
`DuplicatesAreExplained`, `AbortIsSilent`, `IsRunner`, `StopsWhenAsked`, `LinesAreFlushed`.
Agent: `GracefulDrainKillsNothing`, `CancelIsActedOn` (when a cancel is dealt with, no
older request is left in the hands that took it, nor one that arrived before it on
the transport that is current), `RecoversTransport` (if `LongInterval`),
`DrainIsAnnounced`, `ForcedStopEnds`.
Session: `FollowedIsMonitored`, `SessionEnds`.
Each is stated in words above its definition, and each has in `PROJECT.json` a
mutant, a plausible bug in one operation, that TLC finds by it.

## What the violations show

1. `coordinator_final`: the scheduler reads a job, and writes `assigned` without
   `previous_status` some awaits later (`scheduler.py:36-38, 78`). A job that
   was canceled in between is resurrected and sent to a worker.
2. `coordinator_forced`: the state diagram has *Canceling --> Canceled: Worker
   Confirms / Forced*, and `janitor.py:286` speaks of a terminal state; the code
   writes `canceling` again, and no phase ends it. A canceling job whose worker
   has gone stays so.
3. `job_runner_cancel`: a second cancel that arrives while the runner handles the
   first is thrown into the handler; the job ends without a report. With 2., it
   stays `canceling`.
4. `relay_stream`: a stream reads the table once (`http_polling.py:284`), and then
   awaits the recipient's row and the broker's `bind` before its queue hears
   anything. A message published in between is never yielded, though
   `docs/transports.md:43` says messages are *yielded live as they arrive*; a poll
   would find it in the table.

Observations met while modelling that no run states:

* With the default `registration_interval` of 15 s, the interval equals the fixed
  timeout of the verification (`worker.py:193`): a registration may replace the
  timeout, and clear the event, just before it fires, again and again. With
  `LongInterval = FALSE`, TLC finds `RecoversTransport` violated.
* A worker that registers as draining and then as online is online without having
  echoed a token (`coordinator/api/routes/worker.py:89`), against *must verify* in
  the changelog (`CHANGELOG.md:48`) and the handshake of
  `docs/architecture.md:237-246`.
* Rows are marked sent before they are written to the connection
  (`db/messages/sqlalchemy.py:76`). If it breaks in between and the recipient has
  no cursor yet, the message is never selected again; `missed` says exactly which.
* Of two messages about a job the older by id may arrive later, as ids are drawn
  before `send_message` begins (`scheduler.py:87`, `job.py:308`,
  `transports/__init__.py:79-93`). A request that arrives after its cancel was
  handled starts the job, on a current transport that nobody disturbs; the accept
  that follows is taken as long as the row names the worker, canceled or not
  (`api/routes/job.py:181-186`), and if it is refused, the worker does not look at
  the answer (`job.py:203`). Collapsing a batch helps only if both are in it.
  `CancelIsActedOn` therefore goes by arrival where two batches are concerned.
* A verify message is in the messages table whichever transport the row names
  (`coordinator/transports/__init__.py:79`), and a poll of the worker finds it
  there: an echo proves that the worker can be reached in one of two ways, not
  that the transport of its row works.
* Output is lost without any failed request when a line cannot be decoded or
  exceeds the reader's limit (`executor.py:85-88`; all that follows on that stream
  goes with it, and a process that fills the pipe hangs), and when a cancel ends
  the readers (`executor.py:91-94`) before they have read what is in the pipes or
  what the process writes until it has exited. `LogIsComplete` is about the lines
  that were read.
* A request left on a transport the worker has left, or held by a listener that
  was left over, can start a job that was canceled meanwhile. So can a request on
  the current transport, if a listener left over handles the cancel (`_transport_task`
  holds one listener, and nobody cancels one that is no longer held,
  `worker.py:236-247`), which takes two transports. `CancelIsActedOn` speaks of
  the other cases.
* `stream_and_wait` returns 130 for a canceled job where its docstring says 1; to
  attach to a job that has failed already returns 0.
* `_get_depth` in `worker/mounts.py` shares `visited` between branches, so a mount
  that is reached twice has depth 0 the second time; its docstring promises a
  topological order.

## Proofs

All theorems are for any sets of jobs, workers, slots, coordinators, tokens,
transports, messages, requests, listeners and timeouts, any thresholds, and any
number of faults and signals; they
assume only the modules' named assumptions (identities are distinct, bounds and
thresholds are natural numbers).

| module | theorem | establishes |
| --- | --- | --- |
| `CoordinatorProofs` | `TypeCorrect`, `Reapable`, `Told`, `TimeoutsAreGuarded`, `OutcomesAreReported` | `TypeOK`, `RunningIsReapable`, `ClientToldOutcome`, `TimeoutsNeverClobber`, `OutcomeIsAttributed` |
| `WorkerRegistryProofs` | `TypeCorrect`, `RowsStayWhole`, `HandshakesTimeOut`, `EchoPaths`, `TokensAreNotRevived` | `TypeOK`, `RowsAreWhole`, `RegisteringIsReapable`, `TokensTravelAsNamed`, `TokensComeFromRegistrations` |
| `PollingProofs` | `TypeCorrect`, `NeverSleptThrough`, `DrainHeard`, `LossExplained`, `ImplementsMailbox` | `TypeOK`, `NothingIsSleptThrough`, `DrainIsHeard`, `LossIsExplained`, and `Spec => Mail!Safe` |
| `JobRunnerProofs` | `TypeCorrect`, `ProcessStopped`, `DuplicatesExplained`, `SilentAfterAbort`, `LogStored`, `ImplementsRunner` | `TypeOK`, `ProcessIsStopped`, `DuplicatesAreExplained`, `AbortIsSilent`, `LogIsComplete`, `IsRunner` |
| `RelayProofs` | `TypeCorrect`, `ImplementsMailbox` | `TypeOK`, and `Spec => Mail!Safe` |
| `WorkerAgentProofs` | `TypeCorrect`, `DrainKillsNothing`, `CancelsAreActedOn` | `TypeOK`, `GracefulDrainKillsNothing`, `CancelIsActedOn` |
| `SessionProofs` | `TypeCorrect`, `FollowedMonitored`, `Reapable` | `TypeOK`, `FollowedIsMonitored`, and `Coord!RunningIsReapable` |

*Coordinator.* The invariant is typing with `OwnerSeen`: a row that was ever
given to a worker has `worker_last_seen`. `RunningIsReapable` alone is not
inductive: a rejection keeps the worker of a row that becomes pending, and a
worker's late acceptance makes it running again. Which task carries which status
(`Carries`) is part of `TypeOK`, and that a report names a worker follows from
it. For `Told` the messages still to be sent by a slot are followed through
writes by other slots: a write of a terminal status always carries its own
message, a write of another makes the claim vacuous.

*WorkerRegistry.* The invariant adds to the rows what the handlers are about to
write (`GoodTask`), and that the token of a registration which has not been
written is unseen by any row, message or other handler (`TokensUnseen`):
otherwise a stale echo's record could carry it. `TokensTravelAsNamed` (a token
the row still expects is in the messages table, or in flight over the transport the
row names, and on no other) is a conjunct of the invariant, and proved only.

*Polling.* The invariant (`IInv`) says what a request holds at each of its
points, that cursors are ids of messages that arrived, that a request that was
not woken has read or is yet to be told of all its process stored
(`ReadOrToldOf`: this is where the order *event registered, query, wait*
matters), that what a request could have read and did not is late for whatever
it did read (`UnreadIsLate`), and that an unmarked row behind a marked one is late
(`OvertakenIsLate`). The last two carry `LossIsExplained`. TLC has checked `IInv`
on 2 messages, 2 processes, 2 requests and a fault. For the refinement, `Reply` to
the living connection is `Receive`, giving up rows is `Risk`, and all else
stutters.

*JobRunner.* The invariant says where the main task may be flushing and who holds
the lock (`FlushesInPlace`), that an aborted runner is on its way out or has a
throw due (`AbortedIsUnwinding`), that a run without signals has tried nothing but
its verdict (`CalmIsPlain`), that a living process is one the executor waits for
(`ProcessIsWatched`), and that queue, buffer and table hold different lines
(`LinesAreApart`). TLC has checked it on the instance of `job_runner`. `LogStored`
adds a count (`CutsAreCounted`): while lines that were read are left over, the main task was
called as often as it takes to get where it is with a flush cut short (`Cuts`),
and once more if a throw is due. A runner that is done has waited for its flusher,
which flushes once more when it is canceled (`FlusherOutlived`); so if lines are
left, that flush was cut too, and this is the fourth call. Three, the bound in
`LogIsComplete`, is therefore exact. `ImplementsRunner` adds that a runner that was
asked is leaving (`AskedIsLeaving`), what its process is when it has a verdict
(`VerdictIsTrue`), and that a calm run says something before its finally
(`SomethingIsSaid`); one lemma per kind of step then names the step of `Runner` it
is: an answered report is `Tell`, a failed one `TellFails`, one cut by a throw
`TellIsCut`, the end of a flush `Begin` or `Fail`, and what concerns the log only
is none. TLC has checked this invariant, too, on the run's instance.

*Relay.* The invariant adds to typing that what a request holds are rows
(`HandsAreRows`), and so is what is published, in a queue, or in a request's memory
(`QueuedAreRows`). Typing has the part that is not obvious, the registration: a
request that ends gives its name up, and one that takes a name over leaves its
predecessor unregistered but waiting. For the refinement, `Reply` to the living
connection is `Receive`, publishing past a deaf request and giving up rows is
`Risk`, and all else stutters.

*WorkerAgent.* The invariant adds that a registration which stops a transport has
another to connect (`HasTarget`), that only `stop()` makes the main task wait for
the transport (`StopperStops`), and that once it drains no job is started
(`DrainsDry`): while `drain()` waits, the active jobs are among those it waits
for, and a main task that stops unforced has none. The step that matters is
`Handle`: a batch taken before the signal is handled after it. `CancelsAreActedOn`
rests on an invariant about the order of arrival (`OrderOK`, lemma `ArrivalOrder`),
which the coordinator does not keep to that of ids: nothing arrived after the
last one (`Numbered`), what a transport has fetched arrived before what it has not
(`FetchedFirst`), and the listener that is held reads the current transport and
has a batch that arrived before all that is still to come (`ReadsItsOwn`).
Collapsing a batch keeps the message of a job with the greatest id, whenever it
arrived; it exists because strict inclusion of finite sets is well-founded
(`Greatest`). TLC has checked `OrderOK` on the run's instance, and with 2
transports.

*Session.* The coordinator of `Session` is an instance of `Coordinator` with
handlers only, so `CoordinatorProofs` is instantiated too, and its lemmas, which
are about any callers, are cited for rows and slots (`Base!IInv` is the first
conjunct of the invariant). What is new is what a session may rely on (`Sound`):
the job it follows exists, and is monitored or about to be by the session's own
request, which is in a slot that still has to write; no write turns monitoring
off (`Keeps`). `FollowedIsMonitored` by itself is not inductive: the session that
attached would find its request gone. TLC has checked the invariant with 2
sessions and 2 handlers (2.9 million states).

## What is only model-checked, and what is not modelled

Only model-checked: liveness (`~>` and `[]<>` under fairness, and the `Delivery`
half of `IsMailbox`), which the proof system does not reach: `PendingIsResolved`,
`UnansweredIsRequeued`, `SilentWorkerIsReaped`, `AbandonedIsStopped`,
`SilentGoesOffline`, `UnreachableGoesOffline`, `StopsWhenAsked`,
`LinesAreFlushed`, `RecoversTransport`, `DrainIsAnnounced`, `ForcedStopEnds`,
`PollsFindIt`, `SessionEnds`. Every other property of a passing run is stated by a
theorem.

Left out, with the reason:

* *Authentication, encryption, wording, dashboards, metrics, migrations*: nothing
  here depends on more than that a caller is who it says.
* *The order of candidates by `last_seen`*: any least loaded worker may be chosen,
  which allows more than the code does.
* *Log submission and retrieval on the coordinator, and following a log in the
  client*: inserts and reads of a table nobody else writes (the runner's side is
  modelled).
* *The janitor's task queue and the coordinator's lifespan*: phases run in any
  order at any time here, which allows what the queue allows; start-up and
  shutdown run once and in order. Draining, which others wait for, is modelled.
* *Reconnection inside aio_pika, publishing over MQTT*: libraries. The worker's
  direct clients are transports of `WorkerAgent` that connect, are read, and
  break.
* *The mount manager*: a sequential pass over a small tree between calls of
  systemctl, checked before a registration. *Path mapping*: prefixes of strings.
* *Two coordinators with one clock each*: ages are those of the database's rows;
  clocks that differ are not modelled.

## Plan

Done: `JobStore`, `Coordinator`; `WorkerRegistry`; `Polling`, `Mailbox`;
`JobRunner`; `WorkerAgent`; `Relay` (the second refinement of `Mailbox`);
`Session` (the client composed with the coordinator); `Runner`, which `JobRunner`
implements; theorems on all of them. Next, in this order:

1. `System`: `Coordinator`, `Runner` and mailboxes composed. Properties: when two
   workers run one job (the answer to accept is not looked at, `job.py:203`) the
   first is told to stop; a worker's silence in the end frees its job.
2. Pure algorithms over bounded inputs, each against a reference definition: path
   mapping on prefixes, the mount manager's dependencies.
3. The janitor's task queue and the coordinator's lifespan.
