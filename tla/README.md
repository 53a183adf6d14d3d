# Transmit in TLA+

Models, model checks and proofs of *transmit*, a service that accepts
schedules over gRPC and hands their messages to NATS when they are due.

## The system

One process runs a gRPC server and a scheduler task over a shared repository;
several replicas of the process may share one PostgreSQL database
(`chart/values.yaml`).

| Component | State | Operations | Interacts with |
|---|---|---|---|
| Domain model, `src/model.rs` | `Transmission`: id, schedule, `next`, `transmission_count` | `Transmission::new`, `transmitted`, `Schedule::next` | used by all |
| Scheduler, `src/scheduler.rs` | none of its own but the batch in hand | `schedule`, `run`, `process_batch`, `transmit` | repository, transmitter, clock, metrics |
| PostgreSQL repository, `src/repository_postgres.rs` | table `transmission` | `store_transmission`, `poll_transmissions`, `save`, `reschedule`, `clear_all`, `migrate` | database |
| In-memory repository, `src/repository_in_memory.rs` | a vector behind a mutex | the same trait; `reschedule` does nothing | - |
| NATS transmitter, `src/transmitter_nats.rs` | the client's buffer | `transmit` | broker |
| gRPC transport, `src/grpc.rs` | none | `schedule_transmission`, `serve` | scheduler, token |
| gRPC health, `src/grpc.rs` | none | `check`, `watch` | - |
| Lifecycle, `src/main.rs` | cancellation token, task handles | start, signals, shutdown | all |
| Metrics, `src/metrics.rs` | counters | `count`, HTTP server | scheduler |
| Configuration, `src/config.rs`, `src/load_config.rs` | none | `load_config`, `validate` | main |

What is hard about it:

* **Concurrency.** Replicas poll the same table at the same time. PostgreSQL
  runs the poll at READ COMMITTED: its snapshot can be old when it comes to
  lock a row. Requests insert rows while batches are being sent.
* **Failure.** Every call of the scheduler is an `await`: the process can die
  there, the call can fail, or it can take effect and its reply be lost. The
  message goes out *before* the next row is saved.
* **Ordering.** Which row of an id is current is decided by `inserted_at`, the
  database's clock, while what is due is decided by the process's clock.
* **Time and numbers.** Occurrences are computed from the start of the schedule
  by the count; a datetime that overflows panics.

What makes each component correct:

* domain model: a transmission goes through exactly the occurrences of its
  schedule, in order, and ends after the last;
* PostgreSQL repository: a row is handed out once, and the row handed out is
  that of the next unsent occurrence; nothing is lost from the table;
* scheduler with its repository: no message is sent twice, early or out of
  order (safety), and every overdue one is sent (liveness);
* in-memory repository: the same without locks, for one process;
* transmitter: what it reports as sent reaches the broker;
* lifecycle: a shutdown finishes what was begun; a process that is healthy has
  a running scheduler;
* transport: every request gets the answer that fits what was stored.

## Modules

| Module | What it is |
|---|---|
| `Schedules` | the pure part of `model.rs` and `scheduler.rs`: next datetimes, creation and progress of a transmission, validation, the filter of a batch |
| `TransmissionLife` | one transmission from `new` to its end |
| `Delivery` | the abstract specification: occurrences of accepted schedules are handed over one by one, in order, when due |
| `RepositoryPostgres` | the table and what each SQL statement does to it |
| `PostgresScheduler` | requests, scheduler tasks, processes, faults and clock over `RepositoryPostgres` |
| `RepositoryInMemory` | the vector behind a mutex and what each method does to it |
| `InMemoryScheduler` | requests, the scheduler task, broker errors and restarts over `RepositoryInMemory` |
| `Metrics` | the family of counters and how an event becomes a label |
| `MonitoredScheduler` | `PostgresScheduler` with every `count` call of the scheduler |
| `Transport` | reading and refusing a `ScheduleTransmissionRequest`, and `validate_message` |
| `GrpcServer` | calls with their handlers, clients that call again, `serve` and its end |
| `NatsPublisher` | `transmit`, the client's channel, its connection and the broker |
| `Configuration` | from file and environment to the configuration, or to an error |
| `Lifecycle` | `main` from start to end with the tasks it spawns, over `Configuration` and `NatsPublisher` |
| `MC...` | values of the constants for TLC |
| `ScheduleLemmas`, `RepositoryPostgresLemmas` | lemmas about the operators of `Schedules` and `RepositoryPostgres` |
| `TransmissionLifeProofs`, `PostgresSchedulerProofs`, `InMemorySchedulerProofs`, `MonitoredSchedulerProofs`, `GrpcServerProofs`, `LifecycleProofs` | theorems about the module each is named after, with their proofs |

A definition that a comment calls *Mutant* is a plausible bug. It is used by
nothing; put in place of the definition below it, or of the one named by
PROJECT.json, it makes a property fail.

### Schedules and TransmissionLife

Time is counted in ticks from 0 to `MaxInstant`, the last instant `DateTime<Utc>`
can represent. A cron expression is the set of instants it matches, `after` is
a comparison and `nth` counts in time order; a calendar that runs out gives
`NoTime`, as the `cron` crate does. `Panic` is the outcome of adding past the
last instant. The message is not modelled: it is carried along unchanged.

### RepositoryPostgres

`table` is a partial function from the primary key `<<id, transmission_count>>`
to rows. `save` inserts; the rows of earlier occurrences stay, locked.
`poll_transmissions` is one statement in two steps: `Candidates` is what its
WHERE clause picks in the snapshot, `StillUnlocked` what is left of that when
each row is evaluated again as it is at the time it is locked. `Locked` marks
all of those, and `Limited` says which are returned: the LIMIT is on the outer
SELECT. `inserted_at` is a rank per id: `ClockSteps` is the set of differences
`now()` may have from the latest stamp of the id. The driver cuts a datetime to
the microseconds of the column: `Precision` is the number of ticks of a
datetime in one of them, and `Truncated` what is stored and compared. The filter
of `process_batch` computes the datetime anew, uncut.

### PostgresScheduler

`pc[p]` says where the process `p` and its scheduler task are:

| pc | code |
|---|---|
| `off` | not running |
| `idle` | asleep, or before the first batch |
| `snapshot`, `lock` | in `poll_transmissions`, `now` already read |
| `transmit` | in the loop over `relevant_schedules`, before the publish completes |
| `save`, `reschedule` | after it, waiting for that call |
| `dead` | the scheduler task has panicked; the gRPC server still runs |

Actions and code: `Validate`, `Store`, `StoreFails` are `schedule`;
`StartBatch`, `TakeSnapshot`, `Poll`, `PollFails` are the first half of
`process_batch`; `TransmitOk`, `TransmitErr`, `Save`, `SaveFails`, `Reschedule`,
`RescheduleFails`, `SchedulerPanics` are its loop and `transmit`; `Stop` is a
kill, or a shutdown, at which `main` waits for the gRPC task only and the
runtime drops the scheduler task; `Boot` is a start, with `clear_all` if
`reset_state` is set.

A failed call may or may not have taken effect. A statement of a process that
dies counts as having run before the death or not at all: whether it commits
just before or just after makes no difference to anyone else.

`sent` is a history variable: how often a publish returned Ok for the id. That
the NATS client then only holds the message in a buffer is outside this module.

### RepositoryInMemory and InMemoryScheduler

Every method of the in-memory repository holds the mutex from beginning to end,
so each is one step, and requests, which are handled on other threads, come
between any two of them. `transmissions` is the vector; entries are never moved,
so `batch` and `EntriesMatchSent` name them by position. `Polled` is inclusive
(`next <= before`) and takes the first `batch_size`; `Saved` replaces by id;
`reschedule` does nothing, and nothing needs to be done. A process that stops
takes the vector along; `Boot` starts with none. The pc is that of
`PostgresScheduler` without the steps inside a poll.

### Metrics and MonitoredScheduler

`counters[p]` maps the labels counted so far to their values, as
`get_or_create` makes them. `MonitoredScheduler` extends every action of
`PostgresScheduler` by the events the code counts right after the call: a round
of the batch counts the call that ended `transmit` and then `transmit` itself
(`Round`), a panic counts nothing, a refused request counts nothing. `handed` is
a history variable per process; both are gone when the process stops, and `died`
remembers that one did.

### Transport and GrpcServer

`Problem` follows `schedule_transmission` check by check. A timestamp can be
absent, be refused by `SystemTime::try_from`, or pass that and make
`DateTime::from` panic because it is beyond the last instant; the client then
sees its connection break. `GrpcServer` runs a handler per call: `Accept`,
`Refuse` or `Panics`, then `StoreOk` or `StoreFails` (refused, or done and the
reply lost), then `Reply` or `ReplyIsLost`. `Call` is a client that has heard
nothing or of an internal error of all calls before, and calls again. `ServeEnds`
is the branch of `select!` that sees the token: the tonic server is dropped,
handlers run on until `Exit` drops them.

### NatsPublisher, Configuration and Lifecycle

`Publish` is `client.publish`: it waits for room in the client's channel and is
done. What takes messages from there (`Write`, `Receive`, `Break`, `Reconnect`)
is the client's own task, its connection and the broker, modelled as the code
uses them. `lost` gathers what will not arrive.

`Loaded` is `load_config`: a missing field, an unreadable file, a text that is
no level or no duration, `POSTGRES_PASSWORD` not set (with the in-memory
repository too) or a clock cycle of zero give `NoConfig`.

`Lifecycle` has one action per step of `main`, in order:

| main | code |
|---|---|
| `load` | arguments and `load_config` |
| `nats`, `repository`, `migrate`, `reset` | connecting, migrations, `clear_all` |
| `spawn`, `listen` | the tasks; the streams of SIGINT and SIGTERM |
| `waiting`, `stopping` | `select!` on the signals; `grpc_handle.await` |
| `exited` | returned, exited with an error, or killed (`exit`) |

A signal before `waiting` kills the process. The scheduler task is that of the
detailed modules with time left out, and with it later occurrences, the filter and
the order of a batch: a message is due once stored, and `rows`
says whether it can be polled, is locked, is recorded as sent, or is gone with
the memory or by `clear_all`. `faults` counts what failed and `disturbed` says
whether any of it was more than a broken connection. `End` leaves `scheduler`, `grpc` and `batch` as
they were, so that properties can see what was cut short; a statement in flight
may or may not be done (`RowsAfterwards`). Publish order within a batch is left
open, and a request is one step, `Schedule`. A poll returns
any `BatchSize` of the messages that are due (`Batches`: PostgreSQL orders
nothing, memory takes those stored first) and on PostgreSQL locks all of them, as
the statement does.

## Checks

All clocks start at 0 and `MaxDelayedAge` and `ClockCycle` are 1 tick.

| Run | Bounds | Shows |
|---|---|---|
| `transmission_life` | instants 0..5, every schedule over them with iterate 1..3 or infinite | `NextIsNthOccurrence`, `EndsWhenAllSent`, `IInv` |
| `replicas` | 2 replicas, 2 ids, batch of 1, clock to 3, 2 faults of any kind, database clock either way | `HeldOnce`, `UnlockedMatchesSent`, `SavedKeyIsFresh`, `TableIsLog`, `ImplementsDelivery` |
| `schedules` | 2 replicas, 1 id, every kind of schedule, last instant 3, `reset_state` at every start, 2 faults of any kind, database clock either way | `TypeOK`, `IInv`, `LockedIsPast`, `ImplementsDelivery` |
| `fair` | 2 replicas, 2 ids, batch of 2, no faults, database clock not stepping back | `LockedRowIsHeld`, `ImplementsFairDelivery` |
| `in_memory` | 3 ids, batch of 2, clock and last instant 2, 1 fault (crash, publish), schedules that overflow, that end, and that are planned zero times | `EntriesMatchSent`, `BatchIsFresh`, `IInv`, `ImplementsDelivery`, `OverdueIsSent` |
| `metrics` | 2 replicas, 2 ids, batch of 2, clock and last instant 2, 2 faults of any kind, 2 polls per process, database clock not stepping back | `MessagesAreCounted`, `LossIsCounted` |
| `requests` | one client and 3 calls, every kind of request over timestamps from absent to beyond the range, subjects good and bad, 2 faults (database, reply, stop) | `TypeOK`, `AnswersAreTrue`, `IInv`, `ClientsGetToKnow` |
| `lifecycle` | 3 messages, batch of 2, channel of 1, 10 deployments, 2 faults of nine kinds | `TypeOK`, `OnePlace`, `IInv`, `SignalEndsProcess`, `DueIsReceived` |
| `limit`, `reschedule`, `shutdown`, `health` | the smallest that show it | the findings below |

Why the bounds are enough to be of interest: an endless interval is sent three
times by clock 3, so a row has predecessors and successors; two replicas can
poll the same row, and with a batch of one the LIMIT cuts; two faults allow a
lost reply followed by a crash. Ids and replicas are symmetric where only
safety is checked. `fair` and `schedules` have two ticks to a microsecond, so
that two instants can share one; the other runs one. With three ids and a batch
of two, the in-memory batch is cut, a request can push behind a copy in hand,
and an entry can stand behind two planned zero times, or behind two that end. `metrics`
counts without `reset_state` and with room in a batch for every id: a table
emptied and rows cut by the LIMIT leave no trace in the counters, and then
`LossIsCounted` does not hold. A row passed over by a clock that steps back is
not locked, and counts as waiting. In `requests` a client has one call more than there are faults, so it can
fail twice and succeed. In `lifecycle` two faults allow a broken connection and
a kill in one run, or two restarts in a row; with room for one message the
channel is full whenever the broker is away and a second message is due. Three
messages and a batch of two let one message be polled behind another, and let
the LIMIT keep a third back.

Runs in which the system really may stop have deadlock checking off: a dead
scheduler task with clock, ids and faults used up (`schedules`, `in_memory`,
`metrics`, `lifecycle`), the bound on polls (`metrics`), all schedules at their
end (`transmission_life`), or all clients answered (`requests`). Elsewhere
polling goes on.

Fairness (`Fairness`): the clock ticks, a request being handled is stored, a
scheduler task takes its next step (the tokio runtime polls tasks that are
ready, and timers fire), and a stopped process is started again (a restart
policy). No fault is fair, and no request need ever come. "Overdue" in `Delivery`
means past by the precision of the store: the poll asks for `next < now`, in
microseconds. In `GrpcServer` handlers and `serve` go on, an ended process is
replaced, and a client that does not know its answer calls again. That handlers
go on assumes that the database replies or that the call fails: nothing in the
program sets a time limit, so a statement that is never answered would keep a
handler, or the scheduler task, waiting for ever. In `Lifecycle`
the three tasks go on; `FairSpec` assumes nothing of the broker, so what it
shows of signals holds with the broker away for ever. `DueIsReceived` takes as
its premise `BrokerIsFair`, that the connection comes back and what is written
arrives, and holds until `LimitCuts`: when more is due at a poll of PostgreSQL
than a batch holds, as it may be after the broker was away, the rest is locked
and never sent, which is finding 1 again. In memory the rest stays due, and the
property has no such exception. `OverdueIsSent` has the premise that fewer
`Obstacles` lie before an entry than a batch holds. An obstacle is an entry that
never comes to an end: planned zero times, it is returned by every poll and
dropped; planned without an end, it is due again at every poll if its interval
is as short as the clock cycle, which `validate_schedule` allows. The run shows
that the first kind starves an entry (without it in the premise the property
fails); the second it cannot show, since its calendar ends before an endless
schedule has outlasted anyone. `ClientsGetToKnow` says that a definite answer
comes, not that it tells a client what became of its earlier calls. `FairRestartSpec`, of the `shutdown` run alone, assumes that too, and
that a process that ended is replaced.

The violation runs show what a comment, a message or the README says and the
code does not do:

1. `limit`: the UPDATE of `poll_transmissions` locks all due rows, the LIMIT
   returns some of them; the others are locked for good.
2. `reschedule`: it sets `is_locked = true` where it is false, so the row of a
   message that could not be published stays locked.
3. `shutdown`: `main` does not wait for the scheduler, nor flush the client's
   channel, and says that all components have shut down. Nothing unlocks the
   rows the scheduler had polled, so the next process never sends them. A
   process that is killed leaves them in the same way.
4. `health`: the health service says Serving with a dead scheduler task.

The models show more of the kind, for which no run is kept:

* a schedule planned zero times is stored as due (`InitialNext` does not ask
  `ScheduleNext`); in the in-memory repository such entries come first in every
  poll, are dropped every time, and can fill the batch for ever: the premise on
  `Obstacles` in `OverdueIsSent`, which also names endless schedules: with the
  clock cycle as their interval, a batch full of them starves what was stored
  later;
* a retry after an error that hid a success schedules twice: `Call` after
  `StoreFails` or `ReplyIsLost`;
* `serve` returns with requests in progress; the graceful shutdown of tonic
  never runs, for its future is dropped: `ServeEnds`;
* a gRPC server that cannot listen is not noticed before a signal: `BindFails`.

So the program delivers *at most once*: what is proved is that nothing is sent
twice, early or out of order, under every fault; that everything is sent holds
only without faults, with batches that are never full and a database clock that
does not step back, and there it is checked.

## Proofs

Every safety property that a passing run checks is also a theorem, for all
values of the constants: any sets of ids, replicas, messages, calls and
clients, any schedules, batch size, calendar, precision, channel, and any kinds
and number of faults. Each rests on an inductive invariant `IInv`, which the
runs check as well. Where a theorem needs more than the assumptions on the
constants, its hypotheses are named below.

### One transmission

`TransmissionLifeProofs` proves `NoneIsSkipped` (`NextIsNthOccurrence`) and
`EndIsComplete` (`EndsWhenAllSent`) for `PlannedRequests`: no schedule is
planned zero times, since `Transmission::new` gives such a one a first datetime
all the same. `IInv` says that `next` is what `Schedule::next` answers for the
count, and that the message counted last had an instant. The rest is counting:
`GridNth`, that exactly n multiples of an interval lie before the n-th, by a
bijection; `NthFollows`, that an instant after the n-th leads to one of the next
number; `PlannedNth` and `LastPlanned`, what iterate leaves of them. Nothing is
proved by induction over the count: each next datetime is computed from the
start of the schedule, so the proof never needs to go back.

`ScheduleLemmas` proves the type of every next datetime, that the occurrences
of a validated schedule strictly increase (`OccurrencesIncrease`), and that a
new transmission starts at its first occurrence unless it is planned zero times
(`InitialNextAgrees`). `RepositoryPostgresLemmas` proves `PickedIsPast`: for
every precision of the column, what the poll picks is past for the filter too.

### The scheduler on PostgreSQL

`PostgresSchedulerProofs` proves, with and without `reset_state`, and for any
behaviour of the database clock:

* `Invariance`: `IInv` always holds; from it `TypeCorrectness`,
  `MutualExclusion` (`HeldOnce`), `PollableIsUnsent` (`UnlockedMatchesSent`),
  `SaveNeverConflicts` (`SavedKeyIsFresh`);
* `TableOnlyGrows` (`TableIsLog`);
* `RescheduleIsIdle`: `reschedule` never changes the table, which is why the
  `reschedule` run fails for every instance;
* `Refinement`: `Spec` implies `ImplementsDelivery`;
* `NothingIsLockedEarly` (`LockedIsPast`): no row is locked before its
  occurrence is past, and `next` of a row is that of its own occurrence;
* `NothingGetsStuck` (`LockedRowIsHeld`), under the hypotheses of the run
  `fair`, said of the constants: nothing fails (`MaxFaults = 0`), a batch holds
  all ids, no schedule is planned zero times, and the occurrence after one that
  can be reached does not overflow. Each is needed: a lost reply, a LIMIT that
  cuts, an occurrence the filter drops, and a panic each leave a locked row that
  nobody holds.

None of the three safety invariants is inductive alone. That a poll returns
nothing another replica holds needs that the rows of held ids are locked, and
that a poll returns one row per id needs `UnlockedMatchesSent`: two unlocked
rows of an id would have the same count, hence be the same row. That sending
keeps `UnlockedMatchesSent` needs `HeldOnce`: `sent` grows, and no unlocked row
of the id may be left behind. And the row `save` inserts has a new key because
rows never run ahead of `sent` (`RowsMatch`). `RequestsMatch` says that an id
is untouched until stored, `HeldMatches` that what is held is due and next in
turn - the guard of `Delivery`'s `Deliver` - and `PhasesMatch` ties the
locals of a task to its place in the code. Steps that only let go of
transmissions share the lemma `ReleaseStep`, those that only lock rows
`KeptByLocking`. `LockedIsPast` is proved over `IInv`, and `NothingGetsStuck`
over both: a row that is locked is past, so the filter keeps it (`ProgressStep`).

### Its counters

`MonitoredSchedulerProofs` proves `CountingOnlyWatches`: `MSpec` implies `Spec`,
so that all of the above holds of it. `EveryMessageIsCounted`
(`MessagesAreCounted`) needs no further hypothesis. `NothingIsLostSilently`
(`LossIsCounted`) needs that `reset_state` is off and that a batch holds all
ids, and uses `ProgressStep` again: what a step that does not fail takes from
the table is in the hands of the replica, and a step that fails is counted.

### The scheduler in memory

`InMemorySchedulerProofs` proves `Invariance`, from it `EntriesStandForTheNext`
(`EntriesMatchSent`) and `CopiesAreFresh` (`BatchIsFresh`), and `Refinement`
(`ImplementsDelivery`). Neither of the two is inductive alone: `save` finds the
entry by id, so that it replaces the one the copy was taken of is the uniqueness
`EntriesMatchSent` states, and what it puts there has the right count because
the copy was fresh.

### Requests

`GrpcServerProofs` proves `TypeCorrectness` and `AnswersHold`
(`AnswersAreTrue`) from `IInv`, whose `HandlersMatch` says what a handler has
found out by the place it has come to; `AcceptStep` shows that what is decoded
is what was encoded. `RequestsAssumption` says what the protocol can express.

### The process

`LifecycleProofs` proves `Invariance`, `TypeCorrectness` and `BooksAgree`
(`OnePlace`). `OnePlace` is not inductive: that a message taken from the batch is
not on its way yet needs `HeldMatches`, what the rows of polled messages say
while the process runs, and that what a poll finds due is not needs `DueMatches`
- in memory, only the row of the message being recorded, or of one whose
recording killed the scheduler, looks due when its message is out. `PhasesMatch`
ties scheduler and configuration to the progress of `main`. The client and the
broker only pass messages on or lose them (`KeepsPublished`): that is proved
once per operation with lemmas on sequences without repetition
(`ConcatInjective`, `AppendDistinct`, `TailDistinct`), and the steps of the
process use nothing else of them. `AfterwardsType` says what any end may leave
of the rows.

### Assumptions

Those named in the modules: `InstantAssumption`, `ValidationAssumption` (a clock
cycle is not zero, which `config::validate` ensures), `SentinelAssumption`,
`ClockStepsAssumption`, `PrecisionAssumption`, `ConfigurationAssumption`,
`ChannelAssumption` (there is room for one message), `RequestsAssumption`, and
the types of the constants.

### Only checked, not proved

Liveness (`ImplementsFairDelivery`, `OverdueIsSent`, `ClientsGetToKnow`,
`SignalEndsProcess`, `DueIsReceived`), since the prover does not handle
fairness. The four violation runs stay with TLC too: each shows one behaviour.

## Plan

1. done: the domain model, the PostgreSQL repository and its scheduler.
2. done: the in-memory repository and its scheduler, metrics, transport and
   server, NATS, configuration and lifecycle.
3. done: every safety property of these as a theorem.
4. To do: action properties that follow from the invariants (a row recorded as
   sent stays so; an answer is given once); whether the hypotheses of
   `NothingGetsStuck` can be weakened to the faults that matter.

## Not modelled

The Go client (generated); the Helm chart, whose ConfigMap has no
`clock_cycle_interval` and so renders a file `Configuration` refuses; the
connection string and the pool of `src/postgres.rs`; what the migrations do to
the schema (that they run, and may fail, is a step of `Lifecycle`); the HTTP
handler of the metrics server and its text encoding, which only put out the
counters; logging, and with it that `main` sets `RUST_LOG` after the logger has
read it; payloads, which are carried
along; and the tests. Retrying inside the NATS client and the database pool is
theirs.
