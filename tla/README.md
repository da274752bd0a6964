# Verification of golang-stock-scryper

TLA+ models of the job scheduler, the task executor, the stream consumers, the
alert and news strategies and the rate limiters of this repository, their TLC runs
and their TLAPS proofs. `PROJECT.json` lists the components, runs, mutants,
source lines of every definition, hazards, findings and theorems.

## The system

Two processes share a PostgreSQL database and a Redis server.

| part | code | state it keeps | operations |
|---|---|---|---|
| scheduling service, poller | `internal/scheduler/service/scheduler_service.go` | nothing but the snapshot of due schedules it is working through | every 5 s: find due schedules; for each, insert a history row, XADD a task, save the next execution |
| scheduling service, REST API | `job_service.go`, `schedule_service.go`, `job_repository.go`, `delivery/http` | none | create, update, delete jobs and schedules; read histories |
| database | `migrations/000001`, `internal/entity` | `jobs`, `task_schedules`, `task_execution_history`, with foreign keys that cascade | SQL transactions |
| stream `schedule.task.execution` | `pkg/common/constants.go` | entries (MAXLEN 100), one consumer group: last delivered entry, pending entries | XADD, XREADGROUP, XACK, XDEL |
| execution service, task consumer | `internal/executor/service/executor_service.go`, `delivery/consumer/consumer.go` | semaphore of `max_concurrent_tasks`, one goroutine per task | read an entry, look up its job, start a goroutine, acknowledge and delete; the goroutine runs the strategy of the job's type and saves the outcome |
| strategies | `internal/executor/strategy` | keys in Redis, rows of the stock tables | HTTP request, news scraper, news summary, price alert, stock analyzer, position monitor |
| streams `stock.analyzer`, `stock.position.monitor` | `service/stock_*_multi_timeframe.go` | entries, pending entries, delivery counts | read and execute; claim idle entries and execute again; drop after a number of deliveries |
| clients | `internal/executor/repository/*_repository.go`, `pkg/ratelimit`, `pkg/telegram` | rate limiters | Yahoo Finance, TradingView, Gemini, Telegram |

The poller and the API touch the same rows without locks and without
conditional updates: the API and the poller both *read a row, and save the whole
row later*. The scheduling service talks to the executor only through the stream
and the history table; the executor saves the record it found in the entry, not
the row it finds in the database. Redis and PostgreSQL outlive both processes,
which `restart: unless-stopped` starts again.

What is hard here, and what makes each part correct:

- **Poller.** Three non-atomic steps per schedule, from a snapshot, against
  concurrent edits, failures and crashes. Correct when a schedule is published
  at most once for each slot of its expression, when a history that says
  `running` has a task, when every due schedule is served, and when no race
  leaves a row that refers to a deleted one.
- **API.** Read-modify-write of rows the poller also writes. Correct when edits
  stay in force: a deleted schedule stays deleted, an expression stays as set.
- **Executor.** Acknowledges before it executes. Correct when a task never runs
  twice, the semaphore is exact however tasks end, what ended is recorded and
  never overwritten, every task is settled, and shutdown, timeouts and retries
  do what their names say.
- **Both together.** A slot passes from the poller's row through a history, an
  entry, the consumer and a goroutine back into the history. Correct when it is
  executed at most once, and when a history that says `running` is always in
  somebody's hands and does not stay there.
- **Retry streams.** Acknowledge after executing; two goroutines on one pending
  list. Correct when the second gets an entry of the first only once the first has
  run out of time, no entry is lost or has more outcomes than failures account for,
  and one is dropped only after its retries.
- **Position monitor.** Two workers on one stream whose deadline equals the idle
  time after which an entry may be claimed, and a row that is written back after
  minutes of remote calls. Correct when each entry has one outcome and a row that says
  it alerted has its message.
- **Price alerts.** Check-then-act on keys in Redis that two tasks, and two owners
  of a stock, share. Correct when a message is not repeated before the price has
  moved, and what a user edits between two tasks stays as it was left.
- **News.** A pool of goroutines sized by the job's payload, feeds with missing
  fields, summaries that are checked for before a slow call and inserted after it.
  Correct when the pool terminates with every slot returned, and nothing is
  inserted, reported or summarised twice.
- **Rate limits.** A token budget refilled by the clock and polled, and request
  limiters with one slot per gap. Correct when they bound the calls, refuse nobody
  who could be served, and every call ends.

## Modules

| module | what it is |
|---|---|
| `JobStore` | The three scheduling tables and the task stream as variables, the API transactions as actions, XADD MAXLEN (`Enqueued`), gorm's `Save` (`SaveAccepted`, `SavedRow`), `Referential`. Shared by both services. |
| `Scheduler` | The polling goroutine as a program counter `pc` with one action for each database or Redis call of `publishTask`, each with its failure; the API, PUT requests in two steps; `Crash`; `Tick`. |
| `Executor` | The consumer goroutine (`step`, `held`), the consumer group (`read`, `pending`), the task goroutines (`run`, `late`), the semaphore (`slots`), SIGTERM, `Stop`, `Crash`. Its environment is the scheduling service over the same `JobStore`: the API and `publishTask`, step by step and with its failures (`cur`). |
| `JobSystem` | `Scheduler` and `Executor` over one `JobStore`: the real poller in place of the executor's environment (`InHand`), failures of both counted together. |
| `TaskPool` | Abstract specification of the executor: each task is started at most once, at most `Limit` run, one that was started only ends. |
| `DeliveryQueue` | Abstract specification of a stream with retries: entries are delivered in order, handled, and settled only once handled. |
| `RetryStream` | The stream `stock.analyzer`: its strategy, reader and retry consumer (`XAUTOCLAIM`), with idle times, deadlines and delivery counts. Implements `DeliveryQueue`. |
| `PositionStore` | The tables of positions and of their users with what the users do to them through the bot, and the write-back of a stale copy with its user (`WriteBack`, `Merged`). Shared by the next two. |
| `PositionMonitor` | The stream `stock.position.monitor`: the strategy, the bot's questions, the two workers with every call of `Execute`. Implements `DeliveryQueue`. |
| `PriceAlert` | Overlapping price alert tasks, the keys of the last alerts in Redis, and the users' edits. |
| `NewsStore` | The tables of news, mentions and summaries, and the hashes that identify their rows. |
| `NewsScraper`, `NewsSummary` | The two news jobs, one variable of places each: a goroutine per query, a step per task and stock. |
| `NewsJobs` | Both over one `NewsStore`, and the restart of their process by the `log.Fatal` in `FindRankedNews`. |
| `RateLimits` | `TokenLimiter` with its two locked sections, and the request limiters of Gemini, Yahoo Finance and TradingView, used by any number of callers. |
| `MCScheduler`, `MCJobSystem`, `MCRetryStream`, `MCPositions`, `MCAlerts`, `MCNews`, `MCRateLimits` | Constants for TLC: cron expressions as tables of fire instants, malformed entries, portfolios, quotes, feeds. `Executor` needs none. |
| `JobStore_proofs`, `JobSystem_proofs` (`Scheduler` alone and `JobSystem`), `Executor_proofs`, `RetryStream_proofs`, `PositionMonitor_proofs`, `PriceAlert_proofs`, `NewsJobs_proofs`, `RateLimits_proofs` | Lemmas and theorems. |

### How state and actions correspond to the code

A table is a function from ids to rows, `Null` where there is none; ids come
from SERIAL sequences and are never handed out twice (`spent`). A database
transaction or a Redis command is one action. gorm's `Save` is an UPDATE of
all columns that becomes an INSERT when no row was hit, which is why `SavedRow`
has two cases and why `SaveAccepted` asks for the job's row; `is_active` has
`default:true`, so an inserted schedule is active whatever the request says
(`InsertedRow`). A cron expression is a function from an instant to the next
instant it fires (`NextFire`, 0 for the zero time of an expression that never
fires again); expressions outside `Parsable` are refused by the parser. The
payload of an entry is the history record as it was when it was marshalled.

`Scheduler`: `FindDue` is the query of `ProcessJobs`; `CreateHistory`,
`Enqueue`, `SaveSchedule` are the three effects of `publishTask`, and
`CreateHistoryFails`, `CreateHistoryLost` (the row is inserted and the reply lost),
`EnqueueFails` (with or without the entry having been added), `MarkFailed`,
`SaveScheduleFails` its error paths. The schedules of a
snapshot are handled in any order, as the query has no ORDER BY.

`Executor`: `Read`, `StartTask` or `DropTask`, `Ack`, `Del` are one call of
`ProcessTask`; `ReadLost` is a reply that does not arrive. `Acquire`, `Return`,
`Record` or `RecordFails` are the task's goroutine; `Panic` is a panic that
`GoSafe` recovers; `Expire` is the deadline of the execution context. What a
strategy does is left open here: it may return either way, panic, or take for
ever. The lookup of the job and the start of the goroutine are one step, as
nothing another process does can come between them and matter. The poller of the
environment publishes a schedule whenever it likes (when it may is `Scheduler`'s
subject), but with all the steps of `publishTask`, so that the executor can finish
a task before the poller has seen XADD return, or after it was told that XADD
failed. `PublishEnds` is the death of the scheduling service, or of its
last database call, in between.

`JobSystem`: a step of the system is a step of `Scheduler` that leaves the other
process alone, or a step of the execution service (`Executor!Service`, its `Next`
without `Environment`) that leaves the poller, the API and the clock alone. The
executor's view of the poller, `InHand`, is what `publishTask` holds and where it
stands; no step of the execution service reads it, so nothing but the tables and
the stream is shared. `Executor` keeps its own, more liberal environment: it
publishes when it likes, which is how the run `tasks` gets by without a clock.

`RetryStream`: entries are numbered as they are published, so `last` and
`delivered` stand for the stream's end and the group's last delivered id. `Read`
is ProcessTask's XREADGROUP; `Claim` (XAUTOCLAIM) and `CheckPending` (XPENDING)
are the head of ProcessRetries. Both workers then share `Execute`: `Analyse` is
everything up to the insertion of the signal, `Store` the insertion, `StoreLost` one
that commits and reports an error, `ExecuteFails` any other error, upon which
`Failed` is the handler's choice between leaving the entry and giving it up; and
then `Send`, `Ack` and `Del`. Time is discrete: `idle` is Redis' idle
time of a pending entry, `age` the time since a worker's context was created,
`timer` and `due` the retry ticker and its channel of one tick. A worker leaves a
call that takes the context at its deadline. The insertion
(`stock_signal_repository.go:23`) and Telegram take none (`Detached`): they may last
for any time, and `Expire` marks a worker that is in one as `late` when its deadline
passes. A late worker still stores and sends, and only its acknowledgement is bound to
fail. Idle times and delivery counts saturate at the
value the code compares them with. What `Execute` computes is left open. `Malformed` and `Notified` entries
come from other publishers of the stream: the strategy here sets neither.

`PositionMonitor` has no clock. The deadline of a worker and the idle time for a
claim are both one minute, and the context is created before the entry is
delivered, so the one thing time tells is that an entry held by a worker is
claimable only when that worker's context has ended (`late`). Insertions and
Telegram do not take the context and go on after its end, so an entry may well
be executed by both workers. `ReadPosition`, `Analyse`, `StoreMonitoring` (or
`StoreLost`, when its reply is), `Send`
and `Update` are the calls of `Execute`; `snap` is the row it read, and `Update`
writes it back as gorm's `Updates` does: first the user that was loaded with the
position is inserted unless there is one (ON CONFLICT DO NOTHING), then the columns
that are not zero in the copy are written, so that TRUE and prices overwrite an edit,
FALSE and NULL do not. Malformed entries are left out here; they would do what they
do to `RetryStream`, whose head of ProcessRetries is the same. Whether the model's answer is urgent is left open. A buy
price equal to the stop loss makes the risk reward ratio infinite, so that
`Analyse` can only fail.

`PriceAlert`: a task reads its positions in one query (`Begin`), and then for each
position and target fetches quotes, asks Redis, sends, keeps the price and writes
the position back, in steps other tasks, users and the expiry of the key can come
between. Quotes carry candles, fresh or not, and a market price: `Hits`,
`MarketHits` and `Far` are the code's comparisons. `wanted` and `members` are the rows
and users as the users left them, `meddled` the positions edited while a task held a
copy of theirs. A target that is NULL is zero.

`NewsScraper`: `place` is each goroutine's place, from waiting for its slot to its
end; items have the nature that decides their way (no date, no source, too old,
blacklisted) and a rank. Items are told apart by link and date, and a hash is an
item with the layout its date was formatted in, as the code uses two. `NewsSummary`:
a step per task and stock, from the ranking through the check and the model's
answer to the insert. The scores are left open: any order of up to
`max_news_each_stock` news of the stock may be the ranking.

`RateLimits`: the unit of time is the 100 ms that `Wait` sleeps. Refilling and taking
are two steps, as the code locks twice; a request limiter (burst of one) is the
instant its next request may go, which `Book` moves by one gap.

History variables only serve properties. `starts`, `signals`, `alerts`, `tries`,
`monitorings`, `triggered`, `messages`, `idled`, `calls`, `sent` and `ledger` count or date
effects, `lastSent` and `repeats` describe the messages; `slips`, `hit`, `trimmed`,
`excused` and `unfiltered` name the schedules, tasks, entries, topics or queries to
which something happened that a property excepts. The exceptions are by schedule,
task, entry or topic, so a failure of one excuses nothing about another.

## Runs

| run | bounds | shows |
|---|---|---|
| `race` | 1 job, 2 schedules, 3 histories, an expression that fires at 2 and 4 and never again, 1 request in flight, 4 instants, 1 fault, MAXLEN 2 | the scheduler's invariants against every interleaving of poller, API, clock, failure and crash: one task per slot, no `running` history without its task unless later ones pushed it out of the stream, no dangling reference |
| `system` | 1 schedule, 3 histories, 2 instants, 1 slot, 1 failure of either service, MAXLEN 1, no PUT, fairness | the two services together: a slot is executed at most once, a running history is in somebody's hands, every due schedule is served, and no execution stays running |
| `tasks` | 2 tasks of one schedule, 1 slot, no MAXLEN, 3 mishaps, fairness | the executor with any poller publishing and the API editing: exact semaphore, no outcome lost or overwritten, no dangling reference, the refinement of `TaskPool`, and every added task is settled |
| `claims` | 4 entries (the first notifies a user, the second and third are malformed), deadline 1, idle limit 3, tick 1, max_retry 4, 1 mishap, fairness | the retry stream: an entry is shared only with a worker whose context has ended, none is lost, outcomes and retries are bounded, `DeliveryQueue` is refined, and entries that parse are settled although malformed ones before them are claimed for ever, two of every three ticks |
| `monitor` | 1 position, prices up to 3, 2 entries, max_retry 3, 1 mishap, fairness | the position monitor: rows and messages per entry, the refinement of `DeliveryQueue`, settlement |
| `alerts` | 2 positions of one stock (each without one of the targets), prices up to 4, 2 overlapping tasks, 3 quotes, threshold 100 %, 1 event | messages are spaced, and what a user edits stays so unless a task held a copy of it |
| `news` | 5 items (no source, no date, blacklisted, shared), 3 queries, 2 slots, max_news 1, 2 scrapes, 2 summary tasks, 1 mishap, fairness | semaphore, duplicates, one result per query, one summary per list, and every scrape ends |
| `limits` | 2 callers, capacity 2, prompts up to 3, period 2, gap 1, timeout 3, clock up to 4, fairness | what a period grants, the rate of requests, who may be refused, and every call ends |
| `six`, `edits`, `timeout`, `filtered` | the smallest instance that shows it | findings, below |

Bounds named in the modules: `MaxClock`, `MaxFaults`, `MaxMishaps`, `MaxEvents`,
`MaxEntries`, `MaxRuns`, `MaxScrapes`, `MaxSummaries`, `MaxNeed`, `MaxPrice`; a bound on the
number of failures is a bound on the behaviour explored, never a guard of the
code. All counters are bounded by these, so every run explores its whole state
space.

Why they are enough: two schedules let one be replaced by another while the poller
holds both; in `system` three histories are a task of slot 1, the one a failure
makes the poller publish again, and one of slot 2, and MAXLEN 1 pushes out an entry
nobody has read; with two failures the safety properties were checked as well (1.5
million states), which is too much for the liveness properties of the run.
One schedule is enough for these: the poller gives each schedule of a snapshot its
turn whatever becomes of the others, which share with it nothing but the stream; in `race` three
histories and a stream of two let a third task push out the first, while one that is lost
without being pushed out leaves the stream with room or with older tasks in it, and is
noticed; four instants have two that belong to one slot and one of the next, and
the expression's zero time after the last; an expression that does not parse excepts its
schedule from the first task on, and has the run `six` to itself; two tasks on one slot make one wait, and a second task of the same
schedule needs the first one's schedule deleted and inserted again to lose its
reference; three mishaps allow XADD to lie, a reply to be lost and a crash in their wake.
max_retry 4 leaves room for a retry that does not give up.
The malformed entries of `claims` take two ticks of every three, one less than would starve
the rest (`Blockers`); with idle time over interval of them, five as configured, an entry
behind them is never claimed, which the code does and `EntrySettles` excepts. The one mishap is a deadline that passes in an
insertion, a lost reply, a crash or a panic; that several of them on one entry do not add up
to more is proved. Two quotes for one stock
with the threshold between them, and a third that is over it, are what `Far`
tells apart. Two refill periods fit into the clock of `limits`, and a prompt of three
tokens never fits a budget of two. `tasks` does without MAXLEN, because trimming
an unread entry loses its task (that is how `Enqueued` works and what
`RunningHasTask` excepts); the executor's proofs hold for every `StreamMaxLen`.

Deadlock is not checked: once the ids or the clock are used up, the system may
rest. Symmetry is used in `race` only, over ids that are compared for equality, and in no
run with a liveness property.

### Fairness

`Scheduler!FairSpec`: weak fairness of `FindDue` and of `Publish`: the poller is
one goroutine that the ticker wakes again and again and that returns from every
call. Nothing is assumed of the API, the clock or failures.

`JobSystem!FairSystem`: the two together: weak fairness of the poller, of the
consumer's steps or `Stop`, and of each task's `Acquire`, `Return` and `Finish`,
one goroutine each. Nothing is assumed of the API, the clock or failures.

`Executor!FairSpec`: weak fairness of the consumer's steps, of `Stop`, and of each
task's `Acquire`, `Return` and `Finish`. Weak fairness of `Acquire` would not be
enough if slots were taken forever by others, and there are finitely many
tasks, each of which starts once (proved), so a waiting task ends up enabled for
good; Go's channel also serves blocked senders in turn. `Return` is justified for the
strategies whose calls take the execution context; a strategy that hangs is
excluded by it (the scraper with zero slots, below, is one that does). Nothing is
assumed of the poller.

`RetryStream!FairSpec`: weak fairness of each worker's steps (a call without a
context, the insertion or Telegram, answers or its connection breaks in the end), of the clock and of claiming, because the ticker of
the retry handler fires until shutdown. `Tick` also assumes that a free retrier
takes a tick within a unit of time (a minute in the configuration), and that
XPENDING answers within one. `PositionMonitor!FairSpec`: the same without the clock: `Read`,
`CheckPending`, the claim of some entry (not of each: the refinement and the
settlement hold whichever it is), and each worker's steps, an acknowledgement that fails
among them.

`NewsJobs!FairSpec`: weak fairness of the goroutines of a scrape; nothing of
the summaries. `RateLimits!FairSpec`: time passes and callers take their steps; a
call whose context ends returns.

## Findings

Each is a run that TLC refutes, against a sentence of the repository.

1. `six`: the README's example job uses a six-field expression. The parser takes
   five, `Parse` fails after the task was enqueued and before the schedule is
   moved on, so the job runs at every poll, not every hour.
2. `edits`: a PUT that commits while the poller publishes the schedule is undone by
   the poller's save of its stale copy; a schedule deleted meanwhile is inserted again.
3. `timeout`: a timed-out execution stays `running`; `StatusTimeout` is never
   written and the save uses the expired context.
4. `filtered`: `filterExistingNewsItems` hashes the date in the layout of RFC 1123,
   rows are stored with the hash of RFC 3339, so that no item is ever filtered out
   and each is decoded, fetched and sent to the model again. What is stored stays
   right (`MentionsOnce`).

Seen on the way, without a run of their own:

- `Stop` waits for the consumer's loop and not for the goroutines of tasks.
- An entry is given up one retry early: the delivery count already includes the
  first delivery and the claim, and the code adds one more. With `max_retry: 3` there is
  one retry (`RetriesBounded` states the number).
- A news job without `max_concurrent`, such as the README's example, gets a channel
  without slots and hangs with its slot of the executor.
- XADD may add an entry and report an error: the executor and the poller's error
  path then both write the history, and the slot is published again.
- The key of the last alert is per stock: the second owner's alert is skipped. Overlapping
  tasks may keep an older alert's price over a later one (`AlertsSpaced` counts both).
- The stale copy written back by alerts and by the monitor undoes an edit, and reopens a
  position its user closed meanwhile. A user deleted meanwhile is inserted again with the copy
  (the position is not: the UPDATE finds no row). `EditsStick` excepts what was edited
  while a task held a copy, and nothing else.
- The signal is inserted without the context: a reader that waits in the INSERT for longer
  than the idle time stores its signal beside the one of the retrier that has claimed
  the entry (`SharedOnlyLate`; `OneOutcome` counts it as a mishap).
- A malformed entry is never acknowledged and claimed first whenever it is idle again: idle time
  over interval of them (five as configured) keep every later entry from being retried.
- Feed items without date or source are dereferenced as nil pointers; the panic is
  recovered and the goroutine's result missing (`QueriesAnswered`). A filter that fails
  notes two results.
- `FindRankedNews` ends the whole process with `log.Fatal` on a failed query.
- TradingView's `Reserve` for a log line takes a second slot (`WithinRate`).
- A position whose stop loss is its buy price cannot be analysed: the ratio divides by zero.
- A job's retry policy is stored and never read.

## Proofs

All theorems hold for every value of the constants that satisfies the named
assumptions of the modules. `NullAssumption`, `IdAssumption`, `RowAssumption`,
`LocalsAssumption`, `SystemAssumption`: `Null` is none of the things it is told apart from.
`CronAssumption`: `NextFire` returns a later instant or zero. `LengthAssumption`,
`BoundAssumption`, `PoolAssumption`, `EntryAssumption`, `RateAssumption`,
`PositionAssumption`, `MonitorAssumption`, `AlertAssumption`, `NewsAssumption`,
`ScraperAssumption`, `SummaryAssumption`: the types of the parameters, and finite sets of
goroutines where they are counted. `TimeAssumption`: below. TLC evaluates them in the runs.

Every safety property of the passing runs, the action properties and the
refinements included, is a theorem.

`JobSystem_proofs`, first `Scheduler` alone. `TypeCorrect` needs only `CurHeld` (the locals of
`publishTask` are set exactly when it runs). `ReferencesHold` is not inductive
alone: a stale snapshot is saved later, so every trace of a schedule must name
the same job (`Owned`) and an id that is gone must not come back for another job
(`SpentAgrees`). `SlotsAreServedOnce` speaks of two past tasks; it follows from
what the row promises about the next one: `NextIsLater` (next_execution lies in a
later slot than every task so far), carried through the snapshot
(`SnapshotAgrees`) and the locals of `publishTask` (`CurAgrees`).
`RunningHaveTasks` (`TaskInv`) follows every running history until its entry is in
the stream, or was pushed out by entries that started no earlier (`Behind`). XADD drops the
oldest entry, and only from a full stream (`Trimmed`); that what stays started no earlier
needs the stream to be in the order of the starts (`Ordered`), and so the task in hand to have
started after all of it (`NewestInHand`). `UndisturbedSlots` shows that the exceptions of
`OneTaskPerSlot` are what they say: without failures, PUT requests and unusable
expressions `slips` stays empty, and each slot is published once without exception.

Then the two services (`System`). The inductive invariant `SystemInv` is those of
`Scheduler` and `Executor` with the real poller for the environment (`Executing`),
and `HandInv`, which follows a running history from `publishTask` to the stream,
the consumer and its goroutine, and needs that what `publishTask` is about to add
was neither added nor read before. The steps of the execution service keep
`Executing` by the lemmas of `Executor_proofs` (`SameService`); those of the poller
and the API are proved anew (`SchedulerExecuting`), from what they do to one history
(`NextHistories`) and to the stream (`NextPlaces`). They are not steps of
`Executor!Environment`, whose poller does not look at the clock, so the results
about `Executor` do not carry over as they stand. Conversely, the execution service
touches nothing of the scheduler's invariants but histories (`ServiceFrame`). From
it: `SystemTypeCorrect`; `SlotsRunOnce`, a slot leads to at most one execution;
`RunningAreInHand`; `ServiceKeepsPromises`, `SystemOutcomesAreFinal` and
`SystemImplementsTaskPool`, what was proved of the executor for any publisher,
with the real one. `UndisturbedSystem` is the counterpart of `UndisturbedSlots`: without
failures and with a stream without limit nothing is ever hit or trimmed (`Quiet`), so
a slot is executed at most once without exception, and a deadline is the only reason
for a history to stay `running` (which is finding 3).

`Executor_proofs`. The invariant `IInv` has `ReaderInv` (what the consumer read
exists, what is past its lookup was decided on, a goroutine exists only for an
entry read), `StartInv` (starts per state of the goroutine), `SlotInv` (the
semaphore is the cardinality of the finite set of holders) and `FinalInv` (only
a goroutine that is over, or a poller whose XADD failed, left a final status). From
it: type correctness, at most one execution (`AtMostOnce`), the exact semaphore,
acknowledged means handled (`AckedIsHandled`; like `AtMostOnce` and the two `TypeOK`,
no run checks it any more by itself), recorded outcomes, the action property that outcomes are final, and
`ImplementsTaskPool`, the refinement. `ReferencesHold` adds what a record in an
entry (`CopyAgrees`) and the poller's copy of a schedule (`SnapshotAgrees`) say about
rows they may be saved over or beside.

`RetryStream_proofs`. `WorkInv` is the timing argument of `SharedOnlyLate`:
while the reader works on an entry within its context, the entry's idle time equals the
age of the context, which is at most `Timeout`, so under `TimeAssumption` (`Timeout`
< `MaxIdle`, one and five minutes in the configuration) it is not claimable; a reader whose
context has ended may be in the insertion or in Telegram still, however long they take.
`OutcomeInv` accounts for outcomes with those that late workers still owe (`Total`):
as long as nobody has concluded a pending entry in time, all of them are paid for by
mishaps. That gives `NothingLost`, `OneOutcome` and the refinement of `DeliveryQueue`. `TryInv`
ties the tries of an entry to its delivery count (`Allowed`, `Bounded`, `Limit`) and
gives `RetriesBounded`.

`PositionMonitor_proofs`. Here the workers do not exclude each other. `WorkInv`
says that whoever shares its entry is late, and a mishap made it so. `OutcomeInv` gives
the refinement; `BalanceInv` splits the rows and the messages of an entry into what
mishaps pay for and one share per worker (`RowShare`, `MessageShare`), from
which `OneRow` and `TriggeredIsSent` follow.

`PriceAlert_proofs`. `EditsAreKept` (`EditInv`): a copy of a position that was not edited
while it was held equals the row, so writing it back changes nothing, and its owner is still
there. For the alerts, a topic (a kind of alert for a stock) is `Clean` when its key, if
there was a message, is the price of the last one, no task is about to keep another,
and whoever is about to send has a price far from it. The invariant `Spaced` says that in
a clean topic all but one of the tasks about to send are already in `excused`, and in
any other all of them.

`NewsJobs_proofs`. `SlotInv` is the semaphore again, with the restart; `NoteInv`
follows a query's results with its goroutine's place. `CallsInv`: the calls made for
a list of news, and those of tasks past the check, are at most those in `excused` and
one more once anybody has taken the list up.

`RateLimits_proofs`. `BudgetHolds`: since the last refill the ledger grew by
exactly what `remaining` lost (`SinceRefill`), before it by at most the capacity
within a period (`BeforeRefill`), so a window with one refill in it has at most two.
`RefusedAreCrowdedOut` follows a waiting prompt: whoever polls for a period has
seen a refill, and found less than the capacity only because of what others took
(`CrowdInv`). `RequestsArePaced`: the limiter's slot lies past all the requests sent, waiting for their
turn or pledged by a log line (`SlotsCover`), and no instant has more turns up to it than
gaps (`TurnsSpaced`).

Only model-checked: the liveness properties `DueIsServed`, `RunningEnds`, `TaskSettles`,
`EntrySettles` (both streams), `ScrapeEnds` and `CallEnds`. They need fairness, of
which the prover has no rules. The properties of the findings are refuted by TLC and not
theorems.

## Not modelled

- The execution history API, the stock and mention lists: read-only queries.
- The HTTP strategy beyond the way `Executor` takes every strategy: one call, which
  returns either way, and no state.
- The decoder of news links (pure parsing of pages and base64 strings), prompts and
  DTOs, the Telegram client and its layout: text.
- The unused rate-limit middleware, process setup, generated API documentation.
- Request parsing and JSON, logging, configuration, time zones; what Yahoo, the model
  and the feeds answer, beyond what a decision depends on, which is left open.
- Two scheduling processes (the deployment has one); memory leaks such as the
  deferred `cancel` in the consumer's loop, and streams without MAXLEN.

## Plan

1. Done: `JobStore`, `Scheduler`, `Executor` with `TaskPool`, their composition
   `JobSystem`, `RetryStream` with `DeliveryQueue`, `PositionMonitor`, `PriceAlert`,
   `NewsScraper`, `NewsSummary`, `NewsJobs`, `RateLimits`, and the proofs of all
   their safety properties.
2. Left: the two streams with retries fed by tasks of `JobSystem`, to say that a slot
   whose strategy publishes entries has them settled.
