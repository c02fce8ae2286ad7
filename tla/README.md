# A TLA+ development of eksportisto

Eksportisto copies the Celo blockchain into a table: *publishers* put block
numbers into a queue in Redis, *workers* take them out, extract rows from each
block and write them to BigQuery (or stdout), and a hash in Redis records which
blocks are done. While they process blocks, workers and a separate *monitor*
export gauges. This directory models how these processes interact and what ends
up in the table and in the gauges, checks the models with TLC and proves their
main safety properties with TLAPS.

    tlc -workers 2 -config Backfill_safety.cfg MCPipeline    # one run
    tlapm PipelineProofs.tla                                 # some proofs

`PROJECT.json` lists components, runs, mutants, hazards and theorems, and maps
every modelling definition to the lines it stands for.

## 1. Inventory

| part | source | state it keeps | operations | module |
|---|---|---|---|---|
| Redis database | `rdb/rdb.go` | sorted set `blocks:queue`, hash `blocks:indexed`, string `blocks:cursor` | ZADD, BZPOPMAX, ZCARD, HGET, HSET, HDEL, SET, the Lua batch | `Rdb` |
| backfill publisher | `publisher/backfill.go` | `cursor`, locals of a round | `newBackfillPublisher`, `updateCursor`, `queueBatch`, the loop of `start` | `Backfill` |
| chain tip publisher | `publisher/chainTip.go` | channel `headers` (10) | listen, queue | `ChainTip` |
| manual publisher | `publisher/manual.go` | the list of blocks | `getBlocks`, forget, queue | `Manual` |
| publisher service | `publisher/publisher.go` | one errgroup | factories, start, wait | `Pipeline` (restarts), `Service` (exit) |
| worker | `indexer/worker.go`, `indexer.go` | the block in hand, the attempt | pop, check, process with retries, mark | `Worker` |
| block handler | `indexer/handler.go` | `rowsChan`, three contexts, goroutines | `Run`, `spawnProcessors`, `initializeProcessors`, `loadBlock` | `BlockHandler`; seen from outside, `BlockOutcome` |
| processors | `indexer/proc_*.go`, `processors.go` | - | `InitProcessors`, `ShouldCollect`, `CollectData`; `ObserveMetrics`, `HandleEvent` | `Processors`; `Gauges` |
| rows | `indexer/row.go` | values, id | `Extend`, `WithId`, `AppendID`, `ViewCall`, `Contract`, `getID`, `Save` | `Rows` |
| event extraction | `indexer/helpers.go` | - | `extractEvent` | `Processors` (its row), `Gauges` (its handler) |
| outputs | `indexer/output.go` | the destination | `Write` | `Extraction` (`table`), `BlockHandler` (`dest`), `Worker` (`written`) |
| monitor | `monitor/monitor.go` | one-slot channel | listen, dispatch, process | `Monitor` |
| metrics | `metrics/*.go` | gauges, an HTTP server | set, serve, close | `Gauges`, `Service` |
| utilities | `utils/utils.go` | - | sampling, fractions | `Processors`, `Gauges` |
| command line | `main.go`, `cmd/*.go` | settings, signals | `Run` of a command, the mode | `Service`, `Configuration` |
| Celo node, kliento | external | the chain | headers, blocks, calls that fail | `Environment`, `Chain` in `Processors` and `Gauges` |

**How they interact.** Publishers and workers are separate processes that share
nothing but Redis; every Redis command is atomic, so the commands are where
they interleave. Inside the publisher process the publishers are goroutines of
one errgroup: they do not call each other, but an error of one ends all. A
worker calls `NewBlockHandler` and `Run` for a block; inside `Run` a spawner, its
tasks and a collector communicate through `rowsChan` and are stopped through
contexts. The tasks are calls of the processors; they send rows and set gauges,
which are global to the process. The monitor uses the same handler, without
Redis.

**What is hard.** The backfill decides on data read one call earlier; a popped
block exists nowhere but in a worker's memory; any process may die between two
commands; errors are ignored in places (HSET, HeaderByNumber, several calls of
the processors) and fatal in others; in `Run`, the collector may leave before
the senders, and sends watch no context. Blocks are processed more than once, at
different times, and BigQuery tells copies apart by insert ids that the code
puts together from parts. Gauges are set by concurrent goroutines, for blocks in
no order. The list of hazards, each at its line, is in `PROJECT.json`.

**What makes each part correct.** Backfill: nothing is left behind the cursor,
in memory or stored, every block is queued until it is indexed, and the queue
stays bounded. Manual publisher: it takes away no marks but those it was told to.
Worker: a mark means that the block was written. Handler: a mark means that *all*
rows were written, `Run` ends, and nothing writes after it. Processors and rows:
a marked block has every row that was asked of it, an insert id stands for one
fact, and a fact gets the same id again. Monitor: order, and how far it is
behind. Gauges: those of a block are of one block, finite, and in range.
Process: the exit code tells whether it failed, nothing is cut off, and it exits.

## 2. Modules

    Environment    the chain and the budget of faults (external)
    Rdb            Redis: one operator per command
    Backfill, ChainTip, Manual      EXTEND Rdb, Environment; one action per step
    Worker         EXTENDS Rdb, Environment; actions of one worker
    Pipeline       composes the four; restarts, fairness, properties
    IndexLog       abstract: what readers of Redis and the table rely on
    BlockHandler   one block: Run, its goroutines, retries, mark
    BlockOutcome   abstract: what Worker takes a block handler for
    Rows           rows and insert ids
    Processors     EXTENDS Rows; the calls and rows of every processor
    Extraction     EXTENDS Processors; attempts at blocks, the table
    Gauges         the gauges of one block after another
    Monitor        EXTENDS Environment; the goroutines of the monitor
    Service        a process from start to exit
    Configuration  how the mode is found
    MC...          instances for TLC; Configuration gives MCPipeline and MCGauges
                   the mode
    ...Proofs      theorems, of Pipeline, BlockHandler, Extraction, Gauges, Monitor
                   and Service
    InsertIdProofs EXTENDS ExtractionProofs; theorems about insert ids

Two refinements connect the levels. `BlockHandler` implements `BlockOutcome`,
which is the step `Worker` makes of an attempt; `Pipeline`, with `Worker` in it,
implements `IndexLog`. `Extraction` looks into the same attempt from another
side: the goroutines are one step there, and the rows have their contents.
Definitions marked "Mutant" in a comment are variants of the code that the
mutation tests substitute; no specification uses them.

### The pipeline

`Rdb` has `queue` (member and score of the sorted set are both the block number,
so a set), `indexed` and `savedCursor`. `GetBlocksBatch` keeps the script's
inclusive bound: a batch covers `size + 1` blocks.

`Backfill` cuts the publisher's loop at its calls; `bpc` names the next one.
`CheckQueue` is the test of the queue length, `AdvanceCursor` and `SaveCursor`
are `updateCursor`, `ReadHeader`/`HeaderError`, `ReadWindow`, `QueueNext`,
`NextWindow` and `BatchDone` are `queueBatch`. The loop in `updateCursor` is
bounded by `svc.cursor + batchSize` where `svc.cursor` grows with the loop
variable: the bound never stops it, it runs to the first block that is not in
the batch (`CursorAfterBatch`). `maxBlock` is computed in uint64
(`Uint64Minus`). An error of any call other than HeaderByNumber ends the
process: `PublisherRestart`, possible at every point.

`ChainTip` starts at the latest header whenever the process starts. `Manual`
forgets all blocks with one HDEL and then queues them one by one; an entry that
does not parse ends the process, as does an HDEL of no block (epoch blocks
before the first epoch is over). The code gives HDEL the configured strings; the
model takes them to be written as the hash has its fields, without leading
zeros. A failed manual publisher cancels the context of the others; in the model
they may take a few more steps before the restart, which covers every point at
which the cancellation can reach them.

`Worker`'s `wpc[w]` is the next call of `w`. `SkipIndexed` and `BeginIndexing` are
the outcomes of HGET. An attempt is one step here (`IndexBlock`, `FailBlock`);
`HandlerPanic` is an error of `NewBlockHandler`, after which the error path
dereferences a nil handler. `MarkLost` is the ignored error of HSET, `WorkerExit` a
kill or an error of another call, in which the block is lost. `written` is the
destination.

`IndexLog` has three variables: blocks written, blocks known to be, and a
checkpoint. `Pipeline!Log` maps `indexed` and the cursor in Redis to the latter
two. Only these survive a restart of everything.

### The block handler

`BlockHandler` opens the attempt. `rpc`, `spc`, `cpc` and `tpc` place the main
goroutine, the spawner, the collector and the tasks; a task alternates between
calls, which can fail, and sends, which block while the channel is full. The
contexts form a chain: `exiting` (the worker's), `runFailed` (Run's errgroup),
`taskFailed` (the spawner's errgroup). `StopCollecting` may fire with rows in the
channel, as `select` picks at random. `WriteFails` leaves any part of the rows
in the destination. Two facts about github.com/neilotoole/errgroup are external
and used as the code relies on them: a group runs at most N functions at a time
(N = number of CPUs in `Run`, `indexer.concurrency` in the spawner), and after an
error functions still waiting may or may not be run. `CloseRows` is Wait, close
and return in one step; a collector that sees the channel closed a moment
before the context is done drains it, which the step allows as well.
`initializeProcessors` is one step: its goroutines share a channel of 100 that
no configuration fills, and only one factory writes the map of event handlers.
The rows of a task are those it does send: an error that `checkError` hides ends a
task early, which to the handler is a task with fewer rows. Which rows it costs is
the subject of `Extraction`.

### Rows, processors, extraction

`Rows` translates `row.go`. A row has values and, perhaps, an id of its own; an id
is the sequence of the parts that the code joins with dots. `GetID` of a row
without an id is the md5 of its values; the md5 of different values differ, as do
joins of different parts. Both are assumptions of the model.

`Processors` gives one operator per factory. Its value is a set of *threads*,
one per processor it makes for the block; a thread has a script, the calls of
`CollectData` in order, each with the rows sent after it and with what the code
does on an error: `fail` (a call of the node; Run returns the error), `check` (a
call of a contract; `checkError` decides), `stop` (return nil), `skip` (log, go
on), or `never` for rows no call precedes. `Chain` says what the node answers. A
contract not in `deployed` is where `InitProcessors` fails and `checkError`
leaves the processor out; `EpochSize` and `BlocksPerHour` decide
`ShouldCollect`.

`Extraction` runs attempts at blocks. `LoadBlock` stamps the row of the block
with the clock, `FailCall` picks a call that will fail and the error:
`notDeployed`, which `IsExpectedBeforeContractsDeployed` accepts, or `other`.
`checkError` makes nil of the first, at any point of a script: the thread ends,
its remaining rows are not sent, `Run` returns nil and the block is marked.
`RunSucceeds` and `RunFails` derive from scripts and errors whether `Run`
returns one and which rows were sent; a failing `Run` leaves any part of them in
`table`. `MarkBlock` is the HSET. `RowsOf(block, second)` are all rows of a
block that is loaded at that second.

### Gauges

Like `Processors`, `Gauges` has an operator per processor, with the gauges that
each call of `ObserveMetrics` sets, and `HandleEvent` for the two events of the
exchange. The threads run interleaved (`Advance`). A call that fails (`FailCall`)
ends its thread, and then either `Run` fails and the others are cancelled
(`Cancel`), or `checkError` hides the error and the thread is `dropped`, while the
others go on. Events are not parsed (`SkipEvent`). A gauge keeps
its value and, as history, the block, thread and call it is of. Numbers are
fractions, since the code divides big integers; one with denominator zero stands
for the infinity, or the panic, of `big.Float.Quo`. Times are unsigned: `Modulus`.

### Monitor, service, configuration

`Monitor` has a variable for what each of its three goroutines has in hand.
`OfferBlock` is the `select` with `default` that drops a number while another one
waits. `due` is a history variable.

`Service` is a command's process: `Start` makes its parts one after the other and
runs them in a group; the command has a group of two, `Start` and the HTTP
server. A group keeps its first error; `context.Canceled` exits with 0. That
`server.Close` may fail, on which the goroutine that calls it panics
(`server.go:33-35`), is left out. The instance
is the publisher, in which parts may be left out or come to an end.

`Configuration` gives the mode from flag, environment, file and defaults, in the
order in which viper looks at them, with the default that package `cmd` sets.

## 3. Runs

| run | what it asks | bounds |
|---|---|---|
| `backfill_safety` | backfill and two workers: `CursorCovered`, `SavedCursorBehind`, `SavedCursorNeverRetreats`, `QueueBounded`, `BackfillBehindTip`, `IndexedAreWritten`, `TypeOK` | batch 2, head 1 to 5, two faults |
| `backfill_liveness` | `Backfilled` under `FairSpec`, all three publishers, the epoch blocks forced | batch 1, epoch of 2, head 2 to 3, two faults |
| `backfill_failing` | `Backfilled`, `FailingBlocksRequeued` where block 1 always fails, with a manual publisher that fails until the first epoch is over | batch 3, epoch of 2, head 1 to 4, one fault |
| `pipeline_manual` | all three publishers, a forced list with a typo: `CursorCovered`, `ImplementsLog` | batch 1, list 2, typo, 0, head 1 to 3, one fault besides the restarts of its own |
| `handler_full_channel` | `MarkedComplete`, `NoSendAfterClose`, `ImplementsOutcome`, `TypeOK`, and `NotStuck` and `BlockEnds` where rows do not fit | tasks with 2, 1 and 0 rows, channel of 1, two failures, two attempts |
| `handler_one_cpu` | `NotStuck` and `BlockEnds` where they fit and the errgroup has one goroutine | the same, channel of 3 |
| `extraction` | all processors: `MarkedHasRows`, `IdsIdentify`, `OwnIdsStable`, `TypeOK` | two attempts, four blocks, two seconds, two faults at two blocks (`FaultyBlocks`) |
| `gauges` | all processors: `ObservedTogether`, `Finite`, `AgeInRange`, `OfEvents`, `TypeOK` | four blocks, two Runs, one fault |
| `monitor` | `InOrder`, `FirstSinceTaken`, `DueIsTaken`, `TypeOK` | head 1 to 8, two faults |
| `service_exit` | `CleanExit`, `NoneCutOff`, `WayOut`, `ExitsWhenTold`, `ExitsWhenBroken`, `TypeOK` | the three publishers |
| `pipeline_forced_retry` | finds `ForcedBlocksIndexed` violated | |
| `extraction_again` | finds `ReprocessingHarmless` violated | |

*Why the bounds are enough.* Pipeline: batch 2 makes windows of 4 and batches of
5, so the cursor moves past `batchSize`, several windows and a cut-off last
window occur, and a queue of `2*batchSize-1` is reached. Two faults cover a
crash of the publisher together with one of a worker, or a lost mark. Two
workers can hold the same block. In `backfill_liveness` blocks 0 to 2 have to be
indexed and the cursor moves past all of them, one forced block among them; a
fault can take a block from a worker after the cursor has passed it, so that the
exception in `Backfilled` is needed: TLC refutes the property without it. In
`backfill_failing` a batch of 3 is the least in which the failing block 1 and
block 0 leave room for another. In `pipeline_manual` the cursor moves past block
1, which nobody forces. Handler: a channel of 1 is full after one send, and two
failures can hit both attempts. Extraction: the four blocks are one before any
contract is deployed, one that ends an hour, one that does not unmarshal, and
one that ends an epoch with several tokens, a token without exchange,
transactions with several logs, an unknown log, transfers of equal index in
different transactions, two equal transfers of one transaction, and epoch logs;
the first has a transaction with a log. Two attempts at the same block or at two
suffice to compare any two rows, and two seconds to make their times differ.
Faults are limited to the first block and the hourly one, which between them
have every effect an error can have (`fail`, `check` with both errors, `stop`,
`skip`), because what an error does depends on the script of one thread only,
and `MarkedHasRows` is proved for all. Gauges: the blocks come from the
migrations that deploy the contracts (no exchange yet, an empty one without
reports, one with reports and trades, one that lost an oracle and does not
unmarshal); two Runs give every ordered pair, a block repeated included.
Monitor: eight blocks allow drops on both sides of an error and of a restart.
Most of the safety results do not depend on these numbers: they are proved for
all of them (section 6).

*Bounds*: `MaxHead`, `MaxFaults` (pipeline, monitor); `MaxFailures` (handler);
`MaxSecond`, `MaxFaults`, `FaultyBlocks` (extraction); `MaxRuns`, `MaxFaults`
(gauges). Scaled constants: `TwoTo64 = 16` and `Modulus = 16` stand for 2^64 and
are larger than every block number and time; `MinSellAmount = 2` stands for
10^6, with trades on both sides of it; `EpochSize` and `BlocksPerHour` are 4 and
2. Deadlock is checked in the pipeline, which never stops. `CHECK_DEADLOCK
FALSE` is used where the behaviour comes to an end: a block, the attempts, a
number of Runs, the end of the chain, a process.

*Symmetry*: workers and attempts are interchangeable; used in safety runs only.

*What `MarkedHasRows` asks.* The code does lose rows of a marked block: those of
an event that does not parse, and those of a processor from the call on at which
it was told that a contract is not deployed, or took an error for a frozen
contract. The property says that these are all. It is about isolation:
`RequiredOf` is stated in terms of the errors that were given, apart from
`checkError`, `EffectOf` and `Sends`, and no other error and no error of another
processor may cost a row. One single attempt must have written the required
rows: those left by two half attempts do not count, as they would have different
times in them. `ObservedTogether` says the same of gauges: after a Run that
returned nil only those of a `dropped` processor may be left of an earlier
block.

*What the ids promise.* `IdsIdentify`: one id, one fact, where `Fact` is a row
without the time of indexing. The converse is false and not claimed: two equal
transfers of a transaction state the same fact under two ids, rightly. What a
second pass needs is `OwnIdsStable`: every row in the destination that was given
an id of its own is among the rows of its block at any other second, with that
id and that fact. Rows without one are the subject of `extraction_again`.

## 4. Where code and documentation disagree

Two disagreements have a run of their own.

| run | the claim | what happens |
|---|---|---|
| `pipeline_forced_retry` | `cmd/publisher.go:20-22`, "blocks are retried when errors occur" | a forced block that fails once is below the cursor and never queued again |
| `extraction_again` | `readme.md:79`, two indexers on one block "shouldn't be problematic" | the row of the block, and rows that extend it by "contract", are known by a hash of values with the time of indexing among them: a second later they get other ids, and the table has them twice |

Others show in the models, and no property covers them:

- `backfill.go:91`: on a chain shorter than `tipBuffer`, `maxBlock` wraps to
  almost 2^64 and blocks that do not exist are queued (comment at 88-90: blocks
  at the tip are left alone). `BackfillBehindTip` holds where `TipBuffer <=
  InitHead`, which is the hypothesis of theorem `BehindTip`.
- `readme.md:79`: all blocks between startBlock and the cursor are marked. A
  forced re-index unmarks blocks below the cursor; `CursorCovered` excepts them.
- `worker.go:165`: an error of `NewBlockHandler` (if `registry.New` returns one)
  dereferences a nil handler; the comment at 146-148 says that the call returns.
- `helpers.go:92`: an event of a contract that `TryParseLog` does not know, or
  fails to parse, has no row, and the block is marked all the same.
- `proc_reserve.go:60`, `proc_epochRewards.go:138-140`: any error is taken for a
  frozen contract, and the block is marked without those rows.
- `handler.go:216-223`: the message "Skipping processor creation", like the
  comment at 155-156 ("Some are skipped if contracts are not deployed yet"), is
  about `InitProcessors`; but `checkError` also wraps `CollectData` and
  `ObserveMetrics` (132, 141). An error of that kind in the middle of a script
  leaves out the rest, and the block is marked. `MarkedHasRows` and
  `ObservedTogether` show that nothing else is lost.
- `monitor.go:67`: blocks are dropped, while `cmd/monitor.go:20` speaks of every
  block.
- `proc_exchange.go:222`: the "most recent" bucket ratio may be of an older
  event, since the transactions of a block are processed concurrently and a
  backfill goes through blocks newest first. `OfEvents` promises an event of
  this block only.
- `proc_sortedOracles.go:271`: gauges labelled with an oracle that was removed
  stay.
- `cmd/monitor.go:38` sets the default of `indexer.mode` to metrics for all
  commands, and viper prefers it to the default of the indexer's flag (both):
  configured as in `readme.md:85-98`, an indexer collects no data. In that mode
  a monitor never calls the event handlers, and the gauges of events stay at
  zero.
- The readme describes two list queues (`blocks:queue:backfill` and
  `blocks:queue:tip`), an `rpush` and a setting `indexer.source`; the code has
  one sorted set and takes the newest block first.
- A manual publisher with a typo in its list fails after it has forgotten its
  blocks; a deployment that restarts it does so again and again. `Backfilled` is
  therefore not promised in the configuration of `pipeline_manual`, where it
  fails.

## 5. Fairness

`Pipeline!Fairness`: weak fairness of each publisher, of each worker, of the
restart after a failed manual publisher and of the growth of the chain up to its
bound. The code justifies it: each is a goroutine or process that loops with
bounded sleeps and blocking calls with timeouts, and the deployment restarts
what exits. It is fairness of a goroutine, not of an outcome: that calls succeed
in the end follows from the finite budget of faults. A worker's retries end by
their count, and a block can be popped over and over while it fails.

`Backfilled` therefore has two conditions. A block must lie above those that
always fail, since blocks below compete with them in a queue that hands out the
highest first; and the blocks up to a failing one must be fewer than a batch,
since else every round of `queueBatch` ends before it gets further: the stall
that `readme.md:79` calls a desired effect, which TLC finds with batch 2 and
block 1 failing if the condition is dropped. And a forced block is promised only
as long as the cursor has not passed it: once unmarked below the cursor and
lost, nothing queues it again (`pipeline_forced_retry`). All other blocks, in
particular all blocks if none fails for good and none is forced, are indexed in
the end.

`BlockHandler!FairSpec`: weak fairness of the main goroutine, the spawner, the
collector and each task (Go's scheduler); `Exit` is not fair. `BlockEnds` states
exactly when a block ends: if all rows fit into the channel, or if the process
is not told to exit and the errgroup has more than one goroutine. Dropping
either condition makes TLC find a hang: senders blocked on a full channel that
nobody reads, for which `Wait` waits for ever. `NotStuck` is the safety half of
`BlockEnds`, under the same conditions: in no state do all goroutines wait for
each other. What each waits for is stated by `MainReady`, `SpawnerReady`,
`TaskReady` and `CollectorReady`, the guards of their actions. It is proved for
all sizes; that the steps that remain possible also lead to an end is left to
`BlockEnds`.

`Monitor!FairSpec`: the three goroutines are scheduled, and a call of `Run` ends
one way or the other. `RunError` takes from the budget of faults; `DueIsTaken`
is about the goroutine that takes blocks, whatever becomes of them.

`Service!FairSpec`: goroutines are scheduled, and a part notices a context that
is done. For a publisher this holds, if not by a `select`: the loops of the
backfill and of the manual publisher end because their next call of Redis, which
takes the context, fails; only the chain tip publisher selects on it. `WayOut`
is the safety half of `ExitsWhenTold` and `ExitsWhenBroken`, and proved for any
list of parts. Signals, failures and the end of the manual publisher are not
fair. A worker in the hang of `BlockEnds` would not notice; `ExitsWhenTold` is
checked for the publisher process.

## 6. Proofs

All for every value of the constants under the named assumptions
`EnvironmentAssumption`, `BackfillAssumption`, `ChainTipAssumption`,
`ManualAssumption`, `WorkerAssumption`, `PipelineAssumption`,
`BlockHandlerAssumption`, `ProcessorsAssumption`, `HashesAssumption`,
`ExtractionAssumption`, `GaugesAssumption`, `ServiceAssumption`: naturals,
positive sizes, 2^64 above the chain, sequences of logs, events and transfers,
parts with different names. `HashesAssumption` says that hashes tell all
transactions and blocks of the chain apart, and `ProcessorsAssumption` that no
token or exchange is registered as "SortedOracles". Of the contracts,
`GaugesAssumption` takes that amounts are unsigned, that the fraction
`votingGoldFraction` has a divisor, and that no report is of the future.

| theorem | states | inductive invariant |
|---|---|---|
| `TypeCorrect` | `Spec => []TypeOK` | `TypeOK`, which says also that a busy worker holds a block: else a mark could be put on no block |
| `IndexedWritten` | `[]IndexedAreWritten` | + a worker about to mark has written its block (`MarkersWrote`) |
| `CursorCorrect`, `SavedCursorCorrect` | `[]CursorCovered`, `[]SavedCursorBehind` | `CursorInv`: both cursors at once, as a restart turns the stored one into the other; and the manual publisher is about to forget only blocks it was told to force |
| `SavedCursorMonotone` | `SavedCursorNeverRetreats` | the same: only `SaveCursor` changes it, to a cursor it is behind |
| `BehindTip` | `TipBuffer <= InitHead => (Spec => []BackfillBehindTip)` | `TipInv`: `maxBlock` was behind the tip when read, the chain only grows |
| `QueueStaysBounded` | `[]QueueBounded` | `QueueInv`: the length at each point of a round, counted by `queued` |
| `BackfillLoopsEnd` | `[]LoopsEnd`: the closed forms of the two loops of the backfill are met by exactly one block | `TypeOK`; the least gap above the cursor, the least block of the window |
| `PipelineImplementsLog` | `Spec => ImplementsLog` | `TypeOK`, `WrittenInv` and `CursorInv` together; one lemma per process says which step of the log each of its steps is |
| `HandlerTypeCorrect` | `[]TypeOK` of the handler | itself |
| `MarkedIsComplete` | `[]MarkedComplete` | `HandlerInv`: rows sent are in the channel or with the collector; without an exit the collector leaves an empty closed channel; Run's context is cancelled only by a failed spawner or collector |
| `ClosedAfterSends` | `[]NoSendAfterClose` | the same |
| `HandlerImplementsOutcome` | `Spec => ImplementsOutcome` | `OutcomeInv`: every row in the channel, with the collector or written is one of the block, and a goroutine writes only while the main one waits |
| `NeverStuck` | `[]NotStuck` | `ReadyInv` on top of `HandlerInv`: a spawner that is over has closed the channel or cancelled the context, the collector leaves before it only on an exit, and the channel never holds a row twice, so that rows that fit leave room for every send |
| `ExtractionProofs!TypeCorrect` | `[]TypeOK` | `IInv`, with the next one |
| `MarkedRows` | `[]MarkedHasRows` | `IInv`: an attempt about to mark has its required rows in the table, and a marked block has an attempt that had |
| `AlwaysOwnIdsStable` | `[]OwnIdsStable` | `TableInv`: every row in the table is a saved row of some block, loaded at some second |
| `AlwaysIdsIdentify` | `[]IdsIdentify` | the same |
| `MonitorProofs!TypeCorrect`, `Ordered`, `OldestWaits` | `[]TypeOK`, `[]InOrder`, `[]FirstSinceTaken` | `IInv`: the order, and that `due` is the header next to come while the slot is empty (`DueInLine`) |
| `GaugesProofs!TypeCorrect` | `[]TypeOK` | itself; the threads of a block have different names (`ThreadsFine`), so a step moves one only |
| `OfOneBlock` | `[]ObservedTogether` | `TogetherInv`: while `Run` has not failed, what the calls so far have set is of this block, for every thread that is not dropped (`SetSoFar`, `AllHandled`); every gauge of a block that is not of a dropped processor is in the script of a thread that is not dropped (`AllSet`) |
| `AlwaysFinite`, `AgesInRange` | `[]Finite`, `[]AgeInRange` | `GaugesFine`: every value held is one of a script, and all values of all scripts are fine, processor by processor |
| `AlwaysOfEvents` | `[]OfEvents` | `TogetherInv`, extended by the gauges of events: each is of an event of the block it was set for that may set it |
| `ServiceProofs!TypeCorrect` | `[]TypeOK` | itself, for any list of parts |
| `PartsEndFirst` | `[]NoneCutOff` | `Joined`: once Start returned no part runs and none is started |
| `ExitsCleanly` | `[]CleanExit` | `ExitInv`: an error kept by a group has a failure or a signal behind it, a failure is never lost on the way to the command, and the server closes only when the command's context is done |
| `AlwaysWayOut` | `[]WayOut` | the same: a failure is in the error of a group that those still waiting watch |

The argument of `MarkedIsComplete` is worth knowing: `Run` may well return nil
with rows missing when the process is told to exit in the middle (the collector
leaves early, writes what it has and reports no error). The block is not marked
then only because HSET uses the same, already cancelled, context.

The one of `MarkedRows` rests on a lemma about the scripts (`AllScripts`: every
thread of every block has a sequence of calls), on `StopsAreExcuses` (an error
that `Run` does not see and that ends a thread is one of those `RequiredOf`
excuses), and on `RequiredAreSent`: when a thread returns no error, the required
rows are among those sent.

The one of `AlwaysIdsIdentify`: the rows of a block fall into eight kinds
(`KindOfRow`), by the processor and the step that sends them. The ids of
different kinds have different forms (`OneForm`): their lengths differ, or a
fixed part, or whether they begin with a text or a number or md5. Within a kind
the parts of the id (hash of the transaction or block, number of the block, md5,
index, method, token) determine all values but the time. Equal hashes mean the
same transaction and block, which is where `HashesAssumption` is used.

Only model-checked: the liveness properties `Backfilled`,
`FailingBlocksRequeued`, `BlockEnds`, `DueIsTaken`, `ExitsWhenTold` and
`ExitsWhenBroken` (liveness is out of the prover's reach), and the violations.
Every invariant and action property that a passing run checks is the statement
of a theorem. The proofs of the refinements are of safety; the abstract
specifications have no fairness.

## 7. Not modelled

- The md5 of a row and the joining of ids with dots (taken to be injective),
  JSON, and the lower-casing of column names. A parameter of an event can
  overwrite a column of the block; which do depends on ABIs outside the
  repository.
- The values that calls return, except those that gauges divide or subtract.
- Which errors `IsExpectedBeforeContractsDeployed` accepts: kliento decides. The
  models let any call of a contract, deployed or not, be answered with one, and
  no call of the node (receipts, traces, logs). `SkipProcessorError` is made in
  one place only, `InitProcessors` of `proc_chaindata.go`, where `Chaindata` has
  it.
- An error of `server.Close`, on which the process panics (`server.go:33-35`),
  and the exit code 2 it would have.
- Entries of `publisher.manual.blocks` with leading zeros, which HDEL would not
  find.
- Counters, histograms and the gauges about the service itself; the routes of
  the HTTP server. Nothing in the program reads them. Epoch logs are not among
  the events of `Gauges`: they are no exchange's.
- Indexer and monitor as instances of `Service`: they differ from the publisher
  in the list of parts only, which the proofs leave open.
- Settings other than the mode, logging, sleeps, `ScaleFixed`, BigQuery itself.

## 8. Open

The loop of `queueBatch` over windows against `ReadWindow` and `NextWindow`,
statement by statement; a bound on the time after which a block below a failing
one gets its turn, which needs the sleeps.
