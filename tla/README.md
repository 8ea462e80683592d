# A TLA+ development for go-pg-dts

go-pg-dts copies tables from a PostgreSQL source to a target: a snapshot of the
rows that are there, then the changes that logical replication delivers. The
repository has no design document; its comments and integration tests are the
only statements of intent, and the findings below quote them.

## 1. Inventory

| Component | State it keeps | Operations | Talks to |
|---|---|---|---|
| Replication stream (`pq/replication`) | `messageCH` (1000), the change kept back (`prevMessage`), `lastXLogPos`, `sinkEnd` (1) | `Open`, goroutines `sink` and `process`, `Ack`, `Close` | walsender; listener callback |
| Message decoding (`pq/message`) | relation cache, `streamedTransaction` | `New`, one constructor per message | called by `sink` |
| PostgreSQL sink (`example/postgresql`) | channel `messages`, batch `queue`, three timers | `FilteredMapper`, `Produce`, `flushBatch` | called by `process` and by the snapshot; writes the target; calls `Ack` |
| Kafka sink (`example/kafka`) | `pendingCH` (4096), batch, `lastAck`, the primary key cache | `Handler`, `buildKafkaKey`, `flushWorker`, `writeKafkaBatch` | called by `process`; writes the topic; calls `Ack` |
| Snapshotter (`pq/snapshot`) | rows of `cdc_snapshot_job` and `cdc_snapshot_chunks`, the advisory lock, `exportSnapshotConn`, `metadataConn` | `Prepare`, `Execute`, `CommitTransaction`, `Close` | other instances, through the source database |
| Chunk partitioning (`coordinator.go`) | none | one function per strategy, one query per strategy | used by `Prepare` and the workers |
| Connector (`connector.go`) | `openFromSnapshotLSN` (in the stream), retry counters, `cancelCh`, `readyCh`, `heartbeatConn` | `NewConnector`, `Start`, `CaptureSlot`, `Close`, heartbeat | all of the above, the slot |
| Publication (`pq/publication`) and configuration (`config`) | the publication, its tables, their replica identities (in the source) | `SetDefault`, `SetReplicaIdentities`, `Create`, `EnsureTable`, `GetSnapshotTables` | other instances, through the source database |
| Slot, TimescaleDB, HTTP, metrics | set-up and reporting | | |

What is hard here:

* **Acknowledgement.** The slot forgets what is confirmed. Three goroutines
  (sink, process, Produce) pass messages through two bounded channels, two of
  them send status updates, and the target commits in batches. Correct means:
  no confirmed change is missing, the commit order is kept, the target catches up.
* **Crash and redelivery.** `lastXLogPos` is only in memory; a process starts
  from the slot's `confirmed_flush_lsn` and receives changes again.
* **Several instances, one job.** Coordinator election, claims with heartbeats,
  a snapshot that can be imported only while its exporter is open, metadata
  written in several statements without a transaction. Correct means: chunks
  marked completed were read under their job's snapshot, jobs do not mix, the
  stream starts where the snapshot ends, the snapshot completes.
* **Rows of the snapshot and changes at once.** The rows of a chunk are in memory
  when the chunk is marked completed; COPY meets rows that are there already, CDC
  meets rows that are not. Correct means: the target ends up as the source.
* **Kafka.** Writes fail in part and are repeated; messages without a record are
  acknowledged with the others. Correct means: nothing confirmed is missing, and a
  consumer sees each row's changes in order.
* **Start and stop.** `Start`, `Close`, the sink that ends and the heartbeat share
  channels of capacity 1. Correct means: no send on a closed channel, `Close`
  returns, a lost connection is noticed.
* **Set-up by several instances at once**, interrupted anywhere. Correct means:
  replica identities are in place before changes are published, and everybody
  gets ready.
* **Partitioning** under stale statistics, failing queries, and int64 limits.
  Correct means: each row in exactly one chunk.

`PROJECT.json` lists the hazards at their lines, with the properties that cover
each.

## 2. Modules

| Module | Models |
|---|---|
| `Stream` | `stream.go`: sink, status updates, `Ack`'s position, `Open`, and what `message.New` returns |
| `Produce` | the CDC path of `example/postgresql/main.go` |
| `Pipeline` | `Stream` and `Produce` in one process that may die and start again; the properties |
| `Replication` | the abstract specification: ordered at-least-once delivery |
| `PipelineRefinement` | `Pipeline` as an implementation of `Replication` |
| `Kafka` | `Stream` with the sink of `example/kafka/main.go`; each row's records as an implementation of `Replication` |
| `Snapshot` | `pq/snapshot` on several instances, one step per SQL statement |
| `Connector` | `Connector.Start` around it, with the slot, crashes and failing statements; the properties |
| `ChunkPartition` | chunk creation and chunk queries of `coordinator.go` |
| `RowImage` | tuples, TOAST values and what the SQL of `main.go` does to a row |
| `Migration` | a whole migration: chunk rows and changes through `Produce` of several instances into one target |
| `Lifecycle` | `Start`, `Close`, the end of the sink and the heartbeat of one process |
| `Setup` | `NewConnector`: heartbeat table, replica identities, publication, tables of the snapshot |
| `CommitOrder` | what holds of `Stream` behind a server that sends whole transactions in commit order |
| `PipelineInv`, `KafkaInv` | inductive invariants of `Pipeline` and `Kafka`; the other modules have theirs at their end |
| `StreamProofs` | lemmas about `Stream` and `CommitOrder`, shared by the two sinks |
| `PipelineProofs`, `KafkaProofs`, `ConnectorProofs`, `MigrationProofs`, `ChunkPartitionProofs`, `LifecycleProofs`, `SetupProofs` | theorems (section 4) |
| `Wals`, `MC*` | instances for TLC |

### Stream, Produce, Pipeline

The walsender is external: `feed` is all it would ever send, chosen once.
Messages have a tag (what `message.New` makes of them), the key of the row, the
`WALStart` and the end LSN of their transaction. A session that starts at LSN p
leaves out transactions that end at or before p (`Skipped`), so `Open` is
`startLsn' = confirmed` and a cursor at 0. On the wire a Relation has position 0.

| Variable | In the code |
|---|---|
| `prevMessage`, `messageCH`, `lastXLogPos` | the fields of those names |
| `sinkPC`, `statusPos` | between `LoadXLogPos` and the send of a status update |
| `confirmed` | the slot's `confirmed_flush_lsn` |
| `messages`, `queue` | the listener's channel and batch |
| `producePC`, `execPos`, `staged` | `flushBatchGeneric`: results read one by one in the implicit transaction, `Close`, `Ack` in two halves |
| `target` | per row the feed index of the change that wrote it last |

A change that `--target-table` leaves out (`SkipKeys`) goes through as a
placeholder: it has no query but takes part in the acknowledgement. A failed
batch (`os.Exit`), a corrupted connection (`panic`) and a kill are all `Crash`.
`Confirm` takes any non-zero position, lower ones too; a server that keeps the
maximum would only be stronger.

### Replication, and how Pipeline implements it

`Replication` knows a log, the target, the confirmed position, and the set `done`
of changes delivered since delivery last began. `Deliver` writes all changes up to
some entry at once, in log order; `Confirm` takes any position that covers only
what is done, also an older one; `Restart` begins again at the confirmed position,
so that a row may show an older change for a while. `Repeat(j)` delivers again what was
delivered from entry j on and is not confirmed; only the Kafka sink does that
(`RetryNext`).

The refinement mapping (`PipelineRefinement`) leaves `target`, `confirmed` and the
log as they are. A change is *done* when the session left it out, or when it was
received and neither it nor an earlier message is on its way (kept back, in one of
the channels, in the batch before its commit); while the process is down, when the
confirmed position covers it. So the commit of a batch is `Deliver`, a status update
is `Confirm`, a crash is `Restart`, all else is a stutter or delivers nothing.

### Kafka

The stream is `Stream`. `Handler` queues every message with its Ack, also one
without a record; `flushWorker` collects (`batch`, `lastAck`), writes (`attempt`)
and acknowledges. Kafka is external: the records of a batch are appended one by one
(`AppendRecord`), in order on each partition; a write may fail when any part of them is
appended, and then the whole batch is written again behind that part. That nothing is
appended after the failure was reported is an assumption about the Kafka client. Records
with a key go to the partition of their key. Per partition and row the model keeps the
last record. A failed query for the primary key leaves the record without a
key; when the failure is that of reading the rows of the answer (`rows.Err` is not
looked at, main.go:306), a key without columns is cached for good.

`PerRowOrder` maps, for each row, the partition of its key to `Replication`: the append of
a record of the row is a `Deliver`, a failed write begins a `Repeat` from the first record
of the batch, so that an older record of a row may follow a newer one, and nothing else
may put a row back. Rows of which an unkeyed record was written are excepted: the code
does not keep their order.

### RowImage, Migration

`RowImage` has what decoding and SQL do to one row: a column that was not sent is
taken from the old tuple (`FillToast`) or is missing from the statement; upserts,
`ON CONFLICT DO NOTHING`, deletes by the old key. Tables have `REPLICA IDENTITY FULL`,
which `Setup` is about.

`Migration` takes the coordinator's protocol in coarser steps than `Connector`: the
creation of the slot (`CreateSlot`), the capture of the LSN under the lock (`Elect`) and
the export of the snapshot with its rows (`ExportSnapshot`) are steps of their own, between
which the source commits, so that the slot is older than the job's LSN and the LSN than the
snapshot. An instance may leave `Execute` while others still read (`FinishSnapshot`), and
whoever dies, dies anywhere. The model follows the
rows: `rows` of the chunk being read, `buffer` (`messages` and the batch; a flush
takes a prefix), `phase` (`COPY`, its replay after a 23505, `Ack`). The source
performs the operations of the scenario, as long as they are `Legal`: a statement that
finds no row, or would violate the primary key, does not happen. A value carries the
position that wrote it. The rows of a chunk and the effect of a batch are recursive
functions (`RowsOf`, `Written`), so that theorems can be about them.

Some events the program does not make up for. The history variable `mishaps` records them,
and the properties say which of them they exclude:

| Mishap | What has happened |
|---|---|
| `rowsLost` | a process died with rows of completed chunks in its memory |
| `replaced` | a second job exported other rows than the first, of which some had been read |
| `overwritten` | a mixed batch (main.go:459) upserted a row of the snapshot over a newer one, or a delete was executed before another instance wrote the row it is about |
| `skipped` | a stream opened at the LSN of the job although an earlier one had begun at the slot's older position (`rewound`) and was cut off |

### Lifecycle

One process without a snapshot. A channel of capacity 1 is its length and whether it
is closed; `closePC` runs through `stream.Close` statement by statement, for the
connector and for the sink that closes the stream itself. `isClosed` takes an element
if there is one, as the code does. `panicked` says what the process died of: a send on a
closed channel, or the second close of one, since `isClosed` and `close` are two
statements and two goroutines call `stream.Close`. `Close` may be called when
`WaitUntilReady` has returned, also because its context was done (`GiveUpWaiting`), or
`Start` has. `traffic` is what the sink meets: pauses of the source, messages without a
pause (the sink then never looks at `closed`), or a listener that takes none.

### Setup

One step per SQL statement of `NewConnector`, on several instances with one
configuration; `scenario` is the configuration and what the source has at first. An
instance that fails exits with its error and is started again. A publication lists its
tables as they are with `publish_via_partition_root`, otherwise the leaves of a partitioned
table in its place (`Listed`); one that is there already has its own setting. `CREATE TABLE
IF NOT EXISTS` looks for the heartbeat table in one step and creates it in the next, which
fails when another instance was faster. `overlapped` is a
history variable: another instance was at work at the same time.

### Snapshot, Connector

`inst[i]` is one process: its program point and what it has read. `rows` and
`job` are the two tables; `snap` identifies both the exported snapshot and,
in a row, the generation of rows inserted under it. `views` is the WAL position
a snapshot shows, `delivered` and `asOf` record what the listener was handed.
`Exit` is the end of a process *and of its sessions*: the advisory lock is free,
its exports cannot be imported. `Fail` is one failed attempt of
`prepareSnapshotAndSlot`. `DBError` fails a statement after `retryDBOperation`
gave up; while a chunk is read, that is logged and the next chunk is claimed, and where
`shouldTakeSnapshot` looks for the job or deletes it, a snapshot is taken. `slot.Create` is
two steps (`SlotInfo`, `CreateSlot`), the second of which fails when another instance has
created the slot.

The rows of a chunk are not modelled here (see `ChunkPartition`), nor the way of
the rows through `Produce` (see `Migration`): a chunk is *delivered* when the handler has been
called for its rows. `slotLsn` is where the slot was created; its advance by
acknowledgements is `Pipeline`'s subject.

The comment of `Prepare` (snapshot.go:87) wants the slot created after it; the
code creates it before, which is the order `NoGap` needs.

### ChunkPartition

A table is a function from row ids to heap blocks. The strategies, their
fallbacks and the five queries that may fail are in `TableChunks`. The arithmetic on
keys and on `numChunks` wraps beyond `MaxInt`, as an int64 does, and division truncates
as Go's does; a negative `numChunks` makes `make` panic. Any set of the queries may fail
(`failed`). The keepalive of the snapshot uses the connection of the exporting transaction
(coordinator.go:129, 157), so a query may fail because the connection is busy, and the
transaction goes on; an error of the server aborts it (`aborted`), every later query of it
fails too, and no worker can import the snapshot. `COUNT(*)` is about the table whose name
is written without quotes (coordinator.go:1165), which may be another one (`counted`).
The block count is arbitrary: it is not bound to the snapshot, and is
0 for a partitioned root.

## 3. Runs

Passing runs:

| Run | Shows | Bounds |
|---|---|---|
| `pipeline` | `TypeOK`, `ConfirmedReflected`, `InOrderApply`, `CatchesUp`, the refinement `OrderedAtLeastOnce`, the inductive invariant `IInv` | two transactions of up to 2 changes, 3 in all, every interleaving of their WAL records; batch of 2, channel of 1, 2 crashes |
| `connector_crash` | `TypeOK`, `CompletedChunksRead`, `OneJobAtATime` | 2 instances, 2 chunks, 2 crashes anywhere, 1 failing read of a chunk, claims of working workers expire |
| `connector_pair` | `NoGap` and its inductive invariant `GapInv`, also when claims of live workers expire | 2 instances, 2 chunks, 1 crash anywhere, 2 WAL positions; explored up to states outside `Unraced` (the race of `connector_finalize_race`) |
| `connector_solo` | `NoGap`, `SnapshotCompletes` | 1 instance, started with or without `resnapshot`, 2 crashes and 2 failing statements, none of them between the first chunk row and the job row, no failing read of a chunk, 3 WAL positions |
| `chunk_partition` | `EachRowOnce`, the inductive invariant `PartitionInv` | every table of at most 4 rows in 2 blocks, with keys from the smallest to the largest; `MaxInt` 7, chunk sizes 1, 2, 4 and 7, any set of failing queries with and without an abort, `COUNT` of this table or of one with 0 or 3 rows |
| `kafka` | `TypeOK`, the inductive invariant `IInv`, `ConfirmedStored`, `PerRowOrder`, `TopicCatchesUp` | 2 feeds (the heartbeat's transaction last; two interleaved transactions, one of which changes a row twice), 2 partitions, batch of 2, queue of 1, 2 attempts, 2 failing writes, 1 failing lookup, 1 crash |
| `migration` | `TypeOK`, the inductive invariant `MigrationInv`, `KeptRowIsCurrent`, `Converges` | 2 instances, 3 rows in 2 chunks, 3 scenarios, batch of 2, buffer of 2, 1 crash of either instance; behaviours are followed up to their first mishap |
| `lifecycle` | `TokenFindsChannelOpen`, `SinkEndClosedOnce`, `TokenForEveryCloser`, the inductive invariant `LifecycleInv`, `CloseReturnsAfterOpen`, `LostConnectionEnds` | the slot in use twice, 2 heartbeats |
| `setup` | `TypeOK`, `IdentitiesAligned`, `SnapshotTablesStreamed`, `FailsOnlyInRace`, `EveryoneReady` | 2 instances, 4 tables (one partitioned, two of one name, the heartbeat), 63 scenarios, 1 crash |

Why the bounds are enough to be interesting: two transactions suffice for their
records to interleave so that LSN order and commit order differ; a channel of 1
and a batch of 2 fill up, and a batch can span two transactions; a second crash
hits a redelivery. Two chunks let one instance hold a claim while the other
finds nothing to claim. Retries are 2 instead of 3 and 5: every decision they
guard is taken both ways. `MaxExports` never keeps an export from happening in
these runs (ids that nobody refers to are reused).
`connector_crash` counts as one the states that differ only in what nobody can look at any
more (`Visible`): the number of completed chunks, and what a snapshot without a reference
has shown. The ids of
`chunk_partition` have a span beyond an integer and the largest chunk size is the
largest integer, so wrapped sums, the panic of `make` and the fallback to CTID blocks
happen too. Two failing writes and two attempts reach both
a retry and the give-up of the Kafka sink, one failing lookup leaves the other
row to be compared, and a batch holds two records of one row, so that the repetition of a
batch puts an older record behind a newer one. In `migration` the first chunk fills a batch
and the second does not, so COPY, the replay, a mixed batch and a partial one all occur; the
scenarios delete and re-insert, rename a key onto a deleted one, leave TOAST values out, open
the stream before all rows are written, and copy only. The
scenarios of `setup` vary one aspect of a configuration at a time: identities found,
partitions published by root or by leaf, tables of one name, an existing publication, the
tables of the snapshot, missing tables.

`migration` does not follow a behaviour beyond a mishap (`NoMishap`). `Converges` has
`[](mishaps = {})` as its premise, so it speaks of no behaviour that is cut off. What the
invariants say after a mishap is covered by their proofs, which have no such limit.

Deadlock is checked in `pipeline` and `kafka`. The other runs switch it off: an
instance that waits for the slot of another one rests for good, as do a finished
partition, migration or set-up and a process that has ended.

That a completed chunk stays completed is not claimed. When the claim of a worker that is
still at work expires, two workers have the chunk, and the `releaseChunk` of the late one
(worker.go:559) puts it back to pending after the other has completed it. This
repeats the chunk and loses nothing: the properties of `connector_crash` and
`connector_pair` are checked with such claims.

Runs that show a disagreement with what the repository says of itself:

| Run | Violated | What happens |
|---|---|---|
| `streamed_commit` | `ConfirmedReflected` | the connector asks for streaming of in-progress transactions but drops their control messages: no `Commit` releases the last change, the next `Begin` discards it |
| `connector_finalize_race` | `NoGap` | a worker checks the chunks of a lost job, then marks its successor completed |
| `connector_early_exit` | `SnapshotCompletes` | the coordinator ends the export while a claimed chunk is still unread |

### Known cases without a run

The limits of the runs above are where the code stops having the property. Each
case can be had by changing the named constant or scenario.

*Connector.*
- A second `Prepare` in one process leaves the first export open, and a worker reads
  the new job's chunk under the old snapshot: `connector_pair` with `MaxErrors = 1`,
  `ErrorPoints <- Statements` and `CompletedChunksRead`.
- Chunk rows without a job row block every later attempt: `connector_solo` with
  `CrashPoints <- Anywhere`. A failing read leaves its chunk in progress with no
  other instance to take it over: `ErrorPoints <- Statements`. Both break
  `SnapshotCompletes`.
- `resnapshot` with two instances: its cleanup is not protected by the coordinator's
  lock, and an instance that starts late deletes the running job.
- Changes of a streamed transaction that rolls back reach the target before the
  Stream Abort, which is dropped (transactional_large_rollback_test.go expects
  silence).
- What commits between the capture of the LSN and the export of the snapshot arrives
  twice (snapshot_consistency_test.go expects no overlap); `Converges` shows that
  this is harmless.

*Chunk partitioning.* No row is read twice, but some may be left out. Where a sum exceeds an
int64 (`SumsFit` is false):
- With `integer_range` and keys within one chunk of the largest int64, `rangeEnd` wraps and
  the last chunk selects no row.
- With a chunk size near the largest int64, `count + chunkSize - 1` wraps: `numChunks` is
  negative and `make` panics, or it is 0 and the table has no chunks. `Validate` only asks
  for a positive size.

Where queries fail without aborting the transaction (`LeftOut`):
- `COUNT(*)` fails because the connection is busy with the keepalive: there is one chunk,
  whose query has a `LIMIT`, and the rows beyond it are never read (coordinator.go:898-920).
- `COUNT(*)` finds another table under the unquoted name: rows beyond its number, and beyond
  one chunk, are never read.
- With `integer_range`, when neither the bounds (or an integer key) nor the blocks can be
  had, the table has no chunks at all.

*Migration.* `Converges` fails after each of the mishaps, and they can happen:
- `replaced`: the coordinator dies while the source changes. The new job has a later LSN;
  rows of the old snapshot are kept by `ON CONFLICT DO NOTHING` as if they came from the same
  chunk or from CDC (main.go:512-513), and the stream may open after the change they lack.
- `rowsLost`: a chunk is marked completed when its rows are in the channel, and a process
  that dies then takes them along.
- `overwritten`: a stream that opens before all rows are written applies a delete to a
  row that another instance writes later; or, after a crash of the streamer, its successor's
  mixed batch upserts its own old row of the snapshot over a change that was written.
- `skipped`: an instance that starts when the job is completed opens at the position of the
  slot, which is older than the job's LSN, and rows go back to changes before the snapshot;
  if it is cut off, one that took part in the snapshot opens at the job's LSN and skips the
  changes that would bring them forward again.

Other cases:
- An instance may leave `Execute`, and the export end, while others have chunks to read: the
  job is then never completed (`connector_early_exit`); `Converges` has its completion as a
  premise.
- An update that changes the primary key leaves the old row; `Converges` excepts it.

*Lifecycle.*
- `Close` before any `Open` waits on `sinkEnd` for good, although connector.go:613-614
  allows it 30 seconds.
- After one `ErrorSlotInUse` the token of the failed `Open` stays in `sinkEnd`: a later
  `Close` takes it for that of the running sink, which then panics with a send on a
  closed channel; or a lost connection is never reported. After two in a row `Start`
  blocks.
- Under steady traffic the sink never looks at `closed` (stream.go:171-178), and one that
  waits for its listener does not either: `Close` does not return.
- `Close` by a caller that gave up in `WaitUntilReady` may come before `Start` sends to
  `readyCh`: the send panics.
- A signal after `Close` panics on the closed `cancelCh`. A heartbeat after `Close`
  opens its connection again.

*Setup.*
- Of two configured tables of one name in different schemas, `Diff` may leave one with
  the wrong identity (`Unshared`). Leaves attached after the start are never aligned.
- The instance that creates a publication of leaves, without heartbeat, takes the tables of
  its snapshot from the configuration: it copies under the name of the root what is streamed
  under the names of the leaves.
- Without `publishViaPartitionRoot` the identities of leaves are not set.
- Configured tables that an existing publication lacks are not replicated, and nothing
  is said about it.

### Fairness

* `Pipeline`: goroutines that can run do (Go's scheduler), hence weak fairness of
  process, Produce, the Ack and the sends of the sink. Receiving is strongly
  fair: between two messages the sink may answer keepalives or hit its deadline,
  but a message that has arrived is read at the next turn of the loop. Nothing is
  assumed of keepalives or crashes. The restart is weakly fair: a supervisor
  starts the process again.
* `Kafka`: the same; a write goes on (`AppendRecord`), and writes do not fail for ever
  (`MaxWriteFailures`).
* `Connector`, `Migration`, `Setup`: each process goes on when it can and is started
  again when it died. Timeouts, failures, crashes and source commits are not fair;
  `Converges` is about the source after the operations that happened.
* `Lifecycle`: goroutines go on, and a mutex is granted to one that waits (strong
  fairness of `Close`). Nothing is assumed of the source or the listener:
  `CloseReturnsAfterOpen` and `LostConnectionEnds` have their behaviour as a premise.
  Signals, losses and calls of `Close` need not happen.

## 4. Proofs

For **every** set of feeds in commit order, every key set, capacity and number of
crashes (`PipelineProofs`):

| Theorem | Statement |
|---|---|
| `TypeCorrect` | `Spec => []TypeOK` |
| `NoChangeLost` | `Spec => []ConfirmedReflected` |
| `CommitOrderKept` | `Spec => InOrderApply` |
| `Invariance` | `Spec => []IInv`, on which the others rest |
| `PipelineImplementsReplication` | `Spec => OrderedAtLeastOnce` |
| `ReplicationConfirms` | `R!Spec => []R!ConfirmedWritten`, where `R` is `Replication`: what the abstract specification is worth |

For every set of feeds in commit order, every key set, number of partitions and
assignment of keys to them, capacity, number of attempts, and number of failing writes,
failing lookups and crashes (`KafkaProofs`):

| Theorem | Statement |
|---|---|
| `KafkaTypeCorrect` | `Spec => []TypeOK` |
| `KafkaConfirmedStored` | `Spec => []ConfirmedStored` |
| `KafkaPerRowOrder` | `Spec => PerRowOrder`: the steps of each row that was always keyed are those of `Replication`, or repeat a failed batch |
| `KafkaInvariant` | `Spec => []IInv`, on which the others rest |

For every set of finite tables, every chunk size, block count, statistic, set of failing
queries, answer of `COUNT` and width of an integer (`ChunkPartitionProofs`):

| Theorem | Statement |
|---|---|
| `ChunkPartitionEachRowOnce` | `Spec => []EachRowOnce` |
| `ChunkPartitionInvariant` | `Spec => []PartitionInv`, on which it rests |

For any number of Opens that find the slot in use and of heartbeats
(`LifecycleProofs`):

| Theorem | Statement |
|---|---|
| `LifecycleTokenFindsChannelOpen` | `Spec => []TokenFindsChannelOpen` |
| `LifecycleSinkEndClosedOnce` | `Spec => []SinkEndClosedOnce` |
| `LifecycleTokenForEveryCloser` | `Spec => []TokenForEveryCloser` |
| `LifecycleInvariant` | `Spec => []LifecycleInv`, on which the others rest |

For every set of instances, tables, leaf partitions, configurations and number of
crashes (`SetupProofs`). `IdentitiesAligned` itself says what it leaves out: configurations
without `createIfNotExists`, tables that share a name, leaves without
`publishViaPartitionRoot`.

| Theorem | Statement |
|---|---|
| `SetupTypeCorrect` | `Spec => []TypeOK` |
| `SetupFailsOnlyInRace` | `Spec => []FailsOnlyInRace` |
| `SetupSnapshotTablesStreamed` | `Spec => []SnapshotTablesStreamed` |
| `SetupIdentitiesAligned` | `Spec => []IdentitiesAligned` |

For every set of instances, number of chunks, of attempts and of crashes
(`ConnectorProofs`):

| Theorem | Statement | Under |
|---|---|---|
| `ConnectorTypeCorrect` | `Spec => []TypeOK` | |
| `ConnectorOneJobAtATime` | `Spec => []OneJobAtATime` | no resnapshot |
| `ConnectorCompletedChunksRead` | `Spec => []CompletedChunksRead` | no resnapshot; of the statements of `Execute` only the read of a chunk fails for good |
| `ConnectorNoGap` | `Spec /\ []Unraced => NoGap` | no resnapshot; of the statements of `Execute` only the read of a chunk fails for good |
| `ConnectorGapInv` | `Spec /\ []Unraced => []GapInv`, on which it rests | the same |

For every set of instances, keys and scenarios, every division of the keys into chunks
(keys may even be in several), batch and buffer size and number of crashes
(`MigrationProofs`):

| Theorem | Statement |
|---|---|
| `MigrationTypeCorrect` | `Spec => []TypeOK` |
| `MigrationKeptRowIsCurrent` | `Spec => []KeptRowIsCurrent` |
| `MigrationInvariant` | `Spec => []MigrationInv`, on which it rests |

There are no conditions on the scenarios or the crashes; the formulas speak of the time
until a mishap `replaced` or `skipped` (`InOrder`), and in part of all time.

### The stream, for both sinks

Assumptions: capacities are positive, keys and feeds are well typed, and
`CommitOrdered` (module `CommitOrder`): transactions are contiguous, ordered by
their end LSN, closed by a Commit, and every change lies before the end of its
transaction. That is logical decoding without streaming of in-progress
transactions; the run `streamed_commit` shows what happens with it. TLC evaluates the
assumptions on the feeds of the runs.

`StreamOK` says that what is in `messageCH` and the change kept back have increasing feed
indices, and that *the position a message carries covers no change after it*
(`LsnSafe`). The kept-back change gets the end LSN only at the Commit; all others carry a
`WALStart` below the end of their own transaction (`PrevOK`: nothing of the transaction
follows the kept-back change). `StreamProofs` shows once that receiving, taking out and
emptying keep it; both sinks cite `ReceiveInv`, `TakeInv` and `EmptyStream`.

### The pipeline

`ConfirmedReflected` is not inductive: whether an acknowledgement is safe depends
on messages still on their way. The argument of `IInv`:

1. *Order* (`OrderOK`): batch, `messages`, `messageCH`, kept-back change, in this
   order, carry increasing feed indices.
2. *Completeness* (`Complete`): a change received in this session is pending or in
   the target, and what is in the target lies before all that is pending.
3. *LSN safety* (`MessagesOK`): as above, for the messages beyond the stream.
4. *Coverage* (`PositionsCovered`): whatever `startLsn`, `confirmed`,
   `lastXLogPos` and the sink's loaded `statusPos` cover is in the target and
   before all pending. A stale status update is harmless because coverage holds
   for every position ever loaded.
5. `BatchOK`: in the open transaction each row is as in the target or was written
   by an executed query of the batch, and is not older than any of them.

When the batch commits, 1 and 2 put every earlier change in the target, so by 3
the last item's position is covered (4). A crash empties the pending messages and
leaves the covered positions. One lemma per action.

The refinement needs one more fact, `StagedLast`: in the open transaction a row is as
the last executed query about it left it. Then the commit of a batch writes exactly the
undone changes up to its last item, in order, which is `Deliver`; by 4 a confirmed
position covers only what is done, which is `Confirm`; and a crash leaves as done what
the confirmed position covers, which is `Restart`.

`ConfirmedWritten` follows in `Replication` from `RInv`: what is done has no gap, is in the
target, and includes what the confirmed position covers. A redelivery may put a row back,
but no further than to a done change, since the undone ones all come after those.

### Kafka

The argument is that of the pipeline, with the topic for the target and three
differences.

* There is no transaction. A write that fails has appended some records and is
  repeated, so the batch is pending until a write succeeds and a record of it may be in
  the topic already. `Stored(i)` asks for `i` or a later change of its row in some
  partition, which no append undoes: `AppendKeepsStored` uses that all records of a batch
  come after what is stored and no longer pending.
* What is acknowledged is not the last record but `lastAck`, that of the last message
  taken, which may have no record. `LastAckOK`: it is beyond the batch and before all that
  is still queued, so its position covers only what is stored once the batch is written.
* For `PerRowOrder`, `AppendedOK`: what the attempt has appended to a partition are the first
  of its records there, and the row shows the last of them. Of a row, the records appended are
  done and those to be appended are not, so the next append is a `Deliver` (`RowAppend`). A
  failed write makes the whole batch pending again, which is a `Repeat` from its first record
  of the row (`RowFails`); nothing of the batch is confirmed by then. Keys matter
  here only: `UnkeyedOK` has that a row not in `unkeyed` has all its records on one partition.

### Chunk partitioning

Assumptions: keys are integers from `MinInt` to `MaxInt`, tables are finite, chunk sizes are
positive. The proof has three layers.

* *Arithmetic*: what a sum is when it wraps (`Wrap`, `WrapSum`), that `numChunks` chunks of
  the size cover the total if the sum fits (`NumChunksFits`, `EnoughChunks`) and that there
  is none to read or a panic if it does not (`NumChunksOverflows`), and that a number lies in
  one interval of a size only (`OneInterval`).
* *Strategies*: `OffsetDivides`, `CTIDDivides` and `RangeDivides` show that a row is in at
  most one of the chunks created, and in one if the sums fit. Rows have distinct ranks in
  `ORDER BY` (`RowsBefore`) below their number; a block is in one interval, and those at or
  beyond the reported size are in the last, which has no end; a range has at most
  `chunkSize` keys (`KeysBefore`), so `LIMIT` cuts nothing off. `TableServes` goes through
  the fallbacks: a row is in a chunk unless `LeftOut` names it, that is, unless it lies
  beyond what was counted and beyond one chunk (`OffsetServes`), or there are no chunks
  (`NoBlocks`, `LastResort`).
* *Reading*: `PartitionInv`. A row handed over is in no chunk still to be read; another is in
  at most one of them. A chunk that is read is removed, so the row moves from the second
  case to the first.

### Start and stop

* `SinkEndOK`, `StartOK`: a token in `sinkEnd` was sent by the sink that ended or by an Open
  that failed for good. Without a slot in use the connector therefore cannot be through with
  `sinkEnd` while the sink has still to send.
* `FlagOK`: the flag `closed` is set by whoever goes on to wait for the token. The sink, whose
  token is in the channel, calls `Close` only if it found the flag unset, so the connector
  has taken nothing by then.
* `OneToken`: as long as both may call `Close` and the channel is open, there is one token,
  in the channel or with the one who will close it. So the other waits for the close, and
  finds the channel closed when it asks `isClosed`: this is why two callers with a check
  and a close in separate statements do not panic.
* `ReadyOK`: `Close` is not called before `Start` has sent to `readyCh` or returned, unless
  `WaitUntilReady` was given up.

### Set-up

Assumptions: the heartbeat table is none of the configured tables, leaves are no tables and
belong to one table each, the configured identities are `DEFAULT` or `FULL`.

* `RaceInv`: of two instances at work each knows it was overlapped. What one of them found
  missing and is about to create can be there only then; the heartbeat table exists once an
  instance has begun, so `FOR ALL TABLES` covers it.
* `TablesInv`: what an instance has read of the publication is still published, because the
  publication only grows; a publication the program made has exactly the configured tables,
  with the configured setting. What is listed by leaf and what is declared by root have the
  same `Holders` (`ListedHolders`), so the rows are the same where the names are not.
* `IdentityInv`: a leaf that is not aligned belongs to a table still to be asked for, or is
  still to be altered; a table that is not aligned is still to be altered. Nobody undoes an
  ALTER, since all leaves of a table are to have its identity (`WantedLeaf`).

### Snapshot and connector

* `PointsOK` (type correctness): where a process uses a chunk, a row or a snapshot, it has
  one in hand.
* `OwnerInv`, `JobInv`: the metadata is written only at program points where the process
  holds the advisory lock, and all chunk rows have the snapshot of the first one, which is
  that of an open job or of the job being made. A row of a dead coordinator makes the next
  insert fail (the UNIQUE constraint), so the first row decides.
* `ReadInv`: while a snapshot that the job row or a worker knows can be imported, its
  exporter is still the coordinator, in `Execute`; nobody else replaces job or rows, so
  whatever chunk a worker claims belongs to the snapshot it imports (`ExportInv`,
  `WorkInv`). If the exporter dies the import fails. The condition on failing statements is
  needed: a coordinator whose `Execute` fails goes back to `Prepare` with its old exporting
  transaction still open, and replaces the job under it.
* `GapInv`, for `NoGap`, is a chain from the slot to the rows. `LsnOK`: the slot is created
  before the LSN is captured and the LSN before the snapshot is exported, so
  `slotLsn <= lsn <= views[snap]` for a process that makes a job and for the job row.
  `DeliveredOK`: what was handed over under a snapshot is at least as new as its view. `RowsOK`:
  the rows of an open job are all there, with its snapshot, or all gone. So a process that
  finds all chunks completed finds, by `CompletedChunksRead`, chunks delivered as of the job's
  LSN or later, and `ReadOK` keeps this until the job is marked. `OpenOK` carries it to the
  process that opens the stream. `Unraced` is used in one place: a job that is saved while
  another process stands between the check and the mark would be marked unread. No process
  can prevent this; it is the race of `connector_finalize_race`.

The conditions are those of the runs `connector_crash` and `connector_pair`; section 3 says
what happens without them.

### Migration

`TypeOK` already needs an argument. That a statement is about one whole row is due to
`LogOK` (every message, once decoded, has all columns, because the old tuple of `REPLICA
IDENTITY FULL` fills in the TOAST values) and to `ItemsOK`, and that positions are those of
the log to `SlotOK`: nobody streams before the slot is there.

`KeptRowIsCurrent` is about one moment, the replay of a batch of the snapshot after a
conflict. The argument for it is `CurrentInv`:

1. `JobOK`: before the job is completed nobody streams, and what is in the target are rows of
   the exported snapshot. A completed job stays. A later job of a dead coordinator exports
   the same rows, or nothing has been read yet, or it is the mishap `replaced`.
2. `ShowsLast`: a value tells the change that wrote it, and that change is in the log, is no
   delete, and is about this row. `ViewOK`: rows on their way are those of the exported
   snapshot.
3. `StreamOK`: the changes the streamer has are unconfirmed, in order, and without gaps up to
   the last one received. So after the Ack of one of them all earlier ones were executed.
4. `CurrentOK`: a row of the target that is older than the exported one lacks the change that
   wrote the exported one, and *that change is still to come*: it is beyond the slot's
   position, and beyond the job's LSN unless a stream has begun before it (`rewound`), and
   the process that streams has not executed it yet, whether it
   has received it or not (`ComingAfter`). A stream that opens at the job's LSN after all, when
   one went back behind it, is the mishap `skipped`.

A flush that executes items 1 to n can leave a row older than the exported one only by an
older change, after which the newer one is still in the buffer or not received (3). The row
itself, if it came from the snapshot, is the exported one (2). A crash loses the buffer, but not
the changes in it, since they are not confirmed. The replay never makes a row older.

What a batch writes is a recursive function over its items. The provers cannot unfold a
recursive definition before they know that a function with these values exists. The lemma
`Chain` shows this for every chain of finitely many steps, and `UpTo`, by the least
counterexample (`LeastNat`), that what holds at 0 and is kept by a step holds at every step
(`ChainTyped`, `WrittenStep`, `RowsOfView`).

### Only model-checked

The liveness properties, which are out of the prover's reach: `CatchesUp`,
`SnapshotCompletes`, `TopicCatchesUp`, `Converges`, `CloseReturnsAfterOpen`,
`LostConnectionEnds` and `EveryoneReady`. And `NoGap` with `resnapshot` and with failing
statements of `Execute`, on one instance (`connector_solo`); a failing statement of `Prepare` is
within the theorem. Every invariant that a run
checks is the subject of a theorem.

## 5. Not modelled

Listed with reasons in `PROJECT.json`: HTTP and metrics, TimescaleDB's name map, the
validation tool, the connection pool and the decoder cache, thin wrappers. Within modelled
parts: field layouts, column types and SQL text, the reading and validation of
configuration files, the publication's operations, the concurrent use of one driver
connection by the sink and an Ack, `TRUNCATE` (dropped by the code, and by the model).

## 6. Plan

Done: all modules of section 2, and proofs of all invariants and of all action properties and
refinements of the passing runs, some of them under the conditions named in section 4.

What could follow:

1. `Migration`: the safety part of `Converges` (when nothing is on its way and the stream has
   reached the end of the log, the target is the goal) as an invariant, under the conditions of
   *Known cases*.
2. `Connector`: `NoGap` with failing statements of `Execute` on one instance, where the export
   that a second `Prepare` leaves open does no harm: no worker imports it any more.
3. The reading and validation of the configuration, and the operations of the publication.
