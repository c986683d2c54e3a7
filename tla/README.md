# Verification of Cube's query queue and of the store beneath it

TLA+ modules, TLC configurations and TLAPS proofs kept beside the Cube
repository (`src/`). They cover five parts of Cube:

* where processes compete: the query queue, through which every query and every
  pre-aggregation build of every API instance and refresh worker goes, and the
  tables of Cube Store that hold it;
* where a crash or a failed call can undo what was promised: how Cube Store's
  metastore is uploaded to remote storage and recovered from it;
* where long jobs work on what they read a while ago: the partitions and chunks of
  Cube Store that imports, compactions, repartitions and garbage collection change
  side by side, and the replay handles by which a streaming table remembers what
  it has;
* where a promise goes on after nobody awaits it: the cache of query results, which calls,
  their renew cycles and what timed out calls left behind fill through one row of the
  queue;
* where messages get lost: the connection of an API process to Cube Store, with the
  server's table of messages that may come again.

`PROJECT.json` lists the components, the runs, the mutants
that each property is tested with, the lines each definition stands for, the
findings, the hazards and the theorems.

## 1. The system

| Component | State | Operations and interactions | What makes it correct |
|---|---|---|---|
| **Cube Store queue** (`cachestore/cache_rocksstore.rs`, `queue_item.rs`, `queue_result.rs`, `listener.rs`, `scheduler.rs`, `sql/cachestore.rs`) | rows, payload rows, result rows; a broadcast channel of events | `QUEUE ADD`, `TO_CANCEL`, `LIST`, `CANCEL`, `HEARTBEAT`, `MERGE_EXTRA`, `RETRIEVE`, `ACK`, `RESULT`, `RESULT_BLOCKING`, `TRUNCATE`; deletion of old results; compaction | one row per path; no more active rows than the concurrency; a result is of an acknowledged row and reaches whoever waits |
| **Query queue** (`QueryQueue.ts`, one per process) | the running reconcile chain and its callers, the started `processQuery` calls, cancel handles, streams | `executeInQueue`, `reconcileQueue`, `processQuery`, `cancelQuery`, timers; talks to the store through the driver | who retrieves a row ends it; a late call never answers for another row; every row leaves; a caller is served by a pass that saw its row |
| **Queue drivers** (`CubeStoreQueueDriver.ts`, `LocalQueueDriver*.ts`) | none; the in-memory driver keeps the queue in plain objects | one storage command for each method | both implement `queue-driver.interface.ts` |
| **Query cache** (`QueryCache.ts`, `OrchestratorApi.ts`) | cached results with the value of the refresh key they count for, the queue's cancel handles | `cachedQueryResult`, renew cycles, refresh keys; a call that takes too long is answered "Continue wait" and its promise goes on | every request ends, outdated results do not last, a cancelled query is the one meant |
| **Pre-aggregations** (`PreAggregationLoader.ts` ...) | version entries, tables touched | build through the queue, drop orphaned tables | a table in use is not dropped |
| **RocksStore** (`metastore/rocks_store.rs`, `rocks_fs.rs`) | the local database, the positions up to which it is uploaded, snapshots and logs in remote storage | write loop, `run_upload`, `upload_check_point`, `set_current_snapshot`, recovery | what a recovery finds is a state the store was in, complete, and never older than before |
| **Metastore: partitions and chunks** (`metastore/mod.rs`, `partition.rs`, `chunks.rs`, `job.rs`) | for each index its partitions with bounds and parents, the chunks on them, one job row per partition or chunk | `create_partition`, `swap_active_partitions`, `swap_chunks`, `activate_chunks`, `delete_middle_man_partition`, `add_job`; each is one write | active partitions tile the keys; each row is read once; nothing that a query or a job needs is collected |
| **Store, compaction, job runner, scheduler** (`store/*.rs`, `cluster/ingestion/job_runner.rs`, `scheduler/mod.rs`) | what each job has read and created so far | imports, compactions, repartitions, garbage collection by timeouts | a job that works on old data changes nothing, or something still right |
| **Streaming ingestion** (`streaming/mod.rs`, `metastore/replay_handle.rs`) | replay handles: the range of sequence numbers of a batch and whether its chunks were lost | the stream job, compaction in the memory of workers, merging of handles | a row is stored, or read again |
| **Worker pool, remote file systems** | processes, downloads | timeouts, retries | nothing done twice, nothing lost |
| **Cache store entries and eviction** (`cache_item.rs`, `cache_eviction_manager.rs`) | keys with a TTL, sizes, statistics | get, set, incr, eviction | eviction spares what was replaced meanwhile |
| **Cube Store connection** (`WebSocketConnection.ts`) | the current socket, for each socket the messages sent over it, the promises that wait | connect with retries, send, heartbeats, resend after a close | each query ends, and an answer finds it where it waits |
| **Cube Store HTTP server** (`http/mod.rs`) | for each message id: running with the sockets that wait, or complete with a result | receive, run, hand over, expire | a message runs once at a time, and again only when its result was spent |
| **API gateway, server core, SQL API** | sessions, the refresh rotation | requests | session protocol; every partition is refreshed |
| **Schema compiler, SQL planner, query planner, drivers, clients** | none that is shared | pure functions, requests | not concurrent |

How they interact: an API process calls `executeInQueue`, which adds a row to
Cube Store through the driver, runs (or shares) a *reconcile pass* over the rows,
and waits for the row's result with `RESULT_BLOCKING`. A pass cancels stalled
and orphaned rows, lists the rest and starts `processQuery` for some of them, in
its own process. `processQuery` takes a row with `RETRIEVE`, runs the query,
sends heartbeats, acknowledges the row with the result and starts another pass.
The acknowledgement broadcasts an event to every blocked request. All processes
do this on the same rows at the same time, and none of them can see whether
another one is alive except by the age of a heartbeat.

What is hard here: the steps between two awaits of different processes
interleave freely; row ids listed by one command are used by a later one; a
process may die between any two commands; results outlive rows and are
deleted by a timer, by a reader or by expiry; requests time out and are repeated.
The same holds one floor below. A query of the queue or of the store travels over a
web socket that may close while the command runs. One floor up, the promises of a call
outlive it, and each takes what the queue has for it and caches it. In the store, a job reads the
metastore, works for minutes, and writes back by one atomic swap; meanwhile its job
row may be removed as orphaned, another job may do the same work, and the garbage
collector goes by timeouts.
`PROJECT.json` lists each such hazard at its line with the property that covers it.

## 2. Modules

| Module | Models |
|---|---|
| `JobQueue` | what the queue promises, with neither rows, keys, events nor clocks (abstract) |
| `CacheQueue` | the queue's tables in Cube Store, every `QUEUE` command, the broadcast, blocking reads, expiry |
| `QueryQueue` | `QueryQueue.ts` in several processes over `CacheQueue` |
| `QueryQueueProofs` | the theorems about `QueryQueue` |
| `CacheQueueProofs` | the theorems about `CacheQueue` |
| `CacheQueueRefinement` | the theorem that `CacheQueue` implements `JobQueue` |
| `RocksStore` | persistence of a Cube Store database: writes, uploads, crashes, recovery |
| `RocksStoreProofs` | the theorems about `RocksStore` |
| `Replay` | ingestion of a stream, its replay handles, compaction in memory, merging of handles |
| `ReplayProofs` | the theorems about `Replay` |
| `Partitions` | partitions and chunks of one index: imports, compactions with splits, repartitions, garbage collection |
| `PartitionsProofs` | the theorems about `Partitions` |
| `Connection` | `WebSocketConnection.ts` and the loop of a socket in `http/mod.rs` |
| `ConnectionProofs` | the theorems about `Connection` |
| `QueryCache` | `QueryCache.ts` with the timeout of `OrchestratorApi.ts`, over one row of the queue |
| `QueryCacheProofs` | the theorems about `QueryCache` |
| `MCCacheQueue`, `MCQueryQueue`, `MCRocksStore`, `MCReplay`, `MCPartitions`, `MCConnection`, `MCQueryCache` | values of the constants for TLC |

`QueryQueue` is composed with `CacheQueue`; the others stand alone. They meet at
interfaces that each assumes and none checks of the other: `CacheQueue` never goes
back in time (`RocksStore` says what a restart may bring back), and a command that
reaches the store does so once (`Connection` says when it may be run again).
`QueryCache` has of the queue what a caller sees: one row for each path
(`OneRowPerPath`), answers from acknowledged rows only (`AnswerIsAcked`), rows that
leave (`RowsLeave`).

### CacheQueue and the code

A row is named by its primary key. Every write of the code is one closure on
`RocksStore`'s read-write loop, and so one step here. Two things are *not* one
step: the event of an acknowledgement is broadcast after the commit
(`outbox`, `Broadcast`), and `queue_result_blocking` opens its listener, looks the
result up and waits, in that order (`Subscribe`, `LookupFirst`, then `TakeEvent`,
`TimeOut` or `Lagged`).

* `status`, `pathOf`, `age`, `extra` are the columns of `queue_item`. `age` is the
  time since `created` or since the heartbeat, in ticks; it saturates one above the
  limit the row is compared with, where no command can tell the difference.
* `payload` is the `queue_item_payload` table. It can disagree with the rows,
  because compaction drops expired keys one by one (`CompactItem`,
  `CompactPayload`); `RETRIEVE` of a row without payload deletes the row, as the
  code does.
* `result[i]` is the row of `queue_result` with the same id as the queue row: `fresh`,
  `deleted` (the flag a first reader sets) or gone. A lookup by path finds the
  latest one and skips deleted ones, a lookup by id does not.
* A row that has left keeps a ghost status (`acked`, `ackedEmpty`, `dropped`) that no
  command reads.

A command whose key finds no row changes nothing: it is `NoRow`, a stuttering
step, used where a caller's own state goes on.

### QueryQueue and the code

A step is the code between two awaits together with the one storage command the
await sends; the reply's handling belongs to the step, since nothing else of the
same process can observe the gap and other processes only see the storage. Where
a command's reply is *used after another await* (the ids a pass has to cancel, the
ids it listed, the id a `processQuery` call retrieved) the model keeps it in a
variable (`recon[n].todo`, `sent`, `exec[i].as`).

* `client[c]`: an `executeInQueue` call: poll, add, await the reconcile chain, then
  block on the id, or await the stream (persistent queries), or return (jobs).
* `recon[n]`: the reconcile chain of process *n* with `reconcileAgain`. A caller that
  arrives while a pass runs is in `awaitNext` until the next pass begins.
* `exec[i]`: the `processQuery` call that retrieved row *i*: the query itself may run
  on after the call gave up (`timedOut`) or died with a storage error (`lost`).
* `counter`, `extra`: the cancel handles of `QueryCache.createQueue`, numbers that
  are only meaningful in the process that issued them.
* `Crash` takes a process with its calls, queries and handles. A client whose
  process dies asks another one.

### JobQueue

A job is new, queued, running, finished or dropped; at most one live job per path,
at most `Concurrency` running, a job ends once, an answer is the outcome of a
finished job asked for. `CacheQueue!Jobs` maps the store's rows to jobs and its
requests to callers; everything about payloads, result rows, events, listeners and
time is a stutter of the abstract queue. An abstract job may finish while still
queued, because `queue_ack` does not look at the row's status.

### RocksStore and the code

One database, its process, and remote storage. The write loop of the process and
the upload loop run side by side; steps of the upload loop are the code between
two calls to remote storage, each of which may fail.

* `hist` is the local database as the sequence of writes it has applied, so that
  RocksDB's sequence number is its length; write *w* sets `KeyOf[w]`, and `Content`
  is what a reader would see. Writes of one key, and of two, are what tells an old
  log replayed over a newer snapshot from a right recovery.
* `lastUpload`, `lastCheck`, `snapshotUploaded`, `checkpointTime`, `stopped` are the
  fields of `RocksStore`. `log` and `checkpoint` are what the upload loop has in
  its hands between two steps; in a recovery `log` is the last log replayed.
* `snapState`, `snap`, `logs` and `current` are remote storage: for each snapshot
  whether its files are there, their content, the logs in its directory, and the
  file `metastore-current`. `known` is the local copy of that file: an upload stores the
  remote one first and may fail in between, and `set_current_snapshot` goes by the local one.
* `written`, `states`, `chosen` and `givenUp` are history: no step reads them but the bound on
  `Write` (a recovery that loses a write does not give its number to another one).
* A snapshot's name is a time in the code and a number here. `checkpointTime` is set
  when a checkpoint *begins*, as in the code, which is where the first finding below
  and the first divergence come from. After a restart the numbers go on, as a clock does.
* A failed upload may have stored what it was to store, because `upload_file` looks at
  the file again after it was put there (`remotefs/s3.rs:204-218`): the log, none, some or all
  of the files of a snapshot, `metastore-current` with or without its local copy
  (`NameCurrent`). A failed deletion may leave parts of a snapshot.
* A checkpoint of which a step failed while `snapshot_uploaded` was set is in `givenUp`: logs go
  on beside it, from a position that is behind it. No recovery reads these logs as long as
  `metastore-current` does not name it.
* `Crash(kind)`: the disk is lost, is kept by a process that serves, or is kept by a
  process that was still recovering (`recoveryKept`, in no run: see section 5).
* `SetCurrentSnapshot` is the operator's command. It waits for a checkpoint that is
  being uploaded, because `upload_check_point` holds the same lock.

### Replay and the code

One streaming table with one location and one index. Rows are their sequence
numbers.

* `handle`, `next` are the table of replay handles and its ids: a range and
  `has_failed_to_persist_chunks`. A range includes both ends, yet
  `subtract_from_right` leaves the start of what it subtracts in the rest, and calls a
  rest of one row empty: `SubtractFromRight` does the same.
* `chunk` has the active in-memory chunks; `mem` says whether the worker still has
  their data. Rows that were flushed are in `disk`, whose chunks have no handle.
* `pc`, `initial`, `pos`, `batch`, `pending` are the locals of `stream_table`, between
  its awaits: the handle is written, then the chunks are added, then both are
  activated. `RequireReplay` is its check, before each batch, that no row before the one
  it started with is to be read again.
* `work[p]` is what the in-memory compaction of a partition has left to do: mark the
  handles of lost chunks one by one, drop these chunks, join those that stay in
  memory under a new handle, flush the rest.
* `merge` is what the scheduler's `merge_replay_handles` read; `ReplaceHandles` is its
  write, which checks that the handles are there and without chunks, and does not
  look at anything else again.
* `skipped` is history: `IngestFails` and the removal of a handle taken for replayed
  are the two steps in which the code may lose a row (see the findings).

Taken for granted: one stream job at a time, the offset "earliest", a worker for each
partition, partitions that do not split, batches and joins that take less than the
minute after which a handle may be merged.

### Partitions and the code

One index of one table. A row is a batch and a sort key; what tells a split from a
wrong split is where each key goes.

* `part` and `chunk` are the tables, `files` remote storage. `none` is an id not given
  yet, `gone` a deleted row.
* `work[w]` is a job in progress: `of` is what it is about, `owner` whether its row is
  still in the table of jobs, `old` and `new` the ids it read and created, `plan` what
  goes into the new ones. A job is unique by its row and not by its work: `NoJob` looks
  at rows only, and after `OrphanJob` a second one may begin while the first goes on.
* A compaction is four steps: read, create the children, write their files, swap. An import
  or a repartition is three: assign rows to the partitions that are active, create
  chunks, and activate or swap. Everything a step checks is what the code checks
  there; in particular neither `create_partition` nor `add_chunk_columns` looks whether the
  partition is still there.
* When chunks were left out by a compaction, a swap moves them to a single child if
  its bounds are those of the parent. The code compares the child as
  `create_partition` returned it, which is without bounds (`Reparented`). So only an index
  with one partition has its chunks moved; the others are repartitioned later.
* Timeouts are orders. `import_job_timeout` is longer than any job: what the collector
  deletes by that age was there before every running job began (`seen`, `kept`,
  `OutlivedParts`, `OutlivedChunk`). For a middle man it is the task to delete it that was there
  (`posted`, `after`): the queue keeps the first deadline of a task (`shared/deadline_queue.rs:52-71`),
  and at the deadline only the present state of the partition counts (`IsMiddleMan`). The partition
  may have been listed as an unfilled child, and filled and compacted since. `not_used_timeout`, after which a file is removed, is
  longer than queries and shorter than jobs.

### Connection and the code

* `socket[s]`, `sentMessages[s]` are a web socket of the client and its
  `sentMessages`, `webSocket` is the current one. `awaiting[m]` is the socket whose `readyPromise` a
  query awaits, `moving[s]` how far the close handler of *s* is: it `waits` for its
  timer, for the next socket to be `ready`, or for the callback of `send`
  (`sends`), or `hangs` because there is none.
* `messages[m]` and `run[m][n]` are the server's entry of a message and the *n*-th task
  that runs it. That a result is put into the entry and then sent to the senders are two
  steps, and so is the removal of an entry whose result was taken (`Release`).
* `spent` is history: the results that were handed to a socket that was served, expired,
  or were lost with the server.
* Both ends see a close on their own: `socket[s]` is the client's side and `up` the server's.
  What is on its way (`requests`, `answers`) may be lost when a socket closes.
* `currentConnectionTry` is set back by a pong only, as in the code, so that after all
  attempts failed the next failure is final at once.

Taken for granted (`HandedOver`): a result is handed over faster than a command runs or a result
expires.

### QueryCache and the code

One query with one refresh key, whose value is the version of the data.

* `tasks` are the promises of `renewQuery` and `cacheQueryResult` that are not settled, `pc` where
  each is: loading the refresh key, looking at the entry, asking the queue, waiting for
  it, about to cache what came. An `own` task is awaited by a call. When the call times
  out (`pt.timeout`) the task goes on as an `orphan`. A `cycle` is a renew cycle,
  and a `background` task a renewal that is not awaited.
* `row` is the row of the query in the queue and `left` a result that the next
  lookup finds. Who hears the event of an acknowledgement takes the result with it; who
  looked it up by id leaves it for a lookup by path, as `CacheQueue` does.
* `cache` is the entry: the version of its result, the value of the refresh key it
  is cached under (`renewalKey`), whose request it was, and whether it is older than its
  `renewalThreshold`. Several entries with equal fields would be one; there is one key.
* The refresh key's own query has an entry, a row and a copy in memory too. Here it gives
  the current version or, while some cache may still hold it, an earlier one (`old`).
  It may fail (the code goes on with an empty list of values, which is a key
  of its own), or take so long that the task ends with "Continue wait".
* `status[r]`, `mode[r]`: a client of the `setting` asks, and after "Continue wait" asks again under the same
  id (`requestId` without its `-span-`). A new request has a new id, and `Ask` takes that
  of the former one from the entry.

## 3. Runs

| Run | Asks | Instance and why it is enough |
|---|---|---|
| `store` | `TypeOK`, `OneRowPerPath`, `ConcurrencyBound`, `NoLostWakeup`, `Provenance`, `AnswerIsAcked`, `ImplementsJobQueue` | two paths (common, exclusive), two processes, two blocking readers, two rows, one slot. Two rows are what it takes for a row to be replaced on its path while results and events of the first are about, or to compete for a slot; the readers share nothing but result rows, for which two are enough. |
| `queue_two_callers` | `QTypeOK`, `LeaseHeld`, `RunsAtOwner`, `ResultFromOwnCall`, `ReconcileServesLateCallers` | two callers (one with `forceBuild`, one of a persistent query) on two processes, one of which may crash, fail and cancel; two paths, two rows, one slot, cancel handles. Two rows are a row and its successor on one path, held by different processes; two callers are enough for one to arrive in the pass of the other. |
| `queue_leaves` | `RowsLeave` | liveness: one path, two processes, of which one may crash at any step. |
| `rocks_store` | `RTypeOK`, `CurrentIsComplete`, `SettledIsCommitted`, `UploadedIsRecoverable`, `RecoveryKeepsWrites`, `WritesReachRemote` | four writes, three of one key and one of another, and three checkpoints; every step of an upload may fail, with or without effect, the process may die with or without its disk, an operator may choose a snapshot. Logs hold one write, so that one upload leaves a rest. Three checkpoints give one that succeeds, one that fails or is lost, and one that makes up for it. |
| `replay` | `ReplayTypeOK`, `RowsKept`, `LossIsRecorded`, `MergeKeepsStart` | two partitions, three rows that go to them in turns, three handles, one restart; batches may fail and the stream may stop. Three rows are one lost between two kept, three handles two and what merges or joins them. |
| `partitions` | `PartitionsTypeOK`, `RowsOnce`, `RangesTile`, `TreeIsWhole`, `StaysReady` | three keys, two batches (keys 1 and 2; key 3), five partitions, four chunks, two workers, one of whose jobs fails or is orphaned. Five partitions are the first, two children of a split and two of the next job; two workers are a stale job and its successor. |
| `connection` | `ConnectionTypeOK`, `AnswersAreExpected`, `RunsAlone`, `RerunsOnlyIfSpent`, `QueriesEnd` | one query, three failures (sockets that break or cannot connect, crashes of the server), two attempts to connect, so four sockets. One message is enough for the server, whose entries do not touch one another. |
| `query_cache` | `QueryCacheTypeOK`, `RequestsEnd`, `EventuallyFresh` | two settings. One client in two modes, one that waits for the refresh key and has no renew cycle and one that does not and has, with one fault: two tasks of one client are an attempt and what is left of the one before, or an attempt and its cycle. Two clients that both wait for the refresh key and share the entry, without faults: each may replace what the other is to find. Two versions of the data, back and forth for ever. |
| `old_log_replayed` | violated: `RecoveryIsCommitted` | five writes, only the deletion of old snapshots may fail. |
| `replay_covered` | violated: `CoveredIsReplayed` | as `replay` with a fourth handle and without failing batches. |
| `connection_forgets` | violated: `PendingIsKept` | three queries, two failures. |
| `cached_outdated` | violated: `EntryAsNewAsKey` | one client in the default mode, one change of the data, no faults. |

Bounds. `MaxId` bounds the rows ever added; when it is used up, `QUEUE ADD` of a
path with no row is disabled, so behaviours end there, and callers of such a
path stop: this, and callers that need not ask again, is why `CHECK_DEADLOCK FALSE`
is set. `HeartbeatTimeout` and `OrphanedAfter` are 0 or 1 ticks; only the order of a
timeout and the other steps matters, and a tick may come at any point.
`MaxWrites` and `MaxCheckpoints` bound `RocksStore`; a failure or a crash does not take
the last checkpoint number (`MayRetry`), since what a bounded run could then not
try again the code would. The writes are bounded, so a run ends, and its
`CHECK_DEADLOCK FALSE` says so.
`MaxSeq`, `MaxHandle` and `MaxCrash` bound `Replay`: rows of the source, ids of handles
and restarts. `MaxPart` and `MaxChunk` bound the ids `Partitions` gives out, and
`MaxFaults` the jobs that fail or are orphaned; a job whose ids are used up stays
where it is. `MaxFailures` bounds what goes wrong with connections and servers, and so
the sockets (`MaxFailures + 1`) and the runs of a message, of which each socket starts at
most one. All three end when their bounds are reached, hence `CHECK_DEADLOCK FALSE`.
In `QueryCache`, `MaxVersion` bounds the versions. With `Recurs` they come again, as the value of a
refresh key may, so that the data can change for ever in a finite model. `Settings` are
the instances that one run goes through: `setting`, which no step changes, has the clients, their
modes, and two bounds. `tasks` is how many tasks of its earlier attempts there may be when a client asks again, and a
new request waits until those of the last one are over; in the code both happen when
a client is slower than the queue's `continueWaitTimeout`. `faults` is the number of queries
that fail, of slow refresh keys, and of rows, results and entries that vanish.
`CHECK_DEADLOCK FALSE` is for runs without `Recurs`, which may end.
The workers of `Partitions` are symmetric: no definition tells them apart, and all its
properties there are invariants. No other run uses symmetry. A `SUBSET` of processes may crash, fail or cancel
(`Crashable`, `Failing`, `Cancelling`), to keep each question's state space small.

Every property of a passing run comes with a mutant, an operator of the same
module that breaks one definition the way a slip in the code would (an
unchecked insert, an off-by-one in the slot count, a listener opened after the
lookup, an acknowledgement by path instead of by id); substituting it makes TLC find
the property violated.

### Fairness

Four runs assume any. In `queue_leaves`, time passes and committed events are broadcast; a
caller's call goes on (promises of a live process are resolved, and clients repeat
a request until answered); the pass of a live process goes on (each of its awaits is
a storage command with a timeout); a `processQuery` call that was started goes on and
its query ends (the driver returns, fails, or the execution timeout ends the call).
These are weak fairness, each of one actor. Nothing is assumed of
heartbeats, cancellation, failures and crashes. In particular no fairness is put on
the *success* of a retrieval, which depends on slots held by others.

In `rocks_store` the upload loop runs (weak fairness of `BeginUpload` and `NotDue`), the
interval between checkpoints elapses again and again (strong fairness of
`BeginCheckpoint`: the loop passes the point where it may begin one, and leaves it,
many times), and a call to remote storage that is tried again and again succeeds
at last (strong fairness of `UploadLog(TRUE)`, `UploadFiles(TRUE)`,
`WriteCurrent(TRUE)` and `DeleteOldSnapshots(TRUE)`). Nothing is assumed of writes,
crashes, restarts or operators. `WritesReachRemote` is about a process that lives; it
excepts what a process opened on a kept disk finds there, because `new` counts that
as uploaded (`last_upload_seq` and `last_check_seq` start at the latest sequence
number) although it may never have been. Such writes reach remote storage with the
next checkpoint that some later write brings about.

In `connection` every timer fires (`Retry`, `NoHeartBeat`, `Timer`), a socket that
connects opens unless it fails (`Open`), one that begins to close is closed (`Closed`
without a failure of its own), the callback of `send` comes (`Sent`), and for each
message what is on its way arrives and what runs ends (`Work`). Nothing has to fail,
no socket has to break, and nothing is assumed of new queries, pongs or expiry.
`QueriesEnd` is checked for one query. With more it does not hold, because of the
third finding: a handler that hangs forgets all messages but the first.

In `query_cache` clients ask and ask again, promises are settled (weak fairness, for each
place a promise may be in, of the steps taken there), the queue executes its row and the
execution ends, entries and copies of earlier refresh keys grow old. A wait for the queue ends by its outcome or
by the queue's timeout. Nothing is assumed of
the data, of the calls' timeouts or of faults; in particular a call may time out every
time it waits for the queue, and the execution may fail as often as `setting.faults` says. What the
run does take for granted is that a refresh key is loaded within a call's timeout, except
for `setting.faults` times. `RequestsEnd` excepts the mode `no-cache`, and requests whose
result others keep replacing: see below.

### Findings

Four runs state what the documentation, a comment or a test says and TLC refutes it;
each is in `PROJECT.json` with the quoted line.

1. `old_log_replayed`: when the deletion of old snapshots fails, or `metastore-current` is stored
   by an upload that reports an error, `metastore-current`
   names the new snapshot but `last_upload_seq` stays behind it. If what follows takes
   several logs, the first of them is older than the snapshot it is put beside, and
   a recovery at that moment sets back a key to an older value. `SettledIsCommitted`,
   `UploadedIsRecoverable` and `RecoveryKeepsWrites` except just this, a current snapshot that was
   given up; so they hold with all these failures, and are what is left of the promise.
2. `replay_covered`: a failed handle is removed when handles with greater ids cover its range.
   Such a handle need not come from a replay: joining chunks writes one, and so does the
   merge itself. Rows 1 and 3 joined in memory "cover" row 2, whose chunk was lost, and
   row 2 is never read again.
3. `connection_forgets`: `sendAsync` over a socket that is closing settles nothing. The
   handler that moves messages from an earlier socket awaits it, hangs, and the
   messages it had left stay where nobody looks.
4. `cached_outdated`: a result is cached under the refresh key that its task computed before
   it asked the queue, but the queue may answer with a result that it had already, or
   from an execution that had begun. After a change of the data a renew cycle can
   thus cache the old result under the new key, where it stays until the next
   change or until the `renewalThreshold`, by default six hours. (`EventuallyFresh`
   says that nothing but the threshold is needed to get rid of it.)

Other divergences are in the models, without a run of their own, and no property
excludes or hides them:

* After a checkpoint whose files could not be uploaded, logs go into the directory of a
  snapshot that does not exist, and count as uploaded (`last_checkpoint_time` is set
  first, and `snapshot_uploaded` is still true: `metastore/rocks_store.rs:1289-1307`). The test
  `upload_logs_without_snapshots` (`metastore/mod.rs`) rules out logs without a snapshot for
  the first one only. `UploadedIsRecoverable` and `WritesReachRemote` say what holds all
  the same.
* Two `must-revalidate` requests that share an entry may starve each other. Both are told to
  continue waiting, the task of each stores the result under the id of its own request
  (`QueryCache.ts:911-919`), and the last one stays. When the data have changed, the other's next attempt
  finds an entry of another request under another key, which it does not take
  (`QueryCache.ts:1018-1044`), asks the queue again and times out again; and so on for ever, with all
  the fairness above. TLC finds this in the second setting of `query_cache` if `RequestsEnd` says
  no more than `[]<>~Waits(r)`. What holds is that nothing else keeps a request waiting: it ends, or tasks
  of other requests get results again and again (`OthersGetResults`). A client that is
  alone with its query always gets its answer.
* A request with `no-cache` looks at no entry, only at results left in the queue. When its
  attempts time out and the results are taken by the renew cycles or by the tasks of
  earlier attempts, it may go on for ever (`Forced`, `RequestsEnd`).
* When a query fails late, `Store` removes whatever entry is there, also one that another
  task has just stored (`QueryCache.ts:941`).
* The cancel handle in a row is a counter of the process that wrote it, but is looked
  up by whichever process removes the row (`QueryCache.ts:713-717`; `extra` and
  `counter` of `QueryQueue`): an unrelated query may be cancelled.
* `concurrency` bounds active rows. A query that timed out, or whose row was cancelled
  elsewhere, runs on (`exec[i].query`) while its slot is given away.
* A repeated `QUEUE ADD` refreshes nothing, so that a query that is asked for all the time
  is orphaned at a fixed age. The rows to cancel are read, and then cancelled by id
  whatever became of them (`recon[n].todo`): one of them may be active by then.
* An ingestion that fails after its replay handle was written leaves a handle without
  chunks, which counts as persisted: the next stream starts behind rows that nobody
  has (`IngestFails`; `streaming/mod.rs:348-402`). `RowsKept` excepts what happens after
  such a failure.
* An orphaned compaction that goes on while its successor finishes, and while its partition
  is deleted as a middle man, creates children under a partition that is gone: nobody looks
  (`CreateChildren`; `store/compaction.rs:564-602`). The comment at `metastore/mod.rs:2966` reports
  missing parents. `TreeIsWhole` says how far this goes: such children are never filled.
* An orphaned compaction that goes on while its successor finishes may find the file
  of its partition removed, and then deactivates a table that is in order
  (`DownloadFails`). `StaysReady` is therefore only about runs without failed or orphaned jobs.

## 4. Proofs

`CacheQueueProofs` proves, for every value of the constants that satisfies
`CacheQueueAssumption` (any paths, processes, readers, number of rows, concurrency,
timeouts):

| Theorem | States | Argument |
|---|---|---|
| `TypeCorrect` | `[]TypeOK` | inductive; `NextTypeOK` goes through the actions, `ReturnType` factors the three ways a request ends |
| `RowPerPath` | `[]OneRowPerPath` | inductive over `TypeOK`: `StepOnRows` says a step adds at most one row, to a path that had none |
| `ConcurrencyIsBounded` | `[]ConcurrencyBound` | inductive over `TypeOK`: `StepOnActive` says a step makes at most one row active, and then there was a free slot |
| `ProvenanceHolds` | `[]Provenance` | inductive over `TypeOK`: results, the outbox and heard events come from acknowledged rows, and those never change status again (`StepOnEnded`) |
| `AnswersAreAcked` | `[]AnswerIsAcked` | not inductive: a request is answered from a result row or from an event, and nothing in `AnswerIsAcked` says what those may be. `Provenance` is the strengthening. |
| `WakeupsAreNotLost` | `[]NoLostWakeup` | inductive over `TypeOK` and `Provenance`: a request starts to wait only after it found no result, and a result that appears later puts its event into the outbox |

The `StepOn...` lemmas say what any step does to one part of the state, so that an
invariant's proof deals with a few kinds of change instead of two dozen
actions.

`CacheQueueRefinement` proves `StoreImplementsJobQueue`, `Spec => ImplementsJobQueue`,
under the same assumption. `InitMaps` and `NextMaps` say that an initial state and
every step of the store are an initial state and a step (of a job, or of a caller) or
a stutter of `JobQueue`. The step needs `TypeOK`, `Provenance` (the answer given is the
outcome of a job that has finished) and `OpenUnanswered` (a request that is still open
has no answer yet), which is proved there.

`QueryQueueProofs` proves, for every value of the constants that satisfies both
`CacheQueueAssumption` and `QueryQueueAssumption` (any callers, any processes that crash,
fail and cancel):

| Theorem | States | Argument |
|---|---|---|
| `QueueInvariant` | `[]QInv` | inductive, over what is proved of the store. `CallOfRow`: a call that is under way uses the id of the row it retrieved, which is never pending again. `CallersHaveRows`: a caller that has added its query knows a row that was born. `LateCallersAreAwaited`: who came during a pass is awaited by a chain with `reconcileAgain` set |
| `QueueTypeCorrect`, `LeasesAreHeld` | `[]QTypeOK`, `[]LeaseHeld` | parts of the invariant. `StepOnCalls` says what a step does to one call and its row: the row becomes active when the call starts, and is active no longer when the call is done |
| `QueriesRunAtOwner` | `[]RunsAtOwner` | from `CallOfRow`: retrieval goes by path, so the row retrieved has the owner of the row listed |
| `ResultsAreOwn` | `ResultFromOwnCall` | with `CallOfRow` an acknowledgement names a row, not a path, and by `KeysFindTheirRow` reaches that row or none |
| `LateCallersAreServed` | `ReconcileServesLateCallers` | a pass releases its callers when `reconcileAgain` is not set, and then `LateCallersAreAwaited` leaves none that came late |
| `QueueUsesStore` | `QSpec => Spec` | `StepIsStoreStep`: whatever a process does, the store takes one of its own steps or none. That a blocking read names a row that was born, and that heartbeats and acknowledgements name ids, needs the invariant |
| `QueueImplementsJobQueue` | `QSpec => ImplementsJobQueue` | the one before with `StoreImplementsJobQueue`: the refinement that TLC checks on the store holds of the whole |

`RocksStoreProofs` proves, for every value of the constants that satisfies
`RocksStoreAssumption`:

| Theorem | States | Argument |
|---|---|---|
| `TypeCorrect` | `[]RTypeOK` | the positions are within the database only if what the upload loop has in hand is: `InHand` is the strengthening |
| `CurrentStaysComplete` | `[]CurrentIsComplete`, if `Operator \subseteq {"complete"}` | `SnapshotsInOrder` is the strengthening: no snapshot is newer than the last checkpoint, and one whose upload just ended is complete and still there when `metastore-current` is written. That a deletion spares it is `LastCheckpointKept`: of the stored snapshots the newest is kept, whatever `MinSnapshots` is |
| `RecoveryInvariant` | `[]RecoveryInv`, if `SafeFaults` | inductive, one lemma per part. `UsableIsWhole`: a snapshot that a recovery may have to use and the logs beside it tile one history, whose content the store once had. `CheckpointFits`, `LogFits`, `UploadsFit`: what is being uploaded is a piece of the local history, and continues what is in remote storage, up to `last_upload_seq` or one log further, when an upload seemed to fail. `HistExtends`: a process has applied all that a recovery would. `ReplayFits`: a recovery has applied the logs up to the last it read and no other |
| `RecoveryStaysCommitted` | `[]SettledIsCommitted`, if `SafeFaults` | `UsableIsWhole` of the current snapshot |
| `UploadedStaysRecoverable` | `[]UploadedIsRecoverable`, if `SafeFaults` | `UploadsFit` while the process is idle or uploads a log, `CheckpointFits` during a checkpoint |
| `RecoveryNeverLoses` | `RecoveryKeepsWrites`, if `SafeFaults` | from the invariant, action by action: only a log, and `metastore-current`, change what a recovery finds, and by `UploadsFit` and `HistExtends` they only add to it |

What a recovery applies is defined by counting, not by recursion: `Recovered(s, L)` has at each
place the write with that many writes before it in the order of the logs' names. Therefore
`RecoveredIs` (logs that tile a history, applied in order, give the history) needs no induction
over the logs, only the cardinality of an interval. `RecoveryInv` leaves room for one log more
than is counted, because an upload that reports a failure may have stored its log; the next
upload replaces it by one with the same name that is no shorter (`LogUploaded`).

The assumption of `CurrentStaysComplete` on `Operator` is needed: `set_current_snapshot` accepts
any directory that has a file, and TLC shows that choosing an incomplete one breaks the property.
`SafeFaults` leaves the failures of logs, files, `metastore-current` and deletions, with and without
effect, and crashes with and without the disk. Each thing it excludes breaks one of the three
properties on an instance like that of `rocks_store`:

* a crash during recovery after which the local directory is kept and taken for whole: the hazard at
  `rocks_fs.rs:432`, breaks `RecoveryKeepsWrites`;
* an operator who chooses an incomplete snapshot, breaks `UploadedIsRecoverable`.

Snapshots that were given up need no hypothesis: the properties except them while they are
current, and the invariant says nothing of their logs. Once a later checkpoint or an operator
replaces them, everything holds again, and the proof shows that.

`ReplayProofs` proves, for every value of the constants that satisfies
`ReplayAssumption` (any partitions, any assignment of rows to them, any number of
rows, handles and restarts, any subset of the faults):

| Theorem | States | Argument |
|---|---|---|
| `ReplayInvariant` | `[]Inv` | inductive. Its parts say of each chunk, of the batch in flight, of each compaction and of the merge in hand how its rows relate to the range of its handle (`ChunkOK`, `BatchOK`, `WorkOK`, `MergeOK`); `Lossless` says that there is a frontier: a row before which every row is stored or in the range of a failed handle, and which the ranges of the other handles, and the stream, do not pass |
| `ReplayTypeCorrect` | `[]ReplayTypeOK` | part of the invariant |
| `ReplayRowsKept` | `[]RowsKept` | a row behind the frontier that is not stored is in the span of a failed handle, which `initial_seq_for` subtracts from the right, leaving its start |
| `ReplayLossIsRecorded` | `[][...]_vars` | a chunk is dropped only after its handle was marked, and joined or flushed chunks keep their rows |
| `ReplayMergeKeepsStart` | `[][...]_vars` | the merged range ends no later than the union of what it replaces, less what failed |

`PartitionsProofs` proves, for every value of the constants that satisfies
`PartitionsAssumption` (any keys, any assignment of them to batches, any workers, any
number of partitions, chunks and faults):

| Theorem | States | Argument |
|---|---|---|
| `InvariantHolds` | `[]IInv` | inductive, one lemma per action. TLC checked each part of it on the instance of `partitions` before it was proved |
| `TypesHold` | `[]PartitionsTypeOK` | the invariant knows more: which kinds of ids each kind of job holds |
| `RowsReadOnce` | `[]RowsOnce` | `ReadOnce`, which has no cardinalities: a set with one member has one member (`FS_Singleton`) |
| `RangesAlwaysTile` | `[]RangesTile` | `Tiled`, `PartsFit` and `ChunksFit` |
| `TreeStaysWhole` | `[]TreeIsWhole` | `ParentsExist` with `Lost`, `ChunksFit`, and `Settled` for what a plan names |
| `TableStaysReady` | `[]StaysReady` | `Faultless` |

`RowsOnce` and `RangesTile` depend on every step of every job, stale ones included, so the
invariant says what a job may still find when it resumes:

* A partition is `Settled` when no compaction has still to fill it. Its bounds and rows stay,
  even after it was replaced, so that a stale compaction of it reads what the first one
  read, and does not pass `MayReplace`.
* `CompactionFits` and `PlacementFits` tie a job's `new` and `plan` to its `of` and `old`: a
  plan holds each row of the input once, in pieces that tile the bounds of the partition
  (`Split`), and what the job created is its own, not yet active, and never older than the job
  (`seen`, `kept`): that is why the collector, which deletes by age, takes none of it.
* `JobsApart`: no two jobs share what they created, and no batch is imported twice.
* `IdsInOrder` makes a parent older than its children (`ParentsExist`), so a partition that goes
  with its ancestors inactive leaves no child behind. But a job that outlived its row
  may create children under a partition that is gone: these are `Lost`, and the
  invariant says that no compaction will fill them, since its swap finds its partition not active.
* `Faultless` is about runs without failed or orphaned jobs only: one job compacts a
  partition, and it stays active until that job swaps it.

`Split` is where a key of the input becomes a bound. `SplitShares` shows that its two
pieces share the keys and the rows, `ChildrenTake` that children taken in the order
of their ids get all pieces.

`ConnectionProofs` proves, under `ConnectionAssumption` (any number of messages, sockets
and failures), first what the server promises whatever the client does, then what holds of both:

| Theorem | States | Argument |
|---|---|---|
| `ServerInvariant` | `[]ServerInv` | inductive: a run in progress belongs to the entry of its message (`RunsKnown`), a result that is being sent is the one that is kept (`KeptIsSent`), and a result is spent unless its run still goes on or the entry keeps it (`SpentUnlessKept`) |
| `ConnectionRunsAlone` | `[]RunsAlone` | `RunsOnce`: an entry that is being processed has one run |
| `ConnectionReruns` | `RerunsOnlyIfSpent` | a run starts only where there is no entry, and then `SpentUnlessKept` leaves nothing unspent |
| `ConnectionInvariant` | `[]ConnectionInv` | inductive: `ServerInv`, `ClientInv`, and `AnswersOnce`, which relates the two. TLC checked each part of it before it was proved |
| `ConnectionTypeCorrect` | `[]ConnectionTypeOK` | `SocketsType`, `CurrentIsLive`, `MovingFits`, `OnTheWayType` |
| `AnswersAlwaysExpected` | `[]AnswersAreExpected` | `AnswersOnce` |

`AnswersOnce` says of each socket that is not closed and each message that was sent over it:
it became at most one thing, a request, a sender in the entry or in one run, or
an answer; and as long as there is one, the message waits in `sentMessages` of that socket. A second
answer would find nobody. So the message must not be sent over one socket twice, although
queries, close handlers and retries all send, and this is what `ClientInv` is for:

* `CurrentIsLive`: of all sockets only the current one is in use, so that everybody sends over the
  same; `NothingSentBefore` and `AwaitingFits`: who waits for a socket to open has
  not sent yet.
* `MovedOnce`: a message that is still to be moved is on no socket that is not closed, and one close
  handler has it, although the messages of several closed sockets may be moved at once,
  each by its own handler, and the next socket may close while they do.
* `Asked`: what was never asked waits nowhere.

`LeastExists` (the next message to move, and the next socket) takes well-foundedness of `<` on the
naturals from the library.

`QueryCacheProofs` proves, for every value of the constants that satisfies
`QueryCacheAssumption` (any clients, modes, versions, tasks and faults):

| Theorem | States | Argument |
|---|---|---|
| `CacheInvariant` | `[]Inv` | inductive. `CallsFit`: a client that has asked awaits one task and the others none, whatever tasks of its earlier attempts and renew cycles are still under way; `OneOfEach`: one row, one result left in the queue, one entry |
| `CacheTypeCorrect` | `[]QueryCacheTypeOK` | the invariant without cardinalities |

Checked by TLC only: the liveness properties (liveness under fairness and `ENABLED` are out of
the prover's reach), and the properties of the runs that expect a violation, which do not hold.

## 5. What the models leave out

* `QUEUE RESULT` by external id, `skipQueue`, reports of the queue's state, shutdown,
  the content of streams and of results.
* A restart of the store under the queue. `CacheQueue` never goes back to an earlier
  state; `RocksStore` says which states a restart may bring back, for any database, and
  the two are not composed.
* Of `RocksStore`: the size of a batch (a log holds `LogLimit` writes), retention of the
  write-ahead log by RocksDB, log files that cannot be read (the code stops the
  recovery there), dumps, a clock that goes back, and a crash in the middle of a
  deletion (which leaves what a failed one leaves).
* A disk kept by a crash in the middle of a recovery. The next start then opens
  whatever is there as the database (`recoveryKept`; a directory without files is an
  empty database). With it `RecoveryKeepsWrites` fails, because
  `load_from_remote` only asks whether the directory exists. The action is there and
  no passing run takes it.
* The cancel message of `processCancel` has no reply that anything waits for; it is
  part of the step that sends it.
* A `processQuery` call also awaits the reconcile chain it starts at its end; nothing
  follows that await, so it is not tracked.
* The client of the queue never acknowledges without a result; the store's command
  allows it, and `CacheQueue` has it.
* Of `Replay`: several locations and indexes, seals, other offsets, the age and size by
  which compaction chooses (any choice is allowed), splits of partitions under a
  stream. The error of `swap` that its source is not active cannot occur with one
  compaction per partition.
* Of `Partitions`: multi-partitions and their splits, in-memory chunks,
  `deactivate_chunks_without_partitions`, aggregating and unique-key indexes, the lifetime of files that
  a running query has open, an `INSERT` that takes longer than `import_job_timeout`.
* Of `Connection`: messages without `connection_id`, uploads, a full channel, the
  wrong-connection reply (only tests close a connection on the server), the hour after which an
  unfinished message is dropped, the error event of an open socket (a close
  follows).
* Of `QueryCache`: several refresh keys, the entries and rows of the keys themselves (see
  above), `backgroundRenew`, persistent and external queries, cycles of a
  `scheduledRefresh`, and several queries, which share nothing but their refresh keys.
* `startQueryTime` and the other fields merged into `extra` are only shown in reports.
* Components with status `not_modelled` in `PROJECT.json`, each with its reason.

## 6. Plan

In order of importance; a module with proofs has no RECURSIVE operator.

1. *Done*: `JobQueue`, `CacheQueue`, `QueryQueue`, the safety theorems of the store,
   its refinement of `JobQueue`.
2. *Done*: `RocksStore`, all its safety properties as theorems.
3. *Done*: `Replay`, all its properties as theorems; `Partitions`; `Connection`, its
   safety properties as theorems; `QueryCache`, its type invariant as a theorem.
4. *Done*: the safety properties of `QueryQueue` as theorems, and that it implements `JobQueue`.
5. `LocalQueue`: the in-memory driver, with its processing locks, as a second
   implementation of `JobQueue`.
6. *Done*: all invariants of `Partitions` as theorems. Left: multi-partitions, which split
   several indexes at once.
7. `PreAggregations`: version entries and orphaned tables, with the queue as in
   `QueryCache`, so that its state space stays small.
8. The worker pool, cache eviction, the refresh rotation: small models, each with the
   one property that matters.

Runs are budgeted for this: one for each distinct question, with one or two actors of a kind.
