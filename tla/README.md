# A TLA+ model of expo-lite-data-store

expo-lite-data-store is a document store for React Native: tables of JSON
records, kept in files of the application's sandbox (or in SQLite), with
indexes, a cache, transactions, background synchronisation and encryption.
This directory holds TLA+ modules that model its core, the TLC configurations
that check them on small instances, and proofs that TLAPS checks. Paths below
are relative to the repository's `src/` unless they start with `docs/`.

Everything runs in one JavaScript thread, so the difficulty is not in memory
races but in what may happen at each `await`: another call runs, a timer fires,
a filesystem call fails or reports its deadline although it took effect, or the
process is killed.

    tlasany FifoLock.tla                                  parse
    tlc -workers 2 -config WriterLock.cfg MCWriterLock    model-check
    tlapm TransactionsProofs.tla                          check the proofs of a module

## Inventory

| component (source) | state it keeps | operations | what makes it correct |
|---|---|---|---|
| path and table locks (`core/file/FileHandlerBase.ts`, `core/meta/MetadataManager.ts`, `core/data/DataWriter.ts`) | static map key -> promise tail; per DataWriter a slot counter and a queue | acquire with a deadline, release | exclusion and FIFO order although callers give up; no leaked tail; no lost slot; every call ends |
| single-file table (`core/file/SingleFileHandler.ts`) | primary, `.tmp`, `.bak`, `.bak.tmp`, commit marker and its `.tmp` | read, write, append, delete, commit or rollback of a pending write, recovery | the files stand for exactly one generation at any instant, whatever step failed or was the last |
| DataWriter (`core/data/DataWriter.ts`) | the two-part commit of table file and metadata record, index plans | createTable, deleteTable, write, delete, migrateToChunked, count validation | data, count and token become durable, or are rolled back, together |
| metadata manager (`core/meta/MetadataManager.ts`) | cached snapshot, pending mutations, debounce timer, path epochs, metadata file and its backup | load, update, delete, save, getLatest | no durable mutation is lost, managers of one path merge |
| chunked table (`core/file/ChunkedFileHandler.ts`) | chunk files, append journal, overwrite journal and backup with a ready marker | write, append, read, clear, recovery | a journal always tells which set of chunks is complete |
| DataReader (`core/data/DataReader.ts`) | none | stable read, indexed read, count | what is returned was the table at some instant of the call |
| IndexManager (`core/index/IndexManager.ts`) | buckets per index, staged plans | create, drop, stage, apply, rebuild | unique constraints; buckets describe the durable rows |
| cache (`core/cache/CacheManager.ts`, `core/service/CacheService.ts`) | map, LRU list or LFU classes, expiry heap, memory counter, namespace versions, dirty flags | get, set, delete, evict, expire | accounting, bounded memory, no stale namespace |
| transactions (`core/service/TransactionService.ts`) | one transaction: owner, buffered operations, snapshots | begin, add, commit, rollback, runWhenNoTransaction | commit applies all or nothing, once |
| file-system adapter (`core/adapter/FileSystemStorageAdapter.ts`) | initialisation promise | the public table operations | routes to the transaction or to the writer |
| SQLite adapter (`core/adapter/SQLiteStorageAdapter.ts`) | statement chain, transaction depth | the same operations in SQL | statements of one call are not mixed into another's transaction |
| auto-sync (`core/service/AutoSyncService.ts`) | timer, running flag, deferral counters | sync, start, stop | a dirty entry is clean only when its value is durable; a dirty record is written although other entries cannot be |
| task queue (`taskQueue/`) | priority queue, running set, retry timers | add, process, retry, stop | each task ends once, at most so many run |
| encryption (`core/EncryptedStorageAdapter.ts`, `utils/crypto*.ts`) | key promise and generation, write locks per table, cached tables | the table operations | read-modify-write of a full-table envelope is atomic |
| API layer (`expo-lite-data-store.ts`, `core/api/`) | token buckets, table policy locks | facade of all of the above | limits hold; policies do not change under a running call |
| storage root (`utils/PathHelper.ts`) | current root, initialisation promise | initialise, migrate, switch folder | nobody gets a root that is not ready |
| query engine, sorts (`core/query/`, `utils/sortingTools.ts`) | none | filter, sort, paginate | the result is the reference's |
| configuration, cryptography, monitoring | values | | not concurrent, or out of reach of a model checker |

How they interact: the facade calls the (possibly encrypted) adapter; the
adapter buffers the call in the transaction or hands it to DataWriter or
DataReader; DataWriter takes the table lock and a slot, and drives a file
handler, which takes the path lock, and the metadata manager, which takes the
lock of the metadata file; indexes are staged before and applied after the
durable step. Auto-sync and the task queue enter at the adapter from timers.

The hard parts are listed one by one, with their lines, under `hazards` in
`PROJECT.json`.

## Modules

| module | models |
|---|---|
| `FifoLock` | the promise-tail lock with its deadline |
| `WriterLock` | the table lock of DataWriter: FifoLock plus the operation slots |
| `AtomicTable` | abstract specification: a table is one atomic value |
| `SingleFileStore` | single-file publication, recovery and the two-part commit with metadata; shown to implement AtomicTable |
| `ChunkedStore` | chunks with append and overwrite journals, migration and recovery; shown to implement AtomicTable |
| `MetadataFile` | the snapshot file, its backup, several managers, saves, loads and the debounce timer |
| `SqliteChain` | the SQLite adapter: statement chain, explicit transactions, table creation and deletion; shown to implement AtomicTable for calls made one after the other on tables that exist |
| `Transactions` | TransactionService and the routing of both adapters, with plain writes, table changes and AutoSync writes beside it |
| `QueryEngine` | filters, LIKE, sorts, pages and update operators as operators |
| `ReadPath` | DataReader with metadata identities, query cache and index, beside one writer; uses QueryEngine |
| `Cache` | LRU and LFU, memory limit, expiry heap, chains of getSafe |
| `AutoSync` | the synchronisation of dirty cache entries, beside clients of cache and tables and transactions |
| `EncryptedStore` | facade, encrypted adapters and master keys over an atomic engine |
| `ApiGate` | token buckets and the requests that pay them |
| `TaskQueue` | priorities, races with a timeout, retries, stop, clear and restart |
| `LockAndCacheProofs` (FifoLock, WriterLock and Cache), `TransactionsProofs`, `GateAndQueueProofs` (ApiGate and TaskQueue), `SingleFileStoreProofs`, `ChunkedStoreProofs`, `AutoSyncProofs`, `SqliteChainProofs`, `MetadataFileProofs` | proofs for any values of the constants |
| `MC*` | the model values and scopes of the runs |

How they compose. `WriterLock` extends `FifoLock` and is proved to implement
it; `SingleFileStore`, `ChunkedStore` and `SqliteChain` implement `AtomicTable`;
`ReadPath` extends `QueryEngine`. Above an `AtomicTable` an access to a table is
one step: that is what `Transactions`, `AutoSync` and `EncryptedStore` rely on.
`AutoSync` relies on what `Transactions` shows of `runWhenNoTransaction`, and
`MetadataFile`, `SingleFileStore`, `ChunkedStore` and `ReadPath` on the
exclusion of `FifoLock`.

*Scopes.* Several modules have one configuration whose behaviours begin in
different ways: a constant set `Scopes` of records (what exists, what the calls
do, the bounds), one of which `Init` puts into the variable `scope`. The `MC`
modules name each scope and say what it is for, those of the divergences below
included.

### FifoLock and WriterLock

A *ticket* is one call of `acquirePathLock`, `withMetadataPathLock` or
`acquireLock`; the three functions have the same shape and differ in their
deadline. `Arrive` is the synchronous part (read the map, publish a tail),
`Enter` and `Timeout` are the two outcomes of the race against the timer,
`Release` the release callback, `SettleTail` the promise `previous.then(() =>
gate)` and `CleanTimedOut` the callback with which a call that gave up removes
its tail. Microtasks are separate actions: between the release of the lock and
the wake-up of the next caller anything may happen. The timer may fire at any
moment, which abstracts every deadline.

`WriterLock` adds `acquireOperationSlot` and `releaseOperationSlot`. The table
lock is static, the slots belong to an instance, so two instances are modelled.
`SlotSpec` refines `Spec` of `FifoLock` (property `ImplementsFifoLock`, with
the variables of `FifoLock` mapped to themselves).

### SingleFileStore

The state is the six files of a table, the durable metadata record (`meta`),
the manager's view of it (`cache`, `dirty`) and one program counter: the table
lock and the path lock let one operation at a time touch the table. Every
filesystem call of `performRecoverableWrite`, `publishCommitMarker`,
`rollbackMarkerGeneration`, `cleanupRecoveryArtifacts`, `restoreBackup`,
`commitPendingWrite`, `rollbackPendingWrite`, `purgeTableArtifacts` and of the
metadata saves in `createTable`, `deleteTable`, `write`, `delete` and the count
validation is a step. A step succeeds, fails without effect, takes effect and
reports a failure (`withMutationTimeout` after the deadline, or a save whose
stale-backup removal failed), or leaves a torn file; a kill may come between
any two steps or in the middle of a write. Deletions of
`purgeTableArtifacts` may also be abandoned at their deadline and land later.

Contents are model values: the SHA-256 of the envelope is the identity of the
content, `CountOf` its number of records. Tokens are fresh numbers.

`View` is the content the durable state stands for, that is what the recovery
of a restarted process makes of it; where recovery fails closed it is what
remains for manual restoration. `acked` is a history variable: the contents
that a client may legitimately observe. A write that reports an error after a
complete rollback must leave the old content; one whose outcome is unknown
leaves both.

### SqliteChain

The adapter has one connection. `enqueue` puts a statement behind the promise
chain, `withSqlTransaction` a whole `BEGIN`..`COMMIT`; both go ahead at once
while `sqlTxDepth > 0`. A call is a list of `sqlWrite`s (`Write`), and each of
them is either nested in a transaction that is open or has one of its own.
`Enter` is the call of `enqueue`, which bypasses the chain or joins it
(`Bypasses`); `StartTask` is the head of the chain that begins to run, with
`BEGIN` when the task is a transaction; `DeleteRows`, `SelectNextId`,
`InsertRow`, `CountRows` and `ReadRows` are statements; `Commit`, `Rollback`
and `EndTask` close the transaction and reset the depth; `Publish` writes the
record count to the metadata. `db` is what statements see, `committed` what a
`ROLLBACK` returns to. A commit of the transaction service is a task whose
writes enter one by one while its transaction is open.

Abstracted: the rows carry the call that wrote them instead of a payload; a
statement that touches a single row is not told apart from one that rewrites
the table; a `ROLLBACK` that fails has nothing to undo, since SQLite then has
rolled back already. A kill is not modelled: SQLite's own recovery makes the
open transaction vanish, and a count in the metadata that a kill left behind is
recomputed from the rows.

`AtomicTable` is instantiated with the pair of rows and count of every table,
as seen between calls. The refinement is claimed for calls made one after the
other (`Mapped`), and not for

* calls that overlap, for which it is false (see Divergences);
* a `BEGIN` that may fail, which leaves the depth at 1 and the later writes
  without a transaction (see Divergences);
* calls that create a table (`NoneCreated`): `CREATE TABLE` and its metadata come
  before the rows and outside of their transaction, so a write to a new table
  shows it empty first and leaves it so if it fails, and a creation whose
  metadata cannot be saved removes the table again by a statement that may fail.

What is claimed of these is that the chain makes progress and closes what it
opens, and, of calls that do not overlap, that a success has had its effect.

### Transactions

A client is one chain of calls on an adapter; `Owner` gives the transaction
identity that its adapter was created with. `Ask` is the synchronous start of a
call: `assertTransactionAccess` and the choice between the transaction, the
table and the start boundary. `Begin`, `StartGuarded` and `Guarded` are
`beginTransaction` and `runWhenNoTransaction` behind
`atTransactionStartBoundary`. `View`, `Project` and `Snap`, `Add` are
`getCurrentTransactionData` and the snapshot with `addOperation`; `Fetch`,
`Fetched` and `Put` are the adapter's `update` and mixed `bulkWrite`, which read
the table first and choose again later; `Direct` is a plain access. `Replay`,
`EndReplay`, `Finalize`, `Restore`, `EndRestore` and `Finally` are the parts of
`commit`, with the snapshots it restores when it fails. Between two of these
steps is an await, where any other client goes on.

`commit` iterates over the array that the service holds. The local field `list`
remembers whether that array is still the service's: then an operation that is
added meanwhile joins the iteration; after `resetTransactionState`, which makes
a new array, it does not.

Abstracted: an access to a table is one atomic step, which is what
`SingleFileStore` and `SqliteChain` are about; so the replay of one operation,
including the file adapter's read and write for an update, is one step, and so
is the publication of the staged view after it. Rows are numbers, a filter is
equality with one of them. Caches, write options and the copying of records are
left out; so is the difference between a write and an overwrite in the counts
they report. In `hist`, a history variable, `to` is the tables as the accepted
operations are to leave them.

### ChunkedStore

The state is the table directory, its backup with the ready marker, the two
journals, a single file that may be migrated, and the metadata record as in
`SingleFileStore`. One call stack (`op`) stands for the nested functions:
`RecoverAppend` and `RecoverOverwrite` are the recoveries that every access
begins with, `AppendFiles`..`AppendMeta` an append between journal and metadata,
`OverwriteFiles`..`OverwriteMeta` move the old chunks away, write, mark and
commit; `MigrateFiles`, `MigrateMeta`, `Purge` and `TableMeta` are DataWriter's
part. `Call` gives a filesystem call its outcomes. A chunk is a value with a
number of records. The cache of chunks is left out, as are `clear()` and
`delete()` of the handler, which nobody calls.

### MetadataFile

A call goes from one await to the next. `Mutate` is `update` or `delete` of a
table with its timer, `Save`..`Publish` are `save` and `flushDirtyState` with
`persistSnapshot` under the path lock, `Requeue` puts failed mutations back in
front of newer ones, `StartLoad`..`LoadFailed` is the shared `loadPromise`,
`Latest`..`Refresh` is `getLatest`, `RestoreBackup` the recovery of a lost
primary. Two managers share the file, the lock and the epoch. Two saves of one
manager that both pass the test of `savePromise` in the same turn are excluded
by `Overtaking = FALSE`; see Divergences. A manager is reloaded by one call only,
the initialisation of its adapter (`FileSystemStorageAdapter.ts:389`, once behind
`initializationPromise`), which `CallAssumption` states.

`Move` is the move that makes a flush durable, and `late` remembers, from then
until the epoch advances, that its manager has mutations that are durable
and unsaved at the same time. The flag of a flush that fails after its move stays
set until a later flush of the manager succeeds: what such a flush does is in no
memory described by the epoch. `LatestIsFresh` is about the other times.

### Cache

`s` holds what the object holds: items, LRU list, LFU classes with the minimum,
memory counter, expiry heap (a binary heap with its push and pop, since a wrong
sift loses an expiry). Synchronous methods are single steps; `getSafe`,
`setSafe` and the penetration guard wait for the chain of their key. `looping`
says that the eviction loop finds no victim any more.

### AutoSync

`v` holds the fields of the service and the locals of its one running sync;
`Listed` (with `Grouped`), `ReadTable`, `TryWrite`, `WriteSucceeds`,
`WriteFails`, `Retry` and `Finish` are its parts between awaits. `Grouped` is
what the sync does with the tables it listed: entries of absent tables are left
out, each table gets the first `BatchSize` of its entries, and those of them that
are no records (`Misfits`) take their place in the batch and are left out as
well; all of these stay dirty. `listTables` is refused while a transaction with
an owner is open; without an owner it answers, and `ReadTable` finds what the
transaction staged (`View`). Beside the sync run clients that set and remove
cache entries (`WriteEntry`; `RemoveEntry` stands for deletion, eviction and
expiry), clients that write and drop tables (`Put`, `DropTable`), transactions
of both kinds that commit or roll back, and calls of `stop`, `cleanup` and
`updateConfig`.

Abstracted: whether a key holds a record, a full snapshot or neither is fixed per
key; no table has a name that begins with that of another one and an underscore
(`AutoSyncService.ts:378`); one budget, `MaxEvents`, bounds all that happens to
the service.

### QueryEngine and ReadPath

`QueryEngine` translates the functions under their own names. `ReadPath`
defines, independently, what a query and a write mean (`Reference`,
`RefWrites`, with `RefLike` by recursion on the pattern and sorting by position
instead of merging), and compares. Identities (the metadata object, the version
of a cache namespace, the epoch) are modelled by whether they are still current:
`GotLatest` is `getLatestTableMetadata`. `Stage`..`Return` is a write of the
adapter's own DataWriter with its index plan, `ForeignStage`..`ForeignReturn`
one of another adapter on the same root, `BeginFlush` and `EndFlush` a save for
another reason; a write whose metadata change while a save runs is saved by the
same one, which loops while there are mutations. Columns are homogeneous,
patterns in upper case stand for both.

Abstracted: the choice of the counting sort looks at all rows, where the code
looks at the first 1000 and stops at 50 distinct values (`QueryEngine.ts:366`);
the algorithms that it chooses from are stable and agree on homogeneous columns,
so the choice does not change what is returned.

### EncryptedStore

A row is a value; an item is what is stored: a row with none, some or all of its
fields encrypted, or one envelope of all rows, with the key it was encrypted
with. `Resolve` is the facade: the policy lock of the table and
`resolveTableStorageAdapter`; `TakeKey`, `TakeStrictKey`, `Authorize` obtain
keys, `Turn` is the write lock of the adapter, `Fetch`, `Open`, `Meta`,
`CreateImplicitly`, `Extend`, `Seal` the steps of a read-modify-write, `Make`
and its successors the creation of a table with its compensation (`Asked` adds
the options that the facade's `createTable` adds);
`DeleteAliases`, `NextGeneration` a reset of the keys.

Abstracted: strict keys are provisioned in one step, engine accesses and commits
are atomic, the configuration is fixed per behaviour, entries of the table cache
expire at any time, and a read takes the metadata and the items of its table
together, though there is an await between them (`EncryptedStorageAdapter.ts:1053`).
The step between would show a table that is dropped and created again under
another policy by a rival, which direct adapters could do and facade calls, with
the policy lock, cannot. Excluded: calls of a transaction's own surface on its tables
while it ends, and tables that direct adapters create with keys made at the same
time; see Divergences.

### ApiGate

Every method is synchronous up to the storage call, so a request is one step:
validation, cost, `check`, refill. Time is counted in units of which `Period`
make a token; the refill is an exact quotient, where the code computes
`Math.floor((elapsed / 1000) * rate)` in floating point (`RateLimiter.ts:98`) and
may be a token late. `since` and `spent` watch the code from an arbitrary moment
(`Watch`): `RateIsKept` is about every interval, not only those that begin with
a full bucket.

### TaskQueue

A task is in the queue, in a race of its processor with the timeout (`racing`),
or in a retry timer. `left` are processors that outlived their timeout. `Stop`
polls until nothing runs and may time out; `lost` and `forced` record what stop,
clear and cleanup give up. Callbacks do not call the queue.

## Runs

| run | bounds | shows |
|---|---|---|
| `writer_lock` | 4 calls, 2 tables, 2 writers with 1 slot | nobody is overtaken although calls give up, no leak, exact slot counter, no lost wake-up, every call ends |
| `single_file` | 3 contents, 3 tokens, 1 fault, 2 kills; tables of older versions; 1 abandoned deletion | the table is an atomic value, its durable count describes it, acknowledged writes survive, reads return the durable generation |
| `chunked` | 3 operations, 3 chunks, 1 fault, 2 kills, old journals | the table is an atomic value, reads return it, its record counts it |
| `metadata` | 3 calls and a timer through 2 managers, 3 mutations, 1 fault, 1 kill | the snapshot stays readable, no mutation is undone or forgotten, success means durable, waiting calls end |
| `sqlite` | 4 calls of different kinds, 2 faults, with and without a drop; create, drop, append, create of one name with failing `BEGIN`; 3 overlapping calls | calls made one after the other on tables that exist are atomic in committed rows and counts, success is exactly the outcome, a transaction is closed by the task that opened it, nested statements never wait behind it |
| `transactions` | file engine: 1 client, 7 calls, 2 faults; SQLite engine: 3 clients of 2 identities, 5 calls, 1 fault | commit and rollback are all or nothing, a client reads its own writes, table changes and AutoSync stay outside, nobody adds to a foreign transaction, every call ends |
| `read_path` | 15 small tables with about 70 queries and 11 operations; 11 cacheable queries of one table two by two; 2 reads beside 2 writes, failing, migrating, foreign | a read is a snapshot that was current during it, the index agrees with the table, writes do what they mean, reads end |
| `cache` | 3 keys, 2 sizes, LRU with and without memory limit, LFU; 3 calls of getSafe and its relatives | counter, lists, heap and limits agree, one fetch per key at a time, calls end |
| `auto_sync` | 2 tables, one of which is dropped and written; 4 entries, one of them no record, one a snapshot; batches of 2; 2 calls; 4 events in all (writes and removals of entries, table changes, transactions, failing calls, calls of the service) | marks go only for stored records, nothing is written in a transaction or after cleanup, calls return, and records drain unless their table is gone or a batch of entries that are no records stands before them |
| `encrypted` | 3 clients, 2 tables, 2264 scopes: creation, transactions, direct adapters, resets, first keys, endings | protection is what the table declares and what was asked for, nothing is lost, reads are right, keys match, calls end |
| `api_gate` | 2 clients, 1 bucket of their own and the shared one, 3 configurations, 7 units of time | the rate holds in every interval, buckets are bounded, retryAfter is enough |
| `task_queue` | 3 tasks of all kinds, 1 slot, 2 calls of stop, clear and cleanup | a task is in one place, its caller hears of its end once, slots are the races, tasks end |

The type invariant of a module is checked as the first conjunct of its
`Consistent`, with the invariants that relate the redundant parts of its state.

Why the bounds are enough. Three tickets on one key are needed for a call that
gives up between a holder and a third call; the fourth and the second key let
slots and tables block each other crosswise. Tokens and contents are compared
for equality only: three tokens are a published, a failed and a following
write, and a third content tells "old", "new" and "a mixture" apart. Two kills
are a kill and a kill during the recovery from it. With two faults a metadata
save that was late *and* an undo that fails leave the cached record and the
durable one different; DataWriter reports this state ("metadata recovery is
still pending") and it is not claimed atomic, so these runs allow one fault.

The serial SQLite scope needs four calls to have every kind of write, each
finding what the others left; a second one has a drop of one table beside writes
to the other; two faults are a failure and a failure of its
compensation. Three overlapping calls are the owner of the open transaction, one
that bypasses the chain because of it and one that waits. Seven calls of a
transaction are begin, four operations, commit and one call after it; two
tables, one of which does not exist, tell "restored" from "removed". The shared
scope needs a client in a transaction, one of the same identity that works
outside of it or joins it, and one that must not. `CommitIsAllOrNothing` and
`ReadsOwnWrites` are stated for a single client, since the documents promise no
isolation from plain writes that were admitted before `beginTransaction`, and on
the file engine, because of a divergence about updates on SQLite.

Two managers and three mutations are one mutation merged by another manager, one
that waits and one that fails. Three keys are two that are kept and one that is
pushed out. Queries look at three rows because a comparison has at most two
records to exchange and a third to keep in place. Two attempts of a read and one
more are what two writes can force. In `api_gate` seven units let a bucket be
emptied, refilled in part, forgotten and reused.

Three entries of one table in batches of two leave one behind, and with one that
is no record a batch is written in part. Four events are two dirty entries, a
failing write and a transaction between its retries, or three entries that share
a table and a drop of it.

`CHECK_DEADLOCK FALSE`: the instances stop when calls, tokens, faults and kills
are used up.

Fairness. `FifoLock`: promises settle, a waiting call enters or times out, and
a holder's operation ends (the event loop runs every ready callback, timers
fire; that the operation itself ends is what `withTimeout` around each
filesystem call is for). No fairness for arrivals. The stores: `WF(Step)`, the
running operation goes on because each filesystem promise settles or its
deadline passes. `MetadataFile`: some call goes on; as the calls are finitely
many this is enough. `SqliteChain`, `Transactions`, `EncryptedStore`, `ReadPath`
and `Cache`: weak fairness of the steps of each call, since every access settles
and the event loop runs each continuation. `AutoSync`: the timer fires, a sync
and the calls go on, transactions of others end. `TaskQueue`: the timeout
settles each race, retry timers fire, polls end. Neither faults, kills nor new
operations are assumed to happen, and `ApiGate` claims no liveness.

## Proofs

`LockAndCacheProofs` proves of `FifoLock`, for any set of keys and any number of calls:

* `TypeCorrect`: `Spec => []TypeOK`;
* `NoBypassHolds`, `MutualExclusionHolds`, `NoLeakHolds`.

The inductive invariant `IInv` adds to the type that a ticket's predecessor is
the latest earlier ticket of its key that was in the map, that every ticket
before a settled tail on that key is gone, and that an entry of the map is the
last ticket of its key whose cleaning is outstanding. Exclusion alone is not
inductive: it is the chain of tails that carries the information about callers
two and more places ahead, in particular past those that timed out.
The only assumption is `FifoLockAssumption`.

It proves of `WriterLock`, for any tables, writers, slots and calls:

* `ImplementsFifoLockHolds`: `SlotSpec => Spec` of FifoLock, every step of the
  table lock being a step of the lock or a stutter, and from it
  `TableExclusion`: the theorems about FifoLock hold of the table lock;
* `SlotTypeCorrect`, `SlotsExactHolds`, `NoLostSlotHolds` and, from these and
  `NoLeakHolds`, `ConsistentHolds`, the invariant that the run checks. The
  inductive invariant adds that the queue of a writer lists exactly its calls
  that hold a table without a slot, each once, and that a queue that is not empty
  means that all slots are taken. Without the former a slot that is passed on
  could reach a call that is counted already.

It proves of `Cache`, for any keys, calls, sizes and both strategies:

* `SingleFlightHolds`: at most one loader runs for a key. The map holds only the
  last promise of a chain, so which call a waiting one follows is known to the
  calls alone. The inductive invariant says that they stand in a line for each
  key (`Lined`): some numbering of the calls has each wait for the one just
  before it, the first of a line hold the key and nobody else, and the map name
  the last. A numbering is all that is left of the order of arrival; it exists
  in every state, and is not computed by the code. What the cache holds meanwhile
  plays no part, so eviction, expiry and clearing need not be looked at.

The two components do not meet; what both have is a chain of promises. `Cache`
has names of its own (`CacheSpec`, `CacheConsistent`, `EveryCacheCallEnds`) so
that one module can hold the proofs of both.

`TransactionsProofs` proves, for any clients, identities, requests, tables and
rows, any number of calls and faults, and both engines:

* `GuardedOutsideHolds`: no table change and no AutoSync write is under way
  while a transaction is active. The invariant is `GuardedFirst`: a call whose
  work is under way is the head of the boundary line. `Begin` needs to be the
  head as well, and only the head leaves the line;
* `OnlyOwnerAddsHolds`: nobody but the owner adds an operation, although the
  transaction may have changed while the call was reading the table;
* `SeparatedHolds`, both together, which is what the run checks.

`Shape`, the rest of that invariant, says no more than that calls, service
state and history are records of their fields, which updates with `EXCEPT`
need. Beyond these the module proves, under the same generality:

* `TypeCorrect`: the line at the boundary holds each call that waits or works
  behind it once and no other (`InLine`), a table is snapshotted once, and each
  call is of a kind that may be where it is (`Suits`);
* `ConsistentHolds`, the invariant that the run checks: reads of one client
  inside a transaction see what it has queued. The inductive invariant is `Solo`:
  until the commit the tables are those the transaction began with, the queue
  *leads* from them to the tables it is to leave (`Leads`), and each view that is
  cached is that of these tables. `Leads` says of every table what the rows become
  and whether it comes to exist, because an update or a deletion does not create
  its table while an append of nothing does;
* `CommitIsAllOrNothingHolds`: `Spec /\ Exact => []CommitIsAllOrNothing`. While
  the commit is under way the rest of the queue leads from the tables to those
  that are to be left (`Replays`), and every table that differs from what it was
  is covered by a snapshot (`Covered`), so that a failure at any point can
  restore them (`Restores`). Snapshots are taken when an operation is queued, not
  when it is replayed: that the two agree is what `Queued` carries.

`Exact` is the condition that requests on the SQLite engine contain no update:
there the replay of an update writes the staged view and not the effect of the
operation, and the property does not hold (see Divergences). On the file engine
it is no restriction.

What a queue does to a table is a recursive function, and the library's
induction theorems cannot be instantiated here. The lemmas `SeenExists`,
`AfterAppend` and `AfterFirst` (one more operation at either end) are proved with
least numbers instead (`Least`, from the well-foundedness of `<`): the first place
where two runs through a queue differ is neither the first nor any other.
It assumes `TransactionsAssumption`: there is a client, and no sequence of rows
is the value that stands for no table.

`MetadataFileProofs` proves, for any tables, managers, calls, numbers of
mutations, faults and kills:

* `TypeCorrect`, `SurvivesHolds` and `NoLostUpdateHolds`: the state is well formed,
  a readable snapshot stays readable, and what is durable changes by the mutations
  of the call that has the lock, applied to what is durable at that moment. The
  invariant is `FInv`: which kind of work a call may be doing at each label
  (`Fits`), and which of the four files hold what at each step of the publication
  and the recovery (`Beside`). It is that of one call, the holder of the lock,
  since nobody else touches the files. A kill needs nothing more: what it leaves
  is content of the primary or, if that is torn or gone, of the backup
  (`ContentStep`);
* `~Overtaking /\ Spec => NothingLost`, `[]Consistent` and `SavedIsDurable`
  (`NothingLostHolds`, `ConsistentHolds`, `SavedIsDurableHolds`): all the run
  checks, liveness apart.

These need `Alone`, which says of every manager that the call in `savePromise` is
the one that flushes, that who waits waits for it, and that no load reads while a
flush is under way. That the last holds depends on several calls: a reload saves
first, its load waits for a flush that began meanwhile, and a save waits for the
load. `Alone` is why the unsaved mutations are those of *one* flush followed by
the pending ones, and it is what two saves that overtake each other break.
The freshness of a manager is not inductive either, as its memory is replaced by
what some call has read, several awaits earlier. `Seen` says of such a call that
it has the durable snapshot if its epoch is still the current one. The steps are
then of five kinds: most change neither a memory nor what is durable (`Calm`); a
mutation is queued and applied to the memory alike (`MutateStep`, with `ApplyMore`:
mutations take effect one after the other); what was read becomes the memory
(`AdoptStep`); a move publishes (`PublishedStep`); the epoch advances
(`AdvanceStep`).

`~Overtaking` is a condition and not an assumption: the first three theorems do
without it, and the run of Divergences shows what fails in its absence.
It assumes `CallAssumption`: each call has a manager and a manager one timer and
one reloading call, and the values that stand for no call, no file and a torn file
are none of the others.

`GateAndQueueProofs` proves of `ApiGate`, for any clients, limits, operations and
configurations:

* `RateIsKeptHolds`: in any stretch of time a bucket grants at most its capacity
  and what the rate adds, provided that it fills up within the idle timeout
  (`FillsWhileIdle`). The inductive invariant states this of the bucket as it is
  once it is refilled (`Grants`): its tokens are promised but not granted yet,
  and the part of a token that has passed is still in `last`. A forgotten bucket
  starts again in full, so what it has granted must be covered by time alone;
  that is where `FillsWhileIdle` is needed. The lemmas before it say what a
  refill does, from one fact about division;
* `GateTypeCorrect`, and `GateConsistentHolds`: at most `MaxTracked` buckets, because the
  named ones leave room for the shared one (`RoomInv`), and who waits as long as
  a refusal tells is admitted.

It assumes `GateAssumption`: the operations are those of the API, all with a cost,
and no bucket is the value that stands for none. The two components do not meet;
`ApiGate` has names of its own (`GateSpec`, `GateConsistent`) so that one module
can hold the proofs of both.

It proves of `TaskQueue`, for any tasks, priorities, retries and slots:

* `TypeCorrect`: among other things no task waits in the queue twice;
* `ConsistentHolds`, the invariant that the run checks: a task that has not ended
  is in exactly one of queue, race and retry timer unless stop, clear or cleanup
  dropped it, its caller hears of its end once, and every slot is a race. The
  inductive invariant says of each *place* which tasks are in it (`Placed`),
  not of each task which places it is in: what a step does to one place then
  never disturbs another. A cancelled task leaves the queue by its position, so
  injectivity of the queue is what makes it gone (`CancelTask`).

It assumes `QueueAssumption`: there is a slot, and each task has a priority, a
number of retries and a kind.

`SingleFileStoreProofs` proves, for any contents, numbers of operations, faults,
retries and kills:

* `TypeCorrect`: `Spec => []TypeOK`, for tables of any version;
* `ConsistentHolds`, `ViewAckedHolds` and `ReadReturnsViewHolds`: the three
  invariants of the run, each as `Spec /\ []Calm => []...`;
* `OneFailingCallIsSafe`: `Spec /\ SingleFault => ` the same three. At most one
  filesystem call fails, anywhere, with any number of kills: then the condition
  `Calm` of the theorems before holds;
* `ImplementsAtomic`: under `Calm` the initial states are initial states of
  `AtomicTable` and every step is one of its steps or changes nothing that a
  client can see, that is the safety part of `ImplementsAtomicTable`.

`Calm` says that the table has had commit tokens from the start, that no
abandoned deletion is outstanding, and that a mutation of the metadata which is
still pending belongs to the operation that is running (`Settled`). It is not a
convenience: with two faults, the one of a metadata save and the one of its
compensation, a pending record of a failed operation is saved later by whoever
saves next, and the table changes without a client; DataWriter reports that state
("metadata recovery is still pending"). A deletion that lands after the table was
created again removes it (see Divergences). Tables of older versions have no token
to tell generations apart. All three are left to the runs.

The inductive invariant is `TInv /\ CInv`. `TInv` types each local variable of
the running operation where it is live (`Where`). `CInv` has three parts:
`Durable`, what files and durable record have in common whoever runs (they stand
for one generation, `StandsFor`, and the record counts it); `OpAt`, what the
operation knows of them at each program counter; `DiskAt`, which files exist at
each step of a publication, a rollback and a recovery. It also shows that the
count validation finds nothing to repair in such a table (`pc # "fixCount"`).
`View` alone is not
inductive: that a rollback restores the former generation depends on the backup
that was verified, six steps before, and on the marker naming it. The view is
stated a second time as a function of files and record (`ViewOf`), so that each
filesystem call is one lemma about it; a refinement step is then an equality of
two views.

It assumes `StoreAssumption`: the values that stand for no file, a torn file and
no table are none of the others, and an empty table has no records.

`ChunkedStoreProofs` proves, for any chunks, sizes of the table, batches, journals
of an older version, numbers of operations, failing calls and kills:

* `ConsistentHolds` and `ReadReturnsViewHolds`: the two invariants of the run, each
  as `Spec /\ [][NoFailedUndo]_vars => []...`;
* `ImplementsAtomic`: the safety part of `ImplementsAtomicTable` in the same
  behaviours, that is `Atomic!Init` and `[][Atomic!Next]`;
* `SoundWithOneFault`: with at most one failing call, and still any number of kills,
  all three follow from `Spec`: such a behaviour satisfies `NoFailedUndo`
  (`OneFault`). This is what the run checks, for every size.

The inductive invariant is `Typed /\ Where`. Its core is `Stands(f, m, v)`: the files
`f` under the record `m` stand for the content `v`. There are eight ways: no table; a
single file; chunks that the record counts (`Plain`); chunks and what an append has
written behind its journal (`Appending`); the chunks of an overwrite divided between
the directory and its backup, before the marker is written (`Split`); a complete
backup behind its marker, whatever the directory holds (`Sealed`); and the new or the
former generation of an overwrite of version 1 (`OldTarget`, `OldPrev`). `Agree` says
the same of the durable and the pending record together, and `Where` what holds of
files, records and call stack at each label. `View` is what `Stands` speaks of
(`StandsIs`), so a step of the refinement is the question which content stands
afterwards.

That is not inductive without the call stack. A recovery is entered from a read, an
append, an overwrite, from the handler's catch and from a creation; a version 1
recovery clears the table and calls the append for the former generation, whose own
recovery of a journal comes first. `Ctx`, `Renewing` and `Redoing` say which stacks
there are, and what each of them relies on when a nested function returns or throws.
Where several calls may fail, a record that could not be saved stays pending, and a
later operation saves it along: this is harmless as long as both records stand for
the same content (`Agree`), which is why the invariant is about both.

The theorems are stated under two conditions.

* `Confined` is the configuration of the run. A call that has failed does not take
  effect later (`~LateEffects`), and a table is created empty: both are necessary,
  see Divergences. An older version's overwrite that was interrupted was writing
  something: with nothing to write, a directory that the recovery of the former
  generation has just cleared looks like the finished overwrite.
* `NoFailedUndo`: no metadata save fails that is to take back a failed one
  (`pc` in `mUndoMeta`, `dUndoMeta`, `cUndoMeta`). If the save of a drop fails after
  it became durable and so does the save that takes it back, the table is gone
  from the durable record and present in the pending one, and whichever save comes
  next brings it back, without a client (see Divergences). DataWriter reports this
  state ("metadata recovery is still pending") and the behaviour is not atomic.

It assumes `ChunkAssumption`: every chunk has records, batches are not empty and
fit, the journals of a version 1 have the form of one, and the values that stand for
no file, no journal, no table and a refused one are none of the others.

`AutoSyncProofs` proves, for any tables, keys, calls, batch sizes, retries,
entries that are no records, table changes and transactions of both kinds:

* `TypeCorrect`: among other things that no write exceeds its attempts;
* `ConsistentHolds`, the invariant that the run checks: a cleanup that is the
  only one returns when no sync runs. The invariant is `Quiet`: it has shut the
  service down, so no sync begins, and it is among the waiters of the sync that
  still runs. Of two cleanups that overlap the first to end
  opens the service again;
* `SyncWritesHolds`: a dirty mark is taken away only from an entry whose records
  the table then holds, and no table is written during a transaction. The
  invariant `Sound` says what the locals of a sync mean over its awaits: the
  entries of the batch belong to one table, and the base has the records of each
  full snapshot in the batch (`BaseCovers`), which holds because a table has one
  snapshot key. The cache has one entry for a key, which is why a mark that is
  taken away is that of the entry in the batch, though not of the same value.

It assumes `SyncAssumption`: each key belongs to a table, of which it is the only
full snapshot if it is one, an entry that is no record is no snapshot, and a batch
has room for an entry.

`SqliteChainProofs` proves, for any tables, calls and scopes (which calls are
made, of which kind, what a commit replays, whether calls overlap, how many
statements fail and whether `BEGIN` is among them):

* `TypeCorrect`: among other things that rows map ids to calls, that a call waits
  in the chain once and not while it runs, and that at most one task is under way;
* `ConsistentHolds`, the invariant that the run checks: a transaction is open only
  within the task that opened it, with `sqlTxDepth` at 1, and while no task is
  under way the depth is 0 unless a `BEGIN` has failed.

The bracket is not inductive by itself, because the depth lets calls bypass the
chain and a bypassing call runs the same steps as the call of the task. What keeps
them apart is the place of a call: the call of the task is in a transaction of its
own, in a single statement or in the replay of a commit (`Inside`), and no other
call ever comes to `COMMIT`, `ROLLBACK` or the end of a task (`Outside`). That it
stays so needs, of what a call still has to do (`Sound`), that only a commit has a
replay around its writes, that a replay creates no table, since a failing creation
would end the call in the middle of its task, and that a commit keeps its snapshot
until it begins to restore. `RowsAreSeq` and `SetToSeqIs` say that the rows of a
table have an order and the tables of a commit an enumeration; they rest on an
induction over numbers (`UpTo`).

For the scopes of `Mapped` it proves the safety part of `CallsAreAtomic`:

* `ImplementsAtomic`: an initial state is one of `AtomicTable`, and every step is a
  step of `AtomicTable` or changes nothing that a client can see, for any number
  of rows, calls, operations of a commit and failing statements or saves;
* `SuccessHolds`: a call that reports success has had its effect, and only that.

The invariant is `RInv`, beside the one above. What a client sees are the committed
rows and the counts, and they are what the call found until its `COMMIT` (the
deletion of the metadata, for a drop) and what it is to leave from then on
(`Flipped`). A call that fails before that point leaves the first; one that fails
after it, when the rows are counted, leaves the second. That the flip leaves the right tables needs to know,
in the middle of a transaction, that the rest of the work leads there: a write
that has deleted, or has inserted some of its rows, is completed by those that are
left (`Toward`), which rests on `RowsAppend`, that a row whose id is greater than
all others is the last one; a commit is on the path of tables that its operations
pass through (`OnPath`), and that the path ends at the outcome fixed when the
commit arrived is `ReplayedIsPath`. A commit that fails restores its snapshot
table by table inside its transaction, and the `ROLLBACK` makes all of that void
(`restoring` in `Fits`). Alone on the chain, the statements of the call run in its
own task and within the open transaction (`Holds`).

The assumption, `SqliteAssumption`, is the types of a scope, that there is a call,
and that the mark of an absent table is neither a count nor a list of rows. The
fairness of `Atomic!Spec` and `SuccessIsOutcome` where calls create tables are left
to TLC.

Everything else is model-checked only. Liveness under fairness (`EveryCallEnds`,
`EveryCacheCallEnds`, `Progress`, `EveryTaskEnds`, `EveryReadEnds`, the fairness part
of `ImplementsAtomicTable`) is out of this prover's reach. The accounting of the cache
(`CacheConsistent`) rests on sums over the items and on a binary heap, whose push and
pop are recursions over data; `ReadPath` extends `QueryEngine`, whose recursive
operators the provers cannot take; the invariants of `EncryptedStore` are checked over
its scopes and have no proof yet.
The comparisons of `QueryEngine` with its reference concern recursive operators,
which the provers cannot take.

## Divergences

Where the program does something else than its documents or comments say, or
than a reader would expect, the runs leave the case out and the modules keep it
within reach. For each of these TLC finds a behaviour within seconds or a few
minutes when the named definition is the only property of the named
configuration and `Scopes` (for `Cache`, `Configs`) is the set named; without a
set, the configuration stays as it is. All of them are defined in the module of
the component.

*Files and metadata*

* `ClosedOnlyWithoutBackup` (`SingleFileStore.cfg`): a kill between writing the
  prepared marker to its temporary path and moving it into place leaves a table
  that refuses every later read and write (`SingleFileHandler.ts:250`, `:366`),
  although the primary was not touched yet and a verified backup exists.
  `docs/ARCHITECTURE.en.md:294` promises fail-closed recovery "when no verified
  backup is available".
* `RecoveredCountAgrees` (`SingleFileStore.cfg`): rolling back the first
  tokened write of a table from an older version cannot remove the token from
  the record, because metadata updates merge (`DataWriter.ts:311`,
  `MetadataManager.ts:156`); a kill at that point makes recovery commit the
  rolled-back data under the old count. The refinement of `AtomicTable` leaves
  tables of older versions out for this reason.
* `ViewAcked` (`RecreatedScopes`): `purgeTableArtifacts` abandons deletions at
  their deadline (`DataWriter.ts:190`); one that lands late removes the file of
  a table that was created again under the name.
* `NeverStuck` (`ChunkedStore.cfg`): the cleanup of a committed overwrite backup
  may fail without notice; a kill during a later overwrite then leaves a
  state that recovery reports as corrupted at every access, against
  `README.en.md:174` and `docs/API.en.md:317`.
* `ImplementsAtomicTable` of `ChunkedStore` with `LateEffects = TRUE`: a
  deletion of the append journal that timed out lands after the rollback, and
  with a kill the metadata counts chunks that are gone. With `MaxFaults = 2` a
  table whose drop failed half-way, and whose record could not be put back either,
  comes back with a later save of metadata (`NoFailedUndo` of the proofs excludes
  just that).
  With `CreateData` that is not empty, a kill in the middle of `createTable`
  leaves the table empty.
* `SavedIsDurable` (`MetadataFile.cfg` with `Overtaking = TRUE`): of two saves
  that pass the test of `savePromise` in one turn, the second reports success
  while its mutations are still carried by the first, which may fail
  (`MetadataManager.ts:547`).
* A failed removal of the stale backup after the publication
  (`MetadataManager.ts:505`) leaves the epoch of the path as it was, so other
  managers do not reload, and the flush reports failure although its mutations are
  durable. They are put back and applied once more, which is not always the same:
  a manager that has queued the creation of a table, learns from `getLatest` that
  another one has created it, and deletes it, has a creation and a deletion
  pending; the first application finds the table and deletes it, the second one
  finds none and creates it again. It takes four mutations, and
  `LatestIsFresh` without its condition on `late` shows it.
* Also in the model, where `NothingLost` says what survives them: a kill during
  `restoreBackupSnapshot` (`MetadataManager.ts:351`) leaves a torn primary that
  fails closed; a stale mutation that is put back after a failure may be applied
  over a newer one of another manager; a failed `saveImmediately` (`:516`) arms
  no timer; a first load that fails is
  remembered (`:443`), and every later call fails alike.

*SQLite and transactions*

* `AckedKept` (`SqliteChain`, `FailingScopes`): a call that arrives while another
  call's transaction is open runs inside it, reports success and is rolled back
  with it, against `SQLiteStorageAdapter.ts:62` and
  `docs/ARCHITECTURE.en.md:44`.
* `AllOrNothing` (`SqliteChain`, `StuckScopes`): a `BEGIN` that fails leaves
  `sqlTxDepth` at 1 (`SQLiteStorageAdapter.ts:189`), and later writes run
  without any transaction. The refinement leaves both cases out.
* `CommitIsAllOrNothing` (`Transactions`, `SqliteScopes`): the SQLite adapter
  replays an update on the staged view (`SQLiteStorageAdapter.ts:790`), which
  has the update already; it finds nothing to update, or writes queued inserts
  twice (`docs/API.en.md:555`).
* `OnlyOwnerEnds` (`RivalScopes`): the `finally` of a commit resets whatever
  transaction is active by then, another owner's included
  (`TransactionService.ts:313`, `docs/ARCHITECTURE.en.md:189`).
* `NothingAfterRollback` (`RivalScopes`): a rollback during a commit of the same
  owner succeeds, and the commit goes on writing the discarded operations
  (`TransactionService.ts:263`), against `README.en.md:342`.
* `CommitFlushesAll` (`RivalScopes`): an operation that is queued while a
  commit finalizes is accepted and dropped (`TransactionService.ts:296`),
  against `docs/API.en.md:555`.

*Reads, indexes and caches*

* `ReadIsSnapshot` (`ReadPath`, `OtherTable`): when a manager saves *any* table,
  it adopts the epoch of the path (`MetadataManager.ts:535`) and no longer
  notices a write of another adapter that came before; a cached result of the
  old generation is returned. With no such save an adapter notices foreign
  writes, which is what the run shows.
* `ReadIsSnapshot` (`ReadPath`, `UndefinedScopes`): the key of the cache leaves out
  what is `undefined` (`DataReader.ts:143`), but a filter whose value is
  `undefined` selects only rows without the field (`QueryEngine.ts:233`): after a
  cached read of the whole table it is answered with all rows, and the other way
  round, against the comment at `DataReader.ts:91`.
* `matchesLike("%abc", "%c")` is false: a text character `%` meets the
  pattern's wildcard as if it were an ordinary character
  (`QueryEngine.ts:61`, against the comment at `:46`). The texts of the run have
  no `%`.
* A column with values of several types has no consistent order in
  `sortingTools.ts` (the comparator is cyclic), so the result depends on the
  algorithm. Columns of the run are homogeneous.
* A read that runs between the publication of new metadata and the new index
  plan drops the indexes of the table, and unique constraints are not enforced
  until they are rebuilt; indexes are not restored after a restart; `update`
  and `bulkWrite` of the file adapter read outside of the lock that they write
  under (`FileSystemStorageAdapter.ts:775`, `:849`), so of two updates one may
  be lost.
* `SetReturns` (`Cache`, `LfuConfigs`): with LFU and a memory limit the loop of
  `cleanupByMemoryUsage` (`CacheManager.ts:436`) may find no victim and never
  ends. Also in the model, and without a promise against them: dirty entries
  are evicted and expire like others; the fallback of the penetration guard may
  overwrite a newer value; a fetched `undefined` is fetched again. The only
  cache that production makes is LRU with 50 MB
  (`FileSystemStorageAdapter.ts:330`).

*Services*

* `NoUpdateForgotten` (`AutoSync.cfg`): a client that sets a key anew while its
  old value is written loses the mark of the new one (`AutoSyncService.ts:429`).
* `OthersKept` (`AutoSync.cfg`): the write of the merge replaces the table
  (`:426`), so a record that a client writes after the read of `:424` is lost, and
  if that read found the staged rows of a transaction without an owner
  (`FileSystemStorageAdapter.ts:607`), they are stored although it rolls back.
* `DroppedStaysDropped` (`AutoSync.cfg`): a sync that has listed a table writes it
  although it was dropped meanwhile, and so creates it again.
* `EveryRecordDrains` (`AutoSync.cfg`): a batch is the first entries of a table in
  the order of the cache (`:395`), and those that are no records stay dirty
  (`:403`), so `batchSize` of them keep the records behind them from ever being
  written; and entries of a dropped table stay dirty (`:380`). `DirtyDrains`, which
  the run checks, names both conditions (`Blocked`, and no table). Head-of-line
  blocking alone is seen with `BatchSize = 1` and `Edits = {}`.
* In one batch an older record may win over a newer snapshot. Nothing in
  production marks entries yet.
* `ProcessorsBounded` (`TaskQueue.cfg`): a processor that outlives its timeout
  keeps running (`taskQueue.ts:45`), so more than `maxConcurrent` work. After
  `start` with several queued tasks they run one at a time (`:63`, `:165`); a
  `stop` whose polling times out after a restart forgets running tasks. A
  `clear` whose callbacks add tasks (`:313`) is left out.
* `RateIsKept` says nothing of buckets that take longer to fill than the idle
  timeout (`RateLimiter.ts:73`): they are forgotten half empty and start again
  full. With a capacity below the fixed cost of an operation it is never
  admitted.

*Encryption* (`EncryptedStore.cfg`)

* `ProtectedAsDeclared` (`OmittingScopes`): a call without options in an
  encrypted transaction, on a table that does not exist yet, queues plaintext;
  the commit creates the table as an encrypted one around it
  (`EncryptedStorageAdapter.ts:478`, `FileSystemStorageAdapter.ts:150`), against
  the comment at `expo-lite-data-store.ts:83`. With fields in the default
  configuration such a call encrypts rows of a plain table likewise.
* `ReadsHold` (`OwnWritesScopes`): a transaction that creates a field-encrypted
  table without a configured list does not decrypt its own queued rows
  (`EncryptedStorageAdapter.ts:658`).
* `ReadsHold` (`TwoCachedScopes`): after a reset of the keys the first access
  drops its own cached table only (`:140`); the second table is served from the
  cache of the old generation.
* `KeysMatch` (`FirstKeyScopes`): two adapters that need the first key at the
  same time each make one (`:162`), and one of them encrypts with a key that is
  not kept.
* Calls of a transaction's own surface that are still under way when it ends
  write what was rolled back; a creation that fails after a rival's cleans up
  the rival's table; `createTable` of the engine returns silently when the table
  has appeared meanwhile; `clearTable` of an absent encrypted table creates a
  plain one; `verifyCount` of direct adapters may set a stale count.

## Plan

Modelled, in this order: `FifoLock`, `WriterLock`, `SingleFileStore` with
`AtomicTable`, `SqliteChain`, `Transactions`, `MetadataFile`, `ChunkedStore`,
`Cache`, `AutoSync`, `TaskQueue`, `ApiGate`, `QueryEngine`, `ReadPath`,
`EncryptedStore`.

Left to model: `AtomicTransaction`, a transaction that takes effect at one
instant, with `Transactions` as its refinement for one client; `StorageRoot`,
the switch of the folder while the old root is initialised (`PathHelper.ts:78`)
and the migration of a legacy root (`:188`); `createIndex` and `dropIndex`
beside writers.

Left to prove: the accounting of `Cache`; that keys match and protection is kept in
`EncryptedStore`; that reads are snapshots, once the protocol of `ReadPath` is apart
from the queries it answers.

## Not modelled

Ciphers, key derivation and secure storage (opaque computations);
configuration, logging and monitoring (no effect on stored data); validation
and error wording; the platform probes of `PermissionChecker`; several
processes on one root, which the program does not support. Scripts of the
repository (`scripts/`) drive builds and devices and are no part of the store.
