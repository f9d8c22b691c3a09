# object-repository in TLA+

TLA+ models of `object-repository` (the TypeScript sources under `src/src`), the TLC
configurations that check them on small instances, and TLAPS proofs of what holds for every
instance. Paths below are those of the repository; `SyncBackend.ts:185` means
`src/src/sync/SyncBackend.ts`, line 185.

    tlasany SyncBackend.tla                          # parse
    tlc -config sync_core.cfg MCSyncBackend.tla      # model-check
    tlapm HubProofs.tla                              # prove

`PROJECT.json` holds the machine-readable side: components, runs, the source lines every
definition stands for, one mutation per checked property, hazards, findings, theorems.

## 1. The system

Application code talks to a `Repository` per model. Repositories queue writes in a `Backend`
(`save`, `remove`) and flush them with `persist`; backends wrap each other (decorators, remote
transports, sync). All of it is single-threaded per process: interleaving happens at `await`s,
and between processes.

| Component | State | Operations | Hard behaviour | What makes it correct |
|---|---|---|---|---|
| Hybrid logical clock, `sync/hlc.ts` | `lastPhysical`, `counter` | `now`, `update` | a `Date.now()` that steps back or lags; malformed stamps; a counter that outgrows its text width | stamps follow everything the node has seen; the text order is the clock's order |
| Sync hub, `sync/BackendSyncTarget.ts`, `InMemorySyncTarget.ts` | changelog, `seq`, `pushChain`, `readyPromise` | `pull`, `push` | overlapping pushes, a persist that throws after numbers were handed out, restarts, batches pushed again | numbers never repeat, a reader misses nothing, per record the newest write wins |
| Sync replica, `sync/SyncBackend.ts` | local store, outbox, `cursor`, `clock`, `fieldVersions` | `save`, `remove`, `persist`, `reconcile` | every `await` of `pull` and `push` lets the application, or another `reconcile`, run; lost replies; failed persists; restarts | replicas converge to the newest write, no write is forgotten, edits of different fields both survive |
| Sync transport, `sync/RemoteSyncTarget.ts`, `transport/SyncTargetAdapter.ts` | none | request, reply | loss, delay, a reply after the caller gave up | (as seen by the replica) |
| In-memory backend, `backends/memory`, `backends/util/unique.ts` | store, unique index, write queues | `save`, `remove`, `persist`, `discardPending`, `registerModel` | constraints checked against an index that is kept incrementally; queues shared by all callers | unique values, all-or-nothing batches, no batch refused without a duplicate |
| Repository, `repository/Repository.ts`, `QueryCache.ts`, `liveQuery.ts` | identity map, baselines, result cache, live query state | `save`, `patch`, `remove`, `persist`, `query`, `subscribe` | answers that arrive after a newer write or a newer run; pulled changes below the identity map | caches and live queries settle on what is stored and never go back |
| Repository manager, `RepositoryManager.ts` | write mode, touched backends | `transaction` | overlapping transactions share one mode; a rollback with others' writes queued | the guard stands while a callback runs; nothing discarded is stored, nothing else is lost |
| SQL backends, `backends/sql`, `backends/sqlite` | queues, one connection, migration table | `persist`, `transaction`, `patch`, compilation of queries | retries of timed-out writes, events emitted before the commit, interleaved `BEGIN`s; NULL, three-valued logic, integer division | no write vanishes, the last save is stored; what is pushed down is what the reference computes |
| MongoDB backend, `backends/mongo` | write queues | compilation of filters, patches, aggregates, windows | missing against null, operators that do not fit one update document | the server's answer is the reference's |
| IndexedDB backend, `backends/indexeddb` | write queues, open database | index choice, key ranges, native counts | ranges over mixed types, upgrades blocked by open connections | a range loses no match, a native count is exact |
| Expressions, patches, query collections, `expressions`, `repository/QueryCollection.ts`, `patch.ts`, `projection.ts` | none; a page cursor | `match`, `evaluate`, `applyPatch`, `list`, `count`, `groupBy`, `page` | absent fields; a table that changes between two pages | they are the reference; a keyset walk neither repeats nor skips |
| Mongo compatibility layer, `compat/mongo.ts` | none | cursors, pipelines, updates, upserts | stages are collected and applied in another order | it answers as MongoDB would, or refuses |
| Multi-write backend and copy, `MultiWriteBackend.ts`, `util/copy.ts` | the targets' queues, paging position | `save`, `remove`, `persist`, `patch`, `copyBackend` | a store that fails after the other committed; a copy while the application writes | the stores agree at rest, a copy repairs what a failure left |
| Remote backend, `transport/*` | socket, pending requests, subscription | `request`, `persist`, `changes`, `close` | late `close` events, replies of a dead socket, events that overtake replies | every request is answered once or fails; a change is heard before its answer |
| Other decorators, properties, schema | none | pure functions, forwarding | - | - |

How they interact: a `Repository` calls its `Backend` and listens to its change feed; a
`SyncBackend` is a `Backend` that owns another (`local`) and calls a `SyncTarget`; a
`RemoteSyncTarget` turns those calls into messages, `SyncTargetAdapter` turns them back into
calls of a `BackendSyncTarget`, which stores its changelog in yet another `Backend`. The unit
of atomicity everywhere is the code between two `await`s; the unit of durability is one
`persist`.

## 2. The modules

    HLC            the clock as operators (now, update, order)
    HLCText        the text form of a stamp (padding, string order)
    HLCClock       nodes that exchange stamps           <- MCHLCClock  hlc_clock
    HLCProofs      theorems about HLCClock
    SyncHub        the hub: variables, actions (uses HLC)
    HubProtocol    SyncHub + any pushers + one reader   <- MCHubProtocol  hub_durable
    LWWRegister    abstract: one last-writer-wins register per record
    HubLemmas      what every step of SyncHub does, whoever its clients are
    HubProofs      theorems about HubProtocol
    SyncBackend    SyncHub + replicas + messages        <- MCSyncBackend  sync_*, field_*
    SyncProofs     theorems about SyncBackend
    UniqueStore    abstract: a store that commits a queue whole or drops it whole
    MemoryBackend  InMemoryBackend with its index       <- MCMemoryBackend  memory_*
    MemoryProofs   theorems about MemoryBackend
    RepositoryCache  a repository's caches, its feed,   <- MCRepositoryCache  live_*
                   one live query
    CacheProofs    theorems about RepositoryCache
    UnitOfWork     saves, persists and transactions     <- MCUnitOfWork  units; UnitOfWork  units_*
                   over three engines
    UnitProofs     theorems about UnitOfWork
    Wire           remote backend, WebSocket, adapter   <- Wire  wire, wire_async
    WireProofs     theorems about Wire
    Cutover        copyBackend under a multi-write      <- Cutover  cutover
    Expressions    reference: filters, values, patches
    SqlEngine      SQL fragments and what they mean (extends Expressions)
    SqlCompile, SqliteCompile     compilers of the SQL backends (extend SqlEngine)
    MongoCompile, IndexedCompile  compilers of the MongoDB and IndexedDB backends (extend Expressions)
    Queries        reference scans, aggregates, windows, projections, patches, and the
                   engines' (extends MongoCompile, instantiates the other compilers)
    QueryCollections  QueryCollection's plans and keyset pages (extends Queries)
    MongoFacade    compat/mongo.ts, and a MongoDB server (extends QueryCollections)
    QueryAlgebra   a table, a client's questions, walks <- MCQueryAlgebra  pushdown, *_negation, ...

### The clock (HLC, HLCText, HLCClock)

`Clock` is the pair `lastPhysical, counter`, a `Stamp` adds the node id. `HlcNow` and
`HlcUpdate` are `now` and `update` line by line, the guard against stamps that do not parse
included. Node ids are numbers compared as such; the code compares their text after `:`, and any total
order serves. Stamps are compared as triples (`Before`); that this agrees with comparing the
formatted text is what `HLCText` is for: it formats with `Pad` as the code does (digits to the
left, no cut) and compares character by character. In `HLCClock` every `now` and `update` may
find any wall clock reading at all, so a clock that lags or steps back is in every behaviour.

### The hub (SyncHub, HubProtocol, LWWRegister)

`log` is the committed changelog, `seq` the counter, `ready` whether `ensureReady` has seeded
it, `inbox` the push requests waiting behind `pushChain`, `job` the push being served. `HubTake`
starts `applyPush`, each `HubAppend`/`HubReject` is one turn of its loop (the loop awaits a
query, so pulls interleave), `HubCommit` is the persist that resolves, `HubPersistFails` one
that throws, `HubRestart` a new process over the same store. `latest` asks the backend, so in
durable mode it sees committed rows only, in memory it sees the rows of this push too
(`Visible`); `Durable` picks the target. `HubProtocol` lets clients push any batch over
`Pushable` any number of times and adds one reader that pulls when it wants and remembers
everything it was given. With `Durable`, an assumption about batches is needed for the order of
the log: a batch holds the changes of a record oldest first (`OrderedBatches`), as an outbox
read back in insertion order does.

### Replicas (SyncBackend)

`local`, `outbox` are the stored records; `saves`, `enqueued` the local backend's queue;
`cursor`, `clk`, `versions` the fields of `SyncBackend`; `task[t]` one `reconcile()` call with
its program counter and its local variables: `todo` the changes still to apply, `found` what
`loadLocalRecords`/`localRecord` returned, `next` the cursor of the reply, `sent` the outbox
entries that were pushed. `Owner` says whose call `t` is, so two calls of one replica can
overlap. One action per stretch between awaits:

| Code | Actions |
|---|---|
| `save`, `remove` (from `Repository.save`, `remove`) | `UserSave`, `UserRemove` |
| `persist` | `UserPersist`, `UserPersistFails` |
| `Repository.patch` over a sync backend | `PatchRead`, `PatchWrite` |
| `pull`: request, reply, `loadLocalRecords`, `applyIncoming` per change, cursor and persist | `StartPull`, `ServePull`, `LoadLocalRecords`, `ApplyPulled`, `PullDone`, `PullDoneFails` |
| `push`: persist, read the outbox, request | `PushOutbox`, `PushOutboxFails` |
| the hub, and its reply | `HubServes`, `HubReplies`, `HubThrows`, `HubRestarts` |
| `push`: per conflict `localRecord` then `applyIncoming`; then remove the sent entries, persist | `LocalRecord`, `ApplyConflict`, `PushDone`, `PushDoneFails` |
| the transport | `PullLost`, `PushRequestLost`, `PushTimesOut` |
| the process | `Tick`, `Crash` |

A push that times out stays with the hub: its request or job loses its sender (`Nobody`) and is
served all the same.

`Ops` switches what applications do, so that a run can ask about one thing at a time:
`"save"`; `"remove"`; `"recreate"` (save a record again whose tombstone is stored); `"patch"`;
`"sharedIds"` (two replicas may create the same id; by default ids are uuids and nobody else's);
`"editNew"` (edit a record again before it was ever persisted); `"whileSyncing"` (any of these
between `loadLocalRecords` and the end of the pull).

### The in-memory backend (UniqueStore, MemoryBackend)

Records are what the unique keys see of them: a value, or `Null`, per key set. `saves` is a
sequence (the code replays a list), `removes` a set. `Persist` and `PersistThrows` are the two
outcomes of `persist()`: `ConstraintHolds` is `checkUnique` (index for untouched records,
`claimed` for the batch itself), `IndexAfter` is `removeFromUniqueIndex` for each touched record
followed by `addToUniqueIndex` for each save. `RegisterModel` rebuilds the index, as a second
repository manager on the same backend does. `UniqueStore` has no index: its `Commit` applies the
queue if the *result* is unique, its `Drop` forgets it.

### The repository's caches and live queries (RepositoryCache)

`store`, `feed`, `saves`, `removes` are the backend: what is stored, the change events on their
way to this repository, the write queues. `instance`, `baseline`, `result` are the three maps of
`QueryCache`; since one plan is read, `result` is at most one cached list. `live` is the closure of
`liveQuery`: subscribed or not, `runToken`, `state`. `reads[s]` is a read between its call and its
answer: `start` before the result cache is asked (`preprocessWhere` is awaited first), `asked` with
the backend, `read` when the backend has looked but the answer is under way, `loaded` when its rows
are in the identity map but not yet in the result cache (`execute` is awaited), `done` when the promise
of the caller has not run on yet. Writes and events fall between any two of these.

| Code | Actions |
|---|---|
| `liveQuery`: `subscribe`, its unsubscribe, `refetch`, `execute` | `Subscribe`, `Unsubscribe`, `Refetch`, `Resolve`, `Reject` |
| `QueryCollection.list`, `Repository.get` | `List`, `Get` |
| `runQuery`, `runCount`, `execute`, `materialize` | `LookUp`, `Read`, `Arrive`, `SetResult` |
| `save`, `remove`, `persist` | `Save`, `RemoveRecord`, `Persist` |
| a sibling repository, a sync, a peer | `WriteElsewhere` |
| `patch` on a backend with a native one | `Patch`, `PatchReturns` |
| the handler of the change feed, `changeAffects` | `Change` |

What is read and what may go wrong depends on the kind of query (`QueryKind`): `list()` goes through
the result cache and materializes rows, `count()` does neither; a query has a filter or not. A
record is its value as the filter sees it (`Matching`).

No step reads the history, which is there for the properties: `commits` dates the store, `asOf` an
answer, `reported` and `heard` the latest commit this repository has been told of, now and when a read's
rows were taken in. `late` marks a cached result whose rows arrived, or were put into the cache, after news
of a commit they do not hold, and what a live query shows of one; `behind` the records whose instance such
rows have set; `missed` the last change that took a record out of the filter while its baseline did not
say that it was in (`Misjudging`). These three are what the properties except, each a thing the
code does (Findings); that nothing else goes wrong is what they say.

### Writes and transactions (UnitOfWork)

One record with two columns, and calls of `persist()`, `patch()` and `RepositoryManager.transaction()`
that overlap at their awaits. `engine` picks Postgres, MySQL (both `SqlBackend` behind
`resilientExecutor`) or one SQLite connection. `repo` is the outer repository's instance and write
baseline, `queue` the outer backend's `saveQueue`, `mode` the shared `txState.mode`, `call[c]` one call
with its program counter, its batch, and for a transaction the mode it will restore (`prev`), the rows
written on its connection (`written`), its scope's repository and queue. `conn` is the SQLite
connection: who holds `BEGIN`, and what a `ROLLBACK` restores.

| Code | Actions |
|---|---|
| `save`, `computeDirty`, `enqueueSave` | `Save`, `ScopedSave` |
| `SqlBackend.persist`: take the queue, bucket by dirty columns, commit, emit | `StartPersist`, `CommitBatch`, `Emit` |
| `SQLiteBackend.runAtomic` and `persist` | `Begin`, `WriteAndCommit`, `Rollback`, `Emit` |
| `Repository.patch` and its guard | `PatchNative`, `PatchRead`, `PatchWrite` |
| `RepositoryManager.transaction`, `SqlBackend.transaction` | `StartTransaction`, `Connected`, `ScopedPersist`, `FnReturns`, `FnThrows`, `Flush`, `CommitTransaction`, `Undone` |
| `withRetry`, `withTimeout` | `Retry`, `Reject`, `LoseAnswer` |

`hist` is bookkeeping: each write is numbered, and `landed`, `dropped` (failed or discarded with a
call) and `forgone` (given up by a retry, or undone by somebody else's `ROLLBACK` on the shared connection) say what
became of it. `hist.exempt` names the situations in which a property does not hold and is not claimed:
`overlap` (two transactions of one manager at once), `unanswered` (the commit was done and its answer
lost), `crossed` (overlapping calls land their batches in the other order), `patch` (a patch writes the
row it read), `mixed` (saves through the scope and outside it), `early` (events emitted before a
commit that failed) and `bucketed` (a batch whose statements run in another order than its saves). The
last two are what `units_unconfirmed` and `units_bucketed` (Findings) reproduce; the others are how the code defines
concurrent use, and each is a reachable disagreement if its kind is taken out of the property.
Removals, several records and several backends in one transaction are left out; on SQLite a scope's save
is a `Save`, since there is one queue.

### The transport (Wire)

`client` holds the fields of `WebSocketTransport` (`socket`, `connecting`, `nextId`, `pending`), `sock[s]`
a connection with its state on either side and a FIFO queue each way, `req[r]` a request and its
promise, `serving` the server's `handleMessage` calls, `store` what the backend stored, in the order in
which it emitted the changes, `heard` what reached the listener. Storing and answering are steps of their
own, with everything else in between; a command may throw after it has stored something, while a `persist`
that throws has stored nothing (a batch is stored whole or not at all). A request persists one change or is a command; the adapter pushes the
backend's feed to all connections and, for a command, returns the changes it captured.

| Code | Actions |
|---|---|
| `request`, `connect`, `changes`, `close` | `Request`, `Subscribe`, `Close` |
| events of a socket | `Opened`, `Errored`, `Closed`, `Receive` |
| the network | `Dropped`, `ServerCloses` |
| `attachWebSocketServer` | `Accepted`, `ServerReceives` |
| `BackendAdapter.handle`, `command`, `subscribe` | `Stored`, `Answered`, `Refused` |

`Late` says whether `options.context` may take time. Other clients' writes, reads, several listeners
and a `close()` in the same tick as a `request()` are left out.

### Moving to another store (Cutover)

`old` and `new` are the stores, `queue` the write queue of each, `app` the application's `persist()` or
`patch()` on its way through primary and secondary, `copy` the state of a `copyBackend()` run. The
copy's `save` and `persist` go to the new store's one queue, as in the code, so a page of the copy
also commits what the application had queued there. Writes are numbered, and an application write is one
write in whatever queue or batch it waits. `contended` collects the records of which two different writes
were in the queues and batches at one time (`Contended`) or of which `discardPending()` dropped half a write
(`Torn`): `LockStep` is claimed of the others.

### Queries (Expressions .. QueryAlgebra)

`Expressions` translates `match`, `evaluate` and `getPath`; `Queries` the scan, reducers, windows,
projections and `applyPatch`; these are the reference. A compiler module translates a `compile*`
function to the constructs it emits (`SqlEngine` fragments, MongoDB documents, key ranges), and the
engine's semantics of these constructs (three-valued logic, integer division, `json_extract`, MongoDB's
comparison brackets) is stated beside it and marked external. `QueryCollections` translates the plans a
collection builds and `page()`, `MongoFacade` the MongoDB syntax over it, next to the server's semantics
of the same pipelines and writes.

`QueryAlgebra` is the state machine over them: a table `rows` is filled, then a client asks one question
(`asked`), whose answers the invariants compare in that state, or walks the table by `page()`
(`walk`) while one write by anyone falls between two pages. Numbers are exact fractions, text is a
sequence of code units; text is compared by code unit, and rounding and collations are left out.

Some questions are outside the properties because the backends do differ on them, and the operator that
says so is named for the reason: `MixesTypes` (SQLite orders text above numbers, the reference answers no),
`MayThrow` (SQLite fails on a field of an array's bare text), `LacksKeyPart` (a compound `$group` key, of
which MongoDB leaves the missing part out, so that missing and null are two groups), `Total`, `NullSafe`, `Decided` (SQL answers unknown for a negation or a
conditional over an absent field; `DefiniteIsRight` says it is never wrong), `Zoned` (SQLite refuses time
zones), `OneType` (a native IndexedDB count over values of several types), `Mixes`, `Repeats`,
`MongoTakes` (patches), `Traversed` (`valueFieldPaths`), `Empties`, `CountsTwice`, `InOrder`, `SeedOnly`,
`Taken`, `PullsAbsent` (the facade). What they exclude is listed under Findings.

### What the models abstract

- A field's value is the save that gave it its value: the stamp of the save and its number. Two
  saves never write "the same value", so a lost update is always visible, also between two saves
  that got one stamp; nothing in the sync code looks at values except to compare them for equality.
- `_version` and `_fieldVersions` are record components; absent is `Absent`. A removed
  record is its tombstone.
- The local store of a replica commits all queued writes of a persist or drops them all. A store that applies half a
  batch is another component's question.
- The application reads an instance, edits and saves it without a stale baseline: what it edits
  is its own queued save of the record, or the stored record (`Holds`). Instances that outlive a
  pull belong to the identity map (`InstancesFresh` in `RepositoryCache`).
- `push` flushes and reads the outbox in one step: nothing between the two awaits changes what is
  sent except an edit flushed in between, which is the same as that edit before the step.
- Conflict policy: `lastWriteWins` (the default) or field-level; a custom policy is the
  application's code.

## 3. The runs

Bounds are constants of the modules, named in their declarations. Passing runs:

| Run | Instance | Asks and shows |
|---|---|---|
| `hlc_clock` | 2 nodes, wall readings 0..2, at most 2 stamps each, counters to 3 with a 1-digit base-2 counter | new stamps follow all that their node has seen, also after a malformed stamp (`CausalOrder`); text order is clock order as long as the counter fits (`TextOrderWithinWidth`). With base 2 and one digit the counter outgrows its width within the bound, so both sides of the limit are reached. |
| `hub_durable` | 2 records with 3 and 2 versions, batches of up to 2, 3 pushes, 2 failures | `SeqIncreasing`, `LogMonotone`, `ReaderHasPrefix`, and `RefinesRegister`: the log implements `LWWRegister`. Three pushes are the least in which one is committed, one lost after it took numbers, and one reuses what is left; two versions out of order need three versions. |
| `sync_core` | 2 replicas, 1 record, 2 edits, 1 lost message, in-memory hub, all of `Ops` but `"recreate"`, which takes three edits | when all is exchanged the replicas agree (`ReplicasAgree`) on the newest write (`NewestWins`), an edit is stamped after what it replaces (`EditFollowsWhatItReplaces`), and the replicas do come to agree (`EventuallyAgree`, liveness) |
| `sync_faults` | durable hub; one hub persist that throws or one hub restart, one local persist that throws, one replica restart, in any order | no committed write is without a log row or an outbox entry (`NoEditForgotten`), and agreement unless a local persist threw (`AgreeUnlessPersistFailed`) |
| `field_two` | field-level, 2 fields, 3 edits, saves and removals between syncs, one clock ahead | wherever a version of a field travels it stands for one value (`OneValuePerVersion`), and no merge, save or flush takes a stored field back to an older version (`FieldsNeverRegress`) |
| `memory_unique` | 3 records, 1 unique key with 2 values, batches of up to 3 saves and any removals | `UniqueHolds`, `IndexCoversStore`, and `ImplementsUniqueStore`: a batch is committed whole with a unique result, or dropped whole. Three saves of three records are the least for a swap of two values with a third taker. |
| `live_fresh` | 1 record, absent or one of 2 values of which the filter accepts one, 2 reads at once, 2 writes, 2 reads asked for, 1 that throws; `count()` with and without a filter, `list()` with one, also over a backend with native patches; writes and events overtake any answer | once reads and feed have settled a live query shows what is stored (`LiveFreshIfReported`), what it shows never goes back (`LiveNeverRegresses`), the result cache holds what the backend would answer (`CacheFreshUnlessLate`), `get()` of a record the filter accepts does not lag behind a live list (`InstancesFresh`), and it settles (`EventuallyFresh`, liveness), each outside the exceptions above. Two reads and two writes are the least for an answer that is read, overtaken by a write and its event, and arrives after the answer of the run that event woke. |
| `units` | 1 record of 2 columns, 2 calls, 2 writes, 1 retry, 1 write of a callback through its scope; three engines | the write guard stands exactly while a callback runs (`GuardStands`), what was discarded is not stored (`DiscardedStaysOut`), no write is lost between queues, scopes, batches and retries (`NoWriteVanishes`), at rest the row is what was last saved (`LastSaveStored`). Two calls are the least that overlap; two writes to two columns the least for a dirty set that leaves a column out. A batch that is reordered by its buckets takes five writes and is out of this run's reach; it came to light when the proof of `LastSaveStored` failed (`units_bucketed`). |
| `wire` | 1 persist and 1 command, 2 sockets, 1 `close()`; a server whose context is there at once or late | answers belong to their requests and a resolved write is stored once (`AnswersMatch`), a change is heard before its answer (`HeardBeforeAnswered`) and in the order of the emissions (`HeardInOrder`), and a request ends (`EveryRequestEnds`, liveness). Two sockets are the least with a close event of an old one. |
| `cutover` | 3 records, pages of 2, 2 writes, 2 runs of the copy, any contents before, both error policies, each store failing any number of times | `LockStep`: the stores agree once all is at rest, on every record but those whose writes met; `CopyReconciles`: a copy without writes meanwhile brings over what a failure left out. Three records in pages of two are the least with a last page that is not full and a row that moves between pages. |
| `pushdown` | tables of up to 3 records: every combination of absent, null, negative, zero and positive `n` with five texts, complete and odd records; filters of depth 2 with their negations, pages, selections, patches, aggregates, windows, pipelines, cursors, writes; walks by one and two rows over keyed tables with ties | filters: `PushDownExact` (Postgres/MySQL, SQLite, IndexedDB), `DefiniteIsRight`, `MongoFindsExact`; `PagesAndProjections`; `PatchesAgree`; `ReductionsAgree`; `FacadeAgrees`; `KeysetVisitsAll`. One record suffices for a filter, which sees one; three for order, ties and groups. |

Records do not interact in the sync code except through the shared cursor and batch, so one
record with the cursor of a whole log is enough for the convergence questions; two records are
used where batches and numbering are the question (`hub_durable`). Two replicas suffice since
replicas meet only at the hub and a third sees the log as the second does; `field_apart` needs the
third, to pull at once what two others wrote. Two edits are
the least that conflict; `field_two` takes three, so that a merged field is edited again.

`MaxTime` bounds each replica's `Date.now()` apart: the replicas stand in one millisecond
(`SameTime`, where only counters and node ids order stamps, the hard case for ordering), or one
clock runs ahead of the other (`OneAhead` in `field_two`, `OtherAhead` in `sync_restart_stamp`).
A restart takes at least a millisecond. `sync_faults` stays within one millisecond plus restarts; what
a lagging clock and a restart do together is `sync_restart_stamp`.

`CHECK_DEADLOCK FALSE` is in every configuration: the bounds on edits and failures, and an
application that has nothing more to do, let the system stop. That it does not stop too early is
the liveness property's matter.

In `live_fresh` one record suffices because caches, baselines and the filter treat records one by
one and a result is forgotten whole. A list without a filter is left to the proof: it does what the filtered
one does and hears of every change.
`Room` keeps a slot for the run each unreported change may wake, so that the bound never blocks the feed.

`Reverts = FALSE` in `units`: a column never gets a value it had before. With it a save that puts a value
back while an earlier save is still queued is diffed against the baseline, sends nothing for that column
and leaves the queued value in place, whatever the schedule; that is a question about one caller, not
about overlaps, and it would hide the others.

Fairness (`FairSpec`, used by `sync_core`): weak fairness of the steps of each `reconcile()` call,
of which the first is the call itself (the docs have it called "on connect, on a timer, on
reconnect", `docs/sync.md:61`), and of the hub serving and replying (promises whose I/O ends are
resumed). Nothing is assumed of the application: it may stop saving at any time and may leave
queued writes to the next `reconcile()`, which flushes them. Losses are bounded by `MaxLost`, which
stands for "not every message is lost". `live_fresh` assumes that the feed delivers, that the
backend answers what it was asked, and that resolved promises run on; an error is an answer, and
nothing asks again after one, so `EventuallyFresh` speaks of live queries that show no error. `wire`
assumes for each socket that its events are delivered (open or error, messages, close) and that the
server answers a request it was given; not that connections last, that anyone reconnects, or that the
application calls anything. A connection that is dropped does get its close event.

### Findings

`field_apart` is listed with the runs: three replicas, one record, field-level, no failure of any kind, and
`ReplicasAgree` is violated. `pull()` loads the local record of every pulled change once, before its loop
(`SyncBackend.ts:179`), and each change is merged with that record; of two changes of one record in one
pull, the merge queued second replaces the first. In whole-record mode the later row is the newer one, and
`Convergence` is a theorem. In field-level mode the hub appends concurrent edits in the order they arrive,
and the later row has an older version of whatever its writer had not pulled. With versions
1, 3, 2 in the log, the replicas that wrote 2 and 3 store 3, and a device that pulls the three rows at once
stores 2, with nothing left to exchange. `docs/sync.md:73` says that clients "converge under
whole-record LWW and field-level merge". For the same reason a property that says of the end
state that each field has its newest value would be false; `FieldsNeverRegress` is what does hold.

The first of the configurations below that are not listed as runs, `units_unconfirmed`, concerns
units of work: `SqlBackend.transaction()` flushes its writes with
`scoped.persist()`, which emits their change events, and only then the executor commits. If the commit
fails, or the callback throws after it persisted through its scope, the outer repositories keep a row
that was never confirmed as their write baseline. The next save of the instance sends only what
differs from that row, and the stored row keeps the old value of the other column
(`LastSaveStoredAfterRollback`). `Repository.ts:113` calls the baseline "a confirmed write",
`QueryCollection.ts:37` the event "fired after a committed change".

The configurations reproduce disagreements with what a comment or document states; each checks
one property that TLC refutes:

| Configuration, module | Property | What happens |
|---|---|---|
| `units_unconfirmed`, UnitOfWork | `LastSaveStoredAfterRollback` | A commit fails after its change events were emitted (above). |
| `sync_overlap`, MCSyncBackend | `ReplicasAgree` | Two `reconcile()` calls overlap; each decides against the records it loaded itself, and the later to finish stores an older change over a newer one. |
| `field_two` with `"whileSyncing"` in `Ops` | `OneValuePerVersion` | A save during a pull, field-level: the version cache holds the merged versions already, the stored record not yet the merged values; the old value is sent out under the newer version. |
| `field_two` with `"recreate"` in `Ops` | `OneValuePerVersion` | A save, a removal and a re-creation, field-level: the record made anew has no dirty hint, the version cache of the removed one is kept (`SyncBackend.ts:116`), and the new value travels under the old version. |
| `sync_restart_stamp`, MCSyncBackend | `VersionsUnique` | The clock starts over in every process. A device whose wall clock lags edits after a pull, restarts before it pushes, pulls the same stamps again and gives its next edit the stamp of the first. |
| `memory_stale`, MCMemoryBackend | `NoSpuriousRejection` | A batch that saves a record twice, or saves and removes it, leaves an index entry of a value nothing stores; the next record that takes the value is refused as a duplicate. |
| `live_filter`, MCRepositoryCache | `LiveFresh` | Whether a record leaves a filter is decided with its write baseline. `count()`, `listUuids()`, aggregates and projections load no baselines, so a counted record that stops matching wakes nobody. |
| `units_bucketed`, UnitOfWork | `LastSaveStoredInBuckets` | `bucketByDirtyColumns` (`SqlBackend.ts:388`) groups the saves of a batch by their dirty columns, and the groups run in the order they first appeared: with dirty sets `{a}`, `{a, b}` behind an earlier `{a, b}` of one batch, the second save's value of `a` overwrites the third's. `Backend.ts:37` calls the record "always the complete, authoritative row, so ignoring `dirty` is always correct"; ignoring it gives another row here. MySQL; Postgres refuses the statement, SQLite writes row by row. |
| `wire_async`, Wire | `LateRequestsEnd` | While the server resolves a connection's context ("May be async") no message listener is attached: requests sent meanwhile are lost and their promises hang until the connection ends. |
| `wire` with this invariant instead | `HeardOnce` | `close()` only forgets a socket that is still connecting; it opens all the same, is subscribed, and its events are heard beside those of its successor. |
| `pushdown_negation`, MCQueryAlgebra | `EveryPushDownExact` | `NOT` of a comparison with an absent field is NULL in SQL and drops a record the reference keeps (`compile.ts:49`). |
| `pushdown_negation` with this invariant instead | `EveryPatchAgrees` | A patch with a computed value and an array operator loses the array operator in MongoDB (`MongoBackend.ts:577`); SQLite's `addToSet` of a repeated value adds it twice. |
| `pushdown_negation` with this invariant instead | `EverySelectionLoaded` | A selected expression with a date, comparison or conditional does not load the fields it reads (`projection.ts:72`). |
| `pushdown_negation` with this invariant instead | `EveryPipelineAgrees` | Pipeline stages are collected and applied in the facade's order: a limit before a skip, a match or sort after a limit, a window before a group or count give other documents than MongoDB. |

Without a configuration, but met while modelling: `pull()` moves the cursor before it persists what it
applied (`SyncBackend.ts:185`), so a persist that throws drops changes for good; `Repository.patch()`
over a field-level replica has no dirty hint and its field is never taken elsewhere; a `list()` that was
read before a write and arrives after its event fills the result cache with old rows
(`Repository.ts:518`), which stay until the next event of the model, and which a live query shows if it is
refetched or subscribed meanwhile, going back from what it showed; its rows also set the instances and the
baselines back; rows read ahead of the feed set the baseline forward, and the event of the change then
does not wake a filtered live query; a native patch
emits no event, so that a live list goes on showing a record its filter now refuses, and after another
write that leaves it refused, which wakes nobody either, `get()` answers from the instance of before; field-level removal and re-creation diverges (a documented limit, `SyncBackend.ts:62`);
a store that returns the outbox out of order lets the older of two edits win (the runs assume
`OrderedOutbox`, as the in-memory and SQL stores behave). Two transactions of one manager leave its mode
wrong; a retried transaction gives up the outer writes its first attempt had folded in; a second `BEGIN`
on a SQLite connection rejects and loses its batch, and a rollback takes others' acknowledged patches
with it; Postgres refuses a batch that saves a record twice with the same dirty columns. A covered
IndexedDB count also counts values of other types (`IndexedDBBackend.ts:102`), and a range of null or
with reversed ends throws. SQLite orders every text above every number, so that `gt("e.k", 0)` takes
a record in which the field is text, and fails with malformed JSON where `any` reads a field of an array's bare
text (`SQLiteBackend.ts:405`). MongoDB leaves the missing part of a compound `$group` key out, so that
missing and null are two groups (`MongoBackend.ts:614`), compares a missing field in a computed `<`, returns no row for a global
aggregate over nothing, and refuses `$inc` of null. The facade's upsert ignores every operator but `$set` and
`$setOnInsert`, and its `$sum: 2` counts once. A copy overwrites a write that lands between its read and
its commit (`Cutover!LockStepWhileCopying`), and a second copy does not take back removals
(`CopyReconcilesRemovals`).

## 4. The proofs

| Theorem | States |
|---|---|
| `HLCProofs!ClocksDominate` | `Spec => [](TypeOK /\ Dominates)`: no clock is behind what it saw |
| `HLCProofs!StampsAreCausal` | `Spec => CausalOrder` (action property) |
| `HLCProofs!TextsSortAsStamps` | `Spec => []TextOrderWithinWidth`, for every base and every pair of widths, if `Date.now()` fits `PHYSICAL_WIDTH` digits |
| `HubProofs!HubTypes` | `Spec => []TypeOK` |
| `HubProofs!SeqNeverCollides` | `Spec => []SeqIncreasing` |
| `HubProofs!ReaderMissesNothing` | `Spec => []ReaderHasPrefix` |
| `HubProofs!LogStaysMonotone` | `Spec => []LogMonotone`, for whole-record changes, in durable mode with ordered batches |
| `HubProofs!HubIsRegister` | `Spec => Register!Spec` for whole-record changes, under the same assumption |
| `SyncProofs!SyncTypes` | `Spec => []TypeOK` of `SyncBackend`, in both merge modes |
| `SyncProofs!NothingForgotten` | `Spec => []NoEditForgotten`, in both merge modes and for overlapping calls, if local stores are durable or no process ends |
| `SyncProofs!EditsFollow` | `Spec => EditFollowsWhatItReplaces` (action property), whole records, if no process ends or stores end with theirs |
| `SyncProofs!VersionsNeverRepeat` | `Spec => []VersionsUnique`, whole records, no process ends |
| `SyncProofs!NewestWriteWins` | `Spec => []NewestWins`, whole records; no process ends, no local persist throws, one `reconcile()` per replica at a time, ordered outboxes over a durable hub |
| `SyncProofs!CalmReplicasAgree` | `Spec => []AgreeUnlessPersistFailed`, the same without the condition on local persists |
| `SyncProofs!Convergence` | `Spec => []ReplicasAgree`, as `NewestWriteWins` |
| `SyncProofs!FieldsRise` | `Spec => FieldsNeverRegress` (action property), field-level; no removes, no process ends, one `reconcile()` per replica at a time, nothing saved during one |
| `SyncProofs!VersionsTellValues` | `Spec => []OneValuePerVersion`, field-level; saves and any number of overlapping `reconcile()` calls, losses and hub failures; no removes, patches, edits of a record not yet persisted or saves during a pull, no local persist that throws, no process that ends |
| `MemoryProofs!UniqueStored` | `MemorySpec => []UniqueHolds` |
| `MemoryProofs!IndexCovers` | `MemorySpec => []IndexCoversStore` |
| `MemoryProofs!MemoryIsUniqueStore` | `MemorySpec => UniqueStore!Spec` |
| `UnitProofs!GuardAlwaysStands` | `Spec => []GuardStands` of `UnitOfWork` |
| `UnitProofs!DiscardedNeverStored` | `Spec => []DiscardedStaysOut` |
| `UnitProofs!NoWriteLost` | `Spec => []NoWriteVanishes` |
| `UnitProofs!LastSaveReachesTheRow` | `~Reverts /\ Spec => []LastSaveStored` |
| `CacheProofs!CacheTypes` | `Spec => []TypeOK` of `RepositoryCache` |
| `CacheProofs!LiveQueriesAreFresh` | `Spec => []LiveFreshIfReported`, for lists and counts, filtered or not |
| `CacheProofs!CachedResultsAreFresh` | `Spec => []CacheFreshUnlessLate` |
| `CacheProofs!HeldInstancesAreFresh` | `Spec => []InstancesFresh` |
| `CacheProofs!LiveQueriesGoForward` | `Spec => LiveNeverRegresses` (action property) |
| `WireProofs!AnswersAlwaysMatch` | `Spec => []AnswersMatch` of `Wire` |
| `WireProofs!HeardFirst` | `Spec => []HeardBeforeAnswered` |
| `WireProofs!FeedInOrder` | `Spec => []HeardInOrder` |

Each holds for every value of the constants under the module's named assumptions
(`ClockAssumption`, `WidthAssumption`, `HubAssumption`, `ProtocolAssumption`, `SyncAssumption`, `StoreAssumption`,
`NoneIsNothingElse`, `CacheAssumption`, `WireAssumption`) and what the table adds: node ids are naturals, the malformed stamp, the
absent record and `None` are none of the values they stand beside, switches are Booleans, bounds are
naturals, requests and the records of a repository are finitely many. There is no assumption on the number of nodes, records, clients,
calls, columns, sockets, writes or failures.

**Clock.** `Dominates` with the types is inductive, and gives `CausalOrder`: `now` and `update` move a clock to or past
everything in `known` (`NowMovesForward`, `UpdateMovesForward`), and the order is transitive.

*Texts sort as stamps.* What `pad` writes in `w` positions is the sequence of last digits of the number's
prefixes, and each prefix is `Base` times the one before it plus its own last digit (`PrefixRule`). Of two different
numbers that fit `w` positions, take the first prefix that differs: the prefixes before it are the same, so the
smaller number has the smaller digit there (`DigitsSort`). A text is two such runs and the node id, at places the
widths fix (`FormatLayout`), and "<" on texts of one length is a strict order (`TextBeforeStrict`). The physical part fits
because it is always some reading of `Date.now()` (`ReadingsBound`); the counter may outgrow its width, which is
why the property speaks of the stamps whose counter does not: without that limit (`TextOrder`, the wording of `hlc.ts:4`)
it is false, a longer counter sorting before a shorter one. The recursive
function behind it, `Power`, is shown to exist and to follow its own rule first (`PowersExist`, `PowerRule`), by
taking the smallest exponent at which that could fail.

**Hub.** None of the properties is inductive over `log` alone, since what is committed next is in
`job.rows`. The proofs follow `AllRows == log \o JobRows`, the log with the rows of the push being
served: every action keeps it, extends it by one row (`HubAppend`) or cuts it back to the log
(`HubPersistFails`, `HubRestart`). `SeqInv`: `AllRows` is numbered in increasing order and no
number exceeds `seq` once it is seeded; this is what survives a persist that throws, because the
counter may only be ahead. `ReadInv` ties the reader's cursor to the rows it has: those it was
given are numbered at most the cursor, those it was not are numbered above it, the rows of the
running push included, which is why the cursor must come from the rows served and not from the counter.
`NewestLast` and `BatchesInOrder` say that per record versions grow along `AllRows` and that the rest of
the running batch is still ahead of them; a durable `latest()` cannot see the batch's own rows, which
is why ordered batches are needed there. The refinement maps `reg` to `Served`, the last row of
each record; a commit changes any number of records, each to a newer one.

**Replicas.** `HubLemmas` says what each action of `SyncHub` does to the rows served and under way
whoever its clients are, so that `HubProofs` and `SyncProofs` both stand on it. The invariant of
`SyncBackend` is built in layers, each from those before:

1. `TypeInv`: what is in every store, message and local variable.
2. `PushInv`: a call has at most one request or job at the hub (`OneRequest`), and what it will take out of its
   outbox is carried by that request, or the log has it or something newer (`SentIsCarried`). With
   it `NoEditForgotten` is inductive, in both modes; nothing is said of order, hence nothing asked of
   overlap. An outbox must outlive its process, or no process end.
3. `Clocked`: a replica's clock is past every version it stores or has queued, and its outbox entries
   grow; this is `EditsFollow`. `Stamping` adds that no two versions written anywhere are the same. A clock that
   starts over breaks both, as `sync_restart_stamp` shows.
4. `Origin`: whatever is stored, queued, sent or served was written somewhere, so one version is one
   record.
5. `OrderInv`: per record, versions grow along the log and the push being served (`NewestLast`); a durable
   hub does not see the batch it serves, so that needs batches in order (`InOrder`), hence an ordered outbox.
6. `ReplicaInv`, while no local persist has thrown. Every row behind a replica's cursor is stored there,
   that version or a newer one, and will be after the next flush (`BehindCursor`); for the latter nothing queued
   may be older than what it replaces (`SaveIsNewer`). A call that was answered has a run of rows of
   the log still to apply, and its replica has those before it (`PullInv`). What it read of the
   local store earlier is no newer than what a flush would leave now (`FoundInv`): the application may have saved something
   newer meanwhile, nobody may have stored something older. Two calls of one replica break these
   (`sync_overlap`), and a persist that throws breaks the first, since `pull()` has moved the cursor
   already (`SyncBackend.ts:185`).

With nothing left to exchange, every committed write is in the log (2), every log row is behind every
cursor (6), so each replica stores something at least as new as any write (`NewestWriteWins`), and two records
of one version are the same (3, 4): the replicas agree.

**Field-level replicas.** `FieldInv` is about the form of what travels: without removes every record that is
stored, queued, cached, read, sent or served has a version for each of its fields, its own version is the newest
of them (`FieldRec`), and the clock of a replica is past all it holds (`HeldAt`); a hub has no conflicts to report.
It is inductive on top of layers 1, 2 and 4. What a step does to a record is one of three things (`RecordMoves`):
nothing, its flush or loss, or a new record from a save, a patch or a merge (`FreshAt`). `RiseInv` then says that
what is queued is not below what is stored (`SaveRises`), the version cache not below either (`CacheRises`),
and that a record still to be merged was read as it is stored now (`FoundIsStored`), and `FieldsNeverRegress`
follows. The last conjunct is where the hypotheses come from: a save during a pull, a second `reconcile()` of the
replica or a restart makes it false, and TLC finds the property violated with any of them. It does not with
removes, which `field_two` has: they would need another form of record, one with versions for some of the fields.

That a version of a field stands for one value (`VersionsTellValues`) is a statement about three copies of the
same thing: the stored record the dirty hint is compared with, the version cache a save starts from, and the
instance the application edits. `ValueInv` keeps them in step: the cache has exactly the versions of what a flush
would leave (`CacheExact`), what is queued is what the application saved last (`QueueOwn`, unless a pull is being
applied), so that between two calls the instance held is what a flush would leave (`HeldIsFlushed`). A save then gives
a field either a new version, which no known write can have, because a replica's clock is past all the stamps of its
own that are known (`OwnStamps`), or the version of the instance it edits. In the second case the hint found the new
value equal to the stored one; the number of the edit in each written value (`Counted`) shows that the field was not
edited, so the value is the instance's as well, and both were given together by a known write (`Sourced`). Each
hypothesis keeps one link: a persist that throws leaves the cache ahead of the store, a process that ends forgets
the clock, a patch and a first edit before any persist pass no hint, and a save during a pull finds the cache ahead of
the instance. TLC finds `OneValuePerVersion` violated with each of the five; overlapping `reconcile()` calls do
no harm here, and with removes it finds no violation, as long as nothing removed is created again.

**In-memory backend.** `IndexCoversStore` is inductive with the types; `UniqueHolds` needs it, since
the check looks at the index only, and so does the refinement: `ConstraintHolds` implies that
the result is unique. `LargestOf` supplies the last save of a record, which `After` and `IndexAfter`
are about.

**Caches and live queries.** Nothing tells a cache or a live query that it is out of date but an event, so whatever
answer is held must be explained by what is still to be told. `View(found, a)`: the answer of commit `a` is right of
every record except those of which an event of a later commit, or the end of a `patch()`, is to come that takes the record
into the filter or out of it (`FlipComes`). `RowView` says the same of the rows it loaded (`ValueComes`). The store
changes only together with such an event, so a `View` survives every write (`CommitTells`); it ends with the delivery
of an event that is later than the answer, and that event clears the cache, and wakes the query or was misjudged, and if the answer is
still under way it will arrive late. This is why the three exceptions are where they are: an answer that is not late when its rows
arrive is still a `View` then (`ReadsInTime`, `Held`), a cached result is one unless it is late (`ResultGood`), and what the latest
run found or shows is one, or is late, or a change was missed (`Counted` in `LatestGood`, `ShowsGood`). Once all has settled
nothing is to be told, and a `View` is what the store selects (`SettledIsTold`).

For instances the question is the same one record at a time: `Bad(u)` is an instance that no event, save or
`patch()` still to come will set right. None is made but by the events themselves, so the rows of the latest run set right
what is `Bad` (`SetsRight`), and after them none is (`NoneBad`). Between `Arrive` and `SetResult` news may come that makes
the result late; until then no instance needs older news to be right (`NoneStray`). The argument covers what the filter accepts: the wider
statement, of every record the list shows, is false (a native patch, Findings). `RunsOK` says that tokens tell runs apart: no two have
the same, none has a later one than the live query, so the one that may answer is the last that was started; with it `RunNewer`:
if that run has read the backend, it has read no less than is shown.

The proof has a step per action, sorted by what it does: the writes keep every `View` and make nothing `Bad`
(`KeepsAll`), the event ends the views of earlier commits (`ChangeKeeps`), reads move one answer on (`LookUpSafe` to
`SetResultSafe`), and the others leave the answers alone (`BesidesRuns`).

**Units of work.** `GuardStands` needs what calls do to the mode. `Orderly` says, as long as no two
transactions of the manager have overlapped: only a transaction connects and runs a callback
(`FnIsTransaction`), at most one is in flight (`OneAtATime`), and it found the mode at rest
(`FoundAtRest`), so what it restores is `none`. The proof sorts the steps by what they do to that: most
neither enter nor leave a callback (`Quiet`), four kinds do (`StartsInOrder`, `EntersInOrder`,
`RunsInOrder`, `LeavesInOrder`).

The fate of writes rests on a ledger. What a call carries depends on how far it is (`Carries`) and
what it is (`OfKind`); `Ledger` accounts for every number up to `hist.n` as queued, carried, landed, dropped or
forgone; `Apart` says that nothing is at two places as long as no answer of a commit was lost. `DiscardedStaysOut` and
`NoWriteVanishes` are read off it (`BooksBalance`).

`LastSaveStored` is about values. A save that lists its dirty columns is right only where the row has the
others, so the invariant `Undisturbed` says where those are. The saves are in the order they were made
(`Sequenced`) and calls do nothing but carry them (`Plain`), or else a reason in `hist.exempt` has been given; and either a
reason is certain to come (`Doomed`: rows written that will be taken back, or land after newer ones), or the row is
`Sound`: never ahead of what is still to be written (`RowBehind`), while the baseline (`BaseStored`), the events on their way
(`EmittedStored`) and every pending hint (`HintsSafe`) speak of values that are in the row, or in a commit that
will be there first. A batch that lands must leave each column as its last save has it (`LandingRow`). That
failed for several buckets and for a good reason: it is false, which is `units_bucketed`, and the lemma now holds for
batches that no bucket reorders. `~Reverts` is needed since the argument orders values of a column by age.

**Transport.** The actions fall into three kinds: those that leave the messages alone (`Still`), those that
number requests and send them (`Sends`), and those that move one message. `Correlated`: a number that travels,
to the server, at it or back, was given to one request, and no other that waits for an answer has it;
`failAllPending` and reconnects do not reset the counter, so this survives replies of a dead socket. `Once`: a
request is on its way, at the server or stored, in one place and at most once. `Truthful`: a positive reply, and a
resolved promise, stand for a stored change. (`Once` also says that a request at the
server is stored exactly when the server has noted so.) For the feed, `Announced`: once a change is stored, its event is
on the connection that asked, or has been heard from it, before any positive reply, and a command's reply will contain it,
since it subscribed before (`since`). The server may store a request of a connection that has broken in the meantime: nothing is
promised of such a one, and none comes back (`Attended`, `Stands`: no request is served on a connection the server never
had). Order
needs `OneAtATime`: while nobody calls `close()`, at most one socket is not closed and it is the one in `connecting`,
because only a close event clears that; then `Ahead`, what it has still to deliver is later than all that was
heard, is inductive. With `close()` it is false (`HeardOnce` above).

Only model-checked: liveness (`EventuallyAgree`, `EventuallyFresh`, `EveryRequestEnds`), which is out of the
prover's reach; the cutover; the query modules, which are defined by recursion over their data
(`tlapm` loses its SMT backend in a module with a `RECURSIVE` operator, and has no induction over data).

## 5. Not modelled

- `migrate.ts` (a crash between an engine's DDL and the row that records it), provisioning, schema
  fingerprints, property declarations and type-level inference.
- IndexedDB's open and upgrade protocol, and `persist` of IndexedDB, MongoDB and D1.
- The HTTP transport (one request per connection, no state), reads over the remote backend, unsubscribing
  listeners, a `close()` in the tick of a `request()`.
- Decorators that forward (hooks, metrics, the policy guard): no state across calls.
- Relations, soft deletes, `upsert` and `patchWhere` of `Repository`; a `page()` that answers from the
  result cache with instances edited locally.
- The cached rejection of `BackendSyncTarget.ensureReady`; custom conflict policies.
- Removals in `UnitOfWork`, and transactions over several backends.
- Floating point rounding, collations, and `search`.
