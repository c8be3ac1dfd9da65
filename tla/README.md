# TLA+ specifications of dataworks

This directory holds a formal model of the parts of dataworks in which ordering,
concurrency and failure decide whether the program is right: TLA+ modules, TLC
configurations that check them on small instances, and theorems checked by TLAPS
that hold for every value of the constants. `PROJECT.json` lists the components,
the runs, the source lines behind each definition, the mutations of the model
that each property detects, the hazards and the theorems.

Paths below are relative to the repository root unless they name a file here.

To check a model: `tlc -config MCAuditLogger.cfg MCAuditLogger`. To check the
proofs of a component: `tlapm AuditLogger_proofs.tla` (the catalog's are in
`ProductLifecycle_proofs.tla`, those of both kinds of settings in
`Settings_proofs.tla`).

## 1. The system and its parts

dataworks is one Go server (`cmd/dataworks`) on SQLite or PostgreSQL that
combines a gateway to language models (`/v1`), a factory and catalog of data
products (`/admin/dataworks`, `/v1/data-products`) and an operations hub for
Kubernetes clusters (`/admin/k8s`), fed by an agent (`cmd/clustara-agent`) in each
cluster. Several server processes (pods) may share a PostgreSQL database.

How they interact: HTTP handlers run concurrently and share the store
(`internal/store`), a few channels and mutexes, and atomically swapped
configuration. Background goroutines are started in `cmd/dataworks/main.go` and
`proxy.NewServer`. There is no lock around "read, decide, write" sequences of
the handlers; only single SQL statements, and the transactions the store opens,
are atomic.

### 1.1 Modelled

| component | state | operations | hard behaviours | what makes it correct |
|---|---|---|---|---|
| Audit logger, `internal/store/async.go`, shutdown in `cmd/dataworks/main.go` | bounded channel, writer's loop, three counters, `request_logs`, ndjson fallback file and its `.replay.tmp` | Enqueue, insert, write to the fallback, ReplayFallback, Stop, restart | full channel, ambiguous commit, replay against the writer, random `select` at shutdown, crash during a file swap, short writes | an accepted record is never forgotten without a fault; the counters account for every record; shutdown drains and ends |
| Collector agent and event ingestion, `internal/agent/runner.go`, `internal/collector/agent.go` | resourceVersion file, event channel, pending batch, offline queue file; server: event keys, inventory | list, watch, 410, flush, replay of the queue, apply a batch, SIGTERM, restart, pod replacement | checkpoint ahead of delivery, relist gaps, lost replies, batches behind a failed one, two statements per event | nothing taken is lost without a fault, events arrive in order, the inventory converges, the agent catches up |
| Data product catalog, `internal/store/data_products.go` | `data_products`, tombstones in `data_product_retired_keys`, row locks | UpsertDataProduct, DeleteDataProduct | `FOR UPDATE` locks nothing when the row is absent, delete against upsert, early return inside a transaction | a retired key stays retired, no key names two products, locks serialize |
| Lifecycle handlers and publish gate, `internal/proxy/admin_dataworks.go` and three more files, `internal/dataworks/domain.go` | the row and its status, what the gate reads, a copy per request | thirteen handlers from post to purge | stale copies written back whole, gate queries one by one, queries whose failure is passed over | a product is published only through the gate on its own evidence |
| Data product runtime, `internal/proxy/dataworks_runtime.go`, `dataworks_ratelimit.go`, `internal/store/dataworks_advanced.go` | contracts, grants, the limiter's windows in memory, the daily meter | the query handler, posts of contracts and grants, metering, restart | status, grants, contract and limiter are looked at one after the other while administrators change them; a window replaced by a straggler's; metering after the reply | data is served only under a contract that was in force, a denial has its reason, the ceiling holds, every answer is metered |
| Runtime settings, `internal/proxy/admin_settings.go`, `internal/store/admin_settings.go` | `admin_settings`, its change token, each pod's copy and last token | put, revert, batch, reload, poll, restart | token read after the load, a failed list taken for an empty one, two reloads on one pod, a token that returns to an earlier value | no change hides behind the token; every pod ends on the stored settings |
| Change sets, `internal/proxy/admin_change_sets.go`, `internal/store/change_sets.go` | the row of a set, its prior values, the settings | create to delete, apply and rollback setting by setting | a copy judged and written back whole, two applies at once, a write that fails half-way | nothing is written unapproved, an applied set is in place, rollback restores what was there |
| Statistics and retention, `internal/store/retention.go`, `analytics_rollup.go`, `clickhouse_watermark.go`, `internal/proxy/clickhouse_sink.go`, `admin_dw.go` | `request_logs`, `token_usage`, `analytics_daily`, ClickHouse, watermark, retry entry | worker passes, rollup, purge, sync, shipment, retry, administrators' posts | purge after a rollup that missed something, overlapping rollups, logs behind the watermark, lost replies | what is purged was counted; sums settle in both databases; logs are shipped, once |
| Facts by request, `internal/proxy/clickhouse_fact.go`, `internal/store/clickhouse_fact_retry.go` | bounded queue, the loop's batch, goroutines of events, `clickhouse_fact_retry` | enqueue, flush table by table, park a failed batch, replay, reconfigure, death | one table of several fails, replies lost, two replays of one batch, queue full or lost | each row is shipped, parked, under way or counted as dropped; once |
| Inventory collection, `internal/collector/snapshot.go`, `internal/kube/client.go`, `internal/store/k8s.go`, handler in `internal/proxy/admin_k8s.go` | `k8s_inventory`, `k8s_resource_revisions`, a snapshot in memory | list kind by kind, upsert, append a revision, prune | an old snapshot prunes what the agent has just added, two collections at once, an optional kind that cannot be listed | the inventory is what was listed; the history follows the rows |

### 1.2 Not modelled

| component | state and operations | why |
|---|---|---|
| Approvals, traces, evidence, quality, masking (`store/dataworks_governance.go`, `dataworks_ops.go`, `proxy/admin_dataworks_ops.go`) | rows per product; posted by administrators and by the regulatory sync, which writes back the expiries it has read | planned; the items of `ProductLifecycle` stand for them |
| Readiness and gate algorithm (`dataworks/domain.go`) | pure | planned; its verdict is `Needed` in `ProductLifecycle` |
| Facts of multi-model calls (`proxy/clickhouse_multimodel_fact.go`) | as the events of `FactSink`, with two readings of the configuration | planned |
| Alert worker, report schedulers, collect scheduler's cadence | last-fired, last-run and last-collected times, claimed by a read and a later write | planned as one small module |
| Secrets rotation (`store/secret_rotation.go`, `proxy/admin_secrets.go`) | four encrypted columns, the cipher in memory; commit and swap are two steps | planned last |
| Gateway pipeline, quotas, routing, caches, sessions | counters, caches with a time to live, a map under one mutex | its hand-over of records is the audit logger and the fact queue; the rest is per-request computation |
| MCP gateway and model router | none of its own | fan-out with a semaphore and a channel as large as the number of calls, which cannot block |
| Text2SQL, analyzers, cost reports | pure functions of text and floating-point numbers | string and float computation |
| Authentication, Keycloak, MCP OAuth | tokens, an external provider | the models start behind an authorised request |
| Kubernetes operations, ops agent, action cards | request rows with an approval state, an external cluster | planned late, if at all |
| Kubernetes and Prometheus clients, configuration, tracking, UI, web client, SDK, commands | | protocol clients, pure I/O, user interface |

## 2. The modules

| module | what it is |
|---|---|
| `AuditLogger` | the logger, one action per step of a goroutine |
| `AuditLedger` | abstract: what the logger promises about each record |
| `AgentCollector` | Kubernetes as a log of writes, the agent's two loops, the server's handler |
| `CatalogRows` | the rows, the transactions open on them and their locks, which the next two share |
| `ProductCatalog` | the store's two transactions, statement by statement |
| `ProductLifecycle` | the handlers and the gate; INSTANCEs `ProductCatalog` and runs its transactions |
| `ProductRuntime` | the query handler read by read, administrators, limiter, meter |
| `PodSettings` | a pod's copy of the settings and the token its loop compares with |
| `RuntimeSettings` | the settings table, its token, the requests and loops of all pods |
| `ChangeSets` | change sets over the settings table |
| `Warehouse` | rollups, retention, the sink worker and its watermark, day by day |
| `FactSink` | the fact queue, its loop and the replays of failed batches |
| `InventoryCollect` | snapshots against the agent's events |
| `MC...` | small instances |
| `..._proofs` | theorems, and the lemmas they rest on |

Definitions whose names end in `_Something` and stand just before a definition
(`Onward_Stops`, `Retire_NoTombstone`) are mutated forms of it: `PROJECT.json`
lists, for each property, the one that breaks it.

### 2.1 AuditLogger

`Begin`/`Enqueue` are a request's handler; `ch` is the channel, `Room` the test
that makes `select` take the `default` case. `wpc`, `cur` and `loop` are the
writer goroutine: `Take` receives, `InsertOK`/`InsertError` are
`InsertLogRecord` (an error may hide a commit), `Spill`, `SpillError` and
`SpillNowhere` are `writeFallback`. `rpc`, `todo`, `tmp` are `ReplayFallback`; it
holds `fallbackMu` from its open to its return, so `Spill` needs `rpc = "idle"`.
The replay ends with a remove and a rename, two actions. `Signal`, `Stop`,
`TakeDone`, `WriterReturn`, `Exit` are the shutdown in `main`; `Crash` and
`ShutdownTimeout` lose what is in memory.

A file is a set of lines, with one value for unreadable lines and one for an
unfinished last line, because the properties only ask which records can still be
read. A short write leaves the unfinished line, and the next line written in full is
glued to it (`Appended`), in the fallback file as in a replay's `.replay.tmp`. Whether a fallback path is configured is chosen once in `Init`.

`AuditLedger` has one status per record (unlogged, dropped, queued, spilled,
stored, lost). The refinement mapping computes the status from where the record is;
`hit`, the records a fault may have cost, is shared, so the abstract `Fault` can
lose a record only if a fault happened.

### 2.2 AgentCollector

`log` holds all writes of the cluster, entry i having resourceVersion i. `List`,
`ListEnqueue`, `ListDone` are `listCurrent`, which saves the version of the last
item; `Connect`, `WatchRead`, `Send`, `Bookmark`, `Disconnect`, `Expired` are
`watchOnce`: the version is saved in `WatchRead`, the event enqueued in `Send`.
`Receive` and `Tick` are `flushLoop`; `fpc`, `batch`, `pos`, `replayed` are the
progress of `flushEvents` and `replayQueued`. `Apply` handles one event on the
server; `ApplyTorn` is an error between the statement that stores the key and the
one that changes the inventory. `Signal`, `FinalFlush`, `Exit`, `Crash` and
`Replace` (a new pod with an empty volume) end a process.

The offline queue is a sequence of lines, each a batch or `<<>>` for what
`replayQueued` cannot parse and drops; `open` says that the last one has no newline.
A failed or interrupted `os.WriteFile` leaves some whole lines and perhaps part of one
(`RewriteCut`), a short append leaves part of its line or all but the newline
(`AppendCut`), and the next batch that is queued, though without any error, is glued to
the unfinished line and becomes unreadable with it (`Joined`). `missed` names exactly
the events that are gone by a death or by one of these writes.

One kind is watched; writes to other kinds advance the version (`Other`). Event keys
are the events themselves. What faults may happen, and how many of each, is
chosen in `Init` from the constant `Budgets`, so one run covers several
scenarios.

`blurred` collects the objects a relist leaves ambiguous in known ways: deleted
in the gap (`Vanished`; `runner.go:127` reports what exists, not what is gone),
delivered again under a key the server knows (`Rewound`, `Repeated`), or half
applied (`ApplyTorn`; `collector/agent.go:103`). `Converged` claims nothing
about these objects; `InSync` claims it of all, and fails.

### 2.3 ProductCatalog

An upsert is `LockRow` (SELECT ... FOR UPDATE), `CheckTombstone` or
`RefuseRetired`, `Write` with the commit; a delete is `LockForDelete` and
`Retire`, the tombstone and the DELETE in one commit; `Rollback` is any failure. On
SQLite the pool has one connection, so an open transaction excludes all others
(`Connects`); on PostgreSQL only row locks do (`Unlocked`), and a row that does
not exist has none. `SingleConnection` selects the database.

### 2.4 ProductLifecycle

A request is a record in `handler`: the row it is going to write, made from the copy it
read, its next gate query, and what the queries found. `Take` is the common
shape of ten handlers (look up, test the status, prepare a row) with a `from`
set and a set of rows per operation; `Post` needs no existing row; `Delete`
and `Purge` are the two delete routes, of which only the first looks at the
status. What the gate asks about is a set of items, some for the product and
some for each of its source assets (`Assets`). `GateQuery` makes one query of
`dataWorksPublishGate`, and readiness and quality take one query per asset
(`GateQueries`), so the evidence may change between two assets. `QueryUnread` passes
over a failed query for quality or contracts as the code does (the quality counts as in
order, the masking does not), `GateFails` is any other failure. `Needed` is
`EvaluatePublishGate` by risk profile: `approvals` are the three roles of the strict gate,
`consent` every step on record as required, whatever its name, which blocks a plain
product too. `OpenUpsert` ... `Fail` run the catalog's actions.
`Settle` and `Unsettle` change the evidence: other requests, assets, the clock.
History in the request: whether its copy was published (`public`), what was in
order at some moment while its gate asked (`held`), and what was never known to be because its query was
passed over (`unread`).

### 2.5 ProductRuntime

`h[c]` is a request in `handleDataProductQuery`: its stages follow the reads of
the code (list the grants, walk over them and read each one's contract, read the
chosen contract again, limiter, body, reply with the deferred metering). An
administrator's post checks the owner first (`posts`) and upserts later.
A listing holds the grants that permit before the others and the later written
before the earlier; `newer` keeps the times of writing as pairs of grants, and
`Orders(p)` are the orders in which the query and the sort after it can return
them. `windows` is the limiter's map, evicted when more than `MaxTracked`
contracts are in it; `Restart` empties it and ends every request and post. History: `steady` and `lately` are the contracts in
force all along and at some moment, `admitted` counts what the limiter let
through, `late` names the windows a call of an earlier minute has reset.

Three behaviours of the code are visible in it. A straggler of an
earlier minute resets a window, so the ceiling can be exceeded in that minute
(`late`). Two administrators who post the same new contract key at once can
move it from one product to the other. On PostgreSQL the metering upsert names
its columns ambiguously and is always refused (external: an SQL rule);
the model follows SQLite.

### 2.6 RuntimeSettings

`table` is `admin_settings`, a row being a value, a version and a time stamp;
`Token` is `AdminSettingsChangeToken`. A request is a sequence of items, each written
in a transaction of its own (`adm[a]`), then a reload of its pod. `loop[q]` is
`runtimeReloadLoop`: it seeds its token after the settings were loaded, polls,
and reloads. `gen` numbers the changes of the table, so that "older" can be
said. `misled[q]` names why a pod's copy may be older than its token: the seed, a
failed list (which puts the pod on its environment), an older list swapped in
last. `Fooled` is the other exception: a revert deletes the row, so a put and a
revert lead back to an earlier token, and overlapping writes may collide in it.

### 2.7 ChangeSets

`h[c]` is a request that has read a copy of the set (`Find`), writes setting by
setting and then the whole row. `base` is the value each setting had before the
set was first applied, `since[c]` the settings others have written after c,
`muddled` the sets applied once more without a rollback in between, applied after
a list that failed, or rolled back among rivals. The model shows that a
stale submit or approve takes an applied set back to pending and wipes its prior
values (`muddled`), that a retry after a failure half-way captures the new
values as prior ones, and that a rollback leaves the environment's value behind as an explicit row.

### 2.8 Warehouse

Time passes in slots; a slot is the `created_at` of at most one request and one
query, so equal time stamps are excluded. `job[p]` is a worker or a post at its next
statement; a job is a list of tasks. `daily[d]` and `dw[d]` are the sets of requests the day's
sums count, `retry` the single entry per dimension of `clickhouse_sink_retry`.
`spoilt` names days whose sums were ever written by a rollup that reached into
days under purge or overlapped another (it is never cleared); `missed` the logs stored behind the watermark.
Seen in it: a manual window as wide as retention sums up a day half purged; a
narrower later sync clears or overwrites the retry entry of a wider window that
failed (`clickhouse_sink.go:578`); a cycle that times out as a whole records no
failure.

### 2.9 FactSink

`Enqueue`, `Receive`, `Tick` are the queue and its loop; a flush reads the
configuration once (`loop.tables`) and goes through `LoopTables` in order
(`Skip`, `Insert`, `InsertFails`, `Park`, `ParkFails`, `FlushEnds`). `post[e]` is the goroutine of an
event. `replay[a]` is a request that replays: the batches it has listed and the
one it has sent and not yet forgotten. `dw` counts arrivals up to two: the fact
tables that merge make a second arrival harmless, the views that sum do not.
`unset`, `lost` and `again` name the excused causes: a table that was not
configured, a death or a failed write of the retry table, a reply or a deletion lost or two
replays of one batch.

### 2.10 InventoryCollect

`world` is the cluster, `watched` what the agent has still to send. A collection
(`job[c]`) probes, lists kind by kind, stores row by row, appends revisions
and prunes what it did not list; the agent's batch does the same per event with
one time stamp. `due` is what a collection is to leave behind, `touched` the objects others have
written since it listed them: an old snapshot overwrites or prunes what
the agent has just written until the next collection. `unsure` names objects whose history may not
follow: two writers met, a late time stamp, a writer cut off, a revision id taken.

## 3. What is checked

All bounds are in the cfg files. Times are minutes or less for each run.

| run | shows | bounds |
|---|---|---|
| `audit_logger` | `CountersAddUp`; `NothingVanishes`; refinement of `AuditLedger`; `Settles` and `StopReturns` under fairness | 3 records, channel of 2, one death or file error, restarts unbounded |
| `agent_faults` | `NothingSkipped`, `InOrder`, `Converged`; `CatchesUp` under fairness | 2 objects, 3 writes, channel of 1, batches of 2; either a death and an error (of a list, a post or a write, cut anywhere), or a compaction and a half-applied event; 1.6 million states, 3 minutes |
| `agent_restart` | a documented promise the code does not keep (section 6) | 1 object, one death |
| `catalog_postgres` | `LocksKeepTheirRow`; `TransactionsEnd` under fairness | 3 clients, 1 key, 3 insertions |
| `lifecycle_all` | `OneLife`, `RetiredStaysGone`, `PublishIsGated`, all thirteen operations | SQLite, 2 clients, 1 key with 2 source assets, sensitive draft posted, any query passed over or failed, readiness of one asset lost at any time; 2.6 million states. No quality result fails here |
| `runtime_queries` | `ServedInForce`, `DenialIsJust`, `MeterMatches`, `LimitIsKept` | 2 clients, 2 administrators, 2 products, contracts and grants, 2 minutes, ceilings 0 and 1; up to 3 queries, 3 edits, a fault |
| `settings_pods` | `NeverBehindItsToken`; `Converges` under fairness | 1 pod (the others write through requests), 2 administrators, 2 keys, 3 edits, or 2 with a fault and a restart |
| `change_sets` | `ApprovedFirst`, `AppliedInFull`, `RollbackRestores` | 2 clients, 2 sets that share a setting, 5 requests and an edit, or 4 with a fault |
| `warehouse_shipped` | `PurgedIsCounted`, `NothingLeftBehind`, `OnceEach`, `SumsSurvive`; `Settles` and `Ships` under fairness | 3 days of 2 slots, retention of 2 days, rollup of 1, sink window of 2, backfill of 3 slots, shipments of 1; ten mixes of workers, posts, failures and kills |
| `facts_shipped` | `Accounted`, `OnceEach`; `Shipped` under fairness | 3 requests (one with rows for two tables), 1 event, queue of 1, batches of 2, 2 replays; four mixes of faults, a change, a death |
| `collect_races` | `SnapshotIsExact`, `RevisionsFollow` | 2 collections, 2 objects of 2 kinds (one optional), 2 specs, 1 change and 2 collections, or 2 changes and a collection with a fault |
| `collect_history` | a comment the code does not keep (section 6) | one undisturbed collection of two objects |

`TypeOK` of the audit logger, the agent, the catalog, the lifecycle and the fact
sink is proved and not run; the runs of the other five modules check theirs.

Why these bounds are enough to meet the interesting cases. Three records on a
channel of two fill the channel while the writer holds one and leave one to be
dropped; a replay then has a line to import, one to keep and a writer waiting for
the mutex. Two objects and three writes let an object be
created, deleted and created again while another follows it in list order, and a
channel of one makes the watch wait for the flush. `MaxBatch = 2` has full and
partial batches. Two clients are enough for a stale copy, a lost lock and a
racing delete, a third for a lock that is passed on; keys do not interact.
Two source assets are the least that can be asked at different moments.
Insertions are bounded by `MaxLives`: only a client that passed the tombstone check
before the delete can insert again, so no more than one per client are possible.
Two grants on two contracts let a contract stop being in force after it was
chosen; three calls in two minutes meet an old window, a full one and a straggler.
Two settings in a batch, with an earlier value of one, let a token be read between
the writes and come back after a revert. Two change sets that share a setting are
the least that can disturb each other's prior values. Three days with a
retention of two let a day leave every window. Two tables for one request let one fail and the
other succeed; a queue of one behind a batch of two drops the third. Two collections, or one and the
agent, are enough for every pair of writers of a row. The kinds of event that happen and how many of each
(`Budgets`, `Setups`) are chosen in `Init`, so that one run covers several
mixes where all of them at once would be out of reach. The models stop when these are used up, hence
`CHECK_DEADLOCK FALSE`: the real system also rests when no request arrives.

### Fairness

* `AuditLogger`: weak fairness of the writer, of a running replay and of `main`,
  since the Go scheduler runs every goroutine that can run. Strong fairness of
  `WriteFallback` alone: it needs a mutex that replays take again and again, and
  `sync.Mutex` goes into starvation mode after a millisecond. Nothing forces a
  request, a replay, a signal or a fault.
* `AgentCollector`: weak fairness of the watch loop and of the flush loop (its
  tickers come back), strong fairness of `WatchRead` because a watch may break
  and reconnect for ever in between, and of `FinalFlush` or `Exit`, because
  `select` picks at random among the context and the channel. A stopped pod is
  restarted by its Deployment. No fairness of writes, compactions or errors;
  each of these is bounded by the budgets.
* `ProductCatalog`: strong fairness of each transaction's next statement: row
  locks are granted in the order of a queue, so one that becomes free again and
  again reaches every waiter.
* `RuntimeSettings`: weak fairness of a handler's next step and of each pod's
  loop, whose ticker comes back.
* `Warehouse`: weak fairness of the passes of the two workers (tickers) and of
  what has begun. A worker without an interval never starts, and `Settles` and
  `Ships` then say nothing.
* `FactSink`: weak fairness of the loop, whose ticker flushes a partial batch,
  and of the goroutine of each event.

## 4. What is proved

For every value of the constants allowed by their named assumptions (sets of
any size, any queue size, any bound on faults), and without fairness:

* `AuditLogger_proofs`: `TypeCorrect`, `CountersAreExact`, `NoRecordVanishes`,
  `ImplementsLedger`. `NothingVanishes` is not inductive: that an
  insert leaves a record kept depends on where the other copies are. `Safety` proves it with `WriterInv`
  (where process, writer and replay stand during a shutdown: a stopped writer leaves
  an empty channel and no request or replay behind), `PlaceInv` (a record in the
  channel, the writer's hands or the file was accepted, and is in one of them only),
  `ReplayInv` (each line of the fallback file is in `todo`, was imported, is in `tmp`
  or was hit by a fault while a replay scans; during the swap the file is empty) and
  `FaultInv` (a record that was hit, or a torn line, needs a fault or a missing path).
  The refinement then has one case per action: each moves one record, none, or
  is the abstract `Fault`.
* `AgentCollector_proofs`: `TypeCorrect`, `NoEventSkipped`, `EventsInOrder`,
  `QuietConverges`. The invariant adds
  `Shape` (where the watch and the flush loop stand together) and
  `Progress` (what a flush has posted of the batch in hand and of the offline
  queue is known to the server). `QueueStep` says all a step can do to the queue, short
  writes and glued lines included: it thins the queue (lines dropped or turned unreadable, the others in
  their order) or appends a line. The central lemma, `Conserved`, says that no step
  but a pod's replacement (argued by itself) loses an event from the channel, the
  batches or the queue without telling the server or recording it in `missed`.
  The other two rest on the order of what is on its way: for any relation R between
  events, `InLine(R)` says that the queue file, the batch, the pending events, the
  channel, the rest of the list and the watch's hand follow one another by R, and
  `InLineStep` that no step disturbs it but a list or a read whose new events are not
  behind all others by R. `Behind`: what the server does not know yet is
  behind the event it is about to apply.
  `EventsInOrder` (the property `InOrder`) takes for R the order of the log above the
  last list (`Line`, with `Versions`: no event is younger than the log nor, above the
  last list, than the saved version).
  `QuietConverges` (the property `Converged`) needs `FollowInv`: from a list until its
  version is given up, of each object in no doubt either the last write is still to
  come and unheard of, or at most one write is to come and the line `Leads` to the
  live version: some event that brings it has no stale one behind it (R is
  `Before`), or nothing is on its way and the row is right. `Written` and `Real` tie live versions and
  events to writes of the log. The work is in a list (`ListFollows`: what
  `Vanished`, `Repeated` and `Rewound` leave out is just what it needs), in a read of the watch
  (`ReadFollows`) and in the server's step (`ApplyFollows`).
* `ProductLifecycle_proofs`: of the catalog, whose rows are those of the handlers here,
  `CatalogTypeCorrect` and `LocksSerialize` on both databases. `SerialInv` is what a single
  connection gives: at most one transaction is open, a key that has lived and has no row
  is retired, and a transaction past its tombstone check has seen the key as it still is.
  Of the lifecycle, `TypeCorrect`; `KeysLiveOnce` and `RetiredForGood` on SQLite, which
  follow from `SerialInv`, since the handlers change the store by the catalog's actions
  only (a lemma, true by the way the module is built); `GateGuardsPublishing` on
  both databases, for any number of source assets and any item that lapses, from
  `Bound` (an open transaction carries the row its handler wants, and its gate has
  allowed it) and `Backed` (the transition is lawful, and each item a gate saw was in
  order at some moment while it asked, or was passed over).
* `FactSink_proofs`: `TypeCorrect`, `NothingForgotten`, `RowsOnce`. `Accounted` is not
  inductive: when a flush ends, or finds ClickHouse switched off, the loop lets
  go of its records at once. The invariant adds `ConfInv` (what waits in the queue or the
  batch is configured or `unset`), `FlushInv` (the same of a flush and the tables
  it has read), `ServedInv` (the rows of the tables a flush has been to are
  settled) and `ReplayInv` (what a replay is about to forget has arrived). `Lasting`
  says that no step takes back what a row has come to; `StepCarries` and
  `NewRows` that the owner of a row that is not settled keeps it. `RowsOnce` (the
  property `OnceEach`) needs `OnceInv`: the line holds each request once, and a row
  whose fate is not in `again` is to come (not in the table and in no batch), in one
  batch that one replay works at, or in the table. It takes `TablesAssumption`, that the loop
  visits no table twice, which is the literal list in the code.
* `Settings_proofs`, of `ChangeSets`: `TypeCorrect`, `OnlyApprovedIsApplied`, `AppliedIsInPlace`,
  `RolledBackIsRestored`.
  `TypeInv` adds to `TypeOK` where a request may stand (`Stands`). `ApprovedFirst`
  needs `ApprovedInv`: a row that says approved is of a set that was approved, which no
  write-back of an older copy can undo. `AppliedInFull` needs `PlaceInv`: what an apply has
  still to write is the end of the proposal (`Ends`), and what is before it is in place or
  was written by others since (`Placed`). It assumes `KeysOnce`, that no set names a
  setting twice: the code accepts such a set and its last item wins.
  `RolledBackIsRestored` (the property `RollbackRestores`) does not: it needs `RestoreInv`.
  While a set is not `muddled`, an applied row, the apply itself and every rollback hold
  the values its one apply found (`Found`), and what a rollback has written so far is restored.
* `ProductRuntime_proofs`: `TypeCorrect`, `OnlyInForceIsServed`, `DenialsAreJust`,
  `MeterIsExact`, `CeilingsHold`, each from an invariant of its own on top of
  `PlaceInv` (what a request holds at each stage: a chosen grant is one of its
  listing and permits). `ServedInForce` needs `ForceInv`: a request that has chosen knows
  every contract that was in force since, so the one its second read finds in
  force is among them, however it is posted over afterwards. `DenialIsJust` needs
  `WalkInv`: the grants that permit come first in the listing, so when the walk
  meets one that does not, or the end, every permitting one has been passed over,
  and a contract passed over was not in force all along unless a read failed
  (`broken`, which ends in an error and not in a denial). `MeterMatches` is
  inductive over `PlaceInv`; the work is in `Owed`, a set of requests that one
  request enters or leaves at a time. `LimitIsKept` needs `WindowInv`: a window
  counts the calls of its minute exactly unless a straggler disturbed it, and a
  minute without a window has none, is over or was disturbed. That a listing is
  finite takes `FiniteAssumption` (clients and grants are finitely many).
* `Settings_proofs`, of `RuntimeSettings` (as an instance: the two share no state):
  `NoChangeHides`. `NeverBehindItsToken` needs `TokenFirst`: a
  poll carries a token read before its list. `SwapAbreast` says what a swap does
  to a pod that may be in the middle of another reload. Tokens are compared and
  never looked into, so no type is proved of them: that `Token` is three numbers is
  an induction over the settings (a sum and a maximum).
* `Warehouse_proofs`: `TypeCorrect`, `PurgedStayCounted`, `WatermarkIsSafe`, `ShippedOnce`
  and `SumsForgetNothing`, for any number of administrators and days, any shipment
  limit and any mix of faults. `TypeInv` adds `Sound` to `TypeOK`: the tasks of a job fit
  its process, what it lists and counts exists, and only the retention worker's rollup
  remembers the rows it found (`seen`). `PurgedIsCounted` needs `CountInv`: the rows the
  worker found when it began are stored until it purges, those of the days it has been
  over are in the sums or their day is in `spoilt` (`Kept`), and what it is about to write
  of the day in hand contains them. `NothingLeftBehind` needs `MarkInv`: of what is as old as a
  log in a shipment, each is in the shipment, shipped or missed (`Ahead`); that
  a shipment takes the oldest logs (`OldestClosed`) is where the order of the query
  matters. `OnceEach` needs `OnceInv`: one shipment is afloat at a time (`Single`), it begins
  after everything shipped (`Alone`), and the watermark is as new as all of it unless
  the shipment has landed and has still to move it (`Behind`). `SumsSurvive` is a
  property of steps and needs `SumsInv`: a sum counts requests of its day that
  are stored or older than what retention keeps (`Held`), and a rollup that reaches back no
  further than retention, undisturbed, holds at least what the sums it will
  overwrite do (`Covered`). All five take `RetentionAssumption`, that retention keeps more
  than the days the worker sums up, as the defaults (90 and 3) do; nothing is claimed for an
  installation that keeps fewer. What an administrator sums up may be wider, which the property excuses.
* `InventoryCollect_proofs`: `TypeCorrect`, `SnapshotsAreExact`, `RevisionsAreKept`.
  `SnapshotIsExact` needs `SnapInv`: for each object whose kind a collection has been through,
  what the collection has still to do `Leads` to what is due: the row is already so, or
  another writer touched it, or it is in what is to be stored or pruned. `RevisionsFollow` needs
  `Recorded`: an object with revisions has a newest one, and unless it is `unsure` the
  newest is `InStep` with the row, or the one writer at work on it is about to append
  it with a time stamp that is late enough. The lemmas on `TopsOf` and `NewestOf` say
  what appending does to the newest revision. `KindsAssumption` says that a collection
  goes through each kind once and that objects are finitely many, as the target list in the code.

Only model-checked: liveness (`Settles`, `StopReturns`, `CatchesUp`,
`TransactionsEnd`, `Converges`, `Ships`, `Shipped`), which is beyond the prover, and
`TypeOK` of `RuntimeSettings` for the reason above. Every other property of a passing
run is a theorem. On PostgreSQL `OneLife` is false (section 6).

The leaves are kept small: every proof also passes when the provers are given
half of their usual time.

## 5. What the models leave out

The content of records, rows and events; wording and formats of responses;
authorization; HTTP itself except that a reply may be lost. In `AuditLogger` the
order of lines in a file. In `AgentCollector` several kinds at once (each has its
own loop and version, they share the channel and queue), several pages of a list
beyond "a page may fail", and heartbeats other than as the ticker of an empty
flush. In `ProductCatalog` columns and the separate `id` of a row: a handler's
look-up "by id or key" (`store/data_products.go:180`) always finds the row of the
key. In `ProductLifecycle` what the gate merely warns about, and that the
evidence is itself rows written by handlers (planned); a product without source assets, which the
strict gate always blocks (`dataworks/domain.go:110`). In `ProductRuntime` other
API keys, customers, masking and the fields of the answer. In `RuntimeSettings`
validation, secrets, history, and clocks that disagree; a reload stores its settings in one
step, where the code stores one category after the other (`proxy/admin_settings.go:662`), so
two reloads at once can also leave a mixture of two lists: like an older list swapped in
last, it stays until the token changes again. In `ChangeSets` dry runs
and items of other kinds. In `Warehouse` four of the five dimensions, equal time
stamps, the tables that retention purges on their own, and the limit of 5000 rows,
newest day first, of what a shipment of sums lists (`store/analytics_rollup.go:91`,
`proxy/clickhouse_sink.go:192`): it is out of reach for the total of each day, and for
dimensions with many values a longer window is shipped in part and taken for shipped. In `FactSink` the order
and the limit of 500 of a replay, and facts of multi-model calls. In
`InventoryCollect` the scheduler's cadence (a collection may start at any time),
the cluster's own row, events, metrics and findings.

## 6. Where the code and its documentation differ

Two are counterexamples of runs; `PROJECT.json` quotes the lines.

1. `agent_restart`: the checkpoint is saved before the event is in the channel
   (`agent/runner.go:231`), so a restart resumes after events that no file holds.
2. `collect_history`: a revision's id is the spec's hash and the time of
   observation (`store/k8s.go:888`), so of several objects with equal specs in one
   snapshot only the first gets a revision, against
   `collector/snapshot.go:74`.

Seen while modelling, and excused by name in the properties:

* The version saved after a list is its last item's: the watch delivers again what
  the list reflected (an object created again shortly before is deleted by
  the replay, its second ADDED dropped as a duplicate), and when it is older than the
  last compaction every relist saves it again and the agent never watches
  (`Rewound`, and the second half of `CatchesUp`; `docs/K8S_AGENT.md:8`).
* A short or interrupted write of the offline queue leaves an unfinished line
  (`agent/runner.go:458`, `:478`); the next batch queued is glued to it, and both are
  dropped as one corrupt entry (`:435`) although the second write reported no error (`missed`).
* An event that was half applied is dropped as a duplicate when resent
  (`collector/agent.go:103`); an object deleted while the agent was not watching
  stays in the inventory (`agent/runner.go:127`).
* On PostgreSQL an upsert that found no row can insert a second product under a key
  retired in between (`store/data_products.go:225`), so `OneLife` is run and proved
  for SQLite.
* The outcome of a PoC publishes a product around the gate
  (`proxy/admin_dataworks_ops.go:1027`); an approval withdrawn between the gate's
  query and the write does not stop the publication
  (`proxy/admin_dataworks.go:930`); readiness and quality are asked asset by asset
  (`proxy/admin_dataworks.go:1897`, `:1808`), so the assets of a published product need not have been
  ready all at the same moment; the status that permits a delete is read
  before the delete's transaction (`proxy/admin_dataworks.go:1996`).
* A setting that is put and reverted can leave the token as it was
  (`store/admin_settings.go:50`).
* The retry of the sink takes the entry of the Text2SQL facts for a dimension of
  the daily sums (`proxy/clickhouse_sink.go:317`).
* Replays count again in the views that sum, although the fact tables merge
  (`proxy/clickhouse_fact.go:18`, `:52`, `:74`), and the fact queue is not drained
  at shutdown, although `internal/config/config.go:308` says that every completed
  request is shipped.

## 7. Plan

Order: the behaviour that loses or wrongly exposes data first. Done: the modules
of section 2. What is left, in this order:

1. `ApprovalSync` and `PublishGate`: approvals as rows with expiry, posted and
   synced concurrently, in place of `Settle` and `Unsettle`; the gate's decision as
   operators checked against a reference definition over all small inputs.
   Hazard: `admin_dataworks_ops.go:617`.
2. Secrets rotation (`admin_secrets.go:87`); one module for the claims of the
   alert worker, the report schedulers and the collect scheduler.
3. Facts of multi-model calls in `FactSink`; approval states of Kubernetes
   operations.

The runs are kept to a dozen, so that all can be repeated often: room is
made by folding scenarios into one run through `Budgets`, by leaving the type
invariants to their proofs, and by keeping of the findings of one cause only
the clearest run.
