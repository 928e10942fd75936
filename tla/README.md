# TLA+ models of the TiDB Fivetran connector

The connector copies TiDB tables into a Fivetran destination from a bucket: a
dump under `snapshot/` first, then the changes TiCDC's storage sink keeps
writing under `increment/`. It runs again and again. Between two runs Fivetran
keeps one JSON object, the *state*, as of the last `checkpoint` operation the
run sent; everything the connector knows of what it has done is in there. These
modules model that protocol, check it with TLC on small instances and prove
part of it with TLAPS for every instance.

Paths and line numbers below are relative to the repository's root.

## 1. The system

### Components

| component | source | state it keeps | operations |
|---|---|---|---|
| update entry point | `app.py`, `connector.py` | none | `update`: validate, read the catalog, normalise the state, `sync_snapshot`, then `sync_incremental` |
| incremental sync | `increment/reader.py` | per run: checkpoint-ts, work items, position in a file | fast path, scan, schema marker, DML range, emit a row, stop at the checkpoint-ts, end |
| snapshot sync | `snapshot/reader.py` | per run: table, file, row | tso check, skip a done table, empty table, upsert a row, end of file, end of table |
| connector state | `state.py` | the JSON state: snapshot entries, stream cursors, watermarks, last commit-ts per table, last seen checkpoint-ts | normalise, migrate old cursors, look up a cursor, pending work, compaction, watermark, checkpoint policy |
| increment paths, CSV rows, table definitions | `increment/paths.py`, `csv.py`, `schema.py` | none | parse index paths, rows from an offset, schema files |
| metadata catalog | `metadata/catalog.py` | none | tables of the dump, filter, name mapping, dump position |
| object store | `storage/` | none | list, read, open; local or S3 |
| Fivetran operations | `fivetran/` | none | upsert, delete, truncate, checkpoint, schema |
| type mapping, configuration | `type_mapping.py`, `config.py` | none | pure |
| deployer job | `deployer/runner.py` | a temporary file | run `fivetran deploy`, look up two ids, write a result |
| observability, errors | `observability.py`, `errors.py` | timers | log lines, exception classes |

Outside the repository: the upstream tables, TiCDC's sink, the dump tool, and
Fivetran, which applies operations, keeps the state and reruns the connector.

### Interactions

```
 upstream + TiCDC --files, CDC.index, schema files, metadata--> bucket
 bucket --list/read--> sync_snapshot / sync_incremental
 sync_* --upsert, delete, truncate--> destination
 sync_* --checkpoint(state)--> Fivetran --state--> the next run
```

The connector has one thread. It shares the bucket with a writer that never
stops, and the destination with the runs before it, which may have been killed
anywhere. So an operation and the checkpoint that acknowledges it are separate:
what was sent after the last checkpoint has happened in the destination and is
unknown to the next run.

### What is hard

* A kill between any two operations, and the replay that follows: of rows, of
  the rest of a file, and of truncates.
* The sink writes files, schema files, date directories and a new checkpoint-ts
  while a run scans and reads with the checkpoint-ts it read at its start.
* Rows of several table versions, dates, partitions and tables are merged in one
  order; a row of an old version after a truncate would resurrect data.
* Six cursor fields per stream say what has been read. They must survive stops
  inside a file, kills, date changes and compaction.
* Two cut-offs, at the snapshot's tso and at the checkpoint-ts, each either
  inclusive or not.
* A shortcut (the fast path) that trusts a timestamp saved before the work it
  stands for is done.

### What makes each component correct

* *incremental sync*: nothing below the saved cursors is missing from the
  destination; nothing false is ever in it; a run that gets to its end has
  delivered everything up to its checkpoint-ts; it gets there; a replay is
  bounded; the fast path is taken when and only when nothing is left to read;
  the commit-ts check complains of no well-formed feed.
* *snapshot sync*: a table marked done is complete; rows of two dumps are never
  mixed; a done table is never upserted again; the load completes.
* *connector state*: compaction and watermarks never give up saved progress and
  never leak from one table to another; old cursor formats are migrated
  conservatively.
* *increment paths*: every directory layout TiCDC can write is discovered, and a
  path is given its table, version, partition and date.
* *metadata catalog*: a filter selects what its rules say, in whatever order
  they are written; a table is loaded from all of its own files and no others,
  although the dump may be half written when the run begins.
* *object store*: a key that was listed opens the object it was listed for,
  in a bucket shared with anything.
* *deployer job*: one result is written on every path, and the temporary file
  with the configuration is removed.

## 2. The modules

| module | models | lines of Python |
|---|---|---|
| `TiCDCSink` | upstream and sink, external to the repository | from their use in `increment/` |
| `ConnectorState` | the incremental half of the state | `state.py:22-80, 189-309` |
| `IncrementalSync` | `sync_incremental` against a live sink, with kills and a changing catalog | `increment/reader.py` |
| `IncrementScan` | directory layouts, their names, and the cursors of an earlier release | `increment/paths.py`, `increment/reader.py:156-288`, `state.py:83-163` |
| `SnapshotSync` | `sync_snapshot`, with kills and replaced dumps | `snapshot/reader.py`, `state.py:38-49, 169-182` |
| `ObjectStore` | listing and looking up keys in either store | `storage/object_store.py` |
| `Discovery` | catalog, dump position and files of a dump being written | `metadata/catalog.py`, `snapshot/reader.py:18-25, 76-104` |
| `Deployer` | the pods of the deployment job | `deployer/runner.py` |
| `ResumableFeed` | what the connector promises, abstractly | |
| `IncrementalFeed`, `SnapshotFeed` | how `IncrementalSync` and `SnapshotSync` keep that promise | |
| `MCIncrementalSync`, `MCSnapshotSync`, `MCIncrementScan`, `MCDiscovery` | constants of their instances | |
| `IncrementalSyncProofs` | proofs about `TiCDCSink` and `IncrementalSync`: the stability of history, types, and what the destination shows | |
| `IncrementalProgressProofs` | the invariant of what is read, delivered and saved | |
| `IncrementalDeliveryProofs` | what follows from it, and the refinement `IncrementalFeed` | |
| `IncrementalAlarmProofs` | the commit-ts check, and how much a kill repeats | |
| `IncrementScanProofs` | proofs about `IncrementScan` | |
| `SnapshotSyncProofs` | proofs about `SnapshotSync`, and the refinement `SnapshotFeed` | |
| `DiscoveryProofs` | proofs about `Discovery` | |
| `DeployerProofs` | proofs about `Deployer` | |

`IncrementalFeed` extends `IncrementalSync`, which extends `ConnectorState`,
which extends `TiCDCSink`; `SnapshotFeed` extends `SnapshotSync`; `Discovery`
extends `ObjectStore`. The two feeds instantiate `ResumableFeed`.

Operators named `Fault_...` are plausible mistakes in the definition that
follows them. No specification uses them; substituted for that definition, each
breaks a property, which shows that the property can be broken.

### `TiCDCSink`: what the code relies on

A table's changes carry commit timestamps and belong to the table version of
the last DDL. A stream is (table, version, partition), the code's stream key.
`CommitRow` appends a change to the stream's buffer, `Flush` turns a buffer into
the next numbered file of the current date directory and updates its index,
`RollDate` opens the next date directory, `DDL` writes a schema file once the
changes before it are written, and `Publish` advances the checkpoint-ts of
`increment/metadata` to a timestamp that no buffered change is at or below. Several keys may change at one
timestamp, as in a transaction. `Restart` is a sink that lost its place above the
checkpoint-ts: a stream's rows above it are written once more, to new files, in
any order their commit timestamps allow. A file is never rewritten. `MaxFiles`
bounds restarts, 0 excludes them. `date = 0` is the layout without date directories;
`MaxDate = 0 \/ Partitions = {0}` holds because the reader cannot find a
partition that has date directories under it (section 6, number 4).

`LastChange(t, k, c)` is the last thing that happened to key `k` of table `t` up
to timestamp `c`, and `Truth(t, c)` the table as of `c`. A destination cell
carries the timestamp of the change that put it there, a history variable that
tells old and new values of a key apart; the code never reads it.

### `ConnectorState` and `IncrementalSync`: state and actions

| TLA+ | code |
|---|---|
| `mem`, `saved` | the `state` dict of the run; what the last `checkpoint` sent |
| `Cursor` fields `lastDate`, `lastFile`, `curDate`, `curFile`, `row`, `latest`, `lastTs` | `last_date`, `last_file_index`, `current_date`, `current_file_index`, `row`, `latest_index_file_index`, `last_commit_ts` |
| `wm`, `tableTs`, `seen` | `ddl_watermark`, `commit_ts_by_table`, `last_seen_checkpoint_ts` |
| `catalog` | the tables `discover_catalog` returns |
| `loaded` | the tables whose snapshot entry is done |
| `snap` | `snapshot.snapshot-tso`, once a table is done |
| `ckpt`, `needs`, `work` | `checkpoint_ts`, `needs_checkpoint`, `items` not processed yet |
| `item`, `at`, `unsaved` | the item, `file_index` and row offset of the loop, `rows_since_checkpoint` |
| `SkipRun`, `StartRun` | lines 407-460: the guards and the fast path, after `normalize_state` compacted |
| `ScanTable` | `_scan_visible_inputs` for one table |
| `IsNext` | the sort of the items, line 510 |
| `SkipMarker`, `HandleMarker` | `_handle_schema_marker`: truncate, watermark, checkpoint |
| `SkipOldRange`, `SkipReadRange`, `OpenRange` | lines 536-610 |
| `SkipRow`, `StopAtCheckpoint`, `RaiseFallback`, `EmitRow` | one turn of the row loop, lines 611-668 |
| `FinishFile`, `FinishRun` | lines 670-735 |
| `Crash`, `CrashAfterRow`, `CrashAfterTruncate` | a kill, between any two operations |

An action is the code between two effects another actor can see. Choices that
need a word:

* *The scan of one table is one read.* Listings and index reads of a table are
  spread over time in the code. The files of a stream only grow, an index read
  later only names more, and what a later read adds beyond an earlier one is
  above the checkpoint-ts or read by the next run; tables are scanned one by one
  with the sink running in between.
* *The items of a table come in the code's order, tables in any order.* The sort
  key ends with the table's name; names are data.
* *The destination applies an operation when it is sent.* A run whose last
  operations are lost is the run that was killed before it sent them, so kills
  cover that too. A checkpoint and the operations before it are applied in
  order.
* *The checkpoint policy* counts rows; the seconds it also counts may run out
  after any row, so `EmitRow` may always save and must when `Interval` rows
  are due.
* *A stream without an entry is the all-zero cursor*: every reader of the state
  treats them alike.
* *The snapshot of some tables is one step* (`LoadSnapshot`): `sync_incremental`
  returns until every table of the catalog is done, and `SnapshotSync` is the
  model of how a table gets done. Any tables not done yet may be, at the tso of
  the first. Changes after the first load have a larger timestamp than the tso.
* *The catalog changes between runs* (`Refilter`), among the sets in
  `Catalogs`. What normalising the state then drops is `Compact`: cursors and
  commit-ts of tables outside the catalog, not their watermark nor their
  snapshot entry.
* *`_needs_checkpoint`*, a key `normalize_state` leaves in the dict, is `needs`
  as far as the run goes. A checkpoint of the snapshot saves it along; all it
  can do is save the same state once more.
* Left out: columns, header rows, dispatcher ids, file name widths, logging.

### `SnapshotSync`

A dump file is the number of its rows. `loaded[t]` is a history variable: which
rows of which dump have been upserted. `StartRun` is `set_snapshot_tso` and its
checkpoint, `RefuseRun` its error; `SkipDone`, `NoFiles`, `OpenTable` start on a
table, `UpsertRow` is one row with its checkpoint policy, `NextFile` and
`FinishTable` are the ends of a file, `Crash` and `CrashAfterUpsert` the kills.
The end of a file resets the cursor to row 0 *of that same file*, as lines
163-164 do, so that a kill right then makes the next run repeat it. `Redump`
replaces the dump between two runs.

### `IncrementScan`

One table version, with files in directories: none, one per date, one per
partition, or dates below partitions. A name is its form (four digits, month,
day, other digits) and its place in string order, which is all the code's tests
see of it: `LooksLikeDate` is the generous test of the scan and of the
migration, `ParsesAsDate` that of `parse_index_path`. `Init` starts from an empty
state, or from one that an earlier release could have left, with a cursor per
index path; `Migrated` is what `normalize_state` makes of it. A run scans
(`StartRun`), opens, reads and finishes files, stops before any row
(`StopAtCheckpoint`; timestamps are left to `IncrementalSync`) or is killed.

### `ObjectStore` and `Discovery`

A key is the sequence of the names between its slashes; a name has a text and a
kind, so that the one thing S3 does with text, matching the beginning of the
last name, can be said (`Matches`, with `BeginsWith` saying which texts begin
which). `ListKeys` is what either store lists, with the workspace put before the
prefix and taken off the keys.

`Discovery` has the dump tool write the files of a dump in any order, and
`metadata` last, while runs list schema files (`List`), take or leave each
(`PassOver`, `AddTable`, `Refuse`), read the position and list the data files
of each table. A CREATE TABLE is what the code asks of it: its columns, its keys
and whether it names the table of the file. A rule of the filter is the set of
tables its pattern matches.

### `Deployer`

Pods of the job, one after the other up to the backoff limit, each from
`ReadConfig` to `Exit`, with every exception the calls may raise at each place,
and a kill at any. The account is shared: `Elsewhere` adds a connection of the
same name at any time.

### `ResumableFeed`

The promise both halves keep. `hist[c]` is the stretch of a cell's past that may
be shown, `copy[c]` what the destination shows, `acked[c]` the time up to which
the saved state has put the cell behind it. `Publish` extends the past, `Begin`
starts cells at some point of the source, `Sync` writes cells and acknowledges;
nothing is acknowledged that is not shown, an acknowledgement is never taken
back, and no cell shows what the source never had. In `IncrementalFeed` a cell is a key of a table,
its past the changes from the snapshot to the published checkpoint-ts, and what
is acknowledged follows from cursors, watermarks and snapshot alone. In
`SnapshotFeed` a cell is a row of the dump. A kill, a replay and a refused run
are all `Sync` or stutter: that is what "resumable" means here. The refinement
holds for a fixed catalog: a table that comes back into the filter has given
its cursors up, and is read again, by design.

## 3. What the runs check

| run | instance | properties |
|---|---|---|
| `partitions` | 2 partitions, no dates, timestamps 1..4, 3 rows, interval 2 | `NoLoss`, `CellsWereTrue`, `ReplayBounded`, `NeverReplaysSaved`, `Converged`, `DurableProgress` |
| `refilter` | 2 tables, any non-empty catalog, timestamps 1..3, 2 rows each | `TypeOk`, `NoLoss`, `CellsWereTrue`, `NoFalseAlarm`, `Converged`, `DurableProgress` |
| `restarts` | 1 table, 2 keys, deletes, 2 dates, timestamps 1..3, 2 rows, restarts up to 2 files per date | `NoLoss`, `CellsWereTrue`, `NeverReplaysSaved`, `AlarmIsRepeat`, `Converged`, `DurableProgress` |
| `eventually_uncrashed` | 2 tables, timestamps 1..3, 1 row each, kills | `CatchesUp`, `IsResumableFeed` |
| `snapshot` | 3 tables (files of 3, 0 and 2 rows; of 2; none), 2 dumps | `TypeOk`, `NoLoss`, `OneDump`, `DoneIsFinal`, `Completes`, `IsResumableFeed` |
| `scan` | 9 layouts, 3 dates, 2 files of 2 rows per directory | `TypeOk`, `AllRead`, `NeverReadAgain` |
| `discovery` | 6 stems in 3 dumps, 4 filters, 2 stores, 3 workspaces, 4 neighbours | `TypeOk`, `CatalogIsExact`, `FilesAreComplete`, `ListedIsReadable` |
| `deployer` | 2 groups, 3 connections, 3 pods | `TypeOk`, `SuccessIsDeployed`, `ConfigRemoved` |
| `fast_path_stall` | 1 table, 2 keys, 2 dates, timestamps 1..3 | `FastPathOnlyWhenDone` fails |
| `fast_path_dates` | 2 tables, 1 key, 2 dates, timestamps 1..3, 2 rows each, no kills | `FastPathOnlyWhenDone` fails |
| `partition_fallback` | 2 partitions, timestamps 1..4 | `NoFalseAlarm` fails |
| `scan_dated_partitions` | 2 partitions with date directories | `AllRead` fails |

What they say, the deepest first:

* `IsResumableFeed`: every step is one of `ResumableFeed`, under the mapping of
  `IncrementalFeed` or `SnapshotFeed`.
* `Converged`: a run that gets through its items leaves every table equal to
  the upstream table as of the checkpoint-ts it read, whatever was killed,
  replayed, truncated, compacted or written meanwhile.
* `CellsWereTrue`: at *every* moment every cell of the destination is what the
  upstream row was at some time between the snapshot and the published
  checkpoint-ts. Nothing older than the snapshot, no row from before a truncate,
  no row from the future. It does not say that a cell only moves forward: a
  replay may put back an older true value until it has caught up again.
* `NoLoss`: a row or truncate that the saved state has put behind it is in the
  destination, or something newer is.
* `DurableProgress`: what the saved state has put behind it stays behind it, for
  the tables of the catalog.
* `ReplayBounded`, `NeverReplaysSaved`: a kill repeats fewer than
  `checkpoint_interval_rows` rows, and none an earlier checkpoint acknowledged.
* `NoFalseAlarm`: the commit-ts check passes every feed of an unpartitioned
  table that is in commit-ts order. `AlarmIsRepeat`: where rows repeat it is
  raised for a row that has been read from another place, and for no other.
* `AllRead`, `NeverReadAgain`: in these layouts a run that gets to its end has
  read every row its scan saw, and no saved row is read again, where the state came
  from an earlier release too.
* `CatalogIsExact`: the catalog a run goes on with holds what the filter means
  (some rule selects the table, or none selects any, and none excludes it), in
  any order of the rules and whatever look-alikes the bucket holds.
  `FilesAreComplete`: a table is loaded from all of its files. This rests on the
  order in which the run reads catalog, position and files; a run that began
  before the dump was complete may go on with some tables missing from its
  catalog, and finds them the next time.
* `ListedIsReadable`: taking the workspace off a listed key and putting it on
  again gives the same object.
* `SuccessIsDeployed`: a job that succeeds names a connection its own
  configuration went to. `ConfigRemoved`: a configuration file that was written
  whole is gone on every way out but a kill. When the write itself fails, a
  partial file stays: `deployer/runner.py:188` comes before the `try`.
* `CatchesUp`, `Completes`: liveness, section 4. `CatchesUp` lets the connector
  rest on the fast path, as it does wrongly in `fast_path_stall` and
  `fast_path_dates`: what it excludes is a run that fails or stops at the same row
  for ever.
* snapshot `NoLoss`, `OneDump`, `DoneIsFinal`: a table that is done is complete,
  of one dump, and left to incremental sync from then on.

### Bounds

Timestamps 1..4, in `partitions`, give a version, a row, a DDL or truncate, and a row
of the new version; 1..3 leave out one of these. With `LoadSnapshot` anywhere among them there are rows on either side of
the snapshot and of the checkpoint-ts, which may stop short of the last row.
Three rows with two keys give a file of two rows, two files in one stream and a
second stream next to them; with interval 2 a kill can fall before, at and after a checkpoint inside a
file. Two dates are one date change, with a stream that stops in the old
directory and goes on in the new. Two tables of `refilter` show leaks between
tables, where the order of the tables is free, and each of them may be absent
while the other moves on. In `restarts` two rows and two files per date let a
row be written twice and a repeat of both straddle a date change. Keys, in
`restarts`, and tables, in `refilter`, are symmetric; runs that check liveness use no
symmetry. The kind of a row matters to no guard, only to the destination, so one
kind is enough in a run: updates, and deletes in `restarts`. The snapshot instance has a file longer than the interval, an
empty file between two others, a one-file table and an empty one. The scan
instance has, for every layout, a date with files, one without, and a later one.
The stems of `discovery` are a table whose name continues another's, one without
a key, one whose statement names another table, a second stem of the same table
and a name without a dot; the neighbours are another workspace, an older dump in
the workspace and at the top of the bucket; the third workspace is below a
directory called `snapshot`. In `fast_path_dates` one table can have two rows, one
of them above the checkpoint-ts, while the other table waits behind it.
Three pods with three connections let two foreign connections come between the deployment and the look-up, and a retry follow.
TLC explores every instance completely.

`TypeOk` bounds nothing that grows without end: file numbers and rows are
naturals. The only bounds are the constants that carry the comment *bound*. The sink of an instance stops
when they are reached, the connector never does: `SkipRun` and a refused
snapshot run are always possible, so runs check deadlock.

## 4. Fairness

`FairSpec` asks weak fairness of three things: that some step of the connector
is taken when one is possible, because Fivetran schedules the connector again
and again and a run is a loop without waits; that a buffered change is written
at last; and that the checkpoint-ts at last covers what is written. The last
two are TiCDC's flush interval and resolved-ts. No fairness is asked of commits,
DDLs, date changes or replacement dumps, and none of any single action of the
connector: its choices between steps (the order of tables, saving early) stay
free. In `CatchesUp` and `Completes` kills stop from some point on, which is
the premise of the formula. Without it a run could be killed at the same place
for ever. A row above the checkpoint-ts in one stream ends the run before the
streams after it are read, so catching up takes several runs.
`eventually_uncrashed` keeps one catalog and a sink that does not restart: repeats
may make a run fail on the commit-ts check again and again, and then nothing
moves until somebody intervenes.

The other modules state no fairness. Whether a dump is ever completed, or a pod
ever started, is not the connector's to say.

## 5. What is proved

TLAPS checks these for every value of the constants: every set of tables, keys
and partitions, every dump, filter, bucket, account and directory layout, every bound and
interval. They rest on the named assumptions on the constants alone
(`SinkAssumption`, `IntervalAssumption`, `CatalogsAssumption`,
`ScanAssumption`, `SnapshotAssumption`, `DiscoveryAssumption`,
`AccountAssumption`), which TLC evaluates on every instance.

| module | theorem | says |
|---|---|---|
| `IncrementalSyncProofs` | `IncrementalTypeOk` | `Spec => []TypeOk` |
| | `IncrementalCellsWereTrue` | `Spec => []CellsWereTrue` |
| `IncrementalDeliveryProofs` | `IncrementalNoLoss` | `Spec => []NoLoss` |
| | `IncrementalNeverReplaysSaved` | `Spec => []NeverReplaysSaved` |
| | `IncrementalDurableProgress` | `Spec => DurableProgress` |
| | `IncrementalConverged` | `Spec => Converged` |
| | `IncrementalIsResumableFeed` | `Spec /\ [][UNCHANGED catalog]_vars => IsResumableFeed` |
| `IncrementalAlarmProofs` | `IncrementalReplayBounded` | `Spec => []ReplayBounded` |
| | `IncrementalAlarmIsRepeat` | `OnePartition => (Spec => []AlarmIsRepeat)` |
| | `IncrementalNoFalseAlarm` | `OnePartition => (Spec /\ NeverRestarts => []NoFalseAlarm)` |
| `IncrementScanProofs` | `ScanTypeOk` | `Spec => []TypeOk` |
| | `ScanInvariance` | `ToldApart => (Spec => []Inv)` |
| | `ScanAllRead` | `ToldApart => (Spec => AllRead)` |
| | `ScanNeverReadAgain` | `ToldApart => (Spec => NeverReadAgain)` |
| `SnapshotSyncProofs` | `SnapshotTypeOk` | `Spec => []TypeOk` |
| | `SnapshotNoLoss` | `Spec => []NoLoss` |
| | `SnapshotOneDump` | `Spec => []OneDump` |
| | `SnapshotDoneIsFinal` | `Spec => DoneIsFinal` |
| | `SnapshotIsResumableFeed` | `Spec => IsResumableFeed` |
| `DiscoveryProofs` | `DiscoveryTypeOk` | `Spec => []TypeOk` |
| | `DiscoveryCatalogIsExact` | `Spec => []CatalogIsExact` |
| | `DiscoveryFilesAreComplete` | `Spec => []FilesAreComplete` |
| | `DiscoveryListedIsReadable` | `Spec => []ListedIsReadable` |
| `DeployerProofs` | `DeployerTypeOk` | `Spec => []TypeOk` |
| | `DeployerSuccess` | `Spec => []SuccessIsDeployed` |
| | `DeployerConfigRemoved` | `Spec => []ConfigRemoved` |

Some of them have a hypothesis. `IncrementalIsResumableFeed` is about runs under
one configuration: a table that leaves the filter gives its cursors up, and what
was acknowledged of it is taken back, by design; the other theorems hold for a
catalog that changes. `OnePartition` says that tables are not partitioned:
without it the commit-ts check does fail well-formed feeds (section 6, number 3).
`NeverRestarts` says that the sink writes each row once. The sink promises a row
at least once; where it repeats rows the check may be raised, and
`IncrementalAlarmIsRepeat` says that a repeat is then the only reason.
`ToldApart` restricts the layouts: a table has no partitions, or a feed has no
dates, its partitions' ids have not four digits, and its state is not one of the
earlier release. It is what all layouts of the run `scan` satisfy. In the others
the code mistakes one kind of directory for another (section 6, number 4 and the
notes after it), and there TLC finds counterexamples.

*What the destination shows.* `CellsWereTrue` is not inductive. Applying a row keeps it
only if the row is the last change of its key as of its own commit-ts, if that
is above the snapshot and if it is not above the published checkpoint-ts. `Inv`
adds what gives these three: the run's checkpoint-ts is at most the published
one; every work item, and the range being read, speaks of a schema file or of
files that exist (`ItemOk`, `Reading`); and of the sink, in `SinkInv`, that a key
changes at most once per timestamp and never at a table version's. Then
`RowIsLastChange` and `TruncateIsLastChange` say that a row, or a truncate, *is*
the last change at its timestamp, and `AboveSnapshot` that a marker
that is handled lies above the snapshot, which is what the baseline of line 381
is for. The other half is that history up to the published checkpoint-ts, and up
to the snapshot, never changes: `CommitRowInv` and `DDLInv` show that the sink
adds changes above both, so that a cell once true stays true (`SinkStepInv`).
The tables whose snapshot is done are the ones the property speaks of, and as
long as there are none the tso is not chosen (`snap = 0 => loaded = {}`), so a
table loaded late starts from the same tso as the first. Kills, a sink that
repeats itself and a catalog that changes need no idea of their own: kills leave the destination as an
ordinary step would and forget the run.

*What is delivered.* `Progress` is the invariant beside `Inv`. A state, `saved` as
well as `mem`, *passes* a row when its cursor is beyond the row's file and line,
and has it *behind* it when it passes it or its watermark is beyond the row's
version. Of the sink, `SinkOrder` says which rows may still be added, and where:
a stream's files grow at their end, in the newest date directory, with rows above
the checkpoint-ts or repeats of rows that are written. Of each state, `StateOk`
says that its cursors stand at real files and are reachable (`CursorOk`, `Reach`:
no file in an earlier directory is left out), and that no row it passes is newer
than the commit-ts it keeps; `Settled` says that what it has behind it is in the
destination, or something newer is, truncates included. Of the run, `Running`
says that `mem` is ahead of `saved` (`Ahead`), that every row and marker that is
due is either behind `mem` or still among the items (`RowsDue`, `MarkersDue`),
and that the items to come are newer than what was handled. The hard steps are
the two that drop files from view: an item that is skipped because its stream
has read it, and the watermark that gives up the cursors of older versions. Both
are safe only because the items come in the order of line 510. `NoLoss` is
`Settled(dest, saved)`; `NeverReplaysSaved` follows from `Ahead`; `Converged` from
`RowsDue` with no items left; `DurableProgress` from `Ahead` again, with
`Compact` and `LoadSnapshot` shown to leave the tables of the catalog alone.

*The refinement.* With `FeedInv` (a table that is not loaded is empty, and under one
catalog only its tables are), each step is a step of `ResumableFeed` under the
mapping or a stutter: the sink's `Publish` is a `Publish`, `LoadSnapshot` a
`Begin`, a step that writes or saves a `Sync`, whose three conditions are
`NoLoss`, `DurableProgress` and `CellsWereTrue`.

*The commit-ts check.* Line 645 compares a row with the commit-ts of the table.
`TsRead` says that this commit-ts is that of a row which the state has behind
it. `SinkSorted` says that rows of a stream are in commit-ts order but for
repeats: where an earlier row is newer than a later one, the later one was
written before as well. So with one stream per version the row in the way of an
alarm is a repeat. In a sink that does not restart, `Once` (no row is in two
places) makes that impossible. `ReplayBounded` needs `UnsavedOk`: the set of
rows a kill would repeat is finite, has at most `rows_since_checkpoint` members, which is
below the interval whenever a row is about to be read, and is empty between two
files.

*The scan.* `Inv` of `IncrementScanProofs` says of the saved state, as the next
run will migrate it, that what was acknowledged is *exactly* (`Exact`) the rows of
the bucket that its cursors have behind them: no less, so that nothing is read
again, and no more, so that nothing is passed over. A cursor has rows behind it in
two ways, by its last file and by its current one, and the two can contradict
each other: `AtNextFile` says that the current file is the one right after the last,
where a date directory without files, or one that is finished, may lie between.
This holds because the sink does not write to earlier dates (`DatesOk`), so a
directory that was finished when a later one was seen stays so (`ScanFinal`).
`BehindAt` then reads off what such a cursor has behind it. Of the run, `AllPending`
says that each row the scan saw is read or its range is still to come, `Resumes`
that the range of a file left in the middle is among them and hence comes first
in its stream, and `ReadingOk` that the file being read is the cursor's own. The
steps with something to show are these. `StartRun`: whatever is not behind the
cursors, `DiscoveredIf` finds, through both tests of the scan, and
`DiscoveredOnly` says that nothing before a cursor is opened. `SkipReadRange`: a
range is dropped only with its cursor at or beyond its last file. `OpenRange`
(`OpenedCursor`): nothing is left in the earlier directories when the next one is
opened, since their ranges are gone and `AllPending` holds. `Init`: of an
earlier release's entries the furthest on exists (`FurthestExists`, the entries
being finitely many) and is of the latest date; that release read in the order
of dates, so all before it is read, and `EntryRows` turns a number of rows into
whole files, a file and its rows, as `LegacyEntry` divides them. `HomeOf` and
`OneDir` are where `ToldApart` is used: a directory is read with the cursor of its
own stream and date, and no two share both.

*Snapshot sync.* `Inv` says that what `saved` and what `mem` claim is loaded
from the dump they name, that nothing else is, that the rows of the open file up to
the point of reading are loaded, and that files before it are. The last part is what
makes the end of a table safe although the cursor goes back at each end of a
file. `DoneIsFinal` follows: the table being read is not done in `saved`. For the
refinement, the step in which the first run takes the dump's tso into the state
maps to a `Publish` (`FeedPublish`: nothing is loaded yet, nothing acknowledged).
Every other step maps to a `Sync` at the same tso (`FeedSync`): it tells only rows
of that dump and keeps what the state acknowledged, `Ahead` being the order
between the saved cursor and the one in memory that makes this so.

*Discovery.* The lemmas are about keys. `Divided` and `Joined` take a key apart at
the workspace and put it together. `Listed` says what listing `snapshot` may
return, in either store; `ListedInDump` and `DumpListed` that of the keys in the
directory `snapshot/` it returns those of the dump, all that are written;
`SchemaListed` that no other key is taken for a schema file. `SelectedIsMeant` is
about `table_matches_filter`: it goes through the rules one by one, as a
recursive function, and `ShouldSelect` says what they mean. `Saying` is what the
rules say after each of them, in one go; it satisfies the recursion
(`SayingStep`), and nothing else does, since two functions that do could differ
nowhere first (`SayingUnique`). The invariant has `DumpOk` (where `metadata` is, all is, and
when data files are listed it is there), `TodoOk` (the keys to come were
listed), and `FoundOk` (a table that belongs in the catalog is in it or its schema file is still
to come, and none is that does not belong).

*Deployer.* `SuccessIsDeployed` holds because an id is resolved only if it is the
one that carries the name (`ResolvedIsOnly`), and the connection the job deployed
to carries it: `DeployedBefore`, `OnlyGroup`. `LogIsPrinted` and `PrintedIsTrue`
link the result that is written to that. `ConfigRemoved` holds of every way from
`InUse` to the end of a pod.

Only model-checked is all liveness, `CatchesUp` and `Completes`, which TLAPS does
not reach. Every other property of a passing run is stated by a theorem. The two
instances in which a hypothesis is dropped, `partition_fallback` and
`scan_dated_partitions`, show what it is for.

## 6. Where the code and what is said of it disagree

1. *The fast path can rest on unfinished work* (run `fast_path_stall`).
   `last_seen_checkpoint_ts` is assigned at line 452, when a run starts, and
   every checkpoint in the middle of a run saves it. A run killed after such a checkpoint
   (that of a schema marker is the shortest case) leaves a state whose
   last seen checkpoint-ts is the published one and whose cursors show no
   pending work, because streams that were not opened have no cursor. The next run takes
   the fast path and delivers nothing until the checkpoint-ts moves. Nothing is
   lost, since the next run that does scan reads it all: `NoLoss` and `CatchesUp`,
   whose conclusion allows this resting place, hold.
2. *The fast path can rest on unfinished work without a kill* (run
   `fast_path_dates`). `has_pending_stream_work` (`state.py:240-242`) compares
   file numbers without their dates. A stream that has read file 1 of one day and
   stops at the first row of file 1 of the next has 1 for all three numbers and
   row 0: nothing looks pending. The stop ended the run before the streams after
   it were read, and the next run leaves their visible rows too, until the
   checkpoint-ts moves. Where the new file has a larger number than the last one read the
   stop is seen, so a feed with one date directory does not meet this.
3. *The commit-ts check fails well-formed partitioned feeds* (run
   `partition_fallback`). Line 645 compares with the last commit-ts of the
   *table*, while the partitions of a version are read one after the other. The
   second partition's first row is usually older than the first one's last, and every
   run fails there. `partitions` shows that such failures lose nothing; they
   do end progress.
4. *Partitions with date directories are never found* (run
   `scan_dated_partitions`). `_looks_like_date` (`increment/reader.py:180` and
   226) accepts any digits, so a partition directory is taken for a date directory
   and the branch for partitions, lines 191 to 210, is never entered.

Seen on the way, without a run of their own:

* `latest_index_file_index` (line 559) is the maximum over all date directories
  and is never reset, while `last_file_index` starts again with each date. A
  stream with two files on one day and one on the next, all of them read, looks
  pending for ever and every run lists the whole prefix. The connector is slow,
  not wrong.
* The stall of number 1 needs no kill either when the filter changes: a table that
  enters the catalog while the checkpoint-ts stands still has no cursors, and the
  fast path leaves its visible rows (`FastPathOnlyWhenDone` in the instance of
  `refilter`).
* Two partitions whose ids have four digits, in a feed without dates, parse as
  years (`increment/paths.py:114-118`), share the cursor of stream 0, and the rows
  of one are lost (`AllRead` with `Layouts <- FourDigitPartitions`, which is in
  no run: nothing in the repository says which ids a partition may have).
* The cursor an earlier release kept for a partition is filed under partition 0
  with the partition's id as its date (`state.py:141`), and the partition is
  read again (`NeverReadAgain` with `Layouts <- LegacyPartitions`, in no run
  either: nothing says what such a state should become).
* An answer of the Fivetran API that is cut short, or without `data.items`,
  raises an exception that `deployer/runner.py:152` does not name: the pod ends
  with a traceback and no result (`AnswerUnexpected`).
* In an S3 workspace called exactly `snapshot` or `increment`
  `_object_key` takes the connector's own prefixes for complete keys, and nothing
  is found; `snapshot/task1` is a workspace like any other, and in the run. In any other, an object in a directory of the workspace that is called
  like the workspace is listed and then looked for outside of it; nothing of a
  dump is ever there (both excluded by `DiscoveryAssumption`).

## 7. Plan

The models cover what the code keeps between steps, and their safety is proved.
What would come next is to have one theorem where there are two: `IncrementScan`
stands for one table version and leaves timestamps out, `IncrementalSync` has them
and takes directories by stream and date. `HomeOf` and `OneDir` are the facts under
which the first is the second's view of a version; stating that as a refinement
needs the watermarks of `IncrementalSync` in the scan.

Not modelled, and why:

* Type mapping, columns and header rows of CSV files, checksums of schema files:
  pure conversions; no property here tells values apart, and a conversion that
  raises ends the run as a kill does.
* The validation of the configuration and the building of storage URIs: pure, and
  their results are constants of the models.
* The names of destination tables (`metadata/catalog.py:104`), which may collide:
  a matter of which characters a name may have.
* Observability, error classes, the image of the deployer and its build.
