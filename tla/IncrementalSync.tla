-------------------------- MODULE IncrementalSync ---------------------------
(***************************************************************************)
(* sync_incremental: a connector run reads the state Fivetran kept, scans  *)
(* the increment/ prefix, and replays schema markers and row changes into  *)
(* the destination, checkpointing its cursors as it goes.  The sink keeps  *)
(* writing meanwhile, and a run may be killed between any two operations.  *)
(*                                                                         *)
(* Each action is the code between two effects another actor can see: a    *)
(* read of the bucket, an operation sent to Fivetran, a checkpoint.        *)
(*                                                                         *)
(* The destination applies an operation when it is sent.  A run that dies  *)
(* after an operation and before the next checkpoint leaves the operation  *)
(* applied and the state behind; one whose pending operations are lost is  *)
(* the run that died before it sent them.                                  *)
(***************************************************************************)
EXTENDS ConnectorState

CONSTANTS
  Interval,    \* checkpoint_interval_rows
  Catalogs     \* the sets of tables a table_filter may select

ASSUME IntervalAssumption == Interval \in Nat \ {0}

(* discover_catalog raises if it finds no table.                           *)
ASSUME CatalogsAssumption == Catalogs \subseteq SUBSET Tables /\ {} \notin Catalogs

VARIABLES
  catalog,   \* the tables the configuration selects
  loaded,    \* the tables whose snapshot is done
  snap,      \* snapshot-tso once the first of them is, 0 before
  dest,      \* the destination tables
  saved,     \* the state Fivetran would hand to the next run
  mem,       \* the state dict of the current run
  pc,        \* "idle", "scan", "work" (the items loop) or "read" (in a file)
  ckpt,      \* checkpoint-ts this run read from increment/metadata
  needs,     \* needs_checkpoint
  toScan,    \* tables the scan has not reached
  work,      \* work items not processed yet
  item,      \* the DML range being read
  at,        \* the file being read and the rows of it the loop has taken
  unsaved    \* rows_since_checkpoint

runVars == <<pc, ckpt, needs, toScan, work, item, at, unsaved>>
base == <<catalog, loaded, snap>>
connVars == <<base, dest, saved, mem, runVars>>
vars == <<sinkVars, connVars>>

-----------------------------------------------------------------------------
(* Work items: a schema marker, or the DML range of an index path.         *)
Item == [kind : {"schema", "dml"}, t : Tables, v : Versions, p : Nat,
         d : 0 .. MaxDate, latest : Nat, trunc : BOOLEAN]

NoItem  == [kind |-> "none"]
Nowhere == [file |-> 0, row |-> 0]

Marker(t, m) ==
  [kind |-> "schema", t |-> t, v |-> m.v, p |-> 0, d |-> 0, latest |-> 0, trunc |-> m.trunc]

FileRange(s, d) ==
  [kind |-> "dml", t |-> s[1], v |-> s[2], p |-> s[3], d |-> d,
   latest |-> Len(files[s][d]), trunc |-> FALSE]

StreamOf(it) == <<it.t, it.v, it.p>>

TypeOk ==
  /\ SinkTypeOk
  /\ catalog \in Catalogs
  /\ loaded \subseteq Tables
  /\ snap \in 0 .. MaxTs
  /\ dest \in [Tables -> [Keys -> Cell]]
  /\ saved \in State
  /\ mem \in State
  /\ pc \in {"idle", "scan", "work", "read"}
  /\ ckpt \in 0 .. MaxTs
  /\ needs \in BOOLEAN
  /\ toScan \subseteq Tables
  /\ work \subseteq Item
  /\ item \in Item \cup {NoItem}
  /\ at \in [file : Nat, row : Nat]
  /\ unsaved \in Nat

Init ==
  /\ SinkInit
  /\ catalog \in Catalogs
  /\ loaded = {}
  /\ snap = 0
  /\ dest = [t \in Tables |-> [k \in Keys |-> [ts |-> 0, live |-> FALSE]]]
  /\ saved = InitialState
  /\ mem = InitialState
  /\ pc = "idle"
  /\ ckpt = 0
  /\ needs = FALSE
  /\ toScan = {}
  /\ work = {}
  /\ item = NoItem
  /\ at = Nowhere
  /\ unsaved = 0

(* The run is over and the next one starts from st.                        *)
EndRun(st) ==
  /\ saved' = st
  /\ mem' = st
  /\ pc' = "idle"
  /\ ckpt' = 0
  /\ needs' = FALSE
  /\ toScan' = {}
  /\ work' = {}
  /\ item' = NoItem
  /\ at' = Nowhere
  /\ unsaved' = 0

-----------------------------------------------------------------------------
(* The configuration names other tables from the next run on.              *)
Refilter(C) ==
  /\ pc = "idle"
  /\ C # catalog
  /\ catalog' = C
  /\ UNCHANGED <<sinkVars, loaded, snap, dest, saved, mem, runVars>>

(* The snapshot of a table that leaves the catalog stays done.             *)
Loaded(S) == loaded \cup S

(* Every snapshot file of the tables S is, as of tso c; a later dump is    *)
(* refused.  A run that is killed on the way has loaded some tables only.  *)
LoadSnapshot(c, S) ==
  /\ pc = "idle"
  /\ S # {} /\ S \subseteq catalog \ loaded
  /\ IF snap = 0 THEN c \in 1 .. clock ELSE c = snap
  /\ snap' = c
  /\ loaded' = Loaded(S)
  /\ dest' = [t \in Tables |-> IF t \in S THEN Truth(t, c) ELSE dest[t]]
  /\ saved' = Compact(saved, catalog)
  /\ mem' = saved'
  /\ UNCHANGED <<sinkVars, catalog, runVars>>

(* A run that is killed before it has loaded a table has saved what        *)
(* normalize_state changed.                                                *)
FailSnapshot ==
  /\ pc = "idle"
  /\ ~(catalog \subseteq loaded)
  /\ EndRun(Compact(saved, catalog))
  /\ UNCHANGED <<sinkVars, base, dest>>

(* A run that finds no metadata, or finds the checkpoint-ts of the state   *)
(* and no pending stream, only saves what normalize_state changed.         *)
SkipRun ==
  /\ pc = "idle"
  /\ catalog \subseteq loaded
  /\ meta = 0 \/ (meta = saved.seen /\ ~HasPending(Compact(saved, catalog)))
  /\ EndRun(Compact(saved, catalog))
  /\ UNCHANGED <<sinkVars, base, dest>>

StartRun ==
  /\ pc = "idle"
  /\ catalog \subseteq loaded
  /\ meta > 0
  /\ meta # saved.seen \/ HasPending(Compact(saved, catalog))
  /\ mem' = [Compact(saved, catalog) EXCEPT !.seen = meta]
  /\ needs' = (Compact(saved, catalog) # saved)
  /\ ckpt' = meta
  /\ toScan' = catalog
  /\ pc' = "scan"
  /\ UNCHANGED <<sinkVars, base, dest, saved, work, item, at, unsaved>>

-----------------------------------------------------------------------------
(* The operators named Fault_... are plausible mistakes in the definition  *)
(* that follows them.  They are not part of the specification: they stand  *)
(* in for that definition when a property is tested for being falsifiable. *)

(* The date directory of the last file read is taken for finished.         *)
Fault_ShouldScanDate(s, d) ==
  LET c == mem.cursors[<<s[1], s[2], 0>>] IN c.lastDate = 0 \/ d > c.lastDate

(* Date directories the scan enters; dates name no partition then.         *)
ShouldScanDate(s, d) ==
  LET c == mem.cursors[<<s[1], s[2], 0>>]
  IN (c.curDate > 0 /\ d = c.curDate) \/ c.lastDate = 0 \/ d >= c.lastDate

ShouldScanIndex(s, d) ==
  LET c == mem.cursors[s]
  IN \/ c.row > 0 /\ c.curDate = d
     \/ c.lastDate = 0
     \/ d > c.lastDate
     \/ d = c.lastDate /\ Len(files[s][d]) > c.lastFile

VisibleSchemas(t) == {m \in schemas[t] : m.v <= ckpt}

VisibleRanges(t) ==
  {FileRange(x[1], x[2]) : x \in
     {y \in Streams \X Dates :
        /\ y[1][1] = t
        /\ \E m \in VisibleSchemas(t) : m.v = y[1][2]
        /\ y[1][2] >= mem.wm[t]
        /\ files[y[1]][y[2]] # <<>>
        /\ y[2] > 0 => ShouldScanDate(y[1], y[2])
        /\ ShouldScanIndex(y[1], y[2])}}

(* The listings and index reads of one table, taken as one read.           *)
ScanTable(t) ==
  /\ pc = "scan"
  /\ t \in toScan
  /\ work' = work \cup {Marker(t, m) : m \in VisibleSchemas(t)} \cup VisibleRanges(t)
  /\ toScan' = toScan \ {t}
  /\ pc' = IF toScan' = {} THEN "work" ELSE "scan"
  /\ UNCHANGED <<sinkVars, base, dest, saved, mem, ckpt, needs, item, at, unsaved>>

(* Items are sorted by version, partition and date, then table, then       *)
(* marker first.  Table names are data: any table order is possible.       *)
Precedes(a, b) ==
  \/ a.v < b.v
  \/ a.v = b.v /\ a.p < b.p
  \/ a.v = b.v /\ a.p = b.p /\ a.d < b.d
  \/ a.v = b.v /\ a.p = b.p /\ a.d = b.d /\ a.t = b.t /\ a.kind = "schema" /\ b.kind = "dml"

IsNext(it) == it \in work /\ \A other \in work : ~Precedes(other, it)

(* The version of table t the snapshot was taken at.  Schema files up to   *)
(* ckpt are all there when the run starts.                                 *)
Baseline(t) ==
  LET vs == {m.v : m \in {n \in VisibleSchemas(t) : n.v <= snap}}
  IN IF vs = {} THEN 0 ELSE CHOOSE v \in vs : \A w \in vs : w <= v

(* Markers the snapshot already reflects are handled again.                *)
Fault_EffectiveWatermark(t) == mem.wm[t]

EffectiveWatermark(t) == Max2(mem.wm[t], Baseline(t))

-----------------------------------------------------------------------------
(* Truncate removes the table's keys from the destination altogether.      *)
Fault_Truncated(t, v) == [dest EXCEPT ![t] = <<>>]

Truncated(t, v) == [dest EXCEPT ![t] = [k \in Keys |-> [ts |-> v, live |-> FALSE]]]

SkipMarker(it) ==
  /\ pc = "work" /\ IsNext(it) /\ it.kind = "schema"
  /\ it.v <= EffectiveWatermark(it.t)
  /\ work' = work \ {it}
  /\ unsaved' = 0
  /\ UNCHANGED <<sinkVars, base, dest, saved, mem, pc, ckpt, needs, toScan, item, at>>

HandleMarker(it) ==
  /\ pc = "work" /\ IsNext(it) /\ it.kind = "schema"
  /\ it.v > EffectiveWatermark(it.t)
  /\ dest' = IF it.trunc THEN Truncated(it.t, it.v) ELSE dest
  /\ mem' = SetWatermark(mem, it.t, it.v)
  /\ saved' = mem'
  /\ work' = work \ {it}
  /\ unsaved' = 0
  /\ UNCHANGED <<sinkVars, base, pc, ckpt, needs, toScan, item, at>>

(* A DML range of a version below the watermark is passed over.            *)
SkipOldRange(it) ==
  /\ pc = "work" /\ IsNext(it) /\ it.kind = "dml"
  /\ it.v < EffectiveWatermark(it.t)
  /\ work' = work \ {it}
  /\ UNCHANGED <<sinkVars, base, dest, saved, mem, pc, ckpt, needs, toScan, item, at, unsaved>>

-----------------------------------------------------------------------------
(* The rest of a file that was being read is forgotten.                    *)
Fault_StartFile(c, d) == IF c.lastDate = d \/ c.row > 0 THEN c.curFile + 1 ELSE 1

(* The last finished file is read again.                                   *)
Fault_StartFileAgain(c, d) ==
  IF c.row > 0 /\ c.curFile > 0 THEN c.curFile
  ELSE IF c.lastDate = d THEN c.lastFile ELSE 1

StartFile(c, d) ==
  IF c.row > 0 /\ c.curFile > 0 THEN c.curFile
  ELSE IF c.lastDate = d THEN c.lastFile + 1 ELSE 1

(* A file is always read from its first row.                               *)
Fault_StartRow(c, f) == 0

StartRow(c, f) == IF f = c.curFile THEN c.row ELSE 0

Opened(c, d, f) == [c EXCEPT !.curDate = d, !.curFile = f]

(* last_date is left alone when a file ends.                               *)
Fault_Finished(c, d, f) == [Opened(c, 0, f) EXCEPT !.lastFile = f, !.row = 0]

Finished(c, d, f) == [Opened(c, 0, f) EXCEPT !.lastDate = d, !.lastFile = f, !.row = 0]

(* The cursor once the loop has looked at the index of the range.          *)
Looked(it) ==
  LET c == mem.cursors[StreamOf(it)] IN [c EXCEPT !.latest = Max2(@, it.latest)]

SkipReadRange(it) ==
  /\ pc = "work" /\ IsNext(it) /\ it.kind = "dml"
  /\ it.v >= EffectiveWatermark(it.t)
  /\ StartFile(Looked(it), it.d) > it.latest
  /\ mem' = SetCursor(mem, StreamOf(it), Looked(it))
  /\ work' = work \ {it}
  /\ UNCHANGED <<sinkVars, base, dest, saved, pc, ckpt, needs, toScan, item, at, unsaved>>

(* The sink never removes a file an index has named, so the test for a     *)
(* missing data file never raises here.                                    *)
OpenRange(it) ==
  LET c == Looked(it)
      f == StartFile(c, it.d)
  IN /\ pc = "work" /\ IsNext(it) /\ it.kind = "dml"
     /\ it.v >= EffectiveWatermark(it.t)
     /\ f <= it.latest
     /\ at' = [file |-> f, row |-> StartRow(c, f)]
     /\ mem' = SetCursor(mem, StreamOf(it), Opened(c, it.d, f))
     /\ item' = it
     /\ work' = work \ {it}
     /\ pc' = "read"
     /\ UNCHANGED <<sinkVars, base, dest, saved, ckpt, needs, toScan, unsaved>>

-----------------------------------------------------------------------------
stream  == StreamOf(item)
cursor  == mem.cursors[stream]
Rows    == files[stream][item.d][at.file]
HasRow  == pc = "read" /\ at.row < Len(Rows)
event   == Rows[at.row + 1]

(* No lower bound at the snapshot.                                         *)
Fault_InSnapshot == FALSE

InSnapshot == event.ts <= snap

(* The bound at the checkpoint-ts is off by one, either way.               *)
Fault_BeyondCheckpointLate  == event.ts > ckpt + 1
Fault_BeyondCheckpointEarly == event.ts >= ckpt

BeyondCheckpoint == event.ts > ckpt

Fallback == event.ts < Max2(cursor.lastTs, mem.tableTs[item.t])

SkipRow ==
  /\ HasRow /\ InSnapshot
  /\ mem' = SetCursor(mem, stream, [cursor EXCEPT !.row = at.row + 1])
  /\ at' = [at EXCEPT !.row = @ + 1]
  /\ UNCHANGED <<sinkVars, base, dest, saved, pc, ckpt, needs, toScan, work, item, unsaved>>

(* The row above the checkpoint-ts is saved as read.                       *)
Fault_Stopped == [Opened(cursor, item.d, at.file) EXCEPT !.row = at.row + 1]

Stopped == [Opened(cursor, item.d, at.file) EXCEPT !.row = at.row]

(* The first row above the checkpoint-ts saves its position and ends the   *)
(* whole run, later items included.                                        *)
StopAtCheckpoint ==
  /\ HasRow /\ ~InSnapshot /\ BeyondCheckpoint
  /\ EndRun(SetCursor(mem, stream, Stopped))
  /\ UNCHANGED <<sinkVars, base, dest>>

(* IncrementalError: the run fails and the next one starts from saved.     *)
RaiseFallback ==
  /\ HasRow /\ ~InSnapshot /\ ~BeyondCheckpoint /\ Fallback
  /\ EndRun(saved)
  /\ UNCHANGED <<sinkVars, base, dest>>

(* A delete is taken for an upsert.                                        *)
Fault_Applied(e) == [dest EXCEPT ![item.t] = [@ EXCEPT ![e.key] = [ts |-> e.ts, live |-> TRUE]]]

Applied(e) == [dest EXCEPT ![item.t] = [@ EXCEPT ![e.key] = [ts |-> e.ts, live |-> e.op # "D"]]]

Advanced ==
  [SetCursor(mem, stream, [cursor EXCEPT !.row = at.row + 1, !.lastTs = event.ts])
     EXCEPT !.tableTs = [@ EXCEPT ![item.t] = event.ts]]

Fault_Due(rows) == rows > Interval

Due(rows) == rows >= Interval

(* A row is applied; the state is saved after Interval rows, and after     *)
(* fewer when checkpoint_interval_seconds have passed.                     *)
EmitRow ==
  /\ HasRow /\ ~InSnapshot /\ ~BeyondCheckpoint /\ ~Fallback
  /\ dest' = Applied(event)
  /\ mem' = Advanced
  /\ at' = [at EXCEPT !.row = @ + 1]
  /\ \/ saved' = mem' /\ unsaved' = 0
     \/ ~Due(unsaved + 1) /\ unsaved' = unsaved + 1 /\ UNCHANGED saved
  /\ UNCHANGED <<sinkVars, base, pc, ckpt, needs, toScan, work, item>>

(* The end of a file resets the cursor and saves; the next file of the     *)
(* range is opened at once.                                                *)
FinishFile ==
  LET c    == Finished(cursor, item.d, at.file)
      more == at.file < item.latest
  IN /\ pc = "read" /\ at.row >= Len(Rows)
     /\ saved' = SetCursor(mem, stream, c)
     /\ mem' = SetCursor(mem, stream, IF more THEN Opened(c, item.d, at.file + 1) ELSE c)
     /\ at' = IF more THEN [file |-> at.file + 1, row |-> 0] ELSE Nowhere
     /\ item' = IF more THEN item ELSE NoItem
     /\ pc' = IF more THEN "read" ELSE "work"
     /\ unsaved' = 0
     /\ UNCHANGED <<sinkVars, base, dest, ckpt, needs, toScan, work>>

(* All items are done: a checkpoint if compaction changed the state, at    *)
(* this end of the run or in normalize_state.                              *)
FinishRun ==
  /\ pc = "work" /\ work = {}
  /\ EndRun(IF Compact(mem, catalog) # mem \/ needs THEN Compact(mem, catalog) ELSE saved)
  /\ UNCHANGED <<sinkVars, base, dest>>

-----------------------------------------------------------------------------
(* The run is killed between two operations, after a row operation, or     *)
(* after a truncate operation, before the checkpoint that would follow.    *)
Crash ==
  /\ pc # "idle"
  /\ EndRun(saved)
  /\ UNCHANGED <<sinkVars, base, dest>>

CrashAfterRow ==
  /\ HasRow /\ ~InSnapshot /\ ~BeyondCheckpoint /\ ~Fallback
  /\ dest' = Applied(event)
  /\ EndRun(saved)
  /\ UNCHANGED <<sinkVars, base>>

CrashAfterTruncate(it) ==
  /\ pc = "work" /\ IsNext(it) /\ it.kind = "schema" /\ it.trunc
  /\ it.v > EffectiveWatermark(it.t)
  /\ dest' = Truncated(it.t, it.v)
  /\ EndRun(saved)
  /\ UNCHANGED <<sinkVars, base>>

-----------------------------------------------------------------------------
SinkStep ==
  /\ \/ \E t \in Tables, k \in Keys, op \in Ops, ts \in Versions :
          ts > snap /\ CommitRow(t, k, op, ts)
     \/ \E s \in Streams : Flush(s) \/ Restart(s)
     \/ RollDate
     \/ \E t \in Tables, trunc \in BOOLEAN : DDL(t, trunc)
     \/ \E c \in Versions : Publish(c)
  /\ UNCHANGED connVars

RunStep ==
  \/ \E c \in Versions, S \in SUBSET Tables : LoadSnapshot(c, S)
  \/ SkipRun
  \/ StartRun
  \/ \E t \in Tables : ScanTable(t)
  \/ \E it \in work : \/ SkipMarker(it)
                      \/ HandleMarker(it)
                      \/ SkipOldRange(it)
                      \/ SkipReadRange(it)
                      \/ OpenRange(it)
  \/ SkipRow
  \/ StopAtCheckpoint
  \/ RaiseFallback
  \/ EmitRow
  \/ FinishFile
  \/ FinishRun

CrashStep ==
  \/ FailSnapshot
  \/ Crash
  \/ CrashAfterRow
  \/ \E it \in work : CrashAfterTruncate(it)

Next ==
  \/ SinkStep
  \/ RunStep
  \/ \E C \in Catalogs : Refilter(C)
  \/ CrashStep

Spec == Init /\ [][Next]_vars
-----------------------------------------------------------------------------
(***************************************************************************)
(* Properties.                                                             *)
(***************************************************************************)
(* Where the rows the sink has written are: stream, date, file, row.       *)
Positions ==
  UNION {LET fs == files[y[1]][y[2]]
         IN UNION {{<<y[1], y[2], i, j>> : j \in DOMAIN fs[i]} : i \in DOMAIN fs}
         : y \in Streams \X Dates}

RowAt(x) == files[x[1]][x[2]][x[3]][x[4]]

SnapVersion(t) ==
  LET vs == {m.v : m \in {n \in schemas[t] : n.v <= snap}}
  IN IF vs = {} THEN 0 ELSE CHOOSE v \in vs : \A w \in vs : w <= v

(* The state st says that the row at position x needs no further reading.  *)
IsRead(st, x) ==
  LET s == x[1]
      c == st.cursors[s]
  IN \/ s[2] < Max2(st.wm[s[1]], SnapVersion(s[1]))
     \/ x[2] < c.lastDate
     \/ x[2] = c.lastDate /\ x[3] <= c.lastFile
     \/ c.row > 0 /\ x[2] = c.curDate /\ x[3] = c.curFile /\ x[4] <= c.row

(* A row or a truncate that the saved state has put behind it is in the    *)
(* destination, or something newer for the same key is: no crash, replay,  *)
(* date change, DDL or compaction makes the connector lose a change.       *)
NoLoss ==
  /\ \A x \in Positions :
       x[1][1] \in loaded /\ IsRead(saved, x) => dest[x[1][1]][RowAt(x).key].ts >= RowAt(x).ts
  /\ \A t \in loaded : \A m \in schemas[t] :
       m.trunc /\ m.v <= Max2(saved.wm[t], SnapVersion(t))
         => \A k \in Keys : dest[t][k].ts >= m.v

(* Every destination row is what the upstream row was at some moment       *)
(* between the snapshot and the published checkpoint-ts: nothing older     *)
(* than the snapshot comes back, a truncated row is never resurrected, and *)
(* a row above the checkpoint-ts is never delivered.                       *)
CellsWereTrue ==
  \A t \in loaded, k \in Keys :
    \E c \in snap .. Max2(meta, snap) : dest[t][k] = LastChange(t, k, c)

(* A run that gets through all its items leaves the destination equal to   *)
(* the upstream as of the checkpoint-ts it read, whatever crashed before.  *)
Converged ==
  [][FinishRun => \A t \in catalog : dest[t] = Truth(t, Max2(ckpt, snap))]_vars

(* Progress once saved is never given up, by a replay, a change of date    *)
(* directory, a DDL or the compaction of cursors.                          *)
DurableProgress ==
  [][\A x \in Positions : x[1][1] \in catalog /\ IsRead(saved, x) => IsRead(saved, x)']_vars

(* A crash repeats fewer than checkpoint_interval_rows emitted rows.       *)
ReplayBounded ==
  Cardinality({x \in Positions :
    RowAt(x).ts > snap /\ IsRead(mem, x) /\ ~IsRead(saved, x)}) < Interval

(* No run emits again a row that an earlier checkpoint has acknowledged.   *)
NeverReplaysSaved ==
  HasRow /\ ~InSnapshot => ~IsRead(saved, <<stream, item.d, at.file, at.row + 1>>)

(* A well-formed feed, in commit-ts order per stream, never raises the     *)
(* commit-ts fallback error: holds for unpartitioned tables.               *)
NoFalseAlarm ==
  HasRow /\ ~InSnapshot /\ ~BeyondCheckpoint => ~Fallback

(* When the sink may write rows again the fallback error still has a       *)
(* reason: it is raised at a row that has been read from another place.    *)
AlarmIsRepeat ==
  HasRow /\ ~InSnapshot /\ ~BeyondCheckpoint /\ Fallback =>
    \E x \in Positions : /\ x[1] = stream
                         /\ x # <<stream, item.d, at.file, at.row + 1>>
                         /\ RowAt(x) = event
                         /\ IsRead(mem, x)

-----------------------------------------------------------------------------
Visible == {x \in Positions : x[1][1] \in catalog /\ RowAt(x).ts > snap /\ RowAt(x).ts <= meta}

TakesFastPath == pc = "idle" /\ catalog \subseteq loaded /\ meta = saved.seen /\ ~HasPending(Compact(saved, catalog))

(* reader.py:439 takes the fast path only when no stream work is pending.  *)
FastPathOnlyWhenDone == TakesFastPath => \A x \in Visible : IsRead(saved, x)

-----------------------------------------------------------------------------
(* Everything visible is delivered.                                        *)
CaughtUp == catalog \subseteq loaded /\ \A t \in catalog : dest[t] = Truth(t, Max2(meta, snap))

(* Fivetran runs the connector again and again, each run takes its steps,  *)
(* and the sink writes what it buffers and advances the checkpoint-ts.     *)
Fairness ==
  /\ WF_vars(RunStep)
  /\ WF_vars((\E s \in Streams : Flush(s)) /\ UNCHANGED connVars)
  /\ WF_vars((\E c \in Versions : Publish(c)) /\ UNCHANGED connVars)

FairSpec == Spec /\ Fairness

(* Nothing goes wrong: no run is killed and the table filter stays.        *)
UninterruptedSpec == Init /\ [][SinkStep \/ RunStep]_vars

(* Once runs stop being killed the connector catches up again and again,   *)
(* unless it rests on the fast path: it never fails or stops at the same   *)
(* row for ever.                                                           *)
CatchesUp == (<>[][SinkStep \/ RunStep]_vars) => []<>(CaughtUp \/ TakesFastPath)
=============================================================================
