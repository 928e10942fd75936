--------------------- MODULE IncrementalDeliveryProofs ----------------------
(***************************************************************************)
(* What the invariant of IncrementalProgressProofs gives: the properties   *)
(* of what the connector delivers and acknowledges, for every set of       *)
(* tables, keys and partitions, every bound and every checkpoint interval. *)
(***************************************************************************)
EXTENDS IncrementalFeed, IncrementalProgressProofs

(* A state calls a row read that it has behind it, or that is of a version *)
(* older than the one the snapshot was taken at.                           *)
LEMMA IsReadIs ==
  ASSUME Inv, NEW st \in State, NEW x \in Positions
  PROVE  IsRead(st, x) <=> x[1][2] < SnapVersion(x[1][1]) \/ Behind(st, x)
<1>1. /\ x[1][1] \in Tables /\ x[1][2] \in Nat
      /\ st.wm[x[1][1]] \in Nat /\ SnapVersion(x[1][1]) \in Nat
  BY PositionFacts, StateFacts, SnapVersionFacts
<1>2. x[1][2] < Max2(st.wm[x[1][1]], SnapVersion(x[1][1]))
        <=> x[1][2] < st.wm[x[1][1]] \/ x[1][2] < SnapVersion(x[1][1])
  BY <1>1 DEF Max2
<1>3. QED
  BY <1>2 DEF IsRead, Behind, PassedAt, Passed

(* Above the snapshot the second reason does not apply.                    *)
LEMMA ReadSince ==
  ASSUME Inv, Progress, NEW st \in State, NEW x \in Positions, Since(x)
  PROVE  IsRead(st, x) <=> Behind(st, x)
<1>1. ~(x[1][2] < SnapVersion(x[1][1]))
  BY BelowBaseline DEF Progress
<1>2. QED
  BY <1>1, IsReadIs

(* What the saved state has behind it is in the destination.               *)
LEMMA NothingLost == Inv /\ Progress => NoLoss
<1> SUFFICES ASSUME Inv, Progress PROVE NoLoss
  OBVIOUS
<1>1. saved \in State /\ Settled(dest, saved)
  BY DEF Inv, TypeOk, Progress
<1>2. ASSUME NEW x \in Positions, x[1][1] \in loaded, IsRead(saved, x)
      PROVE  dest[x[1][1]][RowAt(x).key].ts >= RowAt(x).ts
  <2>1. CASE Since(x)
    <3>1. Behind(saved, x)
      BY <1>1, <1>2, <2>1, ReadSince
    <3>2. QED
      BY <1>1, <1>2, <2>1, <3>1 DEF Settled, RowsSettled
  <2>2. CASE ~Since(x)
    BY <1>2, <2>2, CoveredRow
  <2>3. QED
    BY <2>1, <2>2
<1>3. ASSUME NEW t \in loaded, NEW m \in schemas[t], m.trunc,
             m.v <= Max2(saved.wm[t], SnapVersion(t)), NEW k \in Keys
      PROVE  dest[t][k].ts >= m.v
  <2>1. t \in Tables
    BY DEF Inv, TypeOk
  <2>2. m.v \in Nat /\ saved.wm[t] \in Nat /\ SnapVersion(t) \in Nat /\ SnapVersion(t) <= snap /\ snap \in Nat
    BY <1>1, <2>1, SchemaFacts, StateFacts, SnapVersionFacts, BoundsType
  <2>3. CASE m.v <= saved.wm[t]
    BY <1>1, <1>3, <2>3 DEF Settled, TruncatesSettled
  <2>4. CASE m.v <= SnapVersion(t)
    <3>1. m.v <= snap
      BY <2>2, <2>4
    <3>2. QED
      BY <1>3, <3>1, CoveredTruncate
  <2>5. QED
    BY <1>3, <2>2, <2>3, <2>4 DEF Max2
<1>4. QED
  BY <1>2, <1>3 DEF NoLoss

(* No crash, replay, change of date directory, DDL or compaction makes the *)
(* connector lose a row or a truncate: what the saved state puts behind it *)
(* is in the destination, or something newer for the same key is.          *)
THEOREM IncrementalNoLoss == Spec => []NoLoss
BY ProgressInvariance, NothingLost, PTL

(* The next row is one the saved state has not put behind it: the state in *)
(* memory is never behind the saved one, and it has not passed that row.   *)
LEMMA NothingReplayed == Inv /\ Progress => NeverReplaysSaved
<1> SUFFICES ASSUME Inv, Progress, HasRow, ~InSnapshot
             PROVE  ~IsRead(saved, <<stream, item.d, at.file, at.row + 1>>)
  BY DEF NeverReplaysSaved
<1> DEFINE x == <<stream, item.d, at.file, at.row + 1>>
<1>1. /\ x \in Positions /\ RowAt(x) = event /\ x[1] = stream
      /\ event.ts \in Nat /\ ~PassedAt(mem, x) /\ ~(item.v < mem.wm[item.t])
  BY EventPosition
<1> HIDE DEF x
<1>2. /\ Running /\ stream[1] = item.t /\ stream[2] = item.v /\ item.t \in catalog
      /\ saved \in State
  BY StreamFacts DEF HasRow
<1>3. Since(x)
  BY <1>1, BoundsType DEF Since, InSnapshot
<1>4. ~Behind(mem, x)
  BY <1>1, <1>2 DEF Behind
<1>5. ~Behind(saved, x)
  BY <1>1, <1>2, <1>4 DEF Running, Ahead, Behind
<1>6. ~IsRead(saved, x)
  BY <1>1, <1>2, <1>3, <1>5, ReadSince
<1>7. QED
  BY <1>6 DEF x

(* No run emits again a row that an earlier checkpoint has acknowledged:   *)
(* what a crash repeats lies after the last state the connector saved.     *)
THEOREM IncrementalNeverReplaysSaved == Spec => []NeverReplaysSaved
BY ProgressInvariance, NothingReplayed, PTL

-----------------------------------------------------------------------------
(* What a state calls read, as a formula that can be primed.               *)
ReadOk ==
  \A x \in Positions : IsRead(saved, x) <=> x[1][2] < SnapVersion(x[1][1]) \/ Behind(saved, x)

VersionsOk ==
  \A t \in Tables : /\ SnapVersion(t) \in Nat
                    /\ \A m \in schemas[t] : m.v <= snap => m.v <= SnapVersion(t)

(* Before and after a step.                                                *)
LEMMA ReadNext == Inv' => ReadOk' /\ VersionsOk'
<1>1. Inv => ReadOk /\ VersionsOk
  <2>1. Inv => saved \in State
    BY DEF Inv, TypeOk
  <2>2. QED
    BY <2>1, IsReadIs, SnapVersionFacts DEF ReadOk, VersionsOk
<1>2. QED
  BY <1>1, PTL

(* A step that keeps what the saved state has behind it, and the schemas   *)
(* and the snapshot it knows of, keeps what is read.                       *)
LEMMA ReadStep ==
  ASSUME Inv, Inv', snap <= snap',
         \A t \in Tables : schemas[t] \subseteq schemas'[t],
         Positions \subseteq Positions',
         NEW x \in Positions, IsRead(saved, x),
         Behind(saved, x) => Behind(saved', x)
  PROVE  IsRead(saved, x)'
<1>1. x[1][1] \in Tables /\ x[1][2] \in Nat /\ saved \in State /\ snap \in Nat
  BY PositionFacts, BoundsType DEF Inv, TypeOk
<1>2. x \in Positions' /\ ReadOk' /\ VersionsOk' /\ snap' \in Nat
  <2>1. Inv' => snap' \in Nat
    BY SinkAssumption DEF Inv, TypeOk
  <2>2. QED
    BY <2>1, ReadNext
<1>3. CASE Behind(saved, x)
  <2>1. Behind(saved, x)'
    BY <1>3 DEF Behind, PassedAt, Passed
  <2>2. QED
    BY <1>2, <2>1 DEF ReadOk
<1>4. CASE x[1][2] < SnapVersion(x[1][1])
  <2>1. PICK v \in Nat : v = SnapVersion(x[1][1])
    BY <1>1, SnapVersionFacts
  <2>2. x[1][2] < v /\ v <= snap /\ \E m \in schemas[x[1][1]] : m.v = v
    BY <1>1, <1>4, <2>1, SnapVersionFacts
  <2>3. v <= snap' /\ \E m \in schemas'[x[1][1]] : m.v = v
    BY <1>1, <1>2, <2>1, <2>2
  <2>4. v <= SnapVersion(x[1][1])' /\ SnapVersion(x[1][1])' \in Nat
    BY <1>1, <1>2, <2>3 DEF VersionsOk
  <2>5. x[1][2] < SnapVersion(x[1][1])'
    BY <1>1, <2>1, <2>2, <2>4
  <2>6. QED
    BY <1>2, <2>5 DEF ReadOk
<1>5. QED
  BY <1>1, <1>3, <1>4, IsReadIs

(* A step of the connector that leaves the bucket alone.                   *)
LEMMA QuietReadStep ==
  ASSUME Inv, Inv', UNCHANGED <<sinkVars, base>>, NEW x \in Positions, IsRead(saved, x),
         Behind(saved, x) => Behind(saved', x)
  PROVE  IsRead(saved, x)'
<1>1. /\ snap \in Nat /\ snap' = snap /\ schemas' = schemas /\ Positions' = Positions
  BY BoundsType, QuietPositions DEF sinkVars, base
<1>2. QED
  BY <1>1, ReadStep

(* In a run, what the saved state has behind it the state in memory has.   *)
LEMMA MemIsAhead ==
  ASSUME Inv, Progress, pc # "idle", NEW x \in Positions, x[1][1] \in catalog, Behind(saved, x)
  PROVE  Behind(mem, x)
<1>1. Ahead(mem, saved)
  BY DEF Progress, RunOk, Running
<1>2. QED
  BY <1>1 DEF Ahead, Behind
(* Every step of the sink adds.                                            *)
LEMMA SinkStepAdds == SinkInv /\ SinkOrder /\ SinkStep => SinkAdds
BY CommitRowOrder, FlushOrder, RestartOrder, DDLOrder, PublishOrder DEF SinkStep

(* The sink adds schemas and files, and touches no state.                  *)
LEMMA SinkStepReads ==
  ASSUME Inv, Inv', Progress, SinkStep, NEW x \in Positions, IsRead(saved, x)
  PROVE  IsRead(saved, x)'
<1>1. UNCHANGED connVars /\ SinkInv /\ SinkOrder
  BY DEF SinkStep, Inv, Progress
<1>2. SinkAdds
  BY <1>1, SinkStepAdds
<1>3. snap' = snap /\ saved' = saved
  BY <1>1 DEF connVars, base
<1>4. Positions \subseteq Positions'
  BY <1>2, OldPosition
<1>5. snap \in Nat /\ \A t \in Tables : schemas[t] \subseteq schemas'[t]
  BY <1>2, BoundsType DEF SinkAdds
<1>6. QED
  BY <1>3, <1>4, <1>5, ReadStep

(* Other tables are selected, or tables are loaded.                        *)
LEMMA BetweenRunsReads ==
  ASSUME Inv, Inv', Progress,
         \/ \E C \in Catalogs : Refilter(C)
         \/ \E c \in Versions, S \in SUBSET Tables : LoadSnapshot(c, S),
         NEW x \in Positions, x[1][1] \in catalog, IsRead(saved, x)
  PROVE  IsRead(saved, x)'
<1>1. UNCHANGED sinkVars
  BY DEF Refilter, LoadSnapshot
<1>2. schemas' = schemas /\ files' = files
  BY <1>1 DEF sinkVars
<1>3. Positions' = Positions
  BY <1>2 DEF Positions
<1>4. snap \in Nat /\ saved \in State
  BY BoundsType DEF Inv, TypeOk
<1>5. CASE \E C \in Catalogs : Refilter(C)
  <2>1. snap' = snap /\ saved' = saved
    BY <1>5 DEF Refilter
  <2>2. QED
    BY <1>2, <1>3, <1>4, <2>1, ReadStep
<1>6. CASE \E c \in Versions, S \in SUBSET Tables : LoadSnapshot(c, S)
  <2>1. PICK c \in Versions, S \in SUBSET Tables : LoadSnapshot(c, S)
    BY <1>6
  <2>2. snap' = c /\ saved' = Compact(saved, catalog) /\ IF snap = 0 THEN c \in 1 .. clock ELSE c = snap
    BY <2>1 DEF LoadSnapshot
  <2>3. snap <= snap'
    BY <1>4, <2>2, SinkAssumption DEF Versions
  <2>4. Behind(saved, x) => Behind(saved', x)
    BY <1>4, <2>2, CompactBehind
  <2>5. QED
    BY <1>2, <1>3, <2>3, <2>4, ReadStep
<1>7. QED
  BY <1>5, <1>6

(* A marker that is handled raises the watermark of its table.             *)
LEMMA HandleMarkerReads ==
  ASSUME Inv, Progress, NEW it \in work, HandleMarker(it), NEW x \in Positions, Behind(mem, x)
  PROVE  Behind(saved', x)
<1>1. /\ mem' = SetWatermark(mem, it.t, it.v) /\ saved' = mem'
      /\ mem \in State /\ it.t \in Tables /\ it.v \in Nat
  BY SinkAssumption DEF HandleMarker, Inv, TypeOk, Item, Versions
<1>2. mem.wm \in [Tables -> 0 .. MaxTs] /\ x[1][1] \in Tables /\ x[1][2] \in Nat
  BY <1>1, PositionFacts DEF State
<1>3. /\ saved'.cursors = mem.cursors
      /\ saved'.wm = [mem.wm EXCEPT ![it.t] = Max2(mem.wm[it.t], it.v)]
  BY <1>1 DEF SetWatermark, State
<1>4. mem.wm[x[1][1]] \in Nat /\ mem.wm[it.t] \in Nat
  BY <1>1, <1>2, SinkAssumption
<1>5. mem.wm[x[1][1]] <= saved'.wm[x[1][1]] /\ saved'.wm[x[1][1]] \in Nat
  BY <1>1, <1>2, <1>3, <1>4 DEF Max2
<1>6. CASE x[1][2] < mem.wm[x[1][1]]
  BY <1>2, <1>4, <1>5, <1>6 DEF Behind
<1>7. CASE PassedAt(mem, x)
  BY <1>3, <1>7 DEF Behind, PassedAt
<1>8. QED
  BY <1>6, <1>7 DEF Behind

(* The state saved after a row is past that row.                           *)
LEMMA EmitRowReads ==
  ASSUME Inv, Progress, EmitRow, NEW x \in Positions, Behind(mem, x)
  PROVE  saved' = saved \/ Behind(saved', x)
<1> DEFINE c == [cursor EXCEPT !.row = at.row + 1, !.lastTs = event.ts]
<1>1. HasRow /\ (saved' = Advanced \/ saved' = saved)
  BY DEF EmitRow
<1>2. /\ Advanced.wm = mem.wm /\ PastEvent(c)
      /\ Advanced.cursors[stream] = c
      /\ \A r \in Streams \ {stream} : Advanced.cursors[r] = mem.cursors[r]
  BY <1>1, AdvancedFacts
<1> HIDE DEF c
<1>3. x[1] = stream /\ PassedAt(mem, x) => Passed(c, x[2], x[3], x[4])
  BY <1>1, <1>2, PastEventFacts
<1>4. PassedAt(mem, x) => PassedAt(Advanced, x)
  <2>1. x[1] \in Streams
    BY PositionFacts
  <2>2. QED
    BY <1>2, <1>3, <2>1 DEF PassedAt
<1>5. Behind(Advanced, x)
  BY <1>2, <1>4 DEF Behind
<1>6. QED
  BY <1>1, <1>5

(* The state saved at the end of a file is past every row of it.           *)
LEMMA FinishFileReads ==
  ASSUME Inv, Progress, FinishFile, NEW x \in Positions, Behind(mem, x)
  PROVE  Behind(saved', x)
<1> DEFINE c == Finished(cursor, item.d, at.file)
<1>1. pc = "read" /\ at.row >= Len(Rows) /\ saved' = SetCursor(mem, stream, c)
  BY DEF FinishFile
<1>2. PICK s \in Streams : s = stream
  BY <1>1, StreamFacts
<1>3. /\ cursor \in Cursor /\ item.d \in 0 .. MaxDate /\ at.file \in Nat /\ mem \in State
  BY <1>1, StreamFacts, DatesType
<1>4. c \in Cursor
  BY <1>3, CursorTypes
<1>5. Past(c)
  BY <1>3, <1>4 DEF Past, Finished, Opened, Cursor
<1> HIDE DEF c
<1>6. /\ saved'.cursors[s] = c /\ saved'.wm = mem.wm
      /\ \A r \in Streams \ {s} : saved'.cursors[r] = mem.cursors[r]
  BY <1>1, <1>2, <1>3, <1>4, CursorFacts
<1>7. x[1] = s /\ PassedAt(mem, x) => Passed(c, x[2], x[3], x[4])
  BY <1>1, <1>2, <1>5, PastFacts
<1>8. PassedAt(mem, x) => PassedAt(saved', x)
  <2>1. x[1] \in Streams
    BY PositionFacts
  <2>2. QED
    BY <1>6, <1>7, <2>1 DEF PassedAt
<1>9. QED
  BY <1>6, <1>8 DEF Behind

(* The steps of the connector but the load of a snapshot and a change of   *)
(* the configuration: they leave the bucket and the snapshot alone.        *)
QuietStep ==
  \/ SkipRun \/ StartRun \/ SkipRow \/ StopAtCheckpoint \/ RaiseFallback \/ EmitRow
  \/ FinishFile \/ FinishRun \/ FailSnapshot \/ Crash \/ CrashAfterRow
  \/ \E t \in Tables : ScanTable(t)
  \/ \E it \in work : \/ SkipMarker(it) \/ HandleMarker(it) \/ SkipOldRange(it)
                      \/ SkipReadRange(it) \/ OpenRange(it) \/ CrashAfterTruncate(it)

(* What they leave alone.                                                  *)
LEMMA QuietStepIs == QuietStep => UNCHANGED <<sinkVars, base>>
BY DEF QuietStep, SkipRun, StartRun, SkipRow, StopAtCheckpoint, RaiseFallback, EmitRow, FinishFile,
       FinishRun, FailSnapshot, Crash, CrashAfterRow, ScanTable, SkipMarker, HandleMarker,
       SkipOldRange, SkipReadRange, OpenRange, CrashAfterTruncate

(* The others are steps of the sink, between runs, or none at all.         *)
LEMMA NextIs ==
  ASSUME [Next]_vars
  PROVE  \/ SinkStep \/ QuietStep \/ UNCHANGED vars
         \/ \E C \in Catalogs : Refilter(C)
         \/ \E c \in Versions, S \in SUBSET Tables : LoadSnapshot(c, S)
BY DEF Next, RunStep, CrashStep, QuietStep

(* A run saves nothing that is behind what was saved.                      *)
LEMMA RunReads ==
  ASSUME Inv, Progress, QuietStep, NEW x \in Positions, x[1][1] \in catalog, Behind(saved, x)
  PROVE  Behind(saved', x)
<1>1. mem \in State /\ saved \in State
  BY DEF Inv, TypeOk
<1>2. CASE \/ StartRun \/ SkipRow \/ RaiseFallback \/ Crash \/ CrashAfterRow
           \/ \E t \in Tables : ScanTable(t)
           \/ \E it \in work : \/ SkipMarker(it) \/ SkipOldRange(it)
                               \/ SkipReadRange(it) \/ OpenRange(it) \/ CrashAfterTruncate(it)
  <2>1. saved' = saved
    BY <1>2 DEF StartRun, SkipRow, RaiseFallback, Crash, CrashAfterRow, ScanTable, SkipMarker,
                SkipOldRange, SkipReadRange, OpenRange, CrashAfterTruncate, EndRun
  <2>2. QED
    BY <2>1
<1>3. CASE SkipRun \/ FailSnapshot
  <2>1. saved' = Compact(saved, catalog)
    BY <1>3 DEF SkipRun, FailSnapshot, EndRun
  <2>2. QED
    BY <1>1, <2>1, CompactBehind
<1>4. CASE FinishRun
  <2>1. /\ pc # "idle"
        /\ saved' = Compact(mem, catalog) \/ saved' = saved
    BY <1>4 DEF FinishRun, EndRun
  <2>2. Behind(mem, x)
    BY <2>1, MemIsAhead
  <2>3. QED
    BY <1>1, <2>1, <2>2, CompactBehind
<1>5. CASE StopAtCheckpoint
  <2>1. HasRow /\ saved' = SetCursor(mem, stream, Stopped)
    BY <1>5 DEF StopAtCheckpoint, EndRun
  <2>2. saved' = mem /\ pc # "idle"
    BY <2>1, StoppedIsMem DEF HasRow
  <2>3. QED
    BY <2>1, <2>2, MemIsAhead
<1>6. CASE EmitRow
  <2>1. pc # "idle"
    BY <1>6 DEF EmitRow, HasRow
  <2>2. QED
    BY <1>6, <2>1, MemIsAhead, EmitRowReads
<1>7. CASE FinishFile
  <2>1. pc # "idle"
    BY <1>7 DEF FinishFile
  <2>2. QED
    BY <1>7, <2>1, MemIsAhead, FinishFileReads
<1>8. CASE \E it \in work : HandleMarker(it)
  <2>1. PICK it \in work : HandleMarker(it)
    BY <1>8
  <2>2. pc # "idle"
    BY <2>1 DEF HandleMarker
  <2>3. QED
    BY <2>1, <2>2, MemIsAhead, HandleMarkerReads
<1>9. QED
  BY <1>2, <1>3, <1>4, <1>5, <1>6, <1>7, <1>8 DEF QuietStep

(* No step gives up progress.                                              *)
LEMMA NextReads ==
  ASSUME Inv, Inv', Progress, [Next]_vars, NEW x \in Positions, x[1][1] \in catalog, IsRead(saved, x)
  PROVE  IsRead(saved, x)'
<1>1. CASE SinkStep
  BY <1>1, SinkStepReads
<1>2. CASE \/ \E C \in Catalogs : Refilter(C)
           \/ \E c \in Versions, S \in SUBSET Tables : LoadSnapshot(c, S)
  BY <1>2, BetweenRunsReads
<1>3. CASE QuietStep
  <2>1. Behind(saved, x) => Behind(saved', x)
    BY <1>3, RunReads
  <2>2. QED
    BY <1>3, <2>1, QuietStepIs, QuietReadStep
<1>4. CASE UNCHANGED vars
  <2>1. saved' = saved /\ UNCHANGED <<sinkVars, base>>
    BY <1>4 DEF vars, connVars
  <2>2. QED
    BY <2>1, QuietReadStep
<1>5. QED
  BY <1>1, <1>2, <1>3, <1>4, NextIs

(* Progress once saved is never given up: not by a replay, a change of     *)
(* date directory, a DDL or compact_incremental_state.                     *)
THEOREM IncrementalDurableProgress == Spec => DurableProgress
<1>1. Inv /\ Inv' /\ Progress /\ [Next]_vars
        => [\A x \in Positions : x[1][1] \in catalog /\ IsRead(saved, x) => IsRead(saved, x)']_vars
  BY NextReads
<1>2. QED
  BY <1>1, ProgressInvariance, PTL DEF Spec, DurableProgress
-----------------------------------------------------------------------------
(* A change is the last one as of its own timestamp, or the empty row.     *)
LEMMA ChangeIsLast ==
  ASSUME Inv, NEW t \in Tables, NEW k \in Keys, NEW y \in Changes(t, k)
  PROVE  /\ y.ts \in Nat
         /\ y = [ts |-> 0, live |-> FALSE] \/ (y.ts > 0 /\ y = LastChange(t, k, y.ts))
<1>1. CASE y = [ts |-> 0, live |-> FALSE]
  BY <1>1
<1>2. CASE \E m \in schemas[t] : m.trunc /\ y = [ts |-> m.v, live |-> FALSE]
  <2>1. PICK m \in schemas[t] : m.trunc /\ y = [ts |-> m.v, live |-> FALSE]
    BY <1>2
  <2>2. m \in Schema /\ m.v \in Versions /\ m.v \in Nat /\ m.v > 0
    BY SchemaFacts
  <2>3. [v |-> m.v, trunc |-> TRUE] = m
    BY <2>1, <2>2 DEF Schema
  <2>4. LastChange(t, k, m.v) = [ts |-> m.v, live |-> FALSE]
    BY <2>2, <2>3, TruncateIsLastChange
  <2>5. QED
    BY <2>1, <2>2, <2>4
<1>3. CASE \E r \in RowsOf(t) : r.key = k /\ y = [ts |-> r.ts, live |-> r.op # "D"]
  <2>1. PICK r \in RowsOf(t) : r.key = k /\ y = [ts |-> r.ts, live |-> r.op # "D"]
    BY <1>3
  <2>2. r.ts \in Versions /\ LastChange(t, k, r.ts) = [ts |-> r.ts, live |-> r.op # "D"]
    BY <2>1, RowIsLastChange
  <2>3. r.ts \in Nat /\ r.ts > 0
    BY <2>2, SinkAssumption DEF Versions
  <2>4. QED
    BY <2>1, <2>2, <2>3
<1>4. QED
  BY <1>1, <1>2, <1>3, ChangesMember

(* Changes of a key differ in their timestamps.                            *)
LEMMA OneChangeAtATime ==
  ASSUME Inv, NEW t \in Tables, NEW k \in Keys, NEW y \in Changes(t, k), NEW z \in Changes(t, k),
         y.ts = z.ts
  PROVE  y = z
<1>1. /\ y.ts \in Nat /\ z.ts \in Nat
      /\ y = [ts |-> 0, live |-> FALSE] \/ (y.ts > 0 /\ y = LastChange(t, k, y.ts))
      /\ z = [ts |-> 0, live |-> FALSE] \/ (z.ts > 0 /\ z = LastChange(t, k, z.ts))
  BY ChangeIsLast
<1>2. CASE y.ts > 0
  BY <1>1, <1>2
<1>3. CASE ~(y.ts > 0)
  BY <1>1, <1>3
<1>4. QED
  BY <1>2, <1>3

(* A run that has no item left has delivered what was due: every change up *)
(* to the checkpoint-ts it read, or something newer for the same key.      *)
LEMMA DueIsDelivered ==
  ASSUME Inv, Progress, pc = "work", work = {}, NEW t \in catalog, NEW k \in Keys,
         NEW y \in Changes(t, k), y.ts <= Max2(ckpt, snap)
  PROVE  dest[t][k].ts >= y.ts
<1>1. /\ Running /\ SinkOrder /\ Settled(dest, mem)
  BY DEF Progress, RunOk
<1>2. /\ t \in loaded /\ t \in Tables /\ t \in catalog \ toScan /\ toScan = {}
      /\ MarkersDue /\ RowsDue
  BY <1>1, CatalogsAssumption DEF Running, Inv, TypeOk
<1>3. /\ ckpt \in Nat /\ snap \in Nat /\ meta \in Nat /\ ckpt <= meta /\ y.ts \in Nat
      /\ dest[t][k].ts \in Nat
  <2>1. dest[t][k] \in Cell
    BY <1>2 DEF Inv, TypeOk
  <2>2. QED
    BY <1>2, <2>1, BoundsType, ChangeIsLast, SinkAssumption DEF Inv, Cell
<1>4. CASE y.ts <= snap
  BY <1>2, <1>4, Covered
<1>5. CASE snap < y.ts
  <2>1. y.ts <= ckpt
    BY <1>3, <1>5 DEF Max2
  <2>2. CASE y = [ts |-> 0, live |-> FALSE]
    BY <1>3, <1>5, <2>2
  <2>3. CASE \E m \in schemas[t] : m.trunc /\ y = [ts |-> m.v, live |-> FALSE]
    <3>1. PICK m \in schemas[t] : m.trunc /\ y = [ts |-> m.v, live |-> FALSE]
      BY <2>3
    <3>2. y.ts = m.v
      BY <3>1
    <3>3. m \in VisibleSchemas(t)
      BY <2>1, <3>2 DEF VisibleSchemas
    <3>4. m.v <= EffectiveWatermark(t)
      BY <1>2, <3>3 DEF MarkersDue
    <3>5. m.v <= mem.wm[t]
      BY <1>2, <1>3, <1>5, <3>2, <3>4, EffectiveFacts
    <3>6. dest[t][k].ts >= m.v
      BY <1>1, <1>2, <3>1, <3>5 DEF Settled, TruncatesSettled
    <3>7. QED
      BY <3>2, <3>6
  <2>4. CASE \E r \in RowsOf(t) : r.key = k /\ y = [ts |-> r.ts, live |-> r.op # "D"]
    <3>1. PICK r \in RowsOf(t) : r.key = k /\ y = [ts |-> r.ts, live |-> r.op # "D"]
      BY <2>4
    <3>2. y.ts = r.ts
      BY <3>1
    <3>3. PICK s \in Streams : s[1] = t /\ (r \in FileRows(s) \/ r \in SeqRange(buf[s]))
      BY RowsOfMember
    <3>4. r \notin SeqRange(buf[s])
      BY <1>1, <1>3, <2>1, <3>2 DEF SinkOrder
    <3>5. PICK x \in Positions : x[1] = s /\ RowAt(x) = r
      BY <3>3, <3>4, PositionOf
    <3>6. Since(x) /\ DueAt(x) /\ x[1][1] = t
      BY <1>3, <1>5, <2>1, <3>2, <3>3, <3>5 DEF Since, DueAt
    <3>7. ~Pending(x[1], x[2], x[3])
      BY DEF Pending
    <3>8. x[1][2] < EffectiveWatermark(t) \/ PassedAt(mem, x)
      BY <1>2, <3>6, <3>7 DEF RowsDue
    <3>9. Behind(mem, x)
      BY <1>1, <3>6, <3>8, BelowBaseline DEF Behind
    <3>10. dest[t][RowAt(x).key].ts >= RowAt(x).ts
      BY <1>1, <1>2, <3>6, <3>9 DEF Settled, RowsSettled
    <3>11. QED
      BY <3>1, <3>2, <3>5, <3>10
  <2>5. QED
    BY <2>2, <2>3, <2>4, ChangesMember
<1>6. QED
  BY <1>3, <1>4, <1>5

(* Nothing later than the checkpoint-ts is there either.                   *)
LEMMA RunConverged ==
  ASSUME Inv, Progress, FinishRun, NEW t \in catalog
  PROVE  dest[t] = Truth(t, Max2(ckpt, snap))
<1>1. pc = "work" /\ work = {}
  BY DEF FinishRun
<1>2. Running
  BY <1>1 DEF Progress, RunOk
<1>3. t \in loaded /\ t \in Tables /\ dest[t] \in [Keys -> Cell]
  BY <1>2, CatalogsAssumption DEF Running, Inv, TypeOk
<1>4. ckpt \in Nat /\ snap \in Nat /\ Max2(ckpt, snap) \in Nat
  BY BoundsType DEF Max2
<1>5. ASSUME NEW k \in Keys PROVE dest[t][k] = LastChange(t, k, Max2(ckpt, snap))
  <2>1. PICK y \in Cell : y = dest[t][k]
    BY <1>3
  <2>2. PICK z \in Cell : z = LastChange(t, k, Max2(ckpt, snap))
    BY <1>3, <1>4, LastChangeIs
  <2>3. y \in Changes(t, k)
    <3>1. PICK c \in snap .. Max2(meta, snap) : y = LastChange(t, k, c)
      BY <1>3, <2>1 DEF Inv, CellsWereTrue
    <3>2. c \in Nat
      BY <1>4, <3>1, BoundsType
    <3>3. QED
      BY <1>3, <3>1, <3>2, LastChangeIs
  <2>4. y.ts <= Max2(ckpt, snap)
    BY <1>2, <1>3, <2>1 DEF Running, DestBounded
  <2>5. z \in Changes(t, k) /\ z.ts <= Max2(ckpt, snap) /\ y.ts <= z.ts
    BY <1>3, <1>4, <2>2, <2>3, <2>4, LastChangeIs
  <2>6. y.ts >= z.ts
    BY <1>1, <2>1, <2>5, DueIsDelivered
  <2>7. y.ts \in Nat /\ z.ts \in Nat
    BY <2>1, <2>2, SinkAssumption DEF Cell
  <2>8. y = z
    BY <1>3, <2>3, <2>5, <2>6, <2>7, OneChangeAtATime
  <2>9. QED
    BY <2>1, <2>2, <2>8
<1>6. QED
  BY <1>3, <1>5 DEF Truth

(* A run that gets through all its items leaves every table of the catalog *)
(* as the upstream was at the checkpoint-ts the run read, or at the        *)
(* snapshot, whatever crashed, was replayed or was truncated before.       *)
THEOREM IncrementalConverged == Spec => Converged
<1>1. Inv /\ Progress => (FinishRun => \A t \in catalog : dest[t] = Truth(t, Max2(ckpt, snap)))
  BY RunConverged
<1>2. QED
  BY <1>1, ProgressInvariance, PTL DEF Converged
-----------------------------------------------------------------------------
(* The refinement of ResumableFeed.                                        *)

(* A table that is not loaded is empty, and while the configuration stays  *)
(* the same only tables of the catalog are loaded.                         *)
Untouched == \A t \in Tables \ loaded, k \in Keys : dest[t][k] = NoChange

FeedInv == Untouched /\ loaded \subseteq catalog

(* A row or a truncate reaches loaded tables only.                         *)
LEMMA UntouchedStep == Inv /\ Progress /\ Untouched /\ [Next]_vars => Untouched'
<1> SUFFICES ASSUME Inv, Progress, Untouched, [Next]_vars PROVE Untouched'
  OBVIOUS
<1>1. dest \in [Tables -> [Keys -> Cell]]
  BY DEF Inv, TypeOk
<1>2. CASE dest' = dest /\ loaded' = loaded
  BY <1>2 DEF Untouched
<1>3. ASSUME NEW u \in loaded, loaded' = loaded, \A t \in Tables \ {u} : dest'[t] = dest[t]
      PROVE  Untouched'
  BY <1>3 DEF Untouched
<1>4. CASE \E c \in Versions, S \in SUBSET Tables : LoadSnapshot(c, S)
  <2>1. PICK c \in Versions, S \in SUBSET Tables : LoadSnapshot(c, S)
    BY <1>4
  <2>2. /\ loaded' = loaded \cup S
        /\ dest' = [t \in Tables |-> IF t \in S THEN Truth(t, c) ELSE dest[t]]
    BY <2>1 DEF LoadSnapshot, Loaded
  <2>3. \A t \in Tables \ loaded' : t \in Tables \ loaded /\ dest'[t] = dest[t]
    BY <2>2
  <2>4. QED
    BY <2>3 DEF Untouched
<1>5. CASE \E it \in work : HandleMarker(it) \/ CrashAfterTruncate(it)
  <2>1. PICK it \in work : HandleMarker(it) \/ CrashAfterTruncate(it)
    BY <1>5
  <2>2. /\ pc = "work" /\ IsNext(it) /\ it.kind = "schema" /\ it.v > EffectiveWatermark(it.t)
        /\ dest' = Truncated(it.t, it.v) \/ dest' = dest
        /\ loaded' = loaded
    BY <2>1 DEF HandleMarker, CrashAfterTruncate, base
  <2>3. it.t \in loaded
    BY <2>2, MarkerFacts
  <2>4. \A t \in Tables \ {it.t} : dest'[t] = dest[t]
    BY <1>1, <2>2 DEF Truncated
  <2>5. QED
    BY <1>3, <2>2, <2>3, <2>4
<1>6. CASE EmitRow \/ CrashAfterRow
  <2>1. HasRow /\ dest' = Applied(event) /\ loaded' = loaded
    BY <1>6 DEF EmitRow, CrashAfterRow, base
  <2>2. item.t \in loaded
    BY <2>1, StreamFacts DEF HasRow
  <2>3. \A t \in Tables \ {item.t} : dest'[t] = dest[t]
    BY <1>1, <2>1 DEF Applied
  <2>4. QED
    BY <1>3, <2>1, <2>2, <2>3
<1>7. CASE \/ SinkStep \/ (\E C \in Catalogs : Refilter(C)) \/ UNCHANGED vars
           \/ QuietStep /\ dest' = dest
  <2>1. loaded' = loaded
    BY <1>7, QuietStepIs DEF SinkStep, Refilter, vars, connVars, base
  <2>2. dest' = dest
    BY <1>7 DEF SinkStep, Refilter, vars, connVars
  <2>3. QED
    BY <1>2, <2>1, <2>2
<1>8. QuietStep => \/ dest' = dest \/ EmitRow \/ CrashAfterRow
                   \/ \E it \in work : HandleMarker(it) \/ CrashAfterTruncate(it)
  BY DEF QuietStep, SkipRun, StartRun, SkipRow, StopAtCheckpoint, RaiseFallback, FinishFile,
         FinishRun, FailSnapshot, Crash, ScanTable, SkipMarker, SkipOldRange, SkipReadRange, OpenRange
<1>9. QED
  BY <1>4, <1>5, <1>6, <1>7, <1>8, NextIs

(* Only tables of the catalog are loaded.                                  *)
LEMMA LoadedStep == FeedInv /\ [Next]_vars /\ UNCHANGED catalog => (loaded \subseteq catalog)'
<1> SUFFICES ASSUME FeedInv, [Next]_vars, UNCHANGED catalog PROVE loaded' \subseteq catalog
  OBVIOUS
<1>1. loaded' = loaded \/ \E c \in Versions, S \in SUBSET Tables : LoadSnapshot(c, S)
  BY NextIs, QuietStepIs DEF SinkStep, Refilter, vars, connVars, base
<1>2. loaded' = loaded \/ \E S \in SUBSET Tables : S \subseteq catalog \ loaded /\ loaded' = loaded \cup S
  BY <1>1 DEF LoadSnapshot, Loaded
<1>3. QED
  BY <1>2 DEF FeedInv

-----------------------------------------------------------------------------
(* What the state has acknowledged of a key.                               *)
LEMMA BehindMember ==
  ASSUME NEW t, NEW k, NEW b
  PROVE  b \in BehindState(t, k) <=>
           \/ b = LastChange(t, k, snap).ts
           \/ \E x \in Positions : /\ x[1][1] = t /\ RowAt(x).key = k /\ IsRead(saved, x)
                                   /\ b = RowAt(x).ts
           \/ \E m \in schemas[t] : /\ m.trunc /\ m.v <= Max2(saved.wm[t], SnapVersion(t))
                                    /\ b = m.v
BY DEF BehindState

(* None of it is later than what is in the destination.                    *)
LEMMA AckedFacts ==
  ASSUME Inv, Progress, NEW t \in loaded, NEW k \in Keys
  PROVE  /\ Acked(t, k) \in BehindState(t, k) /\ Acked(t, k) \in Nat
         /\ \A b \in BehindState(t, k) : b \in Nat /\ b <= Acked(t, k)
         /\ dest[t][k].ts \in Nat /\ Acked(t, k) <= dest[t][k].ts
<1> DEFINE B == BehindState(t, k)
<1>1. t \in Tables /\ NoLoss /\ snap \in Nat /\ dest[t][k] \in Cell
  BY NothingLost, BoundsType DEF Inv, TypeOk
<1>2. dest[t][k].ts \in Nat
  BY <1>1, SinkAssumption DEF Cell
<1>3. LastChange(t, k, snap).ts \in Nat /\ LastChange(t, k, snap).ts <= dest[t][k].ts
  <2>1. PICK y \in Changes(t, k) : y = LastChange(t, k, snap) /\ y.ts <= snap
    BY <1>1, LastChangeIs
  <2>2. QED
    BY <1>1, <2>1, Covered, ChangeIsLast
<1>4. ASSUME NEW b \in B PROVE b \in Nat /\ b <= dest[t][k].ts
  <2>1. CASE b = LastChange(t, k, snap).ts
    BY <1>3, <2>1
  <2>2. CASE \E x \in Positions : /\ x[1][1] = t /\ RowAt(x).key = k /\ IsRead(saved, x)
                                  /\ b = RowAt(x).ts
    <3>1. PICK x \in Positions : /\ x[1][1] = t /\ RowAt(x).key = k /\ IsRead(saved, x)
                                 /\ b = RowAt(x).ts
      BY <2>2
    <3>2. RowAt(x).ts \in Nat
      BY PositionFacts
    <3>3. dest[t][k].ts >= RowAt(x).ts
      BY <1>1, <3>1 DEF NoLoss
    <3>4. QED
      BY <1>2, <3>1, <3>2, <3>3
  <2>3. CASE \E m \in schemas[t] : /\ m.trunc /\ m.v <= Max2(saved.wm[t], SnapVersion(t))
                                   /\ b = m.v
    <3>1. PICK m \in schemas[t] : /\ m.trunc /\ m.v <= Max2(saved.wm[t], SnapVersion(t))
                                  /\ b = m.v
      BY <2>3
    <3>2. m.v \in Nat
      BY <1>1, SchemaFacts
    <3>3. dest[t][k].ts >= m.v
      BY <1>1, <3>1 DEF NoLoss
    <3>4. QED
      BY <1>2, <3>1, <3>2, <3>3
  <2>4. QED
    BY <2>1, <2>2, <2>3, BehindMember
<1>5. B \in SUBSET Nat /\ B # {}
  BY <1>4, BehindMember
<1>6. \E a \in B : \A b \in B : b <= a
  BY <1>2, <1>4, <1>5, LargestOf
<1>7. Acked(t, k) = CHOOSE a \in B : \A b \in B : b <= a
  BY DEF Acked
<1>8. Acked(t, k) \in B /\ \A b \in B : b <= Acked(t, k)
  BY <1>6, <1>7
<1>9. QED
  BY <1>2, <1>4, <1>8

(* What may be shown of a key.                                             *)
LEMMA ShownMember ==
  ASSUME NEW t \in loaded, NEW k, NEW y
  PROVE  y \in Shown(t, k) <=> \/ y = LastChange(t, k, snap)
                               \/ y \in Changes(t, k) /\ snap < y.ts /\ y.ts <= meta
BY DEF Shown

(* The changes of a key are values a cell may hold.                        *)
LEMMA ChangesType ==
  ASSUME Inv, NEW t \in Tables, NEW k \in Keys, NEW y \in Changes(t, k)
  PROVE  y \in Cell
<1>1. y.ts \in Nat /\ (y = NoChange \/ y = LastChange(t, k, y.ts))
  BY ChangeIsLast DEF NoChange
<1>2. NoChange \in Cell
  BY SinkAssumption DEF NoChange, Cell
<1>3. QED
  BY <1>1, <1>2, LastChangeIs

(* The destination shows it, and nothing that is shown is older.           *)
LEMMA ShownFacts ==
  ASSUME Inv, NEW t \in loaded, NEW k \in Keys
  PROVE  /\ dest[t][k] \in Shown(t, k) /\ dest[t][k] \in Cell
         /\ \A y \in Shown(t, k) : y \in Cell /\ y.ts \in Nat /\ LastChange(t, k, snap).ts <= y.ts
<1>1. t \in Tables /\ snap \in Nat /\ meta \in Nat /\ dest[t][k] \in Cell
  BY BoundsType DEF Inv, TypeOk
<1>2. PICK z : z = LastChange(t, k, snap)
  OBVIOUS
<1>3. /\ z \in Changes(t, k) /\ z \in Cell /\ z.ts \in Nat /\ z.ts <= snap
      /\ \A y \in Changes(t, k) : y.ts <= snap => y.ts <= z.ts
  BY <1>1, <1>2, LastChangeIs, ChangeIsLast
<1>4. dest[t][k] \in Shown(t, k)
  <2>1. PICK c \in snap .. Max2(meta, snap) : dest[t][k] = LastChange(t, k, c)
    BY DEF Inv, CellsWereTrue
  <2>2. PICK y : y = dest[t][k]
    OBVIOUS
  <2>3. c \in Nat /\ snap <= c /\ (c <= meta \/ c <= snap)
    BY <1>1, <2>1 DEF Max2
  <2>4. /\ y \in Changes(t, k) /\ y.ts \in Nat /\ y.ts <= c
        /\ \A u \in Changes(t, k) : u.ts <= c => u.ts <= y.ts
    BY <1>1, <2>1, <2>2, <2>3, LastChangeIs, ChangeIsLast
  <2>5. CASE snap < y.ts
    <3>1. y.ts <= meta
      BY <1>1, <2>3, <2>4, <2>5
    <3>2. QED
      BY <2>2, <2>4, <2>5, <3>1, ShownMember
  <2>6. CASE y.ts <= snap
    <3>1. y.ts <= z.ts /\ z.ts <= y.ts
      BY <1>1, <1>3, <2>3, <2>4, <2>6
    <3>2. y = z
      BY <1>1, <1>3, <2>4, <3>1, OneChangeAtATime
    <3>3. QED
      BY <1>2, <2>2, <3>2, ShownMember
  <2>7. QED
    BY <1>1, <2>4, <2>5, <2>6
<1>5. ASSUME NEW y \in Shown(t, k) PROVE y \in Cell /\ y.ts \in Nat /\ z.ts <= y.ts
  <2>1. CASE y = z
    BY <1>3, <2>1
  <2>2. CASE y \in Changes(t, k) /\ snap < y.ts
    BY <1>1, <1>3, <2>2, ChangesType, ChangeIsLast
  <2>3. QED
    BY <1>2, <2>1, <2>2, ShownMember
<1>6. QED
  BY <1>1, <1>2, <1>4, <1>5

(* What the feed has of loaded tables, as a formula that can be primed.    *)
FeedOk ==
  \A t \in loaded, k \in Keys :
    /\ Acked(t, k) \in BehindState(t, k) /\ Acked(t, k) \in Nat
    /\ \A b \in BehindState(t, k) : b \in Nat /\ b <= Acked(t, k)
    /\ dest[t][k].ts \in Nat /\ Acked(t, k) <= dest[t][k].ts
    /\ dest[t][k] \in Shown(t, k) /\ dest[t][k] \in Cell
    /\ \A y \in Shown(t, k) : y \in Cell /\ y.ts \in Nat /\ LastChange(t, k, snap).ts <= y.ts

(* The invariant of the connector says so.                                 *)
LEMMA FeedNow == Inv /\ Progress => FeedOk
BY AckedFacts, ShownFacts DEF FeedOk

(* After a step too.                                                       *)
LEMMA FeedNext == Inv' /\ Progress' => FeedOk'
BY FeedNow, PTL

-----------------------------------------------------------------------------
(* The saved watermark never goes back.                                    *)
LEMMA SavedWatermark ==
  ASSUME Inv, Progress, NEW t \in Tables, QuietStep \/ UNCHANGED vars
  PROVE  saved.wm[t] <= saved'.wm[t] /\ saved.wm[t] \in Nat /\ saved'.wm[t] \in Nat
<1>1. /\ mem \in State /\ saved \in State
      /\ saved.wm[t] \in Nat /\ mem.wm[t] \in Nat
  BY StateFacts DEF Inv, TypeOk
<1>2. pc # "idle" => mem.wm = saved.wm
  BY DEF Progress, RunOk, Running, Ahead
<1>3. CASE \/ StartRun \/ SkipRow \/ RaiseFallback \/ Crash \/ CrashAfterRow \/ UNCHANGED vars
           \/ \E u \in Tables : ScanTable(u)
           \/ \E it \in work : \/ SkipMarker(it) \/ SkipOldRange(it)
                               \/ SkipReadRange(it) \/ OpenRange(it) \/ CrashAfterTruncate(it)
  <2>1. saved' = saved
    BY <1>3 DEF StartRun, SkipRow, RaiseFallback, Crash, CrashAfterRow, ScanTable, SkipMarker,
                SkipOldRange, SkipReadRange, OpenRange, CrashAfterTruncate, EndRun, vars, connVars
  <2>2. QED
    BY <1>1, <2>1
<1>4. CASE SkipRun \/ FailSnapshot \/ FinishRun
  <2>1. \/ saved' = Compact(saved, catalog) \/ saved' = saved
        \/ saved' = Compact(mem, catalog) /\ pc # "idle"
    BY <1>4 DEF SkipRun, FailSnapshot, FinishRun, EndRun
  <2>2. saved'.wm = saved.wm
    BY <1>1, <1>2, <2>1, CompactFacts
  <2>3. QED
    BY <1>1, <2>2
<1>5. CASE StopAtCheckpoint
  <2>1. HasRow /\ saved' = SetCursor(mem, stream, Stopped)
    BY <1>5 DEF StopAtCheckpoint, EndRun
  <2>2. saved' = mem /\ pc # "idle"
    BY <2>1, StoppedIsMem DEF HasRow
  <2>3. QED
    BY <1>1, <1>2, <2>2
<1>6. CASE EmitRow
  <2>1. HasRow /\ (saved' = Advanced \/ saved' = saved)
    BY <1>6 DEF EmitRow
  <2>2. Advanced.wm = mem.wm /\ pc # "idle"
    BY <2>1, AdvancedFacts DEF HasRow
  <2>3. saved'.wm = saved.wm
    BY <1>2, <2>1, <2>2
  <2>4. QED
    BY <1>1, <2>3
<1>7. CASE FinishFile
  <2>1. pc = "read" /\ saved' = SetCursor(mem, stream, Finished(cursor, item.d, at.file))
    BY <1>7 DEF FinishFile
  <2>2. saved'.wm = mem.wm
    BY <1>1, <2>1 DEF SetCursor, State
  <2>3. QED
    BY <1>1, <1>2, <2>1, <2>2
<1>8. CASE \E it \in work : HandleMarker(it)
  <2>1. PICK it \in work : HandleMarker(it)
    BY <1>8
  <2>2. /\ saved' = SetWatermark(mem, it.t, it.v) /\ pc # "idle"
        /\ it.t \in Tables /\ it.v \in Nat
    BY <2>1, SinkAssumption DEF HandleMarker, Inv, TypeOk, Item, Versions
  <2>3. saved'.wm = [mem.wm EXCEPT ![it.t] = Max2(mem.wm[it.t], it.v)]
    BY <1>1, <2>2 DEF SetWatermark, State
  <2>4. mem.wm \in [Tables -> 0 .. MaxTs] /\ mem.wm[it.t] \in Nat
    BY <1>1, <2>2, StateFacts DEF State
  <2>5. saved'.wm[t] = IF t = it.t THEN Max2(mem.wm[it.t], it.v) ELSE mem.wm[t]
    BY <2>2, <2>3, <2>4
  <2>6. QED
    BY <1>1, <1>2, <2>2, <2>4, <2>5 DEF Max2
<1>9. QED
  BY <1>3, <1>4, <1>5, <1>6, <1>7, <1>8 DEF QuietStep

(* What is behind the state stays so in a step of the connector that       *)
(* leaves the bucket alone.                                                *)
LEMMA QuietBehind ==
  ASSUME Inv, Inv', Progress, [Next]_vars, UNCHANGED <<sinkVars, base>>,
         NEW t \in loaded, t \in catalog, NEW k \in Keys,
         saved.wm[t] <= saved'.wm[t], saved.wm[t] \in Nat, saved'.wm[t] \in Nat,
         NEW b \in BehindState(t, k)
  PROVE  b \in BehindState(t, k)'
<1>1. t \in Tables /\ snap \in Nat
  BY BoundsType DEF Inv, TypeOk
<1>2. UNCHANGED <<schemas, files, snap>>
  BY DEF sinkVars, base
<1>3. Positions' = Positions /\ \A x : RowAt(x)' = RowAt(x)
  BY QuietPositions
<1>4. LastChange(t, k, snap)' = LastChange(t, k, snap)
  <2>1. (\A u \in Tables, j \in Keys, c \in Nat : LastChange(u, j, c)' = LastChange(u, j, c))
    BY QuietInv DEF Inv
  <2>2. \A c \in Nat : LastChange(t, k, c)' = LastChange(t, k, c)
    BY <1>1, <2>1
  <2>3. Changes(t, k)' = Changes(t, k)
    BY DEF Changes, RowsOf, FileRows, SeqRange, sinkVars
  <2>4. QED
    BY <1>2, <2>3 DEF LastChange
<1>5. CASE b = LastChange(t, k, snap).ts
  BY <1>4, <1>5 DEF BehindState
<1>6. CASE \E x \in Positions : /\ x[1][1] = t /\ RowAt(x).key = k /\ IsRead(saved, x)
                                /\ b = RowAt(x).ts
  <2>1. PICK x \in Positions : /\ x[1][1] = t /\ RowAt(x).key = k /\ IsRead(saved, x)
                               /\ b = RowAt(x).ts
    BY <1>6
  <2>2. IsRead(saved, x)'
    BY <2>1, NextReads
  <2>3. x \in Positions' /\ RowAt(x)'.key = k /\ b = RowAt(x)'.ts
    BY <1>3, <2>1
  <2>4. QED
    BY <2>1, <2>2, <2>3 DEF BehindState
<1>7. CASE \E m \in schemas[t] : /\ m.trunc /\ m.v <= Max2(saved.wm[t], SnapVersion(t))
                                 /\ b = m.v
  <2>1. PICK m \in schemas[t] : /\ m.trunc /\ m.v <= Max2(saved.wm[t], SnapVersion(t))
                                /\ b = m.v
    BY <1>7
  <2>2. SnapVersion(t)' = SnapVersion(t)
    BY <1>2 DEF SnapVersion
  <2>3. PICK v \in Nat : v = SnapVersion(t)
    BY <1>1, SnapVersionFacts
  <2>4. m.v \in Nat
    BY <1>1, SchemaFacts
  <2>5. m.v <= Max2(saved'.wm[t], v)
    BY <2>1, <2>3, <2>4 DEF Max2
  <2>6. m \in schemas'[t] /\ m.v <= Max2(saved.wm[t], SnapVersion(t))'
    BY <1>2, <2>1, <2>2, <2>3, <2>5
  <2>7. QED
    BY <2>1, <2>6 DEF BehindState
<1>8. QED
  BY <1>5, <1>6, <1>7, BehindMember

(* A step of the connector that leaves the bucket alone leaves alone what  *)
(* may be shown, and it writes and acknowledges.                           *)
LEMMA FeedSync ==
  ASSUME Inv, Progress, FeedInv, Inv', Progress', FeedInv', [Next]_vars, QuietStep \/ UNCHANGED vars
  PROVE  Feed!Sync
<1>1. UNCHANGED <<sinkVars, base>>
  BY QuietStepIs DEF vars, connVars
<1>2. UNCHANGED <<clock, date, schemas, buf, files, meta, catalog, loaded, snap>>
  BY <1>1 DEF sinkVars, base
<1>3. ASSUME NEW t \in Tables, NEW k \in Keys
      PROVE  /\ Shown(t, k)' = Shown(t, k)
             /\ dest'[t][k] \in Cell /\ dest'[t][k] \in Shown(t, k)
             /\ Acked(t, k)' \in Nat /\ Acked(t, k)' \in Acked(t, k) .. dest'[t][k].ts
  <2>1. Shown(t, k)' = Shown(t, k)
    BY <1>2 DEF Shown, Changes, RowsOf, FileRows, SeqRange, LastChange
  <2>2. CASE t \in loaded
    <3>1. t \in catalog /\ t \in loaded'
      BY <1>2, <2>2 DEF FeedInv
    <3>2. /\ Acked(t, k) \in BehindState(t, k) /\ Acked(t, k) \in Nat
          /\ \A b \in BehindState(t, k)' : b \in Nat /\ b <= Acked(t, k)'
          /\ Acked(t, k)' \in Nat /\ dest'[t][k].ts \in Nat /\ Acked(t, k)' <= dest'[t][k].ts
          /\ dest'[t][k] \in Shown(t, k)' /\ dest'[t][k] \in Cell
      BY <2>2, <3>1, FeedNow, FeedNext DEF FeedOk
    <3>3. Acked(t, k) \in BehindState(t, k)'
      BY <1>1, <2>2, <3>1, <3>2, SavedWatermark, QuietBehind
    <3>4. Acked(t, k) <= Acked(t, k)'
      BY <3>2, <3>3
    <3>5. QED
      BY <2>1, <3>2, <3>4
  <2>3. CASE t \notin loaded
    <3>1. dest'[t][k] = NoChange /\ Shown(t, k) = {NoChange} /\ Acked(t, k) = 0 /\ Acked(t, k)' = 0
      BY <1>2, <2>3 DEF FeedInv, Untouched, Shown, Acked
    <3>2. NoChange \in Cell /\ NoChange.ts = 0
      BY SinkAssumption DEF NoChange, Cell
    <3>3. QED
      BY <2>1, <3>1, <3>2
  <2>4. QED
    BY <2>2, <2>3
<1>4. ASSUME NEW c \in Cells
      PROVE  /\ Shown(c[1], c[2])' = Shown(c[1], c[2])
             /\ dest'[c[1]][c[2]] \in Cell /\ dest'[c[1]][c[2]] \in Shown(c[1], c[2])
             /\ Acked(c[1], c[2])' \in Nat
             /\ Acked(c[1], c[2])' \in Acked(c[1], c[2]) .. dest'[c[1]][c[2]].ts
  BY <1>3 DEF Cells
<1>5. QED
  BY <1>4 DEF Feed!Sync

-----------------------------------------------------------------------------
(* The sink adds changes above the checkpoint-ts and the snapshot.         *)
LEMMA SinkChanges ==
  ASSUME Inv, SinkStep, NEW t \in Tables, NEW k \in Keys
  PROVE  /\ Changes(t, k) \subseteq Changes(t, k)'
         /\ \A y \in Changes(t, k)' : y \in Changes(t, k) \/ (meta < y.ts /\ snap < y.ts)
<1>1. SinkInv /\ meta \in Nat /\ snap \in Nat /\ clock \in Nat /\ meta <= clock /\ snap <= clock
  BY BoundsType DEF Inv, SinkInv
<1>2. ASSUME NEW u \in Tables, NEW j \in Keys, NEW op \in Ops, NEW ts \in Versions,
             ts > snap, CommitRow(u, j, op, ts)
      PROVE  /\ Changes(t, k) \subseteq Changes(t, k)'
             /\ \A y \in Changes(t, k)' : y \in Changes(t, k) \/ (meta < y.ts /\ snap < y.ts)
  <2> DEFINE row == [ts |-> ts, key |-> j, op |-> op]
  <2>1. ts > meta /\ schemas' = schemas /\ ts \in Nat
    BY <1>2, SinkAssumption DEF CommitRow, Versions
  <2>2. RowsOf(t)' = RowsOf(t) \/ RowsOf(t)' = RowsOf(t) \cup {row}
    BY <1>1, <1>2, CommitRows
  <2>3. row.ts = ts
    OBVIOUS
  <2> HIDE DEF row
  <2>4. Changes(t, k) \subseteq Changes(t, k)'
    BY <2>1, <2>2 DEF Changes
  <2>5. ASSUME NEW y \in Changes(t, k)', y \notin Changes(t, k) PROVE y.ts = ts
    <3>1. \E r \in RowsOf(t)' : r.key = k /\ y = [ts |-> r.ts, live |-> r.op # "D"]
      BY <2>1, <2>5, ChangesMember, ChangesMemberNext
    <3>2. PICK r \in RowsOf(t)' : r.key = k /\ y = [ts |-> r.ts, live |-> r.op # "D"]
      BY <3>1
    <3>3. r \notin RowsOf(t)
      BY <2>5, <3>2, ChangesMember
    <3>4. QED
      BY <2>2, <2>3, <3>2, <3>3
  <2>6. QED
    BY <1>1, <1>2, <2>1, <2>4, <2>5
<1>3. ASSUME NEW u \in Tables, NEW trunc \in BOOLEAN, DDL(u, trunc)
      PROVE  /\ Changes(t, k) \subseteq Changes(t, k)'
             /\ \A y \in Changes(t, k)' : y \in Changes(t, k) \/ (meta < y.ts /\ snap < y.ts)
  <2> DEFINE n == [v |-> clock + 1, trunc |-> trunc]
  <2>1. RowsOf(t)' = RowsOf(t)
    BY <1>3, SameRows DEF DDL
  <2>2. schemas' = [schemas EXCEPT ![u] = @ \cup {n}] /\ schemas \in [Tables -> SUBSET Schema]
    BY <1>1, <1>3 DEF DDL, SinkInv, SinkTypeOk
  <2>3. n.v = clock + 1
    OBVIOUS
  <2> HIDE DEF n
  <2>4. schemas[t] \subseteq schemas'[t] /\ \A m \in schemas'[t] : m \in schemas[t] \/ m = n
    BY <2>2
  <2>5. Changes(t, k) \subseteq Changes(t, k)'
    BY <2>1, <2>4, ChangesMember, ChangesMemberNext
  <2>6. ASSUME NEW y \in Changes(t, k)', y \notin Changes(t, k) PROVE y.ts = clock + 1
    <3>1. PICK m \in schemas'[t] : m.trunc /\ y = [ts |-> m.v, live |-> FALSE]
      BY <2>1, <2>6, ChangesMember, ChangesMemberNext
    <3>2. m \notin schemas[t]
      BY <2>6, <3>1, ChangesMember
    <3>3. QED
      BY <2>3, <2>4, <3>1, <3>2
  <2>7. QED
    BY <1>1, <2>5, <2>6
<1>4. ASSUME (\E s \in Streams : Flush(s) \/ Restart(s)) \/ RollDate \/ (\E c \in Versions : Publish(c))
      PROVE  Changes(t, k)' = Changes(t, k)
  <2>1. RowsOf(t)' = RowsOf(t)
    BY <1>1, <1>4, FlushRows, RestartRows, SameRows DEF RollDate, Publish
  <2>2. schemas' = schemas
    BY <1>4 DEF Flush, Restart, RollDate, Publish
  <2>3. QED
    BY <2>1, <2>2 DEF Changes
<1>5. QED
  BY <1>2, <1>3, <1>4 DEF SinkStep

(* Timestamps of changes, versions and schemas.                            *)
TimesOk ==
  /\ \A t \in Tables, k \in Keys : \A y \in Changes(t, k) : y.ts \in Nat
  /\ \A t \in Tables : SnapVersion(t) \in Nat /\ SnapVersion(t) <= snap
  /\ \A t \in Tables : \A m \in schemas[t] : m.v \in Nat

(* They are numbers after a step too.                                      *)
LEMMA TimesNext == Inv' => TimesOk'
<1>1. Inv => TimesOk
  BY ChangeIsLast, SnapVersionFacts, SchemaFacts DEF TimesOk
<1>2. QED
  BY <1>1, PTL

(* What the snapshot has of a key is not changed by a step of the sink.    *)
LEMMA SinkSnapshot ==
  ASSUME Inv, SinkStep, NEW t \in Tables, NEW k \in Keys
  PROVE  LastChange(t, k, snap)' = LastChange(t, k, snap)
<1>1. snap' = snap
  BY DEF SinkStep, connVars, base
<1>2. snap \in Nat /\ \A y \in Changes(t, k)' : y \in Changes(t, k) \/ snap < y.ts
  BY SinkChanges, BoundsType
<1>3. \A y \in Changes(t, k)' : y \in Changes(t, k) => y.ts \in Nat
  BY ChangeIsLast
<1>4. {y \in Changes(t, k)' : y.ts <= snap} = {y \in Changes(t, k) : y.ts <= snap}
  <2>1. ASSUME NEW y \in Changes(t, k)', y \notin Changes(t, k) PROVE ~(y.ts <= snap)
    <3>1. y.ts \in Nat
      BY <2>1, SinkStepInv, TimesNext DEF TimesOk
    <3>2. QED
      BY <1>2, <2>1, <3>1
  <2>2. QED
    BY <2>1, SinkChanges
<1>5. QED
  BY <1>1, <1>4 DEF LastChange

(* The rows at positions, and what is read of them above the snapshot.     *)
PositionRows ==
  \A x \in Positions : /\ RowAt(x) \in RowsOf(x[1][1]) /\ RowAt(x).ts \in Nat
                       /\ RowAt(x).ts > snap => (IsRead(saved, x) <=> Behind(saved, x))

(* The invariant of the connector says so, after a step too.               *)
LEMMA PositionRowsNext == Inv' /\ Progress' => PositionRows'
<1>1. Inv /\ Progress => PositionRows
  <2>1. Inv => saved \in State
    BY DEF Inv, TypeOk
  <2>2. QED
    BY <2>1, PositionFacts, ReadSince DEF PositionRows, Since
<1>2. QED
  BY <1>1, PTL

(* The sink brings nothing that the saved state has acknowledged, and      *)
(* takes nothing away.                                                     *)
LEMMA SinkAcked ==
  ASSUME Inv, Inv', Progress, Progress', FeedInv, SinkStep, NEW t \in loaded, NEW k \in Keys
  PROVE  Acked(t, k)' = Acked(t, k)
<1> DEFINE z == LastChange(t, k, snap)
<1>1. /\ UNCHANGED connVars /\ t \in Tables /\ t \in catalog /\ snap' = snap /\ saved' = saved
      /\ loaded' = loaded /\ snap \in Nat /\ meta \in Nat /\ clock \in Nat
      /\ snap <= clock /\ meta <= clock /\ saved \in State /\ SinkOrder /\ StateOk(saved)
  BY BoundsType DEF SinkStep, connVars, base, FeedInv, Inv, TypeOk, SinkInv, Progress
<1>2. SinkAdds
  BY <1>1, SinkStepAdds DEF Inv
<1>3. /\ z \in Changes(t, k) /\ z.ts \in Nat /\ z.ts <= snap
      /\ \A y \in Changes(t, k) : y.ts <= snap => y.ts <= z.ts
  BY <1>1, LastChangeIs, ChangeIsLast
<1>4. z.ts \in BehindState(t, k) /\ LastChange(t, k, snap)' = z
  BY <1>1, SinkSnapshot, BehindMember
<1> HIDE DEF z
<1>5. ASSUME NEW b \in BehindState(t, k)' PROVE \E a \in BehindState(t, k) : b <= a
  <2>1. CASE b = LastChange(t, k, snap)'.ts
    BY <1>3, <1>4, <2>1
  <2>2. CASE \E x \in Positions' : /\ x[1][1] = t /\ RowAt(x)'.key = k /\ IsRead(saved, x)'
                                   /\ b = RowAt(x)'.ts
    <3>1. PICK x \in Positions' : /\ x[1][1] = t /\ RowAt(x)'.key = k /\ IsRead(saved, x)'
                                  /\ b = RowAt(x)'.ts
      BY <2>2
    <3>2. /\ RowAt(x)' \in RowsOf(t)' /\ RowAt(x)'.ts \in Nat
          /\ RowAt(x)'.ts > snap => (IsRead(saved, x)' <=> Behind(saved, x)')
      BY <1>1, <3>1, PositionRowsNext DEF PositionRows
    <3>3. CASE RowAt(x)'.ts <= snap
      <4> DEFINE y == [ts |-> RowAt(x)'.ts, live |-> RowAt(x)'.op # "D"]
      <4>1. y \in Changes(t, k)' /\ y.ts = b
        BY <3>1, <3>2, ChangesMemberNext
      <4> HIDE DEF y
      <4>2. y \in Changes(t, k)
        BY <1>1, <3>1, <3>2, <3>3, <4>1, SinkChanges
      <4>3. QED
        BY <1>3, <1>4, <3>1, <3>3, <4>1, <4>2
    <3>4. CASE RowAt(x)'.ts > snap
      <4>1. Behind(saved, x)
        BY <1>1, <3>1, <3>2, <3>4 DEF Behind, PassedAt, Passed
      <4>2. x \in Positions /\ RowAt(x)' = RowAt(x)
        BY <1>1, <1>2, <3>1, <4>1, BehindIsOld DEF StateOk
      <4>3. IsRead(saved, x)
        BY <1>1, <4>1, <4>2, IsReadIs
      <4>4. b \in BehindState(t, k)
        BY <3>1, <4>2, <4>3, BehindMember
      <4>5. QED
        BY <3>1, <3>2, <4>4
    <3>5. QED
      BY <1>1, <3>2, <3>3, <3>4
  <2>3. CASE \E m \in schemas'[t] : /\ m.trunc /\ m.v <= Max2(saved.wm[t], SnapVersion(t))'
                                    /\ b = m.v
    <3>1. PICK m \in schemas'[t] : /\ m.trunc /\ m.v <= Max2(saved.wm[t], SnapVersion(t))'
                                   /\ b = m.v
      BY <2>3
    <3>2. PICK v : v = SnapVersion(t)'
      OBVIOUS
    <3>3. v \in Nat /\ v <= snap
      BY <1>1, <3>2, TimesNext DEF TimesOk
    <3>4. saved.wm[t] \in Nat /\ saved.wm[t] <= clock
      <4>1. WatermarkOk(saved) /\ saved.wm[t] \in Nat
        BY <1>1, StateFacts DEF StateOk
      <4>2. QED
        BY <1>1, <4>1 DEF WatermarkOk
    <3>5. m.v <= saved.wm[t] \/ m.v <= v
      <4>1. Max2(saved.wm[t], SnapVersion(t))' = Max2(saved.wm[t], v)
        BY <1>1, <3>2
      <4>2. QED
        BY <3>1, <4>1 DEF Max2
    <3>6. m.v \in Nat
      BY <1>1, <3>1, TimesNext DEF TimesOk
    <3>7. m \in schemas[t]
      <4>1. ~(clock < m.v)
        BY <1>1, <3>3, <3>4, <3>5, <3>6
      <4>2. QED
        BY <1>1, <1>2, <3>1, <4>1 DEF SinkAdds
    <3>8. CASE m.v <= saved.wm[t]
      <4>1. m.v <= Max2(saved.wm[t], SnapVersion(t))
        BY <1>1, <3>4, <3>6, <3>8, SnapVersionFacts DEF Max2
      <4>2. b \in BehindState(t, k)
        BY <3>1, <3>7, <4>1, BehindMember
      <4>3. QED
        BY <3>1, <3>6, <4>2
    <3>9. CASE m.v <= v
      <4> DEFINE y == [ts |-> m.v, live |-> FALSE]
      <4>1. y \in Changes(t, k) /\ y.ts = m.v
        BY <3>1, <3>7, ChangesMember
      <4> HIDE DEF y
      <4>2. m.v <= z.ts
        BY <1>1, <1>3, <3>3, <3>6, <3>9, <4>1
      <4>3. QED
        BY <1>4, <3>1, <4>2
    <3>10. QED
      BY <3>5, <3>8, <3>9
  <2>4. QED
    BY <2>1, <2>2, <2>3 DEF BehindState
<1>6. ASSUME NEW b \in BehindState(t, k) PROVE \E a \in BehindState(t, k)' : b <= a
  <2>1. b \in Nat
    BY FeedNow DEF FeedOk
  <2>2. CASE b = z.ts
    BY <1>4, <2>1, <2>2 DEF BehindState
  <2>3. CASE \E x \in Positions : /\ x[1][1] = t /\ RowAt(x).key = k /\ IsRead(saved, x)
                                  /\ b = RowAt(x).ts
    <3>1. PICK x \in Positions : /\ x[1][1] = t /\ RowAt(x).key = k /\ IsRead(saved, x)
                                 /\ b = RowAt(x).ts
      BY <2>3
    <3>2. x \in Positions' /\ RowAt(x)' = RowAt(x)
      BY <1>2, OldPosition
    <3>3. IsRead(saved, x)'
      BY <3>1, SinkStepReads
    <3>4. b \in BehindState(t, k)'
      BY <3>1, <3>2, <3>3 DEF BehindState
    <3>5. QED
      BY <2>1, <3>4
  <2>4. CASE \E m \in schemas[t] : /\ m.trunc /\ m.v <= Max2(saved.wm[t], SnapVersion(t))
                                   /\ b = m.v
    <3>1. PICK m \in schemas[t] : /\ m.trunc /\ m.v <= Max2(saved.wm[t], SnapVersion(t))
                                  /\ b = m.v
      BY <2>4
    <3>2. /\ m.v \in Nat /\ saved.wm[t] \in Nat /\ SnapVersion(t) \in Nat /\ SnapVersion(t) <= snap
          /\ m \in schemas'[t]
      BY <1>1, <1>2, SchemaFacts, StateFacts, SnapVersionFacts DEF SinkAdds
    <3>3. CASE m.v <= saved.wm[t]
      <4>1. m.v <= Max2(saved.wm[t], SnapVersion(t))'
        <5>1. PICK v : v = SnapVersion(t)'
          OBVIOUS
        <5>2. v \in Nat
          BY <1>1, <5>1, ReadNext DEF VersionsOk
        <5>3. m.v <= Max2(saved.wm[t], v)
          BY <3>2, <3>3, <5>2 DEF Max2
        <5>4. QED
          BY <1>1, <5>1, <5>3
      <4>2. b \in BehindState(t, k)'
        BY <3>1, <3>2, <4>1 DEF BehindState
      <4>3. QED
        BY <2>1, <4>2
    <3>4. CASE m.v <= SnapVersion(t)
      <4> DEFINE y == [ts |-> m.v, live |-> FALSE]
      <4>1. y \in Changes(t, k) /\ y.ts = m.v
        BY <3>1, ChangesMember
      <4> HIDE DEF y
      <4>2. b <= z.ts
        BY <1>1, <1>3, <3>1, <3>2, <3>4, <4>1
      <4>3. QED
        BY <1>4, <4>2 DEF BehindState
    <3>5. QED
      BY <3>1, <3>2, <3>3, <3>4 DEF Max2
  <2>5. QED
    BY <2>2, <2>3, <2>4, BehindMember DEF z
<1>7. /\ Acked(t, k) \in BehindState(t, k) /\ Acked(t, k) \in Nat
      /\ \A b \in BehindState(t, k) : b \in Nat /\ b <= Acked(t, k)
      /\ Acked(t, k)' \in BehindState(t, k)' /\ Acked(t, k)' \in Nat
      /\ \A b \in BehindState(t, k)' : b \in Nat /\ b <= Acked(t, k)'
  BY <1>1, FeedNow, FeedNext DEF FeedOk
<1>8. Acked(t, k)' <= Acked(t, k) /\ Acked(t, k) <= Acked(t, k)'
  BY <1>5, <1>6, <1>7
<1>9. QED
  BY <1>7, <1>8

(* What may be shown reaches later when the sink has published more.       *)
LEMMA SinkShown ==
  ASSUME Inv, Inv', SinkStep, NEW t \in loaded, NEW k \in Keys
  PROVE  Feed!Extends(Shown(t, k), Shown(t, k)')
<1>1. /\ t \in Tables /\ t \in loaded' /\ snap' = snap /\ snap \in Nat /\ meta \in Nat
      /\ meta' \in Nat /\ meta <= meta'
  <2>1. t \in Tables /\ t \in loaded' /\ snap' = snap /\ snap \in Nat /\ meta \in Nat
    BY BoundsType DEF SinkStep, connVars, base, Inv, TypeOk
  <2>2. meta' = meta \/ \E c \in Versions : Publish(c)
    BY DEF SinkStep, CommitRow, Flush, Restart, RollDate, DDL
  <2>3. meta' = meta \/ (meta' \in Versions /\ meta < meta')
    BY <2>2 DEF Publish
  <2>4. QED
    BY <2>1, <2>3, SinkAssumption DEF Versions
<1>2. PICK z : z = LastChange(t, k, snap)
  OBVIOUS
<1>3. z.ts \in Nat /\ z.ts <= snap /\ LastChange(t, k, snap)' = z
  BY <1>1, <1>2, LastChangeIs, ChangeIsLast, SinkSnapshot
<1>4. \A y \in Changes(t, k)' : /\ y.ts \in Nat
                                /\ y \in Changes(t, k) \/ (meta < y.ts /\ snap < y.ts)
  BY <1>1, SinkChanges, TimesNext DEF TimesOk
<1>5. Changes(t, k) \subseteq Changes(t, k)'
  BY <1>1, SinkChanges
<1>6. \A y : y \in Shown(t, k) <=> \/ y = z
                                   \/ y \in Changes(t, k) /\ snap < y.ts /\ y.ts <= meta
  BY <1>2, ShownMember
<1>7. \A y : y \in Shown(t, k)' <=> \/ y = z
                                    \/ y \in Changes(t, k)' /\ snap < y.ts /\ y.ts <= meta'
  BY <1>1, <1>3 DEF Shown
<1> DEFINE T == Shown(t, k)'
<1> HIDE DEF T
<1>8. Shown(t, k) \subseteq T
  <2>1. ASSUME NEW y \in Shown(t, k) PROVE y \in T
    <3>1. CASE y = z
      BY <1>7, <3>1 DEF T
    <3>2. CASE y \in Changes(t, k) /\ snap < y.ts /\ y.ts <= meta
      <4>1. y \in Changes(t, k)' /\ y.ts \in Nat
        BY <1>4, <1>5, <3>2
      <4>2. y.ts <= meta'
        BY <1>1, <3>2, <4>1
      <4>3. QED
        BY <1>7, <3>2, <4>1, <4>2 DEF T
    <3>3. QED
      BY <1>6, <2>1, <3>1, <3>2
  <2>2. QED
    BY <2>1
<1>9. ASSUME NEW v \in T \ Shown(t, k), NEW w \in Shown(t, k) PROVE w.ts < v.ts
  <2>1. v \in Changes(t, k)' /\ snap < v.ts /\ v.ts <= meta' /\ v # z
    BY <1>6, <1>7, <1>9 DEF T
  <2>2. v.ts \in Nat
    BY <1>4, <2>1
  <2>3. meta < v.ts
    BY <1>1, <1>4, <1>6, <1>9, <2>1, <2>2
  <2>4. CASE w = z
    BY <1>1, <1>3, <2>1, <2>2, <2>4
  <2>5. CASE w \in Changes(t, k) /\ w.ts <= meta
    <3>1. w.ts \in Nat
      BY <1>4, <1>5, <2>5
    <3>2. QED
      BY <1>1, <2>2, <2>3, <2>5, <3>1
  <2>6. QED
    BY <1>6, <1>9, <2>4, <2>5
<1>10. QED
  BY <1>8, <1>9 DEF Feed!Extends, T

(* A step of the sink is the source moving on.                             *)
LEMMA FeedPublish ==
  ASSUME Inv, Progress, FeedInv, Inv', Progress', SinkStep
  PROVE  Feed!Publish
<1>1. dest' = dest /\ loaded' = loaded
  BY DEF SinkStep, connVars, base
<1>2. ASSUME NEW t \in Tables, NEW k \in Keys
      PROVE  /\ Acked(t, k)' = Acked(t, k)
             /\ Shown(t, k)' \in SUBSET Cell
             /\ Feed!Extends(Shown(t, k), Shown(t, k)')
  <2>1. CASE t \in loaded
    <3>1. \A y \in Shown(t, k)' : y \in Cell
      BY <1>1, <2>1, FeedNext DEF FeedOk
    <3>2. QED
      BY <2>1, <3>1, SinkAcked, SinkShown
  <2>2. CASE t \notin loaded
    <3>1. Shown(t, k) = {NoChange} /\ Shown(t, k)' = {NoChange} /\ Acked(t, k) = 0 /\ Acked(t, k)' = 0
      BY <1>1, <2>2 DEF Shown, Acked
    <3>2. NoChange \in Cell
      BY SinkAssumption DEF NoChange, Cell
    <3>3. QED
      BY <3>1, <3>2 DEF Feed!Extends
  <2>3. QED
    BY <2>1, <2>2
<1>3. ASSUME NEW c \in Cells
      PROVE  /\ Acked(c[1], c[2])' = Acked(c[1], c[2])
             /\ Shown(c[1], c[2])' \in SUBSET Cell
             /\ Feed!Extends(Shown(c[1], c[2]), Shown(c[1], c[2])')
  BY <1>2 DEF Cells
<1>4. QED
  BY <1>1, <1>3 DEF Feed!Publish

(* Loading other tables takes back nothing of what the state has           *)
(* acknowledged of a loaded one, and adds nothing to it.                   *)
LEMMA LoadAcked ==
  ASSUME Inv, Progress, FeedInv, Inv', Progress',
         NEW v \in Versions, NEW S \in SUBSET Tables, LoadSnapshot(v, S),
         NEW t \in loaded, NEW k \in Keys
  PROVE  Acked(t, k)' = Acked(t, k) /\ Shown(t, k)' = Shown(t, k)
<1>1. /\ t \in Tables /\ t \in catalog /\ t \in loaded' /\ saved \in State
      /\ snap \in Nat /\ v \in Nat
  BY BoundsType, SinkAssumption DEF FeedInv, LoadSnapshot, Loaded, Inv, TypeOk, Versions
<1>2. snap' = snap /\ UNCHANGED sinkVars /\ saved' = Compact(saved, catalog)
  <2>1. snap # 0
    BY DEF Inv
  <2>2. QED
    BY <2>1 DEF LoadSnapshot
<1>3. UNCHANGED <<clock, date, schemas, buf, files, meta>>
  BY <1>2 DEF sinkVars
<1>4. Changes(t, k)' = Changes(t, k)
  BY <1>3 DEF Changes, RowsOf, FileRows, SeqRange
<1>5. LastChange(t, k, snap)' = LastChange(t, k, snap)
  BY <1>2, <1>4 DEF LastChange
<1>6. Shown(t, k)' = Shown(t, k)
  BY <1>1, <1>2, <1>3, <1>4, <1>5 DEF Shown
<1>7. Positions' = Positions /\ \A x : RowAt(x)' = RowAt(x)
  BY <1>3 DEF Positions, RowAt
<1>8. SnapVersion(t)' = SnapVersion(t)
  BY <1>2, <1>3 DEF SnapVersion
<1>9. saved'.wm = saved.wm
  BY <1>1, <1>2, CompactFacts
<1>10. ASSUME NEW x \in Positions, x[1][1] = t
       PROVE  IsRead(saved, x)' <=> IsRead(saved, x)
  <2>1. Behind(saved', x) <=> Behind(saved, x)
    BY <1>1, <1>2, <1>10, CompactBehind
  <2>2. Behind(saved, x)' <=> Behind(saved', x)
    BY <1>3 DEF Behind, PassedAt, Passed
  <2>3. IsRead(saved, x) <=> x[1][2] < SnapVersion(x[1][1]) \/ Behind(saved, x)
    BY <1>1, IsReadIs
  <2>4. IsRead(saved, x)' <=> x[1][2] < SnapVersion(x[1][1])' \/ Behind(saved, x)'
    BY <1>7, ReadNext DEF ReadOk
  <2>5. QED
    BY <1>8, <1>10, <2>1, <2>2, <2>3, <2>4
<1>11. {y \in Positions : y[1][1] = t /\ RowAt(y).key = k /\ IsRead(saved, y)}'
         = {y \in Positions : y[1][1] = t /\ RowAt(y).key = k /\ IsRead(saved, y)}
  BY <1>7, <1>10
<1>12. {RowAt(x).ts : x \in {y \in Positions : y[1][1] = t /\ RowAt(y).key = k /\ IsRead(saved, y)}}'
         = {RowAt(x).ts : x \in {y \in Positions : y[1][1] = t /\ RowAt(y).key = k /\ IsRead(saved, y)}}
  BY <1>7, <1>11
<1>13. Max2(saved.wm[t], SnapVersion(t))' = Max2(saved.wm[t], SnapVersion(t))
  BY <1>8, <1>9
<1>14. BehindState(t, k)' = BehindState(t, k)
  BY <1>3, <1>5, <1>12, <1>13 DEF BehindState
<1>15. Acked(t, k)' = Acked(t, k)
  BY <1>1, <1>14 DEF Acked
<1>16. QED
  BY <1>6, <1>15

(* A table that is loaded starts from what the snapshot has of it.         *)
LEMMA LoadStarts ==
  ASSUME Inv, Progress, FeedInv, Inv', Progress',
         NEW v \in Versions, NEW S \in SUBSET Tables, LoadSnapshot(v, S),
         NEW t \in S, NEW k \in Keys
  PROVE  /\ Acked(t, k) = 0 /\ dest[t][k].ts = 0
         /\ dest'[t][k] \in Shown(t, k)'
         /\ \A y \in Shown(t, k)' : dest'[t][k].ts <= y.ts
         /\ Acked(t, k)' = dest'[t][k].ts
<1>1. t \in Tables /\ t \notin loaded /\ t \in loaded' /\ snap' = v
  BY DEF LoadSnapshot, Loaded
<1>2. Acked(t, k) = 0 /\ dest[t][k].ts = 0
  BY <1>1 DEF FeedInv, Untouched, NoChange, Acked
<1>3. dest'[t] = Truth(t, v)
  BY <1>1 DEF LoadSnapshot
<1>4. UNCHANGED <<clock, date, schemas, buf, files, meta>>
  BY DEF LoadSnapshot, sinkVars
<1>5. Changes(t, k)' = Changes(t, k)
  BY <1>4 DEF Changes, RowsOf, FileRows, SeqRange
<1>6. dest'[t][k] = LastChange(t, k, snap)'
  BY <1>1, <1>3, <1>5 DEF Truth, LastChange
<1>7. /\ Acked(t, k)' \in Nat /\ dest'[t][k].ts \in Nat /\ Acked(t, k)' <= dest'[t][k].ts
      /\ \A b \in BehindState(t, k)' : b <= Acked(t, k)'
      /\ dest'[t][k] \in Shown(t, k)'
      /\ \A y \in Shown(t, k)' : LastChange(t, k, snap)'.ts <= y.ts
  BY <1>1, FeedNext DEF FeedOk
<1>8. dest'[t][k].ts \in BehindState(t, k)'
  BY <1>6 DEF BehindState
<1>9. Acked(t, k)' = dest'[t][k].ts
  BY <1>7, <1>8
<1>10. QED
  BY <1>2, <1>6, <1>7, <1>9

(* Loading tables gives their cells a point to start from.                 *)
LEMMA FeedBegin ==
  ASSUME Inv, Progress, FeedInv, Inv', Progress', FeedInv',
         NEW v \in Versions, NEW S \in SUBSET Tables, LoadSnapshot(v, S)
  PROVE  Feed!Begin(S \X Keys)
<1>1. loaded' = loaded \cup S /\ S \cap loaded = {}
  BY DEF LoadSnapshot, Loaded
<1>2. \A t \in Tables : t \notin S => dest'[t] = dest[t]
  BY DEF LoadSnapshot
<1>3. ASSUME NEW t \in Tables, NEW k \in Keys
      PROVE  Shown(t, k)' \in SUBSET Cell /\ dest'[t][k] \in Cell /\ Acked(t, k)' \in Nat
  <2>1. CASE t \in loaded'
    <3>1. /\ \A y \in Shown(t, k)' : y \in Cell
          /\ dest'[t][k] \in Cell /\ Acked(t, k)' \in Nat
      BY <2>1, FeedNext DEF FeedOk
    <3>2. QED
      BY <3>1
  <2>2. CASE t \notin loaded'
    <3>1. Shown(t, k)' = {NoChange} /\ dest'[t][k] = NoChange /\ Acked(t, k)' = 0
      BY <2>2 DEF FeedInv, Untouched, Shown, Acked
    <3>2. NoChange \in Cell
      BY SinkAssumption DEF NoChange, Cell
    <3>3. QED
      BY <3>1, <3>2
  <2>3. QED
    BY <2>1, <2>2
<1>4. ASSUME NEW t \in Tables \ S, NEW k \in Keys
      PROVE  /\ Shown(t, k)' = Shown(t, k) /\ dest'[t][k] = dest[t][k]
             /\ Acked(t, k)' = Acked(t, k)
  <2>1. CASE t \in loaded
    BY <1>2, <2>1, LoadAcked
  <2>2. CASE t \notin loaded
    BY <1>1, <1>2, <2>2 DEF Shown, Acked
  <2>3. QED
    BY <2>1, <2>2
<1>5. ASSUME NEW c \in Cells
      PROVE  /\ Shown(c[1], c[2])' \in SUBSET Cell /\ dest'[c[1]][c[2]] \in Cell
             /\ Acked(c[1], c[2])' \in Nat
  BY <1>3 DEF Cells
<1>6. ASSUME NEW c \in S \X Keys
      PROVE  /\ c \in Cells
             /\ Acked(c[1], c[2]) = 0 /\ dest[c[1]][c[2]].ts = 0
             /\ dest'[c[1]][c[2]] \in Shown(c[1], c[2])'
             /\ \A y \in Shown(c[1], c[2])' : dest'[c[1]][c[2]].ts <= y.ts
             /\ Acked(c[1], c[2])' = dest'[c[1]][c[2]].ts
  <2>1. c[1] \in S /\ c[2] \in Keys /\ c \in Cells
    BY DEF Cells
  <2>2. QED
    BY <2>1, LoadStarts
<1>7. ASSUME NEW c \in Cells \ (S \X Keys)
      PROVE  /\ Shown(c[1], c[2])' = Shown(c[1], c[2])
             /\ dest'[c[1]][c[2]] = dest[c[1]][c[2]]
             /\ Acked(c[1], c[2])' = Acked(c[1], c[2])
  <2>1. c[1] \in Tables \ S /\ c[2] \in Keys
    BY DEF Cells
  <2>2. QED
    BY <1>4, <2>1
<1>8. QED
  BY <1>5, <1>6, <1>7 DEF Feed!Begin

-----------------------------------------------------------------------------
(* The initial states are those of a feed of which nothing is known.       *)
LEMMA FeedInit == Init => Feed!Init /\ FeedInv
<1> SUFFICES ASSUME Init PROVE Feed!Init /\ FeedInv
  OBVIOUS
<1>1. loaded = {} /\ dest = [t \in Tables |-> [k \in Keys |-> NoChange]]
  BY DEF Init, NoChange
<1>2. NoChange \in Cell /\ NoChange.ts = 0
  BY SinkAssumption DEF NoChange, Cell
<1>3. FeedInv
  BY <1>1 DEF FeedInv, Untouched
<1>4. \A c \in Cells : /\ Shown(c[1], c[2]) = {NoChange} /\ dest[c[1]][c[2]] = NoChange
                       /\ Acked(c[1], c[2]) = 0
  BY <1>1 DEF Cells, Shown, Acked
<1>5. QED
  BY <1>2, <1>3, <1>4 DEF Feed!Init

(* Every step under one configuration is a step of the feed.               *)
LEMMA FeedStep ==
  Inv /\ Progress /\ FeedInv /\ (Inv /\ Progress)' /\ [Next]_vars /\ UNCHANGED catalog
    => FeedInv' /\ [Feed!Next]_Feed!vars
<1> SUFFICES ASSUME Inv, Progress, FeedInv, Inv', Progress', [Next]_vars, UNCHANGED catalog
             PROVE  FeedInv' /\ [Feed!Next]_Feed!vars
  OBVIOUS
<1>1. FeedInv'
  BY UntouchedStep, LoadedStep DEF FeedInv
<1>2. CASE SinkStep
  BY <1>1, <1>2, FeedPublish DEF Feed!Next
<1>3. CASE QuietStep \/ UNCHANGED vars
  BY <1>1, <1>3, FeedSync DEF Feed!Next
<1>4. CASE \E v \in Versions, S \in SUBSET Tables : LoadSnapshot(v, S)
  <2>1. PICK v \in Versions, S \in SUBSET Tables : LoadSnapshot(v, S)
    BY <1>4
  <2>2. Feed!Begin(S \X Keys)
    BY <1>1, <2>1, FeedBegin
  <2>3. S \X Keys \in SUBSET Cells
    BY DEF Cells
  <2>4. QED
    BY <1>1, <2>2, <2>3 DEF Feed!Next
<1>5. ~(\E C \in Catalogs : Refilter(C))
  BY DEF Refilter
<1>6. QED
  BY <1>2, <1>3, <1>4, <1>5, NextIs

(* The incremental sync keeps the promise of a resumable feed: while the   *)
(* configuration names the same tables, and whatever the sink and the      *)
(* crashes do, no cell of the destination shows what was not true since    *)
(* the snapshot, none is behind what the state has saved, and saved        *)
(* progress is never taken back.                                           *)
THEOREM IncrementalIsResumableFeed == Spec /\ [][UNCHANGED catalog]_vars => IsResumableFeed
<1>1. Init => Feed!Init /\ FeedInv
  BY FeedInit
<1>2. Inv /\ Progress /\ FeedInv /\ (Inv /\ Progress)' /\ [Next]_vars /\ UNCHANGED catalog
        => FeedInv' /\ [Feed!Next]_Feed!vars
  BY FeedStep
<1>3. [UNCHANGED catalog]_vars => UNCHANGED catalog
  BY DEF vars, connVars, base
<1>4. QED
  BY <1>1, <1>2, <1>3, ProgressInvariance, PTL DEF Spec, IsResumableFeed, Feed!Spec
=============================================================================
