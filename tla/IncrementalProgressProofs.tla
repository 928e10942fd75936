--------------------- MODULE IncrementalProgressProofs ----------------------
(***************************************************************************)
(* Proofs about what IncrementalSync delivers and acknowledges, for every  *)
(* set of tables, keys and partitions, every bound and every checkpoint    *)
(* interval: nothing is lost, and progress once saved is never given up.   *)
(***************************************************************************)
EXTENDS IncrementalSyncProofs

(* The cursor is past row j of file f of date d.                           *)
Passed(c, d, f, j) ==
  \/ d < c.lastDate
  \/ d = c.lastDate /\ f <= c.lastFile
  \/ c.row > 0 /\ d = c.curDate /\ f = c.curFile /\ j <= c.row

PassedAt(st, x) == Passed(st.cursors[x[1]], x[2], x[3], x[4])

(* The state has the row behind it: read, or of a version that is done.    *)
Behind(st, x) == x[1][2] < st.wm[x[1][1]] \/ PassedAt(st, x)

Since(x) == RowAt(x).ts > snap

(* File f of date d is the one after the last file the cursor has read.    *)
Reach(s, c, d, f) ==
  /\ d \in Dates /\ c.lastDate <= d
  /\ f \in 1 .. Len(files[s][d])
  /\ f = IF d = c.lastDate THEN c.lastFile + 1 ELSE 1
  /\ \A e \in Dates : c.lastDate <= e /\ e < d =>
       Len(files[s][e]) <= IF e = c.lastDate THEN c.lastFile ELSE 0

CursorOk(s, c) ==
  /\ c.lastDate \in Dates => c.lastFile <= Len(files[s][c.lastDate])
  /\ c.lastDate \notin Dates => c.lastFile = 0
  /\ c.lastDate > 0 => c.lastFile > 0
  /\ c.row > 0 => /\ Reach(s, c, c.curDate, c.curFile)
                  /\ c.row <= Len(files[s][c.curDate][c.curFile])

(* The part of a state that speaks of the bucket: its cursors stand at     *)
(* real files, and the commit-ts of a table is that of the last row read.  *)
WatermarkOk(st) ==
  \A t \in Tables : /\ t \notin loaded => st.wm[t] = 0
                    /\ st.wm[t] > 0 => st.wm[t] <= meta /\ \E m \in schemas[t] : m.v = st.wm[t]

CursorsOk(st) ==
  \A s \in Streams : /\ CursorOk(s, st.cursors[s])
                     /\ s[1] \notin loaded => st.cursors[s] = NoCursor

PassedOk(st) ==
  \A x \in Positions : Since(x) /\ PassedAt(st, x) =>
    /\ RowAt(x).ts <= st.tableTs[x[1][1]]
    /\ x[1][2] <= st.wm[x[1][1]] \/ x[1][2] <= snap

StateOk(st) == WatermarkOk(st) /\ CursorsOk(st) /\ PassedOk(st)

(* What a state has put behind it since the snapshot is in the destination *)
(* D, or something newer is.                                               *)
RowsSettled(D, st) ==
  \A x \in Positions : x[1][1] \in loaded /\ Since(x) /\ Behind(st, x)
    => D[x[1][1]][RowAt(x).key].ts >= RowAt(x).ts

TruncatesSettled(D, st) ==
  \A t \in loaded : \A m \in schemas[t] :
    m.trunc /\ m.v <= st.wm[t] => \A k \in Keys : D[t][k].ts >= m.v

Settled(D, st) == RowsSettled(D, st) /\ TruncatesSettled(D, st)

-----------------------------------------------------------------------------
(* A range of stream s and date d that reaches to file f is still to be    *)
(* read, or being read.                                                    *)
Pending(s, d, f) ==
  \/ \E it \in work : it.kind = "dml" /\ StreamOf(it) = s /\ it.d = d /\ f <= it.latest
  \/ pc = "read" /\ stream = s /\ item.d = d /\ f <= item.latest

(* What the run must have read before it is through: the rows up to the    *)
(* checkpoint-ts, and those of the dates before one it will read.          *)
DueAt(x) ==
  \/ RowAt(x).ts <= ckpt
  \/ \E it \in work : it.kind = "dml" /\ StreamOf(it) = x[1] /\ x[2] < it.d

(* The run has a work item for whatever it has yet to do.                  *)
MarkersDue ==
  \A t \in catalog \ toScan : \A m \in VisibleSchemas(t) :
    Marker(t, m) \in work \/ m.v <= EffectiveWatermark(t)

RowsDue ==
  \A x \in Positions : x[1][1] \in catalog \ toScan /\ DueAt(x) =>
    \/ x[1][2] < EffectiveWatermark(x[1][1])
    \/ PassedAt(mem, x)
    \/ Pending(x[1], x[2], x[3])

(* How the range of a stream goes with the cursor of the stream.           *)
RangeOk(it) ==
  LET s == StreamOf(it)
      c == mem.cursors[s]
  IN /\ c.lastDate <= it.d
     /\ c.row > 0 => /\ c.curDate <= it.d
                     /\ c.curDate = it.d => c.curFile <= it.latest
                     /\ c.curDate < it.d => Pending(s, c.curDate, c.curFile)

WorkOk ==
  /\ \A it \in work : it.t \in catalog \ toScan
  /\ \A it \in work : it.kind = "dml" => it.latest > 0
  /\ \A it \in work : it.kind = "dml" /\ it.v >= EffectiveWatermark(it.t) => RangeOk(it)
  /\ \A a, b \in work : a.kind = "dml" /\ b.kind = "dml" /\ StreamOf(a) = StreamOf(b) /\ a.d = b.d
                          => a = b

(* The cursor of the stream being read stands where the run reads.         *)
ReadingOk ==
  pc = "read" =>
    /\ item.t \in catalog
    /\ item.v = EffectiveWatermark(item.t)
    /\ cursor.curDate = item.d /\ cursor.curFile = at.file /\ cursor.row = at.row
    /\ at.row <= Len(Rows)
    /\ Reach(stream, cursor, item.d, at.file)
    /\ \A it \in work : it.kind = "dml" /\ StreamOf(it) = stream => item.d < it.d

(* State a is never behind state b: that in memory behind the saved one.   *)
Ahead(a, b) ==
  /\ a.wm = b.wm
  /\ \A t \in catalog : b.tableTs[t] <= a.tableTs[t]
  /\ \A x \in Positions : x[1][1] \in catalog /\ PassedAt(b, x) => Behind(a, x)

DestBounded == \A t \in loaded, k \in Keys : dest[t][k].ts <= Max2(ckpt, snap)

(* A run in progress.                                                      *)
Running ==
  /\ catalog \subseteq loaded
  /\ toScan \subseteq catalog
  /\ pc # "scan" => toScan = {}
  /\ Ahead(mem, saved)
  /\ MarkersDue /\ RowsDue
  /\ WorkOk
  /\ ReadingOk
  /\ DestBounded

RunOk == IF pc = "idle" THEN mem = saved /\ work = {} ELSE Running

(* What makes NoLoss, DurableProgress, NeverReplaysSaved and Converged     *)
(* inductive, beside Inv.                                                  *)
Progress ==
  /\ SinkOrder
  /\ StateOk(saved) /\ StateOk(mem)
  /\ Settled(dest, saved) /\ Settled(dest, mem)
  /\ RunOk

-----------------------------------------------------------------------------
(* Where a row is, and what it is.                                         *)
LEMMA PositionFacts ==
  ASSUME Inv, NEW x \in Positions
  PROVE  /\ x[1] \in Streams /\ x[2] \in Dates
         /\ x[3] \in 1 .. Len(files[x[1]][x[2]])
         /\ x[4] \in 1 .. Len(files[x[1]][x[2]][x[3]])
         /\ RowAt(x) \in FileRows(x[1]) /\ RowAt(x) \in RowsOf(x[1][1])
         /\ RowAt(x).ts \in Nat /\ RowAt(x).ts > 0 /\ RowAt(x).key \in Keys
         /\ x[1][1] \in Tables /\ x[1][2] \in Nat /\ x[1][2] > 0
         /\ x = <<x[1], x[2], x[3], x[4]>>
         /\ x[2] \in Nat /\ x[3] \in Nat /\ x[4] \in Nat
<1>1. PICK y \in Streams \X Dates :
             x \in UNION {{<<y[1], y[2], i, j>> : j \in DOMAIN files[y[1]][y[2]][i]}
                          : i \in DOMAIN files[y[1]][y[2]]}
  BY DEF Positions
<1>2. PICK i \in DOMAIN files[y[1]][y[2]] : \E j \in DOMAIN files[y[1]][y[2]][i] :
             x = <<y[1], y[2], i, j>>
  BY <1>1
<1>3. PICK j \in DOMAIN files[y[1]][y[2]][i] : x = <<y[1], y[2], i, j>>
  BY <1>2
<1>4. y[1] \in Streams /\ y[2] \in Dates /\ files[y[1]][y[2]] \in Seq(Seq(Row))
  BY DEF Inv, SinkInv, SinkTypeOk
<1>5. i \in 1 .. Len(files[y[1]][y[2]]) /\ files[y[1]][y[2]][i] \in Seq(Row)
  BY <1>4
<1>6. j \in 1 .. Len(files[y[1]][y[2]][i])
  BY <1>5
<1>7. x[1] = y[1] /\ x[2] = y[2] /\ x[3] = i /\ x[4] = j
  BY <1>3
<1>8. RowAt(x) \in FileRows(x[1])
  BY <1>4, <1>5, <1>6, <1>7, FileRowsMember DEF RowAt
<1>9. x[1][1] \in Tables /\ x[1][2] \in Nat /\ x[1][2] > 0 /\ x[2] \in Nat
  BY <1>4, <1>7, StreamParts, SinkAssumption DEF Versions, Dates
<1>10. RowAt(x) \in RowsOf(x[1][1])
  BY <1>4, <1>7, <1>8, RowsOfMember
<1>11. RowAt(x).ts \in Nat /\ RowAt(x).ts > 0 /\ RowAt(x).key \in Keys
  BY <1>9, <1>10, SinkAssumption DEF Inv, SinkInv, Row, Versions
<1>12. QED
  BY <1>3, <1>4, <1>5, <1>6, <1>7, <1>8, <1>9, <1>10, <1>11

(* Every row of a file has a position.                                     *)
LEMMA PositionIn ==
  ASSUME Inv, NEW s \in Streams, NEW d \in Dates, NEW i \in 1 .. Len(files[s][d]),
         NEW j \in 1 .. Len(files[s][d][i])
  PROVE  LET x == <<s, d, i, j>>
         IN /\ x \in Positions /\ RowAt(x) = files[s][d][i][j]
            /\ x[1] = s /\ x[2] = d /\ x[3] = i /\ x[4] = j
<1>1. files[s][d] \in Seq(Seq(Row)) /\ files[s][d][i] \in Seq(Row)
  BY DEF Inv, SinkInv, SinkTypeOk
<1>2. i \in DOMAIN files[s][d] /\ j \in DOMAIN files[s][d][i]
  BY <1>1
<1> DEFINE y == <<s, d>>
<1>3. y \in Streams \X Dates /\ y[1] = s /\ y[2] = d
  OBVIOUS
<1>4. <<s, d, i, j>> \in UNION {{<<y[1], y[2], a, b>> : b \in DOMAIN files[y[1]][y[2]][a]}
                                : a \in DOMAIN files[y[1]][y[2]]}
  BY <1>2, <1>3
<1>5. <<s, d, i, j>> \in Positions
  BY <1>3, <1>4 DEF Positions
<1>6. QED
  BY <1>5 DEF RowAt

(* Every row that is in a file has a position.                             *)
LEMMA PositionOf ==
  ASSUME Inv, NEW s \in Streams, NEW r \in FileRows(s)
  PROVE  \E x \in Positions : x[1] = s /\ RowAt(x) = r
<1>1. PICK d \in Dates : r \in UNION {SeqRange(f) : f \in SeqRange(files[s][d])}
  BY DEF FileRows
<1>2. PICK f \in SeqRange(files[s][d]) : r \in SeqRange(f)
  BY <1>1
<1>3. PICK i \in 1 .. Len(files[s][d]) : f = files[s][d][i]
  BY <1>2 DEF SeqRange
<1>4. PICK j \in 1 .. Len(files[s][d][i]) : r = files[s][d][i][j]
  BY <1>2, <1>3 DEF SeqRange
<1>5. <<s, d, i, j>> \in Positions /\ RowAt(<<s, d, i, j>>) = r /\ <<s, d, i, j>>[1] = s
  BY <1>4, PositionIn
<1>6. QED
  BY <1>5

(* The types of the parts of a state.                                      *)
LEMMA StateFacts ==
  ASSUME NEW st \in State
  PROVE  /\ \A s \in Streams : LET c == st.cursors[s]
                               IN /\ c \in Cursor /\ c.lastDate \in Nat /\ c.lastFile \in Nat
                                  /\ c.curDate \in Nat /\ c.curFile \in Nat /\ c.row \in Nat
                                  /\ c.lastDate \in 0 .. MaxDate
         /\ \A t \in Tables : st.wm[t] \in Nat /\ st.tableTs[t] \in Nat
BY SinkAssumption DEF State, Cursor

(* A row with a version is above it, and below every later version.        *)
LEMMA RowVersion ==
  ASSUME Inv, SinkOrder, NEW x \in Positions
  PROVE  /\ x[1][2] < RowAt(x).ts
         /\ \E m \in schemas[x[1][1]] : m.v = x[1][2]
         /\ \A m \in schemas[x[1][1]] : x[1][2] < m.v => RowAt(x).ts < m.v
BY PositionFacts DEF SinkOrder, InVersion

(* The schemas of a table have versions.                                   *)
LEMMA SchemaFacts ==
  ASSUME Inv, NEW t \in Tables, NEW m \in schemas[t]
  PROVE  m \in Schema /\ m.v \in Nat /\ m.v > 0 /\ m.v \in Versions /\ m.v <= clock
<1>1. m \in Schema /\ m.v <= clock
  BY DEF Inv, SinkInv, SinkTypeOk
<1>2. QED
  BY <1>1, SinkAssumption DEF Schema, Versions

(* The largest version in a set of schemas, 0 for the empty set.           *)
LEMMA LargestVersion ==
  ASSUME Inv, NEW t \in Tables, NEW S \in SUBSET schemas[t]
  PROVE  LET vs == {m.v : m \in S}
             v  == IF vs = {} THEN 0 ELSE CHOOSE u \in vs : \A w \in vs : w <= u
         IN /\ v \in Nat
            /\ v = 0 \/ \E m \in S : m.v = v
            /\ \A m \in S : m.v <= v
<1> DEFINE vs == {m.v : m \in S}
           u  == CHOOSE a \in vs : \A w \in vs : w <= a
<1>1. vs \in SUBSET Nat
  BY SchemaFacts
<1>2. CASE vs = {}
  BY <1>2
<1>3. CASE vs # {}
  <2>1. clock \in Nat /\ \A a \in vs : a <= clock
    BY SchemaFacts, BoundsType
  <2>2. \E a \in vs : \A w \in vs : w <= a
    BY <1>1, <1>3, <2>1, LargestOf
  <2>3. u \in vs /\ \A w \in vs : w <= u
    BY <2>2
  <2>4. QED
    BY <1>1, <1>3, <2>3
<1>4. QED
  BY <1>2, <1>3

(* The version the snapshot was taken at: of the files a run knows of, and *)
(* of those there are.                                                     *)
LEMMA BaselineFacts ==
  ASSUME Inv, NEW t \in Tables
  PROVE  /\ Baseline(t) \in Nat /\ Baseline(t) <= snap
         /\ Baseline(t) > 0 => \E m \in schemas[t] : m.v = Baseline(t)
         /\ \A m \in VisibleSchemas(t) : m.v <= snap => m.v <= Baseline(t)
<1> DEFINE S == {n \in VisibleSchemas(t) : n.v <= snap}
           v == IF {m.v : m \in S} = {} THEN 0
                ELSE CHOOSE u \in {m.v : m \in S} : \A w \in {m.v : m \in S} : w <= u
<1>1. S \in SUBSET schemas[t]
  BY DEF VisibleSchemas
<1>2. v \in Nat /\ (v = 0 \/ \E m \in S : m.v = v) /\ \A m \in S : m.v <= v
  BY <1>1, LargestVersion
<1>3. Baseline(t) = v
  BY DEF Baseline
<1> HIDE DEF v
<1>4. QED
  BY <1>1, <1>2, <1>3, BoundsType

(* The version the snapshot was taken at.                                  *)
LEMMA SnapVersionFacts ==
  ASSUME Inv, NEW t \in Tables
  PROVE  /\ SnapVersion(t) \in Nat /\ SnapVersion(t) <= snap
         /\ SnapVersion(t) > 0 => \E m \in schemas[t] : m.v = SnapVersion(t)
         /\ \A m \in schemas[t] : m.v <= snap => m.v <= SnapVersion(t)
<1> DEFINE S == {n \in schemas[t] : n.v <= snap}
           v == IF {m.v : m \in S} = {} THEN 0
                ELSE CHOOSE u \in {m.v : m \in S} : \A w \in {m.v : m \in S} : w <= u
<1>1. S \in SUBSET schemas[t]
  OBVIOUS
<1>2. v \in Nat /\ (v = 0 \/ \E m \in S : m.v = v) /\ \A m \in S : m.v <= v
  BY <1>1, LargestVersion
<1>3. SnapVersion(t) = v
  BY DEF SnapVersion
<1> HIDE DEF v
<1>4. QED
  BY <1>1, <1>2, <1>3, BoundsType

(* The version a run takes for done.                                       *)
LEMMA EffectiveFacts ==
  ASSUME Inv, NEW t \in Tables
  PROVE  /\ EffectiveWatermark(t) \in Nat
         /\ mem.wm[t] \in Nat /\ mem.wm[t] <= EffectiveWatermark(t)
         /\ Baseline(t) <= EffectiveWatermark(t)
         /\ EffectiveWatermark(t) = mem.wm[t] \/ EffectiveWatermark(t) = Baseline(t)
         /\ EffectiveWatermark(t) = mem.wm[t] \/ EffectiveWatermark(t) <= snap
<1>1. mem.wm[t] \in Nat /\ Baseline(t) \in Nat /\ Baseline(t) <= snap
  BY BaselineFacts, StateFacts DEF Inv, TypeOk
<1>2. QED
  BY <1>1 DEF EffectiveWatermark, Max2

(* A row of a version below that of the snapshot was in the snapshot.      *)
LEMMA BelowBaseline ==
  ASSUME Inv, SinkOrder, NEW x \in Positions, Since(x)
  PROVE  /\ ~(x[1][2] < SnapVersion(x[1][1]))
         /\ x[1][2] < EffectiveWatermark(x[1][1]) => x[1][2] < mem.wm[x[1][1]]
<1> DEFINE t == x[1][1]
<1>1. t \in Tables /\ x[1][2] \in Nat /\ RowAt(x).ts \in Nat /\ snap \in Nat
  BY PositionFacts, BoundsType
<1>2. ASSUME NEW v \in Nat, v <= snap, v > 0 => \E m \in schemas[t] : m.v = v
      PROVE  ~(x[1][2] < v)
  <2> SUFFICES ASSUME x[1][2] < v PROVE FALSE
    OBVIOUS
  <2>1. RowAt(x).ts < v
    BY <1>1, <1>2, RowVersion
  <2>2. QED
    BY <1>1, <1>2, <2>1 DEF Since
<1>3. ~(x[1][2] < SnapVersion(t))
  BY <1>1, <1>2, SnapVersionFacts
<1>4. ~(x[1][2] < Baseline(t))
  BY <1>1, <1>2, BaselineFacts
<1>5. QED
  BY <1>1, <1>3, <1>4, EffectiveFacts

(* The snapshot has every row and every truncate up to its timestamp.      *)
LEMMA Covered ==
  ASSUME Inv, NEW t \in loaded, NEW k \in Keys, NEW y \in Changes(t, k), y.ts <= snap
  PROVE  dest[t][k].ts >= y.ts
<1>1. t \in Tables /\ snap \in Nat
  BY BoundsType DEF Inv, TypeOk
<1>2. PICK c \in snap .. Max2(meta, snap) : dest[t][k] = LastChange(t, k, c)
  BY DEF Inv, CellsWereTrue
<1>3. c \in Nat /\ snap <= c
  BY <1>1, <1>2, BoundsType
<1>4. y.ts \in Nat
  <2>1. CASE y = [ts |-> 0, live |-> FALSE]
    BY <2>1
  <2>2. CASE \E m \in schemas[t] : m.trunc /\ y = [ts |-> m.v, live |-> FALSE]
    BY <1>1, <2>2, SchemaFacts
  <2>3. CASE \E r \in RowsOf(t) : r.key = k /\ y = [ts |-> r.ts, live |-> r.op # "D"]
    BY <1>1, <2>3, SinkAssumption DEF Inv, SinkInv, Row, Versions
  <2>4. QED
    BY <2>1, <2>2, <2>3, ChangesMember
<1>5. y.ts <= c
  BY <1>1, <1>3, <1>4
<1>6. QED
  BY <1>1, <1>2, <1>3, <1>5, LastChangeIs

(* The same for a row and for a truncate.                                  *)
LEMMA CoveredRow ==
  ASSUME Inv, NEW x \in Positions, x[1][1] \in loaded, ~Since(x)
  PROVE  dest[x[1][1]][RowAt(x).key].ts >= RowAt(x).ts
<1> DEFINE r == RowAt(x)
           y == [ts |-> r.ts, live |-> r.op # "D"]
<1>1. r \in RowsOf(x[1][1]) /\ r.key \in Keys /\ r.ts \in Nat /\ snap \in Nat
  BY PositionFacts, BoundsType
<1>2. y \in Changes(x[1][1], r.key) /\ y.ts = r.ts
  BY <1>1, ChangesMember
<1>3. r.ts <= snap
  BY <1>1 DEF Since
<1> HIDE DEF y, r
<1>4. dest[x[1][1]][r.key].ts >= y.ts
  BY <1>1, <1>2, <1>3, Covered
<1>5. QED
  BY <1>2, <1>4 DEF r

(* The same for a truncate.                                                *)
LEMMA CoveredTruncate ==
  ASSUME Inv, NEW t \in loaded, NEW m \in schemas[t], m.trunc, m.v <= snap, NEW k \in Keys
  PROVE  dest[t][k].ts >= m.v
<1> DEFINE y == [ts |-> m.v, live |-> FALSE]
<1>1. y \in Changes(t, k) /\ y.ts = m.v
  BY ChangesMember
<1> HIDE DEF y
<1>2. dest[t][k].ts >= y.ts
  BY <1>1, Covered
<1>3. QED
  BY <1>1, <1>2

-----------------------------------------------------------------------------
(* Steps of the sink.                                                      *)

(* What every position of a state is, as a formula that can be primed.     *)
PositionsOk ==
  \A x \in Positions :
    /\ x[1] \in Streams /\ x[2] \in Dates
    /\ x[3] \in 1 .. Len(files[x[1]][x[2]])
    /\ x[4] \in 1 .. Len(files[x[1]][x[2]][x[3]])
    /\ x = <<x[1], x[2], x[3], x[4]>>
    /\ RowAt(x) = files[x[1]][x[2]][x[3]][x[4]]

(* Before and after a step.                                                *)
LEMMA PositionsNext == Inv' => PositionsOk'
<1>1. Inv => PositionsOk
  BY PositionFacts DEF PositionsOk, RowAt
<1>2. QED
  BY <1>1, PTL

(* Every row of a file has a position.                                     *)
RowsHavePositions ==
  \A s \in Streams, d \in Dates : \A i \in 1 .. Len(files[s][d]) :
    \A j \in 1 .. Len(files[s][d][i]) :
      <<s, d, i, j>> \in Positions /\ RowAt(<<s, d, i, j>>) = files[s][d][i][j]

(* Before and after a step.                                                *)
LEMMA RowsNext == Inv' => RowsHavePositions'
<1>1. ASSUME Inv PROVE RowsHavePositions
  <2>1. ASSUME NEW s \in Streams, NEW d \in Dates, NEW i \in 1 .. Len(files[s][d]),
               NEW j \in 1 .. Len(files[s][d][i])
        PROVE  <<s, d, i, j>> \in Positions /\ RowAt(<<s, d, i, j>>) = files[s][d][i][j]
    BY <1>1, PositionIn
  <2>2. QED
    BY <2>1 DEF RowsHavePositions
<1>2. QED
  BY <1>1, PTL

(* Dates and numbers of files are numbers.                                 *)
LEMMA FilesType ==
  ASSUME Inv
  PROVE  /\ Dates \subseteq Nat /\ date \in Nat
         /\ \A s \in Streams, d \in Dates :
              /\ Len(files[s][d]) \in Nat
              /\ \A i \in 1 .. Len(files[s][d]) : Len(files[s][d][i]) \in Nat /\ files[s][d][i] \in Seq(Row)
<1>1. Dates \subseteq Nat /\ date \in Nat
  BY SinkAssumption DEF Inv, SinkInv, SinkTypeOk, Dates
<1>2. \A s \in Streams, d \in Dates : files[s][d] \in Seq(Seq(Row))
  BY DEF Inv, SinkInv, SinkTypeOk
<1>3. QED
  BY <1>1, <1>2

(* The same for numbers of files after a step.                             *)
LEMMA FilesTypeNext == Inv' => \A s \in Streams, d \in Dates : Len(files'[s][d]) \in Nat
<1>1. Inv' => SinkTypeOk'
  BY DEF Inv, SinkInv
<1>2. QED
  BY <1>1 DEF SinkTypeOk

(* A position is one there was, or that of a row that was buffered, in a   *)
(* new file of the current date directory.                                 *)
LEMMA NewPosition ==
  ASSUME Inv, SinkOrder, SinkAdds, Inv', NEW x \in Positions'
  PROVE  \/ x \in Positions /\ RowAt(x)' = RowAt(x)
         \/ /\ x[1] \in Streams /\ x[2] = date /\ date \in Dates
            /\ x[3] \in Nat /\ Len(files[x[1]][x[2]]) < x[3]
            /\ RowAt(x)' \in SeqRange(buf[x[1]])
<1>1. /\ x[1] \in Streams /\ x[2] \in Dates
      /\ x[3] \in 1 .. Len(files'[x[1]][x[2]])
      /\ x[4] \in 1 .. Len(files'[x[1]][x[2]][x[3]])
      /\ x = <<x[1], x[2], x[3], x[4]>>
      /\ RowAt(x)' = files'[x[1]][x[2]][x[3]][x[4]]
  BY PositionsNext DEF PositionsOk
<1> DEFINE s == x[1]
           d == x[2]
           i == x[3]
           j == x[4]
<1>2. Len(files[s][d]) \in Nat /\ Len(files'[s][d]) \in Nat /\ i \in Nat
  BY <1>1, FilesType, FilesTypeNext
<1>3. CASE i <= Len(files[s][d])
  <2>1. i \in 1 .. Len(files[s][d]) /\ files'[s][d][i] = files[s][d][i]
    BY <1>1, <1>2, <1>3 DEF SinkAdds
  <2>2. <<s, d, i, j>> \in Positions /\ RowAt(<<s, d, i, j>>) = files[s][d][i][j]
    BY <1>1, <2>1, PositionIn
  <2>3. QED
    BY <1>1, <2>1, <2>2
<1>4. CASE ~(i <= Len(files[s][d]))
  <2>1. d = date /\ SeqRange(files'[s][d][i]) \subseteq SeqRange(buf[s])
    BY <1>1, <1>4 DEF SinkAdds
  <2>2. files'[s][d][i][j] \in SeqRange(files'[s][d][i])
    BY <1>1 DEF SeqRange
  <2>3. QED
    BY <1>1, <1>2, <1>4, <2>1, <2>2
<1>5. QED
  BY <1>3, <1>4

(* No position is lost and no row changes.                                 *)
LEMMA OldPosition ==
  ASSUME Inv, SinkAdds, Inv', NEW x \in Positions
  PROVE  x \in Positions' /\ RowAt(x)' = RowAt(x)
<1>1. /\ x[1] \in Streams /\ x[2] \in Dates /\ x[3] \in 1 .. Len(files[x[1]][x[2]])
      /\ x[4] \in 1 .. Len(files[x[1]][x[2]][x[3]]) /\ x = <<x[1], x[2], x[3], x[4]>>
  BY PositionFacts
<1>2. /\ Len(files[x[1]][x[2]]) \in Nat /\ Len(files'[x[1]][x[2]]) \in Nat
      /\ Len(files[x[1]][x[2]]) <= Len(files'[x[1]][x[2]])
      /\ files'[x[1]][x[2]][x[3]] = files[x[1]][x[2]][x[3]]
  BY <1>1, FilesType, FilesTypeNext DEF SinkAdds
<1>3. x[3] \in 1 .. Len(files'[x[1]][x[2]])
  BY <1>1, <1>2
<1>4. <<x[1], x[2], x[3], x[4]>> \in Positions'
  BY <1>1, <1>2, <1>3, RowsNext DEF RowsHavePositions
<1>5. QED
  BY <1>1, <1>2, <1>4 DEF RowAt

(* What a cursor is at is not past the current date directory, so a new    *)
(* file comes after it.                                                    *)
LEMMA ReachGrows ==
  ASSUME Inv, SinkOrder, SinkAdds, Inv', NEW s \in Streams, NEW c \in Cursor, NEW d, NEW f,
         Reach(s, c, d, f)
  PROVE  Reach(s, c, d, f)' /\ files'[s][d][f] = files[s][d][f] /\ d <= date
<1>1. /\ d \in Dates /\ f \in 1 .. Len(files[s][d]) /\ Dates \subseteq Nat /\ date \in Nat
      /\ \A e \in Dates : Len(files[s][e]) \in Nat /\ Len(files'[s][e]) \in Nat
      /\ c.lastDate \in Nat
  BY FilesType, FilesTypeNext, SinkAssumption DEF Reach, Cursor
<1>2. /\ Len(files[s][d]) <= Len(files'[s][d]) /\ files'[s][d][f] = files[s][d][f]
  BY <1>1 DEF SinkAdds
<1>3. d <= date
  BY <1>1 DEF SinkOrder
<1>4. ASSUME NEW e \in Dates, e < d PROVE Len(files'[s][e]) = Len(files[s][e])
  <2>1. e # date
    BY <1>1, <1>3, <1>4
  <2>2. \A i \in 1 .. Len(files'[s][e]) : i <= Len(files[s][e])
    BY <2>1 DEF SinkAdds
  <2>3. Len(files[s][e]) <= Len(files'[s][e])
    BY DEF SinkAdds
  <2>4. CASE Len(files'[s][e]) = 0
    BY <1>1, <2>3, <2>4
  <2>5. CASE Len(files'[s][e]) > 0
    <3>1. Len(files'[s][e]) \in 1 .. Len(files'[s][e])
      BY <1>1, <2>5
    <3>2. Len(files'[s][e]) <= Len(files[s][e])
      BY <2>2, <3>1
    <3>3. Len(files'[s][e]) \in Nat /\ Len(files[s][e]) \in Nat
      BY <1>1
    <3>4. QED
      BY <2>3, <3>2, <3>3
  <2>6. QED
    BY <1>1, <2>4, <2>5
<1>5. f \in 1 .. Len(files'[s][d])
  BY <1>1, <1>2
<1>6. \A e \in Dates : c.lastDate <= e /\ e < d =>
        Len(files'[s][e]) <= IF e = c.lastDate THEN c.lastFile ELSE 0
  BY <1>4 DEF Reach
<1>7. Reach(s, c, d, f)'
  BY <1>5, <1>6 DEF Reach
<1>8. QED
  BY <1>2, <1>3, <1>7

(* A cursor at real files stays at real files.                             *)
LEMMA CursorGrows ==
  ASSUME Inv, SinkOrder, SinkAdds, Inv', NEW s \in Streams, NEW c \in Cursor, CursorOk(s, c)
  PROVE  CursorOk(s, c)'
<1>1. c.lastDate \in Dates => c.lastFile <= Len(files'[s][c.lastDate])
  <2> SUFFICES ASSUME c.lastDate \in Dates PROVE c.lastFile <= Len(files'[s][c.lastDate])
    OBVIOUS
  <2>1. /\ c.lastFile \in Nat /\ c.lastFile <= Len(files[s][c.lastDate])
        /\ Len(files[s][c.lastDate]) <= Len(files'[s][c.lastDate])
    BY DEF CursorOk, Cursor, SinkAdds
  <2>2. Len(files[s][c.lastDate]) \in Nat /\ Len(files'[s][c.lastDate]) \in Nat
    BY FilesType, FilesTypeNext
  <2>3. QED
    BY <2>1, <2>2
<1>2. ASSUME c.row > 0
      PROVE  Reach(s, c, c.curDate, c.curFile)' /\ c.row <= Len(files'[s][c.curDate][c.curFile])
  <2>1. /\ Reach(s, c, c.curDate, c.curFile)
        /\ c.row <= Len(files[s][c.curDate][c.curFile])
    BY <1>2 DEF CursorOk
  <2>2. /\ Reach(s, c, c.curDate, c.curFile)'
        /\ files'[s][c.curDate][c.curFile] = files[s][c.curDate][c.curFile]
    <3> DEFINE d == c.curDate
               f == c.curFile
    <3>1. Reach(s, c, d, f)
      BY <2>1
    <3> HIDE DEF d, f
    <3>2. Reach(s, c, d, f)' /\ files'[s][d][f] = files[s][d][f]
      BY <3>1, ReachGrows
    <3>3. QED
      BY <3>2 DEF d, f
  <2>3. QED
    BY <2>1, <2>2
<1>3. QED
  BY <1>1, <1>2 DEF CursorOk

(* A state has no new row behind it.                                       *)
LEMMA NewIsAhead ==
  ASSUME Inv, SinkOrder, SinkAdds, NEW st \in State, WatermarkOk(st), CursorsOk(st),
         NEW x, x[1] \in Streams, x[2] = date, date \in Dates, x[3] \in Nat,
         Len(files[x[1]][x[2]]) < x[3],
         NEW r \in SeqRange(buf[x[1]])
  PROVE  ~Behind(st, x) /\ meta < r.ts
<1> DEFINE s == x[1]
           c == st.cursors[s]
<1>1. /\ s \in Streams /\ s[1] \in Tables /\ s[2] \in Nat
      /\ c \in Cursor /\ c.lastDate \in Nat /\ c.lastFile \in Nat /\ c.lastDate \in 0 .. MaxDate
      /\ st.wm[s[1]] \in Nat /\ CursorOk(s, c)
      /\ Dates \subseteq Nat /\ date \in Nat /\ \A e \in Dates : Len(files[s][e]) \in Nat
  <2>1. s \in Streams /\ s[1] \in Tables /\ s[2] \in Nat
    BY StreamParts, SinkAssumption DEF Versions
  <2>2. CursorOk(s, c)
    BY DEF CursorsOk
  <2>3. Dates \subseteq Nat /\ date \in Nat /\ \A e \in Dates : Len(files[s][e]) \in Nat
    BY FilesType
  <2>4. c \in Cursor /\ c.lastDate \in Nat /\ c.lastFile \in Nat /\ c.lastDate \in 0 .. MaxDate
    BY StateFacts
  <2>5. st.wm[s[1]] \in Nat
    BY <2>1, StateFacts
  <2>6. QED
    BY <2>1, <2>2, <2>3, <2>4, <2>5
<1>2. meta < r.ts /\ meta \in Nat /\ r.ts \in Nat
  <2>1. r \in RowsOf(s[1])
    BY <1>1, RowsOfMember
  <2>2. QED
    BY <1>1, <2>1, BoundsType, SinkAssumption DEF SinkOrder, Inv, SinkInv, Row, Versions
<1>3. ~(s[2] < st.wm[s[1]])
  <2> SUFFICES ASSUME s[2] < st.wm[s[1]] PROVE FALSE
    OBVIOUS
  <2>1. st.wm[s[1]] <= meta /\ \E m \in schemas[s[1]] : m.v = st.wm[s[1]]
    BY <1>1 DEF WatermarkOk
  <2>2. r.ts < st.wm[s[1]]
    BY <2>1 DEF SinkOrder, InVersion
  <2>3. QED
    BY <1>1, <1>2, <2>1, <2>2
<1>4. ~(x[2] < c.lastDate)
  <2>1. CASE c.lastDate \in Dates
    <3>1. c.lastDate > 0 => Len(files[s][c.lastDate]) > 0
      BY <1>1, <2>1 DEF CursorOk
    <3>2. c.lastDate > 0 => c.lastDate <= date
      BY <2>1, <3>1 DEF SinkOrder
    <3>3. QED
      BY <1>1, <3>2
  <2>2. CASE c.lastDate \notin Dates
    BY <1>1, <2>2 DEF CursorOk
  <2>3. QED
    BY <2>1, <2>2
<1>5. ~(x[2] = c.lastDate /\ x[3] <= c.lastFile)
  <2> SUFFICES ASSUME x[2] = c.lastDate, x[3] <= c.lastFile PROVE FALSE
    OBVIOUS
  <2>1. c.lastDate \in Dates
    OBVIOUS
  <2>2. c.lastFile <= Len(files[s][c.lastDate]) /\ Len(files[s][c.lastDate]) < x[3]
    BY <1>1, <2>1 DEF CursorOk
  <2>3. Len(files[s][c.lastDate]) \in Nat
    BY <1>1, <2>1
  <2> HIDE DEF c
  <2>4. QED
    BY <1>1, <2>2, <2>3
<1>6. ~(c.row > 0 /\ x[2] = c.curDate /\ x[3] = c.curFile /\ x[4] <= c.row)
  <2> SUFFICES ASSUME c.row > 0, x[2] = c.curDate, x[3] = c.curFile PROVE FALSE
    OBVIOUS
  <2>1. x[3] \in 1 .. Len(files[s][x[2]])
    BY <1>1 DEF CursorOk, Reach
  <2>2. Len(files[s][x[2]]) \in Nat
    BY <1>1
  <2>3. QED
    BY <2>1, <2>2
<1>7. QED
  BY <1>2, <1>3, <1>4, <1>5, <1>6 DEF Behind, PassedAt, Passed

(* Whatever a row's position, a state that is at real files does not have  *)
(* it behind it unless it had before.                                      *)
LEMMA BehindIsOld ==
  ASSUME Inv, SinkOrder, SinkAdds, Inv', NEW st \in State, WatermarkOk(st), CursorsOk(st),
         NEW x \in Positions', Behind(st, x)
  PROVE  x \in Positions /\ RowAt(x)' = RowAt(x)
BY NewPosition, NewIsAhead

(* A step of the sink leaves a state as good as it was.                    *)
LEMMA SinkKeepsState ==
  ASSUME Inv, SinkOrder, SinkAdds, Inv', UNCHANGED connVars, NEW st \in State, StateOk(st)
  PROVE  StateOk(st)'
<1>1. UNCHANGED <<loaded, snap, dest>> /\ meta \in Nat /\ meta' \in Nat /\ meta <= meta'
  <2>1. Inv' => meta' \in Nat
    BY SinkAssumption DEF Inv, SinkInv, SinkTypeOk
  <2>2. QED
    BY <2>1, BoundsType DEF connVars, base, SinkAdds
<1>2. WatermarkOk(st) /\ CursorsOk(st) /\ PassedOk(st)
  BY DEF StateOk
<1>3. WatermarkOk(st)'
  <2>1. ASSUME NEW t \in Tables
        PROVE  /\ t \notin loaded' => st.wm[t] = 0
               /\ st.wm[t] > 0 => st.wm[t] <= meta' /\ \E m \in schemas'[t] : m.v = st.wm[t]
    <3>1. /\ t \notin loaded => st.wm[t] = 0
          /\ st.wm[t] > 0 => st.wm[t] <= meta /\ \E m \in schemas[t] : m.v = st.wm[t]
      BY <1>2 DEF WatermarkOk
    <3>2. st.wm[t] \in Nat /\ schemas[t] \subseteq schemas'[t]
      BY StateFacts DEF SinkAdds
    <3>3. QED
      BY <1>1, <3>1, <3>2
  <2>2. QED
    BY <2>1 DEF WatermarkOk
<1>4. CursorsOk(st)'
  <2>1. ASSUME NEW s \in Streams
        PROVE  CursorOk(s, st.cursors[s])' /\ (s[1] \notin loaded' => st.cursors[s] = NoCursor)
    <3>1. st.cursors[s] \in Cursor /\ CursorOk(s, st.cursors[s])
      BY <1>2, StateFacts DEF CursorsOk
    <3>2. QED
      BY <1>1, <1>2, <3>1, CursorGrows DEF CursorsOk
  <2>2. QED
    BY <2>1 DEF CursorsOk
<1>5. PassedOk(st)'
  <2>1. ASSUME NEW x \in Positions', Since(x)', PassedAt(st, x)
        PROVE  /\ RowAt(x)'.ts <= st.tableTs[x[1][1]]
               /\ x[1][2] <= st.wm[x[1][1]] \/ x[1][2] <= snap'
    <3>1. x \in Positions /\ RowAt(x)' = RowAt(x)
      BY <1>2, <2>1, BehindIsOld DEF Behind
    <3>2. Since(x)
      BY <1>1, <2>1, <3>1 DEF Since
    <3>3. QED
      BY <1>1, <1>2, <2>1, <3>1, <3>2 DEF PassedOk
  <2>2. QED
    BY <2>1 DEF PassedOk, PassedAt, Passed
<1>6. QED
  BY <1>3, <1>4, <1>5 DEF StateOk

(* What it has behind it stays settled: a new truncate is above the        *)
(* checkpoint-ts and so above every watermark.                             *)
LEMMA SinkKeepsSettled ==
  ASSUME Inv, SinkOrder, SinkAdds, Inv', UNCHANGED connVars, NEW st \in State, NEW D,
         StateOk(st), Settled(D, st)
  PROVE  Settled(D, st)'
<1>1. UNCHANGED <<loaded, snap>>
  BY DEF connVars, base
<1>2. WatermarkOk(st) /\ CursorsOk(st) /\ RowsSettled(D, st) /\ TruncatesSettled(D, st)
  BY DEF StateOk, Settled
<1>3. RowsSettled(D, st)'
  <2>1. ASSUME NEW x \in Positions', x[1][1] \in loaded, Since(x)', Behind(st, x)
        PROVE  D[x[1][1]][RowAt(x)'.key].ts >= RowAt(x)'.ts
    <3>1. x \in Positions /\ RowAt(x)' = RowAt(x)
      BY <1>2, <2>1, BehindIsOld
    <3>2. Since(x)
      BY <1>1, <2>1, <3>1 DEF Since
    <3>3. QED
      BY <1>2, <2>1, <3>1, <3>2 DEF RowsSettled
  <2>2. QED
    BY <1>1, <2>1 DEF RowsSettled, Behind, PassedAt, Passed
<1>4. TruncatesSettled(D, st)'
  <2>1. ASSUME NEW t \in loaded, NEW m \in schemas'[t], m.trunc, m.v <= st.wm[t]
        PROVE  \A k \in Keys : D[t][k].ts >= m.v
    <3>1. t \in Tables /\ st.wm[t] \in Nat /\ meta \in Nat /\ clock \in Nat /\ meta <= clock
      BY BoundsType, StateFacts DEF Inv, TypeOk, SinkInv
    <3>2. st.wm[t] <= meta
      BY <1>2, <3>1 DEF WatermarkOk
    <3>3. m.v \in Nat
      <4>1. Inv' => schemas' \in [Tables -> SUBSET Schema]
        BY DEF Inv, SinkInv, SinkTypeOk
      <4>2. QED
        BY <2>1, <3>1, <4>1, SinkAssumption DEF Schema, Versions
    <3>4. m \in schemas[t]
      BY <2>1, <3>1, <3>2, <3>3 DEF SinkAdds
    <3>5. QED
      BY <1>2, <2>1, <3>4 DEF TruncatesSettled
  <2>2. QED
    BY <1>1, <2>1 DEF TruncatesSettled
<1>5. QED
  BY <1>3, <1>4 DEF Settled

(* A run knows no schema the sink has written since it began.              *)
LEMMA SinkKeepsVersions ==
  ASSUME Inv, SinkAdds, Inv', UNCHANGED connVars, NEW t \in Tables
  PROVE  /\ VisibleSchemas(t)' = VisibleSchemas(t)
         /\ EffectiveWatermark(t)' = EffectiveWatermark(t)
<1>1. UNCHANGED <<mem, snap, ckpt>>
  BY DEF connVars, base, runVars
<1>2. ckpt \in Nat /\ meta \in Nat /\ clock \in Nat /\ ckpt <= meta /\ meta <= clock
  BY BoundsType DEF Inv, SinkInv
<1>3. \A m \in schemas'[t] : m.v \in Nat
  <2>1. Inv' => schemas' \in [Tables -> SUBSET Schema]
    BY DEF Inv, SinkInv, SinkTypeOk
  <2>2. QED
    BY <2>1, SinkAssumption DEF Schema, Versions
<1>4. \A m : m \in schemas'[t] /\ m.v <= ckpt <=> m \in schemas[t] /\ m.v <= ckpt
  <2>1. ASSUME NEW m \in schemas'[t], m.v <= ckpt PROVE m \in schemas[t]
    BY <1>2, <1>3, <2>1 DEF SinkAdds
  <2>2. schemas[t] \subseteq schemas'[t]
    BY DEF SinkAdds
  <2>3. QED
    BY <2>1, <2>2
<1>5. VisibleSchemas(t)' = VisibleSchemas(t)
  BY <1>1, <1>4 DEF VisibleSchemas
<1>6. Baseline(t)' = Baseline(t)
  BY <1>1, <1>5 DEF Baseline
<1>7. QED
  BY <1>1, <1>5, <1>6 DEF EffectiveWatermark, Max2

(* A step of the sink does not disturb a run: the rows it adds are above   *)
(* the checkpoint-ts and in dates no item comes after.                     *)
LEMMA SinkKeepsRun ==
  ASSUME Inv, Progress, SinkAdds, Inv', UNCHANGED connVars
  PROVE  RunOk'
<1>1. UNCHANGED <<catalog, loaded, snap, dest, saved, mem, pc, ckpt, toScan, work, item, at>>
  BY DEF connVars, base, runVars
<1>2. CASE pc = "idle"
  BY <1>1, <1>2 DEF Progress, RunOk
<1>3. CASE pc # "idle"
  <2>1. Running /\ SinkOrder /\ mem \in State /\ saved \in State
        /\ WatermarkOk(mem) /\ CursorsOk(mem) /\ WatermarkOk(saved) /\ CursorsOk(saved)
    BY <1>3 DEF Progress, RunOk, StateOk, Inv, TypeOk
  <2>2. catalog \subseteq Tables /\ loaded \subseteq Tables
    BY CatalogsAssumption DEF Inv, TypeOk
  <2>3. \A t \in Tables : /\ VisibleSchemas(t)' = VisibleSchemas(t)
                          /\ EffectiveWatermark(t)' = EffectiveWatermark(t)
    BY SinkKeepsVersions
  <2>4. \A s, d, f : Pending(s, d, f)' <=> Pending(s, d, f)
    BY <1>1 DEF Pending, stream, StreamOf
  <2>5. MarkersDue'
    BY <1>1, <2>1, <2>2, <2>3 DEF Running, MarkersDue, Marker
  <2>6. RowsDue'
    <3> SUFFICES ASSUME NEW x \in Positions', x[1][1] \in catalog \ toScan, DueAt(x)'
                 PROVE  \/ x[1][2] < EffectiveWatermark(x[1][1])
                        \/ PassedAt(mem, x)
                        \/ Pending(x[1], x[2], x[3])
      BY <1>1, <2>2, <2>3, <2>4 DEF RowsDue
    <3>1. CASE x \in Positions /\ RowAt(x)' = RowAt(x)
      <4>1. DueAt(x)
        BY <1>1, <3>1 DEF DueAt, StreamOf
      <4>2. QED
        BY <2>1, <3>1, <4>1 DEF Running, RowsDue
    <3>2. CASE /\ x[1] \in Streams /\ x[2] = date /\ date \in Dates
               /\ x[3] \in Nat /\ Len(files[x[1]][x[2]]) < x[3]
               /\ RowAt(x)' \in SeqRange(buf[x[1]])
      <4>1. meta < RowAt(x)'.ts
        BY <2>1, <3>2, NewIsAhead
      <4>2. RowAt(x)'.ts \in Nat /\ ckpt <= meta /\ ckpt \in Nat /\ meta \in Nat
        <5>1. RowAt(x)' \in Row
          BY <3>2 DEF Inv, SinkInv, SinkTypeOk, SeqRange
        <5>2. QED
          BY <5>1, BoundsType, SinkAssumption DEF Inv, Row, Versions
      <4>3. PICK it \in work : it.kind = "dml" /\ StreamOf(it) = x[1] /\ x[2] < it.d
        BY <1>1, <4>1, <4>2 DEF DueAt, StreamOf
      <4>4. /\ it.d \in Dates /\ it.latest <= Len(files[x[1]][it.d]) /\ it.latest > 0
            /\ it.latest \in Nat
        BY <2>1, <4>3 DEF Running, WorkOk, Inv, TypeOk, Item, ItemOk
      <4>5. Len(files[x[1]][it.d]) > 0
        BY <3>2, <4>4, FilesType
      <4>6. it.d <= date
        BY <2>1, <3>2, <4>4, <4>5 DEF SinkOrder
      <4>7. QED
        BY <3>2, <4>3, <4>4, <4>6, FilesType
    <3>3. QED
      BY <2>1, <3>1, <3>2, NewPosition
  <2>7. WorkOk'
    <3>1. \A it \in work : RangeOk(it)' <=> RangeOk(it)
      BY <1>1, <2>4 DEF RangeOk, StreamOf
    <3>2. \A it \in work : it.t \in Tables
      BY DEF Inv, TypeOk, Item
    <3>3. QED
      BY <1>1, <2>1, <2>3, <3>1, <3>2 DEF Running, WorkOk, StreamOf
  <2>8. ReadingOk'
    <3> SUFFICES ASSUME pc = "read" PROVE ReadingOk'
      BY <1>1 DEF ReadingOk
    <3>1. /\ item.t \in catalog
          /\ item.v = EffectiveWatermark(item.t)
          /\ cursor.curDate = item.d /\ cursor.curFile = at.file /\ cursor.row = at.row
          /\ at.row <= Len(Rows)
          /\ Reach(stream, cursor, item.d, at.file)
          /\ \A it \in work : it.kind = "dml" /\ StreamOf(it) = stream => item.d < it.d
      BY <2>1 DEF Running, ReadingOk
    <3>2. /\ stream \in Streams /\ cursor \in Cursor /\ stream' = stream /\ cursor' = cursor
      BY <1>1, ReadFacts DEF stream, cursor, StreamOf
    <3>3. /\ Reach(stream, cursor, item.d, at.file)'
          /\ files'[stream][item.d][at.file] = files[stream][item.d][at.file]
      <4> DEFINE s == stream
                 c == cursor
                 d == item.d
                 f == at.file
      <4>1. \A a \in Streams, b \in Cursor : \A e, g :
              Reach(a, b, e, g) => Reach(a, b, e, g)' /\ files'[a][e][g] = files[a][e][g]
        BY <2>1, ReachGrows
      <4>2. files'[s][d][f] = files[s][d][f]
        BY <3>1, <3>2, <4>1
      <4>3. QED
        BY <1>1, <3>1, <3>2, <4>1, <4>2
    <3>4. Rows' = Rows
      BY <1>1, <3>2, <3>3 DEF Rows
    <3>5. EffectiveWatermark(item.t)' = EffectiveWatermark(item.t)
      BY <1>1, <2>2, <2>3, <3>1
    <3>6. QED
      BY <1>1, <3>1, <3>2, <3>3, <3>4, <3>5 DEF ReadingOk, StreamOf
  <2>9. Ahead(mem, saved)'
    <3>1. ASSUME NEW x \in Positions', x[1][1] \in catalog, PassedAt(saved, x)
          PROVE  Behind(mem, x)
      <4>1. x \in Positions
        BY <2>1, <3>1, BehindIsOld DEF Behind
      <4>2. QED
        BY <2>1, <3>1, <4>1 DEF Running, Ahead
    <3>2. QED
      BY <1>1, <2>1, <3>1 DEF Running, Ahead
  <2>10. DestBounded'
    BY <1>1, <2>1 DEF Running, DestBounded
  <2>11. QED
    BY <1>1, <1>3, <2>1, <2>5, <2>6, <2>7, <2>8, <2>9, <2>10 DEF Running, RunOk
<1>4. QED
  BY <1>2, <1>3

(* Steps of the sink keep what makes progress.                             *)
LEMMA SinkStepProgress == Inv /\ Progress /\ SinkStep => Progress'
<1> SUFFICES ASSUME Inv, Progress, SinkStep PROVE Progress'
  OBVIOUS
<1>1. Inv' /\ UNCHANGED connVars /\ SinkInv /\ SinkOrder
  BY SinkStepInv DEF SinkStep, Inv, Progress
<1>2. SinkOrder' /\ SinkAdds
  <2>1. CASE \E t \in Tables, k \in Keys, op \in Ops, ts \in Versions : CommitRow(t, k, op, ts)
    BY <1>1, <2>1, CommitRowOrder
  <2>2. CASE \E s \in Streams : Flush(s) \/ Restart(s)
    BY <1>1, <2>2, FlushOrder, RestartOrder
  <2>3. CASE \E t \in Tables, trunc \in BOOLEAN : DDL(t, trunc)
    BY <1>1, <2>3, DDLOrder
  <2>4. CASE RollDate \/ \E c \in Versions : Publish(c)
    BY <1>1, <2>4, PublishOrder
  <2>5. QED
    BY <2>1, <2>2, <2>3, <2>4 DEF SinkStep
<1>3. /\ mem \in State /\ saved \in State /\ mem' = mem /\ saved' = saved /\ dest' = dest
      /\ StateOk(mem) /\ StateOk(saved) /\ Settled(dest, mem) /\ Settled(dest, saved)
  BY <1>1 DEF Inv, TypeOk, Progress, connVars
<1>4. \A st \in State : /\ StateOk(st) => StateOk(st)'
                        /\ \A D : StateOk(st) /\ Settled(D, st) => Settled(D, st)'
  BY <1>1, <1>2, SinkKeepsState, SinkKeepsSettled
<1>5. StateOk(mem)' /\ StateOk(saved)' /\ Settled(dest, mem)' /\ Settled(dest, saved)'
  BY <1>3, <1>4
<1>6. RunOk'
  BY <1>1, <1>2, SinkKeepsRun
<1>7. QED
  BY <1>2, <1>5, <1>6 DEF Progress

-----------------------------------------------------------------------------
(* Steps of the connector.                                                 *)

(* They leave the bucket alone: what a state is worth stays the same.      *)
LEMMA QuietPositions ==
  ASSUME UNCHANGED <<sinkVars, base>>
  PROVE  /\ Positions' = Positions
         /\ \A x : RowAt(x)' = RowAt(x) /\ (Since(x)' <=> Since(x))
         /\ SinkOrder => SinkOrder'
<1>1. UNCHANGED <<clock, date, schemas, buf, files, meta, catalog, loaded, snap>>
  BY DEF sinkVars, base
<1>2. Positions' = Positions
  BY <1>1 DEF Positions
<1>3. \A x : RowAt(x)' = RowAt(x) /\ (Since(x)' <=> Since(x))
  BY <1>1 DEF RowAt, Since
<1>4. SinkOrder => SinkOrder'
  BY <1>1 DEF SinkOrder, InVersion, FileRows, SeqRange
<1>5. QED
  BY <1>2, <1>3, <1>4

(* What a state is worth does not depend on the run.                       *)
LEMMA QuietState ==
  ASSUME UNCHANGED <<sinkVars, base>>, NEW st, StateOk(st)
  PROVE  StateOk(st)'
<1>1. UNCHANGED <<schemas, files, meta, loaded, snap>>
  BY DEF sinkVars, base
<1>2. WatermarkOk(st) /\ CursorsOk(st) /\ PassedOk(st)
  BY DEF StateOk
<1>3. WatermarkOk(st)'
  BY <1>1, <1>2 DEF WatermarkOk
<1>4. CursorsOk(st)'
  BY <1>1, <1>2 DEF CursorsOk, CursorOk, Reach
<1>5. PassedOk(st)'
  BY <1>1, <1>2, QuietPositions DEF PassedOk, PassedAt, Passed
<1>6. QED
  BY <1>3, <1>4, <1>5 DEF StateOk

(* Nor does what it settles.                                               *)
LEMMA QuietSettled ==
  ASSUME UNCHANGED <<sinkVars, base>>, NEW st, NEW D, Settled(D, st)
  PROVE  Settled(D, st)'
<1>1. UNCHANGED <<schemas, loaded>>
  BY DEF sinkVars, base
<1>2. RowsSettled(D, st) /\ TruncatesSettled(D, st)
  BY DEF Settled
<1>3. RowsSettled(D, st)'
  BY <1>1, <1>2, QuietPositions DEF RowsSettled, Behind, PassedAt, Passed
<1>4. TruncatesSettled(D, st)'
  BY <1>1, <1>2 DEF TruncatesSettled
<1>5. QED
  BY <1>3, <1>4 DEF Settled

(* Nor which of two states is ahead.                                       *)
LEMMA QuietAhead ==
  ASSUME UNCHANGED <<sinkVars, base>>, NEW a, NEW b, Ahead(a, b)
  PROVE  Ahead(a, b)'
<1>1. UNCHANGED catalog
  BY DEF base
<1>2. QED
  BY <1>1, QuietPositions DEF Ahead, Behind, PassedAt, Passed

(* A cursor at nothing has passed nothing.                                 *)
LEMMA NothingPassed ==
  ASSUME Inv, NEW x \in Positions, NEW st, st.cursors[x[1]] = NoCursor
  PROVE  ~PassedAt(st, x)
<1>1. x[2] \in Nat /\ x[3] \in Nat /\ x[3] > 0
  BY PositionFacts
<1>2. QED
  BY <1>1 DEF PassedAt, Passed, NoCursor

(* What compaction does to a state.                                        *)
LEMMA CompactFacts ==
  ASSUME NEW st \in State, NEW C
  PROVE  /\ Compact(st, C) \in State /\ Compact(st, C).wm = st.wm /\ Compact(st, C).seen = st.seen
         /\ \A t \in Tables : Compact(st, C).tableTs[t] = IF t \in C THEN st.tableTs[t] ELSE 0
         /\ \A s \in Streams : Compact(st, C).cursors[s] =
              IF s[1] \notin C \/ Obsolete(st, s) THEN NoCursor ELSE st.cursors[s]
<1> DEFINE cs == [s \in Streams |->
                    IF s[1] \notin C \/ Obsolete(st, s) THEN NoCursor ELSE st.cursors[s]]
           ts == KeptTs(st, C)
<1>1. Compact(st, C) = [st EXCEPT !.cursors = cs, !.tableTs = ts]
  BY DEF Compact
<1>2. ts = [t \in Tables |-> IF t \in C THEN st.tableTs[t] ELSE 0]
  BY DEF KeptTs
<1>3. /\ Compact(st, C).cursors = cs /\ Compact(st, C).tableTs = ts
      /\ Compact(st, C).wm = st.wm /\ Compact(st, C).seen = st.seen
  <2> HIDE DEF cs, ts
  <2>1. QED
    BY <1>1 DEF State
<1>4. QED
  BY <1>2, <1>3, CompactType

(* Compaction forgets nothing of the catalog's tables but the cursors of   *)
(* versions that are done, and claims nothing new.                         *)
LEMMA CompactBehind ==
  ASSUME Inv, NEW st \in State, NEW C, NEW x \in Positions
  PROVE  /\ PassedAt(Compact(st, C), x) => PassedAt(st, x) /\ x[1][1] \in C
         /\ Behind(Compact(st, C), x) => Behind(st, x)
         /\ x[1][1] \in C /\ Behind(st, x) => Behind(Compact(st, C), x)
<1> DEFINE d == Compact(st, C)
<1>1. /\ x[1] \in Streams /\ d.wm = st.wm
      /\ d.cursors[x[1]] = IF x[1][1] \notin C \/ Obsolete(st, x[1]) THEN NoCursor ELSE st.cursors[x[1]]
  BY PositionFacts, CompactFacts
<1> HIDE DEF d
<1>2. PassedAt(d, x) => PassedAt(st, x) /\ x[1][1] \in C
  <2>1. CASE d.cursors[x[1]] = NoCursor
    BY <2>1, NothingPassed
  <2>2. CASE d.cursors[x[1]] # NoCursor
    BY <1>1, <2>2 DEF PassedAt
  <2>3. QED
    BY <2>1, <2>2
<1>3. x[1][1] \in C /\ PassedAt(st, x) => PassedAt(d, x) \/ x[1][2] < st.wm[x[1][1]]
  BY <1>1 DEF PassedAt, Obsolete
<1>4. QED
  BY <1>1, <1>2, <1>3 DEF Behind, d

(* Compaction keeps a state as good as it was.                             *)
LEMMA CompactOk ==
  ASSUME Inv, NEW st \in State, NEW C, StateOk(st)
  PROVE  StateOk(Compact(st, C)) /\ \A D : Settled(D, st) => Settled(D, Compact(st, C))
<1> DEFINE d == Compact(st, C)
<1>1. /\ d \in State /\ d.wm = st.wm
      /\ \A t \in Tables : d.tableTs[t] = IF t \in C THEN st.tableTs[t] ELSE 0
      /\ \A s \in Streams : d.cursors[s] = NoCursor \/ d.cursors[s] = st.cursors[s]
  BY CompactFacts
<1>2. \A x \in Positions : /\ PassedAt(d, x) => PassedAt(st, x) /\ x[1][1] \in C
                           /\ Behind(d, x) => Behind(st, x)
  BY CompactBehind
<1> HIDE DEF d
<1>3. WatermarkOk(st) /\ CursorsOk(st) /\ PassedOk(st)
  BY DEF StateOk
<1>4. WatermarkOk(d)
  BY <1>1, <1>3 DEF WatermarkOk
<1>5. CursorsOk(d)
  <2>1. \A s \in Streams : CursorOk(s, NoCursor)
    BY FilesType DEF CursorOk, NoCursor
  <2>2. QED
    BY <1>1, <1>3, <2>1 DEF CursorsOk
<1>6. PassedOk(d)
  BY <1>1, <1>2, <1>3, PositionFacts DEF PassedOk
<1>7. ASSUME NEW D, Settled(D, st) PROVE Settled(D, d)
  <2>1. RowsSettled(D, st) /\ TruncatesSettled(D, st)
    BY <1>7 DEF Settled
  <2>2. RowsSettled(D, d)
    BY <1>2, <2>1 DEF RowsSettled
  <2>3. TruncatesSettled(D, d)
    BY <1>1, <2>1 DEF TruncatesSettled
  <2>4. QED
    BY <2>2, <2>3 DEF Settled
<1>8. QED
  BY <1>4, <1>5, <1>6, <1>7 DEF StateOk, d

(* The end of a run.                                                       *)
LEMMA EndRunProgress ==
  ASSUME Inv, Progress, NEW st, EndRun(st), UNCHANGED <<sinkVars, base>>,
         StateOk(st), Settled(dest', st)
  PROVE  Progress'
<1>1. saved' = st /\ mem' = st /\ pc' = "idle" /\ work' = {}
  BY DEF EndRun
<1>2. SinkOrder'
  BY QuietPositions DEF Progress
<1>3. StateOk(mem') /\ StateOk(saved') /\ Settled(dest', mem') /\ Settled(dest', saved')
  BY <1>1
<1>4. StateOk(mem)' /\ StateOk(saved)' /\ Settled(dest, mem)' /\ Settled(dest, saved)'
  BY <1>3, QuietState, QuietSettled
<1>5. RunOk'
  BY <1>1 DEF RunOk
<1>6. QED
  BY <1>2, <1>4, <1>5 DEF Progress

(* A run that ends with the compacted state.                               *)
LEMMA EndCompactProgress ==
  ASSUME Inv, Progress, NEW st \in {saved, mem}, EndRun(Compact(st, catalog)),
         UNCHANGED <<sinkVars, base, dest>>
  PROVE  Progress'
<1>1. st \in State /\ StateOk(st) /\ Settled(dest, st)
  BY DEF Inv, TypeOk, Progress
<1>2. StateOk(Compact(st, catalog)) /\ Settled(dest, Compact(st, catalog))
  BY <1>1, CompactOk
<1>3. QED
  BY <1>2, EndRunProgress

(* Other tables are selected.                                              *)
LEMMA RefilterProgress == ASSUME Inv, Progress, NEW C \in Catalogs, Refilter(C) PROVE Progress'
<1>1. pc = "idle" /\ UNCHANGED <<sinkVars, loaded, snap, dest, saved, mem, pc, work>>
  BY DEF Refilter, runVars
<1>2. UNCHANGED <<clock, date, schemas, buf, files, meta>>
  BY <1>1 DEF sinkVars
<1>3. /\ Positions' = Positions /\ \A x : RowAt(x)' = RowAt(x) /\ (Since(x)' <=> Since(x))
  BY <1>1, <1>2 DEF Positions, RowAt, Since
<1>4. SinkOrder'
  BY <1>2 DEF Progress, SinkOrder, InVersion, FileRows, SeqRange
<1>5. ASSUME NEW st, StateOk(st) PROVE StateOk(st)'
  <2>1. WatermarkOk(st)'
    BY <1>1, <1>2, <1>5 DEF StateOk, WatermarkOk
  <2>2. CursorsOk(st)'
    BY <1>1, <1>2, <1>5 DEF StateOk, CursorsOk, CursorOk, Reach
  <2>3. PassedOk(st)'
    BY <1>1, <1>3, <1>5 DEF StateOk, PassedOk, PassedAt, Passed
  <2>4. QED
    BY <2>1, <2>2, <2>3 DEF StateOk
<1>6. ASSUME NEW st, NEW D, Settled(D, st) PROVE Settled(D, st)'
  <2>1. RowsSettled(D, st)'
    BY <1>1, <1>3, <1>6 DEF Settled, RowsSettled, Behind, PassedAt, Passed
  <2>2. TruncatesSettled(D, st)'
    BY <1>1, <1>2, <1>6 DEF Settled, TruncatesSettled
  <2>3. QED
    BY <2>1, <2>2 DEF Settled
<1>7. StateOk(mem') /\ StateOk(saved') /\ Settled(dest', mem') /\ Settled(dest', saved')
  BY <1>1 DEF Progress
<1>8. StateOk(mem)' /\ StateOk(saved)' /\ Settled(dest, mem)' /\ Settled(dest, saved)'
  BY <1>5, <1>6, <1>7
<1>9. RunOk'
  BY <1>1 DEF Progress, RunOk
<1>10. QED
  BY <1>4, <1>8, <1>9 DEF Progress

(* Tables are loaded: no state has anything of them behind it yet.         *)
LEMMA LoadSnapshotProgress ==
  ASSUME Inv, Progress, NEW c \in Versions, NEW S \in SUBSET Tables, LoadSnapshot(c, S)
  PROVE  Progress'
<1> DEFINE d == Compact(saved, catalog)
<1>1. /\ pc = "idle" /\ S \subseteq catalog \ loaded
      /\ snap' = c /\ loaded' = loaded \cup S
      /\ dest' = [t \in Tables |-> IF t \in S THEN Truth(t, c) ELSE dest[t]]
      /\ saved' = d /\ mem' = d
      /\ UNCHANGED <<sinkVars, catalog, pc, work>>
      /\ IF snap = 0 THEN c \in 1 .. clock ELSE c = snap
  BY DEF LoadSnapshot, runVars, Loaded
<1>2. UNCHANGED <<clock, date, schemas, buf, files, meta>>
  BY <1>1 DEF sinkVars
<1>3. /\ snap \in Nat /\ c \in Nat /\ snap <= c /\ loaded \subseteq Tables
      /\ saved \in State /\ d \in State /\ StateOk(d) /\ Settled(dest, d)
  <2>1. saved \in State /\ StateOk(saved) /\ Settled(dest, saved) /\ loaded \subseteq Tables
    BY DEF Inv, TypeOk, Progress
  <2>2. snap \in Nat /\ c \in Nat /\ snap <= c
    BY <1>1, BoundsType, SinkAssumption DEF Versions
  <2>3. QED
    BY <2>1, <2>2, CompactOk, CompactFacts
<1>4. /\ Positions' = Positions /\ \A x : RowAt(x)' = RowAt(x)
      /\ \A x \in Positions : Since(x)' => Since(x)
  <2>1. Positions' = Positions /\ \A x : RowAt(x)' = RowAt(x)
    BY <1>2 DEF Positions, RowAt
  <2>2. \A x \in Positions : RowAt(x).ts \in Nat
    BY PositionFacts
  <2>3. QED
    BY <1>1, <1>3, <2>1, <2>2 DEF Since
<1> HIDE DEF d
<1>5. SinkOrder'
  <2>1. SinkOrder
    BY DEF Progress
  <2>2. QED
    BY <1>2, <2>1 DEF SinkOrder, InVersion, FileRows, SeqRange
<1>6. WatermarkOk(d) /\ CursorsOk(d) /\ PassedOk(d) /\ RowsSettled(dest, d) /\ TruncatesSettled(dest, d)
  BY <1>3 DEF StateOk, Settled
<1>7. WatermarkOk(mem)' /\ CursorsOk(mem)' /\ PassedOk(mem)'
  <2>1. WatermarkOk(mem)'
    BY <1>1, <1>2, <1>6 DEF WatermarkOk
  <2>2. CursorsOk(mem)'
    BY <1>1, <1>2, <1>6 DEF CursorsOk, CursorOk, Reach
  <2>3. PassedOk(mem)'
    <3>1. ASSUME NEW x \in Positions, Since(x)', PassedAt(d, x)
          PROVE  RowAt(x).ts <= d.tableTs[x[1][1]] /\ (x[1][2] <= d.wm[x[1][1]] \/ x[1][2] <= c)
      <4>1. RowAt(x).ts <= d.tableTs[x[1][1]] /\ (x[1][2] <= d.wm[x[1][1]] \/ x[1][2] <= snap)
        BY <1>4, <1>6, <3>1 DEF PassedOk
      <4>2. x[1][2] \in Nat
        BY PositionFacts
      <4>3. QED
        BY <1>3, <4>1, <4>2
    <3>2. QED
      BY <1>1, <1>4, <3>1 DEF PassedOk, PassedAt, Passed
  <2>4. QED
    BY <2>1, <2>2, <2>3
<1>8. ASSUME NEW t \in S
      PROVE  d.wm[t] = 0 /\ \A s \in Streams : s[1] = t => d.cursors[s] = NoCursor
  BY <1>1, <1>6 DEF WatermarkOk, CursorsOk
<1>9. \A t \in loaded : dest'[t] = dest[t]
  BY <1>1, <1>3
<1>10. RowsSettled(dest, mem)'
  <2>1. ASSUME NEW x \in Positions, x[1][1] \in loaded', Since(x)', Behind(d, x)
        PROVE  dest'[x[1][1]][RowAt(x).key].ts >= RowAt(x).ts
    <3>1. CASE x[1][1] \in loaded
      BY <1>4, <1>6, <1>9, <2>1, <3>1 DEF RowsSettled
    <3>2. CASE x[1][1] \in S
      <4>1. ~PassedAt(d, x)
        BY <1>8, <3>2, NothingPassed, PositionFacts
      <4>2. ~(x[1][2] < d.wm[x[1][1]])
        BY <1>8, <3>2, PositionFacts
      <4>3. QED
        BY <2>1, <4>1, <4>2 DEF Behind
    <3>3. QED
      BY <1>1, <2>1, <3>1, <3>2
  <2>2. QED
    BY <1>1, <1>4, <2>1 DEF RowsSettled, Behind, PassedAt, Passed
<1>11. TruncatesSettled(dest, mem)'
  <2>1. ASSUME NEW t \in loaded', NEW m \in schemas[t], m.trunc, m.v <= d.wm[t]
        PROVE  \A k \in Keys : dest'[t][k].ts >= m.v
    <3>1. CASE t \in loaded
      BY <1>6, <1>9, <2>1, <3>1 DEF TruncatesSettled
    <3>2. CASE t \in S
      BY <1>8, <2>1, <3>2, SchemaFacts
    <3>3. QED
      BY <1>1, <3>1, <3>2
  <2>2. QED
    BY <1>1, <1>2, <2>1 DEF TruncatesSettled
<1>12. /\ StateOk(mem)' /\ Settled(dest, mem)' /\ mem' = saved'
  BY <1>1, <1>7, <1>10, <1>11 DEF StateOk, Settled
<1>13. StateOk(saved)' /\ Settled(dest, saved)'
  BY <1>12
<1>14. RunOk'
  BY <1>1 DEF Progress, RunOk
<1>15. QED
  BY <1>5, <1>12, <1>13, <1>14 DEF Progress

(* A run starts: it has nothing to do yet that it knows of.                *)
LEMMA StartRunProgress == Inv /\ Progress /\ StartRun => Progress'
<1> SUFFICES ASSUME Inv, Progress, StartRun PROVE Progress'
  OBVIOUS
<1> DEFINE d == Compact(saved, catalog)
           e == [d EXCEPT !.seen = meta]
<1>1. /\ pc = "idle" /\ catalog \subseteq loaded
      /\ mem' = e /\ ckpt' = meta /\ toScan' = catalog /\ pc' = "scan"
      /\ UNCHANGED <<sinkVars, base, dest, saved, work>>
  BY DEF StartRun
<1>2. /\ saved \in State /\ StateOk(saved) /\ Settled(dest, saved) /\ work = {} /\ SinkOrder
  BY <1>1 DEF Inv, TypeOk, Progress, RunOk
<1>3. /\ d \in State /\ StateOk(d) /\ Settled(dest, d) /\ d.wm = saved.wm
      /\ \A t \in Tables : d.tableTs[t] = IF t \in catalog THEN saved.tableTs[t] ELSE 0
  BY <1>2, CompactFacts, CompactOk
<1>4. \A x \in Positions : x[1][1] \in catalog /\ Behind(saved, x) => Behind(d, x)
  BY <1>2, CompactBehind
<1> HIDE DEF d
<1>5. e.cursors = d.cursors /\ e.wm = d.wm /\ e.tableTs = d.tableTs
  BY <1>3 DEF State
<1> HIDE DEF e
<1>6. StateOk(e) /\ Settled(dest, e)
  <2>1. StateOk(e)
    BY <1>3, <1>5 DEF StateOk, WatermarkOk, CursorsOk, PassedOk, PassedAt
  <2>2. Settled(dest, e)
    BY <1>3, <1>5 DEF Settled, RowsSettled, TruncatesSettled, Behind, PassedAt
  <2>3. QED
    BY <2>1, <2>2
<1>7. Ahead(e, saved)
  <2>1. catalog \subseteq Tables /\ \A t \in Tables : saved.tableTs[t] \in Nat
    BY <1>2, CatalogsAssumption, StateFacts DEF Inv, TypeOk
  <2>2. \A t \in catalog : saved.tableTs[t] <= e.tableTs[t]
    BY <1>3, <1>5, <2>1
  <2>3. \A x \in Positions : x[1][1] \in catalog /\ PassedAt(saved, x) => Behind(e, x)
    BY <1>4, <1>5 DEF Behind, PassedAt
  <2>4. QED
    BY <1>3, <1>5, <2>2, <2>3 DEF Ahead
<1>8. StateOk(mem)' /\ StateOk(saved)' /\ Settled(dest, mem)' /\ Settled(dest, saved)' /\ SinkOrder'
  <2>1. StateOk(mem') /\ StateOk(saved') /\ Settled(dest', mem') /\ Settled(dest', saved')
    BY <1>1, <1>2, <1>6
  <2>2. QED
    BY <1>1, <1>2, <2>1, QuietState, QuietSettled, QuietPositions
<1>9. Ahead(mem, saved)'
  <2>1. Ahead(mem', saved')
    BY <1>1, <1>7
  <2>2. QED
    BY <1>1, <2>1, QuietAhead
<1>10. DestBounded'
  <2>1. ASSUME NEW t \in loaded, NEW k \in Keys PROVE dest[t][k].ts <= Max2(meta, snap)
    <3>1. PICK c \in snap .. Max2(meta, snap) : dest[t][k] = LastChange(t, k, c)
      BY DEF Inv, CellsWereTrue
    <3>2. t \in Tables /\ c \in Nat /\ c <= Max2(meta, snap) /\ Max2(meta, snap) \in Nat
      BY BoundsType DEF Inv, TypeOk
    <3>3. LastChange(t, k, c).ts <= c /\ LastChange(t, k, c).ts \in Nat
      BY <3>2, LastChangeIs, SinkAssumption DEF Cell
    <3>4. QED
      BY <3>1, <3>2, <3>3
  <2>2. QED
    BY <1>1, <2>1 DEF DestBounded, base, Max2
<1>11. MarkersDue' /\ RowsDue' /\ WorkOk' /\ ReadingOk'
  <2>1. catalog' \ toScan' = {} /\ work' = {} /\ pc' # "read"
    BY <1>1, <1>2 DEF base
  <2>2. QED
    BY <2>1 DEF MarkersDue, RowsDue, WorkOk, ReadingOk
<1>12. RunOk'
  BY <1>1, <1>9, <1>10, <1>11 DEF RunOk, Running, base
<1>13. QED
  BY <1>8, <1>12 DEF Progress

-----------------------------------------------------------------------------
(* Steps of the items loop and the row loop.                               *)

(* The versions a run knows of stay the same while it runs.                *)
LEMMA SameVersions ==
  ASSUME UNCHANGED <<sinkVars, base, ckpt>>, NEW t
  PROVE  /\ VisibleSchemas(t)' = VisibleSchemas(t) /\ Baseline(t)' = Baseline(t)
         /\ EffectiveWatermark(t)' = Max2(mem'.wm[t], Baseline(t))
<1>1. UNCHANGED <<schemas, snap, ckpt>>
  BY DEF sinkVars, base
<1>2. VisibleSchemas(t)' = VisibleSchemas(t)
  BY <1>1 DEF VisibleSchemas
<1>3. Baseline(t)' = Baseline(t)
  BY <1>1, <1>2 DEF Baseline
<1>4. QED
  BY <1>2, <1>3 DEF EffectiveWatermark, Max2

(* A watermark only moves up, so what a run takes for done does too.       *)
LEMMA EffectiveGrows ==
  ASSUME Inv, Inv', UNCHANGED <<sinkVars, base, ckpt>>, NEW t \in Tables, mem.wm[t] <= mem'.wm[t]
  PROVE  /\ EffectiveWatermark(t) \in Nat /\ EffectiveWatermark(t)' \in Nat
         /\ EffectiveWatermark(t) <= EffectiveWatermark(t)'
         /\ mem'.wm[t] = mem.wm[t] => EffectiveWatermark(t)' = EffectiveWatermark(t)
<1>1. mem.wm[t] \in Nat /\ Baseline(t) \in Nat
  BY EffectiveFacts, BaselineFacts
<1>2. mem'.wm[t] \in Nat
  <2>1. Inv' => mem' \in State
    BY DEF Inv, TypeOk
  <2>2. QED
    BY <2>1, StateFacts
<1>3. QED
  BY <1>1, <1>2, SameVersions DEF EffectiveWatermark, Max2

(* What a step of the loops has to keep.                                   *)
LEMMA LoopProgress ==
  ASSUME Inv, Inv', Progress, pc \in {"work", "read"}, pc' \in {"work", "read"},
         UNCHANGED <<sinkVars, base, ckpt, toScan>>,
         work' \subseteq work,
         \A t \in Tables : mem.wm[t] <= mem'.wm[t],
         \A it \in work : it \in work' \/ it.kind = "dml" \/ it.v <= EffectiveWatermark(it.t)',
         \A x \in Positions : x[1][1] \in catalog /\ PassedAt(mem, x) => PassedAt(mem', x),
         \A x \in Positions : x[1][1] \in catalog /\ Pending(x[1], x[2], x[3]) =>
           \/ Pending(x[1], x[2], x[3])'
           \/ PassedAt(mem', x)
           \/ x[1][2] < EffectiveWatermark(x[1][1]),
         \A it \in work' : it.kind = "dml" /\ it.v >= EffectiveWatermark(it.t)' => RangeOk(it)',
         ReadingOk', Ahead(mem', saved'), DestBounded',
         StateOk(mem'), StateOk(saved'), Settled(dest', mem'), Settled(dest', saved')
  PROVE  Progress'
<1>1. /\ Running /\ SinkOrder /\ toScan = {} /\ UNCHANGED <<catalog, loaded>>
      /\ catalog \subseteq Tables
  BY CatalogsAssumption DEF Progress, RunOk, Running, base, Inv, TypeOk
<1>2. \A t \in Tables : /\ EffectiveWatermark(t) \in Nat /\ EffectiveWatermark(t)' \in Nat
                        /\ EffectiveWatermark(t) <= EffectiveWatermark(t)'
                        /\ VisibleSchemas(t)' = VisibleSchemas(t)
  BY EffectiveGrows, SameVersions
<1>3. SinkOrder' /\ StateOk(mem)' /\ StateOk(saved)' /\ Settled(dest, mem)' /\ Settled(dest, saved)'
  BY <1>1, QuietPositions, QuietState, QuietSettled
<1>4. Ahead(mem, saved)'
  BY QuietAhead
<1>5. MarkersDue'
  <2>1. ASSUME NEW t \in catalog, NEW m \in VisibleSchemas(t)
        PROVE  Marker(t, m) \in work' \/ m.v <= EffectiveWatermark(t)'
    <3>1. t \in Tables /\ m.v \in Nat
      BY <1>1, SchemaFacts DEF VisibleSchemas
    <3>2. CASE m.v <= EffectiveWatermark(t)
      BY <1>2, <3>1, <3>2
    <3>3. CASE Marker(t, m) \in work
      BY <3>3 DEF Marker
    <3>4. QED
      BY <1>1, <2>1, <3>2, <3>3 DEF Running, MarkersDue
  <2>2. QED
    BY <1>1, <1>2, <2>1 DEF MarkersDue, Marker
<1>6. RowsDue'
  <2>1. ASSUME NEW x \in Positions, x[1][1] \in catalog, DueAt(x)'
        PROVE  \/ x[1][2] < EffectiveWatermark(x[1][1])'
               \/ PassedAt(mem', x)
               \/ Pending(x[1], x[2], x[3])'
    <3>1. DueAt(x)
      BY <2>1, QuietPositions DEF DueAt, StreamOf
    <3>2. x[1][1] \in Tables /\ x[1][2] \in Nat
      BY PositionFacts
    <3>3. \/ x[1][2] < EffectiveWatermark(x[1][1]) \/ PassedAt(mem, x) \/ Pending(x[1], x[2], x[3])
      BY <1>1, <2>1, <3>1 DEF Running, RowsDue
    <3>4. x[1][2] < EffectiveWatermark(x[1][1]) => x[1][2] < EffectiveWatermark(x[1][1])'
      BY <1>2, <3>2
    <3>5. QED
      BY <2>1, <3>3, <3>4
  <2>2. QED
    BY <1>1, <2>1, QuietPositions DEF RowsDue, PassedAt, Passed
<1>7. WorkOk'
  BY <1>1 DEF Running, WorkOk, StreamOf
<1>8. RunOk'
  BY <1>1, <1>4, <1>5, <1>6, <1>7 DEF RunOk, Running
<1>9. QED
  BY <1>3, <1>8 DEF Progress

(* An item that is next is before every other of its stream.               *)
LEMMA NextOfStream ==
  ASSUME Inv, WorkOk, NEW it \in work, IsNext(it), it.kind = "dml",
         NEW b \in work, b.kind = "dml", StreamOf(b) = StreamOf(it)
  PROVE  it.d <= b.d /\ (b # it => it.d < b.d)
<1>1. /\ it.d \in Nat /\ b.d \in Nat /\ it.t = b.t /\ it.v = b.v /\ it.p = b.p
  BY DEF Inv, TypeOk, Item, StreamOf
<1>2. ~Precedes(b, it)
  BY DEF IsNext
<1>3. b.d = it.d => b = it
  BY DEF WorkOk
<1>4. QED
  BY <1>1, <1>2, <1>3 DEF Precedes

(* No file of a stream is pending that is before the item that is next.    *)
LEMMA NothingBefore ==
  ASSUME Inv, WorkOk, pc = "work", NEW it \in work, IsNext(it), it.kind = "dml",
         NEW d \in Nat, NEW f, d < it.d
  PROVE  ~Pending(StreamOf(it), d, f)
<1>1. it.d \in Nat
  BY DEF Inv, TypeOk, Item
<1>2. QED
  BY <1>1, NextOfStream DEF Pending

(* A schema marker whose version is done is dropped, and so is a range of  *)
(* a version below.                                                        *)
LEMMA SkipItemProgress ==
  ASSUME Inv, Progress, NEW it \in work, SkipMarker(it) \/ SkipOldRange(it)
  PROVE  Progress'
<1>1. /\ pc = "work" /\ pc' = "work" /\ work' = work \ {it}
      /\ UNCHANGED <<sinkVars, base, dest, saved, mem, ckpt, toScan, item, at>>
      /\ \/ it.kind = "schema" /\ it.v <= EffectiveWatermark(it.t)
         \/ it.kind = "dml" /\ it.v < EffectiveWatermark(it.t)
  BY DEF SkipMarker, SkipOldRange
<1>2. Inv'
  BY SkipItemInv
<1>3. /\ Running /\ StateOk(mem) /\ StateOk(saved) /\ Settled(dest, mem) /\ Settled(dest, saved)
      /\ \A b \in work : b.t \in Tables /\ b.v \in Nat
  BY <1>1, SinkAssumption DEF Progress, RunOk, Inv, TypeOk, Item, Versions
<1>4. \A t \in Tables : EffectiveWatermark(t)' = EffectiveWatermark(t) /\ EffectiveWatermark(t) \in Nat
                        /\ mem.wm[t] <= mem'.wm[t]
  <2>1. \A t \in Tables : mem.wm[t] \in Nat /\ mem'.wm[t] = mem.wm[t]
    BY <1>1, EffectiveFacts
  <2>2. \A t \in Tables : mem.wm[t] <= mem'.wm[t]
    BY <2>1
  <2>3. QED
    BY <1>1, <1>2, <2>1, <2>2, EffectiveGrows
<1>5. \A b \in work : b \in work' \/ b.kind = "dml" \/ b.v <= EffectiveWatermark(b.t)'
  BY <1>1, <1>3, <1>4
<1>6. ASSUME NEW s, NEW d, NEW f, Pending(s, d, f)
      PROVE  Pending(s, d, f)' \/ (s[1] = it.t /\ s[2] = it.v /\ it.kind = "dml" /\ s = StreamOf(it))
  <2>1. PICK b \in work : b.kind = "dml" /\ StreamOf(b) = s /\ b.d = d /\ f <= b.latest
    BY <1>1, <1>6 DEF Pending
  <2>2. CASE b = it
    BY <2>1, <2>2 DEF StreamOf
  <2>3. CASE b # it
    BY <1>1, <2>1, <2>3 DEF Pending, StreamOf
  <2>4. QED
    BY <2>2, <2>3
<1>7. \A x \in Positions : x[1][1] \in catalog /\ Pending(x[1], x[2], x[3]) =>
        Pending(x[1], x[2], x[3])' \/ PassedAt(mem', x) \/ x[1][2] < EffectiveWatermark(x[1][1])
  BY <1>1, <1>3, <1>4, <1>6
<1>8. ASSUME NEW b \in work', b.kind = "dml", b.v >= EffectiveWatermark(b.t)'
      PROVE  RangeOk(b)'
  <2>1. b \in work /\ b.t \in Tables /\ b.v >= EffectiveWatermark(b.t)
    BY <1>1, <1>3, <1>4, <1>8
  <2>2. RangeOk(b)
    BY <1>3, <1>8, <2>1 DEF Running, WorkOk
  <2>3. ~(it.kind = "dml" /\ StreamOf(b) = StreamOf(it))
    BY <1>1, <1>3, <1>4, <2>1 DEF StreamOf
  <2>4. \A d, f : Pending(StreamOf(b), d, f) => Pending(StreamOf(b), d, f)'
    BY <1>6, <2>3
  <2>5. StreamOf(b)' = StreamOf(b) /\ mem' = mem
    BY <1>1 DEF StreamOf
  <2>6. QED
    BY <2>2, <2>4, <2>5 DEF RangeOk
<1>9. ReadingOk' /\ DestBounded' /\ Ahead(mem', saved')
  BY <1>1, <1>3 DEF ReadingOk, Running, DestBounded, base
<1>10. \A x \in Positions : x[1][1] \in catalog /\ PassedAt(mem, x) => PassedAt(mem', x)
  BY <1>1
<1>11. StateOk(mem') /\ StateOk(saved') /\ Settled(dest', mem') /\ Settled(dest', saved')
  BY <1>1, <1>3
<1>12. work' \subseteq work
  BY <1>1
<1>13. QED
  BY <1>1, <1>2, <1>4, <1>5, <1>7, <1>8, <1>9, <1>10, <1>11, <1>12, LoopProgress

(* A marker that is next and not done: it is above the snapshot, and what  *)
(* is of an earlier version is behind the run.                             *)
LEMMA MarkerFacts ==
  ASSUME Inv, Progress, pc = "work", NEW it \in work, IsNext(it), it.kind = "schema",
         it.v > EffectiveWatermark(it.t)
  PROVE  /\ it.t \in catalog /\ it.t \in loaded /\ it.t \in Tables
         /\ it.v \in Nat /\ snap < it.v /\ it.v <= ckpt /\ mem.wm[it.t] < it.v
         /\ [v |-> it.v, trunc |-> it.trunc] \in schemas[it.t]
         /\ \A x \in Positions :
              x[1][1] = it.t /\ Since(x) /\ x[1][2] < it.v => RowAt(x).ts < it.v /\ Behind(mem, x)
         /\ \A m \in schemas[it.t] :
              m.v <= it.v => \/ m.v <= mem.wm[it.t]
                             \/ m.v <= snap
                             \/ m = [v |-> it.v, trunc |-> it.trunc]
<1> DEFINE me == [v |-> it.v, trunc |-> it.trunc]
           t  == it.t
<1>1. Running /\ SinkOrder
  BY DEF Progress, RunOk
<1>2. t \in catalog /\ t \in loaded /\ toScan = {} /\ t \in Tables
  BY <1>1 DEF Running, WorkOk, Inv, TypeOk
<1>3. /\ it.v \in Nat /\ snap \in Nat /\ ckpt \in Nat /\ it.v <= ckpt
      /\ EffectiveWatermark(t) \in Nat /\ mem.wm[t] \in Nat /\ mem.wm[t] <= EffectiveWatermark(t)
      /\ me \in schemas[t] /\ me.v = it.v
  <2>1. it.v \in Nat
    BY SinkAssumption DEF Versions, Inv, TypeOk, Item
  <2>3. ItemOk(it)
    BY DEF Inv
  <2>4. it.v <= ckpt /\ me \in schemas[t]
    BY <2>3 DEF ItemOk
  <2>2. QED
    BY <1>2, <2>1, <2>4, BoundsType, EffectiveFacts
<1>4. mem.wm[t] < it.v
  BY <1>3
<1>5. snap < it.v
  <2>1. me \in VisibleSchemas(t)
    BY <1>3 DEF VisibleSchemas
  <2>2. it.v <= snap => it.v <= Baseline(t)
    BY <1>2, <1>3, <2>1, BaselineFacts
  <2>3. Baseline(t) <= EffectiveWatermark(t) /\ Baseline(t) \in Nat
    BY <1>2, EffectiveFacts, BaselineFacts
  <2>4. QED
    BY <1>3, <2>2, <2>3
<1>6. \A b \in work : b.t = t => ~(b.v < it.v)
  BY DEF IsNext, Precedes
<1>7. ASSUME NEW x \in Positions, x[1][1] = t, Since(x), x[1][2] < it.v
      PROVE  RowAt(x).ts < it.v /\ Behind(mem, x)
  <2>1. RowAt(x).ts < it.v /\ RowAt(x).ts \in Nat /\ x[1][2] \in Nat
    BY <1>1, <1>3, <1>7, RowVersion, PositionFacts
  <2>2. DueAt(x)
    BY <1>3, <2>1 DEF DueAt
  <2>3. ~Pending(x[1], x[2], x[3])
    BY <1>6, <1>7, PositionFacts DEF Pending, StreamOf
  <2>4. x[1][2] < EffectiveWatermark(t) \/ PassedAt(mem, x)
    BY <1>1, <1>2, <1>7, <2>2, <2>3 DEF Running, RowsDue
  <2>5. QED
    BY <1>1, <1>7, <2>1, <2>4, BelowBaseline DEF Behind
<1>8. ASSUME NEW m \in schemas[t], m.v <= it.v
      PROVE  m.v <= mem.wm[t] \/ m.v <= snap \/ m = me
  <2>1. m.v \in Nat
    BY <1>2, SchemaFacts
  <2>2. m \in VisibleSchemas(t)
    BY <1>3, <1>8, <2>1 DEF VisibleSchemas
  <2>3. CASE m.v <= EffectiveWatermark(t)
    <3>1. EffectiveWatermark(t) = mem.wm[t] \/ EffectiveWatermark(t) <= snap
      BY <1>2, EffectiveFacts
    <3>2. QED
      BY <1>3, <2>1, <2>3, <3>1
  <2>4. CASE Marker(t, m) \in work
    <3>1. ~(m.v < it.v)
      BY <1>6, <2>4 DEF Marker
    <3>2. m.v = me.v
      BY <1>3, <1>8, <2>1, <3>1
    <3>3. QED
      BY <1>1, <1>2, <1>3, <3>2 DEF SinkOrder
  <2>5. QED
    BY <1>1, <1>2, <2>2, <2>3, <2>4 DEF Running, MarkersDue
<1>9. QED
  BY <1>2, <1>3, <1>4, <1>5, <1>7, <1>8

(* A truncate is above all that the states have behind them.               *)
LEMMA TruncateSettled ==
  ASSUME Inv, Progress, pc = "work", NEW it \in work, IsNext(it), it.kind = "schema",
         it.v > EffectiveWatermark(it.t),
         dest' = IF it.trunc THEN Truncated(it.t, it.v) ELSE dest,
         NEW st \in {saved, mem}
  PROVE  /\ Settled(dest', st)
         /\ \A t \in loaded, k \in Keys :
              dest'[t][k] = IF it.trunc /\ t = it.t THEN [ts |-> it.v, live |-> FALSE] ELSE dest[t][k]
<1> DEFINE u == it.t
<1>1. /\ u \in Tables /\ u \in loaded /\ it.v \in Nat /\ snap < it.v /\ mem.wm[u] < it.v
      /\ snap \in Nat
      /\ \A x \in Positions :
           x[1][1] = u /\ Since(x) /\ x[1][2] < it.v => RowAt(x).ts < it.v /\ Behind(mem, x)
  BY MarkerFacts, BoundsType
<1>2. /\ RowsSettled(dest, st) /\ TruncatesSettled(dest, st) /\ PassedOk(st) /\ st \in State
      /\ st.wm = mem.wm /\ mem \in State
  BY DEF Progress, StateOk, Settled, RunOk, Running, Ahead, Inv, TypeOk
<1>3. mem.wm[u] \in Nat /\ dest \in [Tables -> [Keys -> Cell]] /\ loaded \subseteq Tables
  BY <1>1, <1>2, StateFacts DEF Inv, TypeOk
<1>4. ASSUME NEW t \in loaded, NEW k \in Keys
      PROVE  dest'[t][k] = IF it.trunc /\ t = u THEN [ts |-> it.v, live |-> FALSE] ELSE dest[t][k]
  BY <1>1, <1>3 DEF Truncated
<1>5. ASSUME NEW x \in Positions, x[1][1] = u, Since(x), Behind(st, x)
      PROVE  RowAt(x).ts <= it.v
  <2>1. x[1][2] \in Nat /\ RowAt(x).ts \in Nat
    BY PositionFacts
  <2>2. x[1][2] < it.v
    <3>1. CASE x[1][2] < st.wm[u]
      BY <1>1, <1>2, <1>3, <2>1, <3>1
    <3>2. CASE PassedAt(st, x)
      <4>1. x[1][2] <= mem.wm[u] \/ x[1][2] <= snap
        BY <1>2, <1>5, <3>2 DEF PassedOk
      <4>2. QED
        BY <1>1, <1>3, <2>1, <4>1
    <3>3. QED
      BY <1>5, <3>1, <3>2 DEF Behind
  <2>3. RowAt(x).ts < it.v
    BY <1>1, <1>5, <2>2
  <2>4. QED
    BY <1>1, <2>1, <2>3
<1>6. RowsSettled(dest', st)
  <2>1. ASSUME NEW x \in Positions, x[1][1] \in loaded, Since(x), Behind(st, x)
        PROVE  dest'[x[1][1]][RowAt(x).key].ts >= RowAt(x).ts
    <3>1. RowAt(x).key \in Keys /\ RowAt(x).ts \in Nat
      BY PositionFacts
    <3>2. dest[x[1][1]][RowAt(x).key].ts >= RowAt(x).ts
      BY <1>2, <2>1 DEF RowsSettled
    <3>3. x[1][1] = u => RowAt(x).ts <= it.v
      BY <1>5, <2>1
    <3>4. QED
      BY <1>1, <1>4, <2>1, <3>1, <3>2, <3>3
  <2>2. QED
    BY <2>1 DEF RowsSettled
<1>7. TruncatesSettled(dest', st)
  <2>1. ASSUME NEW t \in loaded, NEW m \in schemas[t], m.trunc, m.v <= st.wm[t], NEW k \in Keys
        PROVE  dest'[t][k].ts >= m.v
    <3>1. dest[t][k].ts >= m.v /\ m.v \in Nat
      BY <1>2, <1>3, <2>1, SchemaFacts DEF TruncatesSettled
    <3>2. t = u => m.v <= it.v
      BY <1>1, <1>2, <1>3, <2>1, <3>1
    <3>3. QED
      BY <1>1, <1>4, <3>1, <3>2
  <2>2. QED
    BY <2>1 DEF TruncatesSettled
<1>8. QED
  BY <1>4, <1>6, <1>7 DEF Settled

(* A marker moves the watermark: the rows of the versions before it are    *)
(* all read, and a truncate among them is the marker itself.               *)
LEMMA HandleMarkerProgress ==
  ASSUME Inv, Progress, NEW it \in work, HandleMarker(it)
  PROVE  Progress'
<1> DEFINE u == it.t
           me == [v |-> it.v, trunc |-> it.trunc]
<1>1. /\ pc = "work" /\ pc' = "work" /\ IsNext(it) /\ it.kind = "schema"
      /\ it.v > EffectiveWatermark(u)
      /\ dest' = IF it.trunc THEN Truncated(u, it.v) ELSE dest
      /\ mem' = SetWatermark(mem, u, it.v) /\ saved' = mem' /\ work' = work \ {it}
      /\ UNCHANGED <<sinkVars, base, ckpt, toScan, item, at>>
  BY DEF HandleMarker
<1>2. Inv'
  BY HandleMarkerInv
<1>3. /\ u \in catalog /\ u \in loaded /\ u \in Tables
      /\ it.v \in Nat /\ snap < it.v /\ it.v <= ckpt /\ mem.wm[u] < it.v
      /\ me \in schemas[u]
  BY <1>1, MarkerFacts
<1>4. /\ \A x \in Positions : x[1][1] = u /\ Since(x) /\ x[1][2] < it.v => Behind(mem, x)
      /\ \A m \in schemas[u] : m.v <= it.v => m.v <= mem.wm[u] \/ m.v <= snap \/ m = me
  BY <1>1, MarkerFacts
<1>5. /\ Settled(dest', mem)
      /\ \A t \in loaded, k \in Keys :
           dest'[t][k] = IF it.trunc /\ t = u THEN [ts |-> it.v, live |-> FALSE] ELSE dest[t][k]
  BY <1>1, TruncateSettled
<1>6. /\ Running /\ WatermarkOk(mem) /\ CursorsOk(mem) /\ PassedOk(mem) /\ mem \in State
      /\ RowsSettled(dest', mem) /\ TruncatesSettled(dest', mem)
      /\ loaded \subseteq Tables /\ catalog \subseteq Tables
      /\ \A b \in work : b.t \in Tables /\ b.v \in Nat
  BY <1>1, <1>5, CatalogsAssumption, SinkAssumption
     DEF Progress, RunOk, StateOk, Settled, Inv, TypeOk, Item, Versions
<1>7. /\ mem'.cursors = mem.cursors /\ mem'.tableTs = mem.tableTs
      /\ mem'.wm[u] = it.v /\ \A t \in Tables \ {u} : mem'.wm[t] = mem.wm[t]
  <2>1. mem.wm \in [Tables -> 0 .. MaxTs] /\ mem.wm[u] \in Nat
    BY <1>3, <1>6, StateFacts DEF State
  <2>2. Max2(mem.wm[u], it.v) = it.v
    BY <1>3, <2>1 DEF Max2
  <2>3. mem' = [mem EXCEPT !.wm = [mem.wm EXCEPT ![u] = it.v]]
    BY <1>1, <2>2 DEF SetWatermark
  <2>4. mem'.wm = [mem.wm EXCEPT ![u] = it.v] /\ mem'.cursors = mem.cursors /\ mem'.tableTs = mem.tableTs
    BY <1>6, <2>3 DEF State
  <2>5. QED
    BY <1>3, <2>1, <2>4
<1>8. \A t \in Tables : mem.wm[t] \in Nat /\ mem.wm[t] <= mem'.wm[t] /\ mem'.wm[t] \in Nat
  <2>1. \A t \in Tables : mem.wm[t] \in Nat
    BY <1>6, StateFacts
  <2>2. QED
    BY <1>3, <1>7, <2>1
<1>9. /\ \A t \in Tables : /\ EffectiveWatermark(t) \in Nat /\ EffectiveWatermark(t)' \in Nat
                           /\ EffectiveWatermark(t) <= EffectiveWatermark(t)'
      /\ it.v <= EffectiveWatermark(u)'
  <2>1. \A t \in Tables : /\ EffectiveWatermark(t) \in Nat /\ EffectiveWatermark(t)' \in Nat
                          /\ EffectiveWatermark(t) <= EffectiveWatermark(t)'
    BY <1>1, <1>2, <1>8, EffectiveGrows
  <2>2. EffectiveWatermark(u)' = Max2(it.v, Baseline(u))
    BY <1>1, <1>7, SameVersions
  <2>3. Baseline(u) \in Nat
    BY <1>3, BaselineFacts
  <2>4. QED
    BY <1>3, <2>1, <2>2, <2>3 DEF Max2
<1>10. \A x : PassedAt(mem', x) <=> PassedAt(mem, x)
  BY <1>7 DEF PassedAt
<1>11. \A s, d, f : Pending(s, d, f)' <=> Pending(s, d, f)
  BY <1>1 DEF Pending, StreamOf
<1>12. ASSUME NEW b \in work', b.kind = "dml", b.v >= EffectiveWatermark(b.t)'
       PROVE  RangeOk(b)'
  <2>1. b \in work /\ b.v >= EffectiveWatermark(b.t)
    BY <1>1, <1>6, <1>9, <1>12
  <2>2. RangeOk(b)
    BY <1>6, <1>12, <2>1 DEF Running, WorkOk
  <2>3. QED
    BY <1>7, <1>11, <2>2 DEF RangeOk, StreamOf
<1>13. Ahead(mem', saved')
  <2>1. \A t \in catalog : mem'.tableTs[t] <= mem'.tableTs[t]
    BY <1>6, <1>7, StateFacts
  <2>2. QED
    BY <1>1, <2>1 DEF Ahead, Behind
<1>14. DestBounded'
  <2>1. ASSUME NEW t \in loaded, NEW k \in Keys PROVE dest'[t][k].ts <= Max2(ckpt, snap)
    <3>1. dest[t][k].ts <= Max2(ckpt, snap)
      BY <1>6 DEF Running, DestBounded
    <3>2. it.v <= Max2(ckpt, snap)
      BY <1>3, BoundsType DEF Max2
    <3>3. QED
      BY <1>5, <3>1, <3>2
  <2>2. QED
    BY <1>1, <2>1 DEF DestBounded, base, Max2
<1>15. StateOk(mem')
  <2>1. WatermarkOk(mem')
    <3>1. it.v <= meta /\ me.v = it.v
      BY <1>3, BoundsType DEF Inv
    <3>2. QED
      BY <1>3, <1>6, <1>7, <3>1 DEF WatermarkOk
  <2>2. CursorsOk(mem')
    BY <1>6, <1>7 DEF CursorsOk
  <2>3. PassedOk(mem')
    <3>1. ASSUME NEW x \in Positions, Since(x), PassedAt(mem', x)
          PROVE  /\ RowAt(x).ts <= mem'.tableTs[x[1][1]]
                 /\ x[1][2] <= mem'.wm[x[1][1]] \/ x[1][2] <= snap
      <4>1. /\ RowAt(x).ts <= mem.tableTs[x[1][1]]
            /\ x[1][2] <= mem.wm[x[1][1]] \/ x[1][2] <= snap
        BY <1>6, <1>10, <3>1 DEF PassedOk
      <4>2. x[1][1] \in Tables /\ x[1][2] \in Nat
        BY PositionFacts
      <4>3. QED
        BY <1>7, <1>8, <4>1, <4>2
    <3>2. QED
      BY <3>1 DEF PassedOk
  <2>4. QED
    BY <2>1, <2>2, <2>3 DEF StateOk
<1>16. RowsSettled(dest', mem')
  <2>1. ASSUME NEW x \in Positions, x[1][1] \in loaded, Since(x), Behind(mem', x)
        PROVE  Behind(mem, x)
    <3>1. CASE PassedAt(mem', x)
      BY <1>10, <3>1 DEF Behind
    <3>2. CASE x[1][2] < mem'.wm[x[1][1]]
      <4>1. CASE x[1][1] = u
        BY <1>4, <1>7, <2>1, <3>2, <4>1
      <4>2. CASE x[1][1] # u
        BY <1>6, <1>7, <2>1, <3>2, <4>2 DEF Behind
      <4>3. QED
        BY <4>1, <4>2
    <3>3. QED
      BY <2>1, <3>1, <3>2 DEF Behind
  <2>2. QED
    BY <1>6, <2>1 DEF RowsSettled
<1>17. TruncatesSettled(dest', mem')
  <2>1. ASSUME NEW t \in loaded, NEW m \in schemas[t], m.trunc, m.v <= mem'.wm[t], NEW k \in Keys
        PROVE  dest'[t][k].ts >= m.v
    <3>1. m.v \in Nat /\ t \in Tables
      BY <1>6, SchemaFacts
    <3>2. CASE m.v <= mem.wm[t]
      BY <1>6, <2>1, <3>2 DEF TruncatesSettled
    <3>3. CASE ~(m.v <= mem.wm[t])
      <4>1. t = u
        BY <1>7, <2>1, <3>1, <3>3
      <4>2. m.v <= snap \/ m = me
        BY <1>4, <1>7, <2>1, <3>3, <4>1
      <4>3. CASE m.v <= snap
        <5>1. dest[t][k].ts >= m.v
          BY <2>1, <4>3, CoveredTruncate
        <5>2. it.v >= m.v
          BY <1>3, <3>1, <4>3, BoundsType
        <5>3. QED
          BY <1>5, <5>1, <5>2
      <4>4. CASE m = me
        BY <1>3, <1>5, <2>1, <4>1, <4>4
      <4>5. QED
        BY <4>2, <4>3, <4>4
    <3>4. QED
      BY <3>2, <3>3
  <2>2. QED
    BY <2>1 DEF TruncatesSettled
<1>18. /\ StateOk(saved') /\ Settled(dest', mem') /\ Settled(dest', saved')
  BY <1>1, <1>15, <1>16, <1>17 DEF Settled
<1>19. \A b \in work : b \in work' \/ b.kind = "dml" \/ b.v <= EffectiveWatermark(b.t)'
  BY <1>1, <1>9
<1>20. work' \subseteq work /\ ReadingOk'
  BY <1>1 DEF ReadingOk
<1>21. QED
  BY <1>1, <1>2, <1>8, <1>10, <1>11, <1>12, <1>13, <1>14, <1>15, <1>18, <1>19, <1>20, LoopProgress

(* A run that dies after a truncate leaves the states as they were.        *)
LEMMA CrashAfterTruncateProgress ==
  ASSUME Inv, Progress, NEW it \in work, CrashAfterTruncate(it)
  PROVE  Progress'
<1>1. /\ pc = "work" /\ IsNext(it) /\ it.kind = "schema" /\ it.v > EffectiveWatermark(it.t)
      /\ it.trunc /\ dest' = Truncated(it.t, it.v)
      /\ EndRun(saved) /\ UNCHANGED <<sinkVars, base>>
  BY DEF CrashAfterTruncate
<1>2. Settled(dest', saved)
  BY <1>1, TruncateSettled
<1>3. StateOk(saved)
  BY DEF Progress
<1>4. QED
  BY <1>1, <1>2, <1>3, EndRunProgress

-----------------------------------------------------------------------------
(* The cursor of one stream moves.                                         *)
LEMMA CursorFacts ==
  ASSUME NEW st \in State, NEW s \in Streams, NEW c \in Cursor
  PROVE  LET n == SetCursor(st, s, c)
         IN /\ n \in State /\ n.wm = st.wm /\ n.tableTs = st.tableTs /\ n.seen = st.seen
            /\ n.cursors[s] = c /\ \A r \in Streams \ {s} : n.cursors[r] = st.cursors[r]
<1>1. st.cursors \in [Streams -> Cursor]
  BY DEF State
<1>2. SetCursor(st, s, c) = [st EXCEPT !.cursors = [st.cursors EXCEPT ![s] = c]]
  BY DEF SetCursor
<1>3. LET n == SetCursor(st, s, c)
      IN /\ n.wm = st.wm /\ n.tableTs = st.tableTs /\ n.seen = st.seen
         /\ n.cursors = [st.cursors EXCEPT ![s] = c]
  BY <1>2 DEF State
<1>4. QED
  BY <1>1, <1>3, SetCursorType

(* It moves past no row the state has not read, but rows of the snapshot.  *)
LEMMA CursorMoves ==
  ASSUME Inv, NEW st \in State, StateOk(st), NEW s \in Streams, s[1] \in loaded, NEW c \in Cursor,
         CursorOk(s, c),
         \A x \in Positions : x[1] = s /\ Since(x) /\ Passed(c, x[2], x[3], x[4]) => PassedAt(st, x)
  PROVE  /\ StateOk(SetCursor(st, s, c))
         /\ \A D : Settled(D, st) => Settled(D, SetCursor(st, s, c))
<1> DEFINE n == SetCursor(st, s, c)
<1>1. /\ n \in State /\ n.wm = st.wm /\ n.tableTs = st.tableTs
      /\ n.cursors[s] = c /\ \A r \in Streams \ {s} : n.cursors[r] = st.cursors[r]
  BY CursorFacts
<1> HIDE DEF n
<1>2. ASSUME NEW x \in Positions, Since(x), PassedAt(n, x) PROVE PassedAt(st, x)
  <2>1. x[1] \in Streams
    BY PositionFacts
  <2>2. CASE x[1] = s
    BY <1>1, <1>2, <2>2 DEF PassedAt
  <2>3. CASE x[1] # s
    BY <1>1, <1>2, <2>1, <2>3 DEF PassedAt
  <2>4. QED
    BY <2>2, <2>3
<1>3. WatermarkOk(n)
  BY <1>1 DEF StateOk, WatermarkOk
<1>4. CursorsOk(n)
  <2>1. ASSUME NEW r \in Streams
        PROVE  CursorOk(r, n.cursors[r]) /\ (r[1] \notin loaded => n.cursors[r] = NoCursor)
    <3>1. CASE r = s
      BY <1>1, <3>1
    <3>2. CASE r # s
      BY <1>1, <3>2 DEF StateOk, CursorsOk
    <3>3. QED
      BY <3>1, <3>2
  <2>2. QED
    BY <2>1 DEF CursorsOk
<1>5. PassedOk(n)
  BY <1>1, <1>2 DEF StateOk, PassedOk
<1>6. ASSUME NEW D, Settled(D, st) PROVE Settled(D, n)
  BY <1>1, <1>2, <1>6 DEF Settled, RowsSettled, TruncatesSettled, Behind
<1>7. QED
  BY <1>3, <1>4, <1>5, <1>6 DEF StateOk, n

(* What a step that moves the cursor of stream s has to keep.              *)
LEMMA CursorLoop ==
  ASSUME Inv, Inv', Progress, pc \in {"work", "read"}, pc' \in {"work", "read"},
         UNCHANGED <<sinkVars, base, ckpt, toScan>>,
         work' \subseteq work, NEW s \in Streams, pc = "read" => stream = s,
         mem'.wm = mem.wm, \A r \in Streams \ {s} : mem'.cursors[r] = mem.cursors[r],
         \A it \in work : it \in work' \/ (it.kind = "dml" /\ StreamOf(it) = s),
         \A x \in Positions : x[1] = s /\ PassedAt(mem, x) => PassedAt(mem', x),
         \A x \in Positions : x[1] = s /\ Pending(s, x[2], x[3]) =>
           Pending(s, x[2], x[3])' \/ PassedAt(mem', x),
         \A it \in work' : it.kind = "dml" /\ StreamOf(it) = s /\ it.v >= EffectiveWatermark(it.t)
           => RangeOk(it)',
         ReadingOk', Ahead(mem', saved'), DestBounded',
         StateOk(mem'), StateOk(saved'), Settled(dest', mem'), Settled(dest', saved')
  PROVE  Progress'
<1>1. Running /\ \A b \in work : b.t \in Tables /\ (b.kind = "dml" => StreamOf(b) \in Streams)
  BY DEF Progress, RunOk, Inv, TypeOk, Item, ItemOk
<1>2. \A t \in Tables : mem.wm[t] <= mem'.wm[t] /\ EffectiveWatermark(t)' = EffectiveWatermark(t)
  <2>1. \A t \in Tables : mem.wm[t] \in Nat
    BY EffectiveFacts
  <2>2. \A t \in Tables : mem.wm[t] <= mem'.wm[t]
    BY <2>1
  <2>3. QED
    BY <2>2, EffectiveGrows
<1>3. \A r \in Streams \ {s} : \A d, f : Pending(r, d, f) => Pending(r, d, f)'
  <2>1. ASSUME NEW r \in Streams \ {s}, NEW d, NEW f, Pending(r, d, f)
        PROVE  Pending(r, d, f)'
    <3>1. PICK b \in work : b.kind = "dml" /\ StreamOf(b) = r /\ b.d = d /\ f <= b.latest
      BY <2>1 DEF Pending
    <3>2. b \in work'
      BY <3>1
    <3>3. QED
      BY <3>1, <3>2 DEF Pending, StreamOf
  <2>2. QED
    BY <2>1
<1>4. \A x \in Positions : PassedAt(mem, x) => PassedAt(mem', x)
  <2>1. \A x \in Positions : x[1] \in Streams
    BY PositionFacts
  <2>2. QED
    BY <2>1 DEF PassedAt
<1>5. \A x \in Positions : Pending(x[1], x[2], x[3]) => Pending(x[1], x[2], x[3])' \/ PassedAt(mem', x)
  <2>1. \A x \in Positions : x[1] \in Streams
    BY PositionFacts
  <2>2. ASSUME NEW x \in Positions, Pending(x[1], x[2], x[3])
        PROVE  Pending(x[1], x[2], x[3])' \/ PassedAt(mem', x)
    <3>1. CASE x[1] = s
      <4>1. Pending(s, x[2], x[3])
        BY <2>2, <3>1
      <4>2. CASE PassedAt(mem', x)
        BY <4>2
      <4>3. CASE Pending(s, x[2], x[3])'
        BY <3>1, <4>3 DEF Pending
      <4>4. QED
        BY <3>1, <4>1, <4>2, <4>3
    <3>2. CASE x[1] # s
      BY <1>3, <2>1, <2>2, <3>2
    <3>3. QED
      BY <3>1, <3>2
  <2>3. QED
    BY <2>2
<1>6. ASSUME NEW b \in work', b.kind = "dml", b.v >= EffectiveWatermark(b.t)'
      PROVE  RangeOk(b)'
  <2>1. b \in work /\ b.v >= EffectiveWatermark(b.t) /\ StreamOf(b) \in Streams
    BY <1>1, <1>2, <1>6
  <2>2. CASE StreamOf(b) = s
    BY <1>6, <2>1, <2>2
  <2>3. CASE StreamOf(b) # s
    <3>1. RangeOk(b)
      BY <1>1, <1>6, <2>1 DEF Running, WorkOk
    <3>2. /\ StreamOf(b)' = StreamOf(b)
          /\ mem'.cursors[StreamOf(b)] = mem.cursors[StreamOf(b)]
          /\ \A d, f : Pending(StreamOf(b), d, f) => Pending(StreamOf(b), d, f)'
      BY <1>3, <2>1, <2>3 DEF StreamOf
    <3>3. QED
      BY <3>1, <3>2 DEF RangeOk
  <2>4. QED
    BY <2>2, <2>3
<1>7. \A b \in work : b \in work' \/ b.kind = "dml" \/ b.v <= EffectiveWatermark(b.t)'
  OBVIOUS
<1>8. QED
  BY <1>2, <1>4, <1>5, <1>6, <1>7, LoopProgress

(* Looking at an index only notes the number it names.                     *)
LEMMA LookedFacts ==
  ASSUME Inv, NEW it \in work, it.kind = "dml"
  PROVE  LET c == mem.cursors[StreamOf(it)]
             l == Looked(it)
         IN /\ StreamOf(it) \in Streams /\ StreamOf(it)[1] = it.t /\ it.d \in Dates
            /\ it.t \in Tables /\ it.v \in Versions /\ StreamOf(it)[2] = it.v
            /\ it.latest \in Nat /\ it.latest <= Len(files[StreamOf(it)][it.d]) /\ it.v <= ckpt
            /\ c \in Cursor /\ l \in Cursor
            /\ l.lastDate = c.lastDate /\ l.lastFile = c.lastFile /\ l.curDate = c.curDate
            /\ l.curFile = c.curFile /\ l.row = c.row
<1>1. it \in Item /\ ItemOk(it)
  BY DEF Inv, TypeOk
<1>2. /\ StreamOf(it) \in Streams /\ it.d \in Dates /\ it.latest \in Nat /\ it.v <= ckpt
      /\ it.latest <= Len(files[StreamOf(it)][it.d])
  BY <1>1 DEF ItemOk, Item
<1>3. mem.cursors[StreamOf(it)] \in Cursor /\ Looked(it) \in Cursor
  BY <1>1, RangeFacts
<1>4. it.t \in Tables /\ it.v \in Versions
  BY <1>1 DEF Item
<1>5. QED
  BY <1>2, <1>3, <1>4 DEF Looked, StreamOf, Cursor

(* Where a range that is next begins: where its cursor stands, or after    *)
(* the last file that was read, with every date before it read.            *)
LEMMA RangeStart ==
  ASSUME Inv, Progress, pc = "work", NEW it \in work, IsNext(it), it.kind = "dml",
         it.v >= EffectiveWatermark(it.t)
  PROVE  LET s == StreamOf(it)
             c == mem.cursors[s]
             f == StartFile(Looked(it), it.d)
         IN /\ it.t \in catalog /\ it.t \in loaded /\ it.v = EffectiveWatermark(it.t)
            /\ it.latest > 0 /\ c.lastDate <= it.d /\ f \in Nat
            /\ c.row > 0 => c.curDate = it.d /\ f = c.curFile /\ f <= it.latest
            /\ c.row = 0 => f = IF c.lastDate = it.d THEN c.lastFile + 1 ELSE 1
            /\ f <= it.latest => Reach(s, c, it.d, f)
<1> DEFINE s == StreamOf(it)
           c == mem.cursors[s]
           f == StartFile(Looked(it), it.d)
<1>1. /\ Running /\ SinkOrder /\ StateOk(mem) /\ toScan = {} /\ catalog \subseteq loaded
      /\ MarkersDue /\ RowsDue /\ WorkOk
  BY DEF Progress, RunOk, Running
<1>2. /\ s \in Streams /\ s[1] = it.t /\ it.d \in Dates /\ it.t \in Tables /\ it.v \in Nat
      /\ s[2] = it.v /\ it.latest \in Nat /\ it.latest <= Len(files[s][it.d]) /\ it.v <= ckpt
      /\ c \in Cursor
  BY LookedFacts, SinkAssumption DEF Versions
<1>3. f = IF c.row > 0 /\ c.curFile > 0 THEN c.curFile
          ELSE IF c.lastDate = it.d THEN c.lastFile + 1 ELSE 1
  BY LookedFacts DEF StartFile
<1>4. /\ c.lastDate \in Nat /\ c.lastFile \in Nat /\ c.curDate \in Nat /\ c.curFile \in Nat
      /\ c.row \in Nat /\ it.d \in Nat /\ Dates \subseteq Nat
      /\ \A e \in Dates : Len(files[s][e]) \in Nat
  <2>1. mem \in State
    BY DEF Inv, TypeOk
  <2>2. /\ c.lastDate \in Nat /\ c.lastFile \in Nat /\ c.curDate \in Nat /\ c.curFile \in Nat
        /\ c.row \in Nat
    BY <1>2, <2>1, StateFacts
  <2>3. Dates \subseteq Nat /\ \A e \in Dates : Len(files[s][e]) \in Nat
    BY <1>2, FilesType
  <2>4. QED
    BY <1>2, <2>2, <2>3
<1>5. it.t \in catalog /\ it.t \in loaded
  BY <1>1 DEF WorkOk
<1>6. it.latest > 0 /\ RangeOk(it)
  BY <1>1 DEF WorkOk
<1>7. CursorOk(s, c)
  BY <1>1, <1>2 DEF StateOk, CursorsOk
<1>8. \A g : \A d \in Nat : d < it.d => ~Pending(s, d, g)
  BY <1>1, NothingBefore
<1>9. it.v = EffectiveWatermark(it.t)
  <2>1. PICK m \in schemas[it.t] : m.v = it.v
    <3>1. 1 \in 1 .. Len(files[s][it.d])
      BY <1>2, <1>4, <1>6
    <3>2. Len(files[s][it.d][1]) > 0 /\ Len(files[s][it.d][1]) \in Nat
      BY <1>1, <1>2, <3>1, FilesType DEF SinkOrder
    <3>3. 1 \in 1 .. Len(files[s][it.d][1])
      BY <3>2
    <3>4. /\ <<s, it.d, 1, 1>> \in Positions /\ <<s, it.d, 1, 1>>[1] = s
      BY <1>2, <3>1, <3>3, PositionIn
    <3>5. \E m \in schemas[s[1]] : m.v = s[2]
      BY <1>1, <3>4, RowVersion
    <3>6. QED
      BY <1>2, <3>5
  <2>2. m \in VisibleSchemas(it.t)
    BY <1>2, <2>1 DEF VisibleSchemas
  <2>3. Marker(it.t, m) \notin work
    <3> DEFINE k == Marker(it.t, m)
    <3> SUFFICES ASSUME k \in work PROVE FALSE
      OBVIOUS
    <3>1. k.v = it.v /\ k.t = it.t /\ k.p = 0 /\ k.d = 0 /\ k.kind = "schema"
      BY <2>1 DEF Marker
    <3>2. ~Precedes(k, it)
      BY DEF IsNext
    <3>3. it.p \in Nat
      BY DEF Inv, TypeOk, Item
    <3>4. QED
      BY <1>4, <3>1, <3>2, <3>3 DEF Precedes
  <2>4. m.v <= EffectiveWatermark(it.t)
    BY <1>1, <1>5, <2>2, <2>3 DEF MarkersDue
  <2>5. EffectiveWatermark(it.t) \in Nat
    BY <1>2, EffectiveFacts
  <2>6. QED
    BY <1>2, <2>1, <2>4, <2>5
<1>10. c.lastDate <= it.d
  BY <1>6 DEF RangeOk
<1>11. ASSUME c.row > 0 PROVE c.curDate = it.d /\ f = c.curFile /\ f <= it.latest /\ c.curFile > 0
  <2>1. /\ c.curDate <= it.d
        /\ c.curDate = it.d => c.curFile <= it.latest
        /\ c.curDate < it.d => Pending(s, c.curDate, c.curFile)
    BY <1>6, <1>11 DEF RangeOk
  <2>2. c.curDate = it.d
    BY <1>4, <1>8, <2>1
  <2>3. c.curFile > 0
    <3>1. Reach(s, c, c.curDate, c.curFile)
      BY <1>7, <1>11 DEF CursorOk
    <3>2. QED
      BY <1>4, <3>1 DEF Reach
  <2>4. QED
    BY <1>3, <1>11, <2>1, <2>2, <2>3
<1>12. c.row = 0 => f = IF c.lastDate = it.d THEN c.lastFile + 1 ELSE 1
  BY <1>3
<1>13. f \in Nat
  BY <1>3, <1>4
<1> HIDE DEF f
<1>14. ASSUME f <= it.latest PROVE Reach(s, c, it.d, f)
  <2>1. CASE c.row > 0
    BY <1>7, <1>11, <2>1 DEF CursorOk
  <2>2. CASE c.row = 0
    <3>1. f \in 1 .. Len(files[s][it.d])
      BY <1>2, <1>4, <1>12, <1>13, <1>14, <2>2
    <3>2. ASSUME NEW e \in Dates, c.lastDate <= e, e < it.d
          PROVE  Len(files[s][e]) <= IF e = c.lastDate THEN c.lastFile ELSE 0
      <4> DEFINE g == IF e = c.lastDate THEN c.lastFile + 1 ELSE 1
                 x == <<s, e, g, 1>>
      <4> SUFFICES ASSUME ~(Len(files[s][e]) <= IF e = c.lastDate THEN c.lastFile ELSE 0)
                   PROVE  FALSE
        OBVIOUS
      <4>1. g \in 1 .. Len(files[s][e]) /\ g \in Nat
        BY <1>4
      <4> HIDE DEF g
      <4>2. Len(files[s][e][g]) > 0 /\ Len(files[s][e][g]) \in Nat
        BY <1>1, <1>2, <4>1, FilesType DEF SinkOrder
      <4>3. 1 \in 1 .. Len(files[s][e][g])
        BY <4>2
      <4>4. x \in Positions /\ x[1] = s /\ x[2] = e /\ x[3] = g /\ x[4] = 1
        BY <1>2, <4>1, <4>3, PositionIn
      <4> HIDE DEF x
      <4>5. DueAt(x)
        BY <3>2, <4>4 DEF DueAt
      <4>6. ~(x[1][2] < EffectiveWatermark(x[1][1]))
        BY <1>2, <1>9, <4>4
      <4>7. ~Pending(x[1], x[2], x[3])
        BY <1>4, <1>8, <3>2, <4>4
      <4>8. PassedAt(mem, x)
        BY <1>1, <1>2, <1>5, <4>4, <4>5, <4>6, <4>7 DEF RowsDue
      <4>9. Passed(c, e, g, 1)
        BY <4>4, <4>8 DEF PassedAt
      <4>10. e \in Nat
        BY <1>4
      <4>11. QED
        BY <1>4, <2>2, <3>2, <4>1, <4>9, <4>10 DEF Passed, g
    <3>3. f = IF it.d = c.lastDate THEN c.lastFile + 1 ELSE 1
      BY <1>12, <2>2
    <3>4. QED
      BY <1>2, <1>10, <3>1, <3>2, <3>3 DEF Reach
  <2>3. QED
    BY <1>4, <2>1, <2>2
<1>15. QED
  BY <1>5, <1>6, <1>9, <1>10, <1>11, <1>12, <1>13, <1>14 DEF f

(* A step that changes neither what is saved nor the destination, and by   *)
(* which the run loses nothing it has behind it.                           *)
LEMMA StillAhead ==
  ASSUME Progress, pc # "idle", saved' = saved, mem'.wm = mem.wm, mem'.tableTs = mem.tableTs,
         \A x \in Positions : PassedAt(mem, x) => PassedAt(mem', x)
  PROVE  Ahead(mem', saved')
<1>1. Ahead(mem, saved)
  BY DEF Progress, RunOk, Running
<1>2. QED
  BY <1>1 DEF Ahead, Behind

(* A range with nothing left to read: its files are those the cursor has   *)
(* finished.                                                               *)
LEMMA SkipReadRangeProgress ==
  ASSUME Inv, Progress, NEW it \in work, SkipReadRange(it)
  PROVE  Progress'
<1> DEFINE s == StreamOf(it)
           c == mem.cursors[s]
           l == Looked(it)
           f == StartFile(Looked(it), it.d)
<1>1. /\ pc = "work" /\ pc' = "work" /\ IsNext(it) /\ it.kind = "dml"
      /\ it.v >= EffectiveWatermark(it.t) /\ f > it.latest
      /\ mem' = SetCursor(mem, s, l) /\ work' = work \ {it}
      /\ UNCHANGED <<sinkVars, base, dest, saved, ckpt, toScan>>
  BY DEF SkipReadRange
<1>2. Inv'
  BY SkipReadRangeInv
<1>3. /\ s \in Streams /\ s[1] = it.t /\ it.latest \in Nat /\ c \in Cursor /\ l \in Cursor
      /\ l.lastDate = c.lastDate /\ l.lastFile = c.lastFile /\ l.curDate = c.curDate
      /\ l.curFile = c.curFile /\ l.row = c.row
  BY <1>1, LookedFacts
<1>4. /\ it.t \in loaded /\ it.latest > 0 /\ c.lastDate <= it.d /\ f \in Nat
      /\ c.row > 0 => f <= it.latest
      /\ c.row = 0 => f = IF c.lastDate = it.d THEN c.lastFile + 1 ELSE 1
  BY <1>1, RangeStart
<1>5. Running /\ StateOk(mem) /\ StateOk(saved) /\ Settled(dest, mem) /\ Settled(dest, saved)
      /\ mem \in State
  BY <1>1 DEF Progress, RunOk, Inv, TypeOk
<1>6. c.lastFile \in Nat /\ c.lastDate \in Nat /\ c.row \in Nat
  BY <1>3, SinkAssumption DEF Cursor
<1> HIDE DEF f
<1>7. c.row = 0 /\ c.lastDate = it.d /\ it.latest <= c.lastFile
  <2>1. c.row = 0
    BY <1>1, <1>3, <1>4, <1>6
  <2>2. c.lastDate = it.d
    BY <1>1, <1>3, <1>4, <2>1
  <2>3. QED
    BY <1>1, <1>3, <1>4, <1>6, <2>1, <2>2
<1>8. /\ mem'.cursors[s] = l /\ \A r \in Streams \ {s} : mem'.cursors[r] = mem.cursors[r]
      /\ mem'.wm = mem.wm /\ mem'.tableTs = mem.tableTs
  BY <1>1, <1>3, <1>5, CursorFacts
<1> HIDE DEF l
<1>9. \A d, g, j : Passed(l, d, g, j) <=> Passed(c, d, g, j)
  BY <1>3 DEF Passed
<1>10. \A x \in Positions : x[1] \in Streams
  BY PositionFacts
<1>11. \A x \in Positions : PassedAt(mem, x) => PassedAt(mem', x)
  BY <1>8, <1>9, <1>10 DEF PassedAt
<1>12. CursorOk(s, l)
  <2>1. CursorOk(s, c)
    BY <1>3, <1>5 DEF StateOk, CursorsOk
  <2>2. QED
    BY <1>3, <2>1 DEF CursorOk, Reach
<1>13. StateOk(mem') /\ Settled(dest, mem')
  <2>1. \A x \in Positions : x[1] = s /\ Since(x) /\ Passed(l, x[2], x[3], x[4]) => PassedAt(mem, x)
    BY <1>9 DEF PassedAt
  <2>2. QED
    BY <1>1, <1>3, <1>4, <1>5, <1>12, <2>1, CursorMoves
<1>14. ASSUME NEW x \in Positions, x[1] = s, Pending(s, x[2], x[3])
       PROVE  Pending(s, x[2], x[3])' \/ PassedAt(mem', x)
  <2>1. PICK b \in work : b.kind = "dml" /\ StreamOf(b) = s /\ b.d = x[2] /\ x[3] <= b.latest
    BY <1>1, <1>14 DEF Pending
  <2>2. CASE b = it
    <3>1. x[3] \in Nat
      BY PositionFacts
    <3>2. Passed(c, x[2], x[3], x[4])
      BY <1>3, <1>6, <1>7, <2>1, <2>2, <3>1 DEF Passed
    <3>3. QED
      BY <1>11, <1>14, <3>2 DEF PassedAt
  <2>3. CASE b # it
    BY <1>1, <2>1, <2>3 DEF Pending, StreamOf
  <2>4. QED
    BY <2>2, <2>3
<1>15. ASSUME NEW b \in work', b.kind = "dml", StreamOf(b) = s, b.v >= EffectiveWatermark(b.t)
       PROVE  RangeOk(b)'
  <2>1. b \in work /\ RangeOk(b)
    BY <1>1, <1>5, <1>15 DEF Running, WorkOk
  <2>2. StreamOf(b)' = s /\ mem'.cursors[s] = l /\ ~(l.row > 0) /\ l.lastDate = c.lastDate
    BY <1>3, <1>7, <1>8, <1>15 DEF StreamOf
  <2>3. QED
    BY <1>15, <2>1, <2>2 DEF RangeOk
<1>16. ReadingOk' /\ work' \subseteq work /\ DestBounded'
  BY <1>1, <1>5 DEF ReadingOk, Running, DestBounded, base
<1>17. Ahead(mem', saved')
  BY <1>1, <1>8, <1>11, StillAhead
<1>18. StateOk(saved') /\ Settled(dest', mem') /\ Settled(dest', saved')
  BY <1>1, <1>5, <1>13
<1>19. \A b \in work : b \in work' \/ (b.kind = "dml" /\ StreamOf(b) = s)
  BY <1>1
<1>20. QED
  BY <1>1, <1>2, <1>3, <1>8, <1>11, <1>13, <1>14, <1>15, <1>16, <1>17, <1>18, <1>19, CursorLoop

(* A range is opened where its cursor stands.                              *)
LEMMA OpenRangeProgress ==
  ASSUME Inv, Progress, NEW it \in work, OpenRange(it)
  PROVE  Progress'
<1> DEFINE s == StreamOf(it)
           c == mem.cursors[s]
           l == Looked(it)
           f == StartFile(Looked(it), it.d)
           o == Opened(l, it.d, f)
<1>1. /\ pc = "work" /\ pc' = "read" /\ IsNext(it) /\ it.kind = "dml"
      /\ it.v >= EffectiveWatermark(it.t) /\ f <= it.latest
      /\ at' = [file |-> f, row |-> StartRow(l, f)] /\ item' = it
      /\ mem' = SetCursor(mem, s, o) /\ work' = work \ {it}
      /\ UNCHANGED <<sinkVars, base, dest, saved, ckpt, toScan>>
  BY DEF OpenRange
<1>2. Inv'
  BY OpenRangeInv
<1>3. /\ s \in Streams /\ s[1] = it.t /\ it.t \in Tables /\ it.latest \in Nat /\ it.d \in Dates
      /\ c \in Cursor /\ l \in Cursor
      /\ l.lastDate = c.lastDate /\ l.lastFile = c.lastFile /\ l.curDate = c.curDate
      /\ l.curFile = c.curFile /\ l.row = c.row
  BY <1>1, LookedFacts
<1>4. /\ it.t \in catalog /\ it.t \in loaded /\ it.v = EffectiveWatermark(it.t)
      /\ c.lastDate <= it.d /\ f \in Nat
      /\ c.row > 0 => c.curDate = it.d /\ f = c.curFile
      /\ Reach(s, c, it.d, f)
  BY <1>1, RangeStart
<1>5. Running /\ StateOk(mem) /\ StateOk(saved) /\ Settled(dest, mem) /\ Settled(dest, saved)
      /\ mem \in State
  BY <1>1 DEF Progress, RunOk, Inv, TypeOk
<1>6. c.row \in Nat /\ it.d \in 0 .. MaxDate /\ it.d \in Nat
  <2>1. c.row \in Nat
    BY <1>3 DEF Cursor
  <2>2. it.d \in 0 .. MaxDate /\ it.d \in Nat
    BY <1>3, DatesType, FilesType
  <2>3. QED
    BY <2>1, <2>2
<1>7. StartRow(l, f) = c.row
  BY <1>3, <1>4, <1>6 DEF StartRow
<1> HIDE DEF f
<1>8. /\ o \in Cursor /\ o.lastDate = c.lastDate /\ o.lastFile = c.lastFile
      /\ o.curDate = it.d /\ o.curFile = f /\ o.row = c.row
  <2>1. o \in Cursor
    BY <1>3, <1>4, <1>6, OpenedType
  <2> HIDE DEF l
  <2>2. QED
    BY <1>3, <2>1 DEF Opened, Cursor
<1> HIDE DEF o
<1>9. /\ mem'.cursors[s] = o /\ \A r \in Streams \ {s} : mem'.cursors[r] = mem.cursors[r]
      /\ mem'.wm = mem.wm /\ mem'.tableTs = mem.tableTs
  BY <1>1, <1>3, <1>5, <1>8, CursorFacts
<1>10. \A d, g, j : Passed(o, d, g, j) <=> Passed(c, d, g, j)
  BY <1>4, <1>6, <1>8 DEF Passed
<1>11. \A x \in Positions : x[1] \in Streams
  BY PositionFacts
<1>12. \A x \in Positions : PassedAt(mem, x) => PassedAt(mem', x)
  BY <1>9, <1>10, <1>11 DEF PassedAt
<1>13. Reach(s, o, it.d, f)
  BY <1>4, <1>8 DEF Reach
<1>14. CursorOk(s, c)
  BY <1>3, <1>5 DEF StateOk, CursorsOk
<1>15. c.row <= Len(files[s][it.d][f])
  <2>1. CASE c.row > 0
    BY <1>4, <1>14, <2>1 DEF CursorOk
  <2>2. CASE c.row = 0
    <3>1. f \in 1 .. Len(files[s][it.d])
      BY <1>13 DEF Reach
    <3>2. Len(files[s][it.d][f]) \in Nat
      BY <1>3, <3>1, FilesType
    <3>3. QED
      BY <2>2, <3>2
  <2>3. QED
    BY <1>6, <2>1, <2>2
<1>16. CursorOk(s, o)
  BY <1>8, <1>13, <1>14, <1>15 DEF CursorOk
<1>17. StateOk(mem') /\ Settled(dest, mem')
  <2>1. \A x \in Positions : x[1] = s /\ Since(x) /\ Passed(o, x[2], x[3], x[4]) => PassedAt(mem, x)
    BY <1>10 DEF PassedAt
  <2>2. QED
    BY <1>1, <1>3, <1>4, <1>5, <1>8, <1>16, <2>1, CursorMoves
<1>18. stream' = s
  BY <1>1 DEF stream, StreamOf
<1>19. ASSUME NEW d, NEW g, Pending(s, d, g) PROVE Pending(s, d, g)'
  <2>1. PICK b \in work : b.kind = "dml" /\ StreamOf(b) = s /\ b.d = d /\ g <= b.latest
    BY <1>1, <1>19 DEF Pending
  <2>2. CASE b = it
    BY <1>1, <1>18, <2>1, <2>2 DEF Pending
  <2>3. CASE b # it
    BY <1>1, <2>1, <2>3 DEF Pending, StreamOf
  <2>4. QED
    BY <2>2, <2>3
<1>20. \A b \in work' : b.kind = "dml" /\ StreamOf(b) = s => it.d < b.d /\ b.d \in Nat
  <2>1. \A b \in work : b.d \in Nat
    BY DEF Inv, TypeOk, Item
  <2>2. QED
    BY <1>1, <1>5, <2>1, NextOfStream DEF Running
<1>21. ASSUME NEW b \in work', b.kind = "dml", StreamOf(b) = s, b.v >= EffectiveWatermark(b.t)
       PROVE  RangeOk(b)'
  <2>1. StreamOf(b)' = s /\ mem'.cursors[s] = o
    BY <1>9, <1>21 DEF StreamOf
  <2>2. it.d < b.d /\ b.d \in Nat /\ c.lastDate \in Nat
    BY <1>3, <1>20, <1>21, SinkAssumption DEF Cursor
  <2>3. o.lastDate <= b.d /\ o.curDate <= b.d /\ o.curDate # b.d
    BY <1>4, <1>6, <1>8, <2>2
  <2>4. pc' = "read" /\ stream' = s /\ item'.d = o.curDate /\ o.curFile <= item'.latest
    BY <1>1, <1>8, <1>18
  <2>5. QED
    BY <2>1, <2>3, <2>4 DEF RangeOk, Pending, StreamOf
<1>22. ReadingOk'
  <2>1. cursor' = o
    BY <1>9, <1>18 DEF cursor
  <2>2. at'.file = f /\ at'.row = c.row /\ item' = it
    BY <1>1, <1>7
  <2>3. Rows' = files[s][it.d][f]
    BY <1>1, <1>18, <2>2 DEF Rows, sinkVars
  <2>4. EffectiveWatermark(it.t)' = EffectiveWatermark(it.t)
    <3>1. mem.wm[it.t] <= mem'.wm[it.t] /\ mem'.wm[it.t] = mem.wm[it.t]
      BY <1>3, <1>9, EffectiveFacts
    <3>2. QED
      BY <1>1, <1>2, <1>3, <3>1, EffectiveGrows
  <2>5. files' = files /\ catalog' = catalog
    BY <1>1 DEF sinkVars, base
  <2>6. Reach(stream, cursor, item.d, at.file)'
    BY <1>13, <1>18, <2>1, <2>2, <2>5 DEF Reach
  <2>7. /\ item'.t \in catalog' /\ item'.v = EffectiveWatermark(item.t)'
    BY <1>4, <2>2, <2>4, <2>5
  <2>8. /\ cursor'.curDate = item'.d /\ cursor'.curFile = at'.file /\ cursor'.row = at'.row
        /\ at'.row <= Len(Rows')
    BY <1>8, <1>15, <2>1, <2>2, <2>3
  <2>9. \A b \in work' : b.kind = "dml" /\ StreamOf(b) = stream' => item'.d < b.d
    BY <1>18, <1>20, <2>2
  <2>10. QED
    BY <2>6, <2>7, <2>8, <2>9 DEF ReadingOk, StreamOf
<1>23. work' \subseteq work /\ DestBounded'
  BY <1>1, <1>5 DEF Running, DestBounded, base
<1>24. Ahead(mem', saved')
  BY <1>1, <1>9, <1>12, StillAhead
<1>25. StateOk(saved') /\ Settled(dest', mem') /\ Settled(dest', saved')
  BY <1>1, <1>5, <1>17
<1>26. \A b \in work : b \in work' \/ (b.kind = "dml" /\ StreamOf(b) = s)
  BY <1>1
<1>27. \A x \in Positions : x[1] = s /\ Pending(s, x[2], x[3]) => Pending(s, x[2], x[3])' \/ PassedAt(mem', x)
  BY <1>19
<1>28. QED
  BY <1>1, <1>2, <1>3, <1>9, <1>12, <1>17, <1>21, <1>22, <1>23, <1>24, <1>25, <1>26, <1>27, CursorLoop

-----------------------------------------------------------------------------
(* The stream being read.                                                  *)
LEMMA StreamFacts ==
  ASSUME Inv, Progress, pc = "read"
  PROVE  /\ Running /\ StateOk(mem) /\ StateOk(saved) /\ Settled(dest, mem) /\ Settled(dest, saved)
         /\ stream \in Streams /\ stream[1] = item.t /\ stream[2] = item.v
         /\ item.t \in Tables /\ item.t \in catalog /\ item.t \in loaded
         /\ item.v = EffectiveWatermark(item.t) /\ item.v \in Nat
         /\ item.d \in Dates /\ at.file \in Nat /\ at.row \in Nat /\ item.latest \in Nat
         /\ at.file <= item.latest /\ item.latest <= Len(files[stream][item.d])
         /\ cursor \in Cursor /\ cursor = mem.cursors[stream]
         /\ cursor.curDate = item.d /\ cursor.curFile = at.file /\ cursor.row = at.row
         /\ at.row <= Len(Rows) /\ Len(Rows) \in Nat
         /\ Reach(stream, cursor, item.d, at.file)
         /\ mem \in State /\ saved \in State
<1>1. Running /\ StateOk(mem) /\ StateOk(saved) /\ Settled(dest, mem) /\ Settled(dest, saved)
  BY DEF Progress, RunOk
<1>2. /\ item.t \in catalog /\ item.v = EffectiveWatermark(item.t)
      /\ cursor.curDate = item.d /\ cursor.curFile = at.file /\ cursor.row = at.row
      /\ at.row <= Len(Rows) /\ Reach(stream, cursor, item.d, at.file)
  BY <1>1 DEF Running, ReadingOk
<1>3. item.t \in loaded
  BY <1>1, <1>2 DEF Running
<1>4. stream[2] = item.v /\ item.latest <= Len(files[stream][item.d])
  BY ReadFacts DEF stream, StreamOf, ItemOk
<1>5. item.v \in Nat
  BY ReadFacts, SinkAssumption DEF Item, Versions
<1>6. Len(Rows) \in Nat /\ at.file <= item.latest
  BY ReadFacts
<1>7. QED
  BY <1>1, <1>2, <1>3, <1>4, <1>5, <1>6, ReadFacts DEF cursor

(* The next row has a position, which the run has not passed.              *)
LEMMA EventPosition ==
  ASSUME Inv, Progress, HasRow
  PROVE  LET x == <<stream, item.d, at.file, at.row + 1>>
         IN /\ x \in Positions /\ RowAt(x) = event
            /\ x[1] = stream /\ x[2] = item.d /\ x[3] = at.file /\ x[4] = at.row + 1
            /\ event.ts \in Nat /\ event.key \in Keys
            /\ ~PassedAt(mem, x)
            /\ ~(item.v < mem.wm[item.t])
<1> DEFINE x == <<stream, item.d, at.file, at.row + 1>>
<1>1. pc = "read" /\ at.row < Len(Rows)
  BY DEF HasRow
<1>2. /\ stream \in Streams /\ item.d \in Dates /\ at.row + 1 \in 1 .. Len(Rows)
      /\ at.file \in 1 .. Len(files[stream][item.d])
  <2>1. at.row + 1 \in 1 .. Len(Rows)
    BY <1>1, StreamFacts
  <2>2. QED
    BY <1>1, <2>1, ReadFacts
<1>3. /\ x \in Positions /\ RowAt(x) = event
      /\ x[1] = stream /\ x[2] = item.d /\ x[3] = at.file /\ x[4] = at.row + 1
  BY <1>2, PositionIn DEF Rows, event
<1> HIDE DEF x
<1>4. event.ts \in Nat /\ event.key \in Keys
  BY <1>3, PositionFacts
<1>5. /\ Reach(stream, cursor, item.d, at.file) /\ cursor = mem.cursors[stream]
      /\ cursor \in Cursor /\ cursor.row = at.row /\ at.row \in Nat /\ at.file \in Nat
      /\ item.v = EffectiveWatermark(item.t) /\ item.t \in Tables
  BY <1>1, StreamFacts
<1>6. ~Passed(cursor, item.d, at.file, at.row + 1)
  <2>1. cursor.lastDate <= item.d /\ at.file = IF item.d = cursor.lastDate THEN cursor.lastFile + 1 ELSE 1
    BY <1>5 DEF Reach
  <2>2. cursor.lastFile \in Nat /\ cursor.lastDate \in Nat /\ item.d \in Nat
    <3>1. cursor.lastFile \in Nat /\ cursor.lastDate \in Nat
      BY <1>5, SinkAssumption DEF Cursor
    <3>2. QED
      BY <1>2, <3>1, FilesType
  <2>3. QED
    BY <1>5, <2>1, <2>2 DEF Passed
<1>7. ~PassedAt(mem, x)
  BY <1>3, <1>5, <1>6 DEF PassedAt
<1>8. ~(item.v < mem.wm[item.t])
  BY <1>5, EffectiveFacts
<1>9. QED
  BY <1>3, <1>4, <1>7, <1>8 DEF x

(* The cursor moves past the next row.                                     *)
PastEvent(c) ==
  /\ c \in Cursor /\ c.row = at.row + 1
  /\ c.lastDate = cursor.lastDate /\ c.lastFile = cursor.lastFile
  /\ c.curDate = cursor.curDate /\ c.curFile = cursor.curFile

(* No more than that row: what is passed of the stream was, or is it.      *)
LEMMA PastEventFacts ==
  ASSUME Inv, Progress, HasRow, NEW c, PastEvent(c)
  PROVE  /\ CursorOk(stream, c) /\ Reach(stream, c, item.d, at.file)
         /\ \A x \in Positions : x[1] = stream =>
              /\ PassedAt(mem, x) => Passed(c, x[2], x[3], x[4])
              /\ Passed(c, x[2], x[3], x[4]) =>
                   PassedAt(mem, x) \/ x = <<stream, item.d, at.file, at.row + 1>>
<1>1. pc = "read" /\ at.row < Len(Rows)
  BY DEF HasRow
<1>2. /\ stream \in Streams /\ cursor = mem.cursors[stream] /\ at.row \in Nat /\ Len(Rows) \in Nat
      /\ cursor.curDate = item.d /\ cursor.curFile = at.file /\ cursor.row = at.row
      /\ Reach(stream, cursor, item.d, at.file) /\ StateOk(mem)
  BY <1>1, StreamFacts
<1>3. /\ c.row = at.row + 1 /\ c.lastDate = cursor.lastDate /\ c.lastFile = cursor.lastFile
      /\ c.curDate = item.d /\ c.curFile = at.file
  BY <1>2 DEF PastEvent
<1>4. Reach(stream, c, item.d, at.file)
  BY <1>2, <1>3 DEF Reach
<1>5. CursorOk(stream, c)
  <2>1. CursorOk(stream, cursor)
    BY <1>2 DEF StateOk, CursorsOk
  <2>2. c.row <= Len(files[stream][item.d][at.file])
    BY <1>1, <1>2, <1>3 DEF Rows
  <2>3. QED
    BY <1>3, <1>4, <2>1, <2>2 DEF CursorOk
<1>6. ASSUME NEW x \in Positions, x[1] = stream
      PROVE  /\ PassedAt(mem, x) => Passed(c, x[2], x[3], x[4])
             /\ Passed(c, x[2], x[3], x[4]) =>
                  PassedAt(mem, x) \/ x = <<stream, item.d, at.file, at.row + 1>>
  <2>1. x[4] \in Nat /\ x[4] > 0 /\ x = <<x[1], x[2], x[3], x[4]>>
    BY PositionFacts
  <2>2. PassedAt(mem, x) <=> Passed(cursor, x[2], x[3], x[4])
    BY <1>2, <1>6 DEF PassedAt
  <2>3. Passed(cursor, x[2], x[3], x[4]) => Passed(c, x[2], x[3], x[4])
    BY <1>2, <1>3, <2>1 DEF Passed
  <2>4. Passed(c, x[2], x[3], x[4]) =>
          Passed(cursor, x[2], x[3], x[4]) \/ (x[2] = item.d /\ x[3] = at.file /\ x[4] = at.row + 1)
    BY <1>2, <1>3, <2>1 DEF Passed
  <2>5. QED
    BY <1>6, <2>1, <2>2, <2>3, <2>4
<1>7. QED
  BY <1>4, <1>5, <1>6

(* What a step of the row loop has to keep.                                *)
LEMMA RowProgress ==
  ASSUME Inv, Inv', Progress, HasRow, UNCHANGED <<sinkVars, base, pc, ckpt, toScan, work, item>>,
         at' = [at EXCEPT !.row = @ + 1], NEW c, PastEvent(c),
         mem'.cursors[stream] = c, \A r \in Streams \ {stream} : mem'.cursors[r] = mem.cursors[r],
         mem'.wm = mem.wm,
         Ahead(mem', saved'), DestBounded',
         StateOk(mem'), StateOk(saved'), Settled(dest', mem'), Settled(dest', saved')
  PROVE  Progress'
<1>1. pc = "read" /\ at.row < Len(Rows)
  BY DEF HasRow
<1>0. PICK s \in Streams : s = stream
  BY <1>1, StreamFacts
<1>2. /\ s \in Streams /\ Running /\ item.t \in catalog /\ item.t \in Tables
      /\ item.v = EffectiveWatermark(item.t) /\ item.d \in Dates
      /\ at.row \in Nat /\ Len(Rows) \in Nat /\ at.file <= item.latest
      /\ cursor.curDate = item.d /\ cursor.curFile = at.file
      /\ Reach(s, cursor, item.d, at.file) /\ cursor \in Cursor
  BY <1>0, <1>1, StreamFacts
<1>3. /\ c.row = at.row + 1 /\ c.curDate = item.d /\ c.curFile = at.file
      /\ c.lastDate = cursor.lastDate
  BY <1>2 DEF PastEvent
<1>4. Reach(s, c, item.d, at.file)
  BY <1>0, PastEventFacts
<1>5. at'.file = at.file /\ at'.row = at.row + 1
  BY <1>1, ReadFacts DEF Inv, TypeOk
<1>6. stream' = s /\ pc' = "read" /\ item' = item /\ work' = work
  BY <1>0, <1>1 DEF stream, StreamOf
<1>7. \A x \in Positions : x[1] = s /\ PassedAt(mem, x) => PassedAt(mem', x)
  BY <1>0, PastEventFacts DEF PassedAt
<1>8. \A d, f : Pending(s, d, f) => Pending(s, d, f)'
  BY <1>6 DEF Pending, StreamOf
<1>9. \A x \in Positions : x[1] = s /\ Pending(s, x[2], x[3]) => Pending(s, x[2], x[3])' \/ PassedAt(mem', x)
  BY <1>8
<1>10. \A b \in work : b.kind = "dml" /\ StreamOf(b) = s => item.d < b.d /\ b.d \in Nat
  <2>1. \A b \in work : b.d \in Nat
    BY DEF Inv, TypeOk, Item
  <2>2. QED
    BY <1>0, <1>1, <1>2, <2>1 DEF Running, ReadingOk
<1>11. ASSUME NEW b \in work', b.kind = "dml", StreamOf(b) = s, b.v >= EffectiveWatermark(b.t)
       PROVE  RangeOk(b)'
  <2>1. StreamOf(b)' = s /\ mem'.cursors[s] = c
    BY <1>0, <1>11 DEF StreamOf
  <2>2. item.d < b.d /\ b.d \in Nat /\ c.lastDate \in Nat /\ c.lastDate <= item.d /\ item.d \in Nat
    <3>1. item.d < b.d /\ b.d \in Nat
      BY <1>6, <1>10, <1>11
    <3>2. c.lastDate <= item.d
      BY <1>4 DEF Reach
    <3>3. c.lastDate \in Nat
      BY <1>2, <1>3, SinkAssumption DEF Cursor
    <3>4. QED
      BY <1>2, <3>1, <3>2, <3>3, FilesType
  <2>3. c.lastDate <= b.d /\ c.curDate <= b.d /\ c.curDate # b.d
    BY <1>3, <2>2
  <2>4. pc' = "read" /\ stream' = s /\ item'.d = c.curDate /\ c.curFile <= item'.latest
    BY <1>2, <1>3, <1>6
  <2>5. QED
    BY <2>1, <2>3, <2>4 DEF RangeOk, Pending, StreamOf
<1>12. ReadingOk'
  <2>1. cursor' = c
    BY <1>0, <1>6 DEF cursor
  <2>2. files' = files /\ catalog' = catalog
    BY DEF sinkVars, base
  <2>3. Rows' = Rows
    BY <1>0, <1>5, <1>6, <2>2 DEF Rows
  <2>4. EffectiveWatermark(item.t)' = EffectiveWatermark(item.t)
    <3>1. mem.wm[item.t] <= mem'.wm[item.t] /\ mem'.wm[item.t] = mem.wm[item.t]
      BY <1>2, EffectiveFacts
    <3>2. QED
      BY <1>2, <3>1, EffectiveGrows
  <2>5. Reach(stream, cursor, item.d, at.file)'
    BY <1>4, <1>5, <1>6, <2>1, <2>2 DEF Reach
  <2>6. at'.row <= Len(Rows')
    BY <1>1, <1>2, <1>5, <2>3
  <2>7. \A b \in work' : b.kind = "dml" /\ StreamOf(b) = stream' => item'.d < b.d
    BY <1>6, <1>10
  <2>8. QED
    BY <1>2, <1>3, <1>5, <1>6, <2>1, <2>2, <2>4, <2>5, <2>6, <2>7 DEF ReadingOk, StreamOf
<1>13. \A b \in work : b \in work' \/ (b.kind = "dml" /\ StreamOf(b) = s)
  OBVIOUS
<1>14. work' \subseteq work /\ pc' \in {"work", "read"}
  BY <1>1
<1>15. QED
  BY <1>0, <1>1, <1>2, <1>7, <1>9, <1>11, <1>12, <1>13, <1>14, CursorLoop

(* A row of the snapshot is passed over.                                   *)
LEMMA SkipRowProgress == Inv /\ Progress /\ SkipRow => Progress'
<1> SUFFICES ASSUME Inv, Progress, SkipRow PROVE Progress'
  OBVIOUS
<1> DEFINE c == [cursor EXCEPT !.row = at.row + 1]
           x0 == <<stream, item.d, at.file, at.row + 1>>
<1>1. /\ HasRow /\ InSnapshot /\ pc = "read" /\ pc # "idle"
      /\ mem' = SetCursor(mem, stream, c) /\ at' = [at EXCEPT !.row = @ + 1]
      /\ UNCHANGED <<sinkVars, base, dest, saved, pc, ckpt, toScan, work, item>>
  BY DEF SkipRow, HasRow
<1>2. /\ Running /\ StateOk(mem) /\ StateOk(saved) /\ Settled(dest, mem) /\ Settled(dest, saved)
      /\ stream \in Streams /\ stream[1] \in loaded /\ cursor \in Cursor /\ at.row \in Nat
      /\ mem \in State
  BY <1>1, StreamFacts
<1>3. PastEvent(c)
  BY <1>2 DEF PastEvent, Cursor
<1> HIDE DEF c
<1>4. c \in Cursor
  BY <1>3 DEF PastEvent
<1>5. /\ mem'.cursors[stream] = c /\ mem'.wm = mem.wm /\ mem'.tableTs = mem.tableTs
      /\ \A r \in Streams \ {stream} : mem'.cursors[r] = mem.cursors[r]
  BY <1>1, <1>2, <1>4, CursorFacts
<1>6. ~Since(x0)
  <2>1. RowAt(x0) = event /\ event.ts \in Nat /\ snap \in Nat
    BY <1>1, EventPosition, BoundsType
  <2>2. QED
    BY <1>1, <2>1 DEF Since, InSnapshot
<1>7. StateOk(mem') /\ Settled(dest, mem')
  <2>1. CursorOk(stream, c)
    BY <1>1, <1>3, PastEventFacts
  <2>2. \A x \in Positions : x[1] = stream /\ Since(x) /\ Passed(c, x[2], x[3], x[4]) => PassedAt(mem, x)
    BY <1>1, <1>3, <1>6, PastEventFacts
  <2>3. QED
    BY <1>1, <1>2, <1>4, <2>1, <2>2, CursorMoves
<1>8. \A x \in Positions : PassedAt(mem, x) => PassedAt(mem', x)
  <2>1. \A x \in Positions : x[1] \in Streams
    BY PositionFacts
  <2>2. \A x \in Positions : x[1] = stream /\ PassedAt(mem, x) => Passed(c, x[2], x[3], x[4])
    BY <1>1, <1>3, PastEventFacts
  <2>3. QED
    BY <1>5, <2>1, <2>2 DEF PassedAt
<1>9. Ahead(mem', saved') /\ DestBounded'
  <2>1. Ahead(mem', saved')
    BY <1>1, <1>5, <1>8, StillAhead
  <2>2. QED
    BY <1>1, <1>2, <2>1 DEF Running, DestBounded, base
<1>10. StateOk(saved') /\ Settled(dest', mem') /\ Settled(dest', saved')
  BY <1>1, <1>2, <1>7
<1>11. Inv'
  BY SkipRowInv
<1>12. QED
  BY <1>1, <1>3, <1>5, <1>7, <1>9, <1>10, <1>11, RowProgress

(* An applied row is newer than all that the states have behind them.      *)
LEMMA AppliedSettled ==
  ASSUME Inv, Progress, HasRow, ~InSnapshot, ~BeyondCheckpoint, ~Fallback, dest' = Applied(event),
         NEW st \in {saved, mem}
  PROVE  /\ Settled(dest', st)
         /\ event.ts \in Nat /\ snap < event.ts /\ event.ts <= ckpt
         /\ mem.tableTs[item.t] \in Nat /\ mem.tableTs[item.t] <= event.ts
         /\ dest'[item.t][event.key].ts = event.ts
         /\ \A t \in loaded, k \in Keys :
              t # item.t \/ k # event.key => dest'[t][k] = dest[t][k]
<1> DEFINE u  == item.t
           x0 == <<stream, item.d, at.file, at.row + 1>>
<1>1. pc = "read"
  BY DEF HasRow
<1>2. /\ Running /\ SinkOrder /\ StateOk(mem) /\ StateOk(st) /\ Settled(dest, st)
      /\ u \in Tables /\ u \in loaded /\ item.v = EffectiveWatermark(u) /\ item.v \in Nat
      /\ stream[2] = item.v /\ cursor \in Cursor /\ mem \in State /\ saved \in State
  BY <1>1, StreamFacts DEF Progress
<1>3. /\ event.ts \in Nat /\ event.key \in Keys /\ x0 \in Positions /\ RowAt(x0) = event
      /\ x0[1] = stream /\ snap \in Nat /\ ckpt \in Nat
  BY EventPosition, BoundsType
<1> HIDE DEF x0
<1>4. snap < event.ts /\ event.ts <= ckpt
  BY <1>3 DEF InSnapshot, BeyondCheckpoint
<1>5. mem.tableTs[u] \in Nat /\ mem.tableTs[u] <= event.ts
  <2>1. mem.tableTs[u] \in Nat /\ cursor.lastTs \in Nat
    BY <1>2, StateFacts, SinkAssumption DEF Cursor
  <2>2. QED
    BY <1>3, <2>1 DEF Fallback, Max2
<1>6. item.v < event.ts /\ mem.wm[u] \in Nat /\ mem.wm[u] <= item.v
  BY <1>2, <1>3, RowVersion, EffectiveFacts
<1>7. dest \in [Tables -> [Keys -> Cell]] /\ loaded \subseteq Tables
  BY DEF Inv, TypeOk
<1>8. /\ dest'[u][event.key].ts = event.ts
      /\ \A t \in loaded, k \in Keys : t # u \/ k # event.key => dest'[t][k] = dest[t][k]
  <2> DEFINE row == [dest[u] EXCEPT ![event.key] = [ts |-> event.ts, live |-> event.op # "D"]]
  <2>1. dest' = [dest EXCEPT ![u] = row]
    BY DEF Applied
  <2>2. row[event.key].ts = event.ts /\ \A k \in Keys : k # event.key => row[k] = dest[u][k]
    BY <1>2, <1>3, <1>7
  <2> HIDE DEF row
  <2>3. dest'[u] = row /\ \A t \in Tables : t # u => dest'[t] = dest[t]
    BY <1>2, <1>7, <2>1
  <2>4. QED
    BY <1>7, <2>2, <2>3
<1>9. st.wm = mem.wm /\ \A x \in Positions : x[1][1] = u /\ Behind(st, x) => Behind(mem, x)
  BY <1>1, <1>2, StreamFacts DEF Running, Ahead, Behind
<1>10. ASSUME NEW x \in Positions, x[1][1] = u, Since(x), Behind(st, x)
       PROVE  RowAt(x).ts <= event.ts
  <2>1. RowAt(x).ts \in Nat
    BY PositionFacts
  <2>2. CASE x[1][2] < mem.wm[u]
    <3>1. mem.wm[u] > 0
      BY <1>6, <1>10, <2>2, PositionFacts
    <3>2. \E m \in schemas[u] : m.v = mem.wm[u]
      BY <1>2, <3>1 DEF StateOk, WatermarkOk
    <3>3. RowAt(x).ts < mem.wm[u]
      BY <1>2, <1>10, <2>2, <3>2, RowVersion
    <3>4. QED
      BY <1>2, <1>3, <1>6, <2>1, <3>3
  <2>3. CASE PassedAt(mem, x)
    <3>1. RowAt(x).ts <= mem.tableTs[u]
      BY <1>2, <1>10, <2>3 DEF StateOk, PassedOk
    <3>2. QED
      BY <1>3, <1>5, <2>1, <3>1
  <2>4. QED
    BY <1>9, <1>10, <2>2, <2>3 DEF Behind
<1>11. RowsSettled(dest', st)
  <2>1. ASSUME NEW x \in Positions, x[1][1] \in loaded, Since(x), Behind(st, x)
        PROVE  dest'[x[1][1]][RowAt(x).key].ts >= RowAt(x).ts
    <3>1. RowAt(x).key \in Keys /\ RowAt(x).ts \in Nat
      BY PositionFacts
    <3>2. CASE x[1][1] = u /\ RowAt(x).key = event.key
      <4>1. RowAt(x).ts <= event.ts
        BY <1>10, <2>1, <3>2
      <4>2. QED
        BY <1>3, <1>8, <3>1, <3>2, <4>1
    <3>3. CASE ~(x[1][1] = u /\ RowAt(x).key = event.key)
      BY <1>2, <1>8, <2>1, <3>1, <3>3 DEF Settled, RowsSettled
    <3>4. QED
      BY <3>2, <3>3
  <2>2. QED
    BY <2>1 DEF RowsSettled
<1>12. TruncatesSettled(dest', st)
  <2>1. ASSUME NEW t \in loaded, NEW m \in schemas[t], m.trunc, m.v <= st.wm[t], NEW k \in Keys
        PROVE  dest'[t][k].ts >= m.v
    <3>1. CASE t = u /\ k = event.key
      <4>1. m.v \in Nat /\ m.v <= mem.wm[u]
        BY <1>7, <1>9, <2>1, <3>1, SchemaFacts
      <4>2. QED
        BY <1>2, <1>3, <1>6, <1>8, <3>1, <4>1
    <3>2. CASE ~(t = u /\ k = event.key)
      BY <1>2, <1>8, <2>1, <3>2 DEF Settled, TruncatesSettled
    <3>3. QED
      BY <3>1, <3>2
  <2>2. QED
    BY <2>1 DEF TruncatesSettled
<1>13. QED
  BY <1>3, <1>4, <1>5, <1>8, <1>11, <1>12 DEF Settled

(* The state once a row is applied.                                        *)
LEMMA AdvancedFacts ==
  ASSUME Inv, Progress, HasRow
  PROVE  LET n == Advanced
             c == [cursor EXCEPT !.row = at.row + 1, !.lastTs = event.ts]
         IN /\ n \in State /\ n.wm = mem.wm /\ PastEvent(c)
            /\ n.cursors[stream] = c /\ \A r \in Streams \ {stream} : n.cursors[r] = mem.cursors[r]
            /\ n.tableTs[item.t] = event.ts
            /\ \A t \in Tables \ {item.t} : n.tableTs[t] = mem.tableTs[t]
<1> DEFINE c == [cursor EXCEPT !.row = at.row + 1, !.lastTs = event.ts]
           p == SetCursor(mem, stream, c)
<1>1. /\ stream \in Streams /\ cursor \in Cursor /\ at.row \in Nat /\ mem \in State /\ item.t \in Tables
  BY StreamFacts DEF HasRow
<1>2. event.ts \in Versions /\ event.ts \in 0 .. MaxTs
  BY EventFacts, SinkAssumption DEF Row, Versions
<1>3. c \in Cursor /\ PastEvent(c)
  <2>1. c \in Cursor
    <3>1. at.row + 1 \in Nat /\ item.d \in 0 .. MaxDate
      BY <1>1, ReadFacts DEF HasRow
    <3>2. QED
      BY <1>1, <1>2, <3>1, CursorTypes
  <2>2. /\ c.row = at.row + 1
        /\ c.lastDate = cursor.lastDate /\ c.lastFile = cursor.lastFile
        /\ c.curDate = cursor.curDate /\ c.curFile = cursor.curFile
    BY <1>1 DEF Cursor
  <2>3. QED
    BY <2>1, <2>2 DEF PastEvent
<1> HIDE DEF c
<1>4. /\ p \in State /\ p.wm = mem.wm /\ p.tableTs = mem.tableTs
      /\ p.cursors[stream] = c /\ \A r \in Streams \ {stream} : p.cursors[r] = mem.cursors[r]
  BY <1>1, <1>3, CursorFacts
<1>5. Advanced = [p EXCEPT !.tableTs = [p.tableTs EXCEPT ![item.t] = event.ts]]
  BY DEF Advanced, c
<1> HIDE DEF p
<1>6. /\ Advanced.wm = p.wm /\ Advanced.cursors = p.cursors
      /\ Advanced.tableTs = [p.tableTs EXCEPT ![item.t] = event.ts]
  BY <1>4, <1>5 DEF State
<1>7. p.tableTs \in [Tables -> 0 .. MaxTs]
  BY <1>4 DEF State
<1>8. /\ Advanced.tableTs[item.t] = event.ts
      /\ \A t \in Tables \ {item.t} : Advanced.tableTs[t] = mem.tableTs[t]
  BY <1>1, <1>4, <1>6, <1>7
<1>9. QED
  BY <1>3, <1>4, <1>6, <1>8, AdvancedType DEF c

(* A row is applied: it is in the destination before any state has it      *)
(* behind it.                                                              *)
LEMMA EmitRowProgress == Inv /\ Progress /\ EmitRow => Progress'
<1> SUFFICES ASSUME Inv, Progress, EmitRow PROVE Progress'
  OBVIOUS
<1> DEFINE c == [cursor EXCEPT !.row = at.row + 1, !.lastTs = event.ts]
           u  == item.t
           x0 == <<stream, item.d, at.file, at.row + 1>>
<1>1. /\ HasRow /\ ~InSnapshot /\ ~BeyondCheckpoint /\ ~Fallback /\ pc = "read"
      /\ dest' = Applied(event) /\ mem' = Advanced /\ at' = [at EXCEPT !.row = @ + 1]
      /\ saved' = mem' \/ saved' = saved
      /\ UNCHANGED <<sinkVars, base, pc, ckpt, toScan, work, item>>
  BY DEF EmitRow, HasRow
<1>2. Inv'
  BY EmitRowInv
<1>3. /\ Running /\ SinkOrder /\ StateOk(mem) /\ StateOk(saved) /\ Ahead(mem, saved)
      /\ stream \in Streams /\ stream[1] = u /\ stream[2] = item.v /\ u \in Tables /\ u \in loaded
      /\ item.v = EffectiveWatermark(u) /\ mem \in State /\ catalog \subseteq Tables
      /\ loaded \subseteq Tables
  BY <1>1, StreamFacts, CatalogsAssumption DEF Progress, Running, Inv, TypeOk
<1>4. /\ mem' \in State /\ mem'.wm = mem.wm /\ PastEvent(c)
      /\ mem'.cursors[stream] = c /\ \A r \in Streams \ {stream} : mem'.cursors[r] = mem.cursors[r]
      /\ mem'.tableTs[u] = event.ts /\ \A t \in Tables \ {u} : mem'.tableTs[t] = mem.tableTs[t]
  BY <1>1, AdvancedFacts
<1> HIDE DEF c
<1>5. /\ Settled(dest', mem) /\ Settled(dest', saved)
      /\ event.ts \in Nat /\ snap < event.ts /\ event.ts <= ckpt
      /\ mem.tableTs[u] \in Nat /\ mem.tableTs[u] <= event.ts
      /\ dest'[u][event.key].ts = event.ts
      /\ \A t \in loaded, k \in Keys : t # u \/ k # event.key => dest'[t][k] = dest[t][k]
  BY <1>1, AppliedSettled
<1>6. x0 \in Positions /\ RowAt(x0) = event /\ x0[1] = stream
  BY <1>1, EventPosition
<1> HIDE DEF x0
<1>7. /\ CursorOk(stream, c)
      /\ \A x \in Positions : x[1] = stream =>
           /\ PassedAt(mem, x) => Passed(c, x[2], x[3], x[4])
           /\ Passed(c, x[2], x[3], x[4]) => PassedAt(mem, x) \/ x = x0
  BY <1>1, <1>4, PastEventFacts DEF x0
<1>8. /\ \A x \in Positions : PassedAt(mem, x) => PassedAt(mem', x)
      /\ \A x \in Positions : PassedAt(mem', x) => PassedAt(mem, x) \/ x = x0
  <2>1. \A x \in Positions : x[1] \in Streams
    BY PositionFacts
  <2>2. QED
    BY <1>4, <1>7, <2>1 DEF PassedAt
<1>9. \A t \in Tables : mem.tableTs[t] <= mem'.tableTs[t] /\ mem'.tableTs[t] \in Nat /\ mem.tableTs[t] \in Nat
  BY <1>3, <1>4, <1>5, StateFacts
<1>10. StateOk(mem')
  <2>1. WatermarkOk(mem')
    BY <1>3, <1>4 DEF StateOk, WatermarkOk
  <2>2. CursorsOk(mem')
    <3>1. ASSUME NEW r \in Streams
          PROVE  CursorOk(r, mem'.cursors[r]) /\ (r[1] \notin loaded => mem'.cursors[r] = NoCursor)
      <4>1. CASE r = stream
        BY <1>3, <1>4, <1>7, <4>1
      <4>2. CASE r # stream
        BY <1>3, <1>4, <4>2 DEF StateOk, CursorsOk
      <4>3. QED
        BY <4>1, <4>2
    <3>2. QED
      BY <3>1 DEF CursorsOk
  <2>3. ASSUME NEW x \in Positions, Since(x), PassedAt(mem', x)
        PROVE  RowAt(x).ts <= mem'.tableTs[x[1][1]] /\ (x[1][2] <= mem'.wm[x[1][1]] \/ x[1][2] <= snap)
    <3>1. CASE PassedAt(mem, x)
      <4>1. RowAt(x).ts <= mem.tableTs[x[1][1]] /\ (x[1][2] <= mem.wm[x[1][1]] \/ x[1][2] <= snap)
        BY <1>3, <2>3, <3>1 DEF StateOk, PassedOk
      <4>2. RowAt(x).ts \in Nat /\ x[1][1] \in Tables
        BY PositionFacts
      <4>3. QED
        BY <1>4, <1>9, <4>1, <4>2
    <3>2. CASE x = x0
      <4>1. item.v = mem.wm[u] \/ item.v <= snap
        BY <1>3, EffectiveFacts
      <4>2. mem.wm[u] \in Nat
        BY <1>3, StateFacts
      <4>3. QED
        BY <1>3, <1>4, <1>5, <1>6, <3>2, <4>1, <4>2
    <3>3. QED
      BY <1>8, <2>3, <3>1, <3>2
  <2>4. QED
    BY <2>1, <2>2, <2>3 DEF StateOk, PassedOk
<1>11. Settled(dest', mem')
  <2>1. RowsSettled(dest', mem')
    <3>1. ASSUME NEW x \in Positions, x[1][1] \in loaded, Since(x), Behind(mem', x)
          PROVE  dest'[x[1][1]][RowAt(x).key].ts >= RowAt(x).ts
      <4>1. CASE Behind(mem, x)
        BY <1>5, <3>1, <4>1 DEF Settled, RowsSettled
      <4>2. CASE x = x0
        BY <1>3, <1>5, <1>6, <4>2
      <4>3. QED
        BY <1>4, <1>8, <3>1, <4>1, <4>2 DEF Behind
    <3>2. QED
      BY <3>1 DEF RowsSettled
  <2>2. TruncatesSettled(dest', mem')
    BY <1>4, <1>5 DEF Settled, TruncatesSettled
  <2>3. QED
    BY <2>1, <2>2 DEF Settled
<1>12. Ahead(mem', saved')
  <2>1. CASE saved' = mem'
    <3>1. \A t \in catalog : mem'.tableTs[t] <= mem'.tableTs[t]
      BY <1>3, <1>9
    <3>2. QED
      BY <2>1, <3>1 DEF Ahead, Behind
  <2>2. CASE saved' = saved
    <3>1. \A t \in catalog : saved.tableTs[t] <= mem'.tableTs[t]
      <4>1. saved \in State
        BY DEF Inv, TypeOk
      <4>2. QED
        BY <1>3, <1>9, <4>1, StateFacts DEF Ahead
    <3>2. \A x \in Positions : x[1][1] \in catalog /\ PassedAt(saved, x) => Behind(mem', x)
      BY <1>3, <1>4, <1>8 DEF Ahead, Behind
    <3>3. QED
      BY <1>3, <1>4, <2>2, <3>1, <3>2 DEF Ahead
  <2>3. QED
    BY <1>1, <2>1, <2>2
<1>13. DestBounded'
  <2>1. ASSUME NEW t \in loaded, NEW k \in Keys PROVE dest'[t][k].ts <= Max2(ckpt, snap)
    <3>1. dest[t][k].ts <= Max2(ckpt, snap)
      BY <1>3 DEF Running, DestBounded
    <3>2. event.ts <= Max2(ckpt, snap)
      BY <1>5, BoundsType DEF Max2
    <3>3. CASE t = u /\ k = event.key
      BY <1>5, <3>2, <3>3
    <3>4. CASE t # u \/ k # event.key
      BY <1>5, <3>1, <3>4
    <3>5. QED
      BY <3>3, <3>4
  <2>2. QED
    BY <1>1, <2>1 DEF DestBounded, base, Max2
<1>14. StateOk(saved') /\ Settled(dest', saved')
  <2>1. CASE saved' = mem'
    BY <1>10, <1>11, <2>1
  <2>2. CASE saved' = saved
    BY <1>3, <1>5, <2>2
  <2>3. QED
    BY <1>1, <2>1, <2>2
<1>15. QED
  BY <1>1, <1>2, <1>4, <1>10, <1>11, <1>12, <1>13, <1>14, RowProgress

(* A run that dies after a row leaves the states as they were.             *)
LEMMA CrashAfterRowProgress == Inv /\ Progress /\ CrashAfterRow => Progress'
<1> SUFFICES ASSUME Inv, Progress, CrashAfterRow PROVE Progress'
  OBVIOUS
<1>1. /\ HasRow /\ ~InSnapshot /\ ~BeyondCheckpoint /\ ~Fallback /\ dest' = Applied(event)
      /\ EndRun(saved) /\ UNCHANGED <<sinkVars, base>>
  BY DEF CrashAfterRow
<1>2. Settled(dest', saved)
  BY <1>1, AppliedSettled
<1>3. StateOk(saved)
  BY DEF Progress
<1>4. QED
  BY <1>1, <1>2, <1>3, EndRunProgress

(* A run that fails, or is killed elsewhere, leaves everything as it was.  *)
LEMMA CrashProgress == Inv /\ Progress /\ (RaiseFallback \/ Crash) => Progress'
<1> SUFFICES ASSUME Inv, Progress, RaiseFallback \/ Crash PROVE Progress'
  OBVIOUS
<1>1. EndRun(saved) /\ UNCHANGED <<sinkVars, base, dest>>
  BY DEF RaiseFallback, Crash
<1>2. StateOk(saved) /\ Settled(dest', saved)
  BY <1>1 DEF Progress
<1>3. QED
  BY <1>1, <1>2, EndRunProgress

(* A run that stops saves the state it has in memory: the cursor stands    *)
(* at the row above the checkpoint-ts already.                             *)
LEMMA StoppedIsMem == ASSUME Inv, Progress, HasRow PROVE SetCursor(mem, stream, Stopped) = mem
<1>1. /\ cursor \in Cursor /\ cursor = mem.cursors[stream] /\ mem \in State /\ stream \in Streams
      /\ cursor.curDate = item.d /\ cursor.curFile = at.file /\ cursor.row = at.row
  BY StreamFacts DEF HasRow
<1>2. Stopped = [[cursor EXCEPT !.curDate = item.d, !.curFile = at.file] EXCEPT !.row = at.row]
  BY DEF Stopped, Opened
<1>3. Stopped = cursor
  BY <1>1, <1>2 DEF Cursor
<1>4. mem.cursors \in [Streams -> Cursor]
  BY <1>1 DEF State
<1>5. [mem.cursors EXCEPT ![stream] = cursor] = mem.cursors
  BY <1>1, <1>4
<1>6. SetCursor(mem, stream, Stopped) = [mem EXCEPT !.cursors = mem.cursors]
  BY <1>3, <1>5 DEF SetCursor
<1>7. QED
  BY <1>1, <1>6 DEF State

(* The run that stops at a row above the checkpoint-ts.                    *)
LEMMA StopAtCheckpointProgress == Inv /\ Progress /\ StopAtCheckpoint => Progress'
<1> SUFFICES ASSUME Inv, Progress, StopAtCheckpoint PROVE Progress'
  OBVIOUS
<1>1. HasRow /\ EndRun(SetCursor(mem, stream, Stopped)) /\ UNCHANGED <<sinkVars, base, dest>>
  BY DEF StopAtCheckpoint
<1>2. EndRun(mem)
  <2>1. SetCursor(mem, stream, Stopped) = mem
    BY <1>1, StoppedIsMem
  <2>2. QED
    BY <1>1, <2>1 DEF EndRun
<1>3. StateOk(mem) /\ Settled(dest', mem)
  BY <1>1 DEF Progress
<1>4. QED
  BY <1>1, <1>2, <1>3, EndRunProgress

-----------------------------------------------------------------------------
(* A cursor that has finished the file being read.                         *)
Past(c) ==
  c \in Cursor /\ c.lastDate = item.d /\ c.lastFile = at.file /\ c.row = 0

(* It is past the rows the run has read, and past no others.               *)
LEMMA PastFacts ==
  ASSUME Inv, Progress, pc = "read", at.row >= Len(Rows), NEW c, Past(c)
  PROVE  /\ CursorOk(stream, c)
         /\ \A x \in Positions : x[1] = stream =>
              (Passed(c, x[2], x[3], x[4]) <=> PassedAt(mem, x))
<1>1. /\ stream \in Streams /\ cursor = mem.cursors[stream] /\ cursor \in Cursor
      /\ item.d \in Dates /\ at.file \in Nat /\ at.row \in Nat /\ Len(Rows) \in Nat
      /\ cursor.curDate = item.d /\ cursor.curFile = at.file /\ cursor.row = at.row
      /\ at.row <= Len(Rows) /\ Reach(stream, cursor, item.d, at.file)
  BY StreamFacts
<1>2. at.row = Len(Rows)
  BY <1>1
<1>3. /\ cursor.lastDate \in Nat /\ cursor.lastFile \in Nat /\ item.d \in Nat /\ Dates \subseteq Nat
      /\ \A e \in Dates : Len(files[stream][e]) \in Nat
  <2>1. cursor.lastDate \in Nat /\ cursor.lastFile \in Nat
    BY <1>1, SinkAssumption DEF Cursor
  <2>2. QED
    BY <1>1, <2>1, FilesType
<1>4. /\ cursor.lastDate <= item.d /\ at.file \in 1 .. Len(files[stream][item.d])
      /\ at.file = IF item.d = cursor.lastDate THEN cursor.lastFile + 1 ELSE 1
      /\ \A e \in Dates : cursor.lastDate <= e /\ e < item.d =>
           Len(files[stream][e]) <= IF e = cursor.lastDate THEN cursor.lastFile ELSE 0
  BY <1>1 DEF Reach
<1>5. c.lastDate = item.d /\ c.lastFile = at.file /\ c.row = 0
  BY DEF Past
<1>6. CursorOk(stream, c)
  BY <1>1, <1>3, <1>4, <1>5 DEF CursorOk
<1>7. ASSUME NEW x \in Positions, x[1] = stream
      PROVE  Passed(c, x[2], x[3], x[4]) <=> PassedAt(mem, x)
  <2>1. /\ x[2] \in Dates /\ x[2] \in Nat /\ x[3] \in Nat /\ x[4] \in Nat
        /\ x[3] \in 1 .. Len(files[stream][x[2]]) /\ x[4] \in 1 .. Len(files[stream][x[2]][x[3]])
    BY <1>7, PositionFacts
  <2>2. PassedAt(mem, x) <=> Passed(cursor, x[2], x[3], x[4])
    BY <1>1, <1>7 DEF PassedAt
  <2>3. Passed(c, x[2], x[3], x[4]) <=> (x[2] < item.d \/ (x[2] = item.d /\ x[3] <= at.file))
    <3>1. ~(c.row > 0)
      BY <1>5
    <3>2. QED
      BY <1>5, <3>1 DEF Passed
  <2>4. ASSUME Passed(cursor, x[2], x[3], x[4])
        PROVE  x[2] < item.d \/ (x[2] = item.d /\ x[3] <= at.file)
    <3>1. CASE x[2] < cursor.lastDate
      BY <1>3, <1>4, <2>1, <3>1
    <3>2. CASE x[2] = cursor.lastDate /\ x[3] <= cursor.lastFile
      BY <1>1, <1>3, <1>4, <2>1, <3>2
    <3>3. CASE x[2] = item.d /\ x[3] = at.file
      BY <1>1, <3>3
    <3>4. QED
      BY <1>1, <2>4, <3>1, <3>2, <3>3 DEF Passed
  <2>5. ASSUME x[2] < item.d PROVE Passed(cursor, x[2], x[3], x[4])
    <3>1. CASE x[2] < cursor.lastDate
      BY <3>1 DEF Passed
    <3>2. CASE cursor.lastDate <= x[2]
      <4>1. Len(files[stream][x[2]]) <= IF x[2] = cursor.lastDate THEN cursor.lastFile ELSE 0
        BY <1>4, <2>1, <2>5, <3>2
      <4>2. Len(files[stream][x[2]]) \in Nat
        BY <1>3, <2>1
      <4>3. CASE x[2] = cursor.lastDate
        <5>1. Len(files[stream][x[2]]) <= cursor.lastFile
          BY <4>1, <4>3
        <5>2. x[3] <= cursor.lastFile
          BY <1>3, <2>1, <4>2, <5>1
        <5>3. QED
          BY <4>3, <5>2 DEF Passed
      <4>4. CASE x[2] # cursor.lastDate
        <5>1. Len(files[stream][x[2]]) <= 0
          BY <4>1, <4>4
        <5>2. FALSE
          BY <2>1, <4>2, <5>1
        <5>3. QED
          BY <5>2
      <4>5. QED
        BY <4>3, <4>4
    <3>3. QED
      BY <1>3, <2>1, <3>1, <3>2
  <2>6. ASSUME x[2] = item.d, x[3] <= at.file PROVE Passed(cursor, x[2], x[3], x[4])
    <3>1. CASE x[3] = at.file
      <4>1. x[4] \in 1 .. Len(Rows)
        BY <2>1, <2>6, <3>1 DEF Rows
      <4>2. cursor.row > 0 /\ x[4] <= cursor.row
        BY <1>1, <1>2, <2>1, <4>1
      <4>3. QED
        BY <1>1, <2>6, <3>1, <4>2 DEF Passed
    <3>2. CASE x[3] # at.file
      <4>1. item.d = cursor.lastDate /\ x[3] <= cursor.lastFile
        BY <1>1, <1>3, <1>4, <2>1, <2>6, <3>2
      <4>2. QED
        BY <2>6, <4>1 DEF Passed
    <3>3. QED
      BY <3>1, <3>2
  <2>7. QED
    BY <2>2, <2>3, <2>4, <2>5, <2>6
<1>8. QED
  BY <1>6, <1>7

(* The end of a file: the finished file takes the place of its rows.       *)
LEMMA FinishFileProgress == Inv /\ Progress /\ FinishFile => Progress'
<1> SUFFICES ASSUME Inv, Progress, FinishFile PROVE Progress'
  OBVIOUS
<1>1. pc = "read" /\ at.row >= Len(Rows)
  BY DEF FinishFile
<1>2. PICK s \in Streams : s = stream
  BY <1>1, StreamFacts
<1> DEFINE c == Finished(cursor, item.d, at.file)
           more == at.file < item.latest
           n == IF more THEN Opened(c, item.d, at.file + 1) ELSE c
<1>3. /\ saved' = SetCursor(mem, s, c) /\ mem' = SetCursor(mem, s, n)
      /\ at' = (IF more THEN [file |-> at.file + 1, row |-> 0] ELSE Nowhere)
      /\ item' = (IF more THEN item ELSE NoItem)
      /\ pc' = (IF more THEN "read" ELSE "work")
      /\ UNCHANGED <<sinkVars, base, dest, ckpt, toScan, work>>
  BY <1>2 DEF FinishFile
<1>4. /\ Running /\ StateOk(mem) /\ Settled(dest, mem) /\ mem \in State
      /\ s[1] = item.t /\ item.t \in Tables /\ item.t \in catalog /\ item.t \in loaded
      /\ item.v = EffectiveWatermark(item.t)
      /\ item.d \in Dates /\ at.file \in Nat /\ item.latest \in Nat
      /\ at.file <= item.latest /\ item.latest <= Len(files[s][item.d])
      /\ cursor \in Cursor /\ cursor = mem.cursors[s]
      /\ catalog \subseteq Tables
  BY <1>1, <1>2, StreamFacts, CatalogsAssumption DEF Inv, TypeOk
<1>5. item.d \in 0 .. MaxDate /\ item.d \in Nat /\ at.file + 1 \in Nat /\ Len(files[s][item.d]) \in Nat
  BY <1>4, DatesType, FilesType
<1>6. Past(c)
  <2>1. c \in Cursor
    BY <1>4, <1>5, CursorTypes
  <2>2. QED
    BY <1>4, <2>1 DEF Past, Finished, Opened, Cursor
<1> HIDE DEF c
<1>7. Past(n) /\ (more => n.curDate = item.d /\ n.curFile = at.file + 1)
  <2>1. CASE ~more
    BY <1>6, <2>1
  <2>2. CASE more
    <3>1. c \in Cursor
      BY <1>6 DEF Past
    <3>2. Opened(c, item.d, at.file + 1) \in Cursor
      BY <1>5, <3>1, OpenedType
    <3>3. QED
      BY <1>6, <2>2, <3>1, <3>2 DEF Past, Opened, Cursor
  <2>3. QED
    BY <2>1, <2>2
<1> HIDE DEF n
<1>8. /\ mem'.cursors[s] = n /\ mem'.wm = mem.wm /\ mem'.tableTs = mem.tableTs
      /\ \A r \in Streams \ {s} : mem'.cursors[r] = mem.cursors[r]
      /\ saved'.cursors[s] = c /\ saved'.wm = mem.wm /\ saved'.tableTs = mem.tableTs
      /\ \A r \in Streams \ {s} : saved'.cursors[r] = mem.cursors[r]
  <2>1. n \in Cursor /\ c \in Cursor
    BY <1>6, <1>7 DEF Past
  <2>2. mem' = SetCursor(mem, s, n) /\ saved' = SetCursor(mem, s, c)
    BY <1>3
  <2>3. mem \in State
    BY <1>4
  <2>4. /\ mem'.cursors[s] = n /\ mem'.wm = mem.wm /\ mem'.tableTs = mem.tableTs
        /\ \A r \in Streams \ {s} : mem'.cursors[r] = mem.cursors[r]
    BY <2>1, <2>2, <2>3, CursorFacts
  <2>5. /\ saved'.cursors[s] = c /\ saved'.wm = mem.wm /\ saved'.tableTs = mem.tableTs
        /\ \A r \in Streams \ {s} : saved'.cursors[r] = mem.cursors[r]
    BY <2>1, <2>2, <2>3, CursorFacts
  <2>6. QED
    BY <2>4, <2>5
<1>9. /\ CursorOk(s, n) /\ CursorOk(s, c)
      /\ \A x \in Positions : x[1] = s =>
           /\ Passed(n, x[2], x[3], x[4]) <=> PassedAt(mem, x)
           /\ Passed(c, x[2], x[3], x[4]) <=> PassedAt(mem, x)
  BY <1>1, <1>2, <1>6, <1>7, PastFacts
<1>10. \A x \in Positions : /\ PassedAt(mem', x) <=> PassedAt(mem, x)
                            /\ PassedAt(saved', x) <=> PassedAt(mem, x)
  <2>1. \A x \in Positions : x[1] \in Streams
    BY PositionFacts
  <2>2. QED
    BY <1>8, <1>9, <2>1 DEF PassedAt
<1>11. StateOk(mem') /\ Settled(dest, mem') /\ StateOk(saved') /\ Settled(dest, saved')
  <2>1. n \in Cursor /\ c \in Cursor
    BY <1>6, <1>7 DEF Past
  <2>2. QED
    BY <1>3, <1>4, <1>9, <2>1, CursorMoves
<1>12. \A t \in catalog : mem.tableTs[t] <= mem.tableTs[t]
  BY <1>4, StateFacts
<1>13. Ahead(mem', saved')
  BY <1>8, <1>10, <1>12 DEF Ahead, Behind
<1>14. DestBounded' /\ work' \subseteq work /\ pc' \in {"work", "read"}
  BY <1>3, <1>4 DEF Running, DestBounded, base
<1>15. Settled(dest', mem') /\ Settled(dest', saved')
  BY <1>3, <1>11
<1>16. more => stream' = s
  BY <1>2, <1>3 DEF stream, StreamOf
<1>17. ASSUME NEW x \in Positions, x[1] = s, Pending(s, x[2], x[3])
       PROVE  Pending(s, x[2], x[3])' \/ PassedAt(mem', x)
  <2>1. CASE \E b \in work : b.kind = "dml" /\ StreamOf(b) = s /\ b.d = x[2] /\ x[3] <= b.latest
    BY <1>3, <2>1 DEF Pending, StreamOf
  <2>2. CASE item.d = x[2] /\ x[3] <= item.latest
    <3>1. CASE more
      BY <1>3, <1>16, <2>2, <3>1 DEF Pending
    <3>2. CASE ~more
      <4>1. x[3] <= at.file
        BY <1>4, <2>2, <3>2
      <4>2. Passed(n, x[2], x[3], x[4])
        BY <1>7, <2>2, <4>1 DEF Past, Passed
      <4>3. QED
        BY <1>8, <1>17, <4>2 DEF PassedAt
    <3>3. QED
      BY <3>1, <3>2
  <2>3. QED
    BY <1>17, <2>1, <2>2 DEF Pending
<1>18. \A b \in work : b.kind = "dml" /\ StreamOf(b) = s => item.d < b.d /\ b.d \in Nat
  <2>1. \A b \in work : b.d \in Nat
    BY DEF Inv, TypeOk, Item
  <2>2. QED
    BY <1>1, <1>2, <1>4, <2>1 DEF Running, ReadingOk
<1>19. ASSUME NEW b \in work', b.kind = "dml", StreamOf(b) = s, b.v >= EffectiveWatermark(b.t)
       PROVE  RangeOk(b)'
  <2>1. StreamOf(b)' = s /\ mem'.cursors[s] = n
    BY <1>8, <1>19 DEF StreamOf
  <2>2. item.d < b.d /\ b.d \in Nat
    BY <1>3, <1>18, <1>19
  <2>3. n.lastDate <= b.d /\ ~(n.row > 0)
    BY <1>5, <1>7, <2>2 DEF Past
  <2>4. QED
    BY <2>1, <2>3 DEF RangeOk
<1>20. Inv'
  BY FinishFileInv
<1>21. ReadingOk'
  <2> SUFFICES ASSUME more PROVE ReadingOk'
    BY <1>3 DEF ReadingOk
  <2>1. stream' = s /\ item' = item /\ at'.file = at.file + 1 /\ at'.row = 0 /\ work' = work
    BY <1>3, <1>16
  <2>2. cursor' = n
    BY <1>8, <2>1 DEF cursor
  <2>3. files' = files /\ catalog' = catalog
    BY <1>3 DEF sinkVars, base
  <2>4. EffectiveWatermark(item.t)' = EffectiveWatermark(item.t)
    <3>1. mem.wm[item.t] <= mem'.wm[item.t] /\ mem'.wm[item.t] = mem.wm[item.t]
      BY <1>4, <1>8, EffectiveFacts
    <3>2. QED
      BY <1>3, <1>4, <1>20, <3>1, EffectiveGrows
  <2>5. at.file + 1 \in 1 .. Len(files[s][item.d])
    BY <1>4, <1>5
  <2>6. n.lastDate = item.d /\ n.lastFile = at.file /\ n.row = 0
    BY <1>7 DEF Past
  <2>7. Reach(s, n, item.d, at.file + 1)
    <3>1. \A e \in Dates : e \in Nat
      BY FilesType
    <3>2. \A e \in Dates : ~(n.lastDate <= e /\ e < item.d)
      BY <1>5, <2>6, <3>1
    <3>3. QED
      BY <1>4, <1>5, <2>5, <2>6, <3>2 DEF Reach
  <2>8. Reach(stream, cursor, item.d, at.file)'
    BY <2>1, <2>2, <2>3, <2>7 DEF Reach
  <2>9. at'.row <= Len(Rows')
    <3>1. Rows' = files[s][item.d][at.file + 1]
      BY <2>1, <2>3 DEF Rows
    <3>2. Len(files[s][item.d][at.file + 1]) \in Nat
      BY <1>4, <2>5, FilesType
    <3>3. QED
      BY <2>1, <3>1, <3>2
  <2>10. cursor'.curDate = item'.d /\ cursor'.curFile = at'.file /\ cursor'.row = at'.row
    BY <1>7, <2>1, <2>2, <2>6
  <2>11. \A b \in work' : b.kind = "dml" /\ StreamOf(b) = stream' => item'.d < b.d
    BY <1>18, <2>1
  <2>12. item'.t \in catalog' /\ item'.v = EffectiveWatermark(item.t)'
    BY <1>4, <2>1, <2>3, <2>4
  <2>13. QED
    BY <2>1, <2>8, <2>9, <2>10, <2>11, <2>12 DEF ReadingOk, StreamOf
<1>22. \A x \in Positions : x[1] = s /\ PassedAt(mem, x) => PassedAt(mem', x)
  BY <1>10
<1>23. \A b \in work : b \in work' \/ (b.kind = "dml" /\ StreamOf(b) = s)
  BY <1>3
<1>24. QED
  BY <1>1, <1>2, <1>3, <1>8, <1>11, <1>13, <1>14, <1>15, <1>17, <1>19, <1>20, <1>21, <1>22, <1>23, CursorLoop

(* A run that ends with nothing left, that has nothing to do, or that      *)
(* fails at the snapshot: it saves the compacted state, or leaves all.     *)
LEMMA EndOfRunProgress == Inv /\ Progress /\ (FinishRun \/ SkipRun \/ FailSnapshot) => Progress'
<1> SUFFICES ASSUME Inv, Progress, FinishRun \/ SkipRun \/ FailSnapshot PROVE Progress'
  OBVIOUS
<1>1. UNCHANGED <<sinkVars, base, dest>>
  BY DEF FinishRun, SkipRun, FailSnapshot
<1>2. EndRun(Compact(mem, catalog)) \/ EndRun(Compact(saved, catalog)) \/ EndRun(saved)
  BY DEF FinishRun, SkipRun, FailSnapshot
<1>3. CASE EndRun(saved)
  <2>1. StateOk(saved) /\ Settled(dest', saved)
    BY <1>1 DEF Progress
  <2>2. QED
    BY <1>1, <1>3, <2>1, EndRunProgress
<1>4. CASE EndRun(Compact(mem, catalog))
  BY <1>1, <1>4, EndCompactProgress
<1>5. CASE EndRun(Compact(saved, catalog))
  BY <1>1, <1>5, EndCompactProgress
<1>6. QED
  BY <1>2, <1>3, <1>4, <1>5

-----------------------------------------------------------------------------
(* What the scan of a table finds of stream s and date d.                  *)
Found(s, d) ==
  /\ \E m \in VisibleSchemas(s[1]) : m.v = s[2]
  /\ s[2] >= mem.wm[s[1]]
  /\ files[s][d] # <<>>
  /\ d > 0 => ShouldScanDate(s, d)
  /\ ShouldScanIndex(s, d)

(* The ranges of a table are those of the streams and dates found.         *)
LEMMA RangesFound ==
  ASSUME NEW t \in Tables, NEW r
  PROVE  r \in VisibleRanges(t) <=>
           \E s \in Streams, d \in Dates : s[1] = t /\ Found(s, d) /\ r = FileRange(s, d)
<1>1. ASSUME NEW s \in Streams, NEW d \in Dates, s[1] = t, Found(s, d), r = FileRange(s, d)
      PROVE  r \in VisibleRanges(t)
  <2> DEFINE y == <<s, d>>
  <2>1. y \in Streams \X Dates /\ y[1] = s /\ y[2] = d
    OBVIOUS
  <2> HIDE DEF y
  <2>2. r = FileRange(y[1], y[2]) /\ y[1][1] = t /\ Found(y[1], y[2])
    BY <1>1, <2>1
  <2>3. QED
    BY <2>1, <2>2 DEF VisibleRanges, Found
<1>2. ASSUME r \in VisibleRanges(t)
      PROVE  \E s \in Streams, d \in Dates : s[1] = t /\ Found(s, d) /\ r = FileRange(s, d)
  <2>1. PICK y \in Streams \X Dates :
           /\ r = FileRange(y[1], y[2]) /\ y[1][1] = t
           /\ \E m \in VisibleSchemas(t) : m.v = y[1][2]
           /\ y[1][2] >= mem.wm[t]
           /\ files[y[1]][y[2]] # <<>>
           /\ y[2] > 0 => ShouldScanDate(y[1], y[2])
           /\ ShouldScanIndex(y[1], y[2])
    BY <1>2 DEF VisibleRanges
  <2>2. y[1] \in Streams /\ y[2] \in Dates /\ y[1][1] = t /\ Found(y[1], y[2])
    BY <2>1 DEF Found
  <2>3. QED
    BY <2>1, <2>2
<1>3. QED
  BY <1>1, <1>2

(* The range of a stream and date names them, and every file there is.     *)
LEMMA RangeParts ==
  ASSUME NEW s \in Streams, NEW d
  PROVE  LET r == FileRange(s, d)
         IN /\ StreamOf(r) = s /\ r.kind = "dml" /\ r.t = s[1] /\ r.v = s[2] /\ r.d = d
            /\ r.latest = Len(files[s][d])
BY StreamParts DEF FileRange, StreamOf

(* With date directories there are no partitions: the cursor the scan of   *)
(* the dates looks at is that of the stream.                               *)
LEMMA DateCursor ==
  ASSUME NEW s \in Streams, NEW d \in Dates, d > 0
  PROVE  <<s[1], s[2], 0>> = s
<1>1. MaxDate # 0
  BY SinkAssumption DEF Dates
<1>2. Partitions = {0}
  BY <1>1, SinkAssumption
<1>3. QED
  BY <1>2, StreamParts

(* A date the scan passes over has been read, and so have the files an     *)
(* index names when it passes over the index.                              *)
LEMMA ScanPassesRead ==
  ASSUME Inv, NEW x \in Positions,
         \/ ~ShouldScanIndex(x[1], x[2])
         \/ x[2] > 0 /\ ~ShouldScanDate(x[1], x[2])
  PROVE  PassedAt(mem, x)
<1> DEFINE c == mem.cursors[x[1]]
<1>1. /\ x[1] \in Streams /\ x[2] \in Dates /\ x[2] \in Nat /\ x[3] \in Nat
      /\ x[3] \in 1 .. Len(files[x[1]][x[2]]) /\ Len(files[x[1]][x[2]]) \in Nat
      /\ c.lastDate \in Nat /\ c.lastFile \in Nat
  <2>1. x[1] \in Streams /\ x[2] \in Dates /\ x[2] \in Nat /\ x[3] \in Nat
        /\ x[3] \in 1 .. Len(files[x[1]][x[2]])
    BY PositionFacts
  <2>2. Len(files[x[1]][x[2]]) \in Nat
    BY <2>1, FilesType
  <2>3. mem \in State
    BY DEF Inv, TypeOk
  <2>4. QED
    BY <2>1, <2>2, <2>3, StateFacts
<1>2. CASE ~ShouldScanIndex(x[1], x[2])
  <2>1. /\ ~(x[2] > c.lastDate)
        /\ ~(x[2] = c.lastDate /\ Len(files[x[1]][x[2]]) > c.lastFile)
    BY <1>2 DEF ShouldScanIndex
  <2>2. x[2] < c.lastDate \/ (x[2] = c.lastDate /\ x[3] <= c.lastFile)
    BY <1>1, <2>1
  <2>3. QED
    BY <2>2 DEF PassedAt, Passed
<1>3. CASE x[2] > 0 /\ ~ShouldScanDate(x[1], x[2])
  <2>1. mem.cursors[<<x[1][1], x[1][2], 0>>] = c
    BY <1>1, <1>3, DateCursor
  <2>2. ~(x[2] >= c.lastDate)
    BY <1>3, <2>1 DEF ShouldScanDate
  <2>3. x[2] < c.lastDate
    BY <1>1, <2>2
  <2>4. QED
    BY <2>3 DEF PassedAt, Passed
<1>4. QED
  BY <1>2, <1>3

(* What is found of a stream goes with its cursor: a file that is being    *)
(* read is in the range of its date, which is found too.                   *)
LEMMA FoundRange ==
  ASSUME Inv, NEW s \in Streams, NEW d \in Dates, Found(s, d), CursorOk(s, mem.cursors[s])
  PROVE  LET c == mem.cursors[s]
         IN /\ c.lastDate <= d /\ Len(files[s][d]) > 0
            /\ c.row > 0 => /\ c.curDate \in Dates /\ c.curDate <= d
                            /\ c.curFile <= Len(files[s][c.curDate])
                            /\ Found(s, c.curDate)
<1> DEFINE c == mem.cursors[s]
<1>1. /\ c.lastDate \in Nat /\ c.lastFile \in Nat /\ c.curDate \in Nat /\ c.curFile \in Nat
      /\ c.row \in Nat /\ d \in Nat /\ Dates \subseteq Nat
      /\ \A e \in Dates : Len(files[s][e]) \in Nat /\ files[s][e] \in Seq(Seq(Row))
  <2>1. mem \in State
    BY DEF Inv, TypeOk
  <2>2. \A e \in Dates : files[s][e] \in Seq(Seq(Row))
    BY DEF Inv, SinkInv, SinkTypeOk
  <2>3. QED
    BY <2>1, <2>2, StateFacts, FilesType
<1>2. Len(files[s][d]) > 0
  BY <1>1 DEF Found
<1>3. \/ c.row > 0 /\ c.curDate = d
      \/ c.lastDate = 0
      \/ d > c.lastDate
      \/ d = c.lastDate /\ Len(files[s][d]) > c.lastFile
  BY DEF Found, ShouldScanIndex
<1>4. ASSUME c.row > 0
      PROVE  /\ c.curDate \in Dates /\ c.lastDate <= c.curDate
             /\ c.curFile \in 1 .. Len(files[s][c.curDate])
             /\ \A e \in Dates : c.lastDate <= e /\ e < c.curDate =>
                  Len(files[s][e]) <= IF e = c.lastDate THEN c.lastFile ELSE 0
  BY <1>4 DEF CursorOk, Reach
<1>5. c.lastDate <= d
  BY <1>1, <1>3, <1>4
<1>6. ASSUME c.row > 0 PROVE c.curDate <= d
  <2> SUFFICES ASSUME d < c.curDate PROVE FALSE
    BY <1>1
  <2>1. Len(files[s][d]) <= IF d = c.lastDate THEN c.lastFile ELSE 0
    BY <1>4, <1>5, <1>6
  <2>2. d = c.lastDate /\ Len(files[s][d]) <= c.lastFile
    BY <1>1, <1>2, <2>1
  <2>3. c.lastDate = 0
    BY <1>1, <1>3, <2>2
  <2>4. Dates = {0}
    BY <2>2, <2>3, SinkAssumption DEF Dates
  <2>5. QED
    BY <1>4, <1>6, <2>2, <2>3, <2>4
<1>7. ASSUME c.row > 0 PROVE Found(s, c.curDate)
  <2>1. files[s][c.curDate] # <<>>
    BY <1>1, <1>4, <1>7
  <2>2. ShouldScanIndex(s, c.curDate)
    BY <1>7 DEF ShouldScanIndex
  <2>3. ASSUME c.curDate > 0 PROVE ShouldScanDate(s, c.curDate)
    <3>1. <<s[1], s[2], 0>> = s
      BY <1>4, <1>7, <2>3, DateCursor
    <3>2. QED
      BY <2>3, <3>1 DEF ShouldScanDate
  <2>4. QED
    BY <2>1, <2>2, <2>3 DEF Found
<1>8. QED
  BY <1>1, <1>2, <1>4, <1>5, <1>6, <1>7

(* The scan of a table takes up whatever of it the run has yet to do.      *)
LEMMA ScanTableProgress == ASSUME Inv, Progress, NEW t \in Tables, ScanTable(t) PROVE Progress'
<1>1. /\ pc = "scan" /\ t \in toScan /\ toScan' = toScan \ {t}
      /\ work' = work \cup {Marker(t, m) : m \in VisibleSchemas(t)} \cup VisibleRanges(t)
      /\ pc' = (IF toScan' = {} THEN "work" ELSE "scan")
      /\ UNCHANGED <<sinkVars, base, dest, saved, mem, ckpt>>
  BY DEF ScanTable
<1>2. Inv'
  BY ScanTableInv
<1>3. /\ Running /\ SinkOrder /\ StateOk(mem) /\ StateOk(saved)
      /\ Settled(dest, mem) /\ Settled(dest, saved)
      /\ toScan \subseteq catalog /\ catalog \subseteq loaded /\ catalog \subseteq Tables
      /\ files' = files /\ catalog' = catalog /\ loaded' = loaded
  BY <1>1, CatalogsAssumption DEF Progress, RunOk, Running, Inv, TypeOk, sinkVars, base
<1>4. \A u \in Tables : /\ VisibleSchemas(u)' = VisibleSchemas(u)
                        /\ EffectiveWatermark(u)' = EffectiveWatermark(u)
                        /\ EffectiveWatermark(u) \in Nat
                        /\ mem.wm[u] \in Nat /\ mem.wm[u] <= EffectiveWatermark(u)
  <2>1. \A u \in Tables : mem.wm[u] \in Nat /\ mem.wm[u] <= EffectiveWatermark(u)
    BY EffectiveFacts
  <2>2. \A u \in Tables : mem.wm[u] <= mem'.wm[u] /\ mem'.wm[u] = mem.wm[u]
    BY <1>1, <2>1
  <2>3. QED
    BY <1>1, <1>2, <2>1, <2>2, SameVersions, EffectiveGrows
<1>5. \A b \in work : b.t # t /\ b.t \in Tables
  BY <1>1, <1>3 DEF Running, WorkOk
<1>6. ASSUME NEW b \in work', b.kind = "dml"
      PROVE  \/ b \in work
             \/ \E s \in Streams, d \in Dates :
                  /\ s[1] = t /\ Found(s, d) /\ b = FileRange(s, d)
                  /\ StreamOf(b) = s /\ b.t = t /\ b.v = s[2] /\ b.d = d
                  /\ b.latest = Len(files[s][d])
  <2>1. b \in work \/ b \in VisibleRanges(t)
    BY <1>1, <1>6 DEF Marker
  <2>2. CASE b \in VisibleRanges(t)
    <3>1. PICK s \in Streams, d \in Dates : s[1] = t /\ Found(s, d) /\ b = FileRange(s, d)
      BY <2>2, RangesFound
    <3>2. QED
      BY <3>1, RangeParts
  <2>3. QED
    BY <2>1, <2>2
<1>7. ASSUME NEW s \in Streams, NEW d \in Dates, s[1] = t, Found(s, d), NEW f \in Nat,
             f <= Len(files[s][d])
      PROVE  Pending(s, d, f)'
  <2>1. FileRange(s, d) \in work'
    BY <1>1, <1>7, RangesFound
  <2>2. /\ StreamOf(FileRange(s, d)) = s /\ FileRange(s, d).kind = "dml" /\ FileRange(s, d).d = d
        /\ FileRange(s, d).latest = Len(files[s][d])
    BY RangeParts
  <2>3. \E b \in work' : b.kind = "dml" /\ StreamOf(b) = s /\ b.d = d /\ f <= b.latest
    BY <1>7, <2>1, <2>2
  <2>4. QED
    BY <2>3 DEF Pending, StreamOf
<1>8. \A s, d, f : Pending(s, d, f) => Pending(s, d, f)'
  BY <1>1 DEF Pending, StreamOf
<1>9. MarkersDue'
  <2>1. ASSUME NEW u \in catalog \ toScan', NEW m \in VisibleSchemas(u)
        PROVE  Marker(u, m) \in work' \/ m.v <= EffectiveWatermark(u)
    <3>1. CASE u = t
      BY <1>1, <3>1
    <3>2. CASE u # t
      BY <1>1, <1>3, <3>2 DEF Running, MarkersDue
    <3>3. QED
      BY <3>1, <3>2
  <2>2. QED
    BY <1>3, <1>4, <2>1 DEF MarkersDue, Marker
<1>10. RowsDue'
  <2>1. ASSUME NEW x \in Positions, x[1][1] \in catalog \ toScan', DueAt(x)'
        PROVE  \/ x[1][2] < EffectiveWatermark(x[1][1])
               \/ PassedAt(mem, x)
               \/ Pending(x[1], x[2], x[3])'
    <3>1. /\ x[1] \in Streams /\ x[2] \in Dates /\ x[3] \in Nat
          /\ x[3] \in 1 .. Len(files[x[1]][x[2]]) /\ x[1][1] \in Tables
          /\ x[1][2] \in Nat /\ RowAt(x).ts \in Nat
      BY PositionFacts
    <3>2. RowAt(x).ts <= ckpt \/ \E b \in work' : b.kind = "dml" /\ StreamOf(b) = x[1] /\ x[2] < b.d
      BY <1>1, <2>1, QuietPositions DEF DueAt, StreamOf
    <3>3. CASE x[1][1] # t
      <4>1. ASSUME NEW b \in work', b.kind = "dml", StreamOf(b) = x[1] PROVE b \in work
        BY <1>6, <3>3, <4>1
      <4>2. DueAt(x)
        BY <3>2, <4>1 DEF DueAt
      <4>3. x[1][1] \in catalog \ toScan
        BY <1>1, <2>1, <3>3
      <4>4. QED
        BY <1>3, <1>8, <4>2, <4>3 DEF Running, RowsDue
    <3>4. CASE x[1][1] = t
      <4>1. SUFFICES ASSUME ~(x[1][2] < EffectiveWatermark(t)), ~PassedAt(mem, x)
                     PROVE  Pending(x[1], x[2], x[3])'
        BY <3>4
      <4>2. x[1][2] <= ckpt
        <5>1. CASE RowAt(x).ts <= ckpt
          <6>1. x[1][2] < RowAt(x).ts /\ ckpt \in Nat
            BY <1>3, RowVersion, BoundsType
          <6>2. QED
            BY <3>1, <5>1, <6>1
        <5>2. CASE \E b \in work' : b.kind = "dml" /\ StreamOf(b) = x[1]
          <6>1. PICK b \in work' : b.kind = "dml" /\ StreamOf(b) = x[1]
            BY <5>2
          <6>2. b \notin work
            BY <1>5, <3>4, <6>1 DEF StreamOf
          <6>3. PICK s \in Streams, d \in Dates : /\ s[1] = t /\ Found(s, d) /\ StreamOf(b) = s
            BY <1>6, <6>1, <6>2
          <6>4. QED
            BY <6>1, <6>3 DEF Found, VisibleSchemas
        <5>3. QED
          BY <3>2, <5>1, <5>2
      <4>3. PICK m \in schemas[t] : m.v = x[1][2]
        BY <1>3, <3>4, RowVersion
      <4>4. m \in VisibleSchemas(t)
        BY <4>2, <4>3 DEF VisibleSchemas
      <4>5. x[1][2] >= mem.wm[t]
        BY <1>4, <3>1, <3>4, <4>1
      <4>6. files[x[1]][x[2]] # <<>>
        BY <3>1
      <4>7. ShouldScanIndex(x[1], x[2]) /\ (x[2] > 0 => ShouldScanDate(x[1], x[2]))
        BY <4>1, ScanPassesRead
      <4>8. Found(x[1], x[2])
        BY <3>4, <4>3, <4>4, <4>5, <4>6, <4>7 DEF Found
      <4>9. x[3] <= Len(files[x[1]][x[2]])
        BY <3>1
      <4>10. QED
        BY <1>7, <3>1, <3>4, <4>8, <4>9
    <3>5. QED
      BY <3>3, <3>4
  <2>2. \A x \in Positions : x[1][1] \in Tables
    BY PositionFacts
  <2>3. QED
    BY <1>1, <1>3, <1>4, <2>1, <2>2, QuietPositions DEF RowsDue, PassedAt, Passed
<1>11. WorkOk'
  <2>1. ASSUME NEW b \in work' PROVE b.t \in catalog \ toScan'
    <3>1. CASE b \in work
      BY <1>1, <1>3, <1>5, <3>1 DEF Running, WorkOk
    <3>2. CASE b.kind = "dml"
      BY <1>1, <1>3, <1>5, <1>6, <3>2 DEF Running, WorkOk
    <3>3. CASE \E m \in VisibleSchemas(t) : b = Marker(t, m)
      BY <1>1, <1>3, <3>3 DEF Marker
    <3>4. b \in VisibleRanges(t) => b.kind = "dml"
      BY DEF VisibleRanges, FileRange
    <3>5. QED
      BY <1>1, <3>1, <3>2, <3>3, <3>4
  <2>2. ASSUME NEW s \in Streams, NEW d \in Dates, Found(s, d)
        PROVE  /\ mem.cursors[s].lastDate <= d /\ Len(files[s][d]) > 0
               /\ mem.cursors[s].row > 0 =>
                    /\ mem.cursors[s].curDate \in Dates /\ mem.cursors[s].curDate <= d
                    /\ mem.cursors[s].curFile <= Len(files[s][mem.cursors[s].curDate])
                    /\ Found(s, mem.cursors[s].curDate)
    <3>1. CursorOk(s, mem.cursors[s])
      BY <1>3 DEF StateOk, CursorsOk
    <3>2. QED
      BY <2>2, <3>1, FoundRange
  <2>3. ASSUME NEW b \in work', b.kind = "dml" PROVE b.latest > 0
    <3>1. CASE b \in work
      BY <1>3, <2>3, <3>1 DEF Running, WorkOk
    <3>2. CASE b \notin work
      BY <1>6, <2>2, <2>3, <3>2
    <3>3. QED
      BY <3>1, <3>2
  <2>4. ASSUME NEW b \in work', b.kind = "dml", b.v >= EffectiveWatermark(b.t)
        PROVE  RangeOk(b)'
    <3>1. CASE b \in work
      <4>1. RangeOk(b)
        BY <1>3, <2>4, <3>1 DEF Running, WorkOk
      <4>2. QED
        BY <1>1, <1>8, <4>1 DEF RangeOk, StreamOf
    <3>2. CASE b \notin work
      <4>1. PICK s \in Streams, d \in Dates :
               /\ s[1] = t /\ Found(s, d) /\ StreamOf(b) = s /\ b.d = d
               /\ b.latest = Len(files[s][d])
        BY <1>6, <2>4, <3>2
      <4>2. PICK c : c = mem.cursors[s]
        OBVIOUS
      <4>3. c.lastDate <= d /\ (c.row > 0 => c.curDate \in Dates /\ c.curDate <= d
                                  /\ c.curFile <= Len(files[s][c.curDate]) /\ Found(s, c.curDate))
        BY <2>2, <4>1, <4>2
      <4>4. c.curFile \in Nat
        BY <4>2, StateFacts DEF Inv, TypeOk
      <4>5. c.row > 0 => Pending(s, c.curDate, c.curFile)'
        BY <1>7, <4>1, <4>3, <4>4
      <4>6. StreamOf(b)' = s /\ mem'.cursors[s] = c
        BY <1>1, <4>1, <4>2 DEF StreamOf
      <4>7. QED
        BY <4>1, <4>3, <4>5, <4>6 DEF RangeOk
    <3>3. QED
      BY <3>1, <3>2
  <2>5. ASSUME NEW a \in work', NEW b \in work', a.kind = "dml", b.kind = "dml",
               StreamOf(a) = StreamOf(b), a.d = b.d
        PROVE  a = b
    <3>1. a.t = b.t
      BY <2>5 DEF StreamOf
    <3>2. CASE a \in work /\ b \in work
      BY <1>3, <2>5, <3>2 DEF Running, WorkOk
    <3>3. CASE a \notin work /\ b \notin work
      BY <1>6, <2>5, <3>3
    <3>4. ~(a \in work /\ b \notin work) /\ ~(a \notin work /\ b \in work)
      BY <1>5, <1>6, <2>5, <3>1
    <3>5. QED
      BY <3>2, <3>3, <3>4
  <2>6. \A b \in work' : b.t \in Tables
    BY <1>3, <2>1
  <2>7. QED
    BY <1>3, <1>4, <2>1, <2>3, <2>4, <2>5, <2>6 DEF WorkOk, StreamOf
<1>12. StateOk(mem)' /\ StateOk(saved)' /\ Settled(dest, mem)' /\ Settled(dest, saved)' /\ SinkOrder'
  <2>1. StateOk(mem') /\ StateOk(saved') /\ Settled(dest', mem') /\ Settled(dest', saved')
    BY <1>1, <1>3
  <2>2. QED
    BY <1>1, <1>3, <2>1, QuietState, QuietSettled, QuietPositions
<1>13. Ahead(mem, saved)' /\ DestBounded' /\ ReadingOk'
  <2>1. Ahead(mem', saved')
    BY <1>1, <1>3 DEF Running
  <2>2. QED
    BY <1>1, <1>3, <2>1, QuietAhead DEF Running, DestBounded, ReadingOk, base
<1>14. Running'
  BY <1>1, <1>3, <1>9, <1>10, <1>11, <1>13 DEF Running
<1>15. QED
  BY <1>1, <1>12, <1>14 DEF Progress, RunOk

-----------------------------------------------------------------------------
(* At first no state has anything behind it.                               *)
LEMMA InitProgress == Init => Progress
<1> SUFFICES ASSUME Init PROVE Progress
  OBVIOUS
<1>1. /\ SinkInit /\ saved = InitialState /\ mem = InitialState /\ pc = "idle" /\ work = {}
      /\ loaded = {} /\ Inv
  BY InitInv DEF Init
<1>2. SinkOrder
  BY <1>1, InitSinkOrder
<1>3. /\ \A s \in Streams : InitialState.cursors[s] = NoCursor
      /\ \A t \in Tables : InitialState.wm[t] = 0
  BY DEF InitialState
<1>4. \A x \in Positions : ~PassedAt(InitialState, x)
  BY <1>1, <1>3, NothingPassed, PositionFacts
<1>5. StateOk(InitialState)
  <2>1. \A s \in Streams : CursorOk(s, NoCursor)
    BY <1>1, FilesType DEF CursorOk, NoCursor
  <2>2. QED
    BY <1>1, <1>3, <1>4, <2>1 DEF StateOk, WatermarkOk, CursorsOk, PassedOk
<1>6. Settled(dest, InitialState)
  BY <1>1 DEF Settled, RowsSettled, TruncatesSettled
<1>7. QED
  BY <1>1, <1>2, <1>5, <1>6 DEF Progress, RunOk

(* A step that changes nothing.                                            *)
LEMMA StutterProgress == Inv /\ Progress /\ UNCHANGED vars => Progress'
<1> SUFFICES ASSUME Inv, Progress, UNCHANGED vars PROVE Progress'
  OBVIOUS
<1>1. UNCHANGED <<sinkVars, base, dest, saved, mem, pc, ckpt, toScan, work, item, at>>
  BY DEF vars, connVars, runVars
<1>2. /\ SinkOrder /\ StateOk(mem') /\ StateOk(saved')
      /\ Settled(dest', mem') /\ Settled(dest', saved') /\ RunOk
  BY <1>1 DEF Progress
<1>3. SinkOrder' /\ StateOk(mem)' /\ StateOk(saved)' /\ Settled(dest, mem)' /\ Settled(dest, saved)'
  BY <1>1, <1>2, QuietPositions, QuietState, QuietSettled
<1>4. CASE pc = "idle"
  BY <1>1, <1>2, <1>3, <1>4 DEF RunOk, Progress
<1>5. CASE pc # "idle"
  <2>1. Running /\ UNCHANGED <<files, schemas, catalog, loaded, snap>>
    BY <1>1, <1>2, <1>5 DEF RunOk, sinkVars, base
  <2>2. Ahead(mem, saved)'
    <3>1. Ahead(mem', saved')
      BY <1>1, <2>1 DEF Running
    <3>2. QED
      BY <1>1, <3>1, QuietAhead
  <2>3. /\ \A t : VisibleSchemas(t)' = VisibleSchemas(t)
        /\ \A t : EffectiveWatermark(t)' = EffectiveWatermark(t)
    BY <1>1, <2>1 DEF VisibleSchemas, EffectiveWatermark, Baseline
  <2>4. \A s, d, f : Pending(s, d, f)' <=> Pending(s, d, f)
    BY <1>1 DEF Pending, stream, StreamOf
  <2>5. MarkersDue'
    BY <1>1, <2>1, <2>3 DEF Running, MarkersDue, Marker
  <2>6. RowsDue'
    <3>1. Positions' = Positions /\ \A x : (DueAt(x)' <=> DueAt(x)) /\ (PassedAt(mem, x)' <=> PassedAt(mem, x))
      BY <1>1, QuietPositions DEF DueAt, StreamOf, PassedAt, Passed
    <3>2. QED
      BY <1>1, <2>1, <2>3, <2>4, <3>1 DEF Running, RowsDue
  <2>7. WorkOk'
    <3>1. \A b : RangeOk(b)' <=> RangeOk(b)
      BY <1>1, <2>4 DEF RangeOk, StreamOf
    <3>2. QED
      BY <1>1, <2>1, <2>3, <3>1 DEF Running, WorkOk, StreamOf
  <2>8. ReadingOk'
    <3>1. stream' = stream /\ cursor' = cursor /\ Rows' = Rows
      BY <1>1, <2>1 DEF stream, cursor, Rows, StreamOf
    <3>2. Reach(stream, cursor, item.d, at.file)' <=> Reach(stream, cursor, item.d, at.file)
      BY <1>1, <2>1, <3>1 DEF Reach
    <3>3. EffectiveWatermark(item.t)' = EffectiveWatermark(item.t)
      BY <1>1, <2>3
    <3>4. QED
      BY <1>1, <2>1, <3>1, <3>2, <3>3 DEF Running, ReadingOk, StreamOf
  <2>9. DestBounded'
    BY <1>1, <2>1 DEF Running, DestBounded
  <2>10. Running'
    BY <1>1, <2>1, <2>2, <2>5, <2>6, <2>7, <2>8, <2>9 DEF Running
  <2>11. QED
    BY <1>1, <1>3, <1>5, <2>10 DEF Progress, RunOk
<1>6. QED
  BY <1>4, <1>5

(* Every step keeps what makes progress.                                   *)
LEMMA NextProgress == Inv /\ Progress /\ [Next]_vars => Progress'
<1> SUFFICES ASSUME Inv, Progress, [Next]_vars PROVE Progress'
  OBVIOUS
<1>1. CASE SinkStep
  BY <1>1, SinkStepProgress
<1>2. CASE \E c \in Versions, S \in SUBSET Tables : LoadSnapshot(c, S)
  BY <1>2, LoadSnapshotProgress
<1>3. CASE StartRun
  BY <1>3, StartRunProgress
<1>4. CASE \E t \in Tables : ScanTable(t)
  BY <1>4, ScanTableProgress
<1>5. CASE \E it \in work : SkipMarker(it) \/ SkipOldRange(it)
  BY <1>5, SkipItemProgress
<1>6. CASE \E it \in work : HandleMarker(it)
  BY <1>6, HandleMarkerProgress
<1>7. CASE \E it \in work : SkipReadRange(it)
  BY <1>7, SkipReadRangeProgress
<1>8. CASE \E it \in work : OpenRange(it)
  BY <1>8, OpenRangeProgress
<1>9. CASE SkipRow
  BY <1>9, SkipRowProgress
<1>10. CASE EmitRow
  BY <1>10, EmitRowProgress
<1>11. CASE FinishFile
  BY <1>11, FinishFileProgress
<1>12. CASE StopAtCheckpoint
  BY <1>12, StopAtCheckpointProgress
<1>13. CASE FinishRun \/ SkipRun \/ FailSnapshot
  BY <1>13, EndOfRunProgress
<1>14. CASE RaiseFallback \/ Crash
  BY <1>14, CrashProgress
<1>15. CASE CrashAfterRow
  BY <1>15, CrashAfterRowProgress
<1>16. CASE \E it \in work : CrashAfterTruncate(it)
  BY <1>16, CrashAfterTruncateProgress
<1>17. CASE \E C \in Catalogs : Refilter(C)
  BY <1>17, RefilterProgress
<1>18. CASE UNCHANGED vars
  BY <1>18, StutterProgress
<1>19. QED
  BY <1>1, <1>2, <1>3, <1>4, <1>5, <1>6, <1>7, <1>8, <1>9, <1>10, <1>11, <1>12, <1>13, <1>14,
     <1>15, <1>16, <1>17, <1>18 DEF Next, RunStep, CrashStep

(* The invariant behind the properties of what is delivered.               *)
THEOREM ProgressInvariance == Spec => [](Inv /\ Progress)
<1>1. Init => Inv /\ Progress
  BY InitInv, InitProgress
<1>2. Inv /\ Progress /\ [Next]_vars => (Inv /\ Progress)'
  BY NextInv, NextProgress
<1>3. QED
  BY <1>1, <1>2, PTL DEF Spec
=============================================================================
