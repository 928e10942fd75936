---------------------- MODULE IncrementalAlarmProofs ------------------------
(***************************************************************************)
(* Proofs about how often IncrementalSync repeats itself: the commit-ts    *)
(* fallback error is raised only at a row that was read before, never when *)
(* the sink writes each row once, and a crash repeats fewer rows than the  *)
(* checkpoint interval.                                                    *)
(***************************************************************************)
EXTENDS IncrementalDeliveryProofs, FiniteSetTheorems

(* The row at x is written before the one at y, in the same stream.        *)
Before(x, y) ==
  /\ x[1] = y[1]
  /\ \/ x[2] < y[2]
     \/ x[2] = y[2] /\ x[3] < y[3]
     \/ x[2] = y[2] /\ x[3] = y[3] /\ x[4] < y[4]

WrittenBefore(r, y) == \E z \in Positions : RowAt(z) = r /\ Before(z, y)

(* A restart writes rows again, but the first time a row is written no     *)
(* later one of its stream has been.                                       *)
FilesSorted ==
  \A x, y \in Positions : x[1] = y[1] /\ RowAt(y).ts < RowAt(x).ts => WrittenBefore(RowAt(y), x)

BufferNew ==
  \A x \in Positions : \A r \in SeqRange(buf[x[1]]) :
    r.ts < RowAt(x).ts => WrittenBefore(r, x)

BufferSorted ==
  \A s \in Streams : \A i, j \in 1 .. Len(buf[s]) : i < j => buf[s][i].ts <= buf[s][j].ts

SinkSorted == FilesSorted /\ BufferNew /\ BufferSorted

(* A row that was written before a position stays so.                      *)
LEMMA StaysWritten ==
  ASSUME Inv, SinkAdds, Inv', NEW r, NEW y, WrittenBefore(r, y)
  PROVE  \E z \in Positions' : RowAt(z)' = r /\ Before(z, y)
<1>1. PICK z \in Positions : RowAt(z) = r /\ Before(z, y)
  BY DEF WrittenBefore
<1>2. z \in Positions' /\ RowAt(z)' = r
  BY <1>1, OldPosition
<1>3. QED
  BY <1>1, <1>2

(* A step that adds no file.                                               *)
LEMMA SamePositions ==
  ASSUME UNCHANGED files
  PROVE  Positions' = Positions /\ \A x : RowAt(x)' = RowAt(x)
BY DEF Positions, RowAt

(* The rows of a stream in the files are rows of the table.                *)
LEMMA BufferFacts ==
  ASSUME Inv, NEW s \in Streams
  PROVE  /\ buf[s] \in Seq(Row) /\ Len(buf[s]) \in Nat
         /\ \A i \in 1 .. Len(buf[s]) : buf[s][i].ts \in Nat /\ buf[s][i] \in SeqRange(buf[s])
         /\ \A r \in SeqRange(buf[s]) : r \in Row /\ r.ts \in Nat /\ r.ts <= clock
<1>1. buf[s] \in Seq(Row) /\ Len(buf[s]) \in Nat
  BY DEF Inv, SinkInv, SinkTypeOk
<1>2. \A r \in SeqRange(buf[s]) : r \in Row /\ r.ts <= clock
  BY StreamParts, RowsOfMember DEF Inv, SinkInv
<1>3. \A r \in Row : r.ts \in Nat
  BY SinkAssumption DEF Row, Versions
<1>4. \A i \in 1 .. Len(buf[s]) : buf[s][i] \in SeqRange(buf[s])
  BY DEF SeqRange
<1>5. QED
  BY <1>1, <1>2, <1>3, <1>4

(* No row of a file is above the clock.                                    *)
LEMMA PositionClock ==
  ASSUME Inv, NEW x \in Positions
  PROVE  RowAt(x).ts <= clock
<1>1. x[1][1] \in Tables /\ RowAt(x) \in RowsOf(x[1][1])
  BY PositionFacts
<1>2. QED
  BY <1>1 DEF Inv, SinkInv

(* A row that is committed is later than every row of its stream.          *)
LEMMA CommitRowSorted ==
  ASSUME Inv, Inv', SinkSorted, SinkOrder, NEW t \in Tables, NEW k \in Keys, NEW op \in Ops,
         NEW ts \in Versions, CommitRow(t, k, op, ts)
  PROVE  SinkSorted'
<1> DEFINE latest == CHOOSE m \in schemas[t] : \A n \in schemas[t] : n.v <= m.v
           s0     == <<t, latest.v, PartitionOf[k]>>
           row    == [ts |-> ts, key |-> k, op |-> op]
<1>1. /\ clock \in Nat /\ ts \in Nat /\ clock <= ts /\ row.ts = ts /\ row \in Row
      /\ buf \in [Streams -> Seq(Row)]
  <2>1. clock \in Nat /\ buf \in [Streams -> Seq(Row)]
    BY BoundsType DEF Inv, SinkInv, SinkTypeOk
  <2>2. ts \in {clock, clock + 1} /\ ts \in Nat
    BY SinkAssumption DEF CommitRow, Versions
  <2>3. row.ts = ts /\ row \in Row
    BY DEF Row
  <2>4. QED
    BY <2>1, <2>2, <2>3
<1>2. UNCHANGED files /\ buf' = [buf EXCEPT ![s0] = Append(@, row)]
  BY DEF CommitRow
<1> HIDE DEF latest, s0, row
<1>3. \A s \in Streams : buf'[s] = buf[s] \/ buf'[s] = Append(buf[s], row)
  BY <1>1, <1>2
<1>4. Positions' = Positions /\ \A x : RowAt(x)' = RowAt(x)
  BY <1>2, SamePositions
<1>5. \A r, y : WrittenBefore(r, y)' <=> WrittenBefore(r, y)
  BY <1>4 DEF WrittenBefore, Before
<1>6. FilesSorted'
  BY <1>4, <1>5 DEF SinkSorted, FilesSorted
<1>7. ASSUME NEW x \in Positions, NEW r \in SeqRange(buf'[x[1]]), r.ts < RowAt(x).ts
      PROVE  WrittenBefore(r, x)
  <2>1. x[1] \in Streams /\ buf[x[1]] \in Seq(Row) /\ RowAt(x).ts \in Nat /\ RowAt(x).ts <= clock
    BY <1>1, PositionFacts, PositionClock
  <2>2. r \in SeqRange(buf[x[1]]) \/ r = row
    <3>1. CASE buf'[x[1]] = buf[x[1]]
      BY <1>7, <3>1
    <3>2. CASE buf'[x[1]] = Append(buf[x[1]], row)
      <4>1. SeqRange(buf'[x[1]]) = SeqRange(buf[x[1]]) \cup {row}
        BY <1>1, <2>1, <3>2, AppendRange
      <4>2. QED
        BY <1>7, <4>1
    <3>3. QED
      BY <1>3, <2>1, <3>1, <3>2
  <2>3. r # row
    BY <1>1, <1>7, <2>1
  <2>4. QED
    BY <1>7, <2>2, <2>3 DEF SinkSorted, BufferNew
<1>8. BufferNew'
  BY <1>4, <1>5, <1>7 DEF BufferNew, SeqRange
<1>9. ASSUME NEW s \in Streams, NEW i \in 1 .. Len(buf'[s]), NEW j \in 1 .. Len(buf'[s]), i < j
      PROVE  buf'[s][i].ts <= buf'[s][j].ts
  <2>1. CASE buf'[s] = buf[s]
    BY <1>9, <2>1 DEF SinkSorted, BufferSorted
  <2>2. CASE buf'[s] = Append(buf[s], row)
    <3>1. buf[s] \in Seq(Row) /\ Len(buf[s]) \in Nat
      BY <1>1
    <3>2. /\ Len(buf'[s]) = Len(buf[s]) + 1
          /\ \A n \in 1 .. Len(buf[s]) : buf'[s][n] = buf[s][n]
          /\ buf'[s][Len(buf[s]) + 1] = row
      BY <1>1, <2>2, <3>1
    <3>3. CASE j \in 1 .. Len(buf[s])
      <4>1. i \in 1 .. Len(buf[s])
        BY <1>9, <3>1, <3>3
      <4>2. QED
        BY <1>9, <3>2, <3>3, <4>1 DEF SinkSorted, BufferSorted
    <3>4. CASE j = Len(buf[s]) + 1
      <4>1. i \in 1 .. Len(buf[s]) /\ buf'[s][j] = row
        BY <1>9, <3>1, <3>2, <3>4
      <4>2. buf[s][i].ts \in Nat /\ buf[s][i].ts <= clock
        BY <4>1, BufferFacts
      <4>3. QED
        BY <1>1, <3>2, <4>1, <4>2
    <3>5. QED
      BY <3>1, <3>2, <3>3, <3>4
  <2>3. QED
    BY <1>3, <2>1, <2>2
<1>10. BufferSorted'
  BY <1>9 DEF BufferSorted
<1>11. QED
  BY <1>6, <1>8, <1>10 DEF SinkSorted

(* A restart sorts what it writes again, all of which is in a file already *)
(* or was buffered.                                                        *)
LEMMA RestartSorted ==
  ASSUME Inv, Inv', SinkSorted, SinkOrder, NEW s0 \in Streams, Restart(s0)
  PROVE  SinkSorted'
<1>1. PICK q \in Resendings(s0) : buf' = [buf EXCEPT ![s0] = q]
  BY DEF Restart
<1>2. PICK n \in Nat : /\ q \in [1 .. n -> Resent(s0)] /\ SeqRange(q) = Resent(s0)
                       /\ \A i, j \in 1 .. n : i < j => q[i].ts <= q[j].ts
  BY SinkAssumption DEF Resendings
<1>3. buf \in [Streams -> Seq(Row)] /\ UNCHANGED files
  BY DEF Restart, Inv, SinkInv, SinkTypeOk
<1>4. Positions' = Positions /\ \A x : RowAt(x)' = RowAt(x)
  BY <1>3, SamePositions
<1>5. \A r, y : WrittenBefore(r, y)' <=> WrittenBefore(r, y)
  BY <1>4 DEF WrittenBefore, Before
<1>6. FilesSorted'
  BY <1>4, <1>5 DEF SinkSorted, FilesSorted
<1>7. ASSUME NEW x \in Positions, NEW r \in SeqRange(buf'[x[1]]), r.ts < RowAt(x).ts
      PROVE  WrittenBefore(r, x)
  <2>1. x[1] \in Streams
    BY PositionFacts
  <2>2. r \in SeqRange(buf[x[1]]) \/ r \in FileRows(x[1])
    BY <1>1, <1>2, <1>3, <2>1 DEF Resent
  <2>3. CASE r \in SeqRange(buf[x[1]])
    BY <1>7, <2>3 DEF SinkSorted, BufferNew
  <2>4. CASE r \in FileRows(x[1])
    <3>1. PICK y \in Positions : y[1] = x[1] /\ RowAt(y) = r
      BY <2>1, <2>4, PositionOf
    <3>2. QED
      BY <1>7, <3>1 DEF SinkSorted, FilesSorted
  <2>5. QED
    BY <2>2, <2>3, <2>4
<1>8. BufferNew'
  BY <1>4, <1>5, <1>7 DEF BufferNew, SeqRange
<1>9. Len(q) = n
  BY <1>2
<1>10. ASSUME NEW s \in Streams, NEW i \in 1 .. Len(buf'[s]), NEW j \in 1 .. Len(buf'[s]), i < j
       PROVE  buf'[s][i].ts <= buf'[s][j].ts
  <2>1. CASE s = s0
    <3>1. buf'[s] = q
      BY <1>1, <1>3, <2>1
    <3>2. QED
      BY <1>2, <1>9, <1>10, <3>1
  <2>2. CASE s # s0
    <3>1. buf'[s] = buf[s]
      BY <1>1, <1>3, <2>2
    <3>2. QED
      BY <1>10, <3>1 DEF SinkSorted, BufferSorted
  <2>3. QED
    BY <2>1, <2>2
<1>11. BufferSorted'
  BY <1>10 DEF BufferSorted
<1>12. QED
  BY <1>6, <1>8, <1>11 DEF SinkSorted

(* Positions of what the stream s has in its files, and of what its buffer *)
(* is flushed to.                                                          *)
OfFiles(s, x) ==
  x \in Positions /\ x[2] <= date /\ (x[1] = s /\ x[2] = date => x[3] <= Len(files[s][date]))

OfBuffer(s, x) ==
  x[1] = s /\ x[2] = date /\ x[3] = Len(files[s][date]) + 1 /\ x[4] \in 1 .. Len(buf[s])

(* The rows of a flush are the last of their stream.                       *)
LEMMA FlushPosition ==
  ASSUME Inv, Inv', SinkOrder, NEW s0 \in Streams, Flush(s0), NEW x \in Positions'
  PROVE  \/ OfFiles(s0, x) /\ RowAt(x)' = RowAt(x)
         \/ OfBuffer(s0, x) /\ RowAt(x)' = buf[s0][x[4]]
<1>1. /\ x[1] \in Streams /\ x[2] \in Dates
      /\ x[3] \in 1 .. Len(files'[x[1]][x[2]])
      /\ x[4] \in 1 .. Len(files'[x[1]][x[2]][x[3]])
      /\ x = <<x[1], x[2], x[3], x[4]>>
      /\ RowAt(x)' = files'[x[1]][x[2]][x[3]][x[4]]
  BY PositionsNext DEF PositionsOk
<1>2. /\ date \in Dates /\ date \in Nat /\ Dates \subseteq Nat
      /\ files \in [Streams -> [Dates -> Seq(Seq(Row))]] /\ buf \in [Streams -> Seq(Row)]
  BY FilesType DEF Inv, SinkInv, SinkTypeOk
<1>3. CASE x[1] = s0 /\ x[2] = date
  <2>1. files'[s0][date] = Append(files[s0][date], buf[s0])
    BY <1>2 DEF Flush
  <2>2. files[s0][date] \in Seq(Seq(Row)) /\ buf[s0] \in Seq(Row)
    BY <1>2
  <2> DEFINE n == Len(files[s0][date])
  <2>3. /\ n \in Nat /\ Len(files'[s0][date]) = n + 1
        /\ \A i \in 1 .. n : files'[s0][date][i] = files[s0][date][i]
        /\ files'[s0][date][n + 1] = buf[s0]
    BY <2>1, <2>2
  <2> HIDE DEF n
  <2>4. CASE x[3] \in 1 .. n
    <3>1. <<x[1], x[2], x[3], x[4]>> \in Positions
          /\ RowAt(<<x[1], x[2], x[3], x[4]>>) = files[s0][date][x[3]][x[4]]
      <4>1. x[3] \in 1 .. Len(files[s0][date]) /\ files'[s0][date][x[3]] = files[s0][date][x[3]]
        BY <2>3, <2>4 DEF n
      <4>2. x[4] \in 1 .. Len(files[s0][date][x[3]])
        BY <1>1, <1>3, <4>1
      <4>3. <<s0, date, x[3], x[4]>> \in Positions
            /\ RowAt(<<s0, date, x[3], x[4]>>) = files[s0][date][x[3]][x[4]]
        BY <1>2, <4>1, <4>2, PositionIn
      <4>4. QED
        BY <1>3, <4>3
    <3>2. x \in Positions /\ RowAt(x) = files[s0][date][x[3]][x[4]]
      BY <1>1, <3>1
    <3>3. RowAt(x)' = RowAt(x) /\ x[3] <= n
      BY <1>1, <1>3, <2>3, <2>4, <3>2
    <3>4. QED
      BY <1>2, <1>3, <3>2, <3>3 DEF n, OfFiles
  <2>5. CASE x[3] = n + 1
    <3>1. files'[x[1]][x[2]][x[3]] = buf[s0]
      BY <1>3, <2>3, <2>5
    <3>2. QED
      BY <1>1, <1>3, <2>5, <3>1 DEF n, OfBuffer
  <2>6. QED
    BY <1>1, <1>3, <2>3, <2>4, <2>5
<1>4. CASE ~(x[1] = s0 /\ x[2] = date)
  <2>1. files'[x[1]][x[2]] = files[x[1]][x[2]]
    BY <1>1, <1>2, <1>4 DEF Flush
  <2>2. <<x[1], x[2], x[3], x[4]>> \in Positions
        /\ RowAt(<<x[1], x[2], x[3], x[4]>>) = files[x[1]][x[2]][x[3]][x[4]]
    BY <1>1, <2>1, PositionIn
  <2>3. x[2] <= date
    <3>1. Len(files[x[1]][x[2]]) \in Nat
      BY <1>1, FilesType
    <3>2. Len(files[x[1]][x[2]]) > 0
      BY <1>1, <2>1, <3>1
    <3>3. QED
      BY <1>1, <3>2 DEF SinkOrder
  <2>4. QED
    BY <1>1, <1>4, <2>1, <2>2, <2>3 DEF OfFiles
<1>5. QED
  BY <1>3, <1>4

(* What was not written before is now, in order.                           *)
LEMMA FlushSorted ==
  ASSUME Inv, Inv', SinkSorted, SinkOrder, NEW s0 \in Streams, Flush(s0)
  PROVE  SinkSorted'
<1>1. SinkAdds
  BY FlushOrder DEF Inv
<1>2. /\ buf \in [Streams -> Seq(Row)] /\ buf' = [buf EXCEPT ![s0] = <<>>]
      /\ date \in Nat /\ Len(files[s0][date]) \in Nat
  BY FilesType DEF Flush, Inv, SinkInv, SinkTypeOk
<1>3. \A x \in Positions' : \/ OfFiles(s0, x) /\ RowAt(x)' = RowAt(x)
                            \/ OfBuffer(s0, x) /\ RowAt(x)' = buf[s0][x[4]]
  BY FlushPosition
<1>4. ASSUME NEW x \in Positions', NEW y \in Positions', x[1] = y[1], RowAt(y)'.ts < RowAt(x)'.ts
      PROVE  \E z \in Positions' : RowAt(z)' = RowAt(y)' /\ Before(z, x)
  <2>1. CASE OfFiles(s0, x) /\ RowAt(x)' = RowAt(x)
    <3>1. CASE OfFiles(s0, y) /\ RowAt(y)' = RowAt(y)
      <4>1. PICK r : r = RowAt(y)
        OBVIOUS
      <4>2. WrittenBefore(r, x)
        BY <1>4, <2>1, <3>1, <4>1 DEF SinkSorted, FilesSorted, OfFiles
      <4>3. QED
        BY <1>1, <3>1, <4>1, <4>2, StaysWritten
    <3>2. CASE OfBuffer(s0, y) /\ RowAt(y)' = buf[s0][y[4]]
      <4>1. PICK r \in SeqRange(buf[x[1]]) : r = buf[s0][y[4]]
        BY <1>4, <3>2 DEF SeqRange, OfBuffer
      <4>2. WrittenBefore(r, x)
        BY <1>4, <2>1, <3>2, <4>1 DEF SinkSorted, BufferNew, OfFiles
      <4>3. QED
        BY <1>1, <3>2, <4>1, <4>2, StaysWritten
    <3>3. QED
      BY <1>3, <3>1, <3>2
  <2>2. CASE OfBuffer(s0, x) /\ RowAt(x)' = buf[s0][x[4]]
    <3>1. CASE OfFiles(s0, y) /\ RowAt(y)' = RowAt(y)
      <4>1. y \in Positions /\ y[2] \in Nat /\ y[3] \in Nat
        BY <3>1, PositionFacts DEF OfFiles
      <4>2. Before(y, x)
        BY <1>2, <1>4, <2>2, <3>1, <4>1 DEF Before, OfFiles, OfBuffer
      <4>3. QED
        BY <4>2
    <3>2. CASE OfBuffer(s0, y) /\ RowAt(y)' = buf[s0][y[4]]
      <4>1. /\ x[4] \in 1 .. Len(buf[s0]) /\ y[4] \in 1 .. Len(buf[s0])
            /\ buf[s0][y[4]].ts < buf[s0][x[4]].ts
        BY <1>4, <2>2, <3>2 DEF OfBuffer
      <4>2. ~(x[4] < y[4]) /\ x[4] # y[4]
        <5>1. buf[s0][y[4]].ts \in Nat /\ buf[s0][x[4]].ts \in Nat
          BY <4>1, BufferFacts
        <5>2. x[4] < y[4] => buf[s0][x[4]].ts <= buf[s0][y[4]].ts
          BY <4>1 DEF SinkSorted, BufferSorted
        <5>3. QED
          BY <4>1, <5>1, <5>2
      <4>3. y[4] < x[4]
        BY <4>1, <4>2
      <4>4. Before(y, x)
        BY <2>2, <3>2, <4>3 DEF Before, OfBuffer
      <4>5. QED
        BY <4>4
    <3>3. QED
      BY <1>3, <3>1, <3>2
  <2>3. QED
    BY <1>3, <2>1, <2>2
<1>5. FilesSorted'
  BY <1>4 DEF FilesSorted, WrittenBefore, Before
<1>6. \A s \in Streams : buf'[s] = IF s = s0 THEN <<>> ELSE buf[s]
  BY <1>2
<1>7. ASSUME NEW x \in Positions', NEW r \in SeqRange(buf'[x[1]]), r.ts < RowAt(x)'.ts
      PROVE  \E z \in Positions' : RowAt(z)' = r /\ Before(z, x)
  <2>1. x[1] \in Streams /\ x[1] # s0
    BY <1>6, <1>7, PositionsNext DEF PositionsOk, SeqRange
  <2>2. x \in Positions /\ RowAt(x)' = RowAt(x)
    BY <1>3, <2>1 DEF OfBuffer, OfFiles
  <2>3. r \in SeqRange(buf[x[1]])
    BY <1>6, <1>7, <2>1
  <2>4. WrittenBefore(r, x)
    BY <1>7, <2>2, <2>3 DEF SinkSorted, BufferNew
  <2>5. QED
    BY <1>1, <2>4, StaysWritten
<1>8. BufferNew'
  BY <1>7 DEF BufferNew, SeqRange, WrittenBefore, Before
<1>9. BufferSorted'
  BY <1>6 DEF SinkSorted, BufferSorted
<1>10. QED
  BY <1>5, <1>8, <1>9 DEF SinkSorted

(* Every step keeps the order of the streams.                              *)
LEMMA SortedStep == Inv /\ Progress /\ SinkSorted /\ Inv' /\ [Next]_vars => SinkSorted'
<1> SUFFICES ASSUME Inv, Progress, SinkSorted, Inv', [Next]_vars PROVE SinkSorted'
  OBVIOUS
<1>1. SinkOrder
  BY DEF Progress
<1>2. CASE UNCHANGED <<buf, files>>
  <2>1. Positions' = Positions /\ \A x : RowAt(x)' = RowAt(x)
    BY <1>2, SamePositions
  <2>2. \A r, y : WrittenBefore(r, y)' <=> WrittenBefore(r, y)
    BY <2>1 DEF WrittenBefore, Before
  <2>3. FilesSorted' /\ BufferNew' /\ BufferSorted'
    BY <1>2, <2>1, <2>2 DEF SinkSorted, FilesSorted, BufferNew, BufferSorted, SeqRange
  <2>4. QED
    BY <2>3 DEF SinkSorted
<1>3. CASE SinkStep
  BY <1>1, <1>2, <1>3, CommitRowSorted, FlushSorted, RestartSorted
     DEF SinkStep, RollDate, DDL, Publish
<1>4. CASE ~SinkStep
  <2>1. UNCHANGED <<buf, files>>
    BY <1>4, NextIs, QuietStepIs DEF Refilter, LoadSnapshot, vars, connVars, sinkVars
  <2>2. QED
    BY <1>2, <2>1
<1>5. QED
  BY <1>3, <1>4

(* The empty bucket is in order.                                           *)
LEMMA InitSorted == Init => SinkSorted
<1> SUFFICES ASSUME Init PROVE SinkSorted
  OBVIOUS
<1>1. Inv /\ \A s \in Streams : buf[s] = <<>> /\ \A d \in Dates : files[s][d] = <<>>
  BY InitInv DEF Init, SinkInit
<1>2. Positions = {}
  BY <1>1, PositionFacts
<1>3. QED
  BY <1>1, <1>2 DEF SinkSorted, FilesSorted, BufferNew, BufferSorted

-----------------------------------------------------------------------------
(* A commit-ts above 0 that a state keeps for a table is that of a row     *)
(* since the snapshot that the state has behind it.                        *)
TsOfRow(st) ==
  \A t \in Tables : st.tableTs[t] > 0 =>
    \E x \in Positions : /\ x[1][1] = t /\ Since(x) /\ RowAt(x).ts = st.tableTs[t]
                         /\ Behind(st, x)

(* No cursor is ahead of the commit-ts of its table.                       *)
TsOfTable(st) == \A s \in Streams : st.cursors[s].lastTs <= st.tableTs[s[1]]

TsRead(st) == TsOfRow(st) /\ TsOfTable(st)

(* The numbers compared.                                                   *)
LEMMA TsTypes ==
  ASSUME NEW st \in State
  PROVE  /\ \A t \in Tables : st.tableTs[t] \in Nat
         /\ \A s \in Streams : st.cursors[s] \in Cursor /\ st.cursors[s].lastTs \in Nat
                               /\ s[1] \in Tables
<1>1. \A s \in Streams : st.cursors[s] \in Cursor /\ s[1] \in Tables
  BY StreamParts DEF State
<1>2. \A c \in Cursor : c.lastTs \in Nat
  BY SinkAssumption DEF Cursor
<1>3. QED
  BY <1>1, <1>2, StateFacts

(* A step that leaves the bucket and the snapshot alone.                   *)
LEMMA QuietTs ==
  ASSUME UNCHANGED <<sinkVars, base>>, NEW st, TsRead(st)
  PROVE  TsRead(st)'
<1>1. Positions' = Positions /\ \A x : RowAt(x)' = RowAt(x) /\ (Since(x)' <=> Since(x))
  BY QuietPositions
<1>2. \A x : Behind(st, x)' <=> Behind(st, x)
  BY DEF Behind, PassedAt, Passed
<1>3. TsOfRow(st)'
  BY <1>1, <1>2 DEF TsRead, TsOfRow
<1>4. TsOfTable(st)'
  BY DEF TsRead, TsOfTable
<1>5. QED
  BY <1>3, <1>4 DEF TsRead

(* A step of the sink only adds.                                           *)
LEMMA SinkTs ==
  ASSUME Inv, Inv', SinkAdds, snap' = snap, NEW st, TsRead(st)
  PROVE  TsRead(st)'
<1>1. ASSUME NEW t \in Tables, st.tableTs[t] > 0
      PROVE  \E x \in Positions' : /\ x[1][1] = t /\ Since(x)' /\ RowAt(x)'.ts = st.tableTs[t]
                                   /\ Behind(st, x)'
  <2>1. PICK x \in Positions : /\ x[1][1] = t /\ Since(x) /\ RowAt(x).ts = st.tableTs[t]
                               /\ Behind(st, x)
    BY <1>1 DEF TsRead, TsOfRow
  <2>2. x \in Positions' /\ RowAt(x)' = RowAt(x)
    BY OldPosition
  <2>3. Since(x)' /\ Behind(st, x)'
    BY <2>1, <2>2 DEF Since, Behind, PassedAt, Passed
  <2>4. QED
    BY <2>1, <2>2, <2>3
<1>2. TsOfRow(st)'
  BY <1>1 DEF TsOfRow
<1>3. TsOfTable(st)'
  BY DEF TsRead, TsOfTable
<1>4. QED
  BY <1>2, <1>3 DEF TsRead

(* A cursor that moves on.                                                 *)
LEMMA CursorTs ==
  ASSUME Inv, NEW st \in State, TsRead(st), NEW s \in Streams, NEW c \in Cursor,
         c.lastTs = st.cursors[s].lastTs,
         \A x \in Positions : x[1] = s /\ PassedAt(st, x) => Passed(c, x[2], x[3], x[4])
  PROVE  TsRead(SetCursor(st, s, c))
<1> DEFINE n == SetCursor(st, s, c)
<1>1. /\ n.wm = st.wm /\ n.tableTs = st.tableTs
      /\ n.cursors[s] = c /\ \A r \in Streams \ {s} : n.cursors[r] = st.cursors[r]
  BY CursorFacts
<1> HIDE DEF n
<1>2. ASSUME NEW x \in Positions, Behind(st, x)
      PROVE  Behind(n, x)
  <2>1. x[1] \in Streams
    BY PositionFacts
  <2>2. CASE x[1] = s
    BY <1>1, <1>2, <2>2 DEF Behind, PassedAt
  <2>3. CASE x[1] # s
    BY <1>1, <1>2, <2>1, <2>3 DEF Behind, PassedAt
  <2>4. QED
    BY <2>2, <2>3
<1>3. TsOfRow(n)
  BY <1>1, <1>2 DEF TsRead, TsOfRow
<1>4. TsOfTable(n)
  BY <1>1 DEF TsRead, TsOfTable
<1>5. QED
  BY <1>3, <1>4 DEF TsRead, n

(* What is left of a state after compaction.                               *)
LEMMA CompactTs ==
  ASSUME Inv, NEW st \in State, TsRead(st), NEW C
  PROVE  TsRead(Compact(st, C))
<1> DEFINE n == Compact(st, C)
<1>1. /\ \A t \in Tables : n.tableTs[t] = IF t \in C THEN st.tableTs[t] ELSE 0
      /\ \A s \in Streams : n.cursors[s] =
              IF s[1] \notin C \/ Obsolete(st, s) THEN NoCursor ELSE st.cursors[s]
  BY CompactFacts
<1>2. \A x \in Positions : x[1][1] \in C /\ Behind(st, x) => Behind(n, x)
  BY CompactBehind
<1> HIDE DEF n
<1>3. TsOfRow(n)
  <2> SUFFICES ASSUME NEW t \in Tables, n.tableTs[t] > 0
               PROVE  \E x \in Positions : /\ x[1][1] = t /\ Since(x) /\ RowAt(x).ts = n.tableTs[t]
                                           /\ Behind(n, x)
    BY DEF TsOfRow
  <2>1. t \in C /\ n.tableTs[t] = st.tableTs[t]
    BY <1>1
  <2>2. PICK x \in Positions : /\ x[1][1] = t /\ Since(x) /\ RowAt(x).ts = st.tableTs[t]
                               /\ Behind(st, x)
    BY <2>1 DEF TsRead, TsOfRow
  <2>3. QED
    BY <1>2, <2>1, <2>2
<1>4. TsOfTable(n)
  <2> SUFFICES ASSUME NEW s \in Streams PROVE n.cursors[s].lastTs <= n.tableTs[s[1]]
    BY DEF TsOfTable
  <2>1. s[1] \in Tables /\ st.tableTs[s[1]] \in Nat /\ st.cursors[s].lastTs <= st.tableTs[s[1]]
    BY TsTypes DEF TsRead, TsOfTable
  <2>2. CASE s[1] \notin C \/ Obsolete(st, s)
    <3>1. n.cursors[s].lastTs = 0 /\ n.tableTs[s[1]] \in Nat
      BY <1>1, <2>1, <2>2 DEF NoCursor
    <3>2. QED
      BY <3>1
  <2>3. CASE ~(s[1] \notin C \/ Obsolete(st, s))
    BY <1>1, <2>1, <2>3
  <2>4. QED
    BY <2>2, <2>3
<1>5. QED
  BY <1>3, <1>4 DEF TsRead, n

(* The cursor of a range that is passed over or opened has the lastTs it   *)
(* had, and what was passed is.                                            *)
LEMMA RangeTs ==
  ASSUME Inv, Progress, TsRead(mem), NEW it \in work, SkipReadRange(it) \/ OpenRange(it)
  PROVE  TsRead(mem')
<1> DEFINE l == Looked(it)
           f == StartFile(l, it.d)
<1>1. /\ mem \in State /\ pc = "work" /\ IsNext(it) /\ it.kind = "dml"
      /\ it.v >= EffectiveWatermark(it.t)
  BY DEF SkipReadRange, OpenRange, Inv, TypeOk
<1>2. PICK s \in Streams : s = StreamOf(it)
  BY <1>1, LookedFacts
<1>3. PICK c \in Cursor : c = mem.cursors[s]
  BY <1>1, <1>2, LookedFacts
<1>4. /\ l \in Cursor /\ it.d \in Dates /\ it.d \in 0 .. MaxDate
      /\ l.lastDate = c.lastDate /\ l.lastFile = c.lastFile /\ l.curDate = c.curDate
      /\ l.curFile = c.curFile /\ l.row = c.row
  BY <1>1, <1>2, <1>3, LookedFacts, DatesType
<1>5. l.lastTs = c.lastTs
  BY <1>2, <1>3 DEF Looked, Cursor
<1>6. f \in Nat /\ (c.row > 0 => c.curDate = it.d /\ f = c.curFile)
  BY <1>1, <1>2, <1>3, RangeStart
<1>7. c.row \in Nat
  BY DEF Cursor
<1> HIDE DEF l, f
<1>8. CASE mem' = SetCursor(mem, s, l)
  <2>1. \A x \in Positions : x[1] = s /\ PassedAt(mem, x) => Passed(l, x[2], x[3], x[4])
    BY <1>3, <1>4 DEF PassedAt, Passed
  <2>2. QED
    BY <1>1, <1>3, <1>4, <1>5, <1>8, <2>1, CursorTs
<1>9. CASE mem' = SetCursor(mem, s, Opened(l, it.d, f))
  <2> DEFINE o == Opened(l, it.d, f)
  <2>1. o \in Cursor
    BY <1>4, <1>6, OpenedType
  <2>2. /\ o.lastDate = c.lastDate /\ o.lastFile = c.lastFile /\ o.row = c.row
        /\ o.lastTs = c.lastTs /\ o.curDate = it.d /\ o.curFile = f
    BY <1>4, <1>5 DEF Opened, Cursor
  <2> HIDE DEF o
  <2>3. \A x \in Positions : x[1] = s /\ PassedAt(mem, x) => Passed(o, x[2], x[3], x[4])
    BY <1>3, <1>6, <1>7, <2>2 DEF PassedAt, Passed
  <2>4. mem' = SetCursor(mem, s, o)
    BY <1>9 DEF o
  <2>5. QED
    BY <1>1, <1>3, <2>1, <2>2, <2>3, <2>4, CursorTs
<1>10. QED
  BY <1>2, <1>8, <1>9 DEF SkipReadRange, OpenRange, l, f

(* The cursor of a row that the snapshot has.                              *)
LEMMA SkipRowTs == Inv /\ Progress /\ TsRead(mem) /\ SkipRow => TsRead(mem')
<1> SUFFICES ASSUME Inv, Progress, TsRead(mem), SkipRow PROVE TsRead(mem')
  OBVIOUS
<1> DEFINE c == [cursor EXCEPT !.row = at.row + 1]
<1>1. HasRow /\ mem' = SetCursor(mem, stream, c) /\ mem \in State
  BY DEF SkipRow, Inv, TypeOk
<1>2. /\ stream \in Streams /\ cursor \in Cursor /\ cursor = mem.cursors[stream]
      /\ at.row \in Nat
  BY <1>1, StreamFacts DEF HasRow
<1>3. c \in Cursor
  <2>1. item.d \in 0 .. MaxDate /\ at.file \in Nat /\ at.row + 1 \in Nat
    BY <1>1, <1>2, StreamFacts, DatesType DEF HasRow
  <2>2. QED
    BY <1>2, <2>1, CursorTypes
<1>4. PastEvent(c) /\ c.lastTs = cursor.lastTs
  BY <1>2, <1>3 DEF PastEvent, Cursor
<1> HIDE DEF c
<1>5. \A x \in Positions : x[1] = stream /\ PassedAt(mem, x) => Passed(c, x[2], x[3], x[4])
  BY <1>1, <1>4, PastEventFacts
<1>6. PICK s \in Streams : s = stream
  BY <1>2
<1>7. \A x \in Positions : x[1] = s /\ PassedAt(mem, x) => Passed(c, x[2], x[3], x[4])
  BY <1>5, <1>6
<1>8. c.lastTs = mem.cursors[s].lastTs /\ mem' = SetCursor(mem, s, c)
  BY <1>1, <1>2, <1>4, <1>6
<1>9. QED
  BY <1>1, <1>3, <1>7, <1>8, CursorTs

(* The end of a file: saved as finished, and in memory at the next file.   *)
LEMMA FinishFileTs ==
  ASSUME Inv, Progress, TsRead(mem), FinishFile
  PROVE  TsRead(mem') /\ TsRead(saved')
<1> DEFINE c == Finished(cursor, item.d, at.file)
           o == Opened(c, item.d, at.file + 1)
<1>1. /\ pc = "read" /\ at.row >= Len(Rows) /\ saved' = SetCursor(mem, stream, c)
      /\ mem' = SetCursor(mem, stream, o) \/ mem' = SetCursor(mem, stream, c)
  BY DEF FinishFile
<1>2. PICK s \in Streams : s = stream
  BY <1>1, StreamFacts
<1>3. /\ cursor \in Cursor /\ cursor = mem.cursors[s] /\ item.d \in 0 .. MaxDate
      /\ at.file \in Nat /\ mem \in State
  <2>1. cursor \in Cursor /\ cursor = mem.cursors[stream] /\ mem \in State
    BY <1>1, StreamFacts
  <2>2. at.file \in Nat /\ item.d \in Dates
    BY <1>1, StreamFacts
  <2>3. item.d \in 0 .. MaxDate
    BY <2>2, DatesType
  <2>4. at.file + 1 \in Nat
    BY <2>2
  <2>5. QED
    BY <1>2, <2>1, <2>2, <2>3, <2>4
<1>4. c \in Cursor /\ c.lastTs = cursor.lastTs /\ c.row = 0
  <2>1. c \in Cursor
    BY <1>3, CursorTypes
  <2>2. cursor \in Cursor
    BY <1>3
  <2>3. QED
    BY <2>1, <2>2 DEF Finished, Opened, Cursor
<1>5. Past(c)
  BY <1>3, <1>4 DEF Past, Finished, Opened, Cursor
<1> HIDE DEF c
<1>6. /\ o \in Cursor /\ o.lastTs = c.lastTs /\ o.row = c.row
      /\ o.lastDate = c.lastDate /\ o.lastFile = c.lastFile
  <2>1. at.file + 1 \in Nat
    BY <1>3
  <2>2. o \in Cursor
    BY <1>3, <1>4, <2>1, OpenedType
  <2>3. QED
    BY <1>4, <2>2 DEF Opened, Cursor
<1> HIDE DEF o
<1>7. \A x \in Positions : x[1] = s /\ PassedAt(mem, x) => Passed(c, x[2], x[3], x[4])
  BY <1>1, <1>2, <1>5, PastFacts
<1>8. \A x \in Positions : x[1] = s /\ PassedAt(mem, x) => Passed(o, x[2], x[3], x[4])
  BY <1>4, <1>6, <1>7 DEF Passed
<1>9. TsRead(SetCursor(mem, s, c))
  BY <1>3, <1>4, <1>7, CursorTs
<1>10. TsRead(SetCursor(mem, s, o))
  BY <1>3, <1>4, <1>6, <1>8, CursorTs
<1>11. QED
  BY <1>1, <1>2, <1>9, <1>10

(* The row that is emitted gives its table the commit-ts, and the state    *)
(* is past it.                                                             *)
LEMMA AdvancedTs ==
  ASSUME Inv, Progress, TsRead(mem), HasRow, ~InSnapshot, ~Fallback
  PROVE  TsRead(Advanced)
<1> DEFINE n == Advanced
           c == [cursor EXCEPT !.row = at.row + 1, !.lastTs = event.ts]
           e == <<stream, item.d, at.file, at.row + 1>>
<1>1. /\ n \in State /\ n.wm = mem.wm /\ PastEvent(c)
      /\ n.cursors[stream] = c /\ \A r \in Streams \ {stream} : n.cursors[r] = mem.cursors[r]
      /\ n.tableTs[item.t] = event.ts
      /\ \A t \in Tables \ {item.t} : n.tableTs[t] = mem.tableTs[t]
  BY AdvancedFacts
<1>2. /\ stream \in Streams /\ stream[1] = item.t /\ item.t \in Tables /\ cursor \in Cursor
      /\ mem \in State /\ item.d \in Dates
      /\ cursor.curDate = item.d /\ cursor.curFile = at.file /\ cursor.row = at.row
      /\ at.row \in Nat
  BY StreamFacts DEF HasRow
<1>3. c.lastTs = event.ts
  BY <1>2 DEF Cursor
<1>4. /\ e \in Positions /\ RowAt(e) = event /\ e[1] = stream /\ e[2] = item.d
      /\ e[3] = at.file /\ e[4] = at.row + 1 /\ event.ts \in Nat
  BY EventPosition
<1>5. \A x \in Positions : x[1] = stream /\ PassedAt(mem, x) => Passed(c, x[2], x[3], x[4])
  BY <1>1, PastEventFacts
<1> HIDE DEF c, e
<1>6. Since(e)
  BY <1>4, BoundsType DEF Since, InSnapshot
<1>7. Passed(c, e[2], e[3], e[4])
  BY <1>1, <1>2, <1>4 DEF Passed, PastEvent
<1> HIDE DEF n
<1>8. \A x \in Positions : Behind(mem, x) => Behind(n, x)
  <2> SUFFICES ASSUME NEW x \in Positions, Behind(mem, x) PROVE Behind(n, x)
    OBVIOUS
  <2>1. x[1] \in Streams
    BY PositionFacts
  <2>2. CASE x[1] = stream
    BY <1>1, <1>5, <2>2 DEF Behind, PassedAt
  <2>3. CASE x[1] # stream
    BY <1>1, <2>1, <2>3 DEF Behind, PassedAt
  <2>4. QED
    BY <2>2, <2>3
<1>9. TsOfRow(n)
  <2> SUFFICES ASSUME NEW t \in Tables, n.tableTs[t] > 0
               PROVE  \E x \in Positions : /\ x[1][1] = t /\ Since(x) /\ RowAt(x).ts = n.tableTs[t]
                                           /\ Behind(n, x)
    BY DEF TsOfRow
  <2>1. CASE t = item.t
    <3>1. e[1][1] = t /\ RowAt(e).ts = n.tableTs[t]
      BY <1>1, <1>2, <1>4, <2>1
    <3>2. Behind(n, e)
      BY <1>1, <1>4, <1>7 DEF Behind, PassedAt
    <3>3. QED
      BY <1>4, <1>6, <3>1, <3>2
  <2>2. CASE t # item.t
    BY <1>1, <1>8, <2>2 DEF TsRead, TsOfRow
  <2>3. QED
    BY <2>1, <2>2
<1>10. TsOfTable(n)
  <2> SUFFICES ASSUME NEW s \in Streams PROVE n.cursors[s].lastTs <= n.tableTs[s[1]]
    BY DEF TsOfTable
  <2>1. /\ s[1] \in Tables /\ mem.tableTs[s[1]] \in Nat /\ mem.cursors[s].lastTs \in Nat
        /\ mem.cursors[s].lastTs <= mem.tableTs[s[1]] /\ mem.tableTs[item.t] \in Nat
    BY <1>2, TsTypes DEF TsRead, TsOfTable
  <2>2. cursor.lastTs \in Nat /\ mem.tableTs[item.t] <= event.ts
    <3>1. cursor.lastTs \in Nat
      BY <1>2, SinkAssumption DEF Cursor
    <3>2. QED
      BY <1>4, <2>1, <3>1 DEF Fallback, Max2
  <2>3. CASE s = stream
    BY <1>1, <1>2, <1>3, <1>4, <2>3
  <2>4. CASE s # stream /\ s[1] = item.t
    BY <1>1, <1>4, <2>1, <2>2, <2>4
  <2>5. CASE s[1] # item.t
    BY <1>1, <1>2, <2>1, <2>5
  <2>6. QED
    BY <2>3, <2>4, <2>5
<1>11. QED
  BY <1>9, <1>10 DEF TsRead, n

(* A schema marker raises a watermark.                                     *)
LEMMA MarkerTs ==
  ASSUME Inv, Progress, TsRead(mem), NEW it \in work, HandleMarker(it)
  PROVE  TsRead(mem')
<1>1. mem' = SetWatermark(mem, it.t, it.v) /\ saved' = mem' /\ mem \in State
  BY DEF HandleMarker, Inv, TypeOk
<1>2. mem'.tableTs = mem.tableTs /\ mem'.cursors = mem.cursors
  BY <1>1 DEF SetWatermark, State
<1>3. \A x \in Positions : Behind(mem, x) => Behind(mem', x)
  BY <1>1, HandleMarkerReads
<1>4. TsOfRow(mem')
  BY <1>2, <1>3 DEF TsRead, TsOfRow
<1>5. TsOfTable(mem')
  BY <1>2 DEF TsRead, TsOfTable
<1>6. QED
  BY <1>4, <1>5 DEF TsRead

-----------------------------------------------------------------------------
TsInv == TsRead(mem) /\ TsRead(saved)

(* The states after a step of the connector that leaves the bucket alone.  *)
LEMMA QuietStates ==
  ASSUME Inv, Progress, TsInv, QuietStep
  PROVE  TsRead(mem') /\ TsRead(saved')
<1>1. mem \in State /\ saved \in State /\ TsRead(mem) /\ TsRead(saved)
  BY DEF Inv, TypeOk, TsInv
<1>2. \A C : TsRead(Compact(saved, C)) /\ TsRead(Compact(mem, C))
  BY <1>1, CompactTs
<1>3. CASE RaiseFallback \/ Crash \/ CrashAfterRow \/ \E it \in work : CrashAfterTruncate(it)
  <2>1. mem' = saved /\ saved' = saved
    BY <1>3 DEF RaiseFallback, Crash, CrashAfterRow, CrashAfterTruncate, EndRun
  <2>2. QED
    BY <1>1, <2>1
<1>4. CASE \/ \E t \in Tables : ScanTable(t)
           \/ \E it \in work : SkipMarker(it) \/ SkipOldRange(it)
  <2>1. mem' = mem /\ saved' = saved
    BY <1>4 DEF ScanTable, SkipMarker, SkipOldRange
  <2>2. QED
    BY <1>1, <2>1
<1>5. CASE SkipRun \/ FailSnapshot \/ FinishRun
  <2>1. /\ mem' = saved'
        /\ \/ saved' = Compact(saved, catalog) \/ saved' = Compact(mem, catalog)
           \/ saved' = saved
    BY <1>5 DEF SkipRun, FailSnapshot, FinishRun, EndRun
  <2>2. QED
    BY <1>1, <1>2, <2>1
<1>6. CASE StartRun
  <2> DEFINE n == Compact(saved, catalog)
  <2>1. mem' = [n EXCEPT !.seen = meta] /\ saved' = saved
    BY <1>6 DEF StartRun
  <2>2. n \in State /\ TsRead(n)
    BY <1>1, <1>2, CompactFacts
  <2> HIDE DEF n
  <2>3. mem'.wm = n.wm /\ mem'.tableTs = n.tableTs /\ mem'.cursors = n.cursors
    BY <2>1, <2>2 DEF State
  <2>4. TsRead(mem')
    BY <2>2, <2>3 DEF TsRead, TsOfRow, TsOfTable, Behind, PassedAt
  <2>5. QED
    BY <1>1, <2>1, <2>4
<1>7. CASE SkipRow
  <2>1. saved' = saved
    BY <1>7 DEF SkipRow
  <2>2. QED
    BY <1>1, <1>7, <2>1, SkipRowTs
<1>8. CASE StopAtCheckpoint
  <2>1. HasRow /\ saved' = SetCursor(mem, stream, Stopped) /\ mem' = saved'
    BY <1>8 DEF StopAtCheckpoint, EndRun
  <2>2. saved' = mem /\ mem' = mem
    BY <2>1, StoppedIsMem
  <2>3. QED
    BY <1>1, <2>2
<1>9. CASE EmitRow
  <2>1. /\ HasRow /\ ~InSnapshot /\ ~Fallback
        /\ mem' = Advanced /\ (saved' = mem' \/ saved' = saved)
    BY <1>9 DEF EmitRow
  <2>2. TsRead(Advanced)
    BY <1>1, <2>1, AdvancedTs
  <2>3. QED
    BY <1>1, <2>1, <2>2
<1>10. CASE FinishFile
  BY <1>1, <1>10, FinishFileTs
<1>11. CASE \E it \in work : HandleMarker(it)
  <2>1. PICK it \in work : HandleMarker(it)
    BY <1>11
  <2>2. saved' = mem' /\ TsRead(mem')
    BY <1>1, <2>1, MarkerTs DEF HandleMarker
  <2>3. QED
    BY <2>2
<1>12. CASE \E it \in work : SkipReadRange(it) \/ OpenRange(it)
  <2>1. PICK it \in work : SkipReadRange(it) \/ OpenRange(it)
    BY <1>12
  <2>2. saved' = saved /\ TsRead(mem')
    BY <1>1, <2>1, RangeTs DEF SkipReadRange, OpenRange
  <2>3. QED
    BY <1>1, <2>2
<1>13. QED
  BY <1>3, <1>4, <1>5, <1>6, <1>7, <1>8, <1>9, <1>10, <1>11, <1>12 DEF QuietStep

(* Nothing has a commit-ts before there is a snapshot.                     *)
LEMMA LoadTs ==
  ASSUME Inv, Progress, TsInv, NEW c \in Versions, NEW S \in SUBSET Tables, LoadSnapshot(c, S)
  PROVE  TsInv'
<1>1. /\ UNCHANGED sinkVars /\ snap' = c /\ saved' = Compact(saved, catalog) /\ mem' = saved'
      /\ snap # 0 => snap' = snap
      /\ saved \in State /\ TsRead(saved)
  BY DEF LoadSnapshot, Inv, TypeOk, TsInv
<1>2. Positions' = Positions /\ \A x : RowAt(x)' = RowAt(x)
  BY <1>1 DEF Positions, RowAt, sinkVars
<1>3. TsRead(Compact(saved, catalog)) /\ saved' \in State
  BY <1>1, CompactTs, CompactType
<1>4. TsRead(saved')
  BY <1>1, <1>3
<1>5. snap = 0 => \A t \in Tables : ~(saved'.tableTs[t] > 0)
  <2> SUFFICES ASSUME snap = 0, NEW t \in Tables, saved'.tableTs[t] > 0
               PROVE  FALSE
    OBVIOUS
  <2>1. PICK x \in Positions : Behind(saved', x)
    BY <1>4 DEF TsRead, TsOfRow
  <2>2. Behind(saved, x)
    BY <1>1, <2>1, CompactBehind
  <2>3. x[1] \in Streams /\ x[1][1] \in Tables /\ x[1][2] \in Nat /\ x[1][1] \notin loaded
    BY PositionFacts DEF Inv
  <2>4. saved.wm[x[1][1]] = 0 /\ saved.cursors[x[1]] = NoCursor
    BY <2>3 DEF Progress, StateOk, WatermarkOk, CursorsOk
  <2>5. QED
    BY <2>2, <2>3, <2>4, NothingPassed DEF Behind
<1>6. TsOfRow(saved)'
  <2> SUFFICES ASSUME NEW t \in Tables, saved'.tableTs[t] > 0
               PROVE  \E x \in Positions' : /\ x[1][1] = t /\ Since(x)'
                                            /\ RowAt(x)'.ts = saved'.tableTs[t]
                                            /\ Behind(saved, x)'
    BY DEF TsOfRow
  <2>1. snap' = snap
    BY <1>1, <1>5
  <2>2. PICK x \in Positions : /\ x[1][1] = t /\ Since(x) /\ RowAt(x).ts = saved'.tableTs[t]
                               /\ Behind(saved', x)
    BY <1>4 DEF TsRead, TsOfRow
  <2>3. x \in Positions' /\ RowAt(x)' = RowAt(x) /\ Since(x)'
    BY <1>2, <2>1, <2>2 DEF Since
  <2>4. Behind(saved, x)'
    BY <2>2 DEF Behind, PassedAt, Passed
  <2>5. QED
    BY <2>2, <2>3, <2>4
<1>7. TsOfTable(saved)'
  BY <1>4 DEF TsRead, TsOfTable
<1>8. TsRead(saved)'
  BY <1>6, <1>7 DEF TsRead
<1>9. TsRead(mem)'
  BY <1>1, <1>8 DEF TsRead, TsOfRow, TsOfTable, Behind, PassedAt
<1>10. QED
  BY <1>8, <1>9 DEF TsInv

(* Every step keeps what the commit-ts of a table is.                      *)
LEMMA TsStep == Inv /\ Progress /\ TsInv /\ Inv' /\ [Next]_vars => TsInv'
<1> SUFFICES ASSUME Inv, Progress, TsInv, Inv', [Next]_vars PROVE TsInv'
  OBVIOUS
<1>1. CASE SinkStep
  <2>1. SinkAdds /\ snap' = snap /\ mem' = mem /\ saved' = saved
    BY <1>1, SinkStepAdds DEF SinkStep, Inv, Progress, connVars, base
  <2>2. TsRead(mem') /\ TsRead(saved')
    BY <2>1 DEF TsInv
  <2>3. TsRead(mem)' /\ TsRead(saved)'
    BY <2>1, <2>2, SinkTs
  <2>4. QED
    BY <2>3 DEF TsInv
<1>2. CASE QuietStep
  <2>1. TsRead(mem') /\ TsRead(saved') /\ UNCHANGED <<sinkVars, base>>
    BY <1>2, QuietStates, QuietStepIs
  <2>2. TsRead(mem)' /\ TsRead(saved)'
    BY <2>1, QuietTs
  <2>3. QED
    BY <2>2 DEF TsInv
<1>3. CASE UNCHANGED vars
  <2>1. UNCHANGED <<sinkVars, base>> /\ TsRead(mem') /\ TsRead(saved')
    BY <1>3 DEF vars, connVars, TsInv
  <2>2. TsRead(mem)' /\ TsRead(saved)'
    BY <2>1, QuietTs
  <2>3. QED
    BY <2>2 DEF TsInv
<1>4. CASE \E C \in Catalogs : Refilter(C)
  <2>1. UNCHANGED <<sinkVars, snap, mem, saved>>
    BY <1>4 DEF Refilter
  <2>2. Positions' = Positions /\ \A x : RowAt(x)' = RowAt(x) /\ (Since(x)' <=> Since(x))
    BY <2>1 DEF Positions, RowAt, Since, sinkVars
  <2>3. QED
    BY <2>1, <2>2 DEF TsInv, TsRead, TsOfRow, TsOfTable, Behind, PassedAt
<1>5. CASE \E c \in Versions, S \in SUBSET Tables : LoadSnapshot(c, S)
  BY <1>5, LoadTs
<1>6. QED
  BY <1>1, <1>2, <1>3, <1>4, <1>5, NextIs

(* Nothing has been read at first.                                         *)
LEMMA InitTs == Init => TsInv
BY StreamParts DEF Init, TsInv, TsRead, TsOfRow, TsOfTable, InitialState, NoCursor

(* The order of the streams and the commit-ts of the tables, together.     *)
THEOREM AlarmInvariance == Spec => [](Inv /\ Progress /\ SinkSorted /\ TsInv)
<1>1. Init => Inv /\ Progress /\ SinkSorted /\ TsInv
  BY InitInv, InitProgress, InitSorted, InitTs
<1>2. Inv /\ Progress /\ SinkSorted /\ TsInv /\ [Next]_vars
        => (Inv /\ Progress /\ SinkSorted /\ TsInv)'
  BY NextInv, NextProgress, SortedStep, TsStep
<1>3. QED
  BY <1>1, <1>2, PTL DEF Spec

-----------------------------------------------------------------------------
(* A table that is not partitioned has one stream per version.             *)
OnePartition == \E p : Partitions = {p}

(* Then the streams of a table differ in their version.                    *)
LEMMA OneStream ==
  ASSUME OnePartition, NEW r \in Streams, NEW s \in Streams, r[1] = s[1], r[2] = s[2]
  PROVE  r = s
<1>1. PICK p : Partitions = {p}
  BY DEF OnePartition
<1>2. /\ r = <<r[1], r[2], r[3]>> /\ r[3] \in {p}
      /\ s = <<s[1], s[2], s[3]>> /\ s[3] \in {p}
  BY <1>1 DEF Streams
<1>3. r[3] = s[3]
  BY <1>2
<1>4. <<r[1], r[2], r[3]>> = <<s[1], s[2], s[3]>>
  BY <1>3
<1>5. QED
  BY <1>2, <1>4

(* A cursor that is past a row is past all that was written before it.     *)
LEMMA PassedDown ==
  ASSUME Inv, NEW c \in Cursor, NEW x \in Positions, NEW z \in Positions,
         CursorOk(x[1], c), Before(z, x), Passed(c, x[2], x[3], x[4])
  PROVE  Passed(c, z[2], z[3], z[4])
<1>1. /\ x[2] \in Nat /\ x[3] \in Nat /\ x[4] \in Nat
      /\ z[2] \in Nat /\ z[3] \in Nat /\ z[4] \in Nat
      /\ z[1] = x[1] /\ z[1] \in Streams /\ z[2] \in Dates
      /\ z[3] \in 1 .. Len(files[z[1]][z[2]]) /\ z[3] >= 1
  BY PositionFacts DEF Before
<1>2. c.lastDate \in Nat /\ c.lastFile \in Nat /\ c.row \in Nat /\ c.curDate \in Nat /\ c.curFile \in Nat
  BY SinkAssumption DEF Cursor
<1>3. z[2] < x[2] \/ (z[2] = x[2] /\ z[3] < x[3]) \/ (z[2] = x[2] /\ z[3] = x[3] /\ z[4] < x[4])
  BY DEF Before
<1>4. CASE x[2] < c.lastDate
  BY <1>1, <1>2, <1>3, <1>4 DEF Passed
<1>5. CASE x[2] = c.lastDate /\ x[3] <= c.lastFile
  BY <1>1, <1>2, <1>3, <1>5 DEF Passed
<1>6. CASE c.row > 0 /\ x[2] = c.curDate /\ x[3] = c.curFile /\ x[4] <= c.row
  <2>1. /\ c.lastDate <= x[2]
        /\ x[3] = IF x[2] = c.lastDate THEN c.lastFile + 1 ELSE 1
        /\ \A e \in Dates : c.lastDate <= e /\ e < x[2] =>
             Len(files[x[1]][e]) <= IF e = c.lastDate THEN c.lastFile ELSE 0
    BY <1>6 DEF CursorOk, Reach
  <2>2. Len(files[z[1]][z[2]]) \in Nat /\ z[3] <= Len(files[z[1]][z[2]])
    BY <1>1, FilesType
  <2>3. CASE z[2] < x[2]
    <3>1. c.lastDate <= z[2] => z[3] <= IF z[2] = c.lastDate THEN c.lastFile ELSE 0
      <4>1. SUFFICES ASSUME c.lastDate <= z[2]
                     PROVE  z[3] <= IF z[2] = c.lastDate THEN c.lastFile ELSE 0
        OBVIOUS
      <4>2. Len(files[x[1]][z[2]]) <= IF z[2] = c.lastDate THEN c.lastFile ELSE 0
        BY <1>1, <2>1, <2>3, <4>1
      <4>3. CASE z[2] = c.lastDate
        <5>1. Len(files[z[1]][z[2]]) <= c.lastFile
          BY <1>1, <4>2, <4>3
        <5>2. z[3] <= c.lastFile
          <6>1. z[3] \in Nat /\ c.lastFile \in Nat
            BY <1>1, <1>2
          <6>2. QED
            BY <2>2, <5>1, <6>1
        <5>3. QED
          BY <4>3, <5>2
      <4>4. CASE z[2] # c.lastDate
        BY <1>1, <1>2, <2>2, <4>2, <4>4
      <4>5. QED
        BY <4>3, <4>4
    <3>2. QED
      BY <1>1, <1>2, <3>1 DEF Passed
  <2>4. CASE z[2] = x[2] /\ z[3] < x[3]
    BY <1>1, <1>2, <2>1, <2>4 DEF Passed
  <2>5. CASE z[2] = x[2] /\ z[3] = x[3] /\ z[4] < x[4]
    BY <1>1, <1>2, <1>6, <2>5 DEF Passed
  <2>6. QED
    BY <1>3, <2>3, <2>4, <2>5
<1>7. QED
  BY <1>4, <1>5, <1>6 DEF Passed

(* A row that raises the alarm has been read, from another place: the row  *)
(* that gave its table the larger commit-ts is of the same stream, and it  *)
(* was written first where the row is that came before that one.           *)
LEMMA AlarmHasReason ==
  ASSUME OnePartition, Inv, Progress, SinkSorted, TsInv
  PROVE  AlarmIsRepeat
<1> SUFFICES ASSUME HasRow, ~InSnapshot, Fallback
             PROVE  \E x \in Positions : /\ x[1] = stream
                                         /\ x # <<stream, item.d, at.file, at.row + 1>>
                                         /\ RowAt(x) = event
                                         /\ IsRead(mem, x)
  BY DEF AlarmIsRepeat
<1> DEFINE e == <<stream, item.d, at.file, at.row + 1>>
           v == item.v
<1>1. /\ e \in Positions /\ RowAt(e) = event /\ e[1] = stream /\ event.ts \in Nat
      /\ ~PassedAt(mem, e) /\ ~(item.v < mem.wm[item.t])
  BY EventPosition
<1> HIDE DEF e
<1>2. /\ stream \in Streams /\ stream[1] = item.t /\ stream[2] = v /\ item.t \in Tables
      /\ v \in Nat /\ mem \in State /\ StateOk(mem) /\ SinkOrder
      /\ item.t \in Tables /\ mem.wm[item.t] \in Nat
  BY StreamFacts, StateFacts DEF HasRow, Progress
<1>3. cursor.lastTs <= mem.tableTs[item.t] /\ cursor.lastTs \in Nat /\ mem.tableTs[item.t] \in Nat
  BY <1>2, TsTypes DEF TsInv, TsRead, TsOfTable, cursor
<1>4. event.ts < mem.tableTs[item.t]
  BY <1>1, <1>3 DEF Fallback, Max2
<1>5. PICK x0 \in Positions : /\ x0[1][1] = item.t /\ Since(x0)
                              /\ RowAt(x0).ts = mem.tableTs[item.t] /\ Behind(mem, x0)
  BY <1>1, <1>2, <1>3, <1>4 DEF TsInv, TsRead, TsOfRow
<1>6. x0[1] \in Streams /\ x0[1][2] \in Nat /\ RowAt(x0).ts \in Nat
  BY PositionFacts
<1>7. snap \in Nat /\ snap < event.ts
  BY <1>1, BoundsType DEF InSnapshot
<1>8. ~(x0[1][2] < v)
  <2> SUFFICES ASSUME x0[1][2] < v PROVE FALSE
    OBVIOUS
  <2>1. /\ v < event.ts
        /\ \E m \in schemas[item.t] : m.v = v
    BY <1>1, <1>2, RowVersion
  <2>2. RowAt(x0).ts < v
    BY <1>2, <1>5, <1>6, <2>1, RowVersion
  <2>3. QED
    BY <1>1, <1>2, <1>3, <1>4, <1>5, <2>1, <2>2
<1>9. ~(v < x0[1][2])
  <2> SUFFICES ASSUME v < x0[1][2] PROVE FALSE
    OBVIOUS
  <2>1. \E m \in schemas[item.t] : m.v = x0[1][2]
    BY <1>2, <1>5, RowVersion
  <2>2. event.ts < x0[1][2]
    BY <1>1, <1>2, <2>1, RowVersion
  <2>3. x0[1][2] <= mem.wm[item.t] \/ x0[1][2] <= snap
    BY <1>2, <1>5, <1>6 DEF Behind, StateOk, PassedOk
  <2>4. QED
    BY <1>1, <1>2, <1>6, <1>7, <2>2, <2>3
<1>10. x0[1] = stream
  BY <1>2, <1>5, <1>6, <1>8, <1>9, OneStream
<1>11. PassedAt(mem, x0)
  BY <1>1, <1>2, <1>5, <1>6, <1>8, <1>9 DEF Behind
<1>12. PICK z \in Positions : RowAt(z) = event /\ Before(z, x0)
  BY <1>1, <1>4, <1>5, <1>10 DEF SinkSorted, FilesSorted, WrittenBefore
<1>13. z[1] = stream /\ PassedAt(mem, z)
  <2>1. z[1] = stream /\ mem.cursors[x0[1]] \in Cursor /\ CursorOk(x0[1], mem.cursors[x0[1]])
    BY <1>2, <1>6, <1>10, <1>12, StateFacts DEF Before, StateOk, CursorsOk
  <2>2. Passed(mem.cursors[x0[1]], z[2], z[3], z[4])
    BY <1>11, <1>12, <2>1, PassedDown DEF PassedAt
  <2>3. QED
    BY <1>10, <2>1, <2>2 DEF PassedAt
<1>14. z # e
  BY <1>1, <1>13
<1>15. IsRead(mem, z)
  BY <1>2, <1>7, <1>12, <1>13, ReadSince DEF Since, Behind
<1>16. QED
  BY <1>12, <1>13, <1>14, <1>15 DEF e

(* The commit-ts fallback error of a table that is not partitioned is      *)
(* raised only at a row that was read before from another place, which     *)
(* takes a sink that writes rows again: never at new data.                 *)
THEOREM IncrementalAlarmIsRepeat == OnePartition => (Spec => []AlarmIsRepeat)
<1> SUFFICES ASSUME OnePartition PROVE Spec => []AlarmIsRepeat
  OBVIOUS
<1>1. Inv /\ Progress /\ SinkSorted /\ TsInv => AlarmIsRepeat
  BY AlarmHasReason
<1>2. QED
  BY <1>1, AlarmInvariance, PTL

-----------------------------------------------------------------------------
(* A sink that never restarts writes each row once.                        *)
NeverRestarts == [][~ \E s \in Streams : Restart(s)]_vars

FilesOnce == \A x, y \in Positions : x[1] = y[1] /\ RowAt(x) = RowAt(y) => x = y

BufferUnwritten == \A x \in Positions : RowAt(x) \notin SeqRange(buf[x[1]])

BufferOnce ==
  \A s \in Streams : \A i, j \in 1 .. Len(buf[s]) : buf[s][i] = buf[s][j] => i = j

Once == FilesOnce /\ BufferUnwritten /\ BufferOnce

(* A row that is committed is a new one.                                   *)
LEMMA CommitRowOnce ==
  ASSUME Inv, Once, NEW t \in Tables, NEW k \in Keys, NEW op \in Ops, NEW ts \in Versions,
         CommitRow(t, k, op, ts)
  PROVE  Once'
<1> DEFINE latest == CHOOSE m \in schemas[t] : \A n \in schemas[t] : n.v <= m.v
           s0     == <<t, latest.v, PartitionOf[k]>>
           row    == [ts |-> ts, key |-> k, op |-> op]
<1>1. row \in Row /\ row.key = k /\ row.ts = ts /\ s0[1] = t
  BY DEF Row
<1>2. /\ UNCHANGED files /\ buf' = [buf EXCEPT ![s0] = Append(@, row)]
      /\ \A r \in RowsOf(t) : ~(r.key = k /\ r.ts = ts)
  BY DEF CommitRow
<1> HIDE DEF latest, s0, row
<1>3. row \notin RowsOf(t)
  BY <1>1, <1>2
<1>4. buf \in [Streams -> Seq(Row)]
  BY DEF Inv, SinkInv, SinkTypeOk
<1>5. \A s \in Streams : buf'[s] = buf[s] \/ (s = s0 /\ buf'[s] = Append(buf[s], row))
  BY <1>2, <1>4
<1>6. Positions' = Positions /\ \A x : RowAt(x)' = RowAt(x)
  BY <1>2, SamePositions
<1>7. FilesOnce'
  BY <1>6 DEF Once, FilesOnce
<1>8. ASSUME NEW x \in Positions
      PROVE  RowAt(x) \notin SeqRange(buf'[x[1]])
  <2>1. x[1] \in Streams /\ RowAt(x) \in RowsOf(x[1][1]) /\ RowAt(x) \notin SeqRange(buf[x[1]])
    BY PositionFacts DEF Once, BufferUnwritten
  <2>2. CASE buf'[x[1]] = buf[x[1]]
    BY <2>1, <2>2
  <2>3. CASE x[1] = s0 /\ buf'[x[1]] = Append(buf[x[1]], row)
    <3>1. SeqRange(buf'[x[1]]) = SeqRange(buf[x[1]]) \cup {row}
      BY <1>1, <1>4, <2>1, <2>3, AppendRange
    <3>2. RowAt(x) # row
      BY <1>1, <1>3, <2>1, <2>3
    <3>3. QED
      BY <2>1, <3>1, <3>2
  <2>4. QED
    BY <1>5, <2>1, <2>2, <2>3
<1>9. BufferUnwritten'
  BY <1>6, <1>8 DEF BufferUnwritten, SeqRange
<1>10. ASSUME NEW s \in Streams, NEW i \in 1 .. Len(buf'[s]), NEW j \in 1 .. Len(buf'[s]),
              buf'[s][i] = buf'[s][j]
       PROVE  i = j
  <2>1. CASE buf'[s] = buf[s]
    BY <1>10, <2>1 DEF Once, BufferOnce
  <2>2. CASE s = s0 /\ buf'[s] = Append(buf[s], row)
    <3>1. buf[s] \in Seq(Row) /\ Len(buf[s]) \in Nat
      BY <1>4
    <3>2. /\ Len(buf'[s]) = Len(buf[s]) + 1
          /\ \A n \in 1 .. Len(buf[s]) : buf'[s][n] = buf[s][n]
          /\ buf'[s][Len(buf[s]) + 1] = row
      BY <1>1, <2>2, <3>1
    <3>3. \A n \in 1 .. Len(buf[s]) : buf[s][n] # row
      <4>1. \A r \in SeqRange(buf[s]) : r \in RowsOf(t)
        BY <1>1, <2>2, RowsOfMember
      <4>2. QED
        BY <1>3, <4>1 DEF SeqRange
    <3>4. \A n \in 1 .. Len(buf'[s]) : n \in 1 .. Len(buf[s]) \/ n = Len(buf[s]) + 1
      BY <3>1, <3>2
    <3>5. i \in 1 .. Len(buf[s]) /\ j \in 1 .. Len(buf[s]) => i = j
      BY <1>10, <3>2 DEF Once, BufferOnce
    <3>6. QED
      BY <1>10, <3>2, <3>3, <3>4, <3>5
  <2>3. QED
    BY <1>5, <2>1, <2>2
<1>11. BufferOnce'
  BY <1>10 DEF BufferOnce
<1>12. QED
  BY <1>7, <1>9, <1>11 DEF Once

(* A file takes what was not written before, once.                         *)
LEMMA FlushOnce ==
  ASSUME Inv, Inv', SinkOrder, Once, NEW s0 \in Streams, Flush(s0)
  PROVE  Once'
<1>1. buf \in [Streams -> Seq(Row)] /\ buf' = [buf EXCEPT ![s0] = <<>>]
  BY DEF Flush, Inv, SinkInv, SinkTypeOk
<1>2. \A x \in Positions' : \/ OfFiles(s0, x) /\ RowAt(x)' = RowAt(x)
                            \/ OfBuffer(s0, x) /\ RowAt(x)' = buf[s0][x[4]]
  BY FlushPosition
<1>3. \A x \in Positions' : x = <<x[1], x[2], x[3], x[4]>> /\ x[1] \in Streams
  BY PositionsNext DEF PositionsOk
<1>4. \A x : OfFiles(s0, x) /\ x[1] = s0 => \A j \in 1 .. Len(buf[s0]) : RowAt(x) # buf[s0][j]
  BY DEF Once, BufferUnwritten, OfFiles, SeqRange
<1>5. ASSUME NEW x \in Positions', NEW y \in Positions', x[1] = y[1], RowAt(x)' = RowAt(y)'
      PROVE  x = y
  <2>1. CASE OfFiles(s0, x) /\ RowAt(x)' = RowAt(x)
    <3>1. CASE OfFiles(s0, y) /\ RowAt(y)' = RowAt(y)
      BY <1>5, <2>1, <3>1 DEF Once, FilesOnce, OfFiles
    <3>2. CASE OfBuffer(s0, y) /\ RowAt(y)' = buf[s0][y[4]]
      BY <1>4, <1>5, <2>1, <3>2 DEF OfBuffer
    <3>3. QED
      BY <1>2, <3>1, <3>2
  <2>2. CASE OfBuffer(s0, x) /\ RowAt(x)' = buf[s0][x[4]]
    <3>1. CASE OfFiles(s0, y) /\ RowAt(y)' = RowAt(y)
      BY <1>4, <1>5, <2>2, <3>1 DEF OfBuffer
    <3>2. CASE OfBuffer(s0, y) /\ RowAt(y)' = buf[s0][y[4]]
      <4>1. x[4] = y[4]
        BY <1>5, <2>2, <3>2 DEF Once, BufferOnce, OfBuffer
      <4>2. x[1] = y[1] /\ x[2] = y[2] /\ x[3] = y[3]
        BY <2>2, <3>2 DEF OfBuffer
      <4>3. QED
        BY <1>3, <4>1, <4>2
    <3>3. QED
      BY <1>2, <3>1, <3>2
  <2>3. QED
    BY <1>2, <2>1, <2>2
<1>6. FilesOnce'
  BY <1>5 DEF FilesOnce
<1>7. ASSUME NEW x \in Positions' PROVE RowAt(x)' \notin SeqRange(buf'[x[1]])
  <2>1. CASE x[1] = s0
    BY <1>1, <2>1 DEF SeqRange
  <2>2. CASE x[1] # s0
    <3>1. OfFiles(s0, x) /\ RowAt(x)' = RowAt(x) /\ buf'[x[1]] = buf[x[1]]
      BY <1>1, <1>2, <1>3, <2>2 DEF OfBuffer
    <3>2. QED
      BY <3>1 DEF Once, BufferUnwritten, OfFiles
  <2>3. QED
    BY <2>1, <2>2
<1>8. BufferUnwritten'
  BY <1>7 DEF BufferUnwritten, SeqRange
<1>9. BufferOnce'
  <2>1. \A s \in Streams : buf'[s] = buf[s] \/ buf'[s] = <<>>
    BY <1>1
  <2>2. QED
    BY <2>1 DEF Once, BufferOnce
<1>10. QED
  BY <1>6, <1>8, <1>9 DEF Once

(* Every step but a restart of the sink.                                   *)
LEMMA OnceStep ==
  Inv /\ Progress /\ Once /\ Inv' /\ [Next]_vars /\ [~ \E s \in Streams : Restart(s)]_vars => Once'
<1> SUFFICES ASSUME Inv, Progress, Once, Inv', [Next]_vars, [~ \E s \in Streams : Restart(s)]_vars
             PROVE  Once'
  OBVIOUS
<1>1. SinkOrder
  BY DEF Progress
<1>2. CASE UNCHANGED <<buf, files>>
  <2>1. Positions' = Positions /\ \A x : RowAt(x)' = RowAt(x)
    BY <1>2, SamePositions
  <2>2. FilesOnce' /\ BufferUnwritten' /\ BufferOnce'
    BY <1>2, <2>1 DEF Once, FilesOnce, BufferUnwritten, BufferOnce, SeqRange
  <2>3. QED
    BY <2>2 DEF Once
<1>3. CASE SinkStep
  <2>1. \/ UNCHANGED <<buf, files>>
        \/ \E t \in Tables, k \in Keys, op \in Ops, ts \in Versions : CommitRow(t, k, op, ts)
        \/ \E s \in Streams : Flush(s)
    BY <1>3 DEF SinkStep, RollDate, DDL, Publish, vars, sinkVars
  <2>2. QED
    BY <1>1, <1>2, <2>1, CommitRowOnce, FlushOnce
<1>4. CASE ~SinkStep
  <2>1. UNCHANGED <<buf, files>>
    BY <1>4, NextIs, QuietStepIs DEF Refilter, LoadSnapshot, vars, connVars, sinkVars
  <2>2. QED
    BY <1>2, <2>1
<1>5. QED
  BY <1>3, <1>4

(* Nothing is written at first.                                            *)
LEMMA InitOnce == Init => Once
<1> SUFFICES ASSUME Init PROVE Once
  OBVIOUS
<1>1. Inv /\ \A s \in Streams : buf[s] = <<>> /\ \A d \in Dates : files[s][d] = <<>>
  BY InitInv DEF Init, SinkInit
<1>2. Positions = {}
  BY <1>1, PositionFacts
<1>3. QED
  BY <1>1, <1>2 DEF Once, FilesOnce, BufferUnwritten, BufferOnce

(* The reason for an alarm is a row that was written twice.                *)
LEMMA NoAlarm ==
  ASSUME OnePartition, Inv, Progress, SinkSorted, TsInv, Once
  PROVE  NoFalseAlarm
<1> SUFFICES ASSUME HasRow, ~InSnapshot, ~BeyondCheckpoint, Fallback PROVE FALSE
  BY DEF NoFalseAlarm
<1> DEFINE e == <<stream, item.d, at.file, at.row + 1>>
<1>1. PICK x \in Positions : x[1] = stream /\ x # e /\ RowAt(x) = event
  BY AlarmHasReason DEF AlarmIsRepeat
<1>2. e \in Positions /\ RowAt(e) = event /\ e[1] = stream
  BY EventPosition
<1> HIDE DEF e
<1>3. QED
  BY <1>1, <1>2 DEF Once, FilesOnce

(* A feed whose sink writes each row once never raises the commit-ts       *)
(* fallback error for a table that is not partitioned: not after a crash,  *)
(* a replay, a DDL, a change of date directory or of the configuration.    *)
THEOREM IncrementalNoFalseAlarm == OnePartition => (Spec /\ NeverRestarts => []NoFalseAlarm)
<1> SUFFICES ASSUME OnePartition PROVE Spec /\ NeverRestarts => []NoFalseAlarm
  OBVIOUS
<1>1. Init => Once
  BY InitOnce
<1>2. Inv /\ Progress /\ Once /\ Inv' /\ [Next]_vars /\ [~ \E s \in Streams : Restart(s)]_vars
        => Once'
  BY OnceStep
<1>3. Inv /\ Progress /\ SinkSorted /\ TsInv /\ Once => NoFalseAlarm
  BY NoAlarm
<1>4. QED
  BY <1>1, <1>2, <1>3, AlarmInvariance, PTL DEF Spec, NeverRestarts

-----------------------------------------------------------------------------
(* The rows since the snapshot that a crash would make the next run read   *)
(* again.                                                                  *)
Unsaved == {x \in Positions : Since(x) /\ Behind(mem, x) /\ ~Behind(saved, x)}

(* rows_since_checkpoint counts them, inside a file; elsewhere there are   *)
(* none.                                                                   *)
UnsavedOk ==
  /\ IsFiniteSet(Unsaved)
  /\ Cardinality(Unsaved) <= unsaved
  /\ unsaved < Interval
  /\ pc # "read" => Unsaved = {}

(* A checkpoint leaves nothing unsaved.                                    *)
LEMMA NothingUnsaved ==
  ASSUME Inv, UnsavedOk, Unsaved' = {}, unsaved' = 0 \/ unsaved' = unsaved
  PROVE  UnsavedOk'
<1>1. unsaved \in Nat /\ unsaved < Interval /\ Interval \in Nat \ {0}
  BY IntervalAssumption DEF Inv, TypeOk, UnsavedOk
<1>2. IsFiniteSet(Unsaved') /\ Cardinality(Unsaved') = 0
  BY FS_EmptySet
<1>3. unsaved' \in Nat /\ 0 <= unsaved' /\ unsaved' < Interval
  BY <1>1
<1>4. QED
  BY <1>2, <1>3 DEF UnsavedOk

(* Nor does a step that moves past no row.                                 *)
LEMMA NoMoreUnsaved ==
  ASSUME Inv, UnsavedOk, Unsaved' \subseteq Unsaved, unsaved' = unsaved, pc' = pc
  PROVE  UnsavedOk'
<1>1. unsaved \in Nat
  BY DEF Inv, TypeOk
<1>2. IsFiniteSet(Unsaved') /\ Cardinality(Unsaved') <= Cardinality(Unsaved)
  BY FS_Subset DEF UnsavedOk
<1>3. Cardinality(Unsaved') \in Nat /\ Cardinality(Unsaved) \in Nat
  BY <1>2, FS_CardinalityType DEF UnsavedOk
<1>4. Cardinality(Unsaved') <= unsaved'
  BY <1>1, <1>2, <1>3 DEF UnsavedOk
<1>5. pc' # "read" => Unsaved' = {}
  BY DEF UnsavedOk
<1>6. QED
  BY <1>2, <1>4, <1>5 DEF UnsavedOk

(* A row that is emitted and not saved adds one.                           *)
LEMMA OneMoreUnsaved ==
  ASSUME Inv, UnsavedOk, NEW e, Unsaved' \subseteq Unsaved \cup {e}, pc' = "read",
         unsaved' = unsaved + 1, ~Due(unsaved + 1)
  PROVE  UnsavedOk'
<1>1. unsaved \in Nat /\ Interval \in Nat
  BY IntervalAssumption DEF Inv, TypeOk
<1>2. /\ IsFiniteSet(Unsaved \cup {e})
      /\ Cardinality(Unsaved \cup {e}) = IF e \in Unsaved THEN Cardinality(Unsaved)
                                         ELSE Cardinality(Unsaved) + 1
  BY FS_AddElement DEF UnsavedOk
<1>3. IsFiniteSet(Unsaved') /\ Cardinality(Unsaved') <= Cardinality(Unsaved \cup {e})
  BY <1>2, FS_Subset
<1>4. Cardinality(Unsaved') \in Nat /\ Cardinality(Unsaved) \in Nat
  BY <1>3, FS_CardinalityType DEF UnsavedOk
<1>5. Cardinality(Unsaved) <= unsaved
  BY DEF UnsavedOk
<1>6. Cardinality(Unsaved') <= unsaved'
  BY <1>1, <1>2, <1>3, <1>4, <1>5
<1>7. unsaved' < Interval
  BY <1>1 DEF Due
<1>8. QED
  BY <1>3, <1>6, <1>7 DEF UnsavedOk

(* What is behind the next state in memory, in a quiet step.               *)
LEMMA UnsavedNext ==
  ASSUME UNCHANGED <<sinkVars, base>>, NEW x
  PROVE  x \in Unsaved' <=> x \in Positions /\ Since(x) /\ Behind(mem', x) /\ ~Behind(saved', x)
<1>1. Positions' = Positions /\ (Since(x)' <=> Since(x))
  BY QuietPositions
<1>2. (Behind(mem, x)' <=> Behind(mem', x)) /\ (Behind(saved, x)' <=> Behind(saved', x))
  BY DEF Behind, PassedAt, Passed
<1>3. x \in Unsaved' <=> x \in Positions' /\ Since(x)' /\ Behind(mem, x)' /\ ~Behind(saved, x)'
  BY DEF Unsaved
<1>4. QED
  BY <1>1, <1>2, <1>3

(* A range that is passed over or opened reads no row.                     *)
LEMMA RangeUnsaved ==
  ASSUME Inv, Progress, UnsavedOk, NEW it \in work, SkipReadRange(it) \/ OpenRange(it)
  PROVE  Unsaved' = {}
<1> DEFINE l == Looked(it)
           f == StartFile(l, it.d)
<1>1. /\ mem \in State /\ pc = "work" /\ IsNext(it) /\ it.kind = "dml"
      /\ it.v >= EffectiveWatermark(it.t) /\ UNCHANGED <<sinkVars, base>> /\ saved' = saved
  BY DEF SkipReadRange, OpenRange, Inv, TypeOk
<1>2. PICK s \in Streams : s = StreamOf(it)
  BY <1>1, LookedFacts
<1>3. PICK c \in Cursor : c = mem.cursors[s]
  BY <1>1, <1>2, LookedFacts
<1>4. /\ l \in Cursor /\ it.d \in Dates /\ it.d \in 0 .. MaxDate
      /\ l.lastDate = c.lastDate /\ l.lastFile = c.lastFile /\ l.curDate = c.curDate
      /\ l.curFile = c.curFile /\ l.row = c.row
  BY <1>1, <1>2, <1>3, LookedFacts, DatesType
<1>5. f \in Nat /\ (c.row > 0 => c.curDate = it.d /\ f = c.curFile)
  BY <1>1, <1>2, <1>3, RangeStart
<1> HIDE DEF l, f
<1>6. PICK n \in Cursor : /\ mem' = SetCursor(mem, s, n)
                          /\ n.lastDate = c.lastDate /\ n.lastFile = c.lastFile /\ n.row = c.row
                          /\ n.row > 0 => n.curDate = c.curDate /\ n.curFile = c.curFile
  <2>1. CASE mem' = SetCursor(mem, s, l)
    BY <1>4, <2>1
  <2>2. CASE mem' = SetCursor(mem, s, Opened(l, it.d, f))
    <3> DEFINE o == Opened(l, it.d, f)
    <3>1. o \in Cursor
      BY <1>4, <1>5, OpenedType
    <3>2. /\ o.lastDate = c.lastDate /\ o.lastFile = c.lastFile /\ o.row = c.row
          /\ o.curDate = it.d /\ o.curFile = f
      BY <1>4 DEF Opened, Cursor
    <3> HIDE DEF o
    <3>3. mem' = SetCursor(mem, s, o)
      BY <2>2 DEF o
    <3>4. QED
      BY <1>5, <3>1, <3>2, <3>3
  <2>3. QED
    BY <1>2, <2>1, <2>2 DEF SkipReadRange, OpenRange, l, f
<1>7. /\ mem'.wm = mem.wm /\ mem'.cursors[s] = n
      /\ \A r \in Streams \ {s} : mem'.cursors[r] = mem.cursors[r]
  BY <1>1, <1>6, CursorFacts
<1>8. ASSUME NEW x \in Unsaved' PROVE FALSE
  <2>1. x \in Positions /\ Since(x) /\ Behind(mem', x) /\ ~Behind(saved, x)
    BY <1>1, <1>8, UnsavedNext
  <2>2. x[1] \in Streams
    BY <2>1, PositionFacts
  <2>3. Behind(mem, x)
    <3>1. CASE x[1] = s
      BY <1>3, <1>6, <1>7, <2>1, <3>1 DEF Behind, PassedAt, Passed
    <3>2. CASE x[1] # s
      BY <1>7, <2>1, <2>2, <3>2 DEF Behind, PassedAt
    <3>3. QED
      BY <3>1, <3>2
  <2>4. QED
    BY <1>1, <2>1, <2>3 DEF UnsavedOk, Unsaved
<1>9. QED
  BY <1>8

(* In a file only the next row is moved past.                              *)
LEMMA RowUnsaved ==
  ASSUME Inv, Progress, HasRow, UNCHANGED <<sinkVars, base>>, saved' = saved, NEW c, PastEvent(c),
         mem'.wm = mem.wm, mem'.cursors[stream] = c,
         \A r \in Streams \ {stream} : mem'.cursors[r] = mem.cursors[r]
  PROVE  LET e == <<stream, item.d, at.file, at.row + 1>>
         IN /\ Unsaved' \subseteq Unsaved \cup {e}
            /\ e \in Unsaved' => ~InSnapshot
<1> DEFINE e == <<stream, item.d, at.file, at.row + 1>>
<1>1. ASSUME NEW x \in Unsaved' PROVE x \in Unsaved \cup {e}
  <2>1. x \in Positions /\ Since(x) /\ Behind(mem', x) /\ ~Behind(saved, x)
    BY <1>1, UnsavedNext
  <2>2. x[1] \in Streams
    BY <2>1, PositionFacts
  <2>3. x[1] = stream /\ Passed(c, x[2], x[3], x[4]) => PassedAt(mem, x) \/ x = e
    BY <2>1, PastEventFacts
  <2>4. Behind(mem, x) \/ x = e
    <3>1. CASE x[1] = stream
      BY <2>1, <2>3, <3>1 DEF Behind, PassedAt
    <3>2. CASE x[1] # stream
      BY <2>1, <2>2, <3>2 DEF Behind, PassedAt
    <3>3. QED
      BY <3>1, <3>2
  <2>5. QED
    BY <2>1, <2>4 DEF Unsaved
<1>2. ASSUME e \in Unsaved' PROVE ~InSnapshot
  <2>1. Since(e)
    BY <1>2, UnsavedNext
  <2>2. RowAt(e) = event /\ event.ts \in Nat /\ snap \in Nat
    BY EventPosition, BoundsType
  <2>3. QED
    BY <2>1, <2>2 DEF Since, InSnapshot
<1>3. QED
  BY <1>1, <1>2

(* The end of a file is saved; opening the next one reads nothing.         *)
LEMMA FinishFileUnsaved ==
  ASSUME Inv, Progress, FinishFile
  PROVE  Unsaved' = {}
<1> DEFINE c == Finished(cursor, item.d, at.file)
           o == Opened(c, item.d, at.file + 1)
<1>1. /\ pc = "read" /\ saved' = SetCursor(mem, stream, c) /\ UNCHANGED <<sinkVars, base>>
      /\ mem' = SetCursor(mem, stream, o) \/ mem' = SetCursor(mem, stream, c)
  BY DEF FinishFile
<1>2. PICK s \in Streams : s = stream
  BY <1>1, StreamFacts
<1>3. /\ cursor \in Cursor /\ item.d \in 0 .. MaxDate /\ at.file \in Nat /\ mem \in State
      /\ at.file + 1 \in Nat
  <2>1. cursor \in Cursor /\ cursor = mem.cursors[stream] /\ mem \in State
    BY <1>1, StreamFacts
  <2>2. at.file \in Nat /\ item.d \in Dates
    BY <1>1, StreamFacts
  <2>3. item.d \in 0 .. MaxDate
    BY <2>2, DatesType
  <2>4. at.file + 1 \in Nat
    BY <2>2
  <2>5. QED
    BY <1>2, <2>1, <2>2, <2>3, <2>4
<1>4. c \in Cursor /\ c.row = 0
  <2>1. c \in Cursor
    BY <1>3, CursorTypes
  <2>2. cursor \in Cursor
    BY <1>3
  <2>3. QED
    BY <2>1, <2>2 DEF Finished, Opened, Cursor
<1> HIDE DEF c
<1>5. o \in Cursor
  BY <1>3, <1>4, OpenedType
<1>6. o.row = 0 /\ o.lastDate = c.lastDate /\ o.lastFile = c.lastFile
  BY <1>4, <1>5 DEF Opened, Cursor
<1> HIDE DEF o
<1>7. PICK n \in Cursor : /\ mem' = SetCursor(mem, s, n)
                          /\ n.row = 0 /\ n.lastDate = c.lastDate /\ n.lastFile = c.lastFile
  BY <1>1, <1>2, <1>4, <1>5, <1>6
<1>8. /\ saved'.wm = mem.wm /\ saved'.cursors[s] = c
      /\ \A r \in Streams \ {s} : saved'.cursors[r] = mem.cursors[r]
  BY <1>1, <1>2, <1>3, <1>4, CursorFacts
<1>9. /\ mem'.wm = mem.wm /\ mem'.cursors[s] = n
      /\ \A r \in Streams \ {s} : mem'.cursors[r] = mem.cursors[r]
  BY <1>3, <1>7, CursorFacts
<1>10. ASSUME NEW x \in Unsaved' PROVE FALSE
  <2>1. x \in Positions /\ Behind(mem', x) /\ ~Behind(saved', x)
    BY <1>1, <1>10, UnsavedNext
  <2>2. x[1] \in Streams
    BY <2>1, PositionFacts
  <2>3. PassedAt(mem', x) => PassedAt(saved', x)
    <3>1. CASE x[1] = s
      BY <1>4, <1>7, <1>8, <1>9, <3>1 DEF PassedAt, Passed
    <3>2. CASE x[1] # s
      BY <1>8, <1>9, <2>2, <3>2 DEF PassedAt
    <3>3. QED
      BY <3>1, <3>2
  <2>4. QED
    BY <1>8, <1>9, <2>1, <2>3 DEF Behind
<1>11. QED
  BY <1>10

(* A step of the connector that leaves the bucket alone.                   *)
LEMMA QuietUnsaved ==
  ASSUME Inv, Progress, UnsavedOk, QuietStep
  PROVE  UnsavedOk'
<1>1. mem \in State /\ saved \in State /\ UNCHANGED <<sinkVars, base>>
  BY QuietStepIs DEF Inv, TypeOk
<1>2. ASSUME mem' = saved' PROVE Unsaved' = {}
  BY <1>1, <1>2, UnsavedNext
<1>3. ASSUME mem' = mem, saved' = saved PROVE Unsaved' = Unsaved
  <2>1. \A x : x \in Unsaved' <=> x \in Unsaved
    BY <1>1, <1>3, UnsavedNext DEF Unsaved
  <2>2. QED
    BY <2>1
<1>4. CASE \/ SkipRun \/ FailSnapshot \/ FinishRun \/ StopAtCheckpoint
           \/ RaiseFallback \/ Crash \/ CrashAfterRow \/ \E it \in work : CrashAfterTruncate(it)
  <2>1. mem' = saved' /\ unsaved' = 0
    BY <1>4 DEF SkipRun, FailSnapshot, FinishRun, StopAtCheckpoint, RaiseFallback, Crash,
                CrashAfterRow, CrashAfterTruncate, EndRun
  <2>2. QED
    BY <1>2, <2>1, NothingUnsaved
<1>5. CASE \/ \E t \in Tables : ScanTable(t)
           \/ \E it \in work : SkipMarker(it) \/ SkipOldRange(it)
  <2>1. /\ mem' = mem /\ saved' = saved /\ pc # "read"
        /\ unsaved' = 0 \/ unsaved' = unsaved
    BY <1>5 DEF ScanTable, SkipMarker, SkipOldRange
  <2>2. Unsaved' = {}
    BY <1>3, <2>1 DEF UnsavedOk
  <2>3. QED
    BY <2>1, <2>2, NothingUnsaved
<1>6. CASE StartRun
  <2> DEFINE n == Compact(saved, catalog)
  <2>1. mem' = [n EXCEPT !.seen = meta] /\ saved' = saved /\ unsaved' = unsaved
    BY <1>6 DEF StartRun
  <2>2. n \in State
    BY <1>1, CompactFacts
  <2>3. \A x \in Positions : Behind(n, x) => Behind(saved, x)
    BY <1>1, CompactBehind
  <2> HIDE DEF n
  <2>4. mem'.wm = n.wm /\ mem'.cursors = n.cursors
    BY <2>1, <2>2 DEF State
  <2>5. \A x : Behind(mem', x) => Behind(n, x)
    BY <2>4 DEF Behind, PassedAt
  <2>6. Unsaved' = {}
    BY <1>1, <2>1, <2>3, <2>5, UnsavedNext
  <2>7. QED
    BY <2>1, <2>6, NothingUnsaved
<1>7. CASE SkipRow
  <2> DEFINE c == [cursor EXCEPT !.row = at.row + 1]
             e == <<stream, item.d, at.file, at.row + 1>>
  <2>1. /\ HasRow /\ InSnapshot /\ mem' = SetCursor(mem, stream, c) /\ saved' = saved
        /\ unsaved' = unsaved /\ pc' = pc
    BY <1>7 DEF SkipRow
  <2>2. /\ stream \in Streams /\ cursor \in Cursor /\ at.row \in Nat /\ at.row + 1 \in Nat
        /\ item.d \in 0 .. MaxDate /\ at.file \in Nat
    BY <2>1, StreamFacts, DatesType DEF HasRow
  <2>3. c \in Cursor
    BY <2>2, CursorTypes
  <2>4. PastEvent(c)
    BY <2>2, <2>3 DEF PastEvent, Cursor
  <2> HIDE DEF c
  <2>5. PICK s \in Streams : s = stream
    BY <2>2
  <2>6. /\ mem'.wm = mem.wm /\ mem'.cursors[stream] = c
        /\ \A r \in Streams \ {stream} : mem'.cursors[r] = mem.cursors[r]
    BY <1>1, <2>1, <2>3, <2>5, CursorFacts
  <2>7. Unsaved' \subseteq Unsaved \cup {e} /\ (e \in Unsaved' => ~InSnapshot)
    BY <1>1, <2>1, <2>4, <2>6, RowUnsaved
  <2>8. Unsaved' \subseteq Unsaved
    BY <2>1, <2>7
  <2>9. QED
    BY <2>1, <2>8, NoMoreUnsaved
<1>8. CASE EmitRow
  <2>1. /\ HasRow /\ mem' = Advanced /\ pc' = pc /\ pc = "read"
        /\ \/ saved' = mem' /\ unsaved' = 0
           \/ ~Due(unsaved + 1) /\ unsaved' = unsaved + 1 /\ saved' = saved
    BY <1>8 DEF EmitRow, HasRow
  <2>2. CASE saved' = mem' /\ unsaved' = 0
    BY <1>2, <2>2, NothingUnsaved
  <2>3. CASE ~Due(unsaved + 1) /\ unsaved' = unsaved + 1 /\ saved' = saved
    <3> DEFINE c == [cursor EXCEPT !.row = at.row + 1, !.lastTs = event.ts]
               e == <<stream, item.d, at.file, at.row + 1>>
    <3>1. /\ Advanced.wm = mem.wm /\ PastEvent(c) /\ Advanced.cursors[stream] = c
          /\ \A r \in Streams \ {stream} : Advanced.cursors[r] = mem.cursors[r]
      BY <2>1, AdvancedFacts
    <3> HIDE DEF c
    <3>2. Unsaved' \subseteq Unsaved \cup {e}
      BY <1>1, <2>1, <2>3, <3>1, RowUnsaved
    <3>3. QED
      BY <2>1, <2>3, <3>2, OneMoreUnsaved
  <2>4. QED
    BY <2>1, <2>2, <2>3
<1>9. CASE FinishFile
  <2>1. Unsaved' = {} /\ unsaved' = 0
    BY <1>9, FinishFileUnsaved DEF FinishFile
  <2>2. QED
    BY <2>1, NothingUnsaved
<1>10. CASE \E it \in work : HandleMarker(it)
  <2>1. mem' = saved' /\ unsaved' = 0
    BY <1>10 DEF HandleMarker
  <2>2. QED
    BY <1>2, <2>1, NothingUnsaved
<1>11. CASE \E it \in work : SkipReadRange(it) \/ OpenRange(it)
  <2>1. Unsaved' = {} /\ unsaved' = unsaved
    BY <1>11, RangeUnsaved DEF SkipReadRange, OpenRange
  <2>2. QED
    BY <2>1, NothingUnsaved
<1>12. QED
  BY <1>4, <1>5, <1>6, <1>7, <1>8, <1>9, <1>10, <1>11 DEF QuietStep

(* Between runs nothing is unsaved.                                        *)
LEMMA SavedIsMem ==
  ASSUME mem' = saved', UnsavedOk, Inv, unsaved' = unsaved
  PROVE  UnsavedOk'
<1>1. \A x : (Behind(mem, x)' <=> Behind(mem', x)) /\ (Behind(saved, x)' <=> Behind(saved', x))
  BY DEF Behind, PassedAt, Passed
<1>2. Unsaved' = {}
  BY <1>1 DEF Unsaved
<1>3. QED
  BY <1>2, NothingUnsaved

(* The sink adds nothing that is behind a state.                           *)
LEMMA SinkUnsaved ==
  ASSUME Inv, Progress, UnsavedOk, Inv', SinkStep
  PROVE  UnsavedOk'
<1>1. /\ SinkAdds /\ SinkOrder
      /\ snap' = snap /\ mem' = mem /\ saved' = saved /\ unsaved' = unsaved /\ pc' = pc
  BY SinkStepAdds DEF SinkStep, Inv, Progress, connVars, base, runVars
<1>2. mem \in State /\ WatermarkOk(mem) /\ CursorsOk(mem)
  BY DEF Inv, TypeOk, Progress, StateOk
<1>3. ASSUME NEW x \in Unsaved' PROVE x \in Unsaved
  <2>1. x \in Positions' /\ Since(x)' /\ Behind(mem, x)' /\ ~Behind(saved, x)'
    BY <1>3 DEF Unsaved
  <2>2. Behind(mem, x) /\ ~Behind(saved, x)
    BY <1>1, <2>1 DEF Behind, PassedAt, Passed
  <2>3. x \in Positions /\ RowAt(x)' = RowAt(x)
    BY <1>1, <1>2, <2>1, <2>2, BehindIsOld
  <2>4. QED
    BY <1>1, <2>1, <2>2, <2>3 DEF Unsaved, Since
<1>4. QED
  BY <1>1, <1>3, NoMoreUnsaved

(* Every step.                                                             *)
LEMMA UnsavedStep == Inv /\ Progress /\ UnsavedOk /\ Inv' /\ [Next]_vars => UnsavedOk'
<1> SUFFICES ASSUME Inv, Progress, UnsavedOk, Inv', [Next]_vars PROVE UnsavedOk'
  OBVIOUS
<1>1. CASE SinkStep
  BY <1>1, SinkUnsaved
<1>2. CASE QuietStep
  BY <1>2, QuietUnsaved
<1>3. CASE UNCHANGED vars
  <2>1. UNCHANGED <<sinkVars, base>> /\ mem' = mem /\ saved' = saved /\ unsaved' = unsaved /\ pc' = pc
    BY <1>3 DEF vars, connVars, runVars
  <2>2. \A x : x \in Unsaved' <=> x \in Unsaved
    BY <2>1, UnsavedNext DEF Unsaved
  <2>3. QED
    BY <2>1, <2>2, NoMoreUnsaved
<1>4. CASE \/ \E C \in Catalogs : Refilter(C)
           \/ \E c \in Versions, S \in SUBSET Tables : LoadSnapshot(c, S)
  <2>1. /\ pc = "idle" /\ unsaved' = unsaved
        /\ mem' = saved' \/ (mem' = mem /\ saved' = saved)
    BY <1>4 DEF Refilter, LoadSnapshot, runVars
  <2>2. mem = saved
    BY <2>1 DEF Progress, RunOk
  <2>3. QED
    BY <2>1, <2>2, SavedIsMem
<1>5. QED
  BY <1>1, <1>2, <1>3, <1>4, NextIs

(* Nothing is there at first.                                              *)
LEMMA InitUnsaved == Init => UnsavedOk
<1> SUFFICES ASSUME Init PROVE UnsavedOk
  OBVIOUS
<1>1. mem = saved /\ unsaved = 0 /\ pc = "idle"
  BY DEF Init
<1>2. Unsaved = {}
  BY <1>1 DEF Unsaved
<1>3. QED
  BY <1>1, <1>2, FS_EmptySet, IntervalAssumption DEF UnsavedOk

(* The rows ReplayBounded counts are those.                                *)
LEMMA FewUnsaved == Inv /\ Progress /\ UnsavedOk => ReplayBounded
<1> SUFFICES ASSUME Inv, Progress, UnsavedOk PROVE ReplayBounded
  OBVIOUS
<1> DEFINE again == {x \in Positions : RowAt(x).ts > snap /\ IsRead(mem, x) /\ ~IsRead(saved, x)}
<1>1. mem \in State /\ saved \in State /\ unsaved \in Nat /\ Interval \in Nat
  BY IntervalAssumption DEF Inv, TypeOk
<1>2. \A x \in Positions : Since(x) =>
        (IsRead(mem, x) <=> Behind(mem, x)) /\ (IsRead(saved, x) <=> Behind(saved, x))
  BY <1>1, ReadSince
<1>3. again = Unsaved
  BY <1>2 DEF Unsaved, Since
<1> HIDE DEF again
<1>4. Cardinality(again) \in Nat
  BY <1>3, FS_CardinalityType DEF UnsavedOk
<1>5. Cardinality(again) < Interval
  BY <1>1, <1>3, <1>4 DEF UnsavedOk
<1>6. QED
  BY <1>5 DEF ReplayBounded, again

(* A crash makes the next run repeat fewer than checkpoint_interval_rows   *)
(* emitted rows, whatever else happened since the last checkpoint.         *)
THEOREM IncrementalReplayBounded == Spec => []ReplayBounded
<1>1. Init => UnsavedOk
  BY InitUnsaved
<1>2. Inv /\ Progress /\ UnsavedOk /\ Inv' /\ [Next]_vars => UnsavedOk'
  BY UnsavedStep
<1>3. Inv /\ Progress /\ UnsavedOk => ReplayBounded
  BY FewUnsaved
<1>4. QED
  BY <1>1, <1>2, <1>3, ProgressInvariance, PTL DEF Spec
=============================================================================
