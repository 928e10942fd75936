----------------------------- MODULE TiCDCSink ------------------------------
(***************************************************************************)
(* The other side of the bucket: the upstream TiDB tables and the TiCDC    *)
(* storage sink that writes the increment/ prefix.  None of this is code   *)
(* of the repository; it is what the code relies on:                       *)
(*                                                                         *)
(*   - every row change carries a commit-ts and belongs to a table         *)
(*     version, the ts of the last DDL before it;                          *)
(*   - the changes of one stream (table, version, partition) are written   *)
(*     in commit-ts order to numbered files of the current date directory, *)
(*     and CDC.index names the last number written;                        *)
(*   - increment/metadata holds a checkpoint-ts below which every change   *)
(*     and every schema file is already in the bucket.                     *)
(*                                                                         *)
(* The sink may restart a stream: it writes the rows above the             *)
(* checkpoint-ts once more, to new files.  It never rewrites a file.       *)
(***************************************************************************)
EXTENDS Integers, Sequences, FiniteSets

CONSTANTS
  Tables,        \* the tables the configuration selects
  Keys,          \* primary keys
  Partitions,    \* partition ids, {0} for an unpartitioned table
  PartitionOf,   \* the partition that holds each key
  Ops,           \* row change kinds: "I", "U", "D"
  MaxTs,         \* bound: timestamps are 1..MaxTs
  MaxDate,       \* bound: date directories are 1..MaxDate; 0: undated layout
  MaxRows,       \* bound: row changes per table
  MaxFiles       \* bound: files of a stream and date; from there on no restarts

ASSUME SinkAssumption ==
  /\ MaxTs \in Nat \ {0}
  /\ MaxDate \in Nat
  /\ {MaxRows, MaxFiles} \subseteq Nat
  /\ Partitions \subseteq Nat
  /\ PartitionOf \in [Keys -> Partitions]
  /\ Ops \subseteq {"I", "U", "D"}
  /\ MaxDate = 0 \/ Partitions = {0}

Versions == 1 .. MaxTs
Dates    == IF MaxDate = 0 THEN {0} ELSE 1 .. MaxDate
Streams  == Tables \X Versions \X Partitions

Row    == [ts : Versions, key : Keys, op : Ops]
Schema == [v : Versions, trunc : BOOLEAN]
Cell   == [ts : 0 .. MaxTs, live : BOOLEAN]   \* one key of a table copy

VARIABLES
  clock,     \* the largest commit-ts used so far
  date,      \* the date directory being written
  schemas,   \* schema files of each table
  buf,       \* changes of each stream not written yet
  files,     \* files[s][d]: the data files of stream s under date d
  meta       \* checkpoint-ts of increment/metadata, 0: no such object

sinkVars == <<clock, date, schemas, buf, files, meta>>

SinkTypeOk ==
  /\ clock \in Versions
  /\ date \in Dates
  /\ schemas \in [Tables -> SUBSET Schema]
  /\ buf \in [Streams -> Seq(Row)]
  /\ files \in [Streams -> [Dates -> Seq(Seq(Row))]]
  /\ meta \in 0 .. MaxTs

SinkInit ==
  /\ clock = 1
  /\ date = IF MaxDate = 0 THEN 0 ELSE 1
  /\ schemas = [t \in Tables |-> {[v |-> 1, trunc |-> FALSE]}]
  /\ buf = [s \in Streams |-> <<>>]
  /\ files = [s \in Streams |-> [d \in Dates |-> <<>>]]
  /\ meta = 0

-----------------------------------------------------------------------------
SeqRange(q) == {q[i] : i \in 1 .. Len(q)}

FileRows(s) == UNION {UNION {SeqRange(f) : f \in SeqRange(files[s][d])} : d \in Dates}

(* Every row change of table t the upstream has committed. *)
RowsOf(t) == UNION {FileRows(s) \cup SeqRange(buf[s]) : s \in {x \in Streams : x[1] = t}}

(* What has happened to key k of table t, the empty table being change 0. *)
Changes(t, k) ==
  {[ts |-> 0, live |-> FALSE]}
    \cup {[ts |-> m.v, live |-> FALSE] : m \in {n \in schemas[t] : n.trunc}}
    \cup {[ts |-> r.ts, live |-> r.op # "D"] : r \in {x \in RowsOf(t) : x.key = k}}

LastChange(t, k, c) ==
  LET upTo == {x \in Changes(t, k) : x.ts <= c}
  IN CHOOSE x \in upTo : \A y \in upTo : y.ts <= x.ts

(* The upstream content of table t as of timestamp c. *)
Truth(t, c) == [k \in Keys |-> LastChange(t, k, c)]

-----------------------------------------------------------------------------
(* A transaction at ts changes key k.  Transactions share a ts when they   *)
(* change several keys; a new one may start only above the checkpoint-ts.  *)
CommitRow(t, k, op, ts) ==
  LET latest == CHOOSE m \in schemas[t] : \A n \in schemas[t] : n.v <= m.v
      s      == <<t, latest.v, PartitionOf[k]>>
      rows   == RowsOf(t)
  IN /\ ts \in {clock, clock + 1} \cap Versions
     /\ ts > meta
     /\ ts > latest.v
     /\ Cardinality(rows) < MaxRows
     /\ \A r \in rows : ~(r.key = k /\ r.ts = ts)
     /\ buf' = [buf EXCEPT ![s] = Append(@, [ts |-> ts, key |-> k, op |-> op])]
     /\ clock' = ts
     /\ UNCHANGED <<date, schemas, files, meta>>

(* The buffered changes of a stream become its next file, then its index   *)
(* names that file.                                                        *)
Flush(s) ==
  /\ buf[s] # <<>>
  /\ files' = [files EXCEPT ![s] = [files[s] EXCEPT ![date] = Append(files[s][date], buf[s])]]
  /\ buf' = [buf EXCEPT ![s] = <<>>]
  /\ UNCHANGED <<clock, date, schemas, meta>>

(* The rows of a stream that a restart writes again, and the orders it may *)
(* find them in.                                                           *)
Resent(s) == SeqRange(buf[s]) \cup {r \in FileRows(s) : r.ts > meta}

Resendings(s) ==
  UNION {{q \in [1 .. n -> Resent(s)] :
            /\ SeqRange(q) = Resent(s)
            /\ \A i, j \in 1 .. n : i < j => q[i] # q[j] /\ q[i].ts <= q[j].ts}
         : n \in 0 .. MaxRows}

Restart(s) ==
  /\ Len(files[s][date]) < MaxFiles
  /\ \E q \in Resendings(s) :
       /\ q # buf[s]
       /\ buf' = [buf EXCEPT ![s] = q]
  /\ UNCHANGED <<clock, date, schemas, files, meta>>

RollDate ==
  /\ date < MaxDate
  /\ date' = date + 1
  /\ UNCHANGED <<clock, schemas, buf, files, meta>>

(* A DDL starts a table version once the changes before it are written.    *)
DDL(t, trunc) ==
  /\ clock < MaxTs
  /\ \A s \in Streams : s[1] = t => buf[s] = <<>>
  /\ schemas' = [schemas EXCEPT ![t] = @ \cup {[v |-> clock + 1, trunc |-> trunc]}]
  /\ clock' = clock + 1
  /\ UNCHANGED <<date, buf, files, meta>>

Publish(c) ==
  /\ meta < c
  /\ c <= clock
  /\ \A s \in Streams : \A i \in 1 .. Len(buf[s]) : buf[s][i].ts > c
  /\ meta' = c
  /\ UNCHANGED <<clock, date, schemas, buf, files>>
=============================================================================
