----------------------- MODULE IncrementalSyncProofs ------------------------
(***************************************************************************)
(* Proofs about IncrementalSync, for every set of tables, keys and         *)
(* partitions, every bound and every checkpoint interval.                  *)
(***************************************************************************)
EXTENDS IncrementalSync, WellFoundedInduction, TLAPS

(***************************************************************************)
(* The sink first: its variables keep their types, a key changes at most   *)
(* once per timestamp, and what happened up to the published checkpoint-ts *)
(* never changes again.                                                    *)
(***************************************************************************)

(* A set of numbers that is not empty has a smallest member.               *)
LEMMA SmallestOf ==
  ASSUME NEW T \in SUBSET Nat, T # {}
  PROVE  \E m \in T : \A n \in T : m <= n
<1>1. \E m \in T : \A n \in T : ~(<<n, m>> \in OpToRel(<, Nat))
  BY NatLessThanWellFounded, WFMin
<1>2. PICK m \in T : \A n \in T : ~(<<n, m>> \in OpToRel(<, Nat))
  BY <1>1
<1>3. \A n \in T : ~(n < m)
  BY <1>2 DEF OpToRel
<1>4. QED
  BY <1>3

(* A bounded set of numbers has a largest member: it is the smallest       *)
(* bound.                                                                  *)
LEMMA LargestOf ==
  ASSUME NEW S \in SUBSET Nat, S # {}, NEW N \in Nat, \A x \in S : x <= N
  PROVE  \E m \in S : \A x \in S : x <= m
<1> DEFINE T == {n \in Nat : \A x \in S : x <= n}
<1>1. PICK m \in T : \A n \in T : m <= n
  BY SmallestOf
<1>2. m \in S
  <2> SUFFICES ASSUME m \notin S PROVE FALSE
    OBVIOUS
  <2>1. \A x \in S : x <= m - 1
    BY <1>1
  <2>2. m - 1 \in T
    <3>1. PICK x \in S : TRUE
      OBVIOUS
    <3>2. x \in Nat /\ m \in Nat /\ x <= m - 1
      BY <2>1
    <3>3. QED
      BY <3>2, <2>1
  <2>3. QED
    BY <2>2, <1>1
<1>3. QED
  BY <1>1, <1>2

(* Appending adds one member to the range of a sequence.                   *)
LEMMA AppendRange ==
  ASSUME NEW A, NEW q \in Seq(A), NEW x \in A
  PROVE  SeqRange(Append(q, x)) = SeqRange(q) \cup {x}
<1>1. Append(q, x) \in Seq(A) /\ Len(Append(q, x)) = Len(q) + 1 /\ Len(q) \in Nat
  OBVIOUS
<1>2. \A i \in 1 .. Len(q) : Append(q, x)[i] = q[i]
  OBVIOUS
<1>3. Append(q, x)[Len(q) + 1] = x
  OBVIOUS
<1>4. QED
  BY <1>1, <1>2, <1>3 DEF SeqRange

-----------------------------------------------------------------------------
(* The newest schema of a table exists.                                    *)
LatestSchema(t) == CHOOSE m \in schemas[t] : \A n \in schemas[t] : n.v <= m.v

SinkInv ==
  /\ SinkTypeOk
  /\ meta <= clock
  /\ \A t \in Tables : schemas[t] # {} /\ \A m \in schemas[t] : m.v <= clock
  /\ \A t \in Tables : \A r \in RowsOf(t) : r \in Row /\ r.ts <= clock
  /\ \A t \in Tables : \A r, q \in RowsOf(t) : r.key = q.key /\ r.ts = q.ts => r = q
  /\ \A t \in Tables : \A r \in RowsOf(t) : \A m \in schemas[t] : r.ts # m.v

(* The version a commit goes to is the newest of its table.                *)
LEMMA LatestSchemaIsLargest ==
  ASSUME NEW t \in Tables, schemas \in [Tables -> SUBSET Schema], schemas[t] # {}
  PROVE  LatestSchema(t) \in schemas[t] /\ \A n \in schemas[t] : n.v <= LatestSchema(t).v
<1> DEFINE S == {m.v : m \in schemas[t]}
<1>1. S \in SUBSET Nat /\ S # {} /\ MaxTs \in Nat /\ \A x \in S : x <= MaxTs
  BY SinkAssumption DEF Schema, Versions
<1>2. PICK v \in S : \A x \in S : x <= v
  BY <1>1, LargestOf
<1>3. \E m \in schemas[t] : \A n \in schemas[t] : n.v <= m.v
  BY <1>2
<1>4. QED
  BY <1>3 DEF LatestSchema

(* A committed row is in a file or in the buffer of a stream of its table. *)
LEMMA RowsOfMember ==
  ASSUME NEW t, NEW r
  PROVE  r \in RowsOf(t) <=>
           \E s \in Streams : s[1] = t /\ (r \in FileRows(s) \/ r \in SeqRange(buf[s]))
BY DEF RowsOf

(* The same after a step.                                                  *)
LEMMA RowsOfMemberNext ==
  ASSUME NEW t, NEW r
  PROVE  r \in RowsOf(t)' <=>
           \E s \in Streams : s[1] = t /\ (r \in FileRows(s)' \/ r \in SeqRange(buf'[s]))
BY DEF RowsOf, SeqRange

(* The parts of a stream.                                                  *)
LEMMA StreamsType == 
  ASSUME NEW t \in Tables, NEW v \in Versions, NEW p \in Partitions
  PROVE  <<t, v, p>> \in Streams /\ <<t, v, p>>[1] = t
BY DEF Streams

-----------------------------------------------------------------------------
(* What each action does to the rows of the tables.                        *)
LEMMA CommitRows ==
  ASSUME SinkInv, NEW t \in Tables, NEW k \in Keys, NEW op \in Ops, NEW ts \in Versions,
         CommitRow(t, k, op, ts)
  PROVE  LET row == [ts |-> ts, key |-> k, op |-> op]
         IN /\ row \in Row
            /\ buf' \in [Streams -> Seq(Row)]
            /\ RowsOf(t)' = RowsOf(t) \cup {row}
            /\ \A u \in Tables \ {t} : RowsOf(u)' = RowsOf(u)
<1> DEFINE row == [ts |-> ts, key |-> k, op |-> op]
           s0  == <<t, LatestSchema(t).v, PartitionOf[k]>>
<1>1. row \in Row
  BY SinkAssumption DEF Row
<1>2. s0 \in Streams /\ s0[1] = t
  <2>1. LatestSchema(t).v \in Versions
    BY LatestSchemaIsLargest DEF SinkInv, SinkTypeOk, Schema
  <2>2. PartitionOf[k] \in Partitions
    BY SinkAssumption
  <2>3. QED
    BY <2>1, <2>2, StreamsType
<1>3. buf' = [buf EXCEPT ![s0] = Append(@, row)] /\ files' = files
  BY DEF CommitRow, LatestSchema
<1>4. buf \in [Streams -> Seq(Row)]
  BY DEF SinkInv, SinkTypeOk
<1>5. buf' \in [Streams -> Seq(Row)]
  BY <1>1, <1>2, <1>3, <1>4
<1>6. SeqRange(buf'[s0]) = SeqRange(buf[s0]) \cup {row}
  BY <1>1, <1>2, <1>3, <1>4, AppendRange
<1>7. \A s \in Streams \ {s0} : buf'[s] = buf[s]
  BY <1>3, <1>4
<1>8. \A s \in Streams : FileRows(s)' = FileRows(s)
  BY <1>3 DEF FileRows, SeqRange
<1>9. RowsOf(t)' = RowsOf(t) \cup {row}
  BY <1>2, <1>6, <1>7, <1>8, RowsOfMember, RowsOfMemberNext
<1>10. ASSUME NEW u \in Tables \ {t} PROVE RowsOf(u)' = RowsOf(u)
  <2>1. ASSUME NEW r PROVE r \in RowsOf(u)' <=> r \in RowsOf(u)
    <3>1. \A s \in Streams : s[1] = u => FileRows(s)' = FileRows(s) /\ buf'[s] = buf[s]
      BY <1>2, <1>7, <1>8
    <3>2. QED
      BY <3>1, RowsOfMember, RowsOfMemberNext
  <2>2. QED
    BY <2>1
<1>11. QED
  BY <1>1, <1>5, <1>9, <1>10

(* A flush moves rows from a buffer to a file and changes no RowsOf.       *)
LEMMA FlushRows ==
  ASSUME SinkInv, NEW s0 \in Streams, Flush(s0)
  PROVE  /\ buf' \in [Streams -> Seq(Row)]
         /\ files' \in [Streams -> [Dates -> Seq(Seq(Row))]]
         /\ \A t : RowsOf(t)' = RowsOf(t)
<1>1. /\ buf \in [Streams -> Seq(Row)] /\ date \in Dates
      /\ files \in [Streams -> [Dates -> Seq(Seq(Row))]]
  BY DEF SinkInv, SinkTypeOk
<1>2. /\ buf' = [buf EXCEPT ![s0] = <<>>]
      /\ files' = [files EXCEPT ![s0] = [files[s0] EXCEPT ![date] = Append(files[s0][date], buf[s0])]]
  BY DEF Flush
<1>3. buf' \in [Streams -> Seq(Row)] /\ SeqRange(buf'[s0]) = {}
  BY <1>1, <1>2 DEF SeqRange
<1>4. /\ files[s0][date] \in Seq(Seq(Row)) /\ buf[s0] \in Seq(Row)
      /\ files'[s0][date] = Append(files[s0][date], buf[s0])
      /\ files' \in [Streams -> [Dates -> Seq(Seq(Row))]]
  <2>1. files[s0][date] \in Seq(Seq(Row)) /\ buf[s0] \in Seq(Row)
    BY <1>1
  <2>2. Append(files[s0][date], buf[s0]) \in Seq(Seq(Row))
    BY <2>1
  <2> DEFINE fd == [files[s0] EXCEPT ![date] = Append(files[s0][date], buf[s0])]
  <2>4. fd \in [Dates -> Seq(Seq(Row))] /\ fd[date] = Append(files[s0][date], buf[s0])
    BY <2>2, <1>1
  <2>5. files' = [files EXCEPT ![s0] = fd]
    BY <1>2
  <2>6. files' \in [Streams -> [Dates -> Seq(Seq(Row))]] /\ files'[s0] = fd
    <3> HIDE DEF fd
    <3>1. QED
      BY <2>4, <2>5, <1>1
  <2>7. QED
    BY <2>1, <2>4, <2>6
<1>5. SeqRange(files'[s0][date]) = SeqRange(files[s0][date]) \cup {buf[s0]}
  BY <1>4, AppendRange
<1>6. \A d \in Dates \ {date} : files'[s0][d] = files[s0][d]
  BY <1>1, <1>2
<1>7. FileRows(s0)' = FileRows(s0) \cup SeqRange(buf[s0])
  <2>1. FileRows(s0)' = UNION {UNION {SeqRange(f) : f \in SeqRange(files'[s0][d])} : d \in Dates}
    BY DEF FileRows, SeqRange
  <2>2. \A r : r \in FileRows(s0)' <=>
                 \E d \in Dates : \E f \in SeqRange(files'[s0][d]) : r \in SeqRange(f)
    BY <2>1
  <2>3. \A r : r \in FileRows(s0) <=>
                 \E d \in Dates : \E f \in SeqRange(files[s0][d]) : r \in SeqRange(f)
    BY DEF FileRows
  <2>4. QED
    BY <2>2, <2>3, <1>1, <1>5, <1>6
<1>8. \A s \in Streams \ {s0} : FileRows(s)' = FileRows(s) /\ buf'[s] = buf[s]
  BY <1>1, <1>2 DEF FileRows, SeqRange
<1>9. ASSUME NEW t PROVE RowsOf(t)' = RowsOf(t)
  <2>1. ASSUME NEW r PROVE r \in RowsOf(t)' <=> r \in RowsOf(t)
    <3>1. \A s \in Streams : r \in FileRows(s)' \/ r \in SeqRange(buf'[s])
                             <=> r \in FileRows(s) \/ r \in SeqRange(buf[s])
      BY <1>3, <1>7, <1>8
    <3>2. QED
      BY <3>1, RowsOfMember, RowsOfMemberNext
  <2>2. QED
    BY <2>1
<1>10. QED
  BY <1>3, <1>4, <1>9

(* A restart puts rows of the stream into its buffer again, and keeps      *)
(* those that are there.                                                   *)
LEMMA RestartRows ==
  ASSUME SinkInv, NEW s0 \in Streams, Restart(s0)
  PROVE  /\ buf' \in [Streams -> Seq(Row)]
         /\ \A t : RowsOf(t)' = RowsOf(t)
<1>1. PICK q \in Resendings(s0) : buf' = [buf EXCEPT ![s0] = q]
  BY DEF Restart
<1>2. PICK n \in 0 .. MaxRows : q \in [1 .. n -> Resent(s0)] /\ SeqRange(q) = Resent(s0)
  BY DEF Resendings
<1>3. s0[1] \in Tables /\ buf \in [Streams -> Seq(Row)]
  BY DEF SinkInv, SinkTypeOk, Streams
<1>4. Resent(s0) \subseteq FileRows(s0) \cup SeqRange(buf[s0]) /\ SeqRange(buf[s0]) \subseteq Resent(s0)
  BY DEF Resent
<1>5. Resent(s0) \subseteq Row
  BY <1>3, <1>4, RowsOfMember DEF SinkInv
<1>6. q \in Seq(Row)
  <2>1. n \in Nat /\ q \in [1 .. n -> Row]
    BY <1>2, <1>5, SinkAssumption
  <2>2. QED
    BY <2>1
<1>7. buf' \in [Streams -> Seq(Row)] /\ buf'[s0] = q /\ files' = files
  BY <1>1, <1>3, <1>6 DEF Restart
<1>8. \A s \in Streams : FileRows(s)' = FileRows(s)
  BY <1>7 DEF FileRows, SeqRange
<1>9. \A s \in Streams \ {s0} : buf'[s] = buf[s]
  BY <1>1, <1>3
<1>10. ASSUME NEW t PROVE RowsOf(t)' = RowsOf(t)
  <2>1. ASSUME NEW r PROVE r \in RowsOf(t)' <=> r \in RowsOf(t)
    <3>1. \A s \in Streams : r \in FileRows(s)' \/ r \in SeqRange(buf'[s])
                             <=> r \in FileRows(s) \/ r \in SeqRange(buf[s])
      BY <1>2, <1>4, <1>7, <1>8, <1>9
    <3>2. QED
      BY <3>1, RowsOfMember, RowsOfMemberNext
  <2>2. QED
    BY <2>1
<1>11. QED
  BY <1>7, <1>10

(* A step that leaves buffers and files alone leaves the rows alone.       *)
LEMMA SameRows ==
  ASSUME UNCHANGED <<buf, files>>
  PROVE  \A t : RowsOf(t)' = RowsOf(t)
BY DEF RowsOf, FileRows, SeqRange

-----------------------------------------------------------------------------
(* The last change up to c depends on the changes up to c alone.           *)
LEMMA SameLastChange ==
  ASSUME NEW t, NEW k, NEW c,
         \A x : x \in Changes(t, k)' /\ x.ts <= c <=> x \in Changes(t, k) /\ x.ts <= c
  PROVE  LastChange(t, k, c)' = LastChange(t, k, c)
<1>1. {x \in Changes(t, k)' : x.ts <= c} = {x \in Changes(t, k) : x.ts <= c}
  OBVIOUS
<1>2. QED
  BY <1>1 DEF LastChange

(* What a change of a key is.                                              *)
LEMMA ChangesMember ==
  ASSUME NEW t, NEW k, NEW x
  PROVE  x \in Changes(t, k) <=>
           \/ x = [ts |-> 0, live |-> FALSE]
           \/ \E m \in schemas[t] : m.trunc /\ x = [ts |-> m.v, live |-> FALSE]
           \/ \E r \in RowsOf(t) : r.key = k /\ x = [ts |-> r.ts, live |-> r.op # "D"]
BY DEF Changes

(* The same after a step.                                                  *)
LEMMA ChangesMemberNext ==
  ASSUME NEW t, NEW k, NEW x
  PROVE  x \in Changes(t, k)' <=>
           \/ x = [ts |-> 0, live |-> FALSE]
           \/ \E m \in schemas'[t] : m.trunc /\ x = [ts |-> m.v, live |-> FALSE]
           \/ \E r \in RowsOf(t)' : r.key = k /\ x = [ts |-> r.ts, live |-> r.op # "D"]
BY DEF Changes

(* The empty bucket satisfies the invariant.                               *)
LEMMA InitSinkInv == SinkInit => SinkInv
<1> SUFFICES ASSUME SinkInit PROVE SinkInv
  OBVIOUS
<1>1. SinkTypeOk
  BY SinkAssumption DEF SinkInit, SinkTypeOk, Versions, Dates, Schema
<1>2. \A t : RowsOf(t) = {}
  BY DEF SinkInit, RowsOf, FileRows, SeqRange
<1>3. meta <= clock
  BY DEF SinkInit
<1>4. ASSUME NEW t \in Tables
      PROVE  schemas[t] # {} /\ \A m \in schemas[t] : m.v <= clock
  <2>1. schemas[t] = {[v |-> 1, trunc |-> FALSE]} /\ clock = 1
    BY DEF SinkInit
  <2>2. [v |-> 1, trunc |-> FALSE].v <= 1
    OBVIOUS
  <2>3. QED
    BY <2>1, <2>2
<1>5. QED
  BY <1>1, <1>2, <1>3, <1>4 DEF SinkInv

(* A commit adds a change above every change the checkpoint-ts covers.     *)
LEMMA CommitRowInv ==
  ASSUME SinkInv, NEW t \in Tables, NEW k \in Keys, NEW op \in Ops, NEW ts \in Versions,
         CommitRow(t, k, op, ts)
  PROVE  /\ SinkInv'
         /\ \A u \in Tables, j \in Keys, c \in Nat :
              c < ts => LastChange(u, j, c)' = LastChange(u, j, c)
<1> DEFINE row == [ts |-> ts, key |-> k, op |-> op]
<1>1. /\ row \in Row
      /\ buf' \in [Streams -> Seq(Row)]
      /\ RowsOf(t)' = RowsOf(t) \cup {row}
      /\ \A u \in Tables \ {t} : RowsOf(u)' = RowsOf(u)
  BY CommitRows
<1>2. /\ ts \in Nat /\ clock \in Nat /\ (ts = clock \/ ts = clock + 1) /\ clock' = ts
      /\ ts > LatestSchema(t).v /\ ts > meta
      /\ \A r \in RowsOf(t) : ~(r.key = k /\ r.ts = ts)
      /\ UNCHANGED <<date, schemas, files, meta>>
  BY SinkAssumption DEF CommitRow, LatestSchema, SinkInv, SinkTypeOk, Versions
<1>3. SinkTypeOk'
  BY <1>1, <1>2 DEF SinkInv, SinkTypeOk
<1>4. meta' <= clock' /\ \A u \in Tables : schemas'[u] # {} /\ \A m \in schemas'[u] : m.v <= clock'
  BY <1>2 DEF SinkInv, SinkTypeOk, Schema, Versions
<1>5. \A m \in schemas[t] : m.v < ts /\ m.v \in Nat
  BY <1>2, LatestSchemaIsLargest DEF SinkInv, SinkTypeOk, Schema, Versions
<1>6. \A u \in Tables : \A r \in RowsOf(u) : r.ts \in Nat /\ r.ts <= clock /\ r \in Row
  BY DEF SinkInv, Row, Versions
<1>7. \A u \in Tables : \A r \in RowsOf(u)' : r \in Row /\ r.ts <= clock'
  BY <1>1, <1>2, <1>6
<1>8. \A u \in Tables : \A r, q \in RowsOf(u)' : r.key = q.key /\ r.ts = q.ts => r = q
  BY <1>1, <1>2 DEF SinkInv
<1>9. \A u \in Tables : \A r \in RowsOf(u)' : \A m \in schemas'[u] : r.ts # m.v
  BY <1>1, <1>2, <1>5 DEF SinkInv
<1>10. SinkInv'
  BY <1>3, <1>4, <1>7, <1>8, <1>9 DEF SinkInv
<1>11. ASSUME NEW u \in Tables, NEW j \in Keys, NEW c \in Nat, c < ts
       PROVE  LastChange(u, j, c)' = LastChange(u, j, c)
  <2>1. ASSUME NEW x PROVE x \in Changes(u, j)' /\ x.ts <= c <=> x \in Changes(u, j) /\ x.ts <= c
    <3>1. CASE u = t
      <4>1. ~([ts |-> row.ts, live |-> row.op # "D"].ts <= c)
        BY <1>2, <1>11
      <4>2. QED
        BY <4>1, <3>1, <1>1, <1>2, ChangesMember, ChangesMemberNext
    <3>2. CASE u # t
      BY <3>2, <1>1, <1>2, ChangesMember, ChangesMemberNext
    <3>3. QED
      BY <3>1, <3>2
  <2>2. QED
    BY <2>1, SameLastChange
<1>12. QED
  BY <1>10, <1>11

(* A DDL is a change above every row and above the checkpoint-ts, and its  *)
(* version is above every other.                                           *)
LEMMA DDLInv ==
  ASSUME SinkInv, NEW t \in Tables, NEW trunc \in BOOLEAN, DDL(t, trunc)
  PROVE  /\ SinkInv'
         /\ \A u \in Tables, j \in Keys, c \in Nat :
              c <= clock => LastChange(u, j, c)' = LastChange(u, j, c)
<1> DEFINE new == [v |-> clock + 1, trunc |-> trunc]
<1>1. /\ clock \in Nat /\ clock' = clock + 1 /\ clock < MaxTs /\ MaxTs \in Nat
      /\ schemas' = [schemas EXCEPT ![t] = schemas[t] \cup {new}]
      /\ UNCHANGED <<date, buf, files, meta>>
  BY SinkAssumption DEF DDL, SinkInv, SinkTypeOk, Versions
<1>2. schemas \in [Tables -> SUBSET Schema] /\ new \in Schema /\ clock' \in Versions
  BY <1>1 DEF SinkInv, SinkTypeOk, Schema, Versions
<1>3. /\ schemas' \in [Tables -> SUBSET Schema]
      /\ schemas'[t] = schemas[t] \cup {new}
      /\ \A u \in Tables \ {t} : schemas'[u] = schemas[u]
  BY <1>1, <1>2
<1>4. SinkTypeOk'
  BY <1>1, <1>2, <1>3 DEF SinkInv, SinkTypeOk
<1>5. \A u : RowsOf(u)' = RowsOf(u)
  BY <1>1, SameRows
<1>6. meta' <= clock' /\ \A u \in Tables : schemas'[u] # {} /\ \A m \in schemas'[u] : m.v <= clock'
  BY <1>1, <1>2, <1>3 DEF SinkInv, SinkTypeOk, Schema, Versions
<1>7. \A u \in Tables : \A r \in RowsOf(u) : r.ts \in Nat /\ r.ts <= clock /\ r \in Row
  BY DEF SinkInv, Row, Versions
<1>8. \A u \in Tables : \A r \in RowsOf(u)' : r \in Row /\ r.ts <= clock'
  BY <1>1, <1>5, <1>7
<1>9. \A u \in Tables : \A r \in RowsOf(u)' : \A m \in schemas'[u] : r.ts # m.v
  BY <1>1, <1>3, <1>5, <1>7 DEF SinkInv
<1>10. SinkInv'
  BY <1>4, <1>5, <1>6, <1>8, <1>9 DEF SinkInv
<1>11. ASSUME NEW u \in Tables, NEW j \in Keys, NEW c \in Nat, c <= clock
       PROVE  LastChange(u, j, c)' = LastChange(u, j, c)
  <2>1. ASSUME NEW x PROVE x \in Changes(u, j)' /\ x.ts <= c <=> x \in Changes(u, j) /\ x.ts <= c
    <3>1. CASE u = t
      <4>1. ~([ts |-> new.v, live |-> FALSE].ts <= c)
        BY <1>1, <1>11
      <4>2. QED
        BY <4>1, <3>1, <1>3, <1>5, ChangesMember, ChangesMemberNext
    <3>2. CASE u # t
      BY <3>2, <1>3, <1>5, ChangesMember, ChangesMemberNext
    <3>3. QED
      BY <3>1, <3>2
  <2>2. QED
    BY <2>1, SameLastChange
<1>12. QED
  BY <1>10, <1>11

(* The other actions move rows or publish, and change no history.          *)
LEMMA QuietInv ==
  ASSUME SinkInv,
         (\E s \in Streams : Flush(s) \/ Restart(s)) \/ RollDate \/ (\E c \in Versions : Publish(c))
           \/ UNCHANGED sinkVars
  PROVE  /\ SinkInv'
         /\ \A u \in Tables, j \in Keys, c \in Nat : LastChange(u, j, c)' = LastChange(u, j, c)
<1>1. (\A t : RowsOf(t)' = RowsOf(t)) /\ schemas' = schemas /\ clock' = clock
  <2>1. CASE \E s \in Streams : Flush(s)
    BY <2>1, FlushRows DEF Flush
  <2>2. CASE \E s \in Streams : Restart(s)
    BY <2>2, RestartRows DEF Restart
  <2>3. CASE RollDate \/ (\E c \in Versions : Publish(c)) \/ UNCHANGED sinkVars
    BY <2>3, SameRows DEF RollDate, Publish, sinkVars
  <2>4. QED
    BY <2>1, <2>2, <2>3
<1>2. SinkTypeOk' /\ meta' <= clock'
  <2>1. CASE \E s \in Streams : Flush(s)
    BY <2>1, FlushRows DEF Flush, SinkInv, SinkTypeOk
  <2>2. CASE RollDate
    BY <2>2, SinkAssumption DEF RollDate, SinkInv, SinkTypeOk, Dates
  <2>3. CASE \E c \in Versions : Publish(c)
    BY <2>3, SinkAssumption DEF Publish, SinkInv, SinkTypeOk, Versions
  <2>4. CASE UNCHANGED sinkVars
    BY <2>4 DEF sinkVars, SinkInv, SinkTypeOk
  <2>5. CASE \E s \in Streams : Restart(s)
    BY <2>5, RestartRows DEF Restart, SinkInv, SinkTypeOk
  <2>6. QED
    BY <2>1, <2>2, <2>3, <2>4, <2>5
<1>3. SinkInv'
  BY <1>1, <1>2 DEF SinkInv
<1>4. ASSUME NEW u \in Tables, NEW j \in Keys, NEW c \in Nat
      PROVE  LastChange(u, j, c)' = LastChange(u, j, c)
  BY <1>1, ChangesMember, ChangesMemberNext, SameLastChange
<1>5. QED
  BY <1>3, <1>4

-----------------------------------------------------------------------------
(* What the sink keeps true of its streams: the rows of a table version    *)
(* lie between it and the next one, a row not written yet is above the     *)
(* checkpoint-ts, no file is empty, no date directory after the current    *)
(* one has a file, and the versions of a table differ.                     *)
InVersion(s, r) ==
  /\ s[2] < r.ts
  /\ \E m \in schemas[s[1]] : m.v = s[2]
  /\ \A m \in schemas[s[1]] : s[2] < m.v => r.ts < m.v

SinkOrder ==
  /\ \A s \in Streams : \A r \in FileRows(s) \cup SeqRange(buf[s]) : InVersion(s, r)
  /\ \A s \in Streams : \A r \in SeqRange(buf[s]) : meta < r.ts
  /\ \A s \in Streams, d \in Dates : Len(files[s][d]) > 0 => d <= date
  /\ \A s \in Streams, d \in Dates : \A i \in 1 .. Len(files[s][d]) : Len(files[s][d][i]) > 0
  /\ \A t \in Tables : \A m, n \in schemas[t] : m.v = n.v => m = n

(* A step of the sink only adds: schemas above every timestamp in use, and *)
(* files of the current date directory, with rows that were buffered.      *)
SinkAdds ==
  /\ meta <= meta' /\ date <= date'
  /\ \A t \in Tables : /\ schemas[t] \subseteq schemas'[t]
                       /\ \A m \in schemas'[t] \ schemas[t] : clock < m.v
  /\ \A s \in Streams, d \in Dates :
       /\ Len(files[s][d]) <= Len(files'[s][d])
       /\ \A i \in 1 .. Len(files[s][d]) : files'[s][d][i] = files[s][d][i]
       /\ \A i \in 1 .. Len(files'[s][d]) :
            \/ i <= Len(files[s][d])
            \/ d = date /\ SeqRange(files'[s][d][i]) \subseteq SeqRange(buf[s])

(* The parts of a stream.                                                  *)
LEMMA StreamParts ==
  ASSUME NEW s \in Streams
  PROVE  s[1] \in Tables /\ s[2] \in Versions /\ s[3] \in Partitions /\ s = <<s[1], s[2], s[3]>>
BY DEF Streams

(* Where the rows of a stream are.                                         *)
LEMMA FileRowsMember ==
  ASSUME NEW s \in Streams, NEW r
  PROVE  r \in FileRows(s) <=>
           \E d \in Dates : \E i \in 1 .. Len(files[s][d]) :
             \E j \in 1 .. Len(files[s][d][i]) : r = files[s][d][i][j]
<1>1. r \in FileRows(s) <=> \E d \in Dates : \E f \in SeqRange(files[s][d]) : r \in SeqRange(f)
  BY DEF FileRows
<1>2. QED
  BY <1>1 DEF SeqRange

(* The empty bucket is in order.                                           *)
LEMMA InitSinkOrder == SinkInit => SinkOrder
<1> SUFFICES ASSUME SinkInit PROVE SinkOrder
  OBVIOUS
<1>1. \A s \in Streams : buf[s] = <<>> /\ \A d \in Dates : files[s][d] = <<>>
  BY DEF SinkInit
<1>2. \A s \in Streams : SeqRange(buf[s]) = {} /\ FileRows(s) = {}
  BY <1>1 DEF SeqRange, FileRows
<1>3. \A t \in Tables : schemas[t] = {[v |-> 1, trunc |-> FALSE]}
  BY DEF SinkInit
<1>4. \A t \in Tables : \A m, n \in schemas[t] : m.v = n.v => m = n
  BY <1>3
<1>5. \A s \in Streams, d \in Dates : Len(files[s][d]) = 0
  BY <1>1
<1>6. /\ \A s \in Streams, d \in Dates : Len(files[s][d]) > 0 => d <= date
      /\ \A s \in Streams, d \in Dates : \A i \in 1 .. Len(files[s][d]) : Len(files[s][d][i]) > 0
  BY <1>5
<1>7. QED
  BY <1>2, <1>4, <1>6 DEF SinkOrder

(* Steps that leave the files alone.                                       *)
LEMMA SameFiles ==
  ASSUME SinkInv, UNCHANGED files
  PROVE  /\ \A s \in Streams : FileRows(s)' = FileRows(s)
         /\ \A s \in Streams, d \in Dates :
              /\ Len(files[s][d]) <= Len(files'[s][d])
              /\ \A i \in 1 .. Len(files[s][d]) : files'[s][d][i] = files[s][d][i]
              /\ \A i \in 1 .. Len(files'[s][d]) : i <= Len(files[s][d])
<1>1. \A s \in Streams : FileRows(s)' = FileRows(s)
  BY DEF FileRows, SeqRange
<1>2. \A s \in Streams, d \in Dates : Len(files[s][d]) \in Nat
  BY DEF SinkInv, SinkTypeOk
<1>3. QED
  BY <1>1, <1>2

(* A commit goes to the newest version of its table.                       *)
LEMMA CommitRowOrder ==
  ASSUME SinkInv, SinkOrder, NEW t \in Tables, NEW k \in Keys, NEW op \in Ops, NEW ts \in Versions,
         CommitRow(t, k, op, ts)
  PROVE  SinkOrder' /\ SinkAdds
<1> DEFINE row == [ts |-> ts, key |-> k, op |-> op]
           s0  == <<t, LatestSchema(t).v, PartitionOf[k]>>
<1>1. row \in Row /\ buf \in [Streams -> Seq(Row)]
  BY SinkAssumption DEF Row, SinkInv, SinkTypeOk
<1>2. /\ LatestSchema(t) \in schemas[t] /\ \A n \in schemas[t] : n.v <= LatestSchema(t).v
      /\ LatestSchema(t).v \in Versions /\ \A n \in schemas[t] : n.v \in Versions
  BY LatestSchemaIsLargest DEF SinkInv, SinkTypeOk, Schema
<1>3. s0 \in Streams /\ s0[1] = t /\ s0[2] = LatestSchema(t).v
  <2>1. PartitionOf[k] \in Partitions
    BY SinkAssumption
  <2>2. QED
    BY <1>2, <2>1, StreamsType
<1>4. /\ ts > meta /\ ts > LatestSchema(t).v
      /\ buf' = [buf EXCEPT ![s0] = Append(@, row)]
      /\ UNCHANGED <<date, schemas, files, meta>>
  BY DEF CommitRow, LatestSchema
<1>5. /\ SeqRange(buf'[s0]) = SeqRange(buf[s0]) \cup {row}
      /\ \A s \in Streams \ {s0} : buf'[s] = buf[s]
  <2>1. buf'[s0] = Append(buf[s0], row) /\ \A s \in Streams \ {s0} : buf'[s] = buf[s]
    BY <1>1, <1>3, <1>4
  <2>2. QED
    BY <1>1, <1>3, <2>1, AppendRange
<1>6. \A s \in Streams : FileRows(s)' = FileRows(s)
  BY <1>4, SameFiles
<1>7. InVersion(s0, row)
  <2>1. row.ts = ts
    OBVIOUS
  <2>2. \A n \in schemas[t] : ~(s0[2] < n.v)
    BY <1>2, <1>3, SinkAssumption DEF Versions
  <2>3. \E m \in schemas[t] : m.v = s0[2]
    BY <1>2, <1>3
  <2>4. QED
    BY <1>3, <1>4, <2>1, <2>2, <2>3 DEF InVersion
<1> HIDE DEF row, s0
<1>8. ASSUME NEW s \in Streams, NEW r \in FileRows(s)' \cup SeqRange(buf'[s])
      PROVE  InVersion(s, r)' /\ (r \in SeqRange(buf'[s]) => meta' < r.ts)
  <2>1. r \in FileRows(s) \cup SeqRange(buf[s]) \/ (s = s0 /\ r = row)
    BY <1>5, <1>6
  <2>2. InVersion(s, r)
    BY <1>7, <2>1 DEF SinkOrder
  <2>3. ASSUME r \in SeqRange(buf'[s]) PROVE meta' < r.ts
    <3>1. r \in SeqRange(buf[s]) \/ r = row
      BY <1>5, <2>3
    <3>2. row.ts = ts
      BY DEF row
    <3>3. meta' = meta /\ meta < ts
      BY <1>4, SinkAssumption DEF SinkInv, SinkTypeOk, Versions
    <3>4. QED
      BY <3>1, <3>2, <3>3 DEF SinkOrder
  <2>4. QED
    BY <1>4, <2>2, <2>3 DEF InVersion
<1>9. SinkOrder'
  BY <1>4, <1>8 DEF SinkOrder, SeqRange
<1>10. SinkAdds
  BY <1>4, SameFiles, SinkAssumption DEF SinkAdds, SinkInv, SinkTypeOk, Dates
<1>11. QED
  BY <1>9, <1>10

(* A file is the buffer of its stream, and goes to the current date        *)
(* directory.                                                              *)
LEMMA FlushOrder ==
  ASSUME SinkInv, SinkOrder, NEW s0 \in Streams, Flush(s0)
  PROVE  SinkOrder' /\ SinkAdds
<1> DEFINE old(s, d) == files[s][d]
           new(s, d) == files'[s][d]
<1>1. /\ buf \in [Streams -> Seq(Row)] /\ date \in Dates /\ Dates \subseteq Nat
      /\ files \in [Streams -> [Dates -> Seq(Seq(Row))]]
      /\ meta \in Nat
  BY SinkAssumption DEF SinkInv, SinkTypeOk, Dates
<1>2. /\ buf[s0] # <<>> /\ buf' = [buf EXCEPT ![s0] = <<>>]
      /\ files' = [files EXCEPT ![s0] = [files[s0] EXCEPT ![date] = Append(files[s0][date], buf[s0])]]
      /\ UNCHANGED <<clock, date, schemas, meta>>
  BY DEF Flush
<1>3. buf[s0] \in Seq(Row) /\ Len(buf[s0]) > 0
  BY <1>1, <1>2
<1>4. \A s \in Streams, d \in Dates : old(s, d) \in Seq(Seq(Row)) /\ Len(old(s, d)) \in Nat
  BY <1>1
<1>5. ASSUME NEW s \in Streams, NEW d \in Dates
      PROVE  new(s, d) = IF s = s0 /\ d = date THEN Append(old(s, d), buf[s0]) ELSE old(s, d)
  <2> DEFINE fd == [files[s0] EXCEPT ![date] = Append(files[s0][date], buf[s0])]
  <2>1. fd[d] = IF d = date THEN Append(files[s0][date], buf[s0]) ELSE files[s0][d]
    BY <1>1
  <2> HIDE DEF fd
  <2>2. files'[s] = IF s = s0 THEN fd ELSE files[s]
    BY <1>1, <1>2 DEF fd
  <2>3. QED
    BY <2>1, <2>2
<1> HIDE DEF old, new
<1>6. ASSUME NEW s \in Streams, NEW d \in Dates
      PROVE  /\ Len(old(s, d)) <= Len(new(s, d))
             /\ \A i \in 1 .. Len(old(s, d)) : new(s, d)[i] = old(s, d)[i]
             /\ \A i \in 1 .. Len(new(s, d)) :
                  \/ i <= Len(old(s, d))
                  \/ s = s0 /\ d = date /\ new(s, d)[i] = buf[s0]
  <2>1. CASE s = s0 /\ d = date
    <3>1. new(s, d) = Append(old(s, d), buf[s0]) /\ old(s, d) \in Seq(Seq(Row))
      BY <1>4, <1>5, <2>1
    <3>2. /\ Len(new(s, d)) = Len(old(s, d)) + 1
          /\ \A i \in 1 .. Len(old(s, d)) : new(s, d)[i] = old(s, d)[i]
          /\ new(s, d)[Len(old(s, d)) + 1] = buf[s0]
      BY <1>3, <3>1
    <3>3. QED
      BY <1>4, <2>1, <3>2
  <2>2. CASE ~(s = s0 /\ d = date)
    <3>1. new(s, d) = old(s, d)
      BY <1>5, <2>2
    <3>2. QED
      BY <1>4, <3>1
  <2>3. QED
    BY <2>1, <2>2
<1>7. ASSUME NEW s \in Streams, NEW d \in Dates, NEW i \in 1 .. Len(new(s, d))
      PROVE  \/ i \in 1 .. Len(old(s, d)) /\ new(s, d)[i] = old(s, d)[i]
             \/ s = s0 /\ d = date /\ new(s, d)[i] = buf[s0]
  BY <1>4, <1>6
<1>8. SinkAdds
  <2>1. meta <= meta' /\ date <= date' /\ \A t \in Tables : schemas'[t] = schemas[t]
    BY <1>1, <1>2
  <2>2. ASSUME NEW s \in Streams, NEW d \in Dates
        PROVE  /\ Len(files[s][d]) <= Len(files'[s][d])
               /\ \A i \in 1 .. Len(files[s][d]) : files'[s][d][i] = files[s][d][i]
               /\ \A i \in 1 .. Len(files'[s][d]) :
                    \/ i <= Len(files[s][d])
                    \/ d = date /\ SeqRange(files'[s][d][i]) \subseteq SeqRange(buf[s])
    BY <1>6 DEF old, new
  <2>3. QED
    BY <2>1, <2>2 DEF SinkAdds
<1>9. ASSUME NEW s \in Streams
      PROVE  /\ SeqRange(buf'[s]) \subseteq SeqRange(buf[s])
             /\ FileRows(s)' \subseteq FileRows(s) \cup SeqRange(buf[s])
  <2>1. SeqRange(buf'[s]) \subseteq SeqRange(buf[s])
    <3>1. CASE s = s0
      BY <1>1, <1>2, <3>1 DEF SeqRange
    <3>2. CASE s # s0
      BY <1>1, <1>2, <3>2
    <3>3. QED
      BY <3>1, <3>2
  <2>2. ASSUME NEW r \in FileRows(s)' PROVE r \in FileRows(s) \cup SeqRange(buf[s])
    <3>1. PICK d \in Dates : \E i \in 1 .. Len(new(s, d)) :
                 \E j \in 1 .. Len(new(s, d)[i]) : r = new(s, d)[i][j]
      <4>1. r \in UNION {UNION {SeqRange(f) : f \in SeqRange(files'[s][e])} : e \in Dates}
        BY DEF FileRows, SeqRange
      <4>2. PICK d \in Dates : r \in UNION {SeqRange(f) : f \in SeqRange(new(s, d))}
        BY <4>1 DEF new
      <4>3. PICK f \in SeqRange(new(s, d)) : r \in SeqRange(f)
        BY <4>2
      <4>4. QED
        BY <4>3 DEF SeqRange
    <3>2. PICK i \in 1 .. Len(new(s, d)) : \E j \in 1 .. Len(new(s, d)[i]) : r = new(s, d)[i][j]
      BY <3>1
    <3>3. CASE i \in 1 .. Len(old(s, d)) /\ new(s, d)[i] = old(s, d)[i]
      BY <3>2, <3>3, FileRowsMember DEF old
    <3>4. CASE s = s0 /\ new(s, d)[i] = buf[s0]
      BY <3>2, <3>4 DEF SeqRange
    <3>5. QED
      BY <3>3, <3>4, <1>7
  <2>3. QED
    BY <2>1, <2>2
<1>10. ASSUME NEW s \in Streams, NEW r \in FileRows(s)' \cup SeqRange(buf'[s])
       PROVE  InVersion(s, r)' /\ (r \in SeqRange(buf'[s]) => meta' < r.ts)
  BY <1>2, <1>9 DEF SinkOrder, InVersion
<1>11. ASSUME NEW s \in Streams, NEW d \in Dates
       PROVE  /\ Len(new(s, d)) > 0 => d <= date
              /\ \A i \in 1 .. Len(new(s, d)) : Len(new(s, d)[i]) > 0
  <2>1. /\ Len(old(s, d)) > 0 => d <= date
        /\ \A i \in 1 .. Len(old(s, d)) : Len(old(s, d)[i]) > 0
    BY DEF SinkOrder, old
  <2>2. ASSUME Len(new(s, d)) > 0 PROVE d <= date
    BY <1>1, <1>4, <1>5, <2>1, <2>2
  <2>3. ASSUME NEW i \in 1 .. Len(new(s, d)) PROVE Len(new(s, d)[i]) > 0
    BY <1>3, <1>7, <2>1
  <2>4. QED
    BY <2>2, <2>3
<1>12. SinkOrder'
  <2>1. /\ \A s \in Streams : \A r \in FileRows(s)' \cup SeqRange(buf'[s]) : InVersion(s, r)'
        /\ \A s \in Streams : \A r \in SeqRange(buf'[s]) : meta' < r.ts
    BY <1>10
  <2>2. /\ \A s \in Streams, d \in Dates : Len(files'[s][d]) > 0 => d <= date'
        /\ \A s \in Streams, d \in Dates : \A i \in 1 .. Len(files'[s][d]) : Len(files'[s][d][i]) > 0
    BY <1>2, <1>11 DEF new
  <2>3. \A t \in Tables : \A m, n \in schemas'[t] : m.v = n.v => m = n
    BY <1>2 DEF SinkOrder
  <2>4. QED
    BY <2>1, <2>2, <2>3 DEF SinkOrder, SeqRange
<1>13. QED
  BY <1>8, <1>12

(* A restart buffers rows above the checkpoint-ts only.                    *)
LEMMA RestartOrder ==
  ASSUME SinkInv, SinkOrder, NEW s0 \in Streams, Restart(s0)
  PROVE  SinkOrder' /\ SinkAdds
<1>1. PICK q \in Resendings(s0) : buf' = [buf EXCEPT ![s0] = q]
  BY DEF Restart
<1>2. SeqRange(q) = Resent(s0)
  BY DEF Resendings
<1>3. /\ buf \in [Streams -> Seq(Row)] /\ meta \in Nat /\ date \in Nat
      /\ UNCHANGED <<clock, date, schemas, files, meta>>
      /\ \A r \in FileRows(s0) : r.ts \in Nat
  <2>1. \A r \in FileRows(s0) : r \in RowsOf(s0[1])
    BY RowsOfMember
  <2>2. \A r \in FileRows(s0) : r.ts \in Nat
    BY <2>1, StreamParts, SinkAssumption DEF SinkInv, Row, Versions
  <2>3. QED
    BY <2>2, SinkAssumption DEF Restart, SinkInv, SinkTypeOk, Dates
<1>4. ASSUME NEW s \in Streams, NEW r \in SeqRange(buf'[s])
      PROVE  r \in SeqRange(buf[s]) \/ (r \in FileRows(s) /\ r.ts > meta)
  <2>1. CASE s = s0
    BY <1>1, <1>2, <1>3, <2>1 DEF Resent
  <2>2. CASE s # s0
    BY <1>1, <1>3, <2>2
  <2>3. QED
    BY <2>1, <2>2
<1>5. \A s \in Streams : FileRows(s)' = FileRows(s)
  BY <1>3, SameFiles
<1>6. ASSUME NEW s \in Streams, NEW r \in FileRows(s)' \cup SeqRange(buf'[s])
      PROVE  InVersion(s, r)' /\ (r \in SeqRange(buf'[s]) => meta' < r.ts)
  <2>1. InVersion(s, r)
    BY <1>4, <1>5 DEF SinkOrder
  <2>2. ASSUME r \in SeqRange(buf'[s]) PROVE meta' < r.ts
    <3>1. CASE r \in SeqRange(buf[s])
      BY <1>3, <3>1 DEF SinkOrder
    <3>2. CASE r \in FileRows(s) /\ r.ts > meta
      <4>1. r \in RowsOf(s[1]) /\ r.ts \in Nat
        BY <3>2, RowsOfMember, StreamParts, SinkAssumption DEF SinkInv, Row, Versions
      <4>2. QED
        BY <1>3, <3>2, <4>1
    <3>3. QED
      BY <1>4, <2>2, <3>1, <3>2
  <2>3. QED
    BY <1>3, <2>1, <2>2 DEF InVersion
<1>7. SinkOrder'
  BY <1>3, <1>6 DEF SinkOrder, SeqRange
<1>8. SinkAdds
  BY <1>3, SameFiles DEF SinkAdds
<1>9. QED
  BY <1>7, <1>8

(* A new version is above every timestamp in use.                          *)
LEMMA DDLOrder ==
  ASSUME SinkInv, SinkOrder, NEW t \in Tables, NEW trunc \in BOOLEAN, DDL(t, trunc)
  PROVE  SinkOrder' /\ SinkAdds
<1> DEFINE new == [v |-> clock + 1, trunc |-> trunc]
<1>1. /\ clock \in Nat /\ meta \in Nat /\ date \in Nat
      /\ schemas' = [schemas EXCEPT ![t] = schemas[t] \cup {new}]
      /\ UNCHANGED <<date, buf, files, meta>>
      /\ schemas \in [Tables -> SUBSET Schema]
  BY SinkAssumption DEF DDL, SinkInv, SinkTypeOk, Versions, Dates
<1>2. /\ schemas'[t] = schemas[t] \cup {new} /\ \A u \in Tables \ {t} : schemas'[u] = schemas[u]
      /\ new.v = clock + 1
  BY <1>1
<1> HIDE DEF new
<1>3. \A u \in Tables : \A m \in schemas[u] : m.v <= clock /\ m.v \in Nat
  BY <1>1, SinkAssumption DEF SinkInv, Schema, Versions
<1>4. \A s \in Streams : FileRows(s)' = FileRows(s) /\ buf'[s] = buf[s]
  BY <1>1, SameFiles
<1>5. ASSUME NEW s \in Streams, NEW r \in FileRows(s) \cup SeqRange(buf[s])
      PROVE  InVersion(s, r)'
  <2>1. InVersion(s, r) /\ s[1] \in Tables
    BY StreamParts DEF SinkOrder
  <2>2. r.ts \in Nat /\ r.ts <= clock
    BY <2>1, RowsOfMember, SinkAssumption DEF SinkInv, Row, Versions
  <2>3. \A m \in schemas'[s[1]] : m \in schemas[s[1]] \/ m = new
    BY <1>2, <2>1
  <2>4. \A m \in schemas'[s[1]] : s[2] < m.v => r.ts < m.v
    BY <1>1, <1>2, <2>1, <2>2, <2>3 DEF InVersion
  <2>5. \E m \in schemas'[s[1]] : m.v = s[2]
    BY <1>2, <2>1 DEF InVersion
  <2>6. QED
    BY <2>1, <2>4, <2>5 DEF InVersion
<1>6. \A u \in Tables : \A m, n \in schemas'[u] : m.v = n.v => m = n
  <2>1. \A m \in schemas[t] : m.v # new.v
    BY <1>1, <1>2, <1>3
  <2>2. QED
    BY <1>2, <2>1 DEF SinkOrder
<1>7. SinkOrder'
  <2>1. /\ \A s \in Streams : \A r \in FileRows(s)' \cup SeqRange(buf'[s]) : InVersion(s, r)'
        /\ \A s \in Streams : \A r \in SeqRange(buf'[s]) : meta' < r.ts
    BY <1>1, <1>4, <1>5 DEF SinkOrder
  <2>2. QED
    BY <1>1, <1>6, <2>1 DEF SinkOrder, SeqRange
<1>8. SinkAdds
  <2>1. \A u \in Tables : /\ schemas[u] \subseteq schemas'[u]
                          /\ \A m \in schemas'[u] \ schemas[u] : clock < m.v
    BY <1>1, <1>2
  <2>2. QED
    BY <1>1, <2>1, SameFiles DEF SinkAdds
<1>9. QED
  BY <1>7, <1>8

(* The date rolls, or the checkpoint-ts advances to below every row that   *)
(* is still buffered.                                                      *)
LEMMA PublishOrder ==
  ASSUME SinkInv, SinkOrder, RollDate \/ \E c \in Versions : Publish(c)
  PROVE  SinkOrder' /\ SinkAdds
<1>1. /\ UNCHANGED <<clock, schemas, buf, files>> /\ date <= date' /\ meta <= meta'
      /\ date \in Nat /\ date' \in Nat /\ Dates \subseteq Nat
      /\ meta' = meta \/ \A s \in Streams : \A i \in 1 .. Len(buf[s]) : meta' < buf[s][i].ts
  <2>1. date \in Nat /\ meta \in Nat /\ Dates \subseteq Nat /\ Versions \subseteq Nat
    BY SinkAssumption DEF SinkInv, SinkTypeOk, Dates, Versions
  <2>2. CASE RollDate
    BY <2>1, <2>2 DEF RollDate
  <2>3. ASSUME NEW c \in Versions, Publish(c)
        PROVE  /\ UNCHANGED <<clock, schemas, buf, files, date>> /\ meta <= meta'
               /\ \A s \in Streams : \A i \in 1 .. Len(buf[s]) : meta' < buf[s][i].ts
    <3>1. /\ UNCHANGED <<clock, schemas, buf, files, date>> /\ meta < c /\ meta' = c
          /\ \A s \in Streams : \A i \in 1 .. Len(buf[s]) : buf[s][i].ts > c
      BY <2>3 DEF Publish
    <3>2. QED
      BY <2>1, <3>1
  <2>4. QED
    BY <2>1, <2>2, <2>3
<1>2. \A s \in Streams : FileRows(s)' = FileRows(s)
  BY <1>1, SameFiles
<1>3. \A s \in Streams : \A r \in SeqRange(buf[s]) : meta' < r.ts
  BY <1>1 DEF SinkOrder, SeqRange
<1>4. \A s \in Streams, d \in Dates : Len(files[s][d]) > 0 => d <= date'
  <2>1. \A s \in Streams, d \in Dates : Len(files[s][d]) > 0 => d <= date
    BY DEF SinkOrder
  <2>2. date <= date' /\ date \in Nat /\ date' \in Nat /\ \A d \in Dates : d \in Nat
    BY <1>1
  <2>3. \A d \in Dates : d <= date => d <= date'
    BY <2>2
  <2>4. QED
    BY <2>1, <2>3
<1>5. SinkOrder'
  BY <1>1, <1>2, <1>3, <1>4 DEF SinkOrder, SeqRange, InVersion
<1>6. SinkAdds
  BY <1>1, SameFiles DEF SinkAdds
<1>7. QED
  BY <1>5, <1>6

-----------------------------------------------------------------------------

(* What a work item says of the bucket stays true while the run holds it.  *)
ItemOk(it) ==
  /\ it.v <= ckpt
  /\ it.kind = "schema" => [v |-> it.v, trunc |-> it.trunc] \in schemas[it.t]
  /\ it.kind = "dml" => /\ StreamOf(it) \in Streams
                        /\ it.d \in Dates
                        /\ it.latest <= Len(files[StreamOf(it)][it.d])

Reading ==
  pc = "read" => /\ item \in Item /\ item.kind = "dml" /\ ItemOk(item)
                 /\ at.file \in 1 .. item.latest

(* What makes TypeOk and CellsWereTrue inductive: the run knows no         *)
(* checkpoint-ts above the published one, and only real items.             *)
Inv ==
  /\ SinkInv
  /\ TypeOk
  /\ snap <= clock
  /\ snap = 0 => loaded = {}
  /\ ckpt <= meta
  /\ \A it \in work : ItemOk(it)
  /\ Reading
  /\ CellsWereTrue

-----------------------------------------------------------------------------
(* The operators on the state keep its type.                               *)
LEMMA SetCursorType ==
  ASSUME NEW st \in State, NEW s \in Streams, NEW c \in Cursor
  PROVE  SetCursor(st, s, c) \in State
BY DEF SetCursor, State

(* A watermark that moves to a timestamp keeps the state well formed.      *)
LEMMA SetWatermarkType ==
  ASSUME NEW st \in State, NEW t \in Tables, NEW v \in 0 .. MaxTs
  PROVE  SetWatermark(st, t, v) \in State
<1>1. st.wm \in [Tables -> 0 .. MaxTs] /\ Max2(st.wm[t], v) \in 0 .. MaxTs
  BY SinkAssumption DEF State, Max2
<1>2. [st.wm EXCEPT ![t] = Max2(st.wm[t], v)] \in [Tables -> 0 .. MaxTs]
  BY <1>1
<1>3. SetWatermark(st, t, v) = [st EXCEPT !.wm = [st.wm EXCEPT ![t] = Max2(st.wm[t], v)]]
  BY DEF SetWatermark
<1>4. QED
  BY <1>2, <1>3 DEF State

(* The all-zero cursor is a cursor.                                        *)
LEMMA NoCursorType == NoCursor \in Cursor
BY SinkAssumption DEF NoCursor, Cursor

(* compact_incremental_state keeps the state well formed.                  *)
LEMMA CompactType ==
  ASSUME NEW st \in State, NEW C
  PROVE  Compact(st, C) \in State
<1> DEFINE cs == [s \in Streams |->
                    IF s[1] \notin C \/ Obsolete(st, s) THEN NoCursor ELSE st.cursors[s]]
           ts == KeptTs(st, C)
<1>1. st.cursors \in [Streams -> Cursor] /\ st.tableTs \in [Tables -> 0 .. MaxTs]
  BY DEF State
<1>2. cs \in [Streams -> Cursor]
  BY <1>1, NoCursorType
<1>3. ts \in [Tables -> 0 .. MaxTs]
  BY <1>1, SinkAssumption DEF KeptTs
<1>4. Compact(st, C) = [st EXCEPT !.cursors = cs, !.tableTs = ts]
  BY DEF Compact
<1> HIDE DEF cs, ts
<1>5. QED
  BY <1>2, <1>3, <1>4 DEF State

(* A date directory is a date a cursor can hold.                           *)
LEMMA DatesType == Dates \subseteq 0 .. MaxDate
BY SinkAssumption DEF Dates

(* A cursor that opens a file of a date directory stays a cursor.          *)
LEMMA OpenedType ==
  ASSUME NEW c \in Cursor, NEW d \in 0 .. MaxDate, NEW f \in Nat
  PROVE  Opened(c, d, f) \in Cursor
BY DEF Opened, Cursor

(* The values the actions give a cursor.                                   *)
LEMMA CursorTypes ==
  ASSUME NEW c \in Cursor, NEW d \in 0 .. MaxDate, NEW f \in Nat
  PROVE  /\ Opened(c, d, f) \in Cursor
         /\ Finished(c, d, f) \in Cursor
         /\ StartFile(c, d) \in Nat \ {0}
         /\ StartRow(c, f) \in Nat
         /\ \A n \in Nat : [c EXCEPT !.row = n] \in Cursor
         /\ \A n \in Nat, ts \in Versions : [c EXCEPT !.row = n, !.lastTs = ts] \in Cursor
         /\ \A n \in Nat : [c EXCEPT !.latest = n] \in Cursor
<1>1. Opened(c, d, f) \in Cursor
  BY OpenedType
<1>2. Finished(c, d, f) \in Cursor
  <2>1. Opened(c, 0, f) \in Cursor
    <3>1. 0 \in 0 .. MaxDate
      BY SinkAssumption
    <3>2. QED
      BY <3>1, OpenedType
  <2>2. QED
    BY <2>1 DEF Finished, Cursor
<1>3. StartFile(c, d) \in Nat \ {0} /\ StartRow(c, f) \in Nat
  BY DEF StartFile, StartRow, Cursor
<1>4. \A n \in Nat : [c EXCEPT !.row = n] \in Cursor /\ [c EXCEPT !.latest = n] \in Cursor
  BY DEF Cursor
<1>5. ASSUME NEW n \in Nat, NEW ts \in Versions
      PROVE  [c EXCEPT !.row = n, !.lastTs = ts] \in Cursor
  <2>1. ts \in 0 .. MaxTs
    BY SinkAssumption DEF Versions
  <2>2. QED
    BY <2>1 DEF Cursor
<1>6. QED
  BY <1>1, <1>2, <1>3, <1>4, <1>5

-----------------------------------------------------------------------------
(* The last change is a change, and no other change is later.              *)
LEMMA LastChangeIs ==
  ASSUME Inv, NEW t \in Tables, NEW k \in Keys, NEW c \in Nat
  PROVE  /\ LastChange(t, k, c) \in Changes(t, k)
         /\ LastChange(t, k, c).ts <= c
         /\ \A y \in Changes(t, k) : y.ts <= c => y.ts <= LastChange(t, k, c).ts
         /\ LastChange(t, k, c) \in Cell
<1> DEFINE upTo == {x \in Changes(t, k) : x.ts <= c}
           T    == {x.ts : x \in upTo}
<1>1. ASSUME NEW x \in Changes(t, k) PROVE x \in Cell
  <2>1. CASE x = [ts |-> 0, live |-> FALSE]
    BY <2>1, SinkAssumption DEF Cell
  <2>2. CASE \E m \in schemas[t] : m.trunc /\ x = [ts |-> m.v, live |-> FALSE]
    <3>1. schemas[t] \subseteq Schema
      BY DEF Inv, SinkInv, SinkTypeOk
    <3>2. QED
      BY <2>2, <3>1, SinkAssumption DEF Schema, Versions, Cell
  <2>3. CASE \E r \in RowsOf(t) : r.key = k /\ x = [ts |-> r.ts, live |-> r.op # "D"]
    <3>1. PICK r \in RowsOf(t) : x = [ts |-> r.ts, live |-> r.op # "D"]
      BY <2>3
    <3>2. r.ts \in 0 .. MaxTs
      BY SinkAssumption DEF Inv, SinkInv, Row, Versions
    <3>3. QED
      BY <3>1, <3>2 DEF Cell
  <2>4. QED
    BY <2>1, <2>2, <2>3, ChangesMember
<1>2. [ts |-> 0, live |-> FALSE] \in upTo
  <2>1. [ts |-> 0, live |-> FALSE] \in Changes(t, k)
    BY DEF Changes
  <2>2. [ts |-> 0, live |-> FALSE].ts <= c
    OBVIOUS
  <2>3. QED
    BY <2>1, <2>2
<1>3. T \in SUBSET Nat /\ T # {} /\ \A x \in T : x <= c
  BY <1>1, <1>2, SinkAssumption DEF Cell
<1>4. PICK m \in T : \A x \in T : x <= m
  BY <1>3, LargestOf
<1>5. \E x \in upTo : \A y \in upTo : y.ts <= x.ts
  BY <1>4
<1>6. LastChange(t, k, c) \in upTo /\ \A y \in upTo : y.ts <= LastChange(t, k, c).ts
  BY <1>5 DEF LastChange
<1>7. QED
  BY <1>1, <1>6

(* A row is the last change of its key as of its own commit-ts: that of    *)
(* any other row of the key differs, and no table version starts at it.    *)
LEMMA RowIsLastChange ==
  ASSUME Inv, NEW t \in Tables, NEW r \in RowsOf(t)
  PROVE  /\ r.key \in Keys /\ r.ts \in Versions
         /\ LastChange(t, r.key, r.ts) = [ts |-> r.ts, live |-> r.op # "D"]
<1> DEFINE x == [ts |-> r.ts, live |-> r.op # "D"]
           l == LastChange(t, r.key, r.ts)
<1>1. r \in Row /\ r.key \in Keys /\ r.ts \in Nat /\ r.ts > 0 /\ r.ts \in Versions
  BY SinkAssumption DEF Inv, SinkInv, Row, Versions
<1>2. x \in Changes(t, r.key) /\ x.ts = r.ts
  BY <1>1, ChangesMember
<1>3. /\ l \in Changes(t, r.key) /\ l.ts <= r.ts /\ l.ts \in Nat
      /\ \A y \in Changes(t, r.key) : y.ts <= r.ts => y.ts <= l.ts
  BY <1>1, LastChangeIs, SinkAssumption DEF Cell
<1>4. r.ts <= l.ts
  BY <1>1, <1>2, <1>3
<1>5. l.ts = r.ts
  BY <1>1, <1>3, <1>4
<1>6. l = x
  <2>1. CASE l = [ts |-> 0, live |-> FALSE]
    BY <2>1, <1>1, <1>5
  <2>2. CASE \E m \in schemas[t] : m.trunc /\ l = [ts |-> m.v, live |-> FALSE]
    <3>1. PICK m \in schemas[t] : l = [ts |-> m.v, live |-> FALSE]
      BY <2>2
    <3>2. r.ts = m.v
      BY <3>1, <1>5
    <3>3. FALSE
      BY <3>1, <3>2 DEF Inv, SinkInv
    <3>4. QED
      BY <3>3
  <2>3. CASE \E q \in RowsOf(t) : q.key = r.key /\ l = [ts |-> q.ts, live |-> q.op # "D"]
    <3>1. PICK q \in RowsOf(t) : q.key = r.key /\ l = [ts |-> q.ts, live |-> q.op # "D"]
      BY <2>3
    <3>2. q.ts = r.ts
      BY <3>1, <1>5
    <3>3. q = r
      BY <3>1, <3>2 DEF Inv, SinkInv
    <3>4. QED
      BY <3>1, <3>3
  <2>4. \/ l = [ts |-> 0, live |-> FALSE]
        \/ \E m \in schemas[t] : m.trunc /\ l = [ts |-> m.v, live |-> FALSE]
        \/ \E q \in RowsOf(t) : q.key = r.key /\ l = [ts |-> q.ts, live |-> q.op # "D"]
    <3> HIDE DEF l
    <3>1. QED
      BY <1>3, ChangesMember
  <2>5. QED
    BY <2>1, <2>2, <2>3, <2>4
<1>7. QED
  BY <1>1, <1>6

(* A truncate is the last change of every key as of its version: no row    *)
(* has the commit-ts of a DDL.                                             *)
LEMMA TruncateIsLastChange ==
  ASSUME Inv, NEW t \in Tables, NEW k \in Keys, NEW v \in Versions,
         [v |-> v, trunc |-> TRUE] \in schemas[t]
  PROVE  LastChange(t, k, v) = [ts |-> v, live |-> FALSE]
<1> DEFINE x == [ts |-> v, live |-> FALSE]
           l == LastChange(t, k, v)
<1>1. v \in Nat /\ v > 0
  BY SinkAssumption DEF Versions
<1>2. x \in Changes(t, k) /\ x.ts = v
  <2>1. [v |-> v, trunc |-> TRUE].trunc /\ [v |-> v, trunc |-> TRUE].v = v
    OBVIOUS
  <2>2. \E m \in schemas[t] : m.trunc /\ x = [ts |-> m.v, live |-> FALSE]
    BY <2>1
  <2>3. QED
    BY <2>2, ChangesMember
<1>3. /\ l \in Changes(t, k) /\ l.ts <= v /\ l.ts \in Nat
      /\ \A y \in Changes(t, k) : y.ts <= v => y.ts <= l.ts
  BY <1>1, LastChangeIs, SinkAssumption DEF Cell
<1>4. v <= l.ts
  BY <1>1, <1>2, <1>3
<1>5. l.ts = v
  BY <1>1, <1>3, <1>4
<1>6. CASE l = [ts |-> 0, live |-> FALSE]
  BY <1>6, <1>1, <1>5
<1>7. CASE \E m \in schemas[t] : m.trunc /\ l = [ts |-> m.v, live |-> FALSE]
  <2>1. PICK m \in schemas[t] : l = [ts |-> m.v, live |-> FALSE]
    BY <1>7
  <2>2. m.v = v
    BY <2>1, <1>5
  <2>3. QED
    BY <2>1, <2>2
<1>8. CASE \E q \in RowsOf(t) : q.key = k /\ l = [ts |-> q.ts, live |-> q.op # "D"]
  <2>1. PICK q \in RowsOf(t) : l = [ts |-> q.ts, live |-> q.op # "D"]
    BY <1>8
  <2>2. q.ts = [v |-> v, trunc |-> TRUE].v
    BY <2>1, <1>5
  <2>3. QED
    BY <2>2 DEF Inv, SinkInv
<1>9. QED
  BY <1>6, <1>7, <1>8, <1>3, ChangesMember

-----------------------------------------------------------------------------
(* A cell of the destination is what it was, or the row as of a timestamp  *)
(* the connector may deliver.                                              *)
CellsKept ==
  \A t \in Tables, k \in Keys :
    \/ dest'[t][k] = dest[t][k]
    \/ \E c \in snap .. Max2(meta, snap) : dest'[t][k] = LastChange(t, k, c)

(* The bounds of CellsWereTrue are timestamps.                             *)
LEMMA BoundsType ==
  ASSUME Inv
  PROVE  /\ snap \in Nat /\ meta \in Nat /\ clock \in Nat /\ ckpt \in Nat
         /\ Max2(meta, snap) \in Nat
         /\ meta <= Max2(meta, snap) /\ snap <= Max2(meta, snap)
         /\ Max2(meta, snap) <= clock
BY SinkAssumption DEF Inv, TypeOk, SinkInv, SinkTypeOk, Versions, Max2

(* A step of the connector leaves the history alone.                       *)
LEMMA CellsStep ==
  ASSUME Inv, UNCHANGED <<sinkVars, base>>, CellsKept
  PROVE  SinkInv' /\ snap' <= clock' /\ CellsWereTrue'
<1>1. SinkInv' /\ \A u \in Tables, j \in Keys, c \in Nat : LastChange(u, j, c)' = LastChange(u, j, c)
  BY QuietInv DEF Inv
<1>2. meta' = meta /\ clock' = clock /\ snap' = snap /\ loaded' = loaded
  BY DEF sinkVars, base
<1>3. snap' <= clock'
  BY <1>2 DEF Inv
<1>4. ASSUME NEW t \in loaded, NEW k \in Keys
      PROVE  \E c \in snap .. Max2(meta, snap) : dest'[t][k] = LastChange(t, k, c)'
  <2>1. PICK c \in snap .. Max2(meta, snap) : dest'[t][k] = LastChange(t, k, c)
    <3>1. CASE dest'[t][k] = dest[t][k]
      BY <3>1, <1>4 DEF Inv, CellsWereTrue
    <3>2. CASE dest'[t][k] # dest[t][k]
      <4>1. t \in Tables
        BY DEF Inv, TypeOk
      <4>2. QED
        BY <3>2, <4>1 DEF CellsKept
    <3>3. QED
      BY <3>1, <3>2
  <2>2. c \in Nat /\ t \in Tables
    BY BoundsType DEF Inv, TypeOk
  <2>3. QED
    BY <1>1, <2>1, <2>2
<1>5. CellsWereTrue'
  <2>1. Max2(meta, snap)' = Max2(meta, snap)
    BY <1>2 DEF Max2
  <2>2. QED
    BY <1>2, <1>4, <2>1 DEF CellsWereTrue
<1>6. QED
  BY <1>1, <1>3, <1>5

(* A step inside a run: it keeps the checkpoint-ts and adds no item.       *)
LEMMA LoopStep ==
  ASSUME Inv, UNCHANGED <<sinkVars, base, ckpt>>, CellsKept,
         TypeOk', Reading', work' \subseteq work
  PROVE  Inv'
<1>1. SinkInv' /\ snap' <= clock' /\ CellsWereTrue'
  BY CellsStep
<1>2. /\ ckpt' <= meta' /\ \A it \in work' : ItemOk(it)'
      /\ snap' = 0 => loaded' = {}
  BY DEF Inv, sinkVars, base, ItemOk, StreamOf
<1>3. QED
  BY <1>1, <1>2 DEF Inv

(* The end of a run, killed or not.                                        *)
LEMMA EndRunInv ==
  ASSUME Inv, NEW st \in State, EndRun(st), UNCHANGED <<sinkVars, base>>, CellsKept,
         dest' \in [Tables -> [Keys -> Cell]]
  PROVE  Inv'
<1>1. SinkInv' /\ snap' <= clock' /\ CellsWereTrue'
  BY CellsStep
<1>2. TypeOk'
  <2>1. 0 \in 0 .. MaxTs /\ Nowhere \in [file : Nat, row : Nat]
    BY SinkAssumption DEF Nowhere
  <2>2. snap' \in 0 .. MaxTs /\ SinkTypeOk' /\ catalog' \in Catalogs /\ loaded' \subseteq Tables
    BY <1>1 DEF Inv, TypeOk, SinkInv, base
  <2>3. QED
    BY <2>1, <2>2 DEF EndRun, TypeOk
<1>3. /\ ckpt' <= meta' /\ (\A it \in work' : ItemOk(it)') /\ Reading'
      /\ snap' = 0 => loaded' = {}
  BY <1>1, SinkAssumption DEF EndRun, Reading, SinkInv, SinkTypeOk, Inv, base
<1>4. QED
  BY <1>1, <1>2, <1>3 DEF Inv

-----------------------------------------------------------------------------
(* One lemma per action.                                                   *)
LEMMA InitInv == Init => Inv
<1> SUFFICES ASSUME Init PROVE Inv
  OBVIOUS
<1>1. SinkInv /\ SinkTypeOk
  BY InitSinkInv DEF Init, SinkInv
<1>2. InitialState \in State
  BY SinkAssumption, NoCursorType DEF InitialState, State
<1>3. [t \in Tables |-> [k \in Keys |-> [ts |-> 0, live |-> FALSE]]] \in [Tables -> [Keys -> Cell]]
  BY SinkAssumption DEF Cell
<1>4. TypeOk
  <2>1. 0 \in 0 .. MaxTs /\ Nowhere \in [file : Nat, row : Nat]
    BY SinkAssumption DEF Nowhere
  <2>2. QED
    BY <1>1, <1>2, <1>3, <2>1 DEF TypeOk, Init
<1>5. snap <= clock /\ loaded = {} /\ ckpt <= meta /\ Reading /\ CellsWereTrue
  BY DEF Init, SinkInit, Reading, CellsWereTrue
<1>6. QED
  BY <1>1, <1>4, <1>5 DEF Inv, Init

(* Loading the snapshot: every cell that is loaded is the row as of its    *)
(* tso, which is the tso of the tables loaded before.                      *)
LEMMA LoadSnapshotInv ==
  ASSUME Inv, NEW c \in Versions, NEW S \in SUBSET Tables, LoadSnapshot(c, S)
  PROVE  Inv'
<1>1. /\ SinkInv'
      /\ \A u \in Tables, j \in Keys, x \in Nat : LastChange(u, j, x)' = LastChange(u, j, x)
  BY QuietInv DEF Inv, LoadSnapshot
<1>2. /\ c \in Nat /\ c > 0 /\ c <= clock /\ snap' = c /\ meta' = meta /\ clock' = clock
      /\ meta \in Nat /\ (snap = c \/ loaded = {})
  <2>1. c \in Nat /\ c > 0 /\ clock \in Nat /\ meta \in Nat /\ snap <= clock
    BY BoundsType, SinkAssumption DEF Versions, Inv
  <2>2. snap' = c /\ meta' = meta /\ clock' = clock
        /\ IF snap = 0 THEN c \in 1 .. clock ELSE c = snap
    BY DEF LoadSnapshot, sinkVars
  <2>3. snap = 0 => loaded = {}
    BY DEF Inv
  <2>4. QED
    BY <2>1, <2>2, <2>3
<1>3. loaded \subseteq Tables /\ loaded' = loaded \cup S /\ loaded \cap S = {}
  BY DEF Inv, TypeOk, LoadSnapshot, Loaded
<1>4. \A t \in Tables : dest'[t] = IF t \in S THEN Truth(t, c) ELSE dest[t]
  BY DEF LoadSnapshot
<1>5. dest' \in [Tables -> [Keys -> Cell]]
  <2>1. \A t \in Tables : Truth(t, c) \in [Keys -> Cell] /\ dest[t] \in [Keys -> Cell]
    BY <1>2, LastChangeIs DEF Truth, Inv, TypeOk
  <2>2. QED
    BY <2>1 DEF LoadSnapshot
<1>6. Compact(saved, catalog) \in State
  BY CompactType DEF Inv, TypeOk
<1>7. TypeOk'
  BY <1>1, <1>2, <1>3, <1>5, <1>6, SinkAssumption
     DEF LoadSnapshot, Inv, TypeOk, SinkInv, runVars, Versions
<1>8. CellsWereTrue'
  <2> SUFFICES ASSUME NEW t \in loaded \cup S, NEW k \in Keys
               PROVE  \E x \in c .. Max2(meta, c) : dest'[t][k] = LastChange(t, k, x)'
    BY <1>2, <1>3 DEF CellsWereTrue, Max2
  <2>1. t \in Tables
    BY <1>3
  <2>2. CASE t \in S
    <3>1. dest'[t][k] = LastChange(t, k, c)
      BY <1>4, <2>1, <2>2 DEF Truth
    <3>2. c \in c .. Max2(meta, c)
      BY <1>2 DEF Max2
    <3>3. QED
      BY <1>1, <1>2, <2>1, <3>1, <3>2
  <2>3. CASE t \in loaded
    <3>1. snap = c /\ dest'[t] = dest[t]
      BY <1>2, <1>3, <1>4, <2>1, <2>3
    <3>2. PICK x \in c .. Max2(meta, c) : dest[t][k] = LastChange(t, k, x)
      BY <2>3, <3>1 DEF Inv, CellsWereTrue
    <3>3. x \in Nat
      BY <1>2
    <3>4. QED
      BY <1>1, <2>1, <3>1, <3>2, <3>3
  <2>4. QED
    BY <2>2, <2>3
<1>9. ckpt' <= meta' /\ (\A it \in work' : ItemOk(it)') /\ Reading'
  BY DEF LoadSnapshot, runVars, sinkVars, Inv, ItemOk, Reading, StreamOf
<1>10. QED
  BY <1>1, <1>2, <1>7, <1>8, <1>9 DEF Inv

(* A change of the table filter changes no more than the catalog.          *)
LEMMA RefilterInv == ASSUME Inv, NEW C \in Catalogs, Refilter(C) PROVE Inv'
<1>1. /\ UNCHANGED <<sinkVars, loaded, snap, dest, saved, mem, pc, ckpt, needs, toScan>>
      /\ UNCHANGED <<work, item, at, unsaved>>
      /\ catalog' \in Catalogs
  BY DEF Refilter, runVars
<1>2. SinkInv' /\ \A u \in Tables, j \in Keys, c \in Nat : LastChange(u, j, c)' = LastChange(u, j, c)
  BY <1>1, QuietInv DEF Inv
<1>3. TypeOk'
  BY <1>1, <1>2 DEF Inv, TypeOk, SinkInv
<1>4. Reading' /\ \A it \in work' : ItemOk(it)'
  BY <1>1 DEF Inv, Reading, ItemOk, StreamOf, sinkVars
<1>5. CellsWereTrue'
  <2>1. \A c \in snap .. Max2(meta, snap) : c \in Nat
    BY BoundsType
  <2>2. loaded \subseteq Tables /\ Max2(meta, snap)' = Max2(meta, snap) /\ dest' = dest
        /\ loaded' = loaded /\ snap' = snap
    BY <1>1 DEF Inv, TypeOk, sinkVars, Max2
  <2>3. QED
    BY <1>2, <2>1, <2>2 DEF CellsWereTrue, Inv
<1>6. snap' <= clock' /\ ckpt' <= meta' /\ (snap' = 0 => loaded' = {})
  BY <1>1 DEF Inv, sinkVars
<1>7. QED
  BY <1>2, <1>3, <1>4, <1>5, <1>6 DEF Inv

(* The fast path saves the compacted state, if anything.                   *)
LEMMA SkipRunInv == Inv /\ SkipRun => Inv'
<1> SUFFICES ASSUME Inv, SkipRun PROVE Inv'
  OBVIOUS
<1>1. Compact(saved, catalog) \in State
  BY CompactType DEF Inv, TypeOk
<1>2. QED
  BY <1>1, EndRunInv DEF SkipRun, CellsKept, Inv, TypeOk

(* A run starts with the published checkpoint-ts and no work.              *)
LEMMA StartRunInv == Inv /\ StartRun => Inv'
<1> SUFFICES ASSUME Inv, StartRun PROVE Inv'
  OBVIOUS
<1>1. SinkInv' /\ snap' <= clock' /\ CellsWereTrue'
  BY CellsStep DEF StartRun, CellsKept
<1>2. mem' \in State
  <2>1. Compact(saved, catalog) \in State /\ meta \in 0 .. MaxTs
    BY CompactType DEF Inv, TypeOk, SinkTypeOk
  <2>2. QED
    BY <2>1 DEF StartRun, State
<1>3. needs' \in BOOLEAN /\ ckpt' \in 0 .. MaxTs /\ ckpt' <= meta'
  BY DEF StartRun, Inv, TypeOk, SinkInv, SinkTypeOk, sinkVars
<1>4. TypeOk'
  BY <1>1, <1>2, <1>3, CatalogsAssumption DEF StartRun, Inv, TypeOk, SinkInv, base
<1>5. ASSUME NEW it \in work' PROVE ItemOk(it)'
  <2>1. /\ work' = work /\ ItemOk(it) /\ ckpt <= meta /\ ckpt' = meta /\ it.v \in Nat
        /\ files' = files /\ schemas' = schemas /\ ckpt \in Nat /\ meta \in Nat
    BY BoundsType, SinkAssumption DEF StartRun, Inv, TypeOk, Item, sinkVars, Versions
  <2>2. QED
    BY <2>1 DEF ItemOk, StreamOf
<1>6. QED
  BY <1>1, <1>3, <1>4, <1>5 DEF Inv, Reading, StartRun, base

(* The scan finds schema files up to the checkpoint-ts and files an index  *)
(* has named, and both stay.                                               *)
LEMMA ScanTableInv == ASSUME Inv, NEW t \in Tables, ScanTable(t) PROVE Inv'
<1>1. SinkInv' /\ snap' <= clock' /\ CellsWereTrue'
  BY CellsStep DEF ScanTable, CellsKept
<1>2. ASSUME NEW m \in VisibleSchemas(t)
      PROVE  Marker(t, m) \in Item /\ ItemOk(Marker(t, m))
  <2>1. m \in schemas[t] /\ m \in Schema /\ m.v <= ckpt
    BY DEF VisibleSchemas, Inv, SinkInv, SinkTypeOk
  <2>2. Marker(t, m) \in Item
    BY <2>1, SinkAssumption DEF Marker, Item, Schema
  <2>3. m = [v |-> m.v, trunc |-> m.trunc]
    BY <2>1 DEF Schema
  <2>4. QED
    BY <2>1, <2>2, <2>3 DEF ItemOk, Marker
<1>3. ASSUME NEW r \in VisibleRanges(t)
      PROVE  r \in Item /\ ItemOk(r)
  <2>1. PICK y \in Streams \X Dates : /\ r = FileRange(y[1], y[2])
                                      /\ y[1][1] = t
                                      /\ \E m \in VisibleSchemas(t) : m.v = y[1][2]
    BY DEF VisibleRanges
  <2>2. PICK u \in Tables, v \in Versions, p \in Partitions : y[1] = <<u, v, p>>
    BY DEF Streams
  <2>3. /\ y[1] \in Streams /\ y[2] \in Dates /\ y[2] \in 0 .. MaxDate
        /\ p \in Nat /\ v <= ckpt
    <3>1. y[1] \in Streams /\ y[2] \in Dates /\ p \in Nat
      BY <2>1, SinkAssumption
    <3>2. y[1][2] <= ckpt
      BY <2>1 DEF VisibleSchemas
    <3>3. y[1][2] = v
      BY <2>2
    <3>4. y[2] \in 0 .. MaxDate
      BY <3>1, DatesType
    <3>5. v <= ckpt
      BY <3>2, <3>3
    <3>6. QED
      BY <3>1, <3>4, <3>5
  <2>4. Len(files[y[1]][y[2]]) \in Nat
    BY <2>3 DEF Inv, TypeOk, SinkTypeOk
  <2>5. r = [kind |-> "dml", t |-> u, v |-> v, p |-> p, d |-> y[2],
             latest |-> Len(files[y[1]][y[2]]), trunc |-> FALSE]
    BY <2>1, <2>2 DEF FileRange
  <2>6. r \in Item
    BY <2>2, <2>3, <2>4, <2>5 DEF Item
  <2>7. StreamOf(r) = y[1]
    BY <2>2, <2>5 DEF StreamOf
  <2>8. QED
    BY <2>3, <2>4, <2>5, <2>6, <2>7 DEF ItemOk
<1>4. ASSUME NEW it \in work' PROVE it \in Item /\ ItemOk(it)
  <2>1. \/ it \in work
        \/ \E m \in VisibleSchemas(t) : it = Marker(t, m)
        \/ it \in VisibleRanges(t)
    BY DEF ScanTable
  <2>2. QED
    BY <2>1, <1>2, <1>3 DEF Inv, TypeOk
<1>5. \A it \in work' : ItemOk(it)'
  BY <1>4 DEF ItemOk, StreamOf, ScanTable, sinkVars
<1>6. TypeOk'
  BY <1>1, <1>4 DEF ScanTable, Inv, TypeOk, SinkInv, base
<1>7. QED
  BY <1>1, <1>5, <1>6 DEF Inv, Reading, ScanTable, sinkVars, base

(* An item that is passed over changes no more than the work list.         *)
LEMMA SkipItemInv ==
  ASSUME Inv, NEW it \in work, SkipMarker(it) \/ SkipOldRange(it)
  PROVE  Inv'
<1>1. /\ UNCHANGED <<sinkVars, base, dest, saved, mem, pc, ckpt, needs, toScan, item, at>>
      /\ pc = "work" /\ work' \subseteq work /\ unsaved' \in Nat
  BY DEF SkipMarker, SkipOldRange, Inv, TypeOk
<1>2. TypeOk'
  BY <1>1 DEF Inv, TypeOk, SinkTypeOk, sinkVars, base
<1>3. QED
  BY <1>1, <1>2, LoopStep DEF CellsKept, Reading

(* A marker that is handled is above the snapshot, so a truncate is the    *)
(* last change of every key as of the marker's version.                    *)
LEMMA AboveSnapshot ==
  ASSUME Inv, NEW it \in work, it.kind = "schema", it.v > EffectiveWatermark(it.t)
  PROVE  /\ it.t \in Tables /\ it.v \in Versions /\ it.v \in 0 .. MaxTs
         /\ it.v \in snap .. Max2(meta, snap)
         /\ [v |-> it.v, trunc |-> it.trunc] \in schemas[it.t]
<1>1. it \in Item /\ ItemOk(it) /\ it.t \in Tables /\ it.v \in Versions /\ it.v \in Nat
  BY SinkAssumption DEF Inv, TypeOk, Item, Versions
<1>2. it.v <= ckpt /\ [v |-> it.v, trunc |-> it.trunc] \in schemas[it.t]
  BY <1>1 DEF ItemOk
<1>3. it.v > snap
  <2> SUFFICES ASSUME it.v <= snap PROVE FALSE
    BY <1>1, BoundsType
  <2> DEFINE vs == {m.v : m \in {n \in VisibleSchemas(it.t) : n.v <= snap}}
  <2>1. it.v \in vs
    <3>1. [v |-> it.v, trunc |-> it.trunc] \in VisibleSchemas(it.t)
      BY <1>2 DEF VisibleSchemas
    <3>2. [v |-> it.v, trunc |-> it.trunc].v = it.v
      OBVIOUS
    <3>3. QED
      BY <3>1, <3>2
  <2>2. vs \in SUBSET Nat /\ \A x \in vs : x <= snap
    <3>1. schemas[it.t] \in SUBSET Schema
      BY <1>1 DEF Inv, SinkInv, SinkTypeOk
    <3>2. QED
      BY <3>1, SinkAssumption DEF VisibleSchemas, Schema, Versions
  <2>3. PICK b \in vs : \A w \in vs : w <= b
    BY <2>1, <2>2, LargestOf, BoundsType
  <2>4. Baseline(it.t) \in vs /\ it.v <= Baseline(it.t)
    BY <2>1, <2>3 DEF Baseline
  <2>5. mem.wm[it.t] \in Nat
    BY <1>1, SinkAssumption DEF Inv, TypeOk, State
  <2>6. QED
    BY <1>1, <2>2, <2>4, <2>5 DEF EffectiveWatermark, Max2
<1>4. QED
  BY <1>1, <1>2, <1>3, BoundsType, SinkAssumption DEF Inv, Versions

(* Truncating a table for a marker that is handled leaves cells that were  *)
(* true as of its version.                                                 *)
LEMMA TruncateCells ==
  ASSUME Inv, NEW it \in work, it.kind = "schema", it.v > EffectiveWatermark(it.t),
         dest' = IF it.trunc THEN Truncated(it.t, it.v) ELSE dest
  PROVE  CellsKept /\ dest' \in [Tables -> [Keys -> Cell]]
<1>1. /\ it.t \in Tables /\ it.v \in Versions /\ it.v \in 0 .. MaxTs
      /\ it.v \in snap .. Max2(meta, snap)
      /\ [v |-> it.v, trunc |-> it.trunc] \in schemas[it.t]
      /\ dest \in [Tables -> [Keys -> Cell]]
  BY AboveSnapshot DEF Inv, TypeOk
<1>2. CASE ~it.trunc
  BY <1>1, <1>2 DEF CellsKept
<1>3. CASE it.trunc
  <2> DEFINE gone == [k \in Keys |-> [ts |-> it.v, live |-> FALSE]]
  <2>1. dest' = [dest EXCEPT ![it.t] = gone]
    BY <1>3 DEF Truncated
  <2>2. gone \in [Keys -> Cell] /\ \A k \in Keys : gone[k] = [ts |-> it.v, live |-> FALSE]
    BY <1>1 DEF Cell
  <2>3. it.trunc = TRUE
    BY <1>3 DEF Inv, TypeOk, Item
  <2>4. \A k \in Keys : LastChange(it.t, k, it.v) = [ts |-> it.v, live |-> FALSE]
    BY <1>1, <2>3, TruncateIsLastChange
  <2> HIDE DEF gone
  <2>5. dest' \in [Tables -> [Keys -> Cell]]
    BY <1>1, <2>1, <2>2
  <2>6. dest'[it.t] = gone /\ \A t \in Tables \ {it.t} : dest'[t] = dest[t]
    BY <1>1, <2>1
  <2>7. ASSUME NEW t \in Tables, NEW k \in Keys
        PROVE  \/ dest'[t][k] = dest[t][k]
               \/ \E c \in snap .. Max2(meta, snap) : dest'[t][k] = LastChange(t, k, c)
    <3>1. CASE t = it.t
      BY <3>1, <1>1, <2>2, <2>4, <2>6
    <3>2. CASE t # it.t
      BY <3>2, <2>6
    <3>3. QED
      BY <3>1, <3>2
  <2>8. QED
    BY <2>5, <2>7 DEF CellsKept
<1>4. QED
  BY <1>2, <1>3

(* A schema marker truncates, moves the watermark and saves.               *)
LEMMA HandleMarkerInv == ASSUME Inv, NEW it \in work, HandleMarker(it) PROVE Inv'
<1>1. CellsKept /\ dest' \in [Tables -> [Keys -> Cell]]
  BY TruncateCells DEF HandleMarker
<1>2. mem' \in State
  <2>1. mem \in State /\ it.t \in Tables /\ it.v \in 0 .. MaxTs
    BY AboveSnapshot DEF HandleMarker, Inv, TypeOk
  <2>2. QED
    BY <2>1, SetWatermarkType DEF HandleMarker
<1>3. TypeOk'
  BY <1>1, <1>2 DEF HandleMarker, Inv, TypeOk, SinkTypeOk, sinkVars, base
<1>4. Reading' /\ work' \subseteq work
  BY DEF HandleMarker, Reading
<1>5. QED
  BY <1>1, <1>3, <1>4, LoopStep DEF HandleMarker

-----------------------------------------------------------------------------
(* The item about to be read and its cursor.                               *)
LEMMA RangeFacts ==
  ASSUME Inv, NEW it \in Item, it.kind = "dml", ItemOk(it)
  PROVE  /\ StreamOf(it) \in Streams /\ it.d \in 0 .. MaxDate /\ it.latest \in Nat
         /\ mem \in State /\ mem.cursors[StreamOf(it)] \in Cursor
         /\ Looked(it) \in Cursor
<1>1. StreamOf(it) \in Streams /\ it.d \in 0 .. MaxDate /\ it.latest \in Nat
  BY DatesType DEF ItemOk, Item
<1>2. mem \in State /\ mem.cursors[StreamOf(it)] \in Cursor
  BY <1>1 DEF Inv, TypeOk, State
<1>3. Looked(it) \in Cursor
  <2> DEFINE c == mem.cursors[StreamOf(it)]
  <2>1. Max2(c.latest, it.latest) \in Nat
    BY <1>1, <1>2 DEF Max2, Cursor
  <2>2. Looked(it) = [c EXCEPT !.latest = Max2(c.latest, it.latest)]
    BY DEF Looked
  <2>3. QED
    BY <1>2, <2>1, <2>2 DEF Cursor
<1>4. QED
  BY <1>1, <1>2, <1>3

(* A range without unread files updates its cursor only.                   *)
LEMMA SkipReadRangeInv == ASSUME Inv, NEW it \in work, SkipReadRange(it) PROVE Inv'
<1>1. it \in Item /\ it.kind = "dml" /\ ItemOk(it)
  BY DEF SkipReadRange, Inv, TypeOk
<1>2. mem' \in State
  BY <1>1, RangeFacts, SetCursorType DEF SkipReadRange
<1>3. TypeOk' /\ work' \subseteq work
  BY <1>2 DEF SkipReadRange, Inv, TypeOk, SinkTypeOk, sinkVars, base
<1>4. QED
  BY <1>3, LoopStep DEF SkipReadRange, CellsKept, Reading

(* The first file opened is one the index has named.                       *)
LEMMA OpenRangeInv == ASSUME Inv, NEW it \in work, OpenRange(it) PROVE Inv'
<1> DEFINE c == Looked(it)
           f == StartFile(c, it.d)
<1>1. it \in Item /\ it.kind = "dml" /\ ItemOk(it)
  BY DEF OpenRange, Inv, TypeOk
<1>2. /\ StreamOf(it) \in Streams /\ it.d \in 0 .. MaxDate /\ mem \in State /\ c \in Cursor
      /\ it.latest \in Nat
  BY <1>1, RangeFacts
<1>3. f \in Nat \ {0} /\ StartRow(c, f) \in Nat /\ Opened(c, it.d, f) \in Cursor
  <2>1. f \in Nat \ {0}
    BY <1>2, CursorTypes
  <2>2. QED
    BY <1>2, <2>1, CursorTypes
<1> HIDE DEF c
<1>4. mem' \in State /\ at' \in [file : Nat, row : Nat] /\ item' = it
  BY <1>2, <1>3, SetCursorType DEF OpenRange, c
<1>5. at'.file \in 1 .. it.latest
  BY <1>2, <1>3 DEF OpenRange, c
<1>6. TypeOk' /\ work' \subseteq work
  BY <1>1, <1>4 DEF OpenRange, Inv, TypeOk, SinkTypeOk, sinkVars, base
<1>7. ItemOk(it)'
  BY <1>1 DEF OpenRange, ItemOk, StreamOf, sinkVars
<1>8. Reading'
  BY <1>1, <1>4, <1>5, <1>7 DEF Reading
<1>9. QED
  BY <1>6, <1>8, LoopStep DEF OpenRange, CellsKept

-----------------------------------------------------------------------------
(* The file being read, its cursor, and a row of it above the snapshot.    *)
LEMMA ReadFacts ==
  ASSUME Inv, pc = "read"
  PROVE  /\ item \in Item /\ item.kind = "dml" /\ ItemOk(item) /\ item.t \in Tables
         /\ stream \in Streams /\ stream[1] = item.t /\ item.d \in Dates /\ item.d \in 0 .. MaxDate
         /\ mem \in State /\ saved \in State /\ cursor \in Cursor
         /\ at.file \in Nat /\ at.row \in Nat /\ item.latest \in Nat
         /\ at.file \in 1 .. item.latest
         /\ files[stream][item.d] \in Seq(Seq(Row))
         /\ at.file \in 1 .. Len(files[stream][item.d])
         /\ Rows \in Seq(Row)
<1>1. item \in Item /\ item.kind = "dml" /\ ItemOk(item) /\ at.file \in 1 .. item.latest
  BY DEF Inv, Reading
<1>2. /\ stream \in Streams /\ item.d \in 0 .. MaxDate /\ item.latest \in Nat
      /\ mem \in State /\ cursor \in Cursor
  BY <1>1, RangeFacts DEF stream, cursor
<1>3. item.t \in Tables /\ stream[1] = item.t /\ item.d \in Dates
  BY <1>1 DEF Item, stream, StreamOf, ItemOk
<1>4. files[stream][item.d] \in Seq(Seq(Row))
  BY <1>2, <1>3 DEF Inv, SinkInv, SinkTypeOk
<1>5. item.latest <= Len(files[stream][item.d])
  BY <1>1 DEF ItemOk, stream
<1>6. at.file \in Nat /\ at.row \in Nat /\ saved \in State
  BY DEF Inv, TypeOk
<1>7. at.file \in 1 .. Len(files[stream][item.d])
  BY <1>1, <1>2, <1>4, <1>5, <1>6
<1>8. Rows \in Seq(Row)
  BY <1>4, <1>7 DEF Rows
<1>9. QED
  BY <1>1, <1>2, <1>3, <1>4, <1>6, <1>7, <1>8

(* The next row of the file is a row of the table that is being read.      *)
LEMMA EventFacts ==
  ASSUME Inv, HasRow
  PROVE  event \in Row /\ event \in RowsOf(item.t) /\ item.t \in Tables
<1> DEFINE d == item.d
<1>1. /\ stream \in Streams /\ stream[1] = item.t /\ item.t \in Tables /\ d \in Dates
      /\ files[stream][d] \in Seq(Seq(Row))
      /\ at.file \in 1 .. Len(files[stream][d]) /\ Rows \in Seq(Row)
      /\ at.row \in Nat /\ at.row < Len(Rows)
  BY ReadFacts DEF HasRow
<1>2. at.row + 1 \in 1 .. Len(Rows)
  BY <1>1
<1>3. event \in SeqRange(Rows) /\ event \in Row
  BY <1>1, <1>2 DEF SeqRange, event
<1>4. Rows \in SeqRange(files[stream][d])
  BY <1>1 DEF SeqRange, Rows
<1>5. event \in FileRows(stream)
  BY <1>1, <1>3, <1>4 DEF FileRows
<1>6. QED
  BY <1>1, <1>3, <1>5, RowsOfMember

(* A row within both bounds is the last change of its key at its ts.       *)
LEMMA AppliedCells ==
  ASSUME Inv, HasRow, ~InSnapshot, ~BeyondCheckpoint, dest' = Applied(event)
  PROVE  CellsKept /\ dest' \in [Tables -> [Keys -> Cell]]
<1> DEFINE new == [ts |-> event.ts, live |-> event.op # "D"]
           tab == [dest[item.t] EXCEPT ![event.key] = new]
<1>1. item.t \in Tables /\ event \in RowsOf(item.t)
  BY EventFacts
<1>2. /\ event.key \in Keys /\ event.ts \in Versions
      /\ LastChange(item.t, event.key, event.ts) = new
  BY <1>1, RowIsLastChange
<1>3. event.ts \in Nat /\ event.ts \in 0 .. MaxTs
  BY <1>2, SinkAssumption DEF Versions
<1>4. event.ts \in snap .. Max2(meta, snap)
  BY <1>3, BoundsType DEF InSnapshot, BeyondCheckpoint, Inv
<1>5. new \in Cell
  BY <1>3 DEF Cell
<1>6. dest \in [Tables -> [Keys -> Cell]] /\ dest' = [dest EXCEPT ![item.t] = tab]
  BY DEF Inv, TypeOk, Applied
<1> HIDE DEF new
<1>7. /\ tab \in [Keys -> Cell] /\ tab[event.key] = new
      /\ \A k \in Keys \ {event.key} : tab[k] = dest[item.t][k]
  BY <1>1, <1>2, <1>5, <1>6
<1> HIDE DEF tab
<1>8. /\ dest' \in [Tables -> [Keys -> Cell]] /\ dest'[item.t] = tab
      /\ \A t \in Tables \ {item.t} : dest'[t] = dest[t]
  BY <1>1, <1>6, <1>7
<1>9. ASSUME NEW t \in Tables, NEW k \in Keys
      PROVE  \/ dest'[t][k] = dest[t][k]
             \/ \E c \in snap .. Max2(meta, snap) : dest'[t][k] = LastChange(t, k, c)
  <2>1. CASE t = item.t /\ k = event.key
    BY <2>1, <1>2, <1>4, <1>7, <1>8
  <2>2. CASE ~(t = item.t /\ k = event.key)
    BY <2>2, <1>7, <1>8
  <2>3. QED
    BY <2>1, <2>2
<1>10. QED
  BY <1>8, <1>9 DEF CellsKept

(* The run goes on in the same file.                                       *)
LEMMA ReadOnStep ==
  ASSUME Inv, pc = "read", UNCHANGED <<sinkVars, base, pc, ckpt, needs, toScan, work, item>>,
         CellsKept, dest' \in [Tables -> [Keys -> Cell]],
         mem' \in State, saved' \in State, unsaved' \in Nat, at' = [at EXCEPT !.row = @ + 1]
  PROVE  Inv'
<1>1. at' \in [file : Nat, row : Nat] /\ at'.file = at.file
  BY DEF Inv, TypeOk
<1>2. TypeOk'
  BY <1>1 DEF Inv, TypeOk, SinkTypeOk, sinkVars, base
<1>3. Reading'
  BY <1>1 DEF Inv, Reading, ItemOk, StreamOf, sinkVars
<1>4. QED
  BY <1>2, <1>3, LoopStep

(* A row at or below the snapshot only moves the cursor.                   *)
LEMMA SkipRowInv == Inv /\ SkipRow => Inv'
<1> SUFFICES ASSUME Inv, SkipRow PROVE Inv'
  OBVIOUS
<1>1. mem \in State /\ stream \in Streams /\ cursor \in Cursor /\ at.row + 1 \in Nat
  BY ReadFacts DEF SkipRow, HasRow
<1>2. [cursor EXCEPT !.row = at.row + 1] \in Cursor
  BY <1>1 DEF Cursor
<1>3. mem' \in State
  BY <1>1, <1>2, SetCursorType DEF SkipRow
<1>4. dest' \in [Tables -> [Keys -> Cell]] /\ saved' \in State /\ unsaved' \in Nat /\ CellsKept
  BY DEF SkipRow, Inv, TypeOk, CellsKept
<1>5. QED
  BY <1>3, <1>4, ReadOnStep DEF SkipRow, HasRow

(* The first row above the checkpoint-ts ends the run with a cursor.       *)
LEMMA StopAtCheckpointInv == Inv /\ StopAtCheckpoint => Inv'
<1> SUFFICES ASSUME Inv, StopAtCheckpoint PROVE Inv'
  OBVIOUS
<1>1. /\ mem \in State /\ stream \in Streams /\ cursor \in Cursor
      /\ item.d \in 0 .. MaxDate /\ at.file \in Nat /\ at.row \in Nat
  BY ReadFacts DEF StopAtCheckpoint, HasRow
<1>2. Opened(cursor, item.d, at.file) \in Cursor
  BY <1>1, OpenedType
<1>3. Stopped \in Cursor
  BY <1>1, <1>2 DEF Stopped, Cursor
<1>4. SetCursor(mem, stream, Stopped) \in State
  BY <1>1, <1>3, SetCursorType
<1>5. QED
  BY <1>4, EndRunInv DEF StopAtCheckpoint, CellsKept, Inv, TypeOk

(* The state after a row is emitted is well formed.                        *)
LEMMA AdvancedType == ASSUME Inv, HasRow PROVE Advanced \in State
<1> DEFINE c  == [cursor EXCEPT !.row = at.row + 1, !.lastTs = event.ts]
           st == SetCursor(mem, stream, c)
<1>1. /\ mem \in State /\ stream \in Streams /\ cursor \in Cursor /\ at.row + 1 \in Nat
      /\ item.t \in Tables
  BY ReadFacts DEF HasRow
<1>2. event.ts \in Versions /\ event.ts \in 0 .. MaxTs
  BY EventFacts, SinkAssumption DEF Row, Versions
<1>3. c \in Cursor
  BY <1>1, <1>2 DEF Cursor
<1> HIDE DEF c
<1>4. st \in State
  BY <1>1, <1>3, SetCursorType
<1>5. Advanced = [st EXCEPT !.tableTs = [st.tableTs EXCEPT ![item.t] = event.ts]]
  BY DEF Advanced, c
<1> HIDE DEF st
<1>6. [st.tableTs EXCEPT ![item.t] = event.ts] \in [Tables -> 0 .. MaxTs]
  BY <1>1, <1>2, <1>4 DEF State
<1>7. QED
  BY <1>4, <1>5, <1>6 DEF State

(* A row within both bounds is applied.                                    *)
LEMMA EmitRowInv == Inv /\ EmitRow => Inv'
<1> SUFFICES ASSUME Inv, EmitRow PROVE Inv'
  OBVIOUS
<1>1. CellsKept /\ dest' \in [Tables -> [Keys -> Cell]]
  BY AppliedCells DEF EmitRow
<1>2. mem' \in State
  BY AdvancedType DEF EmitRow
<1>3. saved' \in State /\ unsaved' \in Nat
  BY <1>2 DEF EmitRow, Inv, TypeOk
<1>4. QED
  BY <1>1, <1>2, <1>3, ReadOnStep DEF EmitRow, HasRow

(* The end of a file opens the next one the index has named, if any.       *)
LEMMA FinishFileInv == Inv /\ FinishFile => Inv'
<1> SUFFICES ASSUME Inv, FinishFile PROVE Inv'
  OBVIOUS
<1> DEFINE c == Finished(cursor, item.d, at.file)
<1>1. /\ pc = "read" /\ mem \in State /\ stream \in Streams /\ cursor \in Cursor
      /\ item \in Item /\ item.d \in 0 .. MaxDate /\ at.file \in Nat /\ at.file + 1 \in Nat
      /\ item.latest \in Nat
  BY ReadFacts DEF FinishFile
<1>2. c \in Cursor /\ Opened(c, item.d, at.file + 1) \in Cursor
  <2>1. c \in Cursor
    BY <1>1, CursorTypes
  <2> HIDE DEF c
  <2>2. QED
    BY <1>1, <2>1, OpenedType
<1>3. /\ SetCursor(mem, stream, c) \in State
      /\ SetCursor(mem, stream, Opened(c, item.d, at.file + 1)) \in State
  BY <1>1, <1>2, SetCursorType
<1>4. mem' \in State /\ saved' \in State /\ unsaved' \in Nat
  <2>1. /\ saved' = SetCursor(mem, stream, c) /\ unsaved' = 0
        /\ mem' = SetCursor(mem, stream, c)
             \/ mem' = SetCursor(mem, stream, Opened(c, item.d, at.file + 1))
    BY DEF FinishFile
  <2>2. QED
    BY <1>3, <2>1
<1>5. /\ UNCHANGED <<sinkVars, base, dest, ckpt, needs, toScan, work>>
      /\ \/ at' = [file |-> at.file + 1, row |-> 0] /\ item' = item /\ pc' = "read"
              /\ at.file < item.latest
         \/ at' = Nowhere /\ item' = NoItem /\ pc' = "work"
  BY DEF FinishFile
<1>6. at' \in [file : Nat, row : Nat] /\ item' \in Item \cup {NoItem} /\ pc' \in {"read", "work"}
  BY <1>1, <1>5 DEF Nowhere
<1>7. TypeOk'
  BY <1>4, <1>5, <1>6 DEF Inv, TypeOk, SinkTypeOk, sinkVars, base
<1>8. Reading'
  <2>1. CASE pc' = "work"
    BY <2>1 DEF Reading
  <2>2. CASE pc' # "work"
    <3>1. at'.file = at.file + 1 /\ item' = item /\ at.file < item.latest
      BY <2>2, <1>5
    <3>2. ItemOk(item)' <=> ItemOk(item)
      BY <3>1, <1>5 DEF ItemOk, StreamOf, sinkVars
    <3>3. item.kind = "dml" /\ ItemOk(item)
      BY ReadFacts, <1>1
    <3>4. at'.file \in 1 .. item'.latest
      BY <3>1, <1>1
    <3>5. QED
      BY <3>1, <3>2, <3>3, <3>4, <1>1 DEF Reading
  <2>3. QED
    BY <2>1, <2>2
<1>9. QED
  BY <1>5, <1>7, <1>8, LoopStep DEF CellsKept

(* The last item is done.                                                  *)
LEMMA FinishRunInv == Inv /\ FinishRun => Inv'
<1> SUFFICES ASSUME Inv, FinishRun PROVE Inv'
  OBVIOUS
<1> DEFINE st == IF Compact(mem, catalog) # mem \/ needs THEN Compact(mem, catalog) ELSE saved
<1>1. st \in State
  BY CompactType DEF Inv, TypeOk
<1>2. QED
  BY <1>1, EndRunInv DEF FinishRun, CellsKept, Inv, TypeOk

-----------------------------------------------------------------------------
(* Killed runs: the destination has the operation, the state has not.      *)
LEMMA CrashInv == Inv /\ CrashStep => Inv'
<1> SUFFICES ASSUME Inv, CrashStep PROVE Inv'
  OBVIOUS
<1>1. saved \in State /\ dest \in [Tables -> [Keys -> Cell]]
  BY DEF Inv, TypeOk
<1>2. CASE Crash
  BY <1>1, <1>2, EndRunInv DEF Crash, CellsKept
<1>3. CASE CrashAfterRow
  <2>1. CellsKept /\ dest' \in [Tables -> [Keys -> Cell]]
    BY <1>3, AppliedCells DEF CrashAfterRow
  <2>2. QED
    BY <1>1, <1>3, <2>1, EndRunInv DEF CrashAfterRow
<1>4. ASSUME NEW it \in work, CrashAfterTruncate(it) PROVE Inv'
  <2>1. CellsKept /\ dest' \in [Tables -> [Keys -> Cell]]
    BY <1>4, TruncateCells DEF CrashAfterTruncate
  <2>2. QED
    BY <1>1, <1>4, <2>1, EndRunInv DEF CrashAfterTruncate
<1>5. CASE FailSnapshot
  <2>1. Compact(saved, catalog) \in State
    BY <1>1, CompactType
  <2>2. QED
    BY <1>1, <1>5, <2>1, EndRunInv DEF FailSnapshot, CellsKept
<1>6. QED
  BY <1>2, <1>3, <1>4, <1>5 DEF CrashStep

-----------------------------------------------------------------------------
(* What a step of the sink does to what the invariant speaks of.           *)
SinkGrew ==
  /\ SinkInv' /\ meta <= meta' /\ clock <= clock'
  /\ \A u \in Tables, j \in Keys, c \in Nat :
       c <= Max2(meta, snap) => LastChange(u, j, c)' = LastChange(u, j, c)
  /\ \A u \in Tables : schemas[u] \subseteq schemas'[u]
  /\ \A s \in Streams, d \in Dates : Len(files[s][d]) <= Len(files'[s][d])

(* A step of the sink only adds: files and schemas grow, the checkpoint-ts *)
(* advances, and history up to it and to the snapshot stays what it was.   *)
LEMMA SinkStepInv == Inv /\ SinkStep => Inv'
<1> SUFFICES ASSUME Inv, SinkStep PROVE Inv'
  OBVIOUS
<1>1. UNCHANGED connVars
  BY DEF SinkStep
<1>2. SinkGrew
  <2> USE DEF Inv
  <2>0. /\ SinkInv /\ snap \in Nat /\ meta \in Nat /\ clock \in Nat /\ Max2(meta, snap) \in Nat
        /\ Max2(meta, snap) <= clock
        /\ \A s \in Streams, d \in Dates : Len(files[s][d]) \in Nat
    BY BoundsType DEF SinkInv, SinkTypeOk
  <2>1. ASSUME NEW t \in Tables, NEW k \in Keys, NEW op \in Ops, NEW ts \in Versions,
               ts > snap, CommitRow(t, k, op, ts)
        PROVE  SinkGrew
    <3>1. ts \in Nat /\ ts > meta /\ clock' = ts /\ (ts = clock \/ ts = clock + 1)
          /\ UNCHANGED <<schemas, files, meta>>
      BY <2>1, SinkAssumption DEF CommitRow, Versions
    <3>2. Max2(meta, snap) < ts
      BY <2>0, <2>1, <3>1 DEF Max2
    <3>3. \A c \in Nat : c <= Max2(meta, snap) => c < ts
      BY <2>0, <3>1, <3>2
    <3>4. /\ SinkInv'
          /\ \A u \in Tables, j \in Keys, c \in Nat :
               c < ts => LastChange(u, j, c)' = LastChange(u, j, c)
      BY <2>0, <2>1, CommitRowInv
    <3>5. QED
      BY <2>0, <3>1, <3>3, <3>4 DEF SinkGrew
  <2>2. ASSUME NEW t \in Tables, NEW trunc \in BOOLEAN, DDL(t, trunc)
        PROVE  SinkGrew
    <3>1. clock' = clock + 1 /\ UNCHANGED <<files, meta>>
      BY <2>2 DEF DDL
    <3>2. \A u \in Tables : schemas[u] \subseteq schemas'[u]
      BY <2>2, <2>0 DEF DDL, SinkInv, SinkTypeOk
    <3>3. \A c \in Nat : c <= Max2(meta, snap) => c <= clock
      BY <2>0
    <3>4. /\ SinkInv'
          /\ \A u \in Tables, j \in Keys, c \in Nat :
               c <= clock => LastChange(u, j, c)' = LastChange(u, j, c)
      BY <2>0, <2>2, DDLInv
    <3>5. QED
      BY <2>0, <3>1, <3>2, <3>3, <3>4 DEF SinkGrew
  <2>3. ASSUME NEW s0 \in Streams, Flush(s0) PROVE SinkGrew
    <3>1. /\ SinkInv'
          /\ \A u \in Tables, j \in Keys, c \in Nat : LastChange(u, j, c)' = LastChange(u, j, c)
      BY <2>0, <2>3, QuietInv
    <3>2. UNCHANGED <<clock, date, schemas, meta>>
      BY <2>3 DEF Flush
    <3>3. /\ files \in [Streams -> [Dates -> Seq(Seq(Row))]] /\ date \in Dates
          /\ buf[s0] \in Seq(Row)
      BY <2>0 DEF SinkInv, SinkTypeOk
    <3> DEFINE fd == [files[s0] EXCEPT ![date] = Append(files[s0][date], buf[s0])]
    <3>4. files[s0] \in [Dates -> Seq(Seq(Row))] /\ files' = [files EXCEPT ![s0] = fd]
      BY <2>3, <3>3 DEF Flush
    <3>5. ASSUME NEW d \in Dates PROVE Len(files[s0][d]) <= Len(fd[d])
      <4>1. files[s0][date] \in Seq(Seq(Row)) /\ files[s0][d] \in Seq(Seq(Row))
        BY <3>3, <3>4
      <4>2. fd[d] = IF d = date THEN Append(files[s0][date], buf[s0]) ELSE files[s0][d]
        BY <3>4
      <4>3. Len(Append(files[s0][date], buf[s0])) = Len(files[s0][date]) + 1
        BY <4>1, <3>3
      <4>4. QED
        BY <4>1, <4>2, <4>3
    <3> HIDE DEF fd
    <3>6. ASSUME NEW s \in Streams, NEW d \in Dates
          PROVE  Len(files[s][d]) <= Len(files'[s][d])
      <4>1. files'[s] = IF s = s0 THEN fd ELSE files[s]
        BY <3>3, <3>4
      <4>2. QED
        BY <4>1, <3>5, <2>0
    <3>7. QED
      BY <2>0, <3>1, <3>2, <3>6 DEF SinkGrew
  <2>4. ASSUME \/ \E s \in Streams : Restart(s)
               \/ RollDate \/ \E c \in Versions : Publish(c)
        PROVE  SinkGrew
    <3>1. /\ SinkInv'
          /\ \A u \in Tables, j \in Keys, c \in Nat : LastChange(u, j, c)' = LastChange(u, j, c)
      BY <2>0, <2>4, QuietInv
    <3>2. UNCHANGED <<clock, schemas, files>>
      BY <2>4 DEF Restart, RollDate, Publish
    <3>3. meta <= meta'
      BY <2>4, <2>0, SinkAssumption DEF Restart, RollDate, Publish, Versions
    <3>4. QED
      BY <2>0, <3>1, <3>2, <3>3 DEF SinkGrew
  <2>5. QED
    BY <2>1, <2>2, <2>3, <2>4 DEF SinkStep
<1>3. /\ snap \in Nat /\ meta \in Nat /\ clock \in Nat /\ ckpt \in Nat
      /\ meta' \in Nat /\ clock' \in Nat
      /\ UNCHANGED <<catalog, loaded, snap, dest, ckpt, work, pc, item, at>>
  BY <1>1, <1>2, BoundsType, SinkAssumption
     DEF SinkGrew, connVars, base, runVars, SinkInv, SinkTypeOk, Versions
<1>4. TypeOk' /\ snap' <= clock' /\ ckpt' <= meta'
  <2>1. TypeOk'
    BY <1>1, <1>2 DEF SinkGrew, Inv, TypeOk, SinkInv, connVars, base, runVars
  <2>2. QED
    BY <2>1, <1>2, <1>3 DEF SinkGrew, Inv
<1>5. ASSUME NEW it \in Item, ItemOk(it) PROVE ItemOk(it)'
  <2>1. it.v <= ckpt' /\ it.t \in Tables /\ it.latest \in Nat
    BY <1>3, <1>5 DEF ItemOk, Item
  <2>2. ASSUME it.kind = "schema" PROVE [v |-> it.v, trunc |-> it.trunc] \in schemas'[it.t]
    BY <2>1, <2>2, <1>2, <1>5 DEF SinkGrew, ItemOk
  <2>3. ASSUME it.kind = "dml"
        PROVE  /\ StreamOf(it) \in Streams /\ it.d \in Dates
               /\ it.latest <= Len(files'[StreamOf(it)][it.d])
    <3>1. /\ StreamOf(it) \in Streams /\ it.d \in Dates
          /\ it.latest <= Len(files[StreamOf(it)][it.d])
      BY <2>3, <1>5 DEF ItemOk
    <3>2. /\ Len(files[StreamOf(it)][it.d]) \in Nat /\ Len(files'[StreamOf(it)][it.d]) \in Nat
          /\ Len(files[StreamOf(it)][it.d]) <= Len(files'[StreamOf(it)][it.d])
      BY <3>1, <1>2 DEF SinkGrew, Inv, SinkInv, SinkTypeOk
    <3>3. QED
      BY <2>1, <3>1, <3>2
  <2>4. QED
    BY <2>1, <2>2, <2>3 DEF ItemOk, StreamOf
<1>6. (\A it \in work' : ItemOk(it)') /\ Reading'
  BY <1>3, <1>5 DEF Inv, TypeOk, Reading
<1>7. CellsWereTrue'
  <2> SUFFICES ASSUME NEW t \in loaded, NEW k \in Keys
               PROVE  \E c \in snap .. Max2(meta', snap) : dest[t][k] = LastChange(t, k, c)'
    BY <1>3 DEF CellsWereTrue, Max2
  <2>0. t \in Tables
    BY DEF Inv, TypeOk
  <2>1. PICK c \in snap .. Max2(meta, snap) : dest[t][k] = LastChange(t, k, c)
    BY DEF Inv, CellsWereTrue
  <2>2. c \in Nat /\ c <= Max2(meta, snap) /\ c \in snap .. Max2(meta', snap)
    BY <1>2, <1>3 DEF SinkGrew, Max2
  <2>3. QED
    BY <2>0, <2>1, <2>2, <1>2 DEF SinkGrew
<1>8. QED
  BY <1>2, <1>3, <1>4, <1>6, <1>7 DEF SinkGrew, Inv

-----------------------------------------------------------------------------
(* A step that changes nothing keeps the invariant.                        *)
LEMMA StutterInv == Inv /\ UNCHANGED vars => Inv'
<1> SUFFICES ASSUME Inv, UNCHANGED vars PROVE Inv'
  OBVIOUS
<1>1. UNCHANGED <<sinkVars, base, dest, saved, mem, pc, ckpt, needs, toScan, work, item, at, unsaved>>
  BY DEF vars, connVars, runVars
<1>2. TypeOk'
  BY <1>1 DEF Inv, TypeOk, SinkTypeOk, sinkVars, base
<1>3. Reading'
  BY <1>1 DEF Inv, Reading, ItemOk, StreamOf, sinkVars
<1>4. QED
  BY <1>1, <1>2, <1>3, LoopStep DEF CellsKept

(* Every step keeps the invariant.                                         *)
LEMMA NextInv == Inv /\ [Next]_vars => Inv'
<1> SUFFICES ASSUME Inv, [Next]_vars PROVE Inv'
  OBVIOUS
<1>1. CASE SinkStep
  BY <1>1, SinkStepInv
<1>2. CASE RunStep
  <2>1. CASE \E c \in Versions, S \in SUBSET Tables : LoadSnapshot(c, S)
    BY <2>1, LoadSnapshotInv
  <2>2. CASE SkipRun \/ StartRun
    BY <2>2, SkipRunInv, StartRunInv
  <2>3. CASE \E t \in Tables : ScanTable(t)
    BY <2>3, ScanTableInv
  <2>4. ASSUME NEW it \in work, SkipMarker(it) \/ SkipOldRange(it) PROVE Inv'
    BY <2>4, SkipItemInv
  <2>5. ASSUME NEW it \in work, HandleMarker(it) \/ SkipReadRange(it) \/ OpenRange(it) PROVE Inv'
    BY <2>5, HandleMarkerInv, SkipReadRangeInv, OpenRangeInv
  <2>6. CASE SkipRow \/ StopAtCheckpoint \/ EmitRow
    BY <2>6, SkipRowInv, StopAtCheckpointInv, EmitRowInv
  <2>7. CASE RaiseFallback
    BY <2>7, EndRunInv DEF RaiseFallback, CellsKept, Inv, TypeOk
  <2>8. CASE FinishFile \/ FinishRun
    BY <2>8, FinishFileInv, FinishRunInv
  <2>9. QED
    BY <1>2, <2>1, <2>2, <2>3, <2>4, <2>5, <2>6, <2>7, <2>8 DEF RunStep
<1>3. CASE CrashStep
  BY <1>3, CrashInv
<1>4. CASE \E C \in Catalogs : Refilter(C)
  BY <1>4, RefilterInv
<1>5. CASE UNCHANGED vars
  BY <1>5, StutterInv
<1>6. QED
  BY <1>1, <1>2, <1>3, <1>4, <1>5 DEF Next

(* The invariant holds in every state of every run of sync_incremental,    *)
(* crashed or not, against every behaviour of the sink.                    *)
THEOREM Invariance == Spec => []Inv
BY InitInv, NextInv, PTL DEF Spec

(* The connector state, the work list and the destination stay well formed *)
(* in sync_incremental, whatever the sink writes meanwhile.                *)
THEOREM IncrementalTypeOk == Spec => []TypeOk
<1>1. Inv => TypeOk
  BY DEF Inv
<1>2. QED
  BY Invariance, <1>1, PTL

(* Every row sync_incremental delivers or leaves in the destination, after *)
(* any crashes and replays, is the upstream row as of some timestamp from  *)
(* the snapshot to the published checkpoint-ts.                            *)
THEOREM IncrementalCellsWereTrue == Spec => []CellsWereTrue
<1>1. Inv => CellsWereTrue
  BY DEF Inv
<1>2. QED
  BY Invariance, <1>1, PTL
=============================================================================
