------------------------ MODULE IncrementScanProofs -------------------------
(***************************************************************************)
(* Proofs about IncrementScan, for every set of layouts, and any number of *)
(* date directories, files and rows.                                       *)
(***************************************************************************)
EXTENDS IncrementScan, FiniteSetTheorems, SequenceTheorems, WellFoundedInduction, TLAPS

(* The layouts in which names tell dates from partitions.  In others the   *)
(* scan overlooks directories, partitions share a cursor, or a cursor is   *)
(* migrated to a stream that nobody reads.                                 *)
ToldApart ==
  \A l \in Layouts : \/ l.parts = {}
                     \/ l.sep = "none" /\ ~l.legacy /\ \A p \in l.parts : p.form = "id"

(* An entry of the earlier release.                                        *)
OldEntry == [lastFile : Nat, row : 0 .. RowsPerFile - 1, curFile : Nat]

(* A DML range.                                                            *)
Item == [dir : Dirs, stream : Streams, date : Nat, latest : 1 .. MaxFiles]

(* The types of a state.                                                   *)
StateType(st) ==
  /\ st.cursors \in [Streams -> Cursor]
  /\ \A s \in Streams : st.cursors[s].row <= RowsPerFile
  /\ DOMAIN st.legacy \subseteq Dirs
  /\ st.legacy \in [DOMAIN st.legacy -> OldEntry]

(* TypeOk with the types it needs of the entries of an earlier release, of *)
(* the ranges and of the file being read.                                  *)
TypeInv ==
  /\ TypeOk
  /\ StateType(saved)
  /\ \A s \in Streams : mem[s].row <= RowsPerFile
  /\ todo \subseteq Item
  /\ pc = "read" => /\ at \in [dir : Dirs, stream : Streams, date : Nat,
                               latest : 1 .. MaxFiles, file : 1 .. MaxFiles, row : 0 .. RowsPerFile]
                    /\ at.file <= at.latest

-----------------------------------------------------------------------------
(* The directories where something is written have a date that has come.   *)
DatesOk == \A dir \in Dirs : index[dir] > 0 => DateOf(dir) <= day

(* The stream whose cursor a directory is read with, and its directories.  *)
StreamOf(dir) == Parsed(dir).stream

StreamDirs(s) == {x \in Dirs : StreamOf(x) = s}

(* The cursor c says that the row at x needs no further reading.           *)
Behind(c, x) ==
  \/ DateOf(x[1]) < c.lastDate
  \/ DateOf(x[1]) = c.lastDate /\ x[2] <= c.lastFile
  \/ c.row > 0 /\ DateOf(x[1]) = c.curDate /\ x[2] = c.curFile /\ x[3] <= c.row

(* The rows are those in the bucket that the cursors have behind them.     *)
Exact(rows, cursors) ==
  rows = {x \in AllRows : x[2] <= index[x[1]] /\ Behind(cursors[StreamOf(x[1])], x)}

(* The current file of the cursor exists, comes right after its last file, *)
(* and nothing lies between the two.                                       *)
AtNextFile(c, s) ==
  /\ \E x \in StreamDirs(s) : DateOf(x) = c.curDate /\ c.curFile \in 1 .. index[x]
  /\ \/ c.curDate = c.lastDate /\ c.curFile = c.lastFile + 1
     \/ c.curDate > c.lastDate /\ c.curFile = 1
  /\ \A y \in StreamDirs(s) : DateOf(y) < c.curDate =>
       \/ index[y] = 0
       \/ DateOf(y) < c.lastDate
       \/ DateOf(y) = c.lastDate /\ index[y] <= c.lastFile

(* The cursor stands in the bucket as it is.                               *)
CursorOk(c, s) ==
  /\ c \in Cursor /\ c.row <= RowsPerFile
  /\ c.lastDate <= day
  /\ layout.sep = "none" => c.lastDate = 0
  /\ \A y \in StreamDirs(s) : DateOf(y) = c.lastDate => c.lastFile <= index[y]
  /\ c.row > 0 => AtNextFile(c, s)

(* The scan asks the cursor of stream 0 about names it takes for dates,    *)
(* the ids of partitions among them: it must not have moved.               *)
StateOk(cursors) ==
  /\ cursors \in [Streams -> Cursor]
  /\ \A s \in Streams : CursorOk(cursors[s], s)
  /\ layout.parts # {} => cursors[0] = NoCursor

-----------------------------------------------------------------------------
(* The date directories before one the scan saw are not written any more.  *)
ScanFinal ==
  /\ \A x \in Dirs : exposed[x] <= index[x]
  /\ \A x, y \in Dirs : exposed[x] > 0 /\ DateOf(y) < DateOf(x) => exposed[y] = index[y]

(* A range is about a directory the scan saw, and not before its cursor.   *)
ItemOk(it) ==
  /\ it.stream = StreamOf(it.dir) /\ it.date = DateOf(it.dir)
  /\ it.latest = exposed[it.dir]
  /\ LET c == mem[it.stream]
     IN it.date >= c.lastDate /\ (c.row > 0 => it.date >= c.curDate)

(* The range of a file that was left in the middle is still to come.       *)
Resumes ==
  \A s \in Streams :
    mem[s].row > 0 /\ ~(pc = "read" /\ at.stream = s) =>
      \E it \in todo : it.stream = s /\ it.date = mem[s].curDate /\ mem[s].curFile <= it.latest

(* What the scan saw is read, or its range is still to come.               *)
AllPending ==
  \A x \in AllRows : x[2] <= exposed[x[1]] =>
    \/ x \in read
    \/ \E it \in todo : it.dir = x[1]
    \/ pc = "read" /\ at.dir = x[1]

(* The file being read is the current one of its stream's cursor, and the  *)
(* ranges to come of that stream are of later dates.                       *)
ReadingOk ==
  LET c == mem[at.stream]
  IN /\ at.stream = StreamOf(at.dir) /\ at.date = DateOf(at.dir)
     /\ at.latest = exposed[at.dir]
     /\ c.curDate = at.date /\ c.curFile = at.file /\ c.row = at.row
     /\ AtNextFile(c, at.stream)
     /\ \A it \in todo : it.stream = at.stream => it.date > at.date

(* A run has read what its cursors have behind it, and misses nothing.     *)
RunOk ==
  /\ StateOk(mem)
  /\ Exact(read, mem)
  /\ ScanFinal
  /\ \A it \in todo : ItemOk(it)
  /\ Resumes
  /\ AllPending

(* What was acknowledged is exactly what the next run will not read again. *)
Inv ==
  /\ TypeInv
  /\ DatesOk
  /\ StateOk(Migrated(saved))
  /\ Exact(acked, Migrated(saved))
  /\ pc # "read" => read = acked
  /\ pc # "idle" => RunOk
  /\ pc = "read" => ReadingOk

-----------------------------------------------------------------------------
(* The name of a date directory.                                           *)
DateName(d) == [form |-> layout.sep, n |-> d]

(* The layouts and their parts.                                            *)
LEMMA LayoutType ==
  ASSUME layout \in Layouts
  PROVE  /\ layout.sep \in {"none", "year", "month", "day"}
         /\ layout.parts \subseteq Name /\ IsFiniteSet(layout.parts)
         /\ layout.legacy \in BOOLEAN
         /\ MaxDay \in Nat \ {0} /\ MaxFiles \in Nat \ {0} /\ RowsPerFile \in Nat \ {0}
<1>1. layout \in Layout
  BY ScanAssumption
<1>2. QED
  BY <1>1, ScanAssumption DEF Layout

(* Appending a name to a name.                                             *)
LEMMA AppendPair ==
  ASSUME NEW a, NEW b
  PROVE  Append(<<a>>, b) = <<a, b>>
<1>1. <<a>> \in Seq({a, b}) /\ <<a, b>> \in Seq({a, b}) /\ Len(<<a, b>>) = 2
  OBVIOUS
<1>2. Append(<<a>>, b) \in Seq({a, b}) /\ Len(Append(<<a>>, b)) = 2
  BY <1>1
<1>3. Append(<<a>>, b)[1] = a /\ Append(<<a>>, b)[2] = b
  BY <1>1
<1>4. \A i \in 1 .. 2 : Append(<<a>>, b)[i] = <<a, b>>[i]
  BY <1>3
<1>5. QED
  BY <1>1, <1>2, <1>4, SeqEqual

(* The four kinds of directories.                                          *)
LEMMA DirShape ==
  ASSUME layout \in Layouts, NEW x \in Dirs
  PROVE  \/ layout.parts = {} /\ layout.sep = "none" /\ x = <<>>
         \/ /\ layout.parts = {} /\ layout.sep # "none"
            /\ \E d \in 1 .. MaxDay : x = <<DateName(d)>>
         \/ layout.sep = "none" /\ \E p \in layout.parts : x = <<p>>
         \/ /\ layout.sep # "none"
            /\ \E p \in layout.parts, d \in 1 .. MaxDay : x = <<p, DateName(d)>>
<1>1. PICK p \in PartDirs(layout), d \in DateDirs(layout) : x = p \o d
  BY DEF Dirs, DirsOf
<1>2. IF layout.sep = "none" THEN d = <<>> ELSE \E n \in 1 .. MaxDay : d = <<DateName(n)>>
  BY DEF DateDirs, DateName
<1>3. IF layout.parts = {} THEN p = <<>> ELSE \E q \in layout.parts : p = <<q>>
  BY DEF PartDirs
<1>4. CASE layout.parts = {} /\ layout.sep = "none"
  BY <1>1, <1>2, <1>3, <1>4
<1>5. CASE layout.parts = {} /\ layout.sep # "none"
  <2>1. PICK n \in 1 .. MaxDay : d = <<DateName(n)>>
    BY <1>2, <1>5
  <2>2. <<>> \o <<DateName(n)>> = <<DateName(n)>>
    OBVIOUS
  <2>3. QED
    BY <1>1, <1>3, <1>5, <2>1, <2>2
<1>6. CASE layout.parts # {} /\ layout.sep = "none"
  <2>1. PICK q \in layout.parts : p = <<q>>
    BY <1>3, <1>6
  <2>2. <<q>> \o <<>> = <<q>>
    OBVIOUS
  <2>3. QED
    BY <1>1, <1>2, <1>6, <2>1, <2>2
<1>7. CASE layout.parts # {} /\ layout.sep # "none"
  <2>1. PICK q \in layout.parts : p = <<q>>
    BY <1>3, <1>7
  <2>2. PICK n \in 1 .. MaxDay : d = <<DateName(n)>>
    BY <1>2, <1>7
  <2>3. <<q>> \o <<DateName(n)>> = <<q, DateName(n)>>
    <3>1. <<q>> \in Seq({q, DateName(n)})
      OBVIOUS
    <3>2. Append(<<q>>, DateName(n)) = <<q>> \o <<DateName(n)>>
      BY <3>1, AppendIsConcat
    <3>3. Append(<<q>>, DateName(n)) = <<q, DateName(n)>>
      BY AppendPair
    <3>4. QED
      BY <3>2, <3>3
  <2>4. QED
    BY <1>1, <1>7, <2>1, <2>2, <2>3
<1>8. QED
  BY <1>4, <1>5, <1>6, <1>7

(* A directory, the other way round.                                       *)
LEMMA ShapeDir ==
  ASSUME layout \in Layouts
  PROVE  /\ layout.parts = {} /\ layout.sep = "none" => Dirs = {<<>>}
         /\ layout.parts = {} /\ layout.sep # "none" =>
              \A d \in 1 .. MaxDay : <<DateName(d)>> \in Dirs
         /\ layout.sep = "none" => \A p \in layout.parts : <<p>> \in Dirs
<1>1. ASSUME NEW p \in PartDirs(layout), NEW d \in DateDirs(layout)
      PROVE  p \o d \in Dirs
  BY DEF Dirs, DirsOf
<1>2. ASSUME layout.parts = {}, layout.sep = "none"
      PROVE  Dirs = {<<>>}
  <2>1. \A x \in Dirs : x = <<>>
    BY DirShape, <1>2
  <2>2. <<>> \in PartDirs(layout) /\ <<>> \in DateDirs(layout)
    BY <1>2 DEF PartDirs, DateDirs
  <2>3. <<>> \o <<>> = <<>>
    <3>1. <<>> \in Seq(Name)
      OBVIOUS
    <3>2. QED
      BY <3>1, ConcatEmptySeq
  <2>4. QED
    BY <1>1, <2>1, <2>2, <2>3
<1>3. ASSUME layout.parts = {}, layout.sep # "none", NEW d \in 1 .. MaxDay
      PROVE  <<DateName(d)>> \in Dirs
  <2>1. <<>> \in PartDirs(layout) /\ <<DateName(d)>> \in DateDirs(layout)
    BY <1>3 DEF PartDirs, DateDirs, DateName
  <2>2. <<>> \o <<DateName(d)>> = <<DateName(d)>>
    OBVIOUS
  <2>3. QED
    BY <1>1, <2>1, <2>2
<1>4. ASSUME layout.sep = "none", NEW p \in layout.parts
      PROVE  <<p>> \in Dirs
  <2>1. <<p>> \in PartDirs(layout) /\ <<>> \in DateDirs(layout)
    BY <1>4 DEF PartDirs, DateDirs
  <2>2. <<p>> \o <<>> = <<p>>
    OBVIOUS
  <2>3. QED
    BY <1>1, <2>1, <2>2
<1>5. QED
  BY <1>2, <1>3, <1>4

(* The date of a directory.                                                *)
LEMMA DateType ==
  ASSUME layout \in Layouts, NEW x \in Dirs
  PROVE  /\ layout.sep = "none" => DateOf(x) = 0
         /\ layout.sep # "none" => DateOf(x) \in 1 .. MaxDay
         /\ DateOf(x) \in 0 .. MaxDay
<1>1. layout.sep = "none" => DateOf(x) = 0
  BY DEF DateOf
<1>2. ASSUME layout.sep # "none" PROVE DateOf(x) \in 1 .. MaxDay
  <2>1. \/ \E d \in 1 .. MaxDay : x = <<DateName(d)>>
        \/ \E p \in layout.parts, d \in 1 .. MaxDay : x = <<p, DateName(d)>>
    BY DirShape, <1>2
  <2>2. \E d \in 1 .. MaxDay : x[Len(x)] = DateName(d)
    <3>1. \A d \in 1 .. MaxDay : <<DateName(d)>>[Len(<<DateName(d)>>)] = DateName(d)
      OBVIOUS
    <3>2. \A p \in layout.parts, d \in 1 .. MaxDay :
            <<p, DateName(d)>>[Len(<<p, DateName(d)>>)] = DateName(d)
      OBVIOUS
    <3>3. QED
      BY <2>1, <3>1, <3>2
  <2>3. QED
    BY <2>2, <1>2 DEF DateOf, DateName
<1>3. QED
  BY <1>1, <1>2, LayoutType

(* What a name or two stand for.                                           *)
LEMMA PlaceOne ==
  ASSUME NEW a
  PROVE  /\ Place(<<>>, FALSE) = [stream |-> 0, date |-> 0]
         /\ Place(<<a>>, TRUE) = [stream |-> 0, date |-> a.n]
         /\ Place(<<a>>, FALSE) = [stream |-> a.n, date |-> 0]
<1>1. Len(<<a>>) = 1 /\ <<a>>[1] = a /\ <<a>> # <<>>
  OBVIOUS
<1>2. SubSeq(<<a>>, 1, 0) = <<>>
  OBVIOUS
<1>3. QED
  BY <1>1, <1>2 DEF Place

(* Of two names the last one is a date.                                    *)
LEMMA PlaceTwo ==
  ASSUME NEW a, NEW b
  PROVE  Place(<<a, b>>, TRUE) = [stream |-> a.n, date |-> b.n]
<1>1. Len(<<a, b>>) = 2 /\ <<a, b>>[2] = b /\ <<a>> # <<>> /\ Len(<<a>>) = 1 /\ <<a>>[1] = a
  OBVIOUS
<1>2. SubSeq(<<a, b>>, 1, 1) = <<a>>
  <2>1. <<a, b>> \in Seq({a, b}) /\ <<a>> \in Seq({a, b})
    OBVIOUS
  <2>2. SubSeq(<<a, b>>, 1, 1) \in Seq({a, b}) /\ Len(SubSeq(<<a, b>>, 1, 1)) = 1
    BY <2>1, <1>1, SubSeqProperties
  <2>3. SubSeq(<<a, b>>, 1, 1)[1] = a
    BY <2>1, <1>1, SubSeqProperties
  <2>4. \A i \in 1 .. 1 : SubSeq(<<a, b>>, 1, 1)[i] = <<a>>[i]
    BY <2>3
  <2>5. QED
    BY <2>1, <2>2, <2>4, SeqEqual, <1>1
<1>3. QED
  BY <1>1, <1>2 DEF Place

(* The name of a date directory looks like one and parses as one.          *)
LEMMA DateNameParses ==
  ASSUME layout \in Layouts, layout.sep # "none", NEW d \in 1 .. MaxDay
  PROVE  /\ ParsesAsDate(DateName(d)) = TRUE /\ LooksLikeDate(DateName(d)) = TRUE
         /\ DateName(d).n = d
BY LayoutType DEF ParsesAsDate, LooksLikeDate, DateName

(* The streams and dates the names of a directory are taken for.           *)
LEMMA PlaceType ==
  ASSUME layout \in Layouts, NEW x \in Dirs
  PROVE  Parsed(x).stream \in Streams /\ Parsed(x).date \in Nat /\ LegacyPlace(x).date \in Nat
<1>1. \A p \in layout.parts : p.n \in Nat /\ p.n \in Streams /\ p.n # 0
  BY LayoutType DEF Name, Streams
<1>2. 0 \in Streams
  BY DEF Streams
<1>3. CASE x = <<>>
  <2>1. Parsed(x) = [stream |-> 0, date |-> 0] /\ LegacyPlace(x) = [stream |-> 0, date |-> 0]
    BY <1>3, PlaceOne DEF Parsed, LegacyPlace
  <2>2. QED
    BY <2>1, <1>2
<1>4. ASSUME layout.sep # "none", NEW d \in 1 .. MaxDay, x = <<DateName(d)>>
      PROVE  Parsed(x).stream \in Streams /\ Parsed(x).date \in Nat /\ LegacyPlace(x).date \in Nat
  <2>1. x # <<>> /\ x[Len(x)] = DateName(d)
    BY <1>4
  <2>2. Parsed(x) = [stream |-> 0, date |-> d] /\ LegacyPlace(x) = [stream |-> 0, date |-> d]
    BY <1>4, <2>1, PlaceOne, DateNameParses DEF Parsed, LegacyPlace
  <2>3. QED
    BY <2>2, <1>2
<1>5. ASSUME NEW p \in layout.parts, x = <<p>>
      PROVE  Parsed(x).stream \in Streams /\ Parsed(x).date \in Nat /\ LegacyPlace(x).date \in Nat
  <2>1. x # <<>> /\ x[Len(x)] = p /\ ParsesAsDate(p) \in BOOLEAN /\ LooksLikeDate(p) \in BOOLEAN
    BY <1>5 DEF ParsesAsDate, LooksLikeDate
  <2>2. Parsed(x) \in {[stream |-> 0, date |-> p.n], [stream |-> p.n, date |-> 0]}
    BY <1>5, <2>1, PlaceOne DEF Parsed
  <2>3. LegacyPlace(x) \in {[stream |-> 0, date |-> p.n], [stream |-> p.n, date |-> 0]}
    BY <1>5, <2>1, PlaceOne DEF LegacyPlace
  <2>4. QED
    BY <2>2, <2>3, <1>1, <1>2
<1>6. ASSUME layout.sep # "none", NEW p \in layout.parts, NEW d \in 1 .. MaxDay, x = <<p, DateName(d)>>
      PROVE  Parsed(x).stream \in Streams /\ Parsed(x).date \in Nat /\ LegacyPlace(x).date \in Nat
  <2>1. x # <<>> /\ x[Len(x)] = DateName(d)
    BY <1>6
  <2>2. Parsed(x) = [stream |-> p.n, date |-> d] /\ LegacyPlace(x) = [stream |-> p.n, date |-> d]
    BY <1>6, <2>1, PlaceTwo, DateNameParses DEF Parsed, LegacyPlace
  <2>3. QED
    BY <2>2, <1>1
<1>7. QED
  BY DirShape, <1>3, <1>4, <1>5, <1>6

(* The values of a function on a finite set are finitely many.             *)
LEMMA ValuesFinite ==
  ASSUME NEW S, IsFiniteSet(S), NEW f
  PROVE  IsFiniteSet({f[x] : x \in S})
<1> DEFINE T == {f[x] : x \in S}
           g == [x \in S |-> f[x]]
<1>1. g \in Surjection(S, T)
  BY DEF Surjection
<1>2. QED
  BY <1>1, FS_Surjection

(* There are finitely many directories.                                    *)
LEMMA DirsFinite ==
  ASSUME layout \in Layouts
  PROVE  IsFiniteSet(Dirs)
<1>1. IsFiniteSet(PartDirs(layout))
  <2> DEFINE f == [p \in layout.parts |-> <<p>>]
  <2>1. IsFiniteSet({f[p] : p \in layout.parts})
    <3>1. IsFiniteSet(layout.parts)
      BY LayoutType
    <3> HIDE DEF f
    <3>2. QED
      BY <3>1, ValuesFinite
  <2>2. {f[p] : p \in layout.parts} = {<<p>> : p \in layout.parts}
    OBVIOUS
  <2>3. IsFiniteSet({<<>>})
    BY FS_Singleton
  <2>4. QED
    BY <2>1, <2>2, <2>3 DEF PartDirs
<1>2. IsFiniteSet(DateDirs(layout))
  <2> DEFINE f == [d \in 1 .. MaxDay |-> <<[form |-> layout.sep, n |-> d]>>]
  <2>1. IsFiniteSet(1 .. MaxDay)
    BY LayoutType, FS_Interval
  <2>2. IsFiniteSet({f[d] : d \in 1 .. MaxDay})
    BY <2>1, ValuesFinite
  <2>3. {f[d] : d \in 1 .. MaxDay} = {<<[form |-> layout.sep, n |-> d]>> : d \in 1 .. MaxDay}
    OBVIOUS
  <2>4. IsFiniteSet({<<>>})
    BY FS_Singleton
  <2>5. QED
    BY <2>2, <2>3, <2>4 DEF DateDirs
<1>3. IsFiniteSet(PartDirs(layout) \X DateDirs(layout))
  BY <1>1, <1>2, FS_Product
<1> DEFINE f == [x \in PartDirs(layout) \X DateDirs(layout) |-> x[1] \o x[2]]
           T == {f[x] : x \in PartDirs(layout) \X DateDirs(layout)}
<1>4. IsFiniteSet(T)
  <2> HIDE DEF f
  <2>1. QED
    BY <1>3, ValuesFinite
<1>5. ASSUME NEW y \in Dirs PROVE y \in T
  <2>1. PICK p \in PartDirs(layout), d \in DateDirs(layout) : y = p \o d
    BY DEF Dirs, DirsOf
  <2>2. <<p, d>> \in PartDirs(layout) \X DateDirs(layout) /\ f[<<p, d>>] = y
    BY <2>1
  <2>3. QED
    BY <2>2
<1>6. QED
  BY <1>4, <1>5, FS_Subset

-----------------------------------------------------------------------------
(* A set of numbers that is not empty has a smallest member.               *)
LEMMA SmallestOf ==
  ASSUME NEW T \in SUBSET Nat, T # {}
  PROVE  \E m \in T : \A n \in T : m <= n
<1>1. \E m \in T : \A n \in T : ~(<<n, m>> \in OpToRel(<, Nat))
  BY NatLessThanWellFounded, WFMin
<1>2. PICK m \in T : \A n \in T : ~(<<n, m>> \in OpToRel(<, Nat))
  BY <1>1
<1>3. \A n \in T : ~(n < m)
  BY <1>2 DEF OpToRel
<1>4. QED
  BY <1>3

(* Any two cursors compare, and the order is transitive.                   *)
LEMMA NotBehindOrder ==
  ASSUME NEW a \in Cursor, NEW b \in Cursor, NEW c \in Cursor
  PROVE  /\ NotBehind(a, a) /\ (NotBehind(a, b) \/ NotBehind(b, a))
         /\ NotBehind(a, b) /\ NotBehind(b, c) => NotBehind(a, c)
<1>1. {a.lastDate, b.lastDate, c.lastDate, a.lastFile, b.lastFile, c.lastFile} \subseteq Nat
  BY DEF Cursor
<1>2. QED
  BY <1>1 DEF NotBehind

(* Of finitely many cursors one is the furthest on: where there is none in *)
(* a set with as few as possible, take one out.                            *)
LEMMA FurthestExists ==
  ASSUME NEW F \in SUBSET Cursor, IsFiniteSet(F), F # {}
  PROVE  \E c \in F : \A other \in F : NotBehind(c, other)
<1> DEFINE Top(T) == \E c \in T : \A other \in T : NotBehind(c, other)
           Sizes  == {n \in Nat : \E T \in SUBSET F : T # {} /\ Cardinality(T) = n /\ ~Top(T)}
<1>1. ASSUME Sizes # {} PROVE FALSE
  <2>1. PICK n \in Sizes : \A m \in Sizes : n <= m
    <3>1. Sizes \in SUBSET Nat
      OBVIOUS
    <3> HIDE DEF Sizes
    <3>2. QED
      BY <1>1, <3>1, SmallestOf
  <2>2. PICK T \in SUBSET F : T # {} /\ Cardinality(T) = n /\ ~Top(T)
    OBVIOUS
  <2>3. PICK x \in T : TRUE
    BY <2>2
  <2>4. IsFiniteSet(T) /\ IsFiniteSet(T \ {x}) /\ Cardinality(T \ {x}) = n - 1
    <3>1. IsFiniteSet(T)
      BY FS_Subset
    <3>2. QED
      BY <3>1, <2>2, FS_RemoveElement
  <2>5. Cardinality(T \ {x}) \in Nat
    BY <2>4, FS_CardinalityType
  <2>6. n - 1 \notin Sizes
    BY <2>1
  <2>7. T \ {x} = {} \/ Top(T \ {x})
    BY <2>4, <2>5, <2>6
  <2>8. NotBehind(x, x)
    BY NotBehindOrder
  <2>9. CASE T \ {x} = {}
    <3>1. \A other \in T : other = x
      BY <2>9
    <3>2. QED
      BY <3>1, <2>8, <2>2
  <2>10. CASE Top(T \ {x})
    <3>1. PICK c \in T \ {x} : \A other \in T \ {x} : NotBehind(c, other)
      BY <2>10
    <3>2. CASE NotBehind(c, x)
      BY <3>1, <3>2, <2>2
    <3>3. CASE NotBehind(x, c)
      <4>1. \A other \in T \ {x} : NotBehind(x, other)
        BY <3>1, <3>3, NotBehindOrder
      <4>2. QED
        BY <4>1, <2>8, <2>2
    <3>4. QED
      BY <3>2, <3>3, NotBehindOrder
  <2>11. QED
    BY <2>7, <2>9, <2>10
<1>2. QED
  <2>1. Cardinality(F) \in Nat
    BY FS_CardinalityType
  <2>2. QED
    BY <1>1, <2>1

(* What the entries of an earlier release give for a stream.               *)
Found(st, s) ==
  {FromLegacy(LegacyPlace(dir), st.legacy[dir]) :
     dir \in {x \in DOMAIN st.legacy : LegacyPlace(x).stream = s}}

(* They are finitely many cursors.                                         *)
LEMMA FoundType ==
  ASSUME layout \in Layouts, NEW st, StateType(st), NEW s
  PROVE  /\ Found(st, s) \subseteq Cursor /\ \A c \in Found(st, s) : c.row <= RowsPerFile
         /\ IsFiniteSet(Found(st, s))
<1>1. ASSUME NEW dir \in DOMAIN st.legacy
      PROVE  /\ FromLegacy(LegacyPlace(dir), st.legacy[dir]) \in Cursor
             /\ FromLegacy(LegacyPlace(dir), st.legacy[dir]).row <= RowsPerFile
  <2>1. st.legacy[dir] \in OldEntry /\ dir \in Dirs
    BY DEF StateType
  <2>2. LegacyPlace(dir).date \in Nat
    BY <2>1, PlaceType
  <2>3. QED
    BY <2>1, <2>2, LayoutType DEF OldEntry, FromLegacy, Cursor
<1> DEFINE D == {x \in DOMAIN st.legacy : LegacyPlace(x).stream = s}
           f == [dir \in D |-> FromLegacy(LegacyPlace(dir), st.legacy[dir])]
<1>2. IsFiniteSet(D)
  <2>1. D \in SUBSET Dirs
    BY DEF StateType
  <2>2. QED
    BY <2>1, DirsFinite, FS_Subset
<1>3. IsFiniteSet({f[dir] : dir \in D})
  <2> HIDE DEF f, D
  <2>1. QED
    BY <1>2, ValuesFinite
<1>4. {f[dir] : dir \in D} = Found(st, s)
  BY DEF Found
<1>5. QED
  BY <1>1, <1>3, <1>4 DEF Found

(* Migration keeps the types, and a state of this release as it is.        *)
LEMMA MigratedType ==
  ASSUME layout \in Layouts, NEW st, StateType(st)
  PROVE  /\ Migrated(st) \in [Streams -> Cursor]
         /\ \A s \in Streams : Migrated(st)[s].row <= RowsPerFile
         /\ st.legacy = NoLegacy => Migrated(st) = st.cursors
<1> DEFINE Best(F) == CHOOSE c \in F : \A other \in F : NotBehind(c, other)
           M(s) == IF Found(st, s) # {} /\ NotBehind(Best(Found(st, s)), st.cursors[s])
                   THEN Best(Found(st, s)) ELSE st.cursors[s]
<1>1. Migrated(st) = [s \in Streams |-> M(s)]
  BY DEF Migrated, Found
<1>2. ASSUME NEW s \in Streams
      PROVE  M(s) \in Cursor /\ M(s).row <= RowsPerFile
  <2>1. st.cursors[s] \in Cursor /\ st.cursors[s].row <= RowsPerFile
    BY DEF StateType
  <2>2. Found(st, s) \subseteq Cursor /\ \A c \in Found(st, s) : c.row <= RowsPerFile
    BY FoundType
  <2>3. Found(st, s) # {} => Best(Found(st, s)) \in Found(st, s)
    BY FoundType, FurthestExists
  <2>4. QED
    BY <2>1, <2>2, <2>3
<1>3. ASSUME st.legacy = NoLegacy PROVE Migrated(st) = st.cursors
  <2>1. \A s \in Streams : Found(st, s) = {}
    BY <1>3 DEF Found, NoLegacy
  <2>2. \A s \in Streams : M(s) = st.cursors[s]
    BY <2>1
  <2>3. QED
    BY <1>1, <2>2 DEF StateType
<1>4. QED
  BY <1>1, <1>2, <1>3

-----------------------------------------------------------------------------
(* Division, as entries of the earlier release use it.                     *)
LEMMA Division ==
  ASSUME NEW n \in Nat, NEW R \in Nat \ {0}
  PROVE  /\ n \div R \in Nat /\ n % R \in 0 .. R - 1
         /\ n = R * (n \div R) + (n % R)
OBVIOUS

(* An entry of the earlier release is one.                                 *)
LEMMA LegacyEntryType ==
  ASSUME layout \in Layouts, NEW rows \in Nat
  PROVE  LegacyEntry(rows) \in OldEntry
<1>1. rows \div RowsPerFile \in Nat /\ rows % RowsPerFile \in 0 .. RowsPerFile - 1
  BY LayoutType, Division
<1>2. (rows + RowsPerFile - 1) \div RowsPerFile \in Nat
  <2>1. rows + RowsPerFile - 1 \in Nat
    BY LayoutType
  <2>2. QED
    BY <2>1, LayoutType, Division
<1>3. QED
  BY <1>1, <1>2 DEF LegacyEntry, OldEntry

(* The types hold at the start.                                            *)
LEMMA TypeInit ==
  ASSUME Init
  PROVE  TypeInv
<1>1. layout \in Layouts /\ day \in 1 .. MaxDay
  <2>1. layout \in Layouts
    BY DEF Init
  <2>2. QED
    BY <2>1, LayoutType DEF Init
<1>2. index \in [Dirs -> 0 .. MaxFiles]
  <2>1. index \in [Dirs -> IF layout.legacy THEN 0 .. MaxFiles ELSE {0}]
    BY DEF Init
  <2>2. (IF layout.legacy THEN 0 .. MaxFiles ELSE {0}) \subseteq 0 .. MaxFiles
    BY <1>1, LayoutType
  <2>3. QED
    BY <2>1, <2>2
<1>3. PICK upto \in [Dirs -> IF layout.legacy THEN 0 .. MaxFiles * RowsPerFile ELSE {0}] :
        /\ read = UNION {RowsUpTo(dir, upto[dir]) : dir \in Dirs}
        /\ saved = [cursors |-> [s \in Streams |-> NoCursor],
                    legacy |-> [dir \in {x \in Dirs : upto[x] > 0} |-> LegacyEntry(upto[dir])]]
  BY DEF Init
<1>4. \A dir \in Dirs : upto[dir] \in Nat
  OBVIOUS
<1>5. NoCursor \in Cursor /\ NoCursor.row <= RowsPerFile
  BY <1>1, LayoutType DEF NoCursor, Cursor
<1>6. StateType(saved)
  <2>1. saved.legacy = [dir \in {x \in Dirs : upto[x] > 0} |-> LegacyEntry(upto[dir])]
    BY <1>3
  <2>2. \A dir \in {x \in Dirs : upto[x] > 0} : LegacyEntry(upto[dir]) \in OldEntry
    BY <1>1, <1>4, LegacyEntryType
  <2>3. saved.legacy \in [DOMAIN saved.legacy -> OldEntry] /\ DOMAIN saved.legacy \subseteq Dirs
    BY <2>1, <2>2
  <2>4. saved.cursors = [s \in Streams |-> NoCursor]
    BY <1>3
  <2>5. QED
    BY <2>3, <2>4, <1>5 DEF StateType
<1>7. mem \in [Streams -> Cursor] /\ \A s \in Streams : mem[s].row <= RowsPerFile
  <2>1. mem = saved.cursors
    BY DEF Init
  <2>2. QED
    BY <2>1, <1>6 DEF StateType
<1>8. read \subseteq AllRows /\ acked \subseteq read
  <2>1. \A dir \in Dirs : RowsUpTo(dir, upto[dir]) \subseteq AllRows
    BY DEF RowsUpTo, AllRows
  <2>2. QED
    BY <1>3, <2>1 DEF Init
<1>9. exposed \in [Dirs -> 0 .. MaxFiles]
  BY <1>1, LayoutType DEF Init
<1>10. pc = "idle" /\ todo = {}
  BY DEF Init
<1>11. QED
  BY <1>1, <1>2, <1>6, <1>7, <1>8, <1>9, <1>10 DEF TypeInv, TypeOk, StateType

(* The first file to read of a range is a number, and the first row one of *)
(* its rows.                                                               *)
LEMMA StartType ==
  ASSUME TypeInv, NEW it \in todo
  PROVE  /\ mem[it.stream] \in Cursor /\ it \in Item
         /\ StartFile(it) \in Nat \ {0}
         /\ StartRow(mem[it.stream], StartFile(it)) \in 0 .. RowsPerFile
<1>1. it \in Item
  BY DEF TypeInv
<1>2. it.stream \in Streams /\ it.date \in Nat
  BY <1>1 DEF Item
<1>3. mem[it.stream] \in Cursor /\ mem[it.stream].row <= RowsPerFile
  BY <1>2 DEF TypeInv, TypeOk
<1>4. layout \in Layouts
  BY DEF TypeInv, TypeOk
<1>5. QED
  BY <1>1, <1>2, <1>3, <1>4, LayoutType DEF StartFile, StartRow, Cursor

(* What the scan discovers are ranges.                                     *)
LEMMA DiscoveredType ==
  ASSUME TypeInv, NEW cursors
  PROVE  Discovered(cursors) \subseteq Item
<1>1. ASSUME NEW x \in Dirs, index[x] > 0
      PROVE  FileRange(x) \in Item
  <2>1. Parsed(x).stream \in Streams /\ Parsed(x).date \in Nat
    BY PlaceType DEF TypeInv, TypeOk
  <2>2. index[x] \in 1 .. MaxFiles
    <3>1. index[x] \in 0 .. MaxFiles
      BY DEF TypeInv, TypeOk
    <3>2. QED
      BY <3>1, <1>1
  <2>3. QED
    BY <2>1, <2>2 DEF FileRange, Item
<1>2. QED
  BY <1>1 DEF Discovered

(* What a run leaves behind.                                               *)
LEMMA RunOverType ==
  ASSUME TypeInv, RunOver, StateType(saved)', acked' \subseteq read', read' \subseteq AllRows
  PROVE  TypeInv'
<1>1. layout' = layout /\ day' = day /\ index' = index /\ Dirs' = Dirs /\ Streams' = Streams
  BY DEF RunOver, Dirs, Streams
<1>2. mem' = saved'.cursors /\ pc' = "idle" /\ todo' = {} /\ exposed' = [dir \in Dirs |-> 0]
  BY DEF RunOver
<1>3. mem' \in [Streams' -> Cursor] /\ \A s \in Streams' : mem'[s].row <= RowsPerFile
  BY <1>2 DEF StateType
<1>4. exposed' \in [Dirs -> 0 .. MaxFiles]
  BY <1>2, LayoutType DEF TypeInv, TypeOk
<1>5. read' \subseteq AllRows'
  BY <1>1 DEF AllRows
<1>6. QED
  BY <1>1, <1>2, <1>3, <1>4, <1>5 DEF TypeInv, TypeOk, StateType

(* The sets that depend on the layout alone stay the same.                 *)
LEMMA SameLayout ==
  ASSUME [Next]_vars
  PROVE  /\ layout' = layout /\ Dirs' = Dirs /\ Streams' = Streams
         /\ Item' = Item /\ AllRows' = AllRows
<1>1. layout' = layout
  BY DEF Next, WriteFile, NextDay, StartRun, SkipReadRange, OpenRange, ReadRow, FinishFile,
         StopAtCheckpoint, FinishRun, Crash, RunOver, vars
<1>2. Dirs' = Dirs /\ Streams' = Streams
  BY <1>1 DEF Dirs, Streams
<1>3. QED
  BY <1>1, <1>2 DEF Item, AllRows

(* What Save leaves in the state.                                          *)
LEMMA SaveType ==
  ASSUME NEW cursors \in [Streams -> Cursor], \A s \in Streams : cursors[s].row <= RowsPerFile,
         Save(cursors), Streams' = Streams, Dirs' = Dirs
  PROVE  StateType(saved)' /\ saved'.cursors = cursors /\ saved'.legacy = NoLegacy
<1>1. saved' = [cursors |-> cursors, legacy |-> NoLegacy]
  BY DEF Save
<1>2. DOMAIN NoLegacy = {} /\ NoLegacy \in [{} -> OldEntry]
  BY DEF NoLegacy
<1>3. QED
  BY <1>1, <1>2 DEF StateType, OldEntry

(* The fields of the file being read.                                      *)
LEMMA AtType ==
  ASSUME TypeInv, pc = "read"
  PROVE  /\ at \in [dir : Dirs, stream : Streams, date : Nat, latest : 1 .. MaxFiles,
                    file : 1 .. MaxFiles, row : 0 .. RowsPerFile]
         /\ at.dir \in Dirs /\ at.stream \in Streams /\ at.date \in Nat
         /\ at.latest \in 1 .. MaxFiles /\ at.file \in 1 .. MaxFiles
         /\ at.row \in 0 .. RowsPerFile /\ at.file <= at.latest
         /\ mem[at.stream] \in Cursor /\ layout \in Layouts
         /\ RowsPerFile \in Nat \ {0} /\ MaxFiles \in Nat \ {0}
<1>1. /\ at \in [dir : Dirs, stream : Streams, date : Nat, latest : 1 .. MaxFiles,
                 file : 1 .. MaxFiles, row : 0 .. RowsPerFile]
      /\ at.file <= at.latest
  BY DEF TypeInv
<1>2. mem \in [Streams -> Cursor] /\ layout \in Layouts
  BY DEF TypeInv, TypeOk
<1>3. QED
  BY <1>1, <1>2, LayoutType

(* A run that starts has the types.                                        *)
LEMMA TypeStart ==
  ASSUME TypeInv, StartRun, [Next]_vars
  PROVE  TypeInv'
<1>1. UNCHANGED <<layout, day, index, saved, read, acked, at>> /\ mem' = Migrated(saved)
      /\ exposed' = index /\ pc' = "work" /\ todo' = Discovered(mem')
  BY DEF StartRun
<1>2. /\ Migrated(saved) \in [Streams -> Cursor]
      /\ \A s \in Streams : Migrated(saved)[s].row <= RowsPerFile
  BY MigratedType DEF TypeInv, TypeOk
<1>3. Discovered(mem') \subseteq Item
  BY DiscoveredType
<1>4. StateType(saved)'
  BY <1>1, SameLayout DEF TypeInv, StateType
<1>5. \A it \in Item : it.dir \in Dirs /\ it.latest \in 1 .. MaxFiles
  BY DEF Item
<1>6. TypeOk'
  <2>1. layout' \in Layouts /\ day' \in 1 .. MaxDay /\ index' \in [Dirs -> 0 .. MaxFiles]
        /\ exposed' \in [Dirs -> 0 .. MaxFiles] /\ acked' \subseteq read' /\ read' \subseteq AllRows
        /\ saved'.cursors \in [Streams -> Cursor] /\ DOMAIN saved'.legacy \subseteq Dirs
    BY <1>1 DEF TypeInv, TypeOk
  <2>2. QED
    BY <2>1, <1>1, <1>2, <1>3, <1>5, SameLayout DEF TypeOk
<1>7. QED
  BY <1>1, <1>2, <1>3, <1>4, <1>6, SameLayout DEF TypeInv

(* So has one that opens a range.                                          *)
LEMMA TypeOpen ==
  ASSUME TypeInv, NEW it \in todo, OpenRange(it), [Next]_vars
  PROVE  TypeInv'
<1> DEFINE c == mem[it.stream]
           f == StartFile(it)
<1>1. c \in Cursor /\ it \in Item /\ f \in Nat \ {0} /\ StartRow(c, f) \in 0 .. RowsPerFile
  BY StartType
<1>2. /\ f <= it.latest /\ pc' = "read" /\ todo' = todo \ {it}
      /\ at' = [dir |-> it.dir, stream |-> it.stream, date |-> it.date, latest |-> it.latest,
                file |-> f, row |-> StartRow(c, f)]
      /\ mem' = [mem EXCEPT ![it.stream] = [c EXCEPT !.curDate = it.date, !.curFile = f]]
      /\ UNCHANGED <<layout, day, index, saved, read, acked, exposed>>
  BY DEF OpenRange
<1> HIDE DEF f, c
<1>3. /\ it.dir \in Dirs /\ it.stream \in Streams /\ it.date \in Nat
      /\ it.latest \in 1 .. MaxFiles
  BY <1>1 DEF Item
<1>4. f \in 1 .. MaxFiles
  <2>1. MaxFiles \in Nat
    BY LayoutType DEF TypeInv, TypeOk
  <2>2. QED
    BY <1>1, <1>2, <1>3, <2>1
<1>5. at' \in [dir : Dirs, stream : Streams, date : Nat, latest : 1 .. MaxFiles,
               file : 1 .. MaxFiles, row : 0 .. RowsPerFile] /\ at'.file <= at'.latest
  BY <1>1, <1>2, <1>3, <1>4
<1>6. /\ [c EXCEPT !.curDate = it.date, !.curFile = f] \in Cursor
      /\ [c EXCEPT !.curDate = it.date, !.curFile = f].row = c.row
  BY <1>1, <1>3, <1>4 DEF Cursor
<1>7. mem' \in [Streams -> Cursor] /\ \A s \in Streams : mem'[s].row <= RowsPerFile
  <2>1. mem \in [Streams -> Cursor] /\ \A s \in Streams : mem[s].row <= RowsPerFile
    BY DEF TypeInv, TypeOk
  <2>2. c.row <= RowsPerFile
    BY <2>1, <1>3 DEF c
  <2>3. QED
    BY <1>2, <1>3, <1>6, <2>1, <2>2
<1>8. StateType(saved)'
  BY <1>2, SameLayout DEF TypeInv, StateType
<1>9. at'.dir \in Dirs /\ at'.row \in 0 .. RowsPerFile
  BY <1>5
<1>10. TypeOk'
  BY <1>2, <1>5, <1>7, <1>9, SameLayout DEF TypeInv, TypeOk, NextRow
<1>11. QED
  BY <1>2, <1>5, <1>7, <1>8, <1>10, SameLayout DEF TypeInv

(* So has one that reads a row.                                            *)
LEMMA TypeRead ==
  ASSUME TypeInv, ReadRow, [Next]_vars
  PROVE  TypeInv'
<1>1. pc = "read" /\ at.row < RowsPerFile
  BY DEF ReadRow
<1>2. /\ read' = read \cup {NextRow}
      /\ mem' = [mem EXCEPT ![at.stream] = [@ EXCEPT !.row = at.row + 1]]
      /\ at' = [at EXCEPT !.row = @ + 1]
      /\ UNCHANGED <<layout, day, index, pc, todo, exposed>>
  BY DEF ReadRow
<1>3. (Save(mem') /\ acked' = read') \/ UNCHANGED <<saved, acked>>
  BY DEF ReadRow
<1>4. at.row + 1 \in 0 .. RowsPerFile /\ at.row + 1 \in 1 .. RowsPerFile
  BY <1>1, AtType
<1>5. /\ [mem[at.stream] EXCEPT !.row = at.row + 1] \in Cursor
      /\ [mem[at.stream] EXCEPT !.row = at.row + 1].row = at.row + 1
  BY <1>1, <1>4, AtType DEF Cursor
<1>6. mem' \in [Streams -> Cursor] /\ \A s \in Streams : mem'[s].row <= RowsPerFile
  <2>1. mem \in [Streams -> Cursor] /\ \A s \in Streams : mem[s].row <= RowsPerFile
    BY DEF TypeInv, TypeOk
  <2>2. mem' = [mem EXCEPT ![at.stream] = [mem[at.stream] EXCEPT !.row = at.row + 1]]
    BY <1>2, <2>1
  <2>3. \A s \in Streams : mem'[s] = IF s = at.stream THEN [mem[at.stream] EXCEPT !.row = at.row + 1]
                                     ELSE mem[s]
    BY <2>1, <2>2
  <2>4. at.row + 1 <= RowsPerFile
    BY <1>4
  <2>5. mem' \in [Streams -> Cursor]
    BY <1>5, <2>1, <2>2
  <2>6. QED
    BY <1>5, <2>1, <2>3, <2>4, <2>5
<1>7. at' \in [dir : Dirs, stream : Streams, date : Nat, latest : 1 .. MaxFiles,
               file : 1 .. MaxFiles, row : 0 .. RowsPerFile] /\ at'.file <= at'.latest
  BY <1>1, <1>2, <1>4, AtType
<1>8. NextRow \in AllRows
  BY <1>1, <1>4, AtType DEF NextRow, AllRows
<1>9. StateType(saved)' /\ acked' \subseteq read'
  <2>1. CASE Save(mem') /\ acked' = read'
    BY <2>1, <1>6, SaveType, SameLayout
  <2>2. CASE UNCHANGED <<saved, acked>>
    BY <2>2, <1>2, SameLayout DEF TypeInv, TypeOk, StateType
  <2>3. QED
    BY <1>3, <2>1, <2>2
<1>10. at'.dir \in Dirs /\ at'.row \in 0 .. RowsPerFile
  BY <1>7
<1>11. TypeOk'
  <2>1. day' \in 1 .. MaxDay /\ index' \in [Dirs -> 0 .. MaxFiles] /\ layout' \in Layouts
        /\ exposed' \in [Dirs -> 0 .. MaxFiles] /\ pc' = "read" /\ read' \subseteq AllRows
        /\ \A it \in todo' : it.dir \in Dirs /\ it.latest \in 1 .. MaxFiles
    BY <1>1, <1>2, <1>8 DEF TypeInv, TypeOk
  <2>2. (pc = "read" => NextRow[1] \in Dirs /\ at.file <= at.latest /\ at.row <= RowsPerFile)'
    <3>1. at'.row <= RowsPerFile /\ at'.file <= at'.latest
      BY <1>7, <1>10
    <3>2. QED
      BY <3>1, <1>10, SameLayout DEF NextRow
  <2>3. saved'.cursors \in [Streams -> Cursor] /\ DOMAIN saved'.legacy \subseteq Dirs
    BY <1>9, SameLayout DEF StateType
  <2>4. QED
    BY <2>1, <2>2, <2>3, <1>6, <1>9, SameLayout DEF TypeOk
<1>12. QED
  BY <1>1, <1>2, <1>6, <1>7, <1>9, <1>11, SameLayout DEF TypeInv

(* So has one that comes to the end of a file.                             *)
LEMMA TypeFinish ==
  ASSUME TypeInv, FinishFile, [Next]_vars
  PROVE  TypeInv'
<1> DEFINE done == [lastDate |-> at.date, lastFile |-> at.file, curDate |-> 0,
                    curFile |-> at.file, row |-> 0]
           more == at.file < at.latest
           next == [done EXCEPT !.curDate = at.date, !.curFile = at.file + 1]
<1>1. /\ pc = "read" /\ at.row = RowsPerFile /\ acked' = read
      /\ Save([mem EXCEPT ![at.stream] = done])
      /\ mem' = [mem EXCEPT ![at.stream] = IF more THEN next ELSE done]
      /\ at' = (IF more THEN [at EXCEPT !.file = @ + 1, !.row = 0] ELSE Nowhere)
      /\ pc' = (IF more THEN "read" ELSE "work")
      /\ UNCHANGED <<layout, day, index, read, todo, exposed>>
  BY DEF FinishFile
<1>2. done \in Cursor /\ done.row = 0 /\ next \in Cursor /\ next.row = 0
  <2>1. at.date \in Nat /\ at.file \in Nat
    BY <1>1, AtType
  <2>2. done \in Cursor /\ done.row = 0
    BY <2>1 DEF Cursor
  <2>3. next \in Cursor /\ next.row = 0
    <3> HIDE DEF done
    <3>1. PICK d \in Nat, f \in Nat : d = at.date /\ f = at.file + 1
      BY <2>1
    <3>2. next = [done EXCEPT !.curDate = d, !.curFile = f]
      BY <3>1
    <3> HIDE DEF next
    <3>3. done \in Cursor
      BY <2>2
    <3>4. next \in Cursor
      BY <3>2, <3>3 DEF Cursor
    <3>5. next.row = done.row
      BY <3>2, <3>3 DEF Cursor
    <3>6. QED
      BY <2>2, <3>4, <3>5
  <2>4. QED
    BY <2>2, <2>3
<1>3. mem \in [Streams -> Cursor] /\ \A s \in Streams : mem[s].row <= RowsPerFile
  BY DEF TypeInv, TypeOk
<1>4. ASSUME NEW c \in Cursor, c.row = 0
      PROVE  /\ [mem EXCEPT ![at.stream] = c] \in [Streams -> Cursor]
             /\ \A s \in Streams : [mem EXCEPT ![at.stream] = c][s].row <= RowsPerFile
  <2>1. 0 <= RowsPerFile
    BY <1>1, AtType
  <2>2. QED
    BY <1>3, <1>4, <2>1
<1> HIDE DEF done, next
<1>5. mem' \in [Streams -> Cursor] /\ \A s \in Streams : mem'[s].row <= RowsPerFile
  BY <1>1, <1>2, <1>4
<1>6. StateType(saved)'
  <2>1. /\ [mem EXCEPT ![at.stream] = done] \in [Streams -> Cursor]
        /\ \A s \in Streams : [mem EXCEPT ![at.stream] = done][s].row <= RowsPerFile
    BY <1>2, <1>4
  <2>2. QED
    BY <2>1, <1>1, SaveType, SameLayout
<1>7. more =>
        /\ at' \in [dir : Dirs, stream : Streams, date : Nat, latest : 1 .. MaxFiles,
                    file : 1 .. MaxFiles, row : 0 .. RowsPerFile]
        /\ at'.file <= at'.latest /\ at'.dir \in Dirs /\ at'.row <= RowsPerFile
  <2> SUFFICES ASSUME more
               PROVE  /\ at' \in [dir : Dirs, stream : Streams, date : Nat, latest : 1 .. MaxFiles,
                                  file : 1 .. MaxFiles, row : 0 .. RowsPerFile]
                      /\ at'.file <= at'.latest /\ at'.dir \in Dirs /\ at'.row <= RowsPerFile
    OBVIOUS
  <2>1. at.file + 1 \in 1 .. MaxFiles /\ at.file + 1 <= at.latest /\ 0 \in 0 .. RowsPerFile
    BY <1>1, AtType
  <2>2. at' = [at EXCEPT !.file = at.file + 1, !.row = 0]
    BY <1>1, AtType
  <2>3. at' \in [dir : Dirs, stream : Streams, date : Nat, latest : 1 .. MaxFiles,
                 file : 1 .. MaxFiles, row : 0 .. RowsPerFile]
    BY <1>1, <2>1, <2>2, AtType
  <2>4. at'.file = at.file + 1 /\ at'.latest = at.latest
    BY <1>1, <2>2, AtType
  <2>5. at'.dir \in Dirs /\ at'.row \in 0 .. RowsPerFile
    BY <2>3
  <2>6. at'.row <= RowsPerFile
    BY <2>5
  <2>7. QED
    BY <2>1, <2>3, <2>4, <2>5, <2>6
<1>8. pc' \in {"read", "work"} /\ (pc' = "read" => more)
  BY <1>1
<1>9. TypeOk'
  <2>1. layout' \in Layouts /\ day' \in 1 .. MaxDay /\ index' \in [Dirs -> 0 .. MaxFiles]
        /\ exposed' \in [Dirs -> 0 .. MaxFiles] /\ acked' \subseteq read' /\ read' \subseteq AllRows
        /\ \A it \in todo' : it.dir \in Dirs /\ it.latest \in 1 .. MaxFiles
    BY <1>1 DEF TypeInv, TypeOk
  <2>2. saved'.cursors \in [Streams -> Cursor] /\ DOMAIN saved'.legacy \subseteq Dirs
    BY <1>6, SameLayout DEF StateType
  <2>3. (pc = "read" => NextRow[1] \in Dirs /\ at.file <= at.latest /\ at.row <= RowsPerFile)'
    BY <1>7, <1>8, SameLayout DEF NextRow
  <2>4. QED
    BY <2>1, <2>2, <2>3, <1>5, <1>8, SameLayout DEF TypeOk
<1>10. QED
  BY <1>1, <1>5, <1>6, <1>7, <1>8, <1>9, SameLayout DEF TypeInv

(* And what a run that stops leaves.                                       *)
LEMMA TypeStop ==
  ASSUME TypeInv, StopAtCheckpoint \/ FinishRun \/ Crash, [Next]_vars
  PROVE  TypeInv'
<1>1. RunOver
  BY DEF StopAtCheckpoint, FinishRun, Crash
<1>2. acked \subseteq read /\ read \subseteq AllRows /\ StateType(saved)
  BY DEF TypeInv, TypeOk
<1>3. mem \in [Streams -> Cursor] /\ \A s \in Streams : mem[s].row <= RowsPerFile
  BY DEF TypeInv, TypeOk
<1>4. CASE Crash
  <2>1. read' = acked /\ UNCHANGED <<saved, acked>>
    BY <1>4 DEF Crash
  <2>2. StateType(saved)'
    BY <2>1, <1>2, SameLayout DEF StateType
  <2>3. QED
    BY <1>1, <1>2, <2>1, <2>2, RunOverType
<1>5. CASE FinishRun
  <2>1. read' = read /\ acked' = read /\ (Save(mem) \/ saved' = saved)
    BY <1>5 DEF FinishRun
  <2>2. Save(mem) => StateType(saved)'
    BY <1>3, SaveType, SameLayout
  <2>3. saved' = saved => StateType(saved)'
    BY <1>2, SameLayout DEF StateType
  <2>4. QED
    BY <1>1, <1>2, <2>1, <2>2, <2>3, RunOverType
<1>6. CASE StopAtCheckpoint
  <2> DEFINE c == [mem[at.stream] EXCEPT !.curDate = at.date, !.curFile = at.file, !.row = at.row]
  <2>1. pc = "read" /\ read' = read /\ acked' = read /\ Save([mem EXCEPT ![at.stream] = c])
    BY <1>6, <1>3 DEF StopAtCheckpoint
  <2>2. c \in Cursor /\ c.row <= RowsPerFile
    <3>1. at.date \in Nat /\ at.file \in Nat /\ at.row \in Nat /\ at.row <= RowsPerFile
          /\ mem[at.stream] \in Cursor
      BY <2>1, AtType
    <3>2. QED
      BY <3>1 DEF Cursor
  <2> HIDE DEF c
  <2>3. /\ [mem EXCEPT ![at.stream] = c] \in [Streams -> Cursor]
        /\ \A s \in Streams : [mem EXCEPT ![at.stream] = c][s].row <= RowsPerFile
    BY <1>3, <2>2
  <2>4. StateType(saved)'
    BY <2>1, <2>3, SaveType, SameLayout
  <2>5. QED
    BY <1>1, <1>2, <2>1, <2>4, RunOverType
<1>7. QED
  BY <1>4, <1>5, <1>6

(* Every step keeps the types.                                             *)
LEMMA TypeNext ==
  ASSUME TypeInv, [Next]_vars
  PROVE  TypeInv'
<1>1. CASE UNCHANGED vars
  BY <1>1, SameLayout DEF TypeInv, TypeOk, StateType, NextRow, vars, runVars
<1>2. ASSUME NEW dir \in Dirs, WriteFile(dir) PROVE TypeInv'
  <2>1. index' = [index EXCEPT ![dir] = index[dir] + 1] /\ index[dir] < MaxFiles
        /\ UNCHANGED <<layout, day, saved, read, acked, runVars>>
    BY <1>2 DEF WriteFile, TypeInv, TypeOk
  <2>2. index' \in [Dirs -> 0 .. MaxFiles]
    <3>1. index \in [Dirs -> 0 .. MaxFiles] /\ MaxFiles \in Nat
      BY LayoutType DEF TypeInv, TypeOk
    <3>2. index[dir] + 1 \in 0 .. MaxFiles
      BY <2>1, <3>1
    <3>3. QED
      BY <2>1, <3>1, <3>2
  <2>3. TypeOk'
    BY <2>1, <2>2, SameLayout DEF TypeInv, TypeOk, NextRow, runVars
  <2>4. QED
    BY <2>1, <2>3, SameLayout DEF TypeInv, StateType, runVars
<1>3. CASE NextDay
  <2>1. day' = day + 1 /\ day < MaxDay /\ UNCHANGED <<layout, index, saved, read, acked, runVars>>
    BY <1>3 DEF NextDay
  <2>2. day' \in 1 .. MaxDay
    BY <2>1, LayoutType DEF TypeInv, TypeOk
  <2>3. TypeOk'
    BY <2>1, <2>2, SameLayout DEF TypeInv, TypeOk, NextRow, runVars
  <2>4. QED
    BY <2>1, <2>3, SameLayout DEF TypeInv, StateType, runVars
<1>4. ASSUME NEW it \in todo, SkipReadRange(it) PROVE TypeInv'
  <2>1. pc' = "work" /\ todo' = todo \ {it}
        /\ UNCHANGED <<layout, day, index, saved, read, acked, mem, at, exposed>>
    BY <1>4 DEF SkipReadRange
  <2>2. TypeOk'
    BY <2>1, SameLayout DEF TypeInv, TypeOk
  <2>3. QED
    BY <2>1, <2>2, SameLayout DEF TypeInv, StateType
<1>5. QED
  BY <1>1, <1>2, <1>3, <1>4, TypeStart, TypeOpen, TypeRead, TypeFinish, TypeStop DEF Next

(* Nothing leaves its type: the reader only ever looks at directories and  *)
(* files that exist, in every layout.                                      *)
THEOREM ScanTypeOk == Spec => []TypeOk
<1>1. Init => TypeInv
  BY TypeInit
<1>2. TypeInv /\ [Next]_vars => TypeInv'
  BY TypeNext
<1>3. TypeInv => TypeOk
  BY DEF TypeInv
<1>4. QED
  BY <1>1, <1>2, <1>3, PTL DEF Spec

-----------------------------------------------------------------------------
(* Where names tell dates from partitions, each directory belongs to the   *)
(* stream and date it is taken for.                                        *)
LEMMA HomeOf ==
  ASSUME layout \in Layouts, ToldApart, NEW x \in Dirs
  PROVE  /\ Parsed(x).date = DateOf(x)
         /\ layout.parts = {} => /\ StreamOf(x) = 0
                                 /\ LegacyPlace(x).stream = 0 /\ LegacyPlace(x).date = DateOf(x)
         /\ layout.parts # {} => /\ layout.sep = "none"
                                 /\ \E p \in layout.parts : /\ x = <<p>> /\ p.form = "id"
                                                            /\ StreamOf(x) = p.n /\ p.n # 0
<1>1. \/ layout.parts = {}
      \/ layout.sep = "none" /\ ~layout.legacy /\ \A p \in layout.parts : p.form = "id"
  BY DEF ToldApart
<1>2. CASE x = <<>>
  <2>1. Parsed(x) = [stream |-> 0, date |-> 0] /\ LegacyPlace(x) = [stream |-> 0, date |-> 0]
    BY <1>2, PlaceOne DEF Parsed, LegacyPlace
  <2>2. layout.parts = {} /\ layout.sep = "none"
    <3>1. \A p, q : <<p>> # <<>> /\ <<p, q>> # <<>>
      OBVIOUS
    <3>2. QED
      BY <1>2, <3>1, DirShape
  <2>3. QED
    BY <2>1, <2>2 DEF StreamOf, DateOf
<1>3. ASSUME layout.parts = {}, layout.sep # "none", NEW d \in 1 .. MaxDay, x = <<DateName(d)>>
      PROVE  /\ Parsed(x).date = DateOf(x) /\ StreamOf(x) = 0
             /\ LegacyPlace(x).stream = 0 /\ LegacyPlace(x).date = DateOf(x)
  <2>1. x # <<>> /\ x[Len(x)] = DateName(d)
    BY <1>3
  <2>2. Parsed(x) = [stream |-> 0, date |-> d] /\ LegacyPlace(x) = [stream |-> 0, date |-> d]
    BY <1>3, <2>1, PlaceOne, DateNameParses DEF Parsed, LegacyPlace
  <2>3. DateOf(x) = d
    BY <1>3, <2>1, DateNameParses DEF DateOf
  <2>4. QED
    BY <2>2, <2>3 DEF StreamOf
<1>4. ASSUME layout.sep = "none", NEW p \in layout.parts, x = <<p>>
      PROVE  /\ Parsed(x).date = DateOf(x) /\ StreamOf(x) = p.n /\ p.n # 0 /\ p.form = "id"
  <2>1. x # <<>> /\ x[Len(x)] = p
    BY <1>4
  <2>2. p.form = "id" /\ p.n # 0
    BY <1>1, <1>4, LayoutType DEF Name
  <2>3. ParsesAsDate(p) = FALSE
    BY <2>2 DEF ParsesAsDate
  <2>4. Parsed(x) = [stream |-> p.n, date |-> 0]
    BY <1>4, <2>1, <2>3, PlaceOne DEF Parsed
  <2>5. QED
    BY <1>4, <2>2, <2>4 DEF StreamOf, DateOf
<1>5. QED
  BY <1>1, <1>2, <1>3, <1>4, DirShape

(* A stream has one directory of a date.                                   *)
LEMMA OneDir ==
  ASSUME layout \in Layouts, ToldApart, NEW x \in Dirs, NEW y \in Dirs,
         StreamOf(x) = StreamOf(y), DateOf(x) = DateOf(y)
  PROVE  x = y
<1>1. CASE layout.parts # {}
  <2>1. PICK p \in layout.parts : x = <<p>> /\ p.form = "id" /\ StreamOf(x) = p.n
    BY <1>1, HomeOf
  <2>2. PICK q \in layout.parts : y = <<q>> /\ q.form = "id" /\ StreamOf(y) = q.n
    BY <1>1, HomeOf
  <2>3. p \in Name /\ q \in Name /\ p.n = q.n /\ p.form = q.form
    BY <2>1, <2>2, LayoutType
  <2>4. p = q
    BY <2>3 DEF Name
  <2>5. QED
    BY <2>1, <2>2, <2>4
<1>2. CASE layout.parts = {} /\ layout.sep = "none"
  BY <1>2, ShapeDir
<1>3. CASE layout.parts = {} /\ layout.sep # "none"
  <2>1. \A z \in Dirs : \E d \in 1 .. MaxDay : z = <<DateName(d)>>
    BY <1>3, DirShape
  <2>2. ASSUME NEW d \in 1 .. MaxDay, <<DateName(d)>> \in Dirs
        PROVE  DateOf(<<DateName(d)>>) = d
    <3>1. <<DateName(d)>>[Len(<<DateName(d)>>)] = DateName(d)
      OBVIOUS
    <3>2. QED
      BY <1>3, <3>1, DateNameParses DEF DateOf
  <2>3. PICK d \in 1 .. MaxDay : x = <<DateName(d)>>
    BY <2>1
  <2>4. PICK e \in 1 .. MaxDay : y = <<DateName(e)>>
    BY <2>1
  <2>5. DateOf(x) = d /\ DateOf(y) = e
    BY <2>2, <2>3, <2>4
  <2>6. QED
    BY <2>3, <2>4, <2>5
<1>4. QED
  BY <1>1, <1>2, <1>3

(* Directories belong to streams; to none of them the one that the scan    *)
(* asks about the ids of partitions.                                       *)
LEMMA HomeType ==
  ASSUME layout \in Layouts, ToldApart, NEW x \in Dirs
  PROVE  /\ StreamOf(x) \in Streams /\ x \in StreamDirs(StreamOf(x))
         /\ layout.parts # {} => StreamOf(x) # 0
         /\ layout.parts = {} => StreamOf(x) = 0
BY PlaceType, HomeOf DEF StreamOf, StreamDirs

(* The scan comes to the index of every directory whose date it should     *)
(* scan.                                                                   *)
LEMMA CandidateIf ==
  ASSUME TypeInv, ToldApart, NEW cursors, layout.parts # {} => cursors[0] = NoCursor,
         NEW x \in Dirs, index[x] > 0, ShouldScanDate(cursors, StreamOf(x), DateOf(x))
  PROVE  x \in Candidates(cursors)
<1>1. layout \in Layouts
  BY DEF TypeInv, TypeOk
<1>2. CASE x = <<>>
  BY <1>2 DEF Candidates
<1>3. ASSUME NEW a, x = <<a>>, LooksLikeDate(a), ShouldScanDate(cursors, 0, a.n)
      PROVE  x \in Candidates(cursors)
  <2>1. Len(x) = 1 /\ Len(<<>>) = 0 /\ x[1] = a
    BY <1>3
  <2>2. SubSeq(x, 1, 0) = <<>>
    BY <1>3
  <2>3. a \in Children(<<>>)
    BY <2>1, <2>2 DEF Children
  <2>4. QED
    BY <1>3, <2>3 DEF Candidates
<1>4. CASE layout.parts # {}
  <2>1. PICK p \in layout.parts : x = <<p>> /\ p.form = "id"
    BY <1>1, <1>4, HomeOf
  <2>2. LooksLikeDate(p)
    BY <2>1 DEF LooksLikeDate
  <2>3. ShouldScanDate(cursors, 0, p.n)
    BY <1>4 DEF ShouldScanDate, NoCursor
  <2>4. QED
    BY <1>3, <2>1, <2>2, <2>3
<1>5. CASE layout.parts = {} /\ layout.sep # "none"
  <2>1. PICK d \in 1 .. MaxDay : x = <<DateName(d)>>
    BY <1>1, <1>5, DirShape
  <2>2. <<DateName(d)>>[Len(<<DateName(d)>>)] = DateName(d)
    OBVIOUS
  <2>3. DateOf(x) = DateName(d).n /\ LooksLikeDate(DateName(d))
    BY <1>1, <1>5, <2>1, <2>2, DateNameParses DEF DateOf
  <2>4. StreamOf(x) = 0
    BY <1>1, <1>5, HomeOf
  <2>5. QED
    BY <1>3, <2>1, <2>3, <2>4
<1>6. CASE layout.parts = {} /\ layout.sep = "none"
  BY <1>1, <1>2, <1>6, ShapeDir
<1>7. QED
  BY <1>4, <1>5, <1>6

-----------------------------------------------------------------------------
(* The numbers of a cursor.                                                *)
LEMMA CursorNat ==
  ASSUME NEW c \in Cursor
  PROVE  c.lastDate \in Nat /\ c.lastFile \in Nat /\ c.curDate \in Nat /\ c.curFile \in Nat /\ c.row \in Nat
BY DEF Cursor

(* A row by its directory, file and place.                                 *)
LEMMA RowType ==
  ASSUME TypeInv, NEW x \in AllRows
  PROVE  /\ x[1] \in Dirs /\ x[2] \in Nat \ {0} /\ x[3] \in Nat \ {0} /\ x[3] <= RowsPerFile
         /\ x = <<x[1], x[2], x[3]>>
         /\ DateOf(x[1]) \in Nat /\ index[x[1]] \in Nat /\ exposed[x[1]] \in Nat
<1>1. x[1] \in Dirs /\ x[2] \in 1 .. MaxFiles /\ x[3] \in 1 .. RowsPerFile /\ x = <<x[1], x[2], x[3]>>
  BY DEF AllRows
<1>2. layout \in Layouts /\ index[x[1]] \in 0 .. MaxFiles /\ exposed[x[1]] \in 0 .. MaxFiles
  BY <1>1 DEF TypeInv, TypeOk
<1>3. DateOf(x[1]) \in 0 .. MaxDay
  BY <1>1, <1>2, DateType
<1>4. QED
  BY <1>1, <1>2, <1>3, LayoutType

(* No cursor has a file behind it that is still to be written.             *)
LEMMA NewFileAhead ==
  ASSUME TypeInv, ToldApart, DatesOk, NEW x \in AllRows, DateOf(x[1]) \in {0, day},
         x[2] > index[x[1]], NEW c, CursorOk(c, StreamOf(x[1]))
  PROVE  ~Behind(c, x)
<1> DEFINE d == DateOf(x[1])
<1>1. /\ x[1] \in Dirs /\ x[2] \in Nat \ {0} /\ d \in Nat /\ index[x[1]] \in Nat
      /\ layout \in Layouts /\ day \in Nat
  BY RowType DEF TypeInv, TypeOk
<1>2. c \in Cursor /\ c.lastDate <= day /\ (layout.sep = "none" => c.lastDate = 0)
  BY DEF CursorOk
<1>3. /\ c.lastDate \in Nat /\ c.lastFile \in Nat /\ c.curDate \in Nat /\ c.curFile \in Nat
      /\ c.row \in Nat
  BY <1>2, CursorNat
<1>4. x[1] \in StreamDirs(StreamOf(x[1]))
  BY <1>1, HomeType
<1>5. ~(d < c.lastDate)
  <2>1. CASE layout.sep = "none"
    BY <2>1, <1>1, <1>2
  <2>2. CASE layout.sep # "none"
    <3>1. d \in 1 .. MaxDay
      BY <2>2, <1>1, DateType
    <3>2. d = day
      BY <3>1, <1>1
    <3>3. QED
      BY <3>2, <1>1, <1>2, <1>3
  <2>3. QED
    BY <2>1, <2>2
<1>6. ~(d = c.lastDate /\ x[2] <= c.lastFile)
  <2>1. d = c.lastDate => c.lastFile <= index[x[1]]
    BY <1>4 DEF CursorOk
  <2>2. QED
    BY <2>1, <1>1, <1>3
<1>7. ~(c.row > 0 /\ d = c.curDate /\ x[2] = c.curFile)
  <2> SUFFICES ASSUME c.row > 0, d = c.curDate, x[2] = c.curFile
               PROVE  FALSE
    OBVIOUS
  <2>1. PICK y \in StreamDirs(StreamOf(x[1])) : DateOf(y) = c.curDate /\ c.curFile \in 1 .. index[y]
    BY DEF CursorOk, AtNextFile
  <2>2. y = x[1]
    BY <1>1, <2>1, OneDir DEF StreamDirs
  <2>3. QED
    BY <2>1, <2>2, <1>1
<1>8. QED
  BY <1>5, <1>6, <1>7 DEF Behind

(* What writing changes: an index grows, in a directory of no date or of   *)
(* the day, and days pass.                                                 *)
Wrote ==
  /\ layout' = layout /\ day <= day'
  /\ \A x \in Dirs : index[x] <= index'[x] /\ (index'[x] # index[x] => DateOf(x) \in {0, day})

(* Both steps of the other side are of this kind.                          *)
LEMMA WroteStep ==
  ASSUME TypeInv, DatesOk, TypeInv', NextDay \/ \E dir \in Dirs : WriteFile(dir)
  PROVE  /\ Wrote /\ DatesOk' /\ UNCHANGED <<saved, read, acked, mem, pc, todo, at, exposed>>
<1>1. layout \in Layouts /\ day \in Nat /\ \A x \in Dirs : index[x] \in Nat /\ DateOf(x) \in Nat
  BY LayoutType, DateType DEF TypeInv, TypeOk
<1>2. CASE NextDay
  <2>1. day' = day + 1 /\ UNCHANGED <<layout, index, saved, read, acked, runVars>>
    BY <1>2 DEF NextDay
  <2>2. Wrote
    BY <1>1, <2>1 DEF Wrote
  <2>3. DatesOk'
    <3>1. Dirs' = Dirs /\ \A x \in Dirs : DateOf(x)' = DateOf(x)
      BY <2>1 DEF Dirs, DateOf
    <3>2. QED
      BY <1>1, <2>1, <3>1 DEF DatesOk
  <2>4. QED
    BY <2>1, <2>2, <2>3 DEF runVars
<1>3. ASSUME NEW dir \in Dirs, WriteFile(dir)
      PROVE  Wrote /\ DatesOk' /\ UNCHANGED <<saved, read, acked, mem, pc, todo, at, exposed>>
  <2>1. DateOf(dir) \in {0, day} /\ index' = [index EXCEPT ![dir] = index[dir] + 1]
        /\ UNCHANGED <<layout, day, saved, read, acked, runVars>>
    BY <1>3 DEF WriteFile, TypeInv, TypeOk
  <2>2. \A x \in Dirs : index'[x] = IF x = dir THEN index[dir] + 1 ELSE index[x]
    BY <2>1 DEF TypeInv, TypeOk
  <2>3. Wrote
    BY <1>1, <2>1, <2>2 DEF Wrote
  <2>4. DatesOk'
    <3>1. Dirs' = Dirs /\ \A x \in Dirs : DateOf(x)' = DateOf(x)
      BY <2>1 DEF Dirs, DateOf
    <3>2. day >= 1
      BY LayoutType DEF TypeInv, TypeOk
    <3>3. QED
      BY <1>1, <2>1, <2>2, <3>1, <3>2 DEF DatesOk
  <2>5. QED
    BY <2>1, <2>3, <2>4 DEF runVars
<1>4. QED
  BY <1>2, <1>3

(* Operators on the layout alone.                                          *)
LEMMA SameDirs ==
  ASSUME layout' = layout
  PROVE  /\ Dirs' = Dirs /\ AllRows' = AllRows /\ Streams' = Streams
         /\ \A x : DateOf(x)' = DateOf(x)
         /\ \A x : StreamOf(x)' = StreamOf(x)
         /\ \A s : StreamDirs(s)' = StreamDirs(s)
         /\ \A c, x : Behind(c, x)' = Behind(c, x)
<1>1. Dirs' = Dirs /\ \A x : DateOf(x)' = DateOf(x)
  BY DEF Dirs, DateOf
<1>2. \A x : StreamOf(x)' = StreamOf(x)
  BY DEF StreamOf, Parsed, ParsesAsDate
<1>3. \A s : StreamDirs(s)' = StreamDirs(s)
  BY <1>1, <1>2 DEF StreamDirs
<1>4. \A c, x : Behind(c, x)' = Behind(c, x)
  BY <1>1 DEF Behind
<1>5. QED
  BY <1>1, <1>2, <1>3, <1>4 DEF AllRows, Streams

(* Writing leaves a cursor where it is: behind the day nothing is written. *)
LEMMA NextFileWrote ==
  ASSUME TypeInv, TypeInv', DatesOk, Wrote, NEW c, NEW s, c \in Cursor, AtNextFile(c, s)
  PROVE  AtNextFile(c, s)'
<1>1. /\ layout \in Layouts /\ day \in Nat
      /\ \A x \in Dirs : index[x] \in Nat /\ index'[x] \in Nat /\ DateOf(x) \in Nat
      /\ c.curDate \in Nat /\ c.curFile \in Nat
  <2>1. layout \in Layouts /\ day \in 1 .. MaxDay /\ index \in [Dirs -> 0 .. MaxFiles]
    BY DEF TypeInv, TypeOk
  <2>2. index' \in [Dirs -> 0 .. MaxFiles]
    BY SameDirs DEF TypeInv, TypeOk, Wrote
  <2>3. \A x \in Dirs : DateOf(x) \in 0 .. MaxDay
    BY <2>1, DateType
  <2>4. QED
    BY <2>1, <2>2, <2>3, LayoutType, CursorNat
<1>2. /\ Dirs' = Dirs /\ \A x : DateOf(x)' = DateOf(x)
      /\ StreamDirs(s)' = StreamDirs(s) /\ StreamDirs(s) \subseteq Dirs
  BY SameDirs DEF Wrote, StreamDirs
<1>3. PICK x \in StreamDirs(s) : DateOf(x) = c.curDate /\ c.curFile \in 1 .. index[x]
  BY DEF AtNextFile
<1>4. c.curDate <= day
  <2>1. index[x] > 0
    BY <1>1, <1>2, <1>3
  <2>2. QED
    BY <2>1, <1>2, <1>3 DEF DatesOk
<1>5. c.curFile \in 1 .. index'[x]
  <2>1. index[x] <= index'[x]
    BY <1>2 DEF Wrote
  <2>2. QED
    BY <2>1, <1>1, <1>2, <1>3
<1>6. ASSUME NEW y \in StreamDirs(s), DateOf(y) < c.curDate
      PROVE  index'[y] = index[y]
  <2>1. DateOf(y) # day
    BY <1>1, <1>2, <1>4, <1>6
  <2>2. DateOf(y) # 0
    <3> SUFFICES ASSUME DateOf(y) = 0 PROVE FALSE
      OBVIOUS
    <3>1. layout.sep = "none"
      <4>1. layout.sep # "none" => DateOf(y) \in 1 .. MaxDay
        BY <1>1, <1>2, DateType
      <4>2. QED
        BY <4>1
    <3>2. DateOf(x) = 0
      BY <1>1, <1>2, <3>1, DateType
    <3>3. QED
      BY <3>2, <1>3, <1>6
  <2>3. QED
    BY <2>1, <2>2, <1>2 DEF Wrote
<1>7. \A y \in StreamDirs(s) : DateOf(y) < c.curDate =>
        \/ index'[y] = 0
        \/ DateOf(y) < c.lastDate
        \/ DateOf(y) = c.lastDate /\ index'[y] <= c.lastFile
  BY <1>6 DEF AtNextFile
<1>8. \/ c.curDate = c.lastDate /\ c.curFile = c.lastFile + 1
      \/ c.curDate > c.lastDate /\ c.curFile = 1
  BY DEF AtNextFile
<1>9. QED
  BY <1>2, <1>3, <1>5, <1>7, <1>8 DEF AtNextFile

(* The same of all that is said of a cursor.                               *)
LEMMA CursorWrote ==
  ASSUME TypeInv, TypeInv', DatesOk, Wrote, NEW c, NEW s, CursorOk(c, s)
  PROVE  CursorOk(c, s)'
<1>1. c \in Cursor /\ c.row <= RowsPerFile /\ c.lastDate <= day /\ (layout.sep = "none" => c.lastDate = 0)
  BY DEF CursorOk
<1>2. c.lastDate <= day'
  <2>1. day \in Nat /\ day' \in Nat /\ c.lastDate \in Nat
    BY <1>1, CursorNat, LayoutType DEF TypeInv, TypeOk
  <2>2. QED
    BY <2>1, <1>1 DEF Wrote
<1>3. /\ \A x : DateOf(x)' = DateOf(x)
      /\ StreamDirs(s)' = StreamDirs(s) /\ StreamDirs(s) \subseteq Dirs
  BY SameDirs DEF Wrote, StreamDirs
<1>4. ASSUME NEW y \in StreamDirs(s), DateOf(y) = c.lastDate
      PROVE  c.lastFile <= index'[y]
  <2>1. c.lastFile <= index[y] /\ index[y] <= index'[y]
    BY <1>3, <1>4 DEF CursorOk, Wrote
  <2>2. index[y] \in Nat /\ index'[y] \in Nat /\ c.lastFile \in Nat
    <3>1. index' \in [Dirs -> 0 .. MaxFiles]
      BY SameDirs DEF TypeInv, TypeOk, Wrote
    <3>2. QED
      BY <3>1, <1>1, <1>3, CursorNat DEF TypeInv, TypeOk
  <2>3. QED
    BY <2>1, <2>2
<1>5. c.row > 0 => AtNextFile(c, s)'
  BY <1>1, NextFileWrote DEF CursorOk
<1>6. layout' = layout
  BY DEF Wrote
<1>7. QED
  BY <1>1, <1>2, <1>3, <1>4, <1>5, <1>6 DEF CursorOk

(* No row that is written is behind a cursor, so what was exactly read     *)
(* stays so.                                                               *)
LEMMA ExactWrote ==
  ASSUME TypeInv, TypeInv', ToldApart, DatesOk, Wrote, NEW rows, NEW cursors,
         \A s \in Streams : CursorOk(cursors[s], s), Exact(rows, cursors)
  PROVE  Exact(rows, cursors)'
<1>1. /\ AllRows' = AllRows /\ \A c, x : Behind(c, x)' = Behind(c, x)
      /\ \A x : StreamOf(x)' = StreamOf(x)
  BY SameDirs DEF Wrote
<1>2. ASSUME NEW x \in AllRows, Behind(cursors[StreamOf(x[1])], x)
      PROVE  x[2] <= index[x[1]] <=> x[2] <= index'[x[1]]
  <2>1. x[1] \in Dirs /\ index[x[1]] \in Nat /\ x[2] \in Nat /\ layout \in Layouts
    BY RowType DEF TypeInv, TypeOk
  <2>2. index[x[1]] <= index'[x[1]]
    BY <2>1 DEF Wrote
  <2>3. index'[x[1]] \in Nat
    BY <2>1, SameDirs DEF TypeInv, TypeOk, Wrote
  <2>4. CASE index'[x[1]] = index[x[1]]
    BY <2>4
  <2>5. CASE index'[x[1]] # index[x[1]]
    <3>1. DateOf(x[1]) \in {0, day}
      BY <2>1, <2>5 DEF Wrote
    <3>2. CursorOk(cursors[StreamOf(x[1])], StreamOf(x[1]))
      BY <2>1, HomeType
    <3>3. ~(x[2] > index[x[1]])
      BY <3>1, <3>2, <1>2, NewFileAhead
    <3>4. QED
      BY <3>3, <2>1, <2>2, <2>3
  <2>6. QED
    BY <2>4, <2>5
<1>3. rows = {x \in AllRows : x[2] <= index[x[1]] /\ Behind(cursors[StreamOf(x[1])], x)}
  BY DEF Exact
<1>4. rows = {x \in AllRows : x[2] <= index'[x[1]] /\ Behind(cursors[StreamOf(x[1])], x)}
  BY <1>2, <1>3
<1>5. QED
  BY <1>1, <1>4 DEF Exact

(* A state is as good after writing.                                       *)
LEMMA StateWrote ==
  ASSUME TypeInv, TypeInv', DatesOk, Wrote, NEW cursors, StateOk(cursors)
  PROVE  StateOk(cursors)'
<1>1. Streams' = Streams /\ layout' = layout
  BY SameDirs DEF Wrote
<1>2. \A s \in Streams : CursorOk(cursors[s], s)'
  BY CursorWrote DEF StateOk
<1>3. QED
  BY <1>1, <1>2 DEF StateOk

(* The date directories that are final for the scan stay so.               *)
LEMMA ScanWrote ==
  ASSUME TypeInv, TypeInv', DatesOk, Wrote, ScanFinal, exposed' = exposed
  PROVE  ScanFinal'
<1>1. /\ Dirs' = Dirs /\ \A x : DateOf(x)' = DateOf(x)
  BY SameDirs DEF Wrote
<1>2. /\ layout \in Layouts /\ day \in Nat
      /\ \A x \in Dirs : index[x] \in Nat /\ index'[x] \in Nat /\ exposed[x] \in Nat /\ DateOf(x) \in Nat
  <2>1. layout \in Layouts /\ day \in 1 .. MaxDay /\ index \in [Dirs -> 0 .. MaxFiles]
        /\ exposed \in [Dirs -> 0 .. MaxFiles]
    BY DEF TypeInv, TypeOk
  <2>2. index' \in [Dirs -> 0 .. MaxFiles]
    BY <1>1 DEF TypeInv, TypeOk
  <2>3. \A x \in Dirs : DateOf(x) \in 0 .. MaxDay
    BY <2>1, DateType
  <2>4. QED
    BY <2>1, <2>2, <2>3, LayoutType
<1>3. \A x \in Dirs : exposed[x] <= index[x] /\ index[x] <= index'[x]
  BY DEF ScanFinal, Wrote
<1>4. \A x \in Dirs : exposed[x] <= index'[x]
  BY <1>2, <1>3
<1>5. ASSUME NEW x \in Dirs, NEW y \in Dirs, exposed[x] > 0, DateOf(y) < DateOf(x)
      PROVE  exposed[y] = index'[y]
  <2>1. exposed[y] = index[y]
    BY <1>5 DEF ScanFinal
  <2>2. DateOf(x) <= day
    <3>1. index[x] > 0
      BY <1>2, <1>3, <1>5
    <3>2. QED
      BY <3>1 DEF DatesOk
  <2>3. DateOf(y) # day
    BY <1>2, <1>5, <2>2
  <2>4. DateOf(y) # 0
    <3> SUFFICES ASSUME DateOf(y) = 0 PROVE FALSE
      OBVIOUS
    <3>1. layout.sep = "none"
      <4>1. layout.sep # "none" => DateOf(y) \in 1 .. MaxDay
        BY <1>2, DateType
      <4>2. QED
        BY <4>1
    <3>2. DateOf(x) = 0
      BY <1>2, <3>1, DateType
    <3>3. QED
      BY <3>2, <1>5
  <2>5. index'[y] = index[y]
    BY <2>3, <2>4 DEF Wrote
  <2>6. QED
    BY <2>1, <2>5
<1>6. QED
  BY <1>1, <1>4, <1>5 DEF ScanFinal

(* Migration depends on the layout and the state alone.                    *)
LEMMA SameMigrated ==
  ASSUME layout' = layout, saved' = saved
  PROVE  Migrated(saved)' = Migrated(saved)
<1>1. Streams' = Streams
  BY SameDirs
<1>2. QED
  BY <1>1 DEF Migrated, LegacyPlace

(* Writing keeps the invariant.                                            *)
LEMMA InvWrote ==
  ASSUME Inv, TypeInv', ToldApart, NextDay \/ \E dir \in Dirs : WriteFile(dir)
  PROVE  Inv'
<1>1. TypeInv /\ DatesOk
  BY DEF Inv
<1>2. /\ Wrote /\ DatesOk'
      /\ saved' = saved /\ read' = read /\ acked' = acked /\ mem' = mem /\ pc' = pc /\ todo' = todo
      /\ at' = at /\ exposed' = exposed
  BY <1>1, WroteStep
<1>3. /\ layout' = layout /\ Dirs' = Dirs /\ AllRows' = AllRows /\ Streams' = Streams
      /\ \A x : DateOf(x)' = DateOf(x)
      /\ \A x : StreamOf(x)' = StreamOf(x)
  BY <1>2, SameDirs DEF Wrote
<1>4. Migrated(saved)' = Migrated(saved)
  BY <1>2, <1>3, SameMigrated
<1>5. StateOk(Migrated(saved))'
  <2> DEFINE m == Migrated(saved)
  <2>1. StateOk(m)
    BY DEF Inv
  <2>2. PICK k : k = m
    OBVIOUS
  <2>3. StateOk(k)'
    BY <1>1, <1>2, <2>1, <2>2, StateWrote
  <2>4. QED
    BY <1>4, <2>2, <2>3
<1>6. Exact(acked, Migrated(saved))'
  <2>1. StateOk(Migrated(saved)) /\ Exact(acked, Migrated(saved))
    BY DEF Inv
  <2>2. PICK k, r : k = Migrated(saved) /\ r = acked
    OBVIOUS
  <2>3. Exact(r, k)'
    BY <1>1, <1>2, <2>1, <2>2, ExactWrote DEF StateOk
  <2>4. QED
    BY <1>2, <1>4, <2>2, <2>3
<1>7. ASSUME pc # "idle" PROVE RunOk'
  <2>1. RunOk
    BY <1>7 DEF Inv
  <2>2. PICK k, r : k = mem /\ r = read
    OBVIOUS
  <2>3. StateOk(k)' /\ Exact(r, k)'
    <3>1. StateOk(k) /\ Exact(r, k)
      BY <2>1, <2>2 DEF RunOk
    <3>2. QED
      BY <1>1, <1>2, <3>1, StateWrote, ExactWrote DEF StateOk
  <2>4. StateOk(mem)' /\ Exact(read, mem)'
    BY <1>2, <2>2, <2>3
  <2>5. ScanFinal'
    BY <1>1, <1>2, <2>1, ScanWrote DEF RunOk
  <2>6. \A it \in todo' : ItemOk(it)'
    BY <1>2, <1>3, <2>1 DEF RunOk, ItemOk
  <2>7. Resumes'
    BY <1>2, <1>3, <2>1 DEF RunOk, Resumes
  <2>8. AllPending'
    BY <1>2, <1>3, <2>1 DEF RunOk, AllPending
  <2>9. QED
    BY <2>4, <2>5, <2>6, <2>7, <2>8 DEF RunOk
<1>8. ASSUME pc = "read" PROVE ReadingOk'
  <2>1. ReadingOk
    BY <1>8 DEF Inv
  <2>2. PICK k, s : k = mem[at.stream] /\ s = at.stream
    OBVIOUS
  <2>3. AtNextFile(k, s)'
    <3>1. AtNextFile(k, s) /\ k \in Cursor
      BY <1>1, <1>8, <2>1, <2>2, AtType DEF ReadingOk
    <3>2. QED
      BY <1>1, <1>2, <3>1, NextFileWrote
  <2>4. AtNextFile(mem[at.stream], at.stream)'
    BY <1>2, <2>2, <2>3
  <2>5. StreamOf(at.dir)' = StreamOf(at.dir) /\ DateOf(at.dir)' = DateOf(at.dir)
    <3>1. PICK x : x = at.dir
      OBVIOUS
    <3>2. StreamOf(x)' = StreamOf(x) /\ DateOf(x)' = DateOf(x)
      BY <1>3
    <3>3. QED
      BY <1>2, <3>1, <3>2
  <2>6. QED
    BY <1>2, <2>1, <2>4, <2>5 DEF ReadingOk
<1>9. QED
  BY <1>2, <1>5, <1>6, <1>7, <1>8 DEF Inv

-----------------------------------------------------------------------------
(* What is said of cursors and rows stays true while the bucket is the     *)
(* same.                                                                   *)
LEMMA SameBucket ==
  ASSUME layout' = layout, index' = index, day' = day
  PROVE  /\ DatesOk' <=> DatesOk
         /\ \A c, s : AtNextFile(c, s)' <=> AtNextFile(c, s)
         /\ \A k : StateOk(k)' <=> StateOk(k)
         /\ \A r, k : Exact(r, k)' <=> Exact(r, k)
<1>1. /\ Dirs' = Dirs /\ AllRows' = AllRows /\ Streams' = Streams
      /\ \A x : DateOf(x)' = DateOf(x)
      /\ \A x : StreamOf(x)' = StreamOf(x)
      /\ \A s : StreamDirs(s)' = StreamDirs(s)
      /\ \A c, x : Behind(c, x)' = Behind(c, x)
  BY SameDirs
<1>2. DatesOk' <=> DatesOk
  BY <1>1 DEF DatesOk
<1>3. \A c, s : AtNextFile(c, s)' <=> AtNextFile(c, s)
  BY <1>1 DEF AtNextFile
<1>4. \A c, s : CursorOk(c, s)' <=> CursorOk(c, s)
  BY <1>1, <1>3 DEF CursorOk
<1>5. \A k : StateOk(k)' <=> StateOk(k)
  BY <1>1, <1>4 DEF StateOk
<1>6. \A r, k : Exact(r, k)' <=> Exact(r, k)
  BY <1>1 DEF Exact
<1>7. QED
  BY <1>2, <1>3, <1>5, <1>6

(* The state Save leaves is the cursors it was given.                      *)
LEMMA SavedCursors ==
  ASSUME TypeInv, TypeInv', layout' = layout, NEW cursors, Save(cursors)
  PROVE  Migrated(saved)' = cursors
<1>1. saved' = [cursors |-> cursors, legacy |-> NoLegacy]
  BY DEF Save
<1>2. saved'.legacy = NoLegacy /\ saved'.cursors = cursors
  BY <1>1
<1>3. PICK st : st = saved'
  OBVIOUS
<1>4. Streams' = Streams /\ Dirs' = Dirs
  BY SameDirs
<1>5. StateType(st) /\ layout \in Layouts
  <2>1. StateType(saved)' /\ layout \in Layouts
    BY DEF TypeInv, TypeOk
  <2>2. QED
    BY <2>1, <1>3, <1>4 DEF StateType
<1>6. Migrated(st) = cursors
  BY <1>2, <1>3, <1>5, MigratedType
<1>7. \A k : Migrated(k)' = Migrated(k)
  BY <1>4 DEF Migrated, LegacyPlace
<1>8. QED
  BY <1>3, <1>6, <1>7

(* The cursor of a stream, and its date.                                   *)
LEMMA CursorFacts ==
  ASSUME TypeInv, ToldApart, NEW k, StateOk(k), NEW x \in Dirs
  PROVE  LET c == k[StreamOf(x)]
         IN /\ CursorOk(c, StreamOf(x)) /\ c \in Cursor
            /\ c.lastDate \in Nat /\ c.lastFile \in Nat /\ c.curDate \in Nat
            /\ c.curFile \in Nat /\ c.row \in Nat
            /\ layout.sep = "none" => DateOf(x) = 0 /\ c.lastDate = 0
            /\ layout.sep # "none" => DateOf(x) > 0
            /\ DateOf(x) \in Nat /\ index[x] \in Nat /\ x \in StreamDirs(StreamOf(x))
<1>1. layout \in Layouts /\ index[x] \in Nat
  BY DEF TypeInv, TypeOk
<1>2. StreamOf(x) \in Streams /\ x \in StreamDirs(StreamOf(x))
  BY <1>1, HomeType
<1>3. CursorOk(k[StreamOf(x)], StreamOf(x))
  BY <1>2 DEF StateOk
<1>4. k[StreamOf(x)] \in Cursor /\ (layout.sep = "none" => k[StreamOf(x)].lastDate = 0)
  BY <1>3 DEF CursorOk
<1>5. /\ layout.sep = "none" => DateOf(x) = 0
      /\ layout.sep # "none" => DateOf(x) \in 1 .. MaxDay
      /\ DateOf(x) \in 0 .. MaxDay
  BY <1>1, DateType
<1>6. QED
  BY <1>1, <1>2, <1>3, <1>4, <1>5, CursorNat

(* The scan discovers every directory with a row that is not behind its    *)
(* cursor, and the one its cursor was left in.                             *)
LEMMA DiscoveredIf ==
  ASSUME TypeInv, ToldApart, NEW k, StateOk(k), NEW x \in Dirs, index[x] > 0,
         LET c == k[StreamOf(x)]
         IN \/ DateOf(x) > c.lastDate
            \/ DateOf(x) = c.lastDate /\ index[x] > c.lastFile
            \/ c.row > 0 /\ DateOf(x) = c.curDate /\ DateOf(x) >= c.lastDate
  PROVE  FileRange(x) \in Discovered(k)
<1> DEFINE c == k[StreamOf(x)]
<1>1. /\ c.lastDate \in Nat /\ c.lastFile \in Nat /\ c.curDate \in Nat /\ c.row \in Nat
      /\ DateOf(x) \in Nat /\ index[x] \in Nat
  BY CursorFacts
<1>2. Parsed(x).stream = StreamOf(x) /\ Parsed(x).date = DateOf(x)
  BY HomeOf DEF StreamOf, TypeInv, TypeOk
<1>3. DateOf(x) >= c.lastDate
  BY <1>1
<1>4. x \in Candidates(k)
  <2>1. ShouldScanDate(k, StreamOf(x), DateOf(x))
    BY <1>3 DEF ShouldScanDate
  <2>2. QED
    BY <2>1, CandidateIf DEF StateOk
<1>5. ShouldScanIndex(k, x)
  BY <1>1, <1>2 DEF ShouldScanIndex
<1>6. QED
  BY <1>4, <1>5 DEF Discovered

(* And nothing before the cursor.                                          *)
LEMMA DiscoveredOnly ==
  ASSUME TypeInv, ToldApart, NEW k, StateOk(k), NEW x \in Dirs, index[x] > 0,
         ShouldScanIndex(k, x)
  PROVE  LET c == k[StreamOf(x)]
         IN DateOf(x) >= c.lastDate /\ (c.row > 0 => DateOf(x) >= c.curDate)
<1> DEFINE c == k[StreamOf(x)]
           d == DateOf(x)
<1>1. /\ CursorOk(c, StreamOf(x)) /\ c.lastDate \in Nat /\ c.lastFile \in Nat /\ c.curDate \in Nat
      /\ c.row \in Nat /\ d \in Nat /\ index[x] \in Nat /\ x \in StreamDirs(StreamOf(x))
      /\ layout.sep = "none" => d = 0 /\ c.lastDate = 0
      /\ layout.sep # "none" => d > 0
  BY CursorFacts
<1>2. \/ c.row > 0 /\ c.curDate = d
      \/ c.lastDate = 0
      \/ d > c.lastDate \/ d = 0
      \/ d = c.lastDate /\ index[x] > c.lastFile
  <2>1. Parsed(x).stream = StreamOf(x) /\ Parsed(x).date = d
    BY HomeOf DEF StreamOf, TypeInv, TypeOk
  <2>2. QED
    BY <2>1 DEF ShouldScanIndex
<1>3. c.row > 0 => c.curDate >= c.lastDate
  <2>1. c.row > 0 => AtNextFile(c, StreamOf(x))
    BY <1>1 DEF CursorOk
  <2>2. AtNextFile(c, StreamOf(x)) => c.curDate = c.lastDate \/ c.curDate > c.lastDate
    BY DEF AtNextFile
  <2>3. QED
    BY <2>1, <2>2, <1>1
<1>4. d >= c.lastDate
  BY <1>1, <1>2, <1>3
<1>5. ASSUME c.row > 0, d < c.curDate
      PROVE  FALSE
  <2>1. AtNextFile(c, StreamOf(x))
    BY <1>1, <1>5 DEF CursorOk
  <2>2. \/ index[x] = 0 \/ d < c.lastDate
        \/ d = c.lastDate /\ index[x] <= c.lastFile
    BY <1>1, <1>5, <2>1 DEF AtNextFile
  <2>3. d = c.lastDate /\ index[x] <= c.lastFile
    BY <2>2, <1>1, <1>4
  <2>4. layout.sep # "none"
    <3> SUFFICES ASSUME layout.sep = "none" PROVE FALSE
      OBVIOUS
    <3>1. PICK y \in StreamDirs(StreamOf(x)) : DateOf(y) = c.curDate
      BY <2>1 DEF AtNextFile
    <3>2. DateOf(y) = 0
      BY DateType DEF StreamDirs, TypeInv, TypeOk
    <3>3. QED
      BY <3>1, <3>2, <1>1, <1>5
  <2>5. QED
    BY <2>3, <2>4, <1>1, <1>2, <1>5
<1>6. QED
  BY <1>1, <1>4, <1>5

(* A run that starts has all there is to read among its ranges.            *)
LEMMA InvStart ==
  ASSUME Inv, TypeInv', ToldApart, StartRun
  PROVE  Inv'
<1>1. /\ pc = "idle" /\ pc' = "work" /\ mem' = Migrated(saved) /\ exposed' = index
      /\ todo' = Discovered(mem')
      /\ layout' = layout /\ day' = day /\ index' = index /\ saved' = saved /\ read' = read
      /\ acked' = acked /\ at' = at
  BY DEF StartRun
<1>2. TypeInv /\ DatesOk /\ StateOk(Migrated(saved)) /\ Exact(acked, Migrated(saved)) /\ read = acked
  BY <1>1 DEF Inv
<1>3. PICK k : k = mem'
  OBVIOUS
<1>4. Migrated(saved)' = k /\ k = Migrated(saved)
  BY <1>1, <1>3, SameMigrated
<1>5. StateOk(k) /\ Exact(read, k) /\ todo' = Discovered(k)
  BY <1>1, <1>2, <1>4
<1>6. /\ Dirs' = Dirs /\ AllRows' = AllRows /\ Streams' = Streams
      /\ \A x : DateOf(x)' = DateOf(x)
      /\ \A x : StreamOf(x)' = StreamOf(x)
  BY <1>1, SameDirs
<1>7. layout \in Layouts /\ \A x \in Dirs : index[x] \in Nat
  BY <1>2 DEF TypeInv, TypeOk
<1>8. DatesOk' /\ StateOk(k)' /\ Exact(read, k)'
  <2>1. PICK r : r = read
    OBVIOUS
  <2>2. Exact(r, k)'
    BY <1>1, <1>5, <2>1, SameBucket
  <2>3. QED
    BY <1>1, <1>2, <1>5, <2>1, <2>2, SameBucket
<1>9. StateOk(mem)' /\ Exact(read, mem)' /\ StateOk(Migrated(saved))' /\ Exact(acked, Migrated(saved))'
  BY <1>1, <1>2, <1>3, <1>4, <1>8
<1>10. ScanFinal'
  BY <1>1, <1>6, <1>7 DEF ScanFinal
<1>11. ASSUME NEW it \in todo'
       PROVE  \E x \in Dirs : /\ it = FileRange(x) /\ index[x] > 0 /\ ShouldScanIndex(k, x)
                              /\ it.dir = x /\ it.stream = StreamOf(x) /\ it.date = DateOf(x)
                              /\ it.latest = index[x]
  <2>1. PICK x \in Dirs : it = FileRange(x) /\ index[x] > 0 /\ ShouldScanIndex(k, x)
    BY <1>5 DEF Discovered
  <2>2. Parsed(x).stream = StreamOf(x) /\ Parsed(x).date = DateOf(x)
    BY <1>7, HomeOf DEF StreamOf
  <2>3. QED
    BY <2>1, <2>2 DEF FileRange
<1>12. ASSUME NEW it \in todo'
       PROVE  ItemOk(it)'
  <2>1. PICK x \in Dirs : /\ index[x] > 0 /\ ShouldScanIndex(k, x)
                          /\ it.dir = x /\ it.stream = StreamOf(x) /\ it.date = DateOf(x)
                          /\ it.latest = index[x]
    BY <1>11
  <2>2. DateOf(x) >= k[StreamOf(x)].lastDate
        /\ (k[StreamOf(x)].row > 0 => DateOf(x) >= k[StreamOf(x)].curDate)
    BY <1>2, <1>5, <2>1, DiscoveredOnly
  <2>3. QED
    BY <1>1, <1>3, <1>6, <2>1, <2>2 DEF ItemOk
<1>13. ASSUME NEW s \in Streams, k[s].row > 0
       PROVE  \E it \in todo' : it.stream = s /\ it.date = k[s].curDate /\ k[s].curFile <= it.latest
  <2>1. AtNextFile(k[s], s)
    BY <1>5, <1>13 DEF StateOk, CursorOk
  <2>2. PICK x \in StreamDirs(s) : DateOf(x) = k[s].curDate /\ k[s].curFile \in 1 .. index[x]
    BY <2>1 DEF AtNextFile
  <2>3. x \in Dirs /\ StreamOf(x) = s /\ index[x] \in Nat
    BY <1>7 DEF StreamDirs
  <2>4. index[x] > 0 /\ k[s].curFile <= index[x]
    BY <2>2, <2>3
  <2>5. DateOf(x) >= k[s].lastDate
    <3>1. k[s].lastDate \in Nat /\ DateOf(x) \in Nat
      BY <1>2, <1>5, <2>3, CursorFacts
    <3>2. k[s].curDate = k[s].lastDate \/ k[s].curDate > k[s].lastDate
      BY <2>1 DEF AtNextFile
    <3>3. QED
      BY <2>2, <3>1, <3>2
  <2>6. FileRange(x) \in Discovered(k)
    BY <1>2, <1>5, <1>13, <2>2, <2>3, <2>4, <2>5, DiscoveredIf
  <2>7. /\ FileRange(x).stream = s /\ FileRange(x).date = k[s].curDate /\ FileRange(x).latest = index[x]
    BY <1>7, <2>2, <2>3, HomeOf DEF FileRange, StreamOf
  <2>8. QED
    BY <1>5, <2>4, <2>6, <2>7
<1>14. Resumes'
  BY <1>1, <1>3, <1>6, <1>13 DEF Resumes
<1>15. ASSUME NEW x \in AllRows, x[2] <= index[x[1]], x \notin read
       PROVE  \E it \in todo' : it.dir = x[1]
  <2> DEFINE c == k[StreamOf(x[1])]
  <2>1. x[1] \in Dirs /\ x[2] \in Nat \ {0}
    BY <1>2, RowType
  <2>2. index[x[1]] > 0
    BY <1>7, <1>15, <2>1
  <2>3. ~Behind(c, x)
    BY <1>5, <1>15 DEF Exact
  <2>4. /\ c.lastDate \in Nat /\ c.lastFile \in Nat /\ DateOf(x[1]) \in Nat /\ index[x[1]] \in Nat
    BY <1>2, <1>5, <2>1, CursorFacts
  <2>5. DateOf(x[1]) > c.lastDate \/ (DateOf(x[1]) = c.lastDate /\ index[x[1]] > c.lastFile)
    BY <1>15, <2>1, <2>3, <2>4 DEF Behind
  <2>6. FileRange(x[1]) \in Discovered(k)
    BY <1>2, <1>5, <2>1, <2>2, <2>5, DiscoveredIf
  <2>7. FileRange(x[1]).dir = x[1]
    BY DEF FileRange
  <2>8. QED
    BY <1>5, <2>6, <2>7
<1>16. AllPending'
  BY <1>1, <1>6, <1>15 DEF AllPending
<1>17. RunOk'
  BY <1>9, <1>10, <1>12, <1>14, <1>16 DEF RunOk
<1>18. QED
  BY <1>1, <1>2, <1>8, <1>9, <1>17 DEF Inv

-----------------------------------------------------------------------------
(* A range, and the cursor of its stream.                                  *)
LEMMA ItemFacts ==
  ASSUME Inv, ToldApart, pc # "idle", NEW it \in todo
  PROVE  LET c == mem[it.stream]
         IN /\ it \in Item /\ it.dir \in Dirs /\ it.stream = StreamOf(it.dir) /\ it.stream \in Streams
            /\ it.date = DateOf(it.dir) /\ it.date \in Nat
            /\ it.latest = exposed[it.dir] /\ it.latest \in Nat \ {0}
            /\ index[it.dir] \in Nat /\ it.latest <= index[it.dir]
            /\ it.dir \in StreamDirs(it.stream)
            /\ CursorOk(c, it.stream) /\ c \in Cursor
            /\ c.lastDate \in Nat /\ c.lastFile \in Nat /\ c.curDate \in Nat
            /\ c.curFile \in Nat /\ c.row \in Nat
            /\ it.date >= c.lastDate /\ (c.row > 0 => it.date >= c.curDate)
<1>1. TypeInv /\ RunOk /\ StateOk(mem) /\ ItemOk(it)
  BY DEF Inv, RunOk
<1>2. it \in Item /\ layout \in Layouts
  BY <1>1 DEF TypeInv, TypeOk
<1>3. it.dir \in Dirs /\ it.stream \in Streams /\ it.date \in Nat /\ it.latest \in 1 .. MaxFiles
  BY <1>2 DEF Item
<1>4. it.stream = StreamOf(it.dir) /\ it.date = DateOf(it.dir) /\ it.latest = exposed[it.dir]
      /\ it.date >= mem[it.stream].lastDate
      /\ (mem[it.stream].row > 0 => it.date >= mem[it.stream].curDate)
  BY <1>1 DEF ItemOk
<1>5. exposed[it.dir] <= index[it.dir]
  BY <1>1, <1>3 DEF RunOk, ScanFinal
<1>6. /\ CursorOk(mem[it.stream], it.stream) /\ mem[it.stream] \in Cursor
      /\ mem[it.stream].lastDate \in Nat /\ mem[it.stream].lastFile \in Nat
      /\ mem[it.stream].curDate \in Nat /\ mem[it.stream].curFile \in Nat /\ mem[it.stream].row \in Nat
      /\ index[it.dir] \in Nat /\ it.dir \in StreamDirs(it.stream)
  BY <1>1, <1>3, <1>4, CursorFacts
<1>7. it.latest \in Nat \ {0}
  BY <1>2, <1>3, LayoutType
<1>8. QED
  BY <1>2, <1>3, <1>4, <1>5, <1>6, <1>7

(* Two ranges of a directory are one.                                      *)
LEMMA OneItem ==
  ASSUME Inv, ToldApart, pc # "idle", NEW a \in todo, NEW b \in todo,
         a.stream = b.stream, a.date = b.date
  PROVE  a = b
<1>1. /\ a \in Item /\ a.dir \in Dirs /\ a.stream = StreamOf(a.dir) /\ a.date = DateOf(a.dir)
      /\ a.latest = exposed[a.dir]
  BY ItemFacts
<1>2. /\ b \in Item /\ b.dir \in Dirs /\ b.stream = StreamOf(b.dir) /\ b.date = DateOf(b.dir)
      /\ b.latest = exposed[b.dir]
  BY ItemFacts
<1>3. a.dir = b.dir
  <2>1. layout \in Layouts
    BY DEF Inv, TypeInv, TypeOk
  <2>2. QED
    BY <1>1, <1>2, <2>1, OneDir
<1>4. a.latest = b.latest
  BY <1>1, <1>2, <1>3
<1>5. QED
  BY <1>1, <1>2, <1>3, <1>4 DEF Item

(* The next range comes before the others of its stream, and is the one of *)
(* the file that was left in the middle, if any.                           *)
LEMMA NextItem ==
  ASSUME Inv, ToldApart, pc = "work", NEW it \in todo, IsNext(it)
  PROVE  LET c == mem[it.stream]
         IN /\ \A other \in todo : other.stream = it.stream /\ other # it => other.date > it.date
            /\ c.row > 0 => /\ it.date = c.curDate /\ c.curFile <= it.latest /\ c.curFile \in Nat \ {0}
                            /\ AtNextFile(c, it.stream)
            /\ StartFile(it) = IF c.row > 0 THEN c.curFile
                               ELSE IF c.lastDate = it.date THEN c.lastFile + 1 ELSE 1
<1> DEFINE c == mem[it.stream]
<1>1. /\ it \in Item /\ it.stream \in Streams /\ it.date \in Nat /\ c \in Cursor /\ CursorOk(c, it.stream)
      /\ c.curDate \in Nat /\ c.curFile \in Nat /\ c.row \in Nat /\ (c.row > 0 => it.date >= c.curDate)
  BY ItemFacts
<1>2. ASSUME NEW other \in todo, other.stream = it.stream
      PROVE  other.date \in Nat /\ it.date <= other.date
  <2>1. other.date \in Nat /\ other.stream \in Streams
    BY ItemFacts
  <2>2. it.stream < other.stream \/ (it.stream = other.stream /\ it.date <= other.date)
    BY DEF IsNext
  <2>3. \A s \in Streams : s \in Nat
    BY LayoutType DEF Streams, Name, Inv, TypeInv, TypeOk
  <2>4. it.stream \in Nat
    BY <1>1, <2>3
  <2>5. QED
    BY <1>2, <2>1, <2>2, <2>4
<1>3. ASSUME NEW other \in todo, other.stream = it.stream, other # it
      PROVE  other.date > it.date
  <2>1. other.date # it.date
    BY <1>3, OneItem
  <2>2. QED
    BY <2>1, <1>1, <1>2, <1>3
<1>4. ASSUME c.row > 0
      PROVE  /\ it.date = c.curDate /\ c.curFile <= it.latest /\ c.curFile \in Nat \ {0}
             /\ AtNextFile(c, it.stream)
  <2>1. Resumes
    BY DEF Inv, RunOk
  <2>2. PICK other \in todo : other.stream = it.stream /\ other.date = c.curDate /\ c.curFile <= other.latest
    BY <1>1, <1>4, <2>1 DEF Resumes
  <2>3. it.date <= c.curDate
    BY <1>2, <2>2
  <2>4. it.date = c.curDate
    BY <1>1, <1>4, <2>3
  <2>5. other = it
    BY <2>2, <2>4, OneItem
  <2>6. AtNextFile(c, it.stream)
    BY <1>1, <1>4 DEF CursorOk
  <2>7. c.curFile \in Nat \ {0}
    <3>1. PICK x \in StreamDirs(it.stream) : c.curFile \in 1 .. index[x]
      BY <2>6 DEF AtNextFile
    <3>2. QED
      BY <3>1, <1>1
  <2>8. QED
    BY <2>2, <2>4, <2>5, <2>6, <2>7
<1>5. StartFile(it) = IF c.row > 0 THEN c.curFile
                      ELSE IF c.lastDate = it.date THEN c.lastFile + 1 ELSE 1
  BY <1>1, <1>4 DEF StartFile
<1>6. QED
  BY <1>3, <1>4, <1>5

(* A range that is skipped has been read, up to the file the scan saw.     *)
LEMMA InvSkip ==
  ASSUME Inv, TypeInv', ToldApart, NEW it \in todo, SkipReadRange(it)
  PROVE  Inv'
<1> DEFINE c == mem[it.stream]
<1>1. /\ pc = "work" /\ pc' = pc /\ IsNext(it) /\ StartFile(it) > it.latest /\ todo' = todo \ {it}
      /\ layout' = layout /\ day' = day /\ index' = index /\ saved' = saved /\ read' = read
      /\ acked' = acked /\ mem' = mem /\ at' = at /\ exposed' = exposed
  BY DEF SkipReadRange
<1>2. TypeInv /\ DatesOk /\ RunOk
  BY <1>1 DEF Inv
<1>3. /\ Dirs' = Dirs /\ AllRows' = AllRows /\ Streams' = Streams
      /\ \A x : DateOf(x)' = DateOf(x)
      /\ \A x : StreamOf(x)' = StreamOf(x)
  BY <1>1, SameDirs
<1>4. /\ c.row > 0 => it.date = c.curDate /\ c.curFile <= it.latest /\ c.curFile \in Nat \ {0}
      /\ StartFile(it) = IF c.row > 0 THEN c.curFile
                         ELSE IF c.lastDate = it.date THEN c.lastFile + 1 ELSE 1
  BY <1>1, NextItem
<1>5. /\ it.dir \in Dirs /\ it.stream = StreamOf(it.dir) /\ it.date = DateOf(it.dir)
      /\ it.latest = exposed[it.dir] /\ it.latest \in Nat \ {0} /\ index[it.dir] \in Nat
      /\ it.latest <= index[it.dir] /\ c.lastFile \in Nat /\ c.row \in Nat
  BY <1>1, ItemFacts
<1>6. ~(c.row > 0) /\ c.lastDate = it.date /\ c.lastFile >= it.latest
  BY <1>1, <1>4, <1>5
<1>7. ASSUME NEW x \in AllRows, x[1] = it.dir, x[2] <= exposed[x[1]]
      PROVE  x \in read
  <2>1. x[2] \in Nat
    BY <1>2, RowType
  <2>2. Behind(c, x) /\ x[2] <= index[x[1]]
    BY <1>5, <1>6, <1>7, <2>1 DEF Behind
  <2>3. QED
    BY <1>2, <1>5, <1>7, <2>2 DEF RunOk, Exact
<1>8. DatesOk' /\ StateOk(mem)' /\ Exact(read, mem)' /\ StateOk(Migrated(saved))'
      /\ Exact(acked, Migrated(saved))'
  <2>1. PICK k, r, m, a : k = mem /\ r = read /\ m = Migrated(saved) /\ a = acked
    OBVIOUS
  <2>2. StateOk(k) /\ Exact(r, k) /\ StateOk(m) /\ Exact(a, m)
    BY <1>2, <2>1 DEF Inv, RunOk
  <2>3. DatesOk' /\ StateOk(k)' /\ Exact(r, k)' /\ StateOk(m)' /\ Exact(a, m)'
    BY <1>1, <1>2, <2>2, SameBucket
  <2>4. Migrated(saved)' = m
    BY <1>1, <2>1, SameMigrated
  <2>5. QED
    BY <1>1, <2>1, <2>3, <2>4
<1>9. ScanFinal'
  BY <1>1, <1>2, <1>3 DEF RunOk, ScanFinal
<1>10. \A i \in todo' : ItemOk(i)'
  BY <1>1, <1>2, <1>3 DEF RunOk, ItemOk
<1>11. Resumes'
  <2>1. ASSUME NEW s \in Streams, mem[s].row > 0
        PROVE  \E i \in todo' : i.stream = s /\ i.date = mem[s].curDate /\ mem[s].curFile <= i.latest
    <3>1. PICK i \in todo : i.stream = s /\ i.date = mem[s].curDate /\ mem[s].curFile <= i.latest
      BY <1>1, <1>2, <2>1 DEF RunOk, Resumes
    <3>2. i # it
      BY <1>6, <2>1, <3>1
    <3>3. QED
      BY <1>1, <3>1, <3>2
  <2>2. QED
    BY <1>1, <1>3, <2>1 DEF Resumes
<1>12. AllPending'
  <2>1. ASSUME NEW x \in AllRows, x[2] <= exposed[x[1]]
        PROVE  x \in read \/ \E i \in todo' : i.dir = x[1]
    <3>1. x \in read \/ \E i \in todo : i.dir = x[1]
      BY <1>1, <1>2, <2>1 DEF RunOk, AllPending
    <3>2. QED
      BY <1>1, <1>7, <2>1, <3>1
  <2>2. QED
    BY <1>1, <1>3, <2>1 DEF AllPending
<1>13. RunOk'
  BY <1>8, <1>9, <1>10, <1>11, <1>12 DEF RunOk
<1>14. read' = acked'
  BY <1>1 DEF Inv
<1>15. QED
  BY <1>1, <1>8, <1>13, <1>14 DEF Inv

(* Opening a range moves the cursor to the file right after its last one:  *)
(* nothing lies between the two, since all of an earlier date is read.     *)
LEMMA OpenedCursor ==
  ASSUME Inv, ToldApart, NEW it \in todo, pc = "work", IsNext(it), StartFile(it) <= it.latest,
         NEW n, n = [mem[it.stream] EXCEPT !.curDate = it.date, !.curFile = StartFile(it)]
  PROVE  LET c == mem[it.stream]
         IN /\ n \in Cursor /\ n.curDate = it.date /\ n.curFile = StartFile(it) /\ n.row = c.row
            /\ n.lastDate = c.lastDate /\ n.lastFile = c.lastFile
            /\ AtNextFile(n, it.stream) /\ CursorOk(n, it.stream)
            /\ StartFile(it) \in Nat \ {0} /\ StartRow(c, StartFile(it)) = c.row
            /\ c.row > 0 => n.curDate = c.curDate /\ n.curFile = c.curFile
<1> DEFINE c == mem[it.stream]
           f == StartFile(it)
<1>1. /\ c.row > 0 => /\ it.date = c.curDate /\ c.curFile <= it.latest /\ c.curFile \in Nat \ {0}
                      /\ AtNextFile(c, it.stream)
      /\ f = IF c.row > 0 THEN c.curFile
             ELSE IF c.lastDate = it.date THEN c.lastFile + 1 ELSE 1
  BY NextItem
<1>2. /\ it.dir \in Dirs /\ it.stream = StreamOf(it.dir) /\ it.date = DateOf(it.dir)
      /\ it.latest = exposed[it.dir] /\ it.latest \in Nat \ {0} /\ index[it.dir] \in Nat
      /\ it.latest <= index[it.dir] /\ it.dir \in StreamDirs(it.stream) /\ it.stream \in Streams
  BY ItemFacts
<1>3. /\ CursorOk(c, it.stream) /\ c \in Cursor /\ it.date >= c.lastDate /\ it.date \in Nat
      /\ c.lastDate \in Nat /\ c.lastFile \in Nat /\ c.curDate \in Nat /\ c.curFile \in Nat
      /\ c.row \in Nat
  BY ItemFacts
<1>4. TypeInv /\ RunOk
  BY DEF Inv
<1>5. f \in Nat \ {0}
  BY <1>1, <1>3
<1>6. n \in Cursor /\ n.curDate = it.date /\ n.curFile = f /\ n.row = c.row
      /\ n.lastDate = c.lastDate /\ n.lastFile = c.lastFile
  <2> HIDE DEF c, f
  <2>1. n = [c EXCEPT !.curDate = it.date, !.curFile = f]
    BY DEF c, f
  <2>2. n \in Cursor
    BY <1>3, <1>5, <2>1 DEF Cursor
  <2>3. n.curDate = it.date /\ n.curFile = f
    BY <1>3, <2>1 DEF Cursor
  <2>4. n.row = c.row
    BY <1>3, <2>1 DEF Cursor
  <2>5. n.lastDate = c.lastDate
    BY <1>3, <2>1 DEF Cursor
  <2>6. n.lastFile = c.lastFile
    BY <1>3, <2>1 DEF Cursor
  <2>7. QED
    BY <2>2, <2>3, <2>4, <2>5, <2>6
<1>7. StartRow(c, f) = c.row
  BY <1>1, <1>3 DEF StartRow
<1>8. AtNextFile(n, it.stream)
  <2>1. DateOf(it.dir) = n.curDate /\ n.curFile \in 1 .. index[it.dir]
    BY <1>2, <1>5, <1>6
  <2>2. \/ n.curDate = n.lastDate /\ n.curFile = n.lastFile + 1
        \/ n.curDate > n.lastDate /\ n.curFile = 1
    <3>1. CASE c.row > 0
      <4>1. \/ c.curDate = c.lastDate /\ c.curFile = c.lastFile + 1
            \/ c.curDate > c.lastDate /\ c.curFile = 1
        BY <1>1, <3>1 DEF AtNextFile
      <4>2. QED
        BY <1>1, <1>6, <3>1, <4>1
    <3>2. CASE ~(c.row > 0)
      BY <1>1, <1>3, <1>6, <3>2
    <3>3. QED
      BY <3>1, <3>2
  <2>3. ASSUME NEW y \in StreamDirs(it.stream), DateOf(y) < it.date
        PROVE  \/ index[y] = 0
               \/ DateOf(y) < c.lastDate
               \/ DateOf(y) = c.lastDate /\ index[y] <= c.lastFile
    <3>1. CASE c.row > 0
      BY <1>1, <2>3, <3>1 DEF AtNextFile
    <3>2. CASE ~(c.row > 0) /\ index[y] # 0
      <4>1. y \in Dirs /\ StreamOf(y) = it.stream
        BY DEF StreamDirs
      <4>2. index[y] \in 1 .. MaxFiles /\ 1 \in 1 .. RowsPerFile
        <5>1. index[y] \in 0 .. MaxFiles /\ layout \in Layouts
          BY <1>4, <4>1 DEF TypeInv, TypeOk
        <5>2. QED
          BY <3>2, <5>1, LayoutType
      <4>3. exposed[y] = index[y]
        <5>1. exposed[it.dir] > 0
          BY <1>2
        <5>2. QED
          BY <1>2, <1>4, <2>3, <4>1, <5>1 DEF RunOk, ScanFinal
      <4>4. PICK x : x = <<y, index[y], 1>>
        OBVIOUS
      <4>5. x \in AllRows /\ x[1] = y /\ x[2] = index[y]
        BY <4>1, <4>2, <4>4 DEF AllRows
      <4>6. x[2] <= exposed[x[1]]
        BY <4>2, <4>3, <4>5
      <4>7. ~\E i \in todo : i.dir = y
        <5> SUFFICES ASSUME NEW i \in todo, i.dir = y PROVE FALSE
          OBVIOUS
        <5>1. i.stream = it.stream /\ i.date = DateOf(y) /\ i.date \in Nat
          BY <4>1, ItemFacts
        <5>2. i # it
          BY <1>2, <2>3, <5>1
        <5>3. i.date > it.date
          BY <5>1, <5>2, NextItem
        <5>4. QED
          BY <1>3, <2>3, <5>1, <5>3
      <4>8. x \in read
        BY <1>4, <4>5, <4>6, <4>7 DEF RunOk, AllPending
      <4>9. Behind(c, x)
        BY <1>4, <4>1, <4>5, <4>8 DEF RunOk, Exact
      <4>10. QED
        BY <3>2, <4>5, <4>9 DEF Behind
    <3>3. QED
      BY <3>1, <3>2
  <2>4. \A y \in StreamDirs(it.stream) : DateOf(y) < n.curDate =>
          \/ index[y] = 0
          \/ DateOf(y) < n.lastDate
          \/ DateOf(y) = n.lastDate /\ index[y] <= n.lastFile
    BY <1>6, <2>3
  <2>5. QED
    BY <1>2, <2>1, <2>2, <2>4 DEF AtNextFile
<1>9. CursorOk(n, it.stream)
  BY <1>3, <1>6, <1>8 DEF CursorOk
<1>10. c.row > 0 => n.curDate = c.curDate /\ n.curFile = c.curFile
  BY <1>1, <1>6
<1>11. QED
  BY <1>5, <1>6, <1>7, <1>8, <1>9, <1>10

(* Cursors with the same rows behind them are as exact.                    *)
LEMMA ExactIf ==
  ASSUME NEW r, NEW k, NEW m, Exact(r, k),
         \A x \in AllRows : x[2] <= index[x[1]] =>
           (Behind(k[StreamOf(x[1])], x) <=> Behind(m[StreamOf(x[1])], x))
  PROVE  Exact(r, m)
BY DEF Exact

(* A state in which one cursor is replaced.                                *)
LEMMA ReplacedCursor ==
  ASSUME TypeInv, ToldApart, NEW k, StateOk(k), NEW x \in Dirs, NEW n, CursorOk(n, StreamOf(x)),
         NEW m, m = [k EXCEPT ![StreamOf(x)] = n]
  PROVE  StateOk(m)
<1>1. layout \in Layouts /\ StreamOf(x) \in Streams /\ (layout.parts # {} => StreamOf(x) # 0)
  BY HomeType DEF TypeInv, TypeOk
<1>2. k \in [Streams -> Cursor] /\ n \in Cursor
  BY DEF StateOk, CursorOk
<1>3. m \in [Streams -> Cursor] /\ \A s \in Streams : m[s] = IF s = StreamOf(x) THEN n ELSE k[s]
  BY <1>1, <1>2
<1>4. \A s \in Streams : CursorOk(m[s], s)
  BY <1>3 DEF StateOk
<1>5. layout.parts # {} => m[0] = NoCursor
  <2>1. 0 \in Streams
    BY DEF Streams
  <2>2. QED
    BY <1>1, <1>3, <2>1 DEF StateOk
<1>6. QED
  BY <1>3, <1>4, <1>5 DEF StateOk

(* Opening a range keeps the invariant.                                    *)
LEMMA InvOpen ==
  ASSUME Inv, TypeInv', ToldApart, NEW it \in todo, OpenRange(it)
  PROVE  Inv'
<1> DEFINE c == mem[it.stream]
           f == StartFile(it)
<1>1. /\ pc = "work" /\ pc' = "read" /\ IsNext(it) /\ f <= it.latest /\ todo' = todo \ {it}
      /\ layout' = layout /\ day' = day /\ index' = index /\ saved' = saved /\ read' = read
      /\ acked' = acked /\ exposed' = exposed
      /\ mem' = [mem EXCEPT ![it.stream] = [c EXCEPT !.curDate = it.date, !.curFile = f]]
      /\ at' = [dir |-> it.dir, stream |-> it.stream, date |-> it.date, latest |-> it.latest,
                file |-> f, row |-> StartRow(c, f)]
  BY DEF OpenRange
<1>2. TypeInv /\ DatesOk /\ RunOk
  BY <1>1 DEF Inv
<1>3. /\ Dirs' = Dirs /\ AllRows' = AllRows /\ Streams' = Streams
      /\ \A x : DateOf(x)' = DateOf(x)
      /\ \A x : StreamOf(x)' = StreamOf(x)
  BY <1>1, SameDirs
<1>4. PICK n : n = [c EXCEPT !.curDate = it.date, !.curFile = f]
  OBVIOUS
<1>5. /\ n \in Cursor /\ n.curDate = it.date /\ n.curFile = f /\ n.row = c.row
      /\ n.lastDate = c.lastDate /\ n.lastFile = c.lastFile
      /\ AtNextFile(n, it.stream) /\ CursorOk(n, it.stream)
      /\ f \in Nat \ {0} /\ StartRow(c, f) = c.row
      /\ c.row > 0 => n.curDate = c.curDate /\ n.curFile = c.curFile
  BY <1>1, <1>4, OpenedCursor
<1>6. /\ it.dir \in Dirs /\ it.stream = StreamOf(it.dir) /\ it.date = DateOf(it.dir)
      /\ it.latest = exposed[it.dir] /\ it.stream \in Streams
  BY <1>1, ItemFacts
<1> HIDE DEF f, c
<1>7. PICK k : k = mem'
  OBVIOUS
<1>8. k = [mem EXCEPT ![it.stream] = n]
  BY <1>1, <1>4, <1>7
<1>9. StateOk(k) /\ k[it.stream] = n /\ \A s \in Streams : s # it.stream => k[s] = mem[s]
  <2>1. PICK x, m : x = it.dir /\ m = mem
    OBVIOUS
  <2>2. x \in Dirs
    BY <1>6, <2>1
  <2>3. StateOk(m)
    BY <1>2, <2>1 DEF RunOk
  <2>4. CursorOk(n, StreamOf(x)) /\ it.stream = StreamOf(x)
    BY <1>5, <1>6, <2>1
  <2>5. k = [m EXCEPT ![StreamOf(x)] = n]
    BY <1>8, <2>1, <2>4
  <2>6. StateOk(k)
    BY <1>2, <2>2, <2>3, <2>4, <2>5, ReplacedCursor
  <2>7. \A s \in Streams : k[s] = IF s = StreamOf(x) THEN n ELSE m[s]
    BY <2>3, <2>5 DEF StateOk
  <2>8. QED
    BY <1>6, <2>1, <2>4, <2>6, <2>7
<1>10. Exact(read, k)
  <2>1. \A x : Behind(c, x) <=> Behind(n, x)
    BY <1>5 DEF Behind
  <2>2. ASSUME NEW x \in AllRows
        PROVE  Behind(mem[StreamOf(x[1])], x) <=> Behind(k[StreamOf(x[1])], x)
    <3>1. StreamOf(x[1]) \in Streams
      BY <1>2, RowType, HomeType DEF TypeInv, TypeOk
    <3>2. QED
      BY <1>9, <2>1, <3>1 DEF c
  <2>3. QED
    BY <1>2, <2>2, ExactIf DEF RunOk
<1>11. DatesOk' /\ StateOk(mem)' /\ Exact(read, mem)' /\ StateOk(Migrated(saved))'
       /\ Exact(acked, Migrated(saved))' /\ AtNextFile(n, it.stream)'
  <2>1. PICK r, m, a : r = read /\ m = Migrated(saved) /\ a = acked
    OBVIOUS
  <2>2. StateOk(k) /\ Exact(r, k) /\ StateOk(m) /\ Exact(a, m)
    BY <1>9, <1>10, <2>1 DEF Inv
  <2>3. DatesOk' /\ StateOk(k)' /\ Exact(r, k)' /\ StateOk(m)' /\ Exact(a, m)'
    BY <1>1, <1>2, <2>2, SameBucket
  <2>4. Migrated(saved)' = m
    BY <1>1, <2>1, SameMigrated
  <2>5. PICK s : s = it.stream
    OBVIOUS
  <2>6. AtNextFile(n, s)'
    BY <1>1, <1>5, <2>5, SameBucket
  <2>7. QED
    BY <1>1, <1>7, <2>1, <2>3, <2>4, <2>5, <2>6
<1>12. ScanFinal'
  BY <1>1, <1>2, <1>3 DEF RunOk, ScanFinal
<1>13. ASSUME NEW i \in todo'
       PROVE  /\ i \in todo /\ i # it
              /\ i.stream = it.stream => i.date > it.date
  BY <1>1, NextItem
<1>14. ASSUME NEW i \in todo'
       PROVE  ItemOk(i)'
  <2>1. i \in todo /\ i # it /\ (i.stream = it.stream => i.date > it.date)
    BY <1>13
  <2>2. /\ i.dir \in Dirs /\ i.stream = StreamOf(i.dir) /\ i.date = DateOf(i.dir)
        /\ i.latest = exposed[i.dir] /\ i.stream \in Streams /\ i.date \in Nat
        /\ i.date >= mem[i.stream].lastDate /\ (mem[i.stream].row > 0 => i.date >= mem[i.stream].curDate)
    BY <1>1, <2>1, ItemFacts
  <2>3. it.date \in Nat
    BY <1>1, ItemFacts
  <2>4. i.date >= k[i.stream].lastDate /\ (k[i.stream].row > 0 => i.date >= k[i.stream].curDate)
    <3>1. CASE i.stream = it.stream
      BY <1>5, <1>9, <2>1, <2>2, <2>3, <3>1 DEF c
    <3>2. CASE i.stream # it.stream
      BY <1>9, <2>2, <3>2
    <3>3. QED
      BY <3>1, <3>2
  <2>5. QED
    BY <1>1, <1>3, <1>7, <2>2, <2>4 DEF ItemOk
<1>15. Resumes'
  <2>1. ASSUME NEW s \in Streams, k[s].row > 0, s # it.stream
        PROVE  \E i \in todo' : i.stream = s /\ i.date = k[s].curDate /\ k[s].curFile <= i.latest
    <3>1. k[s] = mem[s]
      BY <1>9, <2>1
    <3>2. PICK i \in todo : i.stream = s /\ i.date = mem[s].curDate /\ mem[s].curFile <= i.latest
      BY <1>1, <1>2, <2>1, <3>1 DEF RunOk, Resumes
    <3>3. QED
      BY <1>1, <2>1, <3>1, <3>2
  <2>2. at'.stream = it.stream
    BY <1>1
  <2>3. QED
    BY <1>1, <1>3, <1>7, <2>1, <2>2 DEF Resumes
<1>16. AllPending'
  <2>1. ASSUME NEW x \in AllRows, x[2] <= exposed[x[1]]
        PROVE  x \in read \/ (\E i \in todo' : i.dir = x[1]) \/ it.dir = x[1]
    <3>1. x \in read \/ \E i \in todo : i.dir = x[1]
      BY <1>1, <1>2, <2>1 DEF RunOk, AllPending
    <3>2. QED
      BY <1>1, <3>1
  <2>2. at'.dir = it.dir
    BY <1>1
  <2>3. QED
    BY <1>1, <1>3, <2>1, <2>2 DEF AllPending
<1>17. RunOk'
  BY <1>11, <1>12, <1>14, <1>15, <1>16 DEF RunOk
<1>18. ReadingOk'
  <2>1. at'.dir = it.dir /\ at'.stream = it.stream /\ at'.date = it.date /\ at'.latest = it.latest
        /\ at'.file = f /\ at'.row = c.row
    BY <1>1, <1>5
  <2>2. PICK x : x = it.dir
    OBVIOUS
  <2>3. StreamOf(x)' = it.stream /\ DateOf(x)' = it.date /\ exposed'[x] = it.latest
    BY <1>1, <1>3, <1>6, <2>2
  <2>4. mem'[at'.stream] = n
    BY <1>7, <1>9, <2>1
  <2>5. AtNextFile(mem[at.stream], at.stream)'
    BY <1>11, <2>1, <2>4
  <2>6. QED
    BY <1>5, <1>13, <2>1, <2>2, <2>3, <2>4, <2>5 DEF ReadingOk
<1>19. QED
  BY <1>1, <1>11, <1>17, <1>18 DEF Inv

-----------------------------------------------------------------------------
(* The file being read, and the cursor of its stream.                      *)
LEMMA ReadFacts ==
  ASSUME Inv, ToldApart, pc = "read"
  PROVE  LET c == mem[at.stream]
         IN /\ at.dir \in Dirs /\ at.stream = StreamOf(at.dir) /\ at.stream \in Streams
            /\ at.date = DateOf(at.dir) /\ at.date \in Nat /\ at.latest = exposed[at.dir]
            /\ at.latest \in Nat /\ at.file \in Nat \ {0} /\ at.file \in 1 .. MaxFiles
            /\ at.file <= at.latest /\ at.latest <= index[at.dir] /\ index[at.dir] \in Nat
            /\ at.row \in Nat /\ at.row <= RowsPerFile /\ at.dir \in StreamDirs(at.stream)
            /\ c.curDate = at.date /\ c.curFile = at.file /\ c.row = at.row
            /\ AtNextFile(c, at.stream) /\ CursorOk(c, at.stream) /\ c \in Cursor
            /\ c.lastDate \in Nat /\ c.lastFile \in Nat /\ c.lastDate <= at.date
<1>1. TypeInv /\ RunOk /\ StateOk(mem) /\ ReadingOk
  BY DEF Inv, RunOk
<1>2. /\ at.dir \in Dirs /\ at.stream \in Streams /\ at.date \in Nat /\ at.latest \in 1 .. MaxFiles
      /\ at.file \in 1 .. MaxFiles /\ at.row \in 0 .. RowsPerFile /\ at.file <= at.latest
      /\ layout \in Layouts
  BY <1>1 DEF TypeInv, TypeOk
<1>3. /\ at.stream = StreamOf(at.dir) /\ at.date = DateOf(at.dir) /\ at.latest = exposed[at.dir]
      /\ mem[at.stream].curDate = at.date /\ mem[at.stream].curFile = at.file
      /\ mem[at.stream].row = at.row /\ AtNextFile(mem[at.stream], at.stream)
  BY <1>1 DEF ReadingOk
<1>4. exposed[at.dir] <= index[at.dir]
  BY <1>1, <1>2 DEF RunOk, ScanFinal
<1>5. /\ CursorOk(mem[at.stream], at.stream) /\ mem[at.stream] \in Cursor
      /\ mem[at.stream].lastDate \in Nat /\ mem[at.stream].lastFile \in Nat
      /\ index[at.dir] \in Nat /\ at.dir \in StreamDirs(at.stream)
  BY <1>1, <1>2, <1>3, CursorFacts
<1>6. at.latest \in Nat /\ at.file \in Nat \ {0} /\ at.row \in Nat /\ at.row <= RowsPerFile
  BY <1>2, LayoutType
<1>7. mem[at.stream].lastDate <= at.date
  <2>1. \/ mem[at.stream].curDate = mem[at.stream].lastDate
        \/ mem[at.stream].curDate > mem[at.stream].lastDate
    BY <1>3 DEF AtNextFile
  <2>2. QED
    BY <1>2, <1>3, <1>5, <2>1
<1>8. QED
  BY <1>2, <1>3, <1>4, <1>5, <1>6, <1>7

(* A cursor at its next file has all before that file behind it, and the   *)
(* first rows of that file.                                                *)
LEMMA BehindAt ==
  ASSUME TypeInv, ToldApart, NEW d \in Dirs, NEW c \in Cursor, AtNextFile(c, StreamOf(d)),
         c.curDate = DateOf(d),
         NEW x \in AllRows, StreamOf(x[1]) = StreamOf(d), x[2] <= index[x[1]]
  PROVE  Behind(c, x) <=> \/ DateOf(x[1]) < DateOf(d)
                          \/ x[1] = d /\ x[2] < c.curFile
                          \/ x[1] = d /\ x[2] = c.curFile /\ x[3] <= c.row
<1>1. /\ c.lastDate \in Nat /\ c.lastFile \in Nat /\ c.curDate \in Nat /\ c.curFile \in Nat /\ c.row \in Nat
  BY CursorNat
<1>2. /\ x[1] \in Dirs /\ x[2] \in Nat \ {0} /\ x[3] \in Nat \ {0} /\ DateOf(x[1]) \in Nat
      /\ index[x[1]] \in Nat /\ layout \in Layouts
  BY RowType DEF TypeInv, TypeOk
<1>3. \/ c.curDate = c.lastDate /\ c.curFile = c.lastFile + 1
      \/ c.curDate > c.lastDate /\ c.curFile = 1
  BY DEF AtNextFile
<1>4. DateOf(x[1]) = DateOf(d) <=> x[1] = d
  BY <1>2, OneDir
<1>5. ASSUME DateOf(x[1]) < DateOf(d)
      PROVE  DateOf(x[1]) < c.lastDate \/ (DateOf(x[1]) = c.lastDate /\ x[2] <= c.lastFile)
  <2>1. x[1] \in StreamDirs(StreamOf(d))
    BY <1>2 DEF StreamDirs
  <2>2. \/ index[x[1]] = 0
        \/ DateOf(x[1]) < c.lastDate
        \/ DateOf(x[1]) = c.lastDate /\ index[x[1]] <= c.lastFile
    BY <1>5, <2>1 DEF AtNextFile
  <2>3. QED
    BY <1>1, <1>2, <2>2
<1>6. CASE DateOf(x[1]) < DateOf(d)
  BY <1>5, <1>6 DEF Behind
<1>7. CASE x[1] = d
  BY <1>1, <1>2, <1>3, <1>7 DEF Behind
<1>8. CASE ~(DateOf(x[1]) < DateOf(d)) /\ x[1] # d
  <2>1. DateOf(x[1]) > c.curDate
    BY <1>1, <1>2, <1>4, <1>8
  <2>2. ~(DateOf(x[1]) < c.lastDate) /\ DateOf(x[1]) # c.lastDate /\ DateOf(x[1]) # c.curDate
    BY <2>1, <1>1, <1>2, <1>3
  <2>3. QED
    BY <1>8, <2>2 DEF Behind
<1>9. QED
  BY <1>6, <1>7, <1>8

(* Taking a row keeps the invariant, whether it is saved or not.           *)
LEMMA InvRead ==
  ASSUME Inv, TypeInv', ToldApart, ReadRow
  PROVE  Inv'
<1> DEFINE c == mem[at.stream]
<1>1. /\ pc = "read" /\ pc' = pc /\ at.row < RowsPerFile /\ todo' = todo /\ exposed' = exposed
      /\ layout' = layout /\ day' = day /\ index' = index /\ read' = read \cup {NextRow}
      /\ mem' = [mem EXCEPT ![at.stream] = [@ EXCEPT !.row = at.row + 1]]
      /\ at' = [at EXCEPT !.row = @ + 1]
      /\ (Save(mem') /\ acked' = read') \/ (saved' = saved /\ acked' = acked)
  BY DEF ReadRow
<1>2. TypeInv /\ DatesOk /\ RunOk /\ ReadingOk
  BY <1>1 DEF Inv
<1>3. /\ Dirs' = Dirs /\ AllRows' = AllRows /\ Streams' = Streams
      /\ \A x : DateOf(x)' = DateOf(x)
      /\ \A x : StreamOf(x)' = StreamOf(x)
  BY <1>1, SameDirs
<1>4. /\ at.dir \in Dirs /\ at.stream = StreamOf(at.dir) /\ at.stream \in Streams
      /\ at.date = DateOf(at.dir) /\ at.date \in Nat /\ at.latest = exposed[at.dir]
      /\ at.file \in Nat \ {0} /\ at.file \in 1 .. MaxFiles /\ at.latest \in Nat
      /\ at.file <= at.latest /\ at.latest <= index[at.dir] /\ index[at.dir] \in Nat /\ at.row \in Nat
      /\ c.curDate = at.date /\ c.curFile = at.file /\ c.row = at.row
      /\ AtNextFile(c, at.stream) /\ CursorOk(c, at.stream) /\ c \in Cursor
  BY <1>1, ReadFacts
<1>5. PICK n : n = [c EXCEPT !.row = at.row + 1]
  OBVIOUS
<1>6. PICK k, d, row : k = mem' /\ d = at.dir /\ row = NextRow
  OBVIOUS
<1>7. /\ n \in Cursor /\ n.curDate = at.date /\ n.curFile = at.file /\ n.row = at.row + 1
      /\ n.lastDate = c.lastDate /\ n.lastFile = c.lastFile
  <2> HIDE DEF c
  <2>1. n \in Cursor
    BY <1>4, <1>5 DEF Cursor
  <2>2. n.curDate = c.curDate
    BY <1>4, <1>5 DEF Cursor
  <2>3. n.curFile = c.curFile
    BY <1>4, <1>5 DEF Cursor
  <2>4. n.row = at.row + 1
    BY <1>4, <1>5 DEF Cursor
  <2>5. n.lastDate = c.lastDate
    BY <1>4, <1>5 DEF Cursor
  <2>6. n.lastFile = c.lastFile
    BY <1>4, <1>5 DEF Cursor
  <2>7. QED
    BY <1>4, <2>1, <2>2, <2>3, <2>4, <2>5, <2>6
<1>8. AtNextFile(n, at.stream)
  BY <1>4, <1>7 DEF AtNextFile
<1>9. CursorOk(n, at.stream)
  <2>1. n.row <= RowsPerFile
    BY <1>1, <1>2, <1>4, <1>7, LayoutType DEF TypeInv, TypeOk
  <2>2. QED
    BY <1>4, <1>7, <1>8, <2>1 DEF CursorOk
<1>10. k = [mem EXCEPT ![at.stream] = n]
  BY <1>1, <1>5, <1>6
<1> HIDE DEF c
<1>11. StateOk(k) /\ \A s \in Streams : k[s] = IF s = at.stream THEN n ELSE mem[s]
  <2>1. PICK m : m = mem
    OBVIOUS
  <2>2. StateOk(m) /\ d \in Dirs
    BY <1>2, <1>4, <1>6, <2>1 DEF RunOk
  <2>3. CursorOk(n, StreamOf(d)) /\ at.stream = StreamOf(d)
    BY <1>4, <1>6, <1>9
  <2>4. k = [m EXCEPT ![StreamOf(d)] = n]
    BY <1>10, <2>1, <2>3
  <2>5. StateOk(k)
    BY <1>2, <2>2, <2>3, <2>4, ReplacedCursor
  <2>6. \A s \in Streams : k[s] = IF s = StreamOf(d) THEN n ELSE m[s]
    BY <2>2, <2>4 DEF StateOk
  <2>7. QED
    BY <2>1, <2>3, <2>5, <2>6
<1>12. row \in AllRows /\ row[1] = d /\ row[2] = at.file /\ row[3] = at.row + 1
  <2>1. at.row + 1 \in 1 .. RowsPerFile
    BY <1>1, <1>2, <1>4, LayoutType DEF TypeInv, TypeOk
  <2>2. QED
    BY <1>4, <1>6, <2>1 DEF NextRow, AllRows
<1>13. ASSUME NEW x \in AllRows, x[2] <= index[x[1]]
       PROVE  Behind(k[StreamOf(x[1])], x) <=> Behind(mem[StreamOf(x[1])], x) \/ x = row
  <2>1. x[1] \in Dirs /\ StreamOf(x[1]) \in Streams
    BY <1>2, RowType, HomeType DEF TypeInv, TypeOk
  <2>2. CASE StreamOf(x[1]) # at.stream
    <3>1. x # row
      BY <1>4, <1>6, <1>12, <2>2
    <3>2. QED
      BY <1>11, <2>1, <2>2, <3>1
  <2>3. CASE StreamOf(x[1]) = at.stream
    <3>1. Behind(c, x) <=> \/ DateOf(x[1]) < DateOf(d)
                           \/ x[1] = d /\ x[2] < at.file
                           \/ x[1] = d /\ x[2] = at.file /\ x[3] <= at.row
      BY <1>2, <1>4, <1>6, <1>13, <2>3, BehindAt
    <3>2. Behind(n, x) <=> \/ DateOf(x[1]) < DateOf(d)
                           \/ x[1] = d /\ x[2] < at.file
                           \/ x[1] = d /\ x[2] = at.file /\ x[3] <= at.row + 1
      BY <1>2, <1>4, <1>6, <1>7, <1>8, <1>13, <2>3, BehindAt
    <3>3. x[3] \in Nat /\ x = <<x[1], x[2], x[3]>>
      BY <1>2, RowType
    <3>4. x = row <=> x[1] = d /\ x[2] = at.file /\ x[3] = at.row + 1
      BY <1>6, <1>12, <3>3 DEF NextRow
    <3>5. x[3] <= at.row + 1 <=> x[3] <= at.row \/ x[3] = at.row + 1
      BY <1>4, <3>3
    <3>6. k[StreamOf(x[1])] = n /\ mem[StreamOf(x[1])] = c
      BY <1>11, <2>1, <2>3 DEF c
    <3>7. QED
      BY <3>1, <3>2, <3>4, <3>5, <3>6
  <2>4. QED
    BY <2>2, <2>3
<1>14. Exact(read \cup {row}, k)
  <2>1. row[2] <= index[row[1]]
    BY <1>4, <1>6, <1>12
  <2>2. read = {x \in AllRows : x[2] <= index[x[1]] /\ Behind(mem[StreamOf(x[1])], x)}
    BY <1>2 DEF RunOk, Exact
  <2>3. read \cup {row} = {x \in AllRows : x[2] <= index[x[1]] /\ Behind(k[StreamOf(x[1])], x)}
    BY <1>12, <1>13, <2>1, <2>2
  <2>4. QED
    BY <2>3 DEF Exact
<1>15. DatesOk' /\ StateOk(mem)' /\ Exact(read, mem)' /\ AtNextFile(n, at.stream)'
  <2>1. PICK r, s : r = read \cup {row} /\ s = at.stream
    OBVIOUS
  <2>2. DatesOk' /\ StateOk(k)' /\ Exact(r, k)' /\ AtNextFile(n, s)'
    BY <1>1, <1>2, <1>8, <1>11, <1>14, <2>1, SameBucket
  <2>3. r = read' /\ s = at'.stream
    BY <1>1, <1>2, <1>6, <2>1 DEF TypeInv
  <2>4. QED
    BY <1>6, <2>2, <2>3
<1>16. StateOk(Migrated(saved))' /\ Exact(acked, Migrated(saved))'
  <2>1. CASE Save(mem') /\ acked' = read'
    <3>1. Save(k)
      BY <1>6, <2>1
    <3>2. Migrated(saved)' = k
      BY <1>1, <1>2, <3>1, SavedCursors
    <3>3. QED
      BY <1>6, <1>15, <2>1, <3>2
  <2>2. CASE saved' = saved /\ acked' = acked
    <3>1. PICK m, a : m = Migrated(saved) /\ a = acked
      OBVIOUS
    <3>2. StateOk(m)' /\ Exact(a, m)'
      BY <1>1, <3>1, SameBucket DEF Inv
    <3>3. Migrated(saved)' = m
      BY <1>1, <2>2, <3>1, SameMigrated
    <3>4. QED
      BY <2>2, <3>1, <3>2, <3>3
  <2>3. QED
    BY <1>1, <2>1, <2>2
<1>17. at'.dir = at.dir /\ at'.stream = at.stream /\ at'.date = at.date /\ at'.latest = at.latest
       /\ at'.file = at.file /\ at'.row = at.row + 1
  BY <1>1, <1>2 DEF TypeInv
<1>18. ScanFinal'
  BY <1>1, <1>2, <1>3 DEF RunOk, ScanFinal
<1>19. ASSUME NEW i \in todo'
       PROVE  ItemOk(i)'
  <2>1. /\ i.dir \in Dirs /\ i.stream = StreamOf(i.dir) /\ i.date = DateOf(i.dir)
        /\ i.latest = exposed[i.dir] /\ i.stream \in Streams /\ i.date \in Nat
        /\ i.date >= mem[i.stream].lastDate /\ (mem[i.stream].row > 0 => i.date >= mem[i.stream].curDate)
    BY <1>1, ItemFacts
  <2>2. i.stream = at.stream => i.date > at.date
    BY <1>1, <1>2 DEF ReadingOk
  <2>3. i.date >= k[i.stream].lastDate /\ (k[i.stream].row > 0 => i.date >= k[i.stream].curDate)
    BY <1>4, <1>7, <1>11, <2>1, <2>2 DEF c
  <2>4. QED
    BY <1>1, <1>3, <1>6, <2>1, <2>3 DEF ItemOk
<1>20. Resumes'
  BY <1>1, <1>2, <1>3, <1>6, <1>11, <1>17 DEF RunOk, Resumes
<1>21. AllPending'
  BY <1>1, <1>2, <1>3, <1>17 DEF RunOk, AllPending
<1>22. RunOk'
  BY <1>15, <1>18, <1>19, <1>20, <1>21 DEF RunOk
<1>23. ReadingOk'
  <2>1. StreamOf(d)' = at.stream /\ DateOf(d)' = at.date /\ exposed'[d] = at.latest
    BY <1>1, <1>3, <1>4, <1>6
  <2>2. mem'[at'.stream] = n
    BY <1>4, <1>6, <1>11, <1>17
  <2>3. AtNextFile(mem[at.stream], at.stream)'
    BY <1>15, <2>2
  <2>4. \A i \in todo' : i.stream = at'.stream => i.date > at'.date
    BY <1>1, <1>2, <1>17 DEF ReadingOk
  <2>5. QED
    BY <1>4, <1>6, <1>7, <1>17, <2>1, <2>2, <2>3, <2>4 DEF ReadingOk
<1>24. QED
  BY <1>1, <1>15, <1>16, <1>22, <1>23 DEF Inv

(* The cursor of a finished file has behind it what it had, and stands in  *)
(* the bucket.                                                             *)
LEMMA DoneCursor ==
  ASSUME Inv, ToldApart, pc = "read", at.row = RowsPerFile,
         NEW n \in Cursor, n.lastDate = at.date, n.lastFile = at.file, n.row = 0
  PROVE  /\ CursorOk(n, at.stream)
         /\ \A x \in AllRows : x[2] <= index[x[1]] /\ StreamOf(x[1]) = at.stream =>
              (Behind(mem[at.stream], x) <=> Behind(n, x))
<1> DEFINE c == mem[at.stream]
<1>1. TypeInv /\ DatesOk /\ layout \in Layouts
  BY DEF Inv, TypeInv, TypeOk
<1>2. /\ at.dir \in Dirs /\ at.stream = StreamOf(at.dir) /\ at.stream \in Streams
      /\ at.date = DateOf(at.dir) /\ at.date \in Nat /\ at.file \in Nat \ {0} /\ at.latest \in Nat
      /\ at.file <= at.latest /\ at.latest <= index[at.dir] /\ index[at.dir] \in Nat /\ at.row \in Nat
      /\ c.curDate = at.date /\ c.curFile = at.file /\ c.row = at.row
      /\ AtNextFile(c, at.stream) /\ c \in Cursor
  BY ReadFacts
<1>3. index[at.dir] > 0 /\ at.file <= index[at.dir]
  BY <1>2
<1>4. at.date <= day
  BY <1>1, <1>2, <1>3 DEF DatesOk
<1>5. layout.sep = "none" => at.date = 0
  BY <1>1, <1>2, DateType
<1>6. \A y \in StreamDirs(at.stream) : DateOf(y) = at.date => at.file <= index[y]
  <2>1. ASSUME NEW y \in StreamDirs(at.stream), DateOf(y) = at.date
        PROVE  y = at.dir
    BY <1>1, <1>2, <2>1, OneDir DEF StreamDirs
  <2>2. QED
    BY <1>3, <2>1
<1>7. n.row <= RowsPerFile /\ ~(n.row > 0)
  BY <1>1, LayoutType
<1>8. CursorOk(n, at.stream)
  BY <1>4, <1>5, <1>6, <1>7 DEF CursorOk
<1>9. ASSUME NEW x \in AllRows, x[2] <= index[x[1]], StreamOf(x[1]) = at.stream
      PROVE  Behind(c, x) <=> Behind(n, x)
  <2> HIDE DEF c
  <2>1. PICK d : d = at.dir
    OBVIOUS
  <2>2. Behind(c, x) <=> \/ DateOf(x[1]) < DateOf(d)
                         \/ x[1] = d /\ x[2] < at.file
                         \/ x[1] = d /\ x[2] = at.file /\ x[3] <= at.row
    BY <1>1, <1>2, <1>9, <2>1, BehindAt
  <2>3. /\ x[1] \in Dirs /\ x[2] \in Nat /\ x[3] \in Nat /\ x[3] <= RowsPerFile
        /\ DateOf(x[1]) \in Nat
    BY <1>1, RowType
  <2>4. DateOf(x[1]) = DateOf(d) <=> x[1] = d
    BY <1>1, <1>2, <1>9, <2>1, <2>3, OneDir
  <2>5. Behind(n, x) <=> \/ DateOf(x[1]) < DateOf(d)
                         \/ DateOf(x[1]) = DateOf(d) /\ x[2] <= at.file
    BY <1>2, <1>7, <2>1 DEF Behind
  <2>6. x[2] <= at.file <=> x[2] < at.file \/ x[2] = at.file
    BY <1>2, <2>3
  <2>7. QED
    BY <2>2, <2>3, <2>4, <2>5, <2>6
<1>10. QED
  BY <1>8, <1>9

(* And it is as exact, with what follows of the file after it.             *)
LEMMA DoneState ==
  ASSUME Inv, ToldApart, pc = "read", at.row = RowsPerFile,
         NEW n \in Cursor, n.lastDate = at.date, n.lastFile = at.file, n.row = 0,
         NEW k, k = [mem EXCEPT ![at.stream] = n]
  PROVE  StateOk(k) /\ Exact(read, k)
<1>1. TypeInv /\ StateOk(mem) /\ Exact(read, mem) /\ layout \in Layouts
  BY DEF Inv, RunOk, TypeInv, TypeOk
<1>2. at.dir \in Dirs /\ at.stream = StreamOf(at.dir) /\ at.stream \in Streams
  BY ReadFacts
<1>3. /\ CursorOk(n, at.stream)
      /\ \A x \in AllRows : x[2] <= index[x[1]] /\ StreamOf(x[1]) = at.stream =>
           (Behind(mem[at.stream], x) <=> Behind(n, x))
  BY DoneCursor
<1>4. \A s \in Streams : k[s] = IF s = at.stream THEN n ELSE mem[s]
  BY <1>1 DEF StateOk
<1>5. StateOk(k)
  <2>1. PICK m, d : m = mem /\ d = at.dir
    OBVIOUS
  <2>2. d \in Dirs /\ StateOk(m) /\ at.stream = StreamOf(d)
    BY <1>1, <1>2, <2>1
  <2>3. CursorOk(n, StreamOf(d))
    BY <1>3, <2>2
  <2>4. PICK j : j = [m EXCEPT ![StreamOf(d)] = n]
    OBVIOUS
  <2>5. StateOk(j)
    BY <1>1, <2>2, <2>3, <2>4, ReplacedCursor
  <2>6. j = k
    BY <2>1, <2>2, <2>4
  <2>7. QED
    BY <2>5, <2>6
<1>6. \A x \in AllRows : x[2] <= index[x[1]] =>
        (Behind(mem[StreamOf(x[1])], x) <=> Behind(k[StreamOf(x[1])], x))
  <2> SUFFICES ASSUME NEW x \in AllRows, x[2] <= index[x[1]]
               PROVE  Behind(mem[StreamOf(x[1])], x) <=> Behind(k[StreamOf(x[1])], x)
    OBVIOUS
  <2>1. StreamOf(x[1]) \in Streams
    BY <1>1, RowType, HomeType
  <2>2. CASE StreamOf(x[1]) = at.stream
    BY <1>3, <1>4, <2>1, <2>2
  <2>3. CASE StreamOf(x[1]) # at.stream
    BY <1>4, <2>1, <2>3
  <2>4. QED
    BY <2>2, <2>3
<1>7. QED
  BY <1>1, <1>5, <1>6, ExactIf

(* Finishing a file keeps the invariant, whether another follows or not.   *)
LEMMA InvFinish ==
  ASSUME Inv, TypeInv', ToldApart, FinishFile
  PROVE  Inv'
<1>1. PICK done, next :
        /\ done = [lastDate |-> at.date, lastFile |-> at.file, curDate |-> 0,
                   curFile |-> at.file, row |-> 0]
        /\ next = [done EXCEPT !.curDate = at.date, !.curFile = at.file + 1]
  OBVIOUS
<1>2. PICK n : n = IF at.file < at.latest THEN next ELSE done
  OBVIOUS
<1>3. /\ pc = "read" /\ at.row = RowsPerFile /\ todo' = todo /\ exposed' = exposed
      /\ layout' = layout /\ day' = day /\ index' = index /\ read' = read /\ acked' = read
      /\ mem' = [mem EXCEPT ![at.stream] = n]
      /\ at' = IF at.file < at.latest THEN [at EXCEPT !.file = @ + 1, !.row = 0] ELSE Nowhere
      /\ pc' = IF at.file < at.latest THEN "read" ELSE "work"
  BY <1>1, <1>2 DEF FinishFile
<1>4. Save([mem EXCEPT ![at.stream] = done])
  BY <1>1 DEF FinishFile
<1>5. TypeInv /\ DatesOk /\ RunOk /\ ReadingOk
  BY <1>3 DEF Inv
<1>6. /\ Dirs' = Dirs /\ AllRows' = AllRows /\ Streams' = Streams
      /\ \A x : DateOf(x)' = DateOf(x)
      /\ \A x : StreamOf(x)' = StreamOf(x)
  BY <1>3, SameDirs
<1>7. /\ at.dir \in Dirs /\ at.stream = StreamOf(at.dir) /\ at.stream \in Streams
      /\ at.date = DateOf(at.dir) /\ at.date \in Nat /\ at.latest = exposed[at.dir]
      /\ at.file \in Nat \ {0} /\ at.latest \in Nat /\ at.dir \in StreamDirs(at.stream)
      /\ at.file <= at.latest /\ at.latest <= index[at.dir] /\ index[at.dir] \in Nat
  BY <1>3, ReadFacts
<1>8. done \in Cursor /\ done.lastDate = at.date /\ done.lastFile = at.file /\ done.row = 0
  BY <1>1, <1>7 DEF Cursor
<1>9. /\ next \in Cursor /\ next.lastDate = at.date /\ next.lastFile = at.file /\ next.row = 0
      /\ next.curDate = at.date /\ next.curFile = at.file + 1
  <2>1. next = [lastDate |-> at.date, lastFile |-> at.file, curDate |-> at.date,
                curFile |-> at.file + 1, row |-> 0]
    BY <1>1
  <2>2. QED
    BY <1>7, <2>1 DEF Cursor
<1>10. n \in Cursor /\ n.lastDate = at.date /\ n.lastFile = at.file /\ n.row = 0
  BY <1>2, <1>8, <1>9
<1>11. PICK k, m, d : k = mem' /\ m = [mem EXCEPT ![at.stream] = done] /\ d = at.dir
  OBVIOUS
<1>12. StateOk(k) /\ Exact(read, k) /\ \A s \in Streams : k[s] = IF s = at.stream THEN n ELSE mem[s]
  <2>1. k = [mem EXCEPT ![at.stream] = n]
    BY <1>3, <1>11
  <2>2. StateOk(k)
    BY <1>3, <1>10, <2>1, DoneState
  <2>3. Exact(read, k)
    BY <1>3, <1>10, <2>1, DoneState
  <2>4. \A s \in Streams : k[s] = IF s = at.stream THEN n ELSE mem[s]
    BY <1>5, <2>1 DEF RunOk, StateOk
  <2>5. QED
    BY <2>2, <2>3, <2>4
<1>13. StateOk(m) /\ Exact(read, m)
  BY <1>3, <1>8, <1>11, DoneState
<1>14. DatesOk' /\ StateOk(mem)' /\ Exact(read, mem)' /\ StateOk(Migrated(saved))'
       /\ Exact(acked, Migrated(saved))'
  <2>1. PICK r : r = read
    OBVIOUS
  <2>2. DatesOk' /\ StateOk(k)' /\ Exact(r, k)' /\ StateOk(m)' /\ Exact(r, m)'
    BY <1>3, <1>5, <1>12, <1>13, <2>1, SameBucket
  <2>3. Migrated(saved)' = m
    BY <1>3, <1>4, <1>5, <1>11, SavedCursors
  <2>4. QED
    BY <1>3, <1>11, <2>1, <2>2, <2>3
<1>15. ScanFinal'
  BY <1>3, <1>5, <1>6 DEF RunOk, ScanFinal
<1>16. ASSUME NEW i \in todo'
       PROVE  ItemOk(i)'
  <2>1. /\ i.dir \in Dirs /\ i.stream = StreamOf(i.dir) /\ i.date = DateOf(i.dir)
        /\ i.latest = exposed[i.dir] /\ i.stream \in Streams /\ i.date \in Nat
        /\ i.date >= mem[i.stream].lastDate /\ (mem[i.stream].row > 0 => i.date >= mem[i.stream].curDate)
    BY <1>3, ItemFacts
  <2>2. i.stream = at.stream => i.date > at.date
    BY <1>3, <1>5 DEF ReadingOk
  <2>3. i.date >= k[i.stream].lastDate /\ (k[i.stream].row > 0 => i.date >= k[i.stream].curDate)
    BY <1>7, <1>10, <1>12, <2>1, <2>2
  <2>4. QED
    BY <1>3, <1>6, <1>11, <2>1, <2>3 DEF ItemOk
<1>17. Resumes'
  <2>1. ASSUME NEW s \in Streams, k[s].row > 0
        PROVE  \E i \in todo : i.stream = s /\ i.date = k[s].curDate /\ k[s].curFile <= i.latest
    <3>1. s # at.stream /\ k[s] = mem[s]
      BY <1>10, <1>12, <2>1
    <3>2. QED
      BY <1>5, <2>1, <3>1 DEF RunOk, Resumes
  <2>2. QED
    BY <1>3, <1>6, <1>11, <2>1 DEF Resumes
<1>18. at.file < at.latest => /\ at'.dir = at.dir /\ at'.stream = at.stream /\ at'.date = at.date
                              /\ at'.latest = at.latest /\ at'.file = at.file + 1 /\ at'.row = 0
  BY <1>3, <1>5 DEF TypeInv
<1>19. AllPending'
  <2>1. ASSUME NEW x \in AllRows, x[2] <= exposed[x[1]]
        PROVE  x \in read \/ (\E i \in todo : i.dir = x[1]) \/ (at.file < at.latest /\ at.dir = x[1])
    <3>1. CASE x[1] = at.dir /\ ~(at.file < at.latest)
      <4>1. x[2] \in Nat /\ x[2] <= at.file /\ x[2] <= index[x[1]]
        BY <1>1, <1>5, <1>7, <2>1, <3>1, RowType
      <4>2. k[at.stream] = n /\ at.stream = StreamOf(x[1])
        BY <1>7, <1>12, <3>1
      <4>3. Behind(n, x)
        BY <1>7, <1>10, <3>1, <4>1 DEF Behind
      <4>4. QED
        BY <1>12, <4>1, <4>2, <4>3 DEF Exact
    <3>2. CASE x[1] # at.dir \/ at.file < at.latest
      BY <1>5, <2>1, <3>2 DEF RunOk, AllPending
    <3>3. QED
      BY <3>1, <3>2
  <2>2. QED
    BY <1>3, <1>6, <1>18, <2>1 DEF AllPending
<1>20. RunOk'
  BY <1>14, <1>15, <1>16, <1>17, <1>19 DEF RunOk
<1>21. ASSUME at.file < at.latest
       PROVE  ReadingOk'
  <2>1. StreamOf(d)' = at.stream /\ DateOf(d)' = at.date /\ exposed'[d] = at.latest
    BY <1>3, <1>6, <1>7, <1>11
  <2>2. mem'[at'.stream] = next
    BY <1>2, <1>7, <1>11, <1>12, <1>18, <1>21
  <2>3. AtNextFile(next, at.stream)
    <3>1. at.file + 1 \in 1 .. index[at.dir]
      BY <1>1, <1>7, <1>21
    <3>2. \E x \in StreamDirs(at.stream) : DateOf(x) = next.curDate /\ next.curFile \in 1 .. index[x]
      BY <1>7, <1>9, <3>1
    <3>3. QED
      BY <1>9, <3>2 DEF AtNextFile
  <2>4. PICK s : s = at.stream
    OBVIOUS
  <2>5. AtNextFile(next, s)'
    BY <1>3, <2>3, <2>4, SameBucket
  <2>6. AtNextFile(mem[at.stream], at.stream)'
    BY <1>18, <1>21, <2>2, <2>4, <2>5
  <2>7. \A i \in todo' : i.stream = at'.stream => i.date > at'.date
    BY <1>3, <1>5, <1>18, <1>21 DEF ReadingOk
  <2>8. QED
    BY <1>9, <1>11, <1>18, <1>21, <2>1, <2>2, <2>6, <2>7 DEF ReadingOk
<1>22. QED
  <2>1. pc' = "read" => at.file < at.latest
    BY <1>3
  <2>2. pc' # "idle" /\ read' = acked'
    BY <1>3
  <2>3. QED
    BY <1>14, <1>20, <1>21, <2>1, <2>2 DEF Inv

(* Nor does the end of a run, whichever way it comes, break it.            *)
LEMMA InvStop ==
  ASSUME Inv, TypeInv', ToldApart, StopAtCheckpoint \/ FinishRun \/ Crash
  PROVE  Inv'
<1>1. /\ pc # "idle" /\ pc' = "idle" /\ layout' = layout /\ day' = day /\ index' = index
      /\ read' = acked'
  BY DEF StopAtCheckpoint, FinishRun, Crash, RunOver
<1>2. TypeInv /\ DatesOk /\ RunOk
  BY <1>1 DEF Inv
<1>3. PICK r, k : r = read /\ k = mem
  OBVIOUS
<1>4. StateOk(k) /\ Exact(r, k)
  BY <1>2, <1>3 DEF RunOk
<1>5. DatesOk' /\ StateOk(k)' /\ Exact(r, k)'
  BY <1>1, <1>2, <1>4, SameBucket
<1>6. ASSUME Save(mem), acked' = read
      PROVE  StateOk(Migrated(saved))' /\ Exact(acked, Migrated(saved))'
  <2>1. Migrated(saved)' = k
    BY <1>1, <1>2, <1>3, <1>6, SavedCursors
  <2>2. QED
    BY <1>3, <1>5, <1>6, <2>1
<1>7. ASSUME saved' = saved, acked' = acked
      PROVE  StateOk(Migrated(saved))' /\ Exact(acked, Migrated(saved))'
  <2>1. PICK m, a : m = Migrated(saved) /\ a = acked
    OBVIOUS
  <2>2. StateOk(m)' /\ Exact(a, m)'
    BY <1>1, <2>1, SameBucket DEF Inv
  <2>3. Migrated(saved)' = m
    BY <1>1, <1>7, <2>1, SameMigrated
  <2>4. QED
    BY <1>7, <2>1, <2>2, <2>3
<1>8. CASE StopAtCheckpoint
  <2>1. /\ pc = "read" /\ acked' = read
        /\ Save([mem EXCEPT ![at.stream] =
                   [@ EXCEPT !.curDate = at.date, !.curFile = at.file, !.row = at.row]])
    BY <1>8 DEF StopAtCheckpoint
  <2>2. /\ mem[at.stream].curDate = at.date /\ mem[at.stream].curFile = at.file
        /\ mem[at.stream].row = at.row /\ mem[at.stream] \in Cursor
    BY <2>1, ReadFacts
  <2>3. PICK c : c = mem[at.stream]
    OBVIOUS
  <2>4. [c EXCEPT !.curDate = at.date, !.curFile = at.file, !.row = at.row] = c
    BY <2>2, <2>3 DEF Cursor
  <2>5. mem = [s \in Streams |-> mem[s]]
    BY <1>2 DEF RunOk, StateOk
  <2>6. [mem EXCEPT ![at.stream] = c] = mem
    BY <2>3, <2>5
  <2>7. Save(mem)
    BY <2>1, <2>3, <2>4, <2>6
  <2>8. QED
    BY <1>1, <1>5, <1>6, <2>1, <2>7 DEF Inv
<1>9. CASE FinishRun
  <2>1. pc = "work" /\ acked' = read /\ (Save(mem) \/ saved' = saved)
    BY <1>9 DEF FinishRun
  <2>2. read = acked
    BY <2>1 DEF Inv
  <2>3. QED
    BY <1>1, <1>5, <1>6, <1>7, <2>1, <2>2 DEF Inv
<1>10. CASE Crash
  <2>1. saved' = saved /\ acked' = acked
    BY <1>10 DEF Crash
  <2>2. QED
    BY <1>1, <1>5, <1>7, <2>1 DEF Inv
<1>11. QED
  BY <1>8, <1>9, <1>10

-----------------------------------------------------------------------------
(* Files are of RowsPerFile rows: products of it are as their factors.     *)
LEMMA Product ==
  ASSUME NEW R \in Nat \ {0}, NEW a \in Nat, NEW b \in Nat
  PROVE  /\ R * a \in Nat /\ R * (a + 1) = R * a + R
         /\ a <= b => R * a <= R * b
         /\ a < b => R * a + R <= R * b
<1>1. R * a \in Nat /\ R * b \in Nat /\ R * (a + 1) = R * a + R
  OBVIOUS
<1>2. a <= b => R * a <= R * b
  OBVIOUS
<1>3. a + 1 <= b => R * (a + 1) <= R * b
  OBVIOUS
<1>4. QED
  BY <1>1, <1>2, <1>3

(* There is one way to divide.                                             *)
LEMMA DivisionIs ==
  ASSUME NEW R \in Nat \ {0}, NEW q \in Nat, NEW m \in 0 .. R - 1
  PROVE  (R * q + m) \div R = q
<1>1. PICK n \in Nat : n = R * q + m
  BY Product
<1>2. PICK p \in Nat, t \in 0 .. R - 1 : p = n \div R /\ t = n % R /\ n = R * p + t
  BY Division
<1>3. ~(p < q)
  <2>1. p < q => R * p + R <= R * q
    BY Product
  <2>2. QED
    BY <1>1, <1>2, <2>1, Product
<1>4. ~(q < p)
  <2>1. q < p => R * q + R <= R * p
    BY Product
  <2>2. QED
    BY <1>1, <1>2, <2>1, Product
<1>5. QED
  BY <1>1, <1>2, <1>3, <1>4

(* The entry of an index path of which the first u rows were read names    *)
(* its whole files, and the rows of the file after them.                   *)
LEMMA EntryRows ==
  ASSUME layout \in Layouts, NEW u \in Nat, NEW i \in Nat, u <= RowsPerFile * i,
         NEW f \in Nat \ {0}, NEW r \in 1 .. RowsPerFile
  PROVE  LET e == LegacyEntry(u)
         IN /\ e.lastFile \in Nat /\ e.row \in Nat /\ e.lastFile <= i
            /\ e.row > 0 => e.curFile = e.lastFile + 1 /\ e.curFile <= i
            /\ (f - 1) * RowsPerFile + r <= u
                 <=> f <= e.lastFile \/ (e.row > 0 /\ f = e.curFile /\ r <= e.row)
<1>1. PICK R \in Nat \ {0} : R = RowsPerFile
  BY LayoutType
<1>2. PICK q \in Nat, m \in 0 .. R - 1 : q = u \div R /\ m = u % R /\ u = R * q + m
  BY Division
<1>3. LegacyEntry(u).lastFile = q /\ LegacyEntry(u).row = m
      /\ LegacyEntry(u).curFile = (u + R - 1) \div R
  BY <1>1, <1>2 DEF LegacyEntry
<1>4. q <= i
  <2>1. i < q => R * i + R <= R * q
    BY Product
  <2>2. R * i \in Nat /\ R * q \in Nat
    BY Product
  <2>3. QED
    BY <1>1, <1>2, <2>1, <2>2
<1>5. m > 0 => (u + R - 1) \div R = q + 1 /\ q + 1 <= i
  <2> SUFFICES ASSUME m > 0 PROVE (u + R - 1) \div R = q + 1 /\ q + 1 <= i
    OBVIOUS
  <2>1. R * (q + 1) = R * q + R /\ R * q \in Nat /\ R * i \in Nat
    BY Product
  <2>2. u + R - 1 = R * (q + 1) + (m - 1)
    BY <1>2, <2>1
  <2>3. (R * (q + 1) + (m - 1)) \div R = q + 1
    <3>1. q + 1 \in Nat /\ m - 1 \in 0 .. R - 1
      OBVIOUS
    <3>2. QED
      BY <3>1, DivisionIs
  <2>4. i <= q => R * i <= R * q
    BY Product
  <2>5. QED
    BY <1>1, <1>2, <2>1, <2>2, <2>3, <2>4
<1>6. (f - 1) * R + r <= u <=> f <= q \/ (m > 0 /\ f = q + 1 /\ r <= m)
  <2>1. PICK g \in Nat : g = f - 1
    OBVIOUS
  <2>2. PICK A \in Nat, B \in Nat : A = R * g /\ B = R * q
    BY Product
  <2>3. (g < q => A + R <= B) /\ (q < g => B + R <= A) /\ (g = q => A = B)
    BY <2>2, Product
  <2>4. (f - 1) * R = A /\ u = B + m
    BY <1>2, <2>1, <2>2
  <2>5. A + r <= B + m <=> g < q \/ (m > 0 /\ g = q /\ r <= m)
    BY <1>1, <2>3
  <2>6. (f <= q <=> g < q) /\ (f = q + 1 <=> g = q)
    BY <2>1
  <2>7. QED
    BY <2>4, <2>5, <2>6
<1>7. QED
  BY <1>1, <1>3, <1>4, <1>5, <1>6

(* A stream with no cursor of its own gets the furthest on of the earlier  *)
(* release's, if there is one.                                             *)
LEMMA MigratedBest ==
  ASSUME layout \in Layouts, NEW st, StateType(st), NEW s \in Streams, st.cursors[s] = NoCursor
  PROVE  /\ Found(st, s) = {} => Migrated(st)[s] = NoCursor
         /\ Found(st, s) # {} => /\ Migrated(st)[s] \in Found(st, s)
                                 /\ \A other \in Found(st, s) : NotBehind(Migrated(st)[s], other)
<1> DEFINE Best(F) == CHOOSE c \in F : \A other \in F : NotBehind(c, other)
<1>1. Migrated(st)[s] = IF Found(st, s) # {} /\ NotBehind(Best(Found(st, s)), st.cursors[s])
                        THEN Best(Found(st, s)) ELSE st.cursors[s]
  BY DEF Migrated, Found
<1>2. ASSUME Found(st, s) # {}
      PROVE  /\ Best(Found(st, s)) \in Found(st, s)
             /\ \A other \in Found(st, s) : NotBehind(Best(Found(st, s)), other)
  <2>1. \E c \in Found(st, s) : \A other \in Found(st, s) : NotBehind(c, other)
    BY <1>2, FoundType, FurthestExists
  <2>2. QED
    BY <2>1
<1>3. ASSUME NEW c \in Cursor
      PROVE  NotBehind(c, NoCursor)
  BY CursorNat DEF NotBehind, NoCursor
<1> HIDE DEF Best
<1>4. QED
  BY <1>1, <1>2, <1>3, FoundType

(* A cursor that has never moved has nothing behind it.                    *)
LEMMA NoCursorOk ==
  ASSUME TypeInv, NEW s
  PROVE  /\ CursorOk(NoCursor, s)
         /\ \A x \in AllRows : ~Behind(NoCursor, x)
<1>1. day \in Nat /\ layout \in Layouts /\ \A y \in StreamDirs(s) : index[y] \in Nat
  BY ScanAssumption DEF TypeInv, TypeOk, StreamDirs
<1>2. NoCursor \in Cursor /\ NoCursor.row = 0 /\ NoCursor.lastDate = 0 /\ NoCursor.lastFile = 0
  BY DEF NoCursor, Cursor
<1>3. 0 <= RowsPerFile /\ 0 <= day
  BY <1>1, LayoutType
<1>4. CursorOk(NoCursor, s)
  BY <1>1, <1>2, <1>3 DEF CursorOk
<1>5. ASSUME NEW x \in AllRows
      PROVE  ~Behind(NoCursor, x)
  <2>1. DateOf(x[1]) \in Nat /\ x[2] \in Nat \ {0}
    BY RowType
  <2>2. QED
    BY <1>2, <2>1 DEF Behind
<1>6. QED
  BY <1>4, <1>5

(* What the earlier release had read, directory by directory.              *)
UpTo(upto) ==
  /\ upto \in [Dirs -> IF layout.legacy THEN 0 .. MaxFiles * RowsPerFile ELSE {0}]
  /\ \A dir \in Dirs : upto[dir] <= RowsPerFile * index[dir]
  /\ InOrder(upto)
  /\ read = UNION {RowsUpTo(dir, upto[dir]) : dir \in Dirs}
  /\ saved = [cursors |-> [s \in Streams |-> NoCursor],
              legacy |-> [dir \in {x \in Dirs : upto[x] > 0} |-> LegacyEntry(upto[dir])]]

(* The rows read then, and the entries saved.                              *)
LEMMA UpToFacts ==
  ASSUME TypeInv, NEW upto, UpTo(upto)
  PROVE  /\ \A dir \in Dirs : upto[dir] \in Nat
         /\ \A x \in AllRows : x \in read <=> (x[2] - 1) * RowsPerFile + x[3] <= upto[x[1]]
         /\ \A s \in Streams : saved.cursors[s] = NoCursor
         /\ DOMAIN saved.legacy = {x \in Dirs : upto[x] > 0}
         /\ \A x \in Dirs : upto[x] > 0 => saved.legacy[x] = LegacyEntry(upto[x])
<1>1. \A dir \in Dirs : upto[dir] \in Nat
  <2>1. (IF layout.legacy THEN 0 .. MaxFiles * RowsPerFile ELSE {0}) \subseteq Nat
    OBVIOUS
  <2>2. QED
    BY <2>1 DEF UpTo
<1>2. ASSUME NEW x \in AllRows
      PROVE  x \in read <=> (x[2] - 1) * RowsPerFile + x[3] <= upto[x[1]]
  <2>1. x[1] \in Dirs /\ x[2] \in 1 .. MaxFiles /\ x[3] \in 1 .. RowsPerFile /\ x = <<x[1], x[2], x[3]>>
    BY DEF AllRows
  <2>2. \A dir \in Dirs : \A n : x \in RowsUpTo(dir, n) => dir = x[1]
    BY DEF RowsUpTo
  <2>3. \A n : x \in RowsUpTo(x[1], n) <=> (x[2] - 1) * RowsPerFile + x[3] <= n
    <3> SUFFICES ASSUME NEW n
                 PROVE  x \in RowsUpTo(x[1], n) <=> (x[2] - 1) * RowsPerFile + x[3] <= n
      OBVIOUS
    <3>1. PICK p : p = <<x[2], x[3]>>
      OBVIOUS
    <3>2. p \in (1 .. MaxFiles) \X (1 .. RowsPerFile) /\ p[1] = x[2] /\ p[2] = x[3]
      BY <2>1, <3>1
    <3>3. x = <<x[1], p[1], p[2]>>
      BY <2>1, <3>2
    <3>4. \A q \in (1 .. MaxFiles) \X (1 .. RowsPerFile) :
            x = <<x[1], q[1], q[2]>> => q[1] = x[2] /\ q[2] = x[3]
      BY <2>1
    <3>5. QED
      BY <3>2, <3>3, <3>4 DEF RowsUpTo
  <2>4. x \in read <=> \E dir \in Dirs : x \in RowsUpTo(dir, upto[dir])
    BY DEF UpTo
  <2>5. QED
    BY <2>1, <2>2, <2>3, <2>4
<1>3. /\ saved.cursors = [s \in Streams |-> NoCursor]
      /\ saved.legacy = [dir \in {x \in Dirs : upto[x] > 0} |-> LegacyEntry(upto[dir])]
  BY DEF UpTo
<1>4. QED
  BY <1>1, <1>2, <1>3

(* Nothing had been read: no stream has moved.                             *)
LEMMA InitFresh ==
  ASSUME TypeInv, NEW upto, UpTo(upto), \A x \in Dirs : upto[x] = 0
  PROVE  StateOk(Migrated(saved)) /\ Exact(read, Migrated(saved))
<1>1. layout \in Layouts /\ StateType(saved)
  BY DEF TypeInv, TypeOk
<1>2. \A s \in Streams : Migrated(saved)[s] = NoCursor
  <2> SUFFICES ASSUME NEW s \in Streams PROVE Migrated(saved)[s] = NoCursor
    OBVIOUS
  <2>1. saved.cursors[s] = NoCursor
    BY UpToFacts
  <2>2. DOMAIN saved.legacy = {}
    BY UpToFacts
  <2>3. Found(saved, s) = {}
    BY <2>2 DEF Found
  <2>4. QED
    BY <1>1, <2>1, <2>3, MigratedBest
<1>3. 0 \in Streams
  BY DEF Streams
<1>4. StateOk(Migrated(saved))
  <2>1. Migrated(saved) \in [Streams -> Cursor]
    BY <1>1, MigratedType
  <2>2. \A s \in Streams : CursorOk(NoCursor, s)
    BY NoCursorOk
  <2>3. QED
    BY <1>2, <1>3, <2>1, <2>2 DEF StateOk
<1>5. ASSUME NEW x \in AllRows
      PROVE  x \notin read
  <2>1. /\ x[1] \in Dirs /\ x[2] \in Nat \ {0} /\ x[3] \in Nat \ {0}
    BY RowType
  <2>2. x \in read <=> (x[2] - 1) * RowsPerFile + x[3] <= 0
    BY <2>1, UpToFacts
  <2>3. PICK R \in Nat \ {0} : R = RowsPerFile
    BY <1>1, LayoutType
  <2>4. x[2] - 1 \in Nat /\ (x[2] - 1) * R \in Nat
    BY <2>1
  <2>5. QED
    BY <2>1, <2>2, <2>3, <2>4
<1>6. Exact(read, Migrated(saved))
  <2>1. read \subseteq AllRows
    BY DEF TypeInv, TypeOk
  <2>2. \A x \in AllRows : ~Behind(Migrated(saved)[StreamOf(x[1])], x)
    <3> SUFFICES ASSUME NEW x \in AllRows PROVE ~Behind(Migrated(saved)[StreamOf(x[1])], x)
      OBVIOUS
    <3>1. StreamOf(x[1]) \in Streams
      BY <1>1, RowType, PlaceType DEF StreamOf
    <3>2. QED
      BY <1>2, <3>1, NoCursorOk
  <2>3. QED
    BY <1>5, <2>1, <2>2 DEF Exact
<1>7. QED
  BY <1>4, <1>6

(* The earlier release had read something: the newest of its index paths   *)
(* becomes the cursor, and all before that path had been read.             *)
LEMMA InitLegacy ==
  ASSUME TypeInv, DatesOk, ToldApart, NEW upto, UpTo(upto), NEW z \in Dirs, upto[z] > 0
  PROVE  StateOk(Migrated(saved)) /\ Exact(read, Migrated(saved))
<1>1. layout \in Layouts /\ StateType(saved) /\ index \in [Dirs -> 0 .. MaxFiles]
  BY DEF TypeInv, TypeOk
<1>2. layout.parts = {}
  <2>1. upto[z] \in IF layout.legacy THEN 0 .. MaxFiles * RowsPerFile ELSE {0}
    BY DEF UpTo
  <2>2. layout.legacy
    BY <2>1
  <2>3. QED
    BY <1>1, <2>2 DEF ToldApart
<1>3. Streams = {0}
  BY <1>2 DEF Streams
<1>4. ASSUME NEW x \in Dirs
      PROVE  /\ StreamOf(x) = 0 /\ LegacyPlace(x).stream = 0 /\ LegacyPlace(x).date = DateOf(x)
             /\ DateOf(x) \in Nat /\ Len(x) # 2 /\ index[x] \in Nat /\ upto[x] \in Nat
             /\ upto[x] <= RowsPerFile * index[x] /\ LegacyEntry(upto[x]) \in OldEntry
  <2>1. StreamOf(x) = 0 /\ LegacyPlace(x).stream = 0 /\ LegacyPlace(x).date = DateOf(x)
    BY <1>1, <1>2, HomeOf
  <2>2. Len(x) # 2
    <3>1. Len(<<>>) # 2 /\ \A d : Len(<<d>>) # 2
      OBVIOUS
    <3>2. QED
      BY <1>1, <1>2, <3>1, DirShape
  <2>3. DateOf(x) \in Nat
    <3>1. DateOf(x) \in 0 .. MaxDay
      BY <1>1, DateType
    <3>2. QED
      BY <3>1
  <2>4. upto[x] \in Nat /\ upto[x] <= RowsPerFile * index[x]
    BY UpToFacts DEF UpTo
  <2>5. QED
    BY <1>1, <2>1, <2>2, <2>3, <2>4, LegacyEntryType
<1>5. /\ DOMAIN saved.legacy = {x \in Dirs : upto[x] > 0} /\ saved.cursors[0] = NoCursor
      /\ \A x \in Dirs : upto[x] > 0 => saved.legacy[x] = LegacyEntry(upto[x])
  BY <1>3, UpToFacts
<1>6. PICK c : c = Migrated(saved)[0]
  OBVIOUS
<1>7. PICK b \in Dirs :
        /\ upto[b] > 0 /\ c = FromLegacy(LegacyPlace(b), LegacyEntry(upto[b]))
        /\ \A y \in Dirs : upto[y] > 0 => DateOf(y) <= DateOf(b)
  <2>1. \A x \in Dirs : upto[x] > 0 => FromLegacy(LegacyPlace(x), LegacyEntry(upto[x])) \in Found(saved, 0)
    BY <1>4, <1>5 DEF Found
  <2>2. Found(saved, 0) # {}
    BY <2>1
  <2>3. c \in Found(saved, 0) /\ \A other \in Found(saved, 0) : NotBehind(c, other)
    BY <1>1, <1>3, <1>5, <1>6, <2>2, MigratedBest
  <2>4. PICK b \in Dirs : upto[b] > 0 /\ c = FromLegacy(LegacyPlace(b), LegacyEntry(upto[b]))
    BY <1>5, <2>3 DEF Found
  <2>5. ASSUME NEW y \in Dirs, upto[y] > 0
        PROVE  DateOf(y) <= DateOf(b)
    <3>1. PICK e : e = FromLegacy(LegacyPlace(y), LegacyEntry(upto[y]))
      OBVIOUS
    <3>2. NotBehind(c, e)
      BY <2>1, <2>3, <2>5, <3>1
    <3>3. e.lastDate = DateOf(y) /\ c.lastDate = DateOf(b)
      BY <1>4, <2>4, <3>1 DEF FromLegacy
    <3>4. QED
      BY <1>4, <3>2, <3>3 DEF NotBehind
  <2>6. QED
    BY <2>4, <2>5
<1>8. PICK e : e = LegacyEntry(upto[b])
  OBVIOUS
<1>9. /\ c.lastDate = DateOf(b) /\ c.lastFile = e.lastFile /\ c.row = e.row /\ c.curFile = e.curFile
      /\ c.curDate = IF e.row > 0 THEN DateOf(b) ELSE 0
  BY <1>4, <1>7, <1>8 DEF FromLegacy
<1>10. PICK d \in Nat, i \in Nat, u \in Nat \ {0} : d = DateOf(b) /\ i = index[b] /\ u = upto[b]
  BY <1>4, <1>7
<1>11. i > 0 /\ d <= day
  <2>1. i # 0
    <3>1. u <= RowsPerFile * i /\ RowsPerFile * 0 = 0
      BY <1>1, <1>4, <1>10, LayoutType
    <3>2. QED
      BY <1>10, <3>1
  <2>2. QED
    BY <1>10, <2>1 DEF DatesOk
<1>12. /\ e.lastFile \in Nat /\ e.row \in Nat /\ e.lastFile <= i /\ e.row <= RowsPerFile /\ e.curFile \in Nat
       /\ e.row > 0 => e.curFile = e.lastFile + 1 /\ e.curFile <= i
       /\ \A f \in Nat \ {0}, r \in 1 .. RowsPerFile :
            (f - 1) * RowsPerFile + r <= u <=> f <= e.lastFile \/ (e.row > 0 /\ f = e.curFile /\ r <= e.row)
  <2>1. u <= RowsPerFile * i /\ e = LegacyEntry(u) /\ e \in OldEntry
    BY <1>4, <1>8, <1>10
  <2>2. 1 \in Nat \ {0} /\ 1 \in 1 .. RowsPerFile
    BY <1>1, LayoutType
  <2>3. e.lastFile \in Nat /\ e.row \in Nat /\ e.lastFile <= i
        /\ (e.row > 0 => e.curFile = e.lastFile + 1 /\ e.curFile <= i)
    BY <1>1, <1>10, <2>1, <2>2, EntryRows
  <2>4. \A f \in Nat \ {0}, r \in 1 .. RowsPerFile :
            (f - 1) * RowsPerFile + r <= u <=> f <= e.lastFile \/ (e.row > 0 /\ f = e.curFile /\ r <= e.row)
    BY <1>1, <1>10, <2>1, EntryRows
  <2>5. e.row <= RowsPerFile /\ e.curFile \in Nat
    BY <1>1, <2>1, LayoutType DEF OldEntry
  <2>6. QED
    BY <2>3, <2>4, <2>5
<1>13. \A y \in Dirs : DateOf(y) = d => y = b
  BY <1>1, <1>4, <1>10, OneDir
<1>14. c \in Cursor /\ Migrated(saved) \in [Streams -> Cursor]
  BY <1>1, <1>3, <1>6, MigratedType
<1>15. CursorOk(c, 0)
  <2>1. layout.sep = "none" => d = 0
    BY <1>1, <1>10, DateType
  <2>2. \A y \in StreamDirs(0) : DateOf(y) = c.lastDate => c.lastFile <= index[y]
    BY <1>9, <1>10, <1>12, <1>13 DEF StreamDirs
  <2>3. c.row > 0 => AtNextFile(c, 0)
    <3> SUFFICES ASSUME e.row > 0 PROVE AtNextFile(c, 0)
      BY <1>9
    <3>1. c.curDate = d /\ c.lastDate = d /\ c.curFile = c.lastFile + 1 /\ c.curFile \in 1 .. index[b]
      BY <1>9, <1>10, <1>12
    <3>2. b \in StreamDirs(0) /\ DateOf(b) = d
      BY <1>4, <1>10 DEF StreamDirs
    <3>3. QED
      BY <3>1, <3>2 DEF AtNextFile
  <2>4. QED
    BY <1>9, <1>10, <1>11, <1>12, <1>14, <2>1, <2>2, <2>3 DEF CursorOk
<1>16. StateOk(Migrated(saved))
  BY <1>2, <1>3, <1>6, <1>14, <1>15 DEF StateOk
<1>17. ASSUME NEW x \in AllRows
       PROVE  x \in read <=> x[2] <= index[x[1]] /\ Behind(c, x)
  <2>1. /\ x[1] \in Dirs /\ x[2] \in Nat \ {0} /\ x[3] \in Nat \ {0} /\ x[3] \in 1 .. RowsPerFile
    BY RowType
  <2>2. x \in read <=> (x[2] - 1) * RowsPerFile + x[3] <= upto[x[1]]
    BY UpToFacts
  <2>3. PICK g \in Nat, n \in Nat, v \in Nat : g = DateOf(x[1]) /\ n = index[x[1]] /\ v = upto[x[1]]
    BY <1>4, <2>1
  <2>4. Behind(c, x) <=> \/ g < d
                         \/ g = d /\ x[2] <= e.lastFile
                         \/ e.row > 0 /\ g = d /\ x[2] = e.curFile /\ x[3] <= e.row
    BY <1>9, <1>10, <2>3 DEF Behind
  <2>5. PICK R \in Nat \ {0} : R = RowsPerFile
    BY <1>1, LayoutType
  <2>6. PICK p \in Nat : p = x[2] - 1
    BY <2>1
  <2>7. p < n <=> x[2] <= n
    BY <2>1, <2>3, <2>6
  <2>8. CASE g < d
    <3>1. v = R * n
      BY <1>4, <1>7, <1>10, <2>1, <2>3, <2>5, <2>8 DEF UpTo, InOrder
    <3>2. (p < n => R * p + R <= R * n) /\ (n <= p => R * n <= R * p)
      BY Product
    <3>3. x \in read <=> R * p + x[3] <= R * n
      BY <2>2, <2>3, <2>5, <2>6, <3>1
    <3>4. R * p \in Nat /\ R * n \in Nat
      BY Product
    <3>5. R * p + x[3] <= R * n <=> p < n
      BY <2>1, <2>5, <3>2, <3>4
    <3>6. QED
      BY <2>3, <2>4, <2>7, <2>8, <3>3, <3>5
  <2>9. CASE g = d
    <3>1. x[1] = b /\ v = u /\ n = i
      BY <1>10, <1>13, <2>1, <2>3, <2>9
    <3>2. x \in read <=> x[2] <= e.lastFile \/ (e.row > 0 /\ x[2] = e.curFile /\ x[3] <= e.row)
      BY <1>12, <2>1, <2>2, <2>3, <3>1
    <3>3. x[2] <= e.lastFile \/ (e.row > 0 /\ x[2] = e.curFile) => x[2] <= n
      BY <1>10, <1>12, <2>1, <3>1
    <3>4. QED
      BY <2>3, <2>4, <2>9, <3>2, <3>3
  <2>10. CASE g > d
    <3>1. v = 0
      BY <1>7, <1>10, <2>1, <2>3, <2>10
    <3>2. R * p \in Nat /\ (x[2] - 1) * R = R * p
      BY <2>6, Product
    <3>3. x \notin read
      BY <2>1, <2>2, <2>3, <2>5, <3>1, <3>2
    <3>4. ~Behind(c, x)
      BY <1>10, <2>3, <2>4, <2>10
    <3>5. QED
      BY <3>3, <3>4
  <2>11. QED
    BY <1>10, <2>3, <2>8, <2>9, <2>10
<1>18. Exact(read, Migrated(saved))
  <2>1. read \subseteq AllRows
    BY DEF TypeInv, TypeOk
  <2>2. \A x \in AllRows : Migrated(saved)[StreamOf(x[1])] = c
    BY <1>4, <1>6, RowType
  <2>3. QED
    BY <1>17, <2>1, <2>2 DEF Exact
<1>19. QED
  BY <1>16, <1>18

-----------------------------------------------------------------------------
(* The invariant holds at the start, whichever release left the state.     *)
LEMMA InvInit ==
  ASSUME ToldApart, Init
  PROVE  Inv
<1>1. TypeInv
  BY TypeInit
<1>2. DatesOk
  BY DEF Init, DatesOk
<1>3. acked = read /\ pc = "idle"
  BY DEF Init
<1>4. PICK upto : UpTo(upto)
  BY DEF Init, UpTo
<1>5. StateOk(Migrated(saved)) /\ Exact(read, Migrated(saved))
  <2>1. CASE \E z \in Dirs : upto[z] > 0
    BY <1>1, <1>2, <1>4, <2>1, InitLegacy
  <2>2. CASE ~\E z \in Dirs : upto[z] > 0
    <3>1. \A x \in Dirs : upto[x] \in Nat
      BY <1>1, <1>4, UpToFacts
    <3>2. \A x \in Dirs : upto[x] = 0
      BY <2>2, <3>1
    <3>3. QED
      BY <1>1, <1>4, <3>2, InitFresh
  <2>3. QED
    BY <2>1, <2>2
<1>6. QED
  BY <1>1, <1>2, <1>3, <1>5 DEF Inv

(* Nothing changes, and nothing that depends on it.                        *)
LEMMA InvStutter ==
  ASSUME Inv, TypeInv', UNCHANGED vars
  PROVE  Inv'
<1>1. /\ layout' = layout /\ day' = day /\ index' = index /\ saved' = saved /\ read' = read
      /\ acked' = acked /\ mem' = mem /\ pc' = pc /\ todo' = todo /\ at' = at /\ exposed' = exposed
  BY DEF vars, runVars
<1>2. /\ Dirs' = Dirs /\ AllRows' = AllRows /\ Streams' = Streams
      /\ \A x : DateOf(x)' = DateOf(x)
      /\ \A x : StreamOf(x)' = StreamOf(x)
  BY <1>1, SameDirs
<1>3. PICK k, r, m, a, c, s :
        k = mem /\ r = read /\ m = Migrated(saved) /\ a = acked /\ c = mem[at.stream] /\ s = at.stream
  OBVIOUS
<1>4. /\ DatesOk' <=> DatesOk
      /\ StateOk(m)' <=> StateOk(m)
      /\ Exact(a, m)' <=> Exact(a, m)
      /\ StateOk(k)' <=> StateOk(k)
      /\ Exact(r, k)' <=> Exact(r, k)
      /\ AtNextFile(c, s)' <=> AtNextFile(c, s)
  BY <1>1, SameBucket
<1>5. Migrated(saved)' = m
  BY <1>1, <1>3, SameMigrated
<1>6. RunOk => RunOk'
  <2>1. ScanFinal => ScanFinal'
    BY <1>1, <1>2 DEF ScanFinal
  <2>2. \A it : ItemOk(it) => ItemOk(it)'
    BY <1>1, <1>2 DEF ItemOk
  <2>3. Resumes => Resumes'
    BY <1>1, <1>2 DEF Resumes
  <2>4. AllPending => AllPending'
    BY <1>1, <1>2 DEF AllPending
  <2>5. QED
    BY <1>1, <1>3, <1>4, <2>1, <2>2, <2>3, <2>4 DEF RunOk
<1>7. ReadingOk => ReadingOk'
  <2>1. AtNextFile(mem[at.stream], at.stream) => AtNextFile(mem[at.stream], at.stream)'
    BY <1>1, <1>3, <1>4
  <2>2. QED
    BY <1>1, <1>2, <2>1 DEF ReadingOk
<1>8. QED
  BY <1>1, <1>3, <1>4, <1>5, <1>6, <1>7 DEF Inv

(* Every step keeps the invariant.                                         *)
LEMMA InvNext ==
  ASSUME ToldApart, Inv, [Next]_vars
  PROVE  Inv'
<1>1. TypeInv'
  BY TypeNext DEF Inv
<1>2. CASE UNCHANGED vars
  BY <1>1, <1>2, InvStutter
<1>3. CASE NextDay \/ \E dir \in Dirs : WriteFile(dir)
  BY <1>1, <1>3, InvWrote
<1>4. CASE StartRun
  BY <1>1, <1>4, InvStart
<1>5. ASSUME NEW it \in todo, SkipReadRange(it) PROVE Inv'
  BY <1>1, <1>5, InvSkip
<1>6. ASSUME NEW it \in todo, OpenRange(it) PROVE Inv'
  BY <1>1, <1>6, InvOpen
<1>7. CASE ReadRow
  BY <1>1, <1>7, InvRead
<1>8. CASE FinishFile
  BY <1>1, <1>8, InvFinish
<1>9. CASE StopAtCheckpoint \/ FinishRun \/ Crash
  BY <1>1, <1>9, InvStop
<1>10. QED
  BY <1>2, <1>3, <1>4, <1>5, <1>6, <1>7, <1>8, <1>9 DEF Next

(* Where names tell dates from partitions, Inv holds throughout.           *)
THEOREM ScanInvariance == ToldApart => (Spec => []Inv)
<1> SUFFICES ASSUME ToldApart PROVE Spec => []Inv
  OBVIOUS
<1>1. Init => Inv
  BY InvInit
<1>2. Inv /\ [Next]_vars => Inv'
  BY InvNext
<1>3. QED
  BY <1>1, <1>2, PTL DEF Spec

(* A run that gets through its items has read all that was in the bucket   *)
(* when it scanned: the scan left no directory out that its cursors have   *)
(* not behind them, and the cursors passed over no file.                   *)
THEOREM ScanAllRead == ToldApart => (Spec => AllRead)
<1> SUFFICES ASSUME ToldApart PROVE Spec => AllRead
  OBVIOUS
<1>1. Inv => (FinishRun => \A x \in AllRows : x[2] <= exposed[x[1]] => x \in read)
  <2> SUFFICES ASSUME Inv, FinishRun, NEW x \in AllRows, x[2] <= exposed[x[1]]
               PROVE  x \in read
    OBVIOUS
  <2>1. pc = "work" /\ todo = {}
    BY DEF FinishRun
  <2>2. AllPending
    BY <2>1 DEF Inv, RunOk
  <2>3. QED
    BY <2>1, <2>2 DEF AllPending
<1>2. QED
  BY <1>1, ScanInvariance, PTL DEF AllRead

(* No acknowledged row is read again: the cursor a run starts from has     *)
(* them behind it, whichever release or stop left it, cursors in memory    *)
(* keep them there, and the next row is not behind its cursor.             *)
THEOREM ScanNeverReadAgain == ToldApart => (Spec => NeverReadAgain)
<1> SUFFICES ASSUME ToldApart PROVE Spec => NeverReadAgain
  OBVIOUS
<1>1. Inv => (ReadRow => NextRow \notin acked)
  <2> SUFFICES ASSUME Inv, ReadRow, NextRow \in acked PROVE FALSE
    OBVIOUS
  <2>1. pc = "read" /\ TypeInv /\ Exact(read, mem) /\ acked \subseteq read
    BY DEF ReadRow, Inv, RunOk, TypeInv, TypeOk
  <2>2. PICK c, x, d : c = mem[at.stream] /\ x = NextRow /\ d = at.dir
    OBVIOUS
  <2>3. /\ d \in Dirs /\ at.stream = StreamOf(d) /\ DateOf(d) = c.curDate /\ DateOf(d) \in Nat
        /\ at.file \in Nat /\ at.row \in Nat /\ c.curFile = at.file /\ c.row = at.row
        /\ AtNextFile(c, StreamOf(d)) /\ c \in Cursor
    BY <2>1, <2>2, ReadFacts
  <2>4. x[1] = d /\ x[2] = at.file /\ x[3] = at.row + 1
    BY <2>2 DEF NextRow
  <2>5. x \in AllRows /\ x[2] <= index[x[1]] /\ Behind(c, x)
    BY <2>1, <2>2, <2>3, <2>4 DEF Exact
  <2>6. \/ DateOf(x[1]) < DateOf(d)
        \/ x[1] = d /\ x[2] < c.curFile
        \/ x[1] = d /\ x[2] = c.curFile /\ x[3] <= c.row
    BY <2>1, <2>3, <2>4, <2>5, BehindAt
  <2>7. QED
    BY <2>3, <2>4, <2>6
<1>2. QED
  BY <1>1, ScanInvariance, PTL DEF NeverReadAgain
=============================================================================
