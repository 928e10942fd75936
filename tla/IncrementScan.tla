--------------------------- MODULE IncrementScan ----------------------------
(***************************************************************************)
(* How a run finds the files of one table version in the directories TiCDC *)
(* lays out, and which cursor it files them under.                         *)
(*                                                                         *)
(* The directory of a version holds a directory per partition, if the      *)
(* table has any, and below that one per date, if the feed has a date      *)
(* separator.  The scan sees only names, and has to tell a partition from  *)
(* a date by its digits.  The state may come from a release that kept a    *)
(* cursor per index path; normalize_state turns these into stream cursors. *)
(*                                                                         *)
(* Commit timestamps and versions are the business of IncrementalSync; a   *)
(* stop at the checkpoint-ts may come before any row here.                 *)
(***************************************************************************)
EXTENDS Integers, Sequences, FiniteSets

CONSTANTS
  Layouts,       \* the layouts considered
  MaxDay,        \* bound: date directories are 1..MaxDay
  MaxFiles,      \* bound: files per directory
  RowsPerFile    \* bound: rows of every file

(* A name is its form and its place among the names in string order: four  *)
(* digits, yyyy-mm, yyyy-mm-dd, or any other number of digits.             *)
Name == [form : {"year", "month", "day", "id"}, n : Nat \ {0}]

(* sep: date_separator; parts: the partition directories; legacy: whether  *)
(* the state is one of the earlier release.                                *)
Layout == [sep : {"none", "year", "month", "day"}, parts : SUBSET Name, legacy : BOOLEAN]

ASSUME ScanAssumption ==
  /\ Layouts \subseteq Layout
  /\ \A l \in Layouts : IsFiniteSet(l.parts)
  /\ {MaxDay, MaxFiles, RowsPerFile} \subseteq Nat \ {0}

VARIABLES
  layout,    \* the layout of this feed
  day,       \* the date directory being written
  index,     \* the file number CDC.index of each directory names, 0: no such object
  saved,     \* the state Fivetran would hand to the next run
  mem,       \* the stream cursors of the current run
  pc,        \* "idle", "work" (the items loop) or "read" (in a file)
  todo,      \* DML ranges not processed yet
  at,        \* the range being read, its file and the rows taken
  exposed,   \* index as the scan of this run saw it
  read,      \* rows <<directory, file, row>> read, but for those a crash made unknown
  acked      \* those read before the state was last saved

runVars == <<mem, pc, todo, at, exposed>>
vars == <<layout, day, index, saved, read, acked, runVars>>

-----------------------------------------------------------------------------
(* Directories as the names below the version directory, <<>> is itself.   *)
DateDirs(l) == IF l.sep = "none" THEN {<<>>} ELSE {<<[form |-> l.sep, n |-> d]>> : d \in 1 .. MaxDay}
PartDirs(l) == IF l.parts = {} THEN {<<>>} ELSE {<<p>> : p \in l.parts}
DirsOf(l)   == {p \o d : p \in PartDirs(l), d \in DateDirs(l)}

Dirs    == DirsOf(layout)
Streams == {0} \cup {p.n : p \in layout.parts}

(* 0 in a layout without dates.                                            *)
DateOf(dir) == IF layout.sep = "none" THEN 0 ELSE dir[Len(dir)].n

(* list_common_prefixes: the directories right below dir.                  *)
Children(dir) ==
  {x[Len(dir) + 1] : x \in {y \in Dirs : /\ index[y] > 0
                                         /\ Len(y) > Len(dir)
                                         /\ SubSeq(y, 1, Len(dir)) = dir}}

(* The date "" is 0.                                                       *)
Cursor == [lastDate : Nat, lastFile : Nat, curDate : Nat, curFile : Nat, row : Nat]

NoCursor == [lastDate |-> 0, lastFile |-> 0, curDate |-> 0, curFile |-> 0, row |-> 0]

(* An entry of the earlier release: how far its index path has been read.  *)
LegacyEntry(rows) ==
  [lastFile |-> rows \div RowsPerFile, row |-> rows % RowsPerFile,
   curFile |-> (rows + RowsPerFile - 1) \div RowsPerFile]

NoLegacy == [dir \in {} |-> LegacyEntry(0)]

Nowhere == [dir |-> <<>>, stream |-> 0, date |-> 0, latest |-> 0, file |-> 0, row |-> 0]

RowsUpTo(dir, rows) ==
  {<<dir, x[1], x[2]>> : x \in {y \in (1 .. MaxFiles) \X (1 .. RowsPerFile) :
                                 (y[1] - 1) * RowsPerFile + y[2] <= rows}}

(* The earlier release read the directories of a partition in date order.  *)
InOrder(upto) ==
  \A x, y \in Dirs :
    DateOf(x) < DateOf(y) /\ upto[y] > 0 /\ (Len(x) = 2 => x[1] = y[1])
      => upto[x] = RowsPerFile * index[x]

Init ==
  /\ layout \in Layouts
  /\ day \in IF layout.legacy /\ layout.sep # "none" THEN 1 .. MaxDay ELSE {1}
  /\ index \in [Dirs -> IF layout.legacy THEN 0 .. MaxFiles ELSE {0}]
  /\ \A dir \in Dirs : index[dir] > 0 => DateOf(dir) <= day
  /\ \E upto \in [Dirs -> IF layout.legacy THEN 0 .. MaxFiles * RowsPerFile ELSE {0}] :
       /\ \A dir \in Dirs : upto[dir] <= RowsPerFile * index[dir]
       /\ InOrder(upto)
       /\ read = UNION {RowsUpTo(dir, upto[dir]) : dir \in Dirs}
       /\ saved = [cursors |-> [s \in Streams |-> NoCursor],
                   legacy |-> [dir \in {x \in Dirs : upto[x] > 0} |-> LegacyEntry(upto[dir])]]
  /\ acked = read
  /\ mem = saved.cursors
  /\ pc = "idle"
  /\ todo = {}
  /\ at = Nowhere
  /\ exposed = [dir \in Dirs |-> 0]

-----------------------------------------------------------------------------
WriteFile(dir) ==
  /\ DateOf(dir) \in {0, day}
  /\ index[dir] < MaxFiles
  /\ index' = [index EXCEPT ![dir] = @ + 1]
  /\ UNCHANGED <<layout, day, saved, read, acked, runVars>>

NextDay ==
  /\ layout.sep # "none"
  /\ day < MaxDay
  /\ day' = day + 1
  /\ UNCHANGED <<layout, index, saved, read, acked, runVars>>

-----------------------------------------------------------------------------
(* The operators named Fault_... are plausible mistakes in the definition  *)
(* that follows them; the specification does not use them.                 *)

(* _looks_like_date: one to three groups of digits, of any length.         *)
LooksLikeDate(name) == name.form \in {"id", "year", "month", "day"}

IsInteger(name) == name.form \in {"id", "year"}

(* DATE_RE, and then a test of the separator that every such name passes.  *)
ParsesAsDate(name) ==
  /\ name.form \in {"year", "month", "day"}
  /\ layout.sep # "none" \/ name.form \in {"month", "day"} \/ name.form = "year"

(* The partition and the date that names stand for, the last one being     *)
(* taken for a date or not.                                                *)
Place(names, dated) ==
  LET rest == IF dated THEN SubSeq(names, 1, Len(names) - 1) ELSE names
  IN [stream |-> IF rest = <<>> THEN 0 ELSE rest[Len(rest)].n,
      date   |-> IF dated THEN names[Len(names)].n ELSE 0]

Parsed(dir) == Place(dir, dir # <<>> /\ ParsesAsDate(dir[Len(dir)]))

LegacyPlace(dir) == Place(dir, dir # <<>> /\ LooksLikeDate(dir[Len(dir)]))

(* The newest index path of a stream stands for its last file alone.       *)
Fault_FromLegacy(place, e) ==
  [lastDate |-> place.date, lastFile |-> e.lastFile, curDate |-> 0, curFile |-> 0, row |-> 0]

FromLegacy(place, e) ==
  [lastDate |-> place.date, lastFile |-> e.lastFile,
   curDate |-> IF e.row > 0 THEN place.date ELSE 0, curFile |-> e.curFile, row |-> e.row]

NotBehind(c, other) ==
  \/ c.lastDate > other.lastDate
  \/ c.lastDate = other.lastDate /\ c.lastFile >= other.lastFile

(* Of the index paths of a stream the one furthest on becomes its cursor.  *)
Migrated(st) ==
  [s \in Streams |->
     LET found == {FromLegacy(LegacyPlace(dir), st.legacy[dir]) :
                     dir \in {x \in DOMAIN st.legacy : LegacyPlace(x).stream = s}}
         best  == CHOOSE c \in found : \A other \in found : NotBehind(c, other)
     IN IF found # {} /\ NotBehind(best, st.cursors[s]) THEN best ELSE st.cursors[s]]

-----------------------------------------------------------------------------
(* The date directory of the last file read is taken for finished.         *)
Fault_ShouldScanDate(cursors, s, d) == cursors[s].lastDate = 0 \/ d > cursors[s].lastDate

ShouldScanDate(cursors, s, d) ==
  LET c == cursors[s]
  IN (c.curDate > 0 /\ d = c.curDate) \/ c.lastDate = 0 \/ d >= c.lastDate

(* The directories whose CDC.index the scan looks for.  A name that looks  *)
(* like a date is one; other numbers are partitions, which may hold dates. *)
Candidates(cursors) ==
  LET dates == {c \in Children(<<>>) : LooksLikeDate(c)}
      parts == {c \in Children(<<>>) : ~LooksLikeDate(c) /\ IsInteger(c)}
  IN {<<>>}
       \cup {<<c>> : c \in {x \in dates : ShouldScanDate(cursors, 0, x.n)}}
       \cup {<<c>> : c \in parts}
       \cup UNION {{<<c, d>> : d \in {x \in Children(<<c>>) :
                       LooksLikeDate(x) /\ ShouldScanDate(cursors, c.n, x.n)}} : c \in parts}

ShouldScanIndex(cursors, dir) ==
  LET p == Parsed(dir)
      c == cursors[p.stream]
  IN \/ c.row > 0 /\ c.curDate = p.date
     \/ c.lastDate = 0
     \/ p.date > c.lastDate \/ p.date = 0
     \/ p.date = c.lastDate /\ index[dir] > c.lastFile

FileRange(dir) ==
  [dir |-> dir, stream |-> Parsed(dir).stream, date |-> Parsed(dir).date, latest |-> index[dir]]

(* An index that does not exist is taken for an empty one.                 *)
Fault_Discovered(cursors) ==
  {FileRange(dir) : dir \in {x \in Candidates(cursors) : x \in Dirs /\ ShouldScanIndex(cursors, x)}}

Discovered(cursors) ==
  {FileRange(dir) : dir \in {x \in Candidates(cursors) :
                  x \in Dirs /\ index[x] > 0 /\ ShouldScanIndex(cursors, x)}}

StartRun ==
  /\ pc = "idle"
  /\ mem' = Migrated(saved)
  /\ todo' = Discovered(mem')
  /\ exposed' = index
  /\ pc' = "work"
  /\ UNCHANGED <<layout, day, index, saved, read, acked, at>>

-----------------------------------------------------------------------------
(* Ranges come by partition and date.                                      *)
IsNext(it) ==
  /\ it \in todo
  /\ \A other \in todo :
       \/ it.stream < other.stream
       \/ it.stream = other.stream /\ it.date <= other.date

StartFile(it) ==
  LET c == mem[it.stream]
  IN IF c.row > 0 /\ c.curFile > 0 THEN c.curFile
     ELSE IF c.lastDate = it.date THEN c.lastFile + 1 ELSE 1

StartRow(c, f) == IF f = c.curFile THEN c.row ELSE 0

SkipReadRange(it) ==
  /\ pc = "work" /\ IsNext(it)
  /\ StartFile(it) > it.latest
  /\ todo' = todo \ {it}
  /\ UNCHANGED <<layout, day, index, saved, read, acked, mem, pc, at, exposed>>

OpenRange(it) ==
  LET c == mem[it.stream]
      f == StartFile(it)
  IN /\ pc = "work" /\ IsNext(it)
     /\ f <= it.latest
     /\ at' = [dir |-> it.dir, stream |-> it.stream, date |-> it.date, latest |-> it.latest,
               file |-> f, row |-> StartRow(c, f)]
     /\ mem' = [mem EXCEPT ![it.stream] = [c EXCEPT !.curDate = it.date, !.curFile = f]]
     /\ todo' = todo \ {it}
     /\ pc' = "read"
     /\ UNCHANGED <<layout, day, index, saved, read, acked, exposed>>

NextRow == <<at.dir, at.file, at.row + 1>>

(* The state is saved after a row when a checkpoint is due.                *)
Save(cursors) == saved' = [cursors |-> cursors, legacy |-> NoLegacy]

ReadRow ==
  /\ pc = "read" /\ at.row < RowsPerFile
  /\ read' = read \cup {NextRow}
  /\ mem' = [mem EXCEPT ![at.stream] = [@ EXCEPT !.row = at.row + 1]]
  /\ at' = [at EXCEPT !.row = @ + 1]
  /\ \/ Save(mem') /\ acked' = read'
     \/ UNCHANGED <<saved, acked>>
  /\ UNCHANGED <<layout, day, index, pc, todo, exposed>>

FinishFile ==
  LET done == [lastDate |-> at.date, lastFile |-> at.file, curDate |-> 0,
               curFile |-> at.file, row |-> 0]
      more == at.file < at.latest
      next == [done EXCEPT !.curDate = at.date, !.curFile = at.file + 1]
  IN /\ pc = "read" /\ at.row = RowsPerFile
     /\ Save([mem EXCEPT ![at.stream] = done])
     /\ acked' = read
     /\ mem' = [mem EXCEPT ![at.stream] = IF more THEN next ELSE done]
     /\ at' = IF more THEN [at EXCEPT !.file = @ + 1, !.row = 0] ELSE Nowhere
     /\ pc' = IF more THEN "read" ELSE "work"
     /\ UNCHANGED <<layout, day, index, read, todo, exposed>>

(* The next run starts from what is saved.                                 *)
RunOver ==
  /\ pc' = "idle"
  /\ mem' = saved'.cursors
  /\ todo' = {}
  /\ at' = Nowhere
  /\ exposed' = [dir \in Dirs |-> 0]
  /\ UNCHANGED <<layout, day, index>>

StopAtCheckpoint ==
  /\ pc = "read" /\ at.row < RowsPerFile
  /\ Save([mem EXCEPT ![at.stream] =
             [@ EXCEPT !.curDate = at.date, !.curFile = at.file, !.row = at.row]])
  /\ acked' = read
  /\ UNCHANGED read
  /\ RunOver

(* The migration is saved at the end if no checkpoint has saved it before. *)
FinishRun ==
  /\ pc = "work" /\ todo = {}
  /\ IF DOMAIN saved.legacy # {} THEN Save(mem) ELSE UNCHANGED saved
  /\ acked' = read
  /\ UNCHANGED read
  /\ RunOver

Crash ==
  /\ pc # "idle"
  /\ read' = acked
  /\ UNCHANGED <<saved, acked>>
  /\ RunOver

Next ==
  \/ \E dir \in Dirs : WriteFile(dir)
  \/ NextDay
  \/ StartRun
  \/ \E it \in todo : SkipReadRange(it) \/ OpenRange(it)
  \/ ReadRow
  \/ FinishFile
  \/ StopAtCheckpoint
  \/ FinishRun
  \/ Crash

Spec == Init /\ [][Next]_vars

-----------------------------------------------------------------------------
(***************************************************************************)
(* Properties.                                                             *)
(***************************************************************************)
AllRows == Dirs \X (1 .. MaxFiles) \X (1 .. RowsPerFile)

TypeOk ==
  /\ layout \in Layouts
  /\ day \in 1 .. MaxDay
  /\ index \in [Dirs -> 0 .. MaxFiles]
  /\ saved.cursors \in [Streams -> Cursor]
  /\ DOMAIN saved.legacy \subseteq Dirs
  /\ mem \in [Streams -> Cursor]
  /\ pc \in {"idle", "work", "read"}
  /\ \A it \in todo : it.dir \in Dirs /\ it.latest \in 1 .. MaxFiles
  /\ pc = "read" => NextRow[1] \in Dirs /\ at.file <= at.latest /\ at.row <= RowsPerFile
  /\ exposed \in [Dirs -> 0 .. MaxFiles]
  /\ acked \subseteq read
  /\ read \subseteq AllRows

(* A run that gets through its items has read every row of every file that *)
(* was in the bucket when it scanned, whatever directory it was in and     *)
(* whichever release wrote the state it started from.                      *)
AllRead ==
  [][FinishRun => \A x \in AllRows : x[2] <= exposed[x[1]] => x \in read]_vars

(* No row that a saved state has acknowledged is read again, by a stop, a  *)
(* date change or a migrated cursor.                                       *)
NeverReadAgain == [][ReadRow => NextRow \notin acked]_vars
=============================================================================
