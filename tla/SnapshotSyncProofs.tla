------------------------- MODULE SnapshotSyncProofs -------------------------
(***************************************************************************)
(* Proofs about SnapshotSync, for every set of tables, every dump and      *)
(* every checkpoint interval: it is safe, and it implements ResumableFeed. *)
(***************************************************************************)
EXTENDS SnapshotFeed, TLAPS

(* The rows a state claims are loaded; saved and mem each satisfy it.      *)
Covered(st) ==
  \A t \in Tables : \A f \in 1 .. FileCount(t) : \A i \in 1 .. RowCounts[t][f] :
    Claims(st.tables[t], f, i) => <<st.tso, f, i>> \in loaded[t]

(* A cursor without a file has no row, so that reading starts at row 0.    *)
NoStray(st) == \A t \in Tables : st.tables[t].file = 0 => st.tables[t].next = 0

(* The rows of the current table up to the point of reading are loaded.    *)
ReadSoFar ==
  pc = "rows" =>
    \A f \in 1 .. FileCount(tab) : \A i \in 1 .. RowCounts[tab][f] :
      f < at.file \/ (f = at.file /\ i <= at.row) => <<mem.tso, f, i>> \in loaded[tab]

(* What makes NoLoss, OneDump and DoneIsFinal inductive.                   *)
Inv ==
  /\ TypeOk
  /\ OneDump
  /\ Covered(saved) /\ NoStray(saved)
  /\ Covered(mem) /\ NoStray(mem)
  /\ ReadSoFar
  /\ mem.tso = saved.tso
  /\ pc # "idle" => mem.tso = pos
  /\ \A t \in Tables : mem.tables[t].done = saved.tables[t].done
  /\ pc = "rows" => ~mem.tables[tab].done

(* Changing the entry of one table leaves the others and the tso alone.    *)
LEMMA SetEntryLemma ==
  ASSUME NEW st \in State, NEW t \in Tables, NEW e \in Entry
  PROVE  /\ SetEntry(st, t, e) \in State
         /\ SetEntry(st, t, e).tso = st.tso
         /\ SetEntry(st, t, e).tables[t] = e
         /\ \A u \in Tables \ {t} : SetEntry(st, t, e).tables[u] = st.tables[u]
BY DEF SetEntry, State, Entry

(* Facts about the dump every step inside a file needs.                    *)
LEMMA CountsType ==
  /\ \A t \in Tables : FileCount(t) \in Nat /\ RowCounts[t] \in Seq(Nat)
  /\ \A t \in Tables : \A f \in 1 .. FileCount(t) : RowCounts[t][f] \in Nat
BY SnapshotAssumption DEF FileCount

(* The initial state satisfies the invariant.                              *)
LEMMA InitInv == Init => Inv
<1> SUFFICES ASSUME Init PROVE Inv
  OBVIOUS
<1> USE SnapshotAssumption DEF Init, InitialState
<1>1. TypeOk
  BY DEF TypeOk, State, Entry, Nowhere, NoTable
<1>2. Covered(saved) /\ Covered(mem)
  BY DEF Covered, Claims, FileCount
<1>3. QED
  BY <1>1, <1>2 DEF Inv, OneDump, NoStray, ReadSoFar

(* A run starts: the dump is the one of the state, or the state is empty.  *)
LEMMA StartRunInv == Inv /\ StartRun => Inv'
<1> SUFFICES ASSUME Inv, StartRun PROVE Inv'
  OBVIOUS
<1> USE CountsType
<1>0. mem' \in State /\ saved' \in State
  <2>1. saved \in State /\ pos \in 0 .. MaxPos
    BY SnapshotAssumption DEF Inv, TypeOk
  <2>2. [saved EXCEPT !.tso = pos] \in State
    BY <2>1 DEF State
  <2>3. QED
    BY <2>2 DEF StartRun
<1>1. TypeOk'
  BY <1>0 DEF Inv, TypeOk, StartRun
<1>2. /\ saved'.tso = pos /\ mem'.tso = pos /\ saved' = mem'
      /\ saved'.tables = saved.tables
  BY DEF Inv, TypeOk, StartRun, State, Entry
<1>3. ASSUME saved.tso = 0, NEW t \in Tables PROVE loaded[t] = {}
  BY <1>3 DEF Inv, TypeOk, OneDump
<1>4. Covered(saved)'
  <2> SUFFICES ASSUME NEW t \in Tables, NEW f \in 1 .. FileCount(t),
                      NEW i \in 1 .. RowCounts[t][f],
                      Claims(saved.tables[t], f, i)
               PROVE  <<pos, f, i>> \in loaded[t]
    BY <1>2 DEF Covered, StartRun, FileCount, Claims
  <2>1. <<saved.tso, f, i>> \in loaded[t]
    BY DEF Inv, Covered
  <2>2. QED
    BY <2>1, <1>3 DEF StartRun, TsoMatches
<1>5. OneDump'
  BY <1>2, <1>3 DEF Inv, OneDump, StartRun, TsoMatches
<1>6. Covered(mem)' /\ NoStray(mem)' /\ NoStray(saved)'
  BY <1>2, <1>4 DEF Covered, NoStray, Inv, Claims
<1>7. QED
  BY <1>1, <1>2, <1>4, <1>5, <1>6 DEF Inv, ReadSoFar, StartRun

(* The end of a run, killed or not, after which only saved is left.        *)
LEMMA EndRunInv ==
  ASSUME Inv, EndRun,
         loaded' = loaded \/ (pc = "rows" /\ ~AtEnd /\ loaded' = Upserted)
  PROVE  Inv'
<1> USE CountsType
<1>1. /\ loaded' \in [Tables -> SUBSET ((1 .. MaxPos) \X Nat \X Nat)]
      /\ OneDump'
      /\ \A t \in Tables : loaded[t] \subseteq loaded'[t]
  <2>1. CASE loaded' = loaded
    BY <2>1 DEF Inv, TypeOk, OneDump, EndRun
  <2>2. CASE pc = "rows" /\ ~AtEnd /\ loaded' = Upserted
    BY <2>2 DEF Inv, TypeOk, OneDump, EndRun, Upserted, State
  <2>3. QED
    BY <2>1, <2>2
<1>2. TypeOk'
  BY <1>1 DEF Inv, TypeOk, EndRun, Nowhere, NoTable
<1>3. Covered(saved)' /\ Covered(mem)' /\ NoStray(saved)' /\ NoStray(mem)'
  BY <1>1 DEF Inv, EndRun, Covered, NoStray, Claims, FileCount
<1>4. QED
  BY <1>1, <1>2, <1>3 DEF Inv, EndRun, ReadSoFar

(* A table already done, or without files.                                 *)
LEMMA SkipDoneInv == ASSUME NEW t \in Tables, Inv, SkipDone(t) PROVE Inv'
BY DEF Inv, SkipDone, TypeOk, OneDump, Covered, NoStray, ReadSoFar, Claims, FileCount

(* A table without files is done, and claims no row.                       *)
LEMMA NoFilesInv == ASSUME NEW t \in Tables, Inv, NoFiles(t) PROVE Inv'
<1> DEFINE e == [done |-> TRUE, file |-> 0, next |-> 0]
<1>1. /\ mem' \in State /\ mem'.tso = mem.tso /\ mem'.tables[t] = e
      /\ \A u \in Tables \ {t} : mem'.tables[u] = mem.tables[u]
      /\ saved' = mem'
  <2>1. e \in Entry /\ mem \in State /\ mem' = SetEntry(mem, t, e) /\ saved' = mem'
    BY DEF Inv, TypeOk, NoFiles, Entry
  <2>2. QED
    BY <2>1, SetEntryLemma
<1>2. TypeOk'
  BY <1>1 DEF Inv, TypeOk, NoFiles
<1>3. Covered(mem)' /\ NoStray(mem)'
  <2>1. loaded' = loaded /\ FileCount(t) = 0
    BY DEF NoFiles
  <2>2. ASSUME NEW u \in Tables, NEW f \in 1 .. FileCount(u), NEW i \in 1 .. RowCounts[u][f],
               Claims(mem'.tables[u], f, i)
        PROVE  <<mem'.tso, f, i>> \in loaded'[u]
    <3>1. u # t
      BY <2>1
    <3>2. QED
      BY <3>1, <2>1, <2>2, <1>1 DEF Inv, Covered
  <2>3. \A u \in Tables : mem'.tables[u].file = 0 => mem'.tables[u].next = 0
    BY <1>1 DEF Inv, NoStray
  <2>4. QED
    BY <2>2, <2>3 DEF Covered, NoStray, Claims, FileCount
<1>4. Covered(saved)' /\ NoStray(saved)'
  BY <1>1, <1>3 DEF Covered, NoStray
<1>5. OneDump'
  BY <1>1 DEF Inv, OneDump, NoFiles
<1>6. QED
  BY <1>1, <1>2, <1>3, <1>4, <1>5 DEF Inv, NoFiles, ReadSoFar

(* Reading starts at the cursor, and the rows before it are loaded.        *)
LEMMA OpenTableInv == ASSUME NEW t \in Tables, Inv, OpenTable(t) PROVE Inv'
<1>1. mem.tables[t] \in Entry
  BY DEF Inv, TypeOk, State
<1>2. TypeOk'
  BY <1>1 DEF Inv, TypeOk, OpenTable, Entry
<1>3. ReadSoFar'
  <2> SUFFICES ASSUME NEW f \in 1 .. FileCount(t), NEW i \in 1 .. RowCounts[t][f],
                      f < at'.file \/ (f = at'.file /\ i <= at'.row)
               PROVE  <<mem.tso, f, i>> \in loaded[t]
    BY DEF ReadSoFar, OpenTable, FileCount
  <2>1. Claims(mem.tables[t], f, i)
    BY <1>1, CountsType DEF OpenTable, StartFile, Claims, Inv, NoStray, Entry
  <2>2. QED
    BY <2>1 DEF Inv, Covered
<1>4. QED
  BY <1>2, <1>3 DEF Inv, OpenTable, OneDump, Covered, NoStray, Claims, FileCount, IsDone

(* A row is loaded and the cursor of the table moves past it.              *)
LEMMA UpsertRowInv == Inv /\ UpsertRow => Inv'
<1> SUFFICES ASSUME Inv, UpsertRow PROVE Inv'
  OBVIOUS
<1> USE CountsType
<1> DEFINE e == RowRead(mem.tables[tab])
<1>0. tab \in Tables /\ at \in [file : Nat, row : Nat] /\ mem.tables[tab] \in Entry
      /\ at.file \in 1 .. FileCount(tab)
  BY DEF Inv, TypeOk, UpsertRow, State
<1>1. e \in Entry /\ e.file = at.file /\ e.next = at.row + 1
      /\ e.done = mem.tables[tab].done
  <2>1. at.file \in Nat /\ at.row + 1 \in Nat
    BY <1>0
  <2>2. QED
    BY <2>1, <1>0 DEF RowRead, Entry
<1>2. /\ mem' \in State /\ mem'.tso = mem.tso /\ mem'.tables[tab] = e
      /\ \A u \in Tables \ {tab} : mem'.tables[u] = mem.tables[u]
  <2>1. mem \in State /\ mem' = SetEntry(mem, tab, e)
    BY DEF Inv, TypeOk, UpsertRow
  <2>2. QED
    BY <2>1, <1>0, <1>1, SetEntryLemma
<1>3. /\ loaded' \in [Tables -> SUBSET ((1 .. MaxPos) \X Nat \X Nat)]
      /\ \A u \in Tables : loaded[u] \subseteq loaded'[u]
      /\ <<mem.tso, at.file, at.row + 1>> \in loaded'[tab]
      /\ OneDump'
  BY <1>0, <1>2 DEF Inv, TypeOk, OneDump, UpsertRow, Upserted
<1>4. TypeOk'
  BY <1>0, <1>2, <1>3 DEF Inv, TypeOk, UpsertRow
<1>5. ReadSoFar'
  <2> SUFFICES ASSUME NEW f \in 1 .. FileCount(tab), NEW i \in 1 .. RowCounts[tab][f],
                      f < at.file \/ (f = at.file /\ i <= at.row + 1)
               PROVE  <<mem.tso, f, i>> \in loaded'[tab]
    BY <1>0, <1>2 DEF ReadSoFar, UpsertRow, FileCount
  <2>1. CASE f = at.file /\ i = at.row + 1
    BY <2>1, <1>3
  <2>2. CASE ~(f = at.file /\ i = at.row + 1)
    <3>1. f < at.file \/ (f = at.file /\ i <= at.row)
      BY <2>2, <1>0
    <3>2. <<mem.tso, f, i>> \in loaded[tab]
      BY <3>1 DEF Inv, ReadSoFar, UpsertRow
    <3>3. QED
      BY <3>2, <1>0, <1>3
  <2>3. QED
    BY <2>1, <2>2
<1>6. Covered(mem)'
  <2> SUFFICES ASSUME NEW t \in Tables, NEW f \in 1 .. FileCount(t),
                      NEW i \in 1 .. RowCounts[t][f], Claims(mem'.tables[t], f, i)
               PROVE  <<mem'.tso, f, i>> \in loaded'[t]
    BY DEF Covered, FileCount, Claims
  <2>1. CASE t = tab
    BY <2>1, <1>0, <1>1, <1>2, <1>5 DEF Claims, ReadSoFar, Inv, UpsertRow, FileCount
  <2>2. CASE t # tab
    BY <2>2, <1>2, <1>3 DEF Claims, Inv, Covered
  <2>3. QED
    BY <2>1, <2>2
<1>7. NoStray(mem)'
  BY <1>0, <1>1, <1>2 DEF NoStray, Inv
<1>8. Covered(saved)' /\ NoStray(saved)'
  <2>1. CASE saved' = mem'
    BY <2>1, <1>6, <1>7 DEF Covered, NoStray
  <2>2. CASE saved' = saved
    BY <2>2, <1>3 DEF Inv, Covered, NoStray, Claims, FileCount
  <2>3. QED
    BY <2>1, <2>2 DEF UpsertRow
<1>9. \A t \in Tables : mem'.tables[t].done = mem.tables[t].done
  BY <1>1, <1>2
<1>10. QED
  BY <1>0, <1>1, <1>2, <1>3, <1>4, <1>5, <1>6, <1>7, <1>8, <1>9 DEF Inv, UpsertRow, OneDump

(* At the end of a file all its rows are loaded.                           *)
LEMMA FileLoaded ==
  ASSUME Inv, pc = "rows", AtEnd, NEW f \in 1 .. at.file, NEW i \in 1 .. RowCounts[tab][f]
  PROVE  <<mem.tso, f, i>> \in loaded[tab]
<1>1. tab \in Tables /\ at \in [file : Nat, row : Nat] /\ at.file \in 1 .. FileCount(tab)
  BY DEF Inv, TypeOk
<1>2. f \in 1 .. FileCount(tab) /\ RowCounts[tab][f] \in Nat
  BY <1>1, CountsType
<1>3. f < at.file \/ (f = at.file /\ i <= at.row)
  BY <1>1, <1>2 DEF AtEnd
<1>4. QED
  BY <1>2, <1>3 DEF Inv, ReadSoFar

(* The cursor goes back to the start of the file, and reading goes on in   *)
(* the next one.                                                           *)
LEMMA NextFileInv == Inv /\ NextFile => Inv'
<1> SUFFICES ASSUME Inv, NextFile PROVE Inv'
  OBVIOUS
<1> USE CountsType
<1> DEFINE e == FileRead(mem.tables[tab])
<1>0. tab \in Tables /\ at \in [file : Nat, row : Nat] /\ mem.tables[tab] \in Entry
      /\ at.file \in 1 .. FileCount(tab) /\ at.file # FileCount(tab)
  BY DEF Inv, TypeOk, NextFile, State, LastFile
<1>1. e \in Entry /\ e.file = at.file /\ e.next = 0 /\ e.done = mem.tables[tab].done
  <2>1. at.file \in Nat
    BY <1>0
  <2>2. QED
    BY <2>1, <1>0 DEF FileRead, Entry
<1>2. /\ mem' \in State /\ mem'.tso = mem.tso /\ mem'.tables[tab] = e
      /\ \A u \in Tables \ {tab} : mem'.tables[u] = mem.tables[u]
      /\ saved' = mem'
  <2>1. mem \in State /\ mem' = SetEntry(mem, tab, e) /\ saved' = mem'
    BY DEF Inv, TypeOk, NextFile
  <2>2. QED
    BY <2>1, <1>0, <1>1, SetEntryLemma
<1>3. TypeOk'
  <2>1. at' \in [file : Nat, row : Nat] /\ at'.file \in 1 .. FileCount(tab)
    BY <1>0 DEF NextFile
  <2>2. QED
    BY <2>1, <1>2 DEF Inv, TypeOk, NextFile, FileCount
<1>4. ReadSoFar'
  <2> SUFFICES ASSUME NEW f \in 1 .. FileCount(tab), NEW i \in 1 .. RowCounts[tab][f],
                      f < at.file + 1 \/ (f = at.file + 1 /\ i <= 0)
               PROVE  <<mem.tso, f, i>> \in loaded[tab]
    BY <1>0, <1>2 DEF ReadSoFar, NextFile, FileCount
  <2>1. f \in 1 .. at.file
    BY <1>0
  <2>2. QED
    BY <2>1, FileLoaded DEF NextFile
<1>5. Covered(mem)'
  <2> SUFFICES ASSUME NEW t \in Tables, NEW f \in 1 .. FileCount(t),
                      NEW i \in 1 .. RowCounts[t][f], Claims(mem'.tables[t], f, i)
               PROVE  <<mem'.tso, f, i>> \in loaded[t]
    BY DEF Covered, FileCount, Claims, NextFile
  <2>1. CASE t = tab
    <3>1. ~e.done /\ i \in Nat /\ i > 0
      BY <2>1, <1>1 DEF Inv, NextFile
    <3>2. f \in 1 .. at.file
      BY <3>1, <2>1, <1>0, <1>1, <1>2 DEF Claims
    <3>3. QED
      BY <3>2, <2>1, <1>2, FileLoaded DEF NextFile
  <2>2. CASE t # tab
    BY <2>2, <1>2 DEF Claims, Inv, Covered
  <2>3. QED
    BY <2>1, <2>2
<1>6. NoStray(mem)'
  BY <1>0, <1>1, <1>2 DEF NoStray, Inv
<1>7. Covered(saved)' /\ NoStray(saved)'
  BY <1>2, <1>5, <1>6 DEF Covered, NoStray
<1>8. \A t \in Tables : mem'.tables[t].done = mem.tables[t].done
  BY <1>1, <1>2
<1>9. QED
  BY <1>0, <1>1, <1>2, <1>3, <1>4, <1>5, <1>6, <1>7, <1>8 DEF Inv, NextFile, OneDump

(* At the end of the last file every row of the table is loaded.           *)
LEMMA FinishTableInv == Inv /\ FinishTable => Inv'
<1> SUFFICES ASSUME Inv, FinishTable PROVE Inv'
  OBVIOUS
<1> USE CountsType
<1> DEFINE e == [done |-> TRUE, file |-> FileCount(tab), next |-> 0]
<1>0. tab \in Tables /\ at.file \in 1 .. FileCount(tab) /\ at.file = FileCount(tab)
  BY DEF Inv, TypeOk, FinishTable, LastFile
<1>1. /\ mem' \in State /\ mem'.tso = mem.tso /\ mem'.tables[tab] = e
      /\ \A u \in Tables \ {tab} : mem'.tables[u] = mem.tables[u]
      /\ saved' = mem'
  <2>1. mem \in State /\ mem' = SetEntry(mem, tab, e) /\ saved' = mem' /\ e \in Entry
    BY <1>0 DEF Inv, TypeOk, FinishTable, Entry
  <2>2. QED
    BY <2>1, <1>0, SetEntryLemma
<1>2. TypeOk'
  BY <1>1 DEF Inv, TypeOk, FinishTable, Nowhere, NoTable
<1>3. Covered(mem)'
  <2> SUFFICES ASSUME NEW t \in Tables, NEW f \in 1 .. FileCount(t),
                      NEW i \in 1 .. RowCounts[t][f], Claims(mem'.tables[t], f, i)
               PROVE  <<mem'.tso, f, i>> \in loaded[t]
    BY DEF Covered, FileCount, Claims, FinishTable
  <2>1. CASE t = tab
    BY <2>1, <1>0, <1>1, FileLoaded DEF FinishTable
  <2>2. CASE t # tab
    BY <2>2, <1>1 DEF Claims, Inv, Covered
  <2>3. QED
    BY <2>1, <2>2
<1>4. NoStray(mem)'
  BY <1>1 DEF NoStray, Inv
<1>5. Covered(saved)' /\ NoStray(saved)'
  BY <1>1, <1>3, <1>4 DEF Covered, NoStray
<1>6. QED
  BY <1>1, <1>2, <1>3, <1>4, <1>5 DEF Inv, FinishTable, ReadSoFar, OneDump

-----------------------------------------------------------------------------
(* Every step preserves the invariant.                                     *)
LEMMA NextInv == Inv /\ [Next]_vars => Inv'
<1> SUFFICES ASSUME Inv, [Next]_vars PROVE Inv'
  OBVIOUS
<1>1. CASE StartRun
  BY <1>1, StartRunInv
<1>2. CASE UNCHANGED vars
  BY <1>2 DEF vars, runVars, Inv, TypeOk, OneDump, Covered, NoStray, ReadSoFar, Claims, FileCount
<1>3. CASE \E t \in Tables : SkipDone(t) \/ NoFiles(t) \/ OpenTable(t)
  BY <1>3, SkipDoneInv, NoFilesInv, OpenTableInv
<1>4. CASE UpsertRow
  BY <1>4, UpsertRowInv
<1>5. CASE NextFile
  BY <1>5, NextFileInv
<1>6. CASE FinishTable
  BY <1>6, FinishTableInv
<1>7. CASE FinishRun \/ Crash \/ CrashAfterUpsert
  BY <1>7, EndRunInv DEF FinishRun, Crash, CrashAfterUpsert
<1>8. CASE Redump
  <2>1. TypeOk'
    BY <1>8, SnapshotAssumption DEF Inv, TypeOk, Redump, runVars
  <2>2. QED
    BY <2>1, <1>8 DEF Redump, runVars, Inv, OneDump, Covered, NoStray, ReadSoFar, Claims, FileCount
<1>9. QED
  BY <1>1, <1>2, <1>3, <1>4, <1>5, <1>6, <1>7, <1>8 DEF Next, RunStep, RefuseRun

(* The invariant holds in every reachable state.                           *)
THEOREM Invariance == Spec => []Inv
<1>1. Init => Inv
  BY InitInv
<1>2. Inv /\ [Next]_vars => Inv'
  BY NextInv
<1>3. QED
  BY <1>1, <1>2, PTL DEF Spec

(* The states of sync_snapshot have the types the module declares.         *)
THEOREM SnapshotTypeOk == Spec => []TypeOk
<1>1. Inv => TypeOk
  BY DEF Inv
<1>2. QED
  BY <1>1, Invariance, PTL

(* No row that the saved state of sync_snapshot passes over is missing     *)
(* from the destination: a done table is complete.                         *)
THEOREM SnapshotNoLoss == Spec => []NoLoss
<1>1. Inv => NoLoss
  BY DEF Inv, Covered, NoLoss
<1>2. QED
  BY <1>1, Invariance, PTL

(* The check of set_snapshot_tso keeps rows of two dumps from mixing.      *)
THEOREM SnapshotOneDump == Spec => []OneDump
<1>1. Inv => OneDump
  BY DEF Inv
<1>2. QED
  BY <1>1, Invariance, PTL

-----------------------------------------------------------------------------
(* No step takes the done flag of a table back.                            *)
LEMMA DoneStep ==
  ASSUME Inv, [Next]_vars, NEW t \in Tables, saved.tables[t].done
  PROVE  saved'.tables[t].done
<1>0. /\ saved \in State /\ mem \in State /\ mem.tables[t].done
      /\ pc = "rows" => tab \in Tables /\ tab # t /\ mem.tables[tab] \in Entry
                        /\ at.file \in Nat /\ at.row \in Nat
  BY DEF Inv, TypeOk, State
<1>1. CASE StartRun
  <2>1. saved'.tables = saved.tables
    BY <1>0, <1>1 DEF StartRun, State
  <2>2. QED
    BY <2>1, <1>1 DEF StartRun
<1>2. ASSUME NEW u \in Tables, SkipDone(u) \/ NoFiles(u) \/ OpenTable(u)
      PROVE  saved'.tables[t].done
  <2>1. CASE NoFiles(u)
    <3>1. u # t
      BY <2>1, <1>0 DEF NoFiles, IsDone
    <3>2. [done |-> TRUE, file |-> 0, next |-> 0] \in Entry
      BY DEF Entry
    <3>3. saved'.tables[t] = mem.tables[t]
      BY <3>1, <3>2, <2>1, <1>0, SetEntryLemma DEF NoFiles
    <3>4. QED
      BY <3>3, <2>1, <1>0 DEF NoFiles
  <2>2. QED
    BY <1>2, <2>1 DEF SkipDone, OpenTable
<1>3. CASE UpsertRow
  <2>1. RowRead(mem.tables[tab]) \in Entry
    <3>1. at.file \in Nat /\ at.row + 1 \in Nat /\ mem.tables[tab] \in Entry
      BY <1>0, <1>3 DEF UpsertRow
    <3>2. QED
      BY <3>1 DEF RowRead, Entry
  <2>2. mem'.tables[t] = mem.tables[t]
    BY <2>1, <1>0, <1>3, SetEntryLemma DEF UpsertRow
  <2>3. QED
    BY <2>2, <1>0, <1>3 DEF UpsertRow
<1>4. CASE NextFile
  <2>1. FileRead(mem.tables[tab]) \in Entry
    BY <1>0, <1>4 DEF NextFile, FileRead, Entry
  <2>2. saved' = SetEntry(mem, tab, FileRead(mem.tables[tab])) /\ pc = "rows"
    BY <1>4 DEF NextFile
  <2>3. saved'.tables[t] = mem.tables[t]
    BY <2>1, <2>2, <1>0, SetEntryLemma
  <2>4. QED
    BY <2>2, <2>3, <1>0, <1>4
<1>5. CASE FinishTable
  <2>1. [done |-> TRUE, file |-> FileCount(tab), next |-> 0] \in Entry
    BY <1>0, <1>5, CountsType DEF FinishTable, Entry
  <2>2. saved'.tables[t] = mem.tables[t]
    BY <2>1, <1>0, <1>5, SetEntryLemma DEF FinishTable
  <2>3. QED
    BY <2>2, <1>0, <1>5 DEF FinishTable
<1>6. CASE FinishRun \/ Crash \/ CrashAfterUpsert
  BY <1>6, <1>0 DEF FinishRun, Crash, CrashAfterUpsert, EndRun
<1>7. CASE Redump \/ UNCHANGED vars
  BY <1>7 DEF Redump, vars, runVars
<1>8. QED
  BY <1>1, <1>2, <1>3, <1>4, <1>5, <1>6, <1>7 DEF Next, RunStep, RefuseRun

(* Once a table is done sync_snapshot leaves it to sync_incremental.       *)
THEOREM SnapshotDoneIsFinal == Spec => DoneIsFinal
<1>1. ASSUME Inv, [Next]_vars, UpsertRow \/ CrashAfterUpsert
      PROVE  ~saved.tables[tab].done
  <2>1. pc = "rows" /\ tab \in Tables
    BY <1>1 DEF UpsertRow, CrashAfterUpsert, Inv, TypeOk
  <2>2. QED
    BY <1>1, <2>1 DEF Inv
<1>2. Inv /\ [Next]_vars
        => [/\ \A t \in Tables : saved.tables[t].done => saved'.tables[t].done
            /\ UpsertRow \/ CrashAfterUpsert => ~saved.tables[tab].done]_vars
  BY <1>1, DoneStep
<1>3. QED
  BY <1>2, Invariance, PTL DEF Spec, DoneIsFinal

-----------------------------------------------------------------------------
(* The cursor in memory is at or after the saved one, and reading is at or *)
(* after the cursor in memory.                                             *)
Ahead ==
  /\ \A t \in Tables : saved.tables[t].file <= mem.tables[t].file
  /\ pc = "rows" => mem.tables[tab].file <= at.file

(* The entries a state has are entries.                                    *)
LEMMA EntriesType ==
  ASSUME TypeOk
  PROVE  /\ saved \in State /\ mem \in State
         /\ \A t \in Tables : saved.tables[t] \in Entry /\ mem.tables[t] \in Entry
BY DEF TypeOk, State

(* The actions inside a file replace the entry of the current table by one *)
(* of the file being read.                                                 *)
LEMMA FileStep ==
  ASSUME Inv, UpsertRow \/ NextFile \/ FinishTable
  PROVE  /\ tab \in Tables /\ at.file \in 1 .. FileCount(tab)
         /\ \A t \in Tables \ {tab} : mem'.tables[t] = mem.tables[t]
         /\ mem'.tables[tab].file = at.file
         /\ mem'.tables[tab] \in Entry
<1>1. /\ tab \in Tables /\ at \in [file : Nat, row : Nat] /\ at.file \in 1 .. FileCount(tab)
      /\ mem \in State /\ mem.tables[tab] \in Entry
  BY EntriesType DEF Inv, TypeOk, UpsertRow, NextFile, FinishTable
<1>2. CASE UpsertRow
  <2> DEFINE e == RowRead(mem.tables[tab])
  <2>1. at.file \in Nat /\ at.row + 1 \in Nat
    BY <1>1
  <2>2. e \in Entry /\ e.file = at.file
    BY <1>1, <2>1 DEF RowRead, Entry
  <2>3. mem' = SetEntry(mem, tab, e)
    BY <1>2 DEF UpsertRow
  <2> HIDE DEF e
  <2>4. QED
    BY <1>1, <2>2, <2>3, SetEntryLemma
<1>3. CASE NextFile
  <2> DEFINE e == FileRead(mem.tables[tab])
  <2>1. at.file \in Nat
    BY <1>1
  <2>2. e \in Entry /\ e.file = at.file
    BY <1>1, <2>1 DEF FileRead, Entry
  <2>3. mem' = SetEntry(mem, tab, e)
    BY <1>3 DEF NextFile
  <2> HIDE DEF e
  <2>4. QED
    BY <1>1, <2>2, <2>3, SetEntryLemma
<1>4. CASE FinishTable
  <2> DEFINE e == [done |-> TRUE, file |-> FileCount(tab), next |-> 0]
  <2>1. e \in Entry /\ e.file = at.file
    BY <1>1, <1>4, CountsType DEF Entry, FinishTable, LastFile
  <2>2. mem' = SetEntry(mem, tab, e)
    BY <1>4 DEF FinishTable
  <2> HIDE DEF e
  <2>3. QED
    BY <1>1, <2>1, <2>2, SetEntryLemma
<1>5. QED
  BY <1>2, <1>3, <1>4

(* A table without files gets an entry without a file.                     *)
LEMMA NoFilesStep ==
  ASSUME Inv, NEW u \in Tables, NoFiles(u)
  PROVE  /\ \A t \in Tables \ {u} : mem'.tables[t] = mem.tables[t]
         /\ mem'.tables[u].done /\ mem'.tables[u].file = 0
<1> DEFINE e == [done |-> TRUE, file |-> 0, next |-> 0]
<1>1. e \in Entry /\ e.done /\ e.file = 0
  BY DEF Entry
<1>2. mem' = SetEntry(mem, u, e)
  BY DEF NoFiles
<1>3. mem \in State
  BY EntriesType DEF Inv
<1> HIDE DEF e
<1>4. QED
  BY <1>1, <1>2, <1>3, SetEntryLemma

(* No cursor, of the state or of the run, is ever behind the saved one.    *)
LEMMA AheadStep == Inv /\ Ahead /\ [Next]_vars => Ahead'
<1> SUFFICES ASSUME Inv, Ahead, [Next]_vars PROVE Ahead'
  OBVIOUS
<1>0. /\ saved \in State /\ mem \in State
      /\ \A t \in Tables : saved.tables[t].file \in Nat /\ mem.tables[t].file \in Nat
      /\ pc = "rows" => tab \in Tables /\ at.file \in Nat
  BY EntriesType DEF Inv, TypeOk, Entry
<1>1. CASE StartRun
  <2>1. mem'.tables = saved.tables /\ saved'.tables = saved.tables
    BY <1>0, <1>1 DEF StartRun, State
  <2>2. QED
    BY <2>1, <1>0, <1>1 DEF StartRun, Ahead
<1>2. ASSUME NEW u \in Tables, SkipDone(u) \/ NoFiles(u) \/ OpenTable(u)
      PROVE  Ahead'
  <2>1. CASE NoFiles(u)
    BY <2>1, <1>0, NoFilesStep DEF NoFiles, Ahead
  <2>2. CASE SkipDone(u)
    BY <2>2 DEF SkipDone, Ahead
  <2>3. CASE OpenTable(u)
    BY <2>3, <1>0 DEF OpenTable, StartFile, Ahead
  <2>4. QED
    BY <1>2, <2>1, <2>2, <2>3
<1>3. CASE UpsertRow
  BY <1>0, <1>3, FileStep DEF UpsertRow, Ahead
<1>4. CASE NextFile
  BY <1>0, <1>4, FileStep DEF NextFile, Ahead
<1>5. CASE FinishTable
  <2>1. saved' = mem' /\ pc' # "rows"
    BY <1>5 DEF FinishTable
  <2>2. \A t \in Tables : mem'.tables[t].file \in Nat
    BY <1>0, <1>5, FileStep
  <2>3. QED
    BY <2>1, <2>2 DEF Ahead
<1>6. CASE FinishRun \/ Crash \/ CrashAfterUpsert
  BY <1>0, <1>6 DEF FinishRun, Crash, CrashAfterUpsert, EndRun, Ahead
<1>7. CASE Redump \/ UNCHANGED vars
  BY <1>7 DEF Redump, vars, runVars, Ahead
<1>8. QED
  BY <1>1, <1>2, <1>3, <1>4, <1>5, <1>6, <1>7 DEF Next, RunStep, RefuseRun

(* Every reachable state has both invariants.                              *)
LEMMA AheadInvariance == Spec => [](Inv /\ Ahead)
<1>1. Init => Inv /\ Ahead
  BY InitInv DEF Init, InitialState, Ahead
<1>2. Inv /\ Ahead /\ [Next]_vars => (Inv /\ Ahead)'
  BY NextInv, AheadStep
<1>3. QED
  BY <1>1, <1>2, PTL DEF Spec

-----------------------------------------------------------------------------
(* What is behind the saved cursor of a table stays behind it.             *)
LEMMA KeptStep ==
  ASSUME Inv, Ahead, [Next]_vars, NEW t \in Tables, NEW f \in Nat,
         saved.tables[t].done \/ f < saved.tables[t].file
  PROVE  saved'.tables[t].done \/ f < saved'.tables[t].file
<1>0. /\ saved \in State /\ mem \in State
      /\ saved.tables[t].file \in Nat /\ mem.tables[t].file \in Nat
      /\ saved.tables[t].file <= mem.tables[t].file
  BY EntriesType DEF Inv, Entry, Ahead
<1>1. CASE saved.tables[t].done
  BY <1>1, DoneStep
<1>2. CASE StartRun
  <2>1. saved'.tables = saved.tables
    BY <1>0, <1>2 DEF StartRun, State
  <2>2. QED
    BY <2>1
<1>3. ASSUME NEW u \in Tables, SkipDone(u) \/ NoFiles(u) \/ OpenTable(u),
             ~saved.tables[t].done
      PROVE  saved'.tables[t].done \/ f < saved'.tables[t].file
  <2>1. CASE NoFiles(u)
    <3>1. saved' = mem'
      BY <2>1 DEF NoFiles
    <3>2. QED
      BY <2>1, <3>1, <1>0, <1>3, NoFilesStep
  <2>2. QED
    BY <1>3, <2>1 DEF SkipDone, OpenTable
<1>4. CASE (UpsertRow \/ NextFile \/ FinishTable) /\ ~saved.tables[t].done
  <2>1. saved' = mem' \/ saved' = saved
    BY <1>4 DEF UpsertRow, NextFile, FinishTable
  <2>2. mem.tables[tab].file <= at.file /\ at.file \in Nat /\ tab \in Tables
    BY <1>4, FileStep DEF UpsertRow, NextFile, FinishTable, Ahead, Inv, TypeOk
  <2>3. mem.tables[t].file <= mem'.tables[t].file /\ mem'.tables[t].file \in Nat
    BY <1>0, <1>4, <2>2, FileStep
  <2>4. QED
    BY <1>0, <1>4, <2>1, <2>3
<1>5. CASE FinishRun \/ Crash \/ CrashAfterUpsert \/ Redump \/ UNCHANGED vars
  BY <1>5 DEF FinishRun, Crash, CrashAfterUpsert, EndRun, Redump, vars, runVars
<1>6. QED
  BY <1>1, <1>2, <1>3, <1>4, <1>5 DEF Next, RunStep, RefuseRun

(* The position of the state is set once, by the first run.                *)
LEMMA TsoStep ==
  ASSUME Inv, [Next]_vars
  PROVE  \/ saved'.tso = saved.tso
         \/ saved.tso = 0 /\ loaded' = loaded
<1>0. saved \in State /\ mem \in State /\ mem.tso = saved.tso
  BY EntriesType DEF Inv
<1>1. CASE StartRun
  <2>1. saved'.tso = pos
    BY <1>0, <1>1 DEF StartRun, State
  <2>2. QED
    BY <2>1, <1>1 DEF StartRun, TsoMatches
<1>2. ASSUME NEW u \in Tables, SkipDone(u) \/ NoFiles(u) \/ OpenTable(u)
      PROVE  saved'.tso = saved.tso
  <2>1. CASE NoFiles(u)
    <3>1. [done |-> TRUE, file |-> 0, next |-> 0] \in Entry
      BY DEF Entry
    <3>2. QED
      BY <2>1, <3>1, <1>0, SetEntryLemma DEF NoFiles
  <2>2. QED
    BY <1>2, <2>1 DEF SkipDone, OpenTable
<1>3. CASE UpsertRow \/ NextFile \/ FinishTable
  <2>1. (saved' = mem' \/ saved' = saved) /\ mem' = [mem EXCEPT !.tables = mem'.tables]
    BY <1>0, <1>3 DEF UpsertRow, NextFile, FinishTable, SetEntry, State
  <2>2. QED
    BY <2>1, <1>0 DEF State
<1>4. CASE FinishRun \/ Crash \/ CrashAfterUpsert \/ Redump \/ UNCHANGED vars
  BY <1>4 DEF FinishRun, Crash, CrashAfterUpsert, EndRun, Redump, vars, runVars
<1>5. QED
  BY <1>1, <1>2, <1>3, <1>4 DEF Next, RunStep, RefuseRun

-----------------------------------------------------------------------------
(* What a cell is.                                                         *)
LEMMA CellsType ==
  ASSUME NEW c \in Cells
  PROVE  /\ c[1] \in Tables /\ c[2] \in 1 .. FileCount(c[1])
         /\ c[3] \in 1 .. RowCounts[c[1]][c[2]]
         /\ c[2] \in Nat
BY CountsType DEF Cells, Rows

(* A row is of the dump of the state or not there, and it is there if the  *)
(* saved state will not read it again.                                     *)
RowsTold ==
  /\ saved.tso \in 0 .. MaxPos
  /\ \A c \in Cells :
       /\ Copied(c) \in {0, saved.tso}
       /\ Kept(c) => Copied(c) = saved.tso
       /\ saved.tso = 0 => Copied(c) = 0 /\ ~Kept(c)

(* The invariant of the load says so.                                      *)
LEMMA CopiedLemma == Inv => RowsTold
<1> SUFFICES ASSUME Inv, NEW c \in Cells
             PROVE  /\ saved.tso \in 0 .. MaxPos
                    /\ Copied(c) \in {0, saved.tso}
                    /\ Kept(c) => Copied(c) = saved.tso
                    /\ saved.tso = 0 => Copied(c) = 0 /\ ~Kept(c)
  BY EntriesType DEF RowsTold, Inv, State
<1> USE CellsType
<1>1. saved.tso \in 0 .. MaxPos /\ \A t \in Tables : saved.tables[t].file \in Nat
  BY EntriesType DEF Inv, State, Entry
<1>2. \A n \in Copies(c) : n = saved.tso /\ n \in 1 .. MaxPos
  BY DEF Inv, OneDump, Copies
<1>3. Copies(c) # {} => Copied(c) = saved.tso
  <2>1. ASSUME Copies(c) # {} PROVE \E n \in Copies(c) : \A m \in Copies(c) : m <= n
    BY <1>1, <1>2, <2>1
  <2>2. QED
    BY <1>2, <2>1 DEF Copied
<1>4. Copies(c) = {} => Copied(c) = 0
  BY DEF Copied
<1>5. ASSUME Kept(c) PROVE saved.tso \in Copies(c)
  <2>1. Claims(saved.tables[c[1]], c[2], c[3])
    BY <1>5 DEF Kept, Claims
  <2>2. <<saved.tso, c[2], c[3]>> \in loaded[c[1]]
    BY <2>1 DEF Inv, Covered
  <2>3. saved.tso \in 1 .. MaxPos
    BY <2>2 DEF Inv, TypeOk
  <2>4. QED
    BY <2>2, <2>3 DEF Copies
<1>6. QED
  BY <1>1, <1>2, <1>3, <1>4, <1>5

-----------------------------------------------------------------------------
(* And after every step.                                                   *)
LEMMA CopiedLemmaNext == Inv' => RowsTold'
BY CopiedLemma, PTL

(* The initial states are those of a feed of which nothing is known.       *)
LEMMA FeedInit == Init => Feed!Init
<1> SUFFICES ASSUME Init PROVE Feed!Init
  OBVIOUS
<1>1. Inv /\ saved.tso = 0
  BY InitInv DEF Init, InitialState
<1>2. \A c \in Cells : Copied(c) = 0 /\ ~Kept(c)
  BY <1>1, CopiedLemma DEF RowsTold
<1>3. [ts |-> 0] \in Value
  BY SnapshotAssumption DEF Value
<1>4. {[ts |-> n] : n \in {0, saved.tso}} = {[ts |-> 0]}
  BY <1>1
<1>5. QED
  BY <1>2, <1>3, <1>4 DEF Feed!Init

(* The first run gives the feed its dump: nothing is loaded yet.           *)
LEMMA FeedPublish ==
  ASSUME Inv, Inv', saved.tso = 0, loaded' = loaded
  PROVE  Feed!Publish
<1>1. \A c \in Cells : Copied(c) = 0 /\ ~Kept(c)
  BY CopiedLemma DEF RowsTold
<1>2. \A c \in Cells : Copied(c)' = Copied(c)
  BY DEF Copied, Copies
<1>3. \A c \in Cells : ~Kept(c)'
  BY <1>1, <1>2, CopiedLemmaNext DEF RowsTold
<1>4. {[ts |-> n] : n \in {0, saved.tso}} = {[ts |-> 0]}
  OBVIOUS
<1>5. {[ts |-> n] : n \in {0, saved'.tso}} \in SUBSET Value /\ saved'.tso \in Nat
  BY CopiedLemmaNext, SnapshotAssumption DEF RowsTold, Value
<1>6. \A c \in Cells :
        /\ [ts |-> Copied(c)]' = [ts |-> Copied(c)]
        /\ (IF Kept(c) THEN saved.tso ELSE 0)' = (IF Kept(c) THEN saved.tso ELSE 0)
        /\ Feed!Extends({[ts |-> n] : n \in {0, saved.tso}},
                        {[ts |-> n] : n \in {0, saved'.tso}})
  BY <1>1, <1>2, <1>3, <1>4, <1>5 DEF Feed!Extends
<1>7. QED
  BY <1>5, <1>6 DEF Feed!Publish

(* Any other step writes rows of the dump and saves cursors, or neither.   *)
LEMMA FeedSync ==
  ASSUME Inv, Ahead, [Next]_vars, Inv', saved'.tso = saved.tso
  PROVE  Feed!Sync
<1>1. \A c \in Cells : Kept(c) => Kept(c)'
  BY KeptStep, CellsType DEF Kept
<1>2. saved.tso \in Nat
  BY CopiedLemma, SnapshotAssumption DEF RowsTold
<1>3. ASSUME NEW c \in Cells
      PROVE  /\ [ts |-> Copied(c)]' \in Value
             /\ [ts |-> Copied(c)]' \in {[ts |-> n] : n \in {0, saved.tso}}
             /\ (IF Kept(c) THEN saved.tso ELSE 0)' \in Nat
             /\ (IF Kept(c) THEN saved.tso ELSE 0)'
                  \in (IF Kept(c) THEN saved.tso ELSE 0) .. Copied(c)'
  <2>1. /\ Copied(c)' \in {0, saved.tso}
        /\ Kept(c)' => Copied(c)' = saved.tso
        /\ saved.tso \in 0 .. MaxPos
    BY CopiedLemmaNext DEF RowsTold
  <2>2. QED
    BY <1>1, <1>2, <2>1, SnapshotAssumption DEF Value
<1>4. QED
  BY <1>3 DEF Feed!Sync

(* Every step of the load is a step of the feed.                           *)
LEMMA FeedNext == Inv /\ Ahead /\ Inv' /\ [Next]_vars => [Feed!Next]_Feed!vars
BY FeedPublish, FeedSync, TsoStep DEF Feed!Next

(* sync_snapshot keeps the promise of a resumable feed: whatever kills a   *)
(* run and whenever the dump is replaced, the copy shows only the dump the *)
(* state names, and a file once behind the saved cursor is there for good. *)
THEOREM SnapshotIsResumableFeed == Spec => IsResumableFeed
<1>1. Init => Feed!Init
  BY FeedInit
<1>2. Inv /\ Ahead /\ (Inv /\ Ahead)' /\ [Next]_vars => [Feed!Next]_Feed!vars
  BY FeedNext
<1>3. QED
  BY <1>1, <1>2, AheadInvariance, PTL DEF Spec, IsResumableFeed, Feed!Spec
=============================================================================
