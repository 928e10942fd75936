---------------------------- MODULE SnapshotSync ----------------------------
(***************************************************************************)
(* sync_snapshot: every run resumes the load of the dump under snapshot/   *)
(* from the cursor of each table, until the table is done.  The dump may   *)
(* be replaced by one taken at another position between two runs, and a    *)
(* run may be killed between any two operations.                           *)
(*                                                                         *)
(* A file is the number of its rows: what the load may get wrong is which  *)
(* rows it upserts and when, not their columns.  The tables are visited in *)
(* any order; the code sorts them by name, and names are data.             *)
(***************************************************************************)
EXTENDS Integers, Sequences

CONSTANTS
  Tables,       \* the tables of the catalog
  RowCounts,    \* RowCounts[t][f]: rows of the f-th file of table t
  MaxPos,       \* bound: dumps are taken at positions 1..MaxPos
  Interval      \* checkpoint_interval_rows

ASSUME SnapshotAssumption ==
  /\ RowCounts \in [Tables -> Seq(Nat)]
  /\ MaxPos \in Nat \ {0}
  /\ Interval \in Nat \ {0}

VARIABLES
  pos,       \* Pos of snapshot/metadata
  loaded,    \* rows <<dump, file, row>> upserted into each table
  saved,     \* the state Fivetran would hand to the next run
  mem,       \* the state dict of the current run
  pc,        \* "idle", "tables" (the loop over tables) or "rows" (in a file)
  left,      \* tables the loop has not visited
  tab,       \* the table being loaded
  at,        \* its file being read and the rows of it the loop has taken
  unsaved    \* rows_since_checkpoint

runVars == <<pc, left, tab, at, unsaved>>
vars == <<pos, loaded, saved, mem, runVars>>

NoTable == "none"
Nowhere == [file |-> 0, row |-> 0]

(* The file "" is 0.                                                       *)
Entry == [done : BOOLEAN, file : Nat, next : Nat]
State == [tso : 0 .. MaxPos, tables : [Tables -> Entry]]

InitialState ==
  [tso |-> 0, tables |-> [t \in Tables |-> [done |-> FALSE, file |-> 0, next |-> 0]]]

SetEntry(st, t, e) == [st EXCEPT !.tables = [@ EXCEPT ![t] = e]]

FileCount(t) == Len(RowCounts[t])

TypeOk ==
  /\ pos \in 1 .. MaxPos
  /\ loaded \in [Tables -> SUBSET ((1 .. MaxPos) \X Nat \X Nat)]
  /\ saved \in State
  /\ mem \in State
  /\ pc \in {"idle", "tables", "rows"}
  /\ left \subseteq Tables
  /\ tab \in Tables \cup {NoTable}
  /\ pc = "rows" => tab \in Tables /\ at.file \in 1 .. FileCount(tab)
  /\ at \in [file : Nat, row : Nat]
  /\ unsaved \in Nat

Init ==
  /\ pos = 1
  /\ loaded = [t \in Tables |-> {}]
  /\ saved = InitialState
  /\ mem = InitialState
  /\ pc = "idle"
  /\ left = {}
  /\ tab = NoTable
  /\ at = Nowhere
  /\ unsaved = 0

-----------------------------------------------------------------------------
(* The operators named Fault_... are plausible mistakes in the definition  *)
(* that follows them; the specification does not use them.                 *)

Redump ==
  /\ pc = "idle"
  /\ pos < MaxPos
  /\ pos' = pos + 1
  /\ UNCHANGED <<loaded, saved, mem, runVars>>

(* Every dump is accepted.                                                 *)
Fault_TsoMatches(st) == TRUE

(* Only the first run of a snapshot is accepted.                           *)
Fault_TsoUnset(st) == st.tso = 0

(* set_snapshot_tso raises when the state is of another dump.              *)
TsoMatches(st) == st.tso = 0 \/ st.tso = pos

StartRun ==
  /\ pc = "idle"
  /\ TsoMatches(saved)
  /\ mem' = [saved EXCEPT !.tso = pos]
  /\ saved' = mem'
  /\ left' = Tables
  /\ pc' = "tables"
  /\ UNCHANGED <<pos, loaded, tab, at, unsaved>>

RefuseRun ==
  /\ pc = "idle"
  /\ ~TsoMatches(saved)
  /\ UNCHANGED vars

(* The done flag of a table is not looked at.                              *)
Fault_IsDone(t) == FALSE

IsDone(t) == mem.tables[t].done

SkipDone(t) ==
  /\ pc = "tables"
  /\ t \in left
  /\ IsDone(t)
  /\ left' = left \ {t}
  /\ UNCHANGED <<pos, loaded, saved, mem, pc, tab, at, unsaved>>

(* A table without files, an empty one, is done at once.                   *)
NoFiles(t) ==
  /\ pc = "tables"
  /\ t \in left
  /\ ~IsDone(t)
  /\ FileCount(t) = 0
  /\ mem' = SetEntry(mem, t, [done |-> TRUE, file |-> 0, next |-> 0])
  /\ saved' = mem'
  /\ left' = left \ {t}
  /\ unsaved' = 0
  /\ UNCHANGED <<pos, loaded, pc, tab, at>>

StartFile(e) == IF e.file = 0 THEN 1 ELSE e.file

(* The start file always exists: its number comes from the same dump.      *)
OpenTable(t) ==
  LET e == mem.tables[t]
  IN /\ pc = "tables"
     /\ t \in left
     /\ ~IsDone(t)
     /\ StartFile(e) \in 1 .. FileCount(t)
     /\ left' = left \ {t}
     /\ tab' = t
     /\ at' = [file |-> StartFile(e), row |-> e.next]
     /\ pc' = "rows"
     /\ UNCHANGED <<pos, loaded, saved, mem, unsaved>>

-----------------------------------------------------------------------------
AtEnd == at.row >= RowCounts[tab][at.file]

(* The row is counted before it is upserted.                               *)
Fault_RowRead(e) == [e EXCEPT !.file = at.file, !.next = at.row + 2]

RowRead(e) == [e EXCEPT !.file = at.file, !.next = at.row + 1]

Upserted == [loaded EXCEPT ![tab] = @ \cup {<<pos, at.file, at.row + 1>>}]

UpsertRow ==
  /\ pc = "rows"
  /\ ~AtEnd
  /\ loaded' = Upserted
  /\ mem' = SetEntry(mem, tab, RowRead(mem.tables[tab]))
  /\ at' = [at EXCEPT !.row = @ + 1]
  /\ \/ saved' = mem' /\ unsaved' = 0
     \/ unsaved + 1 < Interval /\ unsaved' = unsaved + 1 /\ UNCHANGED saved
  /\ UNCHANGED <<pos, pc, left, tab>>

(* The loop runs past the last file.                                       *)
Fault_LastFile == at.file > FileCount(tab)

LastFile == at.file = FileCount(tab)

(* The end of a file puts the cursor back to the start of that file, and   *)
(* saves it so.                                                            *)
FileRead(e) == [e EXCEPT !.file = at.file, !.next = 0]

NextFile ==
  /\ pc = "rows"
  /\ AtEnd
  /\ ~LastFile
  /\ mem' = SetEntry(mem, tab, FileRead(mem.tables[tab]))
  /\ saved' = mem'
  /\ at' = [file |-> at.file + 1, row |-> 0]
  /\ unsaved' = 0
  /\ UNCHANGED <<pos, loaded, pc, left, tab>>

FinishTable ==
  /\ pc = "rows"
  /\ AtEnd
  /\ LastFile
  /\ mem' = SetEntry(mem, tab, [done |-> TRUE, file |-> FileCount(tab), next |-> 0])
  /\ saved' = mem'
  /\ pc' = "tables"
  /\ tab' = NoTable
  /\ at' = Nowhere
  /\ unsaved' = 0
  /\ UNCHANGED <<pos, loaded, left>>

-----------------------------------------------------------------------------
EndRun ==
  /\ mem' = saved
  /\ pc' = "idle"
  /\ left' = {}
  /\ tab' = NoTable
  /\ at' = Nowhere
  /\ unsaved' = 0
  /\ UNCHANGED <<pos, saved>>

FinishRun == pc = "tables" /\ left = {} /\ EndRun /\ UNCHANGED loaded

Crash == pc # "idle" /\ EndRun /\ UNCHANGED loaded

CrashAfterUpsert == pc = "rows" /\ ~AtEnd /\ loaded' = Upserted /\ EndRun

RunStep ==
  \/ StartRun
  \/ RefuseRun
  \/ \E t \in Tables : SkipDone(t) \/ NoFiles(t) \/ OpenTable(t)
  \/ UpsertRow
  \/ NextFile
  \/ FinishTable
  \/ FinishRun

Next == RunStep \/ Redump \/ Crash \/ CrashAfterUpsert

Spec == Init /\ [][Next]_vars

-----------------------------------------------------------------------------
(***************************************************************************)
(* Properties.                                                             *)
(***************************************************************************)
(* What an entry claims: every row of a done table, else the rows before   *)
(* its cursor.                                                             *)
Claims(e, f, i) == e.done \/ f < e.file \/ (f = e.file /\ i <= e.next)

(* A row that the saved state will not read again has been loaded, from    *)
(* the dump the state names: sync_incremental, which starts once every     *)
(* table is done, starts from a complete copy.                             *)
NoLoss ==
  \A t \in Tables : \A f \in 1 .. FileCount(t) : \A i \in 1 .. RowCounts[t][f] :
    Claims(saved.tables[t], f, i) => <<saved.tso, f, i>> \in loaded[t]

(* The copy never mixes rows of two dumps.                                 *)
OneDump == \A t \in Tables : \A r \in loaded[t] : r[1] = saved.tso

(* A table once done stays done and is never upserted again: a late        *)
(* snapshot row would put back what incremental sync has changed since.    *)
DoneIsFinal ==
  [][/\ \A t \in Tables : saved.tables[t].done => saved'.tables[t].done
     /\ UpsertRow \/ CrashAfterUpsert => ~saved.tables[tab].done]_vars

(* Fivetran runs the connector again and again and each run takes its      *)
(* steps.                                                                  *)
FairSpec == Spec /\ WF_vars(RunStep)

Complete == \A t \in Tables : saved.tables[t].done

(* Once runs stop being killed the snapshot completes, although a resumed  *)
(* file starts over, unless the dump has been replaced under it.           *)
Completes == (<>[][RunStep]_vars) => <>(Complete \/ saved.tso \notin {0, pos})
=============================================================================
