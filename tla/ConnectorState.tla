--------------------------- MODULE ConnectorState ---------------------------
(***************************************************************************)
(* The incremental part of the connector state, the JSON object Fivetran   *)
(* keeps between runs, and the operators of state.py on it.                *)
(*                                                                         *)
(* A stream with no entry under "streams" is the all-zero cursor: every    *)
(* reader of the state treats the two alike, and an entry the reader       *)
(* creates has latest_index_file_index > 0.  The date "" is 0.             *)
(***************************************************************************)
EXTENDS TiCDCSink

(* lastDate/lastFile: the last file read to its end; curDate/curFile/row:  *)
(* the file being read and its next row; latest: the largest file number   *)
(* seen in an index; lastTs: the commit-ts of the last row emitted.        *)
Cursor == [lastDate : 0 .. MaxDate, lastFile : Nat, curDate : 0 .. MaxDate, curFile : Nat,
           row : Nat, latest : Nat, lastTs : 0 .. MaxTs]

(* wm: ddl_watermark; tableTs: commit_ts_by_table; seen:                   *)
(* last_seen_checkpoint_ts.                                                *)
State == [cursors : [Streams -> Cursor], wm : [Tables -> 0 .. MaxTs],
          tableTs : [Tables -> 0 .. MaxTs], seen : 0 .. MaxTs]

NoCursor == [lastDate |-> 0, lastFile |-> 0, curDate |-> 0, curFile |-> 0,
             row |-> 0, latest |-> 0, lastTs |-> 0]

InitialState == [cursors |-> [s \in Streams |-> NoCursor], wm |-> [t \in Tables |-> 0],
                 tableTs |-> [t \in Tables |-> 0], seen |-> 0]

Max2(a, b) == IF a >= b THEN a ELSE b

-----------------------------------------------------------------------------
(* The operators named Fault_... are plausible mistakes in the definition  *)
(* that follows them; no specification uses them.                          *)

HasPending(st) ==
  \E s \in Streams :
    LET c == st.cursors[s]
    IN c.row > 0 \/ c.curFile > c.lastFile \/ c.lastFile < c.latest

(* The cursor of the current version is dropped too.                       *)
Fault_Obsolete(st, s) == st.cursors[s].row = 0 /\ s[2] <= st.wm[s[1]]

(* A cursor of a version below the DDL watermark that does not stand       *)
(* inside a file.                                                          *)
Obsolete(st, s) == st.cursors[s].row = 0 /\ s[2] < st.wm[s[1]]

(* The commit-ts of a table outlives its cursors.                          *)
Fault_KeptTs(st, C) == st.tableTs

KeptTs(st, C) == [t \in Tables |-> IF t \in C THEN st.tableTs[t] ELSE 0]

(* What is left of the state for catalog C.  The watermark of a table that *)
(* is not in the catalog stays.                                            *)
Compact(st, C) ==
  [st EXCEPT
     !.cursors = [s \in Streams |->
        IF s[1] \notin C \/ Obsolete(st, s) THEN NoCursor ELSE st.cursors[s]],
     !.tableTs = KeptTs(st, C)]

(* One watermark for all tables.                                           *)
Fault_SetWatermark(st, t, v) == [st EXCEPT !.wm = [x \in Tables |-> Max2(@[x], v)]]

SetWatermark(st, t, v) == [st EXCEPT !.wm = [st.wm EXCEPT ![t] = Max2(st.wm[t], v)]]

SetCursor(st, s, c) == [st EXCEPT !.cursors = [@ EXCEPT ![s] = c]]
=============================================================================
