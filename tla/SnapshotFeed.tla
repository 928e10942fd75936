---------------------------- MODULE SnapshotFeed ----------------------------
(***************************************************************************)
(* SnapshotSync keeps the promise of ResumableFeed, a cell being a row of  *)
(* the dump: it is either not there or of the dump the state names.        *)
(***************************************************************************)
EXTENDS SnapshotSync

Rows(t)  == UNION {{<<t, f, i>> : i \in 1 .. RowCounts[t][f]} : f \in 1 .. FileCount(t)}
Cells    == UNION {Rows(t) : t \in Tables}
Value    == [ts : 0 .. MaxPos]
Copies(c) == {n \in 1 .. MaxPos : <<n, c[2], c[3]>> \in loaded[c[1]]}

(* The latest dump a row was loaded from, 0 if it never was.               *)
Copied(c) ==
  IF Copies(c) = {} THEN 0 ELSE CHOOSE n \in Copies(c) : \A m \in Copies(c) : m <= n

(* The rows the saved state will not load again: those of the files before *)
(* its cursor.  The cursor goes back at the end of a file, to its start.   *)
Kept(c) == LET e == saved.tables[c[1]] IN e.done \/ c[2] < e.file

Feed == INSTANCE ResumableFeed WITH
          hist  <- [c \in Cells |-> {[ts |-> n] : n \in {0, saved.tso}}],
          copy  <- [c \in Cells |-> [ts |-> Copied(c)]],
          acked <- [c \in Cells |-> IF Kept(c) THEN saved.tso ELSE 0]

(* Every step of the snapshot load, of the dump tool and of a kill is one  *)
(* the abstract feed may take: the copy shows no dump but the one of the   *)
(* state, and a file once behind the saved cursor is loaded and stays so.  *)
IsResumableFeed == Feed!Spec
=============================================================================
