-------------------------- MODULE IncrementalFeed ---------------------------
(***************************************************************************)
(* IncrementalSync keeps the promise of ResumableFeed, a cell being a key  *)
(* of a table: its past that may be shown reaches from the snapshot to the *)
(* published checkpoint-ts.                                                *)
(***************************************************************************)
EXTENDS IncrementalSync

Cells == Tables \X Keys

NoChange == [ts |-> 0, live |-> FALSE]

Shown(t, k) ==
  IF t \in loaded
  THEN {LastChange(t, k, snap)} \cup {x \in Changes(t, k) : snap < x.ts /\ x.ts <= meta}
  ELSE {NoChange}

(* The changes of a key that the saved state needs no reading for: those   *)
(* of the snapshot, the rows behind its cursors and the truncates behind   *)
(* its watermark.                                                          *)
BehindState(t, k) ==
  {LastChange(t, k, snap).ts}
    \cup {RowAt(x).ts : x \in {y \in Positions :
            y[1][1] = t /\ RowAt(y).key = k /\ IsRead(saved, y)}}
    \cup {m.v : m \in {n \in schemas[t] :
            n.trunc /\ n.v <= Max2(saved.wm[t], SnapVersion(t))}}

Acked(t, k) ==
  IF t \in loaded
  THEN LET behind == BehindState(t, k) IN CHOOSE a \in behind : \A b \in behind : b <= a
  ELSE 0

Feed == INSTANCE ResumableFeed WITH
          Value <- Cell,
          hist  <- [c \in Cells |-> Shown(c[1], c[2])],
          copy  <- [c \in Cells |-> dest[c[1]][c[2]]],
          acked <- [c \in Cells |-> Acked(c[1], c[2])]

(* As long as the catalog stays the same, every step of every run, killed  *)
(* or not, is one the abstract feed may take: no cell shows what was not   *)
(* true since the snapshot, none is behind what the state has saved, and   *)
(* saved progress is never taken back.                                     *)
IsResumableFeed == Feed!Spec
=============================================================================
