--------------------------- MODULE ResumableFeed ----------------------------
(***************************************************************************)
(* What the connector promises of a destination it feeds, whatever kills   *)
(* it: every cell holds a value the source has had since the feed began,   *)
(* none that is older than what has been acknowledged for the cell, and an *)
(* acknowledgement is for good.  Between acknowledgements a cell may go    *)
(* back, because a resumed feed repeats itself.                            *)
(*                                                                         *)
(* Both halves of the connector keep this promise: IncrementalFeed and     *)
(* SnapshotFeed say in which terms.                                        *)
(***************************************************************************)
EXTENDS Integers

CONSTANTS
  Cells,     \* what the destination is made of
  Value      \* what a cell may hold, each with the time ts it is from

VARIABLES
  hist,      \* the values of each cell that may be shown: a stretch of its past
  copy,      \* what the destination holds
  acked      \* the time up to which the saved state has put each cell behind it

vars == <<hist, copy, acked>>

Init ==
  /\ copy \in [Cells -> {v \in Value : v.ts = 0}]
  /\ hist = [c \in Cells |-> {copy[c]}]
  /\ acked = [c \in Cells |-> 0]

(* The source has moved on: the past that may be shown now reaches later.  *)
Extends(S, T) == S \subseteq T /\ \A v \in T \ S : \A w \in S : w.ts < v.ts

Publish ==
  /\ UNCHANGED copy
  /\ hist' \in [Cells -> SUBSET Value]
  /\ \A c \in Cells : Extends(hist[c], hist'[c])
  /\ UNCHANGED acked

(* Some cells of which nothing has been acknowledged are given a point of  *)
(* the source to start from, all that was before it being left out.        *)
Begin(S) ==
  /\ hist' \in [Cells -> SUBSET Value]
  /\ copy' \in [Cells -> Value]
  /\ acked' \in [Cells -> Nat]
  /\ \A c \in S : /\ acked[c] = 0 /\ copy[c].ts = 0
                  /\ copy'[c] \in hist'[c]
                  /\ \A v \in hist'[c] : copy'[c].ts <= v.ts
                  /\ acked'[c] = copy'[c].ts
  /\ \A c \in Cells \ S :
       hist'[c] = hist[c] /\ copy'[c] = copy[c] /\ acked'[c] = acked[c]

(* Cells are written and acknowledgements saved.                           *)
Sync ==
  /\ UNCHANGED hist
  /\ copy' \in [Cells -> Value]
  /\ acked' \in [Cells -> Nat]
  /\ \A c \in Cells :
       /\ copy'[c] \in hist[c]
       /\ acked'[c] \in acked[c] .. copy'[c].ts

Next == Publish \/ Sync \/ \E S \in SUBSET Cells : Begin(S)

Spec == Init /\ [][Next]_vars

-----------------------------------------------------------------------------
(* What a reader of the destination may rely on at every moment.           *)
Kept == \A c \in Cells : copy[c] \in hist[c] /\ acked[c] <= copy[c].ts
=============================================================================
