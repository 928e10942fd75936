------------------------- MODULE MCIncrementalSync --------------------------
(* Constants of the model-checked instances of IncrementalSync.            *)
EXTENDS IncrementalFeed, TLC

CONSTANTS t1, t2, k1, k2

OneTable  == {t1}
TwoTables == {t1, t2}
AllSelected  == {Tables}
EitherOrBoth == {{t1}, {t2}, {t1, t2}}
OneKey    == {k1}
TwoKeys   == {k1, k2}

Unpartitioned   == {0}
TwoPartitions   == {101, 102}
AllInOne        == [k \in Keys |-> 0]
OneKeyPerPart   == [k \in Keys |-> IF k = k1 THEN 101 ELSE 102]

UpdateOnly   == {"U"}
OnlyDeletes  == {"D"}

Symmetry    == Permutations(Keys)
SymmetryTab == Permutations(Tables)
=============================================================================
