-------------------------- MODULE MCIncrementScan ---------------------------
(* Constants of the model-checked instances of IncrementScan.              *)
EXTENDS IncrementScan

Id(n)   == [form |-> "id", n |-> n]
Year(n) == [form |-> "year", n |-> n]

Feed(sep, parts, legacy) == [sep |-> sep, parts |-> parts, legacy |-> legacy]

(* An unpartitioned table under every separator, with either state, and a  *)
(* partitioned one without dates.                                          *)
SoundLayouts ==
  {Feed(sep, {}, legacy) : sep \in {"none", "year", "month", "day"}, legacy \in BOOLEAN}
    \cup {Feed("none", {Id(1), Id(2)}, FALSE)}

DatedPartitions     == {Feed("day", {Id(1), Id(2)}, FALSE)}
FourDigitPartitions == {Feed("none", {Year(1), Year(2)}, FALSE)}
LegacyPartitions    == {Feed("none", {Id(1)}, TRUE)}
=============================================================================
