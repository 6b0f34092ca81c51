------------------------- MODULE MCForensicAnalysis --------------------------
(* An instance of ForensicAnalysis: three tasks, two slots, two calls a period.*)
EXTENDS ForensicAnalysis, TLC

CONSTANTS t1, t2, t3, deed, map

ThreeTasks == {t1, t2, t3}
TwoFiles == {deed, map}
OnlyMap == {map}
TaskSymmetry == Permutations(ThreeTasks)
=============================================================================
