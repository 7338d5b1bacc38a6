-------------------------- MODULE MCCheckedHistories --------------------------
(* Instances of CheckedHistories for TLC.                                   *)
EXTENDS CheckedHistories

CONSTANTS k1, k2, v1, v2

\* Values are interchangeable.
ValueSymmetry == Permutations(Values)
==============================================================================
