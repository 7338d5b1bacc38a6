--------------------------- MODULE MCMaelstromNode ---------------------------
(* Instances of MaelstromNode for TLC.                                      *)
EXTENDS MaelstromNode, TLC

CONSTANTS k, v1, v2

\* One key, two values.
MCKeys == {k}
MCValues == {v1, v2}

\* The identities of client operations are interchangeable.
IdSymmetry == Permutations(Ids)
==============================================================================
