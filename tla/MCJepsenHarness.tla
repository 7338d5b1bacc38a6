--------------------------- MODULE MCJepsenHarness ---------------------------
(* Instances of JepsenHarness for TLC.                                      *)
EXTENDS JepsenHarness

CONSTANTS k, v, v2

\* Values are interchangeable.
ValueSymmetry == Permutations(Values)
==============================================================================
