---------------------------- MODULE MCOmniPaxosLog ----------------------------
(* Instances of OmniPaxosLog for TLC.                                       *)
EXTENDS OmniPaxosLog, TLC

\* Nodes and commands are interchangeable.
Symmetry == Permutations(Nodes) \cup Permutations(Commands)
==============================================================================
