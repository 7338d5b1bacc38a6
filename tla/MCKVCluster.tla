----------------------------- MODULE MCKVCluster -----------------------------
(* An instance of KVCluster for TLC.                                        *)
EXTENDS KVCluster

CONSTANTS c1, c2

\* The first client is at server 1, the second at server 2.
MCserver_id == [c \in Clients |-> IF c = c1 THEN 1 ELSE 2]
==============================================================================
