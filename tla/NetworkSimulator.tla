--------------------------- MODULE NetworkSimulator ---------------------------
(***************************************************************************)
(* The fault injector of the test harness (src/bin/jepsen_harness.rs): the *)
(* table of severed links, the list of killed nodes, the node processes,   *)
(* and the nemesis that injects one fault and undoes it in turns.          *)
(***************************************************************************)
EXTENDS Integers, FiniteSets

CONSTANTS
    NodeCount,     \* --nodes
    NemesisType    \* --nemesis

ASSUME NetworkAssumption ==
    /\ NodeCount \in Nat
    /\ NemesisType \in {"none", "partition", "kill", "all"}

Nodes == 0 .. (NodeCount - 1)

VARIABLES
    partitions,     \* the links <<src, dest>> that drop messages
    killed_nodes,   \* the nodes the harness believes to be down
    running,        \* is the child process of the node running?
    nemesis_active  \* has the nemesis a fault to undo?

netVars == <<partitions, killed_nodes, running, nemesis_active>>

NetInit ==
    /\ partitions = {}
    /\ killed_nodes = {}
    /\ running = [n \in Nodes |-> TRUE]
    /\ nemesis_active = FALSE

is_partitioned(src, dest) == <<src, dest>> \in partitions

is_killed(n) == n \in killed_nodes

\* The links between two groups of nodes, in both directions.
Links(A, B) == (A \X B) \cup (B \X A)

isolate_node(n) == partitions' = partitions \cup Links({n}, Nodes \ {n})

\* The nodes before and from the middle of the list.
split_brain ==
    LET mid == NodeCount \div 2
    IN  partitions' = partitions \cup
            Links({n \in Nodes : n < mid}, {n \in Nodes : n >= mid})

heal_all == partitions' = {}

\* Mutant: the process is killed and the kill is not recorded.
kill_node_unrecorded(n) ==
    /\ running' = [running EXCEPT ![n] = FALSE]
    /\ UNCHANGED killed_nodes

\* process.kill() and kill_node.
kill_node(n) ==
    /\ running' = [running EXCEPT ![n] = FALSE]
    /\ killed_nodes' = killed_nodes \cup {n}

\* One fault of the kind the command line asks for.
Inject ==
    \/ /\ NemesisType \in {"partition", "all"}
       /\ \E n \in Nodes : isolate_node(n)
       /\ UNCHANGED <<killed_nodes, running>>
    \/ /\ NemesisType = "partition"
       /\ split_brain
       /\ UNCHANGED <<killed_nodes, running>>
    \/ /\ NemesisType \in {"kill", "all"}
       /\ \E n \in Nodes : kill_node(n)
       /\ UNCHANGED partitions

\* Mutant: the killed nodes are struck off the list but not started again.
Undo_without_respawn ==
    /\ heal_all
    /\ killed_nodes' = {}
    /\ UNCHANGED running

\* Heal the partitions, and replace the process of every killed node.
Undo ==
    /\ heal_all
    /\ killed_nodes' = {}
    /\ running' = [n \in Nodes |-> is_killed(n) \/ running[n]]

\* Mutant: the flag is never set, so that faults add up.
NemesisTurn_flag_unset ==
    /\ NemesisType # "none"
    /\ IF nemesis_active THEN Undo ELSE Inject
    /\ UNCHANGED nemesis_active

\* One turn of the nemesis, when its timer has expired.
NemesisTurn ==
    /\ NemesisType # "none"
    /\ IF nemesis_active THEN Undo ELSE Inject
    /\ nemesis_active' = ~nemesis_active

\* When the test is over the partitions heal; killed nodes stay down.
FinalHealing ==
    /\ heal_all
    /\ UNCHANGED <<killed_nodes, running, nemesis_active>>

NetNext == NemesisTurn \/ FinalHealing

NetSpec == NetInit /\ [][NetNext]_netVars

------------------------------------------------------------------------------

NetTypeOK ==
    /\ partitions \subseteq Nodes \X Nodes
    /\ killed_nodes \subseteq Nodes
    /\ running \in [Nodes -> BOOLEAN]
    /\ nemesis_active \in BOOLEAN

\* A set of running nodes, pairwise connected in both directions.
Connected(Q) ==
    /\ \A n \in Q : running[n]
    /\ \A m, n \in Q : ~is_partitioned(m, n)

Majority(Q) == 2 * Cardinality(Q) > NodeCount

\* Whatever the nemesis has injected by now, a majority of the nodes runs
\* and is connected: the alternation of faults and repairs never lets two
\* faults add up, so a test never starves the cluster of a quorum.
MajorityConnected == \E Q \in SUBSET Nodes : Majority(Q) /\ Connected(Q)

\* The list of killed nodes is the list of dead processes, so that a send,
\* guarded by is_killed, never writes to a closed pipe.
KilledIffDead == \A n \in Nodes : is_killed(n) <=> ~running[n]
==============================================================================
