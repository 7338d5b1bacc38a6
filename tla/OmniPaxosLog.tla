----------------------------- MODULE OmniPaxosLog -----------------------------
(***************************************************************************)
(* The replicated log below MaelstromNode: one OmniPaxos instance per      *)
(* process, built on MemoryStorage (MaelstromNode::new), so that a restart *)
(* starts from an empty log and promises nothing.                          *)
(*                                                                         *)
(* OmniPaxos is a library outside this repository.  Its protocol is        *)
(* modelled coarsely, from what the node relies on: a leader of a round    *)
(* takes over the most recent log of a majority, appends, replicates, and  *)
(* decides what a majority has accepted in its round.  A step happens      *)
(* between nodes that can talk; a partition is that it does not happen.    *)
(***************************************************************************)
EXTENDS Integers, Sequences, FiniteSets

CONSTANTS
    Nodes,       \* the processes
    Commands,    \* MaelstromCommands, each appended once
    MaxRound,    \* bound on the rounds of leaders
    MaxKills     \* bound on the kills

ASSUME LogAssumption ==
    /\ IsFiniteSet(Nodes)
    /\ MaxRound \in Nat
    /\ MaxKills \in Nat

VARIABLES
    promised,        \* the highest round the node has joined
    accepted_round,  \* the round in which its log was last accepted
    accepted_log,    \* its log, in MemoryStorage
    decided_idx,     \* how much of the log it knows to be decided
    leading,         \* the round it leads, 0 when none
    appended,        \* commands handed to append so far
    decisions,       \* history: every <<index, command>> ever decided
    kills            \* history: kills so far

storage == <<promised, accepted_round, accepted_log, decided_idx>>
vars == <<storage, leading, appended, decisions, kills>>

Majorities == {Q \in SUBSET Nodes : 2 * Cardinality(Q) > Cardinality(Nodes)}

Init ==
    /\ promised = [n \in Nodes |-> 0]
    /\ accepted_round = [n \in Nodes |-> 0]
    /\ accepted_log = [n \in Nodes |-> <<>>]
    /\ decided_idx = [n \in Nodes |-> 0]
    /\ leading = [n \in Nodes |-> 0]
    /\ appended = {}
    /\ decisions = {}
    /\ kills = 0

------------------------------------------------------------------------------

\* The log of m is at least as recent as the log of n.
AtLeastAsRecent(m, n) ==
    \/ accepted_round[m] > accepted_round[n]
    \/ /\ accepted_round[m] = accepted_round[n]
       /\ Len(accepted_log[m]) >= Len(accepted_log[n])

\* Mutant: the new leader keeps its own log.
MostRecent_own(n, Q) == {n}

\* The nodes of a majority whose log a new leader n can take over.
MostRecent(n, Q) == {m \in Q : \A o \in Q : AtLeastAsRecent(m, o)}

\* try_become_leader, or an election after a tick: a majority promises a
\* round above every round it has seen (ballots are never reused).
BecomeLeader(n, round, Q) ==
    /\ n \in Q
    /\ \A m \in Q : promised[m] < round
    /\ \A m \in Nodes : leading[m] # round /\ accepted_round[m] # round
    /\ leading' = [leading EXCEPT ![n] = round]
    /\ promised' = [m \in Nodes |-> IF m \in Q THEN round ELSE promised[m]]
    /\ accepted_round' = [accepted_round EXCEPT ![n] = round]
    /\ \E m \in MostRecent(n, Q) :
           accepted_log' = [accepted_log EXCEPT ![n] = accepted_log[m]]
    /\ UNCHANGED <<decided_idx, appended, decisions, kills>>

Leads(n) == leading[n] # 0 /\ leading[n] = promised[n]

\* append on the leader, of a command nobody appended before.
append(n, c) ==
    /\ Leads(n)
    /\ c \notin appended
    /\ appended' = appended \cup {c}
    /\ accepted_log' = [accepted_log EXCEPT ![n] = Append(@, c)]
    /\ UNCHANGED <<promised, accepted_round, decided_idx, leading, decisions, kills>>

\* A follower takes the leader's log, unless it has promised a later round.
Accept(m, n) ==
    /\ Leads(n)
    /\ promised[m] <= leading[n]
    /\ promised' = [promised EXCEPT ![m] = leading[n]]
    /\ accepted_round' = [accepted_round EXCEPT ![m] = leading[n]]
    /\ accepted_log' = [accepted_log EXCEPT ![m] = accepted_log[n]]
    /\ UNCHANGED <<decided_idx, leading, appended, decisions, kills>>

\* The leader decides what a majority has accepted in its round.
Decide(n, Q) ==
    /\ Leads(n)
    /\ \A m \in Q : accepted_round[m] = leading[n]
    /\ \E idx \in (decided_idx[n] + 1) .. Len(accepted_log[n]) :
           /\ \A m \in Q : Len(accepted_log[m]) >= idx
           /\ decided_idx' = [decided_idx EXCEPT ![n] = idx]
           /\ decisions' = decisions \cup {<<i, accepted_log[n][i]>> : i \in 1 .. idx}
    /\ UNCHANGED <<promised, accepted_round, accepted_log, leading, appended, kills>>

\* Mutant: the follower believes the index whatever its log is.
Learn_in_any_round(m, n) ==
    /\ Leads(n)
    /\ \E idx \in (decided_idx[m] + 1) .. decided_idx[n] :
           /\ idx <= Len(accepted_log[m])
           /\ decided_idx' = [decided_idx EXCEPT ![m] = idx]
    /\ UNCHANGED <<promised, accepted_round, accepted_log, leading, appended,
                   decisions, kills>>

\* A follower hears how much of the log is decided.
Learn(m, n) ==
    /\ Leads(n)
    /\ accepted_round[m] = leading[n]
    /\ \E idx \in (decided_idx[m] + 1) .. decided_idx[n] :
           /\ idx <= Len(accepted_log[m])
           /\ decided_idx' = [decided_idx EXCEPT ![m] = idx]
    /\ UNCHANGED <<promised, accepted_round, accepted_log, leading, appended,
                   decisions, kills>>

\* The nemesis kills the process and starts it again: MemoryStorage::default().
KillAndRestart(n) ==
    /\ kills < MaxKills
    /\ kills' = kills + 1
    /\ promised' = [promised EXCEPT ![n] = 0]
    /\ accepted_round' = [accepted_round EXCEPT ![n] = 0]
    /\ accepted_log' = [accepted_log EXCEPT ![n] = <<>>]
    /\ decided_idx' = [decided_idx EXCEPT ![n] = 0]
    /\ leading' = [leading EXCEPT ![n] = 0]
    /\ UNCHANGED <<appended, decisions>>

Next ==
    \/ \E n \in Nodes, round \in 1 .. MaxRound, Q \in Majorities :
           BecomeLeader(n, round, Q)
    \/ \E n \in Nodes, c \in Commands : append(n, c)
    \/ \E n \in Nodes, Q \in Majorities : Decide(n, Q)
    \/ \E n \in Nodes : \E m \in Nodes \ {n} : Accept(m, n) \/ Learn(m, n)
    \/ \E n \in Nodes : KillAndRestart(n)

Spec == Init /\ [][Next]_vars

------------------------------------------------------------------------------

TypeOK ==
    /\ promised \in [Nodes -> 0 .. MaxRound]
    /\ accepted_round \in [Nodes -> 0 .. MaxRound]
    /\ accepted_log \in [Nodes -> Seq(Commands)]
    /\ decided_idx \in [Nodes -> Nat]
    /\ leading \in [Nodes -> 0 .. MaxRound]
    /\ appended \subseteq Commands
    /\ decisions \subseteq (Nat \X Commands)
    /\ kills \in 0 .. MaxKills

\* What was decided at an index of the log, and answered to a client, is
\* never decided otherwise: the log the nodes apply is one log ("preserves
\* linearizability under aggressive network partitioning and node failures").
OneDecisionPerIndex ==
    \A d, e \in decisions : d[1] = e[1] => d[2] = e[2]

\* Under partitions alone the log is one log, whatever the leaders that
\* replace or compete with each other.
OneLogUntilKill == kills = 0 => OneDecisionPerIndex

\* Under partitions alone what a node knows to be decided is a prefix of that
\* log, also right after it took over the log of another leader.
DecidedPrefixUntilKill ==
    kills = 0 =>
        \A n \in Nodes : \A i \in 1 .. decided_idx[n] :
            /\ i \in DOMAIN accepted_log[n]
            /\ <<i, accepted_log[n][i]>> \in decisions
==============================================================================
