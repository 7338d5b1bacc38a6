-------------------------- MODULE OmniPaxosLogProofs --------------------------
(***************************************************************************)
(* Proofs about the replicated log: as long as no process was killed, the  *)
(* nodes decide one log, for any number of nodes, rounds and commands and  *)
(* whatever leaders compete.                                               *)
(***************************************************************************)
EXTENDS OmniPaxosLog, FiniteSetTheorems, TLAPS

------------------------------------------------------------------------------
(* The inductive invariant.                                                 *)

\* The command c is at index i of the log of m.
Holds(m, i, c) == i \in 1 .. Len(accepted_log[m]) /\ accepted_log[m][i] = c

\* A node has accepted and led only rounds it has promised, and every round
\* somebody promised was promised by a majority: rounds only go up.
RoundInv ==
    /\ \A n \in Nodes : /\ accepted_round[n] <= promised[n]
                        /\ leading[n] <= promised[n]
    /\ \A n \in Nodes : promised[n] # 0 =>
           \E Q \in Majorities : \A m \in Q : promised[m] >= promised[n]

\* A round has one leader, who has accepted its own log and has at least what
\* the others have accepted of it.
LeaderInv ==
    \A n \in Nodes :
        /\ \A m \in Nodes : leading[n] # 0 /\ leading[m] = leading[n] => m = n
        /\ Leads(n) => accepted_round[n] = leading[n]
        /\ Leads(n) =>
               \A m \in Nodes : accepted_round[m] = leading[n] =>
                   /\ Len(accepted_log[m]) <= Len(accepted_log[n])
                   /\ \A i \in 1 .. Len(accepted_log[m]) :
                          accepted_log[m][i] = accepted_log[n][i]

\* The leader n may still decide index i with the majority Q: each of Q has
\* accepted the index in n's round, or has not promised a later round.
MayDecide(n, i, Q) ==
    \A m \in Q : \/ promised[m] <= leading[n]
                 \/ accepted_round[m] = leading[n] /\ Len(accepted_log[m]) >= i

\* What a leader may still decide is in the log of every later round.
SuccessorInv ==
    \A n \in Nodes : Leads(n) =>
        \A i \in 1 .. Len(accepted_log[n]) : \A Q \in Majorities :
            MayDecide(n, i, Q) =>
                \A m \in Nodes : accepted_round[m] > leading[n] =>
                    Holds(m, i, accepted_log[n][i])

\* A majority has accepted c at index i in round r, or in later rounds; no log
\* of round r or a later one has anything else there.
Chosen(i, c, r) ==
    /\ \E Q \in Majorities : \A m \in Q : accepted_round[m] >= r /\ Holds(m, i, c)
    /\ \A m \in Nodes :
           /\ accepted_round[m] > r => Holds(m, i, c)
           /\ accepted_round[m] = r /\ Len(accepted_log[m]) >= i => Holds(m, i, c)
           /\ Leads(m) /\ leading[m] = r => Holds(m, i, c)

DecisionInv ==
    \A d \in decisions : \E r \in 0 .. MaxRound : Chosen(d[1], d[2], r)

\* What a node knows to be decided was chosen in a round it has reached.
KnownInv ==
    \A n \in Nodes : \A i \in 1 .. decided_idx[n] :
        /\ i \in 1 .. Len(accepted_log[n])
        /\ <<i, accepted_log[n][i]>> \in decisions
        /\ \E r \in 0 .. accepted_round[n] : Chosen(i, accepted_log[n][i], r)

LogInv == RoundInv /\ LeaderInv /\ SuccessorInv /\ DecisionInv /\ KnownInv

LogInvUntilKill == kills = 0 => LogInv

------------------------------------------------------------------------------
(* Type correctness.                                                        *)

LEMMA DecidedPairs ==
    ASSUME TypeOK, NEW n \in Nodes, NEW idx \in 0 .. Len(accepted_log[n])
    PROVE  {<<i, accepted_log[n][i]>> : i \in 1 .. idx} \subseteq (Nat \X Commands)
  <1>1. accepted_log[n] \in Seq(Commands) /\ Len(accepted_log[n]) \in Nat
    BY DEF TypeOK
  <1>2. ASSUME NEW i \in 1 .. idx
        PROVE  <<i, accepted_log[n][i]>> \in Nat \X Commands
    <2>1. i \in Nat /\ i \in 1 .. Len(accepted_log[n])
      BY <1>1
    <2>2. accepted_log[n][i] \in Commands
      BY <1>1, <2>1
    <2> QED BY <2>1, <2>2
  <1> QED BY <1>2

LEMMA LogTypeInit == Init => TypeOK
  BY LogAssumption DEF Init, TypeOK

LEMMA LogTypeNext == TypeOK /\ [Next]_vars => TypeOK'
  <1> SUFFICES ASSUME TypeOK, [Next]_vars PROVE TypeOK'
    OBVIOUS
  <1> USE LogAssumption
  <1>1. ASSUME NEW n \in Nodes, NEW round \in 1 .. MaxRound,
               NEW Q \in Majorities, BecomeLeader(n, round, Q)
        PROVE  TypeOK'
    <2>1. PICK m \in MostRecent(n, Q) :
              accepted_log' = [accepted_log EXCEPT ![n] = accepted_log[m]]
      BY <1>1 DEF BecomeLeader
    <2>2. m \in Nodes
      BY <2>1 DEF MostRecent, Majorities
    <2>3. accepted_log' \in [Nodes -> Seq(Commands)]
      BY <2>1, <2>2 DEF TypeOK
    <2>4. /\ promised' \in [Nodes -> 0 .. MaxRound]
          /\ accepted_round' \in [Nodes -> 0 .. MaxRound]
          /\ leading' \in [Nodes -> 0 .. MaxRound]
      BY <1>1 DEF BecomeLeader, TypeOK
    <2> QED BY <1>1, <2>3, <2>4 DEF BecomeLeader, TypeOK
  <1>2. ASSUME NEW n \in Nodes, NEW c \in Commands, append(n, c)
        PROVE  TypeOK'
    <2>1. Append(accepted_log[n], c) \in Seq(Commands)
      BY DEF TypeOK
    <2>2. accepted_log' = [accepted_log EXCEPT ![n] = Append(accepted_log[n], c)]
      BY <1>2 DEF append
    <2>3. accepted_log' \in [Nodes -> Seq(Commands)]
      BY <2>1, <2>2 DEF TypeOK
    <2> QED BY <1>2, <2>3 DEF append, TypeOK
  <1>3. ASSUME NEW n \in Nodes, NEW Q \in Majorities, Decide(n, Q)
        PROVE  TypeOK'
    <2>1. PICK idx \in (decided_idx[n] + 1) .. Len(accepted_log[n]) :
              /\ decided_idx' = [decided_idx EXCEPT ![n] = idx]
              /\ decisions' = decisions \cup {<<i, accepted_log[n][i]>> : i \in 1 .. idx}
      BY <1>3 DEF Decide
    <2>2. idx \in Nat /\ idx \in 0 .. Len(accepted_log[n])
      BY DEF TypeOK
    <2>3. {<<i, accepted_log[n][i]>> : i \in 1 .. idx} \subseteq (Nat \X Commands)
      BY <2>2, DecidedPairs
    <2>4. decisions' \subseteq (Nat \X Commands)
      BY <2>1, <2>3 DEF TypeOK
    <2> QED BY <1>3, <2>1, <2>2, <2>4 DEF Decide, TypeOK
  <1>4. ASSUME NEW n \in Nodes, NEW m \in Nodes, Accept(m, n)
        PROVE  TypeOK'
    BY <1>4 DEF Accept, TypeOK
  <1>5. ASSUME NEW n \in Nodes, NEW m \in Nodes, Learn(m, n)
        PROVE  TypeOK'
    BY <1>5 DEF Learn, TypeOK
  <1>6. ASSUME NEW n \in Nodes, KillAndRestart(n)
        PROVE  TypeOK'
    BY <1>6 DEF KillAndRestart, TypeOK
  <1>7. CASE UNCHANGED vars
    BY <1>7 DEF vars, storage, TypeOK
  <1> QED BY <1>1, <1>2, <1>3, <1>4, <1>5, <1>6, <1>7 DEF Next

------------------------------------------------------------------------------
(* Quorums and rounds.                                                      *)

LEMMA MajoritiesMeet ==
    ASSUME NEW P \in Majorities, NEW Q \in Majorities
    PROVE  \E q \in Nodes : q \in P /\ q \in Q
  <1>1. /\ P \subseteq Nodes /\ Q \subseteq Nodes
        /\ IsFiniteSet(P) /\ IsFiniteSet(Q)
    BY LogAssumption, FS_Subset DEF Majorities
  <1>2. /\ Cardinality(P) \in Nat /\ Cardinality(Q) \in Nat
        /\ Cardinality(Nodes) \in Nat
    BY <1>1, LogAssumption, FS_CardinalityType
  <1>3. Cardinality(P) + Cardinality(Q) > Cardinality(Nodes)
    BY <1>2 DEF Majorities
  <1>4. P \cap Q # {}
    BY <1>1, <1>3, LogAssumption, FS_MajoritiesIntersect
  <1> QED BY <1>1, <1>4

\* A new leader's round is above every round any node has promised, accepted
\* or led: ballots are never reused.
LEMMA RoundIsNew ==
    ASSUME TypeOK, RoundInv, NEW n \in Nodes, NEW round \in 1 .. MaxRound,
           NEW Q \in Majorities, BecomeLeader(n, round, Q), NEW m \in Nodes
    PROVE  promised[m] < round /\ accepted_round[m] < round /\ leading[m] < round
  <1>0. round \in Nat /\ \A o \in Nodes : /\ promised[o] \in Nat
                                          /\ accepted_round[o] \in Nat
                                          /\ leading[o] \in Nat
    BY LogAssumption DEF TypeOK
  <1>1. promised[m] < round
    <2>1. CASE promised[m] = 0
      BY <1>0, <2>1
    <2>2. CASE promised[m] # 0
      <3>1. PICK P \in Majorities : \A o \in P : promised[o] >= promised[m]
        BY <2>2 DEF RoundInv
      <3>2. PICK q \in Nodes : q \in P /\ q \in Q
        BY MajoritiesMeet
      <3>3. promised[q] < round
        BY <3>2 DEF BecomeLeader
      <3> QED BY <3>1, <3>2, <3>3, <1>0
    <2> QED BY <2>1, <2>2
  <1> QED BY <1>0, <1>1 DEF RoundInv

------------------------------------------------------------------------------
(* What the steps do, node by node.                                         *)

\* The log of every node is a sequence of commands, and rounds are numbers.
LEMMA Typed ==
    ASSUME TypeOK, NEW n \in Nodes
    PROVE  /\ promised[n] \in Nat /\ accepted_round[n] \in Nat /\ leading[n] \in Nat
           /\ accepted_round[n] \in 0 .. MaxRound /\ leading[n] \in 0 .. MaxRound
           /\ accepted_log[n] \in Seq(Commands)
           /\ Len(accepted_log[n]) \in Nat
           /\ decided_idx[n] \in Nat
  BY LogAssumption DEF TypeOK

\* A new leader takes over the log of src.
Takeover(n, round, Q, src) ==
    /\ src \in Q /\ src \in Nodes
    /\ \A o \in Q : AtLeastAsRecent(src, o)
    /\ \A o \in Nodes :
           /\ promised'[o] = IF o \in Q THEN round ELSE promised[o]
           /\ accepted_round'[o] = IF o = n THEN round ELSE accepted_round[o]
           /\ accepted_log'[o] = IF o = n THEN accepted_log[src] ELSE accepted_log[o]
           /\ leading'[o] = IF o = n THEN round ELSE leading[o]

LEMMA TakeoverFacts ==
    ASSUME TypeOK, NEW n \in Nodes, NEW round \in 1 .. MaxRound,
           NEW Q \in Majorities, BecomeLeader(n, round, Q)
    PROVE  \E src \in Q : Takeover(n, round, Q, src)
  <1>1. PICK src \in MostRecent(n, Q) :
            accepted_log' = [accepted_log EXCEPT ![n] = accepted_log[src]]
    BY DEF BecomeLeader
  <1>2. src \in Q /\ src \in Nodes /\ \A o \in Q : AtLeastAsRecent(src, o)
    BY <1>1 DEF MostRecent, Majorities
  <1>3. \A o \in Nodes :
            accepted_log'[o] = IF o = n THEN accepted_log[src] ELSE accepted_log[o]
    BY <1>1 DEF TypeOK
  <1>4. \A o \in Nodes :
           /\ promised'[o] = IF o \in Q THEN round ELSE promised[o]
           /\ accepted_round'[o] = IF o = n THEN round ELSE accepted_round[o]
           /\ leading'[o] = IF o = n THEN round ELSE leading[o]
    BY DEF BecomeLeader, TypeOK
  <1> QED BY <1>2, <1>3, <1>4 DEF Takeover

LEMMA AppendFacts ==
    ASSUME TypeOK, NEW n \in Nodes, NEW c \in Commands, append(n, c)
    PROVE  /\ promised' = promised /\ accepted_round' = accepted_round
           /\ leading' = leading
           /\ \A o \in Nodes : o # n => accepted_log'[o] = accepted_log[o]
           /\ Len(accepted_log'[n]) = Len(accepted_log[n]) + 1
           /\ \A i \in 1 .. Len(accepted_log[n]) :
                  accepted_log'[n][i] = accepted_log[n][i]
  <1>1. accepted_log'[n] = Append(accepted_log[n], c)
    BY DEF append, TypeOK
  <1>2. accepted_log[n] \in Seq(Commands)
    BY DEF TypeOK
  <1>3. /\ Len(accepted_log'[n]) = Len(accepted_log[n]) + 1
        /\ \A i \in 1 .. Len(accepted_log[n]) :
               accepted_log'[n][i] = accepted_log[n][i]
    BY <1>1, <1>2
  <1> QED BY <1>3 DEF append, TypeOK

LEMMA AcceptFacts ==
    ASSUME TypeOK, NEW n \in Nodes, NEW m \in Nodes, Accept(m, n)
    PROVE  \A o \in Nodes :
              /\ promised'[o] = IF o = m THEN leading[n] ELSE promised[o]
              /\ accepted_round'[o] = IF o = m THEN leading[n] ELSE accepted_round[o]
              /\ accepted_log'[o] = IF o = m THEN accepted_log[n] ELSE accepted_log[o]
              /\ leading'[o] = leading[o]
  BY DEF Accept, TypeOK

------------------------------------------------------------------------------
(* A new leader takes over.                                                 *)

\* A choice survives a new leader: its majority meets the one that chose, and
\* the most recent log of it holds the choice.
LEMMA TakeoverKeepsChosen ==
    ASSUME TypeOK, TypeOK', RoundInv, NEW n \in Nodes, NEW round \in 1 .. MaxRound,
           NEW Q \in Majorities, BecomeLeader(n, round, Q),
           NEW i \in Nat, NEW c, NEW r \in Nat, Chosen(i, c, r)
    PROVE  Chosen(i, c, r)' /\ Holds(n, i, c)'
  <1>0. round \in Nat
    OBVIOUS
  <1>1. PICK src \in Q : Takeover(n, round, Q, src)
    BY TakeoverFacts
  <1>2. \A o \in Nodes : /\ promised[o] < round
                         /\ accepted_round[o] < round
                         /\ leading[o] < round
    BY RoundIsNew
  <1>3. PICK P \in Majorities : \A m \in P : accepted_round[m] >= r /\ Holds(m, i, c)
    BY DEF Chosen
  <1>4. PICK q \in Nodes : q \in P /\ q \in Q
    BY MajoritiesMeet
  <1>5. src \in Nodes /\ P \subseteq Nodes
    BY <1>1 DEF Takeover, Majorities
  <1>6. r < round
    BY <1>0, <1>2, <1>3, <1>4, Typed
  <1>7. Holds(src, i, c)
    <2>1. AtLeastAsRecent(src, q)
      BY <1>1, <1>4 DEF Takeover
    <2>2. accepted_round[q] >= r /\ i \in 1 .. Len(accepted_log[q])
      BY <1>3, <1>4 DEF Holds
    <2>3. CASE accepted_round[src] > r
      BY <2>3, <1>5 DEF Chosen
    <2>4. CASE ~(accepted_round[src] > r)
      <3>1. accepted_round[src] = r /\ Len(accepted_log[src]) >= i
        BY <2>1, <2>2, <2>4, <1>4, <1>5, Typed DEF AtLeastAsRecent
      <3> QED BY <3>1, <1>5 DEF Chosen
    <2> QED BY <2>3, <2>4
  <1>8. \A o \in Nodes : Holds(o, i, c)' <=> Holds(IF o = n THEN src ELSE o, i, c)
    BY <1>1 DEF Takeover, Holds
  <1>9. \A m \in P : accepted_round'[m] >= r /\ Holds(m, i, c)'
    BY <1>0, <1>1, <1>3, <1>5, <1>6, <1>7, <1>8 DEF Takeover
  <1>10. ASSUME NEW m \in Nodes
         PROVE  /\ accepted_round'[m] > r => Holds(m, i, c)'
                /\ accepted_round'[m] = r /\ Len(accepted_log'[m]) >= i => Holds(m, i, c)'
                /\ Leads(m)' /\ leading'[m] = r => Holds(m, i, c)'
    <2>1. CASE m = n
      BY <2>1, <1>7, <1>8
    <2>2. CASE m # n
      <3>1. /\ accepted_round'[m] = accepted_round[m]
            /\ accepted_log'[m] = accepted_log[m]
            /\ leading'[m] = leading[m]
            /\ promised'[m] = promised[m] \/ promised'[m] = round
        BY <2>2, <1>1 DEF Takeover
      <3>2. leading[m] \in Nat /\ leading[m] # round
        BY <1>0, <1>2, Typed
      <3>3. Leads(m)' => Leads(m)
        BY <3>1, <3>2 DEF Leads
      <3> QED BY <2>2, <3>1, <3>3, <1>8 DEF Chosen
    <2> QED BY <2>1, <2>2
  <1>11. Holds(n, i, c)'
    BY <1>7, <1>8
  <1> QED BY <1>9, <1>10, <1>11 DEF Chosen

LEMMA TakeoverStep ==
    ASSUME TypeOK, TypeOK', LogInv, NEW n \in Nodes, NEW round \in 1 .. MaxRound,
           NEW Q \in Majorities, BecomeLeader(n, round, Q)
    PROVE  LogInv'
  <1>0. round \in Nat /\ Q \subseteq Nodes
    BY DEF Majorities
  <1>1. PICK src \in Q : Takeover(n, round, Q, src)
    BY TakeoverFacts
  <1>2. \A o \in Nodes : /\ promised[o] < round
                         /\ accepted_round[o] < round
                         /\ leading[o] < round
    BY RoundIsNew DEF LogInv
  <1>3. n \in Q /\ src \in Nodes
    BY <1>1 DEF Takeover, BecomeLeader
  <1>4. RoundInv'
    <2>1. \A o \in Nodes : accepted_round'[o] <= promised'[o] /\ leading'[o] <= promised'[o]
      BY <1>0, <1>1, <1>2, <1>3, Typed DEF Takeover, LogInv, RoundInv
    <2>2. ASSUME NEW o \in Nodes, promised'[o] # 0
          PROVE  \E P \in Majorities : \A m \in P : promised'[m] >= promised'[o]
      <3>1. \A m \in Q : promised'[m] = round
        BY <1>0, <1>1 DEF Takeover
      <3>2. promised'[o] <= round
        BY SMTT(30), <1>0, <1>1, <1>2, Typed DEF Takeover
      <3> QED BY <3>1, <3>2, <1>0
    <2> QED BY <2>1, <2>2 DEF RoundInv
  <1>5. \A m \in Nodes : m # n =>
            /\ accepted_round'[m] = accepted_round[m]
            /\ accepted_log'[m] = accepted_log[m]
            /\ leading'[m] = leading[m]
            /\ Leads(m)' => Leads(m)
    BY <1>0, <1>1, <1>2, Typed DEF Takeover, Leads
  <1>6. accepted_round'[n] = round /\ leading'[n] = round
    BY <1>1 DEF Takeover
  <1>7. LeaderInv'
    <2> SUFFICES ASSUME NEW o \in Nodes
                 PROVE  /\ \A m \in Nodes : leading'[o] # 0 /\ leading'[m] = leading'[o] => m = o
                        /\ Leads(o)' => accepted_round'[o] = leading'[o]
                        /\ Leads(o)' =>
                             \A m \in Nodes : accepted_round'[m] = leading'[o] =>
                               /\ Len(accepted_log'[m]) <= Len(accepted_log'[o])
                               /\ \A i \in 1 .. Len(accepted_log'[m]) :
                                      accepted_log'[m][i] = accepted_log'[o][i]
      BY DEF LeaderInv
    <2>1. CASE o = n
      <3>1. \A m \in Nodes : m # n => leading'[m] # round /\ accepted_round'[m] # round
        BY <1>0, <1>2, <1>5, Typed
      <3>2. Len(accepted_log'[n]) \in Nat
        BY DEF TypeOK
      <3> QED BY <2>1, <3>1, <3>2, <1>6
    <2>2. CASE o # n
      <3>1. leading'[o] # round /\ leading'[o] = leading[o]
        BY <2>2, <1>0, <1>2, <1>5, Typed
      <3> QED BY <2>2, <3>1, <1>5, <1>6 DEF LogInv, LeaderInv
    <2> QED BY <2>1, <2>2
  <1>8. SuccessorInv'
    <2> SUFFICES ASSUME NEW o \in Nodes, Leads(o)',
                        NEW i \in 1 .. Len(accepted_log'[o]),
                        NEW P \in Majorities, MayDecide(o, i, P)',
                        NEW m \in Nodes, accepted_round'[m] > leading'[o]
                 PROVE  Holds(m, i, accepted_log[o][i])'
      BY DEF SuccessorInv
    <2>1. o # n
      <3>1. accepted_round[m] \in Nat /\ accepted_round[m] < round
        BY <1>2, Typed
      <3>2. accepted_round'[m] = round \/ accepted_round'[m] = accepted_round[m]
        BY <1>5, <1>6
      <3> QED BY <3>1, <3>2, <1>0, <1>6
    <2>2. /\ Leads(o) /\ leading'[o] = leading[o] /\ leading[o] < round
          /\ accepted_log'[o] = accepted_log[o]
      BY <2>1, <1>2, <1>5
    <2>3. P \subseteq Nodes
      BY DEF Majorities
    <2>4. MayDecide(o, i, P)
      <3> SUFFICES ASSUME NEW p \in P
                   PROVE  \/ promised[p] <= leading[o]
                          \/ /\ accepted_round[p] = leading[o]
                             /\ Len(accepted_log[p]) >= i
        BY DEF MayDecide
      <3>1. p \in Nodes
        BY <2>3
      <3>2. CASE promised'[p] <= leading'[o]
        <4>1. promised[p] <= promised'[p]
          BY SMTT(30), <1>0, <1>1, <1>2, <3>1, Typed DEF Takeover
        <4> QED BY SMTT(30), <3>1, <3>2, <4>1, <2>2, <1>0, <1>1, Typed DEF Takeover
      <3>3. CASE accepted_round'[p] = leading'[o] /\ Len(accepted_log'[p]) >= i
        <4>1. p # n
          BY <3>3, <2>2, <1>6, <1>0, Typed
        <4> QED BY <3>1, <3>3, <4>1, <2>2, <1>5
      <3> QED BY <3>2, <3>3 DEF MayDecide
    <2>5. \A l \in Nodes : accepted_round[l] > leading[o] =>
              Holds(l, i, accepted_log[o][i])
      BY <2>2, <2>4 DEF LogInv, SuccessorInv
    <2>6. CASE m # n
      BY <2>6, <2>2, <2>5, <1>5 DEF Holds
    <2>7. CASE m = n
      <3>1. PICK q \in Nodes : q \in P /\ q \in Q
        BY MajoritiesMeet
      <3>2. promised'[q] = round
        BY <3>1, <1>1 DEF Takeover
      <3>3. accepted_round'[q] = leading[o] /\ Len(accepted_log'[q]) >= i
        BY <3>1, <3>2, <2>2, <1>0, Typed DEF MayDecide
      <3>4. q # n
        BY <3>3, <2>2, <1>6, <1>0, Typed
      <3>5. accepted_round[q] = leading[o] /\ Len(accepted_log[q]) >= i
        BY <3>1, <3>3, <3>4, <1>5
      <3>6. AtLeastAsRecent(src, q)
        BY <3>1, <1>1 DEF Takeover
      <3>7. Holds(src, i, accepted_log[o][i])
        <4>1. CASE accepted_round[src] > leading[o]
          BY <4>1, <2>5, <1>3
        <4>2. CASE ~(accepted_round[src] > leading[o])
          <5>1. accepted_round[src] = leading[o] /\ Len(accepted_log[src]) >= i
            BY <3>5, <3>6, <4>2, <1>3, <3>1, Typed DEF AtLeastAsRecent
          <5>2. i \in Nat /\ i >= 1
            BY Typed
          <5>3. i \in 1 .. Len(accepted_log[src])
            BY <5>1, <5>2, <1>3, Typed
          <5> QED BY <5>1, <5>3, <2>2, <1>3 DEF LogInv, LeaderInv, Holds
        <4> QED BY <4>1, <4>2
      <3>8. accepted_log'[n] = accepted_log[src]
        BY <1>1 DEF Takeover
      <3> QED BY <2>7, <3>7, <3>8, <2>2 DEF Holds
    <2> QED BY <2>6, <2>7
  <1>9. DecisionInv'
    <2> SUFFICES ASSUME NEW d \in decisions'
                 PROVE  \E r \in 0 .. MaxRound : Chosen(d[1], d[2], r)'
      BY DEF DecisionInv
    <2>1. d \in decisions /\ d[1] \in Nat
      BY DEF BecomeLeader, TypeOK
    <2>2. PICK r \in 0 .. MaxRound : Chosen(d[1], d[2], r)
      BY <2>1 DEF LogInv, DecisionInv
    <2>3. r \in Nat
      BY LogAssumption
    <2>4. Chosen(d[1], d[2], r)'
      BY <2>1, <2>2, <2>3, TakeoverKeepsChosen DEF LogInv
    <2> QED BY <2>4
  <1>10. KnownInv'
    <2> SUFFICES ASSUME NEW o \in Nodes, NEW i \in 1 .. decided_idx'[o]
                 PROVE  /\ i \in 1 .. Len(accepted_log'[o])
                        /\ <<i, accepted_log'[o][i]>> \in decisions'
                        /\ \E r \in 0 .. accepted_round'[o] :
                               Chosen(i, accepted_log[o][i], r)'
      BY DEF KnownInv
    <2>1. i \in 1 .. decided_idx[o] /\ i \in Nat /\ decisions' = decisions
      BY DEF BecomeLeader, TypeOK
    <2>2. /\ i \in 1 .. Len(accepted_log[o])
          /\ <<i, accepted_log[o][i]>> \in decisions
      BY <2>1 DEF LogInv, KnownInv
    <2>3. PICK r \in 0 .. accepted_round[o] : Chosen(i, accepted_log[o][i], r)
      BY <2>1 DEF LogInv, KnownInv
    <2>4. r \in Nat
      BY Typed
    <2> DEFINE c == accepted_log[o][i]
    <2>5. Chosen(i, c, r)
      BY <2>3
    <2> HIDE DEF c
    <2>6. ASSUME NEW k, k = c PROVE Chosen(i, k, r)' /\ Holds(n, i, k)'
      BY <2>1, <2>4, <2>5, <2>6, TakeoverKeepsChosen DEF LogInv
    <2>7. accepted_log'[o][i] = c /\ i \in 1 .. Len(accepted_log'[o])
      <3>1. CASE o = n
        BY <3>1, <2>6 DEF Holds, c
      <3>2. CASE o # n
        BY <3>2, <1>5, <2>2 DEF c
      <3> QED BY <3>1, <3>2
    <2>8. r \in 0 .. accepted_round'[o]
      BY <1>0, <1>2, <1>5, <1>6, <2>4, Typed
    <2>9. Chosen(i, accepted_log[o][i], r)'
      BY <2>6, <2>7
    <2> QED BY <2>1, <2>2, <2>7, <2>8, <2>9 DEF c
  <1> QED BY <1>4, <1>7, <1>8, <1>9, <1>10 DEF LogInv

------------------------------------------------------------------------------
(* The leader appends.                                                      *)

\* Only the end of the leader's log is new.
LEMMA AppendKeepsHolds ==
    ASSUME TypeOK, NEW n \in Nodes, NEW c \in Commands, append(n, c),
           NEW o \in Nodes, NEW i, NEW x
    PROVE  /\ Holds(o, i, x) => Holds(o, i, x)'
           /\ Holds(o, i, x)' => Holds(o, i, x) \/ i = Len(accepted_log[o]) + 1
           /\ Leads(o)' = Leads(o)
  <1>1. /\ leading' = leading /\ promised' = promised
        /\ \A l \in Nodes : l # n => accepted_log'[l] = accepted_log[l]
        /\ Len(accepted_log'[n]) = Len(accepted_log[n]) + 1
        /\ \A k \in 1 .. Len(accepted_log[n]) :
               accepted_log'[n][k] = accepted_log[n][k]
    BY AppendFacts
  <1>2. Len(accepted_log[n]) \in Nat
    BY Typed
  <1>3. CASE o = n
    BY <1>1, <1>2, <1>3 DEF Holds, Leads
  <1>4. CASE o # n
    BY <1>1, <1>4 DEF Holds, Leads
  <1> QED BY <1>3, <1>4

LEMMA AppendKeepsChosen ==
    ASSUME TypeOK, LeaderInv, NEW n \in Nodes, NEW c \in Commands, append(n, c),
           NEW i \in Nat, NEW x, NEW r \in Nat, Chosen(i, x, r)
    PROVE  Chosen(i, x, r)'
  <1>1. PICK P \in Majorities : \A m \in P : accepted_round[m] >= r /\ Holds(m, i, x)
    BY DEF Chosen
  <1>2. P \subseteq Nodes
    BY DEF Majorities
  <1>3. accepted_round' = accepted_round /\ leading' = leading
    BY AppendFacts
  <1>4. \A m \in P : accepted_round'[m] >= r /\ Holds(m, i, x)'
    BY <1>1, <1>2, <1>3, AppendKeepsHolds
  <1>5. ASSUME NEW m \in Nodes
        PROVE  /\ accepted_round'[m] > r => Holds(m, i, x)'
               /\ accepted_round'[m] = r /\ Len(accepted_log'[m]) >= i => Holds(m, i, x)'
               /\ Leads(m)' /\ leading'[m] = r => Holds(m, i, x)'
    <2>1. Holds(m, i, x) => Holds(m, i, x)'
      BY AppendKeepsHolds
    <2>2. Leads(m)' = Leads(m)
      BY AppendKeepsHolds
    <2>3. CASE m = n
      <3>1. Leads(n) /\ accepted_round[n] = leading[n]
        BY DEF append, LeaderInv
      <3> QED BY <2>1, <2>2, <2>3, <3>1, <1>3 DEF Chosen
    <2>4. CASE m # n
      <3>1. accepted_log'[m] = accepted_log[m]
        BY <2>4, AppendFacts
      <3> QED BY <2>1, <2>2, <3>1, <1>3 DEF Chosen
    <2> QED BY <2>3, <2>4
  <1> QED BY <1>4, <1>5 DEF Chosen

LEMMA AppendStep ==
    ASSUME TypeOK, TypeOK', LogInv, NEW n \in Nodes, NEW c \in Commands, append(n, c)
    PROVE  LogInv'
  <1>1. /\ promised' = promised /\ accepted_round' = accepted_round
        /\ leading' = leading
        /\ \A o \in Nodes : o # n => accepted_log'[o] = accepted_log[o]
        /\ Len(accepted_log'[n]) = Len(accepted_log[n]) + 1
        /\ \A i \in 1 .. Len(accepted_log[n]) :
               accepted_log'[n][i] = accepted_log[n][i]
    BY AppendFacts
  <1>2. /\ Leads(n) /\ accepted_round[n] = leading[n] /\ leading[n] # 0
        /\ leading[n] = promised[n]
    BY DEF append, Leads, LogInv, LeaderInv
  <1>3. \A o \in Nodes : Leads(o)' = Leads(o)
    BY <1>1 DEF Leads
  <1>4. \A o \in Nodes : Len(accepted_log[o]) \in Nat
    BY Typed
  <1>5. \A o \in Nodes : Leads(o) /\ o # n => accepted_round[n] # leading[o]
    BY <1>2 DEF LogInv, LeaderInv
  <1>6. RoundInv'
    BY <1>1 DEF LogInv, RoundInv
  <1>7. LeaderInv'
    <2> SUFFICES ASSUME NEW o \in Nodes
                 PROVE  Leads(o) =>
                             \A m \in Nodes : accepted_round[m] = leading[o] =>
                               /\ Len(accepted_log'[m]) <= Len(accepted_log'[o])
                               /\ \A i \in 1 .. Len(accepted_log'[m]) :
                                      accepted_log'[m][i] = accepted_log'[o][i]
      BY <1>1, <1>3 DEF LogInv, LeaderInv
    <2>1. CASE o = n
      BY <2>1, <1>1, <1>4 DEF LogInv, LeaderInv
    <2>2. CASE o # n
      BY <2>2, <1>1, <1>5 DEF LogInv, LeaderInv
    <2> QED BY <2>1, <2>2
  <1>8. SuccessorInv'
    <2> SUFFICES ASSUME NEW o \in Nodes, Leads(o)',
                        NEW i \in 1 .. Len(accepted_log'[o]),
                        NEW P \in Majorities, MayDecide(o, i, P)',
                        NEW m \in Nodes, accepted_round'[m] > leading'[o]
                 PROVE  Holds(m, i, accepted_log[o][i])'
      BY DEF SuccessorInv
    <2>1. Leads(o) /\ P \subseteq Nodes /\ i \in Nat
      BY <1>3, <1>4, <1>1 DEF Majorities
    <2>2. CASE i \in 1 .. Len(accepted_log[o])
      <3>1. MayDecide(o, i, P)
        <4> SUFFICES ASSUME NEW p \in P, ~(promised[p] <= leading[o])
                     PROVE  /\ accepted_round[p] = leading[o]
                            /\ Len(accepted_log[p]) >= i
          BY DEF MayDecide
        <4>1. accepted_round[p] = leading[o] /\ Len(accepted_log'[p]) >= i
          BY <1>1 DEF MayDecide
        <4>2. p # n
          <5>1. promised[n] <= leading[n]
            BY <1>2, Typed
          <5> QED BY <4>1, <5>1, <1>2, <1>5, <2>1
        <4> QED BY <4>1, <4>2, <1>1, <2>1
      <3>2. Holds(m, i, accepted_log[o][i])
        BY <2>1, <2>2, <3>1, <1>1 DEF LogInv, SuccessorInv
      <3>3. accepted_log'[o][i] = accepted_log[o][i]
        BY <2>2, <1>1
      <3> QED BY <3>2, <3>3, <1>1, <1>4 DEF Holds
    <2>3. CASE i \notin 1 .. Len(accepted_log[o])
      <3>1. o = n /\ i = Len(accepted_log[n]) + 1
        BY <2>3, <1>1, <1>4
      <3>2. ASSUME NEW p \in P PROVE promised[p] <= leading[n]
        <4>1. CASE p = n
          BY <4>1, <1>2, Typed
        <4>2. CASE p # n
          <5>1. accepted_round[p] = leading[n] =>
                    Len(accepted_log[p]) <= Len(accepted_log[n])
            BY <2>1, <1>2 DEF LogInv, LeaderInv
          <5>2. accepted_log'[p] = accepted_log[p]
            BY <4>2, <1>1, <2>1
          <5> QED BY <5>1, <5>2, <3>1, <1>1, <1>4, <2>1 DEF MayDecide
        <4> QED BY <4>1, <4>2
      <3>3. accepted_round[m] > leading[n] /\ promised[m] > leading[n]
        <4>1. accepted_round[m] > leading[n] /\ accepted_round[m] <= promised[m]
          BY <3>1, <1>1 DEF LogInv, RoundInv
        <4> QED BY <4>1, Typed
      <3>4. PICK M \in Majorities : \A l \in M : promised[l] >= promised[m]
        BY <3>3, Typed DEF LogInv, RoundInv
      <3>5. PICK q \in Nodes : q \in M /\ q \in P
        BY MajoritiesMeet
      <3> QED BY <3>2, <3>3, <3>4, <3>5, Typed
    <2> QED BY <2>2, <2>3
  <1>9. DecisionInv'
    <2> SUFFICES ASSUME NEW d \in decisions'
                 PROVE  \E r \in 0 .. MaxRound : Chosen(d[1], d[2], r)'
      BY DEF DecisionInv
    <2>1. d \in decisions /\ d[1] \in Nat
      BY DEF append, TypeOK
    <2>2. PICK r \in 0 .. MaxRound : Chosen(d[1], d[2], r)
      BY <2>1 DEF LogInv, DecisionInv
    <2>3. r \in Nat
      BY LogAssumption
    <2>4. Chosen(d[1], d[2], r)'
      BY <2>1, <2>2, <2>3, AppendKeepsChosen DEF LogInv
    <2> QED BY <2>4
  <1>10. KnownInv'
    <2> SUFFICES ASSUME NEW o \in Nodes, NEW i \in 1 .. decided_idx'[o]
                 PROVE  /\ i \in 1 .. Len(accepted_log'[o])
                        /\ <<i, accepted_log'[o][i]>> \in decisions'
                        /\ \E r \in 0 .. accepted_round'[o] :
                               Chosen(i, accepted_log[o][i], r)'
      BY DEF KnownInv
    <2>1. i \in 1 .. decided_idx[o] /\ i \in Nat /\ decisions' = decisions
      BY DEF append, TypeOK
    <2>2. /\ i \in 1 .. Len(accepted_log[o])
          /\ <<i, accepted_log[o][i]>> \in decisions
      BY <2>1 DEF LogInv, KnownInv
    <2>3. PICK r \in 0 .. accepted_round[o] : Chosen(i, accepted_log[o][i], r)
      BY <2>1 DEF LogInv, KnownInv
    <2>4. r \in Nat
      BY Typed
    <2>5. ASSUME NEW k, k = accepted_log[o][i] PROVE Chosen(i, k, r)'
      BY <2>1, <2>3, <2>4, <2>5, AppendKeepsChosen DEF LogInv
    <2>6. accepted_log'[o][i] = accepted_log[o][i] /\ i \in 1 .. Len(accepted_log'[o])
      BY <2>2, <1>1, <1>4
    <2>7. Chosen(i, accepted_log[o][i], r)'
      BY <2>5, <2>6
    <2> QED BY <2>1, <2>2, <2>6, <2>7, <1>1
  <1> QED BY <1>6, <1>7, <1>8, <1>9, <1>10 DEF LogInv

------------------------------------------------------------------------------
(* A follower accepts the leader's log.                                     *)

\* The follower moves to a round no older than its own, and no longer leads.
LEMMA AcceptMoves ==
    ASSUME TypeOK, RoundInv, LeaderInv, NEW n \in Nodes, NEW m \in Nodes \ {n},
           Accept(m, n)
    PROVE  /\ Leads(n) /\ accepted_round[n] = leading[n] /\ leading[n] # 0
           /\ promised[n] = leading[n]
           /\ promised[m] <= leading[n] /\ accepted_round[m] <= leading[n]
           /\ \A o \in Nodes : Leads(o)' => Leads(o) /\ o # m
  <1>1. /\ Leads(n) /\ leading[n] # 0 /\ promised[n] = leading[n]
        /\ promised[m] <= leading[n]
    BY DEF Accept, Leads
  <1>2. accepted_round[n] = leading[n]
    BY <1>1 DEF LeaderInv
  <1>3. accepted_round[m] <= leading[n]
    BY <1>1, Typed DEF RoundInv
  <1>4. leading[m] # leading[n]
    BY <1>1 DEF LeaderInv
  <1>5. \A o \in Nodes : Leads(o)' => Leads(o) /\ o # m
    BY <1>4, AcceptFacts DEF Leads
  <1> QED BY <1>1, <1>2, <1>3, <1>5

\* A follower that accepts a round in which a choice holds, holds it.
LEMMA AcceptKeepsChosen ==
    ASSUME TypeOK, RoundInv, LeaderInv, NEW n \in Nodes, NEW m \in Nodes \ {n},
           Accept(m, n), NEW i \in Nat, NEW x, NEW r \in Nat, Chosen(i, x, r)
    PROVE  /\ Chosen(i, x, r)'
           /\ accepted_round[m] >= r => Holds(m, i, x)'
  <1>1. PICK P \in Majorities : \A p \in P : accepted_round[p] >= r /\ Holds(p, i, x)
    BY DEF Chosen
  <1>2. P \subseteq Nodes
    BY DEF Majorities
  <1>3. /\ Leads(n) /\ accepted_round[n] = leading[n]
        /\ accepted_round[m] <= leading[n]
        /\ \A o \in Nodes : Leads(o)' => Leads(o) /\ o # m
    BY AcceptMoves
  <1>4. \A o \in Nodes :
              /\ accepted_round'[o] = IF o = m THEN leading[n] ELSE accepted_round[o]
              /\ accepted_log'[o] = IF o = m THEN accepted_log[n] ELSE accepted_log[o]
              /\ leading'[o] = leading[o]
    BY AcceptFacts
  <1>5. leading[n] >= r => Holds(n, i, x)
    BY <1>3, Typed DEF Chosen
  <1>6. \A o \in Nodes : Holds(o, i, x)' <=> Holds(IF o = m THEN n ELSE o, i, x)
    BY <1>4 DEF Holds
  <1>7. accepted_round[m] >= r => leading[n] >= r /\ Holds(m, i, x)'
    BY <1>3, <1>5, <1>6, Typed
  <1>8. \A p \in P : accepted_round'[p] >= r /\ Holds(p, i, x)'
    BY <1>1, <1>2, <1>4, <1>6, <1>7
  <1>9. ASSUME NEW o \in Nodes
        PROVE  /\ accepted_round'[o] > r => Holds(o, i, x)'
               /\ accepted_round'[o] = r /\ Len(accepted_log'[o]) >= i => Holds(o, i, x)'
               /\ Leads(o)' /\ leading'[o] = r => Holds(o, i, x)'
    <2>1. CASE o = m
      BY <2>1, <1>3, <1>4, <1>5, <1>6, Typed
    <2>2. CASE o # m
      BY <2>2, <1>3, <1>4, <1>6 DEF Chosen
    <2> QED BY <2>1, <2>2
  <1> QED BY <1>7, <1>8, <1>9 DEF Chosen

LEMMA AcceptStep ==
    ASSUME TypeOK, TypeOK', LogInv, NEW n \in Nodes, NEW m \in Nodes \ {n}, Accept(m, n)
    PROVE  LogInv'
  <1>1. \A o \in Nodes :
              /\ promised'[o] = IF o = m THEN leading[n] ELSE promised[o]
              /\ accepted_round'[o] = IF o = m THEN leading[n] ELSE accepted_round[o]
              /\ accepted_log'[o] = IF o = m THEN accepted_log[n] ELSE accepted_log[o]
              /\ leading'[o] = leading[o]
    BY AcceptFacts
  <1>2. /\ Leads(n) /\ accepted_round[n] = leading[n] /\ leading[n] # 0
        /\ promised[n] = leading[n]
        /\ promised[m] <= leading[n] /\ accepted_round[m] <= leading[n]
        /\ \A o \in Nodes : Leads(o)' => Leads(o) /\ o # m
    BY AcceptMoves DEF LogInv
  <1>3. \A o \in Nodes : promised'[o] >= promised[o]
    BY <1>1, <1>2, Typed
  <1>4. \A o \in Nodes : Leads(o) /\ leading[o] = leading[n] => o = n
    BY <1>2 DEF LogInv, LeaderInv
  <1>5. RoundInv'
    <2>1. \A o \in Nodes : accepted_round'[o] <= promised'[o] /\ leading'[o] <= promised'[o]
      <3> SUFFICES ASSUME NEW o \in Nodes
                   PROVE accepted_round'[o] <= promised'[o] /\ leading'[o] <= promised'[o]
        OBVIOUS
      <3>1. accepted_round[o] <= promised[o] /\ leading[o] <= promised[o]
        BY DEF LogInv, RoundInv
      <3>2. CASE o = m
        BY <3>1, <3>2, <1>1, <1>2, Typed
      <3>3. CASE o # m
        BY <3>1, <3>3, <1>1
      <3> QED BY <3>2, <3>3
    <2>2. ASSUME NEW o \in Nodes, promised'[o] # 0
          PROVE  \E P \in Majorities : \A p \in P : promised'[p] >= promised'[o]
      <3>1. PICK l \in Nodes : promised'[o] = promised[l]
        BY <1>1, <1>2
      <3>2. PICK P \in Majorities : \A p \in P : promised[p] >= promised[l]
        BY <2>2, <3>1 DEF LogInv, RoundInv
      <3>3. P \subseteq Nodes
        BY DEF Majorities
      <3>4. \A p \in P : promised'[p] >= promised[l]
        BY SMTT(30), <3>2, <3>3, <1>1, <1>3, Typed
      <3> QED BY <3>1, <3>4
    <2> QED BY <2>1, <2>2 DEF RoundInv
  <1>6. LeaderInv'
    <2> SUFFICES ASSUME NEW o \in Nodes
                 PROVE  /\ \A l \in Nodes : leading'[o] # 0 /\ leading'[l] = leading'[o] => l = o
                        /\ Leads(o)' => accepted_round'[o] = leading'[o]
                        /\ Leads(o)' =>
                             \A l \in Nodes : accepted_round'[l] = leading'[o] =>
                               /\ Len(accepted_log'[l]) <= Len(accepted_log'[o])
                               /\ \A i \in 1 .. Len(accepted_log'[l]) :
                                      accepted_log'[l][i] = accepted_log'[o][i]
      BY DEF LeaderInv
    <2>1. \A l \in Nodes : leading'[o] # 0 /\ leading'[l] = leading'[o] => l = o
      BY <1>1 DEF LogInv, LeaderInv
    <2>2. Leads(o)' => accepted_round'[o] = leading'[o]
      BY <1>1, <1>2 DEF LogInv, LeaderInv
    <2>3. ASSUME Leads(o)', NEW l \in Nodes, accepted_round'[l] = leading'[o]
          PROVE  /\ Len(accepted_log'[l]) <= Len(accepted_log'[o])
                 /\ \A i \in 1 .. Len(accepted_log'[l]) :
                        accepted_log'[l][i] = accepted_log'[o][i]
      <3>1. /\ Leads(o) /\ o # m /\ accepted_log'[o] = accepted_log[o]
            /\ leading'[o] = leading[o]
        BY <2>3, <1>1, <1>2
      <3>2. CASE l = m
        <4>1. o = n
          BY <2>3, <3>1, <3>2, <1>1, <1>4
        <4>2. accepted_log'[l] = accepted_log'[o]
          BY <3>1, <3>2, <4>1, <1>1
        <4> QED BY <4>1, <4>2, <3>1, Typed
      <3>3. CASE l # m
        BY <2>3, <3>1, <3>3, <1>1 DEF LogInv, LeaderInv
      <3> QED BY <3>2, <3>3
    <2> QED BY <2>1, <2>2, <2>3
  <1>7. SuccessorInv'
    <2> SUFFICES ASSUME NEW o \in Nodes, Leads(o)',
                        NEW i \in 1 .. Len(accepted_log'[o]),
                        NEW P \in Majorities, MayDecide(o, i, P)',
                        NEW l \in Nodes, accepted_round'[l] > leading'[o]
                 PROVE  Holds(l, i, accepted_log[o][i])'
      BY DEF SuccessorInv
    <2>1. /\ Leads(o) /\ o # m /\ accepted_log'[o] = accepted_log[o]
          /\ leading'[o] = leading[o]
      BY <1>1, <1>2
    <2>2. P \subseteq Nodes
      BY DEF Majorities
    <2>3. MayDecide(o, i, P)
      <3> SUFFICES ASSUME NEW p \in P
                   PROVE  \/ promised[p] <= leading[o]
                          \/ /\ accepted_round[p] = leading[o]
                             /\ Len(accepted_log[p]) >= i
        BY DEF MayDecide
      <3>1. CASE p = m
        <4>1. promised'[p] <= leading[o] \/ accepted_round'[p] = leading[o]
          BY <2>1 DEF MayDecide
        <4>2. promised'[p] = leading[n] /\ accepted_round'[p] = leading[n]
          BY <3>1, <1>1
        <4> QED BY <3>1, <4>1, <4>2, <1>2, Typed
      <3>2. CASE p # m
        BY <3>2, <2>1, <2>2, <1>1 DEF MayDecide
      <3> QED BY <3>1, <3>2
    <2>4. \A k \in Nodes : accepted_round[k] > leading[o] =>
              Holds(k, i, accepted_log[o][i])
      BY <2>1, <2>3 DEF LogInv, SuccessorInv
    <2>5. CASE l = m
      BY <2>5, <2>1, <2>4, <1>1, <1>2 DEF Holds
    <2>6. CASE l # m
      BY <2>6, <2>1, <2>4, <1>1 DEF Holds
    <2> QED BY <2>5, <2>6
  <1>8. DecisionInv'
    <2> SUFFICES ASSUME NEW d \in decisions'
                 PROVE  \E r \in 0 .. MaxRound : Chosen(d[1], d[2], r)'
      BY DEF DecisionInv
    <2>1. d \in decisions /\ d[1] \in Nat
      BY DEF Accept, TypeOK
    <2>2. PICK r \in 0 .. MaxRound : Chosen(d[1], d[2], r)
      BY <2>1 DEF LogInv, DecisionInv
    <2>3. r \in Nat
      BY LogAssumption
    <2>4. Chosen(d[1], d[2], r)'
      BY <2>1, <2>2, <2>3, AcceptKeepsChosen DEF LogInv
    <2> QED BY <2>4
  <1>9. KnownInv'
    <2> SUFFICES ASSUME NEW o \in Nodes, NEW i \in 1 .. decided_idx'[o]
                 PROVE  /\ i \in 1 .. Len(accepted_log'[o])
                        /\ <<i, accepted_log'[o][i]>> \in decisions'
                        /\ \E r \in 0 .. accepted_round'[o] :
                               Chosen(i, accepted_log[o][i], r)'
      BY DEF KnownInv
    <2>1. i \in 1 .. decided_idx[o] /\ i \in Nat /\ decisions' = decisions
      BY DEF Accept, TypeOK
    <2>2. /\ i \in 1 .. Len(accepted_log[o])
          /\ <<i, accepted_log[o][i]>> \in decisions
      BY <2>1 DEF LogInv, KnownInv
    <2>3. PICK r \in 0 .. accepted_round[o] : Chosen(i, accepted_log[o][i], r)
      BY <2>1 DEF LogInv, KnownInv
    <2>4. r \in Nat /\ r <= accepted_round[o]
      BY Typed
    <2>5. ASSUME NEW k, k = accepted_log[o][i]
          PROVE  Chosen(i, k, r)' /\ (o = m => Holds(m, i, k)')
      BY <2>1, <2>3, <2>4, <2>5, Typed, AcceptKeepsChosen DEF LogInv
    <2>6. accepted_log'[o][i] = accepted_log[o][i] /\ i \in 1 .. Len(accepted_log'[o])
      <3>1. CASE o = m
        BY <3>1, <2>5 DEF Holds
      <3>2. CASE o # m
        BY <3>2, <2>2, <1>1
      <3> QED BY <3>1, <3>2
    <2>7. Chosen(i, accepted_log[o][i], r)'
      BY <2>5, <2>6
    <2>8. r \in 0 .. accepted_round'[o]
      BY <2>4, <1>1, <1>2, Typed
    <2> QED BY <2>1, <2>2, <2>6, <2>7, <2>8
  <1> QED BY <1>5, <1>6, <1>7, <1>8, <1>9 DEF LogInv

------------------------------------------------------------------------------
(* Deciding and learning leave the logs alone.                              *)

\* The leader decides only what was chosen in its round.
LEMMA DecideStep ==
    ASSUME TypeOK, TypeOK', LogInv, NEW n \in Nodes, NEW Q \in Majorities, Decide(n, Q)
    PROVE  LogInv'
  <1>1. PICK idx \in (decided_idx[n] + 1) .. Len(accepted_log[n]) :
            /\ \A m \in Q : Len(accepted_log[m]) >= idx
            /\ decided_idx' = [decided_idx EXCEPT ![n] = idx]
            /\ decisions' = decisions \cup {<<i, accepted_log[n][i]>> : i \in 1 .. idx}
    BY DEF Decide
  <1>2. /\ promised' = promised /\ accepted_round' = accepted_round
        /\ accepted_log' = accepted_log /\ leading' = leading
    BY DEF Decide
  <1>3. /\ Leads(n) /\ accepted_round[n] = leading[n]
        /\ \A m \in Q : m \in Nodes /\ accepted_round[m] = leading[n]
    BY DEF Decide, LogInv, LeaderInv, Majorities
  <1>4. idx \in Nat /\ idx <= Len(accepted_log[n])
    BY Typed
  <1>5. RoundInv' /\ LeaderInv' /\ SuccessorInv'
    BY <1>2 DEF LogInv, RoundInv, LeaderInv, SuccessorInv, MayDecide, Leads, Holds
  <1>6. \A i, c, r : Chosen(i, c, r)' <=> Chosen(i, c, r)
    BY <1>2 DEF Chosen, Holds, Leads
  <1>7. ASSUME NEW i \in 1 .. idx
        PROVE  Chosen(i, accepted_log[n][i], leading[n])
    <2>1. i \in Nat /\ i >= 1 /\ i <= idx /\ i \in 1 .. Len(accepted_log[n])
      BY <1>4, Typed
    <2>2. ASSUME NEW m \in Nodes, accepted_round[m] = leading[n],
                 Len(accepted_log[m]) >= i
          PROVE  Holds(m, i, accepted_log[n][i])
      <3>1. i \in 1 .. Len(accepted_log[m])
        BY <2>1, <2>2, Typed
      <3> QED BY <3>1, <2>2, <1>3 DEF LogInv, LeaderInv, Holds
    <2>3. \A m \in Q : Len(accepted_log[m]) >= i
      BY <1>1, <1>3, <1>4, <2>1, Typed
    <2>4. \A m \in Q : accepted_round[m] >= leading[n] /\ Holds(m, i, accepted_log[n][i])
      BY <1>3, <2>2, <2>3, Typed
    <2>5. MayDecide(n, i, Q)
      BY <1>3, <2>3 DEF MayDecide
    <2>6. \A m \in Nodes : accepted_round[m] > leading[n] =>
              Holds(m, i, accepted_log[n][i])
      BY <1>3, <2>1, <2>5 DEF LogInv, SuccessorInv
    <2>7. \A m \in Nodes : Leads(m) /\ leading[m] = leading[n] =>
              Holds(m, i, accepted_log[n][i])
      BY <1>3, <2>1 DEF LogInv, LeaderInv, Holds, Leads
    <2> QED BY <2>2, <2>4, <2>6, <2>7 DEF Chosen
  <1>8. leading[n] \in 0 .. MaxRound /\ leading[n] \in 0 .. accepted_round[n]
    BY <1>3, Typed
  <1>9. DecisionInv'
    <2> SUFFICES ASSUME NEW d \in decisions'
                 PROVE  \E r \in 0 .. MaxRound : Chosen(d[1], d[2], r)'
      BY DEF DecisionInv
    <2>1. CASE d \in decisions
      <3>1. PICK r \in 0 .. MaxRound : Chosen(d[1], d[2], r)
        BY <2>1 DEF LogInv, DecisionInv
      <3> QED BY <3>1, <1>6
    <2>2. CASE d \notin decisions
      <3>1. PICK i \in 1 .. idx : d = <<i, accepted_log[n][i]>>
        BY <2>2, <1>1
      <3>2. Chosen(d[1], d[2], leading[n])
        BY <3>1, <1>7
      <3> QED BY <3>2, <1>6, <1>8
    <2> QED BY <2>1, <2>2
  <1>10. KnownInv'
    <2> SUFFICES ASSUME NEW o \in Nodes, NEW i \in 1 .. decided_idx'[o]
                 PROVE  /\ i \in 1 .. Len(accepted_log'[o])
                        /\ <<i, accepted_log'[o][i]>> \in decisions'
                        /\ \E r \in 0 .. accepted_round'[o] :
                               Chosen(i, accepted_log[o][i], r)'
      BY DEF KnownInv
    <2>1. CASE o = n
      <3>1. i \in 1 .. idx /\ i \in 1 .. Len(accepted_log[n])
        BY <2>1, <1>1, <1>4, Typed DEF TypeOK
      <3>2. <<i, accepted_log[n][i]>> \in decisions'
        BY <3>1, <1>1
      <3>3. Chosen(i, accepted_log[n][i], leading[n])
        BY <3>1, <1>7
      <3>4. Chosen(i, accepted_log[n][i], leading[n])'
        BY <3>3, <1>2 DEF Chosen, Holds, Leads
      <3> QED BY <2>1, <3>1, <3>2, <3>4, <1>2, <1>8
    <2>2. CASE o # n
      <3>1. i \in 1 .. decided_idx[o]
        BY <2>2, <1>1 DEF TypeOK
      <3>2. PICK r \in 0 .. accepted_round[o] : Chosen(i, accepted_log[o][i], r)
        BY <3>1 DEF LogInv, KnownInv
      <3>3. Chosen(i, accepted_log[o][i], r)'
        BY <3>2, <1>2 DEF Chosen, Holds, Leads
      <3> QED BY <3>1, <3>3, <1>1, <1>2 DEF LogInv, KnownInv
    <2> QED BY <2>1, <2>2
  <1> QED BY <1>5, <1>9, <1>10 DEF LogInv

\* A follower in the leader's round has the prefix it hears is decided.
LEMMA LearnStep ==
    ASSUME TypeOK, TypeOK', LogInv, NEW n \in Nodes, NEW m \in Nodes, Learn(m, n)
    PROVE  LogInv'
  <1>1. PICK idx \in (decided_idx[m] + 1) .. decided_idx[n] :
            /\ idx <= Len(accepted_log[m])
            /\ decided_idx' = [decided_idx EXCEPT ![m] = idx]
    BY DEF Learn
  <1>2. /\ promised' = promised /\ accepted_round' = accepted_round
        /\ accepted_log' = accepted_log /\ leading' = leading
        /\ decisions' = decisions
    BY DEF Learn
  <1>3. RoundInv' /\ LeaderInv' /\ SuccessorInv'
    BY <1>2 DEF LogInv, RoundInv, LeaderInv, SuccessorInv, MayDecide, Leads, Holds
  <1>4. DecisionInv'
    BY <1>2 DEF LogInv, DecisionInv, Chosen, Holds, Leads
  <1>5. KnownInv'
    <2> SUFFICES ASSUME NEW o \in Nodes, NEW i \in 1 .. decided_idx'[o]
                 PROVE  /\ i \in 1 .. Len(accepted_log[o])
                        /\ <<i, accepted_log[o][i]>> \in decisions
                        /\ \E r \in 0 .. accepted_round[o] :
                               Chosen(i, accepted_log[o][i], r)
      BY <1>2 DEF KnownInv, Chosen, Holds, Leads
    <2>1. CASE o = m
      <3>1. /\ i \in 1 .. decided_idx[n] /\ i \in 1 .. Len(accepted_log[m])
        <4>1. decided_idx'[o] = idx /\ idx \in Nat /\ idx <= decided_idx[n]
          BY <2>1, <1>1, Typed DEF TypeOK
        <4> QED BY <4>1, <1>1, Typed
      <3>2. accepted_round[m] = accepted_round[n] /\ accepted_log[m][i] = accepted_log[n][i]
        BY <3>1 DEF Learn, LogInv, LeaderInv
      <3> QED BY <2>1, <3>1, <3>2 DEF LogInv, KnownInv
    <2>2. CASE o # m
      BY <2>2, <1>1 DEF LogInv, KnownInv, TypeOK
    <2> QED BY <2>1, <2>2
  <1> QED BY <1>3, <1>4, <1>5 DEF LogInv

------------------------------------------------------------------------------
(* The theorems.                                                            *)

LEMMA LogInvInit == Init => LogInv
  <1> SUFFICES ASSUME Init PROVE LogInv
    OBVIOUS
  <1>1. \A n \in Nodes : ~Leads(n)
    BY DEF Init, Leads
  <1> QED BY <1>1 DEF Init, LogInv, RoundInv, LeaderInv, SuccessorInv,
                      DecisionInv, KnownInv

LEMMA LogInvNext == TypeOK /\ LogInvUntilKill /\ [Next]_vars => LogInvUntilKill'
  <1> SUFFICES ASSUME TypeOK, LogInvUntilKill, [Next]_vars, kills' = 0
               PROVE  LogInv'
    BY DEF LogInvUntilKill
  <1>1. TypeOK'
    BY LogTypeNext
  <1>2. CASE UNCHANGED vars
    <2>1. LogInv
      BY <1>2 DEF vars, LogInvUntilKill
    <2>2. RoundInv' /\ LeaderInv'
      BY <1>2, <2>1 DEF vars, storage, LogInv, RoundInv, LeaderInv, Leads
    <2>3. SuccessorInv'
      BY <1>2, <2>1 DEF vars, storage, LogInv, SuccessorInv, MayDecide, Leads, Holds
    <2>4. DecisionInv'
      BY <1>2, <2>1 DEF vars, storage, LogInv, DecisionInv, Chosen, Leads, Holds
    <2>5. KnownInv'
      BY <1>2, <2>1 DEF vars, storage, LogInv, KnownInv, Chosen, Leads, Holds
    <2> QED BY <2>2, <2>3, <2>4, <2>5 DEF LogInv
  <1>3. ASSUME NEW n \in Nodes, NEW round \in 1 .. MaxRound, NEW Q \in Majorities,
               BecomeLeader(n, round, Q)
        PROVE  LogInv'
    <2>1. LogInv
      BY <1>3 DEF BecomeLeader, LogInvUntilKill
    <2> QED BY <1>1, <1>3, <2>1, TakeoverStep
  <1>4. ASSUME NEW n \in Nodes, NEW c \in Commands, append(n, c)
        PROVE  LogInv'
    <2>1. LogInv
      BY <1>4 DEF append, LogInvUntilKill
    <2> QED BY <1>1, <1>4, <2>1, AppendStep
  <1>5. ASSUME NEW n \in Nodes, NEW Q \in Majorities, Decide(n, Q)
        PROVE  LogInv'
    <2>1. LogInv
      BY <1>5 DEF Decide, LogInvUntilKill
    <2> QED BY <1>1, <1>5, <2>1, DecideStep
  <1>6. ASSUME NEW n \in Nodes, NEW m \in Nodes \ {n}, Accept(m, n)
        PROVE  LogInv'
    <2>1. LogInv
      BY <1>6 DEF Accept, LogInvUntilKill
    <2> QED BY <1>1, <1>6, <2>1, AcceptStep
  <1>7. ASSUME NEW n \in Nodes, NEW m \in Nodes \ {n}, Learn(m, n)
        PROVE  LogInv'
    <2>1. LogInv
      BY <1>7 DEF Learn, LogInvUntilKill
    <2> QED BY <1>1, <1>7, <2>1, LearnStep
  <1>8. ASSUME NEW n \in Nodes, KillAndRestart(n)
        PROVE  FALSE
    BY <1>8 DEF KillAndRestart, TypeOK
  <1> QED BY <1>2, <1>3, <1>4, <1>5, <1>6, <1>7, <1>8 DEF Next

\* What two nodes decide at an index, a majority holds: the majorities meet.
LEMMA ChosenIsUnique ==
    ASSUME LogInv PROVE OneDecisionPerIndex
  <1> SUFFICES ASSUME NEW d \in decisions, NEW e \in decisions, d[1] = e[1]
               PROVE  d[2] = e[2]
    BY DEF OneDecisionPerIndex
  <1>1. PICK r \in 0 .. MaxRound : Chosen(d[1], d[2], r)
    BY DEF LogInv, DecisionInv
  <1>2. PICK s \in 0 .. MaxRound : Chosen(e[1], e[2], s)
    BY DEF LogInv, DecisionInv
  <1>3. PICK P \in Majorities : \A m \in P : Holds(m, d[1], d[2])
    BY <1>1 DEF Chosen
  <1>4. PICK Q \in Majorities : \A m \in Q : Holds(m, e[1], e[2])
    BY <1>2 DEF Chosen
  <1>5. PICK q \in Nodes : q \in P /\ q \in Q
    BY MajoritiesMeet
  <1> QED BY <1>3, <1>4, <1>5 DEF Holds

\* The variables of the replicated log keep their types, kills and restarts
\* included.
LEMMA LogTypes == Spec => []TypeOK
  BY LogTypeInit, LogTypeNext, PTL DEF Spec

LEMMA LogInvariant == Spec => [](TypeOK /\ LogInvUntilKill)
  <1>1. Init => TypeOK /\ LogInvUntilKill
    BY LogTypeInit, LogInvInit DEF LogInvUntilKill
  <1>2. TypeOK /\ LogInvUntilKill /\ [Next]_vars => (TypeOK /\ LogInvUntilKill)'
    BY LogTypeNext, LogInvNext
  <1> QED BY <1>1, <1>2, PTL DEF Spec

\* Whatever leaders compete and whatever partitions keep the nodes apart, no
\* index of the log is decided twice differently as long as no process was
\* killed and restarted on an empty MemoryStorage.
THEOREM OneLog == Spec => []OneLogUntilKill
  <1>1. LogInvUntilKill => OneLogUntilKill
    BY ChosenIsUnique DEF LogInvUntilKill, OneLogUntilKill
  <1> QED BY <1>1, LogInvariant, PTL

\* Without kills, what a node reads in process_decided_entries is always a
\* decided prefix of its own log, also after it accepted another leader's log.
THEOREM DecidedPrefix == Spec => []DecidedPrefixUntilKill
  <1>1. TypeOK /\ LogInvUntilKill => DecidedPrefixUntilKill
    <2> SUFFICES ASSUME TypeOK, LogInv, NEW n \in Nodes, NEW i \in 1 .. decided_idx[n]
                 PROVE  /\ i \in DOMAIN accepted_log[n]
                        /\ <<i, accepted_log[n][i]>> \in decisions
      BY DEF LogInvUntilKill, DecidedPrefixUntilKill
    <2>1. i \in 1 .. Len(accepted_log[n]) /\ <<i, accepted_log[n][i]>> \in decisions
      BY DEF LogInv, KnownInv
    <2>2. accepted_log[n] \in Seq(Commands)
      BY Typed
    <2> QED BY <2>1, <2>2
  <1> QED BY <1>1, LogInvariant, PTL
==============================================================================
