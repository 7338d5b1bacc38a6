-------------------------- MODULE JepsenHarnessProofs --------------------------
(***************************************************************************)
(* What the fault injector guarantees for every number of nodes, that the  *)
(* harness never writes to a dead process, and that its history of a       *)
(* linearizable cluster is linearizable and passes when it is answered,    *)
(* in whatever order its loop and the nodes take their steps.              *)
(***************************************************************************)
EXTENDS JepsenHarness, CheckerProofs, SequenceTheorems

------------------------------------------------------------------------------
(* A fault is one of three shapes and only ever replaces the healthy state. *)

Isolated(t) == partitions = Links({t}, Nodes \ {t}) /\ killed_nodes = {}

Split ==
    /\ partitions = Links({n \in Nodes : n < NodeCount \div 2},
                          {n \in Nodes : n >= NodeCount \div 2})
    /\ killed_nodes = {}

Killed(t) == partitions = {} /\ killed_nodes = {t}

Healthy == partitions = {} /\ killed_nodes = {}

\* The inductive invariant: at most one fault, and none unless the nemesis
\* remembers to undo it.
OneFault ==
    /\ NetTypeOK
    /\ KilledIffDead
    /\ \/ Healthy
       \/ nemesis_active /\ Split
       \/ nemesis_active /\ \E t \in Nodes : Isolated(t)
       \/ nemesis_active /\ \E t \in Nodes : Killed(t)

LEMMA OneFaultInit == NetInit => OneFault
  BY DEF NetInit, OneFault, NetTypeOK, KilledIffDead, is_killed, Healthy

LEMMA OneFaultInject ==
    ASSUME OneFault, ~nemesis_active, Inject, nemesis_active' = TRUE
    PROVE  OneFault'
  <1>0. /\ Healthy
        /\ NetTypeOK
        /\ KilledIffDead
    BY DEF OneFault
  <1>1. CASE \E t \in Nodes : isolate_node(t) /\ UNCHANGED <<killed_nodes, running>>
    <2>1. PICK t \in Nodes : isolate_node(t) /\ UNCHANGED <<killed_nodes, running>>
      BY <1>1
    <2>2. Isolated(t)'
      BY <1>0, <2>1 DEF Isolated, Healthy, isolate_node
    <2>3. NetTypeOK' /\ KilledIffDead'
      BY <1>0, <2>1, <2>2
         DEF NetTypeOK, KilledIffDead, is_killed, Isolated, Links
    <2> QED BY <2>2, <2>3 DEF OneFault
  <1>2. CASE split_brain /\ UNCHANGED <<killed_nodes, running>>
    <2>1. Split'
      BY <1>0, <1>2 DEF Split, Healthy, split_brain
    <2>2. NetTypeOK' /\ KilledIffDead'
      BY <1>0, <1>2, <2>1 DEF NetTypeOK, KilledIffDead, is_killed, Split, Links
    <2> QED BY <2>1, <2>2 DEF OneFault
  <1>3. CASE \E t \in Nodes : kill_node(t) /\ UNCHANGED partitions
    <2>1. PICK t \in Nodes : kill_node(t) /\ UNCHANGED partitions
      BY <1>3
    <2>2. Killed(t)'
      BY <1>0, <2>1 DEF Killed, Healthy, kill_node
    <2>3. NetTypeOK' /\ KilledIffDead'
      BY <1>0, <2>1, <2>2
         DEF NetTypeOK, KilledIffDead, is_killed, Killed, kill_node, Healthy
    <2> QED BY <2>2, <2>3 DEF OneFault
  <1> QED BY <1>1, <1>2, <1>3 DEF Inject

LEMMA OneFaultNext ==
    ASSUME OneFault, [NetNext]_netVars
    PROVE  OneFault'
  <1>1. CASE NemesisTurn /\ nemesis_active
    <2>1. Healthy'
      BY <1>1 DEF NemesisTurn, Undo, heal_all, Healthy
    <2>2. NetTypeOK' /\ KilledIffDead'
      BY <1>1 DEF OneFault, NemesisTurn, Undo, heal_all, NetTypeOK,
                  KilledIffDead, is_killed
    <2> QED BY <2>1, <2>2 DEF OneFault
  <1>2. CASE NemesisTurn /\ ~nemesis_active
    BY <1>2, OneFaultInject DEF NemesisTurn
  <1>3. CASE FinalHealing
    <2>1. Healthy' \/ (nemesis_active' /\ \E t \in Nodes : Killed(t)')
      BY <1>3 DEF OneFault, FinalHealing, heal_all, Healthy, Killed, Isolated,
                  Split
    <2>2. NetTypeOK' /\ KilledIffDead'
      BY <1>3 DEF OneFault, FinalHealing, heal_all, NetTypeOK, KilledIffDead,
                  is_killed
    <2> QED BY <2>1, <2>2 DEF OneFault
  <1>4. CASE UNCHANGED netVars
    BY <1>4 DEF OneFault, netVars, NetTypeOK, KilledIffDead, is_killed,
                Healthy, Split, Isolated, Killed
  <1> QED BY <1>1, <1>2, <1>3, <1>4 DEF NetNext

\* For every number of nodes and every kind of nemesis, the nodes the harness
\* refuses to write to are exactly the ones whose process is dead.
THEOREM KilledAreDead == NetSpec => []KilledIffDead
  <1>1. OneFault => KilledIffDead
    BY DEF OneFault
  <1>2. OneFault /\ [NetNext]_netVars => OneFault'
    BY OneFaultNext
  <1> QED BY OneFaultInit, <1>1, <1>2, PTL DEF NetSpec

------------------------------------------------------------------------------
(* Counting: what one fault leaves is more than half of the nodes.          *)

LEMMA NodesCardinality ==
    IsFiniteSet(Nodes) /\ Cardinality(Nodes) = NodeCount
  <1>1. /\ NodeCount \in Nat
        /\ 0 \in Int
        /\ NodeCount - 1 \in Int
    BY NetworkAssumption
  <1>2. /\ IsFiniteSet(0 .. (NodeCount - 1))
        /\ Cardinality(0 .. (NodeCount - 1)) =
              IF 0 > NodeCount - 1 THEN 0 ELSE (NodeCount - 1) - 0 + 1
    BY <1>1, FS_Interval
  <1> QED BY <1>1, <1>2 DEF Nodes

\* Without one node, three or more nodes still have a majority.
LEMMA AllButOneIsMajority ==
    ASSUME NodeCount >= 3, NEW t \in Nodes
    PROVE  Majority(Nodes \ {t})
  <1>1. Cardinality(Nodes \ {t}) = NodeCount - 1
    BY NodesCardinality, FS_RemoveElement
  <1> QED BY <1>1, NetworkAssumption DEF Majority

\* The second half of an odd number of nodes is the larger one.
LEMMA LargerHalfIsMajority ==
    ASSUME NodeCount % 2 = 1
    PROVE  Majority({n \in Nodes : n >= NodeCount \div 2})
  <1> DEFINE mid == NodeCount \div 2
  <1>1. /\ NodeCount \in Nat
        /\ mid \in Nat
        /\ NodeCount = 2 * mid + 1
    BY NetworkAssumption
  <1> HIDE DEF mid
  <1>2. {n \in Nodes : n >= mid} = mid .. (NodeCount - 1)
    BY <1>1 DEF Nodes
  <1>3. Cardinality(mid .. (NodeCount - 1)) =
           IF mid > NodeCount - 1 THEN 0 ELSE (NodeCount - 1) - mid + 1
    BY <1>1, FS_Interval
  <1>4. Cardinality({n \in Nodes : n >= mid}) = mid + 1
    BY <1>1, <1>2, <1>3
  <1>5. 2 * Cardinality({n \in Nodes : n >= mid}) > NodeCount
    BY <1>1, <1>4
  <1> QED BY <1>5 DEF Majority, mid

LEMMA OneFaultLeavesMajority ==
    ASSUME NodeCount >= 3, NodeCount % 2 = 1, OneFault
    PROVE  MajorityConnected
  <1>1. CASE Healthy
    <2>1. Connected(Nodes)
      BY <1>1 DEF Connected, is_partitioned, Healthy, OneFault, KilledIffDead,
                  is_killed
    <2>2. Majority(Nodes)
      BY NodesCardinality, NetworkAssumption DEF Majority
    <2> QED BY <2>1, <2>2 DEF MajorityConnected
  <1>2. CASE Split
    <2> DEFINE Q == {n \in Nodes : n >= NodeCount \div 2}
    <2>1. Connected(Q)
      <3>1. \A n \in Q : running[n]
        BY <1>2 DEF Split, OneFault, KilledIffDead, is_killed
      <3>2. ASSUME NEW m \in Q, NEW n \in Q
            PROVE  <<m, n>> \notin Links({x \in Nodes : x < NodeCount \div 2}, Q)
        <4>1. /\ m \in Nat
              /\ n \in Nat
              /\ NodeCount \div 2 \in Nat
              /\ m >= NodeCount \div 2
              /\ n >= NodeCount \div 2
          BY NetworkAssumption DEF Nodes
        <4>2. ~(m < NodeCount \div 2) /\ ~(n < NodeCount \div 2)
          BY <4>1
        <4> QED BY <4>2 DEF Links
      <3> QED BY <1>2, <3>1, <3>2 DEF Connected, is_partitioned, Split
    <2> QED BY <2>1, LargerHalfIsMajority DEF MajorityConnected
  <1>3. ASSUME NEW t \in Nodes, Isolated(t) \/ Killed(t)
        PROVE  MajorityConnected
    <2>1. Connected(Nodes \ {t})
      BY <1>3 DEF Connected, is_partitioned, Isolated, Killed, Links, OneFault,
                  KilledIffDead, is_killed
    <2> QED BY <2>1, AllButOneIsMajority DEF MajorityConnected
  <1> QED BY <1>1, <1>2, <1>3 DEF OneFault

\* For every odd number of nodes from three on, a connected majority of
\* running nodes survives every sequence of turns of the nemesis.
THEOREM MajorityStaysConnected ==
    ASSUME NodeCount >= 3, NodeCount % 2 = 1
    PROVE  NetSpec => []MajorityConnected
  <1>1. OneFault => MajorityConnected
    BY OneFaultLeavesMajority
  <1>2. OneFault /\ [NetNext]_netVars => OneFault'
    BY OneFaultNext
  <1> QED BY OneFaultInit, <1>1, <1>2, PTL DEF NetSpec

------------------------------------------------------------------------------
(* The harness's loop implements the fault injector.                        *)

LEMMA HarnessIsNemesis ==
    ASSUME [Next]_vars
    PROVE  [NetNext]_netVars
  <1>1. CASE RunNemesis
    BY <1>1 DEF RunNemesis, NetNext
  <1>2. CASE TestOver
    BY <1>2 DEF TestOver, NetNext
  <1>3. CASE DrainAndRecord \/ GenerateDone \/ route_messages
    BY <1>3 DEF DrainAndRecord, GenerateDone, route_messages
  <1>4. CASE \E n \in Nodes, op \in KVOp : send_operation(n, op)
    BY <1>4 DEF send_operation
  <1>5. CASE \E n \in Nodes : ReadStdin(n)
    BY <1>5 DEF ReadStdin
  <1>6. CASE \E r \in accepted : TakeEffect(r)
    BY <1>6 DEF TakeEffect
  <1>7. CASE \E d \in done : Answer(d)
    BY <1>7 DEF Answer
  <1>8. CASE \E n \in Nodes : \E m \in Nodes \ {n} : Message(n, m)
    BY <1>8 DEF Message
  <1>9. CASE UNCHANGED vars
    BY <1>9 DEF vars
  <1> QED BY <1>1, <1>2, <1>3, <1>4, <1>5, <1>6, <1>7, <1>8, <1>9
          DEF Next, Harness

LEMMA LoopRunsNemesis == Spec => NetSpec
  <1>1. Init => NetInit
    BY DEF Init
  <1>2. [Next]_vars => [NetNext]_netVars
    BY HarnessIsNemesis
  <1> QED BY <1>1, <1>2, PTL DEF Spec, NetSpec

\* So in every test the nodes the harness refuses to write to are exactly the
\* ones whose process is dead, ...
THEOREM HarnessKilledAreDead == Spec => []KilledIffDead
  BY LoopRunsNemesis, KilledAreDead, PTL

\* ... and no test starves an odd cluster of its quorum.
THEOREM HarnessKeepsMajority ==
    ASSUME NodeCount >= 3, NodeCount % 2 = 1
    PROVE  Spec => []MajorityConnected
  <1>1. NetSpec => []MajorityConnected
    BY MajorityStaysConnected
  <1> QED BY <1>1, LoopRunsNemesis, PTL

------------------------------------------------------------------------------
(* Typed nodes: what the harness reads from their pipes.                    *)

LEMMA ReplyType ==
    ASSUME NEW s \in Stores, NEW op \in KVOp
    PROVE  reply_to(s, op) \in ReplyBodies
  <1>1. CASE op \in [type : {"read"}, key : Keys]
    BY <1>1 DEF reply_to, Stores, ReplyBodies, Ok, Error
  <1>2. CASE op \in [type : {"write"}, key : Keys, value : Values]
    BY <1>2 DEF reply_to, Stores, ReplyBodies, Ok, Error
  <1>3. CASE op \in [type : {"cas"}, key : Keys, from : Values, to : Values]
    BY <1>3 DEF reply_to, Stores, ReplyBodies, Ok, Error
  <1> QED BY <1>1, <1>2, <1>3 DEF KVOp, OpsOver

LEMMA ResponseType ==
    ASSUME NEW id \in OpIds, NEW body \in ReplyBodies
    PROVE  record_response(id, body) \in Responses
  <1>1. body.type = "read_ok" => body.value \in Values
    BY DEF ReplyBodies, Ok, Error
  <1> QED BY <1>1 DEF record_response, Responses

Requests == [node : Nodes, id : OpIds, op : KVOp]

Results == [node : Nodes, id : OpIds, body : ReplyBodies]

ClusterTypeOK ==
    /\ stdin \in [Nodes -> SUBSET Requests]
    /\ stdout \in [Nodes -> Seq(Output)]
    /\ accepted \subseteq Requests
    /\ store \in Stores
    /\ done \subseteq Results
    /\ said \in [Nodes -> SUBSET OpIds]
    /\ messages \in 0 .. MaxMessages

LEMMA ClusterTypeInit == Init => ClusterTypeOK
  BY HarnessAssumption
     DEF Init, ClusterTypeOK, Stores, EmptyStore

LEMMA ClusterTypeNext ==
    ASSUME ClusterTypeOK, [Next]_vars
    PROVE  ClusterTypeOK'
  <1> USE DEF ClusterTypeOK
  <1>1. CASE RunNemesis
    BY <1>1 DEF RunNemesis
  <1>2. CASE TestOver \/ GenerateDone
    BY <1>2 DEF TestOver, GenerateDone, clusterVars
  <1>3. CASE DrainAndRecord
    BY <1>3 DEF DrainAndRecord
  <1>4. CASE route_messages
    BY <1>4 DEF route_messages
  <1>5. ASSUME NEW n \in Nodes, NEW op \in KVOp, send_operation(n, op)
        PROVE  ClusterTypeOK'
    <2>1. [node |-> n, id |-> next_op_id, op |-> op] \in Requests
      BY <1>5 DEF send_operation, Requests
    <2>2. stdin' \in [Nodes -> SUBSET Requests]
      BY <1>5, <2>1 DEF send_operation
    <2> QED BY <1>5, <2>2 DEF send_operation
  <1>6. ASSUME NEW n \in Nodes, ReadStdin(n)
        PROVE  ClusterTypeOK'
    BY <1>6 DEF ReadStdin
  <1>7. ASSUME NEW r \in accepted, TakeEffect(r)
        PROVE  ClusterTypeOK'
    <2>1. r.node \in Nodes /\ r.id \in OpIds /\ r.op \in KVOp
      BY DEF Requests
    <2>2. /\ apply_op(store, r.op) \in Stores
          /\ reply_to(store, r.op) \in ReplyBodies
      BY <2>1, ApplyType, ReplyType
    <2>3. [node |-> r.node, id |-> r.id, body |-> reply_to(store, r.op)] \in Results
      BY <2>1, <2>2 DEF Results
    <2> QED BY <1>7, <2>2, <2>3 DEF TakeEffect
  <1>8. ASSUME NEW d \in done, Answer(d)
        PROVE  ClusterTypeOK'
    <2>1. d.node \in Nodes /\ d.id \in OpIds /\ d.body \in ReplyBodies
      BY DEF Results
    <2>2. [src |-> d.node, dest |-> Client, id |-> d.id, body |-> d.body] \in Output
      BY <2>1 DEF Output
    <2>3. stdout' \in [Nodes -> Seq(Output)] /\ said' \in [Nodes -> SUBSET OpIds]
      BY <1>8, <2>1, <2>2 DEF Answer
    <2> QED BY <1>8, <2>3 DEF Answer
  <1>9. ASSUME NEW n \in Nodes, NEW m \in Nodes \ {n}, Message(n, m)
        PROVE  ClusterTypeOK'
    <2>1. [src |-> n, dest |-> m] \in Output
      BY DEF Output
    <2>2. stdout' \in [Nodes -> Seq(Output)]
      BY <1>9, <2>1 DEF Message
    <2>3. messages' \in 0 .. MaxMessages
      BY <1>9, HarnessAssumption DEF Message
    <2> QED BY <1>9, <2>2, <2>3 DEF Message
  <1>10. CASE UNCHANGED vars
    BY <1>10 DEF vars, clusterVars
  <1> QED BY <1>1, <1>2, <1>3, <1>4, <1>5, <1>6, <1>7, <1>8, <1>9, <1>10
          DEF Next, Harness

------------------------------------------------------------------------------
(* No write to a dead process.                                              *)

\* What the network lets through is addressed to a node that is not on the
\* list of killed nodes, and by KilledIffDead that node's process runs.
LEMMA DeliveredToTheLiving ==
    ASSUME OneFault, ClusterTypeOK, NEW nodes \in SUBSET Nodes,
           NEW m \in Delivered(Undrained(nodes))
    PROVE  ~send_panics(m.dest)
  <1>1. /\ m \in Undrained(nodes)
        /\ m.dest # Client
        /\ ~is_killed(m.dest)
    BY DEF Delivered
  <1>2. PICK n \in nodes : m \in ToSet(stdout[n])
    BY <1>1 DEF Undrained
  <1>3. stdout[n] \in Seq(Output)
    BY DEF ClusterTypeOK
  <1>4. m \in Output
    BY <1>2, <1>3 DEF ToSet
  <1>5. m.dest \in Nodes
    BY <1>1, <1>4 DEF Output
  <1> QED BY <1>1, <1>5 DEF OneFault, KilledIffDead, send_panics

HarnessInv == OneFault /\ ClusterTypeOK /\ NeverPanics

LEMMA HarnessInvNext ==
    ASSUME HarnessInv, [Next]_vars
    PROVE  HarnessInv'
  <1> USE DEF HarnessInv
  <1>1. OneFault' /\ ClusterTypeOK'
    BY HarnessIsNemesis, OneFaultNext, ClusterTypeNext
  <1>2. NeverPanics'
    <2>1. CASE DrainAndRecord
      BY <2>1, DeliveredToTheLiving DEF DrainAndRecord, NeverPanics
    <2>2. CASE route_messages
      <3>1. {n \in Nodes : ~is_killed(n)} \in SUBSET Nodes
        OBVIOUS
      <3> QED BY <2>2, <3>1, DeliveredToTheLiving DEF route_messages, NeverPanics
    <2>3. ASSUME NEW n \in Nodes, NEW op \in KVOp, send_operation(n, op)
          PROVE  NeverPanics'
      <3>1. ~send_panics(n)
        BY <2>3 DEF send_operation, send_panics, OneFault, KilledIffDead
      <3> QED BY <2>3, <3>1 DEF send_operation, NeverPanics
    <2>4. CASE RunNemesis \/ TestOver \/ GenerateDone
      BY <2>4 DEF RunNemesis, TestOver, GenerateDone, NeverPanics
    <2>5. CASE \E n \in Nodes : ReadStdin(n)
      BY <2>5 DEF ReadStdin, harnessVars, NeverPanics
    <2>6. CASE \E r \in accepted : TakeEffect(r)
      BY <2>6 DEF TakeEffect, harnessVars, NeverPanics
    <2>7. CASE \E d \in done : Answer(d)
      BY <2>7 DEF Answer, harnessVars, NeverPanics
    <2>8. CASE \E n \in Nodes : \E m \in Nodes \ {n} : Message(n, m)
      BY <2>8 DEF Message, harnessVars, NeverPanics
    <2>9. CASE UNCHANGED vars
      BY <2>9 DEF vars, harnessVars, NeverPanics
    <2> QED BY <2>1, <2>2, <2>3, <2>4, <2>5, <2>6, <2>7, <2>8, <2>9
            DEF Next, Harness
  <1> QED BY <1>1, <1>2

\* Whatever the nemesis does and whatever the nodes write, in any order of
\* their steps, deliver_messages, route_messages and send_operation never
\* write to the pipe of a dead process: the harness reaches its check.
THEOREM HarnessNeverPanics == Spec => []NeverPanics
  <1>1. Init => HarnessInv
    BY OneFaultInit, ClusterTypeInit DEF Init, HarnessInv, NeverPanics
  <1>2. HarnessInv /\ [Next]_vars => HarnessInv'
    BY HarnessInvNext
  <1>3. HarnessInv => NeverPanics
    BY DEF HarnessInv
  <1> QED BY <1>1, <1>2, <1>3, PTL DEF Spec

------------------------------------------------------------------------------
(* What the harness drains.                                                 *)

\* The loop of deliver_messages keeps the answers and nothing else.
LEMMA ClientMessagesOf ==
    ASSUME NEW S, NEW msgs \in Seq(S)
    PROVE  ClientMessages(msgs) \in Seq({m \in S : m.dest = Client})
  <1>0. PICK n \in Nat : n = Len(msgs)
    OBVIOUS
  <1> DEFINE A == {m \in S : m.dest = Client}
             Kept(t, i) == IF msgs[i].dest = Client THEN Append(t, msgs[i]) ELSE t
             IsLoop(k, f) == /\ f \in [0 .. k -> Seq(A)]
                             /\ f[0] = <<>>
                             /\ \A i \in 1 .. k : f[i] = Kept(f[i - 1], i)
             G == {k \in Nat : k <= n => \E f : IsLoop(k, f)}
  <1>1. ASSUME NEW t \in Seq(A), NEW i \in 1 .. n
        PROVE  Kept(t, i) \in Seq(A)
    <2>1. msgs[i] \in S
      BY <1>0
    <2> QED BY <2>1
  <1>2. 0 \in G
    <2> DEFINE f == [i \in 0 .. 0 |-> <<>>]
    <2>1. IsLoop(0, f)
      OBVIOUS
    <2> HIDE DEF f, IsLoop
    <2> QED BY <2>1
  <1>3. ASSUME NEW k \in Nat, k \in G
        PROVE  k + 1 \in G
    <2>1. SUFFICES ASSUME k + 1 <= n
                   PROVE  \E f : IsLoop(k + 1, f)
      OBVIOUS
    <2>2. PICK f : IsLoop(k, f)
      BY <1>3, <2>1
    <2> DEFINE x == Kept(f[k], k + 1)
               g == [i \in 0 .. (k + 1) |-> IF i = k + 1 THEN x ELSE f[i]]
    <2>3. x \in Seq(A)
      <3>1. f[k] \in Seq(A) /\ k + 1 \in 1 .. n
        BY <2>1, <2>2
      <3> HIDE DEF Kept, A
      <3> QED BY <1>1, <3>1
    <2> HIDE DEF Kept, A
    <2>4. g \in [0 .. (k + 1) -> Seq(A)] /\ g[0] = <<>>
      BY <2>2, <2>3
    <2>5. ASSUME NEW i \in 1 .. (k + 1)
          PROVE  g[i] = Kept(g[i - 1], i)
      <3>1. CASE i = k + 1
        BY <3>1
      <3>2. CASE i # k + 1
        <4>1. i \in 1 .. k /\ g[i] = f[i] /\ g[i - 1] = f[i - 1]
          BY <3>2
        <4> HIDE DEF g
        <4> QED BY <2>2, <4>1
      <3> QED BY <3>1, <3>2
    <2> HIDE DEF g
    <2>6. IsLoop(k + 1, g)
      BY <2>4, <2>5
    <2> QED BY <2>6
  <1> HIDE DEF G
  <1>4. n \in G
    BY <1>2, <1>3, SetInduction
  <1>5. PICK f : IsLoop(n, f)
    <2> HIDE DEF IsLoop
    <2> QED BY <1>4 DEF G
  <1> DEFINE E(t) == t = [i \in 0 .. Len(msgs) |->
                            IF i = 0 THEN <<>> ELSE Kept(t[i - 1], i)]
             c == CHOOSE t : E(t)
  <1>6. ClientMessages(msgs) = c[Len(msgs)]
    BY DEF ClientMessages
  <1> HIDE DEF Kept, A
  <1>7. E(f)
    BY <1>0, <1>5
  <1>8. E(c)
    <2> HIDE DEF E
    <2> QED BY <1>7
  <1> HIDE DEF c
  <1>9. /\ c[0] = <<>>
        /\ \A i \in 1 .. n : c[i] = Kept(c[i - 1], i)
    BY <1>0, <1>8
  <1> DEFINE H == {k \in Nat : k <= n => c[k] \in Seq(A)}
  <1> HIDE DEF E, IsLoop
  <1>10. 0 \in H
    <2>1. <<>> \in Seq(A)
      OBVIOUS
    <2> QED BY <1>9, <2>1
  <1>11. ASSUME NEW k \in Nat, k \in H
         PROVE  k + 1 \in H
    <2>1. SUFFICES ASSUME k + 1 <= n
                   PROVE  c[k + 1] \in Seq(A)
      OBVIOUS
    <2>2. k + 1 \in 1 .. n /\ c[k] \in Seq(A) /\ (k + 1) - 1 = k
      BY <1>11, <2>1
    <2> QED BY <1>1, <1>9, <2>2
  <1> HIDE DEF H
  <1>12. Nat \subseteq H
    BY <1>10, <1>11, SetInduction
  <1>13. c[n] \in Seq(A)
    BY <1>12 DEF H
  <1> QED BY <1>0, <1>6, <1>13 DEF A


LEMMA FlattenedOf ==
    ASSUME NEW S, NEW seqs \in Seq(Seq(S))
    PROVE  FlattenSeq(seqs) \in Seq(S)
  <1>0. PICK n \in Nat : n = Len(seqs)
    OBVIOUS
  <1>1. CASE n = 0
    <2>1. seqs = <<>>
      BY <1>0, <1>1, EmptySeq
    <2> QED BY <1>0, <1>1, <2>1 DEF FlattenSeq
  <1>2. CASE n # 0
    <2> DEFINE Next1(t, i) == t \o seqs[i]
               IsLoop(k, f) == /\ f \in [1 .. k -> Seq(S)]
                               /\ f[1] = seqs[1]
                               /\ \A i \in 2 .. k : f[i] = Next1(f[i - 1], i)
               G == {k \in Nat : k + 1 <= n => \E f : IsLoop(k + 1, f)}
    <2>1. ASSUME NEW t \in Seq(S), NEW i \in 1 .. n
          PROVE  Next1(t, i) \in Seq(S) /\ seqs[i] \in Seq(S)
      <3>1. seqs[i] \in Seq(S)
        BY <1>0
      <3> QED BY <3>1
    <2>2. 0 \in G
      <3> DEFINE f == [i \in 1 .. 1 |-> seqs[1]]
      <3>1. seqs[1] \in Seq(S)
        BY <1>0, <1>2
      <3>2. IsLoop(0 + 1, f)
        BY <3>1
      <3> HIDE DEF f, IsLoop
      <3> QED BY <3>2
    <2>3. ASSUME NEW k \in Nat, k \in G
          PROVE  k + 1 \in G
      <3>1. SUFFICES ASSUME (k + 1) + 1 <= n
                     PROVE  \E f : IsLoop((k + 1) + 1, f)
        <4> HIDE DEF IsLoop
        <4> QED OBVIOUS
      <3>2. PICK f : IsLoop(k + 1, f)
        <4> HIDE DEF IsLoop
        <4> QED BY <2>3, <3>1
      <3> DEFINE x == Next1(f[k + 1], k + 2)
                 g == [i \in 1 .. (k + 2) |-> IF i = k + 2 THEN x ELSE f[i]]
      <3>3. x \in Seq(S)
        <4>1. f[k + 1] \in Seq(S) /\ k + 2 \in 1 .. n
          BY <3>1, <3>2
        <4> HIDE DEF Next1
        <4> QED BY <2>1, <4>1
      <3> HIDE DEF Next1
      <3>4. g \in [1 .. (k + 2) -> Seq(S)] /\ g[1] = seqs[1]
        BY <3>2, <3>3
      <3>5. ASSUME NEW i \in 2 .. (k + 2)
            PROVE  g[i] = Next1(g[i - 1], i)
        <4>1. CASE i = k + 2
          BY <4>1
        <4>2. CASE i # k + 2
          <5>1. i \in 2 .. (k + 1) /\ g[i] = f[i] /\ g[i - 1] = f[i - 1]
            BY <4>2
          <5> HIDE DEF g
          <5> QED BY <3>2, <5>1
        <4> QED BY <4>1, <4>2
      <3> HIDE DEF g
      <3>6. IsLoop(k + 2, g)
        BY <3>4, <3>5
      <3>7. (k + 1) + 1 = k + 2
        OBVIOUS
      <3> HIDE DEF IsLoop
      <3> QED BY <3>6, <3>7
    <2> HIDE DEF G
    <2>4. n - 1 \in G
      BY <1>2, <2>2, <2>3, SetInduction
    <2>5. PICK f : IsLoop(n, f)
      <3>1. (n - 1) + 1 = n
        OBVIOUS
      <3> HIDE DEF IsLoop
      <3> QED BY <2>4, <3>1 DEF G
    <2> DEFINE E(t) == t = [i \in 1 .. Len(seqs) |->
                              IF i = 1 THEN seqs[i] ELSE Next1(t[i - 1], i)]
               c == CHOOSE t : E(t)
    <2>6. FlattenSeq(seqs) = c[Len(seqs)]
      BY <1>0, <1>2 DEF FlattenSeq
    <2> HIDE DEF Next1
    <2>7. E(f)
      BY <1>0, <2>5
    <2>8. E(c)
      <3> HIDE DEF E
      <3> QED BY <2>7
    <2> HIDE DEF c
    <2>9. /\ c[1] = seqs[1]
          /\ \A i \in 2 .. n : c[i] = Next1(c[i - 1], i)
      BY <1>0, <1>2, <2>8
    <2> HIDE DEF E, IsLoop
    <2> DEFINE H == {k \in Nat : k + 1 <= n => c[k + 1] \in Seq(S)}
    <2>10. 0 \in H
      <3>1. seqs[1] \in Seq(S) /\ 0 + 1 = 1
        BY <1>0, <1>2
      <3> QED BY <2>9, <3>1
    <2>11. ASSUME NEW k \in Nat, k \in H
           PROVE  k + 1 \in H
      <3>1. SUFFICES ASSUME (k + 1) + 1 <= n
                     PROVE  c[(k + 1) + 1] \in Seq(S)
        OBVIOUS
      <3>2. /\ k + 2 \in 2 .. n /\ k + 2 \in 1 .. n /\ c[k + 1] \in Seq(S)
            /\ (k + 2) - 1 = k + 1 /\ (k + 1) + 1 = k + 2
        BY <2>11, <3>1
      <3>3. c[k + 2] = Next1(c[k + 1], k + 2)
        BY <2>9, <3>2
      <3> QED BY <2>1, <3>2, <3>3
    <2> HIDE DEF H
    <2>12. n - 1 \in H /\ (n - 1) + 1 = n
      BY <1>2, <2>10, <2>11, SetInduction
    <2>13. c[n] \in Seq(S)
      BY <2>12 DEF H
    <2> QED BY <1>0, <2>6, <2>13
  <1> QED BY <1>1, <1>2


LEMMA DrainedAnswers ==
    ASSUME ClusterTypeOK, NEW msgs \in Drained
    PROVE  ClientMessages(msgs) \in Seq({m \in Undrained(Nodes) : m.dest = Client})
  <1>1. PICK U : U = Undrained(Nodes)
    OBVIOUS
  <1>2. \A n \in Nodes : stdout[n] \in Seq(U)
    <2>1. ASSUME NEW n \in Nodes
          PROVE  stdout[n] \in Seq(U)
      <3>1. stdout[n] \in Seq(Output)
        BY DEF ClusterTypeOK
      <3>2. \A i \in 1 .. Len(stdout[n]) : stdout[n][i] \in ToSet(stdout[n])
        BY <3>1 DEF ToSet
      <3>3. ToSet(stdout[n]) \subseteq U
        BY <1>1 DEF Undrained
      <3> QED BY <3>1, <3>2, <3>3
    <2> QED BY <2>1
  <1>3. PICK order \in SetToSeqs(Nodes) :
           msgs = FlattenSeq([i \in DOMAIN order |-> stdout[order[i]]])
    BY DEF Drained
  <1>4. /\ Len(order) \in Nat
        /\ DOMAIN order = 1 .. Len(order)
        /\ \A i \in 1 .. Len(order) : order[i] \in Nodes
    BY NodesCardinality, OrderOf
  <1> DEFINE seqs == [i \in DOMAIN order |-> stdout[order[i]]]
  <1>5. seqs \in Seq(Seq(U))
    BY <1>2, <1>4
  <1> HIDE DEF seqs
  <1>6. msgs \in Seq(U)
    BY <1>3, <1>5, FlattenedOf DEF seqs
  <1> QED BY <1>1, <1>6, ClientMessagesOf

\* What the harness makes of them.
RecordedOf(responses) ==
    [i \in DOMAIN responses |-> record_response(responses[i].id, responses[i].body)]

LEMMA DrainedResponses ==
    ASSUME ClusterTypeOK, DrainAndRecord
    PROVE  \E rs \in Seq(Responses) :
              /\ history' = history \o rs
              /\ \A j \in DOMAIN rs : \E m \in Undrained(Nodes) :
                    m.dest = Client /\ rs[j] = record_response(m.id, m.body)
              /\ taken' \subseteq taken \cup OpIds
  <1>1. PICK msgs \in Drained :
           /\ history' = history \o RecordedOf(ClientMessages(msgs))
           /\ taken' = taken \cup {m.id : m \in ToSet(ClientMessages(msgs))}
    BY DEF DrainAndRecord, RecordedOf
  <1>2. PICK cs : cs = ClientMessages(msgs)
    OBVIOUS
  <1> DEFINE A == {m \in Undrained(Nodes) : m.dest = Client}
  <1>3. cs \in Seq(A)
    BY <1>2, DrainedAnswers
  <1>4. \A m \in A : m.id \in OpIds /\ m.body \in ReplyBodies
    <2>1. ASSUME NEW m \in A
          PROVE  m.id \in OpIds /\ m.body \in ReplyBodies
      <3>1. PICK n \in Nodes : m \in ToSet(stdout[n])
        BY DEF Undrained
      <3>2. stdout[n] \in Seq(Output)
        BY DEF ClusterTypeOK
      <3>3. m \in Output /\ m.dest = Client
        BY <3>1, <3>2 DEF ToSet
      <3>4. Client \notin Nodes
        BY NetworkAssumption DEF Client, Nodes
      <3> QED BY <3>3, <3>4 DEF Output
    <2> QED BY <2>1
  <1> HIDE DEF A
  <1> DEFINE rs == RecordedOf(cs)
  <1>5. /\ Len(cs) \in Nat /\ DOMAIN cs = 1 .. Len(cs)
        /\ \A j \in 1 .. Len(cs) : cs[j] \in A
    BY <1>3
  <1>6. \A m \in A : record_response(m.id, m.body) \in Responses
    BY <1>4, ResponseType
  <1>7. /\ DOMAIN rs = 1 .. Len(cs)
        /\ \A j \in 1 .. Len(cs) : rs[j] = record_response(cs[j].id, cs[j].body)
    BY <1>5 DEF RecordedOf
  <1>8. rs \in Seq(Responses)
    <2>1. \A j \in 1 .. Len(cs) : rs[j] \in Responses
      BY <1>5, <1>6, <1>7
    <2>2. rs = [j \in 1 .. Len(cs) |-> rs[j]]
      BY <1>5 DEF RecordedOf
    <2> HIDE DEF rs
    <2> QED BY <1>5, <2>1, <2>2
  <1>9. taken' \subseteq taken \cup OpIds
    <2>1. \A m \in ToSet(cs) : m.id \in OpIds
      BY <1>4, <1>5 DEF ToSet
    <2> QED BY <1>1, <1>2, <2>1
  <1>10. history' = history \o rs
    BY <1>1, <1>2
  <1>11. \A j \in DOMAIN rs : \E m \in Undrained(Nodes) :
            m.dest = Client /\ rs[j] = record_response(m.id, m.body)
    <2> HIDE DEF rs
    <2> QED BY <1>5, <1>7 DEF A
  <1> HIDE DEF rs
  <1> QED BY <1>8, <1>9, <1>10, <1>11


------------------------------------------------------------------------------
(* Typed records.                                                           *)

RecordTypeOK ==
    /\ pc \in {"drain", "generate", "nemesis", "waiting", "checked", "panicked"}
    /\ history \in Seq(Invocations \cup Responses)
    /\ next_op_id \in Nat
    /\ taken \subseteq OpIds

LEMMA RecordTypeNext ==
    ASSUME ClusterTypeOK, RecordTypeOK, [Next]_vars
    PROVE  RecordTypeOK'
  <1> USE DEF RecordTypeOK
  <1>1. CASE DrainAndRecord
    <2>1. PICK rs \in Seq(Responses) :
             history' = history \o rs /\ taken' \subseteq taken \cup OpIds
      BY <1>1, DrainedResponses
    <2>2. history' \in Seq(Invocations \cup Responses)
      BY <2>1
    <2> QED BY <1>1, <2>1, <2>2 DEF DrainAndRecord
  <1>2. ASSUME NEW n \in Nodes, NEW op \in KVOp, send_operation(n, op)
        PROVE  RecordTypeOK'
    <2>1. [event_type |-> "invoke", id |-> next_op_id, op |-> op] \in Invocations
      BY <1>2 DEF send_operation, Invocations
    <2>2. history' \in Seq(Invocations \cup Responses)
      BY <1>2, <2>1 DEF send_operation
    <2> QED BY <1>2, <2>2 DEF send_operation
  <1>3. CASE GenerateDone \/ RunNemesis \/ TestOver
    BY <1>3 DEF GenerateDone, RunNemesis, TestOver
  <1>4. CASE route_messages
    <2> DEFINE msgs == Undrained({n \in Nodes : ~is_killed(n)})
    <2>1. ASSUME NEW m \in msgs, m.dest = Client
          PROVE  m.id \in OpIds
      <3>1. PICK n \in Nodes : m \in ToSet(stdout[n])
        BY DEF Undrained
      <3>2. stdout[n] \in Seq(Output)
        BY DEF ClusterTypeOK
      <3>3. m \in Output
        BY <3>1, <3>2 DEF ToSet
      <3>4. Client \notin Nodes
        BY NetworkAssumption DEF Client, Nodes
      <3> QED BY <2>1, <3>3, <3>4 DEF Output
    <2>2. taken' = taken \cup {m.id : m \in {x \in msgs : x.dest = Client}}
      BY <1>4 DEF route_messages
    <2> HIDE DEF msgs
    <2> QED BY <1>4, <2>1, <2>2 DEF route_messages
  <1>5. CASE \E n \in Nodes : ReadStdin(n)
    BY <1>5 DEF ReadStdin, harnessVars
  <1>6. CASE \E r \in accepted : TakeEffect(r)
    BY <1>6 DEF TakeEffect, harnessVars
  <1>7. CASE \E d \in done : Answer(d)
    BY <1>7 DEF Answer, harnessVars
  <1>8. CASE \E n \in Nodes : \E m \in Nodes \ {n} : Message(n, m)
    BY <1>8 DEF Message, harnessVars
  <1>9. CASE UNCHANGED vars
    BY <1>9 DEF vars, harnessVars
  <1> QED BY <1>1, <1>2, <1>3, <1>4, <1>5, <1>6, <1>7, <1>8, <1>9 DEF Next, Harness

\* Type correctness of the harness and of the nodes it tests: whatever
\* run_nemesis and the nodes do, only well-formed entries are recorded.
THEOREM HarnessTypes == Spec => []TypeOK
  <1> DEFINE Inv == HarnessInv /\ RecordTypeOK
  <1>1. Init => Inv
    BY OneFaultInit, ClusterTypeInit
       DEF Init, HarnessInv, NeverPanics, RecordTypeOK
  <1>2. Inv /\ [Next]_vars => Inv'
    BY HarnessInvNext, RecordTypeNext DEF HarnessInv
  <1>3. Inv => TypeOK
    BY DEF HarnessInv, OneFault, RecordTypeOK, ClusterTypeOK, TypeOK, Requests, Results
  <1> HIDE DEF Inv
  <1> QED BY <1>1, <1>2, <1>3, PTL DEF Spec


------------------------------------------------------------------------------
(* The history of a linearizable cluster is linearizable.                   *)

DoneIds(dn) == {d.id : d \in dn}

\* The order in which the results dn took effect and the stores st before,
\* between and after them: the stores lead to s, the results are the answers
\* at their places, and the order agrees with the history h.
Effects(h, dn, s, order, st) ==
    /\ order \in Seq(OpIds)
    /\ {order[i] : i \in DOMAIN order} = DoneIds(dn)
    /\ \A i, j \in DOMAIN order : order[i] = order[j] => i = j
    /\ st \in [0 .. Len(order) -> Stores]
    /\ st[0] = EmptyStore
    /\ st[Len(order)] = s
    /\ \A i \in DOMAIN order : st[i] = apply_op(st[i - 1], OpOf(h, order[i]))
    /\ \A d \in dn : \E i \in DOMAIN order :
          order[i] = d.id /\ d.body = reply_to(st[i - 1], OpOf(h, d.id))
    /\ \A i, j \in DOMAIN order : i < j => ~HappensBefore(h, order[j], order[i])

\* Every response of the history is what was kept of a result.
Recorded(h, dn) ==
    \A r \in DOMAIN h : h[r].event_type # "invoke" =>
        \E d \in dn : h[r] = record_response(d.id, d.body)

\* A history that grows disturbs no order of effects.
LEMMA EffectsExtend ==
    ASSUME NEW h, NEW g, Extends(g, h), NEW dn, DoneIds(dn) \subseteq Invoked(h),
           NEW s, NEW order, NEW st, Effects(h, dn, s, order, st)
    PROVE  Effects(g, dn, s, order, st)
  <1>1. \A i \in DOMAIN order : order[i] \in Invoked(h)
    BY DEF Effects
  <1>2. \A d \in dn : d.id \in Invoked(h)
    BY DEF DoneIds
  <1>3. \A id \in Invoked(h) : OpOf(g, id) = OpOf(h, id)
    BY ExtensionKeeps
  <1>4. \A i, j \in DOMAIN order : i < j => ~HappensBefore(g, order[j], order[i])
    BY <1>1, ExtensionKeeps DEF Effects
  <1> QED BY <1>1, <1>2, <1>3, <1>4 DEF Effects

\* An operation without a result takes effect after all the others: it was
\* not answered yet, so that nothing is required to come after it.
LEMMA EffectsTake ==
    ASSUME NEW h, WellFormed(h), NEW dn, DoneIds(dn) \subseteq Invoked(h), Recorded(h, dn),
           NEW s, NEW order, NEW st, Effects(h, dn, s, order, st),
           NEW d, d.id \in Invoked(h), d.id \notin DoneIds(dn), d.id \in OpIds,
           d.body = reply_to(s, OpOf(h, d.id))
    PROVE  \E o, t : Effects(h, dn \cup {d}, apply_op(s, OpOf(h, d.id)), o, t)
  <1>1. PICK n \in Nat : n = Len(order)
    BY DEF Effects
  <1>2. PICK id \in OpIds : id = d.id
    OBVIOUS
  <1>3. PICK x : x = apply_op(s, OpOf(h, id))
    OBVIOUS
  <1> DEFINE o == Append(order, id)
             t == [i \in 0 .. (n + 1) |-> IF i = n + 1 THEN x ELSE st[i]]
  <1>4. DOMAIN order = 1 .. n /\ order \in Seq(OpIds)
    BY <1>1 DEF Effects
  <1>5. /\ o \in Seq(OpIds)
        /\ Len(o) = n + 1 /\ DOMAIN o = 1 .. (n + 1)
        /\ \A i \in 1 .. n : o[i] = order[i]
        /\ o[n + 1] = id
    BY <1>1, <1>4
  <1> HIDE DEF o
  <1>6. s \in Stores /\ st[n] = s /\ st \in [0 .. n -> Stores]
    BY <1>1 DEF Effects
  <1>7. x \in Stores
    <2>1. Extends(h, h)
      BY DEF Extends, WellFormed
    <2>2. OpOf(h, id) \in KVOp
      BY <1>2, <2>1, ExtensionKeeps
    <2> QED BY <1>3, <1>6, <2>2, ApplyType
  <1>8. /\ t \in [0 .. (n + 1) -> Stores]
        /\ t[n + 1] = x
        /\ \A i \in 0 .. n : t[i] = st[i]
    BY <1>6, <1>7
  <1> HIDE DEF t
  <1>9. \A i \in 1 .. (n + 1) : i \in 1 .. n \/ i = n + 1
    OBVIOUS
  <1>10. \A i \in 1 .. n : order[i] # id
    BY <1>2, <1>4 DEF Effects
  <1>11. {o[i] : i \in DOMAIN o} = DoneIds(dn \cup {d})
    <2>1. {order[i] : i \in 1 .. n} = DoneIds(dn)
      BY <1>4 DEF Effects
    <2>2. {o[i] : i \in DOMAIN o} = {order[i] : i \in 1 .. n} \cup {id}
      <3>1. \A i \in 1 .. n : i \in DOMAIN o
        BY <1>5
      <3>2. n + 1 \in DOMAIN o
        BY <1>5
      <3> QED BY <1>5, <1>9, <3>1, <3>2
    <2>3. DoneIds(dn \cup {d}) = DoneIds(dn) \cup {id}
      BY <1>2 DEF DoneIds
    <2> QED BY <2>1, <2>2, <2>3
  <1>12. \A i, j \in DOMAIN o : o[i] = o[j] => i = j
    <2>1. \A i, j \in 1 .. n : order[i] = order[j] => i = j
      BY <1>4 DEF Effects
    <2> QED BY <1>5, <1>9, <1>10, <2>1
  <1>13. t[0] = EmptyStore /\ t[Len(o)] = x
    BY <1>5, <1>8 DEF Effects
  <1>14. ASSUME NEW i \in DOMAIN o
         PROVE  t[i] = apply_op(t[i - 1], OpOf(h, o[i]))
    <2>1. CASE i \in 1 .. n
      <3>1. st[i] = apply_op(st[i - 1], OpOf(h, order[i]))
        BY <1>4, <2>1 DEF Effects
      <3>2. i \in 0 .. n /\ i - 1 \in 0 .. n
        BY <2>1
      <3> QED BY <1>5, <1>8, <2>1, <3>1, <3>2
    <2>2. CASE i = n + 1
      <3>1. n \in 0 .. n /\ i - 1 = n
        BY <2>2
      <3> QED BY <1>3, <1>5, <1>6, <1>8, <2>2, <3>1
    <2> QED BY <1>5, <1>9, <2>1, <2>2
  <1>15. ASSUME NEW e \in dn \cup {d}
         PROVE  \E i \in DOMAIN o :
                   o[i] = e.id /\ e.body = reply_to(t[i - 1], OpOf(h, e.id))
    <2>1. CASE e \in dn
      <3>1. PICK i \in 1 .. n :
               order[i] = e.id /\ e.body = reply_to(st[i - 1], OpOf(h, e.id))
        BY <1>4, <2>1 DEF Effects
      <3>2. i - 1 \in 0 .. n /\ i \in DOMAIN o
        BY <1>5
      <3> QED BY <1>5, <1>8, <3>1, <3>2
    <2>2. CASE e = d
      <3>1. n + 1 \in DOMAIN o /\ (n + 1) - 1 = n /\ n \in 0 .. n
        BY <1>5
      <3> QED BY <1>2, <1>5, <1>6, <1>8, <2>2, <3>1
    <2> QED BY <2>1, <2>2
  <1>16. ASSUME NEW i \in DOMAIN o, NEW j \in DOMAIN o, i < j
         PROVE  ~HappensBefore(h, o[j], o[i])
    <2>1. CASE j \in 1 .. n
      <3>1. i \in 1 .. n
        BY <1>5, <1>16, <2>1
      <3> QED BY <1>4, <1>5, <1>16, <2>1, <3>1 DEF Effects
    <2>2. CASE j = n + 1
      <3>1. SUFFICES ASSUME NEW r \in Completions(h), h[r].id = id
                     PROVE  FALSE
        BY <1>5, <2>2 DEF HappensBefore
      <3>2. PICK e \in dn : h[r] = record_response(e.id, e.body)
        BY DEF Recorded, Completions
      <3>3. e.id = id
        BY <3>1, <3>2 DEF record_response
      <3> QED BY <1>2, <3>3 DEF DoneIds
    <2> QED BY <1>5, <1>9, <2>1, <2>2
  <1>17. Effects(h, dn \cup {d}, x, o, t)
    BY <1>5, <1>8, <1>11, <1>12, <1>13, <1>14, <1>15, <1>16 DEF Effects
  <1> QED BY <1>2, <1>3, <1>17


LEMMA EffectsAreLinearizable ==
    ASSUME NEW h, WellFormed(h), NEW dn, DoneIds(dn) \subseteq Invoked(h), Recorded(h, dn),
           NEW s, NEW order, NEW st, Effects(h, dn, s, order, st)
    PROVE  Linearizable(h)
  <1>1. PICK n \in Nat : n = Len(order)
    BY DEF Effects
  <1>2. PICK D : D = DoneIds(dn)
    OBVIOUS
  <1>3. /\ DOMAIN order = 1 .. n
        /\ order \in [1 .. n -> D]
        /\ \A i, j \in 1 .. n : order[i] = order[j] => i = j
        /\ \A x \in D : \E i \in 1 .. n : order[i] = x
    <2>1. order \in Seq(OpIds) /\ {order[i] : i \in DOMAIN order} = D
      BY <1>2 DEF Effects
    <2>2. DOMAIN order = 1 .. n /\ order \in [1 .. n -> OpIds]
      BY <1>1, <2>1
    <2>3. \A i \in 1 .. n : order[i] \in D
      BY <2>1, <2>2
    <2>4. \A x \in D : \E i \in 1 .. n : order[i] = x
      BY <2>1, <2>2
    <2> QED BY <2>2, <2>3, <2>4 DEF Effects
  <1>4. order \in SetToSeqs(D)
    <2>1. order \in Injection(1 .. n, D)
      BY <1>3 DEF Injection, IsInjective
    <2>2. order \in Surjection(1 .. n, D)
      BY <1>3 DEF Surjection
    <2>3. ExistsBijection(1 .. n, D)
      BY <2>1, <2>2 DEF ExistsBijection, Bijection
    <2>4. Cardinality(D) = n
      BY <2>3, FS_CountingElements
    <2> QED BY <1>3, <2>4 DEF SetToSeqs
  <1>5. Completed(h) \subseteq D
    <2>1. ASSUME NEW r \in Completions(h)
          PROVE  h[r].id \in D
      <3>1. PICK d \in dn : h[r] = record_response(d.id, d.body)
        BY DEF Recorded, Completions
      <3> QED BY <1>2, <3>1 DEF record_response, DoneIds
    <2> QED BY <2>1 DEF Completed
  <1> DEFINE pending == D \ Completed(h)
  <1>6. pending \in SUBSET Unanswered(h) /\ Completed(h) \cup pending = D
    BY <1>2, <1>5 DEF Unanswered
  <1> DEFINE rp == Replay(h, order)
  <1>7. \A i \in 1 .. n : OpOf(h, order[i]) \in KVOp
    <2>1. Extends(h, h)
      BY DEF Extends, WellFormed
    <2>2. \A i \in 1 .. n : order[i] \in Invoked(h)
      BY <1>2, <1>3
    <2> QED BY <2>1, <2>2, ExtensionKeeps
  <1>8. /\ rp[0] = EmptyStore
        /\ \A i \in 1 .. n : rp[i] = apply_op(rp[i - 1], OpOf(h, order[i]))
    BY <1>1, <1>7, ReplayStores
  <1> HIDE DEF rp, pending
  <1>9. /\ st[0] = EmptyStore
        /\ \A i \in 1 .. n : st[i] = apply_op(st[i - 1], OpOf(h, order[i]))
    BY <1>3 DEF Effects
  <1> DEFINE G == {k \in Nat : k <= n => rp[k] = st[k]}
  <1>10. 0 \in G
    BY <1>8, <1>9
  <1>11. ASSUME NEW k \in Nat, k \in G
         PROVE  k + 1 \in G
    <2>1. SUFFICES ASSUME k + 1 <= n
                   PROVE  rp[k + 1] = st[k + 1]
      OBVIOUS
    <2>2. k + 1 \in 1 .. n /\ rp[k] = st[k] /\ (k + 1) - 1 = k
      BY <1>11, <2>1
    <2> QED BY <1>8, <1>9, <2>2
  <1> HIDE DEF G
  <1>12. \A k \in 0 .. n : rp[k] = st[k]
    <2>1. Nat \subseteq G
      BY <1>10, <1>11, SetInduction
    <2> QED BY <2>1 DEF G
  <1>13. ASSUME NEW r \in Completions(h)
         PROVE  \E i \in DOMAIN order :
                   /\ order[i] = h[r].id
                   /\ h[r] = record_response(h[r].id,
                                 reply_to(rp[i - 1], OpOf(h, h[r].id)))
    <2>1. PICK d \in dn : h[r] = record_response(d.id, d.body)
      BY DEF Recorded, Completions
    <2>2. h[r].id = d.id
      BY <2>1 DEF record_response
    <2>3. PICK i \in DOMAIN order :
             order[i] = d.id /\ d.body = reply_to(st[i - 1], OpOf(h, d.id))
      BY DEF Effects
    <2>4. rp[i - 1] = st[i - 1]
      <3>1. i - 1 \in 0 .. n
        BY <1>3
      <3> QED BY <1>12, <3>1
    <2> QED BY <2>1, <2>2, <2>3, <2>4
  <1>14. \A i, j \in DOMAIN order : i < j => ~HappensBefore(h, order[j], order[i])
    BY DEF Effects
  <1>15. order \in SetToSeqs(Completed(h) \cup pending)
    BY <1>4, <1>6
  <1> QED BY <1>6, <1>13, <1>14, <1>15 DEF Linearizable, rp


------------------------------------------------------------------------------
(* The invariant of a run.                                                  *)

\* The request is the one that send_operation recorded.
Known(h, r) == r.id \in Invoked(h) /\ r.op = OpOf(h, r.id)

\* Ids are new when they are given out.
NumberedInv ==
    /\ WellFormed(history)
    /\ \A id \in Invoked(history) : id < next_op_id

\* A request is in one pipe, or read by its node, or done.
RequestInv ==
    /\ \A r \in accepted : Known(history, r) /\ r.id \notin DoneIds(done)
    /\ \A n \in Nodes : \A r \in stdin[n] :
          /\ r.node = n
          /\ Known(history, r)
          /\ r.id \notin DoneIds(done)
          /\ \A q \in accepted : q.id # r.id
    /\ \A r, q \in accepted : r.id = q.id => r = q
    /\ \A m, n \in Nodes : \A r \in stdin[m], q \in stdin[n] : r.id = q.id => r = q

\* What is done took effect in an order that the history allows.
EffectInv ==
    /\ DoneIds(done) \subseteq Invoked(history)
    /\ \E order, st : Effects(history, done, store, order, st)

\* What the nodes answered are results.
PipeInv ==
    \A n \in Nodes : \A i \in DOMAIN stdout[n] : stdout[n][i].dest = Client =>
        \E d \in done : d.id = stdout[n][i].id /\ d.body = stdout[n][i].body

RunInv ==
    /\ ClusterTypeOK
    /\ RecordTypeOK
    /\ NumberedInv
    /\ RequestInv
    /\ EffectInv
    /\ PipeInv
    /\ Recorded(history, done)

LEMMA RunInit == Init => RunInv
  <1> SUFFICES ASSUME Init
               PROVE  RunInv
    OBVIOUS
  <1>1. ClusterTypeOK /\ RecordTypeOK
    BY ClusterTypeInit DEF Init, RecordTypeOK
  <1>2. history = <<>> /\ history \in Seq(Invocations \cup Responses) /\ DOMAIN history = {}
    BY DEF Init
  <1>3. NumberedInv /\ Recorded(history, done)
    BY <1>2 DEF NumberedInv, WellFormed, Invoked, Recorded
  <1>4. RequestInv /\ PipeInv
    BY DEF Init, RequestInv, PipeInv
  <1>5. EffectInv
    <2> DEFINE o == <<>>
               t == [i \in 0 .. 0 |-> EmptyStore]
    <2>1. DoneIds(done) = {} /\ store = EmptyStore /\ done = {}
      BY DEF Init, DoneIds
    <2>2. /\ o \in Seq(OpIds) /\ Len(o) = 0 /\ DOMAIN o = {}
          /\ t \in [0 .. 0 -> Stores] /\ t[0] = EmptyStore
      BY DEF Stores, EmptyStore
    <2> HIDE DEF o, t
    <2>3. Effects(history, done, store, o, t)
      BY <2>1, <2>2 DEF Effects
    <2> QED BY <2>1, <2>3 DEF EffectInv
  <1> QED BY <1>1, <1>3, <1>4, <1>5 DEF RunInv

\* The steps that leave the history and the results alone.
LEMMA QuietStep ==
    ASSUME RunInv, ClusterTypeOK', RecordTypeOK',
           UNCHANGED <<history, next_op_id, done, store>>,
           RequestInv', PipeInv'
    PROVE  RunInv'
  BY DEF RunInv, NumberedInv, EffectInv, Recorded

LEMMA QuietRequests ==
    ASSUME RunInv, UNCHANGED <<history, done, accepted>>,
           \A n \in Nodes : stdin'[n] \subseteq stdin[n]
    PROVE  RequestInv'
  BY DEF RunInv, RequestInv, Known

LEMMA QuietPipes ==
    ASSUME RunInv, UNCHANGED done,
           \A n \in Nodes : stdout'[n] = stdout[n] \/ stdout'[n] = <<>>
    PROVE  PipeInv'
  BY DEF RunInv, PipeInv

\* What a node writes, when an answer is a result.
LEMMA WrittenPipes ==
    ASSUME RunInv, UNCHANGED done, NEW n \in Nodes, NEW m,
           stdout' = [stdout EXCEPT ![n] = Append(@, m)], ClusterTypeOK',
           m.dest = Client => \E d \in done : d.id = m.id /\ d.body = m.body
    PROVE  PipeInv'
  <1>1. SUFFICES ASSUME NEW k \in Nodes, NEW i \in DOMAIN stdout'[k],
                        stdout'[k][i].dest = Client
                 PROVE  \E d \in done : d.id = stdout'[k][i].id /\ d.body = stdout'[k][i].body
    BY DEF PipeInv
  <1>2. stdout \in [Nodes -> Seq(Output)] /\ stdout[n] \in Seq(Output)
    BY DEF RunInv, ClusterTypeOK
  <1>3. CASE k # n
    BY <1>1, <1>2, <1>3 DEF RunInv, PipeInv
  <1>4. CASE k = n
    <2>1. stdout'[n] = Append(stdout[n], m)
      BY <1>2
    <2>2. CASE i = Len(stdout[n]) + 1
      BY <1>1, <1>2, <1>4, <2>1, <2>2
    <2>3. CASE i # Len(stdout[n]) + 1
      <3>1. i \in DOMAIN stdout[n] /\ stdout'[n][i] = stdout[n][i]
        BY <1>1, <1>2, <1>4, <2>1, <2>3
      <3> QED BY <1>1, <1>4, <3>1 DEF RunInv, PipeInv
    <2> QED BY <2>2, <2>3
  <1> QED BY <1>3, <1>4


LEMMA ReadKeeps ==
    ASSUME RunInv, NEW n \in Nodes, ReadStdin(n), ClusterTypeOK', RecordTypeOK'
    PROVE  RunInv'
  <1>1. PICK r \in stdin[n] :
           /\ stdin' = [stdin EXCEPT ![n] = @ \ {r}]
           /\ accepted' = accepted \cup {r}
           /\ UNCHANGED <<history, next_op_id, done, store, stdout>>
    BY DEF ReadStdin, harnessVars
  <1>2. stdin \in [Nodes -> SUBSET Requests]
    BY DEF RunInv, ClusterTypeOK
  <1>3. stdin'[n] = stdin[n] \ {r} /\ \A k \in Nodes : k # n => stdin'[k] = stdin[k]
    BY <1>1, <1>2
  <1>4. RequestInv
    BY DEF RunInv
  <1>5. /\ \A q \in accepted' : Known(history, q) /\ q.id \notin DoneIds(done)
        /\ \A q, p \in accepted' : q.id = p.id => q = p
    BY <1>1, <1>4 DEF RequestInv
  <1>6. \A k \in Nodes : stdin'[k] \subseteq stdin[k] /\ r \notin stdin'[k]
    BY <1>3, <1>4 DEF RequestInv
  <1>7. ASSUME NEW k \in Nodes, NEW p \in stdin'[k], NEW q \in accepted'
        PROVE  q.id # p.id
    <2>1. CASE q = r
      BY <1>4, <1>6, <2>1 DEF RequestInv
    <2>2. CASE q # r
      BY <1>1, <1>4, <1>6, <2>2 DEF RequestInv
    <2> QED BY <2>1, <2>2
  <1>8. RequestInv'
    BY <1>1, <1>4, <1>5, <1>6, <1>7 DEF RequestInv, Known
  <1>9. PipeInv'
    BY <1>1, QuietPipes
  <1> QED BY <1>1, <1>8, <1>9, QuietStep

LEMMA TakeEffectKeeps ==
    ASSUME RunInv, NEW r \in accepted, TakeEffect(r), ClusterTypeOK', RecordTypeOK'
    PROVE  RunInv'
  <1> DEFINE d == [node |-> r.node, id |-> r.id, body |-> reply_to(store, r.op)]
  <1>1. /\ accepted' = accepted \ {r}
        /\ store' = apply_op(store, r.op)
        /\ done' = done \cup {d}
        /\ UNCHANGED <<history, next_op_id, stdin, stdout>>
    BY DEF TakeEffect, harnessVars
  <1>2. /\ RequestInv /\ EffectInv /\ NumberedInv /\ PipeInv
        /\ Recorded(history, done) /\ accepted \subseteq Requests
    BY DEF RunInv, ClusterTypeOK
  <1>3. Known(history, r) /\ r.id \notin DoneIds(done) /\ r.id \in OpIds
    BY <1>2 DEF RequestInv, Requests
  <1>4. d.id = r.id /\ d.body = reply_to(store, OpOf(history, r.id))
    BY <1>3 DEF Known
  <1> HIDE DEF d
  <1>5. DoneIds(done') = DoneIds(done) \cup {r.id}
    BY <1>1, <1>4 DEF DoneIds
  <1>6. NumberedInv' /\ PipeInv' /\ Recorded(history', done')
    BY <1>1, <1>2 DEF NumberedInv, PipeInv, Recorded
  <1>7. RequestInv'
    <2>1. \A q \in accepted' : q.id # r.id /\ q \in accepted
      BY <1>1, <1>2 DEF RequestInv
    <2>2. \A n \in Nodes : \A q \in stdin[n] : q.id # r.id
      BY <1>2 DEF RequestInv
    <2>3. \A q \in accepted' : Known(history, q) /\ q.id \notin DoneIds(done')
      BY <1>2, <1>5, <2>1 DEF RequestInv
    <2>4. \A n \in Nodes : \A q \in stdin[n] :
             /\ q.node = n
             /\ Known(history, q)
             /\ q.id \notin DoneIds(done')
             /\ \A p \in accepted' : p.id # q.id
      BY <1>2, <1>5, <2>1, <2>2 DEF RequestInv
    <2>5. \A q, p \in accepted' : q.id = p.id => q = p
      BY <1>2, <2>1 DEF RequestInv
    <2>6. \A m, n \in Nodes : \A q \in stdin[m], p \in stdin[n] : q.id = p.id => q = p
      BY <1>2 DEF RequestInv
    <2>7. DoneIds(done)' = DoneIds(done') /\ \A q : Known(history, q)' <=> Known(history, q)
      BY <1>1 DEF DoneIds, Known
    <2> QED BY <1>1, <2>3, <2>4, <2>5, <2>6, <2>7 DEF RequestInv
  <1>8. EffectInv'
    <2>1. PICK order, st : Effects(history, done, store, order, st)
      BY <1>2 DEF EffectInv
    <2>2. WellFormed(history) /\ DoneIds(done) \subseteq Invoked(history)
      BY <1>2 DEF NumberedInv, EffectInv
    <2>3. \E o, t : Effects(history, done \cup {d}, apply_op(store, OpOf(history, d.id)), o, t)
      BY <1>2, <1>3, <1>4, <2>1, <2>2, EffectsTake DEF Known
    <2>4. store' = apply_op(store, OpOf(history, d.id))
      BY <1>1, <1>3, <1>4 DEF Known
    <2>5. \E o, t : Effects(history', done', store', o, t)
      BY <1>1, <2>3, <2>4
    <2>6. DoneIds(done') \subseteq Invoked(history')
      BY <1>1, <1>3, <1>5, <2>2 DEF Known
    <2> QED BY <2>5, <2>6 DEF EffectInv, DoneIds
  <1> QED BY <1>6, <1>7, <1>8 DEF RunInv, Recorded

LEMMA SendKeeps ==
    ASSUME RunInv, NEW n \in Nodes, NEW op \in KVOp, send_operation(n, op),
           ClusterTypeOK', RecordTypeOK'
    PROVE  RunInv'
  <1> DEFINE id == next_op_id
             r == [node |-> n, id |-> id, op |-> op]
  <1>1. /\ id \in OpIds /\ id \in Nat
        /\ next_op_id' = id + 1
        /\ history' = Append(history, [event_type |-> "invoke", id |-> id, op |-> op])
        /\ UNCHANGED <<stdout, accepted, store, done>>
        /\ stdin' = stdin \/ stdin' = [stdin EXCEPT ![n] = @ \cup {r}]
    BY DEF send_operation, RunInv, RecordTypeOK
  <1>2. /\ NumberedInv /\ RequestInv /\ EffectInv /\ PipeInv /\ Recorded(history, done)
        /\ WellFormed(history)
        /\ stdin \in [Nodes -> SUBSET Requests]
    BY DEF RunInv, NumberedInv, ClusterTypeOK
  <1>3. id \notin Invoked(history) /\ \A i \in Invoked(history) : i < id
    BY <1>1, <1>2 DEF NumberedInv
  <1>4. r.id = id /\ r.op = op /\ r.node = n
    OBVIOUS
  <1> HIDE DEF r
  <1>5. PICK g : g = history'
    OBVIOUS
  <1> HIDE DEF id
  <1>6. /\ Extends(g, history)
        /\ Invoked(g) = Invoked(history) \cup {id}
        /\ OpOf(g, id) = op
        /\ Len(g) = Len(history) + 1
        /\ \A i \in 1 .. Len(g) : g[i].event_type # "invoke" => i \in 1 .. Len(history)
    <2>1. g = Append(history, [event_type |-> "invoke", id |-> id, op |-> op])
      BY <1>1, <1>5
    <2>2. WellFormed(history) /\ id \in OpIds /\ id \notin Invoked(history)
      BY <1>1, <1>2, <1>3
    <2>3. PICK h, x : h = history /\ x = id
      OBVIOUS
    <2>4. /\ WellFormed(h) /\ x \in OpIds /\ x \notin Invoked(h)
          /\ g = Append(h, [event_type |-> "invoke", id |-> x, op |-> op])
      BY <2>1, <2>2, <2>3
    <2>5. /\ Extends(g, h)
          /\ Invoked(g) = Invoked(h) \cup {x}
          /\ OpOf(g, x) = op
          /\ Len(g) = Len(h) + 1
          /\ \A i \in 1 .. Len(g) : g[i].event_type # "invoke" => i \in 1 .. Len(h)
      <3>1. Extends(g, h) /\ Invoked(g) = Invoked(h) \cup {x}
        BY <2>4, InvocationRecorded
      <3>2. Len(g) = Len(h) + 1
        BY <2>4, InvocationRecorded
      <3>3. OpOf(g, x) = op
        <4>1. h \in Seq(Invocations \cup Responses) /\ WellFormed(g)
          BY <2>4, <3>1 DEF WellFormed, Extends
        <4>2. PICK l \in Nat : l = Len(h)
          BY <4>1
        <4>3. g[l + 1].event_type = "invoke" /\ g[l + 1].id = x /\ g[l + 1].op = op
          BY <2>4, <4>1, <4>2
        <4>4. l + 1 \in DOMAIN g
          BY <3>2, <4>1, <4>2 DEF WellFormed
        <4> QED BY <4>1, <4>3, <4>4, InvokedAt DEF OpOf, IsInvocation
      <3>4. \A i \in 1 .. Len(g) : g[i].event_type # "invoke" => i \in 1 .. Len(h)
        BY <2>4, InvocationRecorded
      <3> QED BY <3>1, <3>2, <3>3, <3>4
    <2> QED BY <2>3, <2>5
  <1>7. WellFormed(g) /\ \A i \in Invoked(g) : i < id + 1
    <2>1. \A i \in Invoked(history) : i < id /\ i \in Nat
      BY <1>2, <1>3, EntryTypes, CheckerAssumption DEF Invoked
    <2> QED BY <1>1, <1>6, <2>1 DEF Extends
  <1>8. NumberedInv'
    BY <1>1, <1>5, <1>7 DEF NumberedInv
  <1>9. \A i \in Invoked(history) : i \in Invoked(g) /\ OpOf(g, i) = OpOf(history, i) /\ i # id
    BY <1>3, <1>6, ExtensionKeeps
  <1>10. \A q : Known(history, q) => Known(g, q) /\ q.id # id
    BY <1>9 DEF Known
  <1>11. Known(g, r) /\ id \notin DoneIds(done)
    BY <1>2, <1>3, <1>4, <1>6 DEF Known, EffectInv
  <1>12. RequestInv'
    <2>1. \A k \in Nodes : \A q \in stdin'[k] : q \in stdin[k] \/ (k = n /\ q = r)
      BY <1>1, <1>2
    <2>2. \A q \in accepted : Known(g, q) /\ q.id # id
      BY <1>2, <1>10 DEF RequestInv
    <2>3. \A k \in Nodes : \A q \in stdin[k] : Known(g, q) /\ q.id # id
      BY <1>2, <1>10 DEF RequestInv
    <2>4. \A k \in Nodes : \A q \in stdin'[k] :
             /\ q.node = k
             /\ Known(g, q)
             /\ q.id \notin DoneIds(done)
             /\ \A p \in accepted : p.id # q.id
      BY <1>2, <1>4, <1>11, <2>1, <2>2, <2>3 DEF RequestInv
    <2>5. \A k, l \in Nodes : \A q \in stdin'[k], p \in stdin'[l] : q.id = p.id => q = p
      BY <1>2, <1>4, <2>1, <2>3 DEF RequestInv
    <2>6. \A q, p \in accepted : q.id = p.id => q = p
      BY <1>2 DEF RequestInv
    <2>7. \A q \in accepted : q.id \notin DoneIds(done)
      BY <1>2 DEF RequestInv
    <2>8. DoneIds(done)' = DoneIds(done) /\ \A q : Known(history, q)' <=> Known(g, q)
      BY <1>1, <1>5 DEF DoneIds, Known
    <2> QED BY <1>1, <2>2, <2>4, <2>5, <2>6, <2>7, <2>8 DEF RequestInv
  <1>13. PipeInv'
    BY <1>1, <1>2 DEF PipeInv
  <1>14. Recorded(g, done)
    <2>1. DOMAIN g = 1 .. Len(g) /\ DOMAIN history = 1 .. Len(history)
      BY <1>2, <1>7 DEF WellFormed
    <2>2. \A i \in 1 .. Len(history) : g[i] = history[i]
      BY <1>6 DEF Extends
    <2> QED BY <1>2, <1>6, <2>1, <2>2 DEF Recorded
  <1>15. DoneIds(done) \subseteq Invoked(g) /\ \E o, t : Effects(g, done, store, o, t)
    BY <1>2, <1>6, EffectsExtend DEF EffectInv
  <1>16. EffectInv' /\ Recorded(history, done)'
    BY <1>1, <1>5, <1>14, <1>15 DEF EffectInv, DoneIds, Recorded
  <1> QED BY <1>8, <1>12, <1>13, <1>16 DEF RunInv


\* A result is an answer to its operation.
LEMMA ResultIsAnswer ==
    ASSUME NEW h, WellFormed(h), NEW dn, DoneIds(dn) \subseteq Invoked(h),
           NEW s, NEW order, NEW st, Effects(h, dn, s, order, st), NEW d \in dn
    PROVE  d.body \in Answers(OpOf(h, d.id))
  <1>1. PICK i \in DOMAIN order : d.body = reply_to(st[i - 1], OpOf(h, d.id))
    BY DEF Effects
  <1>2. st[i - 1] \in Stores
    <2>1. Len(order) \in Nat /\ DOMAIN order = 1 .. Len(order)
      BY DEF Effects
    <2>2. i - 1 \in 0 .. Len(order)
      BY <2>1
    <2> QED BY <2>2 DEF Effects
  <1>3. OpOf(h, d.id) \in KVOp
    <2>1. Extends(h, h)
      BY DEF Extends, WellFormed
    <2>2. d.id \in Invoked(h)
      BY DEF DoneIds
    <2> QED BY <2>1, <2>2, ExtensionKeeps
  <1> QED BY <1>1, <1>2, <1>3, ReplyIsAnswer

LEMMA DrainKeeps ==
    ASSUME RunInv, DrainAndRecord, ClusterTypeOK', RecordTypeOK'
    PROVE  RunInv'
  <1>1. /\ NumberedInv /\ RequestInv /\ EffectInv /\ PipeInv /\ Recorded(history, done)
        /\ WellFormed(history) /\ ClusterTypeOK
    BY DEF RunInv, NumberedInv
  <1>2. UNCHANGED <<next_op_id, stdin, accepted, store, done>> /\ \A n \in Nodes : stdout'[n] = <<>>
    BY DEF DrainAndRecord
  <1>3. PICK rs \in Seq(Responses) :
           /\ history' = history \o rs
           /\ \A j \in DOMAIN rs : \E m \in Undrained(Nodes) :
                 m.dest = Client /\ rs[j] = record_response(m.id, m.body)
    BY <1>1, DrainedResponses
  <1>4. \A m \in Undrained(Nodes) : m.dest = Client =>
           \E d \in done : d.id = m.id /\ d.body = m.body
    <2>1. ASSUME NEW m \in Undrained(Nodes), m.dest = Client
          PROVE  \E d \in done : d.id = m.id /\ d.body = m.body
      <3>1. PICK n \in Nodes : m \in ToSet(stdout[n])
        BY DEF Undrained
      <3>2. PICK i \in DOMAIN stdout[n] : m = stdout[n][i]
        BY <3>1 DEF ToSet
      <3> QED BY <1>1, <2>1, <3>2 DEF PipeInv
    <2> QED BY <2>1
  <1>5. \A j \in DOMAIN rs : \E d \in done : rs[j] = record_response(d.id, d.body)
    BY <1>3, <1>4
  <1>6. PICK order, st : Effects(history, done, store, order, st)
    BY <1>1 DEF EffectInv
  <1>7. DoneIds(done) \subseteq Invoked(history)
    BY <1>1 DEF EffectInv
  <1>8. ASSUME NEW j \in DOMAIN rs
        PROVE  /\ rs[j].event_type # "invoke"
               /\ rs[j].id \in Invoked(history)
               /\ IsAnswerTo(rs[j], OpOf(history, rs[j].id))
    <2>1. PICK d \in done : rs[j] = record_response(d.id, d.body)
      BY <1>5
    <2>2. rs[j].id = d.id /\ rs[j].event_type # "invoke"
      BY <2>1 DEF record_response
    <2>3. d.id \in Invoked(history)
      BY <1>7 DEF DoneIds
    <2>4. d.body \in Answers(OpOf(history, d.id))
      BY <1>1, <1>6, <1>7, ResultIsAnswer
    <2> QED BY <2>1, <2>2, <2>3, <2>4 DEF IsAnswerTo
  <1>9. PICK g : g = history'
    OBVIOUS
  <1>10. /\ Extends(g, history)
         /\ Invoked(g) = Invoked(history)
         /\ \A i \in DOMAIN g : i \in DOMAIN history \/ \E j \in DOMAIN rs : g[i] = rs[j]
    <2>1. g = history \o rs
      BY <1>3, <1>9
    <2>2. Extends(g, history) /\ Invoked(g) = Invoked(history)
      BY <1>1, <1>8, <2>1, ResponsesRecorded
    <2>3. \A i \in DOMAIN g : i \in DOMAIN history \/ \E j \in DOMAIN rs : g[i] = rs[j]
      BY <1>1, <1>8, <2>1, ResponsesRecorded
    <2> QED BY <2>2, <2>3
  <1>11. NumberedInv'
    <2>1. WellFormed(g)
      BY <1>10 DEF Extends
    <2> QED BY <1>1, <1>2, <1>9, <1>10, <2>1 DEF NumberedInv
  <1>12. Effects(g, done, store, order, st)
    BY <1>6, <1>7, <1>10, EffectsExtend
  <1>13. EffectInv'
    BY <1>2, <1>7, <1>9, <1>10, <1>12 DEF EffectInv, DoneIds
  <1>14. \A q : Known(history, q) => Known(g, q)
    BY <1>10, ExtensionKeeps DEF Known
  <1>15. RequestInv'
    <2>1. DoneIds(done)' = DoneIds(done) /\ \A q : Known(history, q)' <=> Known(g, q)
      BY <1>2, <1>9 DEF DoneIds, Known
    <2> QED BY <1>1, <1>2, <1>14, <2>1 DEF RequestInv
  <1>16. Recorded(g, done)
    <2>1. DOMAIN history = 1 .. Len(history) /\ \A i \in 1 .. Len(history) : g[i] = history[i]
      BY <1>1, <1>10 DEF Extends, WellFormed
    <2> QED BY <1>1, <1>5, <1>10, <2>1 DEF Recorded
  <1>17. Recorded(history, done)'
    BY <1>2, <1>9, <1>16 DEF Recorded
  <1>18. PipeInv'
    BY <1>2, QuietPipes
  <1> QED BY <1>11, <1>13, <1>15, <1>17, <1>18 DEF RunInv

LEMMA RunNext ==
    ASSUME RunInv, [Next]_vars
    PROVE  RunInv'
  <1>1. ClusterTypeOK' /\ RecordTypeOK'
    BY ClusterTypeNext, RecordTypeNext DEF RunInv
  <1>2. stdin \in [Nodes -> SUBSET Requests] /\ stdout \in [Nodes -> Seq(Output)]
    BY DEF RunInv, ClusterTypeOK
  <1>3. CASE DrainAndRecord
    BY <1>1, <1>3, DrainKeeps
  <1>4. CASE \E n \in Nodes, op \in KVOp : send_operation(n, op)
    BY <1>1, <1>4, SendKeeps
  <1>5. CASE GenerateDone \/ TestOver \/ UNCHANGED vars
    <2>1. UNCHANGED <<history, next_op_id, done, store, stdin, stdout, accepted>>
      BY <1>5 DEF GenerateDone, TestOver, vars, harnessVars, clusterVars
    <2> QED BY <1>1, <2>1, QuietStep, QuietRequests, QuietPipes
  <1>6. CASE RunNemesis
    <2>1. /\ UNCHANGED <<history, next_op_id, done, store, accepted>>
          /\ \A n \in Nodes : stdin'[n] \subseteq stdin[n]
          /\ \A n \in Nodes : stdout'[n] = stdout[n] \/ stdout'[n] = <<>>
      BY <1>2, <1>6 DEF RunNemesis
    <2> QED BY <1>1, <2>1, QuietStep, QuietRequests, QuietPipes
  <1>7. CASE route_messages
    <2>1. /\ UNCHANGED <<history, next_op_id, done, store, accepted, stdin>>
          /\ \A n \in Nodes : stdout'[n] = stdout[n] \/ stdout'[n] = <<>>
      BY <1>2, <1>7 DEF route_messages
    <2> QED BY <1>1, <2>1, QuietStep, QuietRequests, QuietPipes
  <1>8. CASE \E n \in Nodes : ReadStdin(n)
    BY <1>1, <1>8, ReadKeeps
  <1>9. CASE \E r \in accepted : TakeEffect(r)
    BY <1>1, <1>9, TakeEffectKeeps
  <1>10. ASSUME NEW d \in done, Answer(d)
         PROVE  RunInv'
    <2> DEFINE m == [src |-> d.node, dest |-> Client, id |-> d.id, body |-> d.body]
    <2>1. /\ UNCHANGED <<history, next_op_id, done, store, accepted, stdin>>
          /\ stdout' = [stdout EXCEPT ![d.node] = Append(@, m)]
      BY <1>10 DEF Answer, harnessVars
    <2>2. d.node \in Nodes
      BY DEF RunInv, ClusterTypeOK, Results
    <2>3. \E e \in done : e.id = m.id /\ e.body = m.body
      OBVIOUS
    <2> HIDE DEF m
    <2>4. PipeInv'
      BY <1>1, <2>1, <2>2, <2>3, WrittenPipes
    <2> QED BY <1>1, <2>1, <2>4, QuietStep, QuietRequests
  <1>11. ASSUME NEW n \in Nodes, NEW k \in Nodes \ {n}, Message(n, k)
         PROVE  RunInv'
    <2> DEFINE m == [src |-> n, dest |-> k]
    <2>1. /\ UNCHANGED <<history, next_op_id, done, store, accepted, stdin>>
          /\ stdout' = [stdout EXCEPT ![n] = Append(@, m)]
      BY <1>11 DEF Message, harnessVars
    <2>2. m.dest # Client
      BY NetworkAssumption DEF Client, Nodes
    <2> HIDE DEF m
    <2>3. PipeInv'
      BY <1>1, <2>1, <2>2, WrittenPipes
    <2> QED BY <1>1, <2>1, <2>3, QuietStep, QuietRequests
  <1> QED BY <1>3, <1>4, <1>5, <1>6, <1>7, <1>8, <1>9, <1>10, <1>11 DEF Next, Harness

\* The history that record_response and send_operation write of nodes that
\* together are one atomic store is linearizable at every moment, whatever the
\* nemesis does, however late and however often answers are drained.
THEOREM RecordedIsLinearizable == Spec => []Linearizable(history)
  <1>1. RunInv => Linearizable(history)
    BY EffectsAreLinearizable DEF RunInv, NumberedInv, EffectInv
  <1> QED BY <1>1, RunInit, RunNext, PTL DEF Spec

\* A linearizable cluster is not reported as faulty when every operation was
\* answered: check_linearizability passes, for any number of nodes, operations,
\* keys and values, any faults and any order of the answers.
THEOREM AnsweredRunsPass == Spec => []AnsweredRunPasses
  <1>1. RunInv => AnsweredRunPasses
    BY EffectsAreLinearizable, LinearizablePasses
       DEF RunInv, NumberedInv, EffectInv, AnsweredRunPasses
  <1> QED BY <1>1, RunInit, RunNext, PTL DEF Spec

==============================================================================
