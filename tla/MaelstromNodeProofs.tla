------------------------- MODULE MaelstromNodeProofs -------------------------
(***************************************************************************)
(* Proofs that the cluster of MaelstromNode keeps its invariants, for any  *)
(* number of nodes, operations, keys and values, and any faults; that its  *)
(* answers together with its log are a run of one atomic store as long as  *)
(* no decided entry is forgotten; and that none is while no process is     *)
(* killed.                                                                 *)
(***************************************************************************)
EXTENDS MaelstromNode, FiniteSetTheorems, TLAPS

------------------------------------------------------------------------------
(* The key-value state machine.                                             *)

\* A body's key is read as a string key, so the log only holds KVOps.
LEMMA ParseType ==
    ASSUME NEW body \in Bodies
    PROVE  parse_op(body) \in KVOp
  <1> DEFINE K == Keys \cup NonStringKeys
  <1>0. key_as_str(body.key) \in Keys
    BY StoreAssumption DEF key_as_str
  <1>1. CASE body \in [type : {"read"}, key : K]
    BY <1>0, <1>1 DEF parse_op, KVOp, OpsOver
  <1>2. CASE body \in [type : {"write"}, key : K, value : Values]
    BY <1>0, <1>2 DEF parse_op, KVOp, OpsOver
  <1>3. CASE body \in [type : {"cas"}, key : K, from : Values, to : Values]
    BY <1>0, <1>3 DEF parse_op, KVOp, OpsOver
  <1> QED BY <1>1, <1>2, <1>3 DEF Bodies, OpsOver

\* Applying an operation to a store gives a store.
LEMMA ApplyType ==
    ASSUME NEW store \in Stores, NEW op \in KVOp
    PROVE  apply_op(store, op) \in Stores
  <1>1. CASE op \in [type : {"read"}, key : Keys]
    BY <1>1 DEF apply_op, Stores
  <1>2. CASE op \in [type : {"write"}, key : Keys, value : Values]
    BY <1>2 DEF apply_op, Stores
  <1>3. CASE op \in [type : {"cas"}, key : Keys, from : Values, to : Values]
    BY <1>3 DEF apply_op, Stores
  <1> QED BY <1>1, <1>2, <1>3 DEF KVOp, OpsOver

\* The answer to an operation is one of the bodies the protocol has.
LEMMA ReplyType ==
    ASSUME NEW store \in Stores, NEW op \in KVOp
    PROVE  reply_to(store, op) \in ReplyBodies
  <1>1. CASE op \in [type : {"read"}, key : Keys]
    BY <1>1 DEF reply_to, Stores, ReplyBodies, Ok, Error
  <1>2. CASE op \in [type : {"write"}, key : Keys, value : Values]
    BY <1>2 DEF reply_to, Stores, ReplyBodies, Ok, Error
  <1>3. CASE op \in [type : {"cas"}, key : Keys, from : Values, to : Values]
    BY <1>3 DEF reply_to, Stores, ReplyBodies, Ok, Error
  <1> QED BY <1>1, <1>2, <1>3 DEF KVOp, OpsOver

LEMMA EmptyStoreType == EmptyStore \in Stores
  BY DEF EmptyStore, Stores

------------------------------------------------------------------------------
(* Type correctness.                                                        *)

\* Commands move to OmniPaxos (ok), to a forward message (sent) or to
\* pending_forwards (held).
Moved(n, rest, kept, ok, sent, held, dest) ==
    /\ ok \cap sent = {}
    /\ ok \cap held = {}
    /\ sent \cap held = {}
    /\ proposed' = proposed \cup ok
    /\ forwards' = rest \cup {[dest |-> dest, cmd |-> c] : c \in sent}
    /\ pending_forwards' = [pending_forwards EXCEPT ![n] = kept \cup held]

\* try_append gives every command exactly one new home: OmniPaxos, a
\* forward message to another node, or pending_forwards.
LEMMA TryAppendMoves ==
    ASSUME TypeOK, NEW n \in Nodes, NEW cmds \in SUBSET Commands,
           NEW rest, NEW kept, try_append(n, cmds, rest, kept)
    PROVE  \E ok, sent, held \in SUBSET cmds, dest \in Nodes :
              Moved(n, rest, kept, ok, sent, held, dest)
  <1>1. PICK ok \in SUBSET cmds, leader \in LeaderViews :
            LET rejected == cmds \ ok
                dest == op_to_maelstrom_id(leader)
                forwarded == leader # NoLeader /\ dest # n
            IN  /\ proposed' = proposed \cup ok
                /\ forwards' = rest \cup
                       {[dest |-> dest, cmd |-> c] :
                           c \in IF forwarded THEN rejected ELSE {}}
                /\ pending_forwards' = [pending_forwards EXCEPT ![n] =
                       kept \cup IF forwarded THEN {} ELSE rejected]
    BY DEF try_append
  <1> DEFINE dest == op_to_maelstrom_id(leader)
             forwarded == leader # NoLeader /\ dest # n
  <1>2. CASE forwarded
    <2>1. dest \in Nodes
      BY <1>2, ClusterAssumption
         DEF LeaderViews, maelstrom_to_op_id, op_to_maelstrom_id
    <2> HIDE DEF dest
    <2>2. /\ proposed' = proposed \cup ok
          /\ forwards' = rest \cup {[dest |-> dest, cmd |-> c] : c \in cmds \ ok}
          /\ pending_forwards' = [pending_forwards EXCEPT ![n] = kept \cup {}]
      BY <1>1, <1>2 DEF dest
    <2> WITNESS ok \in SUBSET cmds, cmds \ ok \in SUBSET cmds,
                {} \in SUBSET cmds, dest \in Nodes
    <2> QED BY <2>2 DEF Moved
  <1>3. CASE ~forwarded
    <2>1. /\ proposed' = proposed \cup ok
          /\ forwards' = rest \cup {[dest |-> n, cmd |-> c] : c \in {}}
          /\ pending_forwards' =
                [pending_forwards EXCEPT ![n] = kept \cup (cmds \ ok)]
      BY <1>1, <1>3
    <2> WITNESS ok \in SUBSET cmds, {} \in SUBSET cmds,
                cmds \ ok \in SUBSET cmds, n \in Nodes
    <2> QED BY <2>1 DEF Moved
  <1> QED BY <1>2, <1>3

LEMMA TryAppendType ==
    ASSUME TypeOK, NEW n \in Nodes, NEW cmds \in SUBSET Commands,
           NEW rest \in SUBSET Forwards, NEW kept \in SUBSET Commands,
           try_append(n, cmds, rest, kept)
    PROVE  /\ proposed' \subseteq Commands
           /\ forwards' \subseteq Forwards
           /\ pending_forwards' \in [Nodes -> SUBSET Commands]
  <1>1. PICK ok, sent, held \in SUBSET cmds, dest \in Nodes :
              Moved(n, rest, kept, ok, sent, held, dest)
    BY TryAppendMoves
  <1> QED BY <1>1 DEF TypeOK, Forwards, Moved

LEMMA ProcessDecidedType ==
    ASSUME TypeOK, NEW n \in Nodes, stored' \in [Nodes -> 0 .. Len(log)],
           process_decided_entries(n)
    PROVE  /\ decided_idx' \in [Nodes -> Nat]
           /\ decided_entries' \in [Nodes -> Seq(Commands)]
  <1>0. /\ decided_idx[n] \in Nat
        /\ log \in Seq(Commands)
        /\ Len(log) \in Nat
    BY DEF TypeOK
  <1>1. PICK new \in 0 .. stored'[n] :
            IF new > decided_idx[n]
            THEN /\ decided_idx' = [decided_idx EXCEPT ![n] = new]
                 /\ decided_entries' = [decided_entries EXCEPT ![n] =
                        SubSeq(log, decided_idx[n] + 1, new)]
            ELSE UNCHANGED <<decided_idx, decided_entries>>
    BY DEF process_decided_entries
  <1>2. new \in 0 .. Len(log)
    BY <1>0
  <1>3. CASE new > decided_idx[n]
    <2>1. SubSeq(log, decided_idx[n] + 1, new) \in Seq(Commands)
      BY <1>0, <1>2, <1>3
    <2>2. /\ decided_idx' = [decided_idx EXCEPT ![n] = new]
          /\ decided_entries' = [decided_entries EXCEPT ![n] =
                 SubSeq(log, decided_idx[n] + 1, new)]
          /\ new \in Nat
      BY <1>0, <1>1, <1>2, <1>3
    <2>3. decided_idx' \in [Nodes -> Nat]
      BY <2>2 DEF TypeOK
    <2>4. decided_entries' \in [Nodes -> Seq(Commands)]
      <3>1. decided_entries \in [Nodes -> Seq(Commands)]
        BY DEF TypeOK
      <3> DEFINE batch == SubSeq(log, decided_idx[n] + 1, new)
      <3>2. batch \in Seq(Commands)
        BY <2>1
      <3>3. decided_entries' = [decided_entries EXCEPT ![n] = batch]
        BY <2>2
      <3> HIDE DEF batch
      <3> QED BY <3>1, <3>2, <3>3
    <2> QED BY <2>3, <2>4
  <1>4. CASE ~(new > decided_idx[n])
    BY <1>1, <1>4 DEF TypeOK
  <1> QED BY <1>3, <1>4

\* What process_decided_entries reads of the log, at the end of a handler.
LEMMA ProcessDecided ==
    ASSUME TypeOK, NEW n \in Nodes, stored' \in [Nodes -> 0 .. Len(log)],
           Ready(n), decided_idx[n] <= Len(log), process_decided_entries(n)
    PROVE  \E new \in decided_idx[n] .. Len(log) :
              /\ decided_idx' = [decided_idx EXCEPT ![n] = new]
              /\ \A m \in Nodes \ {n} :
                    decided_entries'[m] = decided_entries[m]
              /\ Len(decided_entries'[n]) = new - decided_idx[n]
              /\ \A j \in 1 .. (new - decided_idx[n]) :
                    decided_entries'[n][j] = log[decided_idx[n] + j]
  <1>0. /\ decided_idx[n] \in Nat
        /\ log \in Seq(Commands)
        /\ Len(log) \in Nat
        /\ decided_entries[n] = <<>>
    BY DEF TypeOK, Ready
  <1>1. PICK new \in 0 .. stored'[n] :
            IF new > decided_idx[n]
            THEN /\ decided_idx' = [decided_idx EXCEPT ![n] = new]
                 /\ decided_entries' = [decided_entries EXCEPT ![n] =
                        SubSeq(log, decided_idx[n] + 1, new)]
            ELSE UNCHANGED <<decided_idx, decided_entries>>
    BY DEF process_decided_entries
  <1>2. new \in 0 .. Len(log)
    BY <1>0
  <1>3. CASE new > decided_idx[n]
    <2>1. new \in decided_idx[n] .. Len(log)
      BY <1>0, <1>2, <1>3
    <2>2. Len(SubSeq(log, decided_idx[n] + 1, new)) = new - decided_idx[n]
      BY ONLY <1>0, <2>1
    <2>3. ASSUME NEW j \in 1 .. (new - decided_idx[n])
          PROVE  SubSeq(log, decided_idx[n] + 1, new)[j] = log[decided_idx[n] + j]
      BY ONLY <1>0, <2>1, <2>3
    <2> QED BY <1>1, <1>3, <2>1, <2>2, <2>3 DEF TypeOK
  <1>4. CASE ~(new > decided_idx[n])
    <2>1. decided_idx[n] \in decided_idx[n] .. Len(log)
      BY <1>0
    <2>2. /\ decided_idx' = [decided_idx EXCEPT ![n] = decided_idx[n]]
          /\ decided_entries' = decided_entries
      BY <1>1, <1>4 DEF TypeOK
    <2>3. Len(decided_entries'[n]) = decided_idx[n] - decided_idx[n]
      BY <1>0, <2>2
    <2>4. 1 .. (decided_idx[n] - decided_idx[n]) = {}
      BY <1>0
    <2> QED BY <2>1, <2>2, <2>3, <2>4
  <1> QED BY <1>3, <1>4

LEMMA TypeInit == Init => TypeOK
  <1> SUFFICES ASSUME Init PROVE TypeOK
    OBVIOUS
  <1>1. /\ Len(log) = 0
        /\ Len(states) = 1
        /\ states \in Seq(Stores)
        /\ log \in Seq(Commands)
    BY EmptyStoreType DEF Init
  <1>2. stored \in [Nodes -> 0 .. Len(log)]
    BY <1>1 DEF Init
  <1>3. /\ alive \in [Nodes -> BOOLEAN]
        /\ kv_store \in [Nodes -> Stores]
        /\ decided_idx \in [Nodes -> Nat]
        /\ decided_entries \in [Nodes -> Seq(Commands)]
        /\ pending_forwards \in [Nodes -> SUBSET Commands]
        /\ replies \in [Ids -> Seq(Replies)]
        /\ restarts \in [Nodes -> Nat]
    BY EmptyStoreType DEF Init
  <1>4. /\ requests = {} /\ forwards = {} /\ proposed = {} /\ invoked = {}
        /\ forgotten = FALSE /\ dropped = FALSE
    BY DEF Init
  <1>5. Len(states) = Len(log) + 1
    BY <1>1
  <1> QED BY <1>1, <1>2, <1>3, <1>4, <1>5 DEF TypeOK

\* A message of the protocol gives a node no more than the decided log.
LEMMA MessageStored ==
    ASSUME TypeOK, NEW n \in Nodes, handle_omnipaxos_message(n)
    PROVE  stored' \in [Nodes -> 0 .. Len(log)]
  <1>1. PICK m \in Nodes : \E idx \in stored[n] .. stored[m] :
            stored' = [stored EXCEPT ![n] = idx]
    BY DEF handle_omnipaxos_message
  <1>2. PICK idx \in stored[n] .. stored[m] : stored' = [stored EXCEPT ![n] = idx]
    BY <1>1
  <1>3. idx \in 0 .. Len(log)
    BY <1>2 DEF TypeOK
  <1> QED BY <1>2, <1>3 DEF TypeOK

\* Each handler of a node keeps the types.
LEMMA TypeStep ==
    ASSUME TypeOK, NEW n \in Nodes, Step(n)
    PROVE  TypeOK'
  <1>0. stored \in [Nodes -> 0 .. Len(log)]
    BY DEF TypeOK
  <1>1. CASE handle_client_request(n)
    <2>1. PICK r \in requests :
            /\ r.dest = n
            /\ requests' = requests \ {r}
            /\ try_append(n, {command(n, r)}, forwards, pending_forwards[n])
            /\ process_decided_entries(n)
            /\ UNCHANGED <<alive, kv_store, replies, logVars, invoked, dropped,
                           restarts>>
      BY <1>1 DEF handle_client_request
    <2>2. command(n, r) \in Commands
      BY <2>1, ParseType DEF TypeOK, Requests, Commands, command
    <2>3. /\ proposed' \subseteq Commands
          /\ forwards' \subseteq Forwards
          /\ pending_forwards' \in [Nodes -> SUBSET Commands]
      <3>1. /\ {command(n, r)} \in SUBSET Commands
            /\ forwards \in SUBSET Forwards
            /\ pending_forwards[n] \in SUBSET Commands
        BY <2>2 DEF TypeOK
      <3> QED BY <2>1, <3>1, TryAppendType
    <2>4. /\ decided_idx' \in [Nodes -> Nat]
          /\ decided_entries' \in [Nodes -> Seq(Commands)]
      BY <1>0, <2>1, ProcessDecidedType DEF logVars
    <2> QED BY <2>1, <2>3, <2>4 DEF TypeOK, logVars
  <1>2. CASE handle_forwarded_request(n)
    <2>1. PICK f \in forwards :
            /\ try_append(n, {f.cmd}, forwards \ {f}, pending_forwards[n])
            /\ process_decided_entries(n)
            /\ UNCHANGED <<requests, alive, kv_store, replies, logVars, invoked,
                           dropped, restarts>>
      BY <1>2 DEF handle_forwarded_request
    <2>2. /\ proposed' \subseteq Commands
          /\ forwards' \subseteq Forwards
          /\ pending_forwards' \in [Nodes -> SUBSET Commands]
      <3>1. /\ {f.cmd} \in SUBSET Commands
            /\ forwards \ {f} \in SUBSET Forwards
            /\ pending_forwards[n] \in SUBSET Commands
        BY DEF TypeOK, Forwards
      <3> QED BY <2>1, <3>1, TryAppendType
    <2>3. /\ decided_idx' \in [Nodes -> Nat]
          /\ decided_entries' \in [Nodes -> Seq(Commands)]
      BY <1>0, <2>1, ProcessDecidedType DEF logVars
    <2> QED BY <2>1, <2>2, <2>3 DEF TypeOK, logVars
  <1>3. CASE handle_omnipaxos_message(n)
    <2>1. /\ process_decided_entries(n)
          /\ UNCHANGED <<requests, forwards, alive, kv_store, pending_forwards,
                         replies, proposed, log, states, forgotten, invoked,
                         dropped, restarts>>
      BY <1>3 DEF handle_omnipaxos_message
    <2>2. stored' \in [Nodes -> 0 .. Len(log)]
      BY <1>3, MessageStored
    <2>3. /\ decided_idx' \in [Nodes -> Nat]
          /\ decided_entries' \in [Nodes -> Seq(Commands)]
      BY <2>1, <2>2, ProcessDecidedType
    <2> QED BY <2>1, <2>2, <2>3 DEF TypeOK
  <1>4. CASE tick(n)
    <2>1. /\ try_append(n, pending_forwards[n], forwards, {})
          /\ process_decided_entries(n)
          /\ UNCHANGED <<requests, alive, kv_store, replies, logVars, invoked,
                         dropped, restarts>>
      BY <1>4 DEF tick
    <2>2. /\ proposed' \subseteq Commands
          /\ forwards' \subseteq Forwards
          /\ pending_forwards' \in [Nodes -> SUBSET Commands]
      <3>1. /\ pending_forwards[n] \in SUBSET Commands
            /\ forwards \in SUBSET Forwards
            /\ {} \in SUBSET Commands
        BY DEF TypeOK
      <3> QED BY <2>1, <3>1, TryAppendType
    <2>3. /\ decided_idx' \in [Nodes -> Nat]
          /\ decided_entries' \in [Nodes -> Seq(Commands)]
      BY <1>0, <2>1, ProcessDecidedType DEF logVars
    <2> QED BY <2>1, <2>2, <2>3 DEF TypeOK, logVars
  <1>5. CASE apply_and_respond(n)
    <2> DEFINE cmd == Head(decided_entries[n])
               answer == [src |-> n, body |-> reply_to(kv_store[n], cmd.op)]
    <2>1. /\ cmd \in Commands
          /\ Tail(decided_entries[n]) \in Seq(Commands)
      BY <1>5 DEF apply_and_respond, TypeOK
    <2>2. /\ apply_op(kv_store[n], cmd.op) \in Stores
          /\ answer \in Replies
      BY <2>1, ApplyType, ReplyType DEF TypeOK, Commands, Replies
    <2>3. /\ kv_store' = [kv_store EXCEPT ![n] = apply_op(@, cmd.op)]
          /\ replies' = IF cmd.coordinator = n
                        THEN [replies EXCEPT ![cmd.id] = Append(@, answer)]
                        ELSE replies
          /\ decided_entries' = [decided_entries EXCEPT ![n] = Tail(@)]
          /\ UNCHANGED <<requests, forwards, alive, decided_idx,
                         pending_forwards, libVars, invoked, dropped, restarts>>
      BY <1>5 DEF apply_and_respond
    <2> HIDE DEF cmd, answer
    <2>4. kv_store' \in [Nodes -> Stores]
      BY <2>2, <2>3 DEF TypeOK
    <2>5. replies' \in [Ids -> Seq(Replies)]
      <3>1. /\ replies \in [Ids -> Seq(Replies)]
            /\ cmd.id \in Ids
            /\ Append(replies[cmd.id], answer) \in Seq(Replies)
        BY <2>1, <2>2 DEF TypeOK, Commands
      <3> QED BY <2>3, <3>1
    <2> QED BY <2>1, <2>3, <2>4, <2>5 DEF TypeOK, libVars, logVars
  <1>6. CASE Kill(n)
    BY <1>6 DEF Kill, TypeOK, nodeVars, libVars, logVars
  <1>7. CASE Restart(n)
    <2>1. 0 \in 0 .. Len(log)
      BY DEF TypeOK
    <2>2. stored' \in [Nodes -> 0 .. Len(log)]
      BY <1>0, <1>7, <2>1 DEF Restart
    <2> QED BY <1>7, <2>2, EmptyStoreType DEF Restart, TypeOK
  <1> QED BY <1>1, <1>2, <1>3, <1>4, <1>5, <1>6, <1>7 DEF Step

\* What Forget leaves: the first len entries of the log and their replay.
LEMMA ForgetCuts ==
    ASSUME TypeOK, NEW Q \in Majorities, Forget(Q)
    PROVE  \E len \in 0 .. Len(log) :
              /\ log' = SubSeq(log, 1, len)
              /\ states' = SubSeq(states, 1, len + 1)
              /\ stored' \in [Nodes -> 0 .. len]
              /\ log' \in Seq(Commands)
              /\ Len(log') = len
              /\ \A i \in 1 .. len : log'[i] = log[i]
  <1>1. PICK m \in Q : /\ log' = SubSeq(log, 1, stored[m])
                       /\ states' = SubSeq(states, 1, stored[m] + 1)
                       /\ stored' = [o \in Nodes |-> IF stored[o] > stored[m]
                                                     THEN stored[m] ELSE stored[o]]
    BY DEF Forget
  <1>2. /\ stored[m] \in 0 .. Len(log)
        /\ \A o \in Nodes : stored[o] \in 0 .. Len(log)
        /\ log \in Seq(Commands)
        /\ Len(log) \in Nat
    BY <1>1 DEF TypeOK, Majorities
  <1>3. stored' \in [Nodes -> 0 .. stored[m]]
    BY <1>1, <1>2
  <1>4. /\ SubSeq(log, 1, stored[m]) \in Seq(Commands)
        /\ Len(SubSeq(log, 1, stored[m])) = stored[m]
        /\ \A i \in 1 .. stored[m] : SubSeq(log, 1, stored[m])[i] = log[i]
    BY <1>2
  <1> QED BY <1>1, <1>2, <1>3, <1>4

LEMMA TypeNext ==
    ASSUME TypeOK, [Next]_vars
    PROVE  TypeOK'
  <1>1. CASE \E r \in Requests : ClientSend(r)
    BY <1>1 DEF ClientSend, TypeOK, nodeVars, libVars, logVars
  <1>2. CASE \E r \in requests : LoseRequest(r)
    BY <1>2 DEF LoseRequest, TypeOK, nodeVars, libVars, logVars
  <1>3. CASE \E f \in forwards : LoseForward(f)
    BY <1>3 DEF LoseForward, TypeOK, nodeVars, libVars, logVars
  <1>4. CASE UNCHANGED vars
    BY <1>4 DEF vars, TypeOK, nodeVars, libVars, logVars
  <1>5. ASSUME NEW c \in proposed, NEW Q \in Majorities, Decide(c, Q)
        PROVE  TypeOK'
    <2>0. /\ log \in Seq(Commands)
          /\ Len(log) \in Nat
          /\ states \in Seq(Stores)
          /\ Len(states) = Len(log) + 1
          /\ stored \in [Nodes -> 0 .. Len(log)]
      BY DEF TypeOK
    <2>1. /\ c \in Commands
          /\ states[Len(states)] \in Stores
      BY <2>0 DEF TypeOK
    <2>2. apply_op(states[Len(states)], c.op) \in Stores
      BY <2>1, ApplyType DEF Commands
    <2>3. /\ log' \in Seq(Commands)
          /\ Len(log') = Len(log) + 1
          /\ proposed' \subseteq Commands
      BY <1>5, <2>0, <2>1 DEF Decide, TypeOK
    <2>4. /\ states' \in Seq(Stores)
          /\ Len(states') = Len(states) + 1
      BY <1>5, <2>0, <2>2 DEF Decide
    <2>5. Len(states') = Len(log') + 1
      BY <2>0, <2>3, <2>4
    <2>6. stored' \in [Nodes -> 0 .. Len(log')]
      <3>1. /\ Len(log) + 1 \in 0 .. (Len(log) + 1)
            /\ \A m \in Nodes : stored[m] \in 0 .. (Len(log) + 1)
        BY <2>0
      <3>2. stored' = [m \in Nodes |-> IF m \in Q THEN Len(log) + 1 ELSE stored[m]]
        BY <1>5 DEF Decide
      <3> QED BY <2>3, <3>1, <3>2
    <2> QED BY <1>5, <2>3, <2>4, <2>5, <2>6 DEF Decide, TypeOK, nodeVars
  <1>6. ASSUME NEW Q \in Majorities, Forget(Q)
        PROVE  TypeOK'
    <2>1. PICK len \in 0 .. Len(log) :
              /\ states' = SubSeq(states, 1, len + 1)
              /\ stored' \in [Nodes -> 0 .. len]
              /\ log' \in Seq(Commands)
              /\ Len(log') = len
      BY <1>6, ForgetCuts
    <2>2. /\ states \in Seq(Stores)
          /\ Len(states) = Len(log) + 1
          /\ Len(log) \in Nat
      BY DEF TypeOK
    <2>3. len + 1 \in 1 .. Len(states)
      BY <2>1, <2>2
    <2>4. states' \in Seq(Stores) /\ Len(states') = len + 1
      BY <2>1, <2>2, <2>3
    <2> QED BY <1>6, <2>1, <2>4 DEF Forget, TypeOK, nodeVars
  <1>7. CASE \E n \in Nodes : Step(n)
    BY <1>7, TypeStep
  <1> QED BY <1>1, <1>2, <1>3, <1>4, <1>5, <1>6, <1>7 DEF Next

\* Type correctness: every reachable state of the cluster is well typed; in
\* particular the log only ever holds commands with string keys.
THEOREM TypeCorrect == Spec => []TypeOK
  <1>1. TypeOK /\ [Next]_vars => TypeOK'
    BY TypeNext
  <1> QED BY TypeInit, <1>1, PTL DEF Spec

------------------------------------------------------------------------------
(* Every replica is a replay of the prefix of the log it has applied.  The  *)
(* invariant is inductive only together with what the entries still to be  *)
(* applied are: the next entries of the log.                               *)

\* states is the replay of the log from the empty store.
LogInv ==
    /\ Len(states) = Len(log) + 1
    /\ states[1] = EmptyStore
    /\ \A i \in 1 .. Len(log) : states[i + 1] = apply_op(states[i], log[i].op)

\* decided_entries is the part of the log between what is applied and
\* decided_idx.
BatchInv ==
    \A n \in Nodes :
        /\ decided_idx[n] \in 0 .. Len(log)
        /\ Len(decided_entries[n]) <= decided_idx[n]
        /\ \A j \in 1 .. Len(decided_entries[n]) :
              decided_entries[n][j] = log[Applied(n) + j]

\* What ReplicaAgreement says as long as no decided entry is forgotten.
Replayed ==
    \A n \in Nodes :
        /\ Applied(n) \in 0 .. Len(log)
        /\ kv_store[n] = states[Applied(n) + 1]

ReplicaInv == TypeOK /\ LogInv /\ BatchInv /\ Replayed

\* What is forgotten stays forgotten.
LEMMA NotForgotten ==
    ASSUME [Next]_vars, ~forgotten'
    PROVE  /\ ~forgotten
           /\ \A Q \in Majorities : ~Forget(Q)
  <1>1. \A Q \in Majorities : ~Forget(Q)
    BY DEF Forget
  <1>2. ASSUME NEW n \in Nodes, Step(n)
        PROVE  UNCHANGED forgotten
    <2>1. CASE \/ handle_client_request(n)
               \/ handle_forwarded_request(n)
               \/ tick(n)
      BY <2>1 DEF handle_client_request, handle_forwarded_request, tick, logVars
    <2>2. CASE handle_omnipaxos_message(n)
      BY <2>2 DEF handle_omnipaxos_message
    <2>3. CASE apply_and_respond(n)
      BY <2>3 DEF apply_and_respond, libVars, logVars
    <2>4. CASE Kill(n) \/ Restart(n)
      BY <2>4 DEF Kill, Restart, libVars, logVars
    <2> QED BY <1>2, <2>1, <2>2, <2>3, <2>4 DEF Step
  <1>3. CASE ~(\E n \in Nodes : Step(n))
    BY <1>1, <1>3 DEF Next, ClientSend, LoseRequest, LoseForward, Decide, libVars,
                      logVars, vars
  <1> QED BY <1>1, <1>2, <1>3

LEMMA ReplicaInit == Init => ReplicaInv
  <1> SUFFICES ASSUME Init PROVE ReplicaInv
    OBVIOUS
  <1>1. TypeOK
    BY TypeInit
  <1>2. LogInv
    BY DEF Init, LogInv
  <1>3. BatchInv /\ Replayed
    BY DEF Init, BatchInv, Replayed, Applied
  <1> QED BY <1>1, <1>2, <1>3 DEF ReplicaInv

\* A handler that ends in process_decided_entries reads the entries that
\* follow the applied ones.
LEMMA ReplicaProcess ==
    ASSUME ReplicaInv, TypeOK', NEW n \in Nodes, Ready(n),
           stored' \in [Nodes -> 0 .. Len(log)],
           process_decided_entries(n), UNCHANGED <<kv_store, log, states>>
    PROVE  ReplicaInv'
  <1> USE DEF ReplicaInv
  <1>1. PICK new \in decided_idx[n] .. Len(log) :
              /\ decided_idx' = [decided_idx EXCEPT ![n] = new]
              /\ \A m \in Nodes \ {n} :
                    decided_entries'[m] = decided_entries[m]
              /\ Len(decided_entries'[n]) = new - decided_idx[n]
              /\ \A j \in 1 .. (new - decided_idx[n]) :
                    decided_entries'[n][j] = log[decided_idx[n] + j]
    <2>1. decided_idx[n] <= Len(log)
      BY DEF BatchInv
    <2> QED BY <2>1, ProcessDecided
  <1>2. /\ decided_idx[n] \in Nat
        /\ new \in Nat
        /\ decided_idx \in [Nodes -> Nat]
        /\ Len(log) \in Nat
        /\ Len(decided_entries[n]) = 0
    BY DEF Ready, TypeOK
  <1>3. LogInv'
    BY DEF LogInv
  <1>4. ASSUME NEW m \in Nodes \ {n}
        PROVE  /\ decided_idx'[m] = decided_idx[m]
               /\ decided_entries'[m] = decided_entries[m]
               /\ Applied(m)' = Applied(m)
    BY <1>1, <1>2 DEF Applied
  <1>5. /\ decided_idx'[n] = new
        /\ Applied(n)' = Applied(n)
        /\ Applied(n) = decided_idx[n]
    BY <1>1, <1>2 DEF Applied
  <1>6. BatchInv'
    <2> SUFFICES ASSUME NEW m \in Nodes
                 PROVE  /\ decided_idx'[m] \in 0 .. Len(log')
                        /\ Len(decided_entries'[m]) <= decided_idx'[m]
                        /\ \A j \in 1 .. Len(decided_entries'[m]) :
                              decided_entries'[m][j] = log'[Applied(m)' + j]
      BY DEF BatchInv
    <2>1. CASE m = n
      BY <1>1, <1>2, <1>5, <2>1
    <2>2. CASE m # n
      BY <1>4, <2>2 DEF BatchInv
    <2> QED BY <2>1, <2>2
  <1>7. Replayed'
    BY <1>4, <1>5 DEF Replayed
  <1> QED BY <1>3, <1>6, <1>7

\* Applying the next entry moves the replica to the next state of the replay.
LEMMA ReplicaApply ==
    ASSUME ReplicaInv, TypeOK', NEW n \in Nodes, apply_and_respond(n)
    PROVE  ReplicaInv'
  <1> USE DEF ReplicaInv
  <1> DEFINE a == Applied(n)
             cmd == Head(decided_entries[n])
  <1>1. /\ kv_store' = [kv_store EXCEPT ![n] = apply_op(@, cmd.op)]
        /\ decided_entries' = [decided_entries EXCEPT ![n] = Tail(@)]
        /\ decided_entries[n] # <<>>
        /\ UNCHANGED <<decided_idx, log, states>>
    BY DEF apply_and_respond, libVars, logVars
  <1>2. /\ decided_entries \in [Nodes -> Seq(Commands)]
        /\ decided_idx \in [Nodes -> Nat]
        /\ log \in Seq(Commands)
        /\ Len(decided_entries[n]) \in Nat \ {0}
        /\ decided_idx[n] \in 0 .. Len(log)
        /\ Len(decided_entries[n]) <= decided_idx[n]
    BY <1>1 DEF TypeOK, BatchInv
  <1>3. /\ cmd = log[a + 1]
        /\ a \in 0 .. (Len(log) - 1)
        /\ kv_store[n] = states[a + 1]
    BY <1>1, <1>2 DEF BatchInv, Replayed, Applied
  <1>4. /\ decided_entries'[n] = Tail(decided_entries[n])
        /\ Len(decided_entries'[n]) = Len(decided_entries[n]) - 1
        /\ \A j \in 1 .. Len(decided_entries'[n]) :
              decided_entries'[n][j] = decided_entries[n][j + 1]
    BY <1>1, <1>2
  <1>5. Applied(n)' = a + 1
    BY <1>1, <1>2, <1>4 DEF Applied
  <1>6. kv_store'[n] = states[a + 2]
    <2>1. kv_store'[n] = apply_op(kv_store[n], cmd.op)
      BY <1>1 DEF TypeOK
    <2>2. states[(a + 1) + 1] = apply_op(states[a + 1], log[a + 1].op)
      BY <1>2, <1>3 DEF LogInv
    <2> QED BY <1>2, <1>3, <2>1, <2>2
  <1>7. ASSUME NEW m \in Nodes \ {n}
        PROVE  /\ kv_store'[m] = kv_store[m]
               /\ decided_entries'[m] = decided_entries[m]
               /\ Applied(m)' = Applied(m)
    BY <1>1 DEF Applied, TypeOK
  <1>8. BatchInv'
    <2> SUFFICES ASSUME NEW m \in Nodes
                 PROVE  /\ decided_idx'[m] \in 0 .. Len(log')
                        /\ Len(decided_entries'[m]) <= decided_idx'[m]
                        /\ \A j \in 1 .. Len(decided_entries'[m]) :
                              decided_entries'[m][j] = log'[Applied(m)' + j]
      BY DEF BatchInv
    <2>1. CASE m = n
      <3>1. \A j \in 1 .. Len(decided_entries[n]) :
               decided_entries[n][j] = log[a + j]
        BY DEF BatchInv
      <3>2. ASSUME NEW j \in 1 .. Len(decided_entries'[n])
            PROVE  decided_entries'[n][j] = log[(a + 1) + j]
        <4>1. j + 1 \in 1 .. Len(decided_entries[n])
          BY <1>2, <1>4
        <4>2. decided_entries[n][j + 1] = log[a + (j + 1)]
          BY <3>1, <4>1
        <4>3. a + (j + 1) = (a + 1) + j
          BY <1>2, <1>3
        <4> QED BY <1>4, <4>2, <4>3
      <3> QED BY <1>1, <1>2, <1>4, <1>5, <2>1, <3>2
    <2>2. CASE m # n
      BY <1>1, <1>7, <2>2 DEF BatchInv
    <2> QED BY <2>1, <2>2
  <1>9. Replayed'
    <2>1. /\ Applied(n)' \in 0 .. Len(log')
          /\ kv_store'[n] = states'[Applied(n)' + 1]
      BY <1>1, <1>2, <1>3, <1>5, <1>6
    <2> QED BY <1>1, <1>7, <2>1 DEF Replayed
  <1>10. LogInv'
    BY <1>1 DEF LogInv
  <1> QED BY <1>8, <1>9, <1>10

\* A decision only appends to the log and to its replay.
LEMMA ReplicaDecide ==
    ASSUME ReplicaInv, TypeOK', NEW c \in proposed, NEW Q \in Majorities, Decide(c, Q)
    PROVE  ReplicaInv'
  <1> USE DEF ReplicaInv
  <1>1. /\ log' = Append(log, c)
        /\ states' = Append(states, apply_op(states[Len(states)], c.op))
        /\ UNCHANGED <<kv_store, decided_idx, decided_entries>>
    BY DEF Decide, nodeVars
  <1>2. /\ log \in Seq(Commands)
        /\ states \in Seq(Stores)
        /\ Len(log) \in Nat
        /\ Len(states) = Len(log) + 1
    BY DEF TypeOK, LogInv
  <1>3. /\ Len(log') = Len(log) + 1
        /\ Len(states') = Len(states) + 1
        /\ \A i \in 1 .. Len(log) : log'[i] = log[i]
        /\ \A i \in 1 .. Len(states) : states'[i] = states[i]
        /\ log'[Len(log) + 1] = c
        /\ states'[Len(states) + 1] = apply_op(states[Len(states)], c.op)
    BY <1>1, <1>2
  <1>4. LogInv'
    <2>1. ASSUME NEW i \in 1 .. Len(log')
          PROVE  states'[i + 1] = apply_op(states'[i], log'[i].op)
      <3>1. CASE i = Len(log) + 1
        BY <1>2, <1>3, <3>1
      <3>2. CASE i # Len(log) + 1
        <4>1. /\ i \in 1 .. Len(log)
              /\ i + 1 \in 1 .. Len(states)
              /\ i \in 1 .. Len(states)
          BY <1>2, <1>3, <3>2
        <4> QED BY <1>3, <4>1 DEF LogInv
      <3> QED BY <3>1, <3>2
    <2> QED BY <1>2, <1>3, <2>1 DEF LogInv
  <1>5. ASSUME NEW m \in Nodes
        PROVE  /\ Applied(m)' = Applied(m)
               /\ Applied(m) \in 0 .. Len(log)
               /\ Len(decided_entries[m]) \in Nat
               /\ decided_idx[m] \in Nat
    BY <1>1 DEF Applied, Replayed, TypeOK
  <1>6. BatchInv'
    <2> SUFFICES ASSUME NEW m \in Nodes
                 PROVE  /\ decided_idx'[m] \in 0 .. Len(log')
                        /\ Len(decided_entries'[m]) <= decided_idx'[m]
                        /\ \A j \in 1 .. Len(decided_entries'[m]) :
                              decided_entries'[m][j] = log'[Applied(m)' + j]
      BY DEF BatchInv
    <2>1. /\ decided_idx[m] \in 0 .. Len(log)
          /\ Len(decided_entries[m]) <= decided_idx[m]
          /\ \A j \in 1 .. Len(decided_entries[m]) :
                decided_entries[m][j] = log[Applied(m) + j]
      BY DEF BatchInv
    <2>2. ASSUME NEW j \in 1 .. Len(decided_entries[m])
          PROVE  Applied(m) + j \in 1 .. Len(log)
      BY <1>2, <1>5, <2>1 DEF Applied
    <2> QED BY <1>1, <1>2, <1>3, <1>5, <2>1, <2>2
  <1>7. Replayed'
    BY <1>1, <1>2, <1>3, <1>5 DEF Replayed
  <1> QED BY <1>4, <1>6, <1>7

LEMMA ReplicaNext ==
    ASSUME ReplicaInv, [Next]_vars, ~forgotten'
    PROVE  ReplicaInv'
  <1>0. TypeOK /\ TypeOK'
    BY TypeNext DEF ReplicaInv
  <1>1. ASSUME UNCHANGED <<kv_store, decided_idx, decided_entries, log, states>>
        PROVE  ReplicaInv'
    BY <1>0, <1>1
       DEF ReplicaInv, LogInv, BatchInv, Replayed, Applied
  <1>2. CASE \/ \E r \in Requests : ClientSend(r)
             \/ \E r \in requests : LoseRequest(r)
             \/ \E f \in forwards : LoseForward(f)
             \/ \E n \in Nodes : Kill(n)
             \/ UNCHANGED vars
    BY <1>1, <1>2
       DEF ClientSend, LoseRequest, LoseForward, Kill, nodeVars, libVars, logVars, vars
  <1>3. CASE \E c \in proposed, Q \in Majorities : Decide(c, Q)
    BY <1>0, <1>3, ReplicaDecide
  <1>4. ASSUME NEW n \in Nodes,
               \/ handle_client_request(n)
               \/ handle_forwarded_request(n)
               \/ handle_omnipaxos_message(n)
               \/ tick(n)
        PROVE  ReplicaInv'
    <2>1. /\ Ready(n)
          /\ process_decided_entries(n)
          /\ UNCHANGED <<kv_store, log, states>>
      BY <1>4 DEF handle_client_request, handle_forwarded_request,
                  handle_omnipaxos_message, tick, logVars
    <2>2. stored' \in [Nodes -> 0 .. Len(log)]
      BY <1>0, <2>1 DEF TypeOK
    <2> QED BY <1>0, <2>1, <2>2, ReplicaProcess
  <1>5. CASE \E n \in Nodes : apply_and_respond(n)
    BY <1>0, <1>5, ReplicaApply
  <1>6. ASSUME NEW n \in Nodes, Restart(n)
        PROVE  ReplicaInv'
    <2>1. /\ kv_store' = [kv_store EXCEPT ![n] = EmptyStore]
          /\ decided_idx' = [decided_idx EXCEPT ![n] = 0]
          /\ decided_entries' = [decided_entries EXCEPT ![n] = <<>>]
          /\ UNCHANGED <<log, states>>
      BY <1>6 DEF Restart, libVars, logVars
    <2>2. LogInv'
      BY <2>1 DEF ReplicaInv, LogInv
    <2>3. /\ decided_idx'[n] = 0
          /\ decided_entries'[n] = <<>>
          /\ kv_store'[n] = states'[1]
          /\ Applied(n)' = 0
          /\ Len(log) \in Nat
      BY <1>0, <2>1 DEF ReplicaInv, LogInv, Applied, TypeOK
    <2>4. ASSUME NEW m \in Nodes \ {n}
          PROVE  /\ kv_store'[m] = kv_store[m]
                 /\ decided_idx'[m] = decided_idx[m]
                 /\ decided_entries'[m] = decided_entries[m]
                 /\ Applied(m)' = Applied(m)
      BY <1>0, <2>1 DEF Applied, TypeOK
    <2>5. BatchInv'
      <3> SUFFICES ASSUME NEW m \in Nodes
                   PROVE  /\ decided_idx'[m] \in 0 .. Len(log')
                          /\ Len(decided_entries'[m]) <= decided_idx'[m]
                          /\ \A j \in 1 .. Len(decided_entries'[m]) :
                                decided_entries'[m][j] = log'[Applied(m)' + j]
        BY DEF BatchInv
      <3>1. CASE m = n
        BY <2>1, <2>3, <3>1
      <3>2. CASE m # n
        BY <2>1, <2>4, <3>2 DEF ReplicaInv, BatchInv
      <3> QED BY <3>1, <3>2
    <2>6. Replayed'
      <3>1. Applied(n)' \in 0 .. Len(log') /\ kv_store'[n] = states'[Applied(n)' + 1]
        BY <2>1, <2>3
      <3> QED BY <2>1, <2>4, <3>1 DEF ReplicaInv, Replayed
    <2> QED BY <1>0, <2>2, <2>5, <2>6 DEF ReplicaInv
  <1> QED BY <1>2, <1>3, <1>4, <1>5, <1>6, NotForgotten DEF Next, Step

\* Until a decided entry is forgotten, every node's store is the replay of
\* the prefix it has applied.
THEOREM ReplicasAgree == Spec => []ReplicaAgreement
  <1> DEFINE IInv == forgotten \/ ReplicaInv
  <1>1. IInv /\ [Next]_vars => IInv'
    BY ReplicaNext, NotForgotten
  <1>2. IInv => ReplicaAgreement
    BY DEF ReplicaInv, Replayed, ReplicaAgreement
  <1>3. Init => IInv
    BY ReplicaInit
  <1> HIDE DEF IInv
  <1> QED BY <1>1, <1>2, <1>3, PTL DEF Spec

------------------------------------------------------------------------------
(***************************************************************************)
(* Proof that no client operation is in the log twice.  A command is       *)
(* always in at most one place: it waits as a request, travels in one      *)
(* forward message, waits in one node's pending_forwards, waits in         *)
(* OmniPaxos, or stands at one index of the log.                           *)
(***************************************************************************)

\* Client identities are unique, so that the identity of a command
\* determines the request it comes from.
UniqueIds == \A r, s \in invoked : r.id = s.id => r = s

CommandOf(r) == command(r.dest, r)

Known(c) == \E r \in invoked : c = CommandOf(r)

\* Every command anywhere in the system is the command of some request.
AllKnown ==
    /\ requests \subseteq invoked
    /\ \A f \in forwards : Known(f.cmd)
    /\ \A n \in Nodes : \A c \in pending_forwards[n] : Known(c)
    /\ \A c \in proposed : Known(c)
    /\ \A i \in 1 .. Len(log) : Known(log[i])

\* c is in none of these requests, forwards, pending, proposed and decided
\* commands.
Nowhere(c, req, fwd, pend, prop, lg) ==
    /\ \A r \in req : CommandOf(r) # c
    /\ \A f \in fwd : f.cmd # c
    /\ \A n \in Nodes : c \notin pend[n]
    /\ c \notin prop
    /\ \A i \in 1 .. Len(lg) : lg[i] # c

\* No command is in two places.
OneHome(req, fwd, pend, prop, lg) ==
    /\ \A r \in req : Nowhere(CommandOf(r), {}, fwd, pend, prop, lg)
    /\ \A f \in fwd : Nowhere(f.cmd, {}, {}, pend, prop, lg)
    /\ \A f, g \in fwd : f.cmd = g.cmd => f = g
    /\ \A m, n \in Nodes : m # n => pend[m] \cap pend[n] = {}
    /\ \A n \in Nodes : \A c \in pend[n] :
          c \notin prop /\ \A i \in 1 .. Len(lg) : lg[i] # c
    /\ \A c \in prop : \A i \in 1 .. Len(lg) : lg[i] # c
    /\ \A i, j \in 1 .. Len(lg) : lg[i] = lg[j] => i = j

HomeInv ==
    /\ TypeOK
    /\ UniqueIds
    /\ AllKnown
    /\ OneHome(requests, forwards, pending_forwards, proposed, log)

LEMMA HomeInit == Init => HomeInv
  <1> SUFFICES ASSUME Init PROVE HomeInv
    OBVIOUS
  <1>1. TypeOK
    BY TypeInit
  <1>2. UniqueIds /\ AllKnown
    BY DEF Init, UniqueIds, AllKnown
  <1>3. OneHome({}, {}, [n \in Nodes |-> {}], {}, <<>>)
    BY DEF OneHome
  <1> QED BY <1>1, <1>2, <1>3 DEF Init, HomeInv

\* Two known commands with the same identity are the same command.
LEMMA SameIdSameCommand ==
    ASSUME UniqueIds, NEW c, NEW d, Known(c), Known(d), c.id = d.id
    PROVE  c = d
  BY DEF UniqueIds, Known, CommandOf, command

\* try_append moves commands that are nowhere else to one place each.
LEMMA TryAppendOneHome ==
    ASSUME TypeOK, NEW n \in Nodes, NEW cmds \in SUBSET Commands,
           NEW rest, NEW kept, NEW req, try_append(n, cmds, rest, kept),
           OneHome(req, rest, [pending_forwards EXCEPT ![n] = kept], proposed, log),
           \A c \in cmds : Nowhere(c, req, rest,
               [pending_forwards EXCEPT ![n] = kept], proposed, log)
    PROVE  OneHome(req, forwards', pending_forwards', proposed', log)
  <1> DEFINE pend == [pending_forwards EXCEPT ![n] = kept]
  <1>1. PICK ok, sent, held \in SUBSET cmds, dest \in Nodes :
              Moved(n, rest, kept, ok, sent, held, dest)
    BY TryAppendMoves
  <1>2. /\ ok \cap sent = {}
        /\ ok \cap held = {}
        /\ sent \cap held = {}
        /\ proposed' = proposed \cup ok
        /\ \A f \in forwards' : f \in rest \/ (f.dest = dest /\ f.cmd \in sent
                                               /\ f = [dest |-> dest, cmd |-> f.cmd])
        /\ \A m \in Nodes : pending_forwards'[m] =
                               IF m = n THEN pend[m] \cup held ELSE pend[m]
    BY <1>1 DEF Moved, TypeOK
  <1>3. \A c \in cmds : Nowhere(c, req, rest, pend, proposed, log)
    OBVIOUS
  <1>4. OneHome(req, rest, pend, proposed, log)
    OBVIOUS
  <1> HIDE DEF pend
  <1>5. ASSUME NEW r \in req
        PROVE  Nowhere(CommandOf(r), {}, forwards', pending_forwards', proposed', log)
    <2>1. CommandOf(r) \notin cmds
      BY <1>3 DEF Nowhere
    <2>2. Nowhere(CommandOf(r), {}, rest, pend, proposed, log)
      BY <1>4 DEF OneHome
    <2>3. CommandOf(r) \notin proposed'
      BY <1>2, <2>1, <2>2 DEF Nowhere
    <2>4. \A f \in forwards' : f.cmd # CommandOf(r)
      BY <1>2, <2>1, <2>2 DEF Nowhere
    <2>5. \A m \in Nodes : CommandOf(r) \notin pending_forwards'[m]
      BY <1>2, <2>1, <2>2 DEF Nowhere
    <2> QED BY <2>2, <2>3, <2>4, <2>5 DEF Nowhere
  <1>6. ASSUME NEW f \in forwards'
        PROVE  Nowhere(f.cmd, {}, {}, pending_forwards', proposed', log)
    <2>1. CASE f \in rest
      <3>1. f.cmd \notin cmds
        BY <1>3, <2>1 DEF Nowhere
      <3>2. Nowhere(f.cmd, {}, {}, pend, proposed, log)
        BY <1>4, <2>1 DEF OneHome
      <3>3. f.cmd \notin proposed'
        BY <1>2, <3>1, <3>2 DEF Nowhere
      <3>4. \A m \in Nodes : f.cmd \notin pending_forwards'[m]
        BY <1>2, <3>1, <3>2 DEF Nowhere
      <3> QED BY <3>2, <3>3, <3>4 DEF Nowhere
    <2>2. CASE f.cmd \in sent
      <3>1. f.cmd \in cmds
        BY <1>1, <2>2
      <3>2. Nowhere(f.cmd, req, rest, pend, proposed, log)
        BY <1>3, <3>1
      <3>3. f.cmd \notin proposed'
        BY <1>2, <2>2, <3>2 DEF Nowhere
      <3>4. \A m \in Nodes : f.cmd \notin pending_forwards'[m]
        BY <1>2, <2>2, <3>2 DEF Nowhere
      <3> QED BY <3>2, <3>3, <3>4 DEF Nowhere
    <2> QED BY <1>2, <2>1, <2>2
  <1>7. ASSUME NEW f \in forwards', NEW g \in forwards', f.cmd = g.cmd
        PROVE  f = g
    <2>1. CASE f \in rest /\ g \in rest
      BY <1>4, <1>7, <2>1 DEF OneHome
    <2>2. CASE f \notin rest /\ g \notin rest
      BY <1>2, <1>7, <2>2
    <2>3. CASE f \in rest /\ g \notin rest
      BY <1>2, <1>3, <1>7, <2>3 DEF Nowhere
    <2>4. CASE f \notin rest /\ g \in rest
      BY <1>2, <1>3, <1>7, <2>4 DEF Nowhere
    <2> QED BY <2>1, <2>2, <2>3, <2>4
  <1>8. ASSUME NEW l \in Nodes, NEW m \in Nodes, l # m
        PROVE  pending_forwards'[l] \cap pending_forwards'[m] = {}
    <2>1. pend[l] \cap pend[m] = {}
      BY <1>4, <1>8 DEF OneHome
    <2>2. pend[l] \cap held = {} /\ held \cap pend[m] = {}
      BY <1>3 DEF Nowhere
    <2> QED BY <1>2, <1>8, <2>1, <2>2
  <1>9. ASSUME NEW m \in Nodes, NEW c \in pending_forwards'[m]
        PROVE  c \notin proposed' /\ \A i \in 1 .. Len(log) : log[i] # c
    <2>1. CASE c \in pend[m]
      <3>1. c \notin cmds
        BY <1>3, <2>1 DEF Nowhere
      <3>2. c \notin proposed /\ \A i \in 1 .. Len(log) : log[i] # c
        BY <1>4, <2>1 DEF OneHome
      <3> QED BY <1>2, <3>1, <3>2
    <2>2. CASE c \in held
      <3>1. Nowhere(c, req, rest, pend, proposed, log)
        BY <1>3, <2>2
      <3> QED BY <1>2, <2>2, <3>1 DEF Nowhere
    <2> QED BY <1>2, <1>9, <2>1, <2>2
  <1>10. ASSUME NEW c \in proposed'
         PROVE  \A i \in 1 .. Len(log) : log[i] # c
    BY <1>2, <1>3, <1>4 DEF OneHome, Nowhere
  <1>11. \A i, j \in 1 .. Len(log) : log[i] = log[j] => i = j
    BY <1>4 DEF OneHome
  <1> QED BY <1>5, <1>6, <1>7, <1>8, <1>9, <1>10, <1>11 DEF OneHome

\* The moved commands stay known.
LEMMA TryAppendKnown ==
    ASSUME TypeOK, NEW n \in Nodes, NEW cmds \in SUBSET Commands,
           NEW rest, NEW kept, try_append(n, cmds, rest, kept), AllKnown,
           UNCHANGED <<invoked, log>>, requests' \subseteq requests,
           rest \subseteq forwards, kept \subseteq pending_forwards[n],
           \A c \in cmds : Known(c)
    PROVE  AllKnown'
  <1>1. PICK ok, sent, held \in SUBSET cmds, dest \in Nodes :
              Moved(n, rest, kept, ok, sent, held, dest)
    BY TryAppendMoves
  <1>2. /\ proposed' = proposed \cup ok
        /\ \A f \in forwards' : f \in forwards \/ f.cmd \in cmds
        /\ \A m \in Nodes : \A c \in pending_forwards'[m] :
              c \in pending_forwards[m] \/ c \in cmds
    BY <1>1 DEF Moved, TypeOK
  <1>3. \A c : Known(c) => Known(c)'
    BY DEF Known
  <1> QED BY <1>2, <1>3 DEF AllKnown

\* Steps that only take requests and forwards away keep every home.
LEMMA HomeShrinks ==
    ASSUME HomeInv, TypeOK', requests' \subseteq requests,
           forwards' \subseteq forwards,
           \A n \in Nodes : pending_forwards'[n] \subseteq pending_forwards[n],
           UNCHANGED <<proposed, log, invoked>>
    PROVE  HomeInv'
  <1>1. UniqueIds'
    BY DEF HomeInv, UniqueIds
  <1>2. \A c : Known(c) => Known(c)'
    BY DEF Known
  <1>3. AllKnown'
    BY <1>2 DEF HomeInv, AllKnown
  <1>4. OneHome(requests, forwards, pending_forwards, proposed, log)
    BY DEF HomeInv
  <1>5. OneHome(requests', forwards', pending_forwards', proposed, log)
    <2>1. ASSUME NEW r \in requests'
          PROVE  Nowhere(CommandOf(r), {}, forwards', pending_forwards', proposed, log)
      BY <1>4 DEF OneHome, Nowhere
    <2>2. ASSUME NEW f \in forwards'
          PROVE  Nowhere(f.cmd, {}, {}, pending_forwards', proposed, log)
      BY <1>4 DEF OneHome, Nowhere
    <2>3. \A m, n \in Nodes :
             m # n => pending_forwards'[m] \cap pending_forwards'[n] = {}
      BY <1>4 DEF OneHome
    <2>4. \A n \in Nodes : \A c \in pending_forwards'[n] :
             c \notin proposed /\ \A i \in 1 .. Len(log) : log[i] # c
      BY <1>4 DEF OneHome
    <2> QED BY <1>4, <2>1, <2>2, <2>3, <2>4 DEF OneHome
  <1> QED BY <1>1, <1>3, <1>5 DEF HomeInv

\* A new request has an identity of its own: its command is nowhere.
LEMMA HomeClientSend ==
    ASSUME HomeInv, TypeOK', NEW r \in Requests, ClientSend(r)
    PROVE  HomeInv'
  <1>1. /\ \A i \in invoked : i.id # r.id
        /\ requests' = requests \cup {r}
        /\ invoked' = invoked \cup {r}
        /\ UNCHANGED <<forwards, pending_forwards, proposed, log>>
    BY DEF ClientSend, nodeVars, libVars, logVars
  <1>2. UniqueIds'
    BY <1>1 DEF HomeInv, UniqueIds
  <1>3. \A c : Known(c) => Known(c)'
    BY <1>1 DEF Known
  <1>4. AllKnown'
    BY <1>1, <1>3 DEF HomeInv, AllKnown
  <1>5. ASSUME NEW c, Known(c)
        PROVE  c # CommandOf(r)
    BY <1>1, <1>5 DEF Known, CommandOf, command
  <1>6. Nowhere(CommandOf(r), {}, forwards, pending_forwards, proposed, log)
    BY <1>5 DEF HomeInv, AllKnown, Nowhere
  <1>7. OneHome(requests', forwards, pending_forwards, proposed, log)
    BY <1>1, <1>6 DEF HomeInv, OneHome
  <1> QED BY <1>1, <1>2, <1>4, <1>7 DEF HomeInv

\* A decision moves a command from OmniPaxos to the end of the log.
LEMMA HomeDecide ==
    ASSUME HomeInv, TypeOK', NEW c \in proposed, NEW Q \in Majorities, Decide(c, Q)
    PROVE  HomeInv'
  <1>1. /\ log' = Append(log, c)
        /\ proposed' = proposed \ {c}
        /\ UNCHANGED <<requests, forwards, pending_forwards, invoked>>
    BY DEF Decide, nodeVars
  <1>2. /\ log \in Seq(Commands)
        /\ Len(log) \in Nat
        /\ Len(log') = Len(log) + 1
        /\ \A i \in 1 .. Len(log) : log'[i] = log[i]
        /\ log'[Len(log) + 1] = c
    BY <1>1 DEF HomeInv, TypeOK
  <1>3. \A i \in 1 .. Len(log') : i \in 1 .. Len(log) \/ i = Len(log) + 1
    BY <1>2
  <1>4. UniqueIds'
    BY <1>1 DEF HomeInv, UniqueIds
  <1>5. \A d : Known(d) => Known(d)'
    BY <1>1 DEF Known
  <1>6. AllKnown'
    BY <1>1, <1>2, <1>3, <1>5 DEF HomeInv, AllKnown
  <1>7. OneHome(requests, forwards, pending_forwards, proposed, log)
    BY DEF HomeInv
  <1>8. ASSUME NEW d, d # c, \A i \in 1 .. Len(log) : log[i] # d
        PROVE  \A i \in 1 .. Len(log') : log'[i] # d
    BY <1>2, <1>3, <1>8
  <1>9. OneHome(requests, forwards, pending_forwards, proposed', log')
    <2>1. ASSUME NEW r \in requests
          PROVE  Nowhere(CommandOf(r), {}, forwards, pending_forwards, proposed', log')
      BY <1>1, <1>7, <1>8 DEF OneHome, Nowhere
    <2>2. ASSUME NEW f \in forwards
          PROVE  Nowhere(f.cmd, {}, {}, pending_forwards, proposed', log')
      BY <1>1, <1>7, <1>8 DEF OneHome, Nowhere
    <2>3. ASSUME NEW n \in Nodes, NEW d \in pending_forwards[n]
          PROVE  d \notin proposed' /\ \A i \in 1 .. Len(log') : log'[i] # d
      BY <1>1, <1>7, <1>8 DEF OneHome
    <2>4. ASSUME NEW d \in proposed'
          PROVE  \A i \in 1 .. Len(log') : log'[i] # d
      BY <1>1, <1>7, <1>8 DEF OneHome
    <2>5. ASSUME NEW i \in 1 .. Len(log'), NEW j \in 1 .. Len(log'),
                 log'[i] = log'[j]
          PROVE  i = j
      BY <1>2, <1>3, <1>7, <2>5 DEF OneHome
    <2> QED BY <1>7, <2>1, <2>2, <2>3, <2>4, <2>5 DEF OneHome
  <1> QED BY <1>1, <1>4, <1>6, <1>9 DEF HomeInv

\* Forgetting the end of the log takes commands away.
LEMMA HomeForget ==
    ASSUME HomeInv, TypeOK', NEW Q \in Majorities, Forget(Q)
    PROVE  HomeInv'
  <1>1. PICK len \in 0 .. Len(log) : /\ Len(log') = len
                                     /\ \A i \in 1 .. len : log'[i] = log[i]
    BY ForgetCuts DEF HomeInv
  <1>2. \A i \in 1 .. Len(log') : i \in 1 .. Len(log) /\ log'[i] = log[i]
    BY <1>1 DEF HomeInv, TypeOK
  <1>3. UNCHANGED <<requests, forwards, pending_forwards, proposed, invoked>>
    BY DEF Forget, nodeVars
  <1>4. UniqueIds'
    BY <1>3 DEF HomeInv, UniqueIds
  <1>5. \A c : Known(c) => Known(c)'
    BY <1>3 DEF Known
  <1>6. AllKnown'
    BY <1>2, <1>3, <1>5 DEF HomeInv, AllKnown
  <1>7. OneHome(requests, forwards, pending_forwards, proposed, log)
    BY DEF HomeInv
  <1>8. OneHome(requests, forwards, pending_forwards, proposed, log')
    BY <1>2, <1>7 DEF OneHome, Nowhere
  <1> QED BY <1>3, <1>4, <1>6, <1>8 DEF HomeInv

\* A handler takes commands out of their one home and hands them to
\* try_append.
LEMMA HomeHandler ==
    ASSUME HomeInv, TypeOK', NEW n \in Nodes,
           \/ handle_client_request(n)
           \/ handle_forwarded_request(n)
           \/ tick(n)
    PROVE  HomeInv'
  <1>0. /\ TypeOK
        /\ AllKnown
        /\ OneHome(requests, forwards, pending_forwards, proposed, log)
        /\ UNCHANGED <<log, invoked>>
        /\ UniqueIds'
        /\ pending_forwards \in [Nodes -> SUBSET Commands]
    BY DEF HomeInv, handle_client_request, handle_forwarded_request, tick,
           UniqueIds, TypeOK, logVars
  <1>1. CASE handle_client_request(n)
    <2>1. PICK r \in requests :
            /\ r.dest = n
            /\ requests' = requests \ {r}
            /\ try_append(n, {command(n, r)}, forwards, pending_forwards[n])
      BY <1>1 DEF handle_client_request
    <2> DEFINE c == command(n, r)
    <2>2. c = CommandOf(r)
      BY <2>1 DEF CommandOf
    <2>3. {c} \in SUBSET Commands
      <3>1. r \in Requests
        BY <1>0, <2>1 DEF TypeOK
      <3>2. r.id \in Ids /\ r.body \in Bodies
        BY <3>1 DEF Requests
      <3>3. parse_op(r.body) \in KVOp
        BY <3>2, ParseType
      <3> QED BY <3>2, <3>3 DEF Commands, command
    <2>4. [pending_forwards EXCEPT ![n] = pending_forwards[n]] = pending_forwards
      BY <1>0
    <2>5. OneHome(requests', forwards, pending_forwards, proposed, log)
      BY <1>0, <2>1 DEF OneHome
    <2>6. ASSUME NEW s \in requests'
          PROVE  CommandOf(s) # CommandOf(r)
      BY <1>0, <2>1 DEF HomeInv, AllKnown, UniqueIds, CommandOf, command
    <2>7. Nowhere(c, requests', forwards, pending_forwards, proposed, log)
      BY <1>0, <2>1, <2>2, <2>6 DEF OneHome, Nowhere
    <2>8. Known(c)
      BY <1>0, <2>1, <2>2 DEF AllKnown, Known
    <2> HIDE DEF c
    <2>9. try_append(n, {c}, forwards, pending_forwards[n])
      BY <2>1 DEF c
    <2>10. OneHome(requests', forwards', pending_forwards', proposed', log)
      BY <1>0, <2>3, <2>4, <2>5, <2>7, <2>9, TryAppendOneHome
    <2>11. AllKnown'
      BY <1>0, <2>1, <2>3, <2>8, <2>9, TryAppendKnown
    <2> QED BY <1>0, <2>10, <2>11 DEF HomeInv
  <1>2. CASE handle_forwarded_request(n)
    <2>1. PICK f \in forwards :
            /\ try_append(n, {f.cmd}, forwards \ {f}, pending_forwards[n])
            /\ requests' = requests
      BY <1>2 DEF handle_forwarded_request
    <2>2. {f.cmd} \in SUBSET Commands
      BY <1>0 DEF TypeOK, Forwards
    <2>3. [pending_forwards EXCEPT ![n] = pending_forwards[n]] = pending_forwards
      BY <1>0
    <2>4. OneHome(requests, forwards \ {f}, pending_forwards, proposed, log)
      BY <1>0 DEF OneHome, Nowhere
    <2>5. Nowhere(f.cmd, requests, forwards \ {f}, pending_forwards, proposed, log)
      BY <1>0 DEF OneHome, Nowhere
    <2>6. Known(f.cmd)
      BY <1>0 DEF AllKnown
    <2>7. OneHome(requests, forwards', pending_forwards', proposed', log)
      BY <1>0, <2>1, <2>2, <2>3, <2>4, <2>5, TryAppendOneHome
    <2>8. AllKnown'
      BY <1>0, <2>1, <2>2, <2>6, TryAppendKnown
    <2> QED BY <1>0, <2>1, <2>7, <2>8 DEF HomeInv
  <1>3. CASE tick(n)
    <2> DEFINE pend == [pending_forwards EXCEPT ![n] = {}]
    <2>1. /\ try_append(n, pending_forwards[n], forwards, {})
          /\ requests' = requests
      BY <1>3 DEF tick
    <2>2. pending_forwards[n] \in SUBSET Commands
      BY <1>0
    <2>3. \A m \in Nodes : pend[m] = IF m = n THEN {} ELSE pending_forwards[m]
      BY <1>0
    <2> HIDE DEF pend
    <2>4. OneHome(requests, forwards, pend, proposed, log)
      BY <1>0, <2>3 DEF OneHome, Nowhere
    <2>5. ASSUME NEW c \in pending_forwards[n]
          PROVE  Nowhere(c, requests, forwards, pend, proposed, log)
      BY <1>0, <2>3 DEF OneHome, Nowhere
    <2>6. \A c \in pending_forwards[n] : Known(c)
      BY <1>0 DEF AllKnown
    <2>7. OneHome(requests, forwards', pending_forwards', proposed', log)
      BY <1>0, <2>1, <2>2, <2>4, <2>5, TryAppendOneHome DEF pend
    <2>8. AllKnown'
      BY <1>0, <2>1, <2>2, <2>6, TryAppendKnown
    <2> QED BY <1>0, <2>1, <2>7, <2>8 DEF HomeInv
  <1> QED BY <1>1, <1>2, <1>3

LEMMA HomeNext ==
    ASSUME HomeInv, [Next]_vars
    PROVE  HomeInv'
  <1>0. TypeOK /\ TypeOK'
    BY TypeNext DEF HomeInv
  <1>1. CASE \E r \in Requests : ClientSend(r)
    BY <1>0, <1>1, HomeClientSend
  <1>2. CASE \E c \in proposed, Q \in Majorities : Decide(c, Q)
    BY <1>0, <1>2, HomeDecide
  <1>3. CASE \E n \in Nodes : \/ handle_client_request(n)
                              \/ handle_forwarded_request(n)
                              \/ tick(n)
    BY <1>0, <1>3, HomeHandler
  <1>4. CASE \E n \in Nodes : Restart(n)
    <2>1. PICK n \in Nodes : Restart(n)
      BY <1>4
    <2>2. /\ UNCHANGED <<requests, forwards, proposed, log, invoked>>
          /\ \A m \in Nodes : pending_forwards'[m] \subseteq pending_forwards[m]
      BY <1>0, <2>1 DEF Restart, libVars, logVars, TypeOK
    <2> QED BY <1>0, <2>2, HomeShrinks
  <1>5. CASE \/ \E r \in requests : LoseRequest(r)
             \/ \E f \in forwards : LoseForward(f)
             \/ \E n \in Nodes : Kill(n)
             \/ \E n \in Nodes : handle_omnipaxos_message(n)
             \/ \E n \in Nodes : apply_and_respond(n)
             \/ UNCHANGED vars
    <2>1. /\ requests' \subseteq requests
          /\ forwards' \subseteq forwards
          /\ UNCHANGED <<pending_forwards, proposed, log, invoked>>
      BY <1>5 DEF LoseRequest, LoseForward, Kill, handle_omnipaxos_message,
                  apply_and_respond, nodeVars, libVars, logVars, vars
    <2> QED BY <1>0, <2>1, HomeShrinks
  <1>6. CASE \E Q \in Majorities : Forget(Q)
    BY <1>0, <1>6, HomeForget
  <1> QED BY <1>1, <1>2, <1>3, <1>4, <1>5, <1>6 DEF Next, Step

\* However often a command is forwarded, bounced between nodes that disagree
\* about the leader, or retried, it is in the log at most once.
THEOREM NoDuplicates == Spec => []AtMostOnce
  <1>1. HomeInv => AtMostOnce
    <2> SUFFICES ASSUME HomeInv, NEW i \in DOMAIN log, NEW j \in DOMAIN log,
                        log[i].id = log[j].id
                 PROVE  i = j
      BY DEF AtMostOnce
    <2>1. i \in 1 .. Len(log) /\ j \in 1 .. Len(log)
      BY DEF HomeInv, TypeOK
    <2>2. log[i] = log[j]
      BY <2>1, SameIdSameCommand DEF HomeInv, AllKnown
    <2> QED BY <2>1, <2>2 DEF HomeInv, OneHome
  <1>2. HomeInv /\ [Next]_vars => HomeInv'
    BY HomeNext
  <1> QED BY HomeInit, <1>1, <1>2, PTL DEF Spec

------------------------------------------------------------------------------
(* Every answer is a result.                                                *)

\* What RepliesAreResults says as long as no decided entry is forgotten; it
\* is inductive together with the replay of the log.
AllResults ==
    \A id \in Ids : \A k \in DOMAIN replies[id] :
        \E i \in DOMAIN log :
            /\ log[i].id = id
            /\ replies[id][k].src = log[i].coordinator
            /\ replies[id][k].body = reply_to(states[i], log[i].op)

AnswerInv == ReplicaInv /\ AllResults

LEMMA AnswerInit == Init => AnswerInv
  BY ReplicaInit DEF Init, AnswerInv, AllResults

\* What an applied entry is: the next one of the log, on a replica that
\* stands right before it.
LEMMA AppliedEntry ==
    ASSUME ReplicaInv, NEW n \in Nodes, decided_entries[n] # <<>>
    PROVE  /\ Applied(n) + 1 \in 1 .. Len(log)
           /\ Applied(n) + 1 \in DOMAIN log
           /\ Applied(n) \in Nat
           /\ Head(decided_entries[n]) = log[Applied(n) + 1]
           /\ Head(decided_entries[n]) \in Commands
           /\ kv_store[n] = states[Applied(n) + 1]
  <1>1. /\ decided_entries[n] \in Seq(Commands)
        /\ log \in Seq(Commands)
        /\ decided_idx[n] \in Nat
        /\ Len(log) \in Nat
    BY DEF ReplicaInv, TypeOK
  <1>2. /\ Len(decided_entries[n]) \in Nat \ {0}
        /\ Head(decided_entries[n]) = decided_entries[n][1]
        /\ Head(decided_entries[n]) \in Commands
    BY <1>1
  <1>3. /\ decided_idx[n] \in 0 .. Len(log)
        /\ Len(decided_entries[n]) <= decided_idx[n]
        /\ decided_entries[n][1] = log[Applied(n) + 1]
        /\ kv_store[n] = states[Applied(n) + 1]
    BY <1>2 DEF ReplicaInv, BatchInv, Replayed
  <1> QED BY <1>1, <1>2, <1>3 DEF Applied

LEMMA AnswerApply ==
    ASSUME AnswerInv, NEW n \in Nodes, apply_and_respond(n)
    PROVE  AllResults'
  <1> DEFINE cmd == Head(decided_entries[n])
             p == Applied(n) + 1
             answer == [src |-> n, body |-> reply_to(kv_store[n], cmd.op)]
  <1>1. /\ decided_entries[n] # <<>>
        /\ replies' = IF cmd.coordinator = n
                      THEN [replies EXCEPT ![cmd.id] = Append(@, answer)]
                      ELSE replies
        /\ UNCHANGED <<log, states>>
    BY DEF apply_and_respond, libVars, logVars
  <1>2. /\ p \in DOMAIN log
        /\ cmd = log[p]
        /\ cmd \in Commands
        /\ kv_store[n] = states[p]
    BY <1>1, AppliedEntry DEF AnswerInv
  <1>3. /\ replies \in [Ids -> Seq(Replies)]
        /\ cmd.id \in Ids
    BY <1>2 DEF AnswerInv, ReplicaInv, TypeOK, Commands
  <1> HIDE DEF cmd, p
  <1>4. answer.src = n /\ answer.body = reply_to(states[p], log[p].op)
    BY <1>2
  <1> HIDE DEF answer
  <1>5. ASSUME NEW id \in Ids, NEW k \in DOMAIN replies'[id]
        PROVE  \E i \in DOMAIN log :
                  /\ log[i].id = id
                  /\ replies'[id][k].src = log[i].coordinator
                  /\ replies'[id][k].body = reply_to(states[i], log[i].op)
    <2>1. CASE cmd.coordinator = n /\ id = cmd.id
      <3>1. /\ replies'[id] = Append(replies[id], answer)
            /\ replies[id] \in Seq(Replies)
        BY <1>1, <1>3, <2>1
      <3>2. /\ k = Len(replies[id]) + 1 => replies'[id][k] = answer
            /\ k # Len(replies[id]) + 1 =>
                  k \in DOMAIN replies[id] /\ replies'[id][k] = replies[id][k]
        BY <3>1
      <3>3. CASE k = Len(replies[id]) + 1
        BY <1>2, <1>4, <2>1, <3>2, <3>3
      <3>4. CASE k # Len(replies[id]) + 1
        BY <3>2, <3>4 DEF AnswerInv, AllResults
      <3> QED BY <3>3, <3>4
    <2>2. CASE ~(cmd.coordinator = n /\ id = cmd.id)
      <3>1. replies'[id] = replies[id]
        BY <1>1, <1>3, <2>2
      <3> QED BY <3>1 DEF AnswerInv, AllResults
    <2> QED BY <2>1, <2>2
  <1> QED BY <1>1, <1>5 DEF AllResults

LEMMA AnswerDecide ==
    ASSUME AnswerInv, NEW c \in proposed, NEW Q \in Majorities, Decide(c, Q)
    PROVE  AllResults'
  <1>1. /\ log' = Append(log, c)
        /\ states' = Append(states, apply_op(states[Len(states)], c.op))
        /\ UNCHANGED replies
    BY DEF Decide
  <1>2. /\ log \in Seq(Commands)
        /\ states \in Seq(Stores)
        /\ Len(states) = Len(log) + 1
    BY DEF AnswerInv, ReplicaInv, LogInv, TypeOK
  <1>3. ASSUME NEW i \in DOMAIN log
        PROVE  i \in DOMAIN log' /\ log'[i] = log[i] /\ states'[i] = states[i]
    BY <1>1, <1>2
  <1>4. ASSUME NEW id \in Ids, NEW k \in DOMAIN replies[id]
        PROVE  \E i \in DOMAIN log' :
                  /\ log'[i].id = id
                  /\ replies[id][k].src = log'[i].coordinator
                  /\ replies[id][k].body = reply_to(states'[i], log'[i].op)
    <2>1. PICK i \in DOMAIN log :
              /\ log[i].id = id
              /\ replies[id][k].src = log[i].coordinator
              /\ replies[id][k].body = reply_to(states[i], log[i].op)
      BY DEF AnswerInv, AllResults
    <2>2. /\ log'[i].id = id
          /\ replies[id][k].src = log'[i].coordinator
          /\ replies[id][k].body = reply_to(states'[i], log'[i].op)
      BY <1>3, <2>1
    <2> QED BY <1>3, <2>2
  <1>5. replies' = replies
    BY <1>1
  <1> QED BY ONLY <1>4, <1>5 DEF AllResults

LEMMA AnswerNext ==
    ASSUME AnswerInv, [Next]_vars, ~forgotten'
    PROVE  AnswerInv'
  <1>1. ReplicaInv'
    BY ReplicaNext DEF AnswerInv
  <1>2. CASE \E n \in Nodes : apply_and_respond(n)
    BY <1>1, <1>2, AnswerApply DEF AnswerInv
  <1>3. CASE \E c \in proposed, Q \in Majorities : Decide(c, Q)
    BY <1>1, <1>3, AnswerDecide DEF AnswerInv
  <1>4. CASE UNCHANGED <<replies, log, states>>
    BY <1>1, <1>4 DEF AnswerInv, AllResults
  <1> QED BY <1>2, <1>3, <1>4, NotForgotten
          DEF Next, Step, ClientSend, LoseRequest, LoseForward, Kill, Restart,
              handle_client_request, handle_forwarded_request,
              handle_omnipaxos_message, tick, libVars, logVars, vars

\* Until a decided entry is forgotten, every answer, also one repeated after
\* a restart, is the result of the operation at its place in the log, from
\* the node the client asked.
THEOREM AnswersAreResults == Spec => []RepliesAreResults
  <1> DEFINE IInv == forgotten \/ AnswerInv
  <1>1. IInv /\ [Next]_vars => IInv'
    BY AnswerNext, NotForgotten
  <1>2. IInv => RepliesAreResults
    BY DEF AnswerInv, AllResults, RepliesAreResults
  <1>3. Init => IInv
    BY AnswerInit
  <1> HIDE DEF IInv
  <1> QED BY <1>1, <1>2, <1>3, PTL DEF Spec

------------------------------------------------------------------------------
(* One answer in each life of the coordinator.                              *)

\* A coordinator that has not applied entry p in this life has answered it
\* at most once in each earlier one.
ReplyCount ==
    \A p \in 1 .. Len(log) :
        Len(replies[log[p].id]) <=
            restarts[log[p].coordinator]
                + IF Applied(log[p].coordinator) >= p THEN 1 ELSE 0

CountInv == HomeInv /\ AnswerInv /\ ReplyCount

\* An operation that is not in the log has no answer.
LEMMA NoAnswerBeforeDecision ==
    ASSUME CountInv, NEW id \in Ids, \A i \in 1 .. Len(log) : log[i].id # id
    PROVE  replies[id] = <<>>
  <1>1. replies[id] \in Seq(Replies) /\ log \in Seq(Commands)
    BY DEF CountInv, HomeInv, TypeOK
  <1>2. DOMAIN log = 1 .. Len(log) /\ DOMAIN replies[id] = 1 .. Len(replies[id])
    BY <1>1
  <1>3. DOMAIN replies[id] = {}
    BY <1>2 DEF CountInv, AnswerInv, AllResults
  <1>4. ASSUME Len(replies[id]) # 0 PROVE FALSE
    <2>1. Len(replies[id]) \in Nat
      BY <1>1
    <2>2. 1 \in 1 .. Len(replies[id])
      BY <1>4, <2>1
    <2>3. 1 .. Len(replies[id]) = {}
      BY <1>2, <1>3
    <2> QED BY <2>2, <2>3
  <1>5. Len(replies[id]) = 0
    BY <1>4
  <1> QED BY <1>1, <1>5

\* Applied in the next state.
AppliedAfter(m) == decided_idx'[m] - Len(decided_entries'[m])

LEMMA EntryType ==
    ASSUME TypeOK, NEW p \in 1 .. Len(log)
    PROVE  /\ log[p] \in Commands
           /\ log[p].id \in Ids
           /\ log[p].coordinator \in Nodes
           /\ restarts[log[p].coordinator] \in Nat
           /\ Len(replies[log[p].id]) \in Nat
  <1>1. log[p] \in Commands
    BY DEF TypeOK
  <1>2. log[p].id \in Ids /\ log[p].coordinator \in Nodes
    BY <1>1 DEF Commands
  <1>3. replies[log[p].id] \in Seq(Replies)
    BY <1>2 DEF TypeOK
  <1> QED BY <1>1, <1>2, <1>3 DEF TypeOK

LEMMA CountApply ==
    ASSUME CountInv, NEW n \in Nodes, apply_and_respond(n)
    PROVE  ReplyCount'
  <1> DEFINE cmd == Head(decided_entries[n])
             q == Applied(n) + 1
             answer == [src |-> n, body |-> reply_to(kv_store[n], cmd.op)]
  <1>1. /\ decided_entries[n] # <<>>
        /\ replies' = IF cmd.coordinator = n
                      THEN [replies EXCEPT ![cmd.id] = Append(@, answer)]
                      ELSE replies
        /\ decided_entries' = [decided_entries EXCEPT ![n] = Tail(@)]
        /\ UNCHANGED <<log, decided_idx, restarts>>
    BY DEF apply_and_respond, libVars, logVars
  <1>2. /\ q \in 1 .. Len(log)
        /\ Applied(n) \in Nat
        /\ cmd = log[q]
        /\ cmd \in Commands
    BY <1>1, AppliedEntry DEF CountInv, AnswerInv
  <1>3. /\ replies \in [Ids -> Seq(Replies)]
        /\ log \in Seq(Commands)
        /\ decided_idx \in [Nodes -> Nat]
        /\ decided_entries \in [Nodes -> Seq(Commands)]
        /\ restarts \in [Nodes -> Nat]
        /\ cmd.id \in Ids
    BY <1>2 DEF CountInv, HomeInv, TypeOK, Commands
  <1>4. AppliedAfter(n) = q
    BY <1>1, <1>3 DEF Applied, AppliedAfter
  <1>5. \A m \in Nodes \ {n} : AppliedAfter(m) = Applied(m)
    BY <1>1, <1>3 DEF Applied, AppliedAfter
  <1>6. \A m \in Nodes : Applied(m) \in Int
    BY <1>3 DEF Applied, AppliedAfter
  <1> HIDE DEF cmd, q, answer
  <1>7. ASSUME NEW p \in 1 .. Len(log)
        PROVE  Len(replies'[log[p].id]) <=
                   restarts[log[p].coordinator]
                       + IF AppliedAfter(log[p].coordinator) >= p THEN 1 ELSE 0
    <2>1. /\ log[p].id \in Ids
          /\ log[p].coordinator \in Nodes
          /\ restarts[log[p].coordinator] \in Nat
          /\ Len(replies[log[p].id]) \in Nat
      BY EntryType DEF CountInv, HomeInv
    <2>2. Len(replies[log[p].id]) <=
              restarts[log[p].coordinator]
                  + IF Applied(log[p].coordinator) >= p THEN 1 ELSE 0
      BY DEF CountInv, ReplyCount
    <2>3. CASE p = q /\ cmd.coordinator = n
      <3>1. Len(replies'[log[p].id]) = Len(replies[log[p].id]) + 1
        BY <1>1, <1>2, <1>3, <2>3
      <3>2. ~(Applied(n) >= p) /\ AppliedAfter(n) >= p
        BY <1>2, <1>4, <2>3 DEF q
      <3>3. log[p].coordinator = n
        BY <1>2, <2>3
      <3>4. Len(replies[log[p].id]) <= restarts[log[p].coordinator]
        BY <2>1, <2>2, <3>2, <3>3
      <3>5. AppliedAfter(log[p].coordinator) >= p
        BY <3>2, <3>3
      <3> QED BY <2>1, <3>1, <3>4, <3>5
    <2>4. CASE ~(p = q /\ cmd.coordinator = n)
      <3>1. replies'[log[p].id] = replies[log[p].id]
        <4>1. CASE cmd.coordinator # n
          BY <1>1, <4>1
        <4>2. CASE p # q
          <5>1. log[p].id # log[q].id
            BY <1>2, <4>2, SameIdSameCommand
               DEF CountInv, HomeInv, AllKnown, OneHome
          <5> QED BY <1>1, <1>2, <1>3, <2>1, <5>1
        <4> QED BY <2>4, <4>1, <4>2
      <3>2. Applied(log[p].coordinator) >= p => AppliedAfter(log[p].coordinator) >= p
        <4>1. CASE log[p].coordinator = n
          BY <1>2, <1>4, <4>1 DEF q
        <4>2. CASE log[p].coordinator # n
          BY <1>5, <2>1, <4>2
        <4> QED BY <4>1, <4>2
      <3> QED BY <2>1, <2>2, <3>1, <3>2
    <2> QED BY <2>3, <2>4
  <1> QED BY <1>1, <1>7 DEF ReplyCount, Applied, AppliedAfter

LEMMA CountDecide ==
    ASSUME CountInv, NEW c \in proposed, NEW Q \in Majorities, Decide(c, Q)
    PROVE  ReplyCount'
  <1>1. /\ log' = Append(log, c)
        /\ UNCHANGED <<replies, decided_idx, decided_entries, restarts>>
    BY DEF Decide, nodeVars
  <1>2. /\ log \in Seq(Commands)
        /\ c \in Commands
        /\ decided_idx \in [Nodes -> Nat]
        /\ decided_entries \in [Nodes -> Seq(Commands)]
        /\ restarts \in [Nodes -> Nat]
    BY DEF CountInv, HomeInv, TypeOK
  <1>3. /\ Len(log') = Len(log) + 1
        /\ \A i \in 1 .. Len(log) : log'[i] = log[i]
        /\ log'[Len(log) + 1] = c
        /\ Len(log) \in Nat
    BY <1>1, <1>2
  <1>4. replies[c.id] = <<>>
    <2>1. ASSUME NEW i \in 1 .. Len(log)
          PROVE  log[i].id # c.id
      BY SameIdSameCommand DEF CountInv, HomeInv, AllKnown, OneHome
    <2> QED BY <1>2, <2>1, NoAnswerBeforeDecision DEF Commands
  <1>5. \A m \in Nodes : AppliedAfter(m) = Applied(m)
    BY <1>1 DEF Applied, AppliedAfter
  <1>6. ASSUME NEW p \in 1 .. Len(log')
        PROVE  Len(replies[log'[p].id]) <=
                   restarts[log'[p].coordinator]
                       + IF AppliedAfter(log'[p].coordinator) >= p THEN 1 ELSE 0
    <2>1. CASE p = Len(log) + 1
      <3>1. restarts[c.coordinator] \in Nat
        BY <1>2 DEF Commands
      <3> QED BY <1>3, <1>4, <2>1, <3>1
    <2>2. CASE p # Len(log) + 1
      <3>1. p \in 1 .. Len(log) /\ log'[p] = log[p] /\ log[p].coordinator \in Nodes
        BY <1>3, <2>2, EntryType DEF CountInv, HomeInv
      <3>2. AppliedAfter(log[p].coordinator) = Applied(log[p].coordinator)
        BY <1>5, <3>1
      <3> QED BY <3>1, <3>2 DEF CountInv, ReplyCount
    <2> QED BY <2>1, <2>2
  <1> QED BY <1>1, <1>6 DEF ReplyCount, Applied, AppliedAfter

\* A restart forgets what was applied and counts one more life.
LEMMA CountRestart ==
    ASSUME CountInv, NEW n \in Nodes, Restart(n)
    PROVE  ReplyCount'
  <1>1. /\ restarts' = [restarts EXCEPT ![n] = @ + 1]
        /\ decided_idx' = [decided_idx EXCEPT ![n] = 0]
        /\ decided_entries' = [decided_entries EXCEPT ![n] = <<>>]
        /\ UNCHANGED <<log, replies>>
    BY DEF Restart, libVars, logVars
  <1>2. /\ log \in Seq(Commands)
        /\ replies \in [Ids -> Seq(Replies)]
        /\ decided_idx \in [Nodes -> Nat]
        /\ decided_entries \in [Nodes -> Seq(Commands)]
        /\ restarts \in [Nodes -> Nat]
    BY DEF CountInv, HomeInv, TypeOK
  <1>3. \A m \in Nodes \ {n} : AppliedAfter(m) = Applied(m) /\ restarts'[m] = restarts[m]
    BY <1>1, <1>2 DEF Applied, AppliedAfter
  <1>4. restarts'[n] = restarts[n] + 1 /\ restarts[n] \in Nat
    BY <1>1, <1>2
  <1>5. ASSUME NEW p \in 1 .. Len(log)
        PROVE  Len(replies[log[p].id]) <=
                   restarts'[log[p].coordinator]
                       + IF AppliedAfter(log[p].coordinator) >= p THEN 1 ELSE 0
    <2>1. /\ log[p].coordinator \in Nodes
          /\ Len(replies[log[p].id]) \in Nat
          /\ restarts[log[p].coordinator] \in Nat
      BY EntryType DEF CountInv, HomeInv
    <2>2. Len(replies[log[p].id]) <=
              restarts[log[p].coordinator]
                  + IF Applied(log[p].coordinator) >= p THEN 1 ELSE 0
      BY DEF CountInv, ReplyCount
    <2>3. CASE log[p].coordinator = n
      BY <1>4, <2>1, <2>2, <2>3
    <2>4. CASE log[p].coordinator # n
      BY <1>3, <2>1, <2>2, <2>4
    <2> QED BY <2>3, <2>4
  <1> QED BY <1>1, <1>5 DEF ReplyCount, Applied, AppliedAfter

LEMMA CountProcess ==
    ASSUME CountInv, NEW n \in Nodes, Ready(n), process_decided_entries(n),
           stored' \in [Nodes -> 0 .. Len(log)],
           UNCHANGED <<replies, log, restarts>>
    PROVE  ReplyCount'
  <1>1. TypeOK
    BY DEF CountInv, HomeInv
  <1>2. PICK new \in decided_idx[n] .. Len(log) :
              /\ decided_idx' = [decided_idx EXCEPT ![n] = new]
              /\ \A m \in Nodes \ {n} :
                    decided_entries'[m] = decided_entries[m]
              /\ Len(decided_entries'[n]) = new - decided_idx[n]
    <2>1. decided_idx[n] <= Len(log)
      BY DEF CountInv, AnswerInv, ReplicaInv, BatchInv
    <2> QED BY <1>1, <2>1, ProcessDecided
  <1>3. ASSUME NEW m \in Nodes PROVE AppliedAfter(m) = Applied(m)
    <2>1. decided_idx \in [Nodes -> Nat]
      BY <1>1 DEF TypeOK
    <2>2. CASE m = n
      <3>1. Len(decided_entries[n]) = 0
        BY DEF Ready
      <3>2. decided_idx'[n] = new
        BY <1>2, <2>1
      <3>3. new \in Int /\ decided_idx[n] \in Int
        BY <2>1
      <3>4. Len(decided_entries'[n]) = new - decided_idx[n]
        BY <1>2
      <3> QED BY ONLY <2>2, <3>1, <3>2, <3>3, <3>4 DEF Applied, AppliedAfter
    <2>3. CASE m # n
      <3>1. decided_idx'[m] = decided_idx[m]
        BY <1>2, <2>1, <2>3
      <3>2. decided_entries'[m] = decided_entries[m]
        BY <1>2, <2>3
      <3> QED BY <3>1, <3>2 DEF Applied, AppliedAfter
    <2> QED BY <2>2, <2>3
  <1>4. \A p \in 1 .. Len(log) : log[p].coordinator \in Nodes
    BY <1>1, EntryType
  <1>5. \A p \in 1 .. Len(log) :
           AppliedAfter(log[p].coordinator) = Applied(log[p].coordinator)
    BY <1>3, <1>4
  <1> QED BY <1>5 DEF CountInv, ReplyCount, Applied, AppliedAfter

LEMMA CountNext ==
    ASSUME CountInv, [Next]_vars, ~forgotten'
    PROVE  CountInv'
  <1>1. HomeInv' /\ AnswerInv'
    BY HomeNext, AnswerNext DEF CountInv
  <1>2. CASE \E n \in Nodes : apply_and_respond(n)
    BY <1>1, <1>2, CountApply DEF CountInv
  <1>3. CASE \E c \in proposed, Q \in Majorities : Decide(c, Q)
    BY <1>1, <1>3, CountDecide DEF CountInv
  <1>4. CASE \E n \in Nodes : Restart(n)
    BY <1>1, <1>4, CountRestart DEF CountInv
  <1>5. CASE \E n \in Nodes : \/ handle_client_request(n)
                              \/ handle_forwarded_request(n)
                              \/ handle_omnipaxos_message(n)
                              \/ tick(n)
    <2>1. PICK n \in Nodes : /\ Ready(n)
                             /\ process_decided_entries(n)
                             /\ UNCHANGED <<replies, log, restarts>>
      BY <1>5 DEF handle_client_request, handle_forwarded_request,
                  handle_omnipaxos_message, tick, logVars
    <2>2. stored' \in [Nodes -> 0 .. Len(log)]
      BY <1>1, <2>1 DEF HomeInv, TypeOK
    <2> QED BY <1>1, <2>1, <2>2, CountProcess DEF CountInv
  <1>6. CASE UNCHANGED <<replies, log, restarts, decided_idx, decided_entries>>
    BY <1>1, <1>6 DEF CountInv, ReplyCount, Applied
  <1> QED BY <1>2, <1>3, <1>4, <1>5, <1>6, NotForgotten
          DEF Next, Step, ClientSend, LoseRequest, LoseForward, Kill, nodeVars,
              libVars, logVars, vars

LEMMA CountInit == Init => CountInv
  BY HomeInit, AnswerInit DEF Init, CountInv, ReplyCount

\* Until a decided entry is forgotten, a coordinator never answers an
\* operation twice in one life.
THEOREM OneAnswerPerLife == Spec => []OneReplyPerLife
  <1> DEFINE IInv == forgotten \/ CountInv
  <1>1. ASSUME CountInv PROVE OneReplyPerLife
    <2> SUFFICES ASSUME NEW r \in invoked
                 PROVE  Len(replies[r.id]) <= 1 + restarts[r.dest]
      BY DEF OneReplyPerLife
    <2> USE <1>1
    <2>1. /\ r.id \in Ids
          /\ r.dest \in Nodes
          /\ restarts[r.dest] \in Nat
          /\ Len(replies[r.id]) \in Nat
      BY DEF CountInv, HomeInv, TypeOK, Requests
    <2>2. CASE \E p \in 1 .. Len(log) : log[p].id = r.id
      <3>1. PICK p \in 1 .. Len(log) : log[p].id = r.id
        BY <2>2
      <3>2. PICK s \in invoked : log[p] = CommandOf(s)
        BY <3>1 DEF CountInv, HomeInv, AllKnown, Known
      <3>3. s = r
        BY <3>1, <3>2 DEF CountInv, HomeInv, UniqueIds, CommandOf, command
      <3>4. log[p].coordinator = r.dest
        BY <3>2, <3>3 DEF CommandOf, command
      <3>5. Len(replies[r.id]) <=
                restarts[r.dest] + IF Applied(r.dest) >= p THEN 1 ELSE 0
        BY <3>1, <3>4 DEF CountInv, ReplyCount
      <3> QED BY <2>1, <3>5
    <2>3. CASE \A p \in 1 .. Len(log) : log[p].id # r.id
      BY <2>1, <2>3, NoAnswerBeforeDecision
    <2> QED BY <2>2, <2>3
  <1>2. IInv /\ [Next]_vars => IInv'
    BY CountNext, NotForgotten
  <1>3. Init => IInv
    BY CountInit
  <1>4. IInv => OneReplyPerLife
    BY <1>1 DEF OneReplyPerLife
  <1> HIDE DEF IInv
  <1> QED BY <1>2, <1>3, <1>4, PTL DEF Spec

------------------------------------------------------------------------------
(* The cluster implements one atomic store: an operation takes effect when  *)
(* its entry is decided, and every other step of the cluster either calls,  *)
(* answers, or leaves the atomic store alone.  The calls of the atomic      *)
(* store are the bodies the clients sent; they are the operations of the    *)
(* log only when every key is a string.                                     *)

\* The refinement mapping of AtomicStore.
AbsStore == [k \in Keys \cup NonStringKeys |-> states[Len(states)][key_as_str(k)]]

AbsCalled == {[id |-> r.id, op |-> r.body] : r \in invoked}

AbsDone == {[id |-> log[i].id, body |-> reply_to(states[i], log[i].op)] :
               i \in DOMAIN log}

AbsAnswered == UNION {{[id |-> id, body |-> replies[id][k].body] :
                          k \in DOMAIN replies[id]} : id \in Ids}

LEMMA SameMachine ==
    ASSUME NonStringKeys = {}
    PROVE  /\ AtomicStore!EmptyStore = EmptyStore
           /\ AtomicStore!KVOp = Bodies
           /\ \A s, op : AtomicStore!apply_op(s, op) = apply_op(s, op)
           /\ \A s, op : AtomicStore!reply_to(s, op) = reply_to(s, op)
  <1>1. Keys \cup NonStringKeys = Keys
    OBVIOUS
  <1> QED BY <1>1 DEF AtomicStore!EmptyStore, EmptyStore, AtomicStore!KVOp, Bodies,
         AtomicStore!OpsOver, OpsOver, AtomicStore!apply_op, apply_op,
         AtomicStore!reply_to, reply_to, AtomicStore!Ok, Ok,
         AtomicStore!Error, Error

\* With string keys only, the store of the clients is the store of the nodes
\* and the operation of the log is the body that was sent.
LEMMA StringKeys ==
    ASSUME NonStringKeys = {}
    PROVE  /\ \A s \in Stores :
                 [k \in Keys \cup NonStringKeys |-> s[key_as_str(k)]] = s
           /\ \A body \in Bodies : parse_op(body) = body
  <1>1. \A k \in Keys \cup NonStringKeys : key_as_str(k) = k
    BY DEF key_as_str
  <1>2. ASSUME NEW s \in Stores
        PROVE  [k \in Keys \cup NonStringKeys |-> s[key_as_str(k)]] = s
    <2>1. s \in [Keys -> Values \cup {Absent}]
      BY DEF Stores
    <2>2. Keys \cup NonStringKeys = Keys
      OBVIOUS
    <2> QED BY <1>1, <2>1, <2>2
  <1>3. ASSUME NEW body \in Bodies
        PROVE  parse_op(body) = body
    <2>1. CASE body \in [type : {"read"}, key : Keys \cup NonStringKeys]
      BY <1>1, <2>1 DEF parse_op
    <2>2. CASE body \in [type : {"write"}, key : Keys \cup NonStringKeys,
                         value : Values]
      BY <1>1, <2>2 DEF parse_op
    <2>3. CASE body \in [type : {"cas"}, key : Keys \cup NonStringKeys,
                         from : Values, to : Values]
      BY <1>1, <2>3 DEF parse_op
    <2> QED BY <2>1, <2>2, <2>3 DEF Bodies, OpsOver
  <1> QED BY <1>2, <1>3

\* The atomic store is the replay of the whole log.
LEMMA AbsStoreIsReplay ==
    ASSUME NonStringKeys = {}, TypeOK
    PROVE  AbsStore = states[Len(states)]
  <1>1. states[Len(states)] \in Stores
    BY DEF TypeOK
  <1> QED BY <1>1, StringKeys DEF AbsStore

LEMMA RefineInit == Init /\ NonStringKeys = {} => AtomicStore!Init
  <1> SUFFICES ASSUME Init, NonStringKeys = {} PROVE AtomicStore!Init
    OBVIOUS
  <1>1. /\ states = <<EmptyStore>>
        /\ log = <<>>
        /\ invoked = {}
        /\ replies = [id \in Ids |-> <<>>]
    BY DEF Init
  <1>2. AbsStore = EmptyStore
    BY <1>1, AbsStoreIsReplay, TypeInit
  <1>3. AbsCalled = {} /\ AbsDone = {}
    BY <1>1 DEF AbsCalled, AbsDone
  <1>4. AbsAnswered = {}
    BY <1>1 DEF AbsAnswered
  <1> QED BY <1>2, <1>3, <1>4, SameMachine
          DEF AtomicStore!Init, AbsStore, AbsCalled, AbsDone, AbsAnswered

\* A step of the cluster that the atomic store does not see.
LEMMA RefineStutter ==
    ASSUME UNCHANGED <<states, log, invoked, replies>>
    PROVE  UNCHANGED AtomicStore!vars
  BY DEF AtomicStore!vars

\* A client's request is a call.
LEMMA RefineClientSend ==
    ASSUME NonStringKeys = {}, CountInv, NEW r \in Requests, ClientSend(r)
    PROVE  AtomicStore!Next
  <1>1. /\ \A i \in invoked : i.id # r.id
        /\ invoked' = invoked \cup {r}
        /\ UNCHANGED <<states, log, replies>>
    BY DEF ClientSend, libVars, logVars
  <1>2. r.id \in Ids /\ r.body \in Bodies
    BY DEF Requests
  <1>3. \A c \in AbsCalled : c.id # r.id
    BY <1>1 DEF AbsCalled
  <1>4. AbsCalled' = AbsCalled \cup {[id |-> r.id, op |-> r.body]}
    BY <1>1 DEF AbsCalled
  <1>5. AbsStore' = AbsStore /\ AbsDone' = AbsDone /\ AbsAnswered' = AbsAnswered
    BY <1>1 DEF AbsStore, AbsDone, AbsAnswered
  <1>6. AtomicStore!Call(r.id, r.body)
    BY <1>3, <1>4, <1>5
       DEF AtomicStore!Call, AbsStore, AbsCalled, AbsDone, AbsAnswered
  <1> QED BY <1>2, <1>6, SameMachine DEF AtomicStore!Next

\* A decision is the moment an operation takes effect.
LEMMA RefineDecide ==
    ASSUME NonStringKeys = {}, CountInv, TypeOK', NEW c \in proposed, NEW Q \in Majorities, Decide(c, Q)
    PROVE  AtomicStore!Next
  <1>1. /\ log' = Append(log, c)
        /\ states' = Append(states, apply_op(states[Len(states)], c.op))
        /\ UNCHANGED <<invoked, replies>>
    BY DEF Decide
  <1>2. /\ log \in Seq(Commands)
        /\ states \in Seq(Stores)
        /\ Len(log) \in Nat
        /\ Len(states) = Len(log) + 1
        /\ c \in Commands
    BY DEF CountInv, HomeInv, AnswerInv, ReplicaInv, LogInv, TypeOK
  <1>3. /\ DOMAIN log = 1 .. Len(log)
        /\ DOMAIN log' = 1 .. (Len(log) + 1)
        /\ \A i \in 1 .. Len(log) : log'[i] = log[i] /\ states'[i] = states[i]
        /\ log'[Len(log) + 1] = c
        /\ states'[Len(log) + 1] = states[Len(log) + 1]
        /\ Len(states') = Len(states) + 1
        /\ states'[Len(states) + 1] = apply_op(states[Len(states)], c.op)
    BY <1>1, <1>2
  <1>s. /\ AbsStore = states[Len(log) + 1]
        /\ AbsStore' = states'[Len(states')]
    <2>1. states[Len(states)] \in Stores /\ states'[Len(states')] \in Stores
      BY DEF CountInv, HomeInv, TypeOK
    <2>2. AbsStore = states[Len(states)]
      BY <2>1, StringKeys DEF AbsStore
    <2>3. AbsStore' = states'[Len(states')]
      BY <2>1, StringKeys DEF AbsStore
    <2> QED BY <1>2, <2>2, <2>3
  <1> DEFINE call == [id |-> c.id, op |-> c.op]
             result == [id |-> c.id, body |-> reply_to(AbsStore, c.op)]
  <1>4. call \in AbsCalled
    <2>1. PICK r \in invoked : c = CommandOf(r)
      BY DEF CountInv, HomeInv, AllKnown, Known
    <2>2. c.id = r.id /\ c.op = r.body
      <3>1. r.body \in Bodies
        BY DEF CountInv, HomeInv, TypeOK, Requests
      <3> QED BY <2>1, <3>1, StringKeys DEF CommandOf, command
    <2> QED BY <2>2 DEF AbsCalled
  <1>5. \A d \in AbsDone : d.id # c.id
    <2>1. ASSUME NEW i \in 1 .. Len(log)
          PROVE  log[i].id # c.id
      BY SameIdSameCommand DEF CountInv, HomeInv, AllKnown, OneHome
    <2> QED BY <1>3, <2>1 DEF AbsDone
  <1>6. AbsStore' = apply_op(AbsStore, c.op)
    BY <1>2, <1>3, <1>s
  <1>7. AbsDone' = AbsDone \cup {result}
    <2> DEFINE Done(i) == [id |-> log[i].id, body |-> reply_to(states[i], log[i].op)]
               DoneNext(i) == [id |-> log'[i].id,
                               body |-> reply_to(states'[i], log'[i].op)]
    <2>1. \A i \in 1 .. Len(log) : DoneNext(i) = Done(i)
      BY <1>3
    <2>2. DoneNext(Len(log) + 1) = result
      BY <1>3, <1>s
    <2>3. AbsDone = {Done(i) : i \in 1 .. Len(log)}
      BY <1>3 DEF AbsDone
    <2>4. AbsDone' = {DoneNext(i) : i \in 1 .. (Len(log) + 1)}
      BY <1>3 DEF AbsDone
    <2>5. 1 .. (Len(log) + 1) = (1 .. Len(log)) \cup {Len(log) + 1}
      BY <1>2
    <2> HIDE DEF Done, DoneNext, result
    <2> QED BY <2>1, <2>2, <2>3, <2>4, <2>5
  <1>8. AbsCalled' = AbsCalled /\ AbsAnswered' = AbsAnswered
    BY <1>1 DEF AbsCalled, AbsAnswered
  <1>9. AtomicStore!TakeEffect(call)
    <2>1. call.id = c.id /\ call.op = c.op
      OBVIOUS
    <2> QED BY <1>5, <1>6, <1>7, <1>8, <2>1, SameMachine
            DEF AtomicStore!TakeEffect, AbsStore, AbsCalled, AbsDone, AbsAnswered
  <1> HIDE DEF call
  <1> QED BY <1>4, <1>9 DEF AtomicStore!Next, AbsCalled

\* Applying an entry on its coordinator is an answer; elsewhere nothing.
LEMMA RefineApply ==
    ASSUME CountInv, NEW n \in Nodes, apply_and_respond(n)
    PROVE  AtomicStore!Next \/ UNCHANGED AtomicStore!vars
  <1> DEFINE cmd == Head(decided_entries[n])
             p == Applied(n) + 1
             answer == [src |-> n, body |-> reply_to(kv_store[n], cmd.op)]
             d == [id |-> cmd.id, body |-> answer.body]
  <1>1. /\ decided_entries[n] # <<>>
        /\ replies' = IF cmd.coordinator = n
                      THEN [replies EXCEPT ![cmd.id] = Append(@, answer)]
                      ELSE replies
        /\ UNCHANGED <<log, states, invoked>>
    BY DEF apply_and_respond, libVars, logVars
  <1>2. /\ p \in DOMAIN log
        /\ cmd = log[p]
        /\ cmd \in Commands
        /\ kv_store[n] = states[p]
    BY <1>1, AppliedEntry DEF CountInv, AnswerInv
  <1>3. /\ replies \in [Ids -> Seq(Replies)]
        /\ cmd.id \in Ids
    BY <1>2 DEF CountInv, HomeInv, TypeOK, Commands
  <1>4. CASE cmd.coordinator # n
    BY <1>1, <1>4, RefineStutter
  <1>5. CASE cmd.coordinator = n
    <2>1. d \in AbsDone
      BY <1>2 DEF AbsDone
    <2> HIDE DEF cmd, p
    <2>2. /\ replies'[cmd.id] = Append(replies[cmd.id], answer)
          /\ \A id \in Ids \ {cmd.id} : replies'[id] = replies[id]
          /\ replies[cmd.id] \in Seq(Replies)
      BY <1>1, <1>3, <1>5
    <2>3. d.id = cmd.id /\ d.body = answer.body
      OBVIOUS
    <2> HIDE DEF answer
    <2> DEFINE len == Len(replies[cmd.id])
    <2>4. /\ len \in Nat
          /\ DOMAIN replies[cmd.id] = 1 .. len
          /\ DOMAIN replies'[cmd.id] = 1 .. (len + 1)
          /\ \A k \in 1 .. len : replies'[cmd.id][k] = replies[cmd.id][k]
          /\ replies'[cmd.id][len + 1] = answer
      BY <2>2
    <2> HIDE DEF len
    <2>5. \A k \in 1 .. (len + 1) : k \in 1 .. len \/ k = len + 1
      BY <2>4
    <2>6. len + 1 \in 1 .. (len + 1) /\ \A k \in 1 .. len : k \in 1 .. (len + 1)
      BY <2>4
    <2>7. AbsAnswered' = AbsAnswered \cup {d}
      <3>1. ASSUME NEW a \in AbsAnswered'
            PROVE  a \in AbsAnswered \cup {d}
        <4>0. PICK id \in Ids : \E k \in DOMAIN replies'[id] :
                  a = [id |-> id, body |-> replies'[id][k].body]
          BY <3>1 DEF AbsAnswered
        <4>1. PICK k \in DOMAIN replies'[id] :
                  a = [id |-> id, body |-> replies'[id][k].body]
          BY <4>0
        <4>2. CASE id # cmd.id
          BY <2>2, <4>1, <4>2 DEF AbsAnswered
        <4>3. CASE id = cmd.id /\ k = len + 1
          BY <2>4, <4>1, <4>3
        <4>4. CASE id = cmd.id /\ k # len + 1
          <5>1. k \in DOMAIN replies[id] /\ replies'[id][k] = replies[id][k]
            BY <2>4, <2>5, <4>1, <4>4
          <5> QED BY <4>1, <5>1 DEF AbsAnswered
        <4> QED BY <4>2, <4>3, <4>4
      <3>2. ASSUME NEW a \in AbsAnswered
            PROVE  a \in AbsAnswered'
        <4>0. PICK id \in Ids : \E k \in DOMAIN replies[id] :
                  a = [id |-> id, body |-> replies[id][k].body]
          BY <3>2 DEF AbsAnswered
        <4>1. PICK k \in DOMAIN replies[id] :
                  a = [id |-> id, body |-> replies[id][k].body]
          BY <4>0
        <4>2. k \in DOMAIN replies'[id] /\ replies'[id][k] = replies[id][k]
          BY <2>2, <2>4, <2>6, <4>1
        <4> QED BY <4>1, <4>2 DEF AbsAnswered
      <3>3. d \in AbsAnswered'
        <4>1. /\ len + 1 \in DOMAIN replies'[cmd.id]
              /\ d = [id |-> cmd.id, body |-> replies'[cmd.id][len + 1].body]
          BY <2>4, <2>6
        <4> HIDE DEF d
        <4> QED BY <1>3, <4>1 DEF AbsAnswered
      <3> HIDE DEF d
      <3> QED BY <3>1, <3>2, <3>3
    <2>8. AbsStore' = AbsStore /\ AbsCalled' = AbsCalled /\ AbsDone' = AbsDone
      BY <1>1 DEF AbsStore, AbsCalled, AbsDone
    <2> HIDE DEF d
    <2>9. PICK x \in AbsDone : x = d
      BY <2>1
    <2>10. AtomicStore!Answer(x)
      BY <2>7, <2>8, <2>9
         DEF AtomicStore!Answer, AbsStore, AbsCalled, AbsDone, AbsAnswered
    <2> QED BY <2>10 DEF AtomicStore!Next, AbsDone
  <1> QED BY <1>4, <1>5

LEMMA RefineNext ==
    ASSUME NonStringKeys = {}, CountInv, [Next]_vars, ~forgotten'
    PROVE  AtomicStore!Next \/ UNCHANGED AtomicStore!vars
  <1>0. TypeOK'
    BY TypeNext DEF CountInv, HomeInv
  <1>1. CASE \E r \in Requests : ClientSend(r)
    BY <1>1, RefineClientSend
  <1>2. CASE \E c \in proposed, Q \in Majorities : Decide(c, Q)
    BY <1>0, <1>2, RefineDecide
  <1>3. CASE \E n \in Nodes : apply_and_respond(n)
    BY <1>3, RefineApply
  <1>4. CASE UNCHANGED <<states, log, invoked, replies>>
    BY <1>4, RefineStutter
  <1> QED BY <1>1, <1>2, <1>3, <1>4, NotForgotten
          DEF Next, Step, LoseRequest, LoseForward, Kill, Restart,
              handle_client_request, handle_forwarded_request,
              handle_omnipaxos_message, tick, libVars, logVars, vars

\* Whatever is partitioned, killed, forwarded or repeated, clients that use
\* string keys see one atomic store until a decided entry is forgotten.
THEOREM ClusterIsLinearizable ==
    ASSUME NonStringKeys = {}
    PROVE  Spec => Linearizable
  <1> DEFINE IInv == forgotten \/ CountInv
  <1>1. IInv /\ [Next]_vars => IInv'
    BY CountNext, NotForgotten
  <1>2. IInv /\ [Next]_vars =>
            (~forgotten' => [AtomicStore!Next]_(AtomicStore!vars))
    BY RefineNext, NotForgotten
  <1>3. Init => IInv /\ AtomicStore!Init
    BY CountInit, RefineInit
  <1> DEFINE A == ~forgotten' => [AtomicStore!Next]_(AtomicStore!vars)
  <1>4. IInv /\ [Next]_vars => [A]_vars
    BY <1>2
  <1> HIDE DEF IInv, A
  <1>5. Spec => AtomicStore!Init /\ [][A]_vars
    BY <1>1, <1>3, <1>4, PTL DEF Spec
  <1> QED BY <1>5 DEF Linearizable, A


------------------------------------------------------------------------------
(* Without kills nothing is forgotten: a majority keeps the whole decided   *)
(* log, and every majority that could go on without it meets that one.      *)

LEMMA MajoritiesMeet ==
    ASSUME NEW P \in Majorities, NEW Q \in Majorities
    PROVE  \E m \in P : m \in Q
  <1>1. P \in SUBSET Nodes /\ Q \in SUBSET Nodes
    BY DEF Majorities
  <1>2. IsFiniteSet(P) /\ IsFiniteSet(Q) /\ IsFiniteSet(Nodes)
    BY <1>1, ClusterAssumption, FS_Subset
  <1>3. /\ Cardinality(P) \in Nat /\ Cardinality(Q) \in Nat
        /\ Cardinality(Nodes) \in Nat
    BY <1>2, FS_CardinalityType
  <1>4. Cardinality(P) + Cardinality(Q) > Cardinality(Nodes)
    BY <1>3 DEF Majorities
  <1>5. P \cap Q # {}
    BY <1>1, <1>2, <1>4, FS_MajoritiesIntersect
  <1> QED BY <1>5

KeptInv ==
    /\ TypeOK
    /\ ~forgotten
    /\ \A n \in Nodes : alive[n] /\ restarts[n] = 0
    /\ Len(log) = 0 \/ \E P \in Majorities : \A m \in P : stored[m] = Len(log)

LEMMA KeptNext ==
    ASSUME "kill" \notin Nemesis, KeptInv, [Next]_vars
    PROVE  KeptInv'
  <1>0. TypeOK /\ TypeOK' /\ Len(log) \in Nat
    <2>1. TypeOK
      BY DEF KeptInv
    <2>2. TypeOK'
      BY <2>1, TypeNext
    <2>3. Len(log) \in Nat
      BY <2>1 DEF TypeOK
    <2> QED BY <2>1, <2>2, <2>3
  <1>1. ASSUME NEW Q \in Majorities, Forget(Q)
        PROVE  FALSE
    <2>1. PICK o \in Q : /\ \A m \in Q : stored[m] <= stored[o]
                         /\ stored[o] < Len(log)
      BY <1>1 DEF Forget, KeptInv, Majorities
    <2>2. /\ \A m \in Q : stored[m] \in Nat
          /\ stored[o] \in Nat
      BY <1>0 DEF TypeOK, Majorities
    <2>3. Len(log) # 0
      BY <1>0, <2>1, <2>2
    <2>4. PICK P \in Majorities : \A m \in P : stored[m] = Len(log)
      BY <2>3 DEF KeptInv
    <2>5. PICK m \in P : m \in Q
      BY MajoritiesMeet
    <2> QED BY <1>0, <2>1, <2>2, <2>4, <2>5
  <1>2. ASSUME NEW c \in proposed, NEW Q \in Majorities, Decide(c, Q)
        PROVE  KeptInv'
    <2>1. /\ stored' = [m \in Nodes |-> IF m \in Q THEN Len(log) + 1 ELSE stored[m]]
          /\ Len(log') = Len(log) + 1
          /\ UNCHANGED <<alive, forgotten, restarts>>
      BY <1>0, <1>2 DEF Decide, TypeOK
    <2>2. \A m \in Q : stored'[m] = Len(log')
      BY <2>1 DEF Majorities
    <2> QED BY <1>0, <2>1, <2>2 DEF KeptInv
  <1>3. ASSUME NEW n \in Nodes, handle_omnipaxos_message(n)
        PROVE  KeptInv'
    <2>1. UNCHANGED <<log, alive, forgotten, restarts>>
      BY <1>3 DEF handle_omnipaxos_message
    <2>2. PICK m \in Nodes : \E idx \in stored[n] .. stored[m] :
              stored' = [stored EXCEPT ![n] = idx]
      BY <1>3 DEF handle_omnipaxos_message
    <2>3. PICK idx \in stored[n] .. stored[m] : stored' = [stored EXCEPT ![n] = idx]
      BY <2>2
    <2>4. stored[n] \in 0 .. Len(log) /\ stored[m] \in 0 .. Len(log)
      BY <1>0 DEF TypeOK
    <2>5. stored[n] = Len(log) => idx = Len(log)
      BY <1>0, <2>3, <2>4
    <2>6. \A o \in Nodes : stored[o] = Len(log) => stored'[o] = Len(log)
      BY <1>0, <2>3, <2>5 DEF TypeOK
    <2>7. ASSUME NEW P \in Majorities, \A o \in P : stored[o] = Len(log)
          PROVE  \A o \in P : stored'[o] = Len(log')
      BY <2>1, <2>6, <2>7 DEF Majorities
    <2> QED BY <1>0, <2>1, <2>7 DEF KeptInv
  <1>4. ASSUME UNCHANGED <<log, stored, alive, forgotten, restarts>>
        PROVE  KeptInv'
    BY <1>0, <1>4 DEF KeptInv
  <1>5. ASSUME NEW n \in Nodes, Step(n), ~handle_omnipaxos_message(n)
        PROVE  UNCHANGED <<log, stored, alive, forgotten, restarts>>
    <2>1. ~Kill(n) /\ ~Restart(n)
      BY DEF Kill, Restart, KeptInv
    <2>2. CASE \/ handle_client_request(n)
               \/ handle_forwarded_request(n)
               \/ tick(n)
      BY <2>2 DEF handle_client_request, handle_forwarded_request, tick, logVars
    <2>3. CASE apply_and_respond(n)
      BY <2>3 DEF apply_and_respond, libVars, logVars
    <2> QED BY <1>5, <2>1, <2>2, <2>3 DEF Step
  <1>6. CASE \/ \E r \in Requests : ClientSend(r)
             \/ \E r \in requests : LoseRequest(r)
             \/ \E f \in forwards : LoseForward(f)
             \/ UNCHANGED vars
    BY <1>4, <1>6 DEF ClientSend, LoseRequest, LoseForward, libVars, logVars, vars
  <1>7. CASE \E n \in Nodes : Step(n)
    BY <1>3, <1>4, <1>5, <1>7
  <1> QED BY <1>1, <1>2, <1>6, <1>7 DEF Next

LEMMA KeptInit == Init => KeptInv
  BY TypeInit DEF Init, KeptInv

\* Under partitions alone, however long they last and whatever they cut off,
\* clients that use string keys see one atomic store, without any condition:
\* no process loses its MemoryStorage, so no decided entry is forgotten.
THEOREM PartitionsKeepLinearizability ==
    ASSUME NonStringKeys = {}, "kill" \notin Nemesis
    PROVE  Spec => AtomicStore!Spec
  <1> DEFINE IInv == CountInv /\ KeptInv
  <1>1. IInv /\ [Next]_vars => IInv'
    <2> SUFFICES ASSUME CountInv, KeptInv, [Next]_vars
                 PROVE  CountInv' /\ KeptInv'
      OBVIOUS
    <2>1. KeptInv'
      BY KeptNext
    <2>2. ~forgotten'
      BY <2>1 DEF KeptInv
    <2> QED BY <2>1, <2>2, CountNext
  <1>2. IInv /\ IInv' /\ [Next]_vars => [AtomicStore!Next]_(AtomicStore!vars)
    BY RefineNext DEF KeptInv
  <1>3. Init => IInv /\ AtomicStore!Init
    BY CountInit, KeptInit, RefineInit
  <1> HIDE DEF IInv
  <1> QED BY <1>1, <1>2, <1>3, PTL DEF Spec, AtomicStore!Spec
==============================================================================
