---------------------------- MODULE MaelstromNode ----------------------------
(***************************************************************************)
(* A cluster of Maelstrom nodes (src/bin/maelstrom_node.rs).  Each node is *)
(* one event loop over stdin and a tick timer; it hands every client       *)
(* operation to OmniPaxos, forwards what OmniPaxos rejects to the node it  *)
(* believes to be leader, retries on the tick what it cannot forward, and  *)
(* applies and answers what OmniPaxos decides.                             *)
(*                                                                         *)
(* OmniPaxos is a library outside this repository.  It is modelled from    *)
(* the calls the node makes: append accepts or rejects an entry,           *)
(* get_current_leader answers any node or none, an accepted entry can be   *)
(* decided once, by a majority that then holds the whole log, and a node   *)
(* sees a growing prefix of the log as far as it holds it.  What it holds  *)
(* is in MemoryStorage and dies with the process, entries and promises: a  *)
(* majority that lost them goes on without an entry that was decided.  The *)
(* module OmniPaxosLog shows the elections and rounds behind this.         *)
(***************************************************************************)
EXTENDS KVStore, Integers, Sequences, FiniteSets

CONSTANTS
    Nodes,         \* numbers of the Maelstrom nodes: 0 for "n0", 1 for "n1"...
    Ids,           \* identities (client_src, msg_id) of client operations
    Nemesis,       \* the faults injected: a subset of {"partition", "kill"}
    MaxRestarts    \* bound on the kills of one node

ASSUME ClusterAssumption ==
    /\ Nodes \subseteq Nat
    /\ IsFiniteSet(Nodes)
    /\ Nemesis \subseteq {"partition", "kill"}
    /\ MaxRestarts \in Nat

VARIABLES
    requests,          \* client operations on the way to a node's stdin
    forwards,          \* "forward" messages on the way to a node's stdin
    alive,             \* is the process of the node running?
    kv_store,          \* the node's store
    decided_idx,       \* the node's decided index
    decided_entries,   \* entries process_decided_entries has still to apply
    pending_forwards,  \* commands to retry on the next tick (order abstracted)
    replies,           \* answers written to stdout, per operation, in order
    proposed,          \* OmniPaxos: entries accepted by append, not decided
    log,               \* OmniPaxos: the decided log
    stored,            \* OmniPaxos: how much of it each MemoryStorage holds
    invoked,           \* history: every client operation ever sent
    states,            \* history: states[i] is the store before log[i]
    forgotten,         \* history: has a decided entry been forgotten?
    dropped,           \* history: has a forward been lost?
    restarts           \* history: how often each node was restarted

nodeVars == <<kv_store, decided_idx, decided_entries, pending_forwards>>
logVars == <<log, stored, states, forgotten>>
libVars == <<proposed, logVars>>
vars == <<requests, forwards, alive, nodeVars, replies, libVars,
          invoked, dropped, restarts>>

\* A client message, addressed to a node.
Requests == [dest : Nodes, id : Ids, body : Bodies]

\* MaelstromCommand; id stands for the pair (client_src, msg_id).
Commands == [coordinator : Nodes, id : Ids, op : KVOp]

Forwards == [dest : Nodes, cmd : Commands]

Replies == [src : Nodes, body : ReplyBodies]

------------------------------------------------------------------------------
(* OmniPaxos numbers the nodes from 1; 0 is its "no leader".                *)

maelstrom_to_op_id(n) == n + 1

\* Mutant: the numbering from 1 is forgotten.
op_to_maelstrom_id_unshifted(id) == id

op_to_maelstrom_id(id) == id - 1

NoLeader == 0

\* The answers get_current_leader can give.
LeaderViews == {NoLeader} \cup {maelstrom_to_op_id(n) : n \in Nodes}

------------------------------------------------------------------------------

Init ==
    /\ requests = {}
    /\ forwards = {}
    /\ alive = [n \in Nodes |-> TRUE]
    /\ kv_store = [n \in Nodes |-> EmptyStore]
    /\ decided_idx = [n \in Nodes |-> 0]
    /\ decided_entries = [n \in Nodes |-> <<>>]
    /\ pending_forwards = [n \in Nodes |-> {}]
    /\ replies = [id \in Ids |-> <<>>]
    /\ proposed = {}
    /\ log = <<>>
    /\ stored = [n \in Nodes |-> 0]
    /\ invoked = {}
    /\ states = <<EmptyStore>>
    /\ forgotten = FALSE
    /\ dropped = FALSE
    /\ restarts = [n \in Nodes |-> 0]

------------------------------------------------------------------------------
(* The environment: clients, the network, the consensus library, faults.   *)

\* A client sends an operation, under a fresh identity, to some node.
ClientSend(r) ==
    /\ \A i \in invoked : i.id # r.id
    /\ requests' = requests \cup {r}
    /\ invoked' = invoked \cup {r}
    /\ UNCHANGED <<forwards, alive, nodeVars, replies, libVars, dropped,
                   restarts>>

\* A request to a killed process is lost with the process's stdin.
LoseRequest(r) ==
    /\ ~alive[r.dest]
    /\ requests' = requests \ {r}
    /\ UNCHANGED <<forwards, alive, nodeVars, replies, libVars, invoked,
                   dropped, restarts>>

\* Messages between nodes are also dropped by partitions.
LoseForward(f) ==
    /\ "partition" \in Nemesis \/ ~alive[f.dest]
    /\ forwards' = forwards \ {f}
    /\ dropped' = TRUE
    /\ UNCHANGED <<requests, alive, nodeVars, replies, libVars, invoked,
                   restarts>>

Majorities == {Q \in SUBSET Nodes : 2 * Cardinality(Q) > Cardinality(Nodes)}

\* OmniPaxos decides an entry that append accepted: a leader that holds the
\* whole log gets it, and the entry, into the storage of a running majority.
Decide(c, Q) ==
    /\ \A m \in Q : alive[m]
    /\ \E m \in Q : stored[m] = Len(log)
    /\ log' = Append(log, c)
    /\ stored' = [m \in Nodes |-> IF m \in Q THEN Len(log) + 1 ELSE stored[m]]
    /\ states' = Append(states, apply_op(states[Len(states)], c.op))
    /\ proposed' = proposed \ {c}
    /\ UNCHANGED <<requests, forwards, alive, nodeVars, replies, invoked,
                   forgotten, dropped, restarts>>

\* A leader that does not hold the end of the decided log goes on without it,
\* and the others take its log over.  The majority that lets it either does
\* not hold the end itself or was restarted, and with its storage has lost
\* the promise that kept an older leader from deciding.
Forget(Q) ==
    /\ \A m \in Q : alive[m]
    /\ \E m \in Q :
           /\ \A o \in Q : stored[o] <= stored[m] \/ restarts[o] > 0
           /\ stored[m] < Len(log)
           /\ log' = SubSeq(log, 1, stored[m])
           /\ states' = SubSeq(states, 1, stored[m] + 1)
           /\ stored' = [o \in Nodes |-> IF stored[o] > stored[m]
                                         THEN stored[m] ELSE stored[o]]
    /\ forgotten' = TRUE
    /\ UNCHANGED <<requests, forwards, alive, nodeVars, replies, proposed,
                   invoked, dropped, restarts>>

\* The nemesis kills the process: what it held in memory is gone.
Kill(n) ==
    /\ "kill" \in Nemesis
    /\ alive[n]
    /\ restarts[n] < MaxRestarts
    /\ alive' = [alive EXCEPT ![n] = FALSE]
    /\ UNCHANGED <<requests, forwards, nodeVars, replies, libVars, invoked,
                   dropped, restarts>>

\* Mutant: the decided index survives the restart, the store does not.
Restart_keeps_decided_idx(n) ==
    /\ ~alive[n]
    /\ alive' = [alive EXCEPT ![n] = TRUE]
    /\ restarts' = [restarts EXCEPT ![n] = @ + 1]
    /\ kv_store' = [kv_store EXCEPT ![n] = EmptyStore]
    /\ decided_entries' = [decided_entries EXCEPT ![n] = <<>>]
    /\ pending_forwards' = [pending_forwards EXCEPT ![n] = {}]
    /\ stored' = [stored EXCEPT ![n] = 0]
    /\ UNCHANGED <<requests, forwards, replies, proposed, log, states,
                   forgotten, invoked, dropped, decided_idx>>

\* The process is started again: MaelstromNode::new, on an empty
\* MemoryStorage.
Restart(n) ==
    /\ ~alive[n]
    /\ alive' = [alive EXCEPT ![n] = TRUE]
    /\ restarts' = [restarts EXCEPT ![n] = @ + 1]
    /\ kv_store' = [kv_store EXCEPT ![n] = EmptyStore]
    /\ decided_idx' = [decided_idx EXCEPT ![n] = 0]
    /\ decided_entries' = [decided_entries EXCEPT ![n] = <<>>]
    /\ pending_forwards' = [pending_forwards EXCEPT ![n] = {}]
    /\ stored' = [stored EXCEPT ![n] = 0]
    /\ UNCHANGED <<requests, forwards, replies, proposed, log, states,
                   forgotten, invoked, dropped>>

------------------------------------------------------------------------------
(* The node's handlers.                                                     *)

\* The event loop takes its next event only after the decided entries of
\* the previous one are applied.
Ready(n) == alive[n] /\ decided_entries[n] = <<>>

\* Mutant: a forwarded command is also kept for a retry.
try_append_keeps_forwarded(n, cmds, rest, kept) ==
    \E ok \in SUBSET cmds, leader \in LeaderViews :
        LET rejected == cmds \ ok
            dest == op_to_maelstrom_id(leader)
            forwarded == leader # NoLeader /\ dest # n
        IN  /\ proposed' = proposed \cup ok
            /\ forwards' = rest \cup
                   {[dest |-> dest, cmd |-> c] :
                       c \in IF forwarded THEN rejected ELSE {}}
            /\ pending_forwards' = [pending_forwards EXCEPT ![n] =
                   kept \cup rejected]

\* Hands cmds to append, which accepts those in ok; the rest go to the
\* believed leader, or wait in pending_forwards when there is none or it is
\* this node.  rest and kept are the forwards and the pending commands left
\* after the handler took cmds out of them.
try_append(n, cmds, rest, kept) ==
    \E ok \in SUBSET cmds, leader \in LeaderViews :
        LET rejected == cmds \ ok
            dest == op_to_maelstrom_id(leader)
            forwarded == leader # NoLeader /\ dest # n
        IN  /\ proposed' = proposed \cup ok
            /\ forwards' = rest \cup
                   {[dest |-> dest, cmd |-> c] :
                       c \in IF forwarded THEN rejected ELSE {}}
            /\ pending_forwards' = [pending_forwards EXCEPT ![n] =
                   kept \cup IF forwarded THEN {} ELSE rejected]

\* Mutant: the decided log is read from its start each time.
process_decided_entries_from_start(n) ==
    \E new_decided_idx \in 0 .. stored'[n] :
        IF new_decided_idx > decided_idx[n]
        THEN /\ decided_idx' = [decided_idx EXCEPT ![n] = new_decided_idx]
             /\ decided_entries' = [decided_entries EXCEPT ![n] =
                    SubSeq(log, 1, new_decided_idx)]
        ELSE UNCHANGED <<decided_idx, decided_entries>>

\* The end of every handler: read the suffix of the log decided since the
\* last time, however much of what it holds the node knows to be decided.
process_decided_entries(n) ==
    \E new_decided_idx \in 0 .. stored'[n] :
        IF new_decided_idx > decided_idx[n]
        THEN /\ decided_idx' = [decided_idx EXCEPT ![n] = new_decided_idx]
             /\ decided_entries' = [decided_entries EXCEPT ![n] =
                    SubSeq(log, decided_idx[n] + 1, new_decided_idx)]
        ELSE UNCHANGED <<decided_idx, decided_entries>>

\* The command a client request becomes; this node is its coordinator.
command(n, r) ==
    [coordinator |-> n, id |-> r.id, op |-> parse_op(r.body)]

\* Mutant: a read is answered from the local store, without the log.
handle_client_request_local_read(n) ==
    \E r \in requests :
        /\ Ready(n)
        /\ r.dest = n
        /\ requests' = requests \ {r}
        /\ IF r.body.type = "read"
           THEN /\ replies' = [replies EXCEPT ![r.id] = Append(@,
                       [src |-> n, body |-> reply_to(kv_store[n], parse_op(r.body))])]
                /\ UNCHANGED <<proposed, forwards, pending_forwards>>
           ELSE /\ try_append(n, {command(n, r)}, forwards, pending_forwards[n])
                /\ UNCHANGED replies
        /\ UNCHANGED <<alive, kv_store, logVars, invoked, dropped, restarts>>
        /\ process_decided_entries(n)

handle_client_request(n) ==
    \E r \in requests :
        /\ Ready(n)
        /\ r.dest = n
        /\ requests' = requests \ {r}
        /\ try_append(n, {command(n, r)}, forwards, pending_forwards[n])
        /\ UNCHANGED <<alive, kv_store, replies, logVars, invoked, dropped,
                       restarts>>
        /\ process_decided_entries(n)

handle_forwarded_request(n) ==
    \E f \in forwards :
        /\ Ready(n)
        /\ f.dest = n
        /\ try_append(n, {f.cmd}, forwards \ {f}, pending_forwards[n])
        /\ UNCHANGED <<requests, alive, kv_store, replies, logVars, invoked,
                       dropped, restarts>>
        /\ process_decided_entries(n)

\* A message of the OmniPaxos protocol: the node takes over more of the log
\* from a process that holds it, and learns how much is decided.
handle_omnipaxos_message(n) ==
    /\ Ready(n)
    /\ \E m \in Nodes : \E idx \in stored[n] .. stored[m] :
           alive[m] /\ stored' = [stored EXCEPT ![n] = idx]
    /\ process_decided_entries(n)
    /\ UNCHANGED <<requests, forwards, alive, kv_store, pending_forwards,
                   replies, proposed, log, states, forgotten, invoked, dropped,
                   restarts>>

\* Mutant: the commands taken out of pending_forwards are not retried.
tick_drops_pending(n) ==
    /\ Ready(n)
    /\ try_append(n, {}, forwards, {})
    /\ UNCHANGED <<requests, alive, kv_store, replies, logVars, invoked, dropped,
                   restarts>>
    /\ process_decided_entries(n)

\* Every 100 ms: tick OmniPaxos and retry all the pending commands.
tick(n) ==
    /\ Ready(n)
    /\ try_append(n, pending_forwards[n], forwards, {})
    /\ UNCHANGED <<requests, alive, kv_store, replies, logVars, invoked, dropped,
                   restarts>>
    /\ process_decided_entries(n)

\* Mutant: the answer is computed after the operation is applied.
apply_and_respond_after(n) ==
    /\ alive[n]
    /\ decided_entries[n] # <<>>
    /\ LET cmd == Head(decided_entries[n])
           after == apply_op(kv_store[n], cmd.op)
           answer == [src |-> n, body |-> reply_to(after, cmd.op)]
       IN  /\ kv_store' = [kv_store EXCEPT ![n] = after]
           /\ replies' = IF cmd.coordinator = n
                         THEN [replies EXCEPT ![cmd.id] = Append(@, answer)]
                         ELSE replies
    /\ decided_entries' = [decided_entries EXCEPT ![n] = Tail(@)]
    /\ UNCHANGED <<requests, forwards, alive, decided_idx, pending_forwards,
                   libVars, invoked, dropped, restarts>>

\* One turn of the loop over decided_entries: apply the entry and, on its
\* coordinator, write the answer.  A kill can fall between two turns.
apply_and_respond(n) ==
    /\ alive[n]
    /\ decided_entries[n] # <<>>
    /\ LET cmd == Head(decided_entries[n])
           answer == [src |-> n, body |-> reply_to(kv_store[n], cmd.op)]
       IN  /\ kv_store' = [kv_store EXCEPT ![n] = apply_op(@, cmd.op)]
           /\ replies' = IF cmd.coordinator = n
                         THEN [replies EXCEPT ![cmd.id] = Append(@, answer)]
                         ELSE replies
    /\ decided_entries' = [decided_entries EXCEPT ![n] = Tail(@)]
    /\ UNCHANGED <<requests, forwards, alive, decided_idx, pending_forwards,
                   libVars, invoked, dropped, restarts>>

Step(n) ==
    \/ handle_client_request(n)
    \/ handle_forwarded_request(n)
    \/ handle_omnipaxos_message(n)
    \/ tick(n)
    \/ apply_and_respond(n)
    \/ Kill(n)
    \/ Restart(n)

Next ==
    \/ \E r \in Requests : ClientSend(r)
    \/ \E r \in requests : LoseRequest(r)
    \/ \E f \in forwards : LoseForward(f)
    \/ \E c \in proposed, Q \in Majorities : Decide(c, Q)
    \/ \E Q \in Majorities : Forget(Q)
    \/ \E n \in Nodes : Step(n)

Spec == Init /\ [][Next]_vars
------------------------------------------------------------------------------
(* Safety.                                                                  *)

TypeOK ==
    /\ requests \subseteq Requests
    /\ forwards \subseteq Forwards
    /\ alive \in [Nodes -> BOOLEAN]
    /\ kv_store \in [Nodes -> Stores]
    /\ decided_idx \in [Nodes -> Nat]
    /\ decided_entries \in [Nodes -> Seq(Commands)]
    /\ pending_forwards \in [Nodes -> SUBSET Commands]
    /\ replies \in [Ids -> Seq(Replies)]
    /\ proposed \subseteq Commands
    /\ log \in Seq(Commands)
    /\ stored \in [Nodes -> 0 .. Len(log)]
    /\ invoked \subseteq Requests
    /\ states \in Seq(Stores)
    /\ Len(states) = Len(log) + 1
    /\ forgotten \in BOOLEAN
    /\ dropped \in BOOLEAN
    /\ restarts \in [Nodes -> Nat]

\* How many entries of the log the node has applied.
Applied(n) == decided_idx[n] - Len(decided_entries[n])

\* As long as no decided entry is forgotten, every node's store is the replay
\* of exactly the prefix of the log it has applied, also in the middle of a
\* batch of decided entries and after a restart with empty storage
\* (process_decided_entries, apply_and_respond).
ReplicaAgreement ==
    ~forgotten =>
        \A n \in Nodes :
            /\ Applied(n) \in 0 .. Len(log)
            /\ kv_store[n] = states[Applied(n) + 1]

\* However often try_append forwards, bounces or retries a command, it is
\* in the log at most once: no write or CAS takes effect twice.
AtMostOnce ==
    \A i, j \in DOMAIN log : log[i].id = log[j].id => i = j

\* As long as no decided entry is forgotten, every answer is the result the
\* operation has at its position in the log, and comes from the node the
\* client sent it to, including the answers a restarted coordinator repeats
\* when it replays the log (apply_and_respond).
RepliesAreResults ==
    ~forgotten =>
        \A id \in Ids : \A k \in DOMAIN replies[id] :
            \E i \in DOMAIN log :
                /\ log[i].id = id
                /\ replies[id][k].src = log[i].coordinator
                /\ replies[id][k].body = reply_to(states[i], log[i].op)

\* As long as no decided entry is forgotten, a coordinator answers an
\* operation at most once in each life of its process: decided_idx keeps the
\* node from applying an entry twice.
OneReplyPerLife ==
    ~forgotten => \A r \in invoked : Len(replies[r.id]) <= 1 + restarts[r.dest]

(***************************************************************************)
(* The atomic store of the clients: its keys and calls are the ones the    *)
(* clients sent, before the node reads them, and an operation takes effect *)
(* when its entry is decided.                                              *)
(***************************************************************************)
AtomicStore == INSTANCE LinearizableKV WITH
    Keys <- Keys \cup NonStringKeys,
    NonStringKeys <- {},
    store <- [k \in Keys \cup NonStringKeys |->
                 states[Len(states)][key_as_str(k)]],
    called <- {[id |-> r.id, op |-> r.body] : r \in invoked},
    done <- {[id |-> log[i].id, body |-> reply_to(states[i], log[i].op)] :
                i \in DOMAIN log},
    answered <- UNION {{[id |-> id, body |-> replies[id][k].body] :
                           k \in DOMAIN replies[id]} : id \in Ids}

\* Reads, writes and compare-and-swaps are linearizable ("ALL operations go
\* through the OmniPaxos log", "CAS is checked at apply-time"), under
\* partitions and restarts, as long as OmniPaxos forgets no decided entry:
\* until then every step is a step of the atomic store or invisible to it.
\* Clients that use other keys than strings are excluded: see
\* ReadsReturnWrites.
Linearizable ==
    /\ AtomicStore!Init
    /\ [][~forgotten' => [AtomicStore!Next]_(AtomicStore!vars)]_vars


------------------------------------------------------------------------------
(* Liveness.                                                                *)

\* append accepts operation id.
Accept(id) ==
    (\E n \in Nodes : Step(n)) /\ (\E c \in proposed' \ proposed : c.id = id)

\* Nothing was killed and no forward lost so far.
NoFaults == ~dropped /\ \A n \in Nodes : alive[n] /\ restarts[n] = 0

\* The event loop keeps running, a killed node is restarted, and OmniPaxos
\* is live: it tells every node what is decided, and without faults it does
\* not reject an entry forever and decides what it accepted.
FairSpec ==
    /\ Spec
    /\ \A n \in Nodes :
           /\ WF_vars(Restart(n))
           /\ WF_vars(handle_client_request(n))
           /\ WF_vars(handle_forwarded_request(n))
           /\ WF_vars(apply_and_respond(n))
           /\ WF_vars(/\ handle_omnipaxos_message(n)
                      /\ decided_idx'[n] # decided_idx[n])
    /\ \A id \in Ids :
           /\ SF_vars(NoFaults /\ Accept(id))
           /\ WF_vars(/\ NoFaults
                      /\ \E c \in proposed, Q \in Majorities :
                             c.id = id /\ Decide(c, Q))

Answered(id) == replies[id] # <<>>

\* As long as no process is killed and no forward lost, every request is
\* answered: no command is dropped between append, the forwards and the
\* retries of pending_forwards.
EveryRequestAnswered ==
    []NoFaults =>
        \A id \in Ids : (\E r \in invoked : r.id = id) ~> Answered(id)

\* Operation id is in the decided log, of which nothing was forgotten so far,
\* and some running process holds it.
Held(id) ==
    /\ ~forgotten
    /\ \E i \in DOMAIN log : /\ log[i].id = id
                             /\ \E n \in Nodes : alive[n] /\ stored[n] >= i

\* What is decided is answered, also when forwards are lost and when the
\* coordinator is killed before, during or after the batch that holds the
\* entry, unless a decided entry is forgotten or every process that holds this
\* one is killed first.
DecidedIsAnswered ==
    \A id \in Ids : Held(id) ~> (Answered(id) \/ ~Held(id))
==============================================================================
