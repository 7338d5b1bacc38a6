----------------------------- MODULE JepsenHarness -----------------------------
(***************************************************************************)
(* The test harness (src/bin/jepsen_harness.rs): one thread that drains    *)
(* the nodes' output, routes their messages, records the clients' history, *)
(* sends operations, runs the nemesis, and in the end checks the history.  *)
(*                                                                         *)
(* The nodes are the cluster MaelstromNode shows linearizable for string   *)
(* keys as long as no decided entry is forgotten: a request a node has     *)
(* read may take effect at any later moment, even when the node is dead by *)
(* then, and its coordinator answers it once in each life.                 *)
(***************************************************************************)
EXTENDS NetworkSimulator, LinearizabilityChecker

CONSTANTS
    MaxMessages,   \* bound on the messages between nodes in a test
    MaxHistory     \* bound on a history that answers may still grow

ASSUME HarnessAssumption == MaxMessages \in Nat /\ MaxHistory \in Nat

VARIABLES
    pc,           \* where the harness's loop is
    history,      \* what the harness has recorded
    next_op_id,   \* the next operation id
    taken,        \* ghost: operations whose answer was taken from a pipe
    stdin,        \* per node: requests its process has not read yet
    stdout,       \* per node: what its process wrote and nobody drained
    accepted,     \* cluster: requests read by a node
    store,        \* cluster: the store
    done,         \* cluster: results [node, id, body] of executed requests
    said,         \* per node: operations answered in this life
    messages      \* ghost: messages between nodes so far

harnessVars == <<pc, history, next_op_id, taken>>
clusterVars == <<stdin, stdout, accepted, store, done, said, messages>>
vars == <<netVars, harnessVars, clusterVars>>

\* The addressee of an answer; everything else is for a node.
Client == -1

Output ==
    [src : Nodes, dest : {Client}, id : OpIds, body : ReplyBodies]
        \cup [src : Nodes, dest : Nodes]

Init ==
    /\ NetInit
    /\ pc = "drain"
    /\ history = <<>>
    /\ next_op_id = 1
    /\ taken = {}
    /\ stdin = [n \in Nodes |-> {}]
    /\ stdout = [n \in Nodes |-> <<>>]
    /\ accepted = {}
    /\ store = EmptyStore
    /\ done = {}
    /\ said = [n \in Nodes |-> {}]
    /\ messages = 0

------------------------------------------------------------------------------
(* The node processes.                                                      *)

ReadStdin(n) ==
    \E r \in stdin[n] :
        /\ running[n]
        /\ stdin' = [stdin EXCEPT ![n] = @ \ {r}]
        /\ accepted' = accepted \cup {r}
        /\ UNCHANGED <<netVars, harnessVars, stdout, store, done, said, messages>>

TakeEffect(r) ==
    /\ accepted' = accepted \ {r}
    /\ store' = apply_op(store, r.op)
    /\ done' = done \cup
           {[node |-> r.node, id |-> r.id, body |-> reply_to(store, r.op)]}
    /\ UNCHANGED <<netVars, harnessVars, stdin, stdout, said, messages>>

Answer(d) ==
    /\ running[d.node]
    /\ d.id \notin said[d.node]
    /\ Len(history) < MaxHistory
    /\ said' = [said EXCEPT ![d.node] = @ \cup {d.id}]
    /\ stdout' = [stdout EXCEPT ![d.node] =
           Append(@, [src |-> d.node, dest |-> Client, id |-> d.id, body |-> d.body])]
    /\ UNCHANGED <<netVars, harnessVars, stdin, accepted, store, done, messages>>

\* A node writes a message for another node.
Message(n, m) ==
    /\ running[n]
    /\ messages < MaxMessages
    /\ messages' = messages + 1
    /\ stdout' = [stdout EXCEPT ![n] = Append(@, [src |-> n, dest |-> m])]
    /\ UNCHANGED <<netVars, harnessVars, stdin, accepted, store, done, said>>

------------------------------------------------------------------------------
(* The harness's loop.                                                      *)

\* Writing to the pipe of a dead process makes the harness panic.
send_panics(n) == ~running[n]

\* The answers among the messages, in their order.
ClientMessages(msgs) ==
    LET client_responses[i \in 0 .. Len(msgs)] ==
            IF i = 0 THEN <<>>
            ELSE IF msgs[i].dest = Client
                 THEN Append(client_responses[i - 1], msgs[i])
                 ELSE client_responses[i - 1]
    IN  client_responses[Len(msgs)]

\* The messages between nodes that the network lets through.
Delivered(msgs) ==
    {m \in msgs : /\ m.dest # Client
                  /\ ~is_partitioned(m.src, m.dest)
                  /\ ~is_killed(m.dest)}

\* What these nodes wrote and nobody took yet.
Undrained(nodes) == UNION {ToSet(stdout[n]) : n \in nodes}

\* drain_all_messages takes the output of the nodes in any order of nodes.
Drained == {FlattenSeq([i \in DOMAIN order |-> stdout[order[i]]]) :
               order \in SetToSeqs(Nodes)}

\* Drain, deliver_messages and record_response.
DrainAndRecord ==
    /\ pc = "drain"
    /\ \E msgs \in Drained :
           LET responses == ClientMessages(msgs)
           IN  /\ history' = history \o
                      [i \in DOMAIN responses |->
                          record_response(responses[i].id, responses[i].body)]
               /\ taken' = taken \cup {m.id : m \in ToSet(responses)}
    /\ pc' = IF \E m \in Delivered(Undrained(Nodes)) : send_panics(m.dest)
             THEN "panicked" ELSE "generate"
    /\ stdout' = [n \in Nodes |-> <<>>]
    /\ UNCHANGED <<netVars, next_op_id, stdin, accepted, store, done, said, messages>>

\* A client operation, unless the chosen node is killed.  The invocation is
\* recorded before the request is written.
send_operation(n, op) ==
    /\ pc = "generate"
    /\ next_op_id \in OpIds
    /\ ~is_killed(n)
    /\ next_op_id' = next_op_id + 1
    /\ history' = Append(history,
           [event_type |-> "invoke", id |-> next_op_id, op |-> op])
    /\ IF send_panics(n)
       THEN pc' = "panicked" /\ UNCHANGED stdin
       ELSE /\ pc' = pc
            /\ stdin' = [stdin EXCEPT ![n] = @ \cup
                   {[node |-> n, id |-> next_op_id, op |-> op]}]
    /\ UNCHANGED <<netVars, taken, stdout, accepted, store, done, said, messages>>

GenerateDone ==
    /\ pc = "generate"
    /\ pc' = "nemesis"
    /\ UNCHANGED <<netVars, history, next_op_id, taken, clusterVars>>

\* The nemesis's timer has expired or not.  A killed process takes its
\* unread input along; the process that replaces it has answered nothing
\* and starts with empty pipes.
RunNemesis ==
    /\ pc = "nemesis"
    /\ pc' = "drain"
    /\ \/ NemesisTurn
       \/ UNCHANGED netVars
    /\ stdin' = [n \in Nodes |-> IF running'[n] THEN stdin[n] ELSE {}]
    /\ stdout' = [n \in Nodes |-> IF ~running[n] /\ running'[n] THEN <<>>
                                  ELSE stdout[n]]
    /\ said' = [n \in Nodes |-> IF ~running[n] /\ running'[n] THEN {}
                                ELSE said[n]]
    /\ UNCHANGED <<history, next_op_id, taken, accepted, store, done, messages>>

\* The duration is over: the loop ends and the partitions heal.
TestOver ==
    /\ pc = "drain"
    /\ pc' = "waiting"
    /\ FinalHealing
    /\ UNCHANGED <<history, next_op_id, taken, clusterVars>>

\* The last route_messages, two seconds later, and the check.  It skips the
\* output of killed nodes and drops the answers to clients.
route_messages ==
    /\ pc = "waiting"
    /\ LET msgs == Undrained({n \in Nodes : ~is_killed(n)})
       IN  /\ pc' = IF \E m \in Delivered(msgs) : send_panics(m.dest)
                    THEN "panicked" ELSE "checked"
           /\ taken' = taken \cup {m.id : m \in {x \in msgs : x.dest = Client}}
    /\ stdout' = [n \in Nodes |-> IF is_killed(n) THEN stdout[n] ELSE <<>>]
    /\ UNCHANGED <<netVars, history, next_op_id, stdin, accepted, store, done,
                   said, messages>>

Harness ==
    \/ DrainAndRecord
    \/ \E n \in Nodes, op \in KVOp : send_operation(n, op)
    \/ GenerateDone
    \/ RunNemesis
    \/ TestOver
    \/ route_messages

Next ==
    \/ Harness
    \/ \E n \in Nodes : ReadStdin(n)
    \/ \E r \in accepted : TakeEffect(r)
    \/ \E d \in done : Answer(d)
    \/ \E n \in Nodes : \E m \in Nodes \ {n} : Message(n, m)

Spec == Init /\ [][Next]_vars

------------------------------------------------------------------------------

TypeOK ==
    /\ NetTypeOK
    /\ pc \in {"drain", "generate", "nemesis", "waiting", "checked", "panicked"}
    /\ history \in Seq(Invocations \cup Responses)
    /\ next_op_id \in Nat
    /\ taken \subseteq OpIds
    /\ stdin \in [Nodes -> SUBSET [node : Nodes, id : OpIds, op : KVOp]]
    /\ stdout \in [Nodes -> Seq(Output)]
    /\ accepted \subseteq [node : Nodes, id : OpIds, op : KVOp]
    /\ store \in Stores
    /\ done \subseteq [node : Nodes, id : OpIds, body : ReplyBodies]
    /\ said \in [Nodes -> SUBSET OpIds]
    /\ messages \in 0 .. MaxMessages

\* No write of the harness, to any node in any state of the nemesis, meets a
\* dead process: the harness runs to the check.
NeverPanics == pc # "panicked"

\* A linearizable cluster is not reported as faulty when every operation was
\* answered, in spite of late, reordered and repeated answers: each recorded
\* interval holds the moment at which its operation took effect.
AnsweredRunPasses ==
    Unanswered(history) = {} => check_linearizability(history)

\* "Wait for remaining responses" (main): what the nodes answered while the
\* harness was still taking their output is in the history it checks.
AnswersAreRecorded == taken \subseteq Completed(history)
==============================================================================
