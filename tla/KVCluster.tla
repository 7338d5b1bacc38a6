------------------------------ MODULE KVCluster ------------------------------
(***************************************************************************)
(* The OmniPaxos KV store as a whole: servers and clients that find each   *)
(* other, start together, and run until the clients end.  Connections      *)
(* break; servers do not crash (a restarted server would find no listener, *)
(* the code does not provide for it).                                      *)
(***************************************************************************)
EXTENDS KVServer, KVClient

vars == <<netVars, serverVars, clientVars>>

Init == NetInit /\ ServerInit /\ ClientInit

\* The tasks that set up the connections.
RegistrationStep ==
    \/ \E s \in Servers :
           \/ spawn_connection_listener(s)
           \/ initialize_connections(s)
           \/ \E who \in Servers \cup Clients :
                  \/ handle_incoming_connection(s, who)
                  \/ drop_incoming_connection(s, who)
           \/ \E t \in Servers : spawn_peer_connectors(s, t)
    \/ \E c \in Clients : get_server_connection(c)

Break ==
    \/ \E s, t \in Servers : BreakPeer(s, t)
    \/ \E c \in Clients : BreakClient(c)

Next ==
    \/ (RegistrationStep \/ Break) /\ UNCHANGED <<serverVars, clientVars>>
    \/ TakeLeadership /\ UNCHANGED clientVars
    \/ \E cmd \in proposed : Decide(cmd) /\ UNCHANGED clientVars
    \/ \E s \in Servers : ServerStep(s) /\ UNCHANGED clientVars
    \/ \E c \in Clients : ClientStep(c) /\ UNCHANGED serverVars

Spec == Init /\ [][Next]_vars
------------------------------------------------------------------------------
(* Safety.                                                                  *)

TypeOK == RegistrationTypeOK /\ LinkTypeOK /\ ServerTypeOK /\ ClientTypeOK

\* When Network::new returns, nobody is left in the middle of a registration:
\* no accepted connection finds the listener aborted and the channel closed
\* (initialize_connections, whose tasks would panic on send().unwrap()).
NobodyLeftBehind ==
    \A s \in resolved : handshakes[s] = {} /\ connection_source[s] = {}

\* The start signals go to the ids 1 .. num_clients; those are the ids the
\* clients were given, one each, in whatever order they and the peers came.
StartIdsAreClientIds ==
    \A s \in resolved :
        {conn_id[c] : c \in {d \in Clients : server_id[d] = s}} = 1 .. num_clients(s)

\* No client is started, and no command appended, before the initial leader
\* is in its accept phase ("Ensures cluster is connected and initial leader
\* is promoted before returning").
StartedAfterElection ==
    /\ \A c \in Clients : client_stage[c] # "waiting" => elected
    /\ proposed # {} => elected

\* How many entries of the log the server has executed.
Applied(s) == current_decided_idx[s] - Len(decided_commands[s])

\* Every database is the replay of the prefix of the log its server executed.
DatabasesAgree ==
    \A s \in Servers :
        /\ Applied(s) \in 0 .. Len(log)
        /\ database[s] = states[Applied(s) + 1]

\* Clients of different servers have the same ids and the same request ids.
\* Still no client gets a message it panics on: anything but the start signal
\* at first, or a response to a request it has not recorded.
ClientsNeverPanic == \A c \in Clients : client_stage[c] # "panicked"

\* response_count is the number of requests with a response time: no request
\* is answered twice.
ResponsesCountedOnce ==
    \A c \in Clients :
        response_count[c] =
            Cardinality({i \in DOMAIN request_data[c] : request_data[c][i].answered})

(***************************************************************************)
(* The store implements the atomic one that the Maelstrom cluster also     *)
(* implements.  A request is identified by the server, the client id and   *)
(* the request id; it takes effect when its command is decided.            *)
(***************************************************************************)
Operation(cmd) ==
    IF cmd.type = "Put"
    THEN [type |-> "write", key |-> cmd.key, value |-> cmd.value]
    ELSE [type |-> "read", key |-> cmd.key]

Result(response) ==
    IF response.type = "Write" THEN [type |-> "write_ok"]
    ELSE IF response.value = None THEN [type |-> "error", code |-> 20]
    ELSE [type |-> "read_ok", value |-> response.value]

RequestIds == Servers \X ClientIds \X Keys

IdOf(command) == <<command.coordinator_id, command.client_id, command.id>>

AtomicStore == INSTANCE LinearizableKV WITH
    NonStringKeys <- {},
    EmptyKey <- CHOOSE k \in Keys : TRUE,
    Absent <- None,
    Ids <- RequestIds,
    store <- states[Len(states)],
    called <- UNION {{[id |-> <<server_id[c], conn_id[c], i - 1>>,
                       op |-> Operation(IF request_data[c][i].write
                                        THEN Put(i - 1, i - 1) ELSE Get(i - 1))] :
                          i \in DOMAIN request_data[c]} : c \in Clients},
    done <- {[id |-> IdOf(log[i]),
              body |-> Result(response_to(states[i], log[i].kv_cmd, 0))] :
                 i \in DOMAIN log},
    answered <- {[id |-> <<server_id[r.client], conn_id[r.client], r.response.id>>,
                  body |-> Result(r.response)] : r \in results}

\* Puts and Gets of all clients are linearizable, also across broken
\* connections and clients that end with requests under way.
Linearizable ==
    AtomicStore!Init /\ [][UNCHANGED AtomicStore!vars \/ AtomicStore!Next]_vars

------------------------------------------------------------------------------
(* Liveness.                                                                *)

\* The client does not idle: it reads its messages and completes its sends.
ClientWork(c) ==
    wait_for_start_signal(c) \/ handle_server_message(c) \/ send_request(c)

\* Every task runs; OmniPaxos elects the initial leader when it can, decides
\* what was appended and tells the servers it can reach.
FairSpec ==
    /\ Spec
    /\ WF_vars(RegistrationStep /\ UNCHANGED <<serverVars, clientVars>>)
    /\ WF_vars(TakeLeadership /\ UNCHANGED clientVars)
    /\ WF_vars(\E cmd \in proposed : Decide(cmd) /\ UNCHANGED clientVars)
    /\ \A s \in Servers : WF_vars(ServerStep(s) /\ UNCHANGED clientVars)
    /\ \A c \in Clients : WF_vars(ClientWork(c) /\ UNCHANGED serverVars)

\* As long as no connection breaks, every client is started: the one start
\* signal of the leader reaches every follower, also one that is still
\* waiting for its own clients, and from there every client.
EveryClientStarts ==
    [](breaks = 0) => <>(\A c \in Clients : client_stage[c] # "waiting")

IntervalsEnd ==
    WF_vars(\E c \in Clients : next_interval_ends(c) /\ UNCHANGED serverVars)

\* A client that was started ends when its intervals do, whatever connections
\* break: it is never stuck in a send, and run_finished does not wait for
\* responses that may never come.
StartedClientsFinish ==
    IntervalsEnd => []<>(\A c \in Clients : client_stage[c] # "running")

\* The client runs and has a request that is not answered.
Waiting(c) ==
    /\ client_stage[c] = "running"
    /\ \E i \in DOMAIN request_data[c] : ~request_data[c][i].answered

\* As long as no connection breaks, the requests (there are finitely many) of
\* clients that keep running are answered: none is stuck behind a full link,
\* and although decided entries are only read after a message from a peer,
\* none waits forever.
RequestsAnswered ==
    [](breaks = 0) => []<>(\A c \in Clients : ~Waiting(c))
==============================================================================
