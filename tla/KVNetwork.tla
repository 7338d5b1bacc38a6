------------------------------ MODULE KVNetwork ------------------------------
(***************************************************************************)
(* The connections of the OmniPaxos KV store (src/server/network.rs and    *)
(* src/client/network.rs): how servers and clients find each other when a  *)
(* server starts, and what a connection does with messages afterwards.     *)
(*                                                                         *)
(* A link stands for the outgoing channel, the writer task, TCP, the       *)
(* reader task and the incoming channel: a queue without loss while the    *)
(* connection is up.                                                       *)
(***************************************************************************)
EXTENDS KVDatabase, Integers, Sequences, FiniteSets

CONSTANTS
    Servers,    \* ids of the servers
    Clients,    \* client processes
    server_id,  \* configuration: the server of each client
    NoClient,   \* "this id has no connection"
    BatchSize,  \* requests a client link holds before send has to wait
    MaxBreaks   \* bound on the connections that break

ASSUME NetworkAssumption ==
    /\ Servers \subseteq Nat
    /\ IsFiniteSet(Servers)
    /\ IsFiniteSet(Clients)
    /\ server_id \in [Clients -> Servers]
    /\ NoClient \notin Clients
    /\ Clients \cap Servers = {}
    /\ BatchSize \in Nat \ {0}
    /\ MaxBreaks \in Nat

VARIABLES
    listener,            \* the listener task: "unbound", "listening", "aborted"
    connected,           \* <<who, s>>: who has opened its connection to s
    handshakes,          \* connections whose registration s has still to read
    connection_source,   \* NewConnections that s has still to store
    peer_connections,    \* peers to which s holds a connection
    client_connections,  \* the client behind each client id of s
    max_client_id,       \* the last client id that s has given out
    conn_id,             \* the client id in the reader task of a client's link
    resolved,            \* servers whose Network::new has returned
    closed,              \* the connections that are down
    breaks,              \* history: how many links broke
    start_signals,       \* <<s, t>>: a LeaderStartSignal is under way from s to t
    to_server,           \* requests on each client link
    to_client            \* messages to the client on each client link

registrationVars == <<listener, connected, handshakes, connection_source,
                      max_client_id, conn_id, resolved>>
netVars == <<registrationVars, peer_connections, client_connections, closed,
             breaks, start_signals, to_server, to_client>>

Peers(s) == Servers \ {s}

\* Links are named <<who, s>> by who opened them: of two servers the one with
\* the higher id.
PeerLink(s, t) == IF s > t THEN <<s, t>> ELSE <<t, s>>
ClientLink(c) == <<c, server_id[c]>>

\* config.local.num_clients agrees with the deployment.
num_clients(s) == Cardinality({c \in Clients : server_id[c] = s})

\* Enough ids for all clients, should they have the same server.
ClientIds == 1 .. Cardinality(Clients)

NewConnections ==
    [type : {"ToPeer"}, peer_id : Servers]
        \cup [type : {"ToClient"}, client : Clients, client_id : ClientIds]

ClientMessages == [id : Nat, cmd : KVCommand]

StartSignal == [type |-> "StartSignal"]

ServerMessages ==
    {StartSignal}
        \cup [type : {"Write"}, id : Nat]
        \cup [type : {"Read"}, id : Nat, value : Values \cup {None}]

RegistrationTypeOK ==
    /\ listener \in [Servers -> {"unbound", "listening", "aborted"}]
    /\ connected \subseteq (Servers \cup Clients) \X Servers
    /\ handshakes \in [Servers -> SUBSET (Servers \cup Clients)]
    /\ connection_source \in [Servers -> SUBSET NewConnections]
    /\ peer_connections \in [Servers -> SUBSET Servers]
    /\ client_connections \in [Servers -> [ClientIds -> Clients \cup {NoClient}]]
    /\ max_client_id \in [Servers -> Nat]
    /\ conn_id \in [Clients -> ClientIds \cup {0}]
    /\ resolved \subseteq Servers

LinkTypeOK ==
    /\ closed \subseteq connected
    /\ breaks \in Nat
    /\ start_signals \subseteq Servers \X Servers
    /\ to_server \in [Clients -> Seq(ClientMessages)]
    /\ to_client \in [Clients -> Seq(ServerMessages)]

NetInit ==
    /\ listener = [s \in Servers |-> "unbound"]
    /\ connected = {}
    /\ handshakes = [s \in Servers |-> {}]
    /\ connection_source = [s \in Servers |-> {}]
    /\ peer_connections = [s \in Servers |-> {}]
    /\ client_connections = [s \in Servers |-> [id \in ClientIds |-> NoClient]]
    /\ max_client_id = [s \in Servers |-> 0]
    /\ conn_id = [c \in Clients |-> 0]
    /\ resolved = {}
    /\ closed = {}
    /\ breaks = 0
    /\ start_signals = {}
    /\ to_server = [c \in Clients |-> <<>>]
    /\ to_client = [c \in Clients |-> <<>>]

------------------------------------------------------------------------------
(* Registration.                                                            *)

\* The listener task binds its address; before that, connecting fails and is
\* tried again every second.
spawn_connection_listener(s) ==
    /\ listener[s] = "unbound"
    /\ listener' = [listener EXCEPT ![s] = "listening"]
    /\ UNCHANGED <<connected, handshakes, connection_source, max_client_id,
                   conn_id, resolved, peer_connections, client_connections,
                   closed, breaks, start_signals, to_server, to_client>>

\* who opens a connection to s and sends its handshake.
Connect(who, s) ==
    /\ listener[s] = "listening"
    /\ <<who, s>> \notin connected
    /\ connected' = connected \cup {<<who, s>>}
    /\ handshakes' = [handshakes EXCEPT ![s] = @ \cup {who}]
    /\ UNCHANGED <<listener, max_client_id, conn_id, resolved,
                   peer_connections, client_connections, closed, breaks,
                   start_signals, to_server, to_client>>

\* A server connects to the peers with lower ids.
spawn_peer_connectors(s, peer) ==
    /\ peer < s
    /\ Connect(s, peer)
    /\ connection_source' = [connection_source EXCEPT ![s] =
           @ \cup {[type |-> "ToPeer", peer_id |-> peer]}]

get_server_connection(c) ==
    /\ Connect(c, server_id[c])
    /\ UNCHANGED connection_source

\* The task of an accepted connection reads the handshake, gives a client
\* the next id (under the mutex) and passes the connection on.  The tasks run
\* in parallel, so that the connections arrive in any order.
handle_incoming_connection(s, who) ==
    /\ who \in handshakes[s]
    /\ handshakes' = [handshakes EXCEPT ![s] = @ \ {who}]
    /\ IF who \in Servers
       THEN /\ connection_source' = [connection_source EXCEPT ![s] =
                   @ \cup {[type |-> "ToPeer", peer_id |-> who]}]
            /\ UNCHANGED <<max_client_id, conn_id>>
       ELSE /\ max_client_id' = [max_client_id EXCEPT ![s] = @ + 1]
            /\ conn_id' = [conn_id EXCEPT ![who] = max_client_id'[s]]
            /\ connection_source' = [connection_source EXCEPT ![s] =
                   @ \cup {[type |-> "ToClient", client |-> who,
                            client_id |-> max_client_id'[s]]}]
    /\ UNCHANGED <<listener, connected, resolved, peer_connections,
                   client_connections, closed, breaks, start_signals,
                   to_server, to_client>>

\* The handshake of a connection that broke never comes: nobody registers.
drop_incoming_connection(s, who) ==
    /\ who \in handshakes[s]
    /\ <<who, s>> \in closed
    /\ handshakes' = [handshakes EXCEPT ![s] = @ \ {who}]
    /\ UNCHANGED <<listener, connected, connection_source, max_client_id,
                   conn_id, resolved, peer_connections, client_connections,
                   closed, breaks, start_signals, to_server, to_client>>

\* Mutant: only the clients are waited for.
AllConnected_clients_only(s, peers, clients) ==
    Cardinality({id \in ClientIds : clients[id] # NoClient}) >= num_clients(s)

\* The end of the loop of initialize_connections.
AllConnected(s, peers, clients) ==
    /\ Cardinality({id \in ClientIds : clients[id] # NoClient}) >= num_clients(s)
    /\ peers = Peers(s)

\* One turn of the loop: store a connection and, when all are there, abort
\* the listener and return.
initialize_connections(s) ==
    \E new \in connection_source[s] :
        /\ s \notin resolved
        /\ connection_source' = [connection_source EXCEPT ![s] = @ \ {new}]
        /\ IF new.type = "ToPeer"
           THEN /\ peer_connections' =
                       [peer_connections EXCEPT ![s] = @ \cup {new.peer_id}]
                /\ UNCHANGED client_connections
           ELSE /\ client_connections' =
                       [client_connections EXCEPT ![s][new.client_id] = new.client]
                /\ UNCHANGED peer_connections
        /\ IF AllConnected(s, peer_connections'[s], client_connections'[s])
           THEN /\ listener' = [listener EXCEPT ![s] = "aborted"]
                /\ resolved' = resolved \cup {s}
           ELSE UNCHANGED <<listener, resolved>>
        /\ UNCHANGED <<connected, handshakes, max_client_id, conn_id, closed,
                       breaks, start_signals, to_server, to_client>>

------------------------------------------------------------------------------
(* Links.                                                                   *)

\* s has an open connection to t.
Reaches(s, t) == t \in peer_connections[s] /\ PeerLink(s, t) \notin closed

\* What is left of a queue whose link went down: the messages that had
\* already reached the receiver's channel.
Prefixes(q) == {SubSeq(q, 1, n) : n \in 0 .. Len(q)}

\* A connection between two servers breaks, with or without the start signal
\* that is on it.  Neither side ever connects again.
BreakPeer(s, t) ==
    /\ breaks < MaxBreaks
    /\ <<s, t>> \in connected
    /\ <<s, t>> \notin closed
    /\ breaks' = breaks + 1
    /\ closed' = closed \cup {<<s, t>>}
    /\ \E lost \in SUBSET {<<s, t>>, <<t, s>>} :
           start_signals' = start_signals \ lost
    /\ UNCHANGED <<registrationVars, peer_connections, client_connections,
                   to_server, to_client>>

\* A connection between a client and its server breaks.
BreakClient(c) ==
    /\ breaks < MaxBreaks
    /\ ClientLink(c) \in connected
    /\ ClientLink(c) \notin closed
    /\ breaks' = breaks + 1
    /\ closed' = closed \cup {ClientLink(c)}
    /\ \E q \in Prefixes(to_server[c]) :
           to_server' = [to_server EXCEPT ![c] = q]
    /\ \E q \in Prefixes(to_client[c]) :
           to_client' = [to_client EXCEPT ![c] = q]
    /\ UNCHANGED <<registrationVars, peer_connections, client_connections,
                   start_signals>>

\* send_to_client for one message to each of the given ids.  A message to a
\* link that is down is lost; the connection is removed unless the writer
\* task has not noticed yet.
send_to_clients(s, messages) ==
    LET ids == {id \in DOMAIN messages : client_connections[s][id] # NoClient}
        down == {id \in ids : ClientLink(client_connections[s][id]) \in closed}
        id_of(c) == CHOOSE id \in ids : client_connections[s][id] = c
        receivers == {client_connections[s][id] : id \in ids \ down}
    IN  /\ to_client' = [c \in Clients |->
               IF c \in receivers THEN Append(to_client[c], messages[id_of(c)])
                                  ELSE to_client[c]]
        /\ \E removed \in SUBSET down :
               client_connections' = [client_connections EXCEPT ![s] =
                   [id \in ClientIds |->
                       IF id \in removed THEN NoClient ELSE @[id]]]

\* Network::send of a client: waits for room, and loses the request when the
\* connection is down.
send(c, message) ==
    /\ Len(to_server[c]) < BatchSize \/ ClientLink(c) \in closed
    /\ to_server' = [to_server EXCEPT ![c] =
           IF ClientLink(c) \in closed THEN @ ELSE Append(@, message)]

\* Network::shutdown of a client: its tasks are aborted, with the requests
\* the writer has not sent and the messages the client has not read.
shutdown(c) ==
    /\ closed' = closed \cup {ClientLink(c)}
    /\ to_client' = [to_client EXCEPT ![c] = <<>>]
    /\ \E q \in Prefixes(to_server[c]) :
           to_server' = [to_server EXCEPT ![c] = q]
==============================================================================
