------------------------------- MODULE KVServer -------------------------------
(***************************************************************************)
(* The servers of the KV store (src/server/server.rs): the forced election *)
(* of the initial leader, the start signals, and the event loop that hands *)
(* client commands to OmniPaxos and executes what it decides.              *)
(*                                                                         *)
(* A server handles its messages in batches; the batch handlers do nothing *)
(* per batch but send_outgoing_msgs, so that one step handles one message. *)
(* OmniPaxos is external: append accepts, what it accepted is decided at   *)
(* most once when there is a leader, and a server learns more of the       *)
(* decided log from the messages of its peers.                             *)
(***************************************************************************)
EXTENDS KVNetwork

CONSTANT initial_leader

ASSUME LeaderAssumption == initial_leader \in Servers

VARIABLES
    stage,                \* "establishing" or "running" (the main event loop)
    database,             \* the database of each server
    current_decided_idx,  \* how much of the log it has read
    decided_commands,     \* what update_database_and_respond has still to do
    elected,              \* OmniPaxos: initial_leader is in its accept phase
    proposed,             \* OmniPaxos: commands appended, not decided
    log,                  \* OmniPaxos: the decided log
    states                \* history: states[i] is the database before log[i]

localVars == <<database, current_decided_idx, decided_commands>>
libVars == <<elected, proposed, log, states>>
serverVars == <<stage, localVars, libVars>>

Commands ==
    [client_id : ClientIds, coordinator_id : Servers, id : Nat, kv_cmd : KVCommand]

ServerTypeOK ==
    /\ stage \in [Servers -> {"establishing", "running"}]
    /\ database \in [Servers -> Databases]
    /\ current_decided_idx \in [Servers -> Nat]
    /\ decided_commands \in [Servers -> Seq(Commands)]
    /\ elected \in BOOLEAN
    /\ proposed \subseteq Commands
    /\ log \in Seq(Commands)
    /\ states \in Seq(Databases) \ {<<>>}

ServerInit ==
    /\ stage = [s \in Servers |-> "establishing"]
    /\ database = [s \in Servers |-> EmptyDatabase]
    /\ current_decided_idx = [s \in Servers |-> 0]
    /\ decided_commands = [s \in Servers |-> <<>>]
    /\ elected = FALSE
    /\ proposed = {}
    /\ log = <<>>
    /\ states = <<EmptyDatabase>>

------------------------------------------------------------------------------
(* OmniPaxos.                                                               *)

\* try_become_leader succeeds once a majority of the servers is up and
\* connected to the initial leader.
TakeLeadership ==
    /\ ~elected
    /\ stage[initial_leader] = "establishing"
    /\ initial_leader \in resolved
    /\ LET up == {t \in resolved : t = initial_leader \/ Reaches(initial_leader, t)}
       IN  2 * Cardinality(up) > Cardinality(Servers)
    /\ elected' = TRUE
    /\ UNCHANGED <<netVars, stage, localVars, proposed, log, states>>

Decide(cmd) ==
    /\ elected
    /\ log' = Append(log, cmd)
    /\ states' = Append(states, handle_command(states[Len(states)], cmd.kv_cmd))
    /\ proposed' = proposed \ {cmd}
    /\ UNCHANGED <<netVars, stage, localVars, elected>>

------------------------------------------------------------------------------
(* The server's handlers.                                                   *)

\* Network::new has returned and no decided command waits to be executed.
Ready(s) == s \in resolved /\ decided_commands[s] = <<>>

\* send_client_start_signals: to the ids 1 .. num_clients.
send_client_start_signals(s) ==
    send_to_clients(s, [id \in 1 .. num_clients(s) |-> StartSignal])

\* Mutant: the leader does not wait for its accept phase.
establish_initial_leader_at_once(s) ==
    /\ Ready(s)
    /\ s = initial_leader
    /\ stage[s] = "establishing"
    /\ start_signals' = start_signals \cup {<<s, t>> : t \in {t \in Peers(s) : Reaches(s, t)}}
    /\ send_client_start_signals(s)
    /\ stage' = [stage EXCEPT ![s] = "running"]
    /\ UNCHANGED <<registrationVars, peer_connections, closed, breaks,
                   to_server, localVars, libVars>>

\* leader_takeover_interval ticks on the initial leader: once it is in the
\* accept phase it sends the start signals and enters the main loop.  (Before
\* that the tick only calls try_become_leader: see TakeLeadership.)
establish_initial_leader(s) ==
    /\ Ready(s)
    /\ s = initial_leader
    /\ stage[s] = "establishing"
    /\ elected
    /\ start_signals' = start_signals \cup {<<s, t>> : t \in {t \in Peers(s) : Reaches(s, t)}}
    /\ send_client_start_signals(s)
    /\ stage' = [stage EXCEPT ![s] = "running"]
    /\ UNCHANGED <<registrationVars, peer_connections, closed, breaks,
                   to_server, localVars, libVars>>

\* Mutant: the follower keeps the start signal for itself.
handle_start_signal_not_relayed(s, t) ==
    /\ Ready(s)
    /\ <<t, s>> \in start_signals
    /\ start_signals' = start_signals \ {<<t, s>>}
    /\ stage' = [stage EXCEPT ![s] = "running"]
    /\ UNCHANGED <<registrationVars, peer_connections, client_connections,
                   closed, breaks, to_server, to_client, localVars, libVars>>

\* handle_cluster_messages, LeaderStartSignal: relay it to the own clients
\* and leave establish_initial_leader.
handle_start_signal(s, t) ==
    /\ Ready(s)
    /\ <<t, s>> \in start_signals
    /\ start_signals' = start_signals \ {<<t, s>>}
    /\ send_client_start_signals(s)
    /\ stage' = [stage EXCEPT ![s] = "running"]
    /\ UNCHANGED <<registrationVars, peer_connections, closed, breaks,
                   to_server, localVars, libVars>>

\* Mutant: the log is read from its start each time.
handle_decided_entries_from_start(s) ==
    \E new_decided_idx \in current_decided_idx[s] + 1 .. Len(log) :
        /\ current_decided_idx' =
               [current_decided_idx EXCEPT ![s] = new_decided_idx]
        /\ decided_commands' = [decided_commands EXCEPT ![s] =
               SubSeq(log, 1, new_decided_idx)]

\* Mutant: the first new entry is skipped.
handle_decided_entries_off_by_one(s) ==
    \E new_decided_idx \in current_decided_idx[s] + 1 .. Len(log) :
        /\ current_decided_idx' =
               [current_decided_idx EXCEPT ![s] = new_decided_idx]
        /\ decided_commands' = [decided_commands EXCEPT ![s] =
               SubSeq(log, current_decided_idx[s] + 2, new_decided_idx)]

\* Read what OmniPaxos has decided since the last time.
handle_decided_entries(s) ==
    \E new_decided_idx \in current_decided_idx[s] + 1 .. Len(log) :
        /\ current_decided_idx' =
               [current_decided_idx EXCEPT ![s] = new_decided_idx]
        /\ decided_commands' = [decided_commands EXCEPT ![s] =
               SubSeq(log, current_decided_idx[s] + 1, new_decided_idx)]

\* handle_cluster_messages, OmniPaxosMessage.  It takes a peer whose messages
\* still arrive.
handle_omnipaxos_message(s) ==
    /\ Ready(s)
    /\ \E t \in resolved : Reaches(t, s)
    /\ handle_decided_entries(s)
    /\ UNCHANGED <<netVars, stage, database, libVars>>

\* Mutant: every server answers, not only the coordinator.
update_database_and_respond_everywhere(s) ==
    /\ decided_commands[s] # <<>>
    /\ LET command == Head(decided_commands[s])
           response == response_to(database[s], command.kv_cmd, command.id)
       IN  /\ database' = [database EXCEPT ![s] = handle_command(@, command.kv_cmd)]
           /\ send_to_clients(s, [id \in {command.client_id} |-> response])
    /\ decided_commands' = [decided_commands EXCEPT ![s] = Tail(@)]
    /\ UNCHANGED <<registrationVars, peer_connections, closed, breaks,
                   start_signals, to_server, stage, current_decided_idx, libVars>>

\* One turn of the loop: execute the command and, as its coordinator, answer
\* its client.
update_database_and_respond(s) ==
    /\ decided_commands[s] # <<>>
    /\ LET command == Head(decided_commands[s])
           response == response_to(database[s], command.kv_cmd, command.id)
       IN  /\ database' = [database EXCEPT ![s] = handle_command(@, command.kv_cmd)]
           /\ IF command.coordinator_id = s
              THEN send_to_clients(s, [id \in {command.client_id} |-> response])
              ELSE UNCHANGED <<to_client, client_connections>>
    /\ decided_commands' = [decided_commands EXCEPT ![s] = Tail(@)]
    /\ UNCHANGED <<registrationVars, peer_connections, closed, breaks,
                   start_signals, to_server, stage, current_decided_idx, libVars>>

\* Mutant: the client's id and the command's id are swapped.
append_to_log_swapped(s, from, message) ==
    [client_id |-> message.id, coordinator_id |-> s, id |-> from,
     kv_cmd |-> message.cmd]

\* The command that append_to_log makes of a request.
append_to_log(s, from, message) ==
    [client_id |-> from, coordinator_id |-> s, id |-> message.id,
     kv_cmd |-> message.cmd]

\* Mutant: a Get is answered from the local database, without the log.
handle_client_message_local_read(s, c) ==
    /\ Ready(s)
    /\ server_id[c] = s
    /\ to_server[c] # <<>>
    /\ to_server' = [to_server EXCEPT ![c] = Tail(@)]
    /\ LET message == Head(to_server[c])
           response == response_to(database[s], message.cmd, message.id)
       IN  IF message.cmd.type = "Get"
           THEN /\ send_to_clients(s, [id \in {conn_id[c]} |-> response])
                /\ UNCHANGED proposed
           ELSE /\ proposed' = proposed \cup {append_to_log(s, conn_id[c], message)}
                /\ UNCHANGED <<to_client, client_connections>>
    /\ UNCHANGED <<registrationVars, peer_connections, closed, breaks,
                   start_signals, stage, localVars, elected, log, states>>

\* handle_client_messages: append.  Decided entries are not read here.
handle_client_message(s, c) ==
    /\ Ready(s)
    /\ server_id[c] = s
    /\ to_server[c] # <<>>
    /\ to_server' = [to_server EXCEPT ![c] = Tail(@)]
    /\ proposed' = proposed \cup
           {append_to_log(s, conn_id[c], Head(to_server[c]))}
    /\ UNCHANGED <<registrationVars, peer_connections, client_connections,
                   closed, breaks, start_signals, to_client, stage, localVars,
                   elected, log, states>>

\* election_interval ticks, or any other event is handled: its
\* send_outgoing_msgs finds the writer task of a broken connection ended and
\* gives the connection up for good.
send_outgoing_msgs(s, t) ==
    /\ Ready(s)
    /\ t \in peer_connections[s]
    /\ PeerLink(s, t) \in closed
    /\ peer_connections' = [peer_connections EXCEPT ![s] = @ \ {t}]
    /\ UNCHANGED <<registrationVars, client_connections, closed, breaks,
                   start_signals, to_server, to_client, serverVars>>

ServerStep(s) ==
    \/ establish_initial_leader(s)
    \/ handle_omnipaxos_message(s)
    \/ update_database_and_respond(s)
    \/ \E t \in Servers : handle_start_signal(s, t) \/ send_outgoing_msgs(s, t)
    \/ \E c \in Clients : handle_client_message(s, c)
==============================================================================
