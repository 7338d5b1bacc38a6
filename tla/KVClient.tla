------------------------------- MODULE KVClient -------------------------------
(***************************************************************************)
(* The clients of the KV store (src/client/client.rs, data_collection.rs): *)
(* wait for the start signal, send requests at the pace of the configured  *)
(* intervals while recording the responses, and end with the last          *)
(* interval.  Paces are abstracted: a request or the end may come at any   *)
(* time; the end of an interval that is not the last only changes them.    *)
(***************************************************************************)
EXTENDS KVNetwork

CONSTANT MaxRequests   \* bound on the requests of all clients together

\* A request id, as a string, is both a key and a value.
ASSUME ClientAssumption ==
    /\ MaxRequests \in Nat
    /\ 0 .. MaxRequests - 1 \subseteq Keys \cap Values

VARIABLES
    client_stage,         \* place in run: see ClientStages
    sending,              \* the request whose send is awaited, if any
    next_request_id,
    request_data,         \* ClientData: per request, is it a write, is it answered
    response_count,       \* ClientData
    final_request_count,  \* the number of requests when the last interval ended
    results               \* history: [client, response] for each recorded response

clientVars == <<client_stage, sending, next_request_id, request_data,
                response_count, final_request_count, results>>

\* "waiting" for the start signal, "running" its event loop, "finished", or
\* ended by a panic.
ClientStages == {"waiting", "running", "finished", "panicked"}

NotSending == "no"

RequestData == [write : BOOLEAN, answered : BOOLEAN]

ClientTypeOK ==
    /\ client_stage \in [Clients -> ClientStages]
    /\ sending \in [Clients -> {NotSending, "write", "read"}]
    /\ next_request_id \in [Clients -> Nat]
    /\ request_data \in [Clients -> Seq(RequestData)]
    /\ response_count \in [Clients -> Nat]
    /\ final_request_count \in [Clients -> Nat \cup {None}]
    /\ results \subseteq [client : Clients, response : ServerMessages]

ClientInit ==
    /\ client_stage = [c \in Clients |-> "waiting"]
    /\ sending = [c \in Clients |-> NotSending]
    /\ next_request_id = [c \in Clients |-> 0]
    /\ request_data = [c \in Clients |-> <<>>]
    /\ response_count = [c \in Clients |-> 0]
    /\ final_request_count = [c \in Clients |-> None]
    /\ results = {}

\* The first message must be the start signal.
wait_for_start_signal(c) ==
    /\ client_stage[c] = "waiting"
    /\ to_client[c] # <<>>
    /\ to_client' = [to_client EXCEPT ![c] = Tail(@)]
    /\ IF Head(to_client[c]) = StartSignal
       THEN /\ client_stage' = [client_stage EXCEPT ![c] = "running"]
            /\ UNCHANGED closed
       ELSE /\ client_stage' = [client_stage EXCEPT ![c] = "panicked"]
            /\ closed' = closed \cup {ClientLink(c)}
    /\ UNCHANGED <<registrationVars, peer_connections, client_connections,
                   breaks, start_signals, to_server, sending, next_request_id,
                   request_data, response_count, final_request_count, results>>

\* The event loop takes its next event: no request is waiting to be sent.
Idle(c) == client_stage[c] = "running" /\ sending[c] = NotSending

\* Mutant: the client waits for as many responses as it made requests.
run_finished_by_responses(c, final, requests, responses) ==
    final # None /\ responses >= final

run_finished(c, final, requests, responses) ==
    final # None /\ requests >= final

\* A message from the server: new_response marks the request it answers, and
\* panics when there is none; after every message the run may be finished.
handle_server_message(c) ==
    /\ Idle(c)
    /\ to_client[c] # <<>>
    /\ LET msg == Head(to_client[c])
           is_start == msg = StartSignal
           known == msg.id + 1 \in DOMAIN request_data[c]
           failed == ~is_start /\ ~known
           responses == response_count[c] + IF is_start THEN 0 ELSE 1
           finished == run_finished(c, final_request_count[c],
                                    Len(request_data[c]), responses)
       IN  /\ IF is_start \/ ~known
              THEN UNCHANGED <<request_data, response_count, results>>
              ELSE /\ request_data' =
                          [request_data EXCEPT ![c][msg.id + 1].answered = TRUE]
                   /\ response_count' = [response_count EXCEPT ![c] = responses]
                   /\ results' = results \cup {[client |-> c, response |-> msg]}
           /\ IF failed \/ finished
              THEN /\ client_stage' = [client_stage EXCEPT ![c] =
                          IF failed THEN "panicked" ELSE "finished"]
                   /\ shutdown(c)
              ELSE /\ to_client' = [to_client EXCEPT ![c] = Tail(@)]
                   /\ UNCHANGED <<client_stage, closed, to_server>>
    /\ UNCHANGED <<registrationVars, peer_connections, client_connections,
                   breaks, start_signals, sending, next_request_id,
                   final_request_count>>

\* The requests made so far, recorded or being sent.
Requests ==
    UNION {{<<c, i>> : i \in 1 .. Len(request_data[c])
                                  + IF sending[c] = NotSending THEN 0 ELSE 1} :
              c \in Clients}

\* request_interval ticks: the kind of the request is drawn.
request_tick(c, is_write) ==
    /\ Idle(c)
    /\ final_request_count[c] = None
    /\ Cardinality(Requests) < MaxRequests
    /\ sending' = [sending EXCEPT ![c] = IF is_write THEN "write" ELSE "read"]
    /\ UNCHANGED <<netVars, client_stage, next_request_id, request_data,
                   response_count, final_request_count, results>>

\* The request: key and value are the id as a string, here the id itself.
request(c) ==
    LET id == next_request_id[c]
    IN  [id |-> id,
         cmd |-> IF sending[c] = "write" THEN Put(id, id) ELSE Get(id)]

\* Mutant: requests are numbered by the responses received so far.
send_request_id_from_responses(c) ==
    /\ client_stage[c] = "running"
    /\ sending[c] # NotSending
    /\ send(c, [request(c) EXCEPT !.id = response_count[c]])
    /\ request_data' = [request_data EXCEPT ![c] =
           Append(@, [write |-> sending[c] = "write", answered |-> FALSE])]
    /\ next_request_id' = [next_request_id EXCEPT ![c] = @ + 1]
    /\ sending' = [sending EXCEPT ![c] = NotSending]
    /\ UNCHANGED <<registrationVars, peer_connections, client_connections,
                   closed, breaks, start_signals, to_client, client_stage,
                   response_count, final_request_count, results>>

\* The send completes, and only then the request is recorded.  Until then the
\* client handles no message.
send_request(c) ==
    /\ client_stage[c] = "running"
    /\ sending[c] # NotSending
    /\ send(c, request(c))
    /\ request_data' = [request_data EXCEPT ![c] =
           Append(@, [write |-> sending[c] = "write", answered |-> FALSE])]
    /\ next_request_id' = [next_request_id EXCEPT ![c] = @ + 1]
    /\ sending' = [sending EXCEPT ![c] = NotSending]
    /\ UNCHANGED <<registrationVars, peer_connections, client_connections,
                   closed, breaks, start_signals, to_client, client_stage,
                   response_count, final_request_count, results>>

\* The last interval ends.
next_interval_ends(c) ==
    /\ Idle(c)
    /\ final_request_count[c] = None
    /\ LET count == Len(request_data[c])
       IN  /\ final_request_count' = [final_request_count EXCEPT ![c] = count]
           /\ IF run_finished(c, count, count, response_count[c])
              THEN /\ client_stage' = [client_stage EXCEPT ![c] = "finished"]
                   /\ shutdown(c)
              ELSE UNCHANGED <<client_stage, closed, to_server, to_client>>
    /\ UNCHANGED <<registrationVars, peer_connections, client_connections,
                   breaks, start_signals, sending, next_request_id,
                   request_data, response_count, results>>

ClientStep(c) ==
    \/ wait_for_start_signal(c)
    \/ handle_server_message(c)
    \/ \E is_write \in BOOLEAN : request_tick(c, is_write)
    \/ send_request(c)
    \/ next_interval_ends(c)
==============================================================================
